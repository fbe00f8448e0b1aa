------------------------------- MODULE Shell -------------------------------
(***************************************************************************)
(* HW1: the shell as a process among its children.  The shell reads a      *)
(* line, forks one child per program of a pipeline, hands the pipes down   *)
(* and waits for the children that are not in the background; a SIGCHLD    *)
(* handler reaps whatever has terminated, at any moment and also while the *)
(* shell waits for that very child.  The kernel's part is modelled from    *)
(* how the code uses it: descriptor tables, pipes that report end of file  *)
(* when nobody can write any more, zombies, and a SIGCHLD signal that is   *)
(* pending or not (signals do not queue) and blocked while its handler     *)
(* runs.                                                                   *)
(***************************************************************************)
EXTENDS ShellParser, FiniteSets

CONSTANTS
  Lines,            \* the lines a user may type
  MaxChildren,      \* bound: children forked in a behaviour
  MaxPipeFailures,  \* bound: failing calls of pipe()
  Garbage           \* what uninitialized descriptors may hold

ASSUME ChildrenAssumption == MaxChildren \in Nat
ASSUME FailureAssumption  == MaxPipeFailures \in Nat

\* The parser ends a line with at least one program, and takes it for a
\* pipeline when it has more.
ASSUME LineAssumption ==
  \A line \in Lines :
    LET parser == Parse(Tokenize(line))
    IN /\ Len(parser.programs) \in Nat \ {0}
       /\ parser.is_pipeline <=> Len(parser.programs) > 1

VARIABLES
  shell,     \* control state of the shell's main thread
  programs,  \* the programs of the command being run
  i,         \* the loop index, from 1
  pids,      \* the children still to be waited for, in order
  input_file_descriptor,
  pipe_file_descriptors,
  fds,       \* the descriptor table of every process
  child,     \* the life of every child
  job,       \* what every child was forked for
  sigchld,   \* SIGCHLD is pending
  handler,   \* sigchld_handler is running
  failures   \* calls of pipe() that failed

mainVars   == <<shell, programs, i, pids, input_file_descriptor, pipe_file_descriptors>>
kernelVars == <<fds, child, job>>
signalVars == <<sigchld, handler>>
vars == <<mainVars, kernelVars, signalVars, failures>>

Children == 1..MaxChildren
SHELL    == 0
Fds      == 0..5
STDIN    == 0
STDOUT   == 1

---------------------------------------------------------------------------
(* Descriptors.  A pipe is named after the child forked right after it.    *)

Closed   == [to |-> "nothing", pipe |-> 0]
Terminal == [to |-> "terminal", pipe |-> 0]
File     == [to |-> "file", pipe |-> 0]
ReadEnd(p)  == [to |-> "read end", pipe |-> p]
WriteEnd(p) == [to |-> "write end", pipe |-> p]

AllClosed == [f \in Fds |-> Closed]

\* close and dup2 fail, changing nothing, on a descriptor that is not open.
close(t, f)   == IF f \in Fds THEN [t EXCEPT ![f] = Closed] ELSE t
dup2(t, f, g) == IF f \in Fds /\ t[f] # Closed THEN [t EXCEPT ![g] = t[f]] ELSE t

\* The processes that have end e open.
Holders(e) == {p \in {SHELL} \cup Children : \E f \in Fds : fds[p][f] = e}

---------------------------------------------------------------------------
(* The main thread.                                                        *)

program_num == Len(programs)
Forked  == {c \in Children : child[c] # "unused"}
NewChild == Cardinality(Forked) + 1

\* main reads a line, tokenizes and parses it.  Only lines that are not blank
\* and parse change anything.  A shell whose standard input is gone sees the end of input.
ReadCommand ==
  /\ shell = "prompt"
  /\ fds[SHELL][STDIN] # Closed
  /\ \E line \in Lines :
       LET parser == Parse(Tokenize(line))
       IN /\ Tokenize(line) # <<>> /\ parser.ok
          /\ Cardinality(Forked) + Len(parser.programs) <= MaxChildren
          /\ programs' = parser.programs
          /\ shell' = IF parser.is_pipeline THEN "pipe"
                      ELSE IF parser.programs[1].program_name = <<>> THEN "prompt"
                      ELSE "fork"
          /\ i' = 1 /\ pids' = <<>>
          /\ input_file_descriptor' = STDIN
          /\ pipe_file_descriptors' \in IF parser.is_pipeline
                                        THEN Garbage \X Garbage
                                        ELSE {pipe_file_descriptors}
  /\ UNCHANGED <<kernelVars, signalVars, failures>>

\* Ctrl-D, or no standard input.
EndOfInput ==
  /\ shell = "prompt"
  /\ shell' = "exited"
  /\ fds' = [fds EXCEPT ![SHELL] = AllClosed]
  /\ UNCHANGED <<programs, i, pids, input_file_descriptor, pipe_file_descriptors,
                 child, job, signalVars, failures>>

\* pipe() takes the two lowest free descriptors for a pipe behind program i.
CreatePipe ==
  /\ shell = "pipe" /\ i < program_num
  /\ \E r, w \in Fds :
       /\ r < w
       /\ \A f \in 0..w : fds[SHELL][f] = Closed <=> f \in {r, w}
       /\ fds' = [fds EXCEPT ![SHELL][r] = ReadEnd(NewChild), ![SHELL][w] = WriteEnd(NewChild)]
       /\ pipe_file_descriptors' = <<r, w>>
  /\ shell' = "fork"
  /\ UNCHANGED <<programs, i, pids, input_file_descriptor, child, job, signalVars, failures>>

\* pipe() fails: an error is printed and the loop goes on with whatever
\* pipe_file_descriptors held before.
PipeFails ==
  /\ shell = "pipe" /\ i < program_num
  /\ failures < MaxPipeFailures
  /\ failures' = failures + 1
  /\ shell' = "fork"
  /\ UNCHANGED <<programs, i, pids, input_file_descriptor, pipe_file_descriptors,
                 kernelVars, signalVars>>

\* The last program needs no pipe behind it.
NoPipe ==
  /\ shell = "pipe" /\ i = program_num
  /\ shell' = "fork"
  /\ UNCHANGED <<programs, i, pids, input_file_descriptor, pipe_file_descriptors,
                 kernelVars, signalVars, failures>>

\* The child starts with copies of the shell's memory and descriptors.
Fork ==
  /\ shell = "fork"
  /\ LET c == NewChild
     IN /\ child' = [child EXCEPT ![c] = "forked"]
        /\ fds' = [fds EXCEPT ![c] = fds[SHELL]]
        /\ job' = [job EXCEPT ![c] =
                     [program |-> programs[i], piped |-> i < program_num,
                      input |-> input_file_descriptor, pipe |-> pipe_file_descriptors]]
  /\ shell' = "parent"
  /\ UNCHANGED <<programs, i, pids, input_file_descriptor, pipe_file_descriptors,
                 signalVars, failures>>

\* The shell exits when fork fails, whatever it has forked before.
ForkFails ==
  /\ shell = "fork"
  /\ shell' = "exited"
  /\ fds' = [fds EXCEPT ![SHELL] = AllClosed]
  /\ UNCHANGED <<programs, i, pids, input_file_descriptor, pipe_file_descriptors,
                 child, job, signalVars, failures>>

\* Mutant: the read end of the pipe in front of the program stays open.
ParentKeepsReadEnd ==
  IF i < program_num THEN close(fds[SHELL], pipe_file_descriptors[2]) ELSE fds[SHELL]

\* Mutant: the write end of the pipe behind the program stays open.
ParentKeepsWriteEnd ==
  IF input_file_descriptor # STDIN THEN close(fds[SHELL], input_file_descriptor)
                                   ELSE fds[SHELL]

\* The shell's descriptors once it has closed what its children got.
ParentCloses ==
  LET input_closed == IF input_file_descriptor # STDIN
                      THEN close(fds[SHELL], input_file_descriptor) ELSE fds[SHELL]
  IN IF i < program_num THEN close(input_closed, pipe_file_descriptors[2]) ELSE input_closed

\* Mutant: a background child is noted as pid 0.
RememberAsZero(c) == Append(pids, IF programs[i].background THEN 0 ELSE c)

\* Mutant: only the last program of a pipeline is waited for.
RememberLast(c) == IF programs[i].background THEN <<>> ELSE <<c>>

\* A child that is not in the background will be waited for.
Remember(c) == IF programs[i].background THEN pids ELSE Append(pids, c)

\* The parent's half of the loop: the ends of the pipe the children have got
\* are closed, the read end is kept for the next program.
Parent ==
  /\ shell = "parent"
  /\ fds' = [fds EXCEPT ![SHELL] = ParentCloses]
  /\ pids' = Remember(Cardinality(Forked))
  /\ IF i < program_num
     THEN /\ input_file_descriptor' = pipe_file_descriptors[1]
          /\ i' = i + 1
          /\ shell' = "pipe"
     ELSE /\ shell' = IF pids' = <<>> THEN "prompt" ELSE "wait"
          /\ UNCHANGED <<input_file_descriptor, i>>
  /\ UNCHANGED <<programs, pipe_file_descriptors, child, job, signalVars, failures>>

\* Mutant: waitpid is called with WNOHANG.
WaitNoHang ==
  /\ shell = "wait"
  /\ child' = [child EXCEPT ![Head(pids)] = IF @ = "zombie" THEN "reaped" ELSE @]
  /\ pids' = Tail(pids)
  /\ shell' = IF Tail(pids) = <<>> THEN "prompt" ELSE "wait"
  /\ UNCHANGED <<programs, i, input_file_descriptor, pipe_file_descriptors,
                 fds, job, signalVars, failures>>

\* waitpid(pid, nullptr, 0) returns when the child is a zombie, which it
\* reaps, or when there is no such child any more (ECHILD, not looked at).
Wait ==
  /\ shell = "wait"
  /\ child[Head(pids)] \in {"zombie", "reaped"}
  /\ child' = [child EXCEPT ![Head(pids)] = "reaped"]
  /\ pids' = Tail(pids)
  /\ shell' = IF Tail(pids) = <<>> THEN "prompt" ELSE "wait"
  /\ UNCHANGED <<programs, i, input_file_descriptor, pipe_file_descriptors,
                 fds, job, signalVars, failures>>

\* The steps that bring a command to its end.
RunCommand == CreatePipe \/ PipeFails \/ NoPipe \/ Fork \/ Parent \/ Wait

---------------------------------------------------------------------------
(* sigchld_handler, on the main thread.                                    *)

Alive == {c \in Children : child[c] \in {"forked", "wired", "running"}}
Zombies == {c \in Children : child[c] = "zombie"}

DeliverSignal ==
  /\ sigchld /\ ~handler
  /\ sigchld' = FALSE /\ handler' = TRUE
  /\ UNCHANGED <<mainVars, kernelVars, failures>>

\* Mutant: "if" instead of "while", one child is reaped for each signal.
HandlerReapsOnce ==
  /\ handler
  /\ \E c \in Zombies : child' = [child EXCEPT ![c] = "reaped"]
  /\ handler' = FALSE
  /\ UNCHANGED <<mainVars, fds, job, sigchld, failures>>

\* One waitpid(-1, nullptr, WNOHANG) that finds somebody: the loop goes on.
HandlerReaps ==
  /\ handler
  /\ \E c \in Zombies : child' = [child EXCEPT ![c] = "reaped"]
  /\ UNCHANGED <<mainVars, fds, job, signalVars, failures>>

HandlerReturns ==
  /\ handler /\ Zombies = {}
  /\ handler' = FALSE
  /\ UNCHANGED <<mainVars, kernelVars, sigchld, failures>>

Handler == DeliverSignal \/ HandlerReaps \/ HandlerReturns

---------------------------------------------------------------------------
(* The children.                                                           *)

\* All the descriptors of the processes in D are closed, they wait to be
\* reaped, and the shell is sent SIGCHLD (one signal however many they are).
Terminate(D) ==
  /\ child' = [c \in Children |-> IF c \in D THEN "zombie" ELSE child[c]]
  /\ fds' = [p \in {SHELL} \cup Children |-> IF p \in D THEN AllClosed ELSE fds[p]]
  /\ sigchld' = TRUE
  /\ UNCHANGED <<mainVars, job, handler, failures>>

\* Mutant: standard output becomes the pipe's read end.
PlumbSwapped(c) ==
  LET input == job[c].input
      pipe  == job[c].pipe
      in  == IF input # STDIN THEN close(dup2(fds[c], input, STDIN), input) ELSE fds[c]
  IN IF job[c].piped THEN close(close(dup2(in, pipe[1], STDOUT), pipe[2]), pipe[1]) ELSE in

\* Mutant: the child keeps the pipe's own descriptors.
PlumbWithoutClose(c) ==
  LET in == IF job[c].input # STDIN THEN dup2(fds[c], job[c].input, STDIN) ELSE fds[c]
  IN IF job[c].piped THEN dup2(in, job[c].pipe[2], STDOUT) ELSE in

\* The child's descriptors with the pipes in place of its standard input and
\* output.
Plumb(c) ==
  LET input == job[c].input
      pipe  == job[c].pipe
      in  == IF input # STDIN THEN close(dup2(fds[c], input, STDIN), input) ELSE fds[c]
  IN IF job[c].piped THEN close(close(dup2(in, pipe[2], STDOUT), pipe[2]), pipe[1]) ELSE in

\* signal(SIGINT, SIG_DFL) and the pipes.  A program run alone has none.
Wire(c) ==
  /\ child[c] = "forked"
  /\ fds' = [fds EXCEPT ![c] = Plumb(c)]
  /\ child' = [child EXCEPT ![c] = "wired"]
  /\ UNCHANGED <<mainVars, job, signalVars, failures>>

\* redirect_handler, then execvp.
Exec(c) ==
  /\ child[c] = "wired"
  /\ job[c].program.program_name # <<>>
  /\ LET p   == job[c].program
         in  == IF p.infile # <<>> THEN [fds[c] EXCEPT ![STDIN] = File] ELSE fds[c]
         out == IF p.outfile # <<>> THEN [in EXCEPT ![STDOUT] = File] ELSE in
     IN fds' = [fds EXCEPT ![c] = out]
  /\ child' = [child EXCEPT ![c] = "running"]
  /\ UNCHANGED <<mainVars, job, signalVars, failures>>

\* There is no program with an empty name (the line ended with "|").
ExecFails(c) ==
  /\ child[c] = "wired"
  /\ job[c].program.program_name = <<>>
  /\ Terminate({c})

\* A file cannot be opened, the program cannot be executed, or the running
\* program ends early or is killed.
EndsEarly(c) ==
  /\ child[c] \in {"wired", "running"}
  /\ Terminate({c})

\* The program has read its input to the end of file and got rid of its
\* output: a full pipe needs a program that reads it (when nobody has the
\* read end any more the writer is killed by SIGPIPE).
Finishes(c) ==
  /\ child[c] = "running"
  /\ LET input == fds[c][STDIN] output == fds[c][STDOUT]
     IN /\ input.to = "read end" => Holders(WriteEnd(input.pipe)) = {}
        /\ output.to = "write end" =>
             LET readers == Holders(ReadEnd(output.pipe))
             IN readers = {} \/ \E d \in readers \cap Children : child[d] = "running"
  /\ Terminate({c})

\* Ctrl-C reaches every process of the terminal's process group; the shell
\* and a child that has not reset the signal ignore it.
CtrlC ==
  LET hit == {c \in Alive : child[c] # "forked"}
  IN hit # {} /\ Terminate(hit)

ChildStep(c) == Wire(c) \/ Exec(c) \/ ExecFails(c) \/ Finishes(c)

---------------------------------------------------------------------------
Init ==
  /\ shell = "prompt" /\ programs = <<>> /\ i = 1 /\ pids = <<>>
  /\ input_file_descriptor = STDIN
  /\ pipe_file_descriptors = <<-1, -1>>
  /\ fds = [p \in {SHELL} \cup Children |->
              [f \in Fds |-> IF p = SHELL /\ f <= 2 THEN Terminal ELSE Closed]]
  /\ child = [c \in Children |-> "unused"]
  /\ job = [c \in Children |-> [program |-> NoProgram, piped |-> FALSE,
                                input |-> STDIN, pipe |-> <<-1, -1>>]]
  /\ sigchld = FALSE /\ handler = FALSE
  /\ failures = 0

\* The handler interrupts the main thread; children go on.
Next ==
  \/ /\ shell # "exited"
     /\ \/ ~handler /\ (ReadCommand \/ EndOfInput \/ ForkFails \/ RunCommand)
        \/ Handler
  \/ \E c \in Children : ChildStep(c) \/ EndsEarly(c)
  \/ CtrlC
  \/ shell = "exited" /\ UNCHANGED vars

Spec == Init /\ [][Next]_vars

\* The shell and its handler run, children get through their set-up, and a
\* program that has all its input and nothing left to write ends.
FairSpec ==
  /\ Spec
  /\ WF_vars(shell # "exited" /\ ~handler /\ RunCommand)
  /\ WF_vars(shell # "exited" /\ Handler)
  /\ \A c \in Children : WF_vars(ChildStep(c))

---------------------------------------------------------------------------
(* What the shell promises.                                                *)

End == [to : {"nothing", "terminal", "file", "read end", "write end"},
        pipe : 0..MaxChildren]

TypeOK ==
  /\ shell \in {"prompt", "pipe", "fork", "parent", "wait", "exited"}
  /\ i \in Nat /\ pids \in Seq(Children)
  /\ input_file_descriptor \in Fds \cup Garbage
  /\ fds \in [{SHELL} \cup Children -> [Fds -> End]]
  /\ child \in [Children -> {"unused", "forked", "wired", "running", "zombie", "reaped"}]
  /\ sigchld \in BOOLEAN /\ handler \in BOOLEAN
  /\ failures \in 0..MaxPipeFailures

\* "Get rid of zombies": although SIGCHLDs of several children merge into
\* one, a zombie is never left behind unnoticed.
NoForgottenZombie == Zombies # {} => sigchld \/ handler

\* "Wait until the child terminates": when the prompt is shown again every
\* child that is not in the background is gone, also when the handler reaped
\* it before the shell came to wait for it.
ForegroundDone ==
  shell = "prompt" =>
    \A c \in Alive \cup Zombies : job[c].program.background

\* No call of pipe() has failed.  After one has, the shell goes on with
\* descriptors that are not a pipe's, and the next four do not hold.
PipesWork == failures = 0

\* After a command, however its children ended, the shell has its terminal
\* and no end of a pipe.
ShellKeepsNoPipe ==
  PipesWork /\ shell = "prompt" =>
    \A f \in Fds : fds[SHELL][f] = IF f <= 2 THEN Terminal ELSE Closed

\* The end of file gets through: besides the program that writes to it, only
\* the shell between pipe() and its close has a pipe's write end; and a
\* program that runs has no descriptor beyond its standard three.
SoleWriter ==
  PipesWork => \A c \in Children :
    /\ Holders(WriteEnd(c)) \subseteq
         {c} \cup (IF shell \in {"fork", "parent"} THEN {SHELL} ELSE {})
    /\ child[c] = "running" => \A f \in Fds : f > 2 => fds[c][f] = Closed

\* Neighbours in a pipeline are connected: what a program writes the next one
\* reads, unless a file takes the pipe's place.
Wired ==
  \A c \in Children : (PipesWork /\ child[c] = "running" /\ job[c].piped) =>
    /\ fds[c][STDOUT] = IF job[c].program.outfile = <<>> THEN WriteEnd(c) ELSE File
    /\ (c < MaxChildren /\ child[c + 1] = "running") =>
         fds[c + 1][STDIN] = IF job[c + 1].program.infile = <<>>
                             THEN ReadEnd(c) ELSE File

\* Every command ends: when no program runs forever of its own accord, the
\* prompt comes back (or the shell has given up on a failed fork).
PromptReturns ==
  shell \in {"pipe", "fork", "parent", "wait"}
    ~> (shell \in {"prompt", "exited"} \/ ~PipesWork)

\* Every child that has ended is reaped while the shell lives.
ZombiesReaped ==
  \A c \in Children : child[c] = "zombie" ~> (child[c] = "reaped" \/ shell = "exited")

\* "If a command is ended with "&", then the shell will not wait on a child
\* process."
AmpersandNeverWaits == shell = "wait" => ~programs[program_num].background
=============================================================================
