---------------------------- MODULE ShellProofs ----------------------------
(***************************************************************************)
(* Theorems about Shell, for every number of children, every set of lines  *)
(* and whatever uninitialized descriptors hold: zombies and the prompt,    *)
(* types, and what a pipeline's processes have open as long as no call of  *)
(* pipe() has failed.                                                      *)
(***************************************************************************)
EXTENDS Shell, FiniteSetTheorems, TLAPS

---------------------------------------------------------------------------
(* The life of the children.                                               *)

Lives == {"unused", "forked", "wired", "running", "zombie", "reaped"}

\* Children are forked in the order of their numbers.
ForkInv ==
  /\ child \in [Children -> Lives]
  /\ DOMAIN job = Children
  /\ \E k \in 0..MaxChildren : Forked = 1..k

LEMMA ForkedCount ==
  ASSUME NEW k \in 0..MaxChildren, Forked = 1..k
  PROVE  Cardinality(Forked) = k /\ NewChild = k + 1
<1>1. k \in Int /\ 1 \in Int /\ 0 <= k
  BY ChildrenAssumption
<1>2. Cardinality(1..k) = IF 1 > k THEN 0 ELSE k - 1 + 1
  BY <1>1, FS_Interval
<1> QED BY <1>1, <1>2 DEF NewChild

\* Every step is a step of one action.
LEMMA StepCases ==
  ASSUME [Next]_vars
  PROVE  \/ ReadCommand \/ EndOfInput \/ ForkFails
         \/ CreatePipe \/ PipeFails \/ NoPipe \/ Fork \/ Parent \/ Wait
         \/ DeliverSignal \/ HandlerReaps \/ HandlerReturns
         \/ \E c \in Children : \/ Wire(c) \/ Exec(c) \/ ExecFails(c)
                                \/ Finishes(c) \/ EndsEarly(c)
         \/ CtrlC
         \/ UNCHANGED vars
BY DEF Next, RunCommand, Handler, ChildStep

\* What the steps of a child and of the terminal, and those of the handler,
\* have to do with the children's lives.
LEMMA ChildCases ==
  ASSUME child \in [Children -> Lives],
         \/ \E c \in Children : \/ Wire(c) \/ Exec(c) \/ ExecFails(c)
                                \/ Finishes(c) \/ EndsEarly(c)
         \/ CtrlC
  PROVE  /\ child' \in [Children -> Lives]
         /\ UNCHANGED <<mainVars, job, handler>>
         /\ Forked' = Forked
         /\ Alive' \cup Zombies' = Alive \cup Zombies
         /\ (sigchld' = sigchld /\ Zombies' = Zombies) \/ sigchld' = TRUE
<1> USE DEF Forked, Alive, Zombies, Lives, signalVars
<1>1. ASSUME NEW D \in SUBSET Alive, Terminate(D)
      PROVE  /\ child' \in [Children -> Lives]
             /\ UNCHANGED <<mainVars, job, handler>>
             /\ Forked' = Forked
             /\ Alive' \cup Zombies' = Alive \cup Zombies
             /\ sigchld' = TRUE
  BY <1>1 DEF Terminate
<1>2. ASSUME NEW c \in Children, Wire(c) \/ Exec(c)
      PROVE  /\ child' \in [Children -> Lives]
             /\ UNCHANGED <<mainVars, job, handler, sigchld>>
             /\ Forked' = Forked
             /\ Alive' \cup Zombies' = Alive \cup Zombies /\ Zombies' = Zombies
  BY <1>2 DEF Wire, Exec
<1>3. ASSUME NEW c \in Children, ExecFails(c) \/ Finishes(c) \/ EndsEarly(c)
      PROVE  \E D \in SUBSET Alive : Terminate(D)
  <2>1. {c} \in SUBSET Alive /\ Terminate({c})
    BY <1>3 DEF ExecFails, Finishes, EndsEarly
  <2> QED BY <2>1
<1>4. CASE CtrlC
  <2>1. {c \in Alive : child[c] # "forked"} \in SUBSET Alive
    OBVIOUS
  <2> QED BY <1>1, <1>4, <2>1 DEF CtrlC
<1> HIDE DEF Forked, Alive, Zombies, Lives, signalVars
<1> QED BY <1>1, <1>2, <1>3, <1>4

LEMMA HandlerCases ==
  ASSUME child \in [Children -> Lives],
         DeliverSignal \/ HandlerReaps \/ HandlerReturns
  PROVE  /\ child' \in [Children -> Lives]
         /\ UNCHANGED <<mainVars, job>>
         /\ Forked' = Forked
         /\ Alive' \cup Zombies' \subseteq Alive \cup Zombies
BY DEF DeliverSignal, HandlerReaps, HandlerReturns, Forked, Alive, Zombies, Lives,
       kernelVars, signalVars

LEMMA ForkInit == Init => ForkInv
<1> SUFFICES ASSUME Init PROVE ForkInv
  OBVIOUS
<1>1. Forked = {} /\ 1..0 = {} /\ 0 \in 0..MaxChildren
  BY ChildrenAssumption DEF Init, Forked
<1>2. Forked = 1..0
  BY <1>1
<1> QED BY <1>1, <1>2 DEF Init, ForkInv, Lives

\* The steps of the main thread that leave the children's lives alone.
Quiet == \/ ReadCommand \/ EndOfInput \/ ForkFails \/ CreatePipe \/ PipeFails
         \/ NoPipe \/ Parent \/ UNCHANGED vars

LEMMA QuietChild == Quiet => UNCHANGED <<child, job, sigchld, handler>>
BY DEF Quiet, ReadCommand, EndOfInput, ForkFails, CreatePipe, PipeFails, NoPipe,
       Parent, vars, kernelVars, signalVars

\* fork makes the next number's child; beyond the bound it makes none.
LEMMA ForkEffect ==
  ASSUME ForkInv, Fork
  PROVE  /\ ForkInv'
         /\ UNCHANGED <<sigchld, handler, pids>>
         /\ \A c \in Children : c # NewChild =>
              child'[c] = child[c] /\ job'[c] = job[c]
         /\ NewChild \in Children =>
              /\ child'[NewChild] = "forked"
              /\ Cardinality(Forked') = NewChild
<1>1. PICK k \in 0..MaxChildren : Forked = 1..k
  BY DEF ForkInv
<1>2. NewChild = k + 1 /\ Cardinality(Forked) = k
  BY <1>1, ForkedCount
<1>3. /\ child' = [child EXCEPT ![k + 1] = "forked"]
      /\ UNCHANGED <<sigchld, handler, pids>>
      /\ \E j : job' = [job EXCEPT ![k + 1] = j]
  BY <1>2 DEF Fork, signalVars
<1>4. child' \in [Children -> Lives] /\ DOMAIN job' = Children
  BY <1>3 DEF ForkInv, Lives
<1>5. CASE k + 1 \in Children
  <2>1. Forked' = 1..(k + 1) /\ k + 1 \in 0..MaxChildren
    BY <1>1, <1>3, <1>5, ChildrenAssumption DEF Forked, Children, ForkInv
  <2>2. Cardinality(1..(k + 1)) = k + 1
    BY FS_Interval, ChildrenAssumption
  <2> QED BY <1>2, <1>3, <1>4, <1>5, <2>1, <2>2 DEF ForkInv
<1>6. CASE k + 1 \notin Children
  <2>1. child' = child
    BY <1>3, <1>6 DEF ForkInv
  <2>2. Forked' = 1..k
    BY <1>1, <2>1 DEF Forked
  <2> QED BY <1>2, <1>3, <1>4, <1>6, <2>1, <2>2 DEF ForkInv
<1> QED BY <1>5, <1>6

\* waitpid changes the life of the child waited for only.
LEMMA WaitEffect ==
  ASSUME ForkInv, Wait
  PROVE  /\ ForkInv' /\ Forked' = Forked
         /\ UNCHANGED <<job, sigchld, handler, programs, i>>
         /\ Alive' \cup Zombies' \subseteq (Alive \cup Zombies) \ {Head(pids)}
         /\ Zombies' \subseteq Zombies
<1>1. /\ child' = [child EXCEPT ![Head(pids)] = "reaped"]
      /\ child[Head(pids)] \in {"zombie", "reaped"}
      /\ UNCHANGED <<job, sigchld, handler, programs, i>>
  BY DEF Wait, signalVars
<1>2. /\ child' \in [Children -> Lives]
      /\ \A c \in Children : child'[c] = IF c = Head(pids) THEN "reaped" ELSE child[c]
  BY <1>1 DEF ForkInv, Lives
<1>3. Forked' = Forked
  BY <1>1, <1>2 DEF Forked
<1>4. /\ Alive' \cup Zombies' \subseteq (Alive \cup Zombies) \ {Head(pids)}
      /\ Zombies' \subseteq Zombies
  BY <1>2 DEF Alive, Zombies
<1> QED BY <1>1, <1>2, <1>3, <1>4 DEF ForkInv

LEMMA ForkNext ==
  ForkInv /\ [Next]_vars => ForkInv'
<1> SUFFICES ASSUME ForkInv, [Next]_vars PROVE ForkInv'
  OBVIOUS
<1>1. CASE Quiet
  BY <1>1, QuietChild DEF ForkInv, Forked
<1>2. CASE Fork
  BY <1>2, ForkEffect
<1>3. CASE Wait
  BY <1>3, WaitEffect
<1>4. CASE DeliverSignal \/ HandlerReaps \/ HandlerReturns
  BY <1>4, HandlerCases DEF ForkInv
<1>5. CASE \/ \E c \in Children : \/ Wire(c) \/ Exec(c) \/ ExecFails(c)
                                 \/ Finishes(c) \/ EndsEarly(c)
           \/ CtrlC
  BY <1>5, ChildCases DEF ForkInv
<1> QED BY <1>1, <1>2, <1>3, <1>4, <1>5, StepCases DEF Quiet

LEMMA ForksCounted == Spec => []ForkInv
BY ForkInit, ForkNext, PTL DEF Spec

---------------------------------------------------------------------------
(* Zombies.                                                                *)

\* However many children end, and whenever: a zombie is there only while a
\* signal for it is pending or the handler is still in its loop.
THEOREM ZombiesNoticed == Spec => []NoForgottenZombie
<1>1. Init => NoForgottenZombie
  BY DEF Init, NoForgottenZombie, Zombies
<1>2. ForkInv /\ NoForgottenZombie /\ [Next]_vars => NoForgottenZombie'
  <2> SUFFICES ASSUME ForkInv, NoForgottenZombie, [Next]_vars
               PROVE  NoForgottenZombie'
    OBVIOUS
  <2>1. CASE Quiet
    BY <2>1, QuietChild DEF NoForgottenZombie, Zombies
  <2>2. CASE Fork
    <3>1. \A c \in Children : child'[c] = "zombie" => child[c] = "zombie"
      BY <2>2, ForkEffect
    <3>2. UNCHANGED <<sigchld, handler>>
      BY <2>2, ForkEffect
    <3> QED BY <3>1, <3>2 DEF NoForgottenZombie, Zombies
  <2>3. CASE Wait
    BY <2>3, WaitEffect DEF NoForgottenZombie
  <2>4. CASE DeliverSignal \/ HandlerReaps \/ HandlerReturns
    BY <2>4 DEF DeliverSignal, HandlerReaps, HandlerReturns, NoForgottenZombie,
         Zombies, kernelVars, signalVars
  <2>5. CASE \/ \E c \in Children : \/ Wire(c) \/ Exec(c) \/ ExecFails(c)
                                   \/ Finishes(c) \/ EndsEarly(c)
             \/ CtrlC
    BY <2>5, ChildCases DEF ForkInv, NoForgottenZombie
  <2> QED BY <2>1, <2>2, <2>3, <2>4, <2>5, StepCases DEF Quiet
<1> QED BY <1>1, <1>2, ForksCounted, PTL DEF Spec

---------------------------------------------------------------------------
(* The prompt.                                                             *)

\* Foreground children that are not reaped yet.
Foreground == {c \in Alive \cup Zombies : ~job[c].program.background}

\* The child the parent's half of the loop has just got from fork.
Newest(c) == shell = "parent" /\ c = Cardinality(Forked) /\ job[c].program = programs[i]

\* Every foreground child that is not reaped is among the pids to be waited
\* for, or is the one just forked, until the shell is gone.
WaitInv ==
  /\ pids \in Seq(Nat)
  /\ shell = "wait" => pids # <<>>
  /\ shell # "exited" =>
       \A c \in Foreground : (\E k \in DOMAIN pids : pids[k] = c) \/ Newest(c)
  /\ shell = "prompt" => Foreground = {}

LEMMA WaitInvNext ==
  ForkInv /\ WaitInv /\ [Next]_vars => WaitInv'
<1> SUFFICES ASSUME ForkInv, WaitInv, [Next]_vars PROVE WaitInv'
  OBVIOUS
<1>0. Cardinality(Forked) \in Nat
  <2>1. PICK k \in 0..MaxChildren : Forked = 1..k
    BY DEF ForkInv
  <2> QED BY <2>1, ForkedCount, ChildrenAssumption
<1>1. CASE Quiet
  <2>0. UNCHANGED <<child, job>> /\ Foreground' = Foreground /\ Forked' = Forked
    BY <1>1, QuietChild DEF Foreground, Alive, Zombies, Forked
  <2>1. CASE ReadCommand
    <3>1. Foreground' = {} /\ pids' = <<>> /\ shell' # "wait"
      BY <2>0, <2>1 DEF ReadCommand, WaitInv
    <3> QED BY <3>1 DEF WaitInv
  <2>2. CASE EndOfInput \/ ForkFails
    BY <2>0, <2>2 DEF EndOfInput, ForkFails, WaitInv
  <2>3. CASE CreatePipe \/ PipeFails \/ NoPipe
    <3>1. shell = "pipe" /\ shell' = "fork" /\ pids' = pids
      BY <2>3 DEF CreatePipe, PipeFails, NoPipe
    <3> QED BY <2>0, <3>1 DEF WaitInv, Newest
  <2>4. CASE Parent
    <3> DEFINE c0 == Cardinality(Forked)
    <3>1. shell = "parent" /\ pids' = Remember(c0)
      BY <2>4 DEF Parent
    <3>2. shell' \in {"pipe", "wait", "prompt"}
            /\ (shell' = "wait" => pids' # <<>>) /\ (shell' = "prompt" => pids' = <<>>)
      BY <2>4 DEF Parent
    <3>3. pids' \in Seq(Nat)
      BY <1>0, <3>1 DEF Remember, WaitInv
    <3>4. ASSUME NEW c \in Foreground PROVE \E k \in DOMAIN pids' : pids'[k] = c
      <4>1. CASE Newest(c)
        <5>1. ~programs[i].background /\ pids' = Append(pids, c)
          BY <3>1, <3>4, <4>1 DEF Newest, Foreground, Remember
        <5>2. Len(pids) + 1 \in DOMAIN pids' /\ pids'[Len(pids) + 1] = c
          BY <5>1 DEF WaitInv
        <5> QED BY <5>2
      <4>2. CASE \E k \in DOMAIN pids : pids[k] = c
        <5>1. PICK k \in DOMAIN pids : pids[k] = c
          BY <4>2
        <5>2. k \in DOMAIN pids' /\ pids'[k] = c
          BY <1>0, <3>1, <5>1 DEF Remember, WaitInv
        <5> QED BY <5>2
      <4> QED BY <3>1, <3>4, <4>1, <4>2 DEF WaitInv
    <3>5. pids' = <<>> => Foreground = {}
      BY <3>4
    <3> QED BY <2>0, <3>2, <3>3, <3>4, <3>5 DEF WaitInv
  <2>5. CASE UNCHANGED vars
    BY <2>0, <2>5 DEF vars, mainVars, WaitInv, Newest
  <2> QED BY <1>1, <2>1, <2>2, <2>3, <2>4, <2>5 DEF Quiet
<1>2. CASE Fork
  <2>1. /\ shell = "fork" /\ shell' = "parent" /\ UNCHANGED <<pids, programs, i>>
        /\ job' = [job EXCEPT ![NewChild] =
                     [program |-> programs[i], piped |-> i < program_num,
                      input |-> input_file_descriptor, pipe |-> pipe_file_descriptors]]
    BY <1>2 DEF Fork
  <2>2. ASSUME NEW c \in Foreground', c # NewChild
        PROVE  \E k \in DOMAIN pids : pids[k] = c
    <3>1. c \in Foreground
      BY <1>2, <2>2, ForkEffect DEF Foreground, Alive, Zombies
    <3> QED BY <2>1, <3>1 DEF WaitInv, Newest
  <2>3. ASSUME NEW c \in Foreground', c = NewChild PROVE Newest(c)'
    <3>1. c \in Children
      BY <2>3 DEF Foreground, Alive, Zombies
    <3>2. Cardinality(Forked') = c
      BY <1>2, <2>3, <3>1, ForkEffect
    <3>3. job'[c].program = programs[i]
      BY <2>1, <2>3, <3>1 DEF ForkInv
    <3> QED BY <2>1, <3>2, <3>3 DEF Newest
  <2> QED BY <2>1, <2>2, <2>3 DEF WaitInv
<1>3. CASE Wait
  <2>1. shell = "wait" /\ pids # <<>> /\ pids' = Tail(pids)
          /\ shell' = IF Tail(pids) = <<>> THEN "prompt" ELSE "wait"
    BY <1>3 DEF Wait, WaitInv
  <2>2. pids' \in Seq(Nat)
    BY <2>1 DEF WaitInv
  <2>3. ASSUME NEW c \in Foreground' PROVE \E k \in DOMAIN pids' : pids'[k] = c
    <3>1. c \in Foreground /\ c # Head(pids)
      BY <1>3, WaitEffect DEF Foreground
    <3>2. PICK k \in DOMAIN pids : pids[k] = c
      BY <2>1, <3>1 DEF WaitInv, Newest
    <3>3. k # 1 /\ k - 1 \in DOMAIN Tail(pids) /\ Tail(pids)[k - 1] = pids[k]
      BY <2>1, <3>1, <3>2 DEF WaitInv
    <3> QED BY <2>1, <3>2, <3>3
  <2>4. pids' = <<>> => Foreground' = {}
    BY <2>3
  <2> QED BY <2>1, <2>2, <2>3, <2>4 DEF WaitInv
<1>4. CASE DeliverSignal \/ HandlerReaps \/ HandlerReturns
  <2>1. UNCHANGED <<shell, pids, programs, i, job>> /\ Forked' = Forked
          /\ Alive' \cup Zombies' \subseteq Alive \cup Zombies
    BY <1>4, HandlerCases DEF ForkInv, mainVars
  <2>2. Foreground' \subseteq Foreground
    BY <2>1 DEF Foreground
  <2> QED BY <2>1, <2>2 DEF WaitInv, Newest
<1>5. CASE \/ \E c \in Children : \/ Wire(c) \/ Exec(c) \/ ExecFails(c)
                                 \/ Finishes(c) \/ EndsEarly(c)
           \/ CtrlC
  <2>1. UNCHANGED <<shell, pids, programs, i, job>> /\ Forked' = Forked
          /\ Alive' \cup Zombies' = Alive \cup Zombies
    BY <1>5, ChildCases DEF ForkInv, mainVars
  <2>2. Foreground' = Foreground
    BY <2>1 DEF Foreground
  <2> QED BY <2>1, <2>2 DEF WaitInv, Newest
<1> QED BY <1>1, <1>2, <1>3, <1>4, <1>5, StepCases DEF Quiet

LEMMA WaitsNoted == Spec => []WaitInv
<1>1. Init => WaitInv
  BY DEF Init, WaitInv, Foreground, Alive, Zombies
<1> QED BY <1>1, WaitInvNext, ForksCounted, PTL DEF Spec

\* The prompt is back only when every foreground child is gone, however the
\* handler's waits and the shell's own waits for the same children interleave
\* and whatever pipe() does.
THEOREM PromptWaits == Spec => []ForegroundDone
<1>1. WaitInv => ForegroundDone
  BY DEF WaitInv, ForegroundDone, Foreground
<1> QED BY <1>1, WaitsNoted, PTL

---------------------------------------------------------------------------
(* Types and counts.                                                       *)

\* Whatever pipe_file_descriptors may hold once a pipeline has begun.
Numbers == Fds \cup Garbage

\* The loop over the programs stays in its range, and there is a child left
\* for every program still to be forked.
CountInv ==
  /\ shell \in {"pipe", "fork", "parent"} =>
       /\ program_num \in Nat /\ i \in 1..program_num
       /\ i < program_num => /\ pipe_file_descriptors[1] \in Numbers
                             /\ pipe_file_descriptors[2] \in Numbers
  /\ shell \in {"pipe", "fork"} =>
       Cardinality(Forked) + (program_num - i) + 1 <= MaxChildren
  /\ shell = "parent" =>
       /\ Cardinality(Forked) \in Children
       /\ Cardinality(Forked) + (program_num - i) <= MaxChildren

LEMMA ForkedNat ==
  ASSUME ForkInv
  PROVE  /\ Cardinality(Forked) \in 0..MaxChildren
         /\ NewChild = Cardinality(Forked) + 1
         /\ Forked = 1..Cardinality(Forked)
<1>1. PICK k \in 0..MaxChildren : Forked = 1..k
  BY DEF ForkInv
<1> QED BY <1>1, ForkedCount

Tables == [{SHELL} \cup Children -> [Fds -> End]]

LEMMA EndTypes ==
  /\ Closed \in End /\ Terminal \in End /\ File \in End
  /\ \A p \in Children : ReadEnd(p) \in End /\ WriteEnd(p) \in End
  /\ AllClosed \in [Fds -> End]
BY ChildrenAssumption DEF Closed, Terminal, File, ReadEnd, WriteEnd, End, Children, AllClosed

LEMMA CallTypes ==
  ASSUME NEW t \in [Fds -> End]
  PROVE  /\ \A f : close(t, f) \in [Fds -> End]
         /\ \A f : \A g \in Fds : dup2(t, f, g) \in [Fds -> End]
BY EndTypes DEF close, dup2

LEMMA PlumbTypes ==
  ASSUME NEW c \in Children, fds \in Tables
  PROVE  Plumb(c) \in [Fds -> End]
<1>1. fds[c] \in [Fds -> End] /\ STDIN \in Fds /\ STDOUT \in Fds
  BY DEF Tables, Fds, STDIN, STDOUT
<1> DEFINE in == IF job[c].input # STDIN
                 THEN close(dup2(fds[c], job[c].input, STDIN), job[c].input) ELSE fds[c]
<1>2. in \in [Fds -> End]
  BY <1>1, CallTypes
<1>3. Plumb(c) = IF job[c].piped
                 THEN close(close(dup2(in, job[c].pipe[2], STDOUT), job[c].pipe[2]),
                            job[c].pipe[1])
                 ELSE in
  BY DEF Plumb
<1> HIDE DEF in
<1> QED BY <1>1, <1>2, <1>3, CallTypes

\* Terminate closes descriptors and sends the signal.
LEMMA TerminateTypes ==
  ASSUME fds \in Tables, NEW D, Terminate(D)
  PROVE  fds' \in Tables /\ sigchld' = TRUE /\ UNCHANGED <<mainVars, handler, failures>>
BY EndTypes DEF Terminate, Tables

TypeInv == TypeOK /\ CountInv

LEMMA TypesInit == Init => TypeInv
<1> SUFFICES ASSUME Init PROVE TypeInv
  OBVIOUS
<1>1. fds \in Tables
  BY EndTypes DEF Init, Tables
<1>2. /\ STDIN \in Fds /\ <<>> \in Seq(Children) /\ 1 \in Nat
      /\ 0 \in 0..MaxPipeFailures
  BY FailureAssumption DEF STDIN, Fds
<1>3. TypeOK
  BY <1>1, <1>2 DEF Init, TypeOK, Tables
<1> QED BY <1>3 DEF Init, TypeInv, CountInv

\* The steps of the main thread.
LEMMA MainTypes ==
  ASSUME ForkInv, WaitInv, TypeInv,
         \/ ReadCommand \/ EndOfInput \/ ForkFails \/ CreatePipe \/ PipeFails
         \/ NoPipe \/ Fork \/ Parent \/ Wait
  PROVE  TypeInv'
<1> USE DEF TypeInv
<1>0. /\ Cardinality(Forked) \in 0..MaxChildren /\ MaxChildren \in Nat
      /\ NewChild = Cardinality(Forked) + 1
      /\ fds \in Tables /\ fds[SHELL] \in [Fds -> End]
  BY ForkedNat, ChildrenAssumption DEF TypeOK, Tables
<1>1. CASE ReadCommand
  <2>1. PICK line \in Lines : LET parser == Parse(Tokenize(line)) IN
          /\ Cardinality(Forked) + Len(parser.programs) <= MaxChildren
          /\ programs' = parser.programs
          /\ shell' = IF parser.is_pipeline THEN "pipe"
                      ELSE IF parser.programs[1].program_name = <<>> THEN "prompt"
                      ELSE "fork"
          /\ i' = 1 /\ pids' = <<>>
          /\ input_file_descriptor' = STDIN
          /\ pipe_file_descriptors' \in IF parser.is_pipeline
                                        THEN Garbage \X Garbage
                                        ELSE {pipe_file_descriptors}
    BY <1>1 DEF ReadCommand
  <2>2. /\ program_num' \in Nat \ {0}
        /\ Cardinality(Forked) + program_num' <= MaxChildren
        /\ shell' \in {"pipe", "fork", "prompt"}
        /\ 1 < program_num' => pipe_file_descriptors' \in Garbage \X Garbage
    BY <2>1, LineAssumption DEF program_num
  <2>3. UNCHANGED <<kernelVars, signalVars, failures>> /\ Forked' = Forked
    BY <1>1 DEF ReadCommand, kernelVars, Forked
  <2>4. TypeOK'
    BY <2>1, <2>2, <2>3 DEF TypeOK, kernelVars, signalVars, STDIN, Fds
  <2>5. CountInv'
    BY <1>0, <2>1, <2>2, <2>3 DEF CountInv, Numbers
  <2> QED BY <2>4, <2>5
<1>2. CASE EndOfInput \/ ForkFails
  <2>1. shell' = "exited" /\ fds' \in Tables
    BY <1>0, <1>2, EndTypes DEF EndOfInput, ForkFails, Tables
  <2> QED BY <1>2, <2>1 DEF EndOfInput, ForkFails, TypeOK, CountInv, Tables, signalVars
<1>3. CASE CreatePipe
  <2>1. PICK r, w \in Fds :
          /\ fds' = [fds EXCEPT ![SHELL][r] = ReadEnd(NewChild),
                                ![SHELL][w] = WriteEnd(NewChild)]
          /\ pipe_file_descriptors' = <<r, w>>
    BY <1>3 DEF CreatePipe
  <2>2. NewChild \in Children
    BY <1>0, <1>3 DEF CreatePipe, CountInv, Children
  <2>3. fds' \in Tables
    BY <1>0, <2>1, <2>2, EndTypes DEF Tables
  <2>4. /\ shell = "pipe" /\ shell' = "fork" /\ Forked' = Forked
        /\ UNCHANGED <<programs, program_num, i, pids, input_file_descriptor,
                       child, job, signalVars, failures>>
    BY <1>3 DEF CreatePipe, Forked, program_num
  <2>5. TypeOK'
    BY <2>3, <2>4 DEF TypeOK, Tables, signalVars
  <2>6. CountInv'
    BY <2>1, <2>4 DEF CountInv, Numbers
  <2> QED BY <2>5, <2>6
<1>4. CASE PipeFails \/ NoPipe
  <2>1. /\ shell = "pipe" /\ shell' = "fork" /\ Forked' = Forked
        /\ UNCHANGED <<programs, program_num, i, pids, input_file_descriptor,
                       pipe_file_descriptors, kernelVars, signalVars>>
        /\ \/ failures' = failures
           \/ failures < MaxPipeFailures /\ failures' = failures + 1
    BY <1>4 DEF PipeFails, NoPipe, Forked, program_num, kernelVars
  <2>2. TypeOK'
    BY <2>1, FailureAssumption DEF TypeOK, kernelVars, signalVars
  <2>3. CountInv'
    BY <2>1 DEF CountInv
  <2> QED BY <2>2, <2>3
<1>5. CASE Fork
  <2>1. NewChild \in Children
    BY <1>0, <1>5 DEF Fork, CountInv, Children
  <2>2. Cardinality(Forked') = NewChild
    BY <1>5, <2>1, ForkEffect
  <2>3. fds' \in Tables
    BY <1>0, <1>5 DEF Fork, Tables
  <2>4. child' = [child EXCEPT ![NewChild] = "forked"]
    BY <1>5 DEF Fork
  <2>5. /\ shell = "fork" /\ shell' = "parent"
        /\ UNCHANGED <<programs, program_num, i, pids, input_file_descriptor,
                       pipe_file_descriptors, signalVars, failures>>
    BY <1>5 DEF Fork, program_num
  <2>6. TypeOK'
    BY <2>3, <2>4, <2>5 DEF TypeOK, Tables, signalVars
  <2>7. CountInv'
    BY <1>0, <2>1, <2>2, <2>5 DEF CountInv
  <2> QED BY <2>6, <2>7
<1>6. CASE Parent
  <2>1. /\ Cardinality(Forked) \in Children /\ program_num \in Nat /\ i \in 1..program_num
        /\ Cardinality(Forked) + (program_num - i) <= MaxChildren
        /\ i < program_num => /\ pipe_file_descriptors[1] \in Numbers
                              /\ pipe_file_descriptors[2] \in Numbers
    BY <1>6 DEF Parent, CountInv
  <2>2. ParentCloses \in [Fds -> End]
    BY <1>0, CallTypes DEF ParentCloses
  <2>3. fds' \in Tables
    BY <1>0, <1>6, <2>2 DEF Parent, Tables
  <2>4. pids' \in Seq(Children)
    BY <1>6, <2>1 DEF Parent, Remember, TypeOK
  <2>5. /\ UNCHANGED <<programs, program_num, pipe_file_descriptors, child, job,
                       signalVars, failures>>
        /\ Forked' = Forked
        /\ \/ /\ i < program_num /\ i' = i + 1 /\ shell' = "pipe"
              /\ input_file_descriptor' = pipe_file_descriptors[1]
           \/ /\ shell' \in {"prompt", "wait"} /\ UNCHANGED <<input_file_descriptor, i>>
    BY <1>6 DEF Parent, program_num, Forked
  <2>6. TypeOK'
    BY <2>1, <2>3, <2>4, <2>5 DEF TypeOK, Tables, Numbers, signalVars
  <2>7. CountInv'
    BY <1>0, <2>1, <2>5 DEF CountInv
  <2> QED BY <2>6, <2>7
<1>7. CASE Wait
  <2>1. /\ child' = [child EXCEPT ![Head(pids)] = "reaped"]
        /\ shell' \in {"prompt", "wait"} /\ pids' = Tail(pids)
        /\ UNCHANGED <<i, input_file_descriptor, fds, signalVars, failures>>
    BY <1>7 DEF Wait
  <2>2. pids' \in Seq(Children)
    BY <1>7, <2>1 DEF TypeOK, WaitInv, Wait
  <2> QED BY <2>1, <2>2 DEF TypeOK, CountInv, signalVars
<1> QED BY <1>1, <1>2, <1>3, <1>4, <1>5, <1>6, <1>7

LEMMA TypesNext == ForkInv /\ WaitInv /\ TypeInv /\ [Next]_vars => TypeInv'
<1> SUFFICES ASSUME ForkInv, WaitInv, TypeInv, [Next]_vars PROVE TypeInv'
  OBVIOUS
<1>0. fds \in Tables
  BY DEF TypeInv, TypeOK, Tables
<1>1. CASE DeliverSignal \/ HandlerReaps \/ HandlerReturns
  <2>1. /\ UNCHANGED <<mainVars, fds, job, failures>> /\ Forked' = Forked
        /\ child' \in [Children -> Lives]
        /\ sigchld' \in BOOLEAN /\ handler' \in BOOLEAN
    BY <1>1, HandlerCases DEF ForkInv, DeliverSignal, HandlerReaps, HandlerReturns,
         kernelVars, signalVars, TypeInv, TypeOK
  <2> QED BY <2>1 DEF mainVars, TypeInv, TypeOK, CountInv, Lives, program_num
<1>2. CASE \/ \E c \in Children : \/ Wire(c) \/ Exec(c) \/ ExecFails(c)
                                 \/ Finishes(c) \/ EndsEarly(c)
           \/ CtrlC
  <2>1. /\ UNCHANGED <<mainVars, handler>> /\ Forked' = Forked
        /\ child' \in [Children -> Lives]
    BY <1>2, ChildCases DEF ForkInv
  <2>2. fds' \in Tables /\ sigchld' \in BOOLEAN /\ failures' = failures
    <3>1. ASSUME NEW c \in Children, Wire(c) PROVE <2>2!:
      BY <1>0, <3>1, PlumbTypes DEF Wire, Tables, TypeInv, TypeOK, signalVars
    <3>2. ASSUME NEW c \in Children, Exec(c) PROVE <2>2!:
      BY <1>0, <3>2, EndTypes DEF Exec, Tables, TypeInv, TypeOK, signalVars, STDIN,
           STDOUT, Fds
    <3>3. ASSUME \E D : Terminate(D) PROVE <2>2!:
      BY <1>0, <3>3, TerminateTypes
    <3> QED BY <1>2, <3>1, <3>2, <3>3 DEF ExecFails, Finishes, EndsEarly, CtrlC
  <2> QED BY <2>1, <2>2 DEF mainVars, TypeInv, TypeOK, CountInv, Lives, Tables, program_num
<1>3. CASE UNCHANGED vars
  BY <1>3 DEF vars, mainVars, kernelVars, signalVars, TypeInv, TypeOK, CountInv,
       Forked, program_num
<1> QED BY <1>1, <1>2, <1>3, MainTypes, StepCases

LEMMA Typed == Spec => []TypeInv
BY TypesInit, TypesNext, ForksCounted, WaitsNoted, PTL DEF Spec

\* Every descriptor in use is one of the table's, every child waited for is one
\* that was forked, and no more children are forked than there are, even when
\* pipe() fails and uninitialized descriptors are closed and inherited.
THEOREM ShellTypes == Spec => []TypeOK
<1>1. TypeInv => TypeOK
  BY DEF TypeInv
<1> QED BY <1>1, Typed, PTL

---------------------------------------------------------------------------
(* What is open where.                                                     *)

LEMMA EndsDiffer ==
  /\ Closed # Terminal /\ Closed # File /\ Terminal # File
  /\ \A p : /\ ReadEnd(p) # Closed /\ ReadEnd(p) # Terminal /\ ReadEnd(p) # File
            /\ WriteEnd(p) # Closed /\ WriteEnd(p) # Terminal /\ WriteEnd(p) # File
  /\ \A p, q : ReadEnd(p) # WriteEnd(q)
  /\ \A p, q : WriteEnd(p) = WriteEnd(q) => p = q
BY DEF Closed, Terminal, File, ReadEnd, WriteEnd

\* The shell between two commands.
Own == [f \in Fds |-> IF f <= 2 THEN Terminal ELSE Closed]

\* What child c is given: the pipe in front of it at descriptor in, unless in
\* is standard input, and when piped the two ends of the pipe behind it.
Given(c, in, piped, pipe) ==
  [f \in Fds |-> IF f <= 2 THEN Terminal
                 ELSE IF f = in THEN ReadEnd(c - 1)
                 ELSE IF piped /\ f = pipe[1] THEN ReadEnd(c)
                 ELSE IF piped /\ f = pipe[2] THEN WriteEnd(c)
                 ELSE Closed]

\* The descriptors given are different ones and none of the standard three.
Apart(in, piped, pipe) ==
  /\ in \in {STDIN, 3, 4, 5}
  /\ piped => /\ pipe[1] \in 3..5 /\ pipe[2] \in 3..5 /\ pipe[1] # pipe[2]
              /\ in # pipe[1] /\ in # pipe[2]

\* The pipes in their places.
Placed(c) ==
  [f \in Fds |-> IF f = STDIN /\ job[c].input # STDIN THEN ReadEnd(c - 1)
                 ELSE IF f = STDOUT /\ job[c].piped THEN WriteEnd(c)
                 ELSE IF f <= 2 THEN Terminal ELSE Closed]

\* The files in the places of the pipes.
Redirected(c) ==
  [f \in Fds |-> IF f = STDIN /\ job[c].program.infile # <<>> THEN File
                 ELSE IF f = STDOUT /\ job[c].program.outfile # <<>> THEN File
                 ELSE Placed(c)[f]]

ChildInv ==
  \A c \in Children :
    /\ child[c] # "unused" => Apart(job[c].input, job[c].piped, job[c].pipe)
    /\ child[c] = "forked"  => fds[c] = Given(c, job[c].input, job[c].piped, job[c].pipe)
    /\ child[c] = "wired"   => fds[c] = Placed(c)
    /\ child[c] = "running" => fds[c] = Redirected(c)
    /\ child[c] \in {"unused", "zombie", "reaped"} => fds[c] = AllClosed

\* The shell holds what it is about to give, or has just given.
ShellInv ==
  /\ shell \in {"prompt", "wait"} => fds[SHELL] = Own
  /\ shell = "exited" => fds[SHELL] = AllClosed
  /\ shell = "pipe" =>
       /\ Apart(input_file_descriptor, FALSE, pipe_file_descriptors)
       /\ fds[SHELL] = Given(NewChild, input_file_descriptor, FALSE, pipe_file_descriptors)
  /\ shell = "fork" =>
       /\ Apart(input_file_descriptor, i < program_num, pipe_file_descriptors)
       /\ fds[SHELL] = Given(NewChild, input_file_descriptor, i < program_num,
                             pipe_file_descriptors)
  /\ shell = "parent" =>
       /\ Apart(input_file_descriptor, i < program_num, pipe_file_descriptors)
       /\ fds[SHELL] = Given(Cardinality(Forked), input_file_descriptor,
                             i < program_num, pipe_file_descriptors)

\* A program with a pipe behind it has a neighbour who gets that pipe.
NeighbourInv ==
  LET last == Cardinality(Forked)
  IN /\ \A c \in Forked : (job[c].piped /\ c + 1 \in Forked) => job[c + 1].input # STDIN
     /\ shell = "parent" => job[last].piped = (i < program_num)
     /\ (shell \in {"pipe", "fork"} /\ last # 0 /\ job[last].piped) =>
          input_file_descriptor # STDIN
     /\ (shell \in {"prompt", "wait"} /\ last # 0) => ~job[last].piped

PipeInv == PipesWork => ChildInv /\ ShellInv /\ NeighbourInv

---------------------------------------------------------------------------
(* What the calls do to the tables.                                        *)

LEMMA GivenNothing ==
  \A c, pipe : Given(c, STDIN, FALSE, pipe) = Own
BY DEF Given, Own, STDIN, Fds

LEMMA PlumbEffect ==
  ASSUME NEW c \in Children,
         Apart(job[c].input, job[c].piped, job[c].pipe),
         fds[c] = Given(c, job[c].input, job[c].piped, job[c].pipe)
  PROVE  Plumb(c) = Placed(c)
<1> DEFINE input == job[c].input
           pipe  == job[c].pipe
           in    == IF input # STDIN THEN close(dup2(fds[c], input, STDIN), input) ELSE fds[c]
           taken == [f \in Fds |-> IF f = STDIN /\ input # STDIN THEN ReadEnd(c - 1)
                                   ELSE Given(c, STDIN, job[c].piped, pipe)[f]]
<1>1. in = taken
  <2>1. CASE input = STDIN
    <3>1. in = Given(c, STDIN, job[c].piped, pipe)
      BY <2>1
    <3>2. taken = [f \in Fds |-> Given(c, STDIN, job[c].piped, pipe)[f]]
      BY <2>1
    <3> QED BY <3>1, <3>2 DEF Given
  <2>2. CASE input # STDIN
    <3>1. input \in 3..5 /\ fds[c][input] = ReadEnd(c - 1)
      BY <2>2 DEF Apart, Given, Fds, STDIN
    <3>2. dup2(fds[c], input, STDIN) = [fds[c] EXCEPT ![STDIN] = ReadEnd(c - 1)]
      BY <3>1, EndsDiffer DEF dup2, Fds
    <3>3. in = [[fds[c] EXCEPT ![STDIN] = ReadEnd(c - 1)] EXCEPT ![input] = Closed]
      BY <2>2, <3>1, <3>2 DEF close, Fds
    <3> HIDE DEF in
    <3>4. ASSUME NEW f \in Fds PROVE in[f] = taken[f]
      BY <2>2, <3>1, <3>3 DEF Apart, Given, Fds, STDIN
    <3> QED BY <3>3, <3>4 DEF Given
  <2> QED BY <2>1, <2>2
<1>2. CASE ~job[c].piped
  <2>1. Plumb(c) = in
    BY <1>2 DEF Plumb
  <2>2. taken = Placed(c)
    BY <1>2 DEF Placed, Given, Fds, STDIN, STDOUT
  <2> QED BY <1>1, <2>1, <2>2
<1>3. CASE job[c].piped
  <2>1. Plumb(c) = close(close(dup2(taken, pipe[2], STDOUT), pipe[2]), pipe[1])
    BY <1>1, <1>3 DEF Plumb
  <2>2. /\ pipe[1] \in 3..5 /\ pipe[2] \in 3..5 /\ pipe[1] # pipe[2]
        /\ taken[pipe[2]] = WriteEnd(c)
    BY <1>3 DEF Apart, Given, Fds, STDIN
  <2>3. dup2(taken, pipe[2], STDOUT) = [taken EXCEPT ![STDOUT] = WriteEnd(c)]
    <3> HIDE DEF taken, pipe
    <3> QED BY <2>2, EndsDiffer DEF dup2, Fds
  <2>4. Plumb(c) = [[[taken EXCEPT ![STDOUT] = WriteEnd(c)]
                      EXCEPT ![pipe[2]] = Closed] EXCEPT ![pipe[1]] = Closed]
    BY <2>1, <2>2, <2>3 DEF close, Fds
  <2>5. ASSUME NEW f \in Fds PROVE Plumb(c)[f] = Placed(c)[f]
    BY <1>3, <2>2, <2>4 DEF Given, Placed, Fds, STDIN, STDOUT
  <2> HIDE DEF taken
  <2>6. taken \in [Fds -> {taken[f] : f \in Fds}]
    BY DEF taken
  <2> QED BY <2>4, <2>5, <2>6 DEF Placed
<1> QED BY <1>2, <1>3

LEMMA CloseEffect ==
  ASSUME NEW c \in Int,
         Apart(input_file_descriptor, i < program_num, pipe_file_descriptors),
         fds[SHELL] = Given(c, input_file_descriptor, i < program_num, pipe_file_descriptors)
  PROVE  /\ i < program_num =>
              /\ ParentCloses = Given(c + 1, pipe_file_descriptors[1], FALSE,
                                      pipe_file_descriptors)
              /\ Apart(pipe_file_descriptors[1], FALSE, pipe_file_descriptors)
         /\ ~(i < program_num) => ParentCloses = Own
<1> DEFINE in == input_file_descriptor
           r  == pipe_file_descriptors[1]
           w  == pipe_file_descriptors[2]
           t  == IF in # STDIN THEN close(fds[SHELL], in) ELSE fds[SHELL]
           after == Given(c, STDIN, i < program_num, pipe_file_descriptors)
<1>1. t = after
  <2>1. CASE in = STDIN
    BY <2>1
  <2>2. CASE in # STDIN
    <3>1. in \in 3..5 /\ t = [fds[SHELL] EXCEPT ![in] = Closed]
      BY <2>2 DEF Apart, close, Fds, STDIN
    <3>2. ASSUME NEW f \in Fds PROVE t[f] = after[f]
      BY <2>2, <3>1 DEF Apart, Given, Fds, STDIN
    <3> QED BY <3>1, <3>2 DEF Given
  <2> QED BY <2>1, <2>2
<1>2. CASE i < program_num
  <2>1. r \in 3..5 /\ w \in 3..5 /\ r # w
    BY <1>2 DEF Apart
  <2>2. ParentCloses = [t EXCEPT ![w] = Closed]
    BY <1>2, <2>1 DEF ParentCloses, close, Fds
  <2>3. ASSUME NEW f \in Fds
        PROVE  ParentCloses[f] = Given(c + 1, r, FALSE, pipe_file_descriptors)[f]
    BY <1>1, <1>2, <2>1, <2>2 DEF Given, Fds, STDIN
  <2>4. Apart(r, FALSE, pipe_file_descriptors)
    BY <2>1 DEF Apart
  <2> QED BY <1>1, <1>2, <2>2, <2>3, <2>4 DEF Given
<1>3. CASE ~(i < program_num)
  <2>1. ParentCloses = after
    BY <1>1, <1>3 DEF ParentCloses
  <2>2. after = Own
    BY <1>3 DEF Given, Own, Fds, STDIN
  <2> QED BY <1>3, <2>1, <2>2
<1> QED BY <1>2, <1>3

---------------------------------------------------------------------------
(* Every step keeps the invariant.                                         *)

LEMMA PipeInit == Init => PipeInv
<1> SUFFICES ASSUME Init PROVE ChildInv /\ ShellInv /\ NeighbourInv
  BY DEF PipeInv
<1>1. \A c \in Children : c # SHELL /\ child[c] = "unused" /\ fds[c] = AllClosed
  BY ChildrenAssumption DEF Init, AllClosed, Children, SHELL
<1>2. ChildInv
  BY <1>1 DEF ChildInv
<1>3. fds[SHELL] = Own /\ shell = "prompt"
  BY DEF Init, Own
<1>4. Forked = {}
  BY <1>1 DEF Forked
<1>5. Cardinality(Forked) = 0
  BY <1>4, FS_EmptySet
<1> QED BY <1>2, <1>3, <1>4, <1>5 DEF ShellInv, NeighbourInv

\* A step that leaves the children alone.
LEMMA ChildrenStay ==
  ASSUME ChildInv, UNCHANGED <<child, job>>, \A c \in Children : fds'[c] = fds[c]
  PROVE  ChildInv'
BY DEF ChildInv, Placed, Redirected

LEMMA PipeMain ==
  ASSUME ForkInv, WaitInv, TypeInv, PipesWork, PipesWork', ChildInv, ShellInv, NeighbourInv,
         \/ ReadCommand \/ EndOfInput \/ ForkFails \/ CreatePipe \/ PipeFails
         \/ NoPipe \/ Fork \/ Parent \/ Wait
  PROVE  ChildInv' /\ ShellInv' /\ NeighbourInv'
<1> DEFINE last == Cardinality(Forked)
<1>0. /\ last \in 0..MaxChildren /\ MaxChildren \in Nat
      /\ NewChild = last + 1 /\ Forked = 1..last
      /\ fds \in Tables /\ fds[SHELL] \in [Fds -> End]
      /\ \A c \in Children : c # SHELL /\ c \in {SHELL} \cup Children
  BY ForkedNat, ChildrenAssumption DEF TypeInv, TypeOK, Tables, Children, SHELL
<1>1. CASE ReadCommand
  <2>1. PICK line \in Lines : LET parser == Parse(Tokenize(line)) IN
          /\ programs' = parser.programs
          /\ shell' = IF parser.is_pipeline THEN "pipe"
                      ELSE IF parser.programs[1].program_name = <<>> THEN "prompt"
                      ELSE "fork"
          /\ i' = 1 /\ input_file_descriptor' = STDIN
    BY <1>1 DEF ReadCommand
  <2>2. /\ shell' \in {"pipe", "fork", "prompt"}
        /\ shell' = "fork" => (i' < program_num') = FALSE
    BY <2>1, LineAssumption DEF program_num
  <2>3. UNCHANGED <<fds, child, job>> /\ Forked' = Forked /\ NewChild' = NewChild
    BY <1>1 DEF ReadCommand, kernelVars, Forked, NewChild
  <2>4. shell = "prompt" /\ fds[SHELL] = Own
    BY <1>1 DEF ReadCommand, ShellInv
  <2>5. /\ Apart(STDIN, FALSE, pipe_file_descriptors')
        /\ Given(NewChild, STDIN, FALSE, pipe_file_descriptors') = Own
    BY GivenNothing DEF Apart
  <2>6. ShellInv'
    BY <2>1, <2>2, <2>3, <2>4, <2>5 DEF ShellInv
  <2>7. NeighbourInv'
    BY <2>2, <2>3, <2>4 DEF NeighbourInv
  <2> QED BY <2>3, <2>6, <2>7, ChildrenStay
<1>2. CASE EndOfInput \/ ForkFails
  <2>1. /\ shell' = "exited" /\ fds' = [fds EXCEPT ![SHELL] = AllClosed]
        /\ UNCHANGED <<child, job>> /\ Forked' = Forked
    BY <1>2 DEF EndOfInput, ForkFails, Forked
  <2>2. ShellInv' /\ NeighbourInv'
    BY <1>0, <2>1 DEF ShellInv, NeighbourInv, Tables
  <2>3. \A c \in Children : fds'[c] = fds[c]
    BY <1>0, <2>1 DEF Tables
  <2> QED BY <2>1, <2>2, <2>3, ChildrenStay
<1>3. CASE CreatePipe
  <2>1. PICK r, w \in Fds :
          /\ r < w
          /\ \A f \in 0..w : fds[SHELL][f] = Closed <=> f \in {r, w}
          /\ fds' = [fds EXCEPT ![SHELL][r] = ReadEnd(NewChild),
                                ![SHELL][w] = WriteEnd(NewChild)]
          /\ pipe_file_descriptors' = <<r, w>>
    BY <1>3 DEF CreatePipe
  <2>2. /\ shell = "pipe" /\ shell' = "fork" /\ i' < program_num'
        /\ UNCHANGED <<programs, i, input_file_descriptor, child, job>>
        /\ UNCHANGED <<Forked, NewChild, program_num>>
    BY <1>3 DEF CreatePipe, Forked, NewChild, program_num
  <2> DEFINE in == input_file_descriptor
  <2>3. /\ Apart(in, FALSE, pipe_file_descriptors)
        /\ fds[SHELL] = Given(NewChild, in, FALSE, pipe_file_descriptors)
    BY <2>2 DEF ShellInv
  <2>4. fds[SHELL][r] = Closed /\ fds[SHELL][w] = Closed
    BY <2>1 DEF Fds
  <2>5. r \in 3..5 /\ w \in 3..5 /\ in # r /\ in # w
    BY <2>1, <2>3, <2>4, EndsDiffer DEF Given, Fds, Apart, STDIN
  <2>6. Apart(in, TRUE, <<r, w>>)
    BY <2>1, <2>3, <2>5 DEF Apart
  <2>7. fds'[SHELL] = [[fds[SHELL] EXCEPT ![r] = ReadEnd(NewChild)]
                         EXCEPT ![w] = WriteEnd(NewChild)]
    BY <1>0, <2>1 DEF Tables
  <2>8. ASSUME NEW f \in Fds PROVE fds'[SHELL][f] = Given(NewChild, in, TRUE, <<r, w>>)[f]
    <3>1. fds'[SHELL][f] = IF f = r THEN ReadEnd(NewChild)
                           ELSE IF f = w THEN WriteEnd(NewChild) ELSE fds[SHELL][f]
      BY <1>0, <2>1, <2>7
    <3>2. fds[SHELL][f] = IF f <= 2 THEN Terminal
                          ELSE IF f = in THEN ReadEnd(NewChild - 1) ELSE Closed
      BY <2>3 DEF Given
    <3>3. Given(NewChild, in, TRUE, <<r, w>>)[f] =
            IF f <= 2 THEN Terminal ELSE IF f = in THEN ReadEnd(NewChild - 1)
            ELSE IF f = r THEN ReadEnd(NewChild) ELSE IF f = w THEN WriteEnd(NewChild)
            ELSE Closed
      BY DEF Given
    <3>4. f = r \/ f = w => ~(f <= 2) /\ f # in
      BY <2>5
    <3> QED BY <3>1, <3>2, <3>3, <3>4
  <2>9. fds'[SHELL] = Given(NewChild, in, TRUE, <<r, w>>)
    BY <1>0, <2>7, <2>8 DEF Given
  <2>10. ShellInv'
    BY <2>1, <2>2, <2>6, <2>9 DEF ShellInv
  <2>11. \A c \in Children : fds'[c] = fds[c]
    BY <1>0, <2>1 DEF Tables
  <2>12. NeighbourInv'
    BY <2>2 DEF NeighbourInv
  <2> QED BY <2>2, <2>10, <2>11, <2>12, ChildrenStay
<1>4. CASE PipeFails
  BY <1>4 DEF PipeFails, PipesWork, TypeInv, TypeOK
<1>5. CASE NoPipe
  <2>1. /\ shell = "pipe" /\ shell' = "fork" /\ (i' < program_num') = FALSE
        /\ UNCHANGED <<programs, i, input_file_descriptor, pipe_file_descriptors,
                       fds, child, job>>
        /\ UNCHANGED <<Forked, NewChild, program_num>>
    BY <1>5 DEF NoPipe, Forked, NewChild, program_num, kernelVars, TypeInv, TypeOK
  <2>2. ShellInv' /\ NeighbourInv'
    BY <2>1 DEF ShellInv, NeighbourInv
  <2> QED BY <2>1, <2>2, ChildrenStay
<1>6. CASE Fork
  <2> DEFINE c0 == NewChild
             j0 == [program |-> programs[i], piped |-> i < program_num,
                    input |-> input_file_descriptor, pipe |-> pipe_file_descriptors]
  <2>1. c0 \in Children /\ c0 = last + 1
    BY <1>0, <1>6 DEF Fork, TypeInv, CountInv, Children
  <2>2. /\ shell = "fork" /\ shell' = "parent"
        /\ fds' = [fds EXCEPT ![c0] = fds[SHELL]]
        /\ child' = [child EXCEPT ![c0] = "forked"]
        /\ job' = [job EXCEPT ![c0] = j0]
        /\ UNCHANGED <<programs, i, input_file_descriptor, pipe_file_descriptors>>
        /\ UNCHANGED program_num
    BY <1>6 DEF Fork, program_num
  <2>3. /\ Cardinality(Forked') = c0 /\ Forked' = 1..c0
        /\ \A c \in Children : c # c0 =>
             child'[c] = child[c] /\ job'[c] = job[c] /\ fds'[c] = fds[c]
        /\ child'[c0] = "forked" /\ job'[c0] = j0 /\ fds'[c0] = fds[SHELL]
        /\ fds'[SHELL] = fds[SHELL]
    <3>1. Cardinality(Forked') = c0 /\ ForkInv'
      BY <1>6, <2>1, ForkEffect
    <3>2. Forked' = 1..c0
      <4>1. Forked' = Forked \cup {c0}
        BY <2>1, <2>2 DEF Forked, ForkInv
      <4>2. (1..last) \cup {last + 1} = 1..(last + 1)
        BY <1>0
      <4> QED BY <1>0, <2>1, <4>1, <4>2
    <3> QED BY <1>0, <2>1, <2>2, <3>1, <3>2 DEF ForkInv, Tables, TypeInv, TypeOK
  <2>4. /\ Apart(input_file_descriptor, i < program_num, pipe_file_descriptors)
        /\ fds[SHELL] = Given(c0, input_file_descriptor, i < program_num,
                              pipe_file_descriptors)
    BY <2>2 DEF ShellInv
  <2>5. ShellInv'
    BY <2>2, <2>3, <2>4 DEF ShellInv
  <2>6. ChildInv'
    <3>1. ASSUME NEW c \in Children
          PROVE  /\ child'[c] # "unused" => Apart(job'[c].input, job'[c].piped, job'[c].pipe)
                 /\ child'[c] = "forked"  => fds'[c] = Given(c, job'[c].input, job'[c].piped, job'[c].pipe)
                 /\ child'[c] = "wired"   => fds'[c] = Placed(c)'
                 /\ child'[c] = "running" => fds'[c] = Redirected(c)'
                 /\ child'[c] \in {"unused", "zombie", "reaped"} => fds'[c] = AllClosed
      <4>1. CASE c = c0
        BY <2>3, <2>4, <4>1
      <4>2. CASE c # c0
        BY <2>3, <4>2 DEF ChildInv, Placed, Redirected
      <4> QED BY <4>1, <4>2
    <3> QED BY <3>1 DEF ChildInv
  <2>7. NeighbourInv'
    <3>1. ASSUME NEW c \in Forked', job'[c].piped, c + 1 \in Forked'
          PROVE  job'[c + 1].input # STDIN
      BY <1>0, <2>1, <2>2, <2>3, <3>1 DEF NeighbourInv, Children
    <3> QED BY <2>2, <2>3, <3>1 DEF NeighbourInv
  <2> QED BY <2>5, <2>6, <2>7
<1>7. CASE Parent
  <2>1. /\ shell = "parent" /\ last \in Children
        /\ fds' = [fds EXCEPT ![SHELL] = ParentCloses]
        /\ UNCHANGED <<programs, pipe_file_descriptors, child, job>>
        /\ UNCHANGED <<Forked, NewChild, program_num>>
        /\ \/ /\ i < program_num /\ shell' = "pipe"
              /\ input_file_descriptor' = pipe_file_descriptors[1]
           \/ ~(i < program_num) /\ shell' \in {"prompt", "wait"}
    BY <1>7 DEF Parent, Forked, NewChild, program_num, TypeInv, CountInv
  <2>2. /\ i < program_num =>
             /\ ParentCloses = Given(last + 1, pipe_file_descriptors[1], FALSE,
                                     pipe_file_descriptors)
             /\ Apart(pipe_file_descriptors[1], FALSE, pipe_file_descriptors)
        /\ ~(i < program_num) => ParentCloses = Own
    <3>1. /\ last \in Int
          /\ Apart(input_file_descriptor, i < program_num, pipe_file_descriptors)
          /\ fds[SHELL] = Given(last, input_file_descriptor, i < program_num,
                                pipe_file_descriptors)
      BY <1>0, <2>1 DEF ShellInv
    <3> QED BY <3>1, CloseEffect
  <2>3. fds'[SHELL] = ParentCloses /\ \A c \in Children : fds'[c] = fds[c]
    BY <1>0, <2>1 DEF Tables
  <2>4. ShellInv'
    BY <1>0, <2>1, <2>2, <2>3 DEF ShellInv
  <2>5. NeighbourInv'
    <3>1. CASE i < program_num
      <4>1. input_file_descriptor' # STDIN
        BY <2>1, <3>1 DEF ShellInv, Apart, STDIN
      <4> QED BY <2>1, <3>1, <4>1 DEF NeighbourInv
    <3>2. CASE ~(i < program_num)
      BY <2>1, <3>2 DEF NeighbourInv
    <3> QED BY <3>1, <3>2
  <2> QED BY <2>1, <2>3, <2>4, <2>5, ChildrenStay
<1>8. CASE Wait
  <2>1. /\ shell = "wait" /\ shell' \in {"prompt", "wait"} /\ UNCHANGED <<fds, job>>
        /\ child' = [child EXCEPT ![Head(pids)] = "reaped"]
        /\ child[Head(pids)] \in {"zombie", "reaped"}
    BY <1>8 DEF Wait
  <2>2. Forked' = Forked
    BY <1>8, WaitEffect
  <2>3. ASSUME NEW c \in Children
        PROVE  \/ child'[c] = child[c]
               \/ child'[c] = "reaped" /\ child[c] \in {"zombie", "reaped"}
    BY <2>1 DEF ForkInv
  <2>4. ChildInv'
    <3>1. \A c \in Children : Placed(c)' = Placed(c) /\ Redirected(c)' = Redirected(c)
      BY <2>1 DEF Placed, Redirected
    <3> QED BY <2>1, <2>3, <3>1 DEF ChildInv
  <2> QED BY <2>1, <2>2, <2>4 DEF ShellInv, NeighbourInv
<1> QED BY <1>1, <1>2, <1>3, <1>4, <1>5, <1>6, <1>7, <1>8

\* The end of some children.
LEMMA PipeTerminate ==
  ASSUME TypeInv, ChildInv, NEW D \in SUBSET Alive, Terminate(D)
  PROVE  ChildInv' /\ fds'[SHELL] = fds[SHELL] /\ UNCHANGED failures
<1>1. /\ \A c \in Children :
           \/ child'[c] = child[c] /\ fds'[c] = fds[c]
           \/ child[c] # "unused" /\ child'[c] = "zombie" /\ fds'[c] = AllClosed
      /\ UNCHANGED <<job, failures>>
  BY DEF Terminate, Alive
<1>2. fds'[SHELL] = fds[SHELL]
  BY ChildrenAssumption DEF Terminate, Alive, Children, SHELL
<1>3. \A c \in Children : Placed(c)' = Placed(c) /\ Redirected(c)' = Redirected(c)
  BY <1>1 DEF Placed, Redirected
<1>4. ChildInv'
  BY <1>1, <1>3 DEF ChildInv
<1> QED BY <1>1, <1>2, <1>4

LEMMA PipeChild ==
  ASSUME TypeInv, ChildInv,
         \/ \E c \in Children : \/ Wire(c) \/ Exec(c) \/ ExecFails(c)
                                \/ Finishes(c) \/ EndsEarly(c)
         \/ CtrlC
  PROVE  ChildInv' /\ fds'[SHELL] = fds[SHELL] /\ UNCHANGED failures
<1>0. \A c \in Children : /\ c # SHELL /\ c \in {SHELL} \cup Children
                         /\ fds \in Tables /\ fds[c] \in [Fds -> End]
                         /\ child \in [Children -> Lives]
  BY ChildrenAssumption DEF TypeInv, TypeOK, Tables, Lives, Children, SHELL
<1>1. ASSUME NEW c \in Children, Wire(c)
      PROVE  ChildInv' /\ fds'[SHELL] = fds[SHELL] /\ UNCHANGED failures
  <2>1. /\ child[c] = "forked" /\ fds' = [fds EXCEPT ![c] = Plumb(c)]
        /\ child' = [child EXCEPT ![c] = "wired"] /\ UNCHANGED <<job, failures>>
    BY <1>1 DEF Wire
  <2>2. Plumb(c) = Placed(c)
    BY <2>1, PlumbEffect DEF ChildInv
  <2>3. \A d \in Children : Placed(d)' = Placed(d) /\ Redirected(d)' = Redirected(d)
    BY <2>1 DEF Placed, Redirected
  <2>4. \A d \in Children : d # c => child'[d] = child[d] /\ fds'[d] = fds[d]
    BY <1>0, <2>1 DEF Tables
  <2>5. child'[c] = "wired" /\ fds'[c] = Placed(c) /\ fds'[SHELL] = fds[SHELL]
    BY <1>0, <2>1, <2>2 DEF Tables
  <2> QED BY <2>1, <2>3, <2>4, <2>5 DEF ChildInv
<1>2. ASSUME NEW c \in Children, Exec(c)
      PROVE  ChildInv' /\ fds'[SHELL] = fds[SHELL] /\ UNCHANGED failures
  <2> DEFINE p   == job[c].program
             in  == IF p.infile # <<>> THEN [fds[c] EXCEPT ![STDIN] = File] ELSE fds[c]
             out == IF p.outfile # <<>> THEN [in EXCEPT ![STDOUT] = File] ELSE in
  <2>1. /\ child[c] = "wired" /\ fds' = [fds EXCEPT ![c] = out]
        /\ child' = [child EXCEPT ![c] = "running"] /\ UNCHANGED <<job, failures>>
    BY <1>2 DEF Exec
  <2>2. fds[c] = Placed(c)
    BY <2>1 DEF ChildInv
  <2>3. out = Redirected(c)
    <3>1. in = [f \in Fds |-> IF f = STDIN /\ p.infile # <<>> THEN File ELSE Placed(c)[f]]
      BY <1>0, <2>2 DEF STDIN, Fds
    <3> HIDE DEF in
    <3>2. out = [f \in Fds |-> IF f = STDOUT /\ p.outfile # <<>> THEN File ELSE in[f]]
      BY <3>1 DEF STDOUT, Fds
    <3>3. ASSUME NEW f \in Fds PROVE out[f] = Redirected(c)[f]
      BY <3>1, <3>2 DEF Redirected, STDIN, STDOUT
    <3> HIDE DEF out
    <3> QED BY <3>2, <3>3 DEF Redirected
  <2>4. \A d \in Children : Placed(d)' = Placed(d) /\ Redirected(d)' = Redirected(d)
    BY <2>1 DEF Placed, Redirected
  <2>5. \A d \in Children : d # c => child'[d] = child[d] /\ fds'[d] = fds[d]
    BY <1>0, <2>1 DEF Tables
  <2>6. child'[c] = "running" /\ fds'[c] = Redirected(c) /\ fds'[SHELL] = fds[SHELL]
    BY <1>0, <2>1, <2>3 DEF Tables
  <2> QED BY <2>1, <2>4, <2>5, <2>6 DEF ChildInv
<1>3. ASSUME NEW c \in Children, ExecFails(c) \/ Finishes(c) \/ EndsEarly(c)
      PROVE  ChildInv' /\ fds'[SHELL] = fds[SHELL] /\ UNCHANGED failures
  <2>1. {c} \in SUBSET Alive /\ Terminate({c})
    BY <1>3 DEF ExecFails, Finishes, EndsEarly, Alive
  <2> QED BY <2>1, PipeTerminate
<1>4. CASE CtrlC
  <2>1. \E D \in SUBSET Alive : Terminate(D)
    BY <1>4 DEF CtrlC
  <2> QED BY <2>1, PipeTerminate
<1> QED BY <1>1, <1>2, <1>3, <1>4

LEMMA PipeNext == ForkInv /\ WaitInv /\ TypeInv /\ PipeInv /\ [Next]_vars => PipeInv'
<1> SUFFICES ASSUME ForkInv, WaitInv, TypeInv, PipeInv, [Next]_vars, PipesWork'
             PROVE  ChildInv' /\ ShellInv' /\ NeighbourInv'
  BY DEF PipeInv
<1>1. CASE DeliverSignal \/ HandlerReaps \/ HandlerReturns
  <2>1. /\ UNCHANGED <<mainVars, fds, job, failures>> /\ Forked' = Forked
        /\ \A c \in Children :
             \/ child'[c] = child[c]
             \/ child'[c] = "reaped" /\ child[c] = "zombie"
    BY <1>1, HandlerCases DEF ForkInv, DeliverSignal, HandlerReaps, HandlerReturns,
         kernelVars, Zombies
  <2>2. ChildInv /\ ShellInv /\ NeighbourInv
    BY <2>1 DEF PipeInv, PipesWork
  <2>3. \A c \in Children : Placed(c)' = Placed(c) /\ Redirected(c)' = Redirected(c)
    BY <2>1 DEF Placed, Redirected
  <2>4. ChildInv'
    BY <2>1, <2>2, <2>3 DEF ChildInv
  <2> QED BY <2>1, <2>2, <2>4 DEF mainVars, ShellInv, NeighbourInv, NewChild, program_num
<1>2. CASE \/ \E c \in Children : \/ Wire(c) \/ Exec(c) \/ ExecFails(c)
                                 \/ Finishes(c) \/ EndsEarly(c)
           \/ CtrlC
  <2>1. /\ UNCHANGED <<mainVars, job>> /\ Forked' = Forked
    BY <1>2, ChildCases DEF ForkInv
  <2>2. PipesWork
    BY <1>2 DEF PipesWork, Wire, Exec, ExecFails, Finishes, EndsEarly, CtrlC, Terminate
  <2>3. ChildInv /\ ShellInv /\ NeighbourInv
    BY <2>2 DEF PipeInv
  <2>4. ChildInv' /\ fds'[SHELL] = fds[SHELL]
    BY <1>2, <2>3, PipeChild
  <2> QED BY <2>1, <2>3, <2>4 DEF mainVars, ShellInv, NeighbourInv, NewChild, program_num
<1>3. CASE UNCHANGED vars
  <2>1. ChildInv /\ ShellInv /\ NeighbourInv
    BY <1>3 DEF PipeInv, PipesWork, vars
  <2>2. UNCHANGED <<mainVars, fds, child, job>> /\ Forked' = Forked
    BY <1>3 DEF vars, kernelVars, Forked
  <2>3. ChildInv'
    BY <2>1, <2>2, ChildrenStay
  <2> QED BY <2>1, <2>2, <2>3 DEF mainVars, ShellInv, NeighbourInv, NewChild, program_num
<1>4. CASE \/ ReadCommand \/ EndOfInput \/ ForkFails \/ CreatePipe \/ PipeFails
           \/ NoPipe \/ Fork \/ Parent \/ Wait
  <2>1. PipesWork
    BY <1>4 DEF PipesWork, TypeInv, TypeOK, ReadCommand, EndOfInput, ForkFails, CreatePipe,
         PipeFails, NoPipe, Fork, Parent, Wait
  <2> QED BY <1>4, <2>1, PipeMain DEF PipeInv
<1> QED BY <1>1, <1>2, <1>3, <1>4, StepCases

LEMMA PipesInPlace == Spec => []PipeInv
BY PipeInit, PipeNext, ForksCounted, WaitsNoted, Typed, PTL DEF Spec

---------------------------------------------------------------------------
(* What follows.                                                           *)

\* After a command, however its children ended and in whatever order, the shell
\* has closed every end of every pipe it made, and nothing else.
THEOREM PipesClosed == Spec => []ShellKeepsNoPipe
<1>1. PipeInv => ShellKeepsNoPipe
  BY DEF PipeInv, ShellInv, ShellKeepsNoPipe, Own, Fds
<1> QED BY <1>1, PipesInPlace, PTL

LEMMA OneWriter == TypeInv /\ PipeInv => SoleWriter
<1> SUFFICES ASSUME TypeInv, PipeInv, PipesWork, NEW c \in Children
             PROVE  /\ Holders(WriteEnd(c)) \subseteq
                         {c} \cup (IF shell \in {"fork", "parent"} THEN {SHELL} ELSE {})
                    /\ child[c] = "running" => \A f \in Fds : f > 2 => fds[c][f] = Closed
  BY DEF SoleWriter
<1>1. ChildInv /\ ShellInv
  BY DEF PipeInv
<1>2. ASSUME NEW d \in Children, NEW f \in Fds, fds[d][f] = WriteEnd(c)
      PROVE  d = c
  <2>1. child[d] \in Lives
    BY DEF TypeInv, TypeOK, Lives
  <2>2. fds[d] \in {Given(d, job[d].input, job[d].piped, job[d].pipe), Placed(d),
                   Redirected(d), AllClosed}
    BY <1>1, <2>1 DEF ChildInv, Lives
  <2>3. CASE fds[d] = Given(d, job[d].input, job[d].piped, job[d].pipe)
    BY <1>2, <2>3, EndsDiffer DEF Given
  <2>4. Placed(d)[f] = WriteEnd(c) => d = c
    BY EndsDiffer DEF Placed
  <2>5. CASE fds[d] = Redirected(d)
    BY <1>2, <2>4, <2>5, EndsDiffer DEF Redirected
  <2>6. AllClosed[f] # WriteEnd(c)
    BY EndsDiffer DEF AllClosed
  <2> QED BY <1>2, <2>2, <2>3, <2>4, <2>5, <2>6
<1>3. ASSUME NEW f \in Fds, fds[SHELL][f] = WriteEnd(c), shell \notin {"fork", "parent"}
      PROVE  FALSE
  <2> DEFINE given == Given(NewChild, input_file_descriptor, FALSE, pipe_file_descriptors)
  <2>1. fds[SHELL] = Own \/ fds[SHELL] = AllClosed \/ fds[SHELL] = given
    BY <1>1, <1>3 DEF ShellInv, TypeInv, TypeOK
  <2>2. Own[f] # WriteEnd(c) /\ AllClosed[f] # WriteEnd(c)
    BY EndsDiffer DEF Own, AllClosed
  <2>3. given[f] # WriteEnd(c)
    BY EndsDiffer DEF Given
  <2> HIDE DEF given
  <2> QED BY <1>3, <2>1, <2>2, <2>3
<1>4. ASSUME child[c] = "running", NEW f \in Fds, f > 2 PROVE fds[c][f] = Closed
  <2>1. fds[c] = Redirected(c) /\ f # STDIN /\ f # STDOUT
    BY <1>1, <1>4 DEF ChildInv, STDIN, STDOUT
  <2>2. fds[c][f] = Placed(c)[f]
    BY <2>1 DEF Redirected
  <2> QED BY <1>4, <2>1, <2>2 DEF Placed, Fds
<1> QED BY <1>2, <1>3, <1>4 DEF Holders

\* No process but the writer, and the shell before its close, has the write end
\* of a pipe, for pipelines of any length: the reader gets its end of file.
THEOREM EndOfFile == Spec => []SoleWriter
BY OneWriter, Typed, PipesInPlace, PTL

LEMMA NeighboursWired == PipeInv => Wired
<1> SUFFICES ASSUME PipeInv, PipesWork, NEW c \in Children, child[c] = "running", job[c].piped
             PROVE  /\ fds[c][STDOUT] = IF job[c].program.outfile = <<>> THEN WriteEnd(c)
                                        ELSE File
                    /\ (c < MaxChildren /\ child[c + 1] = "running") =>
                         fds[c + 1][STDIN] = IF job[c + 1].program.infile = <<>>
                                             THEN ReadEnd(c) ELSE File
  BY DEF Wired
<1>1. ChildInv /\ NeighbourInv
  BY DEF PipeInv
<1>2. fds[c] = Redirected(c)
  BY <1>1 DEF ChildInv
<1>3. ASSUME c < MaxChildren, child[c + 1] = "running"
      PROVE  fds[c + 1][STDIN] = IF job[c + 1].program.infile = <<>> THEN ReadEnd(c) ELSE File
  <2>1. c + 1 \in Children /\ c \in Forked /\ c + 1 \in Forked /\ (c + 1) - 1 = c
    BY <1>3, ChildrenAssumption DEF Children, Forked
  <2>2. job[c + 1].input # STDIN /\ fds[c + 1] = Redirected(c + 1)
    BY <1>1, <1>3, <2>1 DEF NeighbourInv, ChildInv
  <2> QED BY <2>1, <2>2 DEF Redirected, Placed, Fds, STDIN, STDOUT
<1> QED BY <1>2, <1>3 DEF Redirected, Placed, Fds, STDIN, STDOUT

\* What a program of a pipeline writes, the next one reads, for pipelines of any
\* length and whichever descriptors the kernel hands out.
THEOREM PipelineWired == Spec => []Wired
BY NeighboursWired, PipesInPlace, PTL
=============================================================================
