---------------------------- MODULE TraceReplay ----------------------------
(***************************************************************************)
(* HW4: main.c replays a file of lines "A id size" and "D id" through the  *)
(* allocator and ends with malloc(0).  The trace is any sensible one: an   *)
(* id that names no block is allocated, an id that names one is released.  *)
(***************************************************************************)
EXTENDS MultilevelBF

CONSTANT Ids  \* the ids of the trace

VARIABLES
  newline,   \* whether the last line of the file ends with a newline
  main,      \* control state of main
  ptr,       \* the array of pointers
  id, size,  \* main's locals, set by sscanf
  asked      \* what the lines read so far ask for: bytes by id, 0 for none

replayVars == <<vars, newline, main, ptr, id, size, asked>>

Uninitialised == -1

\* What malloc returned.
Returned == IF live' = live THEN NULL ELSE (CHOOSE b \in live' \ live : TRUE).at

\* ptr[i] = malloc(n), and the loop that writes n bytes there, through NULL
\* when malloc had no chunk.
AllocateAndWrite(i, n, after) ==
  /\ Malloc(n)
  /\ ptr' = [ptr EXCEPT ![i] = Returned]
  /\ main' = IF Returned = NULL THEN "killed" ELSE after

ReplayInit ==
  /\ Init
  /\ newline \in BOOLEAN
  /\ main = "reading"
  /\ ptr = [i \in Ids |-> NULL]
  /\ id = Uninitialised /\ size = Uninitialised
  /\ asked = [i \in Ids |-> 0]

\* A line "A i n".
AllocateLine(i, n) ==
  /\ main = "reading"
  /\ asked[i] = 0 /\ n # 0
  /\ AllocateAndWrite(i, n, "reading")
  /\ id' = i /\ size' = n
  /\ asked' = [asked EXCEPT ![i] = n]
  /\ UNCHANGED newline

\* Mutant: the id of the line is not looked at.
ReleaseLineOfLastId(i) ==
  /\ main = "reading"
  /\ asked[i] # 0 /\ ptr[id] \in {b.at : b \in live}
  /\ \E b \in live : b.at = ptr[id] /\ Free(b)
  /\ asked' = [asked EXCEPT ![i] = 0]
  /\ UNCHANGED <<newline, main, ptr, id, size>>

\* A line "D i".  The pointer stays in the array.
ReleaseLine(i) ==
  /\ main = "reading"
  /\ asked[i] # 0
  /\ \E b \in live : b.at = ptr[i] /\ Free(b)
  /\ id' = i
  /\ asked' = [asked EXCEPT ![i] = 0]
  /\ UNCHANGED <<newline, main, ptr, size>>

\* The file ends with its last line.
EndOfFile ==
  /\ main = "reading" /\ ~newline
  /\ main' = "report"
  /\ UNCHANGED <<vars, newline, ptr, id, size, asked>>

\* Behind the last newline one more, empty line is read.  sscanf answers it
\* with EOF, which is not 0 either, so that it is taken for an "A" with the
\* id and the size of the lines before.
EmptyLine ==
  /\ main = "reading" /\ newline
  /\ size # Uninitialised
  /\ AllocateAndWrite(id, size, "report")
  /\ UNCHANGED <<newline, id, size, asked>>

Report ==
  /\ main = "report"
  /\ MallocZero
  /\ main' = IF crashed' THEN "killed" ELSE "over"
  /\ UNCHANGED <<newline, ptr, id, size, asked>>

ReplayNext ==
  \/ \E i \in Ids : ReleaseLine(i) \/ \E n \in Requests : AllocateLine(i, n)
  \/ EndOfFile
  \/ EmptyLine
  \/ Report

ReplaySpec == ReplayInit /\ [][ReplayNext]_replayVars

---------------------------------------------------------------------------
(* What a replay promises.                                                 *)

\* The blocks that the lines of the file leave allocated.
Blocks == {[at |-> ptr[i], bytes |-> asked[i]] : i \in {j \in Ids : asked[j] # 0}}

\* "operations of memory allocation and de-allocation" are the file's: when
\* the end of the test is reported, what is handed out is what the lines of
\* the file ask for, neither more nor less.
ReplaysTheTrace == main = "report" => live = Blocks

\* A file without a newline at its end is replayed as it is: no line takes
\* the id or the size of another one, and the pointers still name the blocks
\* their lines asked for after any splits and joins.
ReplaysLastLine == ~newline => ReplaysTheTrace

\* The units of the pool no caller holds.
Unclaimed == Addr \ UNION {b.at..(b.at + SizeAt(Heap, b.at)) : b \in live}
LargestGap == Max({n \in 0..PoolUnits : \E a \in 0..(PoolUnits - n) : a..(a + n - 1) \subseteq Unclaimed})

\* What malloc(0) is about to print is the largest gap between the blocks,
\* less a header: free memory is neither forgotten nor left in pieces, and
\* the search of the highest level finds the biggest chunk of all.
PrintsTheLargestGap ==
  main = "report" =>
    LET biggest == find_the_biggest_free_chunk(Pool)
    IN IF LargestGap = 0 THEN biggest = NULL
       ELSE biggest # NULL /\ SizeAt(Pool, biggest) = LargestGap - 1
=============================================================================
