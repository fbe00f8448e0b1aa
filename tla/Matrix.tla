------------------------------- MODULE Matrix -------------------------------
(***************************************************************************)
(* HW2: the product C = A * B of two N x N matrices, computed by           *)
(* 1, 2, ... processes that share C.  In every round the parent forks the  *)
(* processes of that round, each computes its band of rows in the shared   *)
(* segment without any lock, and when all have ended the parent adds up    *)
(* C's cells.  The segment is created once; no round clears it.            *)
(*                                                                         *)
(* A row is one step of its process: RowsApart is what makes that enough.  *)
(* A process may be killed inside a row.                                   *)
(***************************************************************************)
EXTENDS Integers, Sequences

CONSTANTS
  N,          \* the dimension read from the user
  MaxProcs,   \* processes of the last round (16 in the code)
  WordMod,    \* 2^width of u32 (2^32 in the code)
  MaxDeaths   \* bound: processes that are killed

ASSUME DimensionAssumption == N \in Nat
ASSUME ProcsAssumption     == MaxProcs \in Nat \ {0}
\* A and B, N rows each, have been allocated before anything is computed.
ASSUME WordAssumption      == WordMod \in Nat /\ N + MaxProcs <= WordMod
ASSUME DeathAssumption     == MaxDeaths \in Nat

VARIABLES
  main,         \* control state of the parent
  process_num,  \* processes of this round
  forked,       \* how many of them exist
  proc,         \* the life of every process, by id
  row,          \* the row a process computes next
  shm,          \* the segment: "none", "attached", "failed" or "removed"
  C,            \* its cells
  checksums,    \* the checksums printed
  deaths        \* processes killed so far

procVars == <<proc, row>>
vars == <<main, process_num, forked, procVars, shm, C, checksums, deaths>>

Ids   == 0..(MaxProcs - 1)
Index == 0..(N - 1)
Cells == 0..(N * N - 1)
Word  == 0..(WordMod - 1)

---------------------------------------------------------------------------
\* init_matrix gives A and B the same contents.
InitMatrix(i, j) == (i * N + j) % WordMod

\* What a u32 that starts from 0 holds after each turn of a loop that adds
\* f[0], f[1], ... to it.
WordSums(f, n) ==
  LET s[k \in 0..n] == IF k = 0 THEN 0 ELSE (s[k - 1] + f[k - 1]) % WordMod
  IN s

\* What a cell of the product holds after K turns of the innermost loop.
Accumulated(i, j, K) ==
  WordSums([k \in Index |-> InitMatrix(i, k) * InitMatrix(k, j)], N)[K]

Cell(i, j) == (i * N + j) % WordMod

\* Mutant: a cell is not set to 0 before its terms are added.
WithRowOntoOld(i, j, K) ==
  [x \in Cells |->
     IF \E b \in 0..(j - 1) : x = Cell(i, b)
     THEN (C[x] + Accumulated(i, CHOOSE b \in 0..(j - 1) : x = Cell(i, b), N)) % WordMod
     ELSE C[x]]

\* Row i of the product is there up to column j, which has K of its terms.
WithRow(i, j, K) ==
  [x \in Cells |->
     IF \E b \in 0..(j - 1) : x = Cell(i, b)
     THEN Accumulated(i, CHOOSE b \in 0..(j - 1) : x = Cell(i, b), N)
     ELSE IF x = Cell(i, j) /\ j < N THEN Accumulated(i, j, K) ELSE C[x]]

\* Mutant: the number of rows per process rounds down.
PartRowsDown == N \div process_num

\* ceil(double(N) / double(process_num)), exact for numbers of this size.
PartRows == (N + process_num - 1) \div process_num

RowsSt(id) == (id * PartRows) % WordMod
RowsEd(id) == LET next == ((id + 1) * PartRows) % WordMod
              IN IF next < N THEN next ELSE N

\* check_sum: the number of cells is computed in u32, too.
CellCount == (N * N) % WordMod
CheckSum  == WordSums(C, CellCount)[CellCount]

---------------------------------------------------------------------------
(* The parent.                                                             *)

Init ==
  /\ main = "create" /\ process_num = 1 /\ forked = 0
  /\ proc = [id \in Ids |-> "unused"]
  /\ row = [id \in Ids |-> 0]
  /\ shm = "none"
  /\ C = [x \in Cells |-> 0]
  /\ checksums = <<>>
  /\ deaths = 0

\* create_shm_matrix.  The unsigned shm_id is never < 0 and a failing shmat
\* is only reported: the program goes on without a segment.
CreateShm ==
  /\ main = "create"
  /\ shm' \in {"attached", "failed"}
  /\ main' = "fork"
  /\ UNCHANGED <<process_num, forked, procVars, C, checksums, deaths>>

Fork ==
  /\ main = "fork"
  /\ proc' = [proc EXCEPT ![forked] = "running"]
  /\ row' = [row EXCEPT ![forked] = RowsSt(forked)]
  /\ forked' = forked + 1
  /\ main' = IF forked + 1 = process_num THEN "wait" ELSE "fork"
  /\ UNCHANGED <<process_num, shm, C, checksums, deaths>>

\* exit(1): the processes forked so far go on, the segment stays.
ForkFails ==
  /\ main = "fork"
  /\ main' = "failed"
  /\ UNCHANGED <<process_num, forked, procVars, shm, C, checksums, deaths>>

\* Mutant: the loop of waits begins at 1.
WaitFromOne ==
  /\ main = "wait"
  /\ \A id \in 1..(process_num - 1) : proc[id] = "ended"
  /\ main' = "sum"
  /\ UNCHANGED <<process_num, forked, procVars, shm, C, checksums, deaths>>

\* One waitpid after the other; how a process ended is not looked at.
WaitForAll ==
  /\ main = "wait"
  /\ \A id \in 0..(process_num - 1) : proc[id] = "ended"
  /\ main' = "sum"
  /\ UNCHANGED <<process_num, forked, procVars, shm, C, checksums, deaths>>

\* The checksum is printed and the next round begins with one process more.
Sum ==
  /\ main = "sum"
  /\ \/ shm = "attached" \/ CellCount = 0
  /\ checksums' = Append(checksums, CheckSum)
  /\ IF process_num = MaxProcs
     THEN main' = "detach" /\ UNCHANGED <<process_num, forked, procVars>>
     ELSE /\ main' = "fork"
          /\ process_num' = process_num + 1
          /\ forked' = 0
          /\ proc' = [id \in Ids |-> "unused"]
          /\ row' = [id \in Ids |-> 0]
  /\ UNCHANGED <<shm, C, deaths>>

\* Without a segment the first cell read kills the parent.
SumFaults ==
  /\ main = "sum"
  /\ shm # "attached" /\ CellCount # 0
  /\ main' = "failed"
  /\ UNCHANGED <<process_num, forked, procVars, shm, C, checksums, deaths>>

\* shmdt and IPC_RMID.
Detach ==
  /\ main = "detach"
  /\ shm' = "removed"
  /\ main' = "done"
  /\ UNCHANGED <<process_num, forked, procVars, C, checksums, deaths>>

Parent == CreateShm \/ Fork \/ ForkFails \/ WaitForAll \/ Sum \/ SumFaults \/ Detach

---------------------------------------------------------------------------
(* A process: multiply_rows, shmdt, exit.                                  *)

Running(id) == proc[id] = "running"

ComputeRow(id) ==
  /\ Running(id) /\ row[id] < RowsEd(id)
  /\ shm = "attached"
  /\ C' = WithRow(row[id], N, 0)
  /\ row' = [row EXCEPT ![id] = row[id] + 1]
  /\ UNCHANGED <<main, process_num, forked, proc, shm, checksums, deaths>>

\* Mutant: the loop over the rows ends at rows_ed only, not behind it.
ExitAtEnd(id) ==
  /\ Running(id) /\ row[id] = RowsEd(id)
  /\ proc' = [proc EXCEPT ![id] = "ended"]
  /\ UNCHANGED <<main, process_num, forked, row, shm, C, checksums, deaths>>

Exit(id) ==
  /\ Running(id) /\ row[id] >= RowsEd(id)
  /\ proc' = [proc EXCEPT ![id] = "ended"]
  /\ UNCHANGED <<main, process_num, forked, row, shm, C, checksums, deaths>>

\* Killed from outside, somewhere in its row.
Killed(id) ==
  /\ Running(id) /\ row[id] < RowsEd(id)
  /\ deaths < MaxDeaths
  /\ deaths' = deaths + 1
  /\ proc' = [proc EXCEPT ![id] = "ended"]
  /\ C' \in IF shm = "attached"
            THEN {C} \cup {WithRow(row[id], j, K) : j \in Index, K \in 0..N}
            ELSE {C}
  /\ UNCHANGED <<main, process_num, forked, row, shm, checksums>>

\* Without a segment the first cell written kills the process.
Faults(id) ==
  /\ Running(id) /\ row[id] < RowsEd(id)
  /\ shm # "attached"
  /\ proc' = [proc EXCEPT ![id] = "ended"]
  /\ UNCHANGED <<main, process_num, forked, row, shm, C, checksums, deaths>>

Process(id) == ComputeRow(id) \/ Exit(id) \/ Killed(id) \/ Faults(id)

Over == main \in {"done", "failed"} /\ \A id \in Ids : ~Running(id)

Next ==
  \/ Parent
  \/ \E id \in Ids : Process(id)
  \/ Over /\ UNCHANGED vars

Spec == Init /\ [][Next]_vars

\* The parent and every process are scheduled; nobody has to be killed.
FairSpec ==
  /\ Spec
  /\ WF_vars(Parent)
  /\ \A id \in Ids : WF_vars(ComputeRow(id) \/ Exit(id) \/ Faults(id))

---------------------------------------------------------------------------
(* What the program promises.                                              *)

TypeOK ==
  /\ main \in {"create", "fork", "wait", "sum", "detach", "done", "failed"}
  /\ process_num \in 1..MaxProcs
  /\ forked \in 0..process_num
  /\ proc \in [Ids -> {"unused", "running", "ended"}]
  /\ row \in [Ids -> Nat]
  /\ shm \in {"none", "attached", "failed", "removed"}

\* The rows a process has been given.
Band(id) == {r \in Nat : RowsSt(id) <= r /\ r < RowsEd(id)}

\* "No locking/synchronization is required since multiplication on
\* sub-matrices are mutually independent": no row is written by two
\* processes of a round, and the bands leave no row out.
RowsApart ==
  /\ \A id, other \in 0..(process_num - 1) :
       id # other => ~ \E r \in Index : r \in Band(id) /\ r \in Band(other)
  /\ \A r \in Index : \E id \in 0..(process_num - 1) : r \in Band(id)

\* The checksum of the product, as arithmetic has it: numbers without bound,
\* reduced to a word once, at the end.
Sums(f, n) ==
  LET s[k \in 0..n] == IF k = 0 THEN 0 ELSE s[k - 1] + f[k - 1]
  IN s
Product(i, j) == Sums([k \in Index |-> (i * N + k) * (k * N + j)], N)[N]
RowTotal(i)   == Sums([j \in Index |-> Product(i, j)], N)[N]
TrueCheckSum  == Sums([i \in Index |-> RowTotal(i)], N)[N] % WordMod

\* Every round prints the checksum of the product, however the processes
\* interleave, as long as none has been killed.
ChecksumsRight ==
  deaths = 0 => \A k \in DOMAIN checksums : checksums[k] = TrueCheckSum

\* Nobody clears C between the rounds, and a killed process leaves a row half
\* done: still, when every process of a round gets to its end, all of C is
\* right, whatever the rounds before left there.
RoundRepairs ==
  (main = "sum" /\ shm = "attached"
   /\ \A id \in 0..(process_num - 1) : row[id] >= RowsEd(id))
  => \A i, j \in Index : C[Cell(i, j)] = Product(i, j) % WordMod

\* However many processes there are for the rows and however they end, the
\* parent gets past its waits and the program comes to its end: also when the
\* rounded-up bands leave the last processes a band that starts beyond N.
RunEnds == <>Over
=============================================================================
