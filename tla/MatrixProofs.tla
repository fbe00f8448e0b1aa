---------------------------- MODULE MatrixProofs ----------------------------
(***************************************************************************)
(* Theorems about Matrix, for every dimension and number of processes.     *)
(***************************************************************************)
EXTENDS Matrix, Iteration

\* Multiplying by a natural number is monotonic.
LEMMA ProductMonotonic ==
  ASSUME NEW q \in Nat, NEW a \in Nat, NEW b \in Nat, a <= b
  PROVE  a * q \in Nat /\ b * q \in Nat /\ a * q <= b * q
<1>1. PICK d \in Nat : b = a + d
  BY b - a \in Nat
<1>2. b * q = a * q + d * q
  BY <1>1
<1>3. d * q \in Nat /\ a * q \in Nat
  OBVIOUS
<1> QED BY <1>2, <1>3

\* The parent counts through the rounds and never beyond the last one.
RoundInv == process_num \in 1..MaxProcs

LEMMA RoundNext == RoundInv /\ [Next]_vars => RoundInv'
<1> SUFFICES ASSUME RoundInv, [Next]_vars PROVE RoundInv'
  OBVIOUS
<1>1. CASE Sum
  BY <1>1, ProcsAssumption DEF Sum, RoundInv
<1>2. CASE UNCHANGED process_num
  BY <1>2 DEF RoundInv
<1>3. Sum \/ UNCHANGED process_num
  BY DEF Next, Parent, Process, CreateShm, Fork, ForkFails, WaitForAll, SumFaults,
         Detach, ComputeRow, Exit, Killed, Faults, vars
<1> QED BY <1>1, <1>2, <1>3

\* The bands are long enough for all the rows, and their bounds fit a word.
LEMMA PartRowsBounds ==
  ASSUME RoundInv
  PROVE  /\ PartRows \in Nat
         /\ N <= process_num * PartRows
         /\ process_num * PartRows \in Nat
         /\ process_num * PartRows < WordMod
<1> DEFINE P == process_num
           m == (N + P - 1) % P
<1>1. P \in Nat /\ 1 <= P /\ P <= MaxProcs /\ N \in Nat /\ N + P - 1 \in Nat
  BY ProcsAssumption, DimensionAssumption DEF RoundInv
<1>2. PartRows \in Nat /\ m \in 0..(P - 1) /\ N + P - 1 = P * PartRows + m
  BY <1>1 DEF PartRows
<1>3. P * PartRows \in Nat
  BY <1>1, <1>2
<1> HIDE DEF m, P
<1>4. N <= P * PartRows /\ P * PartRows < WordMod
  BY <1>1, <1>2, <1>3, WordAssumption, ProcsAssumption
<1> QED BY <1>2, <1>3, <1>4 DEF P

\* Where a process's rows begin and end.
LEMMA Bounds ==
  ASSUME RoundInv, NEW id \in 0..(process_num - 1)
  PROVE  /\ id * PartRows \in Nat /\ (id + 1) * PartRows \in Nat
         /\ RowsSt(id) = id * PartRows
         /\ RowsEd(id) = IF (id + 1) * PartRows < N THEN (id + 1) * PartRows ELSE N
<1>1. /\ id \in Nat /\ id + 1 \in Nat /\ process_num \in Nat
      /\ id <= process_num /\ id + 1 <= process_num
  BY ProcsAssumption DEF RoundInv
<1>2. /\ PartRows \in Nat /\ process_num * PartRows \in Nat
      /\ process_num * PartRows < WordMod
  BY PartRowsBounds
<1>3. id * PartRows \in Nat /\ id * PartRows < WordMod
  BY <1>1, <1>2, ProductMonotonic, WordAssumption
<1>4. (id + 1) * PartRows \in Nat /\ (id + 1) * PartRows < WordMod
  BY <1>1, <1>2, ProductMonotonic, WordAssumption
<1> DEFINE start == id * PartRows
           end   == (id + 1) * PartRows
<1>5. start % WordMod = start /\ end % WordMod = end
  <2> HIDE DEF start, end
  <2>1. \A x \in Nat : x < WordMod => x % WordMod = x
    BY WordAssumption
  <2>2. start \in Nat /\ end \in Nat /\ start < WordMod /\ end < WordMod
    BY <1>3, <1>4 DEF start, end
  <2> QED BY <2>1, <2>2
<1> QED BY <1>3, <1>4, <1>5 DEF RowsSt, RowsEd

\* The division of the rows is a partition.
LEMMA Partition == RoundInv => RowsApart
<1> SUFFICES ASSUME RoundInv PROVE RowsApart
  OBVIOUS
<1>1. PartRows \in Nat /\ N \in Nat /\ process_num \in Nat /\ 1 <= process_num
  BY PartRowsBounds, DimensionAssumption, ProcsAssumption DEF RoundInv
<1>2. ASSUME NEW id \in 0..(process_num - 1), NEW other \in 0..(process_num - 1),
             id < other
      PROVE  \A r \in Index : ~ (r \in Band(id) /\ r \in Band(other))
  <2>1. (id + 1) * PartRows <= other * PartRows
    BY <1>1, <1>2, ProductMonotonic
  <2>2. RowsEd(id) <= (id + 1) * PartRows /\ RowsSt(other) = other * PartRows
          /\ (id + 1) * PartRows \in Nat /\ other * PartRows \in Nat
          /\ RowsEd(id) \in Nat
    BY <1>1, Bounds
  <2> QED BY <2>1, <2>2 DEF Band, Index
<1>3. ASSUME NEW r \in Index
      PROVE  \E id \in 0..(process_num - 1) : r \in Band(id)
  <2> DEFINE id == r \div PartRows
  <2>1. r \in Nat /\ r < N
    BY <1>1, <1>3 DEF Index
  <2>2. PartRows > 0
    BY <1>1, <2>1, PartRowsBounds
  <2>3. id \in Nat /\ r = PartRows * id + (r % PartRows) /\ r % PartRows \in 0..(PartRows - 1)
    BY <1>1, <2>1, <2>2
  <2>4. id * PartRows <= r /\ r < (id + 1) * PartRows
          /\ id * PartRows \in Nat /\ (id + 1) * PartRows \in Nat
    <3> HIDE DEF id
    <3>1. PartRows * id = id * PartRows /\ (id + 1) * PartRows = id * PartRows + PartRows
      BY <1>1, <2>3
    <3>2. id * PartRows \in Nat
      BY <1>1, <2>3
    <3> QED BY <1>1, <2>1, <2>3, <3>1, <3>2
  <2>5. id < process_num
    <3> SUFFICES ASSUME process_num <= id PROVE FALSE
      BY <1>1, <2>3
    <3>1. process_num * PartRows <= id * PartRows
      BY <1>1, <2>3, ProductMonotonic
    <3>2. N <= process_num * PartRows /\ process_num * PartRows \in Nat
      BY PartRowsBounds
    <3> HIDE DEF id
    <3> QED BY <1>1, <2>1, <2>4, <3>1, <3>2
  <2>6. id \in 0..(process_num - 1)
    BY <1>1, <2>3, <2>5
  <2> HIDE DEF id
  <2>7. r \in Band(id)
    BY <1>1, <2>1, <2>4, <2>6, Bounds DEF Band
  <2> QED BY <2>6, <2>7
<1>4. ASSUME NEW id \in 0..(process_num - 1), NEW other \in 0..(process_num - 1),
             id # other
      PROVE  ~ \E r \in Index : r \in Band(id) /\ r \in Band(other)
  <2>1. id < other \/ other < id
    BY <1>1, <1>4
  <2> QED BY <1>2, <2>1
<1> QED BY <1>3, <1>4 DEF RowsApart

\* In every round the processes' bands of rows are disjoint and cover the
\* matrix: whatever the dimension and however many processes, no lock is
\* needed and no row is forgotten.
THEOREM RowsIndependent == Spec => []RowsApart
<1>1. Init => RoundInv
  BY ProcsAssumption DEF Init, RoundInv
<1>2. RoundInv /\ [Next]_vars => RoundInv'
  BY RoundNext
<1>3. RoundInv => RowsApart
  BY Partition
<1> QED BY <1>1, <1>2, <1>3, PTL DEF Spec

---------------------------------------------------------------------------
(* What the processes leave in C.                                          *)

\* The segment's cells can be numbered in a word.
CellsFit == N * N <= WordMod

LEMMA CellNumber ==
  ASSUME CellsFit, NEW i \in Index, NEW j \in Index
  PROVE  Cell(i, j) = i * N + j /\ Cell(i, j) \in Cells
<1>1. N \in Nat /\ i \in Nat /\ j \in Nat /\ i + 1 <= N /\ j < N
  BY DimensionAssumption DEF Index
<1>2. /\ i * N \in Nat /\ (i + 1) * N \in Nat /\ N * N \in Nat
      /\ (i + 1) * N <= N * N
  BY <1>1, ProductMonotonic
<1>3. (i + 1) * N = i * N + N
  BY <1>1
<1> DEFINE x == i * N
           y == N * N
<1>4. x + j < y /\ x + j \in Nat
  <2> HIDE DEF x, y
  <2> QED BY <1>1, <1>2, <1>3 DEF x, y
<1>5. (x + j) % WordMod = x + j
  <2>1. \A z \in Nat : z < WordMod => z % WordMod = z
    BY WordAssumption
  <2>2. x + j < WordMod
    <3> HIDE DEF x, y
    <3>1. y <= WordMod /\ y \in Nat /\ x \in Nat
      BY <1>2 DEF x, y, CellsFit
    <3> QED BY <1>1, <1>4, <3>1, WordAssumption
  <2> HIDE DEF x, y
  <2> QED BY <1>4, <2>1, <2>2
<1>6. Cell(i, j) = x + j
  BY <1>5 DEF Cell
<1>7. x + j \in 0..(y - 1)
  <2>1. x \in Nat /\ y \in Nat
    BY <1>2
  <2> HIDE DEF x, y
  <2> QED BY <1>1, <1>4, <2>1
<1> QED BY <1>6, <1>7 DEF Cells

\* Two cells are different.
LEMMA CellsDiffer ==
  ASSUME CellsFit, NEW i \in Index, NEW j \in Index, NEW r \in Index, NEW b \in Index,
         Cell(i, j) = Cell(r, b)
  PROVE  i = r /\ j = b
<1>1. N \in Nat /\ i \in Nat /\ j \in Nat /\ r \in Nat /\ b \in Nat /\ j < N /\ b < N
  BY DimensionAssumption DEF Index
<1>2. i * N + j = r * N + b
  BY CellNumber
<1>3. ASSUME NEW m \in Nat, NEW n \in Nat, m < n, NEW v \in Nat, NEW w \in Nat, v < N
      PROVE  m * N + v < n * N + w
  <2>1. /\ (m + 1) * N <= n * N /\ m * N \in Nat /\ n * N \in Nat
        /\ (m + 1) * N = m * N + N
    BY <1>1, <1>3, ProductMonotonic
  <2> DEFINE p == m * N
             q == n * N
  <2>2. p + N <= q /\ p \in Nat /\ q \in Nat
    BY <2>1
  <2> HIDE DEF p, q
  <2>3. p + v < q + w
    BY <1>1, <1>3, <2>2
  <2> QED BY <2>3 DEF p, q
<1>4. i = r
  <2>1. ~(i < r)
    BY <1>1, <1>2, <1>3
  <2>2. ~(r < i)
    BY <1>1, <1>2, <1>3
  <2> QED BY <1>1, <2>1, <2>2
<1> QED BY <1>1, <1>2, <1>4

\* A row written up to some column leaves the other rows as they are, and one
\* that is written to its end is the product's.
LEMMA RowEffect ==
  ASSUME CellsFit, NEW i \in Index
  PROVE  /\ \A j \in 0..N, K \in 0..N : \A r \in Index : r # i =>
              \A b \in Index : WithRow(i, j, K)[Cell(r, b)] = C[Cell(r, b)]
         /\ \A b \in Index : WithRow(i, N, 0)[Cell(i, b)] = Accumulated(i, b, N)
<1>0. N \in Nat
  BY DimensionAssumption
<1>1. ASSUME NEW j \in 0..N, NEW K \in 0..N, NEW r \in Index, r # i, NEW b \in Index
      PROVE  WithRow(i, j, K)[Cell(r, b)] = C[Cell(r, b)]
  <2>1. Cell(r, b) \in Cells
    BY CellNumber
  <2>2. ~ \E d \in 0..(j - 1) : Cell(r, b) = Cell(i, d)
    <3>1. 0..(j - 1) \subseteq Index
      BY <1>0 DEF Index
    <3> QED BY <1>1, <3>1, CellsDiffer
  <2>3. ~(Cell(r, b) = Cell(i, j) /\ j < N)
    <3>1. j < N => j \in Index
      BY <1>0 DEF Index
    <3> QED BY <1>1, <3>1, CellsDiffer
  <2> QED BY <2>1, <2>2, <2>3 DEF WithRow
<1>2. ASSUME NEW b \in Index PROVE WithRow(i, N, 0)[Cell(i, b)] = Accumulated(i, b, N)
  <2>1. Cell(i, b) \in Cells
    BY CellNumber
  <2>2. \A d \in 0..(N - 1) : Cell(i, b) = Cell(i, d) => d = b
    BY CellsDiffer DEF Index
  <2>3. b \in 0..(N - 1)
    BY DEF Index
  <2>4. (CHOOSE d \in 0..(N - 1) : Cell(i, b) = Cell(i, d)) = b
    BY <2>2, <2>3
  <2> QED BY <2>1, <2>3, <2>4 DEF WithRow
<1> QED BY <1>1, <1>2

\* The row a process has written.
RowDone(r) == \A j \in Index : C[Cell(r, j)] = Accumulated(r, j, N)

\* Whatever a process of this round has got behind itself is the product's, and
\* it has not left its band.
WrittenInv ==
  /\ RoundInv
  /\ forked \in 0..process_num
  /\ main \in {"create", "fork"} => forked < process_num
  /\ main \in {"wait", "sum"} => forked = process_num
  /\ DOMAIN proc = Ids /\ \A id \in Ids : proc[id] = "running" => id < forked
  /\ row \in [Ids -> Nat]
  /\ \A id \in 0..(forked - 1) :
       /\ RowsSt(id) <= row[id]
       /\ row[id] # RowsSt(id) => row[id] <= RowsEd(id)
       /\ \A r \in Index : (RowsSt(id) <= r /\ r < row[id]) => RowDone(r)

\* A step of one process that touches no row but the one at hand.
LEMMA RowsKept ==
  ASSUME WrittenInv, NEW id \in Ids, Running(id), row[id] < RowsEd(id),
         row' \in [Ids -> Nat], DOMAIN proc' = Ids,
         UNCHANGED <<main, process_num, forked>>,
         \A p \in Ids : proc'[p] = "running" => proc[p] = "running",
         \A p \in Ids : p # id => row'[p] = row[p],
         \A r \in Index : r # row[id] /\ RowDone(r) => RowDone(r)',
         \/ row'[id] = row[id]
         \/ row'[id] = row[id] + 1 /\ \A r \in Index : r = row[id] => RowDone(r)'
  PROVE  WrittenInv'
<1>1. /\ id \in 0..(forked - 1) /\ forked <= process_num /\ process_num \in 1..MaxProcs
      /\ MaxProcs \in Nat /\ forked \in Nat /\ id \in Nat
      /\ row[id] \in Nat /\ RowsSt(id) <= row[id]
  BY ProcsAssumption DEF WrittenInv, RoundInv, Running, Ids
<1>2. /\ PartRows' = PartRows
      /\ \A p : RowsSt(p)' = RowsSt(p) /\ RowsEd(p)' = RowsEd(p)
  BY DEF PartRows, RowsSt, RowsEd
<1>3. \A p \in 0..(forked - 1) : /\ p \in Ids /\ p \in 0..(process_num - 1)
                                /\ RowsSt(p) \in Nat /\ RowsEd(p) \in Nat
  <2> SUFFICES ASSUME NEW p \in 0..(forked - 1)
               PROVE  /\ p \in Ids /\ p \in 0..(process_num - 1)
                      /\ RowsSt(p) \in Nat /\ RowsEd(p) \in Nat
    OBVIOUS
  <2>1. p \in Ids /\ p \in 0..(process_num - 1)
    BY <1>1 DEF Ids
  <2>2. RoundInv
    BY DEF WrittenInv
  <2> QED BY <2>1, <2>2, Bounds, DimensionAssumption
<1>4. row[id] \in Index /\ row[id] \in Band(id)
  BY <1>1, <1>3, Bounds, DimensionAssumption DEF WrittenInv, Index, Band
<1>5. ASSUME NEW p \in 0..(forked - 1), p # id, NEW r \in Index,
             RowsSt(p) <= r, r < row[p]
      PROVE  r # row[id]
  <2>1. r \in Band(p)
    BY <1>3, <1>5 DEF WrittenInv, Band, Index
  <2> QED BY <1>1, <1>3, <1>4, <1>5, <2>1, Partition DEF RowsApart, WrittenInv
<1>6. ASSUME NEW p \in 0..(forked - 1)
      PROVE  /\ RowsSt(p) <= row'[p]
             /\ row'[p] # RowsSt(p) => row'[p] <= RowsEd(p)
             /\ \A r \in Index : (RowsSt(p) <= r /\ r < row'[p]) => RowDone(r)'
  <2>1. CASE p # id
    BY <1>3, <1>5, <2>1 DEF WrittenInv
  <2>2. CASE p = id
    <3>1. RowsSt(p) <= row'[p] /\ (row'[p] # RowsSt(p) => row'[p] <= RowsEd(p))
      BY <1>1, <1>3, <2>2 DEF WrittenInv
    <3>2. ASSUME NEW r \in Index, RowsSt(p) <= r, r < row'[p] PROVE RowDone(r)'
      <4>1. CASE r = row[id]
        BY <1>1, <2>2, <3>2, <4>1
      <4>2. CASE r # row[id]
        BY <1>1, <2>2, <3>2, <4>2 DEF WrittenInv, Index
      <4> QED BY <4>1, <4>2
    <3> QED BY <3>1, <3>2
  <2> QED BY <2>1, <2>2
<1>7. RoundInv'
  BY DEF RoundInv, WrittenInv
<1> QED BY <1>2, <1>6, <1>7 DEF WrittenInv

LEMMA WrittenNext ==
  ASSUME CellsFit PROVE WrittenInv /\ [Next]_vars => WrittenInv'
<1> SUFFICES ASSUME WrittenInv, [Next]_vars PROVE WrittenInv'
  OBVIOUS
<1>0. /\ process_num \in 1..MaxProcs /\ MaxProcs \in Nat /\ forked \in Nat
      /\ N \in Nat /\ RoundInv'
  BY RoundNext, ProcsAssumption, DimensionAssumption DEF WrittenInv, RoundInv
<1>1. CASE Fork
  <2>1. /\ forked \in 0..(process_num - 1) /\ forked \in Ids
        /\ RowsSt(forked) \in Nat
    BY <1>0, <1>1, Bounds DEF Fork, WrittenInv, Ids
  <2>2. /\ main = "fork" /\ forked' = forked + 1 /\ UNCHANGED <<process_num, C>>
        /\ main' = IF forked + 1 = process_num THEN "wait" ELSE "fork"
        /\ proc' = [proc EXCEPT ![forked] = "running"]
        /\ row' = [row EXCEPT ![forked] = RowsSt(forked)]
    BY <1>1 DEF Fork
  <2>3. /\ PartRows' = PartRows
        /\ \A p : RowsSt(p)' = RowsSt(p) /\ RowsEd(p)' = RowsEd(p)
        /\ \A r : RowDone(r)' = RowDone(r)
    BY <2>2 DEF PartRows, RowsSt, RowsEd, RowDone
  <2>4. row' \in [Ids -> Nat] /\ DOMAIN proc' = Ids
    BY <2>1, <2>2 DEF WrittenInv
  <2>5. \A p \in Ids : proc'[p] = "running" => p < forked'
    BY <1>0, <2>1, <2>2 DEF WrittenInv, Ids
  <2>6. ASSUME NEW p \in 0..(forked' - 1)
        PROVE  /\ RowsSt(p) <= row'[p]
               /\ row'[p] # RowsSt(p) => row'[p] <= RowsEd(p)
               /\ \A r \in Index : (RowsSt(p) <= r /\ r < row'[p]) => RowDone(r)
    <3>1. CASE p = forked
      BY <2>1, <2>2, <3>1 DEF WrittenInv, Index
    <3>2. CASE p # forked
      <4>1. p \in 0..(forked - 1) /\ p \in Ids
        BY <1>0, <2>1, <2>2, <3>2 DEF Ids
      <4>2. row'[p] = row[p]
        BY <2>2, <3>2, <4>1 DEF WrittenInv
      <4> QED BY <4>1, <4>2 DEF WrittenInv
    <3> QED BY <3>1, <3>2
  <2>7. /\ forked' \in 0..process_num
        /\ main' \in {"create", "fork"} => forked' < process_num
        /\ main' \in {"wait", "sum"} => forked' = process_num
    BY <1>0, <2>1, <2>2
  <2> QED BY <1>0, <2>2, <2>3, <2>4, <2>5, <2>6, <2>7 DEF WrittenInv
<1>2. CASE Sum
  <2>1. CASE process_num = MaxProcs
    <3>1. main' = "detach" /\ UNCHANGED <<process_num, forked, proc, row, C>>
      BY <1>2, <2>1 DEF Sum, procVars
    <3> QED BY <1>0, <3>1 DEF WrittenInv, RowDone, RowsSt, RowsEd, PartRows
  <2>2. CASE process_num # MaxProcs
    <3>1. /\ main' = "fork" /\ process_num' = process_num + 1 /\ forked' = 0
          /\ proc' = [id \in Ids |-> "unused"] /\ row' = [id \in Ids |-> 0] /\ C' = C
      BY <1>2, <2>2 DEF Sum
    <3> QED BY <1>0, <3>1 DEF WrittenInv
  <2> QED BY <2>1, <2>2
<1>3. ASSUME UNCHANGED <<process_num, forked, row, C>>, DOMAIN proc' = Ids,
             \A p \in Ids : proc'[p] = "running" => proc[p] = "running",
             main' \in {"create", "fork"} => main \in {"create", "fork"},
             main' \in {"wait", "sum"} => main \in {"wait", "sum"}
      PROVE  WrittenInv'
  BY <1>0, <1>3 DEF WrittenInv, RowDone, RowsSt, RowsEd, PartRows
<1>4. ASSUME NEW id \in Ids, Running(id), row[id] < RowsEd(id)
      PROVE  row[id] \in Index
  <2>1. row[id] \in Nat /\ id \in 0..(process_num - 1)
    BY <1>0, <1>4 DEF WrittenInv, Running, Ids
  <2>2. RowsEd(id) <= N /\ RowsEd(id) \in Nat
    BY <1>0, <2>1, Bounds DEF WrittenInv
  <2> QED BY <1>0, <1>4, <2>1, <2>2 DEF Index
<1>5. ASSUME NEW id \in Ids, ComputeRow(id) PROVE WrittenInv'
  <2> DEFINE i == row[id]
  <2>1. /\ Running(id) /\ row[id] < RowsEd(id) /\ C' = WithRow(i, N, 0)
        /\ row' = [row EXCEPT ![id] = row[id] + 1]
        /\ UNCHANGED <<main, process_num, forked, proc>>
    BY <1>5 DEF ComputeRow
  <2>2. i \in Index
    BY <1>4, <2>1
  <2>3. \A r \in Index : r # row[id] /\ RowDone(r) => RowDone(r)'
    <3>1. \A r \in Index : r # row[id] =>
            \A b \in Index : WithRow(row[id], N, 0)[Cell(r, b)] = C[Cell(r, b)]
      <4>1. N \in 0..N /\ 0 \in 0..N
        BY <1>0
      <4> QED BY <2>2, <4>1, RowEffect
    <3> QED BY <2>1, <3>1 DEF RowDone
  <2>4. \A r \in Index : r = row[id] => RowDone(r)'
    <3>1. \A b \in Index :
            WithRow(row[id], N, 0)[Cell(row[id], b)] = Accumulated(row[id], b, N)
      BY <2>2, RowEffect
    <3> QED BY <2>1, <3>1 DEF RowDone
  <2>5. /\ row' \in [Ids -> Nat] /\ row'[id] = row[id] + 1
        /\ \A p \in Ids : p # id => row'[p] = row[p]
    BY <2>1 DEF WrittenInv
  <2> QED BY <2>1, <2>3, <2>4, <2>5, RowsKept DEF WrittenInv
<1>6. ASSUME NEW id \in Ids, Killed(id) PROVE WrittenInv'
  <2> DEFINE i == row[id]
  <2>1. /\ Running(id) /\ row[id] < RowsEd(id)
        /\ proc' = [proc EXCEPT ![id] = "ended"]
        /\ UNCHANGED <<main, process_num, forked, row>>
        /\ C' = C \/ \E j \in Index, K \in 0..N : C' = WithRow(i, j, K)
    BY <1>6 DEF Killed
  <2>2. i \in Index
    BY <1>4, <2>1
  <2>3. Index \subseteq 0..N
    BY <1>0 DEF Index
  <2>4. \A r \in Index : r # row[id] /\ RowDone(r) => RowDone(r)'
    <3>1. CASE C' = C
      BY <3>1 DEF RowDone
    <3>2. CASE \E j \in Index, K \in 0..N : C' = WithRow(i, j, K)
      <4>1. PICK j \in Index, K \in 0..N : C' = WithRow(i, j, K)
        BY <3>2
      <4>2. j \in 0..N
        BY <2>3
      <4> HIDE DEF i
      <4>3. \A d \in 0..N, M \in 0..N : \A r \in Index : r # i =>
              \A b \in Index : WithRow(i, d, M)[Cell(r, b)] = C[Cell(r, b)]
        BY <2>2, RowEffect
      <4>4. \A r \in Index : r # i =>
              \A b \in Index : WithRow(i, j, K)[Cell(r, b)] = C[Cell(r, b)]
        BY <4>1, <4>2, <4>3
      <4>5. ASSUME NEW r \in Index, r # i, RowDone(r) PROVE RowDone(r)'
        BY <4>1, <4>4, <4>5 DEF RowDone
      <4> QED BY <4>5 DEF i
    <3> QED BY <2>1, <3>1, <3>2
  <2>5. /\ row' \in [Ids -> Nat] /\ row'[id] = row[id] /\ DOMAIN proc' = Ids
        /\ \A p \in Ids : p # id => row'[p] = row[p]
        /\ \A p \in Ids : proc'[p] = "running" => proc[p] = "running"
    BY <2>1 DEF WrittenInv
  <2> QED BY <2>1, <2>4, <2>5, RowsKept
<1>7. CASE CreateShm \/ ForkFails \/ WaitForAll \/ SumFaults \/ Detach \/ UNCHANGED vars
  BY <1>3, <1>7 DEF CreateShm, ForkFails, WaitForAll, SumFaults, Detach, vars, procVars,
     WrittenInv
<1>8. ASSUME NEW id \in Ids, Exit(id) \/ Faults(id) PROVE WrittenInv'
  <2>1. /\ UNCHANGED <<main, process_num, forked, row, C>>
        /\ proc' = [proc EXCEPT ![id] = "ended"]
    BY <1>8 DEF Exit, Faults
  <2>2. DOMAIN proc' = Ids /\ \A p \in Ids : proc'[p] = "running" => proc[p] = "running"
    BY <2>1 DEF WrittenInv
  <2> QED BY <1>3, <2>1, <2>2
<1> QED BY <1>1, <1>2, <1>5, <1>6, <1>7, <1>8 DEF Next, Parent, Process

\* A round all of whose processes got to the end of their bands leaves the
\* product in C, whatever the rounds before it, killed or not, left there.
RoundWrites ==
  (main = "sum" /\ \A id \in 0..(process_num - 1) : row[id] >= RowsEd(id))
  => \A i, j \in Index : C[Cell(i, j)] = Accumulated(i, j, N)

LEMMA WrittenRound == WrittenInv => RoundWrites
<1> SUFFICES ASSUME WrittenInv, main = "sum",
                    \A id \in 0..(process_num - 1) : row[id] >= RowsEd(id),
                    NEW i \in Index
             PROVE  RowDone(i)
  BY DEF RoundWrites, RowDone
<1>1. RoundInv /\ forked = process_num /\ process_num \in Nat
  BY ProcsAssumption DEF WrittenInv, RoundInv
<1>2. PICK id \in 0..(process_num - 1) : i \in Band(id)
  BY <1>1, Partition DEF RowsApart
<1>3. /\ id \in Ids /\ row[id] \in Nat /\ RowsEd(id) \in Nat /\ i \in Nat
      /\ RowsSt(id) <= i /\ i < RowsEd(id) /\ row[id] >= RowsEd(id)
  BY <1>1, <1>2, Bounds, DimensionAssumption, ProcsAssumption
     DEF WrittenInv, RoundInv, Band, Ids
<1> QED BY <1>1, <1>2, <1>3 DEF WrittenInv

\* Every row is written by its own process and by nobody else, for every
\* dimension whose cells fit a word, every number of processes and every
\* interleaving: no lock is needed, and rounds repair what others left behind.
THEOREM RoundsComplete ==
  ASSUME CellsFit PROVE Spec => []RoundWrites
<1>1. Init => WrittenInv
  BY ProcsAssumption DEF Init, WrittenInv, RoundInv
<1>2. WrittenInv /\ [Next]_vars => WrittenInv'
  BY WrittenNext
<1>3. WrittenInv => RoundWrites
  BY WrittenRound
<1> QED BY <1>1, <1>2, <1>3, PTL DEF Spec
---------------------------------------------------------------------------
(* Sums in a word.                                                         *)

\* A number is its quotient's multiple and its remainder, in one way only.
LEMMA Remainder ==
  ASSUME NEW W \in Nat, W > 0, NEW q \in Nat, NEW r \in Nat, r < W
  PROVE  (W * q + r) % W = r
<1> DEFINE x == W * q + r
           d == x \div W
           m == x % W
<1>1. x \in Nat /\ W * q \in Nat
  OBVIOUS
<1>2. d \in Nat /\ m \in Nat /\ m < W /\ x = W * d + m
  <2> HIDE DEF x
  <2> QED BY <1>1
<1>3. W * d \in Nat /\ q * W = W * q /\ d * W = W * d
  BY <1>2
<1>4. CASE q < d
  <2>1. (q + 1) * W <= d * W /\ (q + 1) * W = q * W + W
    BY <1>2, <1>4, ProductMonotonic
  <2> DEFINE a == W * q
             b == W * d
  <2>2. a + W <= b /\ a \in Nat /\ b \in Nat /\ a + r = b + m
    BY <1>1, <1>2, <1>3, <2>1
  <2> HIDE DEF a, b, m
  <2> QED BY <1>2, <2>2
<1>5. CASE d < q
  <2>1. (d + 1) * W <= q * W /\ (d + 1) * W = d * W + W
    BY <1>2, <1>5, ProductMonotonic
  <2> DEFINE a == W * q
             b == W * d
  <2>2. b + W <= a /\ a \in Nat /\ b \in Nat /\ a + r = b + m
    BY <1>1, <1>2, <1>3, <2>1
  <2> HIDE DEF a, b, m
  <2> QED BY <1>2, <2>2
<1>6. CASE d = q
  <2> DEFINE a == W * q
  <2>1. a + r = a + m /\ a \in Nat
    BY <1>1, <1>2, <1>6
  <2> HIDE DEF a, m
  <2> QED BY <1>2, <2>1 DEF m, x
<1> QED BY <1>2, <1>4, <1>5, <1>6

\* Multiples of W do not count.
LEMMA ModMultiple ==
  ASSUME NEW W \in Nat, W > 0, NEW q \in Nat, NEW x \in Nat
  PROVE  (W * q + x) % W = x % W
<1> DEFINE d == x \div W
           m == x % W
<1>1. d \in Nat /\ m \in Nat /\ m < W /\ x = W * d + m
  OBVIOUS
<1>2. W * q + x = W * (q + d) + m /\ q + d \in Nat
  <2> HIDE DEF d, m
  <2> QED BY <1>1
<1>3. (W * (q + d) + m) % W = m
  <2> HIDE DEF d, m
  <2> QED BY <1>1, <1>2, Remainder
<1> QED BY <1>2, <1>3

\* Sums and products may be reduced term by term.
LEMMA ModSum ==
  ASSUME NEW W \in Nat, W > 0, NEW a \in Nat, NEW b \in Nat
  PROVE  ((a % W) + (b % W)) % W = (a + b) % W
<1>1. PICK p \in Nat, r \in Nat : r = a % W /\ a = W * p + r
  BY a = W * (a \div W) + (a % W), a \div W \in Nat, a % W \in Nat
<1>2. PICK q \in Nat, s \in Nat : s = b % W /\ b = W * q + s
  BY b = W * (b \div W) + (b % W), b \div W \in Nat, b % W \in Nat
<1>3. a + b = W * (p + q) + (r + s)
  BY <1>1, <1>2
<1>4. (W * (p + q) + (r + s)) % W = (r + s) % W
  BY p + q \in Nat, r + s \in Nat, ModMultiple
<1>5. (a + b) % W = (r + s) % W
  BY <1>3, <1>4
<1>6. r = a % W /\ s = b % W
  BY <1>1, <1>2
<1> QED BY <1>5, <1>6

LEMMA ModProduct ==
  ASSUME NEW W \in Nat, W > 0, NEW a \in Nat, NEW b \in Nat
  PROVE  ((a % W) * (b % W)) % W = (a * b) % W
<1> DEFINE p == a \div W
           q == b \div W
           r == a % W
           s == b % W
           t == p * b + r * q
<1>1. /\ p \in Nat /\ r \in Nat /\ a = W * p + r
      /\ q \in Nat /\ s \in Nat /\ b = W * q + s
  OBVIOUS
<1>2. t \in Nat /\ r * s \in Nat
  <2> HIDE DEF p, q, r, s
  <2> QED BY <1>1
<1>3. a * b = W * t + r * s
  <2> HIDE DEF p, q, r, s
  <2>1. a * b = (W * p) * b + r * b
    BY <1>1
  <2>2. (W * p) * b = W * (p * b)
    BY <1>1
  <2>3. r * b = W * (r * q) + r * s
    BY <1>1
  <2> DEFINE pb == p * b
             rq == r * q
  <2>4. pb \in Nat /\ rq \in Nat /\ t = pb + rq
    BY <1>1
  <2>5. W * (pb + rq) = W * pb + W * rq
    <3> HIDE DEF pb, rq
    <3> QED BY <2>4
  <2> QED BY <1>2, <2>1, <2>2, <2>3, <2>4, <2>5
<1>4. (W * t + r * s) % W = (r * s) % W
  <2> HIDE DEF p, q, r, s, t
  <2> QED BY <1>2, ModMultiple
<1> QED BY <1>3, <1>4

\* The recursive functions behind a loop that adds numbers exist.
LEMMA SumsSteps ==
  ASSUME NEW n \in Nat, NEW f, \A k \in 0..(n - 1) : f[k] \in Nat
  PROVE  /\ Sums(f, n) \in [0..n -> Nat] /\ Sums(f, n)[0] = 0
         /\ \A k \in 0..(n - 1) : Sums(f, n)[k + 1] = Sums(f, n)[k] + f[k]
<1> DEFINE F == [q \in (0..n) \X Nat |-> IF q[1] = 0 THEN 0 ELSE q[2] + f[q[1] - 1]]
           Steps(s) == s = [k \in 0..n |-> IF k = 0 THEN 0 ELSE s[k - 1] + f[k - 1]]
<1>1. F \in [(0..n) \X Nat -> Nat]
  OBVIOUS
<1>2. PICK s : IsLoop(s, 0, n, Nat, 0, F)
  <2> DEFINE S == Nat
  <2>1. 0 \in Int /\ n \in Int /\ 0 <= n /\ 0 \in S /\ F \in [(0..n) \X S -> S]
    BY <1>1
  <2>2. \E s : IsLoop(s, 0, n, S, 0, F)
    <3> HIDE DEF F, S
    <3> QED BY <2>1, LoopExists
  <2> QED BY <2>2
<1>3. Steps(s)
  <2>1. s \in [0..n -> Nat] /\ s[0] = 0
    BY <1>2 DEF IsLoop
  <2>2. ASSUME NEW k \in 0..n, k # 0 PROVE s[k] = s[k - 1] + f[k - 1]
    <3>1. k - 1 \in 0..n
      BY <2>2
    <3>2. <<k, s[k - 1]>> \in (0..n) \X Nat
      BY <2>1, <3>1
    <3>3. F[<<k, s[k - 1]>>] = s[k - 1] + f[k - 1]
      BY <2>2, <3>2
    <3> QED BY <1>2, <2>2, <3>3 DEF IsLoop
  <2> QED BY <2>1, <2>2
<1> DEFINE t == CHOOSE u : Steps(u)
<1>4. Sums(f, n) = t
  BY DEF Sums
<1>5. Steps(t)
  <2> HIDE DEF Steps
  <2> QED BY <1>3
<1> HIDE DEF t
<1>6. DOMAIN t = 0..n /\ t[0] = 0 /\ \A k \in 0..n : k # 0 => t[k] = t[k - 1] + f[k - 1]
  BY <1>5
<1>7. \A k \in 0..(n - 1) : t[k + 1] = t[k] + f[k]
  <2> SUFFICES ASSUME NEW k \in 0..(n - 1) PROVE t[k + 1] = t[k] + f[k]
    OBVIOUS
  <2>1. k + 1 \in 0..n /\ k + 1 # 0 /\ (k + 1) - 1 = k
    OBVIOUS
  <2> QED BY <1>6, <2>1
<1>8. \A k \in 0..n : t[k] \in Nat
  <2> DEFINE T == {k \in 0..n : t[k] \in Nat}
  <2>1. ASSUME NEW k \in 0..(n - 1), k \in T PROVE k + 1 \in T
    BY <1>7, <2>1
  <2>2. 0 \in T
    BY <1>6
  <2>3. 0..n \subseteq T
    <3> HIDE DEF T
    <3> QED BY <2>1, <2>2, IntervalInduction
  <2> QED BY <2>3
<1>9. t \in [0..n -> Nat]
  BY <1>5, <1>8
<1> QED BY <1>4, <1>6, <1>7, <1>9

LEMMA WordSumsSteps ==
  ASSUME NEW n \in Nat, NEW f, \A k \in 0..(n - 1) : f[k] \in Nat
  PROVE  /\ WordSums(f, n) \in [0..n -> Nat] /\ WordSums(f, n)[0] = 0
         /\ \A k \in 0..(n - 1) :
              WordSums(f, n)[k + 1] = (WordSums(f, n)[k] + f[k]) % WordMod
<1> DEFINE F == [q \in (0..n) \X Nat |->
                   IF q[1] = 0 THEN 0 ELSE (q[2] + f[q[1] - 1]) % WordMod]
           Steps(s) == s = [k \in 0..n |->
                              IF k = 0 THEN 0 ELSE (s[k - 1] + f[k - 1]) % WordMod]
<1>0. WordMod \in Nat /\ WordMod > 0
  BY WordAssumption, ProcsAssumption, DimensionAssumption
<1>1. F \in [(0..n) \X Nat -> Nat]
  <2> SUFFICES ASSUME NEW k \in 0..n, NEW x \in Nat, k # 0
               PROVE  (x + f[k - 1]) % WordMod \in Nat
    OBVIOUS
  <2>1. x + f[k - 1] \in Nat
    OBVIOUS
  <2> QED BY <1>0, <2>1
<1>2. PICK s : IsLoop(s, 0, n, Nat, 0, F)
  <2> DEFINE S == Nat
  <2>1. 0 \in Int /\ n \in Int /\ 0 <= n /\ 0 \in S /\ F \in [(0..n) \X S -> S]
    BY <1>1
  <2>2. \E s : IsLoop(s, 0, n, S, 0, F)
    <3> HIDE DEF F, S
    <3> QED BY <2>1, LoopExists
  <2> QED BY <2>2
<1>3. Steps(s)
  <2>1. s \in [0..n -> Nat] /\ s[0] = 0
    BY <1>2 DEF IsLoop
  <2>2. ASSUME NEW k \in 0..n, k # 0 PROVE s[k] = (s[k - 1] + f[k - 1]) % WordMod
    <3>1. k - 1 \in 0..n
      BY <2>2
    <3>2. <<k, s[k - 1]>> \in (0..n) \X Nat
      BY <2>1, <3>1
    <3>3. F[<<k, s[k - 1]>>] = (s[k - 1] + f[k - 1]) % WordMod
      BY <2>2, <3>2
    <3> QED BY <1>2, <2>2, <3>3 DEF IsLoop
  <2> QED BY <2>1, <2>2
<1> DEFINE t == CHOOSE u : Steps(u)
<1>4. WordSums(f, n) = t
  BY DEF WordSums
<1>5. Steps(t)
  <2> HIDE DEF Steps
  <2> QED BY <1>3
<1> HIDE DEF t
<1>6. /\ DOMAIN t = 0..n /\ t[0] = 0
      /\ \A k \in 0..n : k # 0 => t[k] = (t[k - 1] + f[k - 1]) % WordMod
  BY <1>5
<1>7. \A k \in 0..(n - 1) : t[k + 1] = (t[k] + f[k]) % WordMod
  <2> SUFFICES ASSUME NEW k \in 0..(n - 1) PROVE t[k + 1] = (t[k] + f[k]) % WordMod
    OBVIOUS
  <2>1. k + 1 \in 0..n /\ k + 1 # 0 /\ (k + 1) - 1 = k
    OBVIOUS
  <2> QED BY <1>6, <2>1
<1>8. \A k \in 0..n : t[k] \in Nat
  <2> DEFINE T == {k \in 0..n : t[k] \in Nat}
  <2>1. ASSUME NEW k \in 0..(n - 1), k \in T PROVE k + 1 \in T
    <3>1. t[k] + f[k] \in Nat /\ k + 1 \in 0..n
      BY <2>1
    <3>2. t[k + 1] \in Nat
      BY <1>0, <1>7, <3>1
    <3> QED BY <3>1, <3>2
  <2>2. 0 \in T
    BY <1>6
  <2>3. 0..n \subseteq T
    <3> HIDE DEF T
    <3> QED BY <2>1, <2>2, IntervalInduction
  <2> QED BY <2>3
<1>9. t \in [0..n -> Nat]
  BY <1>5, <1>8
<1> QED BY <1>4, <1>6, <1>7, <1>9

\* A sum in a word is the sum without bound, reduced: what wraps around on
\* the way does not matter.
LEMMA WordSumsRight ==
  ASSUME NEW n \in Nat, NEW f, NEW g,
         \A k \in 0..(n - 1) : f[k] \in Nat /\ g[k] \in Nat
                                 /\ f[k] % WordMod = g[k] % WordMod
  PROVE  \A k \in 0..n : WordSums(f, n)[k] = Sums(g, n)[k] % WordMod
<1> DEFINE s == WordSums(f, n)
           t == Sums(g, n)
           T == {k \in 0..n : s[k] = t[k] % WordMod}
<1>0. WordMod \in Nat /\ WordMod > 0 /\ 0 % WordMod = 0
  BY WordAssumption, ProcsAssumption, DimensionAssumption
<1>1. /\ s \in [0..n -> Nat] /\ s[0] = 0
      /\ \A k \in 0..(n - 1) : s[k + 1] = (s[k] + f[k]) % WordMod
  BY WordSumsSteps
<1>2. /\ t \in [0..n -> Nat] /\ t[0] = 0
      /\ \A k \in 0..(n - 1) : t[k + 1] = t[k] + g[k]
  BY SumsSteps
<1> HIDE DEF s, t
<1>3. ASSUME NEW k \in 0..(n - 1), k \in T PROVE k + 1 \in T
  <2>1. /\ s[k] \in Nat /\ t[k] \in Nat /\ f[k] \in Nat /\ g[k] \in Nat
        /\ s[k] = t[k] % WordMod /\ f[k] % WordMod = g[k] % WordMod
        /\ k \in 0..n /\ k + 1 \in 0..n
    BY <1>1, <1>2, <1>3
  <2>2. s[k] % WordMod = t[k] % WordMod
    <3>1. t[k] % WordMod \in 0..(WordMod - 1)
      BY <1>0, <2>1
    <3> QED BY <1>0, <2>1, <3>1
  <2>3. (s[k] + f[k]) % WordMod = (t[k] + g[k]) % WordMod
    <3>1. ((s[k] % WordMod) + (f[k] % WordMod)) % WordMod = (s[k] + f[k]) % WordMod
      BY <1>0, <2>1, ModSum
    <3>2. ((t[k] % WordMod) + (g[k] % WordMod)) % WordMod = (t[k] + g[k]) % WordMod
      BY <1>0, <2>1, ModSum
    <3>3. f[k] % WordMod = g[k] % WordMod
      BY <2>1
    <3> HIDE DEF T
    <3> QED BY <2>2, <3>1, <3>2, <3>3
  <2> QED BY <1>1, <1>2, <2>1, <2>3
<1>4. 0 \in T
  BY <1>0, <1>1, <1>2
<1>5. 0..n \subseteq T
  <2> HIDE DEF T
  <2> QED BY <1>3, <1>4, IntervalInduction
<1> QED BY <1>5 DEF s, t

---------------------------------------------------------------------------
(* The product and its checksum.                                           *)

\* The sums of the reference are numbers.
LEMMA SumIsNat ==
  ASSUME NEW n \in Nat, NEW f, \A k \in 0..(n - 1) : f[k] \in Nat
  PROVE  Sums(f, n)[n] \in Nat
BY SumsSteps

LEMMA ProductIsNat ==
  ASSUME NEW i \in Index, NEW j \in Index
  PROVE  Product(i, j) \in Nat
<1> DEFINE f == [k \in Index |-> (i * N + k) * (k * N + j)]
<1>1. N \in Nat /\ i \in Nat /\ j \in Nat
  BY DimensionAssumption DEF Index
<1>2. \A k \in 0..(N - 1) : f[k] \in Nat
  BY <1>1 DEF Index
<1> HIDE DEF f
<1>3. Sums(f, N)[N] \in Nat
  BY <1>1, <1>2, SumIsNat
<1> QED BY <1>3 DEF Product, f

LEMMA RowTotalIsNat ==
  ASSUME NEW i \in Index
  PROVE  RowTotal(i) \in Nat
<1> DEFINE f == [j \in Index |-> Product(i, j)]
<1>1. N \in Nat
  BY DimensionAssumption
<1>2. \A k \in 0..(N - 1) : f[k] \in Nat
  BY ProductIsNat DEF Index
<1> HIDE DEF f
<1>3. Sums(f, N)[N] \in Nat
  BY <1>1, <1>2, SumIsNat
<1> QED BY <1>3 DEF RowTotal, f

\* What the innermost loop leaves in a cell is the cell of the product,
\* although A, B, every term and every sum wrapped around on the way.
LEMMA AccumulatedRight ==
  ASSUME NEW i \in Index, NEW j \in Index
  PROVE  Accumulated(i, j, N) = Product(i, j) % WordMod
<1> DEFINE f == [k \in Index |-> InitMatrix(i, k) * InitMatrix(k, j)]
           g == [k \in Index |-> (i * N + k) * (k * N + j)]
<1>1. /\ N \in Nat /\ i \in Nat /\ j \in Nat /\ N \in 0..N
      /\ WordMod \in Nat /\ WordMod > 0
  BY DimensionAssumption, WordAssumption, ProcsAssumption DEF Index
<1>2. ASSUME NEW k \in 0..(N - 1)
      PROVE  f[k] \in Nat /\ g[k] \in Nat /\ f[k] % WordMod = g[k] % WordMod
  <2> DEFINE x == i * N + k
             y == k * N + j
  <2>1. k \in Index /\ k \in Nat
    BY DEF Index
  <2>2. x \in Nat /\ y \in Nat
    BY <1>1, <2>1
  <2>3. f[k] = (x % WordMod) * (y % WordMod) /\ g[k] = x * y
    BY <2>1 DEF InitMatrix
  <2> HIDE DEF x, y, f, g
  <2>4. ((x % WordMod) * (y % WordMod)) % WordMod = (x * y) % WordMod
    BY <1>1, <2>2, ModProduct
  <2>5. x % WordMod \in Nat /\ y % WordMod \in Nat
    BY <1>1, <2>2
  <2>6. f[k] \in Nat /\ g[k] \in Nat
    BY <2>2, <2>3, <2>5
  <2> QED BY <2>3, <2>4, <2>6
<1> HIDE DEF f, g
<1>3. WordSums(f, N)[N] = Sums(g, N)[N] % WordMod
  BY <1>1, <1>2, WordSumsRight
<1> QED BY <1>3 DEF Accumulated, Product, f, g

\* The number of cells is not 0 modulo the word, except that there are none.
CellsCounted == N * N < WordMod

\* In a round all of whose cells are right, check_sum computes the checksum of
\* the product: row after row, it has added up the rows behind it and the part
\* of the row at hand.
LEMMA CheckSumRight ==
  ASSUME CellsCounted, \A x \in Cells : C[x] \in Nat,
         \A i, j \in Index : C[Cell(i, j)] = Product(i, j) % WordMod
  PROVE  CheckSum = TrueCheckSum
<1> DEFINE w == WordSums(C, CellCount)
           R == [i \in Index |-> RowTotal(i)]
           t == Sums(R, N)
           P(i) == [j \in Index |-> Product(i, j)]
           u(i) == Sums(P(i), N)
<1>0. /\ N \in Nat /\ WordMod \in Nat /\ WordMod > 0 /\ N * N \in Nat
      /\ CellCount = N * N /\ 0 % WordMod = 0
  BY DimensionAssumption, WordAssumption, ProcsAssumption DEF CellsCounted, CellCount
<1>1. /\ w \in [0..(N * N) -> Nat] /\ w[0] = 0
      /\ \A x \in Cells : w[x + 1] = (w[x] + C[x]) % WordMod
  <2>1. CellCount \in Nat /\ \A x \in 0..(CellCount - 1) : C[x] \in Nat
    BY <1>0 DEF Cells
  <2> QED BY <1>0, <2>1, WordSumsSteps DEF Cells
<1>2. /\ t \in [0..N -> Nat] /\ t[0] = 0
      /\ \A i \in Index : t[i + 1] = t[i] + RowTotal(i)
  <2>1. \A i \in 0..(N - 1) : R[i] \in Nat
    BY RowTotalIsNat DEF Index
  <2>2. \A i \in Index : R[i] = RowTotal(i)
    OBVIOUS
  <2> HIDE DEF R
  <2> QED BY <1>0, <2>1, <2>2, SumsSteps DEF Index
<1>3. ASSUME NEW i \in Index
      PROVE  /\ u(i) \in [0..N -> Nat] /\ u(i)[0] = 0 /\ u(i)[N] = RowTotal(i)
             /\ \A j \in Index : u(i)[j + 1] = u(i)[j] + Product(i, j)
  <2> DEFINE Pi == P(i)
  <2>1. \A j \in 0..(N - 1) : Pi[j] \in Nat
    BY ProductIsNat DEF Index
  <2>2. \A j \in Index : Pi[j] = Product(i, j)
    OBVIOUS
  <2>3. Sums(Pi, N)[N] = RowTotal(i)
    BY DEF RowTotal
  <2> HIDE DEF Pi
  <2>4. /\ Sums(Pi, N) \in [0..N -> Nat] /\ Sums(Pi, N)[0] = 0
        /\ \A j \in Index : Sums(Pi, N)[j + 1] = Sums(Pi, N)[j] + Product(i, j)
    <3>1. /\ Sums(Pi, N) \in [0..N -> Nat] /\ Sums(Pi, N)[0] = 0
          /\ \A j \in 0..(N - 1) : Sums(Pi, N)[j + 1] = Sums(Pi, N)[j] + Pi[j]
      BY <1>0, <2>1, SumsSteps
    <3> QED BY <2>2, <3>1 DEF Index
  <2> QED BY <2>3, <2>4 DEF Pi
<1> HIDE DEF w, t, u, R, P
<1> DEFINE T == {i \in 0..N : w[i * N] = t[i] % WordMod}
<1>4. 0 \in T
  <2>1. 0 * N = 0
    BY <1>0
  <2> QED BY <1>0, <1>1, <1>2, <2>1
<1>5. ASSUME NEW i \in 0..(N - 1), i \in T PROVE i + 1 \in T
  <2> DEFINE b == i * N
             v == u(i)
             Q == {j \in 0..N : w[b + j] = (t[i] + v[j]) % WordMod}
  <2>1. /\ i \in Index /\ i \in 0..N /\ i \in Nat /\ i + 1 \in 0..N
        /\ b \in Nat /\ t[i] \in Nat /\ w[b] = t[i] % WordMod
        /\ (i + 1) * N = b + N
    BY <1>0, <1>2, <1>5 DEF Index
  <2>2. /\ v \in [0..N -> Nat] /\ v[0] = 0 /\ v[N] = RowTotal(i)
        /\ \A j \in Index : v[j + 1] = v[j] + Product(i, j)
    BY <1>3, <2>1
  <2> HIDE DEF b, v
  <2>3. 0 \in Q
    BY <1>0, <2>1, <2>2
  <2>4. ASSUME NEW j \in 0..(N - 1), j \in Q PROVE j + 1 \in Q
    <3>1. j \in Index /\ j \in 0..N /\ j + 1 \in 0..N /\ j \in Nat
      BY <1>0 DEF Index
    <3>2. Cell(i, j) = b + j /\ b + j \in Cells
      BY <2>1, <3>1, CellNumber, <1>0 DEF b, CellsFit, CellsCounted
    <3> DEFINE p == Product(i, j)
               a == t[i] + v[j]
    <3>3. C[b + j] = p % WordMod /\ w[b + j] = a % WordMod
      BY <2>1, <2>4, <3>1, <3>2
    <3>4. p \in Nat /\ a \in Nat
      <4>1. p \in Nat
        BY <2>1, <3>1, ProductIsNat
      <4>2. v[j] \in Nat
        BY <2>2, <3>1
      <4> QED BY <2>1, <4>1, <4>2
    <3>5. w[(b + j) + 1] = (w[b + j] + C[b + j]) % WordMod
      BY <1>1, <3>2
    <3>6. v[j + 1] = v[j] + p /\ v[j] \in Nat
      BY <2>2, <3>1
    <3>7. t[i] + v[j + 1] = a + p /\ b + (j + 1) = (b + j) + 1
      BY <2>1, <3>1, <3>4, <3>6
    <3> HIDE DEF a, p
    <3>8. ((a % WordMod) + (p % WordMod)) % WordMod = (a + p) % WordMod
      BY <1>0, <3>4, ModSum
    <3>9. w[b + (j + 1)] = (t[i] + v[j + 1]) % WordMod
      BY <3>3, <3>5, <3>7, <3>8
    <3> QED BY <3>1, <3>9
  <2>5. N \in Q
    <3>1. 0..N \subseteq Q
      <4> HIDE DEF Q
      <4> QED BY <1>0, <2>3, <2>4, IntervalInduction
    <3> QED BY <1>0, <3>1
  <2>6. w[(i + 1) * N] = t[i + 1] % WordMod
    <3>1. t[i + 1] = t[i] + v[N]
      BY <1>2, <2>1, <2>2
    <3> QED BY <2>1, <2>5, <3>1
  <2> QED BY <2>1, <2>6
<1>6. N \in T
  <2>1. 0..N \subseteq T
    <3> HIDE DEF T
    <3> QED BY <1>0, <1>4, <1>5, IntervalInduction
  <2> QED BY <1>0, <2>1
<1>7. w[CellCount] = t[N] % WordMod
  BY <1>0, <1>6
<1> QED BY <1>7 DEF CheckSum, TrueCheckSum, w, t, R

\* A complete round leaves the product in C, reduced to words, whatever
\* killed processes and earlier rounds left there.
THEOREM RoundsRepair ==
  ASSUME CellsFit PROVE Spec => []RoundRepairs
<1>1. RoundWrites => RoundRepairs
  BY AccumulatedRight DEF RoundWrites, RoundRepairs
<1> QED BY <1>1, RoundsComplete, PTL

\* Every cell of the segment belongs to a row and a column.
LEMMA CellOf ==
  ASSUME CellsFit, NEW x \in Cells
  PROVE  \E i, j \in Index : x = Cell(i, j)
<1> DEFINE i == x \div N
           j == x % N
<1>1. N \in Nat /\ N * N \in Nat /\ x \in Nat /\ x < N * N
  BY DimensionAssumption DEF Cells
<1>2. N > 0
  <2> SUFFICES ASSUME N = 0 PROVE FALSE
    BY <1>1
  <2> QED BY <1>1
<1>3. i \in Nat /\ j \in Nat /\ j < N /\ x = N * i + j
  BY <1>1, <1>2
<1> HIDE DEF i, j
<1>4. N * i = i * N /\ i * N \in Nat
  BY <1>1, <1>3
<1>5. i < N
  <2> SUFFICES ASSUME N <= i PROVE FALSE
    BY <1>1, <1>3
  <2>1. N * N <= i * N
    BY <1>1, <1>3, ProductMonotonic
  <2> QED BY <1>1, <1>3, <1>4, <2>1
<1>6. i \in Index /\ j \in Index
  BY <1>1, <1>3, <1>5 DEF Index
<1>7. x = Cell(i, j)
  BY <1>3, <1>4, <1>6, CellNumber
<1> QED BY <1>6, <1>7

\* As long as nobody has been killed and the segment is there, a process that
\* has ended got to the end of its band, and the checksums printed are right.
ChecksumInv ==
  /\ deaths \in Nat
  /\ main = "create" => \A id \in Ids : proc[id] = "unused"
  /\ main = "sum" => \A id \in 0..(process_num - 1) : proc[id] = "ended"
  /\ deaths = 0 /\ shm = "attached" =>
       \A id \in 0..(process_num - 1) : proc[id] = "ended" => row[id] >= RowsEd(id)
  /\ deaths = 0 => checksums \in Seq({TrueCheckSum})

LEMMA ChecksumNext ==
  ASSUME CellsCounted, WrittenInv, ChecksumInv, [Next]_vars
  PROVE  ChecksumInv'
<1>0. /\ CellsFit /\ process_num \in 1..MaxProcs /\ MaxProcs \in Nat
      /\ 0..(process_num - 1) \subseteq Ids /\ DOMAIN proc = Ids
      /\ row \in [Ids -> Nat]
  BY DimensionAssumption, WordAssumption, ProcsAssumption
     DEF CellsFit, CellsCounted, WrittenInv, RoundInv, Ids
<1>1. process_num' = process_num => \A id : RowsEd(id)' = RowsEd(id)
  BY DEF RowsEd, PartRows
<1>2. CASE Sum
  <2>1. ASSUME deaths = 0 PROVE CheckSum = TrueCheckSum
    <3>1. CASE shm = "attached"
      <4>1. \A id \in 0..(process_num - 1) : row[id] >= RowsEd(id)
        BY <1>2, <2>1, <3>1 DEF Sum, ChecksumInv
      <4>2. \A i, j \in Index : C[Cell(i, j)] = Product(i, j) % WordMod
        BY <1>2, <4>1, WrittenRound, AccumulatedRight DEF Sum, RoundWrites
      <4>3. \A x \in Cells : C[x] \in Nat
        <5> SUFFICES ASSUME NEW x \in Cells PROVE C[x] \in Nat
          OBVIOUS
        <5>1. PICK i \in Index, j \in Index : x = Cell(i, j)
          BY <1>0, CellOf
        <5>2. Product(i, j) \in Nat /\ WordMod \in Nat /\ WordMod > 0
          BY ProductIsNat, WordAssumption, ProcsAssumption, DimensionAssumption
        <5>3. Product(i, j) % WordMod \in Nat
          BY <5>2
        <5> QED BY <4>2, <5>1, <5>3
      <4> QED BY <4>2, <4>3, CheckSumRight
    <3>2. CASE shm # "attached"
      <4>1. CellCount = 0
        BY <1>2, <3>2 DEF Sum
      <4>2. N = 0
        <5>1. N \in Nat /\ N * N \in Nat /\ N * N < WordMod /\ WordMod \in Nat
          BY DimensionAssumption, WordAssumption DEF CellsCounted
        <5>2. N * N = 0
          <6> DEFINE y == N * N
          <6>1. y % WordMod = 0 /\ y \in Nat /\ y < WordMod
            BY <4>1, <5>1 DEF CellCount
          <6> HIDE DEF y
          <6>2. y = 0
            BY <5>1, <6>1
          <6> QED BY <6>2 DEF y
        <5> QED BY <5>1, <5>2
      <4>3. Cells = {} /\ Index = {}
        BY <4>2 DEF Cells, Index
      <4> QED BY <4>3, CheckSumRight
    <3> QED BY <3>1, <3>2
  <2>2. deaths = 0 => checksums' \in Seq({TrueCheckSum})
    <3> SUFFICES ASSUME deaths = 0 PROVE checksums' \in Seq({TrueCheckSum})
      OBVIOUS
    <3>1. checksums' = Append(checksums, CheckSum) /\ checksums \in Seq({TrueCheckSum})
      BY <1>2 DEF Sum, ChecksumInv
    <3> QED BY <2>1, <3>1
  <2>3. CASE process_num = MaxProcs
    <3>1. main' = "detach" /\ UNCHANGED <<process_num, proc, row, shm, deaths>>
      BY <1>2, <2>3 DEF Sum, procVars
    <3> QED BY <1>1, <2>2, <3>1 DEF ChecksumInv
  <2>4. CASE process_num # MaxProcs
    <3>1. /\ main' = "fork" /\ proc' = [id \in Ids |-> "unused"]
          /\ process_num' = process_num + 1 /\ UNCHANGED <<shm, deaths>>
      BY <1>2, <2>4 DEF Sum
    <3>2. \A id \in 0..(process_num' - 1) : proc'[id] = "unused"
      BY <1>0, <2>4, <3>1 DEF Ids
    <3> QED BY <2>2, <3>1, <3>2 DEF ChecksumInv
  <2> QED BY <2>3, <2>4
<1>3. CASE CreateShm
  <2>1. /\ main = "create" /\ main' = "fork"
        /\ UNCHANGED <<process_num, proc, row, deaths, checksums>>
    BY <1>3 DEF CreateShm, procVars
  <2> QED BY <1>0, <2>1 DEF ChecksumInv
<1>4. CASE Fork
  <2>1. /\ main = "fork" /\ main' \in {"wait", "fork"}
        /\ proc' = [proc EXCEPT ![forked] = "running"]
        /\ row' = [row EXCEPT ![forked] = RowsSt(forked)]
        /\ UNCHANGED <<process_num, shm, deaths, checksums>>
    BY <1>4 DEF Fork
  <2>2. \A id \in Ids : proc'[id] = "ended" => proc[id] = "ended" /\ row'[id] = row[id]
    BY <1>0, <2>1
  <2> QED BY <1>0, <1>1, <2>1, <2>2 DEF ChecksumInv
<1>5. CASE WaitForAll
  BY <1>1, <1>5 DEF WaitForAll, ChecksumInv, procVars
<1>6. CASE ForkFails \/ SumFaults \/ UNCHANGED vars
  BY <1>1, <1>6 DEF ForkFails, SumFaults, ChecksumInv, procVars, vars
<1>7. CASE Detach
  BY <1>1, <1>7 DEF Detach, ChecksumInv, procVars
<1>8. ASSUME NEW id \in Ids, ComputeRow(id) PROVE ChecksumInv'
  <2>1. /\ UNCHANGED <<main, process_num, proc, shm, checksums, deaths>>
        /\ proc[id] = "running" /\ row' = [row EXCEPT ![id] = row[id] + 1]
    BY <1>8 DEF ComputeRow, Running
  <2>2. \A p \in Ids : proc[p] = "ended" => row'[p] = row[p]
    BY <1>0, <2>1
  <2> QED BY <1>0, <1>1, <2>1, <2>2 DEF ChecksumInv
<1>9. ASSUME NEW id \in Ids, Exit(id) PROVE ChecksumInv'
  <2>1. /\ UNCHANGED <<main, process_num, row, shm, checksums, deaths>>
        /\ proc[id] = "running" /\ proc' = [proc EXCEPT ![id] = "ended"]
        /\ row[id] >= RowsEd(id)
    BY <1>9 DEF Exit, Running
  <2>2. \A p \in Ids : proc'[p] = IF p = id THEN "ended" ELSE proc[p]
    BY <1>0, <2>1
  <2>3. main # "create"
    BY <2>1 DEF ChecksumInv
  <2> QED BY <1>0, <1>1, <2>1, <2>2, <2>3 DEF ChecksumInv
<1>10. ASSUME NEW id \in Ids, Killed(id) \/ Faults(id) PROVE ChecksumInv'
  <2>1. /\ UNCHANGED <<main, process_num, row, shm, checksums>>
        /\ proc[id] = "running" /\ proc' = [proc EXCEPT ![id] = "ended"]
        /\ deaths' = deaths + 1 \/ (deaths' = deaths /\ shm # "attached")
    BY <1>10 DEF Killed, Faults, Running
  <2>2. \A p \in Ids : proc'[p] = IF p = id THEN "ended" ELSE proc[p]
    BY <1>0, <2>1
  <2>3. main # "create"
    BY <2>1 DEF ChecksumInv
  <2> QED BY <1>0, <1>1, <2>1, <2>2, <2>3 DEF ChecksumInv
<1> QED BY <1>2, <1>3, <1>4, <1>5, <1>6, <1>7, <1>8, <1>9, <1>10
        DEF Next, Parent, Process

\* Unless a process is killed every round prints the checksum of the product,
\* for every dimension whose cells can be counted in a word, however the
\* processes interleave and however often the sums wrap around.
THEOREM ChecksumsCorrect ==
  ASSUME CellsCounted PROVE Spec => []ChecksumsRight
<1>1. Init => WrittenInv /\ ChecksumInv
  BY ProcsAssumption DEF Init, WrittenInv, RoundInv, ChecksumInv
<1>2. WrittenInv /\ ChecksumInv /\ [Next]_vars => WrittenInv' /\ ChecksumInv'
  BY WrittenNext, ChecksumNext, DimensionAssumption, WordAssumption
     DEF CellsFit, CellsCounted
<1>3. ChecksumInv => ChecksumsRight
  BY DEF ChecksumInv, ChecksumsRight
<1> QED BY <1>1, <1>2, <1>3, PTL DEF Spec

=============================================================================
