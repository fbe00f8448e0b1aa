------------------------- MODULE ParallelSortProofs -------------------------
(***************************************************************************)
(* Theorems about ParallelSort, for every array size, number of sections   *)
(* and range of thread counts: bubble_sort and merge_seg are right for     *)
(* every array and every section, who works on what and when, that the     *)
(* sections which jobs name are sorted when they have to be, and that the  *)
(* whole implements SortService.                                           *)
(***************************************************************************)
EXTENDS ParallelSortInv, Iteration, FiniteSetTheorems, TLAPS

---------------------------------------------------------------------------
(* bubble_sort and merge_seg.                                              *)

\* w is v with the numbers of the positions l..h in some other order: position
\* k has the number that was at p[k].
ByMap(p, v, w, D, l, h) ==
  /\ p \in [D -> D]
  /\ \A a, b \in D : p[a] = p[b] => a = b
  /\ \A k \in D : (k \in l..h => p[k] \in l..h) /\ (k \notin l..h => p[k] = k)
  /\ \A k \in D : w[k] = v[p[k]]

Reordered(v, w, D, l, h) == \E p : ByMap(p, v, w, D, l, h)

LEMMA ReorderedSame ==
  ASSUME NEW D, NEW v, NEW l, NEW h PROVE Reordered(v, v, D, l, h)
<1>1. ByMap([k \in D |-> k], v, v, D, l, h)
  BY DEF ByMap
<1> QED BY <1>1 DEF Reordered

LEMMA ReorderedTwice ==
  ASSUME NEW D, NEW u, NEW v, NEW w, NEW l \in Int, NEW h \in Int,
         NEW m \in Int, NEW n \in Int, l <= m, n <= h,
         Reordered(u, v, D, l, h), Reordered(v, w, D, m, n)
  PROVE  Reordered(u, w, D, l, h)
<1>1. PICK p : ByMap(p, u, v, D, l, h)
  BY DEF Reordered
<1>2. PICK q : ByMap(q, v, w, D, m, n)
  BY DEF Reordered
<1> DEFINE pq == [k \in D |-> p[q[k]]]
<1>3. /\ pq \in [D -> D] /\ \A k \in D : w[k] = u[pq[k]]
      /\ \A a, b \in D : pq[a] = pq[b] => a = b
  BY <1>1, <1>2 DEF ByMap
<1>4. m..n \subseteq l..h
  OBVIOUS
<1>5. ASSUME NEW k \in D
      PROVE  (k \in l..h => pq[k] \in l..h) /\ (k \notin l..h => pq[k] = k)
  <2>1. pq[k] = p[q[k]] /\ q[k] \in D
    BY <1>2 DEF ByMap
  <2>2. (q[k] \in l..h <=> k \in l..h) /\ (k \notin l..h => q[k] = k)
    BY <1>2, <1>4 DEF ByMap
  <2> HIDE DEF pq
  <2> QED BY <1>1, <2>1, <2>2 DEF ByMap
<1>6. ByMap(pq, u, w, D, l, h)
  <2> HIDE DEF pq
  <2> QED BY <1>3, <1>5 DEF ByMap
<1> QED BY <1>6 DEF Reordered

\* A reordering keeps every number, as often as it was there.
LEMMA ReorderedContents ==
  ASSUME NEW D, IsFiniteSet(D), NEW v, NEW w, DOMAIN v = D, DOMAIN w = D,
         NEW l, NEW h, Reordered(v, w, D, l, h)
  PROVE  SameContents(v, w)
<1>1. PICK p : ByMap(p, v, w, D, l, h)
  BY DEF Reordered
<1>2. \A b \in D : \E a \in D : p[a] = b
  <2>1. p \in Injection(D, D)
    BY <1>1 DEF ByMap, Injection, IsInjective
  <2>2. p \in Surjection(D, D)
    BY <2>1, FS_Injection
  <2> QED BY <2>2 DEF Surjection
<1>3. ASSUME NEW x
      PROVE  Cardinality({i \in D : v[i] = x}) = Cardinality({i \in D : w[i] = x})
  <2> DEFINE V == {i \in D : v[i] = x}
             W == {i \in D : w[i] = x}
             q == [i \in W |-> p[i]]
  <2>1. q \in [W -> V] /\ \A a, b \in W : q[a] = q[b] => a = b
    BY <1>1 DEF ByMap
  <2>2. \A b \in V : \E a \in W : q[a] = b
    BY <1>1, <1>2 DEF ByMap
  <2>3. IsFiniteSet(W)
    BY FS_Subset
  <2>4. q \in Bijection(W, V)
    <3> HIDE DEF q, V, W
    <3>1. q \in Injection(W, V)
      BY <2>1 DEF Injection, IsInjective
    <3>2. q \in Surjection(W, V)
      BY <2>1, <2>2 DEF Surjection
    <3> QED BY <3>1, <3>2 DEF Bijection
  <2>5. Cardinality(V) = Cardinality(W)
    <3> HIDE DEF q, V, W
    <3> QED BY <2>3, <2>4, FS_Bijection DEF ExistsBijection
  <2> QED BY <2>5
<1> QED BY <1>3 DEF SameContents

---------------------------------------------------------------------------
(* bubble_sort.                                                            *)

\* Two neighbours are in order afterwards, and the rest is left alone.
LEMMA CompareOrders ==
  ASSUME NEW D, NEW v \in [D -> Int], NEW j \in Int, j \in D, j - 1 \in D
  PROVE  /\ Compare(v, j) \in [D -> Int]
         /\ Reordered(v, Compare(v, j), D, j - 1, j)
         /\ Compare(v, j)[j - 1] <= Compare(v, j)[j]
<1> DEFINE w == Compare(v, j)
           p == [k \in D |-> IF k = j THEN j - 1 ELSE IF k = j - 1 THEN j ELSE k]
<1>1. CASE v[j] < v[j - 1]
  <2>1. w = [v EXCEPT ![j] = v[j - 1], ![j - 1] = v[j]]
    BY <1>1 DEF Compare
  <2>2. /\ w \in [D -> Int] /\ w[j] = v[j - 1] /\ w[j - 1] = v[j]
        /\ \A k \in D : k # j /\ k # j - 1 => w[k] = v[k]
    BY <2>1
  <2>3. ByMap(p, v, w, D, j - 1, j)
    <3>1. p \in [D -> D] /\ \A k \in D : w[k] = v[p[k]]
      BY <2>2
    <3>2. \A a, b \in D : p[a] = p[b] => a = b
      OBVIOUS
    <3>3. (j - 1)..j = {j - 1, j}
      OBVIOUS
    <3>4. \A k \in D : (k \in {j - 1, j} => p[k] \in {j - 1, j})
                         /\ (k \notin {j - 1, j} => p[k] = k)
      OBVIOUS
    <3> HIDE DEF p, w
    <3> QED BY <3>1, <3>2, <3>3, <3>4 DEF ByMap
  <2> QED BY <1>1, <2>2, <2>3 DEF Reordered
<1>2. CASE ~(v[j] < v[j - 1])
  <2>1. w = v
    BY <1>2 DEF Compare
  <2> QED BY <1>2, <2>1, ReorderedSame
<1> QED BY <1>1, <1>2

\* The recursive function of Sweep exists: it goes from one array to the next.
LEMMA SweepSteps ==
  ASSUME NEW D, NEW v \in [D -> Int], NEW l \in Int, NEW hi \in Int, l <= hi,
         l..hi \subseteq D
  PROVE  \E s : /\ \A j \in l..hi : s[j] = IF j = l THEN v ELSE Compare(s[j - 1], j)
                /\ Sweep(v, l, hi) = s[hi]
<1> DEFINE Arrays == [D -> Int]
           F == [q \in (l..hi) \X Arrays |-> IF q[1] = l THEN v ELSE Compare(q[2], q[1])]
           Steps(s) == s = [j \in l..hi |-> IF j = l THEN v ELSE Compare(s[j - 1], j)]
<1>1. F \in [(l..hi) \X Arrays -> Arrays]
  <2>1. ASSUME NEW j \in l..hi, NEW u \in Arrays, j # l PROVE Compare(u, j) \in Arrays
    <3>1. j - 1 \in D /\ j \in D /\ j \in Int
      BY <2>1
    <3> QED BY <3>1, CompareOrders
  <2> QED BY <2>1
<1>2. PICK s : IsLoop(s, l, hi, Arrays, v, F)
  <2>1. v \in Arrays
    OBVIOUS
  <2> HIDE DEF F, Arrays
  <2> QED BY <1>1, <2>1, LoopExists
<1>3. ASSUME NEW j \in l..hi, j # l PROVE s[j] = Compare(s[j - 1], j)
  <2>1. j - 1 \in l..hi
    BY <1>3
  <2>2. <<j, s[j - 1]>> \in (l..hi) \X Arrays
    BY <1>2, <2>1 DEF IsLoop
  <2>3. F[<<j, s[j - 1]>>] = Compare(s[j - 1], j)
    BY <1>3, <2>2
  <2> QED BY <1>2, <1>3, <2>3 DEF IsLoop
<1>4. Steps(s)
  <2>1. s \in [l..hi -> Arrays] /\ s[l] = v
    BY <1>2 DEF IsLoop
  <2> HIDE DEF F, Arrays
  <2> QED BY <1>3, <2>1
<1> DEFINE c == CHOOSE g : Steps(g)
<1>5. Steps(c)
  BY <1>4, Zenon
<1>6. Sweep(v, l, hi) = c[hi]
  BY DEF Sweep
<1> HIDE DEF c
<1>7. \A j \in l..hi : c[j] = IF j = l THEN v ELSE Compare(c[j - 1], j)
  BY <1>5
<1> QED BY <1>6, <1>7

\* A sweep reorders its positions and leaves the greatest number at the end.
LEMMA SweepBubbles ==
  ASSUME NEW D, NEW v \in [D -> Int], NEW l \in Int, NEW hi \in Int, l <= hi,
         l..hi \subseteq D
  PROVE  /\ Sweep(v, l, hi) \in [D -> Int]
         /\ Reordered(v, Sweep(v, l, hi), D, l, hi)
         /\ \A i \in l..hi : Sweep(v, l, hi)[i] <= Sweep(v, l, hi)[hi]
<1>1. PICK s : /\ \A j \in l..hi : s[j] = IF j = l THEN v ELSE Compare(s[j - 1], j)
               /\ Sweep(v, l, hi) = s[hi]
  BY SweepSteps
<1> DEFINE Bubbled(j) == /\ s[j] \in [D -> Int]
                         /\ Reordered(v, s[j], D, l, hi)
                         /\ \A i \in l..j : s[j][i] <= s[j][j]
           T == {j \in l..hi : Bubbled(j)}
<1>2. l \in T
  <2>1. l \in l..hi /\ s[l] = v /\ \A i \in l..l : i = l
    BY <1>1
  <2> QED BY <2>1, ReorderedSame
<1>3. ASSUME NEW j \in l..(hi - 1), j \in T PROVE j + 1 \in T
  <2> DEFINE u == s[j]
             w == s[j + 1]
  <2>1. /\ j + 1 \in l..hi /\ j \in l..hi /\ j + 1 # l /\ (j + 1) - 1 = j
        /\ j \in D /\ j + 1 \in D /\ j \in Int /\ j + 1 \in Int
    OBVIOUS
  <2>2. w = Compare(u, j + 1)
    BY <1>1, <2>1
  <2>3. Bubbled(j)
    BY <1>3
  <2>4. w \in [D -> Int] /\ Reordered(u, w, D, j, j + 1) /\ w[j] <= w[j + 1]
    <3>1. PICK m \in Int : m = j + 1 /\ m - 1 = j
      BY <2>1
    <3>2. u \in [D -> Int] /\ m \in D /\ m - 1 \in D
      BY <2>1, <2>3, <3>1
    <3> HIDE DEF u, w
    <3>3. /\ Compare(u, m) \in [D -> Int]
          /\ Reordered(u, Compare(u, m), D, m - 1, m)
          /\ Compare(u, m)[m - 1] <= Compare(u, m)[m]
      BY <3>1, <3>2, CompareOrders
    <3> QED BY <2>2, <3>1, <3>3
  <2>5. Reordered(v, w, D, l, hi)
    BY <2>1, <2>3, <2>4, ReorderedTwice
  <2>6. ASSUME NEW i \in l..(j + 1) PROVE w[i] <= w[j + 1]
    <3>1. PICK p : ByMap(p, u, w, D, j, j + 1)
      BY <2>4 DEF Reordered
    <3>2. CASE i \in l..(j - 1)
      <4>1. i \in D /\ i \notin j..(j + 1)
        BY <2>1, <3>2
      <4>2. w[i] = u[i] /\ u[i] <= u[j] /\ u[i] \in Int /\ u[j] \in Int
        BY <2>1, <2>3, <3>1, <3>2, <4>1 DEF ByMap
      <4>3. p[j] \in {j, j + 1} /\ p[j + 1] \in {j, j + 1} /\ p[j] # p[j + 1]
        BY <2>1, <3>1 DEF ByMap
      <4>4. w[j] = u[j] \/ w[j + 1] = u[j]
        BY <2>1, <3>1, <4>3 DEF ByMap
      <4>5. w[j] \in Int /\ w[j + 1] \in Int
        BY <2>1, <2>4
      <4> QED BY <2>4, <4>2, <4>4, <4>5
    <3>3. CASE i = j \/ i = j + 1
      BY <2>1, <2>4, <3>3
    <3> QED BY <3>2, <3>3
  <2> HIDE DEF w, u
  <2> QED BY <2>1, <2>4, <2>5, <2>6 DEF w
<1>4. hi \in T
  <2> HIDE DEF T
  <2>1. l..hi \subseteq T
    BY <1>2, <1>3, IntervalInduction
  <2> QED BY <2>1
<1> QED BY <1>1, <1>4

\* The same for the outer loop, which has at least one round.
LEMMA PassSteps ==
  ASSUME NEW D, NEW v \in [D -> Int], NEW l \in Int, NEW r \in Int, r - l >= 2,
         l..(r - 1) \subseteq D
  PROVE  \E s : /\ s[l - 1] = v
                /\ \A i \in l..(r - 2) : s[i] = Sweep(s[i - 1], l, r - 1 - (i - l))
                /\ BubbleSort(v, l, r) = s[r - 2]
<1> DEFINE Arrays == [D -> Int]
           I == (l - 1)..(r - 2)
           F == [q \in I \X Arrays |->
                   IF q[1] < l THEN v ELSE Sweep(q[2], l, r - 1 - (q[1] - l))]
           Steps(s) == s = [i \in I |-> IF i < l THEN v
                                        ELSE Sweep(s[i - 1], l, r - 1 - (i - l))]
<1>1. F \in [I \X Arrays -> Arrays]
  <2>1. ASSUME NEW i \in I, NEW u \in Arrays, i >= l
        PROVE  Sweep(u, l, r - 1 - (i - l)) \in Arrays
    <3> DEFINE hi == r - 1 - (i - l)
    <3>1. hi \in Int /\ l <= hi /\ l..hi \subseteq D
      BY <2>1
    <3>2. u \in [D -> Int]
      OBVIOUS
    <3>3. Sweep(u, l, hi) \in [D -> Int]
      <4> HIDE DEF hi
      <4> QED BY <3>1, <3>2, SweepBubbles
    <3> QED BY <3>3
  <2> QED BY <2>1
<1>2. PICK s : IsLoop(s, l - 1, r - 2, Arrays, v, F)
  <2>1. v \in Arrays /\ l - 1 \in Int /\ r - 2 \in Int /\ l - 1 <= r - 2
    OBVIOUS
  <2> HIDE DEF F, Arrays
  <2> QED BY <1>1, <2>1, LoopExists
<1>3. ASSUME NEW i \in I, i >= l PROVE s[i] = Sweep(s[i - 1], l, r - 1 - (i - l))
  <2>1. i - 1 \in I
    BY <1>3
  <2>2. <<i, s[i - 1]>> \in I \X Arrays
    BY <1>2, <2>1 DEF IsLoop
  <2>3. F[<<i, s[i - 1]>>] = Sweep(s[i - 1], l, r - 1 - (i - l))
    BY <1>3, <2>2
  <2>4. s[i] = F[<<i, s[i - 1]>>]
    <3> HIDE DEF F, Arrays
    <3> QED BY <1>2, <1>3 DEF IsLoop
  <2> QED BY <2>3, <2>4
<1>4. Steps(s)
  <2>1. s \in [I -> Arrays] /\ \A i \in I : i < l => s[i] = v
    <3> HIDE DEF F, Arrays
    <3> QED BY <1>2 DEF IsLoop
  <2> HIDE DEF F, Arrays
  <2> QED BY <1>3, <2>1
<1> DEFINE c == CHOOSE g : Steps(g)
<1>5. Steps(c)
  BY <1>4, Zenon
<1>6. BubbleSort(v, l, r) = c[r - 2]
  BY DEF BubbleSort
<1> HIDE DEF c
<1>7. c[l - 1] = v /\ \A i \in l..(r - 2) : c[i] = Sweep(c[i - 1], l, r - 1 - (i - l))
  BY <1>5
<1> QED BY <1>6, <1>7

\* What the section and the array look like when a sort is done.
Sorts(v, w, D, l, r) ==
  /\ w \in [D -> Int]
  /\ Reordered(v, w, D, l, r - 1)
  /\ SectionSorted(w, l, r)

\* After every round of the outer loop one more number at the end of the
\* section is where it belongs.
LEMMA BubbleSortsSection ==
  ASSUME NEW D, NEW v \in [D -> Int], NEW l \in Int, NEW r \in Int,
         l..(r - 1) \subseteq D
  PROVE  Sorts(v, BubbleSort(v, l, r), D, l, r)
<1>1. CASE r - l < 2
  <2>1. BubbleSort(v, l, r) = v
    BY <1>1 DEF BubbleSort
  <2> QED BY <1>1, <2>1, ReorderedSame DEF Sorts, SectionSorted
<1>2. CASE r - l >= 2
  <2>1. PICK s : /\ s[l - 1] = v
                 /\ \A i \in l..(r - 2) : s[i] = Sweep(s[i - 1], l, r - 1 - (i - l))
                 /\ BubbleSort(v, l, r) = s[r - 2]
    BY <1>2, PassSteps
  <2> DEFINE Top(i) == r - 1 - (i - l)
             Passed(i) == /\ s[i] \in [D -> Int]
                          /\ Reordered(v, s[i], D, l, r - 1)
                          /\ \A a, b \in l..(r - 1) :
                               a <= b /\ b >= Top(i) => s[i][a] <= s[i][b]
             T == {i \in (l - 1)..(r - 2) : Passed(i)}
  <2>2. l - 1 \in T
    <3>1. l - 1 \in (l - 1)..(r - 2) /\ Top(l - 1) = r
      BY <1>2
    <3> QED BY <2>1, <3>1, ReorderedSame
  <2>3. ASSUME NEW k \in (l - 1)..((r - 2) - 1), k \in T PROVE k + 1 \in T
    <3> DEFINE u == s[k]
               w == s[k + 1]
               hi == Top(k + 1)
    <3>1. /\ k + 1 \in l..(r - 2) /\ (k + 1) - 1 = k
          /\ hi \in Int /\ l <= hi /\ hi <= r - 1 /\ l..hi \subseteq D
          /\ hi + 1 = Top(k) /\ hi = r - 1 - ((k + 1) - l)
      OBVIOUS
    <3>2. w = Sweep(u, l, hi)
      BY <2>1, <3>1
    <3>3. Passed(k)
      BY <2>3
    <3>4. /\ w \in [D -> Int] /\ Reordered(u, w, D, l, hi)
          /\ \A i \in l..hi : w[i] <= w[hi]
      <4> HIDE DEF u, w, hi
      <4>1. u \in [D -> Int]
        BY <3>3 DEF u
      <4> QED BY <3>1, <3>2, <4>1, SweepBubbles
    <3>5. Reordered(v, w, D, l, r - 1)
      <4>1. Reordered(v, u, D, l, r - 1) /\ r - 1 \in Int
        BY <3>3
      <4> HIDE DEF u, w, hi
      <4> QED BY <3>1, <3>4, <4>1, ReorderedTwice
    <3>6. ASSUME NEW a \in l..(r - 1), NEW b \in l..(r - 1), a <= b, b >= hi
          PROVE  w[a] <= w[b]
      <4>1. PICK p : ByMap(p, u, w, D, l, hi)
        BY <3>4 DEF Reordered
      <4>2. CASE b = hi
        BY <3>1, <3>4, <3>6, <4>2
      <4>3. CASE b # hi /\ a \in l..hi
        <5>1. w[b] = u[b] /\ w[a] = u[p[a]] /\ p[a] \in l..hi
          BY <3>1, <3>6, <4>1, <4>3 DEF ByMap
        <5>2. u[p[a]] <= u[b]
          BY <3>1, <3>3, <3>6, <4>3, <5>1
        <5> QED BY <5>1, <5>2
      <4>4. CASE b # hi /\ a \notin l..hi
        <5>1. w[b] = u[b] /\ w[a] = u[a]
          BY <3>1, <3>6, <4>1, <4>4 DEF ByMap
        <5> QED BY <3>1, <3>3, <3>6, <4>4, <5>1
      <4> QED BY <4>2, <4>3, <4>4
    <3>7. Passed(k + 1)
      BY <3>4, <3>5, <3>6
    <3>8. k + 1 \in (l - 1)..(r - 2)
      OBVIOUS
    <3> HIDE DEF Passed
    <3> QED BY <3>7, <3>8
  <2>4. r - 2 \in T
    <3> HIDE DEF T
    <3>1. l - 1 \in Int /\ r - 2 \in Int /\ r - 2 \in (l - 1)..(r - 2)
      BY <1>2
    <3>2. (l - 1)..(r - 2) \subseteq T
      BY <2>2, <2>3, <3>1, IntervalInduction
    <3> QED BY <3>1, <3>2
  <2>5. Passed(r - 2) /\ Top(r - 2) = l + 1
    BY <2>4
  <2>6. SectionSorted(s[r - 2], l, r)
    BY <2>5 DEF SectionSorted
  <2> HIDE DEF T
  <2> QED BY <2>1, <2>5, <2>6 DEF Sorts
<1> QED BY <1>1, <1>2

---------------------------------------------------------------------------
(* merge_seg.                                                              *)

\* With i[k] in the left half and mid + k - i[k] in the right one: where the
\* number for position k comes from.
Left(v, mid, r, i, k) == TakesLeft(v, mid, r, i[k], mid + k - i[k])
Source(v, mid, r, i, k) == IF Left(v, mid, r, i, k) THEN i[k] ELSE mid + k - i[k]

\* i goes through the left half as the loops of merge_seg do.
Merging(v, l, mid, r, i) ==
  /\ i \in [l..r -> Int]
  /\ i[l] = l
  /\ \A k \in l..(r - 1) :
       i[k + 1] = IF Left(v, mid, r, i, k) THEN i[k] + 1 ELSE i[k]

LEMMA MergeSteps ==
  ASSUME NEW D, NEW v \in [D -> Int], NEW l \in Int, NEW mid \in Int, NEW r \in Int,
         l <= r
  PROVE  \E i : /\ Merging(v, l, mid, r, i)
                /\ MergeSeg(v, l, mid, r) =
                     [k \in D |-> IF k \in l..(r - 1) THEN v[Source(v, mid, r, i, k)]
                                                      ELSE v[k]]
<1> DEFINE Take(a, k) == TakesLeft(v, mid, r, a, mid + k - a)
           F == [q \in (l..r) \X Int |->
                   IF Take(q[2], q[1] - 1) THEN q[2] + 1 ELSE q[2]]
           Steps(i) == i = [k \in l..r |-> IF k = l THEN l
                                           ELSE IF Take(i[k - 1], k - 1)
                                                THEN i[k - 1] + 1 ELSE i[k - 1]]
<1>1. F \in [(l..r) \X Int -> Int]
  <2> HIDE DEF Take
  <2> QED OBVIOUS
<1>2. PICK s : IsLoop(s, l, r, Int, l, F)
  <2> HIDE DEF F
  <2> QED BY <1>1, LoopExists
<1>3. ASSUME NEW k \in l..r, k # l
      PROVE  s[k] = IF Take(s[k - 1], k - 1) THEN s[k - 1] + 1 ELSE s[k - 1]
  <2>1. k - 1 \in l..r
    BY <1>3
  <2>2. <<k, s[k - 1]>> \in (l..r) \X Int
    BY <1>2, <2>1 DEF IsLoop
  <2>3. s[k] = F[<<k, s[k - 1]>>]
    <3> HIDE DEF F
    <3> QED BY <1>2, <1>3 DEF IsLoop
  <2> HIDE DEF Take
  <2> QED BY <2>2, <2>3
<1>4. Steps(s)
  <2>1. s \in [l..r -> Int] /\ s[l] = l
    BY <1>2 DEF IsLoop
  <2> HIDE DEF F, Take
  <2> QED BY <1>3, <2>1
<1> DEFINE i == CHOOSE g : Steps(g)
<1>5. Steps(i)
  BY <1>4, Zenon
<1>6. MergeSeg(v, l, mid, r) =
        [k \in D |-> IF k \in l..(r - 1) THEN v[Source(v, mid, r, i, k)] ELSE v[k]]
  <2>1. DOMAIN v = D
    OBVIOUS
  <2> QED BY <2>1 DEF MergeSeg, Source, Left
<1> HIDE DEF i
<1>7. Merging(v, l, mid, r, i)
  <2>1. \A k \in l..r : i[k] = IF k = l THEN l
                               ELSE IF Take(i[k - 1], k - 1)
                                    THEN i[k - 1] + 1 ELSE i[k - 1]
    <3> HIDE DEF Take
    <3> QED BY <1>5
  <2>2. i[l] = l
    BY <2>1
  <2>3. ASSUME NEW k \in l..(r - 1)
        PROVE  i[k + 1] = IF Left(v, mid, r, i, k) THEN i[k] + 1 ELSE i[k]
    <3>1. k + 1 \in l..r /\ k + 1 # l /\ (k + 1) - 1 = k
      OBVIOUS
    <3> HIDE DEF Take
    <3>2. i[k + 1] = IF Take(i[k], k) THEN i[k] + 1 ELSE i[k]
      BY <2>1, <3>1
    <3> QED BY <3>2 DEF Left, Take
  <2>4. i \in [l..r -> Int]
    <3> DEFINE T == {k \in l..r : i[k] \in Int}
    <3>1. l \in T
      BY <2>2
    <3>2. \A k \in l..(r - 1) : k \in T => k + 1 \in T
      BY <2>3
    <3>3. l..r \subseteq T
      <4> HIDE DEF T
      <4> QED BY <3>1, <3>2, IntervalInduction
    <3>4. i = [k \in l..r |-> i[k]]
      <4> HIDE DEF Take
      <4> QED BY <1>5
    <3> QED BY <3>3, <3>4
  <2> QED BY <2>2, <2>3, <2>4 DEF Merging
<1> QED BY <1>6, <1>7

\* Neither half is overrun.
LEMMA MergeBounds ==
  ASSUME NEW D, NEW v \in [D -> Int], NEW l \in Int, NEW mid \in Int, NEW r \in Int,
         l <= mid, mid <= r, NEW i, Merging(v, l, mid, r, i)
  PROVE  \A k \in l..r : /\ i[k] \in l..mid
                         /\ mid + k - i[k] \in mid..r
<1> DEFINE T == {k \in l..r : i[k] \in l..mid /\ mid + k - i[k] \in mid..r}
<1>1. l \in T
  BY DEF Merging
<1>2. ASSUME NEW k \in l..(r - 1), k \in T PROVE k + 1 \in T
  <2>1. k + 1 \in l..r /\ i[k] \in l..mid /\ mid + k - i[k] \in mid..r
    BY <1>2
  <2>2. CASE Left(v, mid, r, i, k)
    <3>1. i[k + 1] = i[k] + 1
      BY <2>2 DEF Merging
    <3>2. mid + k - i[k] = r \/ i[k] < mid
      BY <2>2 DEF Left, TakesLeft
    <3> QED BY <2>1, <3>1, <3>2
  <2>3. CASE ~Left(v, mid, r, i, k)
    <3>1. i[k + 1] = i[k]
      BY <2>3 DEF Merging
    <3>2. mid + k - i[k] # r
      BY <2>3 DEF Left, TakesLeft
    <3> QED BY <2>1, <3>1, <3>2
  <2> QED BY <2>2, <2>3
<1>3. l..r \subseteq T
  <2> HIDE DEF T
  <2> QED BY <1>1, <1>2, IntervalInduction
<1> QED BY <1>3

\* Neither half is gone back in.
LEMMA MergeForward ==
  ASSUME NEW D, NEW v \in [D -> Int], NEW l \in Int, NEW mid \in Int, NEW r \in Int,
         NEW i, Merging(v, l, mid, r, i), NEW k \in l..r, NEW m \in k..r
  PROVE  i[k] <= i[m] /\ mid + k - i[k] <= mid + m - i[m]
<1> DEFINE T == {n \in k..r : i[k] <= i[n] /\ k - i[k] <= n - i[n]}
<1>1. k \in T
  BY DEF Merging
<1>2. ASSUME NEW n \in k..(r - 1), n \in T PROVE n + 1 \in T
  <2>1. n \in l..(r - 1) /\ n + 1 \in k..r /\ i[n] \in Int /\ i[k] \in Int
    BY DEF Merging
  <2>2. i[n + 1] = i[n] \/ i[n + 1] = i[n] + 1
    BY <2>1 DEF Merging
  <2> QED BY <1>2, <2>1, <2>2
<1>3. k..r \subseteq T
  <2> HIDE DEF T
  <2> QED BY <1>1, <1>2, IntervalInduction
<1>4. m \in T /\ i[k] \in Int /\ i[m] \in Int
  BY <1>3 DEF Merging
<1> QED BY <1>4

\* One append: a number of the left half that is there, or else one of the
\* right half that is there.
LEMMA MergeAppends ==
  ASSUME NEW D, NEW v \in [D -> Int], NEW l \in Int, NEW mid \in Int, NEW r \in Int,
         l <= mid, mid <= r, NEW i, Merging(v, l, mid, r, i), NEW k \in l..(r - 1)
  PROVE  \/ /\ Left(v, mid, r, i, k)
            /\ Source(v, mid, r, i, k) = i[k] /\ i[k] \in l..(mid - 1)
            /\ i[k + 1] = i[k] + 1
         \/ /\ ~Left(v, mid, r, i, k)
            /\ Source(v, mid, r, i, k) = mid + k - i[k]
            /\ mid + k - i[k] \in mid..(r - 1)
            /\ i[k + 1] = i[k]
<1>1. i[k] \in l..mid /\ mid + k - i[k] \in mid..r
  BY MergeBounds
<1>2. CASE Left(v, mid, r, i, k)
  <2>1. mid + k - i[k] = r \/ i[k] < mid
    BY <1>2 DEF Left, TakesLeft
  <2>2. Source(v, mid, r, i, k) = i[k] /\ i[k + 1] = i[k] + 1
    BY <1>2 DEF Source, Merging
  <2> QED BY <1>1, <1>2, <2>1, <2>2
<1>3. CASE ~Left(v, mid, r, i, k)
  <2>1. mid + k - i[k] # r
    BY <1>3 DEF Left, TakesLeft
  <2>2. Source(v, mid, r, i, k) = mid + k - i[k] /\ i[k + 1] = i[k]
    BY <1>3 DEF Source, Merging
  <2> QED BY <1>1, <1>3, <2>1, <2>2
<1> QED BY <1>2, <1>3

\* A later append takes another number, and with sorted halves none that is
\* smaller.
LEMMA MergeInOrder ==
  ASSUME NEW D, NEW v \in [D -> Int], NEW l \in Int, NEW mid \in Int, NEW r \in Int,
         l <= mid, mid <= r, l..(r - 1) \subseteq D,
         NEW i, Merging(v, l, mid, r, i), NEW k \in l..(r - 1), NEW m \in (k + 1)..(r - 1)
  PROVE  /\ Source(v, mid, r, i, k) # Source(v, mid, r, i, m)
         /\ SectionSorted(v, l, mid) /\ SectionSorted(v, mid, r)
              => v[Source(v, mid, r, i, k)] <= v[Source(v, mid, r, i, m)]
<1> DEFINE x == i[k]
           y == mid + k - i[k]
           X == i[m]
           Y == mid + m - i[m]
<1>1. m \in l..(r - 1) /\ k + 1 \in l..r /\ m \in (k + 1)..r
  OBVIOUS
<1>2. i[k + 1] <= X /\ mid + (k + 1) - i[k + 1] <= Y
  BY <1>1, MergeForward
<1>3. x \in Int /\ y \in Int /\ X \in Int /\ Y \in Int /\ i[k + 1] \in Int
  <2>1. i \in [l..r -> Int] /\ k \in l..r
    BY DEF Merging
  <2> QED BY <1>1, <2>1
<1>4. CASE Left(v, mid, r, i, k)
  <2>1. /\ Source(v, mid, r, i, k) = x /\ x \in l..(mid - 1) /\ x + 1 <= X /\ y <= Y
        /\ y = r \/ v[x] <= v[y]
    <3>1. Source(v, mid, r, i, k) = x /\ x \in l..(mid - 1) /\ i[k + 1] = x + 1
      BY <1>4, MergeAppends
    <3>2. y = r \/ v[x] <= v[y]
      BY <1>4 DEF Left, TakesLeft
    <3> QED BY <1>2, <1>3, <3>1, <3>2
  <2>2. CASE Left(v, mid, r, i, m)
    <3>1. Source(v, mid, r, i, m) = X /\ X \in l..(mid - 1)
      BY <1>1, <2>2, MergeAppends
    <3> QED BY <1>3, <2>1, <3>1 DEF SectionSorted
  <2>3. CASE ~Left(v, mid, r, i, m)
    <3>1. Source(v, mid, r, i, m) = Y /\ Y \in mid..(r - 1)
      BY <1>1, <2>3, MergeAppends
    <3>2. y \in mid..(r - 1) /\ v[x] <= v[y]
      <4>1. y >= mid
        BY MergeBounds
      <4> QED BY <1>3, <2>1, <3>1, <4>1
    <3>3. v[x] \in Int /\ v[y] \in Int /\ v[Y] \in Int
      BY <2>1, <3>1, <3>2
    <3>4. SectionSorted(v, mid, r) => v[y] <= v[Y]
      BY <1>3, <2>1, <3>1, <3>2, <3>3 DEF SectionSorted
    <3> QED BY <1>3, <2>1, <3>1, <3>2, <3>3, <3>4
  <2> QED BY <2>2, <2>3
<1>5. CASE ~Left(v, mid, r, i, k)
  <2>1. /\ Source(v, mid, r, i, k) = y /\ y \in mid..(r - 1) /\ x <= X /\ y + 1 <= Y
        /\ ~(x < mid /\ v[x] <= v[y])
    <3>1. Source(v, mid, r, i, k) = y /\ y \in mid..(r - 1) /\ i[k + 1] = x
      BY <1>5, MergeAppends
    <3>2. ~(x < mid /\ v[x] <= v[y])
      BY <1>5 DEF Left, TakesLeft
    <3> QED BY <1>2, <1>3, <3>1, <3>2
  <2>2. CASE Left(v, mid, r, i, m)
    <3>1. Source(v, mid, r, i, m) = X /\ X \in l..(mid - 1)
      BY <1>1, <2>2, MergeAppends
    <3>2. x \in l..(mid - 1)
      <4>1. x >= l
        BY MergeBounds
      <4> QED BY <1>3, <2>1, <3>1, <4>1
    <3>3. v[x] \in Int /\ v[y] \in Int /\ v[X] \in Int
      BY <2>1, <3>1, <3>2
    <3>4. SectionSorted(v, l, mid) => v[x] <= v[X]
      BY <1>3, <2>1, <3>1, <3>2, <3>3 DEF SectionSorted
    <3> QED BY <1>3, <2>1, <3>1, <3>2, <3>3, <3>4
  <2>3. CASE ~Left(v, mid, r, i, m)
    <3>1. Source(v, mid, r, i, m) = Y /\ Y \in mid..(r - 1)
      BY <1>1, <2>3, MergeAppends
    <3> QED BY <1>3, <2>1, <3>1 DEF SectionSorted
  <2> QED BY <2>2, <2>3
<1> QED BY <1>4, <1>5

\* Two sorted halves become one sorted section; in any case no number is lost.
LEMMA MergeSortsSection ==
  ASSUME NEW D, NEW v \in [D -> Int], NEW l \in Int, NEW mid \in Int, NEW r \in Int,
         l <= mid, mid <= r, l..(r - 1) \subseteq D
  PROVE  LET w == MergeSeg(v, l, mid, r)
         IN  /\ w \in [D -> Int]
             /\ Reordered(v, w, D, l, r - 1)
             /\ SectionSorted(v, l, mid) /\ SectionSorted(v, mid, r)
                  => SectionSorted(w, l, r)
<1>1. PICK i : /\ Merging(v, l, mid, r, i)
               /\ MergeSeg(v, l, mid, r) =
                    [k \in D |-> IF k \in l..(r - 1) THEN v[Source(v, mid, r, i, k)]
                                                     ELSE v[k]]
  BY MergeSteps
<1> DEFINE w == MergeSeg(v, l, mid, r)
           From(k) == Source(v, mid, r, i, k)
           p == [k \in D |-> IF k \in l..(r - 1) THEN From(k) ELSE k]
<1>2. \A k \in l..(r - 1) : From(k) \in l..(r - 1)
  <2>1. ASSUME NEW k \in l..(r - 1) PROVE From(k) \in l..(r - 1)
    <3>1. From(k) \in l..(mid - 1) \/ From(k) \in mid..(r - 1)
      <4>1. \/ From(k) = i[k] /\ i[k] \in l..(mid - 1)
            \/ From(k) = mid + k - i[k] /\ mid + k - i[k] \in mid..(r - 1)
        BY <1>1, MergeAppends
      <4> HIDE DEF From
      <4> QED BY <4>1
    <3> HIDE DEF From
    <3> QED BY <3>1
  <2> QED BY <2>1
<1>3. \A k, m \in l..(r - 1) : k # m => From(k) # From(m)
  <2>1. ASSUME NEW k \in l..(r - 1), NEW m \in l..(r - 1), k < m PROVE From(k) # From(m)
    <3>1. m \in (k + 1)..(r - 1)
      BY <2>1
    <3> QED BY <1>1, <3>1, MergeInOrder
  <2> HIDE DEF From
  <2> QED BY <2>1
<1>4. ByMap(p, v, w, D, l, r - 1)
  <2>1. p \in [D -> D] /\ \A a, b \in D : p[a] = p[b] => a = b
    <3> HIDE DEF From
    <3> QED BY <1>2, <1>3
  <2>2. \A k \in D : (k \in l..(r - 1) => p[k] \in l..(r - 1))
                       /\ (k \notin l..(r - 1) => p[k] = k)
    <3> HIDE DEF From
    <3> QED BY <1>2
  <2>3. \A k \in D : w[k] = v[p[k]]
    BY <1>1
  <2> HIDE DEF p, w
  <2> QED BY <2>1, <2>2, <2>3 DEF ByMap
<1>5. w \in [D -> Int]
  <2>1. \A k \in l..(r - 1) : v[From(k)] \in Int
    <3> HIDE DEF From
    <3> QED BY <1>2
  <2> QED BY <1>1, <2>1
<1>6. ASSUME SectionSorted(v, l, mid), SectionSorted(v, mid, r)
      PROVE  SectionSorted(w, l, r)
  <2>1. ASSUME NEW k \in l..(r - 1), NEW m \in l..(r - 1), k < m PROVE w[k] <= w[m]
    <3>1. m \in (k + 1)..(r - 1)
      BY <2>1
    <3>2. v[From(k)] <= v[From(m)]
      BY <1>1, <1>6, <3>1, MergeInOrder
    <3>3. w[k] = v[From(k)] /\ w[m] = v[From(m)]
      BY <1>1
    <3> HIDE DEF w, From
    <3> QED BY <3>2, <3>3
  <2> HIDE DEF w
  <2> QED BY <2>1 DEF SectionSorted
<1> HIDE DEF p, From
<1> QED BY <1>4, <1>5, <1>6 DEF Reordered

---------------------------------------------------------------------------

\* What is reordered within a section is left alone outside.
LEMMA ReorderedOutside ==
  ASSUME NEW D, NEW v, NEW w, NEW l, NEW h, Reordered(v, w, D, l, h)
  PROVE  \A k \in D : k \notin l..h => w[k] = v[k]
  BY DEF Reordered, ByMap

\* bubble_sort sorts every section of every array, an empty one too, keeps all
\* its numbers and touches nothing outside of it.
THEOREM BubbleSortCorrect ==
  ASSUME NEW D, IsFiniteSet(D), NEW v \in [D -> Int], NEW l \in Int, NEW r \in Int,
         l..(r - 1) \subseteq D
  PROVE  SortsSection(v, BubbleSort(v, l, r), l, r)
<1> DEFINE w == BubbleSort(v, l, r)
<1>1. w \in [D -> Int] /\ Reordered(v, w, D, l, r - 1) /\ SectionSorted(w, l, r)
  BY BubbleSortsSection DEF Sorts
<1>2. DOMAIN v = D /\ DOMAIN w = D
  BY <1>1
<1> HIDE DEF w
<1> QED BY <1>1, <1>2, ReorderedContents, ReorderedOutside DEF SortsSection, w

\* merge_seg turns two sorted halves of any array, either of which may be
\* empty, into one sorted section, keeps all numbers and touches nothing else.
THEOREM MergeSegCorrect ==
  ASSUME NEW D, IsFiniteSet(D), NEW v \in [D -> Int],
         NEW l \in Int, NEW mid \in Int, NEW r \in Int,
         l <= mid, mid <= r, l..(r - 1) \subseteq D,
         SectionSorted(v, l, mid), SectionSorted(v, mid, r)
  PROVE  SortsSection(v, MergeSeg(v, l, mid, r), l, r)
<1> DEFINE w == MergeSeg(v, l, mid, r)
<1>1. w \in [D -> Int] /\ Reordered(v, w, D, l, r - 1) /\ SectionSorted(w, l, r)
  BY MergeSortsSection
<1>2. DOMAIN v = D /\ DOMAIN w = D
  BY <1>1
<1> HIDE DEF w
<1> QED BY <1>1, <1>2, ReorderedContents, ReorderedOutside DEF SortsSection, w

---------------------------------------------------------------------------
(* Sections of the array.                                                  *)

\* Division with remainder, as main uses it for section_num and section_rem.
LEMMA Quotient ==
  /\ N \div NSections \in Nat
  /\ N % NSections \in Nat
  /\ N = NSections * (N \div NSections) + (N % NSections)
BY SizeAssumption

\* Multiplying by a natural number is monotonic.
LEMMA ProductMonotonic ==
  ASSUME NEW q \in Nat, NEW a \in Nat, NEW b \in Nat, a <= b
  PROVE  a * q \in Nat /\ b * q \in Nat /\ a * q <= b * q
<1>1. PICK d \in Nat : b = a + d
  BY b - a \in Nat
<1>2. b * q = a * q + d * q
  BY <1>1
<1>3. d * q \in Nat /\ a * q \in Nat
  OBVIOUS
<1> QED BY <1>2, <1>3

\* Every section lies within the array; with at least one element per
\* section none is empty.
LEMMA SectionBounds ==
  ASSUME NEW i \in 0..(NSections - 1)
  PROVE  /\ SectionL(i) \in Nat
         /\ SectionR(i) \in Nat
         /\ SectionL(i) <= SectionR(i) /\ SectionR(i) <= N
         /\ N >= NSections => SectionL(i) < SectionR(i)
<1> DEFINE q == N \div NSections
           m == N % NSections
           last == NSections * q
<1>1. q \in Nat /\ m \in Nat
  BY Quotient
<1>2. i \in Nat /\ i + 1 \in Nat /\ i + 1 <= NSections /\ NSections \in Nat
  BY SizeAssumption
<1>3. i * q \in Nat /\ (i + 1) * q \in Nat /\ (i + 1) * q = i * q + q
  BY <1>1, <1>2
<1>4. (i + 1) * q <= last /\ last \in Nat
  BY <1>1, <1>2, ProductMonotonic
<1>5. N = last + m
  BY Quotient
<1>6. i = NSections - 1 => (i + 1) * q = last
  BY <1>2
<1>7. N >= NSections => q > 0
  <2> SUFFICES ASSUME N >= NSections, q = 0 PROVE FALSE
    BY <1>1
  <2> QED BY SizeAssumption
<1>8. SectionL(i) = i * q
        /\ SectionR(i) = (i + 1) * q + (IF i = NSections - 1 THEN m ELSE 0)
  BY DEF SectionL, SectionR
<1> HIDE DEF q, m, last
<1> QED BY <1>1, <1>3, <1>4, <1>5, <1>6, <1>7, <1>8, SizeAssumption

\* Sections follow one another.
LEMMA SectionOrder ==
  ASSUME NEW i \in 0..(NSections - 1), NEW j \in 0..(NSections - 1), i < j
  PROVE  SectionR(i) <= SectionL(j)
<1>1. N \div NSections \in Nat
  BY Quotient
<1>2. i + 1 \in Nat /\ j \in Nat /\ i + 1 <= j /\ i # NSections - 1
  BY SizeAssumption
<1>3. (i + 1) * (N \div NSections) \in Nat
        /\ (i + 1) * (N \div NSections) <= j * (N \div NSections)
  BY <1>1, <1>2, ProductMonotonic
<1> QED BY <1>2, <1>3 DEF SectionL, SectionR

\* The jobs the program makes are jobs.
LEMMA JobTypes ==
  /\ ExitJob \in Job /\ NoJob \in Job
  /\ \A i \in 0..(NSections - 1) : Bubble(i) \in Job
  /\ \A a, b \in Job : Merge(a, b) \in Job
<1>1. ASSUME NEW i \in 0..(NSections - 1) PROVE Bubble(i) \in Job
  BY SectionBounds, SizeAssumption DEF Bubble, Job
<1> QED BY <1>1 DEF ExitJob, NoJob, Merge, Job

\* Jobs of two sections that follow one another share no index.
LEMMA BubbleApart ==
  ASSUME NEW i \in 0..(NSections - 1), NEW j \in 0..(NSections - 1), i # j
  PROVE  Apart(Bubble(i), Bubble(j))
<1>1. CASE i < j
  BY <1>1, SectionOrder, SectionBounds, SizeAssumption DEF Apart, Bubble, Index
<1>2. CASE j < i
  BY <1>2, SectionOrder, SectionBounds, SizeAssumption DEF Apart, Bubble, Index
<1> QED BY <1>1, <1>2, SizeAssumption

LEMMA ApartSymmetric ==
  \A a, b : Apart(a, b) <=> Apart(b, a)
BY DEF Apart

\* Jobs without work are apart from every job.
LEMMA IdleApart ==
  \A a : Apart(NoJob, a) /\ Apart(ExitJob, a)
BY SizeAssumption DEF Apart, NoJob, ExitJob, Index

\* A merge job works on what its two halves worked on.
LEMMA MergeApart ==
  ASSUME NEW a \in Job, NEW b \in Job, NEW c \in Job,
         a.r = b.l, Apart(a, c), Apart(b, c)
  PROVE  Apart(Merge(a, b), c)
BY SizeAssumption DEF Apart, Merge, Job, Index

---------------------------------------------------------------------------
(* Types and control states.                                               *)

\* Every step is a step of one action.
LEMMA StepCases ==
  ASSUME [Next]_vars
  PROVE  \/ MainPush \/ MainPost \/ MainJoin \/ MainNextRound
         \/ DispatchCheckJobs \/ DispatchCheckQue
         \/ DispatchPushExit \/ DispatchPostExit
         \/ DispatchWait \/ DispatchLock
         \/ DispatchScan \/ DispatchPostMerge \/ DispatchErase
         \/ \E w \in Workers :
              \/ WorkerWait(w) \/ WorkerFetch(w) \/ WorkerRun(w)
              \/ WorkerComplete(w) \/ WorkerPost(w) \/ WorkerRepost(w)
         \/ UNCHANGED vars
BY DEF Next, Main, Dispatcher, Worker

\* The cases of the dispatcher's scan.
LEMMA ScanCases ==
  ASSUME DispatchScan
  PROVE  \/ /\ disp' = "crashed"
            /\ UNCHANGED <<unscanned, done, job_que>>
            /\ \E a, b \in unscanned : a # b /\ DividesByZero(a, b)
         \/ \E a, b \in unscanned : a # b /\ ScanMerge(a, b)
         \/ \E a \in unscanned : ScanPass(a)
BY DEF DispatchScan

LEMMA TypeInit == Init => TypeOK /\ ControlInv
BY JobTypes, SizeAssumption, DegreeAssumption
   DEF Init, TypeOK, ControlInv, Created, Workers, Unmerged

LEMMA TypeNext ==
  TypeOK /\ ControlInv /\ [Next]_vars => TypeOK' /\ ControlInv'
<1> SUFFICES ASSUME TypeOK, ControlInv, [Next]_vars
             PROVE  TypeOK' /\ ControlInv'
  OBVIOUS
<1> USE SizeAssumption, DegreeAssumption
<1> USE DEF TypeOK, ControlInv, Unmerged, mainVars, queueVars, compVars,
            dispVars, workerVars
<1>1. CASE MainPush
  <2>1. next \in 0..(NSections - 1)
    BY <1>1 DEF MainPush
  <2>2. Bubble(next) \in Job
    BY <2>1, JobTypes
  <2> QED BY <1>1, <2>1, <2>2 DEF MainPush
<1>2. CASE MainPost
  BY <1>2 DEF MainPost
<1>3. CASE MainJoin
  BY <1>3 DEF MainJoin
<1>4. CASE MainNextRound
  BY <1>4, JobTypes DEF MainNextRound, Created, Workers
<1>5. CASE DispatchCheckJobs
  BY <1>5 DEF DispatchCheckJobs
<1>6. CASE DispatchCheckQue
  BY <1>6 DEF DispatchCheckQue
<1>7. CASE DispatchPushExit
  BY <1>7, JobTypes DEF DispatchPushExit
<1>8. CASE DispatchPostExit
  BY <1>8 DEF DispatchPostExit
<1>9. CASE DispatchWait
  BY <1>9 DEF DispatchWait
<1>10. CASE DispatchLock
  BY <1>10 DEF DispatchLock
<1>11. CASE DispatchScan
  <2>0. disp = "scan" /\ UNCHANGED <<mainVars, vec, job_sem, compVars, workerVars>>
    BY <1>11 DEF DispatchScan
  <2>1. CASE disp' = "crashed" /\ UNCHANGED <<unscanned, done, job_que>>
    BY <2>0, <2>1
  <2>2. ASSUME NEW a \in unscanned, NEW b \in unscanned, ScanMerge(a, b)
        PROVE  TypeOK' /\ ControlInv'
    <3>1. Merge(a, b) \in Job
      BY JobTypes
    <3> QED BY <2>0, <2>2, <3>1 DEF ScanMerge
  <2>3. ASSUME NEW a \in unscanned, ScanPass(a)
        PROVE  TypeOK' /\ ControlInv'
    BY <2>0, <2>3 DEF ScanPass
  <2> QED BY <1>11, <2>1, <2>2, <2>3, ScanCases
<1>12. CASE DispatchPostMerge
  BY <1>12 DEF DispatchPostMerge
<1>13. CASE DispatchErase
  BY <1>13 DEF DispatchErase
<1>14. ASSUME NEW w \in Workers, WorkerWait(w)
       PROVE  TypeOK' /\ ControlInv'
  BY <1>14 DEF WorkerWait
<1>15. ASSUME NEW w \in Workers, WorkerFetch(w)
       PROVE  TypeOK' /\ ControlInv'
  <2>1. Head(job_que) \in Job /\ Tail(job_que) \in Seq(Job)
    BY <1>15 DEF WorkerFetch
  <2> QED BY <1>15, <2>1 DEF WorkerFetch
<1>16. ASSUME NEW w \in Workers, WorkerRun(w)
       PROVE  TypeOK' /\ ControlInv'
  BY <1>16 DEF WorkerRun
<1>17. ASSUME NEW w \in Workers, WorkerComplete(w)
       PROVE  TypeOK' /\ ControlInv'
  BY <1>17, JobTypes DEF WorkerComplete, MutexHeld
<1>18. ASSUME NEW w \in Workers, WorkerPost(w)
       PROVE  TypeOK' /\ ControlInv'
  BY <1>18 DEF WorkerPost
<1>19. ASSUME NEW w \in Workers, WorkerRepost(w)
       PROVE  TypeOK' /\ ControlInv'
  BY <1>19 DEF WorkerRepost
<1>20. CASE UNCHANGED vars
  BY <1>20 DEF vars
<1> QED BY <1>1, <1>2, <1>3, <1>4, <1>5, <1>6, <1>7, <1>8, <1>9, <1>10,
           <1>11, <1>12, <1>13, <1>14, <1>15, <1>16, <1>17, <1>18, <1>19,
           <1>20, StepCases

\* Control states and counters keep their range and the shared containers
\* hold jobs, in every reachable state of every instance.
THEOREM TypeCorrect == Spec => [](TypeOK /\ ControlInv)
BY TypeInit, TypeNext, PTL DEF Spec

---------------------------------------------------------------------------
(* Race freedom.                                                           *)

LEMMA AppendEntries ==
  ASSUME NEW S, NEW q \in Seq(S), NEW x \in S
  PROVE  \A k \in DOMAIN Append(q, x) :
           \/ k \in DOMAIN q /\ Append(q, x)[k] = q[k]
           \/ k = Len(q) + 1 /\ Append(q, x)[k] = x
OBVIOUS

LEMMA TailEntries ==
  ASSUME NEW S, NEW q \in Seq(S), q # <<>>
  PROVE  /\ 1 \in DOMAIN q /\ Head(q) = q[1]
         /\ \A k \in DOMAIN Tail(q) :
              k + 1 \in DOMAIN q /\ Tail(q)[k] = q[k + 1] /\ k \in Nat \ {0}
OBVIOUS

LEMMA SeparateInit == Init => SeparateInv
<1> SUFFICES ASSUME Init PROVE SeparateInv
  OBVIOUS
<1>1. \A w \in Workers : held[w] = NoJob
  BY DEF Init
<1>2. DOMAIN job_que = {} /\ Unmerged = {}
  BY DEF Init, Unmerged
<1> QED BY <1>1, <1>2, IdleApart DEF SeparateInv

\* A new job may enter the queue when it is apart from all the others.
LEMMA SeparateAppend ==
  ASSUME SeparateInv, job_que \in Seq(Job), NEW x \in Job,
         job_que' = Append(job_que, x), UNCHANGED held,
         Unmerged' \subseteq Unmerged, ToPush' \subseteq ToPush,
         \A k \in DOMAIN job_que : Apart(x, job_que[k]),
         \A w \in Workers : Apart(x, held[w]),
         \A c \in Unmerged' : Apart(x, c),
         \A i \in ToPush' : Apart(x, Bubble(i))
  PROVE  SeparateInv'
<1>1. \A k \in DOMAIN job_que' :
        \/ k \in DOMAIN job_que /\ job_que'[k] = job_que[k]
        \/ k = Len(job_que) + 1 /\ job_que'[k] = x
  BY AppendEntries
<1> HIDE DEF Unmerged, ToPush
<1> QED BY <1>1, ApartSymmetric DEF SeparateInv

\* What a step that leaves the queue, the workers' jobs and the pushing loop
\* alone and completes nothing new preserves.
LEMMA SeparateUnchanged ==
  ASSUME SeparateInv, UNCHANGED <<job_que, held, next>>,
         Unmerged' \subseteq Unmerged
  PROVE  SeparateInv'
<1>1. ToPush' = ToPush
  BY DEF ToPush
<1> QED BY <1>1 DEF SeparateInv

LEMMA SeparateNext ==
  TypeOK /\ ControlInv /\ SeparateInv /\ [Next]_vars => SeparateInv'
<1> SUFFICES ASSUME TypeOK, ControlInv, SeparateInv, [Next]_vars
             PROVE  SeparateInv'
  OBVIOUS
<1> USE DEF mainVars, queueVars, compVars, dispVars, workerVars
<1>0. /\ job_que \in Seq(Job) /\ next \in 0..NSections
      /\ completed_jobs \subseteq Job /\ unscanned \subseteq Unmerged
      /\ held \in [Workers -> Job]
      /\ disp \notin {"scan", "scan_post", "crashed"} => done = {}
  BY DEF TypeOK, ControlInv
<1>1. CASE MainPush
  <2>1. next \in 0..(NSections - 1) /\ next' = next + 1
    BY <1>0, <1>1, SizeAssumption DEF MainPush, ControlInv
  <2>2. Bubble(next) \in Job /\ next \in ToPush
    BY <2>1, JobTypes, SizeAssumption DEF ToPush
  <2>3. ToPush' \subseteq ToPush \ {next}
    BY <2>1, SizeAssumption DEF ToPush
  <2>4. Unmerged' = Unmerged /\ UNCHANGED held
        /\ job_que' = Append(job_que, Bubble(next))
    BY <1>1 DEF MainPush, Unmerged
  <2>5. \A i \in ToPush' : Apart(Bubble(next), Bubble(i))
    BY <2>1, <2>3, BubbleApart DEF ToPush
  <2>6. /\ \A k \in DOMAIN job_que : Apart(Bubble(next), job_que[k])
        /\ \A w \in Workers : Apart(Bubble(next), held[w])
        /\ \A c \in Unmerged' : Apart(Bubble(next), c)
    BY <2>2, <2>4, ApartSymmetric DEF SeparateInv
  <2> QED BY <1>0, <2>2, <2>3, <2>4, <2>5, <2>6, SeparateAppend
<1>2. CASE MainNextRound
  <2>1. job_que' = <<>> /\ Unmerged' = {}
        /\ held' = [w \in Workers |-> NoJob]
    BY <1>2 DEF MainNextRound, Unmerged
  <2>2. DOMAIN job_que' = {} /\ \A w \in Workers : held'[w] = NoJob
    BY <2>1
  <2> QED BY <2>1, <2>2, IdleApart DEF SeparateInv
<1>3. CASE DispatchPushExit
  <2>1. /\ ExitJob \in Job /\ job_que' = Append(job_que, ExitJob)
        /\ UNCHANGED <<held, next>> /\ Unmerged' = Unmerged /\ ToPush' = ToPush
    BY <1>3, JobTypes DEF DispatchPushExit, Unmerged, ToPush
  <2> QED BY <1>0, <2>1, IdleApart, SeparateAppend
<1>4. CASE DispatchScan
  <2>0. UNCHANGED <<completed_jobs, held, next>>
    BY <1>4 DEF DispatchScan
  <2>1. CASE UNCHANGED <<unscanned, done, job_que>>
    BY <2>0, <2>1, SeparateUnchanged DEF Unmerged
  <2>2. ASSUME NEW a \in unscanned, NEW b \in unscanned, ScanMerge(a, b)
        PROVE  SeparateInv'
    <3>1. /\ a \in Unmerged /\ b \in Unmerged /\ a \in Job /\ b \in Job
          /\ a.r = b.l /\ Merge(a, b) \in Job
          /\ job_que' = Append(job_que, Merge(a, b))
          /\ Unmerged' = Unmerged \ {a, b} /\ Unmerged \subseteq Job
      BY <1>0, <2>0, <2>2, JobTypes
         DEF ScanMerge, Mergeable, TestsBuddy, Unmerged
    <3>2. \A k \in DOMAIN job_que : Apart(Merge(a, b), job_que[k])
      <4> SUFFICES ASSUME NEW k \in DOMAIN job_que
                   PROVE  Apart(Merge(a, b), job_que[k])
        OBVIOUS
      <4>1. job_que[k] \in Job /\ Apart(a, job_que[k]) /\ Apart(b, job_que[k])
        BY <1>0, <3>1, ApartSymmetric DEF SeparateInv
      <4> QED BY <3>1, <4>1, MergeApart
    <3>3. \A w \in Workers : Apart(Merge(a, b), held[w])
      <4> SUFFICES ASSUME NEW w \in Workers PROVE Apart(Merge(a, b), held[w])
        OBVIOUS
      <4>1. held[w] \in Job /\ Apart(a, held[w]) /\ Apart(b, held[w])
        BY <1>0, <3>1, ApartSymmetric DEF SeparateInv
      <4> QED BY <3>1, <4>1, MergeApart
    <3>4. \A c \in Unmerged' : Apart(Merge(a, b), c)
      <4> SUFFICES ASSUME NEW c \in Unmerged \ {a, b}
                   PROVE  Apart(Merge(a, b), c)
        BY <3>1
      <4>1. c \in Job /\ Apart(a, c) /\ Apart(b, c)
        BY <3>1 DEF SeparateInv
      <4> QED BY <3>1, <4>1, MergeApart
    <3>5. \A i \in ToPush : Apart(Merge(a, b), Bubble(i))
      <4> SUFFICES ASSUME NEW i \in ToPush PROVE Apart(Merge(a, b), Bubble(i))
        OBVIOUS
      <4>1. i \in 0..(NSections - 1)
        BY <1>0, SizeAssumption DEF ToPush
      <4>2. Bubble(i) \in Job /\ Apart(a, Bubble(i)) /\ Apart(b, Bubble(i))
        BY <3>1, <4>1, JobTypes DEF SeparateInv
      <4> QED BY <3>1, <4>2, MergeApart
    <3>6. ToPush' = ToPush
      BY <2>0 DEF ToPush
    <3> QED BY <1>0, <2>0, <3>1, <3>2, <3>3, <3>4, <3>5, <3>6, SeparateAppend
  <2>3. ASSUME NEW a \in unscanned, ScanPass(a)
        PROVE  SeparateInv'
    BY <2>0, <2>3, SeparateUnchanged DEF ScanPass, Unmerged
  <2> QED BY <1>4, <2>1, <2>2, <2>3, ScanCases
<1>5. CASE DispatchErase
  <2>1. UNCHANGED <<job_que, held, next>> /\ Unmerged' \subseteq Unmerged
    BY <1>5 DEF DispatchErase, Unmerged
  <2> QED BY <2>1, SeparateUnchanged
<1>6. ASSUME NEW w \in Workers, WorkerFetch(w) PROVE SeparateInv'
  <2>1. UNCHANGED next /\ Unmerged' = Unmerged /\ ToPush' = ToPush
    BY <1>6 DEF WorkerFetch, Unmerged, ToPush
  <2>2. CASE UNCHANGED <<job_que, held>>
    BY <2>1, <2>2, SeparateUnchanged
  <2>3. CASE held' = [held EXCEPT ![w] = Head(job_que)]
               /\ job_que' = Tail(job_que)
    <3>1. /\ 1 \in DOMAIN job_que /\ Head(job_que) = job_que[1]
          /\ \A k \in DOMAIN job_que' :
               /\ k + 1 \in DOMAIN job_que /\ k + 1 # 1
               /\ job_que'[k] = job_que[k + 1]
      BY <1>0, <1>6, <2>3, TailEntries DEF WorkerFetch
    <3>2. \A k, m \in DOMAIN job_que' : k # m => k + 1 # m + 1
      BY <1>0, <2>3
    <3>3. \A v \in Workers :
            held'[v] = IF v = w THEN job_que[1] ELSE held[v]
      BY <1>0, <2>3, <3>1
    <3> QED BY <2>1, <3>1, <3>2, <3>3, ApartSymmetric DEF SeparateInv
  <2> QED BY <1>6, <2>2, <2>3 DEF WorkerFetch
<1>7. ASSUME NEW w \in Workers, WorkerComplete(w) PROVE SeparateInv'
  <2>1. /\ UNCHANGED <<job_que, next>> /\ ToPush' = ToPush
        /\ Unmerged' \subseteq Unmerged \cup {held[w]}
    BY <1>7 DEF WorkerComplete, Unmerged, ToPush
  <2>2. \A v \in Workers : held'[v] = IF v = w THEN NoJob ELSE held[v]
    BY <1>0, <1>7 DEF WorkerComplete
  <2> QED BY <2>1, <2>2, ApartSymmetric, IdleApart DEF SeparateInv
<1>8. CASE UNCHANGED <<job_que, held, next, completed_jobs, done>>
  BY <1>8, SeparateUnchanged DEF Unmerged
<1>9. CASE \/ MainPost \/ MainJoin
           \/ DispatchCheckJobs \/ DispatchCheckQue \/ DispatchPostExit
           \/ DispatchWait \/ DispatchLock \/ DispatchPostMerge
           \/ \E w \in Workers : \/ WorkerWait(w) \/ WorkerRun(w)
                                 \/ WorkerPost(w) \/ WorkerRepost(w)
           \/ UNCHANGED vars
  BY <1>8, <1>9 DEF MainPost, MainJoin, DispatchCheckJobs, DispatchCheckQue,
       DispatchPostExit, DispatchWait, DispatchLock, DispatchPostMerge,
       WorkerWait, WorkerRun, WorkerPost, WorkerRepost, vars
<1> QED BY <1>1, <1>2, <1>3, <1>4, <1>5, <1>6, <1>7, <1>9, StepCases

\* A job is in exactly one place, and jobs in different places are apart:
\* pushing, queueing, working and merging never share an index.
THEOREM Separated == Spec => []SeparateInv
<1>1. TypeOK /\ ControlInv /\ SeparateInv /\ [Next]_vars => SeparateInv'
  BY SeparateNext
<1> QED BY <1>1, SeparateInit, TypeCorrect, PTL DEF Spec

\* Race freedom for every array, number of sections and of threads: no two
\* workers ever hold sections that share an index, nor one that shares an
\* index with a queued job or with a completed section up for merging.
THEOREM RaceFreedom == Spec => []NoOverlap
<1>1. SeparateInv => NoOverlap
  BY ApartSymmetric DEF SeparateInv, NoOverlap
<1> QED BY <1>1, Separated, PTL

---------------------------------------------------------------------------
(* The queue and its semaphore.                                            *)

\* The workers between taking a unit of job_sem and using it are finitely
\* many, and their number moves by one when one of them comes or goes.
LEMMA BetweenFinite ==
  IsFiniteSet(Between) /\ Cardinality(Between) \in Nat
<1>1. IsFiniteSet(Workers)
  BY FS_Interval, DegreeAssumption DEF Workers
<1>2. Between \subseteq Workers
  BY DEF Between
<1> QED BY <1>1, <1>2, FS_Subset, FS_CardinalityType

LEMMA BetweenGains ==
  ASSUME NEW w \in Workers, w \notin Between, Between' = Between \cup {w}
  PROVE  Cardinality(Between') = Cardinality(Between) + 1
BY BetweenFinite, FS_AddElement

LEMMA BetweenLoses ==
  ASSUME NEW w \in Between, Between' = Between \ {w}
  PROVE  Cardinality(Between') = Cardinality(Between) - 1
BY BetweenFinite, FS_RemoveElement

LEMMA CountInit == Init => QueueCount
<1> SUFFICES ASSUME Init PROVE QueueCount
  OBVIOUS
<1>1. Between = {} /\ Unposted = 0 /\ Len(job_que) = 0 /\ job_sem = 0
  BY DegreeAssumption DEF Init, Between, Unposted, Created, Workers
<1> QED BY <1>1, FS_EmptySet DEF QueueCount

LEMMA CountNext == TypeOK /\ QueueCount /\ [Next]_vars => QueueCount'
<1> SUFFICES ASSUME TypeOK, QueueCount, [Next]_vars PROVE QueueCount'
  OBVIOUS
<1> USE DEF mainVars, queueVars, compVars, dispVars, workerVars
<1>0. /\ job_que \in Seq(Job) /\ job_sem \in Nat
      /\ Len(job_que) \in Nat /\ Cardinality(Between) \in Nat
      /\ wpc \in [Workers -> {"absent", "idle", "fetch", "run", "complete",
                              "post", "repost", "exited"}]
      /\ Len(job_que) = job_sem + Cardinality(Between) + Unposted
      /\ Unposted \in Nat
  BY BetweenFinite DEF TypeOK, QueueCount, Unposted
<1>1. UNCHANGED wpc => Between' = Between
  BY DEF Between
<1>2. \A x : Len(Append(job_que, x)) = Len(job_que) + 1
  BY <1>0
<1>3. CASE MainPush \/ DispatchPushExit
  <2>1. UNCHANGED <<job_sem, wpc>> /\ Len(job_que') = Len(job_que) + 1
        /\ Unposted' = Unposted + 1
    BY <1>2, <1>3 DEF MainPush, DispatchPushExit, Unposted
  <2> QED BY <1>0, <1>1, <2>1 DEF QueueCount, Unposted
<1>4. CASE MainPost \/ DispatchPostExit \/ DispatchPostMerge
  <2>1. UNCHANGED <<job_que, wpc>> /\ job_sem' = job_sem + 1
        /\ Unposted' = Unposted - 1
    BY <1>4 DEF MainPost, DispatchPostExit, DispatchPostMerge, Unposted
  <2> QED BY <1>0, <1>1, <2>1 DEF QueueCount, Unposted
<1>5. CASE MainNextRound
  <2>1. job_que' = <<>> /\ job_sem' = 0 /\ Unposted' = 0
        /\ \A w \in Workers : wpc'[w] \in {"idle", "absent"}
    BY <1>5 DEF MainNextRound, Unposted, Created
  <2>2. Between' = {} /\ Len(job_que') = 0
    BY <2>1 DEF Between
  <2> QED BY <2>1, <2>2, FS_EmptySet DEF QueueCount
<1>6. CASE DispatchScan
  <2>0. disp = "scan" /\ UNCHANGED <<main, job_sem, wpc>>
    BY <1>6 DEF DispatchScan
  <2>1. ASSUME NEW a, NEW b, ScanMerge(a, b) PROVE QueueCount'
    <3>1. Len(job_que') = Len(job_que) + 1 /\ Unposted' = Unposted + 1
      BY <1>2, <2>0, <2>1 DEF ScanMerge, Unposted
    <3> QED BY <1>0, <1>1, <2>0, <3>1 DEF QueueCount, Unposted
  <2>2. CASE UNCHANGED job_que /\ disp' \in {"scan", "crashed"}
    <3>1. Unposted' = Unposted
      BY <2>0, <2>2 DEF Unposted
    <3> QED BY <1>1, <2>0, <2>2, <3>1 DEF QueueCount
  <2> QED BY <1>6, <2>0, <2>1, <2>2, ScanCases DEF ScanPass
<1>7. ASSUME NEW w \in Workers, WorkerWait(w) PROVE QueueCount'
  <2>1. w \notin Between /\ Between' = Between \cup {w}
    BY <1>0, <1>7 DEF WorkerWait, Between
  <2>2. job_sem' = job_sem - 1 /\ UNCHANGED job_que /\ Unposted' = Unposted
    BY <1>7 DEF WorkerWait, Unposted
  <2>3. Cardinality(Between') = Cardinality(Between) + 1
    BY <2>1, BetweenGains
  <2> QED BY <1>0, <2>2, <2>3 DEF QueueCount
<1>8. ASSUME NEW w \in Workers, WorkerFetch(w) PROVE QueueCount'
  <2>0. Unposted' = Unposted /\ UNCHANGED job_sem /\ w \in Between
    BY <1>8 DEF WorkerFetch, Unposted, Between
  <2>1. CASE Head(job_que).type = "exit"
    <3>1. UNCHANGED job_que /\ wpc' = [wpc EXCEPT ![w] = "repost"]
          /\ wpc[w] = "fetch"
      BY <1>8, <2>1 DEF WorkerFetch
    <3>2. Between' = Between
      BY <1>0, <3>1 DEF Between
    <3> QED BY <2>0, <3>1, <3>2 DEF QueueCount
  <2>2. CASE Head(job_que).type # "exit"
    <3>1. job_que # <<>> /\ job_que' = Tail(job_que)
          /\ wpc' = [wpc EXCEPT ![w] = "run"]
      BY <1>8, <2>2 DEF WorkerFetch
    <3>2. Len(job_que') = Len(job_que) - 1
      BY <1>0, <3>1
    <3>3. Between' = Between \ {w}
      BY <1>0, <3>1 DEF Between
    <3>4. Cardinality(Between') = Cardinality(Between) - 1
      BY <2>0, <3>3, BetweenLoses
    <3> QED BY <1>0, <2>0, <3>2, <3>4 DEF QueueCount
  <2> QED BY <2>1, <2>2
<1>9. ASSUME NEW w \in Workers, WorkerRepost(w) PROVE QueueCount'
  <2>1. w \in Between /\ Between' = Between \ {w}
    BY <1>0, <1>9 DEF WorkerRepost, Between
  <2>2. job_sem' = job_sem + 1 /\ UNCHANGED job_que /\ Unposted' = Unposted
    BY <1>9 DEF WorkerRepost, Unposted
  <2>3. Cardinality(Between') = Cardinality(Between) - 1
    BY <2>1, BetweenLoses
  <2> QED BY <1>0, <2>2, <2>3 DEF QueueCount
<1>10. ASSUME NEW w \in Workers,
              WorkerRun(w) \/ WorkerComplete(w) \/ WorkerPost(w)
       PROVE  QueueCount'
  <2>1. UNCHANGED <<job_que, job_sem>> /\ Unposted' = Unposted
        /\ \E s \in {"idle", "complete", "post"} :
              wpc[w] \notin {"fetch", "repost"} /\ wpc' = [wpc EXCEPT ![w] = s]
    BY <1>10 DEF WorkerRun, WorkerComplete, WorkerPost, Unposted
  <2>2. Between' = Between
    BY <1>0, <2>1 DEF Between
  <2> QED BY <2>1, <2>2 DEF QueueCount
<1>11. CASE \/ MainJoin \/ DispatchCheckJobs \/ DispatchCheckQue
            \/ DispatchWait \/ DispatchLock \/ DispatchErase
            \/ UNCHANGED vars
  <2>1. UNCHANGED <<job_que, job_sem, wpc>> /\ Unposted' = Unposted
    BY <1>11 DEF MainJoin, DispatchCheckJobs, DispatchCheckQue,
         DispatchWait, DispatchLock, DispatchErase, Unposted, vars
  <2> QED BY <1>1, <2>1 DEF QueueCount
<1> QED BY <1>3, <1>4, <1>5, <1>6, <1>7, <1>8, <1>9, <1>10, <1>11, StepCases

\* No unit of the semaphore and no job is ever lost or invented: the queue is
\* as long as its units, the fetches and the announcements under way.
THEOREM Counted == Spec => []QueueCount
<1>1. TypeOK /\ QueueCount /\ [Next]_vars => QueueCount'
  BY CountNext
<1> QED BY <1>1, CountInit, TypeCorrect, PTL DEF Spec

\* However many threads share the queue, a worker that got past the
\* semaphore finds a job at its front.
THEOREM FetchFindsJob == Spec => []NoEmptyFetch
<1>1. TypeOK /\ QueueCount => NoEmptyFetch
  <2> SUFFICES ASSUME TypeOK, QueueCount,
                      NEW w \in Workers, wpc[w] = "fetch"
               PROVE  job_que # <<>>
    BY DEF NoEmptyFetch
  <2>1. Between # {}
    BY DEF Between
  <2>2. Cardinality(Between) \in Nat /\ Cardinality(Between) # 0
    BY <2>1, BetweenFinite, FS_EmptySet
  <2>3. job_sem \in Nat /\ Unposted \in Nat
    BY DEF TypeOK, Unposted
  <2>4. Len(job_que) # 0
    BY <2>2, <2>3 DEF QueueCount
  <2> QED BY <2>4
<1> QED BY <1>1, TypeCorrect, Counted, PTL

---------------------------------------------------------------------------
(* With at least one element per section.                                  *)

\* A job that covers the array shares an index with every proper job.
LEMMA WholeOverlaps ==
  ASSUME NEW j \in Job, NEW p \in Job, j.l = 0, j.r = N, Proper(p)
  PROVE  ~Apart(p, j) /\ ~Apart(j, p)
<1>1. p.l \in Index /\ p.l < p.r /\ j.l <= p.l /\ p.l < j.r
  BY SizeAssumption DEF Proper, Job, Index
<1> QED BY <1>1 DEF Apart, Job

LEMMA BubbleProper ==
  ASSUME N >= NSections, NEW i \in 0..(NSections - 1)
  PROVE  Proper(Bubble(i)) /\ Bubble(i).type # "exit"
BY SectionBounds DEF Proper, Bubble

\* Once a completed job covers the array there is no other work anywhere.
LEMMA NothingLeft ==
  ASSUME N >= NSections, TypeOK, ControlInv, SeparateInv, WholeInv,
         disp \in {"check_que", "exit", "exit_post", "exited"}
  PROVE  /\ ToPush = {}
         /\ \A k \in DOMAIN job_que : job_que[k] = ExitJob
         /\ \A w \in Workers : wpc[w] \notin {"run", "complete"}
         /\ disp \in {"check_que", "exit"} => job_que = <<>>
<1>1. PICK j \in completed_jobs : j.l = 0 /\ j.r = N
  BY DEF WholeInv
<1>2. j \in Unmerged /\ j \in Job
  BY <1>1 DEF TypeOK, ControlInv, Unmerged
<1>3. ToPush = {}
  <2> SUFFICES ASSUME NEW i \in ToPush PROVE FALSE
    OBVIOUS
  <2>1. i \in 0..(NSections - 1)
    BY SizeAssumption DEF ToPush, TypeOK
  <2>2. Bubble(i) \in Job /\ Proper(Bubble(i)) /\ Apart(j, Bubble(i))
    BY <1>2, <2>1, JobTypes, BubbleProper DEF SeparateInv
  <2> QED BY <1>1, <1>2, <2>2, WholeOverlaps
<1>4. ASSUME NEW k \in DOMAIN job_que
      PROVE  job_que[k] = ExitJob /\ disp \in {"exit_post", "exited"}
  <2>1. job_que[k] \in Job /\ Apart(job_que[k], j)
    BY <1>2 DEF SeparateInv, TypeOK
  <2>2. ~Proper(job_que[k])
    BY <1>1, <1>2, <2>1, WholeOverlaps
  <2> QED BY <2>2 DEF WholeInv
<1>5. ASSUME NEW w \in Workers, wpc[w] \in {"run", "complete"} PROVE FALSE
  <2>1. held[w] \in Job /\ Apart(held[w], j) /\ Proper(held[w])
    BY <1>2, <1>5 DEF SeparateInv, TypeOK, WholeInv
  <2> QED BY <1>1, <1>2, <2>1, WholeOverlaps
<1>6. disp \in {"check_que", "exit"} => job_que = <<>>
  <2>1. disp \in {"check_que", "exit"} => DOMAIN job_que = {}
    BY <1>4
  <2> QED BY <2>1 DEF TypeOK
<1> QED BY <1>3, <1>4, <1>5, <1>6

LEMMA WholeInit == Init => WholeInv
BY DEF Init, WholeInv, Created

LEMMA WholeNext ==
  ASSUME N >= NSections, TypeOK, ControlInv, SeparateInv, WholeInv, [Next]_vars
  PROVE  WholeInv'
<1> USE DEF mainVars, queueVars, compVars, dispVars, workerVars
<1>0. /\ job_que \in Seq(Job) /\ next \in 0..NSections
      /\ completed_jobs \subseteq Job /\ unscanned \subseteq completed_jobs
      /\ held \in [Workers -> Job]
      /\ wpc \in [Workers -> {"absent", "idle", "fetch", "run", "complete",
                              "post", "repost", "exited"}]
  BY DEF TypeOK, ControlInv, Unmerged
<1>1. CASE MainPush
  <2>1. next \in 0..(NSections - 1) /\ next \in ToPush
    BY <1>0, <1>1, SizeAssumption DEF MainPush, ControlInv, ToPush
  <2>2. disp \notin {"check_que", "exit", "exit_post", "exited"}
    BY <2>1, NothingLeft
  <2>3. \A k \in DOMAIN job_que' :
          \/ k \in DOMAIN job_que /\ job_que'[k] = job_que[k]
          \/ job_que'[k] = Bubble(next)
    BY <1>0, <1>1, <2>1, JobTypes, AppendEntries DEF MainPush
  <2>4. UNCHANGED <<disp, wpc, held, completed_jobs>>
    BY <1>1 DEF MainPush
  <2>5. Proper(Bubble(next)) /\ Bubble(next).type # "exit"
    BY <2>1, BubbleProper
  <2> QED BY <2>2, <2>3, <2>4, <2>5 DEF WholeInv
<1>2. CASE MainNextRound
  <2>1. /\ DOMAIN job_que' = {} /\ completed_jobs' = {} /\ disp' = "check"
        /\ \A w \in Workers : wpc'[w] \in {"idle", "absent"}
    BY <1>2 DEF MainNextRound, Created
  <2> QED BY <2>1 DEF WholeInv
<1>3. CASE DispatchCheckJobs
  BY <1>3 DEF DispatchCheckJobs, WholeInv
<1>4. CASE DispatchCheckQue
  BY <1>4 DEF DispatchCheckQue, WholeInv
<1>5. CASE DispatchPushExit
  <2>1. job_que = <<>> /\ \A w \in Workers : wpc[w] \notin {"run", "complete"}
    BY <1>5, NothingLeft DEF DispatchPushExit
  <2>2. job_que' = <<ExitJob>> /\ disp = "exit" /\ disp' = "exit_post"
        /\ UNCHANGED <<completed_jobs, wpc, held>>
    BY <1>5, <2>1 DEF DispatchPushExit
  <2>3. \A k \in DOMAIN job_que' : job_que'[k] = ExitJob
    BY <2>2
  <2> QED BY <2>1, <2>2, <2>3 DEF WholeInv
<1>6. CASE DispatchPostExit
  BY <1>6 DEF DispatchPostExit, WholeInv
<1>7. CASE DispatchScan
  <2>0. disp = "scan" /\ UNCHANGED <<completed_jobs, wpc, held>>
    BY <1>7 DEF DispatchScan
  <2>1. ~ \E a, b \in unscanned : a # b /\ DividesByZero(a, b)
    <3> SUFFICES ASSUME NEW a \in unscanned, NEW b \in unscanned
                 PROVE  ~DividesByZero(a, b)
      OBVIOUS
    <3>1. a \in Job /\ a.l < a.r
      BY <1>0 DEF WholeInv, Proper
    <3> QED BY <3>1 DEF DividesByZero, Len2, Job
  <2>2. ASSUME NEW a \in unscanned, NEW b \in unscanned, ScanMerge(a, b)
        PROVE  WholeInv'
    <3>1. a \in Job /\ b \in Job /\ Proper(a) /\ Proper(b) /\ a.r = b.l
      BY <1>0, <2>2 DEF ScanMerge, Mergeable, TestsBuddy, WholeInv
    <3>2. Proper(Merge(a, b)) /\ Merge(a, b).type # "exit"
      BY <3>1 DEF Proper, Merge, Job
    <3>3. \A k \in DOMAIN job_que' :
            \/ k \in DOMAIN job_que /\ job_que'[k] = job_que[k]
            \/ job_que'[k] = Merge(a, b)
      BY <1>0, <2>2, <3>1, JobTypes, AppendEntries DEF ScanMerge
    <3>4. disp' = "scan_post"
      BY <2>2 DEF ScanMerge
    <3> QED BY <2>0, <3>2, <3>3, <3>4 DEF WholeInv
  <2>3. ASSUME NEW a \in unscanned, ScanPass(a) PROVE WholeInv'
    BY <2>0, <2>3 DEF ScanPass, WholeInv
  <2> QED BY <1>7, <2>1, <2>2, <2>3, ScanCases
<1>8. CASE DispatchErase
  BY <1>8 DEF DispatchErase, WholeInv
<1>9. ASSUME NEW w \in Workers, WorkerFetch(w) PROVE WholeInv'
  <2>1. UNCHANGED <<disp, completed_jobs>> /\ job_que # <<>>
    BY <1>9 DEF WorkerFetch
  <2>2. /\ 1 \in DOMAIN job_que /\ Head(job_que) = job_que[1]
        /\ \A k \in DOMAIN Tail(job_que) :
             k + 1 \in DOMAIN job_que /\ Tail(job_que)[k] = job_que[k + 1]
    BY <1>0, <2>1, TailEntries
  <2>3. CASE Head(job_que).type = "exit"
    <3>1. UNCHANGED <<job_que, held>> /\ wpc' = [wpc EXCEPT ![w] = "repost"]
      BY <1>9, <2>3 DEF WorkerFetch
    <3> QED BY <1>0, <2>1, <3>1 DEF WholeInv
  <2>4. CASE Head(job_que).type # "exit"
    <3>1. /\ wpc' = [wpc EXCEPT ![w] = "run"] /\ job_que' = Tail(job_que)
          /\ held' = [held EXCEPT ![w] = job_que[1]]
      BY <1>9, <2>2, <2>4 DEF WorkerFetch
    <3>2. job_que[1] # ExitJob
      BY <2>2, <2>4 DEF ExitJob
    <3>3. Proper(job_que[1]) /\ disp \notin {"exit_post", "exited"}
      BY <2>2, <3>2, NothingLeft DEF WholeInv
    <3>4. \A v \in Workers :
            /\ held'[v] = IF v = w THEN job_que[1] ELSE held[v]
            /\ v # w => wpc'[v] = wpc[v]
      BY <1>0, <2>2, <3>1
    <3> QED BY <2>1, <2>2, <3>1, <3>3, <3>4 DEF WholeInv
  <2> QED BY <2>3, <2>4
<1>10. ASSUME NEW w \in Workers, WorkerComplete(w) PROVE WholeInv'
  <2>1. /\ wpc[w] = "complete" /\ Proper(held[w])
        /\ completed_jobs' = completed_jobs \cup {held[w]}
        /\ UNCHANGED <<disp, job_que>>
    BY <1>10 DEF WorkerComplete, WholeInv
  <2>2. disp \notin {"check_que", "exit", "exit_post", "exited"}
    BY <2>1, NothingLeft
  <2>3. \A v \in Workers : wpc'[v] \in {"run", "complete"} =>
          wpc[v] = wpc'[v] /\ held'[v] = held[v]
    BY <1>0, <1>10 DEF WorkerComplete
  <2> QED BY <2>1, <2>2, <2>3 DEF WholeInv
<1>11. ASSUME NEW w \in Workers,
              \/ WorkerWait(w) \/ WorkerRun(w)
              \/ WorkerPost(w) \/ WorkerRepost(w)
       PROVE  WholeInv'
  <2>1. UNCHANGED <<disp, job_que, completed_jobs, held>>
    BY <1>11 DEF WorkerWait, WorkerRun, WorkerPost, WorkerRepost
  <2>2. \A v \in Workers : wpc'[v] \in {"run", "complete"} =>
          wpc[v] \in {"run", "complete"}
    BY <1>0, <1>11 DEF WorkerWait, WorkerRun, WorkerPost, WorkerRepost
  <2> QED BY <2>1, <2>2 DEF WholeInv
<1>12. CASE \/ MainPost \/ MainJoin
            \/ DispatchWait \/ DispatchLock \/ DispatchPostMerge
            \/ UNCHANGED vars
  <2>1. /\ UNCHANGED <<job_que, completed_jobs, wpc, held>>
        /\ UNCHANGED disp \/ disp' \in {"lock", "scan"}
    BY <1>12 DEF MainPost, MainJoin, DispatchWait, DispatchLock,
         DispatchPostMerge, vars
  <2>2. CASE UNCHANGED disp
    BY <2>1, <2>2 DEF WholeInv
  <2>3. CASE disp' \in {"lock", "scan"} /\ ~UNCHANGED disp
    <3>1. disp \in {"wait", "lock", "scan_post"}
      BY <1>12, <2>3 DEF MainPost, MainJoin, DispatchWait, DispatchLock,
           DispatchPostMerge, vars
    <3> QED BY <2>1, <2>3, <3>1 DEF WholeInv
  <2> QED BY <2>1, <2>2, <2>3
<1> QED BY <1>1, <1>2, <1>3, <1>4, <1>5, <1>6, <1>7, <1>8, <1>9, <1>10,
           <1>11, <1>12, StepCases

\* With at least one element per section no job is empty, and the dispatcher
\* leaves its loop only when one job covers the array.
THEOREM Whole ==
  ASSUME N >= NSections
  PROVE  Spec => []WholeInv
<1>1. TypeOK /\ ControlInv /\ SeparateInv /\ WholeInv /\ [Next]_vars
        => WholeInv'
  BY WholeNext
<1> QED BY <1>1, WholeInit, TypeCorrect, Separated, PTL DEF Spec

\* With at least as many elements as sections, whatever the number of
\* threads, the dispatcher's test never divides by zero.
THEOREM NoCrash ==
  ASSUME N >= NSections
  PROVE  Spec => []NeverDividesByZero
<1>1. WholeInv => NeverDividesByZero
  BY DEF WholeInv, NeverDividesByZero
<1> QED BY <1>1, Whole, PTL

\* With at least as many elements as sections the exit job is queued only
\* when every section has been pushed, sorted and merged.
THEOREM ExitComesLast ==
  ASSUME N >= NSections
  PROVE  Spec => []ExitIsLast
<1>1. TypeOK /\ ControlInv /\ SeparateInv /\ WholeInv => ExitIsLast
  <2> SUFFICES ASSUME TypeOK, ControlInv, SeparateInv, WholeInv,
                      disp \in {"exit_post", "exited"}
               PROVE  /\ job_que = <<ExitJob>> /\ next = NSections
                      /\ \A w \in Workers : held[w] = NoJob
    BY DEF ExitIsLast
  <2>1. ToPush = {} /\ \A w \in Workers : wpc[w] \notin {"run", "complete"}
    BY NothingLeft
  <2>2. next = NSections
    BY <2>1, SizeAssumption DEF ToPush, TypeOK
  <2> QED BY <2>1, <2>2 DEF WholeInv, ControlInv
<1> QED BY <1>1, TypeCorrect, Separated, Whole, PTL

---------------------------------------------------------------------------
(* No lost wakeup.                                                         *)

\* A section next to a proper one begins behind it, and no third one begins
\* in between.
LEMMA Neighbour ==
  ASSUME NEW a \in Job, NEW b \in Job, NEW c \in Job,
         Proper(a), Proper(b), Proper(c), a.r = b.l, a.l <= c.l, c.l <= b.l,
         Apart(a, c), Apart(b, c)
  PROVE  FALSE
<1>1. a.l \in Nat /\ b.l \in Index /\ c.l \in Index /\ b.l < b.r /\ c.l < c.r
  BY SizeAssumption DEF Proper, Job, Index
<1>2. CASE c.l < b.l
  BY <1>1, <1>2 DEF Apart, Job
<1>3. CASE c.l = b.l
  BY <1>1, <1>3 DEF Apart, Job
<1>4. c.l < b.l \/ c.l = b.l
  BY <1>1 DEF Index
<1> QED BY <1>2, <1>3, <1>4

LEMMA ScanPassNoticed ==
  ASSUME TypeOK, ControlInv, SeparateInv, WholeInv, NoticedInv,
         DispatchScan, NEW a \in unscanned, ScanPass(a), IsFirst(a, unscanned),
         \/ unscanned = {a}
         \/ \E b \in unscanned \ {a} : IsFirst(b, unscanned \ {a}) /\ ~Mergeable(a, b)
  PROVE  NoticedInv'
<1>1. /\ disp = "scan" /\ disp' = "scan" /\ UNCHANGED <<completed_jobs, done>>
      /\ unscanned' = unscanned \ {a}
  BY DEF DispatchScan, ScanPass, compVars
<1>2. /\ unscanned \subseteq Unmerged /\ Unmerged \subseteq completed_jobs
      /\ completed_jobs \subseteq Job /\ Unmerged' = Unmerged
  BY <1>1 DEF TypeOK, ControlInv, Unmerged
<1>3. \A x \in completed_jobs : x.l \in Nat /\ x.r \in Nat /\ Proper(x)
  BY <1>2 DEF Job, WholeInv
<1>4. \A x \in completed_jobs \ unscanned', y \in unscanned' : x.l <= y.l
  BY <1>1 DEF NoticedInv, MutexHeld, IsFirst
<1>5. ASSUME NEW b \in Unmerged, Mergeable(a, b) PROVE FALSE
  <2>1. a.r = b.l /\ a.l < b.l /\ b # a
    BY <1>2, <1>3, <1>5 DEF Mergeable, TestsBuddy, Proper
  <2>2. b \in unscanned
    <3> SUFFICES ASSUME b \notin unscanned PROVE FALSE
      OBVIOUS
    <3>1. b.l <= a.l
      BY <1>1, <1>2 DEF NoticedInv, MutexHeld
    <3> QED BY <1>2, <1>3, <2>1, <3>1
  <2>3. PICK c \in unscanned \ {a} : IsFirst(c, unscanned \ {a}) /\ ~Mergeable(a, c)
    BY <2>1, <2>2
  <2>4. a.l <= c.l /\ c.l <= b.l /\ c # b /\ c \in Unmerged
    BY <1>2, <1>5, <2>1, <2>2, <2>3 DEF IsFirst
  <2>5. Apart(a, c) /\ Apart(b, c)
    BY <1>2, <2>3, <2>4 DEF SeparateInv
  <2> QED BY <1>2, <1>3, <2>1, <2>4, <2>5, Neighbour
<1>6. \A x \in Unmerged' \ unscanned', b \in Unmerged' : ~Mergeable(x, b)
  BY <1>1, <1>2, <1>5 DEF NoticedInv, MutexHeld
<1> QED BY <1>1, <1>4, <1>6 DEF NoticedInv, MutexHeld

LEMMA NoticedNext ==
  ASSUME N >= NSections, TypeOK, ControlInv, SeparateInv, WholeInv, NoticedInv,
         [Next]_vars
  PROVE  NoticedInv'
<1> USE DEF mainVars, queueVars, compVars, dispVars, workerVars
<1>0. /\ completion_sem \in Nat
      /\ completed_jobs \subseteq Job /\ unscanned \subseteq Unmerged
      /\ wpc \in [Workers -> {"absent", "idle", "fetch", "run", "complete",
                              "post", "repost", "exited"}]
      /\ disp \notin {"scan", "scan_post", "crashed"} => done = {} /\ unscanned = {}
  BY DEF TypeOK, ControlInv
<1>1. CASE \/ MainPush \/ MainPost \/ MainJoin \/ DispatchPushExit
           \/ DispatchPostExit \/ DispatchPostMerge \/ UNCHANGED vars
  <2>1. /\ UNCHANGED <<completed_jobs, completion_sem, unscanned, done, wpc>>
        /\ \/ UNCHANGED disp
           \/ disp' \in {"exit_post", "exited"}
           \/ disp = "scan_post" /\ disp' = "scan"
    BY <1>1 DEF MainPush, MainPost, MainJoin, DispatchPushExit,
         DispatchPostExit, DispatchPostMerge, vars
  <2> QED BY <2>1 DEF NoticedInv, MutexHeld, Announced, Unmerged
<1>2. CASE MainNextRound
  BY <1>2 DEF MainNextRound, NoticedInv, MutexHeld
<1>3. CASE DispatchCheckJobs
  <2>1. /\ UNCHANGED <<completed_jobs, completion_sem, unscanned, done, wpc>>
        /\ disp = "check" /\ disp' \in {"check_que", "wait"}
        /\ disp' = "wait" => ~ \E j \in completed_jobs :
                                  completed_jobs = {j} /\ j.l = 0 /\ j.r = N
    BY <1>3 DEF DispatchCheckJobs
  <2>2. ASSUME NEW j \in completed_jobs, j.l = 0, j.r = N
        PROVE  completed_jobs = {j}
    <3> SUFFICES ASSUME NEW c \in completed_jobs, c # j PROVE FALSE
      OBVIOUS
    <3>1. c \in Unmerged /\ j \in Unmerged /\ c \in Job /\ j \in Job /\ Proper(c)
      BY <1>0, <2>1 DEF Unmerged, WholeInv
    <3>2. Apart(c, j)
      BY <3>1 DEF SeparateInv
    <3> QED BY <2>2, <3>1, <3>2, WholeOverlaps
  <2>3. disp' = "wait" => ~ \E j \in completed_jobs' : j.l = 0 /\ j.r = N
    BY <2>1, <2>2
  <2> QED BY <2>1, <2>3 DEF NoticedInv, MutexHeld, Announced
<1>4. CASE DispatchCheckQue
  <2>1. job_que = <<>>
    BY <1>4, NothingLeft DEF DispatchCheckQue
  <2>2. disp' = "exit"
    BY <1>4, <2>1 DEF DispatchCheckQue
  <2> QED BY <2>2 DEF NoticedInv, MutexHeld
<1>5. CASE DispatchWait
  BY <1>5 DEF DispatchWait, NoticedInv, MutexHeld
<1>6. CASE DispatchLock
  <2>1. /\ disp' = "scan" /\ unscanned' = completed_jobs'
        /\ Unmerged' \subseteq completed_jobs'
    BY <1>6 DEF DispatchLock, Unmerged
  <2> QED BY <2>1 DEF NoticedInv
<1>7. CASE DispatchScan
  <2>1. disp = "scan" /\ UNCHANGED <<completed_jobs, completion_sem, wpc>>
    BY <1>7 DEF DispatchScan
  <2>2. CASE disp' = "crashed"
    BY <2>2 DEF NoticedInv, MutexHeld
  <2>3. ASSUME NEW a \in unscanned, NEW b \in unscanned \ {a}, IsFirst(a, unscanned),
               IsFirst(b, unscanned \ {a}), ScanMerge(a, b)
        PROVE  NoticedInv'
    <3>1. /\ disp' = "scan_post" /\ done' = done \cup {a, b}
          /\ unscanned' = unscanned \ {a, b}
      BY <2>3 DEF ScanMerge
    <3>2. \A x \in completed_jobs' \ unscanned', y \in unscanned' : x.l <= y.l
      BY <2>1, <2>3, <3>1 DEF NoticedInv, MutexHeld, IsFirst
    <3>3. /\ Unmerged' \subseteq Unmerged
          /\ Unmerged' \ unscanned' \subseteq Unmerged \ unscanned
      BY <2>1, <3>1 DEF Unmerged
    <3>4. \A x \in Unmerged' \ unscanned', y \in Unmerged' : ~Mergeable(x, y)
      BY <2>1, <3>3 DEF NoticedInv, MutexHeld
    <3> QED BY <3>1, <3>2, <3>4 DEF NoticedInv
  <2>4. ASSUME NEW a \in unscanned, IsFirst(a, unscanned), ScanPass(a),
               \/ unscanned = {a}
               \/ \E b \in unscanned \ {a} :
                    IsFirst(b, unscanned \ {a}) /\ ~Mergeable(a, b)
        PROVE  NoticedInv'
    BY <1>7, <2>4, ScanPassNoticed
  <2>5. PICK a \in unscanned :
          /\ IsFirst(a, unscanned)
          /\ \/ \E b \in unscanned \ {a} :
                  /\ IsFirst(b, unscanned \ {a})
                  /\ IF DividesByZero(a, b)
                     THEN /\ disp' = "crashed"
                          /\ UNCHANGED <<unscanned, done, job_que>>
                     ELSE \/ ScanMerge(a, b)
                          \/ ~Mergeable(a, b) /\ ScanPass(a)
             \/ unscanned = {a} /\ ScanPass(a)
    BY <1>7 DEF DispatchScan
  <2> QED BY <2>2, <2>3, <2>4, <2>5
<1>8. CASE DispatchErase
  <2>1. /\ disp = "scan" /\ unscanned = {} /\ completed_jobs' = Unmerged
        /\ disp' = "check"
    BY <1>8 DEF DispatchErase, Unmerged
  <2>2. \A a, b \in completed_jobs' : ~Mergeable(a, b)
    BY <2>1 DEF NoticedInv, MutexHeld
  <2> QED BY <2>1, <2>2 DEF NoticedInv, MutexHeld
<1>9. ASSUME NEW w \in Workers, WorkerComplete(w)
      PROVE  NoticedInv'
  <2>1. ~MutexHeld /\ ~MutexHeld' /\ wpc'[w] = "post"
    BY <1>0, <1>9 DEF WorkerComplete, MutexHeld
  <2>2. Announced'
    BY <2>1 DEF Announced
  <2> QED BY <2>1, <2>2 DEF NoticedInv
<1>10. ASSUME NEW w \in Workers, WorkerPost(w)
       PROVE  NoticedInv'
  <2>1. UNCHANGED <<disp, completed_jobs, unscanned, done>> /\ completion_sem' > 0
    BY <1>0, <1>10 DEF WorkerPost
  <2>2. Announced'
    BY <2>1 DEF Announced
  <2> QED BY <2>1, <2>2 DEF NoticedInv, MutexHeld, Unmerged
<1>11. ASSUME NEW w \in Workers,
              WorkerWait(w) \/ WorkerFetch(w) \/ WorkerRun(w) \/ WorkerRepost(w)
       PROVE  NoticedInv'
  <2>1. /\ UNCHANGED <<disp, completed_jobs, completion_sem, unscanned, done>>
        /\ \A v \in Workers : wpc[v] = "post" => wpc'[v] = "post"
    BY <1>0, <1>11 DEF WorkerWait, WorkerFetch, WorkerRun, WorkerRepost
  <2>2. Announced => Announced'
    BY <2>1 DEF Announced
  <2> QED BY <2>1, <2>2 DEF NoticedInv, MutexHeld, Unmerged
<1> QED BY <1>1, <1>2, <1>3, <1>4, <1>5, <1>6, <1>7, <1>8, <1>9, <1>10,
           <1>11, StepCases

\* No lost wakeup, whatever the number of threads: a dispatcher that waits
\* with no completion left to be announced has merged all it could and has
\* not overlooked the end.
THEOREM NothingMissed ==
  ASSUME N >= NSections
  PROVE  Spec => []NoMissedMerge
<1>1. Init => NoticedInv
  BY DEF Init, NoticedInv, MutexHeld
<1>2. TypeOK /\ ControlInv /\ SeparateInv /\ WholeInv /\ NoticedInv /\ [Next]_vars
        => NoticedInv'
  BY NoticedNext
<1>3. TypeOK /\ NoticedInv => NoMissedMerge
  BY DEF NoticedInv, NoMissedMerge, Announced
<1> QED BY <1>1, <1>2, <1>3, TypeCorrect, Separated, Whole, PTL DEF Spec

---------------------------------------------------------------------------
(* What the jobs do to the array.                                          *)

\* The contents of an array pass through any number of reorderings.
LEMMA ContentsTwice ==
  ASSUME NEW D, IsFiniteSet(D), NEW u, NEW v, NEW w,
         DOMAIN u = D, DOMAIN v = D, DOMAIN w = D,
         SameContents(u, v), SameContents(v, w)
  PROVE  SameContents(u, w)
<1> SUFFICES ASSUME NEW i \in D
             PROVE  Cardinality({k \in D : u[k] = u[i]}) =
                      Cardinality({k \in D : w[k] = u[i]})
  BY DEF SameContents
<1> DEFINE U == {k \in D : u[k] = u[i]}
           V == {k \in D : v[k] = u[i]}
           W == {k \in D : w[k] = u[i]}
<1>1. Cardinality(U) = Cardinality(V)
  BY DEF SameContents
<1>2. IsFiniteSet(U) /\ IsFiniteSet(V) /\ i \in U
  BY FS_Subset
<1>3. V # {}
  <2> HIDE DEF U, V
  <2> QED BY <1>1, <1>2, FS_EmptySet
<1>4. PICK j \in D : v[j] = u[i]
  BY <1>3
<1>5. Cardinality(V) = Cardinality(W)
  <2>1. u[i] \in {v[k] : k \in DOMAIN v}
    BY <1>4
  <2> QED BY <2>1 DEF SameContents
<1> QED BY <1>1, <1>5

LEMMA ContentsSame ==
  ASSUME NEW v PROVE SameContents(v, v)
  BY DEF SameContents

LEMMA IndexFinite == IsFiniteSet(Index)
  BY FS_Interval, SizeAssumption DEF Index

\* Sorting the section of one job leaves every section apart from it as it is.
LEMMA SectionKept ==
  ASSUME NEW j, NEW c \in Job, WithinArray(c), Apart(j, c),
         j.l \in Nat, j.r \in Nat,
         vec \in [Index -> Int], SortsSection(vec, vec', j.l, j.r),
         NEW l \in Int, NEW r \in Int, c.l <= l, r <= c.r, SectionSorted(vec, l, r)
  PROVE  SectionSorted(vec, l, r)'
<1>1. ASSUME NEW x \in l..(r - 1) PROVE vec'[x] = vec[x]
  <2>1. c.l \in Nat /\ c.r \in Nat /\ c.r <= N
    BY DEF Job, WithinArray
  <2>2. x \in Index /\ c.l <= x /\ x < c.r
    BY <2>1, SizeAssumption DEF Index
  <2>3. x \notin j.l..(j.r - 1)
    BY <2>2 DEF Apart
  <2> QED BY <2>2, <2>3 DEF SortsSection
<1> QED BY <1>1 DEF SectionSorted

\* The jobs that touch vec, as sections of it.
LEMMA WorkSorts ==
  ASSUME vec \in [Index -> Int], NEW j \in Job, j.type \in {"bubble", "merge"},
         WithinArray(j), Ready(j)
  PROVE  LET w == IF j.type = "bubble" THEN BubbleSort(vec, j.l, j.r)
                                       ELSE MergeSeg(vec, j.l, j.mid, j.r)
         IN  w \in [Index -> Int] /\ SortsSection(vec, w, j.l, j.r)
<1>1. /\ j.l \in Int /\ j.r \in Int /\ j.mid \in Int
      /\ j.l..(j.r - 1) \subseteq Index
  BY SizeAssumption DEF Job, WithinArray, Index
<1>2. CASE j.type = "bubble"
  <2>1. BubbleSort(vec, j.l, j.r) \in [Index -> Int]
    BY <1>1, BubbleSortsSection DEF Sorts
  <2>2. SortsSection(vec, BubbleSort(vec, j.l, j.r), j.l, j.r)
    BY <1>1, IndexFinite, BubbleSortCorrect
  <2> QED BY <1>2, <2>1, <2>2
<1>3. CASE j.type = "merge"
  <2>1. /\ j.l <= j.mid /\ j.mid <= j.r
        /\ SectionSorted(vec, j.l, j.mid) /\ SectionSorted(vec, j.mid, j.r)
    BY <1>3 DEF WithinArray, Ready
  <2>2. MergeSeg(vec, j.l, j.mid, j.r) \in [Index -> Int]
    BY <1>1, <2>1, MergeSortsSection
  <2>3. SortsSection(vec, MergeSeg(vec, j.l, j.mid, j.r), j.l, j.r)
    BY <1>1, <2>1, IndexFinite, MergeSegCorrect
  <2> QED BY <1>3, <2>2, <2>3
<1> QED BY <1>2, <1>3

---------------------------------------------------------------------------
(* The sections of the array.                                              *)

LEMMA SortedInit == Init => SortedInv
<1> SUFFICES ASSUME Init PROVE SortedInv
  OBVIOUS
<1>1. /\ DOMAIN job_que = {} /\ Unmerged = {}
      /\ \A w \in Workers : wpc[w] \in {"idle", "absent"}
  BY DEF Init, Unmerged, Created
<1>2. input \in [Index -> Int] /\ vec = input
  BY InputAssumption DEF Init, Index
<1> QED BY <1>1, <1>2, ContentsSame DEF SortedInv

\* A job is put into the queue: the array and everything else stays.
LEMMA SortedAppend ==
  ASSUME SortedInv, job_que \in Seq(Job), NEW x \in Job,
         job_que' = Append(job_que, x), UNCHANGED <<input, vec, wpc, held>>,
         Unmerged' \subseteq Unmerged,
         x.type \in {"bubble", "merge", "exit"}, WithinArray(x), Ready(x)
  PROVE  SortedInv'
<1>1. \A k \in DOMAIN job_que' :
        \/ k \in DOMAIN job_que /\ job_que'[k] = job_que[k]
        \/ job_que'[k] = x
  BY AppendEntries
<1>2. \A j : Ready(j)' <=> Ready(j)
  BY DEF Ready, SectionSorted
<1>3. \A j : WithinArray(j)' <=> WithinArray(j)
  BY DEF WithinArray
<1>4. \A l, r : SectionSorted(vec, l, r)' <=> SectionSorted(vec, l, r)
  BY DEF SectionSorted
<1>5. SameContents(input, vec)' <=> SameContents(input, vec)
  BY DEF SameContents
<1> QED BY <1>1, <1>2, <1>3, <1>4, <1>5 DEF SortedInv

\* Nothing that SortedInv is about has changed, or some of it has gone.
LEMMA SortedUnchanged ==
  ASSUME SortedInv, UNCHANGED <<input, vec, held, job_que>>,
         \A w \in Workers : wpc'[w] \in {"run", "complete"} => wpc'[w] = wpc[w],
         Unmerged' \subseteq Unmerged
  PROVE  SortedInv'
<1>1. \A j : (Ready(j)' <=> Ready(j)) /\ (WithinArray(j)' <=> WithinArray(j))
  BY DEF Ready, SectionSorted, WithinArray
<1>2. \A l, r : SectionSorted(vec, l, r)' <=> SectionSorted(vec, l, r)
  BY DEF SectionSorted
<1>3. SameContents(input, vec)' <=> SameContents(input, vec)
  BY DEF SameContents
<1> QED BY <1>1, <1>2, <1>3 DEF SortedInv

\* Jobs whose halves are sorted, and those without halves, stay ready.
LEMMA ReadyKept ==
  ASSUME NEW j, NEW c \in Job, WithinArray(c), Apart(j, c), Ready(c),
         j.l \in Nat, j.r \in Nat,
         vec \in [Index -> Int], SortsSection(vec, vec', j.l, j.r)
  PROVE  Ready(c)'
<1> SUFFICES ASSUME c.type = "merge" PROVE Ready(c)'
  BY DEF Ready
<1>1. /\ c.l <= c.mid /\ c.mid <= c.r /\ c.l \in Int /\ c.mid \in Int /\ c.r \in Int
      /\ SectionSorted(vec, c.l, c.mid) /\ SectionSorted(vec, c.mid, c.r)
      /\ c.l <= c.l /\ c.r <= c.r
  BY DEF WithinArray, Ready, Job
<1>2. SectionSorted(vec, c.l, c.mid)' /\ SectionSorted(vec, c.mid, c.r)'
  BY <1>1, SectionKept
<1> QED BY <1>2 DEF Ready

LEMMA SortedNext ==
  ASSUME TypeOK, ControlInv, SeparateInv, SortedInv, [Next]_vars
  PROVE  SortedInv'
<1> USE DEF mainVars, queueVars, compVars, dispVars, workerVars
<1>0. /\ job_que \in Seq(Job) /\ next \in 0..NSections
      /\ completed_jobs \subseteq Job /\ unscanned \subseteq Unmerged
      /\ Unmerged \subseteq Job
      /\ held \in [Workers -> Job]
      /\ wpc \in [Workers -> {"absent", "idle", "fetch", "run", "complete",
                              "post", "repost", "exited"}]
  BY DEF TypeOK, ControlInv, Unmerged
<1>1. CASE MainPush
  <2>1. next \in 0..(NSections - 1)
    BY <1>0, <1>1, SizeAssumption DEF MainPush, ControlInv
  <2>2. /\ Bubble(next) \in Job /\ Bubble(next).type = "bubble"
        /\ WithinArray(Bubble(next)) /\ Ready(Bubble(next))
    BY <2>1, SectionBounds, JobTypes DEF Bubble, WithinArray, Ready
  <2>3. /\ job_que' = Append(job_que, Bubble(next))
        /\ UNCHANGED <<input, vec, wpc, held>> /\ Unmerged' = Unmerged
    BY <1>1 DEF MainPush, Unmerged
  <2> QED BY <1>0, <2>2, <2>3, SortedAppend
<1>2. CASE MainNextRound
  <2>1. /\ DOMAIN job_que' = {} /\ Unmerged' = {} /\ vec' = input /\ input' = input
        /\ \A w \in Workers : wpc'[w] \in {"idle", "absent"}
    BY <1>2 DEF MainNextRound, Created, Unmerged
  <2>2. SameContents(input, vec)'
    BY <2>1, ContentsSame
  <2> QED BY <2>1, <2>2 DEF SortedInv
<1>3. CASE DispatchPushExit
  <2>1. /\ ExitJob \in Job /\ ExitJob.type = "exit"
        /\ WithinArray(ExitJob) /\ Ready(ExitJob)
    BY JobTypes, SizeAssumption DEF ExitJob, WithinArray, Ready
  <2>2. /\ job_que' = Append(job_que, ExitJob)
        /\ UNCHANGED <<input, vec, wpc, held>> /\ Unmerged' = Unmerged
    BY <1>3 DEF DispatchPushExit, Unmerged
  <2> QED BY <1>0, <2>1, <2>2, SortedAppend
<1>4. CASE DispatchScan
  <2>0. UNCHANGED <<input, vec, wpc, held, completed_jobs>>
    BY <1>4 DEF DispatchScan
  <2>1. ASSUME NEW a \in unscanned, NEW b \in unscanned, ScanMerge(a, b)
        PROVE  SortedInv'
    <3>1. /\ a \in Job /\ b \in Job /\ a.r = b.l
          /\ WithinArray(a) /\ SectionSorted(vec, a.l, a.r)
          /\ WithinArray(b) /\ SectionSorted(vec, b.l, b.r)
      BY <1>0, <2>1 DEF ScanMerge, Mergeable, TestsBuddy, SortedInv
    <3>2. /\ Merge(a, b) \in Job /\ Merge(a, b).type = "merge"
          /\ WithinArray(Merge(a, b)) /\ Ready(Merge(a, b))
      BY <3>1, JobTypes DEF Merge, WithinArray, Ready, Job
    <3>3. /\ job_que' = Append(job_que, Merge(a, b))
          /\ Unmerged' \subseteq Unmerged
      BY <2>0, <2>1 DEF ScanMerge, Unmerged
    <3> QED BY <1>0, <2>0, <3>2, <3>3, SortedAppend
  <2>2. ASSUME UNCHANGED <<done, job_que>> PROVE SortedInv'
    BY <2>0, <2>2, SortedUnchanged DEF Unmerged
  <2> QED BY <1>4, <2>1, <2>2, ScanCases DEF ScanPass
<1>5. ASSUME NEW w \in Workers, WorkerFetch(w) PROVE SortedInv'
  <2>1. /\ UNCHANGED <<input, vec>> /\ Unmerged' = Unmerged /\ job_que # <<>>
    BY <1>5 DEF WorkerFetch, Unmerged
  <2>2. /\ 1 \in DOMAIN job_que /\ Head(job_que) = job_que[1]
        /\ \A k \in DOMAIN Tail(job_que) :
             k + 1 \in DOMAIN job_que /\ Tail(job_que)[k] = job_que[k + 1]
    BY <1>0, <2>1, TailEntries
  <2>3. /\ \A j : (Ready(j)' <=> Ready(j)) /\ (WithinArray(j)' <=> WithinArray(j))
        /\ \A l, r : SectionSorted(vec, l, r)' <=> SectionSorted(vec, l, r)
        /\ SameContents(input, vec)' <=> SameContents(input, vec)
    BY <2>1 DEF Ready, SectionSorted, WithinArray, SameContents
  <2>4. CASE Head(job_que).type = "exit"
    <3>1. UNCHANGED <<job_que, held>> /\ wpc' = [wpc EXCEPT ![w] = "repost"]
      BY <1>5, <2>4 DEF WorkerFetch
    <3> QED BY <1>0, <2>1, <3>1, SortedUnchanged
  <2>5. CASE Head(job_que).type # "exit"
    <3>1. /\ wpc' = [wpc EXCEPT ![w] = "run"] /\ job_que' = Tail(job_que)
          /\ held' = [held EXCEPT ![w] = job_que[1]]
      BY <1>5, <2>2, <2>5 DEF WorkerFetch
    <3>2. /\ job_que[1].type \in {"bubble", "merge"}
          /\ WithinArray(job_que[1]) /\ Ready(job_que[1])
      BY <2>2, <2>5 DEF SortedInv
    <3>3. ASSUME NEW v \in Workers
          PROVE  \/ v = w /\ wpc'[v] = "run" /\ held'[v] = job_que[1]
                 \/ wpc'[v] = wpc[v] /\ held'[v] = held[v]
      BY <1>0, <3>1
    <3> QED BY <2>1, <2>2, <2>3, <3>1, <3>2, <3>3 DEF SortedInv
  <2> QED BY <2>4, <2>5
<1>6. ASSUME NEW w \in Workers, WorkerRun(w) PROVE SortedInv'
  <2> DEFINE j == held[w]
  <2>1. /\ wpc[w] = "run" /\ wpc' = [wpc EXCEPT ![w] = "complete"]
        /\ vec' = IF j.type = "bubble" THEN BubbleSort(vec, j.l, j.r)
                                       ELSE MergeSeg(vec, j.l, j.mid, j.r)
        /\ UNCHANGED <<input, job_que, held>> /\ Unmerged' = Unmerged
    BY <1>6 DEF WorkerRun, Unmerged
  <2>2. /\ j \in Job /\ j.type \in {"bubble", "merge"}
        /\ WithinArray(j) /\ Ready(j) /\ j.l \in Nat /\ j.r \in Nat
        /\ vec \in [Index -> Int] /\ input \in [Index -> Int]
    BY <1>0, <2>1 DEF SortedInv, Job
  <2>3. vec' \in [Index -> Int] /\ SortsSection(vec, vec', j.l, j.r)
    <3> HIDE DEF j
    <3> QED BY <2>1, <2>2, WorkSorts
  <2>4. SameContents(input, vec)'
    <3>1. SameContents(input, vec) /\ SameContents(vec, vec')
      BY <2>3 DEF SortedInv, SortsSection
    <3>2. DOMAIN input = Index /\ DOMAIN vec = Index /\ DOMAIN vec' = Index
      BY <2>2, <2>3
    <3>3. SameContents(input, vec')
      BY <3>1, <3>2, IndexFinite, ContentsTwice
    <3> QED BY <2>1, <3>3
  <2>5. \A c : WithinArray(c)' <=> WithinArray(c)
    BY DEF WithinArray
  <2>6. \A c \in Job : WithinArray(c) /\ Ready(c) /\ Apart(j, c) => Ready(c)'
    <3> HIDE DEF j
    <3> QED BY <2>2, <2>3, ReadyKept
  <2>7. ASSUME NEW c \in Job, WithinArray(c), Apart(j, c), SectionSorted(vec, c.l, c.r)
        PROVE  SectionSorted(vec, c.l, c.r)'
    <3>1. c.l \in Int /\ c.r \in Int /\ c.l <= c.l /\ c.r <= c.r
      BY DEF Job
    <3> HIDE DEF j
    <3> QED BY <2>2, <2>3, <2>7, <3>1, SectionKept
  <2>8. ASSUME NEW k \in DOMAIN job_que' PROVE Ready(job_que[k])'
    <3>1. PICK c \in Job : c = job_que[k] /\ c = job_que'[k]
      BY <1>0, <2>1
    <3>2. WithinArray(c) /\ Ready(c) /\ Apart(j, c)
      BY <2>1, <3>1, ApartSymmetric DEF SortedInv, SeparateInv
    <3>3. Ready(c)'
      <4> HIDE DEF j
      <4> QED BY <2>6, <3>2
    <3> QED BY <3>1, <3>3
  <2>9. ASSUME NEW v \in Workers
        PROVE  /\ wpc'[v] = "run" => /\ held[v].type \in {"bubble", "merge"}
                                     /\ WithinArray(held[v]) /\ Ready(held[v])'
               /\ wpc'[v] = "complete" => /\ WithinArray(held[v])
                                          /\ SectionSorted(vec', held[v].l, held[v].r)
    <3>1. PICK c \in Job : c = held[v] /\ c = held'[v]
      BY <1>0, <2>1
    <3>2. CASE v = w
      <4>1. wpc'[v] = "complete" /\ c = j
        BY <1>0, <2>1, <3>1, <3>2
      <4> QED BY <2>2, <2>3, <3>1, <4>1 DEF SortsSection
    <3>3. CASE v # w
      <4>1. wpc'[v] = wpc[v] /\ Apart(j, c)
        BY <1>0, <2>1, <3>1, <3>3 DEF SeparateInv
      <4>2. CASE wpc[v] = "run"
        <5>1. WithinArray(c) /\ Ready(c) /\ c.type \in {"bubble", "merge"}
          BY <3>1, <4>2 DEF SortedInv
        <5>2. Ready(c)'
          <6> HIDE DEF j
          <6> QED BY <2>6, <4>1, <5>1
        <5> QED BY <3>1, <4>1, <4>2, <5>1, <5>2
      <4>3. CASE wpc[v] = "complete"
        <5>1. WithinArray(c) /\ SectionSorted(vec, c.l, c.r)
          BY <3>1, <4>3 DEF SortedInv
        <5>2. SectionSorted(vec, c.l, c.r)'
          <6> HIDE DEF j
          <6> QED BY <2>7, <4>1, <5>1
        <5> QED BY <3>1, <4>1, <4>3, <5>1, <5>2 DEF SectionSorted
      <4> QED BY <4>1, <4>2, <4>3
    <3> QED BY <3>2, <3>3
  <2>10. ASSUME NEW c \in Unmerged'
         PROVE  WithinArray(c) /\ SectionSorted(vec, c.l, c.r)'
    <3>1. c \in Job /\ WithinArray(c) /\ SectionSorted(vec, c.l, c.r) /\ Apart(j, c)
      BY <1>0, <2>1 DEF SortedInv, SeparateInv
    <3> HIDE DEF j
    <3> QED BY <2>7, <3>1
  <2> HIDE DEF j
  <2> QED BY <2>1, <2>2, <2>3, <2>4, <2>5, <2>8, <2>9, <2>10
          DEF SortedInv, SectionSorted
<1>7. ASSUME NEW w \in Workers, WorkerComplete(w) PROVE SortedInv'
  <2>1. /\ wpc[w] = "complete" /\ wpc' = [wpc EXCEPT ![w] = "post"]
        /\ held' = [held EXCEPT ![w] = NoJob]
        /\ Unmerged' \subseteq Unmerged \cup {held[w]}
        /\ UNCHANGED <<input, vec, job_que>>
    BY <1>7 DEF WorkerComplete, Unmerged
  <2>2. /\ \A j : (Ready(j)' <=> Ready(j)) /\ (WithinArray(j)' <=> WithinArray(j))
        /\ \A l, r : SectionSorted(vec, l, r)' <=> SectionSorted(vec, l, r)
        /\ SameContents(input, vec)' <=> SameContents(input, vec)
    BY <2>1 DEF Ready, SectionSorted, WithinArray, SameContents
  <2>3. WithinArray(held[w]) /\ SectionSorted(vec, held[w].l, held[w].r)
    BY <2>1 DEF SortedInv
  <2>4. ASSUME NEW v \in Workers
        PROVE  \/ wpc'[v] \notin {"run", "complete"}
               \/ wpc'[v] = wpc[v] /\ held'[v] = held[v]
    BY <1>0, <2>1
  <2> QED BY <2>1, <2>2, <2>3, <2>4 DEF SortedInv
<1>8. ASSUME NEW w \in Workers, WorkerWait(w) \/ WorkerPost(w) \/ WorkerRepost(w)
      PROVE  SortedInv'
  <2>1. /\ UNCHANGED <<input, vec, held, job_que>> /\ Unmerged' = Unmerged
        /\ \E s \in {"fetch", "idle", "exited"} : wpc' = [wpc EXCEPT ![w] = s]
    BY <1>8 DEF WorkerWait, WorkerPost, WorkerRepost, Unmerged
  <2> QED BY <1>0, <2>1, SortedUnchanged
<1>9. CASE \/ MainPost \/ MainJoin \/ DispatchCheckJobs \/ DispatchCheckQue
           \/ DispatchPostExit \/ DispatchWait \/ DispatchLock \/ DispatchPostMerge
           \/ DispatchErase \/ UNCHANGED vars
  <2>1. UNCHANGED <<input, vec, held, job_que, wpc>> /\ Unmerged' \subseteq Unmerged
    BY <1>9 DEF MainPost, MainJoin, DispatchCheckJobs, DispatchCheckQue,
       DispatchPostExit, DispatchWait, DispatchLock, DispatchPostMerge,
       DispatchErase, vars, Unmerged
  <2> QED BY <2>1, SortedUnchanged
<1> QED BY <1>1, <1>2, <1>3, <1>4, <1>5, <1>6, <1>7, <1>8, <1>9, StepCases

\* However the threads interleave: a completed section is sorted and stays so
\* until it is merged, a merge job meets two sorted halves, and the array
\* holds the numbers read from the file.
THEOREM AlwaysSorted == Spec => []SectionsSorted
<1>1. TypeOK /\ ControlInv /\ SeparateInv /\ SortedInv /\ [Next]_vars => SortedInv'
  BY SortedNext
<1>2. SortedInv => SectionsSorted
  BY DEF SortedInv, SectionsSorted, Open, Ready
<1> QED BY <1>1, <1>2, SortedInit, TypeCorrect, Separated, PTL DEF Spec
---------------------------------------------------------------------------
(* The refinement of SortService.                                          *)

LEMMA RoundInit == Init => RoundInv
BY DegreeAssumption DEF Init, RoundInv, InRound, Created, Workers

LEMMA RoundNext ==
  ASSUME TypeOK, ControlInv, SortedInv, RoundInv, [Next]_vars
  PROVE  RoundInv'
<1> USE DEF mainVars, queueVars, compVars, dispVars, workerVars
<1>0. /\ pd \in Nat /\ FirstDegree \in Nat /\ LastDegree \in Nat
      /\ pd \in FirstDegree..LastDegree
      /\ 1..pd \subseteq Workers
      /\ vec \in [Index -> Int] /\ outputs \in Seq([Index -> Int])
      /\ wpc \in [Workers -> {"absent", "idle", "fetch", "run", "complete",
                              "post", "repost", "exited"}]
  BY DegreeAssumption DEF TypeOK, SortedInv, RoundInv, Workers
<1>1. CASE MainPush \/ MainPost
  BY <1>1 DEF MainPush, MainPost, RoundInv, InRound
<1>2. CASE MainJoin
  <2>1. /\ InRound /\ ~InRound' /\ disp' = "exited" /\ pd' = pd
        /\ \A w \in 1..pd : wpc'[w] = "exited"
        /\ UNCHANGED <<wpc, completed_jobs, disp>>
        /\ outputs' = Append(outputs, vec)
    BY <1>2 DEF MainJoin, InRound
  <2>2. outputs' \in Seq([Index -> Int]) /\ Len(outputs') = Len(outputs) + 1
    BY <1>0, <2>1
  <2> QED BY <1>0, <2>1, <2>2 DEF RoundInv
<1>3. CASE MainNextRound
  <2>1. /\ ~InRound /\ InRound' /\ pd' = pd + 1 /\ disp' = "check"
        /\ wpc' = Created(pd + 1) /\ outputs' = outputs
    BY <1>3 DEF MainNextRound, InRound
  <2>2. \A w \in Workers : w > pd' => wpc'[w] = "absent"
    BY <1>0, <2>1 DEF Created, Workers
  <2>3. Len(outputs) \in Nat
    BY <1>0
  <2> QED BY <1>0, <2>1, <2>2, <2>3 DEF RoundInv
<1>4. CASE \/ DispatchCheckJobs \/ DispatchCheckQue \/ DispatchPushExit
           \/ DispatchPostExit \/ DispatchWait \/ DispatchLock
           \/ DispatchScan \/ DispatchPostMerge \/ DispatchErase
  <2>1. UNCHANGED <<mainVars, wpc>> /\ disp # "exited"
    BY <1>4 DEF DispatchCheckJobs, DispatchCheckQue, DispatchPushExit,
       DispatchPostExit, DispatchWait, DispatchLock, DispatchScan,
       DispatchPostMerge, DispatchErase
  <2>2. InRound /\ InRound'
    BY <2>1 DEF RoundInv, InRound
  <2>3. CASE DispatchCheckJobs
    BY <2>1, <2>2, <2>3 DEF DispatchCheckJobs, RoundInv
  <2>4. CASE DispatchCheckQue \/ DispatchPushExit \/ DispatchPostExit
    BY <2>1, <2>2, <2>4
       DEF DispatchCheckQue, DispatchPushExit, DispatchPostExit, RoundInv
  <2>5. CASE DispatchWait \/ DispatchLock \/ DispatchPostMerge \/ DispatchErase
    BY <2>1, <2>2, <2>5
       DEF DispatchWait, DispatchLock, DispatchPostMerge, DispatchErase, RoundInv
  <2>6. CASE DispatchScan
    <3>1. disp' \in {"crashed", "scan", "scan_post"}
      BY <2>6, ScanCases DEF DispatchScan, ScanMerge, ScanPass
    <3> QED BY <2>1, <2>2, <3>1 DEF RoundInv
  <2> QED BY <1>4, <2>3, <2>4, <2>5, <2>6
<1>5. ASSUME NEW w \in Workers,
             \/ WorkerWait(w) \/ WorkerFetch(w) \/ WorkerRun(w)
             \/ WorkerComplete(w) \/ WorkerPost(w) \/ WorkerRepost(w)
      PROVE  RoundInv'
  <2>1. /\ UNCHANGED <<mainVars, disp>> /\ completed_jobs \subseteq completed_jobs'
        /\ wpc[w] \notin {"absent", "exited"}
        /\ \A v \in Workers : v # w => wpc'[v] = wpc[v]
    BY <1>0, <1>5 DEF WorkerWait, WorkerFetch, WorkerRun, WorkerComplete,
       WorkerPost, WorkerRepost
  <2>2. w \in 1..pd
    BY <1>0, <2>1 DEF RoundInv, Workers
  <2>3. InRound /\ InRound'
    BY <2>1, <2>2 DEF RoundInv, InRound
  <2>4. \A v \in Workers : v > pd => wpc'[v] = "absent"
    BY <1>0, <2>1, <2>2 DEF RoundInv
  <2> QED BY <2>1, <2>3, <2>4 DEF RoundInv
<1>6. CASE UNCHANGED vars
  BY <1>6 DEF vars, RoundInv, InRound
<1> QED BY <1>1, <1>2, <1>3, <1>4, <1>5, <1>6, StepCases

\* Each round writes one file, and the dispatcher stops over a completed job
\* for the whole array only.
THEOREM RoundsRight == Spec => []RoundInv
<1>1. TypeOK /\ ControlInv /\ SortedInv /\ RoundInv /\ [Next]_vars => RoundInv'
  BY RoundNext
<1>2. TypeOK /\ ControlInv /\ SeparateInv /\ SortedInv /\ [Next]_vars => SortedInv'
  BY SortedNext
<1> QED BY <1>1, <1>2, RoundInit, SortedInit, TypeCorrect, Separated, PTL DEF Spec

\* The service's words for a sorted section are those of the program.
LEMMA SameWords ==
  /\ \A v, l, r : SectionSorted(v, l, r) <=> Service!SectionSorted(v, l, r)
  /\ \A u, v, l, r : SortsSection(u, v, l, r) <=> Service!SortsSection(u, v, l, r)
<1>1. \A S : Service!Cardinality(S) = Cardinality(S)
  BY DEF Cardinality, Service!Cardinality
<1>2. \A u, v : SameContents(u, v) <=> Service!SameContents(u, v)
  BY <1>1 DEF SameContents, Service!SameContents
<1>3. \A v, l, r : SectionSorted(v, l, r) <=> Service!SectionSorted(v, l, r)
  BY DEF SectionSorted, Service!SectionSorted
<1> QED BY <1>2, <1>3 DEF SortsSection, Service!SortsSection

\* Every step of a thread is a step of the service or leaves it alone.
LEMMA StepImplements ==
  ASSUME TypeOK, ControlInv, SortedInv, RoundInv, [Next]_vars
  PROVE  [Service!Next]_(Service!vars)
<1> USE DEF mainVars, queueVars, compVars, dispVars, workerVars
<1>1. CASE MainJoin
  <2>1. /\ InRound /\ ~InRound' /\ disp = "exited" /\ outputs' = Append(outputs, vec)
        /\ UNCHANGED <<input, vec>>
    BY <1>1 DEF MainJoin, InRound
  <2>2. PICK j \in completed_jobs : j.l = 0 /\ j.r = N
    BY <2>1 DEF RoundInv
  <2>3. j \in Unmerged
    BY <2>1, <2>2 DEF ControlInv, Unmerged
  <2>4. SectionSorted(vec, 0, N)
    BY <2>2, <2>3 DEF SortedInv
  <2> QED BY <2>1, <2>4, SameWords DEF Service!Next, Service!Write, InRound
<1>2. CASE MainNextRound
  <2>1. ~InRound /\ InRound' /\ vec' = input /\ UNCHANGED <<input, outputs>> /\ main = "next"
    BY <1>2 DEF MainNextRound, InRound
  <2>2. Len(outputs) < LastDegree - FirstDegree + 1
    BY <2>1, DegreeAssumption DEF RoundInv, ControlInv, TypeOK
  <2> QED BY <2>1, <2>2 DEF Service!Next, Service!Again, InRound
<1>3. ASSUME NEW w \in Workers, WorkerRun(w) PROVE Service!SortOne
  <2> DEFINE j == held[w]
  <2>1. /\ wpc[w] = "run"
        /\ vec' = IF j.type = "bubble" THEN BubbleSort(vec, j.l, j.r)
                                       ELSE MergeSeg(vec, j.l, j.mid, j.r)
        /\ UNCHANGED <<input, outputs, main>>
    BY <1>3 DEF WorkerRun
  <2>2. /\ j \in Job /\ j.type \in {"bubble", "merge"}
        /\ WithinArray(j) /\ Ready(j)
        /\ vec \in [Index -> Int]
    BY <2>1 DEF SortedInv, TypeOK
  <2>3. SortsSection(vec, vec', j.l, j.r)
    <3> HIDE DEF j
    <3> QED BY <2>1, <2>2, WorkSorts
  <2>4. j.l \in 0..N /\ j.r \in 0..N
    <3> HIDE DEF j
    <3> QED BY <2>2, SizeAssumption DEF WithinArray, Job
  <2>5. InRound
    BY <2>1 DEF RoundInv, Workers, TypeOK
  <2> HIDE DEF j
  <2> QED BY <2>1, <2>3, <2>4, <2>5, SameWords DEF Service!SortOne, InRound
<1>4. CASE UNCHANGED <<input, vec, outputs>> /\ InRound' = InRound
  BY <1>4 DEF Service!vars, InRound
<1>5. CASE \/ MainPush \/ MainPost
           \/ DispatchCheckJobs \/ DispatchCheckQue \/ DispatchPushExit
           \/ DispatchPostExit \/ DispatchWait \/ DispatchLock
           \/ DispatchScan \/ DispatchPostMerge \/ DispatchErase
           \/ \E w \in Workers : \/ WorkerWait(w) \/ WorkerFetch(w)
                                 \/ WorkerComplete(w) \/ WorkerPost(w)
                                 \/ WorkerRepost(w)
           \/ UNCHANGED vars
  <2>1. UNCHANGED <<input, vec, outputs>> /\ InRound' = InRound
    BY <1>5 DEF MainPush, MainPost, DispatchCheckJobs, DispatchCheckQue,
       DispatchPushExit, DispatchPostExit, DispatchWait, DispatchLock,
       DispatchScan, DispatchPostMerge, DispatchErase, WorkerWait,
       WorkerFetch, WorkerComplete, WorkerPost, WorkerRepost, vars, InRound
  <2> QED BY <1>4, <2>1
<1> QED BY <1>1, <1>2, <1>3, <1>5, StepCases DEF Service!Next

\* The thread pool implements the sorting service, however its threads
\* interleave and however the array is cut: every change of the array sorts
\* one section of it, and every file written holds the sorted array.
THEOREM Refines == Spec => ImplementsService
<1>1. Init => Service!Init
  BY DEF Init, Service!Init
<1>2. TypeOK /\ ControlInv /\ SortedInv /\ RoundInv /\ [Next]_vars
        => [Service!Next]_(Service!vars)
  BY StepImplements
<1>3. TypeOK /\ ControlInv /\ SeparateInv /\ SortedInv /\ [Next]_vars => SortedInv'
  BY SortedNext
<1> QED BY <1>1, <1>2, <1>3, RoundsRight, SortedInit, TypeCorrect, Separated,
           PTL DEF Spec, ImplementsService, Service!Spec
=============================================================================
