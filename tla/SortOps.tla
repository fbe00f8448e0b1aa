------------------------------ MODULE SortOps ------------------------------
(***************************************************************************)
(* The two sequential algorithms a worker thread of HW3 runs on the shared *)
(* array: bubble_sort on a bottom-level section and merge_seg on two       *)
(* adjacent sorted sections.  An array is a function on a range of indices *)
(* and a section is a half-open range [l, r), as in the code.              *)
(***************************************************************************)
EXTENDS Integers, Sequences, FiniteSets

\* The two neighbours j - 1 and j are swapped when they are out of order.
Compare(u, j) ==
  IF u[j] < u[j - 1] THEN [u EXCEPT ![j] = u[j - 1], ![j - 1] = u[j]] ELSE u

\* The inner loop of bubble_sort: the neighbours of l..hi, left to right.
Sweep(v, l, hi) ==
  LET s[j \in l..hi] == IF j = l THEN v ELSE Compare(s[j - 1], j)
  IN s[hi]

\* Mutant: the outer loop stops one sweep early.
BubbleSortOneSweepLess(v, l, r) ==
  LET pass[i \in (l - 1)..(r - 3)] ==
        IF i < l THEN v ELSE Sweep(pass[i - 1], l, r - 1 - (i - l))
  IN IF r - l < 3 THEN v ELSE pass[r - 3]

\* bubble_sort(l, r): the sweep of round i ends at r - 1 - (i - l).
BubbleSort(v, l, r) ==
  LET pass[i \in (l - 1)..(r - 2)] ==
        IF i < l THEN v ELSE Sweep(pass[i - 1], l, r - 1 - (i - l))
  IN IF r - l < 2 THEN v ELSE pass[r - 2]

\* Mutant: the greater number first.
TakesLeftFlipped(v, mid, r, i, j) == j = r \/ (i < mid /\ v[i] >= v[j])

\* What the three loops of merge_seg append next, with i in the left and j in
\* the right half: the left number if it is not greater, and what remains of
\* one half once the other is used up.
TakesLeft(v, mid, r, i, j) == j = r \/ (i < mid /\ v[i] <= v[j])

\* merge_seg(l, mid, r): i[k] is where the left half stands when the number
\* for vec[k] is chosen; as many numbers have been appended as there are in
\* l..k-1, so that the right half stands at mid + k - i[k].  Then tmp_vec is
\* copied back over [l, r).
MergeSeg(v, l, mid, r) ==
  LET Left(a, k) == TakesLeft(v, mid, r, a, mid + k - a)
      i[k \in l..r] ==
        IF k = l THEN l
        ELSE IF Left(i[k - 1], k - 1) THEN i[k - 1] + 1 ELSE i[k - 1]
  IN [k \in DOMAIN v |->
        IF k \in l..(r - 1)
        THEN IF Left(i[k], k) THEN v[i[k]] ELSE v[mid + k - i[k]]
        ELSE v[k]]

---------------------------------------------------------------------------
\* Reference notions, independent of the algorithms.

\* The section [l, r) of v is in ascending order.
SectionSorted(v, l, r) == \A i, j \in l..(r - 1) : i < j => v[i] <= v[j]

\* v and w hold the same values, each as often.
SameContents(v, w) ==
  /\ DOMAIN v = DOMAIN w
  /\ \A x \in {v[i] : i \in DOMAIN v} :
       Cardinality({i \in DOMAIN v : v[i] = x})
         = Cardinality({i \in DOMAIN w : w[i] = x})

\* w is v with its section [l, r) sorted and everything else left alone.
SortsSection(v, w, l, r) ==
  /\ SameContents(v, w)
  /\ SectionSorted(w, l, r)
  /\ \A k \in DOMAIN v : k \notin l..(r - 1) => w[k] = v[k]
=============================================================================
