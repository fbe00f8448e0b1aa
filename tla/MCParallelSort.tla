--------------------------- MODULE MCParallelSort ---------------------------
(***************************************************************************)
(* Instances of ParallelSort for TLC, and what its workers' two algorithms *)
(* promise of every section a job could name.                              *)
(***************************************************************************)
EXTENDS ParallelSortInv

\* The numbers in descending order: every section has work to do.
MCOneInput == { [i \in 0..(N - 1) |-> N - i] }

---------------------------------------------------------------------------
\* Arrays with equal numbers, in any order.
Size   == 5
Arrays == [0..(Size - 1) -> 0..2]

\* bubble_sort sorts [l, r) and nothing else, for empty sections too.
BubbleSorts(v) ==
  \A l \in 0..Size : \A r \in l..Size : SortsSection(v, BubbleSort(v, l, r), l, r)

\* merge_seg turns two sorted halves, either of which may be empty, into one
\* sorted section and touches nothing else.
MergeSorts(v) ==
  \A l \in 0..Size : \A mid \in l..Size : \A r \in mid..Size :
    SectionSorted(v, l, mid) /\ SectionSorted(v, mid, r)
      => SortsSection(v, MergeSeg(v, l, mid, r), l, r)

\* The file has just been read.
Starting == pd = FirstDegree /\ main = "push" /\ next = 0

\* Whatever the array and the job, both algorithms of the workers leave their
\* section sorted, with the numbers it had, and the rest of the array alone.
JobsSort == Starting => \A v \in Arrays : BubbleSorts(v) /\ MergeSorts(v)
=============================================================================
