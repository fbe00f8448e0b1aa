---------------------------- MODULE SortService ----------------------------
(***************************************************************************)
(* What HW3 promises, without threads, jobs or semaphores: in each of      *)
(* Rounds rounds the array starts as it was read, is only ever changed by  *)
(* sorting one section of it in place, and is written out when the whole   *)
(* of it is sorted.                                                        *)
(***************************************************************************)
EXTENDS SortOps

CONSTANTS N, Rounds, Inputs

VARIABLES input, vec, outputs, open

vars == <<input, vec, outputs, open>>

Init ==
  /\ input \in Inputs
  /\ vec = input
  /\ outputs = <<>>
  /\ open = TRUE

\* One section is sorted in place, the rest of the array is left alone.
SortOne ==
  /\ open
  /\ \E l, r \in 0..N : SortsSection(vec, vec', l, r)
  /\ UNCHANGED <<input, outputs, open>>

\* The round's result is written: the sorted array, once per round.
Write ==
  /\ open
  /\ SectionSorted(vec, 0, N)
  /\ outputs' = Append(outputs, vec)
  /\ open' = FALSE
  /\ UNCHANGED <<input, vec>>

\* The next round starts from the input again.
Again ==
  /\ ~open
  /\ Len(outputs) < Rounds
  /\ vec' = input
  /\ open' = TRUE
  /\ UNCHANGED <<input, outputs>>

Next == SortOne \/ Write \/ Again

Spec == Init /\ [][Next]_vars
=============================================================================
