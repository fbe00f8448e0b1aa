--------------------------- MODULE PageReplacement ---------------------------
(***************************************************************************)
(* What the page caches of HW5 promise, without nodes, links or a hash     *)
(* table: one list of at most Frames pages, the most recently used first,  *)
(* and a set of dirty pages among them.  The last Region pages of a full   *)
(* list are the clean-first region: the least recently used clean page in  *)
(* it is evicted, and the last of all when none is clean.  With Region = 1 *)
(* that is LRU.                                                            *)
(***************************************************************************)
EXTENDS Recency

CONSTANTS
  PageNumbers,  \* the pages of the trace
  Frames,       \* pages the cache holds
  Region        \* size of the clean-first region

VARIABLES
  request,  \* the last item of the trace, <<>> before the first
  stack, dirty, hits, misses, write_backs

vars == <<request, stack, dirty, hits, misses, write_backs>>

Init ==
  /\ request = <<>>
  /\ stack = <<>> /\ dirty = {}
  /\ hits = 0 /\ misses = 0 /\ write_backs = 0

\* A page is dirty once it was written.
Mark(d, page, is_write) == IF is_write THEN d \cup {page} ELSE d

Hit(page, is_write) ==
  /\ hits' = hits + 1
  /\ UNCHANGED <<misses, write_backs>>
  /\ page \in Elements(stack)
  /\ stack' = Used(stack, page)
  /\ dirty' = Mark(dirty, page, is_write)

Fill(page, is_write) ==
  /\ misses' = misses + 1
  /\ UNCHANGED <<hits, write_backs>>
  /\ page \notin Elements(stack)
  /\ Len(stack) < Frames
  /\ stack' = <<page>> \o stack
  /\ dirty' = Mark(dirty, page, is_write)

\* The page a full cache s with dirty pages d gives up.
Victim(s, d) ==
  LET clean == {k \in (Frames - Region + 1)..Frames : s[k] \notin d}
      last  == CHOOSE k \in clean : \A m \in clean : m <= k
  IN IF clean = {} THEN s[Frames] ELSE s[last]

Replace(page, is_write) ==
  /\ misses' = misses + 1
  /\ UNCHANGED hits
  /\ page \notin Elements(stack)
  /\ Len(stack) = Frames
  /\ LET victim == Victim(stack, dirty)
     IN /\ stack' = <<page>> \o Without(stack, victim)
        /\ dirty' = Mark(dirty \ {victim}, page, is_write)
        /\ write_backs' = write_backs + IF victim \in dirty THEN 1 ELSE 0

Next ==
  \E page \in PageNumbers, is_write \in BOOLEAN :
    /\ request' = [is_write |-> is_write, page |-> page]
    /\ Hit(page, is_write) \/ Fill(page, is_write) \/ Replace(page, is_write)

Spec == Init /\ [][Next]_vars
=============================================================================
