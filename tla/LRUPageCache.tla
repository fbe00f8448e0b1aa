---------------------------- MODULE LRUPageCache ----------------------------
(***************************************************************************)
(* HW5: the LRU cache, one doubly linked list from the most (head) to the  *)
(* least (tail) recently used page.                                        *)
(***************************************************************************)
EXTENDS PageTable

LRUNew(frames) ==
  [nodes |-> [a \in 0..(frames - 1) |-> NoPage],
   free_list |-> [k \in 1..frames |-> k - 1],
   buckets |-> EmptyTable(frames),
   head |-> NULL, tail |-> NULL, hit |-> 0, miss |-> 0, write_back |-> 0]

\* The node becomes the first of the list.
ToMRU(c, a) ==
  LET linked == [SetPrev(c, c.head, a)
                   EXCEPT !.nodes[a].next = c.head, !.nodes[a].prev = NULL]
  IN [linked EXCEPT !.head = a]

\* Mutant: a page that is hit stays where it is.
LRUHitStays(c, a, is_write) ==
  [c EXCEPT !.hit = @ + 1, !.nodes[a].dirty = @ \/ is_write]

LRUHit(c, a, is_write) ==
  LET counted  == [c EXCEPT !.hit = @ + 1, !.nodes[a].dirty = @ \/ is_write]
      page     == c.nodes[a]
      unlinked == SetPrev(SetNext(counted, page.prev, page.next), page.next, page.prev)
  IN IF a = c.head THEN counted
     ELSE ToMRU([unlinked EXCEPT !.tail = IF a = @ THEN page.prev ELSE @], a)

\* The tail is evicted, and written back when it is dirty.
LRUEvict(c) ==
  LET victim  == c.tail
      prev    == c.nodes[victim].prev
      counted == [c EXCEPT !.write_back = @ + IF c.nodes[victim].dirty THEN 1 ELSE 0]
      removed == remove(counted, victim)
  IN IF prev # NULL
     THEN [removed EXCEPT !.tail = prev, !.nodes[prev].next = NULL]
     ELSE [removed EXCEPT !.head = NULL, !.tail = NULL]

LRUMiss(c, page, is_write) ==
  LET free  == FreeNode(c)
      a     == IF free # NULL THEN free ELSE c.tail
      ready == IF free # NULL THEN [c EXCEPT !.free_list = SubSeq(@, 1, Len(@) - 1)]
                              ELSE LRUEvict(c)
      first == ToMRU(Initialize([ready EXCEPT !.miss = @ + 1], a, page, is_write), a)
  IN put([first EXCEPT !.tail = IF @ = NULL THEN a ELSE @], a)

\* access_page
LRUAccess(c, page, is_write) ==
  LET a == get(c, page)
  IN IF a # NULL THEN LRUHit(c, a, is_write) ELSE LRUMiss(c, page, is_write)
=============================================================================
