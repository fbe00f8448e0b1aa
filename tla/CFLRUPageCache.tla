--------------------------- MODULE CFLRUPageCache ---------------------------
(***************************************************************************)
(* HW5: the clean-first LRU cache.  Pages enter a working list of          *)
(* working_cap pages; what falls off its end goes to a list of clean or to *)
(* a list of dirty pages, from which pages are evicted, clean ones first.  *)
(***************************************************************************)
EXTENDS PageTable

\* working_cap is frames * 3 / 4 in the code.
CFLRUNew(frames, working_cap) ==
  [nodes |-> [a \in 0..(frames - 1) |-> NoPage],
   free_list |-> [k \in 1..frames |-> k - 1],
   buckets |-> EmptyTable(frames),
   working_cap |-> working_cap, working_size |-> 0,
   head |-> [WORKING |-> NULL, CLEAN |-> NULL, DIRTY |-> NULL],
   tail |-> [WORKING |-> NULL, CLEAN |-> NULL, DIRTY |-> NULL],
   hit |-> 0, miss |-> 0, write_back |-> 0]

\* Mutant: the tail of the list is not moved.
RemoveKeepsTail(c, a) ==
  LET node     == c.nodes[a]
      type     == node.list_type
      unlinked == SetPrev(SetNext(c, node.prev, node.next), node.next, node.prev)
  IN IF type = "NONE" THEN unlinked
     ELSE [unlinked EXCEPT
             !.head[type] = IF a = @ THEN node.next ELSE @,
             !.working_size = IF type = "WORKING" THEN @ - 1 ELSE @,
             !.nodes[a].list_type = "NONE"]

remove_from_list(c, a) ==
  LET node     == c.nodes[a]
      type     == node.list_type
      unlinked == SetPrev(SetNext(c, node.prev, node.next), node.next, node.prev)
  IN IF type = "NONE" THEN unlinked
     ELSE [unlinked EXCEPT
             !.head[type] = IF a = @ THEN node.next ELSE @,
             !.tail[type] = IF a = @ THEN node.prev ELSE @,
             !.working_size = IF type = "WORKING" THEN @ - 1 ELSE @,
             !.nodes[a].list_type = "NONE"]

\* In front of the list of that type.
add_to_list(c, a, type) ==
  LET linked == SetPrev(c, c.head[type], a)
  IN [linked EXCEPT
        !.nodes[a].next = c.head[type], !.nodes[a].prev = NULL,
        !.nodes[a].list_type = type,
        !.head[type] = a,
        !.tail[type] = IF @ = NULL THEN a ELSE @,
        !.working_size = IF type = "WORKING" THEN @ + 1 ELSE @]

\* The least recently used working page goes to the clean-first region.
move_to_CFlist(c) ==
  LET a == c.tail.WORKING
  IN IF a = NULL THEN c
     ELSE add_to_list(remove_from_list(c, a), a,
                      IF c.nodes[a].dirty THEN "DIRTY" ELSE "CLEAN")

Migrate(c) == IF c.working_size > c.working_cap THEN move_to_CFlist(c) ELSE c

CFLRUHit(c, a, is_write) ==
  LET counted == [c EXCEPT !.hit = @ + 1, !.nodes[a].dirty = @ \/ is_write]
  IN IF a = c.head.WORKING THEN counted
     ELSE Migrate(add_to_list(remove_from_list(counted, a), a, "WORKING"))

\* The least recently used clean page of the region, else the dirty one.
Victim(c) == IF c.tail.CLEAN # NULL THEN c.tail.CLEAN ELSE c.tail.DIRTY

CFLRUEvict(c) ==
  LET counted == [c EXCEPT !.write_back = @ + IF c.nodes[Victim(c)].dirty THEN 1 ELSE 0]
  IN remove_from_list(remove(counted, Victim(c)), Victim(c))

CFLRUMiss(c, page, is_write) ==
  LET free  == FreeNode(c)
      a     == IF free # NULL THEN free ELSE Victim(c)
      ready == IF free # NULL THEN [c EXCEPT !.free_list = SubSeq(@, 1, Len(@) - 1)]
                              ELSE CFLRUEvict(c)
      new   == Initialize([ready EXCEPT !.miss = @ + 1], a, page, is_write)
  IN Migrate(put(add_to_list(new, a, "WORKING"), a))

\* access_page
CFLRUAccess(c, page, is_write) ==
  LET a == get(c, page)
  IN IF a # NULL THEN CFLRUHit(c, a, is_write) ELSE CFLRUMiss(c, page, is_write)
=============================================================================
