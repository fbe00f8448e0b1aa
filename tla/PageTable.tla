----------------------------- MODULE PageTable -----------------------------
(***************************************************************************)
(* HW5: what the two page caches share: PageMeta nodes from a pool, chained *)
(* into lists by prev and next and into the buckets of SimpleHashTable by   *)
(* hash_next.  A cache is a record; of it these operators use the fields    *)
(* nodes (the pool, by index), buckets and free_list.                       *)
(***************************************************************************)
EXTENDS Integers, Sequences, FiniteSetsExt

NULL == -1

NoPage == [page_number |-> 0, dirty |-> FALSE, list_type |-> "NONE",
           prev |-> NULL, next |-> NULL, hash_next |-> NULL]

---------------------------------------------------------------------------
(* PageMeta.                                                               *)

\* a->next = v and a->prev = v, for a that may be NULL (the code tests it
\* before it assigns).
SetNext(c, a, v) == IF a = NULL THEN c ELSE [c EXCEPT !.nodes[a].next = v]
SetPrev(c, a, v) == IF a = NULL THEN c ELSE [c EXCEPT !.nodes[a].prev = v]

\* initialize: the list_type stays.
Initialize(c, a, page, dirty) ==
  [c EXCEPT !.nodes[a] = [NoPage EXCEPT !.page_number = page, !.dirty = dirty,
                                        !.list_type = c.nodes[a].list_type]]

\* The nodes of a list from a on, and their pages.
Nodes(c, a) ==
  LET from[b \in DOMAIN c.nodes \cup {NULL}] ==
        IF b = NULL THEN <<>> ELSE <<b>> \o from[c.nodes[b].next]
  IN from[a]
Pages(c, a) == LET list == Nodes(c, a)
               IN [k \in DOMAIN list |-> c.nodes[list[k]].page_number]

\* The last free node, if there is one.
FreeNode(c) == IF c.free_list = <<>> THEN NULL ELSE c.free_list[Len(c.free_list)]

---------------------------------------------------------------------------
(* SimpleHashTable.                                                        *)

\* The size is doubled until it is at least twice the number of frames,
\* which takes no more rounds than that.
TableSize(frames) ==
  LET size[k \in 0..(2 * frames)] ==
        IF k = 0 THEN 1
        ELSE LET s == size[k - 1] IN IF s < 2 * frames THEN 2 * s ELSE s
  IN size[2 * frames]

EmptyTable(frames) == [b \in 0..(TableSize(frames) - 1) |-> NULL]

\* key ^ (key >> 5), bit by bit from the lowest.
Folded(key) ==
  LET folded[k \in 0..key] ==
        IF k = 0 THEN 0 ELSE (2 * folded[k \div 2]) + ((k + (k \div 32)) % 2)
  IN folded[key]

\* The size is a power of two, so that masking is the remainder.
hash_func(c, key) == Folded(key) % Cardinality(DOMAIN c.buckets)

\* The nodes of bucket b, in order.
Chain(c, b) ==
  LET from[a \in DOMAIN c.nodes \cup {NULL}] ==
        IF a = NULL THEN <<>> ELSE <<a>> \o from[c.nodes[a].hash_next]
  IN from[c.buckets[b]]

\* The first node of its bucket that has the page.
get(c, page) ==
  LET chain == Chain(c, hash_func(c, page))
      found == {k \in DOMAIN chain : c.nodes[chain[k]].page_number = page}
  IN IF found = {} THEN NULL ELSE chain[Min(found)]

\* Inserts in front of the bucket.
put(c, a) ==
  LET b == hash_func(c, c.nodes[a].page_number)
  IN [c EXCEPT !.nodes[a].hash_next = c.buckets[b], !.buckets[b] = a]

\* Mutant: the bucket is emptied when its first node goes.
RemoveBucket(c, a) ==
  LET b     == hash_func(c, c.nodes[a].page_number)
      chain == Chain(c, b)
  IN IF chain # <<>> /\ chain[1] = a THEN [c EXCEPT !.buckets[b] = NULL]
     ELSE [c EXCEPT !.nodes = [n \in DOMAIN c.nodes |->
             IF n \in {chain[k] : k \in DOMAIN chain} /\ c.nodes[n].hash_next = a
             THEN [c.nodes[n] EXCEPT !.hash_next = c.nodes[a].hash_next]
             ELSE c.nodes[n]]]

\* Takes the node out of its bucket; its own hash_next stays.
remove(c, a) ==
  LET b     == hash_func(c, c.nodes[a].page_number)
      chain == Chain(c, b)
  IN IF chain # <<>> /\ chain[1] = a
     THEN [c EXCEPT !.buckets[b] = c.nodes[a].hash_next]
     ELSE [c EXCEPT !.nodes = [n \in DOMAIN c.nodes |->
             IF n \in {chain[k] : k \in DOMAIN chain} /\ c.nodes[n].hash_next = a
             THEN [c.nodes[n] EXCEPT !.hash_next = c.nodes[a].hash_next]
             ELSE c.nodes[n]]]
=============================================================================
