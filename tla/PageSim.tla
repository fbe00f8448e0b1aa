------------------------------ MODULE PageSim ------------------------------
(***************************************************************************)
(* HW5: the simulator runs one trace through LRU and CFLRU caches of       *)
(* several sizes.  The simulations share nothing but the trace, so that    *)
(* running them side by side, one access at a time, gives the counters     *)
(* that running them one after the other gives.                            *)
(***************************************************************************)
EXTENDS Recency, LRUPageCache, CFLRUPageCache

CONSTANTS
  Addresses,     \* the byte addresses of the trace
  SmallFrames, LargeFrames,  \* two frame sizes, or one twice
  WorkingCap,    \* working_cap of the CFLRU cache (LargeFrames * 3 / 4)
  MaxAccesses    \* bound: length of the trace

ASSUME FramesAssumption ==
  /\ SmallFrames \in Nat \ {0}
  /\ LargeFrames \in Nat
  /\ SmallFrames <= LargeFrames
  /\ WorkingCap \in 0..(LargeFrames - 1)
ASSUME AddressAssumption == Addresses \subseteq Nat
ASSUME TraceAssumption == MaxAccesses \in Nat

VARIABLES
  trace,         \* the item that the caches were given last, <<>> before any
  small, large,  \* the LRU caches of both sizes
  cflru,         \* the CFLRU cache
  recent         \* the pages of the trace so far, last used first

vars == <<trace, small, large, cflru, recent>>

Init ==
  /\ trace = <<>>
  /\ small = LRUNew(SmallFrames)
  /\ large = LRUNew(LargeFrames)
  /\ cflru = CFLRUNew(LargeFrames, WorkingCap)
  /\ recent = <<>>

\* What load_trace_file makes of a line: pages have 4096 bytes, every
\* operation but W is a read.
TraceItem(op, addr) == [is_write |-> op = "W", page |-> addr \div 4096]
PageNumbers == {TraceItem("R", addr).page : addr \in Addresses}

\* The next line of the trace goes through every cache.
Access(op, addr) ==
  LET item == TraceItem(op, addr)
  IN /\ large.hit + large.miss < MaxAccesses
     /\ trace' = item
     /\ small' = LRUAccess(small, item.page, item.is_write)
     /\ large' = LRUAccess(large, item.page, item.is_write)
     /\ cflru' = CFLRUAccess(cflru, item.page, item.is_write)
     /\ recent' = Used(recent, item.page)

Next == \E op \in {"R", "W"}, addr \in Addresses : Access(op, addr)

Spec == Init /\ [][Next]_vars

---------------------------------------------------------------------------
(* What the caches promise.                                                *)

\* The nodes the hash table finds, and their pages.
Held(c) == UNION {{Chain(c, b)[k] : k \in DOMAIN Chain(c, b)} : b \in DOMAIN c.buckets}
CachedPages(c) == {c.nodes[a].page_number : a \in Held(c)}
DirtyPages(c)  == {c.nodes[a].page_number : a \in {b \in Held(c) : c.nodes[b].dirty}}

\* LRU: the linked list, the hash table and the counters amount to a list of
\* pages from which the least recently used is evicted.
LRU == INSTANCE PageReplacement
  WITH Frames <- LargeFrames, Region <- 1, request <- trace,
       stack <- Pages(large, large.head), dirty <- DirtyPages(large),
       hits <- large.hit, misses <- large.miss, write_backs <- large.write_back
LRUReplaces == LRU!Spec

\* CFLRU: although pages wander between three lists and no list keeps clean
\* and dirty pages in one order, a miss evicts the least recently used clean
\* page of the clean-first region, and the least recently used page of all
\* when it has none.
CFLRU == INSTANCE PageReplacement
  WITH Frames <- LargeFrames, Region <- LargeFrames - WorkingCap, request <- trace,
       stack <- Among(recent, CachedPages(cflru)),
       dirty <- DirtyPages(cflru),
       hits <- cflru.hit, misses <- cflru.miss, write_backs <- cflru.write_back
CFLRUReplaces == CFLRU!Spec

\* More frames never hurt LRU: what the smaller cache holds the larger one
\* holds, so that on the same trace it hits at least as often and writes
\* back at most as often.
Inclusion ==
  /\ CachedPages(small) \subseteq CachedPages(large)
  /\ small.hit <= large.hit
  /\ small.write_back >= large.write_back
=============================================================================
