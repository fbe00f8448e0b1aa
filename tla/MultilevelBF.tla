---------------------------- MODULE MultilevelBF ----------------------------
(***************************************************************************)
(* HW4: malloc and free over one pool of memory, with a free list per      *)
(* power-of-two level threaded through the headers of the free chunks.     *)
(* The pool is modelled as it lies in memory: an address is a 32-byte unit *)
(* of the pool, and mem says what was last written there, a chunk header,  *)
(* zeros, or data of the caller.  Headers swallowed by a merge stay behind *)
(* in mem as they do in the program.  Chunk sizes are in units, requests   *)
(* in bytes.                                                               *)
(***************************************************************************)
EXTENDS Integers, Sequences, FiniteSets, FiniteSetsExt

CONSTANTS
  PoolUnits,   \* POOL_SIZE / 32 (625 in the code)
  NUM_LEVELS,  \* number of free lists (11 in the code)
  SizeMod,     \* 2^width of size_t (2^64 in a 64-bit build)
  Requests     \* the sizes callers pass to malloc

ASSUME PoolAssumption   == PoolUnits \in Nat /\ PoolUnits >= 2
ASSUME LevelAssumption  == NUM_LEVELS \in Nat /\ NUM_LEVELS >= 2
ASSUME WidthAssumption  == SizeMod \in Nat /\ SizeMod > 32 * PoolUnits
ASSUME RequestAssumption == Requests \subseteq 0..(SizeMod - 1)

ALLOC_SIZE_UNIT == 32  \* also HEADER_SIZE

VARIABLES
  pool_start,  \* whether the pool is mapped (pool_start # NULL)
  mem,         \* the units of the pool
  free_lists,  \* the head of each level's list, or NULL
  live,        \* the chunks callers hold, with the bytes they asked for
  report,      \* the size last printed for malloc(0)
  crashed      \* the process died on a NULL pointer

vars == <<pool_start, mem, free_lists, live, report, crashed>>

Addr   == 0..(PoolUnits - 1)
NULL   == -1
Levels == 0..(NUM_LEVELS - 1)

Zeros    == [chunk_size |-> 0, is_free |-> 0, next |-> NULL, prev |-> NULL]

\* The caller's own bytes: read as a header they look like a free chunk.
UserData == [chunk_size |-> 1, is_free |-> 1, next |-> NULL, prev |-> NULL,
             user_data |-> TRUE]

\* The allocator's memory as one value, for the helpers that rewrite it.
Heap == [mem |-> mem, lists |-> free_lists]

---------------------------------------------------------------------------
(* Levels and free lists.                                                  *)

\* The number of shifts until no bit is left; the last level takes the rest.
compute_level(size) ==
  LET size_levels[i \in Levels] == IF i = 0 THEN size ELSE size_levels[i - 1] \div 2
  IN Min({i \in Levels : size_levels[i] = 0} \cup {NUM_LEVELS - 1})

\* Level l's list from head to tail.
List(h, l) ==
  LET from[a \in Addr \cup {NULL}] ==
        IF a = NULL THEN <<>> ELSE <<a>> \o from[h.mem[a].next]
  IN from[h.lists[l]]

\* Appends the chunk at c, whose chunk_size was just set to size, to the end
\* of its level's list.
add_to_free_list(h, c, size) ==
  LET level  == compute_level(size)
      list   == List(h, level)
      tail   == IF list = <<>> THEN NULL ELSE list[Len(list)]
      header == [chunk_size |-> size, is_free |-> 1, next |-> NULL, prev |-> tail]
  IN IF tail = NULL
     THEN [mem   |-> [h.mem EXCEPT ![c] = header],
           lists |-> [h.lists EXCEPT ![level] = c]]
     ELSE [h EXCEPT !.mem = [@ EXCEPT ![c] = header, ![tail].next = c]]

\* Mutant: the back link of the chunk behind the removed one stays stale.
remove_without_back_link(h, c) ==
  LET header == h.mem[c]
      level  == compute_level(header.chunk_size)
      unlink(a) ==
        CASE a = c           -> [header EXCEPT !.next = NULL, !.prev = NULL, !.is_free = 0]
          [] a = header.prev -> [h.mem[a] EXCEPT !.next = header.next]
          [] OTHER           -> h.mem[a]
  IN [mem   |-> [a \in Addr |-> unlink(a)],
      lists |-> IF header.prev = NULL
                THEN [h.lists EXCEPT ![level] = header.next] ELSE h.lists]

\* Unlinks the chunk at c; level is used only when c is its list's head.
remove_from_free_list(h, c) ==
  LET header == h.mem[c]
      level  == compute_level(header.chunk_size)
      unlink(a) ==
        CASE a = c           -> [header EXCEPT !.next = NULL, !.prev = NULL, !.is_free = 0]
          [] a = header.prev -> [h.mem[a] EXCEPT !.next = header.next]
          [] a = header.next -> [h.mem[a] EXCEPT !.prev = header.prev]
          [] OTHER           -> h.mem[a]
  IN [mem   |-> [a \in Addr |-> unlink(a)],
      lists |-> IF header.prev = NULL
                THEN [h.lists EXCEPT ![level] = header.next] ELSE h.lists]

Unmapped == [mem |-> [a \in Addr |-> Zeros], lists |-> [l \in Levels |-> NULL]]

\* Mutant: the initial chunk's own header is not subtracted.
init_pool_whole == add_to_free_list(Unmapped, 0, PoolUnits)

\* mmap gives zeroed pages, which become one free chunk; all lists are
\* cleared first.
init_pool == add_to_free_list(Unmapped, 0, PoolUnits - 1)

\* The heap malloc works on: a pool is mapped when there is none.
Pool == IF pool_start THEN Heap ELSE init_pool

---------------------------------------------------------------------------
(* malloc.                                                                 *)

\* Mutant: the division rounds down.
round_down_32(size) == IF size < 32 THEN 1 ELSE size \div ALLOC_SIZE_UNIT

\* round_up_32, in units: the addition wraps.
round_up_32(size) ==
  IF size = 0 THEN 1 ELSE ((size + 31) % SizeMod) \div ALLOC_SIZE_UNIT

SizeAt(h, a) == h.mem[a].chunk_size

\* The biggest chunk of the highest level that has one.
find_the_biggest_free_chunk(h) ==
  LET levels == {l \in Levels : h.lists[l] # NULL}
      list   == List(h, Max(levels))
      sizes  == {SizeAt(h, list[k]) : k \in DOMAIN list}
  IN IF levels = {} THEN NULL
     ELSE list[Min({k \in DOMAIN list : SizeAt(h, list[k]) = Max(sizes)})]

\* Mutant: <= instead of < keeps the last of several equal chunks.
last_best_fit_chunk(h, size) ==
  LET fits(l) == {k \in DOMAIN List(h, l) : SizeAt(h, List(h, l)[k]) >= size}
      levels  == {l \in compute_level(size)..(NUM_LEVELS - 1) : fits(l) # {}}
      level   == Min(levels)
      list    == List(h, level)
      best    == Min({SizeAt(h, list[k]) : k \in fits(level)})
  IN IF levels = {} THEN NULL
     ELSE list[Max({k \in fits(level) : SizeAt(h, list[k]) = best})]

\* The first of the smallest sufficient chunks in the lowest level, from the
\* request's own level on, that has a sufficient one.
best_fit_chunk(h, size) ==
  LET fits(l) == {k \in DOMAIN List(h, l) : SizeAt(h, List(h, l)[k]) >= size}
      levels  == {l \in compute_level(size)..(NUM_LEVELS - 1) : fits(l) # {}}
      level   == Min(levels)
      list    == List(h, level)
      best    == Min({SizeAt(h, list[k]) : k \in fits(level)})
  IN IF levels = {} THEN NULL
     ELSE list[Min({k \in fits(level) : SizeAt(h, list[k]) = best})]

\* Mutant: the rest starts one header too early.
split_over_data(h, c, size) ==
  LET taken     == remove_from_free_list(h, c)
      remaining == SizeAt(h, c) - size
      shrunk    == [taken EXCEPT !.mem[c].chunk_size = size]
  IN IF remaining >= 2
     THEN add_to_free_list(shrunk, c + size, remaining - 1)
     ELSE taken

\* The chunk leaves its list and what it has beyond size is split off when
\* that leaves room for a header and a unit of data.
split(h, c, size) ==
  LET taken     == remove_from_free_list(h, c)
      remaining == SizeAt(h, c) - size
      shrunk    == [taken EXCEPT !.mem[c].chunk_size = size]
  IN IF remaining >= 2
     THEN add_to_free_list(shrunk, c + 1 + size, remaining - 1)
     ELSE taken

\* The caller writes all over the data of the chunk at c.
Written(h, c) ==
  [a \in Addr |-> IF a \in (c + 1)..(c + SizeAt(h, c)) THEN UserData ELSE h.mem[a]]

Install(h) == mem' = h.mem /\ free_lists' = h.lists

\* malloc(size) for an ordinary size.
Malloc(size) ==
  /\ ~crashed
  /\ size # 0 /\ size # SizeMod - 1
  /\ pool_start' = TRUE
  /\ LET units == round_up_32(size)
         c     == best_fit_chunk(Pool, units)
     IN IF c = NULL
        THEN Install(Pool) /\ live' = live
        ELSE LET h == split(Pool, c, units)
             IN /\ mem' = Written(h, c) /\ free_lists' = h.lists
                /\ live' = live \cup {[at |-> c, bytes |-> size]}
  /\ UNCHANGED <<report, crashed>>

\* malloc(0) prints the size of the biggest free chunk, whose address is not
\* tested, and unmaps the pool.  free_lists keeps pointing into it.
MallocZero ==
  /\ ~crashed
  /\ 0 \in Requests
  /\ LET biggest == find_the_biggest_free_chunk(Pool)
     IN IF biggest = NULL
        THEN /\ crashed' = TRUE
             /\ UNCHANGED <<pool_start, mem, free_lists, live, report>>
        ELSE /\ report' = SizeAt(Pool, biggest)
             /\ pool_start' = FALSE
             /\ mem' = Unmapped.mem /\ free_lists' = Pool.lists
             /\ live' = {}
             /\ UNCHANGED crashed

\* malloc(-1) only prints, but maps the pool first like any other call.
MallocDebug ==
  /\ ~crashed
  /\ SizeMod - 1 \in Requests
  /\ pool_start' = TRUE
  /\ Install(Pool)
  /\ UNCHANGED <<live, report, crashed>>

---------------------------------------------------------------------------
(* free.                                                                   *)

After(h, a) == a + 1 + SizeAt(h, a)

\* The chunks a walk over the pool from its start meets, and where it ends.
Walked(h) ==
  LET from[a \in 0..(2 * PoolUnits)] ==
        IF a >= PoolUnits THEN {a} ELSE {a} \cup from[After(h, a)]
  IN from[0]

\* The chunk that ends where c starts, found by walking the pool up to c.
prev_chunk_in_mem(h, c) ==
  LET before == {a \in Walked(h) : a < c /\ After(h, a) = c}
  IN IF before = {} THEN NULL ELSE CHOOSE a \in before : TRUE

\* The chunk behind c, unless c is the last of the pool.
next_chunk_in_mem(h, c) == IF After(h, c) >= PoolUnits THEN NULL ELSE After(h, c)

IsFree(h, a) == a # NULL /\ h.mem[a].is_free = 1

\* Mutant: a chunk is joined with the one behind it only.
coalesce_forward(h, c) ==
  LET next == next_chunk_in_mem(h, c)
      h1   == IF IsFree(h, next) THEN remove_from_free_list(h, next) ELSE h
      s1   == SizeAt(h, c) + (IF IsFree(h, next) THEN 1 + SizeAt(h, next) ELSE 0)
  IN add_to_free_list(h1, c, s1)

\* c with the free chunk behind it, then with the one before it; the merged
\* chunk goes to the end of the list of its new size.
coalesce(h, c) ==
  LET next == next_chunk_in_mem(h, c)
      prev == prev_chunk_in_mem(h, c)
      h1   == IF IsFree(h, next) THEN remove_from_free_list(h, next) ELSE h
      s1   == SizeAt(h, c) + (IF IsFree(h, next) THEN 1 + SizeAt(h, next) ELSE 0)
      h2   == IF IsFree(h, prev) THEN remove_from_free_list(h1, prev) ELSE h1
      own  == [h2 EXCEPT !.mem[c].chunk_size = s1, !.mem[c].is_free = 1]
  IN IF IsFree(h, prev)
     THEN add_to_free_list(own, prev, SizeAt(h, prev) + 1 + s1)
     ELSE add_to_free_list(own, c, s1)

\* A caller gives a chunk back, once.
Free(b) ==
  /\ ~crashed
  /\ pool_start
  /\ Install(coalesce(Heap, b.at))
  /\ live' = live \ {b}
  /\ UNCHANGED <<pool_start, report, crashed>>

---------------------------------------------------------------------------
Init ==
  /\ pool_start = FALSE
  /\ mem = Unmapped.mem /\ free_lists = Unmapped.lists
  /\ live = {} /\ report = 0 /\ crashed = FALSE

Next ==
  \/ \E size \in Requests : Malloc(size)
  \/ MallocZero
  \/ MallocDebug
  \/ \E b \in live : Free(b)
  \/ crashed /\ UNCHANGED vars

Spec == Init /\ [][Next]_vars

---------------------------------------------------------------------------
(* What the allocator promises.                                            *)

Header == [chunk_size : 0..(PoolUnits - 1), is_free : {0, 1},
           next : Addr \cup {NULL}, prev : Addr \cup {NULL}]

TypeOK ==
  /\ pool_start \in BOOLEAN /\ crashed \in BOOLEAN
  /\ mem \in [Addr -> Header \cup {UserData}]
  /\ free_lists \in [Levels -> Addr \cup {NULL}]
  /\ live \subseteq [at : Addr, bytes : Requests]
  /\ report \in 0..(PoolUnits - 1)

\* The chunks tile the pool, headers are never lost or overwritten, the
\* callers hold exactly the chunks that are not free, and two free chunks
\* never lie side by side: memory comes back whole.
ChunksTile ==
  pool_start =>
    LET starts == Walked(Heap) \ {PoolUnits}
    IN /\ PoolUnits \in Walked(Heap)
       /\ \A a \in starts : mem[a] # UserData
       /\ {b.at : b \in live} = {a \in starts : ~IsFree(Heap, a)}
       /\ \A b, c \in live : b.at = c.at => b = c
       /\ \A a \in starts : IsFree(Heap, a) =>
            After(Heap, a) = PoolUnits \/ ~IsFree(Heap, After(Heap, a))

\* Every free chunk is in the list of its level exactly once, nothing else
\* is in any list, and the back links mirror the forward links.
ListsExact ==
  pool_start =>
    \A l \in Levels :
      LET list == List(Heap, l)
      IN /\ {list[k] : k \in DOMAIN list}
              = {a \in Walked(Heap) \ {PoolUnits} :
                   IsFree(Heap, a) /\ compute_level(SizeAt(Heap, a)) = l}
         /\ \A j, k \in DOMAIN list : j # k => list[j] # list[k]
         /\ \A k \in DOMAIN list :
              mem[list[k]].prev = IF k = 1 THEN NULL ELSE list[k - 1]

\* The allocator never writes into data a caller owns.
UserDataIntact ==
  \A b \in live : \A a \in (b.at + 1)..(b.at + SizeAt(Heap, b.at)) : mem[a] = UserData

\* A caller gets the bytes it asked for, and at most one unit more than
\* rounding up to 32 bytes takes.
RequestServed ==
  \A b \in live :
    LET bytes == ALLOC_SIZE_UNIT * SizeAt(Heap, b.at)
    IN b.bytes <= bytes /\ bytes < b.bytes + 2 * ALLOC_SIZE_UNIT

\* "On malloc(0): print the size of the largest free chunk": the end of the
\* test is always reported.
EndIsReported == ~crashed

\* The chunks in the lists, and what comes before what in its list.
Listed(h)    == UNION {{List(h, l)[k] : k \in DOMAIN List(h, l)} : l \in Levels}
Before(list) == UNION {{<<list[j], list[k]>> : j \in 1..(k - 1)} : k \in DOMAIN list}
Older(h)     == UNION {Before(List(h, l)) : l \in Levels}
OlderPeers(h) == {p \in Older(h) : SizeAt(h, p[1]) = SizeAt(h, p[2])}

ChunkAt(h, a) == [at |-> a, len |-> SizeAt(h, a)]
FreeChunks(h) == {ChunkAt(h, a) : a \in Listed(h)}
Seniority(h)  == {<<ChunkAt(h, p[1]), ChunkAt(h, p[2])>> : p \in OlderPeers(h)}

\* Lists, levels and links amount to one best-fit allocator with immediate
\* coalescing, first come first served among equal chunks.
Abstract == INSTANCE BestFit
  WITH mapped <- pool_start,
       used   <- {ChunkAt(Heap, b.at) : b \in live},
       free   <- IF pool_start THEN FreeChunks(Heap) ELSE {},
       older  <- IF pool_start THEN Seniority(Heap) ELSE {}

ImplementsBestFit == Abstract!Spec
=============================================================================
