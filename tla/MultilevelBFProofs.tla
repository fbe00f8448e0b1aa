------------------------ MODULE MultilevelBFProofs ------------------------
(***************************************************************************)
(* HW4's allocator, for pools of every size, any number of levels and any  *)
(* requests: the chunks always tile the pool, the lists are exact, and the *)
(* callers' data is never written to.                                      *)
(***************************************************************************)
EXTENDS MultilevelBF, Iteration

(* The heap invariant, in terms of the set B of the places where chunks    *)
(* begin (with the end of the pool) and the set F of the free chunks.      *)

HeapSet == [mem : [Addr -> Header \cup {UserData}], lists : [Levels -> Addr \cup {NULL}]]

\* The chunks lie one behind the other from the start of the pool to its end.
IsTiling(h, B) ==
  /\ B \subseteq 0..PoolUnits /\ 0 \in B /\ PoolUnits \in B
  /\ \A a \in B \ {PoolUnits} :
       /\ h.mem[a] \in Header
       /\ After(h, a) \in B
       /\ \A b \in B : ~(a < b /\ b < After(h, a))

LevelAt(h, a) == compute_level(SizeAt(h, a))

\* Forward and back links of the chunks of F are each other's mirror, stay
\* within a level and begin at its head; they lead upwards in some ranking.
LinkedBy(h, F, rank, M) ==
  /\ F \subseteq Addr
  /\ \A a \in F : h.mem[a] \in Header
  /\ \A a \in Addr : rank[a] <= M
  /\ \A a \in Addr \ F : h.mem[a].next = NULL
  /\ \A l \in Levels : h.lists[l] # NULL =>
       h.lists[l] \in F /\ LevelAt(h, h.lists[l]) = l /\ h.mem[h.lists[l]].prev = NULL
  /\ \A a \in F :
       /\ h.mem[a].prev = NULL => h.lists[LevelAt(h, a)] = a
       /\ h.mem[a].prev # NULL => h.mem[a].prev \in F /\ h.mem[h.mem[a].prev].next = a
       /\ h.mem[a].next # NULL =>
            /\ h.mem[a].next \in F /\ h.mem[h.mem[a].next].prev = a
            /\ LevelAt(h, h.mem[a].next) = LevelAt(h, a)
            /\ rank[h.mem[a].next] > rank[a]

IsLinked(h, F) == \E M \in Nat : \E rank \in [Addr -> Nat] : LinkedBy(h, F, rank, M)

---------------------------------------------------------------------------
(* Sizes, addresses and levels.                                            *)

LEMMA UserDataNoHeader == UserData \notin Header
<1> SUFFICES ASSUME UserData \in Header PROVE FALSE
  OBVIOUS
<1>1. DOMAIN UserData = {"chunk_size", "is_free", "next", "prev"}
  BY DEF Header
<1>2. "user_data" \in DOMAIN UserData
  BY DEF UserData
<1> QED BY <1>1, <1>2

\* What lies in memory has the fields of a header in their ranges.
LEMMA Fields ==
  ASSUME NEW h \in HeapSet, NEW a \in Addr
  PROVE  /\ SizeAt(h, a) \in 0..(PoolUnits - 1)
         /\ h.mem[a].is_free \in {0, 1}
         /\ h.mem[a].next \in Addr \cup {NULL}
         /\ h.mem[a].prev \in Addr \cup {NULL}
<1>1. h.mem[a] \in Header \cup {UserData}
  BY DEF HeapSet
<1>2. CASE h.mem[a] \in Header
  BY <1>2 DEF Header, SizeAt
<1>3. CASE h.mem[a] = UserData
  <2>1. 1 \in 0..(PoolUnits - 1)
    BY PoolAssumption
  <2> QED BY <1>3, <2>1 DEF UserData, SizeAt
<1> QED BY <1>1, <1>2, <1>3

LEMMA LevelInRange ==
  ASSUME NEW size
  PROVE  compute_level(size) \in Levels
<1> DEFINE f == CHOOSE f : f = [i \in Levels |-> IF i = 0 THEN size ELSE f[i - 1] \div 2]
           T == {i \in Levels : f[i] = 0} \cup {NUM_LEVELS - 1}
<1>1. T \subseteq Levels /\ T # {} /\ Levels \subseteq Nat
  BY LevelAssumption DEF Levels
<1>2. compute_level(size) = Min(T)
  BY DEF compute_level
<1> HIDE DEF T
<1> QED BY <1>1, <1>2, MinOf

---------------------------------------------------------------------------
(* Chunks one behind the other.                                            *)

\* Of two chunks the second begins where the first ends, or later.
LEMMA ChunksApart ==
  ASSUME NEW h \in HeapSet, NEW B, IsTiling(h, B),
         NEW a \in B \ {PoolUnits}, NEW b \in B, a < b
  PROVE  After(h, a) <= b
<1>1. a \in Addr /\ a \in Int /\ b \in Int
  BY PoolAssumption DEF IsTiling, Addr
<1>2. After(h, a) \in Int /\ ~(b < After(h, a))
  BY <1>1, Fields DEF IsTiling, After
<1> QED BY <1>1, <1>2

LEMMA TilingBounds ==
  ASSUME NEW h \in HeapSet, NEW B, IsTiling(h, B), NEW a \in B \ {PoolUnits}
  PROVE  /\ a \in Addr /\ After(h, a) \in B /\ a < After(h, a) /\ After(h, a) <= PoolUnits
         /\ After(h, a) = a + 1 + SizeAt(h, a) /\ SizeAt(h, a) \in 0..(PoolUnits - 1)
<1>1. a \in Addr /\ After(h, a) \in B /\ B \subseteq 0..PoolUnits
  <2>1. B \subseteq 0..PoolUnits /\ After(h, a) \in B
    BY DEF IsTiling
  <2>2. a \in 0..PoolUnits /\ a # PoolUnits
    BY <2>1
  <2> QED BY <2>1, <2>2, PoolAssumption DEF Addr
<1>2. SizeAt(h, a) \in 0..(PoolUnits - 1)
  BY <1>1, Fields
<1> QED BY <1>1, <1>2, PoolAssumption DEF After, Addr

\* A walk from the start of the pool meets all chunks and nothing else.
LEMMA WalkedIs ==
  ASSUME NEW h \in HeapSet, NEW B, IsTiling(h, B)
  PROVE  Walked(h) = B
<1> DEFINE D == 0..(2 * PoolUnits)
           E == {a \in D : a >= PoolUnits}
           S == SUBSET D
           nx == [a \in D |-> IF a >= PoolUnits THEN a ELSE After(h, a)]
           e == [a \in D |-> {a}]
           G == [q \in D \X S |-> {q[1]} \cup q[2]]
           rank == [a \in D |-> a]
           M == 2 * PoolUnits
           Walk(f) == f = [a \in D |-> IF a >= PoolUnits THEN {a} ELSE {a} \cup f[After(h, a)]]
<1>1. ASSUME NEW a \in D, ~(a >= PoolUnits) PROVE After(h, a) \in D /\ After(h, a) > a
  <2>1. a \in Addr /\ a \in Int
    BY <1>1, PoolAssumption DEF Addr
  <2>2. SizeAt(h, a) \in 0..(PoolUnits - 1)
    BY <2>1, Fields
  <2> QED BY <2>1, <2>2, <1>1, PoolAssumption DEF After
<1>2. PICK f \in [D -> S] : \A a \in D : f[a] = IF a \in E THEN e[a] ELSE G[<<a, f[nx[a]]>>]
  <2>1. nx \in [D -> D] /\ rank \in [D -> Nat] /\ e \in [D -> S] /\ G \in [D \X S -> S]
    BY <1>1, PoolAssumption
  <2>2. \A a \in D : rank[a] <= M
    BY PoolAssumption
  <2>3. \A a \in D : a \notin E => rank[nx[a]] > rank[a]
    BY <1>1
  <2>4. M \in Nat
    BY PoolAssumption
  <2> HIDE DEF D, E, S, nx, e, G, rank, M
  <2>5. IsPath(D, E, S, M, rank, nx, e, G)
    BY <2>1, <2>2, <2>3, <2>4 DEF IsPath
  <2> QED BY <2>5, PathFunction
<1>3. Walk(f)
  <2>1. ASSUME NEW a \in D
        PROVE  f[a] = IF a >= PoolUnits THEN {a} ELSE {a} \cup f[After(h, a)]
    <3>1. CASE a >= PoolUnits
      BY <1>2, <3>1
    <3>2. CASE ~(a >= PoolUnits)
      <4>1. nx[a] = After(h, a) /\ After(h, a) \in D /\ a \notin E
        BY <1>1, <3>2
      <4>2. f[After(h, a)] \in S
        BY <4>1
      <4>3. G[<<a, f[After(h, a)]>>] = {a} \cup f[After(h, a)]
        BY <4>2
      <4> QED BY <1>2, <3>2, <4>1, <4>3
    <3> QED BY <3>1, <3>2
  <2> HIDE DEF D, S
  <2> QED BY <2>1
<1> DEFINE w == CHOOSE g : Walk(g)
<1>4. Walk(w)
  BY <1>3, Zenon
<1>5. Walked(h) = w[0]
  BY DEF Walked
<1> HIDE DEF w
<1>6. \A a \in D : w[a] = IF a >= PoolUnits THEN {a} ELSE {a} \cup w[After(h, a)]
  BY <1>4
<1> DEFINE T == {m \in 0..PoolUnits :
                   \A a \in B : PoolUnits - m <= a => w[a] = {b \in B : a <= b}}
<1>7. 0 \in T
  <2>1. ASSUME NEW a \in B, PoolUnits - 0 <= a PROVE w[a] = {b \in B : a <= b}
    <3>1. a = PoolUnits /\ a \in D /\ a \in B
      BY <2>1, PoolAssumption DEF IsTiling
    <3>2. w[a] = {a}
      <4>1. a >= PoolUnits
        BY <3>1, PoolAssumption
      <4> HIDE DEF D
      <4> QED BY <1>6, <3>1, <4>1
    <3>3. ASSUME NEW b \in B, a <= b PROVE b = a
      BY <3>1, <3>3, PoolAssumption DEF IsTiling
    <3> QED BY <3>1, <3>2, <3>3, PoolAssumption
  <2> QED BY <2>1, PoolAssumption
<1>8. ASSUME NEW m \in 0..(PoolUnits - 1), m \in T PROVE m + 1 \in T
  <2>1. ASSUME NEW a \in B, PoolUnits - (m + 1) <= a PROVE w[a] = {b \in B : a <= b}
    <3>1. CASE PoolUnits - m <= a
      BY <1>8, <3>1
    <3>2. CASE ~(PoolUnits - m <= a)
      <4>1. a \in B \ {PoolUnits} /\ a \in D /\ ~(a >= PoolUnits)
        BY <3>2, PoolAssumption DEF IsTiling
      <4>2. /\ After(h, a) \in B /\ a < After(h, a) /\ After(h, a) \in Int
            /\ a \in Int /\ B \subseteq Int
        <5>1. B \subseteq 0..PoolUnits
          BY DEF IsTiling
        <5>2. B \subseteq Int
          BY <5>1, PoolAssumption
        <5>3. After(h, a) \in B /\ a < After(h, a)
          BY <4>1, TilingBounds
        <5> QED BY <4>1, <5>2, <5>3
      <4>3. w[After(h, a)] = {b \in B : After(h, a) <= b}
        <5>1. PoolUnits - m <= After(h, a)
          BY <2>1, <4>2, PoolAssumption
        <5> QED BY <1>8, <4>2, <5>1
      <4>4. w[a] = {a} \cup {b \in B : After(h, a) <= b}
        BY <1>6, <4>1, <4>3
      <4>5. ASSUME NEW b \in B PROVE (a <= b) <=> (b = a \/ After(h, a) <= b)
        <5>1. a < b => After(h, a) <= b
          BY <4>1, ChunksApart
        <5>2. b \in Int
          BY <4>2
        <5> QED BY <4>2, <5>1, <5>2
      <4> QED BY <4>1, <4>4, <4>5
    <3> QED BY <3>1, <3>2
  <2>2. m + 1 \in 0..PoolUnits
    BY PoolAssumption
  <2> QED BY <2>1, <2>2
<1>9. PoolUnits \in T
  <2>1. 0 \in Int /\ PoolUnits \in Int /\ PoolUnits \in 0..PoolUnits
    BY PoolAssumption
  <2> HIDE DEF T
  <2>2. 0..PoolUnits \subseteq T
    BY <1>7, <1>8, <2>1, IntervalInduction
  <2> QED BY <2>1, <2>2
<1>10. 0 \in B /\ B \subseteq 0..PoolUnits
  BY DEF IsTiling
<1>11. w[0] = {b \in B : 0 <= b}
  BY <1>9, <1>10, PoolAssumption
<1>12. \A b \in B : 0 <= b
  BY <1>10, PoolAssumption
<1> QED BY <1>5, <1>11, <1>12

\* The chunk in front of c is found if there is one.
LEMMA PrevChunkIs ==
  ASSUME NEW h \in HeapSet, NEW B, IsTiling(h, B), NEW c \in B \ {PoolUnits}
  PROVE  /\ prev_chunk_in_mem(h, c) # NULL =>
              /\ prev_chunk_in_mem(h, c) \in B \ {PoolUnits} /\ prev_chunk_in_mem(h, c) < c
              /\ After(h, prev_chunk_in_mem(h, c)) = c
         /\ \A a \in B \ {PoolUnits} : After(h, a) = c => a = prev_chunk_in_mem(h, c)
<1> DEFINE before == {a \in B : a < c /\ After(h, a) = c}
<1>1. prev_chunk_in_mem(h, c) = IF before = {} THEN NULL ELSE CHOOSE a \in before : TRUE
  <2>1. Walked(h) = B
    BY WalkedIs
  <2>2. prev_chunk_in_mem(h, c) =
          IF {a \in Walked(h) : a < c /\ After(h, a) = c} = {} THEN NULL
          ELSE CHOOSE a \in {a \in Walked(h) : a < c /\ After(h, a) = c} : TRUE
    BY DEF prev_chunk_in_mem
  <2> QED BY <2>1, <2>2
<1>2. \A a \in before : a \in B \ {PoolUnits}
  BY PoolAssumption DEF IsTiling
<1>3. ASSUME NEW a \in B \ {PoolUnits}, After(h, a) = c PROVE a \in before
  BY <1>3, TilingBounds
<1>4. ASSUME NEW a \in before, NEW b \in before PROVE a = b
  <2>1. a \in Int /\ b \in Int /\ c \in Int /\ a < c /\ b < c
    BY PoolAssumption DEF IsTiling
  <2>2. ~(a < b) /\ ~(b < a)
    BY <1>2, <2>1, ChunksApart
  <2> QED BY <2>1, <2>2
<1>5. before # {} => (CHOOSE a \in before : TRUE) \in before
  OBVIOUS
<1>6. prev_chunk_in_mem(h, c) # NULL => prev_chunk_in_mem(h, c) \in before
  BY <1>1, <1>5
<1>7. \A a \in before : a = prev_chunk_in_mem(h, c)
  <2> HIDE DEF before
  <2> QED BY <1>1, <1>4, <1>5
<1> QED BY <1>2, <1>3, <1>6, <1>7

---------------------------------------------------------------------------
(* The free lists.                                                         *)

\* list holds the free chunks of level l once each, in the order of their
\* back links.
ListIs(h, F, l, list) ==
  /\ list \in Seq(F)
  /\ {list[k] : k \in DOMAIN list} = {a \in F : LevelAt(h, a) = l}
  /\ \A j, k \in DOMAIN list : j # k => list[j] # list[k]
  /\ \A k \in DOMAIN list : h.mem[list[k]].prev = IF k = 1 THEN NULL ELSE list[k - 1]
  /\ list # <<>> => h.mem[list[Len(list)]].next = NULL

\* The recursion of List leads from a chunk to the next one.
LEMMA ListSteps ==
  ASSUME NEW h \in HeapSet, NEW F, NEW M \in Nat, NEW rank \in [Addr -> Nat],
         LinkedBy(h, F, rank, M)
  PROVE  \E f : /\ f[NULL] = <<>>
                /\ \A a \in Addr : f[a] = <<a>> \o f[h.mem[a].next]
                /\ \A l \in Levels : List(h, l) = f[h.lists[l]]
<1> DEFINE D == Addr \cup {NULL}
           E == {NULL}
           S == Seq(Addr)
           nx == [a \in D |-> IF a = NULL THEN NULL ELSE h.mem[a].next]
           e == [a \in D |-> <<>>]
           G == [q \in D \X S |-> IF q[1] = NULL THEN <<>> ELSE <<q[1]>> \o q[2]]
           rk == [a \in D |-> IF a = NULL THEN M + 1 ELSE rank[a]]
           Walk(f) == f = [a \in D |-> IF a = NULL THEN <<>> ELSE <<a>> \o f[h.mem[a].next]]
<1>1. NULL \notin Addr
  BY PoolAssumption DEF Addr, NULL
<1>2. nx \in [D -> D]
  BY Fields
<1>3. G \in [D \X S -> S]
  OBVIOUS
<1>4. rk \in [D -> Nat] /\ \A a \in D : rk[a] <= M + 1
  <2>1. \A a \in Addr : rank[a] \in Nat /\ rank[a] <= M
    BY DEF LinkedBy
  <2> QED BY <2>1
<1>5. ASSUME NEW a \in D, a \notin E PROVE rk[nx[a]] > rk[a]
  <2>1. a \in Addr /\ a # NULL /\ rk[a] = rank[a] /\ nx[a] = h.mem[a].next
    BY <1>1, <1>5
  <2>2. rank[a] \in Nat /\ rank[a] <= M
    BY <2>1 DEF LinkedBy
  <2>3. CASE h.mem[a].next = NULL
    BY <2>1, <2>2, <2>3
  <2>4. CASE h.mem[a].next # NULL
    <3>1. a \in F /\ h.mem[a].next \in F /\ rank[h.mem[a].next] > rank[a] /\ F \subseteq Addr
      BY <2>1, <2>4 DEF LinkedBy
    <3> QED BY <2>1, <2>4, <3>1
  <2> QED BY <2>3, <2>4
<1>6. PICK f \in [D -> S] : \A a \in D : f[a] = IF a \in E THEN e[a] ELSE G[<<a, f[nx[a]]>>]
  <2>1. e \in [D -> S] /\ M + 1 \in Nat
    OBVIOUS
  <2> HIDE DEF D, E, S, nx, e, G, rk
  <2>2. IsPath(D, E, S, M + 1, rk, nx, e, G)
    BY <1>2, <1>3, <1>4, <1>5, <2>1 DEF IsPath
  <2> QED BY <2>2, PathFunction
<1>7. Walk(f)
  <2>1. ASSUME NEW a \in D
        PROVE  f[a] = IF a = NULL THEN <<>> ELSE <<a>> \o f[h.mem[a].next]
    <3>1. CASE a = NULL
      BY <1>6, <3>1
    <3>2. CASE a # NULL
      <4>1. nx[a] = h.mem[a].next /\ nx[a] \in D /\ a \notin E
        BY <1>2, <3>2
      <4>2. f[h.mem[a].next] \in S
        BY <4>1
      <4>3. G[<<a, f[h.mem[a].next]>>] = <<a>> \o f[h.mem[a].next]
        BY <3>2, <4>2
      <4> QED BY <1>6, <3>2, <4>1, <4>3
    <3> QED BY <3>1, <3>2
  <2> HIDE DEF D, S
  <2> QED BY <2>1
<1> DEFINE w == CHOOSE g : Walk(g)
<1>8. Walk(w)
  BY <1>7, Zenon
<1>9. \A l \in Levels : List(h, l) = w[h.lists[l]]
  BY DEF List
<1> HIDE DEF w
<1>10. \A a \in D : w[a] = IF a = NULL THEN <<>> ELSE <<a>> \o w[h.mem[a].next]
  BY <1>8
<1>11. w[NULL] = <<>> /\ \A a \in Addr : w[a] = <<a>> \o w[h.mem[a].next]
  BY <1>1, <1>10
<1> QED BY <1>9, <1>11

LEMMA Prefixed ==
  ASSUME NEW S, NEW a \in S, NEW s \in Seq(S)
  PROVE  /\ <<a>> \o s \in Seq(S) /\ Len(<<a>> \o s) = Len(s) + 1
         /\ (<<a>> \o s)[1] = a
         /\ \A k \in 1..Len(s) : (<<a>> \o s)[k + 1] = s[k]
  OBVIOUS

\* What a walk along the forward links from chunk a collects.
IsChain(h, F, rank, a, s) ==
  /\ s \in Seq(F) /\ Len(s) >= 1 /\ s[1] = a
  /\ \A k \in 1..Len(s) : LevelAt(h, s[k]) = LevelAt(h, a) /\ rank[a] <= rank[s[k]]
  /\ \A k \in 1..(Len(s) - 1) : h.mem[s[k]].next = s[k + 1]
  /\ h.mem[s[Len(s)]].next = NULL
  /\ \A j, k \in 1..Len(s) : j < k => rank[s[j]] < rank[s[k]]

LEMMA ChainGrows ==
  ASSUME NEW h \in HeapSet, NEW F, F \subseteq Addr, NEW rank \in [Addr -> Nat],
         NEW a \in F, NEW n \in F, h.mem[a].next = n, LevelAt(h, n) = LevelAt(h, a),
         rank[n] > rank[a], NEW t, IsChain(h, F, rank, n, t)
  PROVE  IsChain(h, F, rank, a, <<a>> \o t)
<1> DEFINE s == <<a>> \o t
<1>1. t \in Seq(F) /\ Len(t) \in Nat /\ Len(t) >= 1 /\ t[1] = n
  BY DEF IsChain
<1>2. s \in Seq(F) /\ Len(s) = Len(t) + 1 /\ s[1] = a /\ \A k \in 1..Len(t) : s[k + 1] = t[k]
  BY <1>1, Prefixed
<1> HIDE DEF s
<1>3. \A k \in 1..Len(t) : /\ t[k] \in F /\ LevelAt(h, t[k]) = LevelAt(h, a)
                            /\ rank[a] < rank[t[k]] /\ rank[t[k]] \in Nat
  <2>1. rank[a] \in Nat /\ rank[n] \in Nat
    OBVIOUS
  <2>2. ASSUME NEW k \in 1..Len(t)
        PROVE  /\ t[k] \in F /\ LevelAt(h, t[k]) = LevelAt(h, a)
               /\ rank[a] < rank[t[k]] /\ rank[t[k]] \in Nat
    <3>1. t[k] \in F /\ rank[t[k]] \in Nat
      BY <1>1
    <3>2. LevelAt(h, t[k]) = LevelAt(h, n) /\ rank[n] <= rank[t[k]]
      BY DEF IsChain
    <3> QED BY <2>1, <3>1, <3>2
  <2> QED BY <2>2
<1>4. ASSUME NEW k \in 1..Len(s), k # 1 PROVE k - 1 \in 1..Len(t) /\ s[k] = t[k - 1]
  <2>1. k - 1 \in 1..Len(t) /\ (k - 1) + 1 = k
    BY <1>1, <1>2, <1>4
  <2> QED BY <1>2, <2>1
<1>5. \A k \in 1..Len(s) : LevelAt(h, s[k]) = LevelAt(h, a) /\ rank[a] <= rank[s[k]]
  <2>1. rank[a] \in Nat
    OBVIOUS
  <2>2. ASSUME NEW k \in 1..Len(s) PROVE LevelAt(h, s[k]) = LevelAt(h, a) /\ rank[a] <= rank[s[k]]
    <3>1. CASE k = 1
      BY <1>2, <2>1, <3>1
    <3>2. CASE k # 1
      BY <1>3, <1>4, <2>1, <3>2
    <3> QED BY <3>1, <3>2
  <2> QED BY <2>2
<1>6. ASSUME NEW k \in 1..(Len(s) - 1) PROVE h.mem[s[k]].next = s[k + 1]
  <2>1. k \in 1..Len(t) /\ s[k + 1] = t[k]
    BY <1>1, <1>2
  <2>2. CASE k = 1
    BY <1>1, <1>2, <2>1, <2>2
  <2>3. CASE k # 1
    <3>1. k - 1 \in 1..(Len(t) - 1) /\ k \in 1..Len(s) /\ (k - 1) + 1 = k
      <4>1. Len(t) \in Nat /\ Len(s) = Len(t) + 1
        BY <1>1, <1>2
      <4> HIDE <1>1, <1>2
      <4> QED BY <4>1, <2>3
    <3>2. h.mem[t[k - 1]].next = t[(k - 1) + 1]
      BY <3>1 DEF IsChain
    <3> QED BY <1>4, <2>1, <2>3, <3>1, <3>2
  <2> QED BY <2>2, <2>3
<1>7. h.mem[s[Len(s)]].next = NULL
  <2>1. Len(s) \in 1..Len(s) /\ Len(s) # 1 /\ Len(s) - 1 = Len(t)
    BY <1>1, <1>2
  <2> QED BY <1>4, <2>1 DEF IsChain
<1>8. ASSUME NEW j \in 1..Len(s), NEW k \in 1..Len(s), j < k PROVE rank[s[j]] < rank[s[k]]
  <2>1. k # 1 /\ k - 1 \in 1..Len(t) /\ s[k] = t[k - 1]
    BY <1>4, <1>8
  <2>2. CASE j = 1
    BY <1>2, <1>3, <2>1, <2>2
  <2>3. CASE j # 1
    <3>1. j - 1 \in 1..Len(t) /\ s[j] = t[j - 1] /\ j - 1 < k - 1
      BY <1>4, <1>8, <2>3
    <3> QED BY <2>1, <3>1 DEF IsChain
  <2> QED BY <2>2, <2>3
<1>9. Len(s) >= 1
  BY <1>1, <1>2
<1>10. IsChain(h, F, rank, a, s)
  BY <1>2, <1>5, <1>6, <1>7, <1>8, <1>9 DEF IsChain
<1> QED BY <1>10 DEF s

LEMMA ListIsExact ==
  ASSUME NEW h \in HeapSet, NEW F, IsLinked(h, F), NEW l \in Levels
  PROVE  ListIs(h, F, l, List(h, l))
<1>1. PICK M \in Nat, rank \in [Addr -> Nat] : LinkedBy(h, F, rank, M)
  BY DEF IsLinked
<1>2. PICK f : /\ f[NULL] = <<>>
               /\ \A a \in Addr : f[a] = <<a>> \o f[h.mem[a].next]
               /\ \A k \in Levels : List(h, k) = f[h.lists[k]]
  BY <1>1, ListSteps
<1>3. F \subseteq Addr /\ NULL \notin Addr /\ Addr \subseteq Int
  BY <1>1, PoolAssumption DEF LinkedBy, Addr, NULL
<1>4. ASSUME NEW a \in F
      PROVE  /\ rank[a] \in Nat /\ rank[a] <= M /\ h.mem[a].next \in Addr \cup {NULL}
             /\ h.mem[a].prev \in Addr \cup {NULL}
  BY <1>1, <1>3, Fields DEF LinkedBy
<1> DEFINE T == {m \in 0..(M + 1) : \A a \in F : rank[a] + m > M => IsChain(h, F, rank, a, f[a])}
<1>5. 0 \in T
  <2>1. ASSUME NEW a \in F PROVE ~(rank[a] + 0 > M)
    BY <1>4
  <2> QED BY <2>1
<1>6. ASSUME NEW m \in 0..((M + 1) - 1), m \in T PROVE m + 1 \in T
  <2>1. ASSUME NEW a \in F, rank[a] + (m + 1) > M PROVE IsChain(h, F, rank, a, f[a])
    <3>1. f[a] = <<a>> \o f[h.mem[a].next]
      BY <1>2, <1>3
    <3>2. CASE h.mem[a].next = NULL
      <4>1. f[a] = <<a>>
        <5>1. f[a] = <<a>> \o <<>>
          BY <1>2, <3>1, <3>2
        <5>2. <<a>> \o <<>> = <<a>>
          OBVIOUS
        <5> QED BY <5>1, <5>2
      <4>2. <<a>> \in Seq(F) /\ Len(<<a>>) = 1 /\ <<a>>[1] = a
        OBVIOUS
      <4>3. rank[a] <= rank[a]
        BY <1>4
      <4> QED BY <3>2, <4>1, <4>2, <4>3 DEF IsChain
    <3>3. CASE h.mem[a].next # NULL
      <4> DEFINE n == h.mem[a].next
      <4>1. n \in F /\ LevelAt(h, n) = LevelAt(h, a) /\ rank[n] > rank[a]
        BY <1>1, <3>3 DEF LinkedBy
      <4>2. rank[n] + m > M
        BY <1>4, <2>1, <4>1
      <4>3. IsChain(h, F, rank, n, f[n])
        BY <1>6, <4>1, <4>2
      <4> HIDE DEF n
      <4>4. IsChain(h, F, rank, a, <<a>> \o f[n])
        <5>1. h.mem[a].next = n
          BY DEF n
        <5> QED BY <1>3, <4>1, <4>3, <5>1, ChainGrows
      <4> QED BY <3>1, <4>4 DEF n
    <3> QED BY <3>2, <3>3
  <2>2. m + 1 \in 0..(M + 1)
    OBVIOUS
  <2> QED BY <2>1, <2>2
<1>7. M + 1 \in T
  <2>1. 0 \in Int /\ M + 1 \in Int /\ M + 1 \in 0..(M + 1)
    OBVIOUS
  <2> HIDE DEF T
  <2>2. 0..(M + 1) \subseteq T
    BY <1>5, <1>6, <2>1, IntervalInduction
  <2> QED BY <2>1, <2>2
<1>8. ASSUME NEW a \in F PROVE IsChain(h, F, rank, a, f[a])
  <2>1. rank[a] + (M + 1) > M
    BY <1>4
  <2> QED BY <1>7, <2>1
<1> DEFINE s == List(h, l)
<1>9. s = f[h.lists[l]]
  BY <1>2
<1>10. CASE h.lists[l] = NULL
  <2>1. s = <<>>
    BY <1>2, <1>9, <1>10
  <2>2. {a \in F : LevelAt(h, a) = l} = {}
    <3> DEFINE U == {a \in F : LevelAt(h, a) = l}
               R == {rank[a] : a \in U}
    <3>1. SUFFICES ASSUME U # {} PROVE FALSE
      OBVIOUS
    <3>2. PICK r \in R : \A q \in R : r <= q
      <4>1. R \in SUBSET Nat /\ R # {}
        BY <1>4, <3>1
      <4> HIDE DEF R
      <4> QED BY <4>1, LeastElement
    <3>3. PICK a \in U : r = rank[a]
      BY <3>2
    <3>4. h.mem[a].prev # NULL
      <4>1. h.mem[a].prev = NULL => h.lists[l] = a
        BY <1>1, <3>3 DEF LinkedBy
      <4> QED BY <1>3, <1>10, <3>3, <4>1
    <3> DEFINE p == h.mem[a].prev
    <3>5. p \in F /\ h.mem[p].next = a /\ a # NULL
      BY <1>1, <1>3, <3>3, <3>4 DEF LinkedBy
    <3>6. LevelAt(h, a) = LevelAt(h, p) /\ rank[a] > rank[p]
      BY <1>1, <3>5 DEF LinkedBy
    <3>7. p \in U /\ rank[p] \in Nat /\ rank[a] \in Nat
      BY <1>4, <3>3, <3>5, <3>6
    <3> QED BY <3>2, <3>3, <3>6, <3>7
  <2>3. <<>> \in Seq(F)
    OBVIOUS
  <2> QED BY <2>1, <2>2, <2>3 DEF ListIs
<1>11. CASE h.lists[l] # NULL
  <2> DEFINE head == h.lists[l]
  <2>1. head \in F /\ LevelAt(h, head) = l /\ h.mem[head].prev = NULL
    BY <1>1, <1>11 DEF LinkedBy
  <2>2. IsChain(h, F, rank, head, s)
    BY <1>8, <1>9, <2>1
  <2> HIDE DEF s, head
  <2>3. s \in Seq(F) /\ Len(s) \in Nat /\ Len(s) >= 1 /\ s[1] = head /\ DOMAIN s = 1..Len(s)
    BY <2>2 DEF IsChain
  <2>4. ASSUME NEW k \in 1..Len(s) PROVE s[k] \in F /\ LevelAt(h, s[k]) = l
    BY <2>1, <2>2, <2>3 DEF IsChain
  <2>5. ASSUME NEW j \in 1..Len(s), NEW k \in 1..Len(s), j # k PROVE s[j] # s[k]
    <3>1. j < k => rank[s[j]] < rank[s[k]]
      BY <2>2 DEF IsChain
    <3>2. k < j => rank[s[k]] < rank[s[j]]
      BY <2>2 DEF IsChain
    <3>3. rank[s[j]] \in Nat /\ rank[s[k]] \in Nat
      BY <1>4, <2>4
    <3> QED BY <2>5, <3>1, <3>2, <3>3
  <2>6. ASSUME NEW k \in 1..Len(s) PROVE h.mem[s[k]].prev = IF k = 1 THEN NULL ELSE s[k - 1]
    <3>1. CASE k = 1
      BY <2>1, <2>3, <3>1
    <3>2. CASE k # 1
      <4>1. k - 1 \in 1..(Len(s) - 1) /\ k - 1 \in 1..Len(s) /\ (k - 1) + 1 = k
        BY <2>3, <3>2
      <4>2. h.mem[s[k - 1]].next = s[k]
        BY <2>2, <4>1 DEF IsChain
      <4>3. s[k] # NULL /\ s[k - 1] \in F
        BY <1>3, <2>4, <4>1
      <4> QED BY <1>1, <3>2, <4>2, <4>3 DEF LinkedBy
    <3> QED BY <3>1, <3>2
  <2>7. h.mem[s[Len(s)]].next = NULL
    BY <2>2 DEF IsChain
  <2>8. ASSUME NEW a \in F, LevelAt(h, a) = l PROVE \E k \in 1..Len(s) : a = s[k]
    <3> DEFINE U == {x \in F : LevelAt(h, x) = l /\ \A k \in 1..Len(s) : x # s[k]}
               R == {rank[x] : x \in U}
    <3>1. SUFFICES ASSUME U # {} PROVE FALSE
      BY <2>8
    <3>2. PICK r \in R : \A q \in R : r <= q
      <4>1. R \in SUBSET Nat /\ R # {}
        BY <1>4, <3>1
      <4> HIDE DEF R
      <4> QED BY <4>1, LeastElement
    <3>3. PICK x \in U : r = rank[x]
      BY <3>2
    <3>4. h.mem[x].prev # NULL
      <4>1. h.mem[x].prev = NULL => head = x
        BY <1>1, <3>3 DEF LinkedBy, head
      <4>2. 1 \in 1..Len(s)
        BY <2>3
      <4> QED BY <2>3, <3>3, <4>1, <4>2
    <3> DEFINE p == h.mem[x].prev
    <3>5. p \in F /\ h.mem[p].next = x /\ x # NULL
      BY <1>1, <1>3, <3>3, <3>4 DEF LinkedBy
    <3>6. LevelAt(h, x) = LevelAt(h, p) /\ rank[x] > rank[p]
      BY <1>1, <3>5 DEF LinkedBy
    <3>7. p \notin U
      <4>1. p \in U => rank[x] <= rank[p]
        BY <3>2, <3>3
      <4>2. rank[p] \in Nat /\ rank[x] \in Nat
        BY <1>4, <3>3, <3>5
      <4> QED BY <3>6, <4>1, <4>2
    <3>8. PICK k \in 1..Len(s) : p = s[k]
      BY <3>3, <3>5, <3>6, <3>7
    <3>9. k # Len(s)
      BY <2>7, <3>5, <3>8
    <3>10. k \in 1..(Len(s) - 1) /\ k + 1 \in 1..Len(s)
      <4>1. Len(s) \in Nat
        BY <2>3
      <4> QED BY <3>9, <4>1
    <3>11. h.mem[s[k]].next = s[k + 1]
      BY <2>2, <3>10 DEF IsChain
    <3> QED BY <3>3, <3>5, <3>8, <3>10, <3>11
  <2>9. {s[k] : k \in DOMAIN s} = {a \in F : LevelAt(h, a) = l}
    BY <2>3, <2>4, <2>8
  <2>10. ListIs(h, F, l, s)
    BY <2>3, <2>5, <2>6, <2>7, <2>9 DEF ListIs
  <2> QED BY <2>10 DEF s
<1> QED BY <1>10, <1>11

\* A heap with the same lists is linked as well.
LEMMA LinkedFrame ==
  ASSUME NEW h, NEW g, NEW F, IsLinked(h, F), g.lists = h.lists,
         \A a \in F : g.mem[a] = h.mem[a], \A a \in Addr \ F : g.mem[a].next = NULL
  PROVE  IsLinked(g, F)
<1>1. PICK M \in Nat, rank \in [Addr -> Nat] : LinkedBy(h, F, rank, M)
  BY DEF IsLinked
<1>2. \A a \in F : LevelAt(g, a) = LevelAt(h, a)
  BY DEF LevelAt, SizeAt
<1>3. LinkedBy(g, F, rank, M)
  <2>1. \A l \in Levels : g.lists[l] # NULL =>
          g.lists[l] \in F /\ LevelAt(g, g.lists[l]) = l /\ g.mem[g.lists[l]].prev = NULL
    BY <1>1, <1>2 DEF LinkedBy
  <2>2. \A a \in F :
          /\ g.mem[a].prev = NULL => g.lists[LevelAt(g, a)] = a
          /\ g.mem[a].prev # NULL => g.mem[a].prev \in F /\ g.mem[g.mem[a].prev].next = a
          /\ g.mem[a].next # NULL =>
               /\ g.mem[a].next \in F /\ g.mem[g.mem[a].next].prev = a
               /\ LevelAt(g, g.mem[a].next) = LevelAt(g, a)
               /\ rank[g.mem[a].next] > rank[a]
    BY <1>1, <1>2 DEF LinkedBy
  <2> QED BY <1>1, <2>1, <2>2 DEF LinkedBy
<1> QED BY <1>3 DEF IsLinked

\* From h to r chunk c has left the free chunks F: only links between free
\* chunks have changed besides its header.
IsUnlinked(h, r, F, c) ==
  /\ r \in HeapSet /\ IsLinked(r, F \ {c})
  /\ \A a \in Addr \ F : r.mem[a] = h.mem[a]
  /\ \A a \in F : r.mem[a] \in Header
  /\ \A a \in Addr : SizeAt(r, a) = SizeAt(h, a)
  /\ \A a \in Addr \ {c} : r.mem[a].is_free = h.mem[a].is_free
  /\ r.mem[c].is_free = 0

LEMMA RemoveEffect ==
  ASSUME NEW h \in HeapSet, NEW F, IsLinked(h, F), NEW c \in F
  PROVE  IsUnlinked(h, remove_from_free_list(h, c), F, c)
<1> DEFINE r == remove_from_free_list(h, c)
           p == h.mem[c].prev
           n == h.mem[c].next
<1>1. PICK M \in Nat, rank \in [Addr -> Nat] : LinkedBy(h, F, rank, M)
  BY DEF IsLinked
<1>2. F \subseteq Addr /\ NULL \notin Addr /\ Addr \subseteq Int /\ \A a \in F : h.mem[a] \in Header
  BY <1>1, PoolAssumption DEF LinkedBy, Addr, NULL
<1>3. \A a \in F : rank[a] \in Nat
  BY <1>2
<1>4. p \in Addr \cup {NULL} /\ n \in Addr \cup {NULL}
  BY <1>2, Fields
<1>5. p # NULL => p \in F /\ h.mem[p].next = c /\ rank[c] > rank[p] /\ LevelAt(h, p) = LevelAt(h, c)
  BY <1>1, <1>2 DEF LinkedBy
<1>6. n # NULL => n \in F /\ h.mem[n].prev = c /\ rank[n] > rank[c] /\ LevelAt(h, n) = LevelAt(h, c)
  BY <1>1, <1>2 DEF LinkedBy
<1>7. p # c /\ n # c /\ (p # NULL => p # n)
  BY <1>2, <1>3, <1>5, <1>6
<1>8. r.mem = [a \in Addr |->
        CASE a = c -> [h.mem[c] EXCEPT !.next = NULL, !.prev = NULL, !.is_free = 0]
          [] a = p -> [h.mem[a] EXCEPT !.next = n]
          [] a = n -> [h.mem[a] EXCEPT !.prev = p]
          [] OTHER -> h.mem[a]]
  BY DEF remove_from_free_list
<1>9. r.lists = IF p = NULL THEN [h.lists EXCEPT ![LevelAt(h, c)] = n] ELSE h.lists
  BY DEF remove_from_free_list, LevelAt, SizeAt
<1>10. r = [mem |-> r.mem, lists |-> r.lists]
  BY DEF remove_from_free_list
<1> HIDE DEF r
<1>11. h.mem[c] \in Header /\ r.mem[c] = [h.mem[c] EXCEPT !.next = NULL, !.prev = NULL, !.is_free = 0]
  BY <1>2, <1>7, <1>8
<1>12. ASSUME NEW a \in Addr, a # c, a = p PROVE a \in F /\ r.mem[a] = [h.mem[a] EXCEPT !.next = n]
  BY <1>2, <1>5, <1>7, <1>8, <1>12
<1>13. ASSUME NEW a \in Addr, a # c, a = n PROVE a \in F /\ r.mem[a] = [h.mem[a] EXCEPT !.prev = p]
  BY <1>2, <1>6, <1>7, <1>8, <1>13
<1>14. ASSUME NEW a \in Addr, a # c, a # p, a # n PROVE r.mem[a] = h.mem[a]
  BY <1>8, <1>14
<1>15. ASSUME NEW a \in F
       PROVE  /\ r.mem[a] \in Header
              /\ r.mem[a].chunk_size = h.mem[a].chunk_size
              /\ r.mem[a].is_free = IF a = c THEN 0 ELSE h.mem[a].is_free
              /\ r.mem[a].next = IF a = c THEN NULL ELSE IF a = p THEN n ELSE h.mem[a].next
              /\ r.mem[a].prev = IF a = c THEN NULL ELSE IF a = n THEN p ELSE h.mem[a].prev
  <2>1. h.mem[a] \in Header /\ a \in Addr
    BY <1>2
  <2> HIDE DEF p, n
  <2>2. CASE a = c
    BY <1>11, <2>1, <2>2 DEF Header
  <2>3. CASE a # c /\ a = p
    <3>1. a # n
      BY <1>2, <1>7, <2>1, <2>3
    <3> QED BY <1>4, <1>12, <2>1, <2>3, <3>1 DEF Header
  <2>4. CASE a # c /\ a = n
    <3>1. a # p
      BY <1>2, <1>7, <2>1, <2>4
    <3> QED BY <1>4, <1>13, <2>1, <2>4, <3>1 DEF Header
  <2>5. CASE a # c /\ a # p /\ a # n
    BY <1>14, <2>1, <2>5
  <2> QED BY <2>2, <2>3, <2>4, <2>5
<1>16. \A a \in Addr \ F : r.mem[a] = h.mem[a]
  BY <1>12, <1>13, <1>14
<1>17. \A a \in Addr : SizeAt(r, a) = SizeAt(h, a)
  BY <1>15, <1>16 DEF SizeAt
<1>18. \A a \in Addr : LevelAt(r, a) = LevelAt(h, a)
  BY <1>17 DEF LevelAt
<1>19. r \in HeapSet
  <2>1. r.mem \in [Addr -> Header \cup {UserData}]
    <3>1. \A a \in Addr : r.mem[a] \in Header \cup {UserData}
      BY <1>15, <1>16 DEF HeapSet
    <3>2. r.mem = [a \in Addr |-> r.mem[a]]
      BY <1>8
    <3> QED BY <3>1, <3>2
  <2>2. r.lists \in [Levels -> Addr \cup {NULL}]
    BY <1>4, <1>9 DEF HeapSet
  <2> QED BY <1>10, <2>1, <2>2 DEF HeapSet
<1>20. LevelAt(h, c) \in Levels
  BY LevelInRange DEF LevelAt
<1>21. \A l \in Levels : r.lists[l] = IF p = NULL /\ l = LevelAt(h, c) THEN n ELSE h.lists[l]
  BY <1>9, <1>20 DEF HeapSet
<1> HIDE DEF p, n
<1>22. LinkedBy(r, F \ {c}, rank, M)
  <2>1. ASSUME NEW l \in Levels, r.lists[l] # NULL
        PROVE  /\ r.lists[l] \in F \ {c} /\ LevelAt(r, r.lists[l]) = l
               /\ r.mem[r.lists[l]].prev = NULL
    <3>1. CASE p = NULL /\ l = LevelAt(h, c)
      BY <1>2, <1>6, <1>7, <1>15, <1>18, <1>21, <2>1, <3>1
    <3>2. CASE ~(p = NULL /\ l = LevelAt(h, c))
      <4>1. r.lists[l] = h.lists[l]
        BY <1>21, <3>2
      <4>2. h.lists[l] \in F /\ LevelAt(h, h.lists[l]) = l /\ h.mem[h.lists[l]].prev = NULL
        BY <1>1, <2>1, <4>1 DEF LinkedBy
      <4>3. h.lists[l] # c
        BY <3>2, <4>2 DEF p
      <4>4. h.lists[l] # n
        BY <1>2, <1>6, <4>2
      <4> QED BY <1>2, <1>15, <1>18, <4>1, <4>2, <4>3, <4>4
    <3> QED BY <3>1, <3>2
  <2>2. ASSUME NEW a \in F \ {c}, r.mem[a].prev = NULL PROVE r.lists[LevelAt(r, a)] = a
    <3>1. LevelAt(r, a) = LevelAt(h, a) /\ LevelAt(h, a) \in Levels
      BY <1>2, <1>18, LevelInRange DEF LevelAt
    <3>2. CASE a = n
      <4>1. p = NULL /\ LevelAt(h, n) = LevelAt(h, c)
        BY <1>2, <1>6, <1>15, <2>2, <3>2
      <4> QED BY <1>21, <3>1, <3>2, <4>1
    <3>3. CASE a # n
      <4>1. h.mem[a].prev = NULL
        BY <1>15, <2>2, <3>3
      <4>2. h.lists[LevelAt(h, a)] = a
        BY <1>1, <4>1 DEF LinkedBy
      <4>3. p = NULL => h.lists[LevelAt(h, c)] = c
        BY <1>1 DEF LinkedBy, p
      <4> QED BY <1>21, <3>1, <4>2, <4>3
    <3> QED BY <3>2, <3>3
  <2>3. ASSUME NEW a \in F \ {c}, r.mem[a].prev # NULL
        PROVE  r.mem[a].prev \in F \ {c} /\ r.mem[r.mem[a].prev].next = a
    <3>1. CASE a = n
      <4>1. r.mem[a].prev = p /\ p \in F
        BY <1>5, <1>15, <2>3, <3>1
      <4>2. r.mem[p].next = n
        BY <1>7, <1>15, <4>1
      <4> QED BY <1>7, <3>1, <4>1, <4>2
    <3>2. CASE a # n
      <4>1. r.mem[a].prev = h.mem[a].prev
        BY <1>15, <3>2
      <4>2. h.mem[a].prev \in F /\ h.mem[h.mem[a].prev].next = a
        BY <1>1, <2>3, <4>1 DEF LinkedBy
      <4>3. h.mem[a].prev # c
        BY <3>2, <4>2 DEF n
      <4>4. h.mem[a].prev # p
        BY <1>2, <1>5, <4>2
      <4> QED BY <1>15, <4>1, <4>2, <4>3, <4>4
    <3> QED BY <3>1, <3>2
  <2>4. ASSUME NEW a \in F \ {c}, r.mem[a].next # NULL
        PROVE  /\ r.mem[a].next \in F \ {c} /\ r.mem[r.mem[a].next].prev = a
               /\ LevelAt(r, r.mem[a].next) = LevelAt(r, a)
               /\ rank[r.mem[a].next] > rank[a]
    <3>1. CASE a = p
      <4>1. r.mem[a].next = n /\ n # NULL /\ p # NULL
        BY <1>2, <1>15, <2>4, <3>1
      <4>2. n \in F \ {c} /\ LevelAt(h, n) = LevelAt(h, a) /\ rank[n] > rank[a]
        <5>1. n \in F /\ rank[n] > rank[c] /\ rank[c] > rank[a] /\ LevelAt(h, n) = LevelAt(h, a)
          BY <1>5, <1>6, <3>1, <4>1
        <5> QED BY <1>3, <1>7, <5>1
      <4>3. r.mem[n].prev = p
        BY <1>15, <4>2
      <4> QED BY <1>2, <1>18, <3>1, <4>1, <4>2, <4>3
    <3>2. CASE a # p
      <4>1. r.mem[a].next = h.mem[a].next
        BY <1>15, <3>2
      <4>2. /\ h.mem[a].next \in F /\ h.mem[h.mem[a].next].prev = a
            /\ LevelAt(h, h.mem[a].next) = LevelAt(h, a) /\ rank[h.mem[a].next] > rank[a]
        BY <1>1, <2>4, <4>1 DEF LinkedBy
      <4>3. h.mem[a].next # c
        BY <3>2, <4>2 DEF p
      <4>4. h.mem[a].next # n
        BY <1>2, <1>6, <4>2
      <4>5. r.mem[h.mem[a].next].prev = a
        BY <1>15, <4>2, <4>3, <4>4
      <4>6. LevelAt(r, h.mem[a].next) = LevelAt(r, a)
        BY <1>2, <1>18, <4>2
      <4> QED BY <4>1, <4>2, <4>3, <4>5, <4>6
    <3> QED BY <3>1, <3>2
  <2>5. \A a \in Addr \ (F \ {c}) : r.mem[a].next = NULL
    <3>1. \A a \in Addr \ F : h.mem[a].next = NULL
      BY <1>1 DEF LinkedBy
    <3> QED BY <1>15, <1>16, <3>1
  <2>6. \A a \in Addr : rank[a] <= M
    BY <1>1 DEF LinkedBy
  <2>7. F \ {c} \subseteq Addr /\ \A a \in F \ {c} : r.mem[a] \in Header
    BY <1>2, <1>15
  <2> QED BY <2>1, <2>2, <2>3, <2>4, <2>5, <2>6, <2>7 DEF LinkedBy
<1>23. \A a \in Addr \ {c} : r.mem[a].is_free = h.mem[a].is_free
  BY <1>15, <1>16
<1>24. IsLinked(r, F \ {c})
  BY <1>22 DEF IsLinked
<1>25. IsUnlinked(h, r, F, c)
  BY <1>15, <1>16, <1>17, <1>19, <1>23, <1>24 DEF IsUnlinked
<1> QED BY <1>25 DEF r

\* From h to r chunk c, now of the given size, has joined the free chunks F.
IsLinkedIn(h, r, F, c, size) ==
  /\ r \in HeapSet /\ IsLinked(r, F \cup {c})
  /\ \A a \in Addr \ (F \cup {c}) : r.mem[a] = h.mem[a]
  /\ \A a \in F \cup {c} : r.mem[a] \in Header
  /\ \A a \in Addr \ {c} : SizeAt(r, a) = SizeAt(h, a) /\ r.mem[a].is_free = h.mem[a].is_free
  /\ SizeAt(r, c) = size /\ r.mem[c].is_free = 1

LEMMA AddEffect ==
  ASSUME NEW h \in HeapSet, NEW F, IsLinked(h, F), NEW c \in Addr \ F,
         NEW size \in 0..(PoolUnits - 1)
  PROVE  IsLinkedIn(h, add_to_free_list(h, c, size), F, c, size)
<1> DEFINE r      == add_to_free_list(h, c, size)
           level  == compute_level(size)
           list   == List(h, level)
           tail   == IF list = <<>> THEN NULL ELSE list[Len(list)]
           header == [chunk_size |-> size, is_free |-> 1, next |-> NULL, prev |-> tail]
<1>1. PICK M \in Nat, rank \in [Addr -> Nat] : LinkedBy(h, F, rank, M)
  BY DEF IsLinked
<1>2. F \subseteq Addr /\ NULL \notin Addr /\ Addr \subseteq Int /\ \A a \in F : h.mem[a] \in Header
  BY <1>1, PoolAssumption DEF LinkedBy, Addr, NULL
<1>3. level \in Levels /\ ListIs(h, F, level, list)
  BY LevelInRange, ListIsExact
<1>4. r = IF tail = NULL
          THEN [mem   |-> [h.mem EXCEPT ![c] = header],
                lists |-> [h.lists EXCEPT ![level] = c]]
          ELSE [h EXCEPT !.mem = [@ EXCEPT ![c] = header, ![tail].next = c]]
  BY DEF add_to_free_list
<1> HIDE DEF level, r
<1>5. list # <<>> => tail \in F /\ LevelAt(h, tail) = level /\ h.mem[tail].next = NULL
  <2> HIDE DEF list
  <2> SUFFICES ASSUME list # <<>>
               PROVE  tail \in F /\ LevelAt(h, tail) = level /\ h.mem[tail].next = NULL
    OBVIOUS
  <2>1. list \in Seq(F)
    BY <1>3 DEF ListIs
  <2>2. Len(list) \in DOMAIN list
    BY <2>1
  <2>3. tail \in {list[k] : k \in DOMAIN list}
    BY <2>2
  <2> QED BY <1>3, <2>3 DEF ListIs
<1>6. list = <<>> => \A a \in F : LevelAt(h, a) # level
  <2> HIDE DEF list
  <2> SUFFICES ASSUME list = <<>>, NEW a \in F, LevelAt(h, a) = level PROVE FALSE
    OBVIOUS
  <2>1. a \in {list[k] : k \in DOMAIN list}
    BY <1>3 DEF ListIs
  <2> QED BY <2>1
<1> HIDE DEF list
<1>7. tail = NULL <=> list = <<>>
  BY <1>2, <1>5
<1>8. tail # c /\ tail \in Addr \cup {NULL}
  BY <1>2, <1>5
<1> HIDE DEF tail
<1>9. h = [mem |-> h.mem, lists |-> h.lists] /\ DOMAIN h.mem = Addr /\ DOMAIN h.lists = Levels
  BY DEF HeapSet
<1>10. r.mem[c] = header /\ r.mem[c] \in Header
  <2>1. header \in Header
    BY <1>8 DEF Header
  <2>2. r.mem[c] = header
    <3> HIDE DEF header
    <3>1. CASE tail = NULL
      BY <1>4, <1>9, <3>1
    <3>2. CASE tail # NULL
      <4>1. r.mem = [[h.mem EXCEPT ![c] = header] EXCEPT ![tail].next = c]
        BY <1>4, <1>9, <3>2
      <4> QED BY <1>8, <1>9, <4>1
    <3> QED BY <3>1, <3>2
  <2> QED BY <2>1, <2>2
<1>11. tail # NULL => r.mem[tail] = [h.mem[tail] EXCEPT !.next = c]
  <2> HIDE DEF header
  <2> SUFFICES ASSUME tail # NULL PROVE r.mem[tail] = [h.mem[tail] EXCEPT !.next = c]
    OBVIOUS
  <2>1. r.mem = [[h.mem EXCEPT ![c] = header] EXCEPT ![tail].next = c]
    BY <1>4, <1>9
  <2> QED BY <1>8, <1>9, <2>1
<1>12. \A a \in Addr : a # c /\ a # tail => r.mem[a] = h.mem[a]
  <2> HIDE DEF header
  <2>1. CASE tail = NULL
    BY <1>4, <1>9, <2>1
  <2>2. CASE tail # NULL
    <3>1. r.mem = [[h.mem EXCEPT ![c] = header] EXCEPT ![tail].next = c]
      BY <1>4, <1>9, <2>2
    <3> QED BY <1>9, <3>1
  <2> QED BY <2>1, <2>2
<1>13. r.lists = IF tail = NULL THEN [h.lists EXCEPT ![level] = c] ELSE h.lists
  BY <1>4, <1>9
<1>14. DOMAIN r.mem = Addr /\ r.mem = [a \in Addr |-> r.mem[a]] /\ r = [mem |-> r.mem, lists |-> r.lists]
  <2> HIDE DEF header
  <2>1. CASE tail = NULL
    BY <1>4, <1>9, <2>1
  <2>2. CASE tail # NULL
    <3>1. r.mem = [[h.mem EXCEPT ![c] = header] EXCEPT ![tail].next = c]
      BY <1>4, <1>9, <2>2
    <3> QED BY <1>4, <1>9, <2>2, <3>1
  <2> QED BY <2>1, <2>2
<1>15. r.mem[c].chunk_size = size /\ r.mem[c].is_free = 1 /\ r.mem[c].next = NULL /\ r.mem[c].prev = tail
  BY <1>10
<1> HIDE DEF header
<1>16. ASSUME NEW a \in F
       PROVE  /\ r.mem[a] \in Header /\ a # c
              /\ r.mem[a].chunk_size = h.mem[a].chunk_size
              /\ r.mem[a].is_free = h.mem[a].is_free
              /\ r.mem[a].next = IF a = tail THEN c ELSE h.mem[a].next
              /\ r.mem[a].prev = h.mem[a].prev
  <2>1. h.mem[a] \in Header /\ a \in Addr /\ a # c /\ a # NULL
    BY <1>2
  <2>2. CASE a = tail
    <3>1. r.mem[a] = [h.mem[a] EXCEPT !.next = c]
      BY <1>11, <2>1, <2>2
    <3> QED BY <2>1, <2>2, <3>1 DEF Header
  <2>3. CASE a # tail
    BY <1>12, <2>1, <2>3
  <2> QED BY <2>2, <2>3
<1>17. \A a \in Addr \ (F \cup {c}) : r.mem[a] = h.mem[a]
  BY <1>2, <1>5, <1>7, <1>12
<1>18. \A a \in Addr \ {c} : SizeAt(r, a) = SizeAt(h, a) /\ r.mem[a].is_free = h.mem[a].is_free
  BY <1>16, <1>17 DEF SizeAt
<1>19. \A a \in Addr \ {c} : LevelAt(r, a) = LevelAt(h, a)
  BY <1>18 DEF LevelAt
<1>20. LevelAt(r, c) = level
  BY <1>15 DEF LevelAt, SizeAt, level
<1>21. r \in HeapSet
  <2>1. r.mem \in [Addr -> Header \cup {UserData}]
    <3>1. \A a \in Addr : r.mem[a] \in Header \cup {UserData}
      BY <1>10, <1>16, <1>17 DEF HeapSet
    <3> QED BY <1>14, <3>1
  <2>2. r.lists \in [Levels -> Addr \cup {NULL}]
    BY <1>13 DEF HeapSet
  <2> QED BY <1>14, <2>1, <2>2 DEF HeapSet
<1>22. \A l \in Levels : r.lists[l] = IF tail = NULL /\ l = level THEN c ELSE h.lists[l]
  BY <1>3, <1>9, <1>13
<1> DEFINE G  == F \cup {c}
           rk == [rank EXCEPT ![c] = M + 1]
<1>23. rk \in [Addr -> Nat] /\ rk[c] = M + 1 /\ \A a \in F : rk[a] = rank[a] /\ rk[a] <= M /\ rk[a] \in Nat
  BY <1>1, <1>2 DEF LinkedBy
<1>24. \A a \in Addr : rk[a] <= M + 1
  <2>1. \A a \in Addr : rank[a] <= M /\ rank[a] \in Nat
    BY <1>1 DEF LinkedBy
  <2> QED BY <2>1
<1> HIDE DEF rk
<1>25. LinkedBy(r, G, rk, M + 1)
  <2>1. ASSUME NEW l \in Levels, r.lists[l] # NULL
        PROVE  r.lists[l] \in G /\ LevelAt(r, r.lists[l]) = l /\ r.mem[r.lists[l]].prev = NULL
    <3>1. CASE tail = NULL /\ l = level
      BY <1>15, <1>20, <1>22, <3>1
    <3>2. CASE ~(tail = NULL /\ l = level)
      <4>1. r.lists[l] = h.lists[l]
        BY <1>22, <3>2
      <4>2. h.lists[l] \in F /\ LevelAt(h, h.lists[l]) = l /\ h.mem[h.lists[l]].prev = NULL
        BY <1>1, <2>1, <4>1 DEF LinkedBy
      <4> QED BY <1>2, <1>16, <1>19, <4>1, <4>2
    <3> QED BY <3>1, <3>2
  <2>2. ASSUME NEW a \in G, r.mem[a].prev = NULL PROVE r.lists[LevelAt(r, a)] = a
    <3>1. CASE a = c
      BY <1>3, <1>15, <1>20, <1>22, <2>2, <3>1
    <3>2. CASE a # c
      <4>1. a \in F /\ LevelAt(r, a) = LevelAt(h, a) /\ LevelAt(h, a) \in Levels
        BY <1>2, <1>19, <3>2, LevelInRange DEF LevelAt
      <4>2. h.lists[LevelAt(h, a)] = a
        BY <1>1, <1>16, <2>2, <4>1 DEF LinkedBy
      <4> QED BY <1>6, <1>7, <1>22, <4>1, <4>2
    <3> QED BY <3>1, <3>2
  <2>3. ASSUME NEW a \in G, r.mem[a].prev # NULL
        PROVE  r.mem[a].prev \in G /\ r.mem[r.mem[a].prev].next = a
    <3>1. CASE a = c
      BY <1>5, <1>7, <1>15, <1>16, <2>3, <3>1
    <3>2. CASE a # c
      <4>1. h.mem[a].prev \in F /\ h.mem[h.mem[a].prev].next = a /\ r.mem[a].prev = h.mem[a].prev
        BY <1>1, <1>16, <2>3, <3>2 DEF LinkedBy
      <4>2. h.mem[a].prev # tail
        BY <1>2, <1>5, <1>7, <3>2, <4>1
      <4> QED BY <1>16, <4>1, <4>2
    <3> QED BY <3>1, <3>2
  <2>4. ASSUME NEW a \in G, r.mem[a].next # NULL
        PROVE  /\ r.mem[a].next \in G /\ r.mem[r.mem[a].next].prev = a
               /\ LevelAt(r, r.mem[a].next) = LevelAt(r, a)
               /\ rk[r.mem[a].next] > rk[a]
    <3>1. a \in F
      BY <1>15, <2>4
    <3>2. CASE a = tail
      <4>1. r.mem[a].next = c /\ LevelAt(h, a) = level
        BY <1>2, <1>5, <1>7, <1>16, <3>1, <3>2
      <4>2. rk[c] > rk[a]
        BY <1>23, <3>1
      <4> QED BY <1>2, <1>15, <1>19, <1>20, <3>1, <3>2, <4>1, <4>2
    <3>3. CASE a # tail
      <4>1. /\ h.mem[a].next \in F /\ h.mem[h.mem[a].next].prev = a
            /\ LevelAt(h, h.mem[a].next) = LevelAt(h, a) /\ rank[h.mem[a].next] > rank[a]
            /\ r.mem[a].next = h.mem[a].next
        BY <1>1, <1>16, <2>4, <3>1, <3>3 DEF LinkedBy
      <4> QED BY <1>2, <1>16, <1>19, <1>23, <3>1, <4>1
    <3> QED BY <3>2, <3>3
  <2>5. \A a \in Addr \ G : r.mem[a].next = NULL
    <3>1. \A a \in Addr \ F : h.mem[a].next = NULL
      BY <1>1 DEF LinkedBy
    <3> QED BY <1>17, <3>1
  <2>6. G \subseteq Addr /\ \A a \in G : r.mem[a] \in Header
    BY <1>2, <1>10, <1>16
  <2> QED BY <1>24, <2>1, <2>2, <2>3, <2>4, <2>5, <2>6 DEF LinkedBy
<1>26. IsLinked(r, F \cup {c})
  <2>1. M + 1 \in Nat
    OBVIOUS
  <2> QED BY <1>23, <1>25, <2>1 DEF IsLinked
<1>27. IsLinkedIn(h, r, F, c, size)
  BY <1>10, <1>15, <1>16, <1>17, <1>18, <1>21, <1>26 DEF IsLinkedIn, SizeAt
<1> QED BY <1>27 DEF r

---------------------------------------------------------------------------
(* The order of the lists.                                                 *)

\* What determines the list of level l.
IsListing(h, F, l, list) ==
  /\ list \in Seq(F)
  /\ {list[k] : k \in DOMAIN list} = {a \in F : LevelAt(h, a) = l}
  /\ \A j, k \in DOMAIN list : j # k => list[j] # list[k]
  /\ \A k \in DOMAIN list : h.mem[list[k]].prev = IF k = 1 THEN NULL ELSE list[k - 1]

LEMMA ListingPrefix ==
  ASSUME NEW h, NEW F, NULL \notin F, NEW l, NEW s, NEW t,
         IsListing(h, F, l, s), IsListing(h, F, l, t)
  PROVE  Len(s) <= Len(t) /\ \A i \in 1..Len(s) : s[i] = t[i]
<1> DEFINE T == {k \in 0..Len(s) : k <= Len(t) /\ \A i \in 1..k : s[i] = t[i]}
<1>1. /\ s \in Seq(F) /\ Len(s) \in Nat /\ DOMAIN s = 1..Len(s)
      /\ t \in Seq(F) /\ Len(t) \in Nat /\ DOMAIN t = 1..Len(t)
  BY DEF IsListing
<1>2. 0 \in T
  BY <1>1
<1>3. ASSUME NEW k \in 0..(Len(s) - 1), k \in T PROVE k + 1 \in T
  <2>1. k + 1 \in DOMAIN s /\ k \in Nat
    BY <1>1
  <2>2. s[k + 1] \in {t[j] : j \in DOMAIN t}
    BY <2>1 DEF IsListing
  <2>3. PICK j \in DOMAIN t : s[k + 1] = t[j]
    BY <2>2
  <2>4. j \in Nat /\ j >= 1 /\ j <= Len(t)
    BY <1>1
  <2>5. h.mem[s[k + 1]].prev = IF k = 0 THEN NULL ELSE s[k]
    <3>1. (k + 1) - 1 = k /\ (k + 1 = 1 <=> k = 0)
      BY <2>1
    <3> QED BY <2>1, <3>1 DEF IsListing
  <2>6. h.mem[s[k + 1]].prev = IF j = 1 THEN NULL ELSE t[j - 1]
    BY <2>3 DEF IsListing
  <2>7. j # 1 => j - 1 \in DOMAIN t /\ t[j - 1] # NULL
    BY <1>1, <2>4
  <2>8. k # 0 => k \in DOMAIN s /\ k \in DOMAIN t /\ s[k] = t[k] /\ s[k] # NULL
    BY <1>1, <1>3, <2>1
  <2>9. j = k + 1
    <3>1. CASE k = 0
      BY <2>5, <2>6, <2>7, <3>1
    <3>2. CASE k # 0
      <4>1. j # 1 /\ t[j - 1] = t[k]
        BY <2>5, <2>6, <2>8, <3>2
      <4>2. j - 1 = k
        BY <2>7, <2>8, <3>2, <4>1 DEF IsListing
      <4> QED BY <2>4, <4>2
    <3> QED BY <3>1, <3>2
  <2>10. \A i \in 1..(k + 1) : i \in 1..k \/ i = k + 1
    BY <2>1
  <2>11. k + 1 \in 0..Len(s)
    BY <1>1, <2>1
  <2> QED BY <1>3, <2>3, <2>4, <2>9, <2>10, <2>11
<1>4. 0..Len(s) \subseteq T
  <2>1. 0 \in Int /\ Len(s) \in Int
    BY <1>1
  <2> HIDE DEF T
  <2> QED BY <1>2, <1>3, <2>1, IntervalInduction
<1>5. Len(s) \in T
  BY <1>1, <1>4
<1> QED BY <1>5

LEMMA ListingUnique ==
  ASSUME NEW h, NEW F, NULL \notin F, NEW l, NEW s, NEW t,
         IsListing(h, F, l, s), IsListing(h, F, l, t)
  PROVE  s = t
<1>1. s \in Seq(F) /\ t \in Seq(F) /\ Len(s) \in Nat /\ Len(t) \in Nat
  BY DEF IsListing
<1>2. Len(s) <= Len(t) /\ (\A i \in 1..Len(s) : s[i] = t[i]) /\ Len(t) <= Len(s)
  BY ListingPrefix
<1>3. Len(s) = Len(t)
  BY <1>1, <1>2
<1> QED BY <1>1, <1>2, <1>3

\* The list of a heap is the only listing.
LEMMA ListIsOnly ==
  ASSUME NEW h \in HeapSet, NEW F, IsLinked(h, F), NEW l \in Levels, NEW s,
         IsListing(h, F, l, s)
  PROVE  List(h, l) = s
<1>1. F \subseteq Addr /\ NULL \notin F
  BY PoolAssumption DEF IsLinked, LinkedBy, Addr, NULL
<1> DEFINE list == List(h, l)
<1>2. ListIs(h, F, l, list)
  BY ListIsExact
<1> HIDE DEF list
<1>3. IsListing(h, F, l, list)
  BY <1>2 DEF ListIs, IsListing
<1>4. list = s
  BY <1>1, <1>3, ListingUnique
<1> QED BY <1>4 DEF list

LEMMA ListFrame ==
  ASSUME NEW h \in HeapSet, NEW g \in HeapSet, NEW F, IsLinked(h, F), IsLinked(g, F),
         \A a \in F : g.mem[a] = h.mem[a], NEW l \in Levels
  PROVE  List(g, l) = List(h, l)
<1>1. \A a \in F : LevelAt(g, a) = LevelAt(h, a)
  BY DEF LevelAt, SizeAt
<1> DEFINE list == List(h, l)
<1>2. ListIs(h, F, l, list)
  BY ListIsExact
<1> HIDE DEF list
<1>3. \A k \in DOMAIN list : list[k] \in F
  BY <1>2 DEF ListIs
<1>4. IsListing(g, F, l, list)
  BY <1>1, <1>2, <1>3 DEF ListIs, IsListing
<1>5. List(g, l) = list
  BY <1>4, ListIsOnly
<1> QED BY <1>5 DEF list

\* A new free chunk goes behind those of its level.
LEMMA AddOrder ==
  ASSUME NEW h \in HeapSet, NEW F, IsLinked(h, F), NEW c \in Addr \ F,
         NEW size \in 0..(PoolUnits - 1), NEW l \in Levels
  PROVE  List(add_to_free_list(h, c, size), l)
           = IF l = compute_level(size) THEN Append(List(h, l), c) ELSE List(h, l)
<1> DEFINE r     == add_to_free_list(h, c, size)
           level == compute_level(size)
           list  == List(h, l)
           last  == List(h, level)
           tail  == IF last = <<>> THEN NULL ELSE last[Len(last)]
           header == [chunk_size |-> size, is_free |-> 1, next |-> NULL, prev |-> tail]
<1>1. F \subseteq Addr /\ NULL \notin F /\ \A a \in F : h.mem[a] \in Header
  BY PoolAssumption DEF IsLinked, LinkedBy, Addr, NULL
<1>2. IsLinkedIn(h, r, F, c, size)
  BY AddEffect
<1>3. r = IF tail = NULL
          THEN [mem   |-> [h.mem EXCEPT ![c] = header],
                lists |-> [h.lists EXCEPT ![level] = c]]
          ELSE [h EXCEPT !.mem = [@ EXCEPT ![c] = header, ![tail].next = c]]
  BY DEF add_to_free_list
<1>4. ListIs(h, F, l, list) /\ level \in Levels /\ ListIs(h, F, level, last)
  BY ListIsExact, LevelInRange
<1> HIDE DEF r, level, list, last
<1>5. last # <<>> => tail \in F
  <2>1. last \in Seq(F)
    BY <1>4 DEF ListIs
  <2> QED BY <2>1
<1>6. h.mem \in [Addr -> Header \cup {UserData}] /\ h = [mem |-> h.mem, lists |-> h.lists]
  BY DEF HeapSet
<1>7. \A a \in F : r.mem[a].prev = h.mem[a].prev
  <2>1. CASE tail = NULL
    <3>1. r.mem = [h.mem EXCEPT ![c] = header]
      BY <1>3, <2>1
    <3> HIDE DEF tail, header
    <3> QED BY <1>1, <1>6, <3>1
  <2>2. CASE tail # NULL
    <3>1. tail \in F /\ tail # c
      BY <1>5, <2>2
    <3> HIDE DEF tail, header
    <3>2. r.mem = [h.mem EXCEPT ![c] = header, ![tail].next = c]
      BY <1>3, <1>6, <2>2
    <3>3. ASSUME NEW a \in F PROVE r.mem[a].prev = h.mem[a].prev
      <4>1. a # c /\ a \in Addr /\ h.mem[a] \in Header
        BY <1>1
      <4>2. r.mem[a] = IF a = tail THEN [h.mem[a] EXCEPT !.next = c] ELSE h.mem[a]
        BY <1>6, <3>1, <3>2, <4>1
      <4> QED BY <4>1, <4>2 DEF Header
    <3> QED BY <3>3
  <2> QED BY <2>1, <2>2
<1>8. r.mem[c].prev = tail
  <2>1. CASE tail = NULL
    <3>1. r.mem = [h.mem EXCEPT ![c] = header]
      BY <1>3, <2>1
    <3>2. r.mem[c] = header
      BY <1>6, <3>1
    <3> HIDE DEF tail
    <3> QED BY <3>2
  <2>2. CASE tail # NULL
    <3>1. tail \in F /\ tail # c
      BY <1>5, <2>2
    <3> HIDE DEF tail, header
    <3>2. r.mem = [h.mem EXCEPT ![c] = header, ![tail].next = c]
      BY <1>3, <1>6, <2>2
    <3>3. r.mem[c] = header
      BY <1>6, <3>1, <3>2
    <3> QED BY <3>3 DEF header
  <2> QED BY <2>1, <2>2
<1>9. /\ r \in HeapSet /\ IsLinked(r, F \cup {c}) /\ LevelAt(r, c) = level
      /\ \A a \in F : LevelAt(r, a) = LevelAt(h, a)
  <2>1. \A a \in F : a \in Addr \ {c}
    BY <1>1
  <2> QED BY <1>2, <2>1 DEF IsLinkedIn, LevelAt, level
<1>10. list \in Seq(F) /\ last \in Seq(F) /\ \A k \in DOMAIN list : list[k] \in F
  BY <1>4 DEF ListIs
<1>11. CASE l # level
  <2>1. {a \in F : LevelAt(h, a) = l} = {a \in F \cup {c} : LevelAt(r, a) = l}
    BY <1>9, <1>11
  <2>2. IsListing(r, F \cup {c}, l, list)
    BY <1>4, <1>7, <1>10, <2>1 DEF ListIs, IsListing
  <2>3. List(r, l) = list
    BY <1>9, <2>2, ListIsOnly
  <2> QED BY <1>11, <2>3 DEF r, list, level
<1>12. CASE l = level
  <2> DEFINE s == Append(list, c)
  <2>1. list = last
    BY <1>12 DEF list, last
  <2>2. /\ s \in Seq(F \cup {c}) /\ Len(s) = Len(list) + 1 /\ s[Len(list) + 1] = c
        /\ \A k \in DOMAIN list : s[k] = list[k]
        /\ DOMAIN s = DOMAIN list \cup {Len(list) + 1} /\ DOMAIN list = 1..Len(list)
        /\ Len(list) \in Nat
    BY <1>10
  <2> HIDE DEF s
  <2>3. {s[k] : k \in DOMAIN s} = {list[k] : k \in DOMAIN list} \cup {c}
    BY <2>2
  <2>4. {a \in F \cup {c} : LevelAt(r, a) = l} = {a \in F : LevelAt(h, a) = l} \cup {c}
    BY <1>9, <1>12
  <2>5. \A j, k \in DOMAIN s : j # k => s[j] # s[k]
    <3>1. \A k \in DOMAIN list : list[k] # c
      BY <1>10
    <3> QED BY <1>4, <2>2, <3>1 DEF ListIs
  <2>6. ASSUME NEW k \in DOMAIN s
        PROVE  r.mem[s[k]].prev = IF k = 1 THEN NULL ELSE s[k - 1]
    <3>1. CASE k \in DOMAIN list
      <4>1. r.mem[s[k]].prev = h.mem[list[k]].prev
        BY <1>7, <1>10, <2>2, <3>1
      <4>2. k # 1 => k - 1 \in DOMAIN list
        BY <2>2, <3>1
      <4> QED BY <1>4, <2>2, <3>1, <4>1, <4>2 DEF ListIs
    <3>2. CASE k = Len(list) + 1
      <4>1. r.mem[s[k]].prev = tail
        BY <1>8, <2>2, <3>2
      <4>2. last = <<>> <=> k = 1
        BY <1>10, <2>1, <2>2, <3>2
      <4>3. k # 1 => k - 1 = Len(list) /\ Len(list) \in DOMAIN list
        BY <2>2, <3>2
      <4> QED BY <2>1, <2>2, <4>1, <4>2, <4>3
    <3> QED BY <2>2, <3>1, <3>2
  <2>7. IsListing(r, F \cup {c}, l, s)
    BY <1>4, <2>2, <2>3, <2>4, <2>5, <2>6 DEF ListIs, IsListing
  <2>8. List(r, l) = s
    BY <1>9, <2>7, ListIsOnly
  <2> QED BY <1>12, <2>8 DEF r, list, level, s
<1> QED BY <1>11, <1>12

\* list without its k-th element.
Without(list, k) == [i \in 1..(Len(list) - 1) |-> list[IF i < k THEN i ELSE i + 1]]

\* s is list but for its k-th element.
IsWithout(S, list, k, s) ==
  /\ s \in Seq(S \ {list[k]}) /\ DOMAIN s = 1..(Len(list) - 1)
  /\ \A i \in DOMAIN s : IF i < k THEN i \in DOMAIN list /\ s[i] = list[i]
                         ELSE i + 1 \in DOMAIN list /\ s[i] = list[i + 1]
  /\ {s[i] : i \in DOMAIN s} = {list[i] : i \in DOMAIN list} \ {list[k]}
  /\ \A i, j \in DOMAIN s : i # j => s[i] # s[j]

LEMMA WithoutIs ==
  ASSUME NEW S, NEW list \in Seq(S), NEW k \in DOMAIN list,
         \A i, j \in DOMAIN list : i # j => list[i] # list[j]
  PROVE  IsWithout(S, list, k, Without(list, k))
<1> DEFINE n == Len(list) - 1
           at(i) == IF i < k THEN i ELSE i + 1
           s == Without(list, k)
<1>1. n \in Nat /\ DOMAIN list = 1..(n + 1) /\ k \in 1..(n + 1) /\ Len(list) = n + 1
  OBVIOUS
<1>2. \A i \in DOMAIN list : list[i] \in S
  OBVIOUS
<1>3. s = [i \in 1..n |-> list[at(i)]]
  BY DEF Without
<1> HIDE DEF n, s
<1>4. ASSUME NEW i \in 1..n
      PROVE  at(i) \in DOMAIN list /\ at(i) # k /\ s[i] = list[at(i)]
  BY <1>1, <1>3
<1>5. s \in [1..n -> S \ {list[k]}]
  <2>1. \A i \in 1..n : list[at(i)] \in S \ {list[k]}
    BY <1>2, <1>4
  <2> HIDE DEF at
  <2> QED BY <1>3, <2>1
<1>6. s \in Seq(S \ {list[k]}) /\ DOMAIN s = 1..n
  BY <1>1, <1>5
<1>7. \A i \in DOMAIN s : IF i < k THEN i \in DOMAIN list /\ s[i] = list[i]
                          ELSE i + 1 \in DOMAIN list /\ s[i] = list[i + 1]
  BY <1>4, <1>6
<1>8. ASSUME NEW j \in DOMAIN list, j # k PROVE \E i \in DOMAIN s : s[i] = list[j]
  <2>1. CASE j < k
    <3>1. j \in 1..n /\ at(j) = j
      BY <1>1, <2>1
    <3> QED BY <1>4, <1>6, <3>1
  <2>2. CASE ~(j < k)
    <3>1. j - 1 \in 1..n /\ at(j - 1) = j
      BY <1>1, <1>8, <2>2
    <3> QED BY <1>4, <1>6, <3>1
  <2> QED BY <2>1, <2>2
<1>9. {s[i] : i \in DOMAIN s} = {list[i] : i \in DOMAIN list} \ {list[k]}
  <2> HIDE DEF at
  <2>1. \A i \in DOMAIN s : s[i] \in {list[j] : j \in DOMAIN list} /\ s[i] # list[k]
    BY <1>4, <1>6
  <2>2. \A x \in {list[j] : j \in DOMAIN list} \ {list[k]} : x \in {s[i] : i \in DOMAIN s}
    BY <1>8
  <2> QED BY <2>1, <2>2
<1>10. ASSUME NEW i \in DOMAIN s, NEW j \in DOMAIN s, i # j PROVE s[i] # s[j]
  <2>1. at(i) # at(j)
    BY <1>1, <1>6, <1>10
  <2> HIDE DEF at
  <2> QED BY <1>4, <1>6, <2>1
<1>11. DOMAIN s = 1..(Len(list) - 1)
  BY <1>6 DEF n
<1> HIDE DEF at
<1> QED BY <1>6, <1>7, <1>9, <1>10, <1>11 DEF s, IsWithout

\* What the chunk behind the removed one, and all others, have for a back link.
LEMMA RemoveLinks ==
  ASSUME NEW h \in HeapSet, NEW F, IsLinked(h, F), NEW c \in F, NEW a \in F \ {c}
  PROVE  remove_from_free_list(h, c).mem[a].prev
           = IF h.mem[a].prev = c THEN h.mem[c].prev ELSE h.mem[a].prev
<1> DEFINE r == remove_from_free_list(h, c)
           p == h.mem[c].prev
           n == h.mem[c].next
<1>1. /\ F \subseteq Addr /\ NULL \notin F /\ \A x \in F : h.mem[x] \in Header
      /\ p # NULL => h.mem[p].next = c
      /\ n # NULL => h.mem[n].prev = c
      /\ h.mem[a].prev # NULL => h.mem[h.mem[a].prev].next = a
  BY PoolAssumption DEF IsLinked, LinkedBy, Addr, NULL
<1>2. r.mem = [x \in Addr |->
        CASE x = c -> [h.mem[c] EXCEPT !.next = NULL, !.prev = NULL, !.is_free = 0]
          [] x = p -> [h.mem[x] EXCEPT !.next = n]
          [] x = n -> [h.mem[x] EXCEPT !.prev = p]
          [] OTHER -> h.mem[x]]
  BY DEF remove_from_free_list
<1> HIDE DEF r
<1>3. a = n <=> h.mem[a].prev = c
  BY <1>1
<1>4. a = p => a # n
  <2> SUFFICES ASSUME a = p, a = n PROVE FALSE
    OBVIOUS
  <2>1. PICK M \in Nat, rank \in [Addr -> Nat] : LinkedBy(h, F, rank, M)
    BY DEF IsLinked
  <2>2. n # NULL /\ p # NULL /\ a \in F /\ c \in F
    BY <1>1
  <2>3. rank[n] > rank[c] /\ rank[h.mem[a].next] > rank[a]
    BY <1>1, <2>1, <2>2 DEF LinkedBy
  <2>4. h.mem[a].next = c /\ rank[a] \in Nat /\ rank[c] \in Nat
    BY <1>1, <2>2
  <2> QED BY <2>3, <2>4
<1>5. a \in Addr /\ h.mem[a] \in Header
  BY <1>1
<1>6. CASE a = p
  <2> HIDE DEF n, p
  <2>1. r.mem[a] = [h.mem[a] EXCEPT !.next = n]
    BY <1>2, <1>4, <1>5, <1>6
  <2>2. r.mem[a].prev = h.mem[a].prev
    BY <1>5, <2>1 DEF Header
  <2> QED BY <1>3, <1>4, <1>6, <2>2 DEF p, r
<1>7. CASE a # p /\ a = n
  <2>1. r.mem[a] = [h.mem[a] EXCEPT !.prev = p]
    BY <1>2, <1>5, <1>7
  <2> HIDE DEF p
  <2>2. r.mem[a].prev = p
    BY <1>5, <2>1 DEF Header
  <2> QED BY <1>3, <1>7, <2>2 DEF p, r
<1>8. CASE a # p /\ a # n
  <2>1. r.mem[a] = h.mem[a]
    BY <1>2, <1>5, <1>8
  <2> QED BY <1>3, <1>8, <2>1 DEF r
<1> QED BY <1>6, <1>7, <1>8

\* A chunk that leaves its list leaves the order of the others as it was.
LEMMA RemoveOrder ==
  ASSUME NEW h \in HeapSet, NEW F, IsLinked(h, F), NEW c \in F, NEW l \in Levels
  PROVE  LET list == List(h, l)
             left == List(remove_from_free_list(h, c), l)
         IN IF l = LevelAt(h, c)
            THEN \E k \in DOMAIN list : list[k] = c /\ left = Without(list, k)
            ELSE left = list
<1> DEFINE r    == remove_from_free_list(h, c)
           list == List(h, l)
<1>1. F \subseteq Addr /\ NULL \notin F
  BY PoolAssumption DEF IsLinked, LinkedBy, Addr, NULL
<1>2. IsUnlinked(h, r, F, c)
  BY RemoveEffect
<1>3. ListIs(h, F, l, list)
  BY ListIsExact
<1>4. \A a \in F \ {c} :
        r.mem[a].prev = IF h.mem[a].prev = c THEN h.mem[c].prev ELSE h.mem[a].prev
  BY RemoveLinks
<1> HIDE DEF r, list
<1>5. /\ r \in HeapSet /\ IsLinked(r, F \ {c})
      /\ \A a \in F : LevelAt(r, a) = LevelAt(h, a)
  BY <1>1, <1>2 DEF IsUnlinked, LevelAt
<1>6. /\ list \in Seq(F) /\ \A k \in DOMAIN list : list[k] \in F /\ LevelAt(h, list[k]) = l
      /\ \A j, k \in DOMAIN list : j # k => list[j] # list[k]
      /\ \A k \in DOMAIN list : h.mem[list[k]].prev = IF k = 1 THEN NULL ELSE list[k - 1]
      /\ \A a \in F : LevelAt(h, a) = l => \E k \in DOMAIN list : list[k] = a
      /\ DOMAIN list = 1..Len(list) /\ Len(list) \in Nat
  <2>1. list \in Seq(F) /\ {list[k] : k \in DOMAIN list} = {a \in F : LevelAt(h, a) = l}
    BY <1>3 DEF ListIs
  <2>2. \A k \in DOMAIN list : list[k] \in {list[j] : j \in DOMAIN list}
    OBVIOUS
  <2>3. \A k \in DOMAIN list : list[k] \in F /\ LevelAt(h, list[k]) = l
    BY <2>1, <2>2
  <2>4. \A a \in F : LevelAt(h, a) = l => \E k \in DOMAIN list : list[k] = a
    BY <2>1
  <2> QED BY <1>3, <2>1, <2>3, <2>4 DEF ListIs
<1>7. CASE l # LevelAt(h, c)
  <2>1. \A k \in DOMAIN list : list[k] \in F \ {c}
    BY <1>6, <1>7
  <2>2. \A k \in DOMAIN list : r.mem[list[k]].prev = IF k = 1 THEN NULL ELSE list[k - 1]
    <3>1. ASSUME NEW k \in DOMAIN list
          PROVE  h.mem[list[k]].prev # c
      <4>1. CASE k = 1
        BY <1>1, <1>6, <4>1
      <4>2. CASE k # 1
        <5>1. k - 1 \in DOMAIN list
          BY <1>6, <4>2
        <5> QED BY <1>6, <2>1, <4>2, <5>1
      <4> QED BY <4>1, <4>2
    <3> QED BY <1>4, <1>6, <2>1, <3>1
  <2>3. {list[k] : k \in DOMAIN list} = {a \in F \ {c} : LevelAt(r, a) = l}
    BY <1>5, <1>6, <1>7
  <2>4. list \in Seq(F \ {c})
    BY <1>6, <2>1
  <2>5. IsListing(r, F \ {c}, l, list)
    BY <1>6, <2>2, <2>3, <2>4 DEF IsListing
  <2>6. List(r, l) = list
    BY <1>5, <2>5, ListIsOnly
  <2> QED BY <1>7, <2>6 DEF r, list
<1>8. CASE l = LevelAt(h, c)
  <2>1. PICK k \in DOMAIN list : list[k] = c
    BY <1>6, <1>8
  <2> DEFINE s == Without(list, k)
  <2>2. list \in Seq(F) /\ \A i, j \in DOMAIN list : i # j => list[i] # list[j]
    BY <1>6
  <2>3. /\ s \in Seq(F \ {c}) /\ DOMAIN s = 1..(Len(list) - 1)
        /\ \A i \in DOMAIN s : IF i < k THEN i \in DOMAIN list /\ s[i] = list[i]
                               ELSE i + 1 \in DOMAIN list /\ s[i] = list[i + 1]
        /\ {s[i] : i \in DOMAIN s} = {list[i] : i \in DOMAIN list} \ {c}
        /\ \A i, j \in DOMAIN s : i # j => s[i] # s[j]
    <3>1. IsWithout(F, list, k, s)
      BY <2>2, <2>1, WithoutIs
    <3> HIDE DEF s
    <3> QED BY <2>1, <3>1 DEF IsWithout
  <2> HIDE DEF s
  <2>4. {s[i] : i \in DOMAIN s} = {a \in F \ {c} : LevelAt(r, a) = l}
    <3>1. {list[i] : i \in DOMAIN list} = {a \in F : LevelAt(h, a) = l}
      BY <1>3 DEF ListIs
    <3> QED BY <1>5, <2>3, <3>1
  <2>5. ASSUME NEW i \in DOMAIN s
        PROVE  r.mem[s[i]].prev = IF i = 1 THEN NULL ELSE s[i - 1]
    <3>1. s[i] \in F \ {c} /\ i \in Nat /\ k \in Nat /\ i >= 1 /\ k >= 1
      BY <1>6, <2>3
    <3>2. i # 1 => i - 1 \in DOMAIN s
      BY <1>6, <2>3, <3>1
    <3>3. CASE i < k
      <4>1. i \in DOMAIN list /\ s[i] = list[i]
        BY <2>3, <3>3
      <4>2. h.mem[s[i]].prev = IF i = 1 THEN NULL ELSE list[i - 1]
        BY <1>6, <4>1
      <4>3. i # 1 => s[i - 1] = list[i - 1]
        BY <2>3, <3>1, <3>2, <3>3
      <4>4. h.mem[s[i]].prev # c
        BY <1>1, <2>3, <3>2, <4>2, <4>3
      <4> QED BY <1>4, <3>1, <4>2, <4>3, <4>4
    <3>4. CASE i = k
      <4>1. i + 1 \in DOMAIN list /\ s[i] = list[i + 1] /\ i + 1 # 1 /\ (i + 1) - 1 = k
        BY <2>3, <3>1, <3>4
      <4>2. h.mem[s[i]].prev = c
        BY <1>6, <2>1, <4>1
      <4>3. h.mem[c].prev = IF k = 1 THEN NULL ELSE list[k - 1]
        BY <1>6, <2>1
      <4>4. k # 1 => s[k - 1] = list[k - 1]
        BY <2>3, <3>1, <3>2, <3>4
      <4> QED BY <1>4, <3>1, <3>4, <4>2, <4>3, <4>4
    <3>5. CASE i > k
      <4>1. i + 1 \in DOMAIN list /\ s[i] = list[i + 1] /\ i + 1 # 1 /\ (i + 1) - 1 = i
        BY <2>3, <3>1, <3>5
      <4>2. h.mem[s[i]].prev = list[i]
        BY <1>6, <4>1
      <4>3. i # 1 /\ s[i - 1] = list[(i - 1) + 1] /\ (i - 1) + 1 = i
        BY <2>3, <3>1, <3>2, <3>5
      <4>4. list[i] # c
        BY <2>3, <3>2, <4>3
      <4> QED BY <1>4, <3>1, <4>2, <4>3, <4>4
    <3> QED BY <3>1, <3>3, <3>4, <3>5
  <2>6. IsListing(r, F \ {c}, l, s)
    BY <2>3, <2>4, <2>5 DEF IsListing
  <2>7. List(r, l) = s
    BY <1>5, <2>6, ListIsOnly
  <2> QED BY <1>8, <2>1, <2>7 DEF r, list, s
<1> QED BY <1>7, <1>8

\* What comes before what in one list, when an element joins or leaves it.
LEMMA BeforeAppend ==
  ASSUME NEW S, NEW list \in Seq(S), NEW c
  PROVE  Before(Append(list, c)) = Before(list) \cup {<<list[j], c>> : j \in DOMAIN list}
<1> DEFINE s == Append(list, c)
<1>1. /\ DOMAIN s = 1..(Len(list) + 1) /\ s[Len(list) + 1] = c
      /\ \A k \in DOMAIN list : s[k] = list[k]
      /\ DOMAIN list = 1..Len(list) /\ Len(list) \in Nat
  OBVIOUS
<1> HIDE DEF s
<1>2. ASSUME NEW p \in Before(s)
      PROVE  p \in Before(list) \/ p \in {<<list[j], c>> : j \in DOMAIN list}
  <2>1. PICK k \in DOMAIN s : \E j \in 1..(k - 1) : p = <<s[j], s[k]>>
    BY DEF Before
  <2>2. PICK j \in 1..(k - 1) : p = <<s[j], s[k]>>
    BY <2>1
  <2>3. j \in DOMAIN list /\ s[j] = list[j]
    BY <1>1, <2>1, <2>2
  <2>4. CASE k \in DOMAIN list
    <3>1. p = <<list[j], list[k]>>
      BY <1>1, <2>2, <2>3, <2>4
    <3> QED BY <2>2, <2>4, <3>1 DEF Before
  <2>5. CASE k = Len(list) + 1
    BY <1>1, <2>2, <2>3, <2>5
  <2> QED BY <1>1, <2>1, <2>4, <2>5
<1>3. ASSUME NEW p \in Before(list) PROVE p \in Before(s)
  <2>1. PICK k \in DOMAIN list : \E j \in 1..(k - 1) : p = <<list[j], list[k]>>
    BY DEF Before
  <2>2. PICK j \in 1..(k - 1) : p = <<list[j], list[k]>>
    BY <2>1
  <2>3. j \in DOMAIN list /\ k \in DOMAIN s /\ s[j] = list[j] /\ s[k] = list[k]
    BY <1>1, <2>1, <2>2
  <2> QED BY <2>2, <2>3 DEF Before
<1>4. ASSUME NEW j \in DOMAIN list PROVE <<list[j], c>> \in Before(s)
  <2> DEFINE k == Len(list) + 1
  <2>1. k \in DOMAIN s /\ s[k] = c /\ j \in 1..(k - 1) /\ s[j] = list[j]
    BY <1>1
  <2> HIDE DEF k
  <2> QED BY <2>1 DEF Before
<1>5. Before(s) = Before(list) \cup {<<list[j], c>> : j \in DOMAIN list}
  <2> DEFINE N == {<<list[j], c>> : j \in DOMAIN list}
  <2>1. \A p \in N : p \in Before(s)
    BY <1>4
  <2> HIDE DEF N
  <2>2. \A p \in Before(s) : p \in Before(list) \/ p \in N
    BY <1>2 DEF N
  <2>3. Before(s) = Before(list) \cup N
    BY <1>3, <2>1, <2>2
  <2> QED BY <2>3 DEF N
<1> QED BY <1>5 DEF s

LEMMA BeforeWithout ==
  ASSUME NEW S, NEW list \in Seq(S), NEW k \in DOMAIN list,
         \A i, j \in DOMAIN list : i # j => list[i] # list[j]
  PROVE  Before(Without(list, k)) = {p \in Before(list) : p[1] # list[k] /\ p[2] # list[k]}
<1> DEFINE s == Without(list, k)
           at(i) == IF i < k THEN i ELSE i + 1
<1>1. IsWithout(S, list, k, s)
  BY WithoutIs
<1> HIDE DEF s
<1>2. /\ Len(list) \in Nat /\ DOMAIN list = 1..Len(list) /\ k \in Nat
      /\ DOMAIN s = 1..(Len(list) - 1)
      /\ \A i \in DOMAIN s : at(i) \in DOMAIN list /\ s[i] = list[at(i)] /\ i \in Nat
  BY <1>1 DEF IsWithout
<1>3. ASSUME NEW p \in Before(s)
      PROVE  p \in Before(list) /\ p[1] # list[k] /\ p[2] # list[k]
  <2>1. PICK m \in DOMAIN s : \E j \in 1..(m - 1) : p = <<s[j], s[m]>>
    BY DEF Before
  <2>2. PICK j \in 1..(m - 1) : p = <<s[j], s[m]>>
    BY <2>1
  <2>3. j \in DOMAIN s /\ j < m /\ j \in Nat /\ m \in Nat
    BY <1>2, <2>1, <2>2
  <2>4. p = <<list[at(j)], list[at(m)]>> /\ at(j) \in DOMAIN list /\ at(m) \in DOMAIN list
    BY <1>2, <2>1, <2>2, <2>3
  <2>5. at(j) \in 1..(at(m) - 1) /\ at(j) # k /\ at(m) # k
    BY <1>2, <2>3, <2>4
  <2> HIDE DEF at
  <2>6. p \in Before(list)
    BY <2>4, <2>5 DEF Before
  <2> QED BY <2>4, <2>5, <2>6
<1>4. ASSUME NEW p \in Before(list), p[1] # list[k], p[2] # list[k]
      PROVE  p \in Before(s)
  <2>1. PICK m \in DOMAIN list : \E j \in 1..(m - 1) : p = <<list[j], list[m]>>
    BY DEF Before
  <2>2. PICK j \in 1..(m - 1) : p = <<list[j], list[m]>>
    BY <2>1
  <2>3. j \in DOMAIN list /\ j < m /\ j # k /\ m # k /\ j \in Nat /\ m \in Nat
    BY <1>2, <1>4, <2>1, <2>2
  <2> DEFINE from(i) == IF i < k THEN i ELSE i - 1
  <2>4. from(j) \in DOMAIN s /\ from(m) \in DOMAIN s /\ from(j) \in 1..(from(m) - 1)
        /\ at(from(j)) = j /\ at(from(m)) = m
    BY <1>2, <2>1, <2>3
  <2> HIDE DEF at, from
  <2>5. p = <<s[from(j)], s[from(m)]>>
    BY <1>2, <2>2, <2>4
  <2> QED BY <2>4, <2>5 DEF Before
<1>5. Before(s) = {p \in Before(list) : p[1] # list[k] /\ p[2] # list[k]}
  BY <1>3, <1>4
<1> QED BY <1>5 DEF s

\* Only chunks of one level are in an order.
LEMMA OlderIn ==
  ASSUME NEW h \in HeapSet, NEW F, IsLinked(h, F), NEW l \in Levels, NEW p \in Before(List(h, l))
  PROVE  /\ p = <<p[1], p[2]>> /\ p[1] \in F /\ p[2] \in F /\ p[1] # p[2]
         /\ LevelAt(h, p[1]) = l /\ LevelAt(h, p[2]) = l
<1> DEFINE list == List(h, l)
<1>1. ListIs(h, F, l, list)
  BY ListIsExact
<1> HIDE DEF list
<1>2. PICK k \in DOMAIN list : \E j \in 1..(k - 1) : p = <<list[j], list[k]>>
  BY DEF Before, list
<1>3. PICK j \in 1..(k - 1) : p = <<list[j], list[k]>>
  BY <1>2
<1>4. list \in Seq(F) /\ {list[i] : i \in DOMAIN list} = {a \in F : LevelAt(h, a) = l}
  BY <1>1 DEF ListIs
<1>5. j \in DOMAIN list /\ k \in DOMAIN list /\ j # k
  <2>1. DOMAIN list = 1..Len(list) /\ Len(list) \in Nat
    BY <1>4
  <2> QED BY <1>2, <1>3, <2>1
<1>6. list[j] # list[k]
  BY <1>1, <1>5 DEF ListIs
<1>7. \A i \in DOMAIN list : list[i] \in F /\ LevelAt(h, list[i]) = l
  BY <1>4
<1> QED BY <1>3, <1>5, <1>6, <1>7

LEMMA OlderRange ==
  ASSUME NEW h \in HeapSet, NEW F, IsLinked(h, F), NEW p \in Older(h)
  PROVE  /\ p = <<p[1], p[2]>> /\ p[1] \in F /\ p[2] \in F /\ p[1] # p[2]
         /\ LevelAt(h, p[1]) = LevelAt(h, p[2])
<1>1. PICK l \in Levels : p \in Before(List(h, l))
  BY DEF Older
<1> QED BY <1>1, OlderIn

LEMMA OlderFrame ==
  ASSUME NEW h \in HeapSet, NEW g \in HeapSet, NEW F, IsLinked(h, F), IsLinked(g, F),
         \A a \in F : g.mem[a] = h.mem[a]
  PROVE  Older(g) = Older(h)
<1>1. \A l \in Levels : List(g, l) = List(h, l)
  BY ListFrame
<1>2. \A l \in Levels : Before(List(g, l)) = Before(List(h, l))
  BY <1>1
<1> QED BY <1>2 DEF Older

LEMMA OlderAdd ==
  ASSUME NEW h \in HeapSet, NEW F, IsLinked(h, F), NEW c \in Addr \ F,
         NEW size \in 0..(PoolUnits - 1)
  PROVE  Older(add_to_free_list(h, c, size))
           = Older(h) \cup {<<a, c>> : a \in {x \in F : LevelAt(h, x) = compute_level(size)}}
<1> DEFINE r == add_to_free_list(h, c, size)
           level == compute_level(size)
           list == List(h, level)
           N == {<<a, c>> : a \in {x \in F : LevelAt(h, x) = level}}
<1>1. level \in Levels
  BY LevelInRange
<1>2. ListIs(h, F, level, list)
  BY <1>1, ListIsExact
<1>3. \A l \in Levels : List(r, l) = IF l = level THEN Append(list, c) ELSE List(h, l)
  BY AddOrder
<1> HIDE DEF r, level, list
<1>4. {<<list[j], c>> : j \in DOMAIN list} = N
  <2>1. {list[j] : j \in DOMAIN list} = {a \in F : LevelAt(h, a) = level}
    BY <1>2 DEF ListIs
  <2> QED BY <2>1
<1>5. Before(Append(list, c)) = Before(list) \cup N
  <2>1. list \in Seq(F)
    BY <1>2 DEF ListIs
  <2> QED BY <1>4, <2>1, BeforeAppend
<1> HIDE DEF N
<1>6. \A l \in Levels : Before(List(r, l)) = IF l = level THEN Before(List(h, l)) \cup N
                                             ELSE Before(List(h, l))
  BY <1>3, <1>5 DEF list
<1>7. Older(r) = Older(h) \cup N
  BY <1>1, <1>6 DEF Older
<1> QED BY <1>7 DEF r, N, level

LEMMA OlderRemove ==
  ASSUME NEW h \in HeapSet, NEW F, IsLinked(h, F), NEW c \in F
  PROVE  Older(remove_from_free_list(h, c)) = {p \in Older(h) : p[1] # c /\ p[2] # c}
<1> DEFINE r == remove_from_free_list(h, c)
<1>1. ASSUME NEW l \in Levels
      PROVE  Before(List(r, l)) = {p \in Before(List(h, l)) : p[1] # c /\ p[2] # c}
  <2> DEFINE list == List(h, l)
             left == List(r, l)
  <2>1. ListIs(h, F, l, list)
    BY ListIsExact
  <2>2. IF l = LevelAt(h, c)
        THEN \E k \in DOMAIN list : list[k] = c /\ left = Without(list, k)
        ELSE left = list
    BY RemoveOrder
  <2>3. \A p \in Before(list) : LevelAt(h, p[1]) = l /\ LevelAt(h, p[2]) = l
    BY OlderIn
  <2> HIDE DEF list, left
  <2>4. CASE l = LevelAt(h, c)
    <3>1. PICK k \in DOMAIN list : list[k] = c /\ left = Without(list, k)
      BY <2>2, <2>4
    <3>2. list \in Seq(F) /\ \A i, j \in DOMAIN list : i # j => list[i] # list[j]
      BY <2>1 DEF ListIs
    <3>3. Before(Without(list, k)) = {p \in Before(list) : p[1] # list[k] /\ p[2] # list[k]}
      BY <3>1, <3>2, BeforeWithout
    <3>4. Before(left) = {p \in Before(list) : p[1] # c /\ p[2] # c}
      BY <3>1, <3>3
    <3> QED BY <3>4 DEF list, left
  <2>5. CASE l # LevelAt(h, c)
    <3>1. Before(left) = {p \in Before(list) : p[1] # c /\ p[2] # c}
      BY <2>2, <2>3, <2>5
    <3> QED BY <3>1 DEF list, left
  <2> QED BY <2>4, <2>5
<1> HIDE DEF r
<1>2. Older(r) = {p \in Older(h) : p[1] # c /\ p[2] # c}
  BY <1>1 DEF Older
<1> QED BY <1>2 DEF r

\* The order of free chunks of one size.
LEMMA PeersRange ==
  ASSUME NEW h \in HeapSet, NEW F, IsLinked(h, F), NEW p \in OlderPeers(h)
  PROVE  /\ p = <<p[1], p[2]>> /\ p[1] \in F /\ p[2] \in F /\ p[1] # p[2]
         /\ SizeAt(h, p[1]) = SizeAt(h, p[2])
  BY OlderRange DEF OlderPeers

LEMMA PeersFrame ==
  ASSUME NEW h \in HeapSet, NEW g \in HeapSet, NEW F, IsLinked(h, F), IsLinked(g, F),
         \A a \in F : g.mem[a] = h.mem[a]
  PROVE  OlderPeers(g) = OlderPeers(h)
<1>1. Older(g) = Older(h)
  BY OlderFrame
<1>2. ASSUME NEW p \in Older(h)
      PROVE  SizeAt(g, p[1]) = SizeAt(h, p[1]) /\ SizeAt(g, p[2]) = SizeAt(h, p[2])
  <2>1. p[1] \in F /\ p[2] \in F
    BY OlderRange
  <2> QED BY <2>1 DEF SizeAt
<1> QED BY <1>1, <1>2 DEF OlderPeers

LEMMA PeersAdd ==
  ASSUME NEW h \in HeapSet, NEW F, IsLinked(h, F), NEW c \in Addr \ F,
         NEW size \in 0..(PoolUnits - 1)
  PROVE  OlderPeers(add_to_free_list(h, c, size))
           = OlderPeers(h) \cup {<<a, c>> : a \in {x \in F : SizeAt(h, x) = size}}
<1> DEFINE r == add_to_free_list(h, c, size)
           N == {<<a, c>> : a \in {x \in F : LevelAt(h, x) = compute_level(size)}}
<1>1. Older(r) = Older(h) \cup N
  BY OlderAdd
<1>2. F \subseteq Addr
  BY DEF IsLinked, LinkedBy
<1>3. IsLinkedIn(h, r, F, c, size)
  BY AddEffect
<1> HIDE DEF r
<1>4. SizeAt(r, c) = size /\ \A a \in F : SizeAt(r, a) = SizeAt(h, a)
  <2>1. \A a \in F : a \in Addr \ {c}
    BY <1>2
  <2> QED BY <1>3, <2>1 DEF IsLinkedIn
<1>5. ASSUME NEW p \in Older(h)
      PROVE  SizeAt(r, p[1]) = SizeAt(h, p[1]) /\ SizeAt(r, p[2]) = SizeAt(h, p[2])
  <2>1. p[1] \in F /\ p[2] \in F
    BY OlderRange
  <2> QED BY <1>4, <2>1
<1>6. {p \in N : SizeAt(r, p[1]) = SizeAt(r, p[2])}
        = {<<a, c>> : a \in {x \in F : SizeAt(h, x) = size}}
  <2>1. \A a \in F : SizeAt(h, a) = size => LevelAt(h, a) = compute_level(size)
    BY DEF LevelAt
  <2> QED BY <1>4, <2>1
<1> HIDE DEF N
<1>7. OlderPeers(r) = OlderPeers(h) \cup {p \in N : SizeAt(r, p[1]) = SizeAt(r, p[2])}
  BY <1>1, <1>5 DEF OlderPeers
<1> QED BY <1>6, <1>7 DEF r

LEMMA PeersRemove ==
  ASSUME NEW h \in HeapSet, NEW F, IsLinked(h, F), NEW c \in F
  PROVE  OlderPeers(remove_from_free_list(h, c)) = {p \in OlderPeers(h) : p[1] # c /\ p[2] # c}
<1> DEFINE r == remove_from_free_list(h, c)
<1>1. Older(r) = {p \in Older(h) : p[1] # c /\ p[2] # c}
  BY OlderRemove
<1>2. F \subseteq Addr
  BY DEF IsLinked, LinkedBy
<1>3. IsUnlinked(h, r, F, c)
  BY RemoveEffect
<1> HIDE DEF r
<1>4. ASSUME NEW p \in Older(h)
      PROVE  SizeAt(r, p[1]) = SizeAt(h, p[1]) /\ SizeAt(r, p[2]) = SizeAt(h, p[2])
  <2>1. p[1] \in F /\ p[2] \in F
    BY OlderRange
  <2> QED BY <1>2, <1>3, <2>1 DEF IsUnlinked
<1>5. OlderPeers(r) = {p \in OlderPeers(h) : p[1] # c /\ p[2] # c}
  BY <1>1, <1>4 DEF OlderPeers
<1> QED BY <1>5 DEF r

\* From h to r the chunks gone have left the free chunks F and those of N, of
\* size len, have joined them as the youngest.
IsChanged(h, r, F, gone, N, len) ==
  /\ \A a \in F \ gone : SizeAt(r, a) = SizeAt(h, a)
  /\ \A n \in N : SizeAt(r, n) = len
  /\ OlderPeers(r) = {p \in OlderPeers(h) : p[1] \notin gone /\ p[2] \notin gone}
                       \cup {<<a, n>> : a \in {x \in F \ gone : SizeAt(h, x) = len}, n \in N}

---------------------------------------------------------------------------
(* The operations on a sound heap.                                         *)

\* B are the places where chunks begin, F the free ones among them, of which
\* no two lie side by side.
IsSound(h, B, F) ==
  /\ h \in HeapSet /\ IsTiling(h, B) /\ IsLinked(h, F)
  /\ F = {a \in B \ {PoolUnits} : h.mem[a].is_free = 1}
  /\ \A a \in F : After(h, a) \notin F

LEMMA SoundBounds ==
  ASSUME NEW h, NEW B, NEW F, IsSound(h, B, F)
  PROVE  /\ F \subseteq B \ {PoolUnits} /\ B \ {PoolUnits} \subseteq Addr /\ B \subseteq Int
         /\ Addr \subseteq Int /\ NULL \notin Addr /\ PoolUnits \notin Addr /\ PoolUnits \in B
<1>1. IsTiling(h, B) /\ F \subseteq B \ {PoolUnits}
  BY DEF IsSound
<1>2. PoolUnits \in Nat /\ B \subseteq 0..PoolUnits /\ PoolUnits \in B
  BY <1>1, PoolAssumption DEF IsTiling
<1>3. B \ {PoolUnits} \subseteq Addr
  BY <1>2 DEF Addr
<1>4. Addr \subseteq Int /\ NULL \notin Addr /\ PoolUnits \notin Addr
  BY <1>2 DEF Addr, NULL
<1> QED BY <1>1, <1>2, <1>3, <1>4

LEMMA SizeSetExcept ==
  ASSUME NEW h \in HeapSet, NEW c \in Addr, h.mem[c] \in Header, NEW size \in 0..(PoolUnits - 1)
  PROVE  LET s == [h EXCEPT !.mem[c].chunk_size = size]
         IN /\ s \in HeapSet /\ s.lists = h.lists
            /\ \A a \in Addr \ {c} : s.mem[a] = h.mem[a]
            /\ s.mem[c] = [h.mem[c] EXCEPT !.chunk_size = size]
            /\ s.mem[c] \in Header /\ SizeAt(s, c) = size
            /\ s.mem[c].is_free = h.mem[c].is_free /\ s.mem[c].next = h.mem[c].next
<1> DEFINE s == [h EXCEPT !.mem[c].chunk_size = size]
<1>1. h = [mem |-> h.mem, lists |-> h.lists] /\ h.mem \in [Addr -> Header \cup {UserData}]
  BY DEF HeapSet
<1>2. s = [mem |-> [h.mem EXCEPT ![c] = [h.mem[c] EXCEPT !.chunk_size = size]], lists |-> h.lists]
  BY <1>1
<1>3. [h.mem[c] EXCEPT !.chunk_size = size] \in Header
  BY DEF Header
<1>4. [h.mem[c] EXCEPT !.chunk_size = size].chunk_size = size
  BY DEF Header
<1>5. /\ [h.mem[c] EXCEPT !.chunk_size = size].is_free = h.mem[c].is_free
      /\ [h.mem[c] EXCEPT !.chunk_size = size].next = h.mem[c].next
  BY DEF Header
<1> DEFINE k == [h.mem[c] EXCEPT !.chunk_size = size]
<1> HIDE DEF s, k
<1>6. s.mem = [h.mem EXCEPT ![c] = k] /\ s.lists = h.lists
  BY <1>2 DEF k
<1>7. s.mem[c] = k /\ \A a \in Addr \ {c} : s.mem[a] = h.mem[a]
  BY <1>1, <1>6
<1>8. s \in HeapSet
  <2>1. s.mem \in [Addr -> Header \cup {UserData}]
    BY <1>1, <1>3, <1>6 DEF k
  <2> QED BY <1>2, <1>6, <2>1 DEF HeapSet, k
<1> QED BY <1>3, <1>4, <1>5, <1>6, <1>7, <1>8 DEF s, k, SizeAt

\* The chunk split off behind the units taken of chunk c.
Rest(h, c, units) == IF SizeAt(h, c) - units >= 2 THEN {c + 1 + units} ELSE {}

\* What malloc leaves: c is handed out with the units asked for, or one more.
IsSplit(h, s, B, F, c, units) ==
  \E B2, F2 :
    /\ IsSound(s, B2, F2) /\ c \in B2 \ {PoolUnits} /\ c \notin F2
    /\ B2 \ F2 = (B \ F) \cup {c}
    /\ \A a \in (B \ F) \ {PoolUnits} : s.mem[a] = h.mem[a]
    /\ \A a \in Addr \ B2 : s.mem[a] = h.mem[a]
    /\ units <= SizeAt(s, c) /\ SizeAt(s, c) <= units + 1
    /\ SizeAt(s, c) = IF SizeAt(h, c) - units >= 2 THEN units ELSE SizeAt(h, c)
    /\ F2 = (F \ {c}) \cup Rest(h, c, units)
    /\ IsChanged(h, s, F, {c}, Rest(h, c, units), SizeAt(h, c) - units - 1)

LEMMA SplitEffect ==
  ASSUME NEW h, NEW B, NEW F, IsSound(h, B, F), NEW c \in F, NEW units \in Nat,
         units <= SizeAt(h, c)
  PROVE  IsSplit(h, split(h, c, units), B, F, c, units)
<1> DEFINE t == remove_from_free_list(h, c)
           k == SizeAt(h, c)
           n == c + 1 + units
           g == [t EXCEPT !.mem[c].chunk_size = units]
           s == add_to_free_list(g, n, k - units - 1)
<1>1. /\ F \subseteq B \ {PoolUnits} /\ B \ {PoolUnits} \subseteq Addr /\ B \subseteq Int
      /\ Addr \subseteq Int /\ NULL \notin Addr /\ PoolUnits \notin Addr /\ PoolUnits \in B
  BY SoundBounds
<1>2. /\ h \in HeapSet /\ IsTiling(h, B) /\ IsLinked(h, F)
      /\ F = {a \in B \ {PoolUnits} : h.mem[a].is_free = 1}
      /\ \A a \in F : After(h, a) \notin F
  BY DEF IsSound
<1>3. IsUnlinked(h, t, F, c)
  BY <1>2, RemoveEffect
<1> HIDE DEF t
<1>4. /\ c \in Addr /\ c \in B \ {PoolUnits} /\ k \in 0..(PoolUnits - 1) /\ After(h, c) = c + 1 + k
      /\ After(h, c) \in B /\ After(h, c) <= PoolUnits
  BY <1>1, <1>2, TilingBounds
<1>5. /\ split(h, c, units) = IF k - units >= 2 THEN s ELSE t
      /\ Rest(h, c, units) = IF k - units >= 2 THEN {n} ELSE {}
  BY DEF split, t, Rest
<1>6. OlderPeers(t) = {p \in OlderPeers(h) : p[1] # c /\ p[2] # c}
  BY <1>2, PeersRemove DEF t
<1>7. CASE ~(k - units >= 2)
  <2>1. SizeAt(t, c) = k /\ k \in Nat /\ units <= k /\ k <= units + 1
    BY <1>3, <1>4, <1>7 DEF IsUnlinked
  <2>2. \A a \in B \ {PoolUnits} : After(t, a) = After(h, a) /\ t.mem[a] \in Header
    <3>1. \A a \in B \ {PoolUnits} : h.mem[a] \in Header
      BY <1>2 DEF IsTiling
    <3> QED BY <1>1, <1>3, <3>1 DEF IsUnlinked, After
  <2>3. IsTiling(t, B)
    BY <1>2, <2>2 DEF IsTiling
  <2>4. F \ {c} = {a \in B \ {PoolUnits} : t.mem[a].is_free = 1}
    <3>1. ASSUME NEW a \in B \ {PoolUnits} PROVE a \in F \ {c} <=> t.mem[a].is_free = 1
      <4>1. CASE a = c
        BY <1>3, <4>1 DEF IsUnlinked
      <4>2. CASE a # c
        <5>1. t.mem[a].is_free = h.mem[a].is_free
          BY <1>1, <1>3, <4>2 DEF IsUnlinked
        <5> QED BY <1>2, <4>2, <5>1
      <4> QED BY <4>1, <4>2
    <3> QED BY <1>1, <3>1
  <2>5. IsSound(t, B, F \ {c})
    BY <1>1, <1>2, <1>3, <2>2, <2>3, <2>4 DEF IsSound, IsUnlinked
  <2>6. /\ B \ (F \ {c}) = (B \ F) \cup {c}
        /\ \A a \in (B \ F) \ {PoolUnits} : t.mem[a] = h.mem[a]
        /\ \A a \in Addr \ B : t.mem[a] = h.mem[a]
    BY <1>1, <1>3 DEF IsUnlinked
  <2>7. c \notin F \ {c}
    OBVIOUS
  <2>8. Rest(h, c, units) = {}
    BY <1>5, <1>7
  <2>9. IsChanged(h, t, F, {c}, {}, k - units - 1)
    <3>1. \A a \in F \ {c} : SizeAt(t, a) = SizeAt(h, a)
      BY <1>1, <1>3 DEF IsUnlinked
    <3> HIDE DEF k
    <3> QED BY <1>6, <3>1 DEF IsChanged
  <2>10. IsSplit(h, t, B, F, c, units)
    <3>1. F \ {c} = (F \ {c}) \cup {}
      OBVIOUS
    <3> QED BY <1>4, <1>7, <2>1, <2>5, <2>6, <2>7, <2>8, <2>9, <3>1 DEF IsSplit
  <2> QED BY <1>5, <1>7, <2>10
<1>8. CASE k - units >= 2
  <2>1. /\ n \in Int /\ c < n /\ n < After(h, c) /\ n \in Addr /\ k - units - 1 \in 0..(PoolUnits - 1)
        /\ units \in 0..(PoolUnits - 1) /\ n + 1 + (k - units - 1) = After(h, c)
    BY <1>1, <1>4, <1>8, PoolAssumption DEF Addr
  <2>2. n \notin B
    BY <1>2, <1>4, <2>1 DEF IsTiling
  <2>3. t \in HeapSet /\ t.mem[c] \in Header /\ t.mem[c].next = NULL /\ t.mem[c].is_free = 0
    BY <1>3, <1>4 DEF IsUnlinked, IsLinked, LinkedBy
  <2>4. /\ g \in HeapSet /\ g.lists = t.lists
        /\ \A a \in Addr \ {c} : g.mem[a] = t.mem[a]
        /\ g.mem[c] \in Header /\ SizeAt(g, c) = units
        /\ g.mem[c].is_free = 0 /\ g.mem[c].next = NULL
    BY <1>4, <2>1, <2>3, SizeSetExcept
  <2> HIDE DEF g
  <2>5. IsLinked(g, F \ {c})
    <3>1. IsLinked(t, F \ {c})
      BY <1>3 DEF IsUnlinked
    <3>2. \A a \in Addr \ (F \ {c}) : t.mem[a].next = NULL
      BY <3>1 DEF IsLinked, LinkedBy
    <3>3. \A a \in Addr \ (F \ {c}) : g.mem[a].next = NULL
      BY <2>4, <3>2
    <3>4. \A a \in F \ {c} : g.mem[a] = t.mem[a]
      BY <1>1, <2>4
    <3> QED BY <2>4, <3>1, <3>3, <3>4, LinkedFrame
  <2>6. Rest(h, c, units) = {n}
    BY <1>5, <1>8
  <2> HIDE DEF n, k
  <2>7. /\ IsLinkedIn(g, s, F \ {c}, n, k - units - 1)
        /\ OlderPeers(s) = OlderPeers(g) \cup
             {<<a, n>> : a \in {x \in F \ {c} : SizeAt(g, x) = k - units - 1}}
    <3>1. n \in Addr \ (F \ {c})
      BY <1>1, <2>1, <2>2
    <3> QED BY <2>1, <2>4, <2>5, <3>1, AddEffect, PeersAdd
  <2>8. OlderPeers(g) = OlderPeers(t)
    <3>1. IsLinked(t, F \ {c})
      BY <1>3 DEF IsUnlinked
    <3>2. \A a \in F \ {c} : g.mem[a] = t.mem[a]
      BY <1>1, <2>4
    <3> QED BY <2>3, <2>4, <2>5, <3>1, <3>2, PeersFrame
  <2> HIDE DEF s
  <2> DEFINE B2 == B \cup {n}
             F2 == (F \ {c}) \cup {n}
  <2>9. n # c /\ c \notin F2
    BY <1>1, <1>4, <2>1
  <2>10. /\ s \in HeapSet /\ IsLinked(s, F2)
         /\ \A a \in Addr \ F2 : s.mem[a] = g.mem[a]
         /\ \A a \in F2 : s.mem[a] \in Header
         /\ \A a \in Addr \ {n} : SizeAt(s, a) = SizeAt(g, a) /\ s.mem[a].is_free = g.mem[a].is_free
         /\ SizeAt(s, n) = k - units - 1 /\ s.mem[n].is_free = 1
    BY <2>7 DEF IsLinkedIn
  <2>11. SizeAt(s, c) = units /\ s.mem[c] \in Header /\ s.mem[c].is_free = 0
    BY <1>4, <2>4, <2>9, <2>10
  <2>12. ASSUME NEW a \in B \ {PoolUnits}, a # c
         PROVE  /\ SizeAt(s, a) = SizeAt(h, a) /\ s.mem[a].is_free = h.mem[a].is_free
                /\ s.mem[a] \in Header /\ (a \notin F => s.mem[a] = h.mem[a])
    <3>1. a \in Addr /\ a # n
      BY <1>1, <2>2
    <3>2. SizeAt(g, a) = SizeAt(h, a) /\ g.mem[a].is_free = h.mem[a].is_free
      BY <1>3, <2>4, <2>12, <3>1 DEF IsUnlinked, SizeAt
    <3>3. a \notin F => s.mem[a] = h.mem[a]
      BY <1>3, <2>4, <2>10, <2>12, <3>1 DEF IsUnlinked
    <3>4. h.mem[a] \in Header
      BY <1>2 DEF IsTiling
    <3> QED BY <2>10, <2>12, <3>1, <3>2, <3>3, <3>4
  <2>13. After(s, c) = n /\ After(s, n) = After(h, c)
    BY <2>1, <2>10, <2>11 DEF After, n
  <2>14. \A a \in B \ {PoolUnits} : a # c => After(s, a) = After(h, a) /\ After(s, a) \in B
    BY <1>2, <2>12 DEF IsTiling, After
  <2>15. IsTiling(s, B2)
    <3>1. B2 \subseteq 0..PoolUnits /\ 0 \in B2 /\ PoolUnits \in B2
      BY <1>2, <2>1, PoolAssumption DEF IsTiling, Addr
    <3>2. ASSUME NEW a \in B2 \ {PoolUnits}
          PROVE  /\ s.mem[a] \in Header /\ After(s, a) \in B2
                 /\ \A b \in B2 : ~(a < b /\ b < After(s, a))
      <4>1. CASE a = c
        <5>1. ASSUME NEW b \in B2, c < b, b < n PROVE FALSE
          <6>1. b \in B /\ b \in Int /\ n \in Int /\ After(h, c) \in Int
            BY <1>1, <1>4, <2>1, <5>1
          <6>2. b < After(h, c)
            BY <2>1, <5>1, <6>1
          <6> QED BY <1>2, <1>4, <5>1, <6>1, <6>2 DEF IsTiling
        <5> QED BY <2>11, <2>13, <4>1, <5>1
      <4>2. CASE a = n
        <5>1. ASSUME NEW b \in B2, n < b, b < After(h, c) PROVE FALSE
          <6>1. b \in B /\ b \in Int /\ n \in Int /\ c \in Int
            BY <1>1, <1>4, <2>1, <5>1
          <6>2. c < b
            BY <2>1, <5>1, <6>1
          <6> QED BY <1>2, <1>4, <5>1, <6>1, <6>2 DEF IsTiling
        <5> QED BY <1>4, <2>10, <2>13, <4>2, <5>1
      <4>3. CASE a # c /\ a # n
        <5>1. a \in B \ {PoolUnits}
          BY <4>3
        <5>2. ASSUME a < n, n < After(h, a) PROVE FALSE
          <6>1. a < c => After(h, a) <= c
            BY <1>2, <1>4, <5>1, ChunksApart
          <6>2. c < a => After(h, c) <= a
            BY <1>2, <1>4, <5>1, ChunksApart
          <6>3. a \in Int /\ c \in Int /\ n \in Int /\ After(h, a) \in Int /\ After(h, c) \in Int
            BY <1>1, <1>4, <2>1, <2>14, <4>3, <5>1
          <6> QED BY <2>1, <4>3, <5>2, <6>1, <6>2, <6>3
        <5> QED BY <1>2, <2>12, <2>14, <4>3, <5>1, <5>2 DEF IsTiling
      <4> QED BY <4>1, <4>2, <4>3
    <3> QED BY <3>1, <3>2 DEF IsTiling
  <2>16. F2 = {a \in B2 \ {PoolUnits} : s.mem[a].is_free = 1}
    <3>1. ASSUME NEW a \in B2 \ {PoolUnits} PROVE a \in F2 <=> s.mem[a].is_free = 1
      <4>1. CASE a = c
        BY <2>9, <2>11, <4>1
      <4>2. CASE a = n
        BY <2>10, <4>2
      <4>3. CASE a # c /\ a # n
        BY <1>2, <2>12, <4>3
      <4> QED BY <4>1, <4>2, <4>3
    <3>2. F2 \subseteq B2 \ {PoolUnits}
      BY <1>1, <2>1
    <3> QED BY <3>1, <3>2
  <2>17. ASSUME NEW a \in F2 PROVE After(s, a) \notin F2
    <3>1. CASE a = n
      <4>1. After(h, c) \notin F /\ After(h, c) # n
        BY <1>2, <1>4, <2>2
      <4> QED BY <2>13, <3>1, <4>1
    <3>2. CASE a # n
      <4>1. a \in F /\ a # c /\ a \in B \ {PoolUnits}
        BY <1>1, <3>2
      <4> QED BY <1>2, <2>2, <2>14, <4>1
    <3> QED BY <3>1, <3>2
  <2>18. IsSound(s, B2, F2)
    BY <2>10, <2>15, <2>16, <2>17 DEF IsSound
  <2>19. B2 \ F2 = (B \ F) \cup {c}
    BY <1>4, <2>2, <2>9
  <2>20. \A a \in (B \ F) \ {PoolUnits} : s.mem[a] = h.mem[a]
    BY <2>12
  <2>21. \A a \in Addr \ B2 : s.mem[a] = h.mem[a]
    <3>1. ASSUME NEW a \in Addr \ B2 PROVE s.mem[a] = h.mem[a]
      <4>1. a \notin F /\ a \notin F2 /\ a # c
        BY <1>1, <1>4
      <4> QED BY <1>3, <2>4, <2>10, <4>1 DEF IsUnlinked
    <3> QED BY <3>1
  <2>22. c \in B2 \ {PoolUnits} /\ units <= units /\ units <= units + 1
    BY <1>4
  <2>23. IsChanged(h, s, F, {c}, {n}, k - units - 1)
    <3>1. \A a \in F \ {c} : SizeAt(g, a) = SizeAt(h, a)
      BY <1>1, <1>3, <2>4 DEF IsUnlinked, SizeAt
    <3>2. \A a \in F \ {c} : SizeAt(s, a) = SizeAt(h, a)
      BY <1>1, <2>12
    <3>3. OlderPeers(s) = {p \in OlderPeers(h) : p[1] \notin {c} /\ p[2] \notin {c}} \cup
             {<<a, m>> : a \in {x \in F \ {c} : SizeAt(h, x) = k - units - 1}, m \in {n}}
      <4> DEFINE J == {x \in F \ {c} : SizeAt(h, x) = k - units - 1}
      <4>1. J = {x \in F \ {c} : SizeAt(g, x) = k - units - 1}
        BY <3>1
      <4> HIDE DEF J
      <4>2. OlderPeers(s) = {p \in OlderPeers(h) : p[1] # c /\ p[2] # c} \cup {<<a, n>> : a \in J}
        BY <1>6, <2>7, <2>8, <4>1
      <4> QED BY <4>2 DEF J
    <3> QED BY <2>10, <3>2, <3>3 DEF IsChanged
  <2>24. IsSplit(h, s, B, F, c, units)
    <3>1. F2 = (F \ {c}) \cup Rest(h, c, units)
      BY <2>6
    <3>2. SizeAt(s, c) = IF SizeAt(h, c) - units >= 2 THEN units ELSE SizeAt(h, c)
      BY <1>8, <2>11 DEF k
    <3>3. IsChanged(h, s, F, {c}, Rest(h, c, units), SizeAt(h, c) - units - 1)
      BY <2>6, <2>23 DEF k
    <3> HIDE DEF B2, F2
    <3>4. c \notin F2
      BY <2>9
    <3> QED BY <2>11, <2>18, <2>19, <2>20, <2>21, <2>22, <3>4, <3>1, <3>2, <3>3 DEF IsSplit
  <2> QED BY <1>5, <1>8, <2>24
<1> QED BY <1>7, <1>8

\* From h to r chunks of F have left the lists, down to those of G.
IsShrunk(h, r, F, G) ==
  /\ r \in HeapSet /\ IsLinked(r, G) /\ G \subseteq F
  /\ \A a \in Addr \ F : r.mem[a] = h.mem[a]
  /\ \A a \in F : r.mem[a] \in Header
  /\ \A a \in Addr : SizeAt(r, a) = SizeAt(h, a)
  /\ \A a \in Addr \ (F \ G) : r.mem[a].is_free = h.mem[a].is_free

LEMMA RemoveFree ==
  ASSUME NEW h \in HeapSet, NEW F, IsLinked(h, F), F \subseteq Addr, NEW x,
         \A a \in F : h.mem[a] \in Header
  PROVE  IsShrunk(h, IF x \in F THEN remove_from_free_list(h, x) ELSE h, F, F \ {x})
<1>1. CASE x \in F
  <2>1. IsUnlinked(h, remove_from_free_list(h, x), F, x)
    BY <1>1, RemoveEffect
  <2> DEFINE r == remove_from_free_list(h, x)
  <2> HIDE DEF r
  <2>2. IsShrunk(h, r, F, F \ {x})
    BY <2>1 DEF IsUnlinked, IsShrunk, r
  <2> QED BY <1>1, <2>2 DEF r
<1>2. CASE x \notin F
  <2>1. F \ {x} = F
    BY <1>2
  <2>2. IsShrunk(h, h, F, F)
    BY DEF IsShrunk
  <2> QED BY <1>2, <2>1, <2>2
<1> QED BY <1>1, <1>2

LEMMA PeersShrink ==
  ASSUME NEW h \in HeapSet, NEW F, IsLinked(h, F), NEW x
  PROVE  OlderPeers(IF x \in F THEN remove_from_free_list(h, x) ELSE h)
           = {p \in OlderPeers(h) : p[1] # x /\ p[2] # x}
<1>1. CASE x \in F
  BY <1>1, PeersRemove
<1>2. CASE x \notin F
  <2>1. \A p \in OlderPeers(h) : p[1] # x /\ p[2] # x
    BY <1>2, PeersRange
  <2> QED BY <1>2, <2>1
<1> QED BY <1>1, <1>2

LEMMA ShrunkTwice ==
  ASSUME NEW h, NEW r, NEW s, NEW F, NEW G, NEW H, F \subseteq Addr,
         IsShrunk(h, r, F, G), IsShrunk(r, s, G, H)
  PROVE  IsShrunk(h, s, F, H)
<1>1. /\ s \in HeapSet /\ IsLinked(s, H) /\ H \subseteq F /\ G \subseteq F /\ H \subseteq G
  BY DEF IsShrunk
<1>2. \A a \in Addr \ F : s.mem[a] = h.mem[a]
  BY <1>1 DEF IsShrunk
<1>3. \A a \in F : s.mem[a] \in Header
  <2>1. ASSUME NEW a \in F PROVE s.mem[a] \in Header
    <3>1. CASE a \in G
      BY <3>1 DEF IsShrunk
    <3>2. CASE a \notin G
      BY <3>2 DEF IsShrunk
    <3> QED BY <3>1, <3>2
  <2> QED BY <2>1
<1>4. \A a \in Addr : SizeAt(s, a) = SizeAt(h, a)
  BY DEF IsShrunk
<1>5. ASSUME NEW a \in Addr \ (F \ H) PROVE s.mem[a].is_free = h.mem[a].is_free
  <2>1. a \in Addr \ (F \ G) /\ a \in Addr \ (G \ H)
    BY <1>1
  <2> QED BY <2>1 DEF IsShrunk
<1> QED BY <1>1, <1>2, <1>3, <1>4, <1>5 DEF IsShrunk

\* The free chunks next to chunk c.
Beside(h, F, c) == {a \in F : After(h, a) = c \/ a = After(h, c)}

\* The chunk at m, of size len, takes up all of c and the free chunks next to it.
IsUnion(h, F, c, m, len) ==
  /\ m \in Beside(h, F, c) \cup {c}
  /\ \A a \in Beside(h, F, c) \cup {c} : m <= a /\ After(h, a) <= m + 1 + len
  /\ \E a \in Beside(h, F, c) \cup {c} : After(h, a) = m + 1 + len

\* What free leaves: c is nobody's any more.
IsCoalesced(h, r, B, F, c) ==
  \E B2, F2, m, len :
    /\ IsSound(r, B2, F2)
    /\ B2 \ F2 = (B \ F) \ {c}
    /\ \A a \in (B \ F) \ {c, PoolUnits} : r.mem[a] = h.mem[a]
    /\ \A a \in Addr \ B : r.mem[a] = h.mem[a]
    /\ F2 = (F \ Beside(h, F, c)) \cup {m}
    /\ IsUnion(h, F, c, m, len)
    /\ IsChanged(h, r, F, Beside(h, F, c), {m}, len)

\* The released chunk's header, as coalesce sets it.
Owned(h, c, size) == [h EXCEPT !.mem[c].chunk_size = size, !.mem[c].is_free = 1]

LEMMA OwnHeader ==
  ASSUME NEW h \in HeapSet, NEW c \in Addr, h.mem[c] \in Header, NEW size \in 0..(PoolUnits - 1)
  PROVE  LET s == Owned(h, c, size)
         IN /\ s \in HeapSet /\ s.lists = h.lists
            /\ \A a \in Addr \ {c} : s.mem[a] = h.mem[a]
            /\ s.mem[c] \in Header /\ s.mem[c].next = h.mem[c].next
<1> DEFINE k == [h.mem[c] EXCEPT !.chunk_size = size, !.is_free = 1]
           s == [h EXCEPT !.mem[c].chunk_size = size, !.mem[c].is_free = 1]
<1>1. h = [mem |-> h.mem, lists |-> h.lists] /\ h.mem \in [Addr -> Header \cup {UserData}]
  BY DEF HeapSet
<1>2. s = [mem |-> [h.mem EXCEPT ![c] = k], lists |-> h.lists]
  <2> DEFINE k1 == [h.mem[c] EXCEPT !.chunk_size = size]
             g == [h EXCEPT !.mem[c].chunk_size = size]
  <2>1. g = [mem |-> [h.mem EXCEPT ![c] = k1], lists |-> h.lists]
    BY <1>1
  <2>2. s = [g EXCEPT !.mem[c].is_free = 1]
    OBVIOUS
  <2>3. k = [k1 EXCEPT !.is_free = 1]
    OBVIOUS
  <2> HIDE DEF g, k1, s, k
  <2>4. g.mem = [h.mem EXCEPT ![c] = k1] /\ g.lists = h.lists
    BY <2>1
  <2>5. s = [mem |-> [g.mem EXCEPT ![c] = [g.mem[c] EXCEPT !.is_free = 1]], lists |-> g.lists]
    BY <2>1, <2>2
  <2>6. g.mem[c] = k1 /\ [g.mem EXCEPT ![c] = k] = [h.mem EXCEPT ![c] = k]
    BY <1>1, <2>4
  <2> QED BY <2>3, <2>4, <2>5, <2>6
<1>3. k \in Header /\ k.next = h.mem[c].next
  BY DEF Header
<1> HIDE DEF s, k
<1>4. s.mem = [h.mem EXCEPT ![c] = k] /\ s.lists = h.lists
  BY <1>2
<1>5. s.mem[c] = k /\ \A a \in Addr \ {c} : s.mem[a] = h.mem[a]
  BY <1>1, <1>4
<1>6. s \in HeapSet
  <2>1. s.mem \in [Addr -> Header \cup {UserData}]
    BY <1>1, <1>3, <1>4
  <2> QED BY <1>2, <1>4, <2>1 DEF HeapSet
<1> QED BY <1>3, <1>4, <1>5, <1>6 DEF s, Owned

LEMMA CoalesceEffect ==
  ASSUME NEW h, NEW B, NEW F, IsSound(h, B, F), NEW c \in B \ {PoolUnits}, c \notin F
  PROVE  IsCoalesced(h, coalesce(h, c), B, F, c)
<1> DEFINE nx == After(h, c)
           pv == prev_chunk_in_mem(h, c)
           h1 == IF nx \in F THEN remove_from_free_list(h, nx) ELSE h
           F1 == F \ {nx}
           s1 == SizeAt(h, c) + (IF nx \in F THEN 1 + SizeAt(h, nx) ELSE 0)
           h2 == IF pv \in F1 THEN remove_from_free_list(h1, pv) ELSE h1
           G  == F1 \ {pv}
           own == [h2 EXCEPT !.mem[c].chunk_size = s1, !.mem[c].is_free = 1]
           m == IF pv \in F THEN pv ELSE c
           sz == IF pv \in F THEN SizeAt(h, pv) + 1 + s1 ELSE s1
           e == IF nx \in F THEN After(h, nx) ELSE nx
           r == add_to_free_list(own, m, sz)
<1>1. /\ F \subseteq B \ {PoolUnits} /\ B \ {PoolUnits} \subseteq Addr /\ B \subseteq Int
      /\ Addr \subseteq Int /\ NULL \notin Addr /\ PoolUnits \notin Addr /\ PoolUnits \in B
  BY SoundBounds
<1>2. /\ h \in HeapSet /\ IsTiling(h, B) /\ IsLinked(h, F)
      /\ F = {a \in B \ {PoolUnits} : h.mem[a].is_free = 1}
      /\ \A a \in F : After(h, a) \notin F
  BY DEF IsSound
<1>3. /\ c \in Addr /\ nx \in B /\ c < nx /\ nx <= PoolUnits /\ nx = c + 1 + SizeAt(h, c)
      /\ SizeAt(h, c) \in 0..(PoolUnits - 1) /\ nx \in Int /\ c \in Int
  BY <1>1, <1>2, TilingBounds
<1>4. /\ pv # NULL => pv \in B \ {PoolUnits} /\ pv < c /\ After(h, pv) = c
      /\ \A a \in B \ {PoolUnits} : After(h, a) = c => a = pv
  BY <1>2, PrevChunkIs
<1>5. IsFree(h, next_chunk_in_mem(h, c)) <=> nx \in F
  <2>1. CASE nx >= PoolUnits
    <3>1. nx = PoolUnits
      BY <1>3, <2>1, PoolAssumption
    <3> QED BY <1>1, <2>1, <3>1 DEF IsFree, next_chunk_in_mem
  <2>2. CASE ~(nx >= PoolUnits)
    <3>1. nx \in B \ {PoolUnits} /\ nx # NULL
      BY <1>1, <1>3, <2>2, PoolAssumption
    <3> QED BY <1>2, <2>2, <3>1 DEF IsFree, next_chunk_in_mem
  <2> QED BY <2>1, <2>2
<1>6. nx \in F => next_chunk_in_mem(h, c) = nx
  <2>1. nx \in F => nx \in Addr
    BY <1>1
  <2>2. nx \in Addr => ~(nx >= PoolUnits)
    BY PoolAssumption DEF Addr
  <2> HIDE DEF nx
  <2>3. nx \in F => next_chunk_in_mem(h, c) = After(h, c)
    BY <2>1, <2>2 DEF next_chunk_in_mem, nx
  <2> QED BY <2>3 DEF nx
<1>7. IsFree(h, pv) <=> pv \in F
  BY <1>1, <1>2, <1>4 DEF IsFree
<1>8. pv \in F => pv \in F1 /\ pv # NULL
  <2> HIDE DEF pv, nx
  <2> SUFFICES ASSUME pv \in F PROVE pv # nx /\ pv # NULL
    OBVIOUS
  <2>1. pv \in Addr /\ pv \in Int /\ pv # NULL
    BY <1>1
  <2>2. pv < c
    BY <1>4, <2>1
  <2> QED BY <1>3, <2>1, <2>2
<1>9. coalesce(h, c) = r
  <2> DEFINE next == next_chunk_in_mem(h, c)
             k1 == IF IsFree(h, next) THEN remove_from_free_list(h, next) ELSE h
             t1 == SizeAt(h, c) + (IF IsFree(h, next) THEN 1 + SizeAt(h, next) ELSE 0)
             k2 == IF IsFree(h, pv) THEN remove_from_free_list(k1, pv) ELSE k1
             mine == [k2 EXCEPT !.mem[c].chunk_size = t1, !.mem[c].is_free = 1]
  <2>1. coalesce(h, c) = IF IsFree(h, pv)
                         THEN add_to_free_list(mine, pv, SizeAt(h, pv) + 1 + t1)
                         ELSE add_to_free_list(mine, c, t1)
    BY DEF coalesce
  <2>2. k1 = h1 /\ t1 = s1
    BY <1>5, <1>6
  <2> HIDE DEF k1, t1, h1, s1
  <2>3. k2 = h2
    BY <1>7, <1>8, <2>2
  <2> HIDE DEF k2, h2
  <2>4. mine = own
    BY <2>2, <2>3
  <2> HIDE DEF mine, own, pv
  <2> QED BY <1>7, <2>1, <2>2, <2>4
<1>10. \A a \in B \ {PoolUnits} : h.mem[a] \in Header
  BY <1>2 DEF IsTiling
<1>11. IsShrunk(h, h1, F, F1)
  <2>1. F \subseteq Addr /\ \A a \in F : h.mem[a] \in Header
    BY <1>1, <1>10
  <2> HIDE DEF nx
  <2> QED BY <1>2, <2>1, RemoveFree
<1>12. OlderPeers(h1) = {p \in OlderPeers(h) : p[1] # nx /\ p[2] # nx}
  <2> HIDE DEF nx
  <2> QED BY <1>2, PeersShrink
<1> HIDE DEF h1
<1>13. IsShrunk(h1, h2, F1, G)
  <2>1. F1 \subseteq Addr
    BY <1>1
  <2>2. h1 \in HeapSet /\ IsLinked(h1, F1) /\ \A a \in F1 : h1.mem[a] \in Header
    BY <1>11 DEF IsShrunk
  <2> HIDE DEF F1, pv
  <2> QED BY <2>1, <2>2, RemoveFree
<1>14. OlderPeers(h2) = {p \in OlderPeers(h1) : p[1] # pv /\ p[2] # pv}
  <2>1. h1 \in HeapSet /\ IsLinked(h1, F1)
    BY <1>11 DEF IsShrunk
  <2> HIDE DEF F1, pv
  <2> QED BY <2>1, PeersShrink
<1> HIDE DEF h2
<1>15. IsShrunk(h, h2, F, G)
  <2>1. F \subseteq Addr
    BY <1>1
  <2> HIDE DEF F1, G
  <2> QED BY <1>11, <1>13, <2>1, ShrunkTwice
<1>16. G \subseteq F /\ c \notin G /\ nx \notin G /\ pv \notin G /\ \A a \in F : a # nx /\ a # pv => a \in G
  OBVIOUS
<1>17. Beside(h, F, c) = F \cap {nx, pv}
  <2>1. \A a \in F : After(h, a) = c <=> a = pv
    BY <1>1, <1>4, <1>8
  <2> QED BY <2>1 DEF Beside
<1>18. G = F \ Beside(h, F, c)
  BY <1>17
<1>19. nx \in F => /\ After(h, nx) \in B /\ nx < After(h, nx) /\ After(h, nx) <= PoolUnits
                   /\ After(h, nx) = nx + 1 + SizeAt(h, nx) /\ SizeAt(h, nx) \in 0..(PoolUnits - 1)
  BY <1>1, <1>2, TilingBounds
<1>20. pv \in F => pv \in B \ {PoolUnits} /\ After(h, pv) = pv + 1 + SizeAt(h, pv) /\ SizeAt(h, pv) \in 0..(PoolUnits - 1)
  BY <1>1, <1>2, TilingBounds
<1> HIDE DEF nx, pv, G
<1>21. s1 \in Nat /\ e = c + 1 + s1 /\ e \in B /\ c < e /\ e <= PoolUnits /\ e \in Int
  BY <1>1, <1>3, <1>19
<1>22. s1 \in 0..(PoolUnits - 1)
  BY <1>3, <1>21, PoolAssumption DEF Addr
<1> HIDE DEF s1, e
<1>23. /\ m \in B \ {PoolUnits} /\ m \in Addr /\ m \in Int /\ m <= c /\ sz \in 0..(PoolUnits - 1)
       /\ e = m + 1 + sz /\ m < e /\ m \notin G
  <2>1. CASE pv \in F
    <3>1. pv \in B \ {PoolUnits} /\ pv < c /\ c = pv + 1 + SizeAt(h, pv) /\ SizeAt(h, pv) \in Nat
      BY <1>4, <1>8, <1>20, <2>1
    <3>2. m = pv /\ sz = SizeAt(h, pv) + 1 + s1 /\ m \in Addr /\ m \in Int
      BY <1>1, <2>1, <3>1
    <3>3. e = m + 1 + sz /\ sz \in Nat
      BY <1>21, <3>1, <3>2
    <3>4. m >= 0 /\ sz <= PoolUnits - 1
      BY <1>21, <3>2, <3>3, PoolAssumption DEF Addr
    <3> HIDE DEF m, sz
    <3> QED BY <1>3, <1>16, <1>21, <3>1, <3>2, <3>3, <3>4, PoolAssumption
  <2>2. CASE pv \notin F
    <3>1. m = c /\ sz = s1
      BY <2>2
    <3> HIDE DEF m, sz
    <3> QED BY <1>3, <1>16, <1>21, <1>22, <3>1
  <2> QED BY <2>1, <2>2
<1>24. m = pv \/ m = c
  OBVIOUS
<1>25. pv \in F => m = pv
  OBVIOUS
<1>26. pv \notin F => m = c
  OBVIOUS
<1>27. e \notin F
  BY <1>2 DEF e
<1> HIDE DEF m, sz
\* Between m and e there are only c and the chunk behind it.
<1>28. ASSUME NEW b \in B, m < b, b < e PROVE b = c \/ (b = nx /\ nx \in F)
  <2>1. b \in Int /\ c \in Int /\ nx \in Int /\ m \in Int
    BY <1>1, <1>3, <1>23
  <2>2. ~(b < c)
    <3>1. CASE pv \in F
      <4>1. m = pv /\ After(h, m) = c
        BY <1>4, <1>8, <1>25, <3>1
      <4> QED BY <1>2, <1>23, <1>28, <4>1 DEF IsTiling
    <3>2. CASE pv \notin F
      BY <1>26, <1>28, <2>1, <3>2
    <3> QED BY <3>1, <3>2
  <2>3. b > c => nx <= b
    BY <1>2, ChunksApart DEF nx
  <2>4. b > nx => nx \in F
    BY <1>28, <2>1 DEF e
  <2>5. b > nx => FALSE
    <3> SUFFICES ASSUME b > nx PROVE FALSE
      OBVIOUS
    <3>1. nx \in F /\ e = After(h, nx) /\ nx \in B \ {PoolUnits}
      BY <1>1, <2>4 DEF e
    <3> QED BY <1>2, <1>28, <2>1, <3>1 DEF IsTiling
  <2>6. b = nx => nx \in F
    BY <1>28, <2>1 DEF e
  <2> QED BY <2>1, <2>2, <2>3, <2>5, <2>6
<1>29. /\ h2 \in HeapSet /\ IsLinked(h2, G)
       /\ \A a \in Addr \ F : h2.mem[a] = h.mem[a]
       /\ \A a \in F : h2.mem[a] \in Header
       /\ \A a \in Addr : SizeAt(h2, a) = SizeAt(h, a)
       /\ \A a \in Addr \ (F \ G) : h2.mem[a].is_free = h.mem[a].is_free
  BY <1>15 DEF IsShrunk
<1>30. /\ own \in HeapSet /\ own.lists = h2.lists
       /\ \A a \in Addr \ {c} : own.mem[a] = h2.mem[a]
       /\ own.mem[c] \in Header /\ own.mem[c].next = h2.mem[c].next
  <2>1. h2.mem[c] \in Header
    BY <1>3, <1>10, <1>29
  <2>2. h2 \in HeapSet /\ c \in Addr /\ s1 \in 0..(PoolUnits - 1)
    BY <1>3, <1>22, <1>29
  <2> HIDE DEF h2, s1
  <2>3. LET g == Owned(h2, c, s1)
        IN /\ g \in HeapSet /\ g.lists = h2.lists
           /\ \A a \in Addr \ {c} : g.mem[a] = h2.mem[a]
           /\ g.mem[c] \in Header /\ g.mem[c].next = h2.mem[c].next
    BY <2>1, <2>2, OwnHeader
  <2> QED BY <2>3 DEF Owned
<1> HIDE DEF own
<1>31. IsLinked(own, G)
  <2>1. \A a \in Addr \ G : h2.mem[a].next = NULL
    BY <1>29 DEF IsLinked, LinkedBy
  <2>2. \A a \in Addr \ G : own.mem[a].next = NULL
    BY <1>3, <1>30, <2>1
  <2>3. \A a \in G : own.mem[a] = h2.mem[a]
    BY <1>1, <1>16, <1>30
  <2> QED BY <1>29, <1>30, <2>2, <2>3, LinkedFrame
<1>32. /\ IsLinkedIn(own, r, G, m, sz)
       /\ OlderPeers(r) = OlderPeers(own) \cup
            {<<a, m>> : a \in {x \in G : SizeAt(own, x) = sz}}
  <2>1. m \in Addr \ G
    BY <1>23
  <2> QED BY <1>23, <1>30, <1>31, <2>1, AddEffect, PeersAdd
<1>33. OlderPeers(own) = OlderPeers(h2)
  <2>1. \A a \in G : own.mem[a] = h2.mem[a]
    BY <1>1, <1>16, <1>30
  <2> QED BY <1>29, <1>30, <1>31, <2>1, PeersFrame
<1> HIDE DEF r
<1> DEFINE B2 == {b \in B : ~(m < b /\ b < e)}
           F2 == G \cup {m}
<1>34. /\ r \in HeapSet /\ IsLinked(r, F2)
       /\ \A a \in Addr \ F2 : r.mem[a] = own.mem[a]
       /\ \A a \in F2 : r.mem[a] \in Header
       /\ \A a \in Addr \ {m} : SizeAt(r, a) = SizeAt(own, a) /\ r.mem[a].is_free = own.mem[a].is_free
       /\ SizeAt(r, m) = sz /\ r.mem[m].is_free = 1
  BY <1>32 DEF IsLinkedIn
<1>35. c = m \/ (m < c /\ c < e)
  BY <1>3, <1>21, <1>23
<1>36. ASSUME NEW a \in B2 \ {PoolUnits}, a # m
       PROVE  /\ a # c /\ a \in B \ {PoolUnits} /\ a \in Addr
              /\ SizeAt(r, a) = SizeAt(h, a) /\ r.mem[a] \in Header
              /\ (a \in F <=> a \in G) /\ r.mem[a].is_free = h.mem[a].is_free
  <2>1. a # c /\ a \in B \ {PoolUnits} /\ a \in Addr
    BY <1>1, <1>35, <1>36
  <2>2. SizeAt(r, a) = SizeAt(h, a)
    BY <1>29, <1>30, <1>34, <1>36, <2>1 DEF SizeAt
  <2>3. a \in F => a \in G
    <3> SUFFICES ASSUME a \in F PROVE a # nx /\ a # pv
      BY <1>16
    <3>1. a # pv
      BY <1>25, <1>36
    <3>2. a = nx => FALSE
      <4> SUFFICES ASSUME a = nx PROVE FALSE
        OBVIOUS
      <4>1. e = After(h, nx) /\ nx < e
        BY <1>19 DEF e
      <4>2. m < nx
        BY <1>1, <1>3, <1>23
      <4> QED BY <4>1, <4>2
    <3> QED BY <3>1, <3>2
  <2>4. a \in F <=> a \in G
    BY <1>16, <2>3
  <2>5. r.mem[a].is_free = h.mem[a].is_free
    BY <1>29, <1>30, <1>34, <1>36, <2>1, <2>4
  <2>6. r.mem[a] \in Header
    <3>1. CASE a \in F2
      BY <1>34, <3>1
    <3>2. CASE a \notin F2
      BY <1>10, <1>29, <1>30, <1>34, <2>1, <2>4, <3>2
    <3> QED BY <3>1, <3>2
  <2> QED BY <2>1, <2>2, <2>4, <2>5, <2>6
<1>37. After(r, m) = e
  BY <1>23, <1>34 DEF After
<1>38. ASSUME NEW a \in B2 \ {PoolUnits}, a # m
       PROVE  After(r, a) = After(h, a) /\ After(h, a) \in B2
  <2>1. After(r, a) = After(h, a)
    BY <1>36, <1>38 DEF After
  <2>2. a \in B \ {PoolUnits} /\ a \in Int /\ After(h, a) \in B /\ After(h, a) \in Int /\ a < After(h, a)
    BY <1>1, <1>2, TilingBounds
  <2>3. a < m => After(h, a) <= m
    BY <1>2, <1>23, <2>2, ChunksApart
  <2>4. ~(a < m) => e <= a
    BY <1>21, <1>23, <1>38, <2>2
  <2>5. ~(m < After(h, a) /\ After(h, a) < e)
    BY <1>21, <1>23, <2>2, <2>3, <2>4
  <2> QED BY <2>1, <2>2, <2>5
<1>39. B2 \subseteq B /\ m \in B2 \ {PoolUnits} /\ e \in B2 /\ PoolUnits \in B2 /\ 0 \in B2
  <2>1. 0 \in B /\ ~(m < 0)
    BY <1>2, <1>23, PoolAssumption DEF IsTiling, Addr
  <2>2. ~(PoolUnits < e) /\ ~(m < m) /\ ~(e < e)
    BY <1>21, <1>23, PoolAssumption
  <2> QED BY <1>1, <1>21, <1>23, <2>1, <2>2, PoolAssumption
<1>40. IsTiling(r, B2)
  <2>1. ASSUME NEW a \in B2 \ {PoolUnits}
        PROVE  /\ r.mem[a] \in Header /\ After(r, a) \in B2
               /\ \A b \in B2 : ~(a < b /\ b < After(r, a))
    <3>1. CASE a = m
      BY <1>34, <1>37, <1>39, <3>1
    <3>2. CASE a # m
      BY <1>2, <1>36, <1>38, <1>39, <3>2 DEF IsTiling
    <3> QED BY <3>1, <3>2
  <2>2. B2 \subseteq 0..PoolUnits
    BY <1>2 DEF IsTiling
  <2> QED BY <1>39, <2>1, <2>2 DEF IsTiling
<1>41. F2 \subseteq B2 \ {PoolUnits}
  <2>1. ASSUME NEW a \in G PROVE a \in B2 \ {PoolUnits}
    <3>1. a \in F /\ a \in B /\ a # PoolUnits /\ a # nx /\ a # c
      BY <1>1, <1>16
    <3> QED BY <1>28, <3>1
  <2> QED BY <1>39, <2>1
<1>42. F2 = {a \in B2 \ {PoolUnits} : r.mem[a].is_free = 1}
  <2>1. ASSUME NEW a \in B2 \ {PoolUnits} PROVE a \in F2 <=> r.mem[a].is_free = 1
    <3>1. CASE a = m
      BY <1>34, <3>1
    <3>2. CASE a # m
      BY <1>2, <1>36, <3>2
    <3> QED BY <3>1, <3>2
  <2> QED BY <1>41, <2>1
<1>43. ASSUME NEW a \in F2 PROVE After(r, a) \notin F2
  <2>1. CASE a = m
    BY <1>16, <1>21, <1>23, <1>27, <1>37, <2>1
  <2>2. CASE a # m
    <3>1. a \in F /\ a \in B2 \ {PoolUnits} /\ After(r, a) = After(h, a) /\ After(h, a) \notin F
      BY <1>2, <1>16, <1>38, <1>41, <2>2
    <3>2. After(h, a) # m
      <4>1. pv \notin F => After(h, a) # c
        BY <1>1, <1>4, <3>1
      <4> QED BY <1>25, <1>26, <3>1, <4>1
    <3> QED BY <1>16, <3>1, <3>2
  <2> QED BY <2>1, <2>2
<1>44. IsSound(r, B2, F2)
  BY <1>34, <1>40, <1>42, <1>43 DEF IsSound
<1>45. B2 \ F2 = (B \ F) \ {c}
  <2>1. ASSUME NEW b \in B2, b \notin F2 PROVE b \in (B \ F) \ {c}
    <3>1. CASE b = PoolUnits
      BY <1>1, <1>3, <1>39, <3>1
    <3>2. CASE b # PoolUnits
      BY <1>36, <2>1, <3>2
    <3> QED BY <3>1, <3>2
  <2>2. ASSUME NEW b \in (B \ F) \ {c} PROVE b \in B2 /\ b \notin F2
    <3>1. b # m
      BY <1>25, <1>26
    <3>2. b \in B2
      BY <1>28
    <3> QED BY <1>16, <3>1, <3>2
  <2> QED BY <2>1, <2>2
<1>46. \A a \in (B \ F) \ {c, PoolUnits} : r.mem[a] = h.mem[a]
  <2>1. ASSUME NEW a \in (B \ F) \ {c, PoolUnits} PROVE r.mem[a] = h.mem[a]
    <3>1. a \in Addr /\ a \notin F2 /\ a # c /\ a \notin F
      BY <1>1, <1>45
    <3> QED BY <1>29, <1>30, <1>34, <3>1
  <2> QED BY <2>1
<1>47. \A a \in Addr \ B : r.mem[a] = h.mem[a]
  <2>1. ASSUME NEW a \in Addr \ B PROVE r.mem[a] = h.mem[a]
    <3>1. a \notin F2 /\ a # c /\ a \notin F
      BY <1>1, <1>39, <1>41
    <3> QED BY <1>29, <1>30, <1>34, <3>1
  <2> QED BY <2>1
<1>48. IsChanged(h, r, F, Beside(h, F, c), {m}, sz)
  <2>1. \A a \in G : SizeAt(own, a) = SizeAt(h, a)
    BY <1>1, <1>16, <1>29, <1>30 DEF SizeAt
  <2>2. \A a \in G : SizeAt(r, a) = SizeAt(h, a)
    BY <1>1, <1>16, <1>23, <1>34, <2>1
  <2>3. OlderPeers(own) = {p \in OlderPeers(h) : p[1] \notin Beside(h, F, c) /\ p[2] \notin Beside(h, F, c)}
    <3>1. \A p \in OlderPeers(h) : p[1] \in F /\ p[2] \in F
      BY <1>2, PeersRange
    <3>2. OlderPeers(own) = {p \in OlderPeers(h) : p[1] # nx /\ p[2] # nx /\ p[1] # pv /\ p[2] # pv}
      BY <1>12, <1>14, <1>33
    <3> QED BY <1>17, <3>1, <3>2
  <2> DEFINE J == {x \in G : SizeAt(h, x) = sz}
  <2>4. J = {x \in G : SizeAt(own, x) = sz}
    BY <2>1
  <2>5. J = {x \in F \ Beside(h, F, c) : SizeAt(h, x) = sz}
    BY <1>18
  <2> HIDE DEF J
  <2>6. OlderPeers(r) = OlderPeers(own) \cup {<<a, n>> : a \in J, n \in {m}}
    BY <1>32, <2>4
  <2> QED BY <1>34, <1>18, <2>2, <2>3, <2>5, <2>6 DEF IsChanged
<1>49. IsUnion(h, F, c, m, sz)
  <2>1. c < nx /\ nx <= e /\ c \in Int /\ e \in Int /\ m \in Int
    <3>1. nx \in F => nx < After(h, nx)
      BY <1>19
    <3> QED BY <1>3, <1>21, <1>23, <3>1 DEF e
  <2>2. m \in Beside(h, F, c) \cup {c}
    BY <1>24, <1>25, <1>26, <1>17
  <2>3. ASSUME NEW a \in Beside(h, F, c) \cup {c} PROVE m <= a /\ After(h, a) <= e
    <3>1. CASE a = c
      BY <1>23, <2>1, <3>1 DEF nx
    <3>2. CASE a # c /\ a = nx
      <4>1. nx \in F
        BY <1>17, <2>3, <3>2
      <4>2. After(h, nx) = e
        BY <4>1 DEF e
      <4> QED BY <1>3, <1>23, <2>1, <3>2, <4>2
    <3>3. CASE a # c /\ a # nx
      <4>1. a = pv /\ pv \in F
        BY <1>17, <2>3, <3>3
      <4>2. m = a /\ After(h, a) = c
        BY <1>4, <1>8, <1>25, <4>1
      <4> QED BY <1>3, <2>1, <4>2
    <3> QED BY <3>1, <3>2, <3>3
  <2>4. \E a \in Beside(h, F, c) \cup {c} : After(h, a) = e
    <3>1. CASE nx \in F
      BY <1>17, <3>1 DEF e
    <3>2. CASE nx \notin F
      BY <3>2 DEF e, nx
    <3> QED BY <3>1, <3>2
  <2> QED BY <1>23, <2>2, <2>3, <2>4 DEF IsUnion
<1>50. IsCoalesced(h, r, B, F, c)
  <2>1. F2 = (F \ Beside(h, F, c)) \cup {m}
    BY <1>18
  <2> HIDE DEF B2, F2
  <2> QED BY <1>44, <1>45, <1>46, <1>47, <1>48, <1>49, <2>1 DEF IsCoalesced
<1> QED BY <1>9, <1>50

\* A new pool is one free chunk.
LEMMA InitPoolSound == IsSound(init_pool, {0, PoolUnits}, {0})
<1>1. Unmapped \in HeapSet /\ \A a \in Addr : Unmapped.mem[a].next = NULL
  <2>1. Zeros \in Header /\ Zeros.next = NULL
    BY PoolAssumption DEF Zeros, Header
  <2> HIDE DEF Zeros
  <2> QED BY <2>1 DEF Unmapped, HeapSet
<1>2. IsLinked(Unmapped, {})
  <2> DEFINE rank == [a \in Addr |-> 0]
  <2>1. rank \in [Addr -> Nat] /\ 0 \in Nat
    OBVIOUS
  <2>2. \A l \in Levels : Unmapped.lists[l] = NULL
    BY DEF Unmapped
  <2>3. LinkedBy(Unmapped, {}, rank, 0)
    BY <1>1, <2>2 DEF LinkedBy
  <2> QED BY <2>1, <2>3 DEF IsLinked
<1>3. 0 \in Addr \ {} /\ PoolUnits - 1 \in 0..(PoolUnits - 1) /\ PoolUnits # 0 /\ {} \cup {0} = {0}
  BY PoolAssumption DEF Addr
<1> DEFINE r == init_pool
<1>4. IsLinkedIn(Unmapped, r, {}, 0, PoolUnits - 1)
  BY <1>1, <1>2, <1>3, AddEffect DEF init_pool
<1> HIDE DEF r
<1>5. /\ r \in HeapSet /\ IsLinked(r, {0}) /\ r.mem[0] \in Header
      /\ SizeAt(r, 0) = PoolUnits - 1 /\ r.mem[0].is_free = 1
  BY <1>3, <1>4 DEF IsLinkedIn
<1>6. After(r, 0) = PoolUnits
  BY <1>5, PoolAssumption DEF After
<1>7. IsTiling(r, {0, PoolUnits})
  BY <1>5, <1>6, PoolAssumption DEF IsTiling
<1>8. {0} = {a \in {0, PoolUnits} \ {PoolUnits} : r.mem[a].is_free = 1}
  BY <1>3, <1>5
<1>9. \A a \in {0} : After(r, a) \notin {0}
  BY <1>3, <1>6
<1> QED BY <1>5, <1>7, <1>8, <1>9 DEF IsSound, r

---------------------------------------------------------------------------
(* What malloc finds.                                                      *)

LEMMA LevelIs ==
  ASSUME NEW size \in Nat
  PROVE  \E f : /\ f[0] = size
                /\ \A i \in Levels : f[i] \in Nat /\ (i # 0 => f[i] = f[i - 1] \div 2)
                /\ compute_level(size) = Min({i \in Levels : f[i] = 0} \cup {NUM_LEVELS - 1})
<1> DEFINE F == [q \in Levels \X Nat |-> q[2] \div 2]
           Halves(g) == g = [i \in Levels |-> IF i = 0 THEN size ELSE g[i - 1] \div 2]
<1>1. NUM_LEVELS - 1 \in Int /\ 0 <= NUM_LEVELS - 1 /\ Levels = 0..(NUM_LEVELS - 1)
  BY LevelAssumption DEF Levels
<1>2. F \in [Levels \X Nat -> Nat]
  <2>1. \A q \in Levels \X Nat : q[2] \div 2 \in Nat
    OBVIOUS
  <2> QED BY <2>1
<1>3. PICK s : IsLoop(s, 0, NUM_LEVELS - 1, Nat, size, F)
  <2> HIDE DEF F
  <2>1. F \in [(0..(NUM_LEVELS - 1)) \X Nat -> Nat] /\ 0 \in Int
    BY <1>1, <1>2
  <2> QED BY <1>1, <2>1, LoopExists
<1>4. s \in [Levels -> Nat] /\ s[0] = size /\ \A j \in Levels : j # 0 => s[j] = F[<<j, s[j - 1]>>]
  BY <1>1, <1>3 DEF IsLoop
<1>5. ASSUME NEW i \in Levels PROVE s[i] = IF i = 0 THEN size ELSE s[i - 1] \div 2
  <2>1. i # 0 => i - 1 \in Levels
    BY <1>1
  <2>2. i # 0 => s[i - 1] \in Nat
    BY <1>4, <2>1
  <2> QED BY <1>4, <2>2
<1>6. Halves(s)
  BY <1>4, <1>5
<1> DEFINE f == CHOOSE g : Halves(g)
<1>7. Halves(f)
  BY <1>6, Zenon
<1>8. compute_level(size) = Min({i \in Levels : f[i] = 0} \cup {NUM_LEVELS - 1})
  BY DEF compute_level
<1> HIDE DEF f
<1>9. \A i \in Levels : f[i] = IF i = 0 THEN size ELSE f[i - 1] \div 2
  BY <1>7
<1>10. 0 \in Levels
  BY <1>1
<1> DEFINE T == {i \in Levels : f[i] \in Nat}
<1>11. ASSUME NEW i \in 0..((NUM_LEVELS - 1) - 1), i \in T PROVE i + 1 \in T
  <2>1. i + 1 \in Levels /\ i + 1 # 0 /\ (i + 1) - 1 = i
    BY <1>1
  <2>2. f[i + 1] = f[i] \div 2 /\ f[i] \in Nat
    BY <1>9, <1>11, <2>1
  <2> QED BY <2>1, <2>2
<1>12. Levels \subseteq T
  <2>1. 0 \in T
    BY <1>9, <1>10
  <2>2. 0 \in Int
    OBVIOUS
  <2> HIDE DEF T
  <2>3. 0..(NUM_LEVELS - 1) \subseteq T
    BY <1>1, <1>11, <2>1, <2>2, IntervalInduction
  <2> QED BY <1>1, <2>3
<1>13. f[0] = size /\ \A i \in Levels : f[i] \in Nat /\ (i # 0 => f[i] = f[i - 1] \div 2)
  BY <1>9, <1>10, <1>12
<1> QED BY <1>8, <1>13

\* A larger chunk is in no lower level.
LEMMA LevelsGrow ==
  ASSUME NEW x \in Nat, NEW y \in Nat, x <= y
  PROVE  compute_level(x) <= compute_level(y)
<1>1. PICK f : /\ f[0] = x
               /\ \A i \in Levels : f[i] \in Nat /\ (i # 0 => f[i] = f[i - 1] \div 2)
               /\ compute_level(x) = Min({i \in Levels : f[i] = 0} \cup {NUM_LEVELS - 1})
  BY LevelIs
<1>2. PICK g : /\ g[0] = y
               /\ \A i \in Levels : g[i] \in Nat /\ (i # 0 => g[i] = g[i - 1] \div 2)
               /\ compute_level(y) = Min({i \in Levels : g[i] = 0} \cup {NUM_LEVELS - 1})
  BY LevelIs
<1>3. NUM_LEVELS - 1 \in Int /\ 0 <= NUM_LEVELS - 1 /\ Levels = 0..(NUM_LEVELS - 1)
  BY LevelAssumption DEF Levels
<1> DEFINE T == {i \in Levels : f[i] <= g[i]}
<1>4. ASSUME NEW i \in 0..((NUM_LEVELS - 1) - 1), i \in T PROVE i + 1 \in T
  <2>1. i + 1 \in Levels /\ i + 1 # 0 /\ (i + 1) - 1 = i /\ i \in Levels
    BY <1>3
  <2>2. f[i + 1] = f[i] \div 2 /\ g[i + 1] = g[i] \div 2
    BY <1>1, <1>2, <2>1
  <2>3. f[i] \in Nat /\ g[i] \in Nat /\ f[i] <= g[i]
    BY <1>1, <1>2, <1>4, <2>1
  <2>4. f[i] \div 2 <= g[i] \div 2
    BY <2>3
  <2> QED BY <2>1, <2>2, <2>4
<1>5. Levels \subseteq T
  <2>1. 0 \in T /\ 0 \in Int
    BY <1>1, <1>2, <1>3
  <2> HIDE DEF T
  <2>2. 0..(NUM_LEVELS - 1) \subseteq T
    BY <1>3, <1>4, <2>1, IntervalInduction
  <2> QED BY <1>3, <2>2
<1> DEFINE A == {i \in Levels : f[i] = 0} \cup {NUM_LEVELS - 1}
           B == {i \in Levels : g[i] = 0} \cup {NUM_LEVELS - 1}
<1>6. B \subseteq A
  <2>1. ASSUME NEW i \in Levels, g[i] = 0 PROVE f[i] = 0
    <3>1. f[i] \in Nat /\ f[i] <= g[i]
      BY <1>1, <1>5
    <3> QED BY <2>1, <3>1
  <2> QED BY <2>1
<1>7. A \in SUBSET Nat /\ A # {} /\ B \in SUBSET Nat /\ B # {}
  BY <1>3
<1> HIDE DEF A, B
<1>8. Min(B) \in B /\ \A a \in A : Min(A) <= a
  BY <1>7, MinOf
<1> QED BY <1>1, <1>2, <1>6, <1>8 DEF A, B

\* c is the first of the smallest chunks that are large enough, over all levels.
IsBestFit(h, F, size, c) ==
  /\ c = NULL => \A a \in F : SizeAt(h, a) < size
  /\ c # NULL => /\ c \in F /\ SizeAt(h, c) >= size
                 /\ \A a \in F : SizeAt(h, a) >= size => SizeAt(h, c) <= SizeAt(h, a)
                 /\ \A a \in F : SizeAt(h, a) = SizeAt(h, c) => <<a, c>> \notin Older(h)

LEMMA BestFitFound ==
  ASSUME NEW h \in HeapSet, NEW F, IsLinked(h, F), NEW size \in Nat
  PROVE  IsBestFit(h, F, size, best_fit_chunk(h, size))
<1> DEFINE fits(l) == {k \in DOMAIN List(h, l) : SizeAt(h, List(h, l)[k]) >= size}
           levels  == {l \in compute_level(size)..(NUM_LEVELS - 1) : fits(l) # {}}
           level   == Min(levels)
           list    == List(h, level)
           sizes   == {SizeAt(h, list[k]) : k \in fits(level)}
           best    == Min(sizes)
           ks      == {k \in fits(level) : SizeAt(h, list[k]) = best}
           c       == best_fit_chunk(h, size)
<1>1. c = IF levels = {} THEN NULL ELSE list[Min(ks)]
  BY DEF best_fit_chunk
<1>2. F \subseteq Addr /\ NULL \notin F
  BY PoolAssumption DEF IsLinked, LinkedBy, Addr, NULL
<1>3. \A a \in F : SizeAt(h, a) \in Nat
  <2>1. \A a \in F : SizeAt(h, a) \in 0..(PoolUnits - 1)
    BY <1>2, Fields
  <2> QED BY <2>1
<1>4. ASSUME NEW a \in F, SizeAt(h, a) >= size PROVE LevelAt(h, a) \in levels
  <2> DEFINE l == LevelAt(h, a)
  <2>1. compute_level(size) <= l /\ l \in Levels /\ compute_level(size) \in Levels
    BY <1>3, <1>4, LevelsGrow, LevelInRange DEF LevelAt
  <2> HIDE DEF l
  <2>2. l \in compute_level(size)..(NUM_LEVELS - 1)
    BY <2>1, LevelAssumption DEF Levels
  <2>3. ListIs(h, F, l, List(h, l))
    BY <2>1, ListIsExact
  <2>4. \E k \in DOMAIN List(h, l) : List(h, l)[k] = a
    BY <2>3 DEF ListIs, l
  <2>5. fits(l) # {}
    BY <1>4, <2>4
  <2> QED BY <2>2, <2>5 DEF l
<1>5. CASE levels = {}
  <2>1. \A a \in F : ~(SizeAt(h, a) >= size)
    BY <1>4, <1>5
  <2>2. \A a \in F : SizeAt(h, a) < size
    BY <1>3, <2>1
  <2> HIDE DEF levels, c
  <2> QED BY <1>1, <1>5, <2>2 DEF IsBestFit, c
<1>6. CASE levels # {}
  <2>1. levels \in SUBSET Nat /\ levels \subseteq Levels
    <3>1. compute_level(size) \in Levels
      BY LevelInRange
    <3> HIDE DEF fits
    <3> QED BY <3>1, LevelAssumption DEF Levels
  <2>2. level \in levels /\ \A l \in levels : level <= l
    <3> HIDE DEF levels
    <3> QED BY <1>6, <2>1, MinOf
  <2>3. fits(level) # {} /\ level \in Levels /\ level \in Nat
    BY <2>1, <2>2
  <2>4. c = list[Min(ks)]
    BY <1>1, <1>6
  <2> HIDE DEF level, levels, c
  <2>5. ListIs(h, F, level, list)
    BY <2>3, ListIsExact
  <2> HIDE DEF list
  <2>6. /\ list \in Seq(F) /\ {list[k] : k \in DOMAIN list} = {a \in F : LevelAt(h, a) = level}
        /\ \A j, k \in DOMAIN list : j # k => list[j] # list[k]
        /\ \A k \in DOMAIN list : list[k] \in F /\ k \in Nat
    <3>1. list \in Seq(F)
      BY <2>5 DEF ListIs
    <3> QED BY <2>5, <3>1 DEF ListIs
  <2>7. fits(level) = {k \in DOMAIN list : SizeAt(h, list[k]) >= size}
    BY DEF list
  <2> HIDE DEF fits
  <2>8. sizes \in SUBSET Nat /\ sizes # {}
    BY <1>3, <2>3, <2>6, <2>7
  <2>9. best \in sizes /\ \A z \in sizes : best <= z
    <3> HIDE DEF sizes
    <3> QED BY <2>8, MinOf
  <2> HIDE DEF best
  <2>10. ks \in SUBSET Nat /\ ks # {}
    BY <2>6, <2>7, <2>9
  <2> DEFINE k == Min(ks)
  <2>11. k \in ks /\ \A j \in ks : k <= j
    <3> HIDE DEF ks
    <3> QED BY <2>10, MinOf
  <2>12. c = list[k]
    BY <2>4
  <2> HIDE DEF k
  <2>13. /\ k \in DOMAIN list /\ k \in Nat /\ c \in F /\ SizeAt(h, c) >= size /\ SizeAt(h, c) = best
         /\ LevelAt(h, c) = level
    BY <2>6, <2>7, <2>11, <2>12
  <2>14. ASSUME NEW a \in F, SizeAt(h, a) >= size PROVE SizeAt(h, c) <= SizeAt(h, a)
    <3>1. level <= LevelAt(h, a) /\ LevelAt(h, a) \in Nat
      BY <1>4, <2>1, <2>2, <2>14
    <3>2. CASE LevelAt(h, a) = level
      <4>1. PICK j \in DOMAIN list : list[j] = a
        BY <2>6, <3>2
      <4>2. SizeAt(h, a) \in sizes
        BY <2>7, <2>14, <4>1
      <4> QED BY <2>9, <2>13, <4>2
    <3>3. CASE LevelAt(h, a) # level
      <4>1. ~(SizeAt(h, a) <= SizeAt(h, c))
        <5> SUFFICES ASSUME SizeAt(h, a) <= SizeAt(h, c) PROVE FALSE
          OBVIOUS
        <5>1. LevelAt(h, a) <= LevelAt(h, c)
          BY <1>3, <2>13, LevelsGrow DEF LevelAt
        <5> QED BY <2>3, <2>13, <3>1, <3>3, <5>1
      <4> QED BY <1>3, <2>13, <4>1
    <3> QED BY <3>2, <3>3
  <2>15. ASSUME NEW a \in F, SizeAt(h, a) = SizeAt(h, c), <<a, c>> \in Older(h) PROVE FALSE
    <3>1. PICK l \in Levels : <<a, c>> \in Before(List(h, l))
      BY <2>15 DEF Older
    <3>2. LevelAt(h, <<a, c>>[2]) = l
      BY <3>1, OlderIn
    <3>3. l = level
      BY <2>13, <3>2
    <3>4. PICK m \in DOMAIN list : \E j \in 1..(m - 1) : <<a, c>> = <<list[j], list[m]>>
      BY <3>1, <3>3 DEF Before, list
    <3>5. PICK j \in 1..(m - 1) : a = list[j] /\ c = list[m]
      BY <3>4
    <3>6. m = k
      BY <2>6, <2>12, <2>13, <3>5
    <3>7. j \in DOMAIN list /\ j < k
      BY <2>6, <2>13, <3>5, <3>6
    <3>8. j \in ks
      BY <2>7, <2>13, <2>15, <3>5, <3>7
    <3> HIDE DEF ks
    <3>9. k <= j
      BY <2>11, <3>8
    <3> QED BY <2>13, <3>7, <3>9
  <2> QED BY <1>2, <2>13, <2>14, <2>15 DEF IsBestFit, c
<1> QED BY <1>5, <1>6

LEMMA BiggestFound ==
  ASSUME NEW h \in HeapSet, NEW F, IsLinked(h, F), NEW b, b = find_the_biggest_free_chunk(h)
  PROVE  /\ b = NULL => F = {}
         /\ b # NULL => b \in F /\ \A a \in F : SizeAt(h, a) <= SizeAt(h, b)
<1> DEFINE levels == {l \in Levels : h.lists[l] # NULL}
           level  == Max(levels)
           list   == List(h, level)
           sizes  == {SizeAt(h, list[k]) : k \in DOMAIN list}
           ks     == {k \in DOMAIN list : SizeAt(h, list[k]) = Max(sizes)}
<1>1. b = IF levels = {} THEN NULL ELSE list[Min(ks)]
  BY DEF find_the_biggest_free_chunk
<1>2. F \subseteq Addr /\ NULL \notin F
  BY PoolAssumption DEF IsLinked, LinkedBy, Addr, NULL
<1>3. \A a \in F : SizeAt(h, a) \in 0..(PoolUnits - 1) /\ SizeAt(h, a) \in Nat
  BY <1>2, Fields
<1>4. ASSUME NEW a \in F PROVE LevelAt(h, a) \in levels
  <2> DEFINE l == LevelAt(h, a)
             q == List(h, l)
  <2>1. l \in Levels
    BY LevelInRange DEF LevelAt
  <2>2. ListIs(h, F, l, q)
    BY <2>1, ListIsExact
  <2> HIDE DEF q, l
  <2>3. PICK k \in DOMAIN q : q[k] = a
    BY <2>2 DEF ListIs, l
  <2>4. q \in Seq(F)
    BY <2>2 DEF ListIs
  <2>5. 1 \in DOMAIN q /\ q[1] \in F
    BY <2>3, <2>4
  <2>6. h.mem[q[1]].prev = NULL /\ LevelAt(h, q[1]) = l
    BY <2>2, <2>5 DEF ListIs
  <2>7. h.lists[l] = q[1]
    BY <2>5, <2>6 DEF IsLinked, LinkedBy
  <2> QED BY <1>2, <2>1, <2>5, <2>7 DEF l
<1>5. CASE levels = {}
  BY <1>1, <1>4, <1>5
<1>6. CASE levels # {}
  <2>1. levels \in SUBSET Nat /\ NUM_LEVELS - 1 \in Nat /\ \A l \in levels : l <= NUM_LEVELS - 1
    BY LevelAssumption DEF Levels
  <2>2. level \in levels /\ \A l \in levels : l <= level
    <3> HIDE DEF levels
    <3> QED BY <1>6, <2>1, MaxOf
  <2>3. level \in Levels /\ h.lists[level] # NULL /\ level \in Nat
    BY <2>1, <2>2
  <2>4. b = list[Min(ks)]
    BY <1>1, <1>6
  <2> HIDE DEF level, levels
  <2>5. ListIs(h, F, level, list)
    BY <2>3, ListIsExact
  <2> HIDE DEF list
  <2>6. /\ list \in Seq(F) /\ {list[k] : k \in DOMAIN list} = {a \in F : LevelAt(h, a) = level}
        /\ \A k \in DOMAIN list : list[k] \in F /\ k \in Nat
    <3>1. list \in Seq(F)
      BY <2>5 DEF ListIs
    <3> QED BY <2>5, <3>1 DEF ListIs
  <2>7. \E k \in DOMAIN list : TRUE
    <3>1. h.lists[level] \in F /\ LevelAt(h, h.lists[level]) = level
      BY <2>3 DEF IsLinked, LinkedBy
    <3> QED BY <2>6, <3>1
  <2>8. Max(sizes) \in sizes /\ \A z \in sizes : z <= Max(sizes)
    <3>1. sizes \in SUBSET Nat /\ sizes # {} /\ PoolUnits - 1 \in Nat /\ \A z \in sizes : z <= PoolUnits - 1
      BY <1>3, <2>6, <2>7, PoolAssumption
    <3> HIDE DEF sizes
    <3> QED BY <3>1, MaxOf
  <2>9. ks \in SUBSET Nat /\ ks # {}
    BY <2>6, <2>8
  <2>10. Min(ks) \in ks
    <3> HIDE DEF ks
    <3> QED BY <2>9, MinOf
  <2>11. b \in F /\ SizeAt(h, b) = Max(sizes) /\ LevelAt(h, b) = level
    BY <2>4, <2>6, <2>10
  <2>12. ASSUME NEW a \in F PROVE SizeAt(h, a) <= SizeAt(h, b)
    <3>1. LevelAt(h, a) <= level /\ LevelAt(h, a) \in Nat
      BY <1>4, <2>1, <2>2
    <3>2. CASE LevelAt(h, a) = level
      <4>1. SizeAt(h, a) \in sizes
        BY <2>6, <3>2
      <4> QED BY <2>8, <2>11, <4>1
    <3>3. CASE LevelAt(h, a) # level
      <4>1. ~(SizeAt(h, b) <= SizeAt(h, a))
        <5> SUFFICES ASSUME SizeAt(h, b) <= SizeAt(h, a) PROVE FALSE
          OBVIOUS
        <5>1. LevelAt(h, b) <= LevelAt(h, a)
          BY <1>3, <2>11, LevelsGrow DEF LevelAt
        <5> QED BY <2>3, <2>11, <3>1, <3>3, <5>1
      <4> QED BY <1>3, <2>11, <4>1
    <3> QED BY <3>2, <3>3
  <2> QED BY <1>2, <2>11, <2>12
<1> QED BY <1>5, <1>6

\* The caller writes between its header and the next one.
LEMMA WrittenEffect ==
  ASSUME NEW h, NEW B, NEW F, IsSound(h, B, F), NEW c \in B \ {PoolUnits}, c \notin F
  PROVE  LET w == [mem |-> Written(h, c), lists |-> h.lists]
         IN /\ IsSound(w, B, F)
            /\ \A a \in B \ {PoolUnits} : w.mem[a] = h.mem[a]
            /\ \A a \in Addr : w.mem[a] = UserData \/ w.mem[a] = h.mem[a]
            /\ \A a \in (c + 1)..(c + SizeAt(h, c)) : w.mem[a] = UserData
<1> DEFINE w == [mem |-> Written(h, c), lists |-> h.lists]
           D == (c + 1)..(c + SizeAt(h, c))
<1>1. /\ F \subseteq B \ {PoolUnits} /\ B \ {PoolUnits} \subseteq Addr /\ B \subseteq Int
      /\ Addr \subseteq Int /\ NULL \notin Addr /\ PoolUnits \notin Addr /\ PoolUnits \in B
  BY SoundBounds
<1>2. h \in HeapSet /\ IsTiling(h, B) /\ IsLinked(h, F)
  BY DEF IsSound
<1>3. /\ c \in Addr /\ After(h, c) = c + 1 + SizeAt(h, c) /\ After(h, c) <= PoolUnits
      /\ SizeAt(h, c) \in 0..(PoolUnits - 1) /\ c \in Int
  BY <1>1, <1>2, TilingBounds
<1>4. D \subseteq Addr
  BY <1>3, PoolAssumption DEF Addr
<1>5. \A b \in B : b \notin D
  <2>1. ASSUME NEW b \in B, b \in D PROVE FALSE
    <3>1. b \in Int /\ c < b /\ b < c + 1 + SizeAt(h, c)
      BY <1>1, <1>3, <2>1
    <3> QED BY <1>2, <1>3, <3>1 DEF IsTiling
  <2> QED BY <2>1
<1>6. w.mem = [a \in Addr |-> IF a \in D THEN UserData ELSE h.mem[a]] /\ w.lists = h.lists
  BY DEF Written
<1>7. w = [mem |-> w.mem, lists |-> w.lists]
  OBVIOUS
<1> HIDE DEF w, D
<1>8. w.mem \in [Addr -> Header \cup {UserData}] /\ w.lists \in [Levels -> Addr \cup {NULL}]
  BY <1>2, <1>6 DEF HeapSet
<1>9. w \in HeapSet
  BY <1>7, <1>8 DEF HeapSet
<1>10. \A a \in B \ {PoolUnits} : w.mem[a] = h.mem[a]
  BY <1>1, <1>5, <1>6
<1>11. \A a \in Addr : w.mem[a] = UserData \/ w.mem[a] = h.mem[a]
  BY <1>6
<1>12. \A a \in D : w.mem[a] = UserData
  BY <1>4, <1>6
<1>13. \A a \in B \ {PoolUnits} : After(w, a) = After(h, a)
  BY <1>10 DEF After, SizeAt
<1>14. IsTiling(w, B)
  BY <1>2, <1>10, <1>13 DEF IsTiling
<1>15. IsLinked(w, F)
  <2>1. \A a \in Addr \ F : h.mem[a].next = NULL
    BY <1>2 DEF IsLinked, LinkedBy
  <2>2. UserData.next = NULL
    BY DEF UserData
  <2>3. \A a \in Addr \ F : w.mem[a].next = NULL
    BY <1>11, <2>1, <2>2
  <2>4. \A a \in F : w.mem[a] = h.mem[a]
    BY <1>1, <1>10
  <2> QED BY <1>2, <1>6, <2>3, <2>4, LinkedFrame
<1>16. IsSound(w, B, F)
  <2>1. F = {a \in B \ {PoolUnits} : h.mem[a].is_free = 1} /\ \A a \in F : After(h, a) \notin F
    BY DEF IsSound
  <2>2. F = {a \in B \ {PoolUnits} : w.mem[a].is_free = 1}
    BY <1>10, <2>1
  <2>3. \A a \in F : After(w, a) \notin F
    BY <1>1, <1>13, <2>1
  <2> QED BY <1>9, <1>14, <1>15, <2>2, <2>3 DEF IsSound
<1> QED BY <1>10, <1>11, <1>12, <1>16 DEF w, D

---------------------------------------------------------------------------
(* The invariant.                                                          *)

\* The callers hold the chunks that are not free.
IsHeld(h, B, F, callers) ==
  /\ IsSound(h, B, F)
  /\ {b.at : b \in callers} = (B \ F) \ {PoolUnits}

HeapInv ==
  /\ \A b, c \in live : b.at = c.at => b = c
  /\ ~pool_start => live = {}
  /\ pool_start => \E B, F : IsHeld(Heap, B, F, live)

IInv == TypeOK /\ HeapInv /\ UserDataIntact

\* What a step leaves to the callers: old chunks keep their size, and a new
\* one has the units asked for or one more.
Keeps ==
  \A b \in live' :
    \/ b \in live /\ SizeAt(Heap', b.at) = SizeAt(Heap, b.at)
    \/ /\ b.bytes # 0 /\ b.bytes # SizeMod - 1
       /\ round_up_32(b.bytes) \in Nat
       /\ round_up_32(b.bytes) <= SizeAt(Heap', b.at)
       /\ SizeAt(Heap', b.at) <= round_up_32(b.bytes) + 1

LEMMA InvInit == Init => IInv
<1> SUFFICES ASSUME Init PROVE IInv
  OBVIOUS
<1>1. Zeros \in Header
  BY PoolAssumption DEF Zeros, Header
<1>2. TypeOK
  <2>1. 0 \in 0..(PoolUnits - 1)
    BY PoolAssumption
  <2> HIDE DEF Zeros
  <2> QED BY <1>1, <2>1 DEF Init, TypeOK, Unmapped
<1>3. HeapInv /\ UserDataIntact
  BY DEF Init, HeapInv, UserDataIntact
<1> QED BY <1>2, <1>3 DEF IInv

LEMMA HeapType == TypeOK => Heap \in HeapSet
  BY DEF TypeOK, Heap, HeapSet

LEMMA AsHeap == \A h \in HeapSet : [mem |-> h.mem, lists |-> h.lists] = h
  BY DEF HeapSet

\* The heap malloc works on is sound, and the callers' data is in it.
LEMMA PoolHeld ==
  ASSUME IInv
  PROVE  /\ \E B, F : IsHeld(Pool, B, F, live)
         /\ Pool \in HeapSet
         /\ \A b \in live : Pool = Heap
<1>1. CASE pool_start
  <2>1. Pool = Heap
    BY <1>1 DEF Pool
  <2> QED BY <1>1, <2>1, HeapType DEF IInv, HeapInv
<1>2. CASE ~pool_start
  <2>1. Pool = init_pool /\ live = {}
    BY <1>2 DEF Pool, IInv, HeapInv
  <2>2. ({0, PoolUnits} \ {0}) \ {PoolUnits} = {}
    OBVIOUS
  <2>3. {b.at : b \in live} = {}
    BY <2>1
  <2>4. IsHeld(init_pool, {0, PoolUnits}, {0}, live) /\ init_pool \in HeapSet
    BY <2>2, <2>3, InitPoolSound DEF IsHeld, IsSound
  <2> QED BY <2>1, <2>4
<1> QED BY <1>1, <1>2

\* A chunk that a caller holds: its data is inside the pool and no header.
LEMMA HeldBounds ==
  ASSUME NEW h, NEW B, NEW F, IsSound(h, B, F), NEW x \in (B \ F) \ {PoolUnits}
  PROVE  /\ x \in B \ {PoolUnits} /\ x \in Addr /\ SizeAt(h, x) \in 0..(PoolUnits - 1)
         /\ (x + 1)..(x + SizeAt(h, x)) \subseteq Addr \ B
<1>1. /\ x \in B \ {PoolUnits} /\ x \in Addr /\ B \subseteq Int /\ Addr \subseteq Int
  BY SoundBounds
<1>2. /\ SizeAt(h, x) \in 0..(PoolUnits - 1) /\ After(h, x) = x + 1 + SizeAt(h, x)
      /\ After(h, x) <= PoolUnits
  BY <1>1, TilingBounds DEF IsSound
<1>3. ASSUME NEW a \in (x + 1)..(x + SizeAt(h, x)) PROVE a \in Addr /\ a \notin B
  <2>1. x \in Int /\ x >= 0 /\ a \in Int /\ x < a /\ a < After(h, x)
    BY <1>1, <1>2, PoolAssumption DEF Addr
  <2>2. a \in Addr
    BY <1>2, <2>1, PoolAssumption DEF Addr
  <2>3. a \notin B
    BY <1>1, <2>1 DEF IsSound, IsTiling
  <2> QED BY <2>2, <2>3
<1> QED BY <1>1, <1>2, <1>3

LEMMA HeapInvNext ==
  ASSUME NEW h, NEW B, NEW F, Heap' = h, IsHeld(h, B, F, live'),
         \A b, c \in live' : b.at = c.at => b = c, pool_start' = TRUE
  PROVE  HeapInv'
<1>1. IsHeld(Heap', B, F, live')
  OBVIOUS
<1> QED BY <1>1 DEF HeapInv

\* malloc maps the pool and nothing else: for want of a sufficient chunk, or
\* because it was asked to report only.
LEMMA InstallNext ==
  ASSUME IInv, pool_start' = TRUE, Install(Pool), UNCHANGED <<live, report, crashed>>
  PROVE  IInv' /\ Keeps
<1>1. PICK B, F : IsHeld(Pool, B, F, live)
  BY PoolHeld
<1>2. Pool \in HeapSet /\ \A b \in live : Pool = Heap
  BY PoolHeld
<1>3. Heap' = Pool
  BY <1>2, AsHeap DEF Heap, Install
<1>4. TypeOK'
  BY <1>2 DEF IInv, TypeOK, Install, HeapSet
<1>5. HeapInv'
  <2>1. live' = live
    OBVIOUS
  <2>2. IsHeld(Pool, B, F, live')
    BY <1>1, <2>1
  <2>3. \A b, c \in live' : b.at = c.at => b = c
    BY <2>1 DEF IInv, HeapInv
  <2> HIDE DEF Pool
  <2> QED BY <1>3, <2>2, <2>3, HeapInvNext
<1>6. \A b \in live : Heap' = Heap
  BY <1>2, <1>3
<1>7. UserDataIntact'
  <2>1. ASSUME NEW b \in live', NEW a \in (b.at + 1)..(b.at + SizeAt(Heap', b.at))
        PROVE  mem'[a] = UserData
    <3>1. b \in live /\ Heap' = Heap
      BY <1>6
    <3>2. mem' = mem
      BY <3>1 DEF Heap
    <3> QED BY <2>1, <3>1, <3>2 DEF IInv, UserDataIntact
  <2> QED BY <2>1 DEF UserDataIntact
<1>8. Keeps
  BY <1>6 DEF Keeps
<1> QED BY <1>4, <1>5, <1>7, <1>8 DEF IInv

\* What a granted request has done: c of the free chunks F has become a
\* caller's, written all over, and the other callers' chunks are as they were.
IsGranted(B, F, B2, F2, c, units) ==
  /\ IsHeld(Pool, B, F, live) /\ IsBestFit(Pool, F, units, c)
  /\ units \in Nat /\ c \in F /\ SizeAt(Pool, c) \in 0..(PoolUnits - 1)
  /\ IsSound(Heap', B2, F2)
  /\ c \in B2 \ {PoolUnits} /\ B2 \ F2 = (B \ F) \cup {c}
  /\ units <= SizeAt(Heap', c) /\ SizeAt(Heap', c) <= units + 1
  /\ SizeAt(Heap', c) = IF SizeAt(Pool, c) - units >= 2 THEN units ELSE SizeAt(Pool, c)
  /\ F2 = (F \ {c}) \cup Rest(Pool, c, units)
  /\ IsChanged(Pool, Heap', F, {c}, Rest(Pool, c, units), SizeAt(Pool, c) - units - 1)
  /\ \A a \in (c + 1)..(c + SizeAt(Heap', c)) : mem'[a] = UserData
  /\ \A b \in live :
       /\ b.at # c /\ SizeAt(Heap', b.at) = SizeAt(Heap, b.at)
       /\ \A a \in (b.at + 1)..(b.at + SizeAt(Heap', b.at)) : mem'[a] = UserData

LEMMA GrantEffect ==
  ASSUME IInv, NEW size \in Requests, NEW units, units = round_up_32(size), size # 0,
         NEW c, c = best_fit_chunk(Pool, units), c # NULL,
         mem' = Written(split(Pool, c, units), c), free_lists' = split(Pool, c, units).lists
  PROVE  \E B, F, B2, F2 : IsGranted(B, F, B2, F2, c, units)
<1> DEFINE h == Pool
           s == split(h, c, units)
           w == [mem |-> Written(s, c), lists |-> s.lists]
<1>1. PICK B, F : IsHeld(h, B, F, live)
  BY PoolHeld
<1>2. h \in HeapSet /\ \A b \in live : h = Heap
  BY PoolHeld
<1>3. IsSound(h, B, F) /\ {b.at : b \in live} = (B \ F) \ {PoolUnits} /\ F \subseteq Addr
  BY <1>1, SoundBounds DEF IsHeld
<1>4. Heap' = w /\ mem' = w.mem
  BY DEF Heap
<1> HIDE DEF h
<1>5. units \in Nat
  <2>1. size \in Nat /\ SizeMod \in Nat /\ SizeMod > 0
    BY RequestAssumption, WidthAssumption, PoolAssumption
  <2>2. (size + 31) % SizeMod \in Nat
    BY <2>1
  <2> QED BY <2>1, <2>2 DEF round_up_32, ALLOC_SIZE_UNIT
<1>6. IsBestFit(h, F, units, c) /\ c \in F /\ SizeAt(h, c) >= units /\ SizeAt(h, c) \in 0..(PoolUnits - 1)
  <2>1. c = best_fit_chunk(h, units)
    BY DEF h
  <2>2. IsBestFit(h, F, units, c)
    BY <1>2, <1>3, <1>5, <2>1, BestFitFound DEF IsSound
  <2>3. c \in F /\ SizeAt(h, c) >= units
    BY <2>2 DEF IsBestFit
  <2>4. SizeAt(h, c) \in 0..(PoolUnits - 1)
    BY <1>2, <1>3, <2>3, Fields
  <2> QED BY <2>2, <2>3, <2>4
<1> DEFINE N   == Rest(h, c, units)
           len == SizeAt(h, c) - units - 1
<1>7. IsSplit(h, s, B, F, c, units)
  <2>1. units <= SizeAt(h, c)
    BY <1>5, <1>6
  <2> QED BY <1>3, <1>5, <1>6, <2>1, SplitEffect
<1> HIDE DEF s, N, len
<1>8. PICK B2, F2 :
        /\ IsSound(s, B2, F2) /\ c \in B2 \ {PoolUnits} /\ c \notin F2
        /\ B2 \ F2 = (B \ F) \cup {c}
        /\ \A a \in (B \ F) \ {PoolUnits} : s.mem[a] = h.mem[a]
        /\ \A a \in Addr \ B2 : s.mem[a] = h.mem[a]
        /\ units <= SizeAt(s, c) /\ SizeAt(s, c) <= units + 1
        /\ SizeAt(s, c) = IF SizeAt(h, c) - units >= 2 THEN units ELSE SizeAt(h, c)
        /\ F2 = (F \ {c}) \cup N
        /\ IsChanged(h, s, F, {c}, N, len)
  BY <1>7 DEF IsSplit, N, len
<1>9. /\ IsSound(w, B2, F2)
      /\ \A a \in B2 \ {PoolUnits} : w.mem[a] = s.mem[a]
      /\ \A a \in Addr : w.mem[a] = UserData \/ w.mem[a] = s.mem[a]
      /\ \A a \in (c + 1)..(c + SizeAt(s, c)) : w.mem[a] = UserData
  BY <1>8, WrittenEffect
<1> HIDE DEF w
<1>10. ASSUME NEW b \in live
       PROVE  /\ b.at # c /\ SizeAt(w, b.at) = SizeAt(Heap, b.at)
              /\ \A a \in (b.at + 1)..(b.at + SizeAt(w, b.at)) : w.mem[a] = UserData
  <2>1. b.at \in (B \ F) \ {PoolUnits} /\ b.at # c
    BY <1>3, <1>6
  <2>2. h = Heap
    BY <1>2
  <2>3. b.at \in (B2 \ F2) \ {PoolUnits}
    BY <1>8, <2>1
  <2>4. SizeAt(s, b.at) = SizeAt(Heap, b.at) /\ SizeAt(w, b.at) = SizeAt(s, b.at)
    BY <1>8, <1>9, <2>1, <2>2, <2>3 DEF SizeAt
  <2>5. (b.at + 1)..(b.at + SizeAt(s, b.at)) \subseteq Addr \ B2
    BY <1>8, <2>3, HeldBounds
  <2>6. ASSUME NEW a \in (b.at + 1)..(b.at + SizeAt(w, b.at)) PROVE w.mem[a] = UserData
    <3>1. a \in Addr \ B2
      BY <2>4, <2>5
    <3>2. s.mem[a] = Heap.mem[a]
      BY <1>8, <2>2, <3>1
    <3>3. mem[a] = UserData
      BY <2>4 DEF IInv, UserDataIntact
    <3>4. Heap.mem = mem
      BY DEF Heap
    <3> QED BY <1>9, <3>1, <3>2, <3>3, <3>4
  <2> QED BY <2>1, <2>4, <2>6
<1>11. SizeAt(w, c) = SizeAt(s, c)
  BY <1>8, <1>9 DEF SizeAt
<1>12. IsChanged(h, w, F, {c}, N, len)
  <2>1. F2 \subseteq B2 \ {PoolUnits} /\ s \in HeapSet /\ w \in HeapSet /\ IsLinked(s, F2) /\ IsLinked(w, F2)
    BY <1>8, <1>9, SoundBounds DEF IsSound
  <2>2. OlderPeers(w) = OlderPeers(s)
    BY <1>9, <2>1, PeersFrame
  <2>3. \A a \in F2 : SizeAt(w, a) = SizeAt(s, a)
    BY <1>9, <2>1 DEF SizeAt
  <2> QED BY <1>8, <2>2, <2>3 DEF IsChanged
<1>13. \A a \in (c + 1)..(c + SizeAt(w, c)) : w.mem[a] = UserData
  BY <1>9, <1>11
<1>14. IsGranted(B, F, B2, F2, c, units)
  BY <1>1, <1>5, <1>6, <1>8, <1>9, <1>4, <1>10, <1>11, <1>12, <1>13 DEF IsGranted, h, N, len
<1> QED BY <1>14

\* malloc hands out a chunk.
LEMMA GrantNext ==
  ASSUME IInv, NEW size \in Requests, size # 0, size # SizeMod - 1,
         NEW c, c = best_fit_chunk(Pool, round_up_32(size)), c # NULL,
         pool_start' = TRUE,
         mem' = Written(split(Pool, c, round_up_32(size)), c),
         free_lists' = split(Pool, c, round_up_32(size)).lists,
         live' = live \cup {[at |-> c, bytes |-> size]}, UNCHANGED <<report, crashed>>
  PROVE  IInv' /\ Keeps
<1> DEFINE units == round_up_32(size)
           w == Heap'
           new == [at |-> c, bytes |-> size]
<1>1. PICK B, F, B2, F2 : IsGranted(B, F, B2, F2, c, units)
  <2>1. c = best_fit_chunk(Pool, units)
    OBVIOUS
  <2>2. mem' = Written(split(Pool, c, units), c) /\ free_lists' = split(Pool, c, units).lists
    OBVIOUS
  <2> HIDE DEF units
  <2> QED BY <2>1, <2>2, GrantEffect DEF units
<1> HIDE DEF units
<1>2. /\ IsHeld(Pool, B, F, live) /\ units \in Nat /\ c \in F /\ IsSound(w, B2, F2)
      /\ c \in B2 \ {PoolUnits} /\ B2 \ F2 = (B \ F) \cup {c}
      /\ units <= SizeAt(w, c) /\ SizeAt(w, c) <= units + 1
      /\ \A a \in (c + 1)..(c + SizeAt(w, c)) : mem'[a] = UserData
      /\ \A b \in live :
           /\ b.at # c /\ SizeAt(w, b.at) = SizeAt(Heap, b.at)
           /\ \A a \in (b.at + 1)..(b.at + SizeAt(w, b.at)) : mem'[a] = UserData
  BY <1>1 DEF IsGranted
<1>3. {b.at : b \in live} = (B \ F) \ {PoolUnits} /\ F \subseteq Addr
  BY <1>2, SoundBounds DEF IsHeld
<1>4. mem' = w.mem /\ free_lists' = w.lists /\ w = Heap'
  BY DEF Heap
<1> HIDE DEF w
<1>5. TypeOK'
  <2>1. w \in HeapSet
    BY <1>2 DEF IsSound
  <2>2. new \in [at : Addr, bytes : Requests]
    BY <1>2, <1>3
  <2> QED BY <1>4, <2>1, <2>2 DEF IInv, TypeOK, HeapSet
<1>6. HeapInv'
  <2>1. {b.at : b \in live'} = {b.at : b \in live} \cup {c}
    <3>1. new.at = c
      OBVIOUS
    <3> HIDE DEF new
    <3>2. live' = live \cup {new}
      BY DEF new
    <3> QED BY <3>1, <3>2
  <2>2. {b.at : b \in live'} = (B2 \ F2) \ {PoolUnits}
    BY <1>2, <1>3, <2>1
  <2>3. IsHeld(w, B2, F2, live')
    BY <1>2, <2>2 DEF IsHeld
  <2>4. \A b, d \in live' : b.at = d.at => b = d
    <3>1. \A b, d \in live : b.at = d.at => b = d
      BY DEF IInv, HeapInv
    <3>2. \A b \in live : b.at # c
      BY <1>2
    <3>3. new.at = c
      OBVIOUS
    <3> HIDE DEF new
    <3>4. live' = live \cup {new}
      BY DEF new
    <3> QED BY <3>1, <3>2, <3>3, <3>4
  <2> QED BY <1>4, <2>3, <2>4, HeapInvNext
<1>7. UserDataIntact'
  <2>1. ASSUME NEW b \in live', NEW a \in (b.at + 1)..(b.at + SizeAt(Heap', b.at))
        PROVE  mem'[a] = UserData
    <3>1. a \in (b.at + 1)..(b.at + SizeAt(w, b.at))
      BY <1>4, <2>1
    <3>2. CASE b \in live
      BY <1>2, <3>1, <3>2
    <3>3. CASE b = new
      BY <1>2, <3>1, <3>3
    <3> QED BY <3>2, <3>3
  <2> QED BY <2>1 DEF UserDataIntact
<1>8. Keeps
  <2>1. ASSUME NEW b \in live'
        PROVE  \/ b \in live /\ SizeAt(Heap', b.at) = SizeAt(Heap, b.at)
               \/ /\ b.bytes # 0 /\ b.bytes # SizeMod - 1
                  /\ round_up_32(b.bytes) \in Nat
                  /\ round_up_32(b.bytes) <= SizeAt(Heap', b.at)
                  /\ SizeAt(Heap', b.at) <= round_up_32(b.bytes) + 1
    <3>1. CASE b \in live
      BY <1>2, <1>4, <3>1
    <3>2. CASE b = new
      <4>1. b.at = c /\ b.bytes = size
        BY <3>2
      <4> QED BY <1>2, <1>4, <4>1 DEF units
    <3> QED BY <3>1, <3>2
  <2> QED BY <2>1 DEF Keeps
<1> QED BY <1>5, <1>6, <1>7, <1>8 DEF IInv

\* malloc(0) ends in a crash or gives the pool back.
LEMMA ZeroNext == IInv /\ MallocZero => IInv' /\ Keeps
<1> SUFFICES ASSUME IInv, MallocZero PROVE IInv' /\ Keeps
  OBVIOUS
<1>1. PICK B, F : IsHeld(Pool, B, F, live)
  BY PoolHeld
<1>2. Pool \in HeapSet /\ F \subseteq Addr /\ IsLinked(Pool, F)
  BY <1>1, SoundBounds DEF IsHeld, IsSound
<1> DEFINE biggest == find_the_biggest_free_chunk(Pool)
<1>3. CASE biggest = NULL
  <2>1. crashed' = TRUE /\ UNCHANGED <<pool_start, mem, free_lists, live, report>>
    BY <1>3 DEF MallocZero
  <2>2. Heap' = Heap
    BY <2>1 DEF Heap
  <2>3. TypeOK'
    BY <2>1 DEF IInv, TypeOK
  <2>4. HeapInv' /\ UserDataIntact'
    BY <2>1, <2>2 DEF IInv, HeapInv, UserDataIntact
  <2> QED BY <2>1, <2>2, <2>3, <2>4 DEF IInv, Keeps
<1>4. CASE biggest # NULL
  <2>1. /\ report' = SizeAt(Pool, biggest) /\ pool_start' = FALSE /\ mem' = Unmapped.mem
        /\ free_lists' = Pool.lists /\ live' = {} /\ UNCHANGED crashed
    BY <1>4 DEF MallocZero
  <2>2. biggest \in Addr
    <3>1. biggest \in F
      BY <1>2, <1>4, BiggestFound
    <3> QED BY <1>2, <3>1
  <2>3. SizeAt(Pool, biggest) \in 0..(PoolUnits - 1)
    BY <1>2, <2>2, Fields
  <2> HIDE DEF biggest
  <2>4. Unmapped.mem \in [Addr -> Header \cup {UserData}]
    <3>1. Zeros \in Header
      BY PoolAssumption DEF Zeros, Header
    <3> QED BY <3>1 DEF Unmapped
  <2>5. TypeOK'
    BY <1>2, <2>1, <2>3, <2>4 DEF IInv, TypeOK, HeapSet
  <2> QED BY <2>1, <2>5 DEF IInv, HeapInv, UserDataIntact, Keeps
<1> QED BY <1>3, <1>4

\* What a release has done: the caller's chunk and the free chunks next to it
\* have become the chunk at m, and the other callers' chunks are as they were.
IsReleased(B, F, B2, F2, m, len, b) ==
  /\ IsHeld(Heap, B, F, live) /\ IsSound(Heap', B2, F2)
  /\ b.at \in B \ {PoolUnits} /\ B2 \ F2 = (B \ F) \ {b.at}
  /\ F2 = (F \ Beside(Heap, F, b.at)) \cup {m}
  /\ IsUnion(Heap, F, b.at, m, len)
  /\ IsChanged(Heap, Heap', F, Beside(Heap, F, b.at), {m}, len)
  /\ \A x \in live' :
       /\ x \in live /\ x.at # b.at /\ SizeAt(Heap', x.at) = SizeAt(Heap, x.at)
       /\ \A a \in (x.at + 1)..(x.at + SizeAt(Heap', x.at)) : mem'[a] = UserData

LEMMA FreeEffect ==
  ASSUME IInv, NEW b \in live, Free(b)
  PROVE  \E B, F, B2, F2, m, len : IsReleased(B, F, B2, F2, m, len, b)
<1> DEFINE r == coalesce(Heap, b.at)
<1>1. pool_start /\ Install(r) /\ live' = live \ {b}
  BY DEF Free
<1>2. PICK B, F : IsHeld(Heap, B, F, live)
  BY <1>1 DEF IInv, HeapInv
<1>3. /\ IsSound(Heap, B, F) /\ {x.at : x \in live} = (B \ F) \ {PoolUnits}
      /\ b.at \in B \ {PoolUnits} /\ b.at \notin F
  BY <1>2 DEF IsHeld
<1>4. IsCoalesced(Heap, r, B, F, b.at)
  BY <1>3, CoalesceEffect
<1> HIDE DEF r
<1> DEFINE gone == Beside(Heap, F, b.at)
<1> HIDE DEF gone
<1>5. PICK B2, F2, m, len :
        /\ IsSound(r, B2, F2)
        /\ B2 \ F2 = (B \ F) \ {b.at}
        /\ \A a \in (B \ F) \ {b.at, PoolUnits} : r.mem[a] = Heap.mem[a]
        /\ \A a \in Addr \ B : r.mem[a] = Heap.mem[a]
        /\ F2 = (F \ gone) \cup {m}
        /\ IsUnion(Heap, F, b.at, m, len)
        /\ IsChanged(Heap, r, F, gone, {m}, len)
  BY <1>4 DEF IsCoalesced, gone
<1>6. r \in HeapSet
  BY <1>5 DEF IsSound
<1>7. Heap' = r /\ mem' = r.mem
  BY <1>1, <1>6, AsHeap DEF Heap, Install
<1>8. ASSUME NEW x \in live'
      PROVE  /\ x \in live /\ x.at # b.at /\ SizeAt(r, x.at) = SizeAt(Heap, x.at)
             /\ \A a \in (x.at + 1)..(x.at + SizeAt(r, x.at)) : mem'[a] = UserData
  <2>1. x \in live /\ x # b
    BY <1>1
  <2>2. x.at # b.at
    BY <2>1 DEF IInv, HeapInv
  <2>3. x.at \in (B \ F) \ {PoolUnits}
    BY <1>3, <2>1
  <2>4. SizeAt(r, x.at) = SizeAt(Heap, x.at)
    BY <1>5, <2>2, <2>3 DEF SizeAt
  <2>5. (x.at + 1)..(x.at + SizeAt(Heap, x.at)) \subseteq Addr \ B
    BY <1>3, <2>3, HeldBounds
  <2>6. ASSUME NEW a \in (x.at + 1)..(x.at + SizeAt(r, x.at)) PROVE mem'[a] = UserData
    <3>1. a \in Addr \ B
      BY <2>4, <2>5
    <3>2. r.mem[a] = Heap.mem[a] /\ Heap.mem = mem
      BY <1>5, <3>1 DEF Heap
    <3>3. mem[a] = UserData
      BY <2>1, <2>4 DEF IInv, UserDataIntact
    <3> QED BY <1>7, <3>2, <3>3
  <2> QED BY <2>1, <2>2, <2>4, <2>6
<1>9. IsReleased(B, F, B2, F2, m, len, b)
  BY <1>2, <1>3, <1>5, <1>7, <1>8 DEF IsReleased, gone
<1> QED BY <1>9

LEMMA FreeNext ==
  ASSUME IInv, NEW b \in live, Free(b)
  PROVE  IInv' /\ Keeps
<1>1. pool_start /\ live' = live \ {b} /\ UNCHANGED <<pool_start, report, crashed>>
  BY DEF Free
<1> DEFINE r == Heap'
<1>2. PICK B, F, B2, F2, m, len : IsReleased(B, F, B2, F2, m, len, b)
  BY FreeEffect
<1>3. /\ {x.at : x \in live} = (B \ F) \ {PoolUnits}
      /\ IsSound(r, B2, F2) /\ B2 \ F2 = (B \ F) \ {b.at}
      /\ \A x \in live' :
           /\ x \in live /\ x.at # b.at /\ SizeAt(r, x.at) = SizeAt(Heap, x.at)
           /\ \A a \in (x.at + 1)..(x.at + SizeAt(r, x.at)) : mem'[a] = UserData
  BY <1>2 DEF IsReleased, IsHeld
<1>4. r = Heap' /\ r.mem = mem' /\ r.lists = free_lists'
  BY DEF Heap
<1> HIDE DEF r
<1>5. TypeOK'
  <2>1. r \in HeapSet
    BY <1>3 DEF IsSound
  <2> QED BY <1>1, <1>4, <2>1 DEF IInv, TypeOK, HeapSet
<1>6. HeapInv'
  <2>1. {x.at : x \in live'} = {x.at : x \in live} \ {b.at}
    <3>1. \A x \in live : x # b => x.at # b.at
      BY DEF IInv, HeapInv
    <3> QED BY <1>1, <3>1
  <2>2. {x.at : x \in live'} = (B2 \ F2) \ {PoolUnits}
    BY <1>3, <2>1
  <2>3. IsHeld(r, B2, F2, live')
    BY <1>3, <2>2 DEF IsHeld
  <2>4. \A x, y \in live' : x.at = y.at => x = y
    BY <1>1 DEF IInv, HeapInv
  <2>5. pool_start' = TRUE
    BY <1>1 DEF IInv, TypeOK
  <2> QED BY <1>4, <2>3, <2>4, <2>5, HeapInvNext
<1>7. UserDataIntact'
  BY <1>3, <1>4 DEF UserDataIntact
<1>8. Keeps
  BY <1>3, <1>4 DEF Keeps
<1> QED BY <1>5, <1>6, <1>7, <1>8 DEF IInv

LEMMA InvNext == IInv /\ [Next]_vars => IInv' /\ Keeps
<1> SUFFICES ASSUME IInv, [Next]_vars PROVE IInv' /\ Keeps
  OBVIOUS
<1>1. ASSUME NEW size \in Requests, Malloc(size) PROVE IInv' /\ Keeps
  <2> DEFINE c == best_fit_chunk(Pool, round_up_32(size))
  <2>1. size # 0 /\ size # SizeMod - 1 /\ pool_start' = TRUE /\ UNCHANGED <<report, crashed>>
    BY <1>1 DEF Malloc
  <2>2. CASE c = NULL
    <3>1. Install(Pool) /\ live' = live
      BY <1>1, <2>2 DEF Malloc
    <3> QED BY <2>1, <3>1, InstallNext
  <2>3. CASE c # NULL
    <3>1. /\ mem' = Written(split(Pool, c, round_up_32(size)), c)
          /\ free_lists' = split(Pool, c, round_up_32(size)).lists
          /\ live' = live \cup {[at |-> c, bytes |-> size]}
      BY <1>1, <2>3 DEF Malloc
    <3> QED BY <2>1, <2>3, <3>1, GrantNext
  <2> QED BY <2>2, <2>3
<1>2. CASE MallocZero
  BY <1>2, ZeroNext
<1>3. CASE MallocDebug
  BY <1>3, InstallNext DEF MallocDebug
<1>4. ASSUME NEW b \in live, Free(b) PROVE IInv' /\ Keeps
  BY <1>4, FreeNext
<1>5. CASE UNCHANGED vars
  <2>1. Heap' = Heap
    BY <1>5 DEF vars, Heap
  <2>2. TypeOK'
    BY <1>5 DEF vars, IInv, TypeOK
  <2>3. HeapInv' /\ UserDataIntact'
    BY <1>5, <2>1 DEF vars, IInv, HeapInv, UserDataIntact
  <2>4. Keeps
    BY <1>5, <2>1 DEF vars, Keeps
  <2> QED BY <2>2, <2>3, <2>4 DEF IInv
<1> QED BY <1>1, <1>2, <1>3, <1>4, <1>5 DEF Next

LEMMA Invariant == Spec => []IInv
<1>1. IInv /\ [Next]_vars => IInv'
  BY InvNext
<1> QED BY InvInit, <1>1, PTL DEF Spec

---------------------------------------------------------------------------
(* What the allocator promises.                                            *)

\* The allocator's variables, headers, links and sizes stay in their range.
THEOREM TypeCorrect == Spec => []TypeOK
<1>1. IInv => TypeOK
  BY DEF IInv
<1> QED BY Invariant, <1>1, PTL

\* The allocator never writes into data a caller owns, whatever splits and
\* joins go on around it.
THEOREM DataIntact == Spec => []UserDataIntact
<1>1. IInv => UserDataIntact
  BY DEF IInv
<1> QED BY Invariant, <1>1, PTL

\* Walking from header to header over the pool meets the callers' chunks and
\* the free ones and ends where the pool ends; free neighbours are joined.
THEOREM Tiled == Spec => []ChunksTile
<1>1. IInv => ChunksTile
  <2> SUFFICES ASSUME IInv, pool_start PROVE ChunksTile
    BY DEF ChunksTile
  <2>1. PICK B, F : IsSound(Heap, B, F) /\ {x.at : x \in live} = (B \ F) \ {PoolUnits}
    BY DEF IInv, HeapInv, IsHeld
  <2>2. /\ F \subseteq B \ {PoolUnits} /\ B \ {PoolUnits} \subseteq Addr
        /\ NULL \notin Addr /\ PoolUnits \in B
    BY <2>1, SoundBounds
  <2>3. Heap \in HeapSet /\ IsTiling(Heap, B)
    BY <2>1 DEF IsSound
  <2>4. Walked(Heap) = B
    BY <2>3, WalkedIs
  <2>5. Heap.mem = mem
    BY DEF Heap
  <2>6. \A a \in B \ {PoolUnits} : IsFree(Heap, a) <=> a \in F
    BY <2>1, <2>2 DEF IsSound, IsFree
  <2>7. \A a \in B \ {PoolUnits} : mem[a] # UserData
    BY <2>3, <2>5, UserDataNoHeader DEF IsTiling
  <2>8. {x.at : x \in live} = {a \in B \ {PoolUnits} : ~IsFree(Heap, a)}
    BY <2>1, <2>6
  <2>9. ASSUME NEW a \in B \ {PoolUnits}, IsFree(Heap, a)
        PROVE  After(Heap, a) = PoolUnits \/ ~IsFree(Heap, After(Heap, a))
    <3>1. After(Heap, a) \in B /\ After(Heap, a) \notin F
      BY <2>1, <2>3, <2>6, <2>9 DEF IsSound, IsTiling
    <3> QED BY <2>6, <3>1
  <2>10. \A b, c \in live : b.at = c.at => b = c
    BY DEF IInv, HeapInv
  <2> QED BY <2>2, <2>4, <2>7, <2>8, <2>9, <2>10 DEF ChunksTile
<1> QED BY Invariant, <1>1, PTL

\* Every free chunk is in the list of its level exactly once and nothing else
\* is in a list, with back links that mirror the forward links.
THEOREM ListsRight == Spec => []ListsExact
<1>1. IInv => ListsExact
  <2> SUFFICES ASSUME IInv, pool_start, NEW l \in Levels
               PROVE  LET list == List(Heap, l)
                      IN /\ {list[k] : k \in DOMAIN list}
                              = {a \in Walked(Heap) \ {PoolUnits} :
                                   IsFree(Heap, a) /\ compute_level(SizeAt(Heap, a)) = l}
                         /\ \A j, k \in DOMAIN list : j # k => list[j] # list[k]
                         /\ \A k \in DOMAIN list :
                              mem[list[k]].prev = IF k = 1 THEN NULL ELSE list[k - 1]
    BY DEF ListsExact
  <2>1. PICK B, F : IsSound(Heap, B, F)
    BY DEF IInv, HeapInv, IsHeld
  <2>2. F \subseteq B \ {PoolUnits} /\ B \ {PoolUnits} \subseteq Addr /\ NULL \notin Addr
    BY <2>1, SoundBounds
  <2>3. Walked(Heap) = B
    BY <2>1, WalkedIs DEF IsSound
  <2>4. \A a \in B \ {PoolUnits} : IsFree(Heap, a) <=> a \in F
    BY <2>1, <2>2 DEF IsSound, IsFree
  <2>5. Heap.mem = mem
    BY DEF Heap
  <2> DEFINE list == List(Heap, l)
  <2>6. ListIs(Heap, F, l, list)
    BY <2>1, ListIsExact DEF IsSound
  <2> HIDE DEF list
  <2>7. {list[k] : k \in DOMAIN list}
          = {a \in Walked(Heap) \ {PoolUnits} :
               IsFree(Heap, a) /\ compute_level(SizeAt(Heap, a)) = l}
    <3>1. {list[k] : k \in DOMAIN list} = {a \in F : compute_level(SizeAt(Heap, a)) = l}
      BY <2>6 DEF ListIs, LevelAt
    <3>2. \A a : a \in F <=> a \in Walked(Heap) \ {PoolUnits} /\ IsFree(Heap, a)
      BY <2>2, <2>3, <2>4
    <3> QED BY <3>1, <3>2
  <2>8. /\ \A j, k \in DOMAIN list : j # k => list[j] # list[k]
        /\ \A k \in DOMAIN list : mem[list[k]].prev = IF k = 1 THEN NULL ELSE list[k - 1]
    BY <2>5, <2>6 DEF ListIs
  <2> QED BY <2>7, <2>8 DEF list
<1> QED BY Invariant, <1>1, PTL

\* No request but the debug request -1 is so large that round_up_32 wraps.
SizesRound == \A size \in Requests : size # SizeMod - 1 => size + 31 < SizeMod

\* Every caller has the bytes it asked for, and less than 64 bytes more.
THEOREM Served ==
  ASSUME SizesRound
  PROVE  Spec => []RequestServed
<1>1. Init => RequestServed
  BY DEF Init, RequestServed
<1>2. IInv /\ IInv' /\ Keeps /\ RequestServed => RequestServed'
  <2> SUFFICES ASSUME IInv', Keeps, RequestServed, NEW b \in live'
               PROVE  /\ b.bytes <= ALLOC_SIZE_UNIT * SizeAt(Heap', b.at)
                      /\ ALLOC_SIZE_UNIT * SizeAt(Heap', b.at) < b.bytes + 2 * ALLOC_SIZE_UNIT
    BY DEF RequestServed
  <2>1. CASE b \in live /\ SizeAt(Heap', b.at) = SizeAt(Heap, b.at)
    BY <2>1 DEF RequestServed
  <2>2. CASE /\ b.bytes # 0 /\ b.bytes # SizeMod - 1
             /\ round_up_32(b.bytes) \in Nat
             /\ round_up_32(b.bytes) <= SizeAt(Heap', b.at)
             /\ SizeAt(Heap', b.at) <= round_up_32(b.bytes) + 1
    <3> DEFINE n == b.bytes
               k == SizeAt(Heap', b.at)
               u == round_up_32(n)
    <3>1. b.at \in Addr /\ n \in Requests
      BY DEF IInv, TypeOK
    <3>2. n \in Nat /\ n + 31 < SizeMod /\ SizeMod \in Nat
      <4>1. SizeMod \in Nat
        BY WidthAssumption
      <4>2. n \in 0..(SizeMod - 1)
        BY <3>1, RequestAssumption
      <4>3. n # SizeMod - 1
        BY <2>2
      <4> HIDE DEF n
      <4>4. n + 31 < SizeMod
        BY <3>1, <4>3 DEF SizesRound
      <4> QED BY <4>1, <4>2, <4>4
    <3>3. k \in Nat
      <4>1. (Heap \in HeapSet)'
        BY HeapType, PTL DEF IInv
      <4>2. k \in 0..(PoolUnits - 1)
        BY <3>1, <4>1, Fields
      <4> QED BY <4>2
    <3>4. u = (n + 31) \div 32
      <4>1. (n + 31) % SizeMod = n + 31
        BY <3>2
      <4> QED BY <2>2, <4>1 DEF round_up_32, ALLOC_SIZE_UNIT
    <3>5. u \in Nat /\ u <= k /\ k <= u + 1
      BY <2>2
    <3> HIDE DEF n, k, u
    <3>6. n <= 32 * u /\ 32 * u < n + 32
      BY <3>2, <3>4
    <3>7. n <= 32 * k /\ 32 * k < n + 64
      BY <3>2, <3>3, <3>5, <3>6
    <3> QED BY <3>7 DEF n, k, ALLOC_SIZE_UNIT
  <2> QED BY <2>1, <2>2 DEF Keeps
<1>3. IInv /\ [Next]_vars => Keeps
  BY InvNext
<1> QED BY Invariant, <1>1, <1>2, <1>3, PTL DEF Spec

---------------------------------------------------------------------------
(* The abstract allocator.                                                 *)

ChunksAt(h, A)   == {ChunkAt(h, a) : a \in A}
ChunksOf(N, len) == {Abstract!Chunk(n, len) : n \in N}

\* The order of the chunks left, old, and of those of new behind them.
Reordered(old, left, new) ==
  {p \in old : p[1] \in left /\ p[2] \in left} \cup {p \in left \X new : p[1].len = p[2].len}

LEMMA ListedIs ==
  ASSUME NEW h \in HeapSet, NEW F, IsLinked(h, F)
  PROVE  Listed(h) = F
<1>1. ASSUME NEW l \in Levels
      PROVE  {List(h, l)[k] : k \in DOMAIN List(h, l)} = {a \in F : LevelAt(h, a) = l}
  BY ListIsExact DEF ListIs
<1>2. \A a \in F : LevelAt(h, a) \in Levels
  BY LevelInRange DEF LevelAt
<1> QED BY <1>1, <1>2 DEF Listed

\* A change of the lists, as the abstract allocator sees it.
LEMMA ChangeSeen ==
  ASSUME NEW h \in HeapSet, NEW r \in HeapSet, NEW F, NEW F2, IsLinked(h, F), IsLinked(r, F2),
         NEW gone \in SUBSET F, NEW N, NEW len, F2 = (F \ gone) \cup N,
         IsChanged(h, r, F, gone, N, len),
         NEW left, left = FreeChunks(h) \ ChunksAt(h, gone), NEW new, new = ChunksOf(N, len)
  PROVE  /\ FreeChunks(r) = left \cup new
         /\ Seniority(r) = Reordered(Seniority(h), left, new)
<1>1. Listed(h) = F /\ Listed(r) = F2
  BY ListedIs
<1>2. \A g \in HeapSet : \A a : ChunkAt(g, a).at = a /\ ChunkAt(g, a).len = SizeAt(g, a)
  BY DEF ChunkAt
<1>3. /\ \A a \in F \ gone : SizeAt(r, a) = SizeAt(h, a)
      /\ \A n \in N : SizeAt(r, n) = len
      /\ OlderPeers(r) = {p \in OlderPeers(h) : p[1] \notin gone /\ p[2] \notin gone}
                           \cup {<<a, n>> : a \in {x \in F \ gone : SizeAt(h, x) = len}, n \in N}
  BY DEF IsChanged
<1>4. \A a \in F \ gone : ChunkAt(r, a) = ChunkAt(h, a)
  BY <1>3 DEF ChunkAt
<1>5. /\ \A n \in N : ChunkAt(r, n) = [at |-> n, len |-> len]
      /\ new = {[at |-> n, len |-> len] : n \in N}
  BY <1>3 DEF ChunkAt, ChunksOf, Abstract!Chunk
<1>6. left = {ChunkAt(h, a) : a \in F \ gone}
  <2>1. \A a, b \in F : ChunkAt(h, a) = ChunkAt(h, b) => a = b
    BY <1>2
  <2> QED BY <1>1, <2>1 DEF FreeChunks, ChunksAt
<1>7. \A a \in F : ChunkAt(h, a) \in left <=> a \notin gone
  BY <1>2, <1>6
<1>8. FreeChunks(r) = left \cup new
  BY <1>1, <1>4, <1>5, <1>6 DEF FreeChunks
<1> DEFINE P(g, p) == <<ChunkAt(g, p[1]), ChunkAt(g, p[2])>>
           Q == {p \in OlderPeers(h) : p[1] \notin gone /\ p[2] \notin gone}
           J == {x \in F \ gone : SizeAt(h, x) = len}
           K == {<<a, n>> : a \in J, n \in N}
<1>9. \A p \in OlderPeers(h) : p[1] \in F /\ p[2] \in F
  BY PeersRange
<1>10. {P(r, p) : p \in Q} = {p \in Seniority(h) : p[1] \in left /\ p[2] \in left}
  <2>1. \A p \in Q : P(r, p) = P(h, p)
    BY <1>4, <1>9
  <2>2. \A p \in OlderPeers(h) : P(h, p)[1] \in left /\ P(h, p)[2] \in left <=> p \in Q
    BY <1>7, <1>9
  <2>3. Seniority(h) = {P(h, p) : p \in OlderPeers(h)}
    BY DEF Seniority
  <2>4. Q \subseteq OlderPeers(h)
    OBVIOUS
  <2> HIDE DEF P, Q
  <2> QED BY <2>1, <2>2, <2>3, <2>4
<1>11. {P(r, p) : p \in K} = {p \in left \X new : p[1].len = p[2].len}
  <2> DEFINE V == {<<ChunkAt(r, a), ChunkAt(r, n)>> : a \in J, n \in N}
             W == {p \in left \X new : p[1].len = p[2].len}
  <2>1. {P(r, p) : p \in K} = V
    <3>1. ASSUME NEW p \in K PROVE P(r, p) \in V
      <4>1. PICK a \in J, n \in N : p = <<a, n>>
        OBVIOUS
      <4>2. P(r, p) = <<ChunkAt(r, a), ChunkAt(r, n)>>
        BY <4>1
      <4> HIDE DEF J, P
      <4> QED BY <4>2
    <3>2. ASSUME NEW v \in V PROVE \E p \in K : v = P(r, p)
      <4>1. PICK a \in J, n \in N : v = <<ChunkAt(r, a), ChunkAt(r, n)>>
        OBVIOUS
      <4>2. <<a, n>> \in K /\ P(r, <<a, n>>) = v
        BY <4>1
      <4> HIDE DEF K, P
      <4> QED BY <4>2
    <3> HIDE DEF P, K, V
    <3> QED BY <3>1, <3>2
  <2>2. \A a \in J : ChunkAt(r, a) = ChunkAt(h, a) /\ ChunkAt(h, a) \in left /\ ChunkAt(h, a).len = len
    BY <1>2, <1>4, <1>6
  <2>3. \A n \in N : ChunkAt(r, n) \in new /\ ChunkAt(r, n).len = len
    BY <1>5
  <2>4. ASSUME NEW p \in left \X new, p[1].len = p[2].len
        PROVE  p \in {<<ChunkAt(r, a), ChunkAt(r, n)>> : a \in J, n \in N}
    <3>1. PICK a \in F \ gone : p[1] = ChunkAt(h, a)
      BY <1>6
    <3>2. PICK n \in N : p[2] = [at |-> n, len |-> len]
      BY <1>5
    <3>3. SizeAt(h, a) = len
      BY <1>2, <2>4, <3>1, <3>2
    <3>4. a \in J /\ p[1] = ChunkAt(r, a) /\ p[2] = ChunkAt(r, n)
      BY <1>4, <1>5, <3>1, <3>2, <3>3
    <3> HIDE DEF J
    <3>5. p = <<ChunkAt(r, a), ChunkAt(r, n)>>
      BY <3>4
    <3> QED BY <3>4, <3>5
  <2>5. ASSUME NEW a \in J, NEW n \in N
        PROVE  <<ChunkAt(r, a), ChunkAt(r, n)>> \in {p \in left \X new : p[1].len = p[2].len}
    BY <2>2, <2>3
  <2>6. V = W
    <3>1. ASSUME NEW v \in V PROVE v \in W
      <4>1. PICK a \in J, n \in N : v = <<ChunkAt(r, a), ChunkAt(r, n)>>
        OBVIOUS
      <4> HIDE DEF J, W, V
      <4> QED BY <2>5, <4>1 DEF W
    <3>2. \A w \in W : w \in V
      BY <2>4
    <3> HIDE DEF V, W
    <3> QED BY <3>1, <3>2
  <2> QED BY <2>1, <2>6
<1>12. Seniority(r) = {P(r, p) : p \in Q} \cup {P(r, p) : p \in K}
  <2>1. OlderPeers(r) = Q \cup K
    BY <1>3
  <2> HIDE DEF Q, K
  <2> QED BY <2>1 DEF Seniority
<1> QED BY <1>8, <1>10, <1>11, <1>12 DEF Reordered

\* The pool of the abstract allocator is the one malloc works on.
LEMMA PoolSeen ==
  ASSUME IInv, NEW B, NEW F, IsSound(Pool, B, F)
  PROVE  /\ Abstract!Pool = FreeChunks(Pool)
         /\ (IF pool_start THEN Seniority(Heap) ELSE {}) = Seniority(Pool)
         /\ FreeChunks(Pool) = {ChunkAt(Pool, a) : a \in F}
<1>1. Pool \in HeapSet /\ IsLinked(Pool, F) /\ Listed(Pool) = F
  BY ListedIs DEF IsSound
<1>2. CASE pool_start
  BY <1>1, <1>2 DEF Pool, Abstract!Pool, FreeChunks
<1>3. CASE ~pool_start
  <2>1. Pool = init_pool
    BY <1>3 DEF Pool
  <2>2. IsSound(init_pool, {0, PoolUnits}, {0})
    BY InitPoolSound
  <2>3. F = {0} /\ SizeAt(Pool, 0) = PoolUnits - 1
    <3>1. Listed(init_pool) = {0}
      BY <2>2, ListedIs DEF IsSound
    <3>2. After(init_pool, 0) = PoolUnits
      <4>1. After(init_pool, 0) \in {0, PoolUnits} /\ After(init_pool, 0) \notin {0}
        <5>1. 0 \in {0, PoolUnits} \ {PoolUnits}
          BY PoolAssumption
        <5> QED BY <2>2, <5>1 DEF IsSound, IsTiling
      <4> QED BY <4>1
    <3>3. SizeAt(init_pool, 0) \in Int
      <4>1. 0 \in Addr /\ init_pool \in HeapSet
        BY <2>2, PoolAssumption DEF IsSound, Addr
      <4>2. SizeAt(init_pool, 0) \in 0..(PoolUnits - 1)
        BY <4>1, Fields
      <4> QED BY <4>2
    <3>4. SizeAt(init_pool, 0) = PoolUnits - 1
      BY <3>2, <3>3, PoolAssumption DEF After
    <3> QED BY <1>1, <2>1, <3>1, <3>4
  <2>4. FreeChunks(Pool) = {ChunkAt(Pool, a) : a \in F}
    BY <1>1 DEF FreeChunks
  <2>5. FreeChunks(Pool) = {[at |-> 0, len |-> PoolUnits - 1]}
    BY <2>3, <2>4 DEF ChunkAt
  <2>6. Abstract!Pool = {[at |-> 0, len |-> PoolUnits - 1]}
    BY <1>3 DEF Abstract!Pool, Abstract!Chunk
  <2>7. OlderPeers(Pool) = {}
    <3>1. ASSUME NEW p \in OlderPeers(Pool) PROVE FALSE
      <4>1. p[1] \in F /\ p[2] \in F /\ p[1] # p[2]
        BY <1>1, PeersRange
      <4> QED BY <2>3, <4>1
    <3> QED BY <3>1
  <2> QED BY <1>3, <2>4, <2>5, <2>6, <2>7 DEF Seniority
<1> QED BY <1>2, <1>3

LEMMA ChangeMaps ==
  ASSUME IInv, pool_start' = TRUE, NEW B, NEW F, IsSound(Pool, B, F), NEW r, Heap' = r,
         NEW B2, NEW F2, IsSound(r, B2, F2), NEW gone \in SUBSET F, NEW N, NEW len,
         F2 = (F \ gone) \cup N, IsChanged(Pool, r, F, gone, N, len)
  PROVE  Abstract!Change(ChunksAt(Pool, gone), ChunksOf(N, len))
<1> DEFINE new  == ChunksOf(N, len)
           G    == ChunksAt(Pool, gone)
           left == FreeChunks(Pool) \ G
<1>1. /\ Pool \in HeapSet /\ IsLinked(Pool, F) /\ r \in HeapSet /\ IsLinked(r, F2)
  BY DEF IsSound
<1>2. /\ FreeChunks(r) = left \cup new
      /\ Seniority(r) = Reordered(Seniority(Pool), left, new)
  <2>1. left = FreeChunks(Pool) \ ChunksAt(Pool, gone) /\ new = ChunksOf(N, len)
    OBVIOUS
  <2> HIDE DEF left, new, G, Pool
  <2> QED BY <1>1, <2>1, ChangeSeen
<1>3. /\ Abstract!Pool = FreeChunks(Pool)
      /\ (IF pool_start THEN Seniority(Heap) ELSE {}) = Seniority(Pool)
  BY PoolSeen
<1>4. FreeChunks(Heap)' = FreeChunks(r) /\ Seniority(Heap)' = Seniority(r)
  BY DEF FreeChunks, Seniority
<1> HIDE DEF new, G, Pool
<1>5. Abstract!Change(G, new)
  BY <1>2, <1>3, <1>4 DEF Abstract!Change, Reordered
<1> QED BY <1>5 DEF G, new

\* Mapping the pool changes no free chunk.
LEMMA InstallMaps ==
  ASSUME IInv, pool_start' = TRUE, Install(Pool), UNCHANGED live
  PROVE  /\ Abstract!Change({}, {})
         /\ {ChunkAt(Heap, b.at) : b \in live}' = {ChunkAt(Heap, b.at) : b \in live}
<1>1. PICK B, F : IsHeld(Pool, B, F, live)
  BY PoolHeld
<1>2. IsSound(Pool, B, F) /\ Pool \in HeapSet /\ \A b \in live : Pool = Heap
  BY <1>1, PoolHeld DEF IsHeld
<1>3. Heap' = Pool
  BY <1>2, AsHeap DEF Heap, Install
<1> DEFINE h == Pool
<1>4. Abstract!Change(ChunksAt(h, {}), ChunksOf({}, 0))
  <2> HIDE DEF h
  <2>1. F = (F \ {}) \cup {}
    OBVIOUS
  <2>2. IsChanged(h, h, F, {}, {}, 0)
    BY DEF IsChanged
  <2>3. IsSound(h, B, F) /\ Heap' = h
    BY <1>2, <1>3 DEF h
  <2>4. {} \in SUBSET F
    OBVIOUS
  <2> QED BY <2>1, <2>2, <2>3, <2>4, ChangeMaps DEF h
<1>5. ChunksAt(h, {}) = {} /\ ChunksOf({}, 0) = {}
  BY DEF ChunksAt, ChunksOf
<1>6. {ChunkAt(Heap', b.at) : b \in live'} = {ChunkAt(Heap, b.at) : b \in live}
  BY <1>2, <1>3
<1> QED BY <1>4, <1>5, <1>6 DEF ChunkAt, SizeAt

LEMMA TouchMaps ==
  ASSUME IInv, MallocDebug
  PROVE  Abstract!Touch
<1>1. pool_start' = TRUE /\ Install(Pool) /\ UNCHANGED <<live, report, crashed>>
  BY DEF MallocDebug
<1>2. /\ Abstract!Change({}, {})
      /\ {ChunkAt(Heap, b.at) : b \in live}' = {ChunkAt(Heap, b.at) : b \in live}
  BY <1>1, InstallMaps
<1> QED BY <1>1, <1>2 DEF Abstract!Touch

\* A request for which there is no sufficient chunk takes nothing.
LEMMA RefuseMaps ==
  ASSUME IInv, NEW units \in Nat, units >= 1, best_fit_chunk(Pool, units) = NULL,
         pool_start' = TRUE, Install(Pool), UNCHANGED <<live, report, crashed>>
  PROVE  \E n \in 1..PoolUnits : Abstract!Allocate(n)
<1>1. PICK B, F : IsHeld(Pool, B, F, live)
  BY PoolHeld
<1>2. IsSound(Pool, B, F) /\ Pool \in HeapSet /\ IsLinked(Pool, F) /\ F \subseteq Addr
  BY <1>1, SoundBounds DEF IsHeld, IsSound
<1>3. Abstract!Pool = {ChunkAt(Pool, a) : a \in F}
  BY <1>2, PoolSeen
<1>4. \A a \in F : SizeAt(Pool, a) < units /\ SizeAt(Pool, a) \in 0..(PoolUnits - 1)
  <2>1. IsBestFit(Pool, F, units, best_fit_chunk(Pool, units))
    BY <1>2, BestFitFound
  <2> QED BY <1>2, <2>1, Fields DEF IsBestFit
<1>5. PICK n \in 1..PoolUnits : \A a \in F : SizeAt(Pool, a) < n
  <2>1. CASE units <= PoolUnits
    BY <1>4, <2>1
  <2>2. CASE ~(units <= PoolUnits)
    <3>1. PoolUnits \in 1..PoolUnits /\ \A a \in F : SizeAt(Pool, a) < PoolUnits
      BY <1>4, PoolAssumption
    <3> QED BY <3>1
  <2> QED BY <2>1, <2>2
<1>6. \A c \in Abstract!Pool : c.len < n
  BY <1>3, <1>5 DEF ChunkAt
<1>7. /\ Abstract!Change({}, {})
      /\ {ChunkAt(Heap, b.at) : b \in live}' = {ChunkAt(Heap, b.at) : b \in live}
  BY InstallMaps
<1>8. Abstract!Allocate(n)
  BY <1>6, <1>7 DEF Abstract!Allocate
<1> QED BY <1>8

\* A granted request takes the best fit.
LEMMA GrantMaps ==
  ASSUME IInv, NEW size \in Requests, NEW units, units = round_up_32(size), size # 0, units >= 1,
         NEW c, c = best_fit_chunk(Pool, units), c # NULL, pool_start' = TRUE,
         mem' = Written(split(Pool, c, units), c), free_lists' = split(Pool, c, units).lists,
         live' = live \cup {[at |-> c, bytes |-> size]}, UNCHANGED <<report, crashed>>
  PROVE  \E n \in 1..PoolUnits : Abstract!Allocate(n)
<1> DEFINE new == [at |-> c, bytes |-> size]
           h   == Pool
           k   == SizeAt(h, c)
           d   == ChunkAt(h, c)
           used == {ChunkAt(Heap, b.at) : b \in live}
<1>1. PICK B, F, B2, F2 : IsGranted(B, F, B2, F2, c, units)
  BY GrantEffect
<1>2. /\ IsHeld(h, B, F, live) /\ IsBestFit(h, F, units, c)
      /\ units \in Nat /\ c \in F /\ k \in 0..(PoolUnits - 1)
      /\ IsSound(Heap', B2, F2) /\ units <= SizeAt(Heap', c)
      /\ SizeAt(Heap', c) = IF k - units >= 2 THEN units ELSE k
      /\ F2 = (F \ {c}) \cup Rest(h, c, units)
      /\ IsChanged(h, Heap', F, {c}, Rest(h, c, units), k - units - 1)
      /\ \A b \in live : SizeAt(Heap', b.at) = SizeAt(Heap, b.at)
  BY <1>1 DEF IsGranted
<1>3. IsSound(h, B, F) /\ F \subseteq Addr
  BY <1>2, SoundBounds DEF IsHeld
<1>4. /\ Abstract!Pool = FreeChunks(h) /\ FreeChunks(h) = {ChunkAt(h, a) : a \in F}
      /\ (IF pool_start THEN Seniority(Heap) ELSE {}) = Seniority(h)
  BY <1>3, PoolSeen
<1>5. Abstract!Change(ChunksAt(h, {c}), ChunksOf(Rest(h, c, units), k - units - 1))
  <2> DEFINE N == Rest(h, c, units)
             len == k - units - 1
  <2> HIDE DEF N, len
  <2>1. F2 = (F \ {c}) \cup N /\ IsChanged(h, Heap', F, {c}, N, len) /\ {c} \in SUBSET F
    BY <1>2 DEF N, len
  <2>2. Abstract!Change(ChunksAt(h, {c}), ChunksOf(N, len))
    BY <1>2, <1>3, <2>1, ChangeMaps
  <2> QED BY <2>2 DEF N, len
<1> HIDE DEF h, k
<1>6. d \in Abstract!Pool /\ d.at = c /\ d.len = k /\ d = [at |-> c, len |-> k]
  BY <1>2, <1>4 DEF ChunkAt, k
<1>7. k >= units /\ units \in 1..PoolUnits
  <2>1. k >= units
    BY <1>2 DEF IsBestFit, k
  <2> QED BY <1>2, <2>1, PoolAssumption
<1>8. ASSUME NEW x \in Abstract!Pool, x.len >= units PROVE d.len <= x.len
  <2>1. PICK a \in F : x = ChunkAt(h, a)
    BY <1>4
  <2>2. SizeAt(h, a) >= units
    BY <1>8, <2>1 DEF ChunkAt
  <2>3. k <= SizeAt(h, a)
    BY <1>2, <2>2 DEF IsBestFit, k
  <2> QED BY <1>6, <2>1, <2>3 DEF ChunkAt
<1>9. ASSUME NEW x \in Abstract!Pool PROVE <<x, d>> \notin Seniority(h)
  <2> SUFFICES ASSUME <<x, d>> \in Seniority(h) PROVE FALSE
    OBVIOUS
  <2>1. PICK p \in OlderPeers(h) : <<x, d>> = <<ChunkAt(h, p[1]), ChunkAt(h, p[2])>>
    BY DEF Seniority
  <2>2. p = <<p[1], p[2]>> /\ p[1] \in F /\ SizeAt(h, p[1]) = SizeAt(h, p[2])
    BY <1>3, PeersRange DEF IsSound
  <2>3. p[2] = c
    BY <1>6, <2>1 DEF ChunkAt
  <2>4. <<p[1], c>> \in Older(h)
    BY <2>2, <2>3 DEF OlderPeers
  <2> QED BY <1>2, <2>2, <2>3, <2>4 DEF IsBestFit
<1>10. {ChunkAt(Heap, b.at) : b \in live}' = used \cup {[at |-> c, len |-> SizeAt(Heap', c)]}
  <2>1. \A b \in live : ChunkAt(Heap', b.at) = ChunkAt(Heap, b.at)
    BY <1>2 DEF ChunkAt
  <2>2. ChunkAt(Heap', new.at) = [at |-> c, len |-> SizeAt(Heap', c)]
    BY DEF ChunkAt
  <2>3. live' = live \cup {new}
    OBVIOUS
  <2> HIDE DEF new
  <2>4. {ChunkAt(Heap', b.at) : b \in live'} = used \cup {[at |-> c, len |-> SizeAt(Heap', c)]}
    BY <2>1, <2>2, <2>3
  <2> QED BY <2>4 DEF ChunkAt, SizeAt
<1>11. ChunksAt(h, {c}) = {d}
  BY DEF ChunksAt
<1> HIDE DEF d, used
<1>12. Abstract!Take(d, units)
  <2>1. CASE k - units >= 2
    <3>1. ChunksOf(Rest(h, c, units), k - units - 1) = {Abstract!Chunk(c + 1 + units, k - units - 1)}
      BY <2>1 DEF ChunksOf, Rest, k
    <3>2. Abstract!Chunk(c, units) = [at |-> c, len |-> SizeAt(Heap', c)]
      BY <1>2, <2>1 DEF Abstract!Chunk
    <3> QED BY <1>5, <1>6, <1>10, <1>11, <2>1, <3>1, <3>2 DEF Abstract!Take, used
  <2>2. CASE ~(k - units >= 2)
    <3>1. ChunksOf(Rest(h, c, units), k - units - 1) = {}
      BY <2>2 DEF ChunksOf, Rest, k
    <3>2. d = [at |-> c, len |-> SizeAt(Heap', c)]
      BY <1>2, <1>6, <2>2
    <3> QED BY <1>5, <1>6, <1>10, <1>11, <2>2, <3>1, <3>2 DEF Abstract!Take, used
  <2> QED BY <2>1, <2>2
<1>13. Abstract!Allocate(units)
  BY <1>4, <1>6, <1>7, <1>8, <1>9, <1>12 DEF Abstract!Allocate
<1> QED BY <1>7, <1>13

LEMMA ExtremesAre ==
  ASSUME NEW T \in SUBSET Int, NEW x \in T
  PROVE  /\ (\A y \in T : y <= x) => Abstract!Max(T) = x
         /\ (\A y \in T : x <= y) => Abstract!Min(T) = x
<1>1. ASSUME \A y \in T : y <= x PROVE Abstract!Max(T) = x
  <2>1. \A y \in T : (\A z \in T : y >= z) <=> y = x
    BY <1>1
  <2> QED BY <2>1 DEF Abstract!Max
<1>2. ASSUME \A y \in T : x <= y PROVE Abstract!Min(T) = x
  <2>1. \A y \in T : (\A z \in T : y <= z) <=> y = x
    BY <1>2
  <2> QED BY <2>1 DEF Abstract!Min
<1> QED BY <1>1, <1>2

\* The size malloc(0) prints is that of the largest free chunk; without a free
\* chunk the program is gone.
LEMMA ZeroMaps ==
  ASSUME IInv, MallocZero
  PROVE  Abstract!EndOfTest \/ UNCHANGED <<pool_start, mem, free_lists, live, report>>
<1> DEFINE h == Pool
           biggest == find_the_biggest_free_chunk(h)
<1>1. IF biggest = NULL
      THEN UNCHANGED <<pool_start, mem, free_lists, live, report>>
      ELSE /\ report' = SizeAt(h, biggest) /\ pool_start' = FALSE
           /\ live' = {} /\ UNCHANGED crashed
  BY DEF MallocZero
<1>2. PICK B, F : IsHeld(h, B, F, live)
  BY PoolHeld
<1>3. IsSound(h, B, F) /\ h \in HeapSet /\ IsLinked(h, F) /\ F \subseteq Addr
  BY <1>2, SoundBounds DEF IsHeld, IsSound
<1>4. Abstract!Pool = {ChunkAt(h, a) : a \in F}
  BY <1>3, PoolSeen
<1> HIDE DEF h
<1>5. CASE biggest # NULL
  <2>1. biggest \in F /\ \A a \in F : SizeAt(h, a) <= SizeAt(h, biggest)
    BY <1>3, <1>5, BiggestFound
  <2> HIDE DEF biggest
  <2> DEFINE T == {c.len : c \in Abstract!Pool}
  <2>2. T = {SizeAt(h, a) : a \in F}
    <3>1. \A a \in F : ChunkAt(h, a).len = SizeAt(h, a)
      BY DEF ChunkAt
    <3>2. T = {c.len : c \in {ChunkAt(h, a) : a \in F}}
      BY <1>4
    <3> QED BY <3>1, <3>2
  <2>3. \A a \in F : SizeAt(h, a) \in Int
    <3>1. \A a \in F : SizeAt(h, a) \in 0..(PoolUnits - 1)
      BY <1>3, Fields
    <3> QED BY <3>1
  <2>4. T \in SUBSET Int /\ SizeAt(h, biggest) \in T /\ \A y \in T : y <= SizeAt(h, biggest)
    BY <2>1, <2>2, <2>3
  <2>5. Abstract!Max(T) = SizeAt(h, biggest)
    <3> HIDE DEF T
    <3> QED BY <2>4, ExtremesAre
  <2>6. Abstract!Pool # {}
    BY <1>4, <2>1
  <2>7. {ChunkAt(Heap, b.at) : b \in live}' = {}
    BY <1>1, <1>5
  <2> QED BY <1>1, <1>5, <2>5, <2>6, <2>7 DEF Abstract!EndOfTest
<1> QED BY <1>1, <1>5

\* free joins the caller's chunk with the free chunks next to it.
LEMMA FreeMaps ==
  ASSUME IInv, NEW b \in live, Free(b)
  PROVE  \E c \in {ChunkAt(Heap, x.at) : x \in live} : Abstract!Release(c)
<1> DEFINE c    == ChunkAt(Heap, b.at)
           used == {ChunkAt(Heap, x.at) : x \in live}
<1>1. pool_start /\ live' = live \ {b} /\ UNCHANGED <<pool_start, report>>
  BY DEF Free
<1>2. PICK B, F, B2, F2, m, len : IsReleased(B, F, B2, F2, m, len, b)
  BY FreeEffect
<1> DEFINE gone == Beside(Heap, F, b.at)
           both == gone \cup {b.at}
           beside == {x \in FreeChunks(Heap) :
                        Abstract!End(x) = c.at \/ x.at = Abstract!End(c)}
<1>3. /\ IsHeld(Heap, B, F, live) /\ IsSound(Heap', B2, F2) /\ b.at \in B \ {PoolUnits}
      /\ F2 = (F \ gone) \cup {m} /\ IsChanged(Heap, Heap', F, gone, {m}, len)
      /\ m \in both /\ \A a \in both : m <= a /\ After(Heap, a) <= m + 1 + len
      /\ \E a \in both : After(Heap, a) = m + 1 + len
      /\ \A x \in live' : x.at # b.at /\ SizeAt(Heap', x.at) = SizeAt(Heap, x.at)
  BY <1>2 DEF IsReleased, IsUnion
<1>4. Pool = Heap
  BY <1>1 DEF Pool
<1>5. IsSound(Pool, B, F) /\ Heap \in HeapSet /\ F \subseteq B \ {PoolUnits}
  BY <1>3, <1>4, SoundBounds DEF IsHeld, IsSound
<1>6. FreeChunks(Heap) = {ChunkAt(Heap, a) : a \in F}
  BY <1>4, <1>5, PoolSeen
<1>7. \A a : Abstract!End(ChunkAt(Heap, a)) = After(Heap, a) /\ ChunkAt(Heap, a).at = a
  BY DEF Abstract!End, ChunkAt, After
<1>8. beside = ChunksAt(Heap, gone)
  BY <1>6, <1>7 DEF Beside, ChunksAt
<1>9. beside \cup {c} = {ChunkAt(Heap, a) : a \in both}
  <2> HIDE DEF gone, beside
  <2> QED BY <1>8 DEF ChunksAt
<1> DEFINE starts == {x.at : x \in beside \cup {c}}
           ends   == {Abstract!End(x) : x \in beside \cup {c}}
<1>10. starts = both /\ ends = {After(Heap, a) : a \in both}
  <2> HIDE DEF beside, c, gone, both
  <2> QED BY <1>7, <1>9
<1>11. \A a \in both : a \in Int /\ After(Heap, a) \in Int
  <2>1. both \subseteq B \ {PoolUnits}
    BY <1>3, <1>5 DEF Beside
  <2>2. IsTiling(Heap, B) /\ B \subseteq Int
    BY <1>4, <1>5, SoundBounds DEF IsSound
  <2> HIDE DEF both
  <2>3. \A a \in both : a \in Int /\ After(Heap, a) \in B
    BY <2>1, <2>2, <1>5, TilingBounds
  <2> QED BY <2>2, <2>3
<1>12. Abstract!Min(starts) = m
  <2> HIDE DEF both, starts
  <2>1. starts \in SUBSET Int /\ m \in starts /\ \A y \in starts : m <= y
    BY <1>3, <1>10, <1>11
  <2> QED BY <2>1, ExtremesAre
<1>13. Abstract!Max(ends) = m + 1 + len
  <2> HIDE DEF both, ends
  <2>1. ends \in SUBSET Int /\ m + 1 + len \in ends /\ \A y \in ends : y <= m + 1 + len
    BY <1>3, <1>10, <1>11
  <2> QED BY <2>1, ExtremesAre
<1>14. {ChunkAt(Heap, x.at) : x \in live}' = used \ {c}
  <2>1. \A x \in live' : ChunkAt(Heap', x.at) = ChunkAt(Heap, x.at) /\ ChunkAt(Heap, x.at) # c
    BY <1>3 DEF ChunkAt
  <2> HIDE DEF c
  <2>2. {ChunkAt(Heap', x.at) : x \in live'} = used \ {c}
    BY <1>1, <2>1 DEF c
  <2> QED BY <2>2 DEF ChunkAt, SizeAt
<1>15. Abstract!Change(beside, ChunksOf({m}, len))
  <2> HIDE DEF gone, beside
  <2>1. gone \in SUBSET F
    BY DEF gone, Beside
  <2>2. Abstract!Change(ChunksAt(Pool, gone), ChunksOf({m}, len))
    BY <1>1, <1>3, <1>4, <1>5, <2>1, ChangeMaps
  <2> QED BY <1>4, <1>8, <2>2
<1>16. len \in Int
  <2> DEFINE r == Heap'
  <2>1. IsSound(r, B2, F2) /\ m \in F2 /\ SizeAt(r, m) = len
    BY <1>3 DEF IsChanged
  <2> HIDE DEF r
  <2>2. r \in HeapSet /\ m \in Addr
    BY <2>1, SoundBounds DEF IsSound
  <2>3. SizeAt(r, m) \in 0..(PoolUnits - 1)
    BY <2>2, Fields
  <2> QED BY <2>1, <2>3
<1>17. ChunksOf({m}, len) = {Abstract!Chunk(m, (m + 1 + len) - m - 1)}
  <2>1. m \in Int
    BY <1>3, <1>11
  <2> QED BY <1>16, <2>1 DEF ChunksOf
<1>18. Abstract!Release(c)
  <2>1. pool_start /\ c \in used
    BY <1>1
  <2>2. LET start == Abstract!Min(starts)
            end   == Abstract!Max(ends)
        IN Abstract!Change(beside, {Abstract!Chunk(start, end - start - 1)})
    <3> HIDE DEF starts, ends, beside
    <3> QED BY <1>12, <1>13, <1>15, <1>17
  <2>3. FreeChunks(Heap) = IF pool_start THEN FreeChunks(Heap) ELSE {}
    BY <1>1
  <2> HIDE DEF c, used
  <2> QED BY <1>1, <1>14, <2>1, <2>2, <2>3 DEF Abstract!Release, used
<1> QED BY <1>18

\* Every step of the allocator is a step of the abstract one or changes nothing
\* there.
LEMMA StepMaps ==
  ASSUME SizesRound
  PROVE  IInv /\ [Next]_vars => [Abstract!Next]_(Abstract!vars)
<1> SUFFICES ASSUME IInv, [Next]_vars PROVE Abstract!Next \/ UNCHANGED Abstract!vars
  OBVIOUS
<1>1. ASSUME NEW size \in Requests, Malloc(size) PROVE Abstract!Next
  <2> DEFINE units == round_up_32(size)
             c     == best_fit_chunk(Pool, units)
  <2>1. size # 0 /\ size # SizeMod - 1 /\ pool_start' = TRUE /\ UNCHANGED <<report, crashed>>
    BY <1>1 DEF Malloc
  <2>2. units \in Nat /\ units >= 1
    <3>1. size \in Nat /\ size >= 1 /\ size + 31 < SizeMod /\ SizeMod \in Nat
      BY <2>1, RequestAssumption, WidthAssumption DEF SizesRound
    <3>2. (size + 31) % SizeMod = size + 31
      BY <3>1
    <3>3. units = (size + 31) \div 32
      BY <2>1, <3>2 DEF round_up_32, ALLOC_SIZE_UNIT
    <3> HIDE DEF units
    <3> QED BY <3>1, <3>3
  <2>3. IF c = NULL
        THEN Install(Pool) /\ live' = live
        ELSE /\ mem' = Written(split(Pool, c, units), c) /\ free_lists' = split(Pool, c, units).lists
             /\ live' = live \cup {[at |-> c, bytes |-> size]}
    BY <1>1 DEF Malloc
  <2>4. \E n \in 1..PoolUnits : Abstract!Allocate(n)
    <3> HIDE DEF units
    <3>1. CASE c = NULL
      BY <2>1, <2>2, <2>3, <3>1, RefuseMaps
    <3>2. CASE c # NULL
      <4> HIDE DEF c
      <4>1. c = best_fit_chunk(Pool, units) /\ units = round_up_32(size)
        BY DEF c, units
      <4> QED BY <2>1, <2>2, <2>3, <3>2, <4>1, GrantMaps
    <3> QED BY <3>1, <3>2
  <2> QED BY <2>4 DEF Abstract!Next
<1>2. CASE MallocZero
  <2>1. CASE Abstract!EndOfTest
    BY <2>1 DEF Abstract!Next
  <2>2. CASE UNCHANGED <<pool_start, mem, free_lists, live, report>>
    <3>1. Heap' = Heap
      BY <2>2 DEF Heap
    <3> QED BY <2>2, <3>1 DEF Abstract!vars, ChunkAt, SizeAt, FreeChunks, Seniority
  <2> QED BY <1>2, <2>1, <2>2, ZeroMaps
<1>3. CASE MallocDebug
  BY <1>3, TouchMaps DEF Abstract!Next
<1>4. ASSUME NEW b \in live, Free(b) PROVE Abstract!Next
  BY <1>4, FreeMaps DEF Abstract!Next
<1>5. CASE UNCHANGED vars
  <2>1. Heap' = Heap /\ UNCHANGED <<pool_start, live, report>>
    BY <1>5 DEF vars, Heap
  <2> QED BY <2>1 DEF Abstract!vars, ChunkAt, SizeAt, FreeChunks, Seniority
<1> QED BY <1>1, <1>2, <1>3, <1>4, <1>5 DEF Next

\* Lists, levels and links amount to one best-fit allocator with immediate
\* coalescing that serves equal chunks in the order they became free.
THEOREM Implements ==
  ASSUME SizesRound
  PROVE  Spec => ImplementsBestFit
<1>1. Init => Abstract!Init
  BY DEF Init, Abstract!Init
<1>2. IInv /\ [Next]_vars => [Abstract!Next]_(Abstract!vars)
  BY StepMaps
<1> QED BY Invariant, <1>1, <1>2, PTL DEF Spec, Abstract!Spec, ImplementsBestFit
=============================================================================
