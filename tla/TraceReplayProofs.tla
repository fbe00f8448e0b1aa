------------------------- MODULE TraceReplayProofs -------------------------
(***************************************************************************)
(* HW4's driver, for every trace, every pool and any sizes: it leaves      *)
(* allocated what the lines ask for, and reports the largest gap.          *)
(***************************************************************************)
EXTENDS TraceReplay, MultilevelBFProofs

\* Which ids name a block, and that no two of them name the same one.
Named == {i \in Ids : asked[i] # 0}

ReplayTypes ==
  /\ newline \in BOOLEAN
  /\ ptr \in [Ids -> Addr \cup {NULL}]
  /\ asked \in [Ids -> Requests \cup {0}]
  /\ size \in Requests \cup {Uninitialised}

NamesBlocks ==
  /\ live = Blocks
  /\ \A i, j \in Named : ptr[i] = ptr[j] => i = j

\* Until the empty line, if the file has one, the ids name what is handed out.
ReplayInv ==
  /\ ReplayTypes
  /\ main = "reading" \/ (main = "report" /\ newline = FALSE) => NamesBlocks

---------------------------------------------------------------------------
(* The driver uses the allocator as its callers may.                       *)

LEMMA ReplaySteps ==
  ReplayInv /\ [ReplayNext]_replayVars => [Next]_vars
<1> SUFFICES ASSUME ReplayInv, [ReplayNext]_replayVars PROVE [Next]_vars
  OBVIOUS
<1>1. ASSUME NEW i \in Ids, NEW n \in Requests, AllocateLine(i, n) PROVE Next
  BY <1>1 DEF AllocateLine, AllocateAndWrite, Next
<1>2. ASSUME NEW i \in Ids, ReleaseLine(i) PROVE Next
  BY <1>2 DEF ReleaseLine, Next
<1>3. CASE EndOfFile
  BY <1>3 DEF EndOfFile
<1>4. CASE EmptyLine
  <2>1. size \in Requests /\ Malloc(size)
    BY <1>4 DEF EmptyLine, AllocateAndWrite, ReplayInv, ReplayTypes
  <2> QED BY <2>1 DEF Next
<1>5. CASE Report
  BY <1>5 DEF Report, Next
<1>6. CASE UNCHANGED replayVars
  BY <1>6 DEF replayVars
<1> QED BY <1>1, <1>2, <1>3, <1>4, <1>5, <1>6 DEF ReplayNext

---------------------------------------------------------------------------
(* Lines and blocks.                                                       *)

\* What malloc returns names a block no caller held before, or is NULL.
LEMMA ReturnedIs ==
  ASSUME IInv, IInv', NEW n, Malloc(n)
  PROVE  /\ Returned \in Addr \cup {NULL}
         /\ Returned # NULL =>
              /\ live' = live \cup {[at |-> Returned, bytes |-> n]}
              /\ \A b \in live : b.at # Returned
<1>1. CASE live' = live
  BY <1>1 DEF Returned
<1>2. CASE live' # live
  <2>1. PICK c : live' = live \cup {[at |-> c, bytes |-> n]}
    BY <1>2 DEF Malloc
  <2> DEFINE new == [at |-> c, bytes |-> n]
  <2>2. new \notin live /\ live' \ live = {new}
    BY <1>2, <2>1
  <2>3. (CHOOSE b \in live' \ live : TRUE) = new
    BY <2>2
  <2>4. Returned = c
    <3>1. Returned = new.at
      BY <1>2, <2>3 DEF Returned
    <3> QED BY <3>1
  <2>5. new \in live' /\ new.at = c
    BY <2>1
  <2>6. c \in Addr
    BY <2>5 DEF IInv, TypeOK
  <2>7. \A b \in live : b.at # c
    BY <2>1, <2>2, <2>5 DEF IInv, HeapInv
  <2> QED BY <2>1, <2>4, <2>6, <2>7
<1> QED BY <1>1, <1>2

LEMMA AllocateKeeps ==
  ASSUME IInv, IInv', ReplayInv, NEW i \in Ids, NEW n \in Requests, AllocateLine(i, n)
  PROVE  ReplayInv'
<1>1. /\ main = "reading" /\ asked[i] = 0 /\ n # 0 /\ Malloc(n)
      /\ newline' = newline /\ ptr' = [ptr EXCEPT ![i] = Returned]
      /\ main' = IF Returned = NULL THEN "killed" ELSE "reading"
      /\ asked' = [asked EXCEPT ![i] = n] /\ size' = n
  BY DEF AllocateLine, AllocateAndWrite
<1> DEFINE r == Returned
<1>2. /\ r \in Addr \cup {NULL}
      /\ r # NULL => /\ live' = live \cup {[at |-> r, bytes |-> n]}
                     /\ \A b \in live : b.at # r
  BY <1>1, ReturnedIs
<1>3. ptr' = [ptr EXCEPT ![i] = r] /\ main' = IF r = NULL THEN "killed" ELSE "reading"
  BY <1>1
<1> HIDE DEF r
<1>4. ReplayTypes /\ ReplayTypes'
  BY <1>1, <1>2, <1>3 DEF ReplayInv, ReplayTypes
<1>5. CASE r = NULL
  <2>1. main' = "killed"
    BY <1>3, <1>5
  <2> QED BY <1>4, <2>1 DEF ReplayInv
<1>6. CASE r # NULL
  <2>1. live = Blocks /\ \A j, k \in Named : ptr[j] = ptr[k] => j = k
    BY <1>1 DEF ReplayInv, NamesBlocks
  <2>2. Named' = Named \cup {i} /\ i \notin Named
    BY <1>1, <1>4 DEF Named, ReplayTypes
  <2>3. ptr'[i] = r /\ asked'[i] = n
    BY <1>1, <1>3, <1>4 DEF ReplayTypes
  <2>4. \A j \in Named : ptr'[j] = ptr[j] /\ asked'[j] = asked[j]
    BY <1>1, <1>3, <1>4, <2>2 DEF ReplayTypes, Named
  <2>5. Blocks = {[at |-> ptr[j], bytes |-> asked[j]] : j \in Named}
    BY DEF Blocks, Named
  <2>6. Blocks' = {[at |-> ptr'[j], bytes |-> asked'[j]] : j \in Named'}
    BY DEF Blocks, Named
  <2>7. live' = Blocks'
    BY <1>2, <1>6, <2>1, <2>2, <2>3, <2>4, <2>5, <2>6
  <2>8. ASSUME NEW j \in Named PROVE ptr[j] # r
    <3>1. [at |-> ptr[j], bytes |-> asked[j]] \in live
      BY <2>1, <2>5
    <3> QED BY <1>2, <1>6, <3>1
  <2>9. \A j, k \in Named' : ptr'[j] = ptr'[k] => j = k
    BY <2>1, <2>2, <2>3, <2>4, <2>8
  <2> QED BY <1>4, <2>7, <2>9 DEF ReplayInv, NamesBlocks
<1> QED BY <1>5, <1>6

LEMMA ReleaseKeeps ==
  ASSUME IInv, ReplayInv, NEW i \in Ids, ReleaseLine(i)
  PROVE  ReplayInv'
<1>1. /\ main = "reading" /\ asked[i] # 0
      /\ asked' = [asked EXCEPT ![i] = 0] /\ UNCHANGED <<newline, main, ptr, size>>
  BY DEF ReleaseLine
<1>2. PICK b \in live : b.at = ptr[i] /\ live' = live \ {b}
  BY DEF ReleaseLine, Free
<1>3. live = Blocks /\ \A j, k \in Named : ptr[j] = ptr[k] => j = k
  BY <1>1 DEF ReplayInv, NamesBlocks
<1>4. ReplayTypes /\ ReplayTypes'
  BY <1>1 DEF ReplayInv, ReplayTypes
<1>5. Named' = Named \ {i} /\ i \in Named
  BY <1>1, <1>4 DEF Named, ReplayTypes
<1>6. \A j \in Named' : ptr'[j] = ptr[j] /\ asked'[j] = asked[j]
  BY <1>1, <1>4, <1>5 DEF ReplayTypes, Named
<1>7. Blocks = {[at |-> ptr[j], bytes |-> asked[j]] : j \in Named}
  BY DEF Blocks, Named
<1>8. Blocks' = {[at |-> ptr'[j], bytes |-> asked'[j]] : j \in Named'}
  BY DEF Blocks, Named
<1>9. b = [at |-> ptr[i], bytes |-> asked[i]]
  <2>1. [at |-> ptr[i], bytes |-> asked[i]] \in live
    BY <1>3, <1>5, <1>7
  <2> QED BY <1>2, <2>1 DEF IInv, HeapInv
<1>10. \A j \in Named' : ptr[j] # ptr[i]
  BY <1>3, <1>5
<1>11. live' = Blocks'
  BY <1>2, <1>3, <1>5, <1>6, <1>7, <1>8, <1>9, <1>10
<1>12. \A j, k \in Named' : ptr'[j] = ptr'[k] => j = k
  BY <1>3, <1>5, <1>6
<1> QED BY <1>4, <1>11, <1>12 DEF ReplayInv, NamesBlocks

LEMMA ReplayInvNext ==
  IInv /\ ReplayInv /\ [ReplayNext]_replayVars => IInv' /\ ReplayInv'
<1> SUFFICES ASSUME IInv, ReplayInv, [ReplayNext]_replayVars PROVE IInv' /\ ReplayInv'
  OBVIOUS
<1>1. IInv'
  BY ReplaySteps, InvNext
<1>2. ASSUME NEW i \in Ids, NEW n \in Requests, AllocateLine(i, n) PROVE ReplayInv'
  BY <1>1, <1>2, AllocateKeeps
<1>3. ASSUME NEW i \in Ids, ReleaseLine(i) PROVE ReplayInv'
  BY <1>3, ReleaseKeeps
<1>4. CASE EndOfFile
  <2>1. /\ main = "reading" /\ live' = live
        /\ newline' = newline /\ ptr' = ptr /\ asked' = asked /\ size' = size
    BY <1>4 DEF EndOfFile, vars
  <2>2. ReplayTypes' /\ NamesBlocks'
    BY <2>1 DEF ReplayInv, ReplayTypes, NamesBlocks, Blocks, Named
  <2> QED BY <1>1, <2>2 DEF ReplayInv
<1>5. CASE EmptyLine
  <2>1. /\ newline /\ newline' = newline /\ Malloc(size)
        /\ ptr' = [ptr EXCEPT ![id] = Returned] /\ main' \in {"killed", "report"}
        /\ UNCHANGED <<size, asked>>
    BY <1>5 DEF EmptyLine, AllocateAndWrite
  <2>2. Returned \in Addr \cup {NULL}
    BY <1>1, <2>1, ReturnedIs
  <2> HIDE DEF Returned
  <2>3. ptr' \in [Ids -> Addr \cup {NULL}]
    BY <2>1, <2>2 DEF ReplayInv, ReplayTypes
  <2>4. newline' = TRUE /\ ReplayTypes'
    BY <2>1, <2>3 DEF ReplayInv, ReplayTypes
  <2> QED BY <1>1, <2>1, <2>4 DEF ReplayInv
<1>6. CASE Report
  <2>1. main' \in {"killed", "over"} /\ UNCHANGED <<newline, ptr, id, size, asked>>
    BY <1>6 DEF Report
  <2>2. ReplayTypes'
    BY <2>1 DEF ReplayInv, ReplayTypes
  <2> QED BY <1>1, <2>1, <2>2 DEF ReplayInv
<1>7. CASE UNCHANGED replayVars
  <2>1. /\ main' = main /\ live' = live
        /\ newline' = newline /\ ptr' = ptr /\ asked' = asked /\ size' = size
    BY <1>7 DEF replayVars, vars
  <2>2. ReplayTypes' /\ (NamesBlocks => NamesBlocks')
    BY <2>1 DEF ReplayInv, ReplayTypes, NamesBlocks, Blocks, Named
  <2> QED BY <1>1, <2>1, <2>2 DEF ReplayInv
<1> QED BY <1>1, <1>2, <1>3, <1>4, <1>5, <1>6, <1>7 DEF ReplayNext

LEMMA ReplayInvariant == ReplaySpec => [](IInv /\ ReplayInv)
<1>1. ReplayInit => IInv /\ ReplayInv
  <2> SUFFICES ASSUME ReplayInit PROVE IInv /\ ReplayInv
    OBVIOUS
  <2>1. IInv
    BY InvInit DEF ReplayInit
  <2>2. Named = {} /\ Blocks = {} /\ live = {}
    BY DEF ReplayInit, Init, Named, Blocks
  <2> QED BY <2>1, <2>2 DEF ReplayInit, ReplayInv, ReplayTypes, NamesBlocks
<1> QED BY <1>1, ReplayInvNext, PTL DEF ReplaySpec

\* The driver asks the allocator for nothing but what its callers may ask, so
\* that what is proved of the allocator holds in every replay.
THEOREM Composed == ReplaySpec => Spec
<1>1. ReplayInit => Init
  BY DEF ReplayInit
<1> QED BY <1>1, ReplaySteps, ReplayInvariant, PTL DEF ReplaySpec, Spec

\* A trace whose last line ends without a newline is replayed as it is: what
\* is handed out at its end are the blocks its lines leave allocated, whatever
\* was split and joined in between.
THEOREM LastLineReplayed == ReplaySpec => []ReplaysLastLine
<1>1. ReplayInv => ReplaysLastLine
  BY DEF ReplayInv, ReplayTypes, NamesBlocks, ReplaysLastLine, ReplaysTheTrace
<1> QED BY <1>1, ReplayInvariant, PTL

---------------------------------------------------------------------------
(* Gaps and free chunks.                                                   *)

\* Every unit of the pool is in a chunk.
LEMMA ChunkOf ==
  ASSUME NEW h \in HeapSet, NEW B, IsTiling(h, B), NEW u \in Addr
  PROVE  \E p \in B \ {PoolUnits} : p <= u /\ u <= p + SizeAt(h, p)
<1> DEFINE T == {b \in B : b <= u}
           p == Max(T)
<1>1. /\ PoolUnits \in Nat /\ B \subseteq 0..PoolUnits /\ 0 \in B
      /\ u \in Nat /\ u < PoolUnits
  BY PoolAssumption DEF IsTiling, Addr
<1>2. T \in SUBSET Nat /\ T # {} /\ \A b \in T : b <= PoolUnits
  <2>1. 0 \in T
    BY <1>1
  <2>2. \A b \in T : b \in Nat /\ b <= PoolUnits
    BY <1>1
  <2> QED BY <2>1, <2>2
<1>3. p \in T /\ \A b \in T : b <= p
  <2> HIDE DEF T
  <2> QED BY <1>1, <1>2, MaxOf
<1> HIDE DEF p
<1>4. p \in B \ {PoolUnits} /\ p <= u
  BY <1>1, <1>3
<1>5. /\ After(h, p) \in B /\ p < After(h, p) /\ p \in Addr
      /\ After(h, p) = p + 1 + SizeAt(h, p) /\ SizeAt(h, p) \in 0..(PoolUnits - 1)
  BY <1>4, TilingBounds
<1>6. p \in Nat /\ SizeAt(h, p) \in Nat /\ After(h, p) \in Nat
  BY <1>1, <1>4, <1>5
<1>7. ~(After(h, p) <= u)
  BY <1>3, <1>5, <1>6
<1> QED BY <1>1, <1>4, <1>5, <1>6, <1>7

\* The units no caller holds are those of the free chunks.
LEMMA UnclaimedIs ==
  ASSUME IInv, NEW B, NEW F, IsHeld(Pool, B, F, live)
  PROVE  Unclaimed = UNION {a..(a + SizeAt(Pool, a)) : a \in F}
<1>1. /\ Pool \in HeapSet /\ IsTiling(Pool, B) /\ F \subseteq B \ {PoolUnits} /\ B \subseteq Int
      /\ {b.at : b \in live} = (B \ F) \ {PoolUnits}
  BY SoundBounds DEF IsHeld, IsSound
<1>2. \A b \in live : Pool = Heap
  BY PoolHeld
<1>3. ASSUME NEW a \in B \ {PoolUnits}
      PROVE  /\ a \in Int /\ SizeAt(Pool, a) \in Int /\ a..(a + SizeAt(Pool, a)) \subseteq Addr
             /\ \A x \in B : a < x => a + SizeAt(Pool, a) < x
  <2>1. /\ a \in Addr /\ After(Pool, a) = a + 1 + SizeAt(Pool, a) /\ After(Pool, a) <= PoolUnits
        /\ SizeAt(Pool, a) \in 0..(PoolUnits - 1)
    BY <1>1, TilingBounds
  <2>2. a \in Nat /\ SizeAt(Pool, a) \in Nat /\ PoolUnits \in Nat
    BY <2>1, PoolAssumption DEF Addr
  <2>3. \A x \in B : a < x => After(Pool, a) <= x
    BY <1>1, ChunksApart
  <2> QED BY <1>1, <2>1, <2>2, <2>3 DEF Addr
<1>4. ASSUME NEW u \in Unclaimed
      PROVE  \E a \in F : u \in a..(a + SizeAt(Pool, a))
  <2>1. u \in Addr /\ \A b \in live : u \notin b.at..(b.at + SizeAt(Heap, b.at))
    BY DEF Unclaimed
  <2>2. PICK p \in B \ {PoolUnits} : p <= u /\ u <= p + SizeAt(Pool, p)
    BY <1>1, <2>1, ChunkOf
  <2>3. u \in p..(p + SizeAt(Pool, p))
    <3>1. u \in Int
      BY <2>1, PoolAssumption DEF Addr
    <3> QED BY <1>3, <2>2, <3>1
  <2>4. p \in F
    <3> SUFFICES ASSUME p \notin F PROVE FALSE
      OBVIOUS
    <3>1. PICK b \in live : b.at = p
      BY <1>1
    <3> QED BY <1>2, <2>1, <2>3, <3>1
  <2> QED BY <2>3, <2>4
<1>5. ASSUME NEW a \in F, NEW u \in a..(a + SizeAt(Pool, a))
      PROVE  u \in Unclaimed
  <2>1. a \in B \ {PoolUnits} /\ u \in Addr /\ u \in Int /\ a <= u /\ u <= a + SizeAt(Pool, a)
    BY <1>1, <1>3
  <2>2. ASSUME NEW b \in live, u \in b.at..(b.at + SizeAt(Heap, b.at)) PROVE FALSE
    <3>1. b.at \in B \ {PoolUnits} /\ b.at # a
      BY <1>1
    <3>2. b.at <= u /\ u <= b.at + SizeAt(Pool, b.at)
      BY <1>2, <1>3, <2>2, <3>1
    <3>3. a < b.at \/ b.at < a
      BY <1>3, <2>1, <3>1
    <3> QED BY <1>3, <2>1, <3>1, <3>2, <3>3
  <2> QED BY <2>1, <2>2 DEF Unclaimed
<1> QED BY <1>4, <1>5

\* Free chunks are never neighbours, so that a gap is in one of them.
LEMMA GapInChunk ==
  ASSUME IInv, NEW B, NEW F, IsHeld(Pool, B, F, live),
         NEW a \in Int, NEW n \in Nat, n > 0, a..(a + n - 1) \subseteq Unclaimed
  PROVE  \E p \in F : n <= SizeAt(Pool, p) + 1
<1>1. /\ Pool \in HeapSet /\ IsTiling(Pool, B) /\ F \subseteq B \ {PoolUnits} /\ B \subseteq Int
      /\ \A p \in F : After(Pool, p) \notin F
  BY SoundBounds DEF IsHeld, IsSound
<1>2. Unclaimed = UNION {p..(p + SizeAt(Pool, p)) : p \in F}
  BY UnclaimedIs
<1>3. a \in Unclaimed
  OBVIOUS
<1>4. PICK p \in F : a \in p..(p + SizeAt(Pool, p))
  BY <1>2, <1>3
<1>5. \A q \in B \ {PoolUnits} :
        /\ q \in Addr /\ After(Pool, q) \in B /\ q < After(Pool, q) /\ After(Pool, q) <= PoolUnits
        /\ After(Pool, q) = q + 1 + SizeAt(Pool, q) /\ SizeAt(Pool, q) \in 0..(PoolUnits - 1)
  BY <1>1, TilingBounds
<1>6. p \in B \ {PoolUnits} /\ p \in Int /\ SizeAt(Pool, p) \in Int /\ PoolUnits \in Nat
  BY <1>1, <1>5, PoolAssumption
<1> DEFINE q == After(Pool, p)
<1>7. q = p + 1 + SizeAt(Pool, p) /\ q \in B /\ q <= PoolUnits /\ q \in Int /\ q \notin F
  BY <1>1, <1>5, <1>6
<1> HIDE DEF q
<1>8. q \notin Unclaimed
  <2> SUFFICES ASSUME q \in Unclaimed PROVE FALSE
    OBVIOUS
  <2>1. PICK f \in F : q \in f..(f + SizeAt(Pool, f))
    BY <1>2
  <2>2. f \in B \ {PoolUnits} /\ f # q
    BY <1>1, <1>7, <2>1
  <2>3. f \in Int /\ SizeAt(Pool, f) \in Int
    BY <1>1, <1>5, <2>2, PoolAssumption
  <2>4. f < q /\ q < After(Pool, f)
    BY <1>5, <1>7, <2>1, <2>2, <2>3
  <2> QED BY <1>1, <1>7, <2>2, <2>4 DEF IsTiling
<1>9. ~(a + n - 1 >= q)
  <2> SUFFICES ASSUME a + n - 1 >= q PROVE FALSE
    OBVIOUS
  <2>1. q \in a..(a + n - 1)
    BY <1>4, <1>6, <1>7
  <2> QED BY <1>8, <2>1
<1> QED BY <1>4, <1>6, <1>7, <1>9

\* malloc(0) reports the largest gap between the callers' blocks, less a
\* header: with immediate joining no free memory is in pieces, and the
\* biggest chunk of all is in the highest level that has any.
THEOREM LargestGapPrinted == ReplaySpec => []PrintsTheLargestGap
<1>1. IInv => PrintsTheLargestGap
  <2> SUFFICES ASSUME IInv PROVE PrintsTheLargestGap
    OBVIOUS
  <2> DEFINE G == {n \in 0..PoolUnits : \E a \in 0..(PoolUnits - n) : a..(a + n - 1) \subseteq Unclaimed}
             g == LargestGap
             b == find_the_biggest_free_chunk(Pool)
  <2>1. PICK B, F : IsHeld(Pool, B, F, live)
    BY PoolHeld
  <2>2. /\ Pool \in HeapSet /\ IsTiling(Pool, B) /\ IsLinked(Pool, F) /\ F \subseteq B \ {PoolUnits}
    BY <2>1, SoundBounds DEF IsHeld, IsSound
  <2>3. g = Max(G)
    BY DEF LargestGap
  <2>4. 0 \in G /\ G \in SUBSET Nat /\ \A n \in G : n <= PoolUnits
    <3>1. PoolUnits \in Nat /\ 0 \in 0..(PoolUnits - 0) /\ 0..(0 + 0 - 1) = {}
      BY PoolAssumption
    <3> QED BY <3>1
  <2>5. g \in G /\ \A n \in G : n <= g
    <3> HIDE DEF G
    <3> QED BY <2>3, <2>4, MaxOf, PoolAssumption
  <2> HIDE DEF g
  <2>6. ASSUME NEW p \in F
        PROVE  SizeAt(Pool, p) \in Nat /\ SizeAt(Pool, p) + 1 \in G
    <3>1. /\ p \in Addr /\ After(Pool, p) <= PoolUnits /\ After(Pool, p) = p + 1 + SizeAt(Pool, p)
          /\ SizeAt(Pool, p) \in 0..(PoolUnits - 1)
      BY <2>2, TilingBounds
    <3> DEFINE n == SizeAt(Pool, p) + 1
    <3>2. p \in Nat /\ SizeAt(Pool, p) \in Nat /\ PoolUnits \in Nat /\ n \in 0..PoolUnits
      BY <3>1, PoolAssumption DEF Addr
    <3>3. p \in 0..(PoolUnits - n) /\ p + n - 1 = p + SizeAt(Pool, p)
      BY <3>1, <3>2
    <3>4. p..(p + n - 1) \subseteq Unclaimed
      BY <2>1, <3>3, UnclaimedIs
    <3> HIDE DEF n
    <3>5. n \in G
      BY <3>2, <3>3, <3>4
    <3> QED BY <3>2, <3>5 DEF n
  <2>7. g \in Nat /\ (g > 0 => \E p \in F : g <= SizeAt(Pool, p) + 1)
    <3>1. PICK a \in 0..(PoolUnits - g) : a..(a + g - 1) \subseteq Unclaimed
      BY <2>5
    <3>2. g \in Nat /\ PoolUnits \in Nat
      BY <2>4, <2>5, PoolAssumption
    <3>3. a \in Int
      BY <3>2
    <3>4. ASSUME g > 0 PROVE \E p \in F : g <= SizeAt(Pool, p) + 1
      BY <2>1, <3>1, <3>2, <3>3, <3>4, GapInChunk
    <3> QED BY <3>2, <3>4
  <2> HIDE DEF G
  <2>8. /\ b = NULL => F = {}
        /\ b # NULL => b \in F /\ \A p \in F : SizeAt(Pool, p) <= SizeAt(Pool, b)
    BY <2>2, BiggestFound
  <2> HIDE DEF b
  <2>9. g = 0 => b = NULL
    <3> SUFFICES ASSUME g = 0, b # NULL PROVE FALSE
      OBVIOUS
    <3> QED BY <2>5, <2>6, <2>8
  <2>10. g # 0 => b # NULL /\ SizeAt(Pool, b) = g - 1
    <3> SUFFICES ASSUME g # 0 PROVE b # NULL /\ SizeAt(Pool, b) = g - 1
      OBVIOUS
    <3>1. PICK p \in F : g <= SizeAt(Pool, p) + 1
      BY <2>7
    <3>2. b # NULL /\ b \in F /\ SizeAt(Pool, p) <= SizeAt(Pool, b)
      BY <2>8, <3>1
    <3>3. SizeAt(Pool, b) + 1 <= g /\ SizeAt(Pool, b) \in Nat /\ SizeAt(Pool, p) \in Nat
      BY <2>5, <2>6, <3>2
    <3> QED BY <2>7, <3>1, <3>2, <3>3
  <2> QED BY <2>9, <2>10 DEF PrintsTheLargestGap, g, b
<1> QED BY <1>1, ReplayInvariant, PTL
=============================================================================
