----------------------------- MODULE Iteration -----------------------------
(***************************************************************************)
(* Induction over an interval of integers, and functions computed step by  *)
(* step along one, as the loops of the programs are written in the models. *)
(* The induction theorems of the library are about operators; here the     *)
(* induction formula is a set, and the theorem behind it is that every     *)
(* non-empty set of naturals has a least element.                          *)
(***************************************************************************)
EXTENDS Integers, FiniteSetsExt, WellFoundedInduction, TLAPS

Less == {ss \in Nat \X Nat : ss[1] < ss[2]}

LEMMA LessWellFounded == IsWellFoundedOn(Less, Nat)
  BY NatLessThanWellFounded DEF OpToRel, Less

\* Every non-empty set of naturals has a least element.
LEMMA LeastElement ==
  ASSUME NEW T \in SUBSET Nat, T # {}
  PROVE  \E n \in T : \A m \in T : n <= m
<1>1. PICK n \in T : \A m \in T : ~ (<<m, n>> \in Less)
  BY LessWellFounded, WFMin
<1>2. ASSUME NEW m \in T, m < n PROVE FALSE
  <2>1. <<m, n>> \in Nat \X Nat
    OBVIOUS
  <2> QED BY <1>1, <1>2, <2>1 DEF Less
<1> QED BY <1>2

LEMMA MinOf ==
  ASSUME NEW T \in SUBSET Nat, T # {}
  PROVE  Min(T) \in T /\ \A t \in T : Min(T) <= t
<1>1. \E n \in T : \A m \in T : n <= m
  BY LeastElement
<1> QED BY <1>1 DEF Min

LEMMA MaxOf ==
  ASSUME NEW T \in SUBSET Nat, T # {}, NEW M \in Nat, \A t \in T : t <= M
  PROVE  Max(T) \in T /\ \A t \in T : t <= Max(T)
<1> DEFINE U == {M - t : t \in T}
<1>1. U \in SUBSET Nat /\ U # {}
  <2>1. \A t \in T : t \in Nat /\ t <= M /\ M - t \in Nat
    OBVIOUS
  <2> QED BY <2>1
<1>2. PICK u \in U : \A v \in U : u <= v
  <2> HIDE DEF U
  <2> QED BY <1>1, LeastElement
<1>3. PICK t \in T : u = M - t
  BY <1>2
<1>4. ASSUME NEW s \in T PROVE t >= s
  <2>1. M - t <= M - s /\ s \in Nat /\ t \in Nat
    BY <1>2, <1>3
  <2> QED BY <2>1
<1> QED BY <1>4 DEF Max

\* What holds at the lower end of an interval and passes from each of its
\* elements to the next holds everywhere in it.
LEMMA IntervalInduction ==
  ASSUME NEW l \in Int, NEW h \in Int, NEW T,
         l \in T, \A j \in l..(h - 1) : j \in T => j + 1 \in T
  PROVE  l..h \subseteq T
<1> DEFINE U == {n \in Nat : l + n <= h /\ l + n \notin T}
<1>1. U = {}
  <2> SUFFICES ASSUME U # {} PROVE FALSE
    OBVIOUS
  <2>1. U \in SUBSET Nat
    OBVIOUS
  <2>2. PICK n \in U : \A m \in U : n <= m
    <3> HIDE DEF U
    <3> QED BY <2>1, LeastElement
  <2>3. n # 0 /\ n \in Nat /\ l + n <= h /\ l + n \notin T
    BY <2>2
  <2>4. n - 1 \in Nat /\ n - 1 \notin U
    BY <2>2, <2>3
  <2>5. l + (n - 1) \in T /\ l + (n - 1) \in l..(h - 1)
    BY <2>3, <2>4
  <2>6. (l + (n - 1)) + 1 = l + n
    BY <2>3
  <2> QED BY <2>3, <2>5, <2>6
<1>2. ASSUME NEW j \in l..h PROVE j \in T
  <2>1. j - l \in Nat /\ l + (j - l) = j /\ j - l \notin U
    BY <1>1
  <2> QED BY <2>1
<1> QED BY <1>2

\* A loop from l to h that starts from x and whose step is F computes a
\* function of its counter.
IsLoop(s, l, h, S, x, F) ==
  /\ s \in [l..h -> S]
  /\ s[l] = x
  /\ \A j \in l..h : j # l => s[j] = F[<<j, s[j - 1]>>]

LEMMA LoopExists ==
  ASSUME NEW l \in Int, NEW h \in Int, l <= h, NEW S, NEW x \in S,
         NEW F \in [(l..h) \X S -> S]
  PROVE  \E s : IsLoop(s, l, h, S, x, F)
<1> DEFINE Loop(s, n) == /\ s \in [l..n -> S]
                         /\ s[l] = x
                         /\ \A j \in l..n : j # l => s[j] = F[<<j, s[j - 1]>>]
           T == {n \in l..h : \E s : Loop(s, n)}
<1>1. l \in T
  <2>1. Loop([j \in l..l |-> x], l)
    OBVIOUS
  <2>2. l \in l..h
    OBVIOUS
  <2> HIDE DEF Loop
  <2> QED BY <2>1, <2>2
<1>2. ASSUME NEW n \in l..(h - 1), n \in T PROVE n + 1 \in T
  <2>1. PICK s : Loop(s, n)
    BY <1>2
  <2> DEFINE t == [j \in l..(n + 1) |-> IF j = n + 1 THEN F[<<n + 1, s[n]>>] ELSE s[j]]
  <2>2. n \in l..n /\ n + 1 \in l..h /\ s[n] \in S
    BY <2>1
  <2>3. F[<<n + 1, s[n]>>] \in S
    BY <2>2
  <2>4. t \in [l..(n + 1) -> S]
    BY <2>1, <2>3
  <2>5. ASSUME NEW j \in l..(n + 1)
        PROVE  (j = l => t[j] = x) /\ (j # l => t[j] = F[<<j, t[j - 1]>>])
    <3>1. CASE j = n + 1
      <4>1. j # l /\ j - 1 = n /\ t[n] = s[n]
        BY <3>1
      <4> QED BY <3>1, <4>1
    <3>2. CASE j # n + 1
      <4>1. j \in l..n /\ t[j] = s[j]
        BY <3>2
      <4>2. j # l => j - 1 \in l..(n + 1) /\ j - 1 # n + 1
        BY <4>1
      <4>3. j # l => t[j - 1] = s[j - 1]
        BY <4>2
      <4> HIDE DEF t
      <4> QED BY <2>1, <4>1, <4>3
    <3> QED BY <3>1, <3>2
  <2>6. Loop(t, n + 1)
    <3>1. l \in l..(n + 1)
      OBVIOUS
    <3> HIDE DEF t
    <3> QED BY <2>4, <2>5, <3>1
  <2> HIDE DEF Loop
  <2> QED BY <2>2, <2>6
<1>3. h \in T
  <2> HIDE DEF T
  <2>1. l..h \subseteq T
    BY <1>1, <1>2, IntervalInduction
  <2> QED BY <2>1
<1> QED BY <1>3 DEF IsLoop

\* Every step of nx from a point of D outside of E raises a bounded rank; e
\* and G say what a point computes, where the path ends and before.
IsPath(D, E, S, M, rank, nx, e, G) ==
  /\ M \in Nat /\ rank \in [D -> Nat] /\ nx \in [D -> D]
  /\ e \in [D -> S] /\ G \in [D \X S -> S]
  /\ \A a \in D : rank[a] <= M
  /\ \A a \in D : a \notin E => rank[nx[a]] > rank[a]

\* What each point of such paths computes from what the next one does is a
\* function of the point.
LEMMA PathFunction ==
  ASSUME NEW D, NEW E, NEW S, NEW M, NEW rank, NEW nx, NEW e, NEW G,
         IsPath(D, E, S, M, rank, nx, e, G)
  PROVE  \E f \in [D -> S] :
           \A a \in D : f[a] = IF a \in E THEN e[a] ELSE G[<<a, f[nx[a]]>>]
<1> USE DEF IsPath
<1> DEFINE Value(f, a) == IF a \in E THEN e[a] ELSE G[<<a, f[nx[a]]>>]
           Good(f, m) == \A a \in D : rank[a] + m > M => f[a] = Value(f, a)
           T == {m \in 0..(M + 1) : \E f \in [D -> S] : Good(f, m)}
<1>1. 0 \in T
  <2>1. ASSUME NEW a \in D PROVE ~(rank[a] + 0 > M)
    <3>1. rank[a] \in Nat /\ rank[a] <= M
      OBVIOUS
    <3> QED BY <3>1
  <2>2. Good(e, 0)
    BY <2>1
  <2>3. 0 \in 0..(M + 1)
    OBVIOUS
  <2> HIDE DEF Good
  <2> QED BY <2>2, <2>3
<1>2. ASSUME NEW m \in 0..((M + 1) - 1), m \in T PROVE m + 1 \in T
  <2>1. PICK f \in [D -> S] : Good(f, m)
    BY <1>2
  <2> DEFINE g == [a \in D |-> Value(f, a)]
  <2>2. g \in [D -> S]
    <3>1. ASSUME NEW a \in D PROVE Value(f, a) \in S
      <4>1. e[a] \in S /\ <<a, f[nx[a]]>> \in D \X S
        OBVIOUS
      <4> QED BY <4>1
    <3> HIDE DEF Value
    <3> QED BY <3>1
  <2>3. ASSUME NEW a \in D, rank[a] + (m + 1) > M PROVE g[a] = Value(g, a)
    <3>1. CASE a \in E
      BY <3>1
    <3>2. CASE a \notin E
      <4>1. nx[a] \in D /\ rank[nx[a]] > rank[a] /\ rank[nx[a]] \in Nat /\ rank[a] \in Nat
        BY <3>2
      <4>2. rank[nx[a]] + m > M
        BY <2>3, <4>1
      <4>3. f[nx[a]] = g[nx[a]]
        BY <2>1, <4>1, <4>2
      <4> QED BY <3>2, <4>3
    <3> QED BY <3>1, <3>2
  <2>4. Good(g, m + 1)
    <3> HIDE DEF g, Value
    <3> QED BY <2>3
  <2>5. m + 1 \in 0..(M + 1)
    OBVIOUS
  <2> HIDE DEF Good, g
  <2> QED BY <2>2, <2>4, <2>5
<1>3. M + 1 \in T
  <2>1. 0 \in Int /\ M + 1 \in Int /\ M + 1 \in 0..(M + 1)
    OBVIOUS
  <2> HIDE DEF T
  <2>2. 0..(M + 1) \subseteq T
    BY <1>1, <1>2, <2>1, IntervalInduction
  <2> QED BY <2>1, <2>2
<1>4. PICK f \in [D -> S] : Good(f, M + 1)
  BY <1>3
<1>5. ASSUME NEW a \in D PROVE f[a] = Value(f, a)
  <2>1. rank[a] \in Nat
    OBVIOUS
  <2>2. rank[a] + (M + 1) > M
    BY <2>1
  <2> HIDE DEF Value
  <2> QED BY <1>4, <2>2
<1> QED BY <1>5
=============================================================================
