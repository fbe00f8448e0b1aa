--------------------------- MODULE PageSimProofs ---------------------------
(***************************************************************************)
(* HW5, for traces of every length, any addresses and any numbers of       *)
(* frames: the LRU and the CFLRU cache replace the pages their policies    *)
(* name, and a larger LRU cache is never worse than a smaller one.         *)
(***************************************************************************)
EXTENDS PageSim, Iteration, FiniteSetTheorems, SequenceTheorems

---------------------------------------------------------------------------
(* Links.  A list is the set M of its nodes and a rank r by which they are *)
(* in order; nothing is said of how one would walk along it.               *)

\* From the node first on, nx leads through all of M with growing ranks.
Linked(nx, first, M, r) ==
  /\ first = NULL => M = {}
  /\ first # NULL => first \in M /\ \A b \in M : r[first] <= r[b]
  /\ \A a \in M : nx[a] = NULL => \A b \in M : r[b] <= r[a]
  /\ \A a \in M : nx[a] # NULL =>
       /\ nx[a] \in M
       /\ r[a] < r[nx[a]]
       /\ \A b \in M : r[b] <= r[a] \/ r[nx[a]] <= r[b]

Ranked(D, M, r) ==
  /\ NULL \notin D /\ M \subseteq D /\ r \in [D -> Int]
  /\ \A a, b \in M : r[a] = r[b] => a = b

Reversed(r) == [a \in DOMAIN r |-> -r[a]]

LEMMA ReversedRanks ==
  ASSUME NEW D, NEW M, NEW r, Ranked(D, M, r)
  PROVE  Ranked(D, M, Reversed(r)) /\ \A a \in D : Reversed(r)[a] = -r[a]
<1>1. DOMAIN r = D
  BY DEF Ranked
<1>2. \A a \in D : Reversed(r)[a] = -r[a] /\ r[a] \in Int
  BY <1>1 DEF Ranked, Reversed
<1>3. Reversed(r) \in [D -> Int]
  BY <1>1, <1>2 DEF Reversed
<1> QED BY <1>2, <1>3 DEF Ranked

\* The links backwards are the inverse of those forwards.
LEMMA Mirror ==
  ASSUME NEW D, NEW M, NEW r, NEW nx, NEW pv, NEW hd, NEW tl, Ranked(D, M, r),
         Linked(nx, hd, M, r), Linked(pv, tl, M, Reversed(r)), NEW a \in M
  PROVE  /\ pv[a] = NULL <=> a = hd
         /\ nx[a] = NULL <=> a = tl
         /\ pv[a] # NULL => pv[a] \in M /\ nx[pv[a]] = a
         /\ nx[a] # NULL => nx[a] \in M /\ pv[nx[a]] = a
         /\ hd \in M /\ tl \in M
<1>1. \A b \in M : b \in D /\ r[b] \in Int /\ Reversed(r)[b] = -r[b] /\ b # NULL
  BY ReversedRanks DEF Ranked
<1>2. \A x, y \in M : r[x] = r[y] => x = y
  BY DEF Ranked
<1>3. hd \in M /\ tl \in M /\ \A b \in M : r[hd] <= r[b] /\ r[b] <= r[tl]
  BY <1>1 DEF Linked
<1>4. \A x \in M : nx[x] # NULL => nx[x] \in M /\ r[x] < r[nx[x]]
                     /\ \A b \in M : r[b] <= r[x] \/ r[nx[x]] <= r[b]
  BY DEF Linked
<1>5. \A x \in M : pv[x] # NULL => pv[x] \in M /\ r[pv[x]] < r[x]
                     /\ \A b \in M : r[x] <= r[b] \/ r[b] <= r[pv[x]]
  <2> SUFFICES ASSUME NEW x \in M, pv[x] # NULL
               PROVE  pv[x] \in M /\ r[pv[x]] < r[x]
                        /\ \A b \in M : r[x] <= r[b] \/ r[b] <= r[pv[x]]
    OBVIOUS
  <2>1. /\ pv[x] \in M
        /\ Reversed(r)[x] < Reversed(r)[pv[x]]
        /\ \A b \in M : Reversed(r)[b] <= Reversed(r)[x] \/ Reversed(r)[pv[x]] <= Reversed(r)[b]
    BY DEF Linked
  <2> QED BY <1>1, <2>1
<1>6. \A x \in M : nx[x] = NULL => \A b \in M : r[b] <= r[x]
  BY DEF Linked
<1>7. \A x \in M : pv[x] = NULL => \A b \in M : r[x] <= r[b]
  <2> SUFFICES ASSUME NEW x \in M, pv[x] = NULL, NEW b \in M PROVE r[x] <= r[b]
    OBVIOUS
  <2>1. Reversed(r)[b] <= Reversed(r)[x]
    BY DEF Linked
  <2> QED BY <1>1, <2>1
<1>8. (pv[a] = NULL <=> a = hd) /\ (nx[a] = NULL <=> a = tl)
  BY <1>1, <1>2, <1>3, <1>4, <1>5, <1>6, <1>7
<1>9. ASSUME pv[a] # NULL PROVE nx[pv[a]] = a
  <2>1. pv[a] \in M /\ r[pv[a]] < r[a]
    BY <1>5, <1>9
  <2>2. nx[pv[a]] # NULL
    BY <1>1, <1>6, <2>1
  <2>3. nx[pv[a]] \in M /\ r[pv[a]] < r[nx[pv[a]]] /\ r[nx[pv[a]]] <= r[a]
    BY <1>1, <1>4, <2>1, <2>2
  <2>4. r[a] <= r[nx[pv[a]]]
    BY <1>1, <1>5, <1>9, <2>1, <2>3
  <2> QED BY <1>1, <1>2, <2>3, <2>4
<1>10. ASSUME nx[a] # NULL PROVE pv[nx[a]] = a
  <2>1. nx[a] \in M /\ r[a] < r[nx[a]]
    BY <1>4, <1>10
  <2>2. pv[nx[a]] # NULL
    BY <1>1, <1>7, <2>1
  <2>3. pv[nx[a]] \in M /\ r[pv[nx[a]]] < r[nx[a]] /\ r[a] <= r[pv[nx[a]]]
    BY <1>1, <1>5, <2>1, <2>2
  <2>4. r[pv[nx[a]]] <= r[a]
    BY <1>1, <1>4, <1>10, <2>1, <2>3
  <2> QED BY <1>1, <1>2, <2>3, <2>4
<1> QED BY <1>3, <1>4, <1>5, <1>8, <1>9, <1>10

\* A node is taken out of the list.
LEMMA Unlinked ==
  ASSUME NEW D, NEW M, NEW r, NEW nx, NEW first, NEW nx2, NEW first2, Ranked(D, M, r),
         Linked(nx, first, M, r), NEW a \in M,
         \A b \in M \ {a} : nx2[b] = IF nx[b] = a THEN nx[a] ELSE nx[b],
         first2 = IF first = a THEN nx[a] ELSE first
  PROVE  Linked(nx2, first2, M \ {a}, r)
<1> DEFINE N == M \ {a}
<1>1. \A b \in M : b \in D /\ r[b] \in Int /\ b # NULL
  BY DEF Ranked
<1>2. \A x, y \in M : r[x] = r[y] => x = y
  BY DEF Ranked
<1>3. first \in M /\ \A b \in M : r[first] <= r[b]
  BY DEF Linked
<1>4. \A x \in M : nx[x] # NULL => nx[x] \in M /\ r[x] < r[nx[x]]
                     /\ \A b \in M : r[b] <= r[x] \/ r[nx[x]] <= r[b]
  BY DEF Linked
<1>5. \A x \in M : nx[x] = NULL => \A b \in M : r[b] <= r[x]
  BY DEF Linked
<1>6. first2 = NULL => N = {}
  BY <1>1, <1>2, <1>3, <1>5
<1>7. first2 # NULL => first2 \in N /\ \A b \in N : r[first2] <= r[b]
  <2>1. CASE first = a
    BY <1>1, <1>2, <1>3, <1>4, <2>1
  <2>2. CASE first # a
    BY <1>3, <2>2
  <2> QED BY <2>1, <2>2
<1>8. ASSUME NEW x \in N, nx2[x] = NULL, NEW b \in N PROVE r[b] <= r[x]
  <2>1. CASE nx[x] = a
    <3>1. nx[a] = NULL /\ r[b] <= r[a] /\ nx[x] # NULL
      BY <1>1, <1>5, <1>8, <2>1
    <3>2. r[b] <= r[x] \/ r[a] <= r[b]
      BY <1>4, <2>1, <3>1
    <3> QED BY <1>1, <1>2, <3>1, <3>2
  <2>2. CASE nx[x] # a
    BY <1>5, <1>8, <2>2
  <2> QED BY <2>1, <2>2
<1>9. ASSUME NEW x \in N, nx2[x] # NULL
      PROVE  nx2[x] \in N /\ r[x] < r[nx2[x]]
               /\ \A b \in N : r[b] <= r[x] \/ r[nx2[x]] <= r[b]
  <2>1. CASE nx[x] = a
    <3>1. nx2[x] = nx[a] /\ nx[a] # NULL /\ nx[x] # NULL
      BY <1>1, <1>9, <2>1
    <3>2. nx[a] \in M /\ r[a] < r[nx[a]] /\ r[x] < r[a]
      BY <1>4, <2>1, <3>1
    <3>3. nx[a] \in N /\ r[x] < r[nx[a]]
      BY <1>1, <3>2
    <3>4. ASSUME NEW b \in N PROVE r[b] <= r[x] \/ r[nx[a]] <= r[b]
      <4>1. r[b] <= r[x] \/ r[a] <= r[b]
        BY <1>4, <2>1, <3>1
      <4>2. r[b] <= r[a] \/ r[nx[a]] <= r[b]
        BY <1>4, <3>1
      <4> QED BY <1>1, <1>2, <4>1, <4>2
    <3> QED BY <3>1, <3>3, <3>4
  <2>2. CASE nx[x] # a
    BY <1>4, <1>9, <2>2
  <2> QED BY <2>1, <2>2
<1> QED BY <1>6, <1>7, <1>8, <1>9 DEF Linked

\* A node enters the list as its first.
LEMMA Pushed ==
  ASSUME NEW D, NEW M, NEW r, NEW r2, NEW nx, NEW first, NEW nx2, NEW a,
         Ranked(D, M, r), Linked(nx, first, M, r), a \in D, a \notin M,
         \A b \in M : nx2[b] = nx[b] /\ r2[b] = r[b] /\ r2[a] < r[b],
         r2[a] \in Int, nx2[a] = first
  PROVE  Linked(nx2, a, M \cup {a}, r2)
<1>1. \A b \in M : b \in D /\ r[b] \in Int /\ b # NULL
  BY DEF Ranked
<1>2. a # NULL
  BY DEF Ranked
<1>3. \A b \in M \cup {a} : r2[a] <= r2[b]
  BY <1>1
<1>4. ASSUME NEW x \in M \cup {a}, nx2[x] = NULL, NEW b \in M \cup {a} PROVE r2[b] <= r2[x]
  BY <1>1, <1>2, <1>4 DEF Linked
<1>5. ASSUME NEW x \in M \cup {a}, nx2[x] # NULL
      PROVE  nx2[x] \in M \cup {a} /\ r2[x] < r2[nx2[x]]
               /\ \A b \in M \cup {a} : r2[b] <= r2[x] \/ r2[nx2[x]] <= r2[b]
  <2>1. CASE x = a
    <3>1. first \in M /\ \A b \in M : r[first] <= r[b]
      BY <1>5, <2>1 DEF Linked
    <3> QED BY <1>1, <2>1, <3>1
  <2>2. CASE x # a
    <3>1. x \in M /\ nx[x] # NULL
      BY <1>5, <2>2
    <3>2. nx[x] \in M /\ r[x] < r[nx[x]] /\ \A b \in M : r[b] <= r[x] \/ r[nx[x]] <= r[b]
      BY <3>1 DEF Linked
    <3> QED BY <1>1, <3>1, <3>2
  <2> QED BY <2>1, <2>2
<1> QED BY <1>2, <1>3, <1>4, <1>5 DEF Linked

\* A node enters the list as its last.
LEMMA Appended ==
  ASSUME NEW D, NEW M, NEW r, NEW r2, NEW nx, NEW first, NEW nx2, NEW first2, NEW a,
         Ranked(D, M, r), Linked(nx, first, M, r), a \in D, a \notin M,
         \A b \in M : r2[b] = r[b] /\ r2[a] > r[b]
                        /\ nx2[b] = IF nx[b] = NULL THEN a ELSE nx[b],
         r2[a] \in Int, nx2[a] = NULL, first2 = IF first = NULL THEN a ELSE first
  PROVE  Linked(nx2, first2, M \cup {a}, r2)
<1>1. \A b \in M : b \in D /\ r[b] \in Int /\ b # NULL
  BY DEF Ranked
<1>2. a # NULL
  BY DEF Ranked
<1>3. first2 \in M \cup {a} /\ \A b \in M \cup {a} : r2[first2] <= r2[b]
  BY <1>1 DEF Linked
<1>4. ASSUME NEW x \in M \cup {a}, nx2[x] = NULL, NEW b \in M \cup {a} PROVE r2[b] <= r2[x]
  BY <1>1, <1>2, <1>4
<1>5. ASSUME NEW x \in M \cup {a}, nx2[x] # NULL
      PROVE  nx2[x] \in M \cup {a} /\ r2[x] < r2[nx2[x]]
               /\ \A b \in M \cup {a} : r2[b] <= r2[x] \/ r2[nx2[x]] <= r2[b]
  <2>1. x \in M
    BY <1>5
  <2>2. CASE nx[x] = NULL
    <3>1. \A b \in M : r[b] <= r[x]
      BY <2>1, <2>2 DEF Linked
    <3> QED BY <1>1, <2>1, <2>2, <3>1
  <2>3. CASE nx[x] # NULL
    <3>1. nx[x] \in M /\ r[x] < r[nx[x]] /\ \A b \in M : r[b] <= r[x] \/ r[nx[x]] <= r[b]
      BY <2>1, <2>3 DEF Linked
    <3> QED BY <1>1, <2>1, <2>3, <3>1
  <2> QED BY <2>2, <2>3
<1> QED BY <1>2, <1>3, <1>4, <1>5 DEF Linked

---------------------------------------------------------------------------
(* Walking along links.                                                    *)

LEMMA Bounded ==
  ASSUME NEW n \in Nat, NEW r \in [0..n -> Int]
  PROVE  \E B \in Nat : \A a \in 0..n : -B <= r[a] /\ r[a] <= B
<1> DEFINE T == {m \in 0..n : \E B \in Nat : \A a \in 0..m : -B <= r[a] /\ r[a] <= B}
<1>1. 0 \in T
  <2>1. r[0] \in Int
    OBVIOUS
  <2>2. PICK B \in Nat : -B <= r[0] /\ r[0] <= B
    <3>1. CASE r[0] >= 0
      <4>1. r[0] \in Nat /\ -r[0] <= r[0] /\ r[0] <= r[0]
        BY <2>1, <3>1
      <4> QED BY <4>1
    <3>2. CASE r[0] < 0
      <4>1. -r[0] \in Nat /\ -(-r[0]) <= r[0] /\ r[0] <= -r[0]
        BY <2>1, <3>2
      <4> QED BY <4>1
    <3> QED BY <2>1, <3>1, <3>2
  <2>3. \A a \in 0..0 : a = 0
    OBVIOUS
  <2> QED BY <2>2, <2>3
<1>2. ASSUME NEW m \in 0..(n - 1), m \in T PROVE m + 1 \in T
  <2>1. PICK B \in Nat : \A a \in 0..m : -B <= r[a] /\ r[a] <= B
    BY <1>2
  <2>2. r[m + 1] \in Int /\ m + 1 \in 0..n
    OBVIOUS
  <2>3. PICK C \in Nat : B <= C /\ -C <= r[m + 1] /\ r[m + 1] <= C
    <3>1. CASE r[m + 1] >= 0
      <4>1. B + r[m + 1] \in Nat
        BY <2>2, <3>1
      <4>2. B <= B + r[m + 1] /\ -(B + r[m + 1]) <= r[m + 1] /\ r[m + 1] <= B + r[m + 1]
        BY <2>2, <3>1
      <4> QED BY <4>1, <4>2
    <3>2. CASE r[m + 1] < 0
      <4>1. B - r[m + 1] \in Nat
        BY <2>2, <3>2
      <4>2. B <= B - r[m + 1] /\ -(B - r[m + 1]) <= r[m + 1] /\ r[m + 1] <= B - r[m + 1]
        BY <2>2, <3>2
      <4> QED BY <4>1, <4>2
    <3> QED BY <2>2, <3>1, <3>2
  <2>4. ASSUME NEW a \in 0..(m + 1) PROVE -C <= r[a] /\ r[a] <= C
    <3>1. CASE a = m + 1
      BY <2>3, <3>1
    <3>2. CASE a # m + 1
      <4>1. a \in 0..m /\ r[a] \in Int /\ -B <= r[a] /\ r[a] <= B
        BY <2>1, <3>2
      <4> QED BY <2>3, <4>1
    <3> QED BY <3>1, <3>2
  <2> QED BY <2>2, <2>3, <2>4
<1>3. n \in T
  <2> HIDE DEF T
  <2>1. 0 \in Int /\ n \in Int /\ n \in 0..n
    OBVIOUS
  <2>2. 0..n \subseteq T
    BY <1>1, <1>2, <2>1, IntervalInduction
  <2> QED BY <2>1, <2>2
<1> QED BY <1>3

\* w gives the walk from every node.
IsWalk(w, D, nx) ==
  /\ w[NULL] = <<>>
  /\ \A a \in D : w[a] = <<a>> \o w[nx[a]]

LEMMA WalkExists ==
  ASSUME NEW n \in Nat, NEW r \in [0..n -> Int], NEW nx \in [0..n -> 0..n \cup {NULL}],
         \A a \in 0..n : nx[a] # NULL => r[a] < r[nx[a]]
  PROVE  \E w \in [0..n \cup {NULL} -> Seq(0..n)] : IsWalk(w, 0..n, nx)
<1>1. PICK B \in Nat : \A a \in 0..n : -B <= r[a] /\ r[a] <= B
  BY Bounded
<1> DEFINE D == (0..n) \cup {NULL}
           E == {NULL}
           S == Seq(0..n)
           M == 2 * B + 1
           rank == [a \in D |-> IF a = NULL THEN 2 * B + 1 ELSE r[a] + B]
           nxt == [a \in D |-> IF a = NULL THEN NULL ELSE nx[a]]
           e == [a \in D |-> <<>>]
           G == [x \in D \X S |-> IF x[1] = NULL THEN <<>> ELSE <<x[1]>> \o x[2]]
<1>2. NULL \notin 0..n
  BY DEF NULL
<1>3. \A a \in 0..n : r[a] \in Int /\ r[a] + B \in Nat /\ r[a] + B < 2 * B + 1
  BY <1>1
<1>4. <<>> \in S /\ \A a \in 0..n, s \in S : <<a>> \o s \in S
  <2>1. \A a \in 0..n : <<a>> \in Seq(0..n)
    OBVIOUS
  <2> QED BY <2>1, ConcatProperties
<1>5. IsPath(D, E, S, M, rank, nxt, e, G)
  <2>1. M \in Nat
    OBVIOUS
  <2>2. rank \in [D -> Nat] /\ \A a \in D : rank[a] <= M
    BY <1>3
  <2>3. nxt \in [D -> D] /\ e \in [D -> S] /\ G \in [D \X S -> S]
    <3> HIDE DEF S
    <3> QED BY <1>4
  <2>4. ASSUME NEW a \in D, a \notin E PROVE rank[nxt[a]] > rank[a]
    <3>1. a \in 0..n /\ a # NULL /\ nxt[a] = nx[a] /\ nx[a] \in D
      BY <2>4
    <3>2. CASE nx[a] = NULL
      BY <1>3, <3>1, <3>2
    <3>3. CASE nx[a] # NULL
      <4>1. nx[a] \in 0..n
        BY <3>1, <3>3
      <4>2. r[a] < r[nx[a]] /\ r[a] \in Int /\ r[nx[a]] \in Int
        BY <1>3, <3>1, <3>3, <4>1
      <4>3. rank[nx[a]] = r[nx[a]] + B /\ rank[a] = r[a] + B
        BY <3>1, <3>3
      <4> QED BY <3>1, <4>2, <4>3
    <3> QED BY <3>2, <3>3
  <2> HIDE DEF D, E, S, M, rank, nxt, e, G
  <2> QED BY <2>1, <2>2, <2>3, <2>4 DEF IsPath
<1>6. PICK f \in [D -> S] : \A a \in D : f[a] = IF a \in E THEN e[a] ELSE G[<<a, f[nxt[a]]>>]
  <2> HIDE DEF D, E, S, M, rank, nxt, e, G
  <2> QED BY <1>5, PathFunction
<1>7. f[NULL] = <<>>
  BY <1>6
<1>8. ASSUME NEW a \in 0..n PROVE f[a] = <<a>> \o f[nx[a]]
  <2>1. a \in D /\ a # NULL /\ a \notin E /\ nxt[a] = nx[a] /\ nx[a] \in D
    BY <1>2
  <2>2. f[nx[a]] \in S
    BY <1>6, <2>1
  <2>3. G[<<a, f[nx[a]]>>] = <<a>> \o f[nx[a]]
    <3> HIDE DEF S
    <3> QED BY <2>1, <2>2
  <2> QED BY <1>6, <2>1, <2>3
<1> QED BY <1>6, <1>7, <1>8 DEF IsWalk

LEMMA SequenceOf ==
  ASSUME NEW S, NEW k \in Nat, NEW f, f \in [1..k -> S]
  PROVE  f \in Seq(S)
BY SeqDef

\* The walk q has the nodes of M, each once, with growing ranks.
Visits(q, M, r) ==
  /\ q \in Seq(M)
  /\ Elements(q) = M
  /\ \A i, j \in 1..Len(q) : i < j => r[q[i]] < r[q[j]]

LEMMA VisitsOne ==
  ASSUME NEW M, NEW r, NEW a, NEW q, a \notin M, Visits(q, M, r), r[a] \in Int,
         \A b \in M : r[b] \in Int /\ r[a] < r[b]
  PROVE  Visits(<<a>> \o q, M \cup {a}, r)
<1> DEFINE p == <<a>> \o q
<1>1. q \in Seq(M \cup {a}) /\ q \in Seq(M) /\ Len(q) \in Nat /\ DOMAIN q = 1..Len(q)
      /\ \A k \in 1..Len(q) : q[k] \in M
  <2>1. q \in Seq(M)
    BY DEF Visits
  <2>2. Len(q) \in Nat /\ DOMAIN q = 1..Len(q) /\ \A k \in 1..Len(q) : q[k] \in M
    BY <2>1, LenProperties, ElementOfSeq
  <2> QED BY <2>1, <2>2
<1>2. p \in Seq(M \cup {a}) /\ Len(p) = Len(q) + 1 /\ p[1] = a
      /\ \A k \in 2..(Len(q) + 1) : p[k] = q[k - 1]
  <2>1. <<a>> \in Seq(M \cup {a}) /\ Len(<<a>>) = 1 /\ <<a>>[1] = a
    OBVIOUS
  <2> QED BY <1>1, <2>1, ConcatProperties
<1>3. DOMAIN p = 1..(Len(q) + 1)
  BY <1>2, LenProperties
<1>4. Elements(p) = M \cup {a}
  <2>1. Elements(q) = M
    BY DEF Visits
  <2>2. ASSUME NEW k \in DOMAIN p PROVE p[k] \in M \cup {a}
    BY <1>2, <1>3, ElementOfSeq
  <2>3. 1 \in DOMAIN p
    BY <1>1, <1>3
  <2>4. ASSUME NEW b \in M PROVE \E k \in DOMAIN p : p[k] = b
    <3>1. PICK k \in 1..Len(q) : q[k] = b
      BY <1>1, <2>1 DEF Elements
    <3>2. k + 1 \in 2..(Len(q) + 1) /\ (k + 1) - 1 = k /\ k + 1 \in DOMAIN p
      BY <1>1, <1>3
    <3>3. p[k + 1] = q[k]
      BY <1>2, <3>2
    <3> HIDE DEF p
    <3> QED BY <3>1, <3>2, <3>3
  <2> HIDE DEF p
  <2> QED BY <1>2, <2>2, <2>3, <2>4 DEF Elements
<1>5. ASSUME NEW i \in 1..Len(p), NEW j \in 1..Len(p), i < j PROVE r[p[i]] < r[p[j]]
  <2>1. j \in 2..(Len(q) + 1) /\ j - 1 \in 1..Len(q) /\ p[j] = q[j - 1]
    BY <1>1, <1>2, <1>5
  <2>2. CASE i = 1
    BY <1>1, <1>2, <2>1, <2>2
  <2>3. CASE i # 1
    <3>1. i \in 2..(Len(q) + 1) /\ i - 1 \in 1..Len(q) /\ i - 1 < j - 1
      BY <1>1, <1>2, <1>5, <2>3
    <3>2. p[i] = q[i - 1]
      BY <1>2, <3>1
    <3> HIDE DEF p
    <3> QED BY <2>1, <3>1, <3>2 DEF Visits
  <2> QED BY <2>2, <2>3
<1> HIDE DEF p
<1>6. Visits(p, M \cup {a}, r)
  BY <1>2, <1>4, <1>5 DEF Visits
<1> QED BY <1>6 DEF p

LEMMA WalkIs ==
  ASSUME NEW n \in Nat, NEW M, NEW r, NEW nx, NEW first, NEW w, Ranked(0..n, M, r),
         Linked(nx, first, M, r), IsWalk(w, 0..n, nx)
  PROVE  /\ Visits(w[first], M, r)
         /\ w[first] # <<>> <=> first # NULL
         /\ first # NULL => w[first][1] = first
<1>1. r \in [0..n -> Int] /\ M \subseteq 0..n /\ NULL \notin M
      /\ \A a, b \in M : r[a] = r[b] => a = b
  BY DEF Ranked
<1>2. PICK B \in Nat : \A a \in 0..n : -B <= r[a] /\ r[a] <= B
  BY <1>1, Bounded
<1>3. \A a \in M : a \in 0..n /\ r[a] \in Int /\ -B <= r[a] /\ r[a] <= B
  BY <1>1, <1>2
<1> DEFINE Rest(a) == {b \in M : r[a] <= r[b]}
           T == {m \in 0..(2 * B + 1) : \A a \in M : r[a] > B - m => Visits(w[a], Rest(a), r)}
<1>4. 0 \in T
  BY <1>3
<1>5. ASSUME NEW m \in 0..((2 * B + 1) - 1), m \in T PROVE m + 1 \in T
  <2>1. ASSUME NEW a \in M, r[a] > B - (m + 1) PROVE Visits(w[a], Rest(a), r)
    <3>1. w[a] = <<a>> \o w[nx[a]] /\ a \in 0..n
      BY <1>3 DEF IsWalk
    <3>2. CASE nx[a] = NULL
      <4>1. Rest(a) = {a}
        <5>1. \A b \in M : r[b] <= r[a]
          BY <3>2 DEF Linked
        <5>2. ASSUME NEW b \in M, r[a] <= r[b] PROVE b = a
          BY <1>1, <1>3, <5>1, <5>2
        <5> QED BY <1>3, <5>2
      <4>2. w[nx[a]] = <<>>
        BY <3>2 DEF IsWalk
      <4>3. Visits(<<>>, {}, r)
        BY DEF Visits, Elements
      <4>4. Visits(<<a>> \o <<>>, {} \cup {a}, r)
        BY <1>3, <4>3, VisitsOne
      <4> QED BY <3>1, <4>1, <4>2, <4>4
    <3>3. CASE nx[a] # NULL
      <4> DEFINE b == nx[a]
      <4>1. b \in M /\ r[a] < r[b] /\ \A d \in M : r[d] <= r[a] \/ r[b] <= r[d]
        BY <3>3 DEF Linked
      <4>2. r[b] > B - m
        BY <1>3, <2>1, <4>1
      <4>3. Visits(w[b], Rest(b), r)
        BY <1>5, <4>1, <4>2
      <4>4. Rest(a) = Rest(b) \cup {a} /\ a \notin Rest(b)
        <5>1. ASSUME NEW d \in M, r[a] <= r[d] PROVE d = a \/ r[b] <= r[d]
          <6>1. r[d] \in Int /\ r[a] \in Int /\ (r[d] <= r[a] \/ r[b] <= r[d])
            BY <1>3, <4>1
          <6> QED BY <1>1, <5>1, <6>1
        <5>2. ASSUME NEW d \in M, r[b] <= r[d] PROVE r[a] <= r[d] /\ d # a
          BY <1>3, <4>1, <5>2
        <5>3. a \in Rest(a)
          BY <1>3
        <5> HIDE DEF b
        <5> QED BY <5>1, <5>2, <5>3
      <4>5. \A d \in Rest(b) : r[d] \in Int /\ r[a] < r[d]
        BY <1>3, <4>1
      <4> HIDE DEF Rest
      <4>6. Visits(<<a>> \o w[b], Rest(b) \cup {a}, r)
        BY <1>3, <4>3, <4>4, <4>5, VisitsOne
      <4> QED BY <3>1, <4>4, <4>6
    <3> QED BY <3>2, <3>3
  <2>2. m + 1 \in 0..(2 * B + 1)
    OBVIOUS
  <2> HIDE DEF Rest
  <2> QED BY <2>1, <2>2
<1>6. 2 * B + 1 \in T
  <2> HIDE DEF T
  <2>1. 2 * B + 1 \in Int /\ 2 * B + 1 \in 0..(2 * B + 1) /\ 0 \in Int
    OBVIOUS
  <2>2. 0..(2 * B + 1) \subseteq T
    BY <1>4, <1>5, <2>1, IntervalInduction
  <2> QED BY <2>1, <2>2
<1>7. ASSUME NEW a \in M PROVE Visits(w[a], Rest(a), r)
  <2>1. r[a] > B - (2 * B + 1)
    BY <1>3
  <2> HIDE DEF Rest
  <2> QED BY <1>6, <2>1
<1>8. CASE first = NULL
  <2>1. M = {} /\ w[first] = <<>>
    BY <1>8 DEF Linked, IsWalk
  <2>2. Visits(<<>>, {}, r)
    BY DEF Visits, Elements
  <2> QED BY <1>8, <2>1, <2>2
<1>9. CASE first # NULL
  <2>1. first \in M /\ Rest(first) = M
    BY <1>9 DEF Linked
  <2>2. Visits(w[first], M, r)
    BY <1>7, <2>1
  <2>3. w[first] = <<first>> \o w[nx[first]] /\ w[first] \in Seq(M)
    BY <1>3, <2>1, <2>2 DEF IsWalk, Visits
  <2>4. first \in Elements(w[first])
    BY <2>1, <2>2 DEF Visits
  <2>5. PICK k \in DOMAIN w[first] : w[first][k] = first
    BY <2>4 DEF Elements
  <2>6. DOMAIN w[first] = 1..Len(w[first]) /\ Len(w[first]) \in Nat
    BY <2>3, LenProperties
  <2>7. 1 \in 1..Len(w[first]) /\ w[first] # <<>>
    BY <2>5, <2>6
  <2>8. w[first][1] \in M /\ r[first] <= r[w[first][1]]
    <3>1. w[first][1] \in M
      BY <2>3, <2>7, ElementOfSeq
    <3> QED BY <1>9, <3>1 DEF Linked
  <2>9. k = 1
    <3>1. 1 < k => r[w[first][1]] < r[first]
      BY <2>2, <2>5, <2>6, <2>7 DEF Visits
    <3> QED BY <1>3, <2>1, <2>5, <2>6, <2>8, <3>1
  <2> QED BY <1>9, <2>2, <2>5, <2>7, <2>9
<1> QED BY <1>8, <1>9

---------------------------------------------------------------------------
(* Lists of pages by their last use.  What orders them is a rank of pages. *)

LEMMA VisitsDomain ==
  ASSUME NEW M, NEW r, NEW q, Visits(q, M, r)
  PROVE  /\ Len(q) \in Nat /\ DOMAIN q = 1..Len(q)
         /\ \A k \in 1..Len(q) : q[k] \in M
         /\ \A b \in M : \E k \in 1..Len(q) : q[k] = b
<1>1. q \in Seq(M) /\ Elements(q) = M
  BY DEF Visits
<1>2. Len(q) \in Nat /\ DOMAIN q = 1..Len(q) /\ \A k \in 1..Len(q) : q[k] \in M
  BY <1>1, LenProperties, ElementOfSeq
<1> QED BY <1>1, <1>2 DEF Elements

\* Only the ranks of the elements matter.
LEMMA VisitsAgree ==
  ASSUME NEW M, NEW r, NEW r2, NEW q, Visits(q, M, r), \A b \in M : r2[b] = r[b]
  PROVE  Visits(q, M, r2)
<1>1. \A k \in 1..Len(q) : q[k] \in M
  BY VisitsDomain
<1> QED BY <1>1 DEF Visits

\* There is one list of the elements of a set by their ranks.
LEMMA PrefixesAgree ==
  ASSUME NEW M, NEW r, \A b \in M : r[b] \in Int,
         NEW p, Visits(p, M, r), NEW q, Visits(q, M, r)
  PROVE  Len(p) <= Len(q) /\ \A i \in 1..Len(p) : p[i] = q[i]
<1>1. Len(p) \in Nat /\ Len(q) \in Nat
      /\ (\A k \in 1..Len(p) : p[k] \in M) /\ (\A k \in 1..Len(q) : q[k] \in M)
      /\ (\A b \in M : \E k \in 1..Len(p) : p[k] = b)
      /\ (\A b \in M : \E k \in 1..Len(q) : q[k] = b)
  BY VisitsDomain
<1>2. \A i, j \in 1..Len(p) : i < j => r[p[i]] < r[p[j]]
  BY DEF Visits
<1>3. \A i, j \in 1..Len(q) : i < j => r[q[i]] < r[q[j]]
  BY DEF Visits
<1> DEFINE T == {k \in 0..Len(p) : k <= Len(q) /\ \A i \in 1..k : p[i] = q[i]}
<1>4. 0 \in T
  BY <1>1
<1>5. ASSUME NEW k \in 0..(Len(p) - 1), k \in T PROVE k + 1 \in T
  <2>1. k + 1 \in 1..Len(p) /\ k <= Len(q) /\ \A i \in 1..k : p[i] = q[i]
    BY <1>1, <1>5
  <2>2. PICK j \in 1..Len(q) : q[j] = p[k + 1]
    BY <1>1, <2>1
  <2>3. ~(j <= k)
    <3> SUFFICES ASSUME j <= k PROVE FALSE
      OBVIOUS
    <3>1. j \in 1..k /\ j \in 1..Len(p) /\ j < k + 1
      BY <1>1, <2>1
    <3>2. r[p[j]] < r[p[k + 1]] /\ p[j] = p[k + 1]
      BY <1>2, <2>1, <2>2, <3>1
    <3> QED BY <1>1, <2>1, <3>2
  <2>4. k + 1 \in 1..Len(q)
    BY <1>1, <2>1, <2>2, <2>3
  <2>5. p[k + 1] = q[k + 1]
    <3> SUFFICES ASSUME p[k + 1] # q[k + 1] PROVE FALSE
      OBVIOUS
    <3>1. k + 1 < j
      BY <1>1, <2>1, <2>2, <2>3
    <3>2. r[q[k + 1]] < r[p[k + 1]]
      BY <1>3, <2>2, <2>4, <3>1
    <3>3. PICK l \in 1..Len(p) : p[l] = q[k + 1]
      BY <1>1, <2>4
    <3>4. ~(l <= k)
      <4> SUFFICES ASSUME l <= k PROVE FALSE
        OBVIOUS
      <4>1. l \in 1..k /\ l \in 1..Len(q) /\ l < k + 1
        BY <1>1, <2>1
      <4>2. r[q[l]] < r[q[k + 1]] /\ q[l] = q[k + 1]
        BY <1>3, <2>1, <2>4, <3>3, <4>1
      <4> QED BY <1>1, <2>4, <4>2
    <3>5. k + 1 < l
      BY <2>1, <3>3, <3>4
    <3>6. r[p[k + 1]] < r[q[k + 1]]
      BY <1>2, <2>1, <3>3, <3>5
    <3>7. r[p[k + 1]] \in Int /\ r[q[k + 1]] \in Int
      BY <1>1, <2>1, <2>4
    <3> QED BY <3>2, <3>6, <3>7
  <2>6. \A i \in 1..(k + 1) : i \in 1..k \/ i = k + 1
    OBVIOUS
  <2> QED BY <1>1, <2>1, <2>4, <2>5, <2>6
<1>6. Len(p) \in T
  <2> HIDE DEF T
  <2>1. 0 \in Int /\ Len(p) \in Int /\ Len(p) \in 0..Len(p)
    BY <1>1
  <2>2. 0..Len(p) \subseteq T
    BY <1>4, <1>5, <2>1, IntervalInduction
  <2> QED BY <2>1, <2>2
<1> QED BY <1>6

LEMMA SameVisits ==
  ASSUME NEW M, NEW r, \A b \in M : r[b] \in Int,
         NEW p, Visits(p, M, r), NEW q, Visits(q, M, r)
  PROVE  p = q
<1>1. p \in Seq(M) /\ q \in Seq(M) /\ Len(p) \in Nat /\ Len(q) \in Nat
  BY VisitsDomain DEF Visits
<1>2. ASSUME NEW s, Visits(s, M, r), NEW t, Visits(t, M, r)
      PROVE  Len(s) <= Len(t) /\ \A i \in 1..Len(s) : s[i] = t[i]
  BY <1>2, PrefixesAgree
<1>3. Len(q) <= Len(p) /\ Len(p) <= Len(q) /\ \A i \in 1..Len(p) : p[i] = q[i]
  BY <1>2
<1> QED BY <1>1, <1>3, SeqEqual

LEMMA VisitsCount ==
  ASSUME NEW M, NEW r, \A b \in M : r[b] \in Int, NEW q, Visits(q, M, r)
  PROVE  IsFiniteSet(M) /\ Cardinality(M) = Len(q)
<1>1. Len(q) \in Nat /\ DOMAIN q = 1..Len(q) /\ q \in [1..Len(q) -> M]
  <2>1. q \in Seq(M)
    BY DEF Visits
  <2> QED BY <2>1, LenProperties
<1>2. \A b \in M : \E k \in 1..Len(q) : q[k] = b
  BY VisitsDomain
<1>3. \A i, j \in 1..Len(q) : q[i] = q[j] => i = j
  <2> SUFFICES ASSUME NEW i \in 1..Len(q), NEW j \in 1..Len(q), q[i] = q[j], i # j PROVE FALSE
    OBVIOUS
  <2>1. i < j \/ j < i
    BY <1>1
  <2>2. r[q[i]] < r[q[j]] \/ r[q[j]] < r[q[i]]
    BY <2>1 DEF Visits
  <2>3. r[q[i]] \in Int /\ r[q[i]] = r[q[j]]
    BY <1>1
  <2> QED BY <2>2, <2>3
<1>4. q \in Injection(1..Len(q), M) /\ q \in Surjection(1..Len(q), M)
  BY <1>1, <1>2, <1>3 DEF Injection, Surjection, IsInjective
<1>5. IsFiniteSet(1..Len(q)) /\ Cardinality(1..Len(q)) = Len(q)
  <2>1. PICK m \in Nat : m = Len(q)
    BY <1>1
  <2>2. IsFiniteSet(1..m) /\ Cardinality(1..m) = m
    BY FS_Interval
  <2> QED BY <2>1, <2>2
<1>6. ExistsBijection(1..Len(q), M)
  BY <1>4 DEF ExistsBijection, Bijection
<1> QED BY <1>5, <1>6, FS_Bijection

LEMMA VisitsLast ==
  ASSUME NEW M, NEW r, NEW a, NEW q, a \notin M, Visits(q, M, r), r[a] \in Int,
         \A b \in M : r[b] \in Int /\ r[b] < r[a]
  PROVE  Visits(Append(q, a), M \cup {a}, r)
<1> DEFINE p == Append(q, a)
<1>1. q \in Seq(M \cup {a}) /\ Len(q) \in Nat /\ \A k \in 1..Len(q) : q[k] \in M
  <2>1. q \in Seq(M)
    BY DEF Visits
  <2> QED BY <2>1, VisitsDomain
<1>2. p \in Seq(M \cup {a}) /\ Len(p) = Len(q) + 1 /\ p[Len(q) + 1] = a
      /\ \A k \in 1..Len(q) : p[k] = q[k]
  BY <1>1, AppendProperties
<1>3. DOMAIN p = 1..(Len(q) + 1) /\ \A k \in DOMAIN p : k \in 1..Len(q) \/ k = Len(q) + 1
  BY <1>1, <1>2, LenProperties
<1> HIDE DEF p
<1>4. Elements(p) = M \cup {a}
  <2>1. \A b \in M : \E k \in 1..Len(q) : q[k] = b
    BY VisitsDomain
  <2>2. 1..Len(q) \subseteq DOMAIN p /\ Len(q) + 1 \in DOMAIN p
    BY <1>1, <1>3
  <2>3. \A k \in 1..Len(q) : p[k] = q[k] /\ q[k] \in M
    BY <1>1, <1>2
  <2>4. Elements(p) \subseteq M \cup {a}
    BY <1>2, <1>3, <2>3 DEF Elements
  <2>5. M \subseteq Elements(p)
    BY <2>1, <2>2, <2>3 DEF Elements
  <2>6. a \in Elements(p)
    BY <1>2, <2>2 DEF Elements
  <2> QED BY <2>4, <2>5, <2>6
<1>5. ASSUME NEW i \in 1..Len(p), NEW j \in 1..Len(p), i < j PROVE r[p[i]] < r[p[j]]
  <2>1. i \in 1..Len(q) /\ p[i] = q[i] /\ q[i] \in M
    BY <1>1, <1>2, <1>5
  <2>2. CASE j = Len(q) + 1
    BY <1>2, <2>1, <2>2
  <2>3. CASE j # Len(q) + 1
    <3>1. j \in 1..Len(q) /\ p[j] = q[j]
      BY <1>1, <1>2, <2>3
    <3> QED BY <1>5, <2>1, <3>1 DEF Visits
  <2> QED BY <2>2, <2>3
<1>6. Visits(p, M \cup {a}, r)
  BY <1>2, <1>4, <1>5 DEF Visits
<1> QED BY <1>6 DEF p

LEMMA AmongVisits ==
  ASSUME NEW M, NEW r, \A b \in M : r[b] \in Int, NEW s, Visits(s, M, r), NEW P
  PROVE  Visits(Among(s, P), M \cap P, r)
<1> DEFINE N == Len(s)
           S == Seq(M)
           F == [x \in (0..N) \X S |->
                   IF x[1] = 0 THEN <<>>
                   ELSE IF s[x[1]] \in P THEN Append(x[2], s[x[1]]) ELSE x[2]]
           Steps(g) == g = [k \in 0..N |->
                             IF k = 0 THEN <<>>
                             ELSE IF s[k] \in P THEN Append(g[k - 1], s[k]) ELSE g[k - 1]]
<1>1. N \in Nat /\ (\A k \in 1..N : s[k] \in M) /\ 0 \in Int /\ N \in Int /\ 0 <= N
      /\ 0 \in 0..N /\ N \in 0..N /\ <<>> \in S
  BY VisitsDomain
<1>2. \A q \in S, b \in M : Append(q, b) \in S
  BY AppendProperties
<1> HIDE DEF N, S
<1>3. F \in [(0..N) \X S -> S]
  <2>1. ASSUME NEW x \in (0..N) \X S
        PROVE  (IF x[1] = 0 THEN <<>>
                ELSE IF s[x[1]] \in P THEN Append(x[2], s[x[1]]) ELSE x[2]) \in S
    <3>1. x[1] \in 0..N /\ x[2] \in S
      OBVIOUS
    <3>2. x[1] # 0 => x[1] \in 1..N
      BY <1>1, <3>1
    <3> QED BY <1>1, <1>2, <3>1, <3>2
  <2> QED BY <2>1
<1>4. PICK g : IsLoop(g, 0, N, S, <<>>, F)
  <2> HIDE DEF F
  <2> QED BY <1>1, <1>3, LoopExists
<1>5. Steps(g)
  <2>1. g \in [0..N -> S] /\ g[0] = <<>>
    BY <1>4 DEF IsLoop
  <2>2. ASSUME NEW k \in 0..N, k # 0
        PROVE  g[k] = IF s[k] \in P THEN Append(g[k - 1], s[k]) ELSE g[k - 1]
    <3>1. k - 1 \in 0..N /\ <<k, g[k - 1]>> \in (0..N) \X S
      BY <1>1, <2>1, <2>2
    <3>2. g[k] = F[<<k, g[k - 1]>>]
      BY <1>4, <2>2 DEF IsLoop
    <3> QED BY <2>2, <3>1, <3>2
  <2> QED BY <2>1, <2>2
<1> HIDE DEF F
<1> DEFINE f == CHOOSE h : Steps(h)
<1>6. Steps(f)
  BY <1>5, Zenon
<1>7. Among(s, P) = f[N]
  BY DEF Among, N
<1> HIDE DEF f
<1>8. f[0] = <<>>
  BY <1>1, <1>6
<1>9. ASSUME NEW k \in 1..N
      PROVE  f[k] = IF s[k] \in P THEN Append(f[k - 1], s[k]) ELSE f[k - 1]
  <2>1. k \in 0..N /\ k # 0
    BY <1>1
  <2> QED BY <1>6, <2>1
<1> HIDE DEF Steps
<1> DEFINE Upto(k) == {s[i] : i \in 1..k}
           T == {k \in 0..N : Visits(f[k], Upto(k) \cap P, r)}
<1>10. 0 \in T
  <2>1. Upto(0) = {}
    OBVIOUS
  <2>2. Visits(<<>>, {}, r)
    BY DEF Visits, Elements
  <2> HIDE DEF Upto
  <2> QED BY <1>1, <1>8, <2>1, <2>2
<1>11. ASSUME NEW j \in 0..(N - 1), j \in T PROVE j + 1 \in T
  <2> DEFINE k == j + 1
  <2>1. k \in 1..N /\ k \in 0..N /\ k - 1 = j
    BY <1>1
  <2>2. Upto(k) = Upto(j) \cup {s[k]}
    <3>1. \A i \in 1..k : i \in 1..j \/ i = k
      OBVIOUS
    <3>2. 1..j \subseteq 1..k /\ k \in 1..k
      BY <2>1
    <3> HIDE DEF k
    <3> QED BY <3>1, <3>2
  <2>3. Visits(f[j], Upto(j) \cap P, r)
    BY <1>11
  <2>4. ASSUME NEW b \in Upto(j) PROVE b \in M /\ r[b] \in Int /\ r[b] < r[s[k]]
    <3>1. PICK i \in 1..j : b = s[i]
      OBVIOUS
    <3>2. i \in 1..N /\ i < k
      BY <1>1, <2>1
    <3> HIDE DEF k
    <3>3. r[s[i]] < r[s[k]]
      BY <2>1, <3>2 DEF Visits, N
    <3> QED BY <1>1, <3>1, <3>2, <3>3
  <2>5. s[k] \in M /\ r[s[k]] \in Int
    BY <1>1, <2>1
  <2>6. s[k] \notin Upto(j)
    <3> HIDE DEF k, Upto
    <3> QED BY <2>4, <2>5
  <2> HIDE DEF k, Upto
  <2>7. Visits(f[k], Upto(k) \cap P, r)
    <3>1. CASE s[k] \in P
      <4>1. Visits(Append(f[j], s[k]), (Upto(j) \cap P) \cup {s[k]}, r)
        BY <2>3, <2>4, <2>5, <2>6, VisitsLast
      <4>2. (Upto(j) \cap P) \cup {s[k]} = Upto(k) \cap P
        BY <2>2, <3>1
      <4> QED BY <1>9, <2>1, <3>1, <4>1, <4>2
    <3>2. CASE s[k] \notin P
      <4>1. Upto(j) \cap P = Upto(k) \cap P
        BY <2>2, <3>2
      <4> QED BY <1>9, <2>1, <2>3, <3>2, <4>1
    <3> QED BY <3>1, <3>2
  <2> QED BY <2>1, <2>7 DEF k
<1>12. N \in T
  <2> HIDE DEF T
  <2>1. 0..N \subseteq T
    BY <1>1, <1>10, <1>11, IntervalInduction
  <2> QED BY <1>1, <2>1
<1>13. Upto(N) = M
  <2>1. \A b \in M : \E k \in 1..N : s[k] = b
    BY VisitsDomain DEF N
  <2> QED BY <1>1, <2>1
<1> HIDE DEF Upto
<1> QED BY <1>7, <1>12, <1>13

\* The list after a use of page, from which old has gone (the page itself,
\* or one that is replaced).
LEMMA UsedVisits ==
  ASSUME NEW M, NEW r, \A b \in M : r[b] \in Int, NEW s, Visits(s, M, r),
         NEW page, NEW old, page \notin M \ {old}, NEW r2, r2[page] \in Int,
         \A b \in M \ {old} : r2[b] = r[b] /\ r2[page] < r[b]
  PROVE  Visits(<<page>> \o Without(s, old), (M \ {old}) \cup {page}, r2)
<1>1. Visits(Without(s, old), M \cap (Elements(s) \ {old}), r)
  BY AmongVisits DEF Without
<1>2. M \cap (Elements(s) \ {old}) = M \ {old}
  BY DEF Visits
<1>3. Visits(Without(s, old), M \ {old}, r2)
  BY <1>1, <1>2, VisitsAgree
<1> QED BY <1>3, VisitsOne

---------------------------------------------------------------------------
(* The pool and the hash table.  A cache has the nodes 0..n and the        *)
(* buckets 0..B.                                                           *)

Ref(n) == (0..n) \cup {NULL}
PageNode(n) ==
  [page_number : Nat, dirty : BOOLEAN, list_type : {"NONE", "WORKING", "CLEAN", "DIRTY"},
   prev : Ref(n), next : Ref(n), hash_next : Ref(n)]

PageOf(c)   == [a \in DOMAIN c.nodes |-> c.nodes[a].page_number]
DirtyAt(c)  == [a \in DOMAIN c.nodes |-> c.nodes[a].dirty]
ListOf(c)   == [a \in DOMAIN c.nodes |-> c.nodes[a].list_type]
NextOf(c)   == [a \in DOMAIN c.nodes |-> c.nodes[a].next]
PrevOf(c)   == [a \in DOMAIN c.nodes |-> c.nodes[a].prev]
HashNext(c) == [a \in DOMAIN c.nodes |-> c.nodes[a].hash_next]

IsPool(c, n, B) == c.nodes \in [0..n -> PageNode(n)] /\ c.buckets \in [0..B -> Ref(n)]

LEMMA PoolFields ==
  ASSUME NEW n \in Nat, NEW B \in Nat, NEW c, IsPool(c, n, B)
  PROVE  /\ DOMAIN c.nodes = 0..n /\ DOMAIN c.buckets = 0..B
         /\ PageOf(c) \in [0..n -> Nat] /\ DirtyAt(c) \in [0..n -> BOOLEAN]
         /\ ListOf(c) \in [0..n -> {"NONE", "WORKING", "CLEAN", "DIRTY"}]
         /\ NextOf(c) \in [0..n -> Ref(n)] /\ PrevOf(c) \in [0..n -> Ref(n)]
         /\ HashNext(c) \in [0..n -> Ref(n)]
         /\ \A a \in 0..n :
              /\ c.nodes[a] \in PageNode(n)
              /\ PageOf(c)[a] = c.nodes[a].page_number
              /\ DirtyAt(c)[a] = c.nodes[a].dirty
              /\ ListOf(c)[a] = c.nodes[a].list_type
              /\ NextOf(c)[a] = c.nodes[a].next
              /\ PrevOf(c)[a] = c.nodes[a].prev
              /\ HashNext(c)[a] = c.nodes[a].hash_next
<1>1. DOMAIN c.nodes = 0..n /\ DOMAIN c.buckets = 0..B
  BY DEF IsPool
<1>2. \A a \in 0..n : c.nodes[a] \in PageNode(n)
  BY DEF IsPool
<1>3. \A a \in 0..n : /\ c.nodes[a].page_number \in Nat /\ c.nodes[a].dirty \in BOOLEAN
                      /\ c.nodes[a].list_type \in {"NONE", "WORKING", "CLEAN", "DIRTY"}
                      /\ c.nodes[a].next \in Ref(n) /\ c.nodes[a].prev \in Ref(n)
                      /\ c.nodes[a].hash_next \in Ref(n)
  BY <1>2 DEF PageNode
<1>4. PageOf(c) \in [0..n -> Nat] /\ DirtyAt(c) \in [0..n -> BOOLEAN]
  BY <1>1, <1>3 DEF PageOf, DirtyAt
<1>5. ListOf(c) \in [0..n -> {"NONE", "WORKING", "CLEAN", "DIRTY"}]
  BY <1>1, <1>3 DEF ListOf
<1>6. NextOf(c) \in [0..n -> Ref(n)] /\ PrevOf(c) \in [0..n -> Ref(n)]
      /\ HashNext(c) \in [0..n -> Ref(n)]
  BY <1>1, <1>3 DEF NextOf, PrevOf, HashNext
<1> QED
  BY <1>1, <1>2, <1>4, <1>5, <1>6 DEF PageOf, DirtyAt, ListOf, NextOf, PrevOf, HashNext

LEMMA FoldedIs ==
  ASSUME NEW key \in Nat
  PROVE  Folded(key) \in Nat
<1> DEFINE D == 0..key
           E == {0}
           rank == [k \in D |-> key - k]
           nx == [k \in D |-> k \div 2]
           e == [k \in D |-> 0]
           G == [x \in D \X Nat |-> (2 * x[2]) + ((x[1] + (x[1] \div 32)) % 2)]
           Steps(f) == f = [k \in D |-> IF k = 0 THEN 0
                                        ELSE (2 * f[k \div 2]) + ((k + (k \div 32)) % 2)]
<1>1. \A k \in D : k \div 2 \in D /\ (k # 0 => k \div 2 < k)
  OBVIOUS
<1>2. \A k \in D, m \in Nat : (2 * m) + ((k + (k \div 32)) % 2) \in Nat
  OBVIOUS
<1>3. IsPath(D, E, Nat, key, rank, nx, e, G)
  <2>1. rank \in [D -> Nat] /\ nx \in [D -> D] /\ e \in [D -> Nat]
    BY <1>1
  <2>2. G \in [D \X Nat -> Nat]
    <3>1. ASSUME NEW x \in D \X Nat PROVE (2 * x[2]) + ((x[1] + (x[1] \div 32)) % 2) \in Nat
      BY <1>2
    <3> QED BY <3>1
  <2>3. \A k \in D : rank[k] <= key
    OBVIOUS
  <2>4. \A k \in D : k \notin E => rank[nx[k]] > rank[k]
    BY <1>1
  <2> HIDE DEF D, E, rank, nx, e, G
  <2> QED BY <2>1, <2>2, <2>3, <2>4 DEF IsPath
<1>4. PICK f \in [D -> Nat] : \A k \in D : f[k] = IF k \in E THEN e[k] ELSE G[<<k, f[nx[k]]>>]
  <2> HIDE DEF D, E, rank, nx, e, G
  <2> QED BY <1>3, PathFunction
<1>5. Steps(f)
  <2>1. ASSUME NEW k \in D
        PROVE  f[k] = IF k = 0 THEN 0 ELSE (2 * f[k \div 2]) + ((k + (k \div 32)) % 2)
    <3>1. CASE k = 0
      BY <1>4, <3>1
    <3>2. CASE k # 0
      <4>1. nx[k] = k \div 2 /\ k \div 2 \in D /\ k \notin E
        BY <1>1, <3>2
      <4>2. f[k \div 2] \in Nat
        BY <4>1
      <4>3. G[<<k, f[k \div 2]>>] = (2 * f[k \div 2]) + ((k + (k \div 32)) % 2)
        BY <4>2
      <4> HIDE DEF G, D
      <4> QED BY <1>4, <3>2, <4>1, <4>3
    <3> QED BY <3>1, <3>2
  <2> HIDE DEF D
  <2> QED BY <2>1
<1> DEFINE w == CHOOSE g : Steps(g)
<1>6. Steps(w)
  BY <1>5, Zenon
<1>7. Folded(key) = w[key]
  BY DEF Folded
<1> HIDE DEF w
<1>8. \A k \in D : w[k] = IF k = 0 THEN 0 ELSE (2 * w[k \div 2]) + ((k + (k \div 32)) % 2)
  BY <1>6
<1> DEFINE T == {m \in D : \A k \in 0..m : w[k] \in Nat}
<1>9. 0 \in T
  <2>1. \A k \in 0..0 : k = 0
    OBVIOUS
  <2> QED BY <1>8, <2>1
<1>10. ASSUME NEW m \in 0..(key - 1), m \in T PROVE m + 1 \in T
  <2>1. m + 1 \in D /\ m + 1 # 0 /\ (m + 1) \div 2 \in 0..m
    OBVIOUS
  <2>2. w[(m + 1) \div 2] \in Nat
    BY <1>10, <2>1
  <2>3. w[m + 1] \in Nat
    BY <1>2, <1>8, <2>1, <2>2
  <2>4. \A k \in 0..(m + 1) : k \in 0..m \/ k = m + 1
    OBVIOUS
  <2> QED BY <1>10, <2>1, <2>3, <2>4
<1>11. key \in T
  <2> HIDE DEF T
  <2>1. 0 \in Int /\ key \in Int /\ key \in 0..key
    OBVIOUS
  <2>2. 0..key \subseteq T
    BY <1>9, <1>10, <2>1, IntervalInduction
  <2> QED BY <2>1, <2>2
<1> QED BY <1>7, <1>11

Hash(B, page) == Folded(page) % (B + 1)

LEMMA HashIs ==
  ASSUME NEW n \in Nat, NEW B \in Nat, NEW c, IsPool(c, n, B), NEW page \in Nat
  PROVE  hash_func(c, page) = Hash(B, page) /\ Hash(B, page) \in 0..B
<1>1. DOMAIN c.buckets = 0..B
  BY DEF IsPool
<1>2. Cardinality(0..B) = B + 1
  BY FS_Interval
<1>3. Folded(page) \in Nat
  BY FoldedIs
<1>4. Hash(B, page) \in 0..B
  BY <1>3 DEF Hash
<1> QED BY <1>1, <1>2, <1>4 DEF hash_func, Hash

Bucket(c, B, U, b) == {a \in U : Hash(B, PageOf(c)[a]) = b}

\* The table finds the nodes of U by pages that are all different; h is
\* their order of insertion, backwards.
Table(c, n, B, U, h) ==
  /\ Ranked(0..n, U, h)
  /\ \A a1, a2 \in U : PageOf(c)[a1] = PageOf(c)[a2] => a1 = a2
  /\ \A b \in 0..B : Linked(HashNext(c), c.buckets[b], Bucket(c, B, U, b), h)

\* Nodes that are not in the table lead nowhere.
Loose(c, n, U) == \A a \in (0..n) \ U : HashNext(c)[a] = NULL

LEMMA TableAgrees ==
  ASSUME NEW n \in Nat, NEW B \in Nat, NEW c, NEW d, NEW U, NEW h, Table(c, n, B, U, h),
         d.buckets = c.buckets,
         \A a \in U : PageOf(d)[a] = PageOf(c)[a] /\ HashNext(d)[a] = HashNext(c)[a]
  PROVE  Table(d, n, B, U, h)
<1>1. ASSUME NEW b \in 0..B
      PROVE  Linked(HashNext(d), d.buckets[b], Bucket(d, B, U, b), h)
  <2>1. Linked(HashNext(c), c.buckets[b], Bucket(c, B, U, b), h)
    BY DEF Table
  <2>2. Bucket(d, B, U, b) = Bucket(c, B, U, b)
    BY DEF Bucket
  <2>3. \A a \in Bucket(c, B, U, b) : HashNext(d)[a] = HashNext(c)[a]
    BY DEF Bucket
  <2> QED BY <2>1, <2>2, <2>3 DEF Linked
<1> QED BY <1>1 DEF Table

LEMMA BucketRanks ==
  ASSUME NEW n, NEW B, NEW c, NEW U, NEW h, Table(c, n, B, U, h), NEW b
  PROVE  Ranked(0..n, Bucket(c, B, U, b), h)
  BY DEF Table, Ranked, Bucket

LEMMA ChainIs ==
  ASSUME NEW n \in Nat, NEW B \in Nat, NEW c, NEW U, NEW h, IsPool(c, n, B),
         Table(c, n, B, U, h), Loose(c, n, U), NEW b \in 0..B
  PROVE  /\ Visits(Chain(c, b), Bucket(c, B, U, b), h)
         /\ Chain(c, b) # <<>> <=> c.buckets[b] # NULL
         /\ c.buckets[b] # NULL => Chain(c, b)[1] = c.buckets[b]
<1> DEFINE nx == HashNext(c)
           Steps(f) == f = [a \in DOMAIN c.nodes \cup {NULL} |->
                              IF a = NULL THEN <<>> ELSE <<a>> \o f[c.nodes[a].hash_next]]
<1>1. /\ DOMAIN c.nodes = 0..n /\ nx \in [0..n -> 0..n \cup {NULL}]
      /\ \A a \in 0..n : nx[a] = c.nodes[a].hash_next
  BY PoolFields DEF Ref
<1>2. h \in [0..n -> Int] /\ U \subseteq 0..n /\ NULL \notin 0..n
  BY DEF Table, Ranked
<1>3. ASSUME NEW a \in 0..n, nx[a] # NULL PROVE h[a] < h[nx[a]]
  <2>1. a \in U
    BY <1>3 DEF Loose
  <2>2. PageOf(c)[a] \in Nat
    BY PoolFields
  <2>3. Hash(B, PageOf(c)[a]) \in 0..B
    BY <2>2, HashIs
  <2>4. Linked(nx, c.buckets[Hash(B, PageOf(c)[a])], Bucket(c, B, U, Hash(B, PageOf(c)[a])), h)
    BY <2>3 DEF Table
  <2>5. a \in Bucket(c, B, U, Hash(B, PageOf(c)[a]))
    BY <2>1 DEF Bucket
  <2> HIDE DEF nx
  <2> QED BY <1>3, <2>4, <2>5 DEF Linked
<1> HIDE DEF nx
<1>4. PICK f \in [0..n \cup {NULL} -> Seq(0..n)] : IsWalk(f, 0..n, nx)
  BY <1>1, <1>2, <1>3, WalkExists
<1>5. Steps(f)
  <2>1. f = [a \in 0..n \cup {NULL} |-> f[a]] /\ f[NULL] = <<>>
        /\ \A a \in 0..n : f[a] = <<a>> \o f[nx[a]]
    BY <1>4 DEF IsWalk
  <2> QED BY <1>1, <1>2, <2>1
<1> DEFINE w == CHOOSE g : Steps(g)
<1>6. Steps(w)
  BY <1>5, Zenon
<1>7. Chain(c, b) = w[c.buckets[b]]
  BY DEF Chain
<1> HIDE DEF w
<1>8. IsWalk(w, 0..n, nx)
  <2>1. w[NULL] = <<>> /\ \A a \in 0..n : w[a] = <<a>> \o w[nx[a]]
    BY <1>1, <1>2, <1>6
  <2> QED BY <2>1 DEF IsWalk
<1>9. Ranked(0..n, Bucket(c, B, U, b), h)
  BY BucketRanks
<1>10. Linked(nx, c.buckets[b], Bucket(c, B, U, b), h)
  BY DEF Table, nx
<1> DEFINE first == c.buckets[b]
           M == Bucket(c, B, U, b)
<1>11. Ranked(0..n, M, h) /\ Linked(nx, first, M, h)
  BY <1>9, <1>10
<1> HIDE DEF first, M
<1>12. /\ Visits(w[first], M, h)
       /\ w[first] # <<>> <=> first # NULL
       /\ first # NULL => w[first][1] = first
  BY <1>8, <1>11, WalkIs
<1> QED BY <1>7, <1>12 DEF first, M

\* The pages of the nodes of U, and those of them that are dirty.
PagesIn(c, U) == {PageOf(c)[a] : a \in U}
DirtyIn(c, U) == {PageOf(c)[a] : a \in {b \in U : DirtyAt(c)[b]}}

LEMMA HeldIs ==
  ASSUME NEW n \in Nat, NEW B \in Nat, NEW c, NEW U, NEW h, IsPool(c, n, B),
         Table(c, n, B, U, h), Loose(c, n, U)
  PROVE  /\ Held(c) = U
         /\ CachedPages(c) = PagesIn(c, U)
         /\ DirtyPages(c) = DirtyIn(c, U)
<1>1. DOMAIN c.buckets = 0..B /\ U \subseteq 0..n
  BY DEF IsPool, Table, Ranked
<1>2. ASSUME NEW b \in 0..B
      PROVE  {Chain(c, b)[k] : k \in DOMAIN Chain(c, b)} = Bucket(c, B, U, b)
  <2>1. Visits(Chain(c, b), Bucket(c, B, U, b), h)
    BY ChainIs
  <2> QED BY <2>1 DEF Visits, Elements
<1>3. \A a \in U : Hash(B, PageOf(c)[a]) \in 0..B
  <2> SUFFICES ASSUME NEW a \in U PROVE Hash(B, PageOf(c)[a]) \in 0..B
    OBVIOUS
  <2>1. PageOf(c)[a] \in Nat
    BY <1>1, PoolFields
  <2> QED BY <2>1, HashIs
<1>4. Held(c) = UNION {Bucket(c, B, U, b) : b \in 0..B}
  BY <1>1, <1>2 DEF Held
<1>5. Held(c) = U
  BY <1>3, <1>4 DEF Bucket
<1>6. \A a \in U : c.nodes[a].page_number = PageOf(c)[a] /\ c.nodes[a].dirty = DirtyAt(c)[a]
  BY <1>1, PoolFields
<1> QED BY <1>5, <1>6 DEF CachedPages, DirtyPages, PagesIn, DirtyIn

LEMMA GetIs ==
  ASSUME NEW n \in Nat, NEW B \in Nat, NEW c, NEW U, NEW h, IsPool(c, n, B),
         Table(c, n, B, U, h), Loose(c, n, U), NEW page \in Nat
  PROVE  \/ get(c, page) = NULL /\ \A a \in U : PageOf(c)[a] # page
         \/ get(c, page) \in U /\ PageOf(c)[get(c, page)] = page
<1> DEFINE b == Hash(B, page)
           chain == Chain(c, b)
           found == {k \in DOMAIN chain : c.nodes[chain[k]].page_number = page}
<1>1. b \in 0..B /\ hash_func(c, page) = b
  BY HashIs
<1>2. U \subseteq 0..n
  BY DEF Table, Ranked
<1>3. Visits(chain, Bucket(c, B, U, b), h)
  BY <1>1, ChainIs
<1> HIDE DEF chain
<1>4. get(c, page) = IF found = {} THEN NULL ELSE chain[Min(found)]
  BY <1>1 DEF get, chain
<1>5. /\ Len(chain) \in Nat /\ DOMAIN chain = 1..Len(chain)
      /\ \A k \in 1..Len(chain) : chain[k] \in Bucket(c, B, U, b)
      /\ \A a \in Bucket(c, B, U, b) : \E k \in 1..Len(chain) : chain[k] = a
  BY <1>3, VisitsDomain
<1>6. \A a \in U : a \in 0..n /\ c.nodes[a].page_number = PageOf(c)[a]
  BY <1>2, PoolFields
<1>7. \A a \in U : PageOf(c)[a] = page => a \in Bucket(c, B, U, b)
  BY DEF Bucket
<1>8. \A a \in Bucket(c, B, U, b) : a \in U
  BY DEF Bucket
<1>9. CASE found = {}
  <2>1. ASSUME NEW a \in U, PageOf(c)[a] = page PROVE FALSE
    <3>1. PICK k \in 1..Len(chain) : chain[k] = a
      BY <1>5, <1>7, <2>1
    <3> QED BY <1>5, <1>6, <1>9, <2>1, <3>1
  <2> QED BY <1>4, <1>9, <2>1
<1>10. CASE found # {}
  <2>1. found \in SUBSET Nat
    BY <1>5
  <2>2. Min(found) \in found
    <3> HIDE DEF found
    <3> QED BY <1>10, <2>1, MinOf
  <2>3. chain[Min(found)] \in U /\ c.nodes[chain[Min(found)]].page_number = page
    BY <1>5, <1>8, <2>2
  <2> HIDE DEF found
  <2> QED BY <1>4, <1>6, <1>10, <2>3
<1> QED BY <1>9, <1>10

---------------------------------------------------------------------------
(* Changes of nodes.                                                       *)

Lists == {"WORKING", "CLEAN", "DIRTY"}

LRUCaches(n, B) ==
  [nodes : [0..n -> PageNode(n)], free_list : Seq(0..n), buckets : [0..B -> Ref(n)],
   head : Ref(n), tail : Ref(n), hit : Nat, miss : Nat, write_back : Nat]

CFLRUCaches(n, B) ==
  [nodes : [0..n -> PageNode(n)], free_list : Seq(0..n), buckets : [0..B -> Ref(n)],
   working_cap : Nat, working_size : Int, head : [Lists -> Ref(n)], tail : [Lists -> Ref(n)],
   hit : Nat, miss : Nat, write_back : Nat]

Caches(n, B) == LRUCaches(n, B) \cup CFLRUCaches(n, B)

LEMMA PoolOf ==
  ASSUME NEW n, NEW B, NEW c \in Caches(n, B)
  PROVE  IsPool(c, n, B)
<1>1. CASE c \in LRUCaches(n, B)
  BY <1>1 DEF LRUCaches, IsPool
<1>2. CASE c \in CFLRUCaches(n, B)
  BY <1>2 DEF CFLRUCaches, IsPool
<1> QED BY <1>1, <1>2 DEF Caches

\* d is c with x as its node a.
IsChanged(c, d, a, x) == d.nodes = [c.nodes EXCEPT ![a] = x]

\* Nothing but nodes and buckets is different.
SameRest(c, d) == d = [c EXCEPT !.nodes = d.nodes, !.buckets = d.buckets]

LEMMA NodeChanges ==
  ASSUME NEW n \in Nat, NEW x \in PageNode(n), NEW v \in Ref(n), NEW dirty \in BOOLEAN,
         NEW type \in {"NONE", "WORKING", "CLEAN", "DIRTY"}
  PROVE  /\ [x EXCEPT !.next = v] \in PageNode(n)
         /\ [x EXCEPT !.prev = v] \in PageNode(n)
         /\ [x EXCEPT !.hash_next = v] \in PageNode(n)
         /\ [x EXCEPT !.dirty = dirty] \in PageNode(n)
         /\ [x EXCEPT !.list_type = type] \in PageNode(n)
         /\ [x EXCEPT !.next = v, !.prev = NULL] \in PageNode(n)
         /\ [x EXCEPT !.next = v, !.prev = NULL, !.list_type = type] \in PageNode(n)
<1>1. NULL \in Ref(n)
  BY DEF Ref
<1> QED BY <1>1 DEF PageNode

LEMMA Changes ==
  ASSUME NEW n \in Nat, NEW B \in Nat, NEW c, IsPool(c, n, B), NEW d, NEW a \in 0..n,
         NEW x \in PageNode(n), IsChanged(c, d, a, x), d.buckets \in [0..B -> Ref(n)]
  PROVE  /\ IsPool(d, n, B)
         /\ \A b \in 0..n :
              /\ PageOf(d)[b] = IF b = a THEN x.page_number ELSE PageOf(c)[b]
              /\ DirtyAt(d)[b] = IF b = a THEN x.dirty ELSE DirtyAt(c)[b]
              /\ ListOf(d)[b] = IF b = a THEN x.list_type ELSE ListOf(c)[b]
              /\ NextOf(d)[b] = IF b = a THEN x.next ELSE NextOf(c)[b]
              /\ PrevOf(d)[b] = IF b = a THEN x.prev ELSE PrevOf(c)[b]
              /\ HashNext(d)[b] = IF b = a THEN x.hash_next ELSE HashNext(c)[b]
<1>1. c.nodes \in [0..n -> PageNode(n)]
  BY DEF IsPool
<1>2. d.nodes \in [0..n -> PageNode(n)] /\ \A b \in 0..n : d.nodes[b] = IF b = a THEN x ELSE c.nodes[b]
  BY <1>1 DEF IsChanged
<1>3. DOMAIN c.nodes = 0..n /\ DOMAIN d.nodes = 0..n
  BY <1>1, <1>2
<1>4. IsPool(d, n, B)
  BY <1>2 DEF IsPool
<1> QED
  BY <1>2, <1>3, <1>4 DEF PageOf, DirtyAt, ListOf, NextOf, PrevOf, HashNext

LEMMA SameRestFields ==
  ASSUME NEW n, NEW B, NEW c, NEW d, SameRest(c, d), IsPool(d, n, B)
  PROVE  /\ c \in LRUCaches(n, B) =>
              /\ d \in LRUCaches(n, B) /\ d.free_list = c.free_list /\ d.head = c.head
              /\ d.tail = c.tail /\ d.hit = c.hit /\ d.miss = c.miss /\ d.write_back = c.write_back
         /\ c \in CFLRUCaches(n, B) =>
              /\ d \in CFLRUCaches(n, B) /\ d.free_list = c.free_list /\ d.head = c.head
              /\ d.tail = c.tail /\ d.hit = c.hit /\ d.miss = c.miss /\ d.write_back = c.write_back
              /\ d.working_cap = c.working_cap /\ d.working_size = c.working_size
<1>1. d.nodes \in [0..n -> PageNode(n)] /\ d.buckets \in [0..B -> Ref(n)]
  BY DEF IsPool
<1>2. PICK N \in [0..n -> PageNode(n)], K \in [0..B -> Ref(n)] :
        d = [c EXCEPT !.nodes = N, !.buckets = K]
  BY <1>1 DEF SameRest
<1>3. ASSUME c \in LRUCaches(n, B)
      PROVE  /\ d \in LRUCaches(n, B) /\ d.free_list = c.free_list /\ d.head = c.head
             /\ d.tail = c.tail /\ d.hit = c.hit /\ d.miss = c.miss /\ d.write_back = c.write_back
  BY <1>2, <1>3 DEF LRUCaches
<1>4. ASSUME c \in CFLRUCaches(n, B)
      PROVE  /\ d \in CFLRUCaches(n, B) /\ d.free_list = c.free_list /\ d.head = c.head
             /\ d.tail = c.tail /\ d.hit = c.hit /\ d.miss = c.miss /\ d.write_back = c.write_back
             /\ d.working_cap = c.working_cap /\ d.working_size = c.working_size
  BY <1>2, <1>4 DEF CFLRUCaches
<1> QED BY <1>3, <1>4

\* A doubly linked list: next and prev of its nodes, its ends.
Both(nx, pv, hd, tl, M, r) == Linked(nx, hd, M, r) /\ Linked(pv, tl, M, Reversed(r))

\* A set without an element, and with one more.
Dropping(M, a) == M \ {a}
Adding(M, a)   == M \cup {a}

SameOutside(D, M, f, f2) == \A b \in D : b \notin M => f2[b] = f[b]

\* The links after a node a was taken out of a list.
TakenOut(D, nx, pv, hd, tl, a, nx2, pv2, hd2, tl2) ==
  /\ \A b \in D : nx2[b] = IF b = pv[a] THEN nx[a] ELSE nx[b]
  /\ \A b \in D : pv2[b] = IF b = nx[a] THEN pv[a] ELSE pv[b]
  /\ hd2 = IF a = hd THEN nx[a] ELSE hd
  /\ tl2 = IF a = tl THEN pv[a] ELSE tl

LEMMA LinksUnlinked ==
  ASSUME NEW D, NEW M, NEW r, NEW nx, NEW pv, NEW hd, NEW tl, NEW a,
         NEW nx2, NEW pv2, NEW hd2, NEW tl2,
         Ranked(D, M, r), Both(nx, pv, hd, tl, M, r), a \in M,
         TakenOut(D, nx, pv, hd, tl, a, nx2, pv2, hd2, tl2)
  PROVE  /\ Both(nx2, pv2, hd2, tl2, Dropping(M, a), r) /\ Ranked(D, Dropping(M, a), r)
         /\ SameOutside(D, M, nx, nx2) /\ SameOutside(D, M, pv, pv2)
         /\ a # hd => tl2 # NULL
<1>1. Linked(nx, hd, M, r) /\ Linked(pv, tl, M, Reversed(r))
  BY DEF Both
<1>2. \A b \in M : /\ pv[b] # NULL => pv[b] \in M /\ nx[pv[b]] = b
                   /\ nx[b] # NULL => nx[b] \in M /\ pv[nx[b]] = b
  BY <1>1, Mirror
<1>3. NULL \notin D /\ M \subseteq D
  BY DEF Ranked
<1>4. \A b \in M : (b = pv[a] <=> nx[b] = a) /\ (b = nx[a] <=> pv[b] = a)
  BY <1>2, <1>3
<1>5. Linked(nx2, hd2, M \ {a}, r)
  <2>1. \A b \in M \ {a} : nx2[b] = IF nx[b] = a THEN nx[a] ELSE nx[b]
    BY <1>3, <1>4 DEF TakenOut
  <2>2. hd2 = IF hd = a THEN nx[a] ELSE hd
    BY DEF TakenOut
  <2> QED BY <1>1, <2>1, <2>2, Unlinked
<1>6. Linked(pv2, tl2, M \ {a}, Reversed(r))
  <2>1. \A b \in M \ {a} : pv2[b] = IF pv[b] = a THEN pv[a] ELSE pv[b]
    BY <1>3, <1>4 DEF TakenOut
  <2>2. tl2 = IF tl = a THEN pv[a] ELSE tl
    BY DEF TakenOut
  <2>3. Ranked(D, M, Reversed(r))
    BY ReversedRanks
  <2> QED BY <1>1, <2>1, <2>2, <2>3, Unlinked
<1>7. Ranked(D, M \ {a}, r)
  BY DEF Ranked
<1>8. \A b \in D : b \notin M => nx2[b] = nx[b] /\ pv2[b] = pv[b]
  BY <1>2, <1>3 DEF TakenOut
<1>9. a # hd => tl2 # NULL
  <2>1. (pv[a] = NULL <=> a = hd) /\ tl \in M
    BY <1>1, Mirror
  <2> QED BY <1>3, <2>1 DEF TakenOut
<1> QED BY <1>5, <1>6, <1>7, <1>8, <1>9 DEF Both, Dropping, SameOutside

\* The links after a node a became the first of a list.
PutFirst(D, nx, pv, hd, tl, a, nx2, pv2, tl2) ==
  /\ \A b \in D : nx2[b] = IF b = a THEN hd ELSE nx[b]
  /\ \A b \in D : pv2[b] = IF b = a THEN NULL ELSE IF b = hd THEN a ELSE pv[b]
  /\ tl2 = IF tl = NULL THEN a ELSE tl

\* The rank r2 has a before M, which it orders like r.
Ahead(D, M, r, r2, a) ==
  r2 \in [D -> Int] /\ \A b \in M : r2[b] = r[b] /\ r2[a] < r[b]

LEMMA LinksPushed ==
  ASSUME NEW D, NEW M, NEW r, NEW nx, NEW pv, NEW hd, NEW tl, NEW a,
         NEW r2, NEW nx2, NEW pv2, NEW tl2,
         Ranked(D, M, r), Both(nx, pv, hd, tl, M, r), a \in D, a \notin M,
         Ahead(D, M, r, r2, a), PutFirst(D, nx, pv, hd, tl, a, nx2, pv2, tl2)
  PROVE  /\ Both(nx2, pv2, a, tl2, Adding(M, a), r2) /\ Ranked(D, Adding(M, a), r2)
         /\ SameOutside(D, Adding(M, a), nx, nx2) /\ SameOutside(D, Adding(M, a), pv, pv2)
<1>1. Linked(nx, hd, M, r) /\ Linked(pv, tl, M, Reversed(r))
  BY DEF Both
<1>2. \A b \in M : pv[b] = NULL <=> b = hd
  BY <1>1, Mirror
<1>3. Ranked(D, M, Reversed(r))
  BY ReversedRanks
<1>4. \A b \in D : /\ Reversed(r2)[b] = -r2[b] /\ r2[b] \in Int
                   /\ Reversed(r)[b] = -r[b]
  BY DEF Reversed, Ranked, Ahead
<1>5. M \subseteq D /\ NULL \notin D /\ \A b \in D : r[b] \in Int
  BY DEF Ranked
<1>6. Linked(nx2, a, M \cup {a}, r2)
  <2>1. \A b \in M : nx2[b] = nx[b] /\ r2[b] = r[b] /\ r2[a] < r[b]
    BY <1>5 DEF Ahead, PutFirst
  <2>2. r2[a] \in Int /\ nx2[a] = hd
    BY <1>4 DEF PutFirst
  <2> QED BY <1>1, <2>1, <2>2, Pushed
<1>7. Linked(pv2, tl2, M \cup {a}, Reversed(r2))
  <2>1. \A b \in M : /\ Reversed(r2)[b] = Reversed(r)[b] /\ Reversed(r2)[a] > Reversed(r)[b]
                     /\ pv2[b] = IF pv[b] = NULL THEN a ELSE pv[b]
    <3> SUFFICES ASSUME NEW b \in M
                 PROVE  /\ Reversed(r2)[b] = Reversed(r)[b] /\ Reversed(r2)[a] > Reversed(r)[b]
                        /\ pv2[b] = IF pv[b] = NULL THEN a ELSE pv[b]
      OBVIOUS
    <3>1. r2[b] = r[b] /\ r2[a] < r[b] /\ r2[a] \in Int /\ r[b] \in Int
      BY <1>4, <1>5 DEF Ahead
    <3>2. Reversed(r2)[b] = -r2[b] /\ Reversed(r2)[a] = -r2[a] /\ Reversed(r)[b] = -r[b]
      BY <1>4, <1>5
    <3> HIDE DEF Reversed
    <3>3. Reversed(r2)[b] = Reversed(r)[b] /\ Reversed(r2)[a] > Reversed(r)[b]
      BY <3>1, <3>2
    <3>4. pv2[b] = IF b = hd THEN a ELSE pv[b]
      BY <1>5 DEF PutFirst
    <3> QED BY <1>2, <3>3, <3>4
  <2>2. Reversed(r2)[a] \in Int
    BY <1>4
  <2>3. pv2[a] = NULL /\ tl2 = IF tl = NULL THEN a ELSE tl
    BY DEF PutFirst
  <2> QED BY <1>1, <1>3, <2>1, <2>2, <2>3, Appended
<1>8. Ranked(D, M \cup {a}, r2)
  <2>1. \A b \in M : r2[b] = r[b] /\ r2[b] # r2[a]
    BY <1>4, <1>5 DEF Ahead
  <2>2. \A b, b2 \in M \cup {a} : r2[b] = r2[b2] => b = b2
    BY <2>1 DEF Ranked
  <2> QED BY <1>5, <2>2 DEF Ranked, Ahead
<1>9. hd = NULL \/ hd \in M
  BY <1>1 DEF Linked
<1>10. \A b \in D : b \notin M /\ b # a => nx2[b] = nx[b] /\ pv2[b] = pv[b]
  BY <1>5, <1>9 DEF PutFirst
<1> QED BY <1>6, <1>7, <1>8, <1>10 DEF Both, Adding, SameOutside

\* A list is the same for another rank of its nodes that agrees on them.

---------------------------------------------------------------------------
(* Operations on one node.                                                 *)

SamePages(c, d) ==
  PageOf(d) = PageOf(c) /\ HashNext(d) = HashNext(c) /\ d.buckets = c.buckets

\* A new value for the node a, which may be NULL.
SetAt(f, a, v) == IF a = NULL THEN f ELSE [f EXCEPT ![a] = v]

LEMMA ChangedAs ==
  ASSUME NEW n \in Nat, NEW B \in Nat, NEW c, IsPool(c, n, B), NEW d, NEW a \in 0..n,
         NEW x \in PageNode(n), IsChanged(c, d, a, x), d.buckets \in [0..B -> Ref(n)]
  PROVE  /\ IsPool(d, n, B)
         /\ PageOf(d) = SetAt(PageOf(c), a, x.page_number)
         /\ DirtyAt(d) = SetAt(DirtyAt(c), a, x.dirty)
         /\ ListOf(d) = SetAt(ListOf(c), a, x.list_type)
         /\ NextOf(d) = SetAt(NextOf(c), a, x.next)
         /\ PrevOf(d) = SetAt(PrevOf(c), a, x.prev)
         /\ HashNext(d) = SetAt(HashNext(c), a, x.hash_next)
<1> a # NULL
  BY DEF NULL
<1>a. c.nodes \in [0..n -> PageNode(n)]
  BY DEF IsPool
<1>b. d.nodes \in [0..n -> PageNode(n)] /\ \A b \in 0..n : d.nodes[b] = IF b = a THEN x ELSE c.nodes[b]
  BY <1>a DEF IsChanged
<1>c. DOMAIN c.nodes = 0..n /\ DOMAIN d.nodes = 0..n
  BY <1>a, <1>b
<1>1. IsPool(d, n, B)
  BY <1>b DEF IsPool
<1>2. \A b \in 0..n :
        /\ PageOf(d)[b] = IF b = a THEN x.page_number ELSE PageOf(c)[b]
        /\ DirtyAt(d)[b] = IF b = a THEN x.dirty ELSE DirtyAt(c)[b]
        /\ ListOf(d)[b] = IF b = a THEN x.list_type ELSE ListOf(c)[b]
        /\ NextOf(d)[b] = IF b = a THEN x.next ELSE NextOf(c)[b]
        /\ PrevOf(d)[b] = IF b = a THEN x.prev ELSE PrevOf(c)[b]
        /\ HashNext(d)[b] = IF b = a THEN x.hash_next ELSE HashNext(c)[b]
  BY <1>b, <1>c DEF PageOf, DirtyAt, ListOf, NextOf, PrevOf, HashNext
<1>3. /\ PageOf(d) \in [0..n -> Nat] /\ DirtyAt(d) \in [0..n -> BOOLEAN]
      /\ ListOf(d) \in [0..n -> {"NONE", "WORKING", "CLEAN", "DIRTY"}]
      /\ NextOf(d) \in [0..n -> Ref(n)] /\ PrevOf(d) \in [0..n -> Ref(n)]
      /\ HashNext(d) \in [0..n -> Ref(n)]
  BY <1>1, PoolFields
<1>4. /\ PageOf(c) \in [0..n -> Nat] /\ DirtyAt(c) \in [0..n -> BOOLEAN]
      /\ ListOf(c) \in [0..n -> {"NONE", "WORKING", "CLEAN", "DIRTY"}]
      /\ NextOf(c) \in [0..n -> Ref(n)] /\ PrevOf(c) \in [0..n -> Ref(n)]
      /\ HashNext(c) \in [0..n -> Ref(n)]
  BY PoolFields
<1>5. PageOf(d) = SetAt(PageOf(c), a, x.page_number)
  BY <1>2, <1>3, <1>4 DEF SetAt
<1>6. DirtyAt(d) = SetAt(DirtyAt(c), a, x.dirty)
  BY <1>2, <1>3, <1>4 DEF SetAt
<1>7. ListOf(d) = SetAt(ListOf(c), a, x.list_type)
  BY <1>2, <1>3, <1>4 DEF SetAt
<1>8. NextOf(d) = SetAt(NextOf(c), a, x.next)
  BY <1>2, <1>3, <1>4 DEF SetAt
<1>9. PrevOf(d) = SetAt(PrevOf(c), a, x.prev)
  BY <1>2, <1>3, <1>4 DEF SetAt
<1>10. HashNext(d) = SetAt(HashNext(c), a, x.hash_next)
  BY <1>2, <1>3, <1>4 DEF SetAt
<1> QED BY <1>1, <1>5, <1>6, <1>7, <1>8, <1>9, <1>10

LEMMA NodeFields ==
  ASSUME NEW n \in Nat, NEW B \in Nat, NEW c \in Caches(n, B), NEW a \in 0..n
  PROVE  /\ c.nodes[a] \in PageNode(n)
         /\ PageOf(c)[a] = c.nodes[a].page_number /\ DirtyAt(c)[a] = c.nodes[a].dirty
         /\ ListOf(c)[a] = c.nodes[a].list_type /\ HashNext(c)[a] = c.nodes[a].hash_next
         /\ NextOf(c)[a] = c.nodes[a].next /\ PrevOf(c)[a] = c.nodes[a].prev
<1>1. IsPool(c, n, B)
  BY PoolOf
<1> QED BY <1>1, PoolFields

WithNode(c, a, x) == [c EXCEPT !.nodes = [@ EXCEPT ![a] = x]]

LEMMA WithNodeIs ==
  ASSUME NEW n \in Nat, NEW B \in Nat, NEW c \in Caches(n, B), NEW d, NEW a \in 0..n,
         NEW x \in PageNode(n), d = WithNode(c, a, x)
  PROVE  /\ SameRest(c, d) /\ d \in Caches(n, B) /\ d.buckets = c.buckets
         /\ PageOf(d) = SetAt(PageOf(c), a, x.page_number)
         /\ DirtyAt(d) = SetAt(DirtyAt(c), a, x.dirty)
         /\ ListOf(d) = SetAt(ListOf(c), a, x.list_type)
         /\ NextOf(d) = SetAt(NextOf(c), a, x.next)
         /\ PrevOf(d) = SetAt(PrevOf(c), a, x.prev)
         /\ HashNext(d) = SetAt(HashNext(c), a, x.hash_next)
<1>1. IsPool(c, n, B)
  BY PoolOf
<1>2. d.nodes = [c.nodes EXCEPT ![a] = x] /\ d.buckets = c.buckets
      /\ d = [c EXCEPT !.nodes = d.nodes, !.buckets = d.buckets]
  <2>1. CASE c \in LRUCaches(n, B)
    BY <2>1 DEF LRUCaches, WithNode
  <2>2. CASE c \in CFLRUCaches(n, B)
    BY <2>2 DEF CFLRUCaches, WithNode
  <2> QED BY <2>1, <2>2 DEF Caches
<1>3. IsChanged(c, d, a, x) /\ d.buckets \in [0..B -> Ref(n)]
  BY <1>1, <1>2 DEF IsChanged, IsPool
<1>4. /\ IsPool(d, n, B)
      /\ PageOf(d) = SetAt(PageOf(c), a, x.page_number)
      /\ DirtyAt(d) = SetAt(DirtyAt(c), a, x.dirty)
      /\ ListOf(d) = SetAt(ListOf(c), a, x.list_type)
      /\ NextOf(d) = SetAt(NextOf(c), a, x.next)
      /\ PrevOf(d) = SetAt(PrevOf(c), a, x.prev)
      /\ HashNext(d) = SetAt(HashNext(c), a, x.hash_next)
  BY <1>1, <1>3, ChangedAs
<1>5. SameRest(c, d)
  BY <1>2 DEF SameRest
<1>6. d \in Caches(n, B)
  BY <1>4, <1>5, SameRestFields DEF Caches
<1> QED BY <1>2, <1>4, <1>5, <1>6

\* A change of a node that leaves its page and its chain.
LEMMA KeptAs ==
  ASSUME NEW n \in Nat, NEW B \in Nat, NEW c \in Caches(n, B), NEW d, NEW a \in 0..n,
         NEW x \in PageNode(n), d = WithNode(c, a, x),
         x.page_number = c.nodes[a].page_number, x.hash_next = c.nodes[a].hash_next
  PROVE  /\ SameRest(c, d) /\ d \in Caches(n, B) /\ SamePages(c, d)
         /\ DirtyAt(d) = SetAt(DirtyAt(c), a, x.dirty)
         /\ ListOf(d) = SetAt(ListOf(c), a, x.list_type)
         /\ NextOf(d) = SetAt(NextOf(c), a, x.next)
         /\ PrevOf(d) = SetAt(PrevOf(c), a, x.prev)
<1>1. IsPool(c, n, B)
  BY PoolOf
<1>2. /\ SameRest(c, d) /\ d \in Caches(n, B) /\ d.buckets = c.buckets
      /\ PageOf(d) = SetAt(PageOf(c), a, x.page_number)
      /\ DirtyAt(d) = SetAt(DirtyAt(c), a, x.dirty)
      /\ ListOf(d) = SetAt(ListOf(c), a, x.list_type)
      /\ NextOf(d) = SetAt(NextOf(c), a, x.next)
      /\ PrevOf(d) = SetAt(PrevOf(c), a, x.prev)
      /\ HashNext(d) = SetAt(HashNext(c), a, x.hash_next)
  BY WithNodeIs
<1>3. PageOf(d) = PageOf(c) /\ HashNext(d) = HashNext(c)
  <2>1. PageOf(c)[a] = x.page_number /\ HashNext(c)[a] = x.hash_next
    BY NodeFields
  <2>2. PageOf(c) \in [0..n -> Nat] /\ HashNext(c) \in [0..n -> Ref(n)]
    BY <1>1, PoolFields
  <2> QED BY <1>2, <2>1, <2>2 DEF SetAt
<1> QED BY <1>2, <1>3 DEF SamePages

LEMMA SetNextIs ==
  ASSUME NEW n \in Nat, NEW B \in Nat, NEW c \in Caches(n, B), NEW a \in Ref(n), NEW v \in Ref(n),
         NEW d, d = SetNext(c, a, v)
  PROVE  /\ SameRest(c, d) /\ d \in Caches(n, B) /\ SamePages(c, d)
         /\ DirtyAt(d) = DirtyAt(c) /\ ListOf(d) = ListOf(c) /\ PrevOf(d) = PrevOf(c)
         /\ NextOf(d) = SetAt(NextOf(c), a, v)
<1>1. CASE a = NULL
  <2>1. d = c
    BY <1>1 DEF SetNext
  <2>2. c = [c EXCEPT !.nodes = c.nodes, !.buckets = c.buckets]
    BY DEF Caches, LRUCaches, CFLRUCaches
  <2> QED BY <1>1, <2>1, <2>2 DEF SameRest, SamePages, SetAt
<1>2. CASE a # NULL
  <2> DEFINE x == [c.nodes[a] EXCEPT !.next = v]
  <2>1. a \in 0..n
    BY <1>2 DEF Ref
  <2>2. IsPool(c, n, B)
    BY PoolOf
  <2>3. /\ c.nodes[a] \in PageNode(n) /\ DirtyAt(c)[a] = c.nodes[a].dirty
        /\ ListOf(c)[a] = c.nodes[a].list_type /\ PrevOf(c)[a] = c.nodes[a].prev
    BY <2>1, NodeFields
  <2>4. x \in PageNode(n)
    BY <2>3, NodeChanges
  <2>5. /\ x.page_number = c.nodes[a].page_number /\ x.hash_next = c.nodes[a].hash_next
        /\ x.dirty = c.nodes[a].dirty /\ x.list_type = c.nodes[a].list_type
        /\ x.prev = c.nodes[a].prev /\ x.next = v
    BY <2>3 DEF PageNode
  <2>6. d = WithNode(c, a, x)
    BY <1>2 DEF SetNext, WithNode
  <2> HIDE DEF x
  <2>7. /\ SameRest(c, d) /\ d \in Caches(n, B) /\ SamePages(c, d)
        /\ DirtyAt(d) = SetAt(DirtyAt(c), a, x.dirty)
        /\ ListOf(d) = SetAt(ListOf(c), a, x.list_type)
        /\ NextOf(d) = SetAt(NextOf(c), a, x.next)
        /\ PrevOf(d) = SetAt(PrevOf(c), a, x.prev)
    BY <2>1, <2>4, <2>5, <2>6, KeptAs
  <2>8. /\ DirtyAt(c) \in [0..n -> BOOLEAN] /\ PrevOf(c) \in [0..n -> Ref(n)]
        /\ ListOf(c) \in [0..n -> {"NONE", "WORKING", "CLEAN", "DIRTY"}]
    BY <2>2, PoolFields
  <2> QED BY <1>2, <2>1, <2>3, <2>5, <2>7, <2>8 DEF SetAt
<1> QED BY <1>1, <1>2

LEMMA SetPrevIs ==
  ASSUME NEW n \in Nat, NEW B \in Nat, NEW c \in Caches(n, B), NEW a \in Ref(n), NEW v \in Ref(n),
         NEW d, d = SetPrev(c, a, v)
  PROVE  /\ SameRest(c, d) /\ d \in Caches(n, B) /\ SamePages(c, d)
         /\ DirtyAt(d) = DirtyAt(c) /\ ListOf(d) = ListOf(c) /\ NextOf(d) = NextOf(c)
         /\ PrevOf(d) = SetAt(PrevOf(c), a, v)
<1>1. CASE a = NULL
  <2>1. d = c
    BY <1>1 DEF SetPrev
  <2>2. c = [c EXCEPT !.nodes = c.nodes, !.buckets = c.buckets]
    BY DEF Caches, LRUCaches, CFLRUCaches
  <2> QED BY <1>1, <2>1, <2>2 DEF SameRest, SamePages, SetAt
<1>2. CASE a # NULL
  <2> DEFINE x == [c.nodes[a] EXCEPT !.prev = v]
  <2>1. a \in 0..n
    BY <1>2 DEF Ref
  <2>2. IsPool(c, n, B)
    BY PoolOf
  <2>3. /\ c.nodes[a] \in PageNode(n) /\ DirtyAt(c)[a] = c.nodes[a].dirty
        /\ ListOf(c)[a] = c.nodes[a].list_type /\ NextOf(c)[a] = c.nodes[a].next
    BY <2>1, NodeFields
  <2>4. x \in PageNode(n)
    BY <2>3, NodeChanges
  <2>5. /\ x.page_number = c.nodes[a].page_number /\ x.hash_next = c.nodes[a].hash_next
        /\ x.dirty = c.nodes[a].dirty /\ x.list_type = c.nodes[a].list_type
        /\ x.next = c.nodes[a].next /\ x.prev = v
    BY <2>3 DEF PageNode
  <2>6. d = WithNode(c, a, x)
    BY <1>2 DEF SetPrev, WithNode
  <2> HIDE DEF x
  <2>7. /\ SameRest(c, d) /\ d \in Caches(n, B) /\ SamePages(c, d)
        /\ DirtyAt(d) = SetAt(DirtyAt(c), a, x.dirty)
        /\ ListOf(d) = SetAt(ListOf(c), a, x.list_type)
        /\ NextOf(d) = SetAt(NextOf(c), a, x.next)
        /\ PrevOf(d) = SetAt(PrevOf(c), a, x.prev)
    BY <2>1, <2>4, <2>5, <2>6, KeptAs
  <2>8. /\ DirtyAt(c) \in [0..n -> BOOLEAN] /\ NextOf(c) \in [0..n -> Ref(n)]
        /\ ListOf(c) \in [0..n -> {"NONE", "WORKING", "CLEAN", "DIRTY"}]
    BY <2>2, PoolFields
  <2> QED BY <1>2, <2>1, <2>3, <2>5, <2>7, <2>8 DEF SetAt
<1> QED BY <1>1, <1>2

LEMMA InitializeIs ==
  ASSUME NEW n \in Nat, NEW B \in Nat, NEW c \in Caches(n, B), NEW d, NEW a \in 0..n,
         NEW page \in Nat, NEW dirty \in BOOLEAN, d = Initialize(c, a, page, dirty)
  PROVE  /\ SameRest(c, d) /\ d \in Caches(n, B) /\ d.buckets = c.buckets
         /\ PageOf(d) = SetAt(PageOf(c), a, page)
         /\ DirtyAt(d) = SetAt(DirtyAt(c), a, dirty)
         /\ ListOf(d) = ListOf(c)
         /\ NextOf(d) = SetAt(NextOf(c), a, NULL)
         /\ PrevOf(d) = SetAt(PrevOf(c), a, NULL)
         /\ HashNext(d) = SetAt(HashNext(c), a, NULL)
<1> DEFINE x == [NoPage EXCEPT !.page_number = page, !.dirty = dirty,
                                !.list_type = c.nodes[a].list_type]
<1>1. c.nodes[a] \in PageNode(n) /\ ListOf(c)[a] = c.nodes[a].list_type
  BY NodeFields
<1>2. c.nodes[a].list_type \in {"NONE", "WORKING", "CLEAN", "DIRTY"}
  BY <1>1 DEF PageNode
<1>3. /\ x \in PageNode(n)
      /\ x.page_number = page /\ x.dirty = dirty /\ x.list_type = c.nodes[a].list_type
      /\ x.next = NULL /\ x.prev = NULL /\ x.hash_next = NULL
  BY <1>2 DEF NoPage, PageNode, Ref
<1>4. d = WithNode(c, a, x)
  BY DEF Initialize, WithNode
<1> HIDE DEF x
<1>5. /\ SameRest(c, d) /\ d \in Caches(n, B) /\ d.buckets = c.buckets
      /\ PageOf(d) = SetAt(PageOf(c), a, x.page_number)
      /\ DirtyAt(d) = SetAt(DirtyAt(c), a, x.dirty)
      /\ ListOf(d) = SetAt(ListOf(c), a, x.list_type)
      /\ NextOf(d) = SetAt(NextOf(c), a, x.next)
      /\ PrevOf(d) = SetAt(PrevOf(c), a, x.prev)
      /\ HashNext(d) = SetAt(HashNext(c), a, x.hash_next)
  <2>1. x \in PageNode(n)
    BY <1>3
  <2> QED BY <1>4, <2>1, WithNodeIs
<1>6. ListOf(c) \in [0..n -> {"NONE", "WORKING", "CLEAN", "DIRTY"}]
  BY PoolOf, PoolFields
<1>7. SetAt(ListOf(c), a, x.list_type) = ListOf(c)
  BY <1>1, <1>3, <1>6 DEF SetAt
<1> QED BY <1>3, <1>5, <1>7

LEMMA PutIs ==
  ASSUME NEW n \in Nat, NEW B \in Nat, NEW c, NEW U, NEW h, NEW h2, NEW a, NEW d,
         c \in Caches(n, B), Table(c, n, B, U, h), a \in Ref(n), a # NULL, a \notin U,
         Ahead(0..n, U, h, h2, a), d = put(c, a),
         \A b \in U : PageOf(c)[b] # PageOf(c)[a]
  PROVE  /\ SameRest(c, d) /\ d \in Caches(n, B)
         /\ PageOf(d) = PageOf(c) /\ DirtyAt(d) = DirtyAt(c) /\ ListOf(d) = ListOf(c)
         /\ NextOf(d) = NextOf(c) /\ PrevOf(d) = PrevOf(c)
         /\ Table(d, n, B, Adding(U, a), h2)
         /\ Loose(c, n, Adding(U, a)) => Loose(d, n, Adding(U, a))
<1> DEFINE page == c.nodes[a].page_number
           b    == Hash(B, page)
           x    == [c.nodes[a] EXCEPT !.hash_next = c.buckets[b]]
           e    == WithNode(c, a, x)
           K    == [c.buckets EXCEPT ![b] = a]
<1>a. a \in 0..n /\ h2 \in [0..n -> Int] /\ \A g \in U : h2[g] = h[g] /\ h2[a] < h[g]
  BY DEF Ref, Ahead
<1>1. IsPool(c, n, B)
  BY PoolOf
<1>2. c.nodes[a] \in PageNode(n) /\ page = PageOf(c)[a]
  BY <1>a, NodeFields
<1>3. page \in Nat
  BY <1>2 DEF PageNode
<1>4. hash_func(c, page) = b /\ b \in 0..B
  BY <1>1, <1>3, HashIs
<1>5. c.buckets \in [0..B -> Ref(n)] /\ c.buckets[b] \in Ref(n) /\ a \in Ref(n)
  BY <1>1, <1>4 DEF IsPool, Ref
<1>6. K \in [0..B -> Ref(n)] /\ K[b] = a /\ \A b2 \in 0..B : b2 # b => K[b2] = c.buckets[b2]
  BY <1>4, <1>5
<1>7. d = [c EXCEPT !.nodes = [@ EXCEPT ![a] = x], !.buckets = K]
  BY <1>4 DEF put
<1>8. /\ x \in PageNode(n) /\ x.hash_next = c.buckets[b]
      /\ x.page_number = c.nodes[a].page_number /\ x.dirty = c.nodes[a].dirty
      /\ x.list_type = c.nodes[a].list_type /\ x.next = c.nodes[a].next /\ x.prev = c.nodes[a].prev
  BY <1>2, <1>5 DEF PageNode
<1> HIDE DEF x, b, K
<1>9. d.nodes = [c.nodes EXCEPT ![a] = x] /\ d.buckets = K
      /\ d = [c EXCEPT !.nodes = d.nodes, !.buckets = d.buckets]
  <2>1. CASE c \in LRUCaches(n, B)
    BY <1>7, <2>1 DEF LRUCaches
  <2>2. CASE c \in CFLRUCaches(n, B)
    BY <1>7, <2>2 DEF CFLRUCaches
  <2> QED BY <2>1, <2>2 DEF Caches
<1>10. IsChanged(c, d, a, x) /\ d.buckets \in [0..B -> Ref(n)]
  BY <1>6, <1>9 DEF IsChanged
<1>11. /\ IsPool(d, n, B)
       /\ PageOf(d) = SetAt(PageOf(c), a, x.page_number)
       /\ DirtyAt(d) = SetAt(DirtyAt(c), a, x.dirty)
       /\ ListOf(d) = SetAt(ListOf(c), a, x.list_type)
       /\ NextOf(d) = SetAt(NextOf(c), a, x.next)
       /\ PrevOf(d) = SetAt(PrevOf(c), a, x.prev)
       /\ HashNext(d) = SetAt(HashNext(c), a, x.hash_next)
  <2>1. x \in PageNode(n)
    BY <1>8
  <2>2. IsPool(c, n, B) /\ a \in 0..n
    BY <1>a, <1>1
  <2> QED BY <1>10, <2>1, <2>2, ChangedAs
<1>12. SameRest(c, d)
  BY <1>9 DEF SameRest
<1>13. d \in Caches(n, B)
  BY <1>11, <1>12, SameRestFields DEF Caches
<1>14. /\ PageOf(c)[a] = c.nodes[a].page_number /\ DirtyAt(c)[a] = c.nodes[a].dirty
       /\ ListOf(c)[a] = c.nodes[a].list_type
       /\ NextOf(c)[a] = c.nodes[a].next /\ PrevOf(c)[a] = c.nodes[a].prev
  BY <1>a, NodeFields
<1>15. /\ PageOf(c) \in [0..n -> Nat] /\ DirtyAt(c) \in [0..n -> BOOLEAN]
       /\ ListOf(c) \in [0..n -> {"NONE", "WORKING", "CLEAN", "DIRTY"}]
       /\ NextOf(c) \in [0..n -> Ref(n)] /\ PrevOf(c) \in [0..n -> Ref(n)]
       /\ HashNext(c) \in [0..n -> Ref(n)]
  BY <1>1, PoolFields
<1>16. /\ PageOf(d) = PageOf(c) /\ ListOf(d) = ListOf(c)
       /\ NextOf(d) = NextOf(c) /\ PrevOf(d) = PrevOf(c)
  BY <1>8, <1>11, <1>14, <1>15 DEF SetAt
<1>17. DirtyAt(d) = DirtyAt(c)
  BY <1>8, <1>11, <1>14, <1>15 DEF SetAt
<1>18. \A g \in 0..n : HashNext(d)[g] = IF g = a THEN c.buckets[b] ELSE HashNext(c)[g]
  BY <1>8, <1>11, <1>15 DEF SetAt, NULL
<1>19. Table(d, n, B, U \cup {a}, h2)
  <2>1. U \subseteq 0..n /\ NULL \notin 0..n /\ \A g \in U : h[g] \in Int
    BY DEF Table, Ranked
  <2>2. Ranked(0..n, U \cup {a}, h2)
    <3>1. \A g \in U : h2[g] # h2[a]
      <4> SUFFICES ASSUME NEW g \in U PROVE h2[g] # h2[a]
        OBVIOUS
      <4>1. h2[a] < h[g] /\ h2[g] = h[g] /\ h[g] \in Int /\ h2[a] \in Int
        BY <1>a, <2>1
      <4> QED BY <4>1
    <3>2. \A g1, g2 \in U : h2[g1] = h2[g2] => g1 = g2
      BY <1>a DEF Table, Ranked
    <3>3. \A g1, g2 \in U \cup {a} : h2[g1] = h2[g2] => g1 = g2
      BY <3>1, <3>2
    <3> QED BY <1>a, <2>1, <3>3 DEF Ranked
  <2>3. \A g1, g2 \in U \cup {a} : PageOf(d)[g1] = PageOf(d)[g2] => g1 = g2
    BY <1>16 DEF Table
  <2>4. ASSUME NEW b2 \in 0..B
        PROVE  Linked(HashNext(d), d.buckets[b2], Bucket(d, B, U \cup {a}, b2), h2)
    <3> DEFINE M == Bucket(c, B, U, b2)
    <3>1. Linked(HashNext(c), c.buckets[b2], M, h)
      BY DEF Table
    <3>2. Ranked(0..n, M, h)
      BY BucketRanks
    <3>3. M \subseteq U
      BY DEF Bucket
    <3> HIDE DEF M
    <3>4. CASE b2 = b
      <4>1. Bucket(d, B, U \cup {a}, b2) = M \cup {a}
        BY <1>2, <1>16, <3>4 DEF Bucket, b, M
      <4>2. d.buckets[b2] = a /\ HashNext(d)[a] = c.buckets[b2]
        BY <1>a, <1>6, <1>9, <1>18, <3>4
      <4>3. \A g \in M :
              HashNext(d)[g] = HashNext(c)[g] /\ h2[g] = h[g] /\ h2[a] < h[g]
        BY <1>a, <1>18, <2>1, <3>3
      <4>4. h2[a] \in Int /\ a \notin M
        BY <1>a, <3>3
      <4>5. Linked(HashNext(d), a, M \cup {a}, h2)
        <5> DEFINE nx == HashNext(c)
                   nx2 == HashNext(d)
                   first == c.buckets[b2]
        <5>1. Linked(nx, first, M, h) /\ Ranked(0..n, M, h) /\ nx2[a] = first
          BY <3>1, <3>2, <4>2
        <5>2. \A g \in M : nx2[g] = nx[g] /\ h2[g] = h[g] /\ h2[a] < h[g]
          BY <4>3
        <5>3. a \in 0..n /\ a \notin M /\ h2[a] \in Int
          BY <1>a, <4>4
        <5> HIDE DEF nx, nx2, first
        <5>4. Linked(nx2, a, M \cup {a}, h2)
          BY <5>1, <5>2, <5>3, Pushed
        <5> QED BY <5>4 DEF nx2
      <4> QED BY <4>1, <4>2, <4>5
    <3>5. CASE b2 # b
      <4>1. Bucket(d, B, U \cup {a}, b2) = M
        BY <1>2, <1>16, <3>5 DEF Bucket, b, M
      <4>2. d.buckets[b2] = c.buckets[b2]
        BY <1>6, <1>9, <3>5
      <4>3. \A g \in M : HashNext(d)[g] = HashNext(c)[g] /\ h2[g] = h[g]
        BY <1>a, <1>18, <2>1, <3>3
      <4>4. c.buckets[b2] # NULL => c.buckets[b2] \in M
        BY <3>1 DEF Linked
      <4>5. Linked(HashNext(d), c.buckets[b2], M, h2)
        BY <3>1, <4>3, <4>4 DEF Linked
      <4> QED BY <4>1, <4>2, <4>5
    <3> QED BY <3>4, <3>5
  <2> QED BY <2>2, <2>3, <2>4 DEF Table
<1>20. Loose(c, n, U \cup {a}) => Loose(d, n, U \cup {a})
  BY <1>18 DEF Loose
<1> QED BY <1>12, <1>13, <1>16, <1>17, <1>19, <1>20 DEF Adding

LEMMA RemoveIs ==
  ASSUME NEW n \in Nat, NEW B \in Nat, NEW c \in Caches(n, B), NEW U, NEW h,
         Table(c, n, B, U, h), Loose(c, n, U), NEW a \in U, NEW d, d = remove(c, a)
  PROVE  /\ SameRest(c, d) /\ d \in Caches(n, B)
         /\ PageOf(d) = PageOf(c) /\ DirtyAt(d) = DirtyAt(c) /\ ListOf(d) = ListOf(c)
         /\ NextOf(d) = NextOf(c) /\ PrevOf(d) = PrevOf(c)
         /\ Table(d, n, B, Dropping(U, a), h) /\ Loose(d, n, U)
<1> DEFINE page  == c.nodes[a].page_number
           b     == Hash(B, page)
           M     == Bucket(c, B, U, b)
           chain == Chain(c, b)
           x(g)  == IF g \in M /\ c.nodes[g].hash_next = a
                    THEN [c.nodes[g] EXCEPT !.hash_next = c.nodes[a].hash_next] ELSE c.nodes[g]
<1>1. IsPool(c, n, B)
  BY PoolOf
<1>2. U \subseteq 0..n /\ a \in 0..n /\ NULL \notin 0..n /\ \A g \in U : h[g] \in Int
  BY DEF Table, Ranked
<1>3. c.nodes[a] \in PageNode(n) /\ page = PageOf(c)[a] /\ HashNext(c)[a] = c.nodes[a].hash_next
  BY <1>2, NodeFields
<1>4. page \in Nat /\ c.nodes[a].hash_next \in Ref(n)
  BY <1>3 DEF PageNode
<1>5. hash_func(c, page) = b /\ b \in 0..B
  BY <1>1, <1>4, HashIs
<1>6. Linked(HashNext(c), c.buckets[b], M, h) /\ Ranked(0..n, M, h)
  BY <1>5, BucketRanks DEF Table
<1>7. a \in M /\ M \subseteq U
  BY <1>3 DEF Bucket
<1>8. Visits(chain, M, h) /\ chain # <<>> /\ chain[1] = c.buckets[b]
  <2>1. c.buckets[b] # NULL
    BY <1>6, <1>7 DEF Linked
  <2> QED BY <1>1, <1>5, <2>1, ChainIs
<1>9. {chain[k] : k \in DOMAIN chain} = M
  BY <1>8 DEF Visits, Elements
<1>10. c.nodes \in [0..n -> PageNode(n)] /\ c.buckets \in [0..B -> Ref(n)]
  BY <1>1 DEF IsPool
<1>11. DOMAIN c.nodes = 0..n
  BY <1>10
<1> HIDE DEF chain, b, M
<1>12. d = IF c.buckets[b] = a THEN [c EXCEPT !.buckets[b] = c.nodes[a].hash_next]
           ELSE [c EXCEPT !.nodes = [g \in 0..n |-> x(g)]]
  BY <1>5, <1>8, <1>9, <1>11 DEF remove, chain
<1> DEFINE N == IF c.buckets[b] = a THEN c.nodes ELSE [g \in 0..n |-> x(g)]
           K == IF c.buckets[b] = a THEN [c.buckets EXCEPT ![b] = c.nodes[a].hash_next] ELSE c.buckets
<1>13. d = [c EXCEPT !.nodes = N, !.buckets = K]
  <2>1. CASE c \in LRUCaches(n, B)
    BY <1>12, <2>1 DEF LRUCaches
  <2>2. CASE c \in CFLRUCaches(n, B)
    BY <1>12, <2>2 DEF CFLRUCaches
  <2> QED BY <2>1, <2>2 DEF Caches
<1>14. ASSUME NEW g \in 0..n
       PROVE  /\ N[g] \in PageNode(n)
              /\ N[g].page_number = c.nodes[g].page_number /\ N[g].dirty = c.nodes[g].dirty
              /\ N[g].list_type = c.nodes[g].list_type
              /\ N[g].next = c.nodes[g].next /\ N[g].prev = c.nodes[g].prev
              /\ N[g].hash_next = IF c.buckets[b] # a /\ g \in M /\ c.nodes[g].hash_next = a
                                  THEN c.nodes[a].hash_next ELSE c.nodes[g].hash_next
  <2>1. c.nodes[g] \in PageNode(n)
    BY <1>10
  <2>2. N[g] = IF c.buckets[b] # a /\ g \in M /\ c.nodes[g].hash_next = a
               THEN [c.nodes[g] EXCEPT !.hash_next = c.nodes[a].hash_next] ELSE c.nodes[g]
    OBVIOUS
  <2> HIDE DEF N
  <2> QED BY <1>4, <2>1, <2>2 DEF PageNode
<1>15. N \in [0..n -> PageNode(n)]
  <2>1. DOMAIN N = 0..n /\ N = [g \in 0..n |-> N[g]]
    BY <1>10
  <2> HIDE DEF N
  <2> QED BY <1>14, <2>1
<1>16. /\ K \in [0..B -> Ref(n)]
       /\ K[b] = IF c.buckets[b] = a THEN c.nodes[a].hash_next ELSE c.buckets[b]
       /\ \A b2 \in 0..B : b2 # b => K[b2] = c.buckets[b2]
  BY <1>4, <1>5, <1>10
<1> HIDE DEF N, K, x
<1>17. d.nodes = N /\ d.buckets = K /\ d = [c EXCEPT !.nodes = d.nodes, !.buckets = d.buckets]
  <2>1. CASE c \in LRUCaches(n, B)
    BY <1>13, <2>1 DEF LRUCaches
  <2>2. CASE c \in CFLRUCaches(n, B)
    BY <1>13, <2>2 DEF CFLRUCaches
  <2> QED BY <2>1, <2>2 DEF Caches
<1>18. IsPool(d, n, B) /\ SameRest(c, d)
  BY <1>15, <1>16, <1>17 DEF IsPool, SameRest
<1>19. d \in Caches(n, B)
  BY <1>18, SameRestFields DEF Caches
<1>20. DOMAIN d.nodes = 0..n
  BY <1>15, <1>17
<1>21. /\ PageOf(d) = PageOf(c) /\ ListOf(d) = ListOf(c)
       /\ NextOf(d) = NextOf(c) /\ PrevOf(d) = PrevOf(c)
  BY <1>11, <1>14, <1>17, <1>20 DEF PageOf, ListOf, NextOf, PrevOf
<1>22. DirtyAt(d) = DirtyAt(c)
  BY <1>11, <1>14, <1>17, <1>20 DEF DirtyAt
<1>23. \A g \in 0..n :
         HashNext(d)[g] = IF c.buckets[b] # a /\ g \in M /\ HashNext(c)[g] = a
                          THEN HashNext(c)[a] ELSE HashNext(c)[g]
  BY <1>2, <1>11, <1>14, <1>17, <1>20 DEF HashNext
<1>24. Loose(d, n, U)
  BY <1>7, <1>23 DEF Loose
<1>25. Table(d, n, B, U \ {a}, h)
  <2>1. Ranked(0..n, U \ {a}, h) /\ \A g1, g2 \in U \ {a} : PageOf(d)[g1] = PageOf(d)[g2] => g1 = g2
    BY <1>21 DEF Table, Ranked
  <2>2. ASSUME NEW b2 \in 0..B
        PROVE  Linked(HashNext(d), d.buckets[b2], Bucket(d, B, U \ {a}, b2), h)
    <3> DEFINE M2 == Bucket(c, B, U, b2)
    <3>1. Linked(HashNext(c), c.buckets[b2], M2, h) /\ Ranked(0..n, M2, h)
      BY BucketRanks DEF Table
    <3>2. M2 \subseteq U /\ M2 \subseteq 0..n
      BY <1>2 DEF Bucket
    <3>3. CASE b2 = b
      <4>1. M2 = M /\ Bucket(d, B, U \ {a}, b2) = M2 \ {a}
        BY <1>21, <3>3 DEF Bucket, M
      <4> HIDE DEF M2
      <4>2. d.buckets[b2] = IF c.buckets[b2] = a THEN HashNext(c)[a] ELSE c.buckets[b2]
        BY <1>3, <1>16, <1>17, <3>3
      <4>3. c.buckets[b2] = a => \A g \in M2 : HashNext(c)[g] # a
        <5> SUFFICES ASSUME c.buckets[b2] = a, NEW g \in M2, HashNext(c)[g] = a PROVE FALSE
          OBVIOUS
        <5>1. h[a] <= h[g] /\ h[g] < h[a]
          BY <1>2, <3>1, <3>2 DEF Linked
        <5>2. h[a] \in Int /\ h[g] \in Int
          BY <1>2, <3>2
        <5> QED BY <5>1, <5>2
      <4>4. \A g \in M2 \ {a} :
              HashNext(d)[g] = IF HashNext(c)[g] = a THEN HashNext(c)[a] ELSE HashNext(c)[g]
        BY <1>23, <3>2, <3>3, <4>1, <4>3
      <4>5. a \in M2
        BY <1>7, <4>1
      <4>6. Linked(HashNext(d), d.buckets[b2], M2 \ {a}, h)
        <5> DEFINE nx == HashNext(c)
                   nx2 == HashNext(d)
                   first == c.buckets[b2]
                   first2 == d.buckets[b2]
        <5>1. Linked(nx, first, M2, h) /\ Ranked(0..n, M2, h) /\ a \in M2
          BY <3>1, <4>5
        <5>2. first2 = IF first = a THEN nx[a] ELSE first
          BY <4>2
        <5>3. \A g \in M2 \ {a} : nx2[g] = IF nx[g] = a THEN nx[a] ELSE nx[g]
          BY <4>4
        <5> HIDE DEF nx, nx2, first, first2
        <5>4. Linked(nx2, first2, M2 \ {a}, h)
          BY <5>1, <5>2, <5>3, Unlinked, ZenonT(30)
        <5> QED BY <5>4 DEF nx2, first2
      <4> QED BY <4>1, <4>6
    <3>4. CASE b2 # b
      <4>1. a \notin M2 /\ M \cap M2 = {} /\ Bucket(d, B, U \ {a}, b2) = M2
        BY <1>3, <1>21, <3>4 DEF Bucket, M, b
      <4> HIDE DEF M2
      <4>2. d.buckets[b2] = c.buckets[b2]
        BY <1>16, <1>17, <3>4
      <4>3. \A g \in M2 : HashNext(d)[g] = HashNext(c)[g]
        BY <1>23, <3>2, <4>1
      <4>4. Linked(HashNext(d), d.buckets[b2], M2, h)
        BY <3>1, <4>2, <4>3 DEF Linked
      <4> QED BY <4>1, <4>4
    <3> QED BY <3>3, <3>4
  <2> QED BY <2>1, <2>2 DEF Table
<1> QED BY <1>18, <1>19, <1>21, <1>22, <1>24, <1>25 DEF Dropping

LEMMA SameNodes ==
  ASSUME NEW c, NEW d, d.nodes = c.nodes, d.buckets = c.buckets
  PROVE  /\ SamePages(c, d) /\ DirtyAt(d) = DirtyAt(c) /\ ListOf(d) = ListOf(c)
         /\ NextOf(d) = NextOf(c) /\ PrevOf(d) = PrevOf(c)
BY DEF SamePages, PageOf, HashNext, DirtyAt, ListOf, NextOf, PrevOf

\* Another rank that orders the nodes in the same way.
LEMMA SameOrder ==
  ASSUME NEW D, NEW M, NEW r, NEW nx, NEW pv, NEW hd, NEW tl, Ranked(D, M, r),
         Both(nx, pv, hd, tl, M, r), NEW r2 \in [D -> Int],
         \A a, b \in M : r2[a] <= r2[b] <=> r[a] <= r[b]
  PROVE  Both(nx, pv, hd, tl, M, r2) /\ Ranked(D, M, r2)
<1>1. /\ M \subseteq D /\ NULL \notin D
      /\ \A b \in M : r[b] \in Int /\ r2[b] \in Int /\ b # NULL
  BY DEF Ranked
<1>2. Ranked(D, M, Reversed(r)) /\ Linked(nx, hd, M, r) /\ Linked(pv, tl, M, Reversed(r))
  BY ReversedRanks DEF Both
<1>3. \A b \in M : Reversed(r)[b] = -r[b] /\ Reversed(r2)[b] = -r2[b]
  BY <1>1 DEF Reversed, Ranked
<1>4. \A a, b \in M : r2[a] < r2[b] <=> r[a] < r[b]
  <2> SUFFICES ASSUME NEW a \in M, NEW b \in M PROVE r2[a] < r2[b] <=> r[a] < r[b]
    OBVIOUS
  <2>1. r2[b] <= r2[a] <=> r[b] <= r[a]
    OBVIOUS
  <2>2. r[a] \in Int /\ r[b] \in Int /\ r2[a] \in Int /\ r2[b] \in Int
    BY <1>1
  <2> QED BY <2>1, <2>2
<1>5. Ranked(D, M, r2)
  <2>1. ASSUME NEW a \in M, NEW b \in M, r2[a] = r2[b] PROVE a = b
    <3>1. r[a] <= r[b] /\ r[b] <= r[a] /\ r[a] \in Int /\ r[b] \in Int
      BY <1>1, <2>1
    <3>2. r[a] = r[b]
      BY <3>1
    <3> QED BY <3>2 DEF Ranked
  <2> QED BY <1>1, <2>1 DEF Ranked
<1>6. Linked(nx, hd, M, r2)
  <2>1. \A a \in M : nx[a] # NULL => nx[a] \in M
    BY <1>2 DEF Linked
  <2>2. hd # NULL => hd \in M
    BY <1>2 DEF Linked
  <2> QED BY <1>2, <1>4, <2>1, <2>2 DEF Linked
<1> HIDE DEF Reversed
<1>7. \A a, b \in M : /\ Reversed(r2)[a] <= Reversed(r2)[b] <=> Reversed(r)[a] <= Reversed(r)[b]
                      /\ Reversed(r2)[a] < Reversed(r2)[b] <=> Reversed(r)[a] < Reversed(r)[b]
  <2> SUFFICES ASSUME NEW a \in M, NEW b \in M
               PROVE  /\ Reversed(r2)[a] <= Reversed(r2)[b] <=> Reversed(r)[a] <= Reversed(r)[b]
                      /\ Reversed(r2)[a] < Reversed(r2)[b] <=> Reversed(r)[a] < Reversed(r)[b]
    OBVIOUS
  <2>1. (r2[b] <= r2[a] <=> r[b] <= r[a]) /\ (r2[b] < r2[a] <=> r[b] < r[a])
    BY <1>4
  <2>2. /\ Reversed(r2)[a] = -r2[a] /\ Reversed(r2)[b] = -r2[b]
        /\ Reversed(r)[a] = -r[a] /\ Reversed(r)[b] = -r[b]
    BY <1>3
  <2>3. r[a] \in Int /\ r[b] \in Int /\ r2[a] \in Int /\ r2[b] \in Int
    BY <1>1
  <2> QED BY <2>1, <2>2, <2>3
<1>8. Linked(pv, tl, M, Reversed(r2))
  <2>1. \A a \in M : pv[a] # NULL => pv[a] \in M
    BY <1>2 DEF Linked
  <2>2. tl # NULL => tl \in M
    BY <1>2 DEF Linked
  <2> QED BY <1>2, <1>7, <2>1, <2>2 DEF Linked
<1> QED BY <1>5, <1>6, <1>8 DEF Both

---------------------------------------------------------------------------
(* The LRU cache: what its operations do to its list.                      *)

LRUCounts(c, d) ==
  /\ d.free_list = c.free_list /\ d.hit = c.hit /\ d.miss = c.miss
  /\ d.write_back = c.write_back

LEMMA ToMRUIs ==
  ASSUME NEW n \in Nat, NEW B \in Nat, NEW c \in LRUCaches(n, B), NEW a \in Ref(n),
         a # NULL, NEW d, d = ToMRU(c, a)
  PROVE  /\ d \in LRUCaches(n, B) /\ LRUCounts(c, d) /\ d.head = a /\ d.tail = c.tail
         /\ SamePages(c, d) /\ DirtyAt(d) = DirtyAt(c)
         /\ NextOf(d) = SetAt(NextOf(c), a, c.head)
         /\ PrevOf(d) = SetAt(SetAt(PrevOf(c), c.head, a), a, NULL)
<1> DEFINE e == SetPrev(c, c.head, a)
           x == [e.nodes[a] EXCEPT !.next = c.head, !.prev = NULL]
           g == WithNode(e, a, x)
<1>1. c \in Caches(n, B) /\ c.head \in Ref(n)
  BY DEF Caches, LRUCaches
<1>a. a \in 0..n
  BY DEF Ref
<1>2. /\ SameRest(c, e) /\ e \in Caches(n, B) /\ SamePages(c, e)
      /\ DirtyAt(e) = DirtyAt(c) /\ ListOf(e) = ListOf(c) /\ NextOf(e) = NextOf(c)
      /\ PrevOf(e) = SetAt(PrevOf(c), c.head, a)
  <2>1. e = SetPrev(c, c.head, a)
    OBVIOUS
  <2> HIDE DEF e
  <2> QED BY <1>1, <2>1, SetPrevIs
<1>3. IsPool(e, n, B)
  BY <1>2, PoolOf
<1>4. /\ e \in LRUCaches(n, B) /\ e.free_list = c.free_list /\ e.head = c.head
      /\ e.tail = c.tail /\ e.hit = c.hit /\ e.miss = c.miss /\ e.write_back = c.write_back
  BY <1>2, <1>3, SameRestFields
<1> HIDE DEF e
<1>5. /\ e.nodes[a] \in PageNode(n) /\ DirtyAt(e)[a] = e.nodes[a].dirty
      /\ ListOf(e)[a] = e.nodes[a].list_type
  BY <1>a, <1>2, NodeFields
<1>6. x \in PageNode(n)
  BY <1>1, <1>5, NodeChanges
<1>7. /\ x.page_number = e.nodes[a].page_number /\ x.hash_next = e.nodes[a].hash_next
      /\ x.dirty = e.nodes[a].dirty /\ x.list_type = e.nodes[a].list_type
      /\ x.next = c.head /\ x.prev = NULL
  BY <1>5 DEF PageNode
<1>8. d = [g EXCEPT !.head = a]
  <2>1. g = [e EXCEPT !.nodes[a].next = c.head, !.nodes[a].prev = NULL]
    <3>1. e.nodes \in [0..n -> PageNode(n)]
      BY <1>4 DEF LRUCaches
    <3>2. [e.nodes EXCEPT ![a] = x]
            = [[e.nodes EXCEPT ![a].next = c.head] EXCEPT ![a].prev = NULL]
      BY <1>a, <3>1
    <3> QED BY <1>4, <3>2 DEF WithNode, LRUCaches
  <2> QED BY <2>1 DEF ToMRU, e
<1> HIDE DEF x, g
<1>9. /\ SameRest(e, g) /\ g \in Caches(n, B) /\ SamePages(e, g)
      /\ DirtyAt(g) = SetAt(DirtyAt(e), a, x.dirty)
      /\ ListOf(g) = SetAt(ListOf(e), a, x.list_type)
      /\ NextOf(g) = SetAt(NextOf(e), a, x.next)
      /\ PrevOf(g) = SetAt(PrevOf(e), a, x.prev)
  <2>1. g = WithNode(e, a, x)
    BY DEF g
  <2> QED BY <1>a, <1>2, <1>6, <1>7, <2>1, KeptAs
<1>10. IsPool(g, n, B)
  BY <1>9, PoolOf
<1>11. /\ g \in LRUCaches(n, B) /\ g.free_list = e.free_list /\ g.head = e.head
       /\ g.tail = e.tail /\ g.hit = e.hit /\ g.miss = e.miss /\ g.write_back = e.write_back
  BY <1>4, <1>9, <1>10, SameRestFields
<1>12. /\ d \in LRUCaches(n, B) /\ d.nodes = g.nodes /\ d.buckets = g.buckets /\ d.head = a
       /\ d.tail = g.tail /\ LRUCounts(g, d)
  BY <1>1, <1>8, <1>11 DEF LRUCaches, LRUCounts
<1>13. /\ SamePages(g, d) /\ DirtyAt(d) = DirtyAt(g)
       /\ NextOf(d) = NextOf(g) /\ PrevOf(d) = PrevOf(g)
  BY <1>12, SameNodes
<1>14. DirtyAt(g) = DirtyAt(e)
  <2>1. DirtyAt(e) \in [0..n -> BOOLEAN]
    BY <1>3, PoolFields
  <2> QED BY <1>a, <1>5, <1>7, <1>9, <2>1 DEF SetAt
<1>15. SamePages(c, d)
  BY <1>2, <1>9, <1>13 DEF SamePages
<1>16. LRUCounts(c, d) /\ d.tail = c.tail
  BY <1>4, <1>11, <1>12 DEF LRUCounts
<1> QED BY <1>2, <1>7, <1>9, <1>12, <1>13, <1>14, <1>15, <1>16

\* The node is counted as hit, and dirty after a write.
Counted(c, a, is_write) == [c EXCEPT !.hit = @ + 1, !.nodes[a].dirty = @ \/ is_write]

\* Nothing but nodes and the count is different.
HitOnly(c, d) == d = [c EXCEPT !.nodes = d.nodes, !.hit = c.hit + 1]

LEMMA CountedIs ==
  ASSUME NEW n \in Nat, NEW B \in Nat, NEW c, NEW a, NEW is_write, NEW d,
         c \in Caches(n, B), a \in Ref(n), a # NULL, is_write \in BOOLEAN,
         d = Counted(c, a, is_write)
  PROVE  /\ HitOnly(c, d) /\ d \in Caches(n, B) /\ SamePages(c, d)
         /\ DirtyAt(d) = SetAt(DirtyAt(c), a, DirtyAt(c)[a] \/ is_write)
         /\ ListOf(d) = ListOf(c) /\ NextOf(d) = NextOf(c) /\ PrevOf(d) = PrevOf(c)
<1> DEFINE x == [c.nodes[a] EXCEPT !.dirty = c.nodes[a].dirty \/ is_write]
           e == WithNode(c, a, x)
<1>1. a \in 0..n
  BY DEF Ref
<1>2. /\ c.nodes[a] \in PageNode(n) /\ DirtyAt(c)[a] = c.nodes[a].dirty
      /\ ListOf(c)[a] = c.nodes[a].list_type
      /\ NextOf(c)[a] = c.nodes[a].next /\ PrevOf(c)[a] = c.nodes[a].prev
  BY <1>1, NodeFields
<1>3. (c.nodes[a].dirty \/ is_write) \in BOOLEAN
  OBVIOUS
<1>4. x \in PageNode(n)
  BY <1>2, <1>3, NodeChanges
<1>5. /\ x.page_number = c.nodes[a].page_number /\ x.hash_next = c.nodes[a].hash_next
      /\ x.list_type = c.nodes[a].list_type
      /\ x.next = c.nodes[a].next /\ x.prev = c.nodes[a].prev
  BY <1>2 DEF PageNode
<1>6. x.dirty = (c.nodes[a].dirty \/ is_write)
  BY <1>2 DEF PageNode
<1>7. e.nodes = [c.nodes EXCEPT ![a] = x] /\ d.nodes = e.nodes /\ d.buckets = e.buckets
      /\ d = [c EXCEPT !.nodes = d.nodes, !.hit = c.hit + 1]
  <2>1. CASE c \in LRUCaches(n, B)
    <3>1. c.nodes \in [0..n -> PageNode(n)]
      BY <2>1 DEF LRUCaches
    <3>2. [c.nodes EXCEPT ![a] = x] = [c.nodes EXCEPT ![a].dirty = @ \/ is_write]
      BY <1>1, <3>1
    <3> HIDE DEF x
    <3> QED BY <2>1, <3>2 DEF LRUCaches, WithNode, Counted
  <2>2. CASE c \in CFLRUCaches(n, B)
    <3>1. c.nodes \in [0..n -> PageNode(n)]
      BY <2>2 DEF CFLRUCaches
    <3>2. [c.nodes EXCEPT ![a] = x] = [c.nodes EXCEPT ![a].dirty = @ \/ is_write]
      BY <1>1, <3>1
    <3> HIDE DEF x
    <3> QED BY <2>2, <3>2 DEF CFLRUCaches, WithNode, Counted
  <2> QED BY <2>1, <2>2 DEF Caches
<1> HIDE DEF x
<1>8. /\ SameRest(c, e) /\ e \in Caches(n, B) /\ SamePages(c, e)
      /\ DirtyAt(e) = SetAt(DirtyAt(c), a, x.dirty)
      /\ ListOf(e) = SetAt(ListOf(c), a, x.list_type)
      /\ NextOf(e) = SetAt(NextOf(c), a, x.next)
      /\ PrevOf(e) = SetAt(PrevOf(c), a, x.prev)
  <2>1. e = WithNode(c, a, x)
    OBVIOUS
  <2> HIDE DEF e
  <2> QED BY <1>1, <1>4, <1>5, <2>1, KeptAs
<1> HIDE DEF e
<1>9. /\ SamePages(e, d) /\ DirtyAt(d) = DirtyAt(e) /\ ListOf(d) = ListOf(e)
      /\ NextOf(d) = NextOf(e) /\ PrevOf(d) = PrevOf(e)
  BY <1>7, SameNodes
<1>10. /\ ListOf(c) \in [0..n -> {"NONE", "WORKING", "CLEAN", "DIRTY"}]
       /\ NextOf(c) \in [0..n -> Ref(n)] /\ PrevOf(c) \in [0..n -> Ref(n)]
  BY PoolOf, PoolFields
<1>11. ListOf(e) = ListOf(c) /\ NextOf(e) = NextOf(c) /\ PrevOf(e) = PrevOf(c)
  BY <1>2, <1>5, <1>8, <1>10 DEF SetAt
<1>12. DirtyAt(d) = SetAt(DirtyAt(c), a, DirtyAt(c)[a] \/ is_write)
  BY <1>2, <1>6, <1>8, <1>9
<1>13. SamePages(c, d)
  BY <1>8, <1>9 DEF SamePages
<1>14. d \in Caches(n, B)
  <2>1. d.nodes \in [0..n -> PageNode(n)]
    BY <1>7, <1>8, PoolOf DEF IsPool
  <2>2. c.hit \in Nat
    BY DEF Caches, LRUCaches, CFLRUCaches
  <2>5. PICK k \in Nat : k = c.hit + 1
    BY <2>2
  <2>6. d = [c EXCEPT !.nodes = d.nodes, !.hit = k]
    BY <1>7, <2>5
  <2>3. CASE c \in LRUCaches(n, B)
    <3>1. d \in LRUCaches(n, B)
      BY <2>1, <2>3, <2>6 DEF LRUCaches
    <3> QED BY <3>1 DEF Caches
  <2>4. CASE c \in CFLRUCaches(n, B)
    <3>1. d \in CFLRUCaches(n, B)
      BY <2>1, <2>4, <2>6 DEF CFLRUCaches
    <3> QED BY <3>1 DEF Caches
  <2> QED BY <2>3, <2>4 DEF Caches
<1> QED BY <1>7, <1>9, <1>11, <1>12, <1>13, <1>14 DEF HitOnly

\* The first node comes to the front again.
LEMMA FrontAgain ==
  ASSUME NEW D, NEW U, NEW r, NEW r2, NEW nx, NEW pv, NEW hd, NEW tl, NEW a,
         Ranked(D, U, r), Both(nx, pv, hd, tl, U, r), a \in U, a = hd,
         Ahead(D, Dropping(U, a), r, r2, a)
  PROVE  Both(nx, pv, hd, tl, U, r2) /\ Ranked(D, U, r2)
<1>1. /\ Linked(nx, hd, U, r) /\ U \subseteq D
      /\ \A b \in U : r[b] \in Int /\ r2[b] \in Int /\ b # NULL
      /\ r2 \in [D -> Int] /\ \A b \in U \ {a} : r2[b] = r[b] /\ r2[a] < r[b]
  BY DEF Both, Ranked, Ahead, Dropping
<1>2. \A b \in U : r[a] <= r[b]
  BY <1>1 DEF Linked
<1>3. ASSUME NEW x \in U, NEW y \in U PROVE r2[x] <= r2[y] <=> r[x] <= r[y]
  <2>1. r[x] \in Int /\ r[y] \in Int /\ r2[x] \in Int /\ r2[y] \in Int
    BY <1>1
  <2>2. r[x] = r[y] => x = y
    BY DEF Ranked
  <2>3. CASE x = a /\ y # a
    <3>1. r2[a] < r[y] /\ r2[y] = r[y] /\ r[a] <= r[y]
      BY <1>1, <1>2, <2>3
    <3> QED BY <2>1, <2>3, <3>1
  <2>4. CASE x # a /\ y = a
    <3>1. r2[a] < r[x] /\ r2[x] = r[x] /\ r[a] <= r[x]
      BY <1>1, <1>2, <2>4
    <3> QED BY <2>1, <2>2, <2>4, <3>1
  <2>5. CASE x = a /\ y = a
    BY <2>1, <2>5
  <2>6. CASE x # a /\ y # a
    BY <1>1, <2>6
  <2> QED BY <2>3, <2>4, <2>5, <2>6
<1> QED BY <1>1, <1>3, SameOrder

LEMMA LRUHitIs ==
  ASSUME NEW n \in Nat, NEW B \in Nat, NEW c \in LRUCaches(n, B), NEW U, NEW r,
         NEW r2, Ranked(0..n, U, r),
         Both(NextOf(c), PrevOf(c), c.head, c.tail, U, r), NEW a \in U,
         Ahead(0..n, Dropping(U, a), r, r2, a), NEW is_write \in BOOLEAN, NEW d, d = LRUHit(c, a, is_write)
  PROVE  /\ d \in LRUCaches(n, B) /\ d.free_list = c.free_list /\ d.hit = c.hit + 1
         /\ d.miss = c.miss /\ d.write_back = c.write_back
         /\ SamePages(c, d)
         /\ DirtyAt(d) = SetAt(DirtyAt(c), a, DirtyAt(c)[a] \/ is_write)
         /\ SameOutside(0..n, U, NextOf(c), NextOf(d))
         /\ Both(NextOf(d), PrevOf(d), d.head, d.tail, U, r2) /\ Ranked(0..n, U, r2)
<1> DEFINE nx == NextOf(c)
           pv == PrevOf(c)
<1>1. U \subseteq 0..n /\ NULL \notin 0..n /\ NULL \notin U
  BY DEF Ranked
<1>2. c \in Caches(n, B) /\ a \in Ref(n) /\ a # NULL
  BY <1>1 DEF Caches, Ref
<1>3. PICK e : e = Counted(c, a, is_write)
  OBVIOUS
<1>4. /\ HitOnly(c, e) /\ e \in Caches(n, B) /\ SamePages(c, e)
      /\ DirtyAt(e) = SetAt(DirtyAt(c), a, DirtyAt(c)[a] \/ is_write)
      /\ ListOf(e) = ListOf(c) /\ NextOf(e) = NextOf(c) /\ PrevOf(e) = PrevOf(c)
  BY <1>2, <1>3, CountedIs
<1>5. /\ e \in LRUCaches(n, B) /\ e.free_list = c.free_list /\ e.hit = c.hit + 1
      /\ e.miss = c.miss /\ e.write_back = c.write_back /\ e.head = c.head /\ e.tail = c.tail
  <2>1. e.nodes \in [0..n -> PageNode(n)]
    BY <1>4, PoolOf DEF IsPool
  <2>2. PICK k \in Nat : k = c.hit + 1
    BY DEF LRUCaches
  <2>3. e = [c EXCEPT !.nodes = e.nodes, !.hit = k]
    BY <1>4, <2>2 DEF HitOnly
  <2> QED BY <2>1, <2>2, <2>3 DEF LRUCaches
<1>6. nx \in [0..n -> Ref(n)] /\ pv \in [0..n -> Ref(n)]
  BY <1>2, PoolOf, PoolFields
<1>7. c.nodes[a].next = nx[a] /\ c.nodes[a].prev = pv[a] /\ nx[a] \in Ref(n) /\ pv[a] \in Ref(n)
  BY <1>1, <1>2, <1>6, NodeFields
<1>8. CASE a = c.head
  <2>1. d = e
    BY <1>3, <1>8 DEF LRUHit, Counted
  <2>2. Both(NextOf(c), PrevOf(c), c.head, c.tail, U, r2) /\ Ranked(0..n, U, r2)
    BY <1>8, FrontAgain
  <2>3. SameOutside(0..n, U, NextOf(c), NextOf(d))
    BY <1>4, <2>1 DEF SameOutside
  <2> QED BY <1>4, <1>5, <2>1, <2>2, <2>3
<1>9. CASE a # c.head
  <2>1. PICK u1 : u1 = SetNext(e, pv[a], nx[a])
    OBVIOUS
  <2>2. PICK u2 : u2 = SetPrev(u1, nx[a], pv[a])
    OBVIOUS
  <2>3. PICK u3 : u3 = [u2 EXCEPT !.tail = IF a = @ THEN pv[a] ELSE @]
    OBVIOUS
  <2>4. d = ToMRU(u3, a)
    <3>1. c.nodes[a].next = nx[a] /\ c.nodes[a].prev = pv[a]
      BY <1>7
    <3> HIDE DEF nx, pv
    <3> QED BY <1>3, <1>9, <2>1, <2>2, <2>3, <3>1 DEF LRUHit, Counted
  <2> HIDE DEF nx, pv
  <2>5. /\ SameRest(e, u1) /\ u1 \in Caches(n, B) /\ SamePages(e, u1)
        /\ DirtyAt(u1) = DirtyAt(e) /\ PrevOf(u1) = PrevOf(e)
        /\ NextOf(u1) = SetAt(NextOf(e), pv[a], nx[a])
    BY <1>4, <1>7, <2>1, SetNextIs
  <2>6. /\ SameRest(u1, u2) /\ u2 \in Caches(n, B) /\ SamePages(u1, u2)
        /\ DirtyAt(u2) = DirtyAt(u1) /\ NextOf(u2) = NextOf(u1)
        /\ PrevOf(u2) = SetAt(PrevOf(u1), nx[a], pv[a])
    BY <1>7, <2>2, <2>5, SetPrevIs
  <2>7. /\ u1 \in LRUCaches(n, B) /\ LRUCounts(e, u1) /\ u1.head = e.head /\ u1.tail = e.tail
    BY <1>5, <2>5, PoolOf, SameRestFields DEF LRUCounts
  <2>8. /\ u2 \in LRUCaches(n, B) /\ LRUCounts(u1, u2) /\ u2.head = u1.head /\ u2.tail = u1.tail
    BY <2>6, <2>7, PoolOf, SameRestFields DEF LRUCounts
  <2>9. /\ u3 \in LRUCaches(n, B) /\ LRUCounts(u2, u3) /\ u3.head = u2.head
        /\ u3.tail = (IF a = u2.tail THEN pv[a] ELSE u2.tail)
        /\ u3.nodes = u2.nodes /\ u3.buckets = u2.buckets
    <3>1. PICK v \in Ref(n) : v = IF a = u2.tail THEN pv[a] ELSE u2.tail
      BY <1>7, <2>8 DEF LRUCaches
    <3>2. u3 = [u2 EXCEPT !.tail = v]
      BY <2>3, <2>8, <3>1 DEF LRUCaches
    <3> QED BY <2>8, <3>1, <3>2 DEF LRUCaches, LRUCounts
  <2>10. /\ SamePages(u2, u3) /\ DirtyAt(u3) = DirtyAt(u2)
         /\ NextOf(u3) = NextOf(u2) /\ PrevOf(u3) = PrevOf(u2)
    BY <2>9, SameNodes
  <2>11. /\ d \in LRUCaches(n, B) /\ LRUCounts(u3, d) /\ d.head = a /\ d.tail = u3.tail
         /\ SamePages(u3, d) /\ DirtyAt(d) = DirtyAt(u3)
         /\ NextOf(d) = SetAt(NextOf(u3), a, u3.head)
         /\ PrevOf(d) = SetAt(SetAt(PrevOf(u3), u3.head, a), a, NULL)
    BY <1>2, <2>4, <2>9, ToMRUIs
  <2> DEFINE nx3 == NextOf(u3)
             pv3 == PrevOf(u3)
  <2>12. nx3 = SetAt(nx, pv[a], nx[a]) /\ pv3 = SetAt(pv, nx[a], pv[a])
    BY <1>4, <2>5, <2>6, <2>10 DEF nx, pv
  <2>13. nx3 \in [0..n -> Ref(n)] /\ pv3 \in [0..n -> Ref(n)]
    <3>1. u3 \in Caches(n, B)
      BY <2>9 DEF Caches
    <3> QED BY <3>1, PoolOf, PoolFields
  <2>14. u3.head = c.head /\ u3.tail = IF a = c.tail THEN pv[a] ELSE c.tail
    BY <1>5, <2>7, <2>8, <2>9
  <2> DEFINE M == Dropping(U, a)
  <2>15. /\ Both(nx3, pv3, u3.head, u3.tail, M, r) /\ Ranked(0..n, M, r)
         /\ SameOutside(0..n, U, nx, nx3) /\ u3.tail # NULL
    <3>1. TakenOut(0..n, nx, pv, c.head, c.tail, a, nx3, pv3, u3.head, u3.tail)
      BY <1>1, <1>6, <1>9, <2>12, <2>14 DEF TakenOut, SetAt
    <3> HIDE DEF nx3, pv3
    <3>2. Both(nx, pv, c.head, c.tail, U, r)
      BY DEF nx, pv
    <3> QED BY <1>9, <3>1, <3>2, LinksUnlinked
  <2>17. /\ Both(NextOf(d), PrevOf(d), a, d.tail, Adding(M, a), r2)
         /\ Ranked(0..n, Adding(M, a), r2)
         /\ SameOutside(0..n, Adding(M, a), nx3, NextOf(d))
    <3> DEFINE nx4 == NextOf(d)
               pv4 == PrevOf(d)
               pv0 == SetAt(pv3, u3.head, a)
    <3>1. a \notin M
      BY DEF Dropping
    <3>2. pv0 \in [0..n -> Ref(n)] /\ \A b \in 0..n : pv0[b] = IF b = u3.head THEN a ELSE pv3[b]
      BY <1>1, <1>2, <2>13 DEF SetAt
    <3>3. nx4 = SetAt(nx3, a, u3.head) /\ pv4 = SetAt(pv0, a, NULL)
      BY <2>11
    <3> HIDE DEF nx3, pv3, nx4, pv4, pv0, M
    <3>4. PutFirst(0..n, nx3, pv3, u3.head, u3.tail, a, nx4, pv4, d.tail)
      BY <1>2, <2>11, <2>13, <2>15, <3>1, <3>2, <3>3 DEF PutFirst, SetAt
    <3>5. Both(nx3, pv3, u3.head, u3.tail, M, r) /\ Ranked(0..n, M, r)
      BY <2>15
    <3>6. Ahead(0..n, M, r, r2, a)
      BY DEF M
    <3>7. a \in 0..n
      BY <1>1
    <3>8. /\ Both(nx4, pv4, a, d.tail, Adding(M, a), r2) /\ Ranked(0..n, Adding(M, a), r2)
          /\ SameOutside(0..n, Adding(M, a), nx3, nx4)
      BY <3>1, <3>4, <3>5, <3>6, <3>7, LinksPushed
    <3> QED BY <3>8 DEF nx4, pv4
  <2>18. Both(NextOf(d), PrevOf(d), d.head, d.tail, U, r2) /\ Ranked(0..n, U, r2)
    <3>1. Adding(M, a) = U
      BY DEF Adding, Dropping
    <3> QED BY <2>11, <2>17, <3>1
  <2>19. SameOutside(0..n, U, NextOf(c), NextOf(d))
    BY <2>15, <2>17 DEF nx, Adding, Dropping, SameOutside
  <2>20. SamePages(c, d)
    BY <1>4, <2>5, <2>6, <2>10, <2>11 DEF SamePages
  <2>21. DirtyAt(d) = SetAt(DirtyAt(c), a, DirtyAt(c)[a] \/ is_write)
    BY <1>4, <2>5, <2>6, <2>10, <2>11
  <2>22. LRUCounts(e, d)
    BY <2>7, <2>8, <2>9, <2>11 DEF LRUCounts
  <2> QED BY <1>5, <2>11, <2>18, <2>19, <2>20, <2>21, <2>22 DEF LRUCounts
<1> QED BY <1>8, <1>9

Chained(c, n, U, r) ==
  Ranked(0..n, U, r) /\ Both(NextOf(c), PrevOf(c), c.head, c.tail, U, r)

LEMMA LRUEvictIs ==
  ASSUME NEW n \in Nat, NEW B \in Nat, NEW c, NEW U, NEW r, NEW h, NEW d,
         c \in LRUCaches(n, B), Table(c, n, B, U, h), Loose(c, n, U), Chained(c, n, U, r),
         U # {}, d = LRUEvict(c)
  PROVE  /\ d \in LRUCaches(n, B) /\ d.free_list = c.free_list /\ d.hit = c.hit
         /\ d.miss = c.miss /\ c.tail \in U
         /\ d.write_back = c.write_back + (IF DirtyAt(c)[c.tail] THEN 1 ELSE 0)
         /\ PageOf(d) = PageOf(c) /\ DirtyAt(d) = DirtyAt(c)
         /\ Table(d, n, B, Dropping(U, c.tail), h) /\ Loose(d, n, U)
         /\ Chained(d, n, Dropping(U, c.tail), r)
         /\ SameOutside(0..n, U, NextOf(c), NextOf(d))
<1> DEFINE nx == NextOf(c)
           pv == PrevOf(c)
<1>1. PICK v : v = c.tail
  OBVIOUS
<1>2. Ranked(0..n, U, r) /\ Both(nx, pv, c.head, c.tail, U, r)
  BY DEF Chained
<1>3. U \subseteq 0..n /\ NULL \notin 0..n /\ NULL \notin U
  BY <1>2 DEF Ranked
<1>4. v \in U
  <2>1. PICK b \in U : TRUE
    OBVIOUS
  <2> QED BY <1>1, <1>2, <2>1, Mirror DEF Both
<1>5. (pv[v] = NULL <=> v = c.head) /\ nx[v] = NULL
  BY <1>1, <1>2, <1>4, Mirror DEF Both
<1>6. c \in Caches(n, B)
  BY DEF Caches
<1>7. nx \in [0..n -> Ref(n)] /\ pv \in [0..n -> Ref(n)] /\ DirtyAt(c) \in [0..n -> BOOLEAN]
  BY <1>6, PoolOf, PoolFields
<1>8. v \in 0..n /\ c.nodes[v].prev = pv[v] /\ pv[v] \in Ref(n) /\ NULL \in Ref(n)
  BY <1>3, <1>4, <1>6, <1>7, NodeFields DEF Ref
<1>9. c.nodes[v].dirty = DirtyAt(c)[v] /\ DirtyAt(c)[v] \in BOOLEAN
  BY <1>6, <1>7, <1>8, NodeFields
<1>10. PICK k \in Nat : k = c.write_back + (IF DirtyAt(c)[v] THEN 1 ELSE 0)
  BY <1>9 DEF LRUCaches
<1>11. PICK e1 : e1 = [c EXCEPT !.write_back = k]
  OBVIOUS
<1>12. e1 = [c EXCEPT !.write_back = @ + IF c.nodes[c.tail].dirty THEN 1 ELSE 0]
  BY <1>1, <1>9, <1>10, <1>11
<1>13. /\ e1 \in LRUCaches(n, B) /\ e1.nodes = c.nodes /\ e1.buckets = c.buckets
       /\ e1.head = c.head /\ e1.tail = c.tail /\ e1.free_list = c.free_list /\ e1.hit = c.hit
       /\ e1.miss = c.miss /\ e1.write_back = k
  BY <1>11 DEF LRUCaches
<1>14. /\ SamePages(c, e1) /\ DirtyAt(e1) = DirtyAt(c)
       /\ NextOf(e1) = nx /\ PrevOf(e1) = pv
  BY <1>13, SameNodes
<1>15. PICK e2 : e2 = remove(e1, v)
  OBVIOUS
<1>16. PICK e3 : e3 = SetNext(e2, pv[v], NULL)
  OBVIOUS
<1>17. PICK hd : hd = IF pv[v] = NULL THEN NULL ELSE c.head
  OBVIOUS
<1>18. /\ SameRest(e1, e2) /\ e2 \in Caches(n, B)
       /\ PageOf(e2) = PageOf(e1) /\ DirtyAt(e2) = DirtyAt(e1) /\ ListOf(e2) = ListOf(e1)
       /\ NextOf(e2) = NextOf(e1) /\ PrevOf(e2) = PrevOf(e1)
       /\ Table(e2, n, B, Dropping(U, v), h) /\ Loose(e2, n, U)
  <2>1. Table(e1, n, B, U, h)
    BY <1>13, <1>14 DEF SamePages, Table, Bucket
  <2>2. Loose(e1, n, U)
    BY <1>14 DEF SamePages, Loose
  <2>3. e1 \in Caches(n, B)
    BY <1>13 DEF Caches
  <2> QED BY <1>4, <1>15, <2>1, <2>2, <2>3, RemoveIs
<1>19. /\ e2 \in LRUCaches(n, B) /\ e2.head = c.head /\ e2.tail = c.tail
       /\ e2.free_list = c.free_list /\ e2.hit = c.hit /\ e2.miss = c.miss /\ e2.write_back = k
  BY <1>13, <1>18, PoolOf, SameRestFields
<1> HIDE DEF nx, pv
<1>20. /\ SameRest(e2, e3) /\ e3 \in Caches(n, B) /\ SamePages(e2, e3)
       /\ DirtyAt(e3) = DirtyAt(e2) /\ PrevOf(e3) = PrevOf(e2)
       /\ NextOf(e3) = SetAt(NextOf(e2), pv[v], NULL)
  BY <1>8, <1>16, <1>18, SetNextIs
<1>21. /\ e3 \in LRUCaches(n, B) /\ e3.head = c.head /\ e3.tail = c.tail
       /\ e3.free_list = c.free_list /\ e3.hit = c.hit /\ e3.miss = c.miss /\ e3.write_back = k
  BY <1>19, <1>20, PoolOf, SameRestFields
<1>22. d = [e3 EXCEPT !.head = hd, !.tail = pv[v]]
  <2>1. CASE pv[v] = NULL
    BY <1>1, <1>8, <1>12, <1>15, <1>16, <1>17, <2>1 DEF LRUEvict, SetNext
  <2>2. CASE pv[v] # NULL
    <3>1. d = [e2 EXCEPT !.tail = pv[v], !.nodes[pv[v]].next = NULL]
      BY <1>1, <1>8, <1>12, <1>15, <2>2 DEF LRUEvict
    <3>2. e3 = [e2 EXCEPT !.nodes[pv[v]].next = NULL] /\ hd = e3.head
      BY <1>16, <1>17, <1>21, <2>2 DEF SetNext
    <3> QED BY <1>19, <3>1, <3>2 DEF LRUCaches
  <2> QED BY <2>1, <2>2
<1>23. hd \in Ref(n)
  BY <1>8, <1>17 DEF LRUCaches
<1>24. /\ d \in LRUCaches(n, B) /\ d.nodes = e3.nodes /\ d.buckets = e3.buckets
       /\ d.head = hd /\ d.tail = pv[v] /\ d.free_list = c.free_list /\ d.hit = c.hit
       /\ d.miss = c.miss /\ d.write_back = k
  BY <1>8, <1>21, <1>22, <1>23 DEF LRUCaches
<1>25. /\ SamePages(e3, d) /\ DirtyAt(d) = DirtyAt(e3)
       /\ NextOf(d) = NextOf(e3) /\ PrevOf(d) = PrevOf(e3)
  BY <1>24, SameNodes
<1>26. PageOf(d) = PageOf(c) /\ DirtyAt(d) = DirtyAt(c)
  BY <1>14, <1>18, <1>20, <1>25 DEF SamePages
<1>27. Table(d, n, B, Dropping(U, v), h) /\ Loose(d, n, U)
  <2>1. PICK D : D = Dropping(U, v)
    OBVIOUS
  <2>2. Table(e2, n, B, D, h)
    BY <1>18, <2>1
  <2>3. /\ PageOf(d) = PageOf(e2) /\ HashNext(d) = HashNext(e2) /\ d.buckets = e2.buckets
    BY <1>20, <1>25 DEF SamePages
  <2>4. Loose(d, n, U)
    BY <1>18, <2>3 DEF Loose
  <2>5. Table(d, n, B, D, h)
    BY <2>2, <2>3 DEF Table, Bucket
  <2> QED BY <2>1, <2>4, <2>5
<1>28. NextOf(d) = SetAt(nx, pv[v], nx[v]) /\ PrevOf(d) = pv
  BY <1>5, <1>14, <1>18, <1>20, <1>25
<1>29. TakenOut(0..n, nx, pv, c.head, c.tail, v, NextOf(d), PrevOf(d), d.head, d.tail)
  BY <1>1, <1>3, <1>5, <1>7, <1>17, <1>24, <1>28 DEF TakenOut, SetAt
<1>30. Both(NextOf(d), PrevOf(d), d.head, d.tail, Dropping(U, v), r)
       /\ Ranked(0..n, Dropping(U, v), r) /\ SameOutside(0..n, U, nx, NextOf(d))
  <2> DEFINE nx2 == NextOf(d)
             pv2 == PrevOf(d)
  <2>1. TakenOut(0..n, nx, pv, c.head, c.tail, v, nx2, pv2, d.head, d.tail)
    BY <1>29
  <2> HIDE DEF nx2, pv2
  <2>2. /\ Both(nx2, pv2, d.head, d.tail, Dropping(U, v), r) /\ Ranked(0..n, Dropping(U, v), r)
        /\ SameOutside(0..n, U, nx, nx2)
    BY <1>2, <1>4, <2>1, LinksUnlinked
  <2> QED BY <2>2 DEF nx2, pv2
<1> QED BY <1>1, <1>4, <1>10, <1>24, <1>26, <1>27, <1>30 DEF Chained, nx

Entered(c, a, page, is_write) ==
  LET first == ToMRU(Initialize([c EXCEPT !.miss = @ + 1], a, page, is_write), a)
  IN put([first EXCEPT !.tail = IF @ = NULL THEN a ELSE @], a)

\* A node a, that is ready for it, enters as the first of the list and of its
\* bucket and turns c into d.
Ready(c, n, B, M, h, r, a) ==
  /\ c \in LRUCaches(n, B) /\ Table(c, n, B, M, h) /\ Loose(c, n, Adding(M, a))
  /\ Chained(c, n, M, r) /\ a \in Ref(n) /\ a # NULL /\ a \notin M

Entering(c, n, B, M, h, h2, r, r2, a, page, is_write, d) ==
  /\ Ready(c, n, B, M, h, r, a) /\ Ahead(0..n, M, r, r2, a) /\ Ahead(0..n, M, h, h2, a)
  /\ page \in Nat /\ is_write \in BOOLEAN /\ page \notin PagesIn(c, M)
  /\ d = Entered(c, a, page, is_write)

LEMMA LRUEnteredIs ==
  ASSUME NEW n \in Nat, NEW B \in Nat, NEW c, NEW M, NEW r, NEW r2, NEW h, NEW h2, NEW a,
         NEW page, NEW is_write, NEW d,
         Entering(c, n, B, M, h, h2, r, r2, a, page, is_write, d)
  PROVE  /\ d \in LRUCaches(n, B) /\ d.free_list = c.free_list /\ d.hit = c.hit
         /\ d.miss = c.miss + 1 /\ d.write_back = c.write_back
         /\ PageOf(d) = SetAt(PageOf(c), a, page) /\ DirtyAt(d) = SetAt(DirtyAt(c), a, is_write)
         /\ Table(d, n, B, Adding(M, a), h2) /\ Loose(d, n, Adding(M, a))
         /\ Chained(d, n, Adding(M, a), r2)
         /\ SameOutside(0..n, Adding(M, a), NextOf(c), NextOf(d))
<1> DEFINE nx == NextOf(c)
           pv == PrevOf(c)
<1>0. /\ c \in LRUCaches(n, B) /\ Table(c, n, B, M, h) /\ Loose(c, n, Adding(M, a))
      /\ Chained(c, n, M, r) /\ a \in Ref(n) /\ a # NULL /\ a \notin M
      /\ Ahead(0..n, M, r, r2, a) /\ Ahead(0..n, M, h, h2, a)
      /\ page \in Nat /\ is_write \in BOOLEAN /\ page \notin PagesIn(c, M)
      /\ d = Entered(c, a, page, is_write)
  BY DEF Entering, Ready
<1> USE <1>0
<1>1. Ranked(0..n, M, r) /\ Both(nx, pv, c.head, c.tail, M, r)
  BY DEF Chained
<1>2. M \subseteq 0..n /\ NULL \notin 0..n
  BY <1>1 DEF Ranked
<1>3. c \in Caches(n, B)
  BY DEF Caches
<1>4. /\ nx \in [0..n -> Ref(n)] /\ pv \in [0..n -> Ref(n)] /\ DirtyAt(c) \in [0..n -> BOOLEAN]
      /\ PageOf(c) \in [0..n -> Nat] /\ HashNext(c) \in [0..n -> Ref(n)]
  BY <1>3, PoolOf, PoolFields
<1>5. PICK k \in Nat : k = c.miss + 1
  BY DEF LRUCaches
<1>6. PICK e1 : e1 = [c EXCEPT !.miss = k]
  OBVIOUS
<1>7. /\ e1 \in LRUCaches(n, B) /\ e1.nodes = c.nodes /\ e1.buckets = c.buckets
      /\ e1.head = c.head /\ e1.tail = c.tail /\ e1.free_list = c.free_list /\ e1.hit = c.hit
      /\ e1.miss = k /\ e1.write_back = c.write_back
  BY <1>6 DEF LRUCaches
<1>8. /\ SamePages(c, e1) /\ DirtyAt(e1) = DirtyAt(c)
      /\ NextOf(e1) = nx /\ PrevOf(e1) = pv
  BY <1>7, SameNodes
<1>9. PICK e2 : e2 = Initialize(e1, a, page, is_write)
  OBVIOUS
<1>10. a \in 0..n /\ e1 \in Caches(n, B)
  BY <1>7 DEF Ref, Caches
<1>11. /\ SameRest(e1, e2) /\ e2 \in Caches(n, B) /\ e2.buckets = e1.buckets
       /\ PageOf(e2) = SetAt(PageOf(e1), a, page)
       /\ DirtyAt(e2) = SetAt(DirtyAt(e1), a, is_write)
       /\ NextOf(e2) = SetAt(NextOf(e1), a, NULL)
       /\ PrevOf(e2) = SetAt(PrevOf(e1), a, NULL)
       /\ HashNext(e2) = SetAt(HashNext(e1), a, NULL)
  BY <1>9, <1>10, InitializeIs
<1>12. /\ e2 \in LRUCaches(n, B) /\ e2.head = c.head /\ e2.tail = c.tail
       /\ e2.free_list = c.free_list /\ e2.hit = c.hit /\ e2.miss = k
       /\ e2.write_back = c.write_back
  BY <1>7, <1>11, PoolOf, SameRestFields
<1>13. PICK e3 : e3 = ToMRU(e2, a)
  OBVIOUS
<1>14. /\ e3 \in LRUCaches(n, B) /\ LRUCounts(e2, e3) /\ e3.head = a /\ e3.tail = c.tail
       /\ SamePages(e2, e3) /\ DirtyAt(e3) = DirtyAt(e2)
       /\ NextOf(e3) = SetAt(NextOf(e2), a, e2.head)
       /\ PrevOf(e3) = SetAt(SetAt(PrevOf(e2), e2.head, a), a, NULL)
  BY <1>12, <1>13, ToMRUIs
<1>15. PICK tl : tl = IF c.tail = NULL THEN a ELSE c.tail
  OBVIOUS
<1>16. tl \in Ref(n)
  BY <1>15 DEF LRUCaches
<1>17. PICK e4 : e4 = [e3 EXCEPT !.tail = tl]
  OBVIOUS
<1>18. /\ e4 \in LRUCaches(n, B) /\ e4.nodes = e3.nodes /\ e4.buckets = e3.buckets
       /\ e4.head = a /\ e4.tail = tl /\ e4.free_list = e3.free_list /\ e4.hit = e3.hit
       /\ e4.miss = e3.miss /\ e4.write_back = e3.write_back
  BY <1>14, <1>16, <1>17 DEF LRUCaches
<1>19. /\ SamePages(e3, e4) /\ DirtyAt(e4) = DirtyAt(e3)
       /\ NextOf(e4) = NextOf(e3) /\ PrevOf(e4) = PrevOf(e3)
  BY <1>18, SameNodes
<1>20. d = put(e4, a)
  <2>1. e1 = [c EXCEPT !.miss = @ + 1]
    BY <1>5, <1>6
  <2>2. e4 = [e3 EXCEPT !.tail = IF @ = NULL THEN a ELSE @]
    BY <1>14, <1>15, <1>17
  <2> QED BY <1>9, <1>13, <2>1, <2>2 DEF Entered
<1>21. /\ PageOf(e4) = SetAt(PageOf(c), a, page) /\ DirtyAt(e4) = SetAt(DirtyAt(c), a, is_write)
       /\ HashNext(e4) = SetAt(HashNext(c), a, NULL) /\ e4.buckets = c.buckets
  BY <1>7, <1>8, <1>11, <1>14, <1>19 DEF SamePages
<1>22. /\ NextOf(e4) = SetAt(SetAt(nx, a, NULL), a, c.head)
       /\ PrevOf(e4) = SetAt(SetAt(SetAt(pv, a, NULL), c.head, a), a, NULL)
  BY <1>8, <1>11, <1>12, <1>14, <1>19
<1>23. Table(e4, n, B, M, h)
  <2>1. ASSUME NEW b \in M
        PROVE  PageOf(e4)[b] = PageOf(c)[b] /\ HashNext(e4)[b] = HashNext(c)[b]
    BY <1>2, <1>4, <1>21 DEF SetAt
  <2> QED BY <1>21, <2>1, TableAgrees
<1>24. PageOf(e4)[a] = page /\ \A b \in M : PageOf(e4)[b] # PageOf(e4)[a]
  BY <1>2, <1>4, <1>10, <1>21 DEF SetAt, PagesIn
<1>25. Loose(e4, n, Adding(M, a))
  BY <1>4, <1>21 DEF Loose, SetAt, Adding
<1>26. e4 \in Caches(n, B)
  BY <1>18 DEF Caches
<1>27. /\ SameRest(e4, d) /\ d \in Caches(n, B)
       /\ PageOf(d) = PageOf(e4) /\ DirtyAt(d) = DirtyAt(e4)
       /\ NextOf(d) = NextOf(e4) /\ PrevOf(d) = PrevOf(e4)
       /\ Table(d, n, B, Adding(M, a), h2) /\ Loose(d, n, Adding(M, a))
  BY <1>20, <1>23, <1>24, <1>25, <1>26, PutIs
<1>28. /\ d \in LRUCaches(n, B) /\ d.head = a /\ d.tail = tl
       /\ d.free_list = c.free_list /\ d.hit = c.hit /\ d.miss = k
       /\ d.write_back = c.write_back
  BY <1>12, <1>14, <1>18, <1>27, PoolOf, SameRestFields DEF LRUCounts
<1> DEFINE nx2 == NextOf(d)
           pv2 == PrevOf(d)
<1>29. \A b \in 0..n : nx2[b] = IF b = a THEN c.head ELSE nx[b]
  BY <1>4, <1>22, <1>27 DEF SetAt
<1>30. \A b \in 0..n : pv2[b] = IF b = a THEN NULL ELSE IF b = c.head THEN a ELSE pv[b]
  <2>1. PICK p1 : p1 = SetAt(pv, a, NULL)
    OBVIOUS
  <2>2. PICK p2 : p2 = SetAt(p1, c.head, a)
    OBVIOUS
  <2>3. PrevOf(d) = SetAt(p2, a, NULL)
    BY <1>22, <1>27, <2>1, <2>2
  <2>4. DOMAIN pv = 0..n /\ DOMAIN p1 = 0..n
    BY <1>4, <2>1 DEF SetAt
  <2>5. DOMAIN p2 = 0..n
    BY <2>2, <2>4 DEF SetAt
  <2>6. ASSUME NEW b \in 0..n PROVE p1[b] = IF b = a THEN NULL ELSE pv[b]
    BY <2>1, <2>4 DEF SetAt
  <2>7. ASSUME NEW b \in 0..n PROVE p2[b] = IF b = c.head THEN a ELSE p1[b]
    BY <1>2, <2>2, <2>4 DEF SetAt
  <2>8. ASSUME NEW b \in 0..n PROVE pv2[b] = IF b = a THEN NULL ELSE p2[b]
    BY <2>3, <2>5 DEF SetAt
  <2> QED BY <2>6, <2>7, <2>8
<1>31. PutFirst(0..n, nx, pv, c.head, c.tail, a, nx2, pv2, tl)
  BY <1>15, <1>29, <1>30 DEF PutFirst
<1> HIDE DEF nx2, pv2, nx, pv
<1>32. /\ Both(nx2, pv2, a, tl, Adding(M, a), r2) /\ Ranked(0..n, Adding(M, a), r2)
       /\ SameOutside(0..n, Adding(M, a), nx, nx2)
  BY <1>1, <1>10, <1>31, LinksPushed
<1> QED BY <1>5, <1>21, <1>27, <1>28, <1>32 DEF Chained, nx2, pv2, nx

---------------------------------------------------------------------------
(* Free nodes, and ranks by which a node comes before others.              *)

LEMMA AheadExists ==
  ASSUME NEW n \in Nat, NEW M, NEW h, NEW a, h \in [0..n -> Int], M \subseteq 0..n,
         a \in Ref(n), a # NULL, a \notin M
  PROVE  \E h2 : Ahead(0..n, M, h, h2, a)
<1>1. PICK B \in Nat : \A b \in 0..n : -B <= h[b] /\ h[b] <= B
  BY Bounded
<1>2. PICK k \in Int : k = -B - 1
  OBVIOUS
<1>3. a \in 0..n
  BY DEF Ref
<1>4. \A b \in M : k < h[b]
  BY <1>1, <1>2
<1>5. PICK h2 : h2 = [h EXCEPT ![a] = k]
  OBVIOUS
<1>6. h2 \in [0..n -> Int] /\ \A b \in 0..n : h2[b] = IF b = a THEN k ELSE h[b]
  BY <1>3, <1>5
<1>7. \A b \in M : h2[b] = h[b] /\ h2[a] < h[b]
  BY <1>3, <1>4, <1>6
<1> QED BY <1>6, <1>7 DEF Ahead

\* The first nodes of the pool are free; those of U, the others, are used.
Free(c, n, U) ==
  \E m \in 0..(n + 1) : c.free_list = [k \in 1..m |-> k - 1] /\ U = m..n

LEMMA FreeNodeIs ==
  ASSUME NEW n \in Nat, NEW c, NEW U, Free(c, n, U)
  PROVE  \/ FreeNode(c) = NULL /\ U = 0..n
         \/ /\ FreeNode(c) \in Ref(n) /\ FreeNode(c) # NULL /\ FreeNode(c) \notin U
            /\ U # 0..n
<1>1. PICK m \in 0..(n + 1) : c.free_list = [k \in 1..m |-> k - 1] /\ U = m..n
  BY DEF Free
<1>2. Len(c.free_list) = m
  BY <1>1
<1>3. c.free_list = <<>> <=> m = 0
  BY <1>1, <1>2
<1>4. m # 0 => c.free_list[m] = m - 1
  BY <1>1
<1>5. CASE m = 0
  BY <1>1, <1>3, <1>5 DEF FreeNode
<1>6. CASE m # 0
  <2>1. FreeNode(c) = m - 1
    BY <1>2, <1>3, <1>4, <1>6 DEF FreeNode
  <2>2. m - 1 \in 0..n /\ m - 1 # NULL /\ m - 1 \notin m..n
    BY <1>6 DEF NULL
  <2> QED BY <1>1, <2>1, <2>2 DEF Ref
<1> QED BY <1>5, <1>6

LEMMA FreeTaken ==
  ASSUME NEW n \in Nat, NEW c, NEW d, NEW U, NEW a, Free(c, n, U), a = FreeNode(c), a # NULL,
         d.free_list = SubSeq(c.free_list, 1, Len(c.free_list) - 1)
  PROVE  Free(d, n, Adding(U, a)) /\ d.free_list \in Seq(0..n)
<1>1. PICK m \in 0..(n + 1) : c.free_list = [k \in 1..m |-> k - 1] /\ U = m..n
  BY DEF Free
<1>2. Len(c.free_list) = m
  BY <1>1
<1>3. m # 0
  BY <1>1, <1>2 DEF FreeNode
<1>4. c.free_list # <<>> /\ c.free_list[m] = m - 1
  BY <1>1, <1>2, <1>3
<1>5. a = m - 1
  BY <1>2, <1>4 DEF FreeNode
<1>6. \A k \in 1..m : c.free_list[k] \in Int
  BY <1>1
<1>7. d.free_list = [k \in 1..(m - 1) |-> k - 1]
  <2>1. d.free_list = [k \in 1..(m - 1) |-> c.free_list[k]]
    BY <1>2, <1>3
  <2> QED BY <1>1, <2>1
<1>8. Adding(U, a) = (m - 1)..n
  BY <1>1, <1>3, <1>5 DEF Adding
<1>9. m - 1 \in 0..(n + 1)
  BY <1>3
<1>10. d.free_list \in Seq(0..n)
  <2>1. \A k \in 1..(m - 1) : k - 1 \in 0..n
    OBVIOUS
  <2>2. d.free_list \in [1..(m - 1) -> 0..n]
    BY <1>7, <2>1
  <2>3. PICK j \in Nat : j = m - 1
    BY <1>3
  <2>4. d.free_list \in [1..j -> 0..n]
    BY <2>2, <2>3
  <2> QED BY <2>4, SeqDef
<1> QED BY <1>7, <1>8, <1>9, <1>10 DEF Free

LEMMA FreeKept ==
  ASSUME NEW n, NEW c, NEW d, NEW U, Free(c, n, U), d.free_list = c.free_list
  PROVE  Free(d, n, U)
BY DEF Free

---------------------------------------------------------------------------
(* Changes of the pages.                                                   *)

\* What a write makes of the dirty pages.
Written(D, page, is_write) == IF is_write THEN D \cup {page} ELSE D

Enters(c, d, M, a, page, is_write) ==
  /\ a # NULL /\ a \notin M /\ a \in DOMAIN PageOf(c) /\ a \in DOMAIN DirtyAt(c)
  /\ is_write \in BOOLEAN
  /\ PageOf(d) = SetAt(PageOf(c), a, page) /\ DirtyAt(d) = SetAt(DirtyAt(c), a, is_write)

LEMMA PagesEntered ==
  ASSUME NEW c, NEW d, NEW M, NEW a, NEW page, NEW is_write, Enters(c, d, M, a, page, is_write)
  PROVE  /\ PagesIn(d, Adding(M, a)) = Adding(PagesIn(c, M), page)
         /\ DirtyIn(d, Adding(M, a)) = Written(DirtyIn(c, M), page, is_write)
<1>1. PageOf(d)[a] = page /\ DirtyAt(d)[a] = is_write /\ is_write \in BOOLEAN
  BY DEF Enters, SetAt
<1>2. \A b \in M : PageOf(d)[b] = PageOf(c)[b] /\ DirtyAt(d)[b] = DirtyAt(c)[b]
  BY DEF Enters, SetAt
<1>3. PagesIn(d, Adding(M, a)) = Adding(PagesIn(c, M), page)
  BY <1>1, <1>2 DEF PagesIn, Adding
<1>4. DirtyIn(d, Adding(M, a)) = Written(DirtyIn(c, M), page, is_write)
  BY <1>1, <1>2 DEF DirtyIn, Adding, Written
<1> QED BY <1>3, <1>4

LEMMA PagesDropped ==
  ASSUME NEW c, NEW d, NEW U, NEW a, a \in U, PageOf(d) = PageOf(c), DirtyAt(d) = DirtyAt(c),
         \A a1, a2 \in U : PageOf(c)[a1] = PageOf(c)[a2] => a1 = a2
  PROVE  /\ PagesIn(d, Dropping(U, a)) = Dropping(PagesIn(c, U), PageOf(c)[a])
         /\ DirtyIn(d, Dropping(U, a)) = Dropping(DirtyIn(c, U), PageOf(c)[a])
         /\ PageOf(c)[a] \in DirtyIn(c, U) <=> DirtyAt(c)[a]
         /\ PageOf(c)[a] \in PagesIn(c, U)
BY DEF PagesIn, DirtyIn, Dropping

LEMMA PagesHit ==
  ASSUME NEW c, NEW d, NEW U, NEW a, NEW is_write, a \in U, a # NULL, is_write \in BOOLEAN,
         a \in DOMAIN DirtyAt(c), DirtyAt(c)[a] \in BOOLEAN, PageOf(d) = PageOf(c),
         DirtyAt(d) = SetAt(DirtyAt(c), a, DirtyAt(c)[a] \/ is_write)
  PROVE  /\ PagesIn(d, U) = PagesIn(c, U)
         /\ DirtyIn(d, U) = Written(DirtyIn(c, U), PageOf(c)[a], is_write)
<1>1. DirtyAt(d)[a] <=> (DirtyAt(c)[a] \/ is_write)
  BY DEF SetAt
<1>2. \A b \in U : b # a => DirtyAt(d)[b] = DirtyAt(c)[b]
  BY DEF SetAt
<1>3. \A b \in U : DirtyAt(d)[b] <=> (DirtyAt(c)[b] \/ (b = a /\ is_write))
  BY <1>1, <1>2
<1> QED BY <1>3 DEF PagesIn, DirtyIn, Written

---------------------------------------------------------------------------
(* The LRU cache: its list orders its pages by their last use.             *)

\* The nodes by the ranks of their pages.
RankOf(c, R) == [a \in DOMAIN PageOf(c) |-> R[PageOf(c)[a]]]

\* The rank R2 has page before the others of E, which it orders like R.
Latest(E, R, R2, page) ==
  /\ R2 \in [Nat -> Int]
  /\ \A q \in E : q # page => R2[q] = R[q] /\ R2[page] < R[q]

\* Nodes out of the list lead nowhere.
Apart(c, n, U) == \A b \in 0..n : b \notin U => NextOf(c)[b] = NULL

LRUHolds(c, n, B, U, h, R) ==
  /\ c \in LRUCaches(n, B) /\ Free(c, n, U)
  /\ Table(c, n, B, U, h) /\ Loose(c, n, U)
  /\ R \in [Nat -> Int] /\ Chained(c, n, U, RankOf(c, R)) /\ Apart(c, n, U)

Paged(c, n) == PageOf(c) \in [0..n -> Nat]

SameOn(M, f, g) == \A b \in M : g[b] = f[b]

LEMMA LatestAhead ==
  ASSUME NEW n \in Nat, NEW c, NEW d, NEW M, NEW E, NEW R, NEW R2, NEW a, NEW page,
         Paged(c, n), Paged(d, n), R \in [Nat -> Int],
         M \subseteq 0..n, a \in Ref(n), a # NULL, Latest(E, R, R2, page), PagesIn(c, M) \subseteq E,
         page \notin PagesIn(c, M), PageOf(d)[a] = page, SameOn(M, PageOf(c), PageOf(d))
  PROVE  Ahead(0..n, M, RankOf(c, R), RankOf(d, R2), a)
<1>1. R2 \in [Nat -> Int] /\ a \in 0..n
  BY DEF Latest, Ref
<1>2. \A b \in 0..n : RankOf(c, R)[b] = R[PageOf(c)[b]]
  BY DEF RankOf, Paged
<1>3. RankOf(d, R2) \in [0..n -> Int] /\ \A b \in 0..n : RankOf(d, R2)[b] = R2[PageOf(d)[b]]
  <2>1. DOMAIN PageOf(d) = 0..n /\ \A b \in 0..n : PageOf(d)[b] \in Nat
    BY DEF Paged
  <2> QED BY <1>1, <2>1 DEF RankOf
<1>4. ASSUME NEW b \in M
      PROVE  RankOf(d, R2)[b] = RankOf(c, R)[b] /\ RankOf(d, R2)[a] < RankOf(c, R)[b]
  <2>1. PageOf(c)[b] \in E /\ PageOf(c)[b] # page
    BY DEF PagesIn
  <2>2. R2[PageOf(c)[b]] = R[PageOf(c)[b]] /\ R2[page] < R[PageOf(c)[b]]
    BY <2>1 DEF Latest
  <2>3. b \in 0..n
    OBVIOUS
  <2>4. PageOf(d)[b] = PageOf(c)[b]
    BY DEF SameOn
  <2> QED BY <1>1, <1>2, <1>3, <2>2, <2>3, <2>4
<1> QED BY <1>3, <1>4 DEF Ahead

HittingPage(c, n, B, U, h, E, R, R2, a, page, is_write, d) ==
  /\ LRUHolds(c, n, B, U, h, R) /\ PagesIn(c, U) \subseteq E /\ Latest(E, R, R2, page)
  /\ a \in U /\ PageOf(c)[a] = page /\ is_write \in BOOLEAN /\ d = LRUHit(c, a, is_write)

LEMMA LRUHitHolds ==
  ASSUME NEW n \in Nat, NEW B \in Nat, NEW c, NEW U, NEW h, NEW E, NEW R, NEW R2, NEW a,
         NEW page, NEW is_write, NEW d,
         HittingPage(c, n, B, U, h, E, R, R2, a, page, is_write, d)
  PROVE  /\ LRUHolds(d, n, B, U, h, R2)
         /\ d.hit = c.hit + 1 /\ d.miss = c.miss /\ d.write_back = c.write_back
         /\ PagesIn(d, U) = PagesIn(c, U)
         /\ DirtyIn(d, U) = Written(DirtyIn(c, U), page, is_write)
<1>0. /\ LRUHolds(c, n, B, U, h, R) /\ PagesIn(c, U) \subseteq E /\ Latest(E, R, R2, page)
      /\ a \in U /\ PageOf(c)[a] = page /\ is_write \in BOOLEAN /\ d = LRUHit(c, a, is_write)
  BY DEF HittingPage
<1> USE <1>0
<1>1. /\ c \in LRUCaches(n, B) /\ Free(c, n, U) /\ Table(c, n, B, U, h) /\ Loose(c, n, U)
      /\ R \in [Nat -> Int] /\ Apart(c, n, U)
      /\ Ranked(0..n, U, RankOf(c, R))
      /\ Both(NextOf(c), PrevOf(c), c.head, c.tail, U, RankOf(c, R))
  BY DEF LRUHolds, Chained
<1>2. c \in Caches(n, B)
  BY <1>1 DEF Caches
<1>3. PageOf(c) \in [0..n -> Nat] /\ DirtyAt(c) \in [0..n -> BOOLEAN]
  BY <1>2, PoolOf, PoolFields
<1>4. U \subseteq 0..n /\ a \in 0..n /\ a # NULL
  BY <1>1 DEF Ranked
<1>5. \A a1, a2 \in U : PageOf(c)[a1] = PageOf(c)[a2] => a1 = a2
  BY <1>1 DEF Table
<1>6. Ahead(0..n, Dropping(U, a), RankOf(c, R), RankOf(c, R2), a)
  <2> DEFINE M == Dropping(U, a)
  <2>1. M \subseteq 0..n /\ PagesIn(c, M) \subseteq E
    BY <1>4 DEF Dropping, PagesIn
  <2>2. page \notin PagesIn(c, M)
    BY <1>5 DEF Dropping, PagesIn
  <2> HIDE DEF M
  <2>3. SameOn(M, PageOf(c), PageOf(c))
    BY DEF SameOn
  <2>4. Paged(c, n)
    BY <1>3 DEF Paged
  <2>5. a \in Ref(n) /\ a # NULL
    BY <1>4 DEF Ref
  <2>6. R \in [Nat -> Int] /\ PageOf(c)[a] = page
    BY <1>1
  <2>7. Ahead(0..n, M, RankOf(c, R), RankOf(c, R2), a)
    BY <2>1, <2>2, <2>3, <2>4, <2>5, <2>6, LatestAhead
  <2> QED BY <2>7 DEF M
<1>7. /\ d \in LRUCaches(n, B) /\ d.free_list = c.free_list /\ d.hit = c.hit + 1
      /\ d.miss = c.miss /\ d.write_back = c.write_back
      /\ SamePages(c, d)
      /\ DirtyAt(d) = SetAt(DirtyAt(c), a, DirtyAt(c)[a] \/ is_write)
      /\ SameOutside(0..n, U, NextOf(c), NextOf(d))
      /\ Both(NextOf(d), PrevOf(d), d.head, d.tail, U, RankOf(c, R2))
      /\ Ranked(0..n, U, RankOf(c, R2))
  BY <1>1, <1>6, LRUHitIs
<1>8. PageOf(d) = PageOf(c) /\ RankOf(d, R2) = RankOf(c, R2)
  BY <1>7 DEF SamePages, RankOf
<1>9. Table(d, n, B, U, h)
  BY <1>1, <1>7 DEF SamePages, Table, Bucket
<1>10. Loose(d, n, U)
  BY <1>1, <1>7 DEF SamePages, Loose
<1>11. Apart(d, n, U)
  BY <1>1, <1>7 DEF SameOutside, Apart
<1>12. Free(d, n, U)
  BY <1>1, <1>7, FreeKept
<1>13. Chained(d, n, U, RankOf(d, R2))
  BY <1>7, <1>8 DEF Chained
<1>14. LRUHolds(d, n, B, U, h, R2)
  BY <1>7, <1>9, <1>10, <1>11, <1>12, <1>13 DEF LRUHolds, Latest
<1>15. DirtyAt(c)[a] \in BOOLEAN /\ a \in DOMAIN DirtyAt(c)
  BY <1>3, <1>4
<1>16. /\ PagesIn(d, U) = PagesIn(c, U)
       /\ DirtyIn(d, U) = Written(DirtyIn(c, U), PageOf(c)[a], is_write)
  BY <1>4, <1>7, <1>8, <1>15, PagesHit
<1> QED BY <1>7, <1>14, <1>16

EnteringPage(c, n, B, M, h, E, R, R2, a, page, is_write, d) ==
  /\ Ready(c, n, B, M, h, RankOf(c, R), a) /\ Free(c, n, Adding(M, a))
  /\ R \in [Nat -> Int] /\ Apart(c, n, Adding(M, a)) /\ PagesIn(c, M) \subseteq E
  /\ page \notin PagesIn(c, M) /\ Latest(E, R, R2, page)
  /\ page \in Nat /\ is_write \in BOOLEAN /\ d = Entered(c, a, page, is_write)

LEMMA LRUEnteredHolds ==
  ASSUME NEW n \in Nat, NEW B \in Nat, NEW c, NEW M, NEW h, NEW E, NEW R, NEW R2, NEW a,
         NEW page, NEW is_write, NEW d,
         EnteringPage(c, n, B, M, h, E, R, R2, a, page, is_write, d)
  PROVE  /\ \E h2 : LRUHolds(d, n, B, Adding(M, a), h2, R2)
         /\ d.hit = c.hit /\ d.miss = c.miss + 1 /\ d.write_back = c.write_back
         /\ PagesIn(d, Adding(M, a)) = Adding(PagesIn(c, M), page)
         /\ DirtyIn(d, Adding(M, a)) = Written(DirtyIn(c, M), page, is_write)
<1>0. /\ c \in LRUCaches(n, B) /\ Table(c, n, B, M, h) /\ Chained(c, n, M, RankOf(c, R))
      /\ a \in Ref(n) /\ a # NULL /\ a \notin M
      /\ Ready(c, n, B, M, h, RankOf(c, R), a) /\ Free(c, n, Adding(M, a))
      /\ R \in [Nat -> Int] /\ Apart(c, n, Adding(M, a)) /\ PagesIn(c, M) \subseteq E
      /\ page \notin PagesIn(c, M) /\ Latest(E, R, R2, page)
      /\ page \in Nat /\ is_write \in BOOLEAN /\ d = Entered(c, a, page, is_write)
  BY DEF EnteringPage, Ready
<1> USE <1>0
<1>1. M \subseteq 0..n /\ a \in 0..n
  BY <1>0 DEF Chained, Ranked, Ref
<1>2. c \in Caches(n, B)
  BY <1>0 DEF Caches
<1>3. PageOf(c) \in [0..n -> Nat] /\ DirtyAt(c) \in [0..n -> BOOLEAN]
  BY <1>2, PoolOf, PoolFields
<1>4. PICK h2 : Ahead(0..n, M, h, h2, a)
  <2>1. h \in [0..n -> Int]
    BY <1>0 DEF Table, Ranked
  <2> QED BY <1>0, <1>1, <2>1, AheadExists
<1>5. PICK f : f = SetAt(PageOf(c), a, page)
  OBVIOUS
<1>6. f \in [0..n -> Nat] /\ f[a] = page /\ \A b \in M : f[b] = PageOf(c)[b]
  BY <1>0, <1>1, <1>3, <1>5 DEF SetAt
<1>7. PICK r2 : r2 = [b \in 0..n |-> R2[f[b]]]
  OBVIOUS
<1>8. Ahead(0..n, M, RankOf(c, R), r2, a)
  <2>1. ASSUME NEW b \in M
        PROVE  r2[b] = RankOf(c, R)[b] /\ r2[a] < RankOf(c, R)[b]
    <3>1. PageOf(c)[b] \in E /\ PageOf(c)[b] # page
      BY DEF PagesIn
    <3>2. R2[PageOf(c)[b]] = R[PageOf(c)[b]] /\ R2[page] < R[PageOf(c)[b]]
      BY <3>1 DEF Latest
    <3>3. RankOf(c, R)[b] = R[PageOf(c)[b]]
      BY <1>1, <1>3 DEF RankOf
    <3>4. r2[b] = R2[PageOf(c)[b]] /\ r2[a] = R2[page]
      BY <1>1, <1>6, <1>7
    <3> QED BY <3>2, <3>3, <3>4
  <2>2. r2 \in [0..n -> Int]
    BY <1>6, <1>7 DEF Latest
  <2> QED BY <2>1, <2>2 DEF Ahead
<1>10. /\ d \in LRUCaches(n, B) /\ d.free_list = c.free_list /\ d.hit = c.hit
       /\ d.miss = c.miss + 1 /\ d.write_back = c.write_back
       /\ PageOf(d) = SetAt(PageOf(c), a, page) /\ DirtyAt(d) = SetAt(DirtyAt(c), a, is_write)
       /\ Table(d, n, B, Adding(M, a), h2) /\ Loose(d, n, Adding(M, a))
       /\ Chained(d, n, Adding(M, a), r2)
       /\ SameOutside(0..n, Adding(M, a), NextOf(c), NextOf(d))
  <2>1. Entering(c, n, B, M, h, h2, RankOf(c, R), r2, a, page, is_write, d)
    BY <1>4, <1>8 DEF Entering
  <2> QED BY <2>1, LRUEnteredIs
<1>11. r2 = RankOf(d, R2)
  BY <1>5, <1>6, <1>7, <1>10 DEF RankOf
<1>12. Apart(d, n, Adding(M, a))
  BY <1>10 DEF Apart, SameOutside
<1>13. Free(d, n, Adding(M, a))
  BY <1>10, FreeKept
<1>14. LRUHolds(d, n, B, Adding(M, a), h2, R2)
  BY <1>10, <1>11, <1>12, <1>13 DEF LRUHolds, Latest
<1>15. Enters(c, d, M, a, page, is_write)
  BY <1>0, <1>1, <1>3, <1>10 DEF Enters
<1>16. /\ PagesIn(d, Adding(M, a)) = Adding(PagesIn(c, M), page)
       /\ DirtyIn(d, Adding(M, a)) = Written(DirtyIn(c, M), page, is_write)
  BY <1>15, PagesEntered
<1> QED BY <1>10, <1>14, <1>16

\* The last of the list has the highest rank of all.
LEMMA TailLast ==
  ASSUME NEW n \in Nat, NEW c, NEW U, NEW r, Chained(c, n, U, r), NEW a \in U
  PROVE  c.tail \in U /\ r[a] <= r[c.tail] /\ r[a] \in Int /\ r[c.tail] \in Int
<1>1. Ranked(0..n, U, r) /\ Both(NextOf(c), PrevOf(c), c.head, c.tail, U, r)
  BY DEF Chained
<1>2. c.tail \in U /\ NextOf(c)[c.tail] = NULL
  <2>1. PICK t : t = c.tail
    OBVIOUS
  <2>2. t \in U
    BY <1>1, <2>1, Mirror DEF Both
  <2>3. NextOf(c)[t] = NULL
    BY <1>1, <2>1, <2>2, Mirror DEF Both
  <2> QED BY <2>1, <2>2, <2>3
<1>3. r[a] <= r[c.tail]
  BY <1>1, <1>2 DEF Both, Linked
<1> QED BY <1>1, <1>2, <1>3 DEF Ranked

\* What a miss does to the pages: one enters, and when the cache is full the
\* one with the highest rank leaves.
Fills(c, d, P, D, P2, D2, page, is_write) ==
  /\ P2 = Adding(P, page) /\ D2 = Written(D, page, is_write)
  /\ d.write_back = c.write_back

Swaps(c, d, P, D, P2, D2, page, is_write, old) ==
  /\ old \in P
  /\ P2 = Adding(Dropping(P, old), page) /\ D2 = Written(Dropping(D, old), page, is_write)
  /\ d.write_back = c.write_back + IF old \in D THEN 1 ELSE 0

Highest(P, R, old) == \A p \in P : R[p] <= R[old]

LEMMA LRUMissHolds ==
  ASSUME NEW n \in Nat, NEW B \in Nat, NEW c, NEW U, NEW h, NEW E, NEW R, NEW R2,
         NEW page, NEW is_write, NEW d,
         LRUHolds(c, n, B, U, h, R), PagesIn(c, U) \subseteq E, Latest(E, R, R2, page),
         page \notin PagesIn(c, U), page \in Nat, is_write \in BOOLEAN,
         d = LRUMiss(c, page, is_write)
  PROVE  \E U2, h2 :
           /\ LRUHolds(d, n, B, U2, h2, R2) /\ d.hit = c.hit /\ d.miss = c.miss + 1
           /\ \/ U # 0..n /\ Fills(c, d, PagesIn(c, U), DirtyIn(c, U), PagesIn(d, U2),
                                   DirtyIn(d, U2), page, is_write)
              \/ U = 0..n /\ \E old :
                   /\ Swaps(c, d, PagesIn(c, U), DirtyIn(c, U), PagesIn(d, U2),
                            DirtyIn(d, U2), page, is_write, old)
                   /\ Highest(PagesIn(c, U), R, old)
<1>1. /\ c \in LRUCaches(n, B) /\ Free(c, n, U) /\ Table(c, n, B, U, h) /\ Loose(c, n, U)
      /\ R \in [Nat -> Int] /\ Chained(c, n, U, RankOf(c, R)) /\ Apart(c, n, U)
  BY DEF LRUHolds
<1>2. c \in Caches(n, B) /\ U \subseteq 0..n /\ NULL \notin 0..n
  BY <1>1 DEF Caches, Chained, Ranked
<1>3. PageOf(c) \in [0..n -> Nat] /\ DirtyAt(c) \in [0..n -> BOOLEAN]
  BY <1>2, PoolOf, PoolFields
<1>4. CASE FreeNode(c) # NULL
  <2>1. PICK a : a = FreeNode(c)
    OBVIOUS
  <2>2. a \in Ref(n) /\ a # NULL /\ a \notin U /\ U # 0..n
    BY <1>1, <1>4, <2>1, FreeNodeIs
  <2>3. PICK rest : rest = SubSeq(c.free_list, 1, Len(c.free_list) - 1)
    OBVIOUS
  <2>4. PICK e : e = [c EXCEPT !.free_list = rest]
    OBVIOUS
  <2>5. e.free_list = rest
    BY <1>1, <2>4 DEF LRUCaches
  <2>6. Free(e, n, Adding(U, a)) /\ rest \in Seq(0..n)
    BY <1>1, <2>1, <2>2, <2>3, <2>5, FreeTaken
  <2>7. /\ e \in LRUCaches(n, B) /\ e.nodes = c.nodes /\ e.buckets = c.buckets
        /\ e.head = c.head /\ e.tail = c.tail /\ e.hit = c.hit
        /\ e.miss = c.miss /\ e.write_back = c.write_back
    BY <1>1, <2>4, <2>6 DEF LRUCaches
  <2>8. d = Entered(e, a, page, is_write)
    BY <1>4, <2>1, <2>3, <2>4 DEF LRUMiss, Entered
  <2>9. /\ SamePages(c, e) /\ DirtyAt(e) = DirtyAt(c)
        /\ NextOf(e) = NextOf(c) /\ PrevOf(e) = PrevOf(c)
    BY <2>7, SameNodes
  <2>10. PageOf(e) = PageOf(c) /\ RankOf(e, R) = RankOf(c, R)
    BY <2>9 DEF SamePages, RankOf
  <2>11. Table(e, n, B, U, h)
    BY <1>1, <2>9 DEF SamePages, Table, Bucket
  <2>12. Loose(e, n, Adding(U, a)) /\ Apart(e, n, Adding(U, a))
    BY <1>1, <2>9 DEF SamePages, Loose, Apart, Adding
  <2>13. Chained(e, n, U, RankOf(e, R))
    BY <1>1, <2>7, <2>9, <2>10 DEF Chained
  <2>14. PagesIn(e, U) = PagesIn(c, U) /\ DirtyIn(e, U) = DirtyIn(c, U)
    BY <2>9, <2>10 DEF PagesIn, DirtyIn
  <2>15. /\ \E h2 : LRUHolds(d, n, B, Adding(U, a), h2, R2)
         /\ d.hit = e.hit /\ d.miss = e.miss + 1 /\ d.write_back = e.write_back
         /\ PagesIn(d, Adding(U, a)) = Adding(PagesIn(e, U), page)
         /\ DirtyIn(d, Adding(U, a)) = Written(DirtyIn(e, U), page, is_write)
    <3>1. Ready(e, n, B, U, h, RankOf(e, R), a)
      BY <2>2, <2>7, <2>11, <2>12, <2>13 DEF Ready
    <3>2. EnteringPage(e, n, B, U, h, E, R, R2, a, page, is_write, d)
      BY <1>1, <2>6, <2>8, <2>12, <2>14, <3>1 DEF EnteringPage
    <3> QED BY <3>2, LRUEnteredHolds
  <2> QED BY <2>2, <2>7, <2>14, <2>15 DEF Fills
<1>5. CASE FreeNode(c) = NULL
  <2>1. U = 0..n
    BY <1>1, <1>5, FreeNodeIs
  <2>2. PICK v : v = c.tail
    OBVIOUS
  <2>3. PICK e : e = LRUEvict(c)
    OBVIOUS
  <2>4. U # {}
    BY <2>1
  <2>5. /\ e \in LRUCaches(n, B) /\ e.free_list = c.free_list /\ e.hit = c.hit
        /\ e.miss = c.miss /\ v \in U
        /\ e.write_back = c.write_back + (IF DirtyAt(c)[v] THEN 1 ELSE 0)
        /\ PageOf(e) = PageOf(c) /\ DirtyAt(e) = DirtyAt(c)
        /\ Table(e, n, B, Dropping(U, v), h) /\ Loose(e, n, U)
        /\ Chained(e, n, Dropping(U, v), RankOf(c, R))
        /\ SameOutside(0..n, U, NextOf(c), NextOf(e))
    BY <1>1, <2>2, <2>3, <2>4, LRUEvictIs
  <2>6. d = Entered(e, v, page, is_write)
    BY <1>5, <2>2, <2>3 DEF LRUMiss, Entered
  <2>7. PICK M : M = Dropping(U, v)
    OBVIOUS
  <2>8. Adding(M, v) = U /\ v \notin M
    BY <2>5, <2>7 DEF Adding, Dropping
  <2>9. RankOf(e, R) = RankOf(c, R)
    BY <2>5 DEF RankOf
  <2>10. \A a1, a2 \in U : PageOf(c)[a1] = PageOf(c)[a2] => a1 = a2
    BY <1>1 DEF Table
  <2>11. /\ PagesIn(e, M) = Dropping(PagesIn(c, U), PageOf(c)[v])
         /\ DirtyIn(e, M) = Dropping(DirtyIn(c, U), PageOf(c)[v])
         /\ PageOf(c)[v] \in DirtyIn(c, U) <=> DirtyAt(c)[v]
         /\ PageOf(c)[v] \in PagesIn(c, U)
    <3>1. v \in U /\ PageOf(e) = PageOf(c) /\ DirtyAt(e) = DirtyAt(c)
      BY <2>5
    <3> QED BY <2>7, <2>10, <3>1, PagesDropped
  <2>12. v \in Ref(n) /\ v # NULL
    BY <1>2, <2>5 DEF Ref
  <2>13. Free(e, n, Adding(M, v)) /\ Loose(e, n, Adding(M, v))
    BY <1>1, <2>5, <2>8, FreeKept
  <2>14. Apart(e, n, Adding(M, v))
    BY <1>1, <2>5, <2>8 DEF Apart, SameOutside
  <2>15. /\ \E h2 : LRUHolds(d, n, B, Adding(M, v), h2, R2)
         /\ d.hit = e.hit /\ d.miss = e.miss + 1 /\ d.write_back = e.write_back
         /\ PagesIn(d, Adding(M, v)) = Adding(PagesIn(e, M), page)
         /\ DirtyIn(d, Adding(M, v)) = Written(DirtyIn(e, M), page, is_write)
    <3>1. PagesIn(e, M) \subseteq E /\ page \notin PagesIn(e, M)
      BY <2>11 DEF Dropping
    <3>2. Ready(e, n, B, M, h, RankOf(e, R), v)
      BY <2>5, <2>7, <2>8, <2>9, <2>12, <2>13 DEF Ready
    <3>3. EnteringPage(e, n, B, M, h, E, R, R2, v, page, is_write, d)
      BY <1>1, <2>6, <2>13, <2>14, <3>1, <3>2 DEF EnteringPage
    <3> QED BY <3>3, LRUEnteredHolds
  <2>16. Highest(PagesIn(c, U), R, PageOf(c)[v])
    <3>1. ASSUME NEW a \in U PROVE R[PageOf(c)[a]] <= R[PageOf(c)[v]]
      <4>1. RankOf(c, R)[a] <= RankOf(c, R)[v]
        BY <1>1, <2>2, TailLast
      <4>2. RankOf(c, R)[a] = R[PageOf(c)[a]] /\ RankOf(c, R)[v] = R[PageOf(c)[v]]
        BY <1>2, <1>3, <2>5 DEF RankOf
      <4> QED BY <4>1, <4>2
    <3> QED BY <3>1 DEF Highest, PagesIn
  <2>17. Swaps(c, d, PagesIn(c, U), DirtyIn(c, U), PagesIn(d, U), DirtyIn(d, U), page,
               is_write, PageOf(c)[v])
    BY <2>5, <2>8, <2>11, <2>15 DEF Swaps
  <2>18. PICK h2 : LRUHolds(d, n, B, U, h2, R2)
    BY <2>8, <2>15
  <2> QED BY <2>1, <2>5, <2>15, <2>16, <2>17, <2>18
<1> QED BY <1>4, <1>5

\* The walk along the list gives the pages by their last use.
LEMMA StackIs ==
  ASSUME NEW n \in Nat, NEW B \in Nat, NEW c, NEW U, NEW h, NEW R, LRUHolds(c, n, B, U, h, R)
  PROVE  Visits(Pages(c, c.head), PagesIn(c, U), R)
<1> DEFINE nx == NextOf(c)
           f  == PageOf(c)
           r  == RankOf(c, R)
           Steps(w) == w = [a \in DOMAIN c.nodes \cup {NULL} |->
                              IF a = NULL THEN <<>> ELSE <<a>> \o w[c.nodes[a].next]]
<1>1. /\ c \in LRUCaches(n, B) /\ R \in [Nat -> Int] /\ Apart(c, n, U)
      /\ Ranked(0..n, U, r) /\ Both(nx, PrevOf(c), c.head, c.tail, U, r)
  BY DEF LRUHolds, Chained
<1>2. c \in Caches(n, B) /\ IsPool(c, n, B)
  BY <1>1, PoolOf DEF Caches
<1>3. /\ DOMAIN c.nodes = 0..n /\ nx \in [0..n -> 0..n \cup {NULL}]
      /\ \A a \in 0..n : nx[a] = c.nodes[a].next
      /\ f \in [0..n -> Nat] /\ \A a \in 0..n : f[a] = c.nodes[a].page_number
  BY <1>2, PoolFields DEF Ref
<1>4. r \in [0..n -> Int] /\ U \subseteq 0..n /\ NULL \notin 0..n /\ Linked(nx, c.head, U, r)
  BY <1>1 DEF Ranked, Both
<1>5. \A a \in 0..n : r[a] = R[f[a]]
  BY <1>3 DEF RankOf
<1>6. ASSUME NEW a \in 0..n, nx[a] # NULL PROVE r[a] < r[nx[a]]
  <2>1. a \in U
    BY <1>1, <1>6 DEF Apart
  <2> HIDE DEF nx, r
  <2> QED BY <1>4, <1>6, <2>1 DEF Linked
<1> HIDE DEF nx, r, f
<1>7. PICK g \in [0..n \cup {NULL} -> Seq(0..n)] : IsWalk(g, 0..n, nx)
  BY <1>3, <1>4, <1>6, WalkExists
<1>8. Steps(g)
  <2>1. g = [a \in 0..n \cup {NULL} |-> g[a]] /\ g[NULL] = <<>>
        /\ \A a \in 0..n : g[a] = <<a>> \o g[nx[a]]
    BY <1>7 DEF IsWalk
  <2> QED BY <1>3, <1>4, <2>1
<1> DEFINE w == CHOOSE g1 : Steps(g1)
<1>9. Steps(w)
  BY <1>8, Zenon
<1>10. Nodes(c, c.head) = w[c.head]
  BY DEF Nodes
<1> HIDE DEF w
<1>11. IsWalk(w, 0..n, nx)
  <2>1. w[NULL] = <<>> /\ \A a \in 0..n : w[a] = <<a>> \o w[nx[a]]
    BY <1>3, <1>4, <1>9
  <2> QED BY <2>1 DEF IsWalk
<1>12. PICK first : first = c.head
  OBVIOUS
<1>13. PICK q : q = w[first]
  OBVIOUS
<1>14. Visits(q, U, r)
  <2>1. Ranked(0..n, U, r) /\ Linked(nx, first, U, r)
    BY <1>1, <1>4, <1>12
  <2> QED BY <1>11, <1>13, <2>1, WalkIs
<1>15. PICK p : p = Pages(c, c.head)
  OBVIOUS
<1>16. /\ Len(q) \in Nat /\ DOMAIN q = 1..Len(q)
       /\ \A k \in 1..Len(q) : q[k] \in U
       /\ \A b \in U : \E k \in 1..Len(q) : q[k] = b
  BY <1>14, VisitsDomain
<1>17. p = [k \in 1..Len(q) |-> c.nodes[q[k]].page_number]
  BY <1>10, <1>12, <1>13, <1>15, <1>16 DEF Pages
<1>18. \A k \in 1..Len(q) : p[k] = f[q[k]]
  BY <1>3, <1>4, <1>16, <1>17
<1>19. PICK m \in Nat : m = Len(q)
  BY <1>16
<1>20. p \in [1..m -> PagesIn(c, U)]
  BY <1>16, <1>17, <1>18, <1>19 DEF PagesIn, f
<1>21. p \in Seq(PagesIn(c, U)) /\ Len(p) = m
  <2>1. p \in Seq(PagesIn(c, U))
    BY <1>20, SequenceOf
  <2> QED BY <1>20, <2>1
<1>22. Elements(p) = PagesIn(c, U)
  <2>1. DOMAIN p = 1..m /\ \A k \in 1..m : p[k] = f[q[k]] /\ q[k] \in U
    BY <1>16, <1>18, <1>19, <1>20
  <2>2. \A b \in U : \E k \in 1..m : q[k] = b
    BY <1>16, <1>19
  <2>3. Elements(p) \subseteq PagesIn(c, U)
    BY <2>1 DEF Elements, PagesIn, f
  <2>4. ASSUME NEW b \in U PROVE f[b] \in Elements(p)
    <3>1. PICK k \in 1..m : q[k] = b
      BY <2>2
    <3> QED BY <2>1, <3>1 DEF Elements
  <2> QED BY <2>3, <2>4 DEF PagesIn, f
<1>23. ASSUME NEW i \in 1..m, NEW j \in 1..m, i < j PROVE R[p[i]] < R[p[j]]
  <2>1. r[q[i]] < r[q[j]]
    BY <1>14, <1>19, <1>23 DEF Visits
  <2>2. q[i] \in 0..n /\ q[j] \in 0..n /\ p[i] = f[q[i]] /\ p[j] = f[q[j]]
    BY <1>4, <1>16, <1>18, <1>19
  <2> QED BY <1>5, <2>1, <2>2
<1> QED BY <1>15, <1>21, <1>22, <1>23 DEF Visits

---------------------------------------------------------------------------
(* The caches in terms of pages.                                           *)

\* How many nodes are used.
LEMMA UsedCount ==
  ASSUME NEW n \in Nat, NEW B \in Nat, NEW c, NEW U, NEW h, Free(c, n, U),
         Table(c, n, B, U, h)
  PROVE  /\ IsFiniteSet(PagesIn(c, U)) /\ Cardinality(PagesIn(c, U)) \in 0..(n + 1)
         /\ Cardinality(PagesIn(c, U)) = n + 1 <=> U = 0..n
<1>1. PICK m \in 0..(n + 1) : U = m..n
  BY DEF Free
<1>2. IsFiniteSet(U) /\ Cardinality(U) = n - m + 1
  <2>1. CASE m > n
    <3>1. U = {} /\ n - m + 1 = 0
      BY <1>1, <2>1
    <3> QED BY <3>1, FS_EmptySet
  <2>2. CASE m <= n
    BY <1>1, <2>2, FS_Interval
  <2> QED BY <2>1, <2>2
<1>3. PICK f : f = [a \in U |-> PageOf(c)[a]]
  OBVIOUS
<1>4. f \in Bijection(U, PagesIn(c, U))
  <2>1. \A a1, a2 \in U : f[a1] = f[a2] => a1 = a2
    BY <1>3 DEF Table
  <2>2. f \in [U -> PagesIn(c, U)] /\ \A p \in PagesIn(c, U) : \E a \in U : f[a] = p
    BY <1>3 DEF PagesIn
  <2>3. f \in Injection(U, PagesIn(c, U))
    BY <2>1, <2>2 DEF Injection, IsInjective
  <2>4. f \in Surjection(U, PagesIn(c, U))
    BY <2>2 DEF Surjection
  <2> QED BY <2>3, <2>4 DEF Bijection
<1>5. IsFiniteSet(PagesIn(c, U)) /\ Cardinality(PagesIn(c, U)) = n - m + 1
  BY <1>2, <1>4, FS_Bijection DEF ExistsBijection
<1> QED BY <1>1, <1>5

Hits(c, d, page, is_write) ==
  /\ page \in CachedPages(c) /\ CachedPages(d) = CachedPages(c)
  /\ DirtyPages(d) = Written(DirtyPages(c), page, is_write)
  /\ d.hit = c.hit + 1 /\ d.miss = c.miss /\ d.write_back = c.write_back

Misses(c, d, page) ==
  page \notin CachedPages(c) /\ d.hit = c.hit /\ d.miss = c.miss + 1

FillsPage(c, d, page, is_write) ==
  Fills(c, d, CachedPages(c), DirtyPages(c), CachedPages(d), DirtyPages(d), page, is_write)

SwapsPage(c, d, page, is_write, old) ==
  Swaps(c, d, CachedPages(c), DirtyPages(c), CachedPages(d), DirtyPages(d), page, is_write, old)

LRUKeeps(c, n, B, R) == \E U, h : LRUHolds(c, n, B, U, h, R)

\* The cache holds n + 1 pages at most.
Room(c, n) ==
  /\ IsFiniteSet(CachedPages(c)) /\ Cardinality(CachedPages(c)) \in 0..(n + 1)
  /\ CachedPages(c) \subseteq Nat /\ DirtyPages(c) \subseteq CachedPages(c)
  /\ c.hit \in Nat /\ c.miss \in Nat /\ c.write_back \in Nat

LEMMA LRUPages ==
  ASSUME NEW n \in Nat, NEW B \in Nat, NEW c, NEW U, NEW h, NEW R, LRUHolds(c, n, B, U, h, R)
  PROVE  /\ CachedPages(c) = PagesIn(c, U) /\ DirtyPages(c) = DirtyIn(c, U)
         /\ Room(c, n)
         /\ Cardinality(CachedPages(c)) = n + 1 <=> U = 0..n
<1>1. /\ c \in LRUCaches(n, B) /\ Free(c, n, U) /\ Table(c, n, B, U, h) /\ Loose(c, n, U)
      /\ U \subseteq 0..n
  BY DEF LRUHolds, Chained, Ranked
<1>2. IsPool(c, n, B)
  BY <1>1, PoolOf DEF Caches
<1>3. CachedPages(c) = PagesIn(c, U) /\ DirtyPages(c) = DirtyIn(c, U)
  BY <1>1, <1>2, HeldIs
<1>4. /\ IsFiniteSet(PagesIn(c, U)) /\ Cardinality(PagesIn(c, U)) \in 0..(n + 1)
      /\ Cardinality(PagesIn(c, U)) = n + 1 <=> U = 0..n
  BY <1>1, UsedCount
<1>5. PagesIn(c, U) \subseteq Nat
  <2>1. PageOf(c) \in [0..n -> Nat]
    BY <1>2, PoolFields
  <2> QED BY <1>1, <2>1 DEF PagesIn
<1>6. DirtyIn(c, U) \subseteq PagesIn(c, U)
  BY DEF DirtyIn, PagesIn
<1>7. c.hit \in Nat /\ c.miss \in Nat /\ c.write_back \in Nat
  BY <1>1 DEF LRUCaches
<1> QED BY <1>3, <1>4, <1>5, <1>6, <1>7 DEF Room

LEMMA LRUKeepsIs ==
  ASSUME NEW n \in Nat, NEW B \in Nat, NEW c, NEW R, LRUKeeps(c, n, B, R)
  PROVE  Visits(Pages(c, c.head), CachedPages(c), R) /\ Room(c, n) /\ R \in [Nat -> Int]
<1>1. PICK U, h : LRUHolds(c, n, B, U, h, R)
  BY DEF LRUKeeps
<1>2. CachedPages(c) = PagesIn(c, U) /\ Room(c, n)
  BY <1>1, LRUPages
<1>3. Visits(Pages(c, c.head), PagesIn(c, U), R)
  BY <1>1, StackIs
<1> QED BY <1>1, <1>2, <1>3 DEF LRUHolds

LRUSteps(c, d, n, R, page, is_write) ==
  \/ Hits(c, d, page, is_write)
  \/ /\ Misses(c, d, page) /\ FillsPage(c, d, page, is_write)
     /\ Cardinality(CachedPages(c)) # n + 1
  \/ /\ Misses(c, d, page) /\ Cardinality(CachedPages(c)) = n + 1
     /\ \E old : SwapsPage(c, d, page, is_write, old) /\ Highest(CachedPages(c), R, old)

LRUAccesses(c, n, B, E, R, R2, page, is_write, d) ==
  /\ LRUKeeps(c, n, B, R) /\ CachedPages(c) \subseteq E /\ Latest(E, R, R2, page)
  /\ page \in Nat /\ is_write \in BOOLEAN /\ d = LRUAccess(c, page, is_write)

LEMMA LRUAccessIs ==
  ASSUME NEW n \in Nat, NEW B \in Nat, NEW c, NEW E, NEW R, NEW R2, NEW page, NEW is_write,
         NEW d, LRUAccesses(c, n, B, E, R, R2, page, is_write, d)
  PROVE  LRUKeeps(d, n, B, R2) /\ LRUSteps(c, d, n, R, page, is_write)
<1>1. /\ LRUKeeps(c, n, B, R) /\ CachedPages(c) \subseteq E /\ Latest(E, R, R2, page)
      /\ page \in Nat /\ is_write \in BOOLEAN /\ d = LRUAccess(c, page, is_write)
  BY DEF LRUAccesses
<1>2. PICK U, h : LRUHolds(c, n, B, U, h, R)
  BY <1>1 DEF LRUKeeps
<1>3. /\ CachedPages(c) = PagesIn(c, U) /\ DirtyPages(c) = DirtyIn(c, U)
      /\ Cardinality(CachedPages(c)) = n + 1 <=> U = 0..n
  BY <1>2, LRUPages
<1>4. /\ c \in LRUCaches(n, B) /\ Table(c, n, B, U, h) /\ Loose(c, n, U)
      /\ U \subseteq 0..n /\ NULL \notin U
  BY <1>2 DEF LRUHolds, Chained, Ranked
<1>5. IsPool(c, n, B)
  BY <1>4, PoolOf DEF Caches
<1>6. PICK a : a = get(c, page)
  OBVIOUS
<1>7. \/ a = NULL /\ \A b \in U : PageOf(c)[b] # page
      \/ a \in U /\ PageOf(c)[a] = page
  BY <1>1, <1>4, <1>5, <1>6, GetIs
<1>8. PagesIn(c, U) \subseteq E
  BY <1>1, <1>3
<1>9. CASE a \in U
  <2>1. d = LRUHit(c, a, is_write)
    BY <1>1, <1>4, <1>6, <1>9 DEF LRUAccess
  <2>2. PageOf(c)[a] = page
    BY <1>4, <1>7, <1>9
  <2>3. /\ LRUHolds(d, n, B, U, h, R2)
        /\ d.hit = c.hit + 1 /\ d.miss = c.miss /\ d.write_back = c.write_back
        /\ PagesIn(d, U) = PagesIn(c, U)
        /\ DirtyIn(d, U) = Written(DirtyIn(c, U), page, is_write)
    <3>1. HittingPage(c, n, B, U, h, E, R, R2, a, page, is_write, d)
      BY <1>1, <1>2, <1>8, <1>9, <2>1, <2>2 DEF HittingPage
    <3> QED BY <3>1, LRUHitHolds
  <2>4. CachedPages(d) = PagesIn(d, U) /\ DirtyPages(d) = DirtyIn(d, U)
    BY <2>3, LRUPages
  <2>5. page \in PagesIn(c, U)
    BY <1>9, <2>2 DEF PagesIn
  <2>6. Hits(c, d, page, is_write)
    BY <1>3, <2>3, <2>4, <2>5 DEF Hits
  <2> QED BY <2>3, <2>6 DEF LRUKeeps, LRUSteps
<1>10. CASE a = NULL
  <2>1. d = LRUMiss(c, page, is_write)
    BY <1>1, <1>6, <1>10 DEF LRUAccess
  <2>2. page \notin PagesIn(c, U)
    BY <1>4, <1>7, <1>10 DEF PagesIn
  <2>3. PICK U2, h2 :
           /\ LRUHolds(d, n, B, U2, h2, R2) /\ d.hit = c.hit /\ d.miss = c.miss + 1
           /\ \/ U # 0..n /\ Fills(c, d, PagesIn(c, U), DirtyIn(c, U), PagesIn(d, U2),
                                   DirtyIn(d, U2), page, is_write)
              \/ U = 0..n /\ \E old :
                   /\ Swaps(c, d, PagesIn(c, U), DirtyIn(c, U), PagesIn(d, U2),
                            DirtyIn(d, U2), page, is_write, old)
                   /\ Highest(PagesIn(c, U), R, old)
    BY <1>1, <1>2, <1>8, <2>1, <2>2, LRUMissHolds
  <2>4. CachedPages(d) = PagesIn(d, U2) /\ DirtyPages(d) = DirtyIn(d, U2)
    BY <2>3, LRUPages
  <2>5. Misses(c, d, page)
    BY <1>3, <2>2, <2>3 DEF Misses
  <2>6. \/ U # 0..n /\ FillsPage(c, d, page, is_write)
        \/ U = 0..n /\ \E old : SwapsPage(c, d, page, is_write, old)
                                 /\ Highest(CachedPages(c), R, old)
    BY <1>3, <2>3, <2>4 DEF FillsPage, SwapsPage
  <2>7. LRUSteps(c, d, n, R, page, is_write)
    BY <1>3, <2>5, <2>6 DEF LRUSteps
  <2> QED BY <2>3, <2>7 DEF LRUKeeps
<1> QED BY <1>7, <1>9, <1>10

---------------------------------------------------------------------------
(* At the start.                                                           *)

LEMMA TableSizeIs ==
  ASSUME NEW frames \in Nat, frames # 0
  PROVE  TableSize(frames) \in Nat /\ TableSize(frames) >= 1
<1> DEFINE N == 2 * frames
           F == [x \in (0..N) \X Nat |-> IF x[2] < N THEN 2 * x[2] ELSE x[2]]
           Steps(s) == s = [k \in 0..N |-> IF k = 0 THEN 1
                                 ELSE LET t == s[k - 1] IN IF t < N THEN 2 * t ELSE t]
<1>1. N \in Nat /\ N \in Int /\ 0 \in Int /\ 0 <= N /\ 1 \in Nat
  OBVIOUS
<1>2. F \in [(0..N) \X Nat -> Nat]
  <2>1. ASSUME NEW x \in (0..N) \X Nat PROVE (IF x[2] < N THEN 2 * x[2] ELSE x[2]) \in Nat
    <3>1. x[2] \in Nat
      OBVIOUS
    <3> QED BY <3>1
  <2> QED BY <2>1
<1>3. PICK s : IsLoop(s, 0, N, Nat, 1, F)
  <2> HIDE DEF N, F
  <2> QED BY <1>1, <1>2, LoopExists
<1>4. Steps(s)
  <2>1. s \in [0..N -> Nat] /\ s[0] = 1 /\ \A j \in 0..N : j # 0 => s[j] = F[<<j, s[j - 1]>>]
    BY <1>3 DEF IsLoop
  <2>2. ASSUME NEW k \in 0..N
        PROVE  s[k] = IF k = 0 THEN 1 ELSE IF s[k - 1] < N THEN 2 * s[k - 1] ELSE s[k - 1]
    <3>1. CASE k = 0
      BY <2>1, <3>1
    <3>2. CASE k # 0
      <4>1. k - 1 \in 0..N /\ s[k - 1] \in Nat
        BY <2>1, <3>2
      <4>2. F[<<k, s[k - 1]>>] = IF s[k - 1] < N THEN 2 * s[k - 1] ELSE s[k - 1]
        BY <4>1
      <4> QED BY <2>1, <3>2, <4>2
    <3> QED BY <3>1, <3>2
  <2> HIDE DEF N
  <2> QED BY <2>1, <2>2
<1> DEFINE w == CHOOSE t : Steps(t)
<1>5. Steps(w)
  BY <1>4, Zenon
<1>6. TableSize(frames) = w[N]
  BY DEF TableSize
<1> HIDE DEF w
<1>7. \A k \in 0..N : w[k] = IF k = 0 THEN 1 ELSE IF w[k - 1] < N THEN 2 * w[k - 1] ELSE w[k - 1]
  BY <1>5
<1> DEFINE T == {k \in 0..N : w[k] \in Nat /\ w[k] >= 1}
<1>8. 0 \in T
  BY <1>1, <1>7
<1>9. ASSUME NEW j \in 0..(N - 1), j \in T PROVE j + 1 \in T
  <2>1. j + 1 \in 0..N /\ j + 1 # 0 /\ (j + 1) - 1 = j
    BY <1>1
  <2>2. w[j + 1] = IF w[j] < N THEN 2 * w[j] ELSE w[j]
    BY <1>7, <2>1
  <2> QED BY <1>9, <2>1, <2>2
<1>10. N \in T
  <2> HIDE DEF T, N
  <2>1. 0 \in Int /\ N \in Int /\ N \in 0..N
    BY <1>1
  <2>2. 0..N \subseteq T
    BY <1>8, <1>9, <2>1, IntervalInduction
  <2> QED BY <2>1, <2>2
<1> QED BY <1>6, <1>10

LEMMA LRUNewKeeps ==
  ASSUME NEW frames \in Nat, frames # 0, NEW R, R \in [Nat -> Int], NEW c, c = LRUNew(frames)
  PROVE  /\ LRUKeeps(c, frames - 1, TableSize(frames) - 1, R)
         /\ CachedPages(c) = {} /\ DirtyPages(c) = {} /\ c.head = NULL
         /\ c.hit = 0 /\ c.miss = 0 /\ c.write_back = 0
<1>1. PICK n \in Nat : n = frames - 1
  OBVIOUS
<1>2. PICK B \in Nat : B = TableSize(frames) - 1
  BY TableSizeIs
<1>3. PICK h : h = [a \in 0..n |-> 0]
  OBVIOUS
<1>4. /\ c.nodes = [a \in 0..n |-> NoPage] /\ c.buckets = [b \in 0..B |-> NULL]
      /\ c.free_list = [k \in 1..frames |-> k - 1] /\ c.head = NULL /\ c.tail = NULL
      /\ c.hit = 0 /\ c.miss = 0 /\ c.write_back = 0
  BY <1>1, <1>2 DEF LRUNew, EmptyTable
<1>5. NoPage \in PageNode(n) /\ NULL \in Ref(n)
  BY DEF NoPage, PageNode, Ref
<1>6. c.free_list \in Seq(0..n)
  <2>1. c.free_list \in [1..frames -> 0..n]
    BY <1>1, <1>4
  <2> QED BY <2>1, SequenceOf
<1>7. c \in LRUCaches(n, B)
  <2>1. c = [nodes |-> c.nodes, free_list |-> c.free_list, buckets |-> c.buckets,
             head |-> c.head, tail |-> c.tail, hit |-> c.hit, miss |-> c.miss,
             write_back |-> c.write_back]
    BY DEF LRUNew
  <2>2. c.nodes \in [0..n -> PageNode(n)] /\ c.buckets \in [0..B -> Ref(n)]
    BY <1>4, <1>5
  <2>3. c.head \in Ref(n) /\ c.tail \in Ref(n) /\ c.hit \in Nat /\ c.miss \in Nat
        /\ c.write_back \in Nat
    BY <1>4, <1>5
  <2> QED BY <1>6, <2>1, <2>2, <2>3 DEF LRUCaches
<1>8. IsPool(c, n, B)
  BY <1>7, PoolOf DEF Caches
<1>9. Free(c, n, {})
  <2>1. (n + 1)..n = {} /\ n + 1 \in 0..(n + 1) /\ frames = n + 1
    BY <1>1
  <2> QED BY <1>4, <2>1 DEF Free
<1>10. NULL \notin 0..n
  BY DEF NULL
<1>11. \A r : r \in [0..n -> Int] => Ranked(0..n, {}, r)
  BY <1>10 DEF Ranked
<1>12. \A nx, r : Linked(nx, NULL, {}, r)
  BY DEF Linked
<1>13. Table(c, n, B, {}, h)
  <2>1. ASSUME NEW b \in 0..B PROVE Linked(HashNext(c), c.buckets[b], Bucket(c, B, {}, b), h)
    <3>1. Bucket(c, B, {}, b) = {} /\ c.buckets[b] = NULL
      BY <1>4 DEF Bucket
    <3> QED BY <1>12, <3>1
  <2>2. Ranked(0..n, {}, h)
    BY <1>3, <1>11
  <2> QED BY <2>1, <2>2 DEF Table
<1>14. \A a \in 0..n : c.nodes[a].hash_next = NULL /\ c.nodes[a].next = NULL
                         /\ c.nodes[a].page_number \in Nat
  BY <1>4 DEF NoPage
<1>15. Loose(c, n, {}) /\ Apart(c, n, {})
  <2>1. DOMAIN c.nodes = 0..n
    BY <1>4
  <2>2. \A a \in 0..n : HashNext(c)[a] = NULL /\ NextOf(c)[a] = NULL
    BY <1>14, <2>1 DEF HashNext, NextOf
  <2> QED BY <2>2 DEF Loose, Apart
<1>16. Chained(c, n, {}, RankOf(c, R))
  <2>1. PageOf(c) \in [0..n -> Nat]
    BY <1>8, PoolFields
  <2>2. RankOf(c, R) \in [0..n -> Int]
    BY <2>1 DEF RankOf
  <2> QED BY <1>4, <1>11, <1>12, <2>2 DEF Chained, Both
<1>17. LRUHolds(c, n, B, {}, h, R)
  BY <1>7, <1>9, <1>13, <1>15, <1>16 DEF LRUHolds
<1>18. CachedPages(c) = {} /\ DirtyPages(c) = {}
  <2>1. CachedPages(c) = PagesIn(c, {}) /\ DirtyPages(c) = DirtyIn(c, {})
    BY <1>17, LRUPages
  <2> QED BY <2>1 DEF PagesIn, DirtyIn
<1> QED BY <1>1, <1>2, <1>4, <1>17, <1>18 DEF LRUKeeps

---------------------------------------------------------------------------
(* The trace so far.                                                       *)

\* E are its pages and R is their order, the last used first.
Ordered(q, E, R) == R \in [Nat -> Int] /\ E \subseteq Nat /\ Visits(q, E, R)

LEMMA OrderedIs ==
  ASSUME NEW q, NEW E, NEW R, Ordered(q, E, R), NEW p \in E, NEW p2 \in E
  PROVE  R[p] \in Int /\ (R[p] = R[p2] => p = p2)
<1>1. Visits(q, E, R) /\ R[p] \in Int
  BY DEF Ordered
<1>2. /\ Len(q) \in Nat /\ DOMAIN q = 1..Len(q)
      /\ \A b \in E : \E k \in 1..Len(q) : q[k] = b
  BY <1>1, VisitsDomain
<1>3. PICK i \in 1..Len(q) : q[i] = p
  BY <1>2
<1>4. PICK j \in 1..Len(q) : q[j] = p2
  BY <1>2
<1>5. R[p2] \in Int
  BY DEF Ordered
<1>6. CASE i < j
  BY <1>1, <1>3, <1>4, <1>5, <1>6 DEF Visits
<1>7. CASE j < i
  BY <1>1, <1>3, <1>4, <1>5, <1>7 DEF Visits
<1>8. CASE i = j
  BY <1>1, <1>3, <1>4, <1>8
<1> QED BY <1>2, <1>6, <1>7, <1>8

LEMMA LatestExists ==
  ASSUME NEW q, NEW E, NEW R, Ordered(q, E, R), NEW page \in Nat
  PROVE  \E R2 : Latest(E, R, R2, page) /\ Ordered(Used(q, page), Adding(E, page), R2)
<1>1. R \in [Nat -> Int] /\ E \subseteq Nat /\ Visits(q, E, R)
  BY DEF Ordered
<1>2. /\ Len(q) \in Nat /\ DOMAIN q = 1..Len(q)
      /\ \A k \in 1..Len(q) : q[k] \in E
      /\ \A b \in E : \E k \in 1..Len(q) : q[k] = b
  BY <1>1, VisitsDomain
<1>3. PICK k \in Int : \A b \in E : b # page => k < R[b]
  <2>1. CASE Len(q) = 0
    <3>1. E = {}
      BY <1>2, <2>1
    <3> QED BY <3>1
  <2>2. CASE Len(q) # 0
    <3>0. 1 \in 1..Len(q)
      BY <1>2, <2>2
    <3>1. 1 \in 1..Len(q) /\ q[1] \in E /\ R[q[1]] \in Int
      BY <1>1, <1>2, <3>0
    <3>2. PICK j \in Int : j = R[q[1]] - 1
      BY <3>1
    <3>3. ASSUME NEW b \in E PROVE j < R[b]
      <4>1. PICK i \in 1..Len(q) : q[i] = b
        BY <1>2
      <4>2. R[b] \in Int
        BY <1>1
      <4>3. i = 1 \/ R[q[1]] < R[q[i]]
        BY <1>1, <1>2, <3>1 DEF Visits
      <4> QED BY <3>1, <3>2, <4>1, <4>2, <4>3
    <3> QED BY <3>3
  <2> QED BY <1>2, <2>1, <2>2
<1>4. PICK R2 : R2 = [R EXCEPT ![page] = k]
  OBVIOUS
<1>5. R2 \in [Nat -> Int] /\ R2[page] = k /\ \A b \in Nat : b # page => R2[b] = R[b]
  BY <1>1, <1>4
<1>6. Latest(E, R, R2, page)
  BY <1>1, <1>3, <1>5 DEF Latest
<1>7. Visits(<<page>> \o Without(q, page), (E \ {page}) \cup {page}, R2)
  <2>1. \A b \in E : R[b] \in Int
    BY <1>1
  <2>2. \A b \in E \ {page} : R2[b] = R[b] /\ R2[page] < R[b]
    BY <1>6 DEF Latest
  <2>3. page \notin E \ {page} /\ R2[page] \in Int
    BY <1>5
  <2> QED BY <1>1, <2>1, <2>2, <2>3, UsedVisits
<1>8. (E \ {page}) \cup {page} = Adding(E, page) /\ Adding(E, page) \subseteq Nat
  BY <1>1 DEF Adding
<1> QED BY <1>5, <1>6, <1>7, <1>8 DEF Ordered, Used

Led(page, s) == <<page>> \o s

\* What a list of pages becomes is given by what its set of pages becomes.
Moves(s, s2, P, P2, E, R, R2, page) ==
  /\ R \in [Nat -> Int] /\ E \subseteq Nat /\ P \subseteq E /\ page \in Nat
  /\ Latest(E, R, R2, page) /\ Visits(s, P, R) /\ Visits(s2, P2, R2)

Replaces(s, s2, P, P2, E, R, R2, page, old) ==
  /\ Moves(s, s2, P, P2, E, R, R2, page) /\ P2 = Adding(Dropping(P, old), page)
  /\ page \notin P \/ page = old

LEMMA StackReplaced ==
  ASSUME NEW s, NEW s2, NEW P, NEW P2, NEW E, NEW R, NEW R2, NEW page, NEW old,
         Replaces(s, s2, P, P2, E, R, R2, page, old)
  PROVE  s2 = Led(page, Without(s, old))
<1>1. /\ R \in [Nat -> Int] /\ E \subseteq Nat /\ P \subseteq E /\ page \in Nat
      /\ Latest(E, R, R2, page) /\ Visits(s, P, R) /\ Visits(s2, P2, R2)
      /\ P2 = Adding(Dropping(P, old), page) /\ (page \notin P \/ page = old)
  BY DEF Replaces, Moves
<1>2. \A b \in P : R[b] \in Int
  BY <1>1
<1>3. \A b \in P \ {old} : R2[b] = R[b] /\ R2[page] < R[b]
  BY <1>1 DEF Latest
<1>4. page \notin P \ {old} /\ R2[page] \in Int
  BY <1>1 DEF Latest
<1>5. Visits(<<page>> \o Without(s, old), (P \ {old}) \cup {page}, R2)
  BY <1>1, <1>2, <1>3, <1>4, UsedVisits
<1>6. (P \ {old}) \cup {page} = P2
  BY <1>1 DEF Adding, Dropping
<1>7. \A b \in P2 : R2[b] \in Int
  BY <1>1, <1>6 DEF Latest
<1>8. Visits(<<page>> \o Without(s, old), P2, R2)
  BY <1>5, <1>6
<1>9. PICK t : t = <<page>> \o Without(s, old)
  OBVIOUS
<1>10. Visits(t, P2, R2) /\ Visits(s2, P2, R2)
  BY <1>1, <1>8, <1>9
<1>11. t = s2
  BY <1>7, <1>10, SameVisits
<1> QED BY <1>9, <1>11 DEF Led

LEMMA StackUsed ==
  ASSUME NEW s, NEW s2, NEW P, NEW P2, NEW E, NEW R, NEW R2, NEW page,
         Moves(s, s2, P, P2, E, R, R2, page), P2 = P, page \in P
  PROVE  s2 = Used(s, page) /\ page \in Elements(s)
<1>1. P2 = Adding(Dropping(P, page), page)
  BY DEF Adding, Dropping
<1>2. s2 = Led(page, Without(s, page))
  <2>1. Replaces(s, s2, P, P2, E, R, R2, page, page)
    BY <1>1 DEF Replaces
  <2> QED BY <2>1, StackReplaced
<1>3. Elements(s) = P
  BY DEF Moves, Visits
<1> QED BY <1>2, <1>3 DEF Used, Led

LEMMA StackFilled ==
  ASSUME NEW s, NEW s2, NEW P, NEW P2, NEW E, NEW R, NEW R2, NEW page,
         Moves(s, s2, P, P2, E, R, R2, page), P2 = Adding(P, page), page \notin P
  PROVE  s2 = Led(page, s) /\ page \notin Elements(s)
<1>1. /\ R \in [Nat -> Int] /\ E \subseteq Nat /\ P \subseteq E /\ page \in Nat
      /\ Latest(E, R, R2, page) /\ Visits(s, P, R) /\ Visits(s2, P2, R2)
  BY DEF Moves
<1>2. \A b \in P : R2[b] = R[b] /\ R2[b] \in Int /\ R2[page] < R2[b]
  BY <1>1 DEF Latest
<1>3. R2[page] \in Int
  BY <1>1 DEF Latest
<1>4. Visits(s, P, R2)
  BY <1>1, <1>2, VisitsAgree
<1>5. Visits(<<page>> \o s, P \cup {page}, R2)
  BY <1>2, <1>3, <1>4, VisitsOne
<1>6. P \cup {page} = P2
  BY DEF Adding
<1>7. PICK t : t = <<page>> \o s
  OBVIOUS
<1>8. Visits(t, P2, R2) /\ Visits(s2, P2, R2)
  BY <1>1, <1>5, <1>6, <1>7
<1>9. \A b \in P2 : R2[b] \in Int
  BY <1>2, <1>3, <1>6
<1>10. Elements(s) = P
  BY <1>1 DEF Visits
<1>11. t = s2
  BY <1>8, <1>9, SameVisits
<1> QED BY <1>7, <1>10, <1>11 DEF Led

---------------------------------------------------------------------------
(* What a step of an LRU cache does to its list of pages.                  *)

LRUMoves(c, d, n, B, E, R, R2, page, is_write) ==
  /\ LRUKeeps(c, n, B, R) /\ LRUKeeps(d, n, B, R2) /\ LRUSteps(c, d, n, R, page, is_write)
  /\ E \subseteq Nat /\ CachedPages(c) \subseteq E /\ Latest(E, R, R2, page)
  /\ page \in Nat /\ is_write \in BOOLEAN

\* The page with the highest rank is the last of the list.
LEMMA HighestLast ==
  ASSUME NEW s, NEW P, NEW R, NEW old, Visits(s, P, R), Highest(P, R, old), old \in P,
         \A p \in P : R[p] \in Int
  PROVE  Len(s) \in Nat /\ Len(s) # 0 /\ old = s[Len(s)]
<1>1. /\ Len(s) \in Nat /\ DOMAIN s = 1..Len(s)
      /\ \A k \in 1..Len(s) : s[k] \in P
      /\ \A b \in P : \E k \in 1..Len(s) : s[k] = b
  BY VisitsDomain
<1>2. PICK k \in 1..Len(s) : s[k] = old
  BY <1>1
<1>3. Len(s) # 0 /\ Len(s) \in 1..Len(s)
  BY <1>1, <1>2
<1>4. ASSUME k < Len(s) PROVE FALSE
  <2>1. R[s[k]] < R[s[Len(s)]]
    BY <1>1, <1>3, <1>4 DEF Visits
  <2>2. R[s[Len(s)]] <= R[old] /\ R[s[Len(s)]] \in Int /\ R[old] \in Int
    BY <1>1, <1>3 DEF Highest
  <2> QED BY <1>2, <2>1, <2>2
<1>5. k = Len(s)
  BY <1>1, <1>4
<1> QED BY <1>1, <1>2, <1>3, <1>5

LEMMA LRUMovesIs ==
  ASSUME NEW n \in Nat, NEW B \in Nat, NEW c, NEW d, NEW E, NEW R, NEW R2, NEW page, NEW is_write,
         LRUMoves(c, d, n, B, E, R, R2, page, is_write), NEW s, NEW s2,
         s = Pages(c, c.head), s2 = Pages(d, d.head)
  PROVE  /\ Elements(s) = CachedPages(c) /\ Len(s) = Cardinality(CachedPages(c))
         /\ \/ Hits(c, d, page, is_write) /\ s2 = Used(s, page)
            \/ /\ Misses(c, d, page) /\ FillsPage(c, d, page, is_write) /\ Len(s) < n + 1
               /\ s2 = Led(page, s)
            \/ /\ Misses(c, d, page) /\ Len(s) = n + 1
               /\ SwapsPage(c, d, page, is_write, s[n + 1])
               /\ s2 = Led(page, Without(s, s[n + 1]))
<1>1. /\ LRUKeeps(c, n, B, R) /\ LRUKeeps(d, n, B, R2) /\ LRUSteps(c, d, n, R, page, is_write)
      /\ E \subseteq Nat /\ CachedPages(c) \subseteq E /\ Latest(E, R, R2, page)
      /\ page \in Nat /\ is_write \in BOOLEAN
  BY DEF LRUMoves
<1>2. Visits(s, CachedPages(c), R) /\ Room(c, n) /\ R \in [Nat -> Int]
  BY <1>1, LRUKeepsIs
<1>3. Visits(s2, CachedPages(d), R2)
  BY <1>1, LRUKeepsIs
<1>4. PICK P : P = CachedPages(c)
  OBVIOUS
<1>5. PICK P2 : P2 = CachedPages(d)
  OBVIOUS
<1>6. \A p \in P : R[p] \in Int
  BY <1>1, <1>2, <1>4
<1>7. Elements(s) = P /\ Len(s) = Cardinality(P) /\ Len(s) \in 0..(n + 1)
  <2>1. Len(s) = Cardinality(P)
    BY <1>2, <1>4, <1>6, VisitsCount
  <2> QED BY <1>2, <1>4, <2>1 DEF Visits, Room
<1>8. Moves(s, s2, P, P2, E, R, R2, page)
  BY <1>1, <1>2, <1>3, <1>4, <1>5 DEF Moves
<1>9. CASE Hits(c, d, page, is_write)
  <2>1. P2 = P /\ page \in P
    BY <1>4, <1>5, <1>9 DEF Hits
  <2>2. s2 = Used(s, page)
    BY <1>8, <2>1, StackUsed
  <2> QED BY <1>4, <1>7, <1>9, <2>2
<1>10. CASE /\ Misses(c, d, page) /\ FillsPage(c, d, page, is_write)
            /\ Cardinality(CachedPages(c)) # n + 1
  <2>1. P2 = Adding(P, page) /\ page \notin P
    BY <1>4, <1>5, <1>10 DEF Misses, FillsPage, Fills
  <2>2. s2 = Led(page, s)
    BY <1>8, <2>1, StackFilled
  <2>3. Len(s) < n + 1
    BY <1>4, <1>7, <1>10
  <2> QED BY <1>4, <1>7, <1>10, <2>2, <2>3
<1>11. CASE /\ Misses(c, d, page) /\ Cardinality(CachedPages(c)) = n + 1
            /\ \E old : SwapsPage(c, d, page, is_write, old) /\ Highest(CachedPages(c), R, old)
  <2>1. PICK old : SwapsPage(c, d, page, is_write, old) /\ Highest(P, R, old)
    BY <1>4, <1>11
  <2>2. old \in P /\ P2 = Adding(Dropping(P, old), page) /\ page \notin P
    BY <1>4, <1>5, <1>11, <2>1 DEF Misses, SwapsPage, Swaps
  <2>3. Len(s) = n + 1 /\ old = s[n + 1]
    <3>1. Len(s) = n + 1
      BY <1>4, <1>7, <1>11
    <3>2. old = s[Len(s)]
      BY <1>2, <1>4, <1>6, <2>1, <2>2, HighestLast
    <3> QED BY <3>1, <3>2
  <2>4. Replaces(s, s2, P, P2, E, R, R2, page, old)
    BY <1>8, <2>2 DEF Replaces
  <2>5. s2 = Led(page, Without(s, old))
    BY <2>4, StackReplaced
  <2> QED BY <1>4, <1>7, <1>11, <2>1, <2>3, <2>5
<1> QED BY <1>1, <1>9, <1>10, <1>11 DEF LRUSteps

---------------------------------------------------------------------------
(* An LRU cache holds the pages used last.                                 *)

\* A page that was used and is not cached was used before all that are, and
\* the cache is full.
Closed(c, n, E, R) ==
  /\ CachedPages(c) \subseteq E
  /\ \A p \in E : p \notin CachedPages(c) =>
       /\ Cardinality(CachedPages(c)) = n + 1
       /\ \A q \in CachedPages(c) : R[q] < R[p]

LEMMA ClosedStays ==
  ASSUME NEW n \in Nat, NEW B \in Nat, NEW c, NEW d, NEW E, NEW R, NEW R2, NEW page,
         NEW is_write, NEW q, LRUMoves(c, d, n, B, E, R, R2, page, is_write),
         Closed(c, n, E, R), Ordered(q, E, R)
  PROVE  Closed(d, n, Adding(E, page), R2)
<1>1. /\ LRUKeeps(c, n, B, R) /\ LRUKeeps(d, n, B, R2) /\ LRUSteps(c, d, n, R, page, is_write)
      /\ E \subseteq Nat /\ CachedPages(c) \subseteq E /\ Latest(E, R, R2, page)
      /\ page \in Nat
  BY DEF LRUMoves
<1>2. /\ R \in [Nat -> Int] /\ R2 \in [Nat -> Int]
      /\ \A b \in E : b # page => R2[b] = R[b] /\ R2[page] < R[b]
  BY <1>1 DEF Latest, Ordered
<1>3. \A a, b \in E : R[a] \in Int /\ (R[a] = R[b] => a = b)
  BY OrderedIs
<1>4. PICK P : P = CachedPages(c)
  OBVIOUS
<1>5. PICK P2 : P2 = CachedPages(d)
  OBVIOUS
<1>6. /\ P \subseteq E
      /\ \A p \in E : p \notin P => Cardinality(P) = n + 1 /\ \A b \in P : R[b] < R[p]
  BY <1>4 DEF Closed
<1>7. CASE Hits(c, d, page, is_write)
  <2>1. P2 = P /\ page \in P
    BY <1>4, <1>5, <1>7 DEF Hits
  <2>2. Adding(E, page) = E
    BY <1>6, <2>1 DEF Adding
  <2>3. ASSUME NEW p \in E, p \notin P
        PROVE  Cardinality(P2) = n + 1 /\ \A b \in P2 : R2[b] < R2[p]
    <3>1. p # page /\ R2[p] = R[p] /\ R2[page] < R[p]
      BY <1>2, <2>1, <2>3
    <3>2. Cardinality(P) = n + 1 /\ \A b \in P : R[b] < R[p]
      BY <1>6, <2>3
    <3>3. ASSUME NEW b \in P PROVE R2[b] < R2[p]
      BY <1>2, <1>6, <3>1, <3>2
    <3> QED BY <2>1, <3>2, <3>3
  <2> QED BY <1>5, <1>6, <2>1, <2>2, <2>3 DEF Closed
<1>8. CASE /\ Misses(c, d, page) /\ FillsPage(c, d, page, is_write)
           /\ Cardinality(CachedPages(c)) # n + 1
  <2>1. P2 = Adding(P, page)
    BY <1>4, <1>5, <1>8 DEF FillsPage, Fills
  <2>2. P = E
    BY <1>4, <1>6, <1>8
  <2> QED BY <1>5, <2>1, <2>2 DEF Closed
<1>9. CASE /\ Misses(c, d, page) /\ Cardinality(CachedPages(c)) = n + 1
           /\ \E old : SwapsPage(c, d, page, is_write, old) /\ Highest(CachedPages(c), R, old)
  <2>1. PICK old : SwapsPage(c, d, page, is_write, old) /\ Highest(P, R, old)
    BY <1>4, <1>9
  <2>2. old \in P /\ P2 = Adding(Dropping(P, old), page) /\ page \notin P
    BY <1>4, <1>5, <1>9, <2>1 DEF Misses, SwapsPage, Swaps
  <2>3. Cardinality(P2) = n + 1
    <3>1. IsFiniteSet(P) /\ Cardinality(P) = n + 1
      BY <1>1, <1>4, <1>9, LRUKeepsIs DEF Room
    <3>2. IsFiniteSet(P \ {old}) /\ Cardinality(P \ {old}) = n
      BY <2>2, <3>1, FS_RemoveElement
    <3>3. page \notin P \ {old}
      BY <2>2
    <3>4. Cardinality((P \ {old}) \cup {page}) = n + 1
      BY <3>2, <3>3, FS_AddElement
    <3> QED BY <2>2, <3>4 DEF Adding, Dropping
  <2>4. \A b \in P : b \in E /\ b # page /\ R2[b] = R[b] /\ R[b] \in Int /\ R[old] \in Int
                       /\ R[b] <= R[old] /\ R2[page] < R[b]
    BY <1>2, <1>3, <1>6, <2>1, <2>2 DEF Highest
  <2>5. ASSUME NEW p \in Adding(E, page), p \notin P2, NEW b \in P2 PROVE R2[b] < R2[p]
    <3>1. p \in E /\ p # page /\ R2[p] = R[p] /\ R2[page] < R[p] /\ (p \in P => p = old)
      BY <1>2, <2>2, <2>5 DEF Adding, Dropping
    <3>2. b = page \/ (b \in P /\ b # old)
      BY <2>2 DEF Adding, Dropping
    <3>3. CASE b = page
      BY <3>1, <3>3
    <3>4. CASE b \in P /\ b # old
      <4>1. CASE p = old
        <5>1. R[b] # R[old]
          BY <1>3, <2>2, <2>4, <3>4
        <5> QED BY <2>4, <3>1, <3>4, <4>1, <5>1
      <4>2. CASE p # old
        BY <1>6, <2>4, <3>1, <3>4, <4>2
      <4> QED BY <4>1, <4>2
    <3> QED BY <3>2, <3>3, <3>4
  <2>6. P2 \subseteq Adding(E, page)
    BY <1>6, <2>2 DEF Adding, Dropping
  <2> QED BY <1>5, <2>3, <2>5, <2>6 DEF Closed
<1> QED BY <1>1, <1>7, <1>8, <1>9 DEF LRUSteps

LEMMA Included ==
  ASSUME NEW m \in Nat, NEW n \in Nat, NEW c, NEW d, NEW E, NEW R, NEW q, Ordered(q, E, R),
         Closed(c, m, E, R), Closed(d, n, E, R), Room(c, m), Room(d, n), m <= n
  PROVE  CachedPages(c) \subseteq CachedPages(d)
<1>1. PICK S : S = CachedPages(c)
  OBVIOUS
<1>2. PICK L : L = CachedPages(d)
  OBVIOUS
<1>3. /\ S \subseteq E /\ IsFiniteSet(S) /\ Cardinality(S) \in 0..(m + 1)
      /\ \A p \in E : p \notin S => \A b \in S : R[b] < R[p]
  BY <1>1 DEF Closed, Room
<1>4. /\ L \subseteq E /\ IsFiniteSet(L) /\ Cardinality(L) \in 0..(n + 1)
      /\ \A p \in E : p \notin L => Cardinality(L) = n + 1 /\ \A b \in L : R[b] < R[p]
  BY <1>2 DEF Closed, Room
<1>5. SUFFICES ASSUME NEW p \in S, p \notin L PROVE FALSE
  BY <1>1, <1>2
<1>6. Cardinality(L) = n + 1 /\ \A b \in L : R[b] < R[p]
  BY <1>3, <1>4, <1>5
<1>7. L \subseteq S
  <2> SUFFICES ASSUME NEW b \in L, b \notin S PROVE FALSE
    OBVIOUS
  <2>1. R[b] < R[p] /\ R[p] < R[b]
    BY <1>3, <1>4, <1>5, <1>6
  <2>2. R[b] \in Int /\ R[p] \in Int
    BY <1>3, <1>4, <1>5 DEF Ordered
  <2> QED BY <2>1, <2>2
<1>8. /\ Cardinality(L) <= Cardinality(S)
      /\ Cardinality(L) = Cardinality(S) => L = S
  BY <1>3, <1>7, FS_Subset
<1>9. Cardinality(L) = Cardinality(S)
  BY <1>3, <1>6, <1>8
<1> QED BY <1>5, <1>8, <1>9

\* What the smaller cache c wrote back makes up for what the larger one d did
\* and will yet have to.
Ledger(c, d) ==
  /\ c.hit <= d.hit
  /\ DirtyPages(c) \subseteq DirtyPages(d)
  /\ c.write_back >= d.write_back + Cardinality(DirtyPages(d) \ DirtyPages(c))

\* A set that lost u and got v, if at all.
LEMMA Smaller ==
  ASSUME NEW X, NEW Y, IsFiniteSet(X), Y \subseteq X
  PROVE  IsFiniteSet(Y) /\ Cardinality(Y) \in Nat /\ Cardinality(X) \in Nat
         /\ Cardinality(Y) <= Cardinality(X)
BY FS_Subset, FS_CardinalityType

LEMMA SmallerBut ==
  ASSUME NEW X, NEW Y, NEW v, IsFiniteSet(X), Y \subseteq X \cup {v}
  PROVE  Cardinality(Y) \in Nat /\ Cardinality(X) \in Nat
         /\ Cardinality(Y) <= Cardinality(X) + 1
<1>1. PICK W : W = X \cup {v}
  OBVIOUS
<1>2. IsFiniteSet(W) /\ Cardinality(X) \in Nat /\ Cardinality(W) \in Nat
  BY <1>1, FS_AddElement, FS_CardinalityType
<1>3. Cardinality(W) <= Cardinality(X) + 1
  <2>1. CASE v \in X
    <3>1. W = X
      BY <1>1, <2>1
    <3> QED BY <1>2, <3>1
  <2>2. CASE v \notin X
    <3>1. Cardinality(W) = Cardinality(X) + 1
      BY <1>1, <2>2, FS_AddElement
    <3> QED BY <1>2, <3>1
  <2> QED BY <2>1, <2>2
<1>4. Cardinality(Y) \in Nat /\ Cardinality(Y) <= Cardinality(W)
  BY <1>1, <1>2, Smaller
<1> QED BY <1>2, <1>3, <1>4

\* An access by both caches.
BothAccess(c, c2, m, d, d2, n, E, R, R2, page, is_write, q) ==
  /\ LRUSteps(c, c2, m, R, page, is_write) /\ LRUSteps(d, d2, n, R, page, is_write)
  /\ Closed(c, m, E, R) /\ Closed(d, n, E, R) /\ Room(c, m) /\ Room(d, n)
  /\ Room(c2, m) /\ Room(d2, n) /\ CachedPages(c2) \subseteq CachedPages(d2)
  /\ Ordered(q, E, R) /\ Latest(E, R, R2, page) /\ page \in Nat /\ is_write \in BOOLEAN
  /\ m <= n

LEMMA LedgerKept ==
  ASSUME NEW m \in Nat, NEW n \in Nat, NEW c, NEW c2, NEW d, NEW d2, NEW E, NEW R, NEW R2,
         NEW page, NEW is_write, NEW q, BothAccess(c, c2, m, d, d2, n, E, R, R2, page, is_write, q),
         Ledger(c, d)
  PROVE  Ledger(c2, d2)
<1>1. /\ LRUSteps(c, c2, m, R, page, is_write) /\ LRUSteps(d, d2, n, R, page, is_write)
      /\ Closed(c, m, E, R) /\ Closed(d, n, E, R) /\ Room(c, m) /\ Room(d, n)
      /\ Room(c2, m) /\ Room(d2, n) /\ CachedPages(c2) \subseteq CachedPages(d2)
      /\ Ordered(q, E, R) /\ Latest(E, R, R2, page) /\ page \in Nat /\ is_write \in BOOLEAN
      /\ m <= n
  BY DEF BothAccess
<1>2. CachedPages(c) \subseteq CachedPages(d)
  BY <1>1, Included
<1>3. PICK S, S2, L, L2 : /\ S = CachedPages(c) /\ S2 = CachedPages(c2)
                          /\ L = CachedPages(d) /\ L2 = CachedPages(d2)
  OBVIOUS
<1>4. PICK DS, DS2, DL, DL2 : /\ DS = DirtyPages(c) /\ DS2 = DirtyPages(c2)
                              /\ DL = DirtyPages(d) /\ DL2 = DirtyPages(d2)
  OBVIOUS
<1>5. /\ S \subseteq L /\ S2 \subseteq L2 /\ DS \subseteq S /\ DL \subseteq L /\ DS2 \subseteq S2
      /\ IsFiniteSet(S) /\ IsFiniteSet(L) /\ Cardinality(S) \in 0..(m + 1)
      /\ S \subseteq E /\ L \subseteq E
  BY <1>1, <1>2, <1>3, <1>4 DEF Room, Closed
<1>6. PICK i, i2, j, j2 \in Nat : /\ i = c.write_back /\ i2 = c2.write_back
                                  /\ j = d.write_back /\ j2 = d2.write_back
  BY <1>1 DEF Room
<1>7. PICK X, X2 : X = DL \ DS /\ X2 = DL2 \ DS2
  OBVIOUS
<1>8. IsFiniteSet(X) /\ Cardinality(X) \in Nat /\ i >= j + Cardinality(X) /\ DS \subseteq DL
  <2>1. X \subseteq L
    BY <1>5, <1>7
  <2>2. IsFiniteSet(X) /\ Cardinality(X) \in Nat
    BY <1>5, <2>1, Smaller
  <2> QED BY <1>4, <1>6, <1>7, <2>2 DEF Ledger
<1>9. \A a, b \in E : R[a] \in Int /\ (R[a] = R[b] => a = b)
  BY <1>1, OrderedIs
<1>10. c2.hit <= d2.hit
  <2>1. c.hit \in Nat /\ d.hit \in Nat /\ c.hit <= d.hit
    BY <1>1 DEF Room, Ledger
  <2>2. c2.hit = c.hit + 1 => page \in S
    BY <1>1, <1>3, <2>1 DEF LRUSteps, Hits, Misses
  <2>3. page \in L => d2.hit = d.hit + 1
    BY <1>1, <1>3 DEF LRUSteps, Hits, Misses
  <2>4. (c2.hit = c.hit \/ c2.hit = c.hit + 1) /\ (d2.hit = d.hit \/ d2.hit = d.hit + 1)
    BY <1>1 DEF LRUSteps, Hits, Misses
  <2> QED BY <1>5, <2>1, <2>2, <2>3, <2>4
\* Whether pages left the caches, and which.
<1>11. \/ /\ DS2 = Written(DS, page, is_write) /\ i2 = i
          /\ page \in S \/ Cardinality(S) # m + 1
       \/ \E v : /\ v \in S /\ page \notin S /\ DS2 = Written(Dropping(DS, v), page, is_write)
                 /\ i2 = i + (IF v \in DS THEN 1 ELSE 0) /\ Highest(S, R, v)
  <2>1. CASE Hits(c, c2, page, is_write)
    BY <1>3, <1>4, <1>6, <2>1 DEF Hits
  <2>2. CASE /\ Misses(c, c2, page) /\ FillsPage(c, c2, page, is_write)
             /\ Cardinality(CachedPages(c)) # m + 1
    BY <1>3, <1>4, <1>6, <2>2 DEF FillsPage, Fills
  <2>3. CASE /\ Misses(c, c2, page) /\ Cardinality(CachedPages(c)) = m + 1
             /\ \E old : SwapsPage(c, c2, page, is_write, old) /\ Highest(CachedPages(c), R, old)
    <3>1. PICK v : SwapsPage(c, c2, page, is_write, v) /\ Highest(S, R, v)
      BY <1>3, <2>3
    <3> QED BY <1>3, <1>4, <1>6, <2>3, <3>1 DEF Misses, SwapsPage, Swaps
  <2> QED BY <1>1, <2>1, <2>2, <2>3 DEF LRUSteps
<1>12. \/ DL2 = Written(DL, page, is_write) /\ j2 = j
       \/ \E u : /\ u \in L /\ page \notin L /\ DL2 = Written(Dropping(DL, u), page, is_write)
                 /\ j2 = j + (IF u \in DL THEN 1 ELSE 0) /\ Highest(L, R, u)
                 /\ Cardinality(L) = n + 1 /\ u \notin L2
  <2>1. CASE Hits(d, d2, page, is_write)
    BY <1>4, <1>6, <2>1 DEF Hits
  <2>2. CASE Misses(d, d2, page) /\ FillsPage(d, d2, page, is_write)
    BY <1>4, <1>6, <2>2 DEF FillsPage, Fills
  <2>3. CASE /\ Misses(d, d2, page) /\ Cardinality(CachedPages(d)) = n + 1
             /\ \E old : SwapsPage(d, d2, page, is_write, old) /\ Highest(CachedPages(d), R, old)
    <3>1. PICK u : SwapsPage(d, d2, page, is_write, u) /\ Highest(L, R, u)
      BY <1>3, <2>3
    <3>2. u \in L /\ page \notin L /\ L2 = Adding(Dropping(L, u), page)
      BY <1>3, <2>3, <3>1 DEF Misses, SwapsPage, Swaps
    <3>3. u \notin L2
      BY <3>2 DEF Adding, Dropping
    <3> QED BY <1>3, <1>4, <1>6, <2>3, <3>1, <3>2, <3>3 DEF SwapsPage, Swaps
  <2> QED BY <1>1, <2>1, <2>2, <2>3 DEF LRUSteps
<1>13. CASE DL2 = Written(DL, page, is_write) /\ j2 = j
  <2>1. CASE DS2 = Written(DS, page, is_write) /\ i2 = i
    <3>1. DS2 \subseteq DL2 /\ X2 \subseteq X
      BY <1>7, <1>8, <1>13, <2>1 DEF Written
    <3>2. Cardinality(X2) \in Nat /\ Cardinality(X2) <= Cardinality(X)
      BY <1>8, <3>1, Smaller
    <3>3. i2 >= j2 + Cardinality(X2)
      BY <1>8, <1>13, <2>1, <3>2
    <3> QED BY <1>4, <1>6, <1>7, <1>10, <3>1, <3>3 DEF Ledger
  <2>2. ASSUME NEW v, DS2 = Written(Dropping(DS, v), page, is_write),
               i2 = i + (IF v \in DS THEN 1 ELSE 0)
        PROVE  Ledger(c2, d2)
    <3>1. DS2 \subseteq DL2 /\ X2 \subseteq X \cup {v} /\ (v \notin DS => X2 \subseteq X)
      BY <1>7, <1>8, <1>13, <2>2 DEF Written, Dropping
    <3>2. Cardinality(X2) \in Nat /\ Cardinality(X2) <= Cardinality(X) + 1
      BY <1>8, <3>1, SmallerBut
    <3>3. v \notin DS => Cardinality(X2) <= Cardinality(X)
      BY <1>8, <3>1, Smaller
    <3>4. i2 >= j2 + Cardinality(X2)
      BY <1>8, <1>13, <2>2, <3>2, <3>3
    <3> QED BY <1>4, <1>6, <1>7, <1>10, <3>1, <3>4 DEF Ledger
  <2> QED BY <1>11, <2>1, <2>2
<1>14. ASSUME NEW u, u \in L, page \notin L, DL2 = Written(Dropping(DL, u), page, is_write),
              j2 = j + (IF u \in DL THEN 1 ELSE 0), Highest(L, R, u),
              Cardinality(L) = n + 1, u \notin L2
       PROVE  Ledger(c2, d2)
  <2>1. page \notin S /\ u \notin DS2 /\ u # page
    BY <1>5, <1>14
  <2>2. Cardinality(S) = m + 1
    <3>1. SUFFICES ASSUME Cardinality(S) # m + 1 PROVE FALSE
      OBVIOUS
    <3>2. E \subseteq S
      BY <1>1, <1>3, <3>1 DEF Closed
    <3>3. L \subseteq S
      BY <1>5, <3>2
    <3>4. Cardinality(L) <= Cardinality(S)
      BY <1>5, <3>3, Smaller
    <3>5. m <= n /\ Cardinality(S) \in 0..(m + 1) /\ Cardinality(L) = n + 1
      BY <1>1, <1>5, <1>14
    <3> QED BY <3>1, <3>4, <3>5
  <2>3. PICK v : /\ v \in S /\ DS2 = Written(Dropping(DS, v), page, is_write)
                 /\ i2 = i + (IF v \in DS THEN 1 ELSE 0) /\ Highest(S, R, v)
    BY <1>11, <2>1, <2>2
  <2>4. u \in DS => u = v
    <3>1. SUFFICES ASSUME u \in S PROVE u = v
      BY <1>5
    <3>2. R[u] <= R[v] /\ R[v] <= R[u]
      BY <1>5, <1>14, <2>3, <3>1 DEF Highest
    <3>3. R[u] \in Int /\ R[v] \in Int /\ (R[u] = R[v] => u = v)
      BY <1>5, <1>9, <1>14, <2>3
    <3> QED BY <3>2, <3>3
  <2>5. DS2 \subseteq DL2
    BY <1>8, <1>14, <2>1, <2>3 DEF Written, Dropping
  <2>6. PICK Z : Z = X \ {u}
    OBVIOUS
  <2>7. X2 \subseteq Z \cup {v} /\ (v \notin DS \/ u = v => X2 \subseteq Z)
    BY <1>7, <1>14, <2>1, <2>3, <2>6 DEF Written, Dropping
  <2>8. IsFiniteSet(Z) /\ Cardinality(Z) \in Nat /\ Cardinality(Z) <= Cardinality(X)
    BY <1>8, <2>6, Smaller
  <2>9. u \in X => Cardinality(Z) = Cardinality(X) - 1
    BY <1>8, <2>6, FS_RemoveElement
  <2>10. Cardinality(X2) \in Nat /\ Cardinality(X2) <= Cardinality(Z) + 1
    BY <2>7, <2>8, SmallerBut
  <2>11. v \notin DS \/ u = v => Cardinality(X2) <= Cardinality(Z)
    BY <2>7, <2>8, Smaller
  <2>12. u \in DL => u \in X \/ (u = v /\ v \in DS)
    BY <1>7, <2>4
  <2>13. i2 >= j2 + Cardinality(X2)
    <3>1. CASE u \in DL /\ u \in X
      BY <1>8, <1>14, <2>3, <2>8, <2>9, <2>10, <2>11, <3>1
    <3>2. CASE u = v /\ v \in DS
      BY <1>8, <1>14, <2>3, <2>8, <2>10, <2>11, <3>2
    <3>3. CASE u \notin DL
      BY <1>8, <1>14, <2>3, <2>8, <2>10, <2>11, <3>3
    <3> QED BY <2>12, <3>1, <3>2, <3>3
  <2> QED BY <1>4, <1>6, <1>7, <1>10, <2>5, <2>13 DEF Ledger
<1> QED BY <1>12, <1>13, <1>14

---------------------------------------------------------------------------
(* The CFLRU cache: what its helpers do to one list.                       *)

CFLRUCounts(c, d) ==
  /\ d.free_list = c.free_list /\ d.hit = c.hit /\ d.miss = c.miss
  /\ d.write_back = c.write_back /\ d.working_cap = c.working_cap

At(f, X, v) == [f EXCEPT ![X] = v]

WithEnds(c, H, T, w) == [c EXCEPT !.head = H, !.tail = T, !.working_size = w]

LEMMA WithEndsIs ==
  ASSUME NEW n \in Nat, NEW B \in Nat, NEW c \in CFLRUCaches(n, B), NEW H, NEW T, NEW w, NEW d,
         H \in [Lists -> Ref(n)], T \in [Lists -> Ref(n)], w \in Int, d = WithEnds(c, H, T, w)
  PROVE  /\ d \in CFLRUCaches(n, B) /\ CFLRUCounts(c, d) /\ d.head = H /\ d.tail = T
         /\ d.working_size = w /\ SamePages(c, d) /\ DirtyAt(d) = DirtyAt(c)
         /\ ListOf(d) = ListOf(c) /\ NextOf(d) = NextOf(c) /\ PrevOf(d) = PrevOf(c)
<1>1. /\ d \in CFLRUCaches(n, B) /\ CFLRUCounts(c, d) /\ d.head = H /\ d.tail = T
      /\ d.working_size = w /\ d.nodes = c.nodes /\ d.buckets = c.buckets
  BY DEF WithEnds, CFLRUCaches, CFLRUCounts
<1> QED BY <1>1, SameNodes

\* A change of a node that leaves its page and its chain.
LEMMA KeptInCFLRU ==
  ASSUME NEW n \in Nat, NEW B \in Nat, NEW c \in CFLRUCaches(n, B), NEW d, d \in Caches(n, B),
         SameRest(c, d)
  PROVE  /\ d \in CFLRUCaches(n, B) /\ CFLRUCounts(c, d) /\ d.head = c.head /\ d.tail = c.tail
         /\ d.working_size = c.working_size
BY PoolOf, SameRestFields DEF CFLRUCounts

\* The working size when a node has left or entered the list X.
SizeLess(X, w) == IF X = "WORKING" THEN w - 1 ELSE w
SizeMore(X, w) == IF X = "WORKING" THEN w + 1 ELSE w

LEMMA TakenFromIs ==
  ASSUME NEW n \in Nat, NEW B \in Nat, NEW c, c \in CFLRUCaches(n, B), NEW a, a \in Ref(n),
         a # NULL, NEW X, X \in Lists, ListOf(c)[a] = X, NEW d, d = remove_from_list(c, a)
  PROVE  /\ d \in CFLRUCaches(n, B) /\ CFLRUCounts(c, d)
         /\ d.working_size = SizeLess(X, c.working_size)
         /\ d.head = At(c.head, X, IF a = c.head[X] THEN NextOf(c)[a] ELSE c.head[X])
         /\ d.tail = At(c.tail, X, IF a = c.tail[X] THEN PrevOf(c)[a] ELSE c.tail[X])
         /\ SamePages(c, d) /\ DirtyAt(d) = DirtyAt(c)
         /\ ListOf(d) = SetAt(ListOf(c), a, "NONE")
         /\ NextOf(d) = SetAt(NextOf(c), PrevOf(c)[a], NextOf(c)[a])
         /\ PrevOf(d) = SetAt(PrevOf(c), NextOf(c)[a], PrevOf(c)[a])
<1>1. c \in Caches(n, B) /\ a \in 0..n
  BY DEF Caches, Ref
<1>2. NextOf(c) \in [0..n -> Ref(n)] /\ PrevOf(c) \in [0..n -> Ref(n)]
  BY <1>1, PoolOf, PoolFields
<1>3. PICK nxt, prv : nxt = NextOf(c)[a] /\ prv = PrevOf(c)[a]
  OBVIOUS
<1>4. nxt \in Ref(n) /\ prv \in Ref(n)
  BY <1>1, <1>2, <1>3
<1>5. c.nodes[a].next = nxt /\ c.nodes[a].prev = prv /\ c.nodes[a].list_type = X
  BY <1>1, <1>3, NodeFields
<1>6. PICK u1 : u1 = SetNext(c, prv, nxt)
  OBVIOUS
<1>7. PICK u2 : u2 = SetPrev(u1, nxt, prv)
  OBVIOUS
<1>8. /\ SameRest(c, u1) /\ u1 \in Caches(n, B) /\ SamePages(c, u1)
      /\ DirtyAt(u1) = DirtyAt(c) /\ ListOf(u1) = ListOf(c) /\ PrevOf(u1) = PrevOf(c)
      /\ NextOf(u1) = SetAt(NextOf(c), prv, nxt)
  BY <1>1, <1>4, <1>6, SetNextIs
<1>9. /\ SameRest(u1, u2) /\ u2 \in Caches(n, B) /\ SamePages(u1, u2)
      /\ DirtyAt(u2) = DirtyAt(u1) /\ ListOf(u2) = ListOf(u1) /\ NextOf(u2) = NextOf(u1)
      /\ PrevOf(u2) = SetAt(PrevOf(u1), nxt, prv)
  BY <1>4, <1>7, <1>8, SetPrevIs
<1>10. /\ u1 \in CFLRUCaches(n, B) /\ CFLRUCounts(c, u1) /\ u1.head = c.head /\ u1.tail = c.tail
       /\ u1.working_size = c.working_size
  BY <1>8, KeptInCFLRU
<1>11. /\ u2 \in CFLRUCaches(n, B) /\ CFLRUCounts(u1, u2) /\ u2.head = u1.head
       /\ u2.tail = u1.tail /\ u2.working_size = u1.working_size
  BY <1>9, <1>10, KeptInCFLRU
<1>12. PICK x : x = [u2.nodes[a] EXCEPT !.list_type = "NONE"]
  OBVIOUS
<1>13. PICK g : g = WithNode(u2, a, x)
  OBVIOUS
<1>14. /\ u2.nodes[a] \in PageNode(n) /\ DirtyAt(u2)[a] = u2.nodes[a].dirty
       /\ NextOf(u2)[a] = u2.nodes[a].next /\ PrevOf(u2)[a] = u2.nodes[a].prev
  BY <1>1, <1>9, NodeFields
<1>15. x \in PageNode(n)
  BY <1>12, <1>14, NodeChanges
<1>16. /\ x.page_number = u2.nodes[a].page_number /\ x.hash_next = u2.nodes[a].hash_next
       /\ x.dirty = u2.nodes[a].dirty /\ x.next = u2.nodes[a].next /\ x.prev = u2.nodes[a].prev
       /\ x.list_type = "NONE"
  BY <1>12, <1>14 DEF PageNode
<1>17. /\ SameRest(u2, g) /\ g \in Caches(n, B) /\ SamePages(u2, g)
       /\ DirtyAt(g) = SetAt(DirtyAt(u2), a, x.dirty)
       /\ ListOf(g) = SetAt(ListOf(u2), a, x.list_type)
       /\ NextOf(g) = SetAt(NextOf(u2), a, x.next)
       /\ PrevOf(g) = SetAt(PrevOf(u2), a, x.prev)
  BY <1>1, <1>9, <1>13, <1>15, <1>16, KeptAs
<1>18. /\ g \in CFLRUCaches(n, B) /\ CFLRUCounts(u2, g) /\ g.head = u2.head
       /\ g.tail = u2.tail /\ g.working_size = u2.working_size
  BY <1>11, <1>17, KeptInCFLRU
<1>19. /\ DirtyAt(g) = DirtyAt(u2) /\ NextOf(g) = NextOf(u2) /\ PrevOf(g) = PrevOf(u2)
       /\ ListOf(g) = SetAt(ListOf(u2), a, "NONE")
  <2>1. /\ DirtyAt(u2) \in [0..n -> BOOLEAN] /\ NextOf(u2) \in [0..n -> Ref(n)]
        /\ PrevOf(u2) \in [0..n -> Ref(n)]
    BY <1>9, PoolOf, PoolFields
  <2> QED BY <1>1, <1>14, <1>16, <1>17, <2>1 DEF SetAt
<1>20. PICK H, T, w : /\ H = At(c.head, X, IF a = c.head[X] THEN nxt ELSE c.head[X])
                      /\ T = At(c.tail, X, IF a = c.tail[X] THEN prv ELSE c.tail[X])
                      /\ w = SizeLess(X, c.working_size)
  OBVIOUS
<1>21. H \in [Lists -> Ref(n)] /\ T \in [Lists -> Ref(n)] /\ w \in Int
  <2>1. /\ c.head \in [Lists -> Ref(n)] /\ c.tail \in [Lists -> Ref(n)]
        /\ c.working_size \in Int
    BY DEF CFLRUCaches
  <2> QED BY <1>4, <1>20, <2>1 DEF At, SizeLess
<1>22. d = WithEnds(g, H, T, w)
  <2>1. d = [u2 EXCEPT !.head[X] = IF a = @ THEN nxt ELSE @,
                       !.tail[X] = IF a = @ THEN prv ELSE @,
                       !.working_size = IF X = "WORKING" THEN @ - 1 ELSE @,
                       !.nodes[a].list_type = "NONE"]
    BY <1>5, <1>6, <1>7 DEF remove_from_list, Lists
  <2>2. [u2.nodes EXCEPT ![a].list_type = "NONE"] = [u2.nodes EXCEPT ![a] = x]
    <3>1. u2.nodes \in [0..n -> PageNode(n)]
      BY <1>11 DEF CFLRUCaches
    <3> QED BY <1>1, <1>12, <3>1
  <2>3. /\ H = [u2.head EXCEPT ![X] = IF a = @ THEN nxt ELSE @]
        /\ T = [u2.tail EXCEPT ![X] = IF a = @ THEN prv ELSE @]
        /\ w = IF X = "WORKING" THEN u2.working_size - 1 ELSE u2.working_size
    BY <1>10, <1>11, <1>20 DEF At, SizeLess, CFLRUCaches
  <2>4. d = [u2 EXCEPT !.head = H, !.tail = T, !.working_size = w,
                       !.nodes = [u2.nodes EXCEPT ![a] = x]]
    BY <1>11, <2>1, <2>2, <2>3 DEF CFLRUCaches
  <2> QED BY <1>11, <1>13, <2>4 DEF WithEnds, WithNode, CFLRUCaches
<1>23. /\ d \in CFLRUCaches(n, B) /\ CFLRUCounts(g, d) /\ d.head = H /\ d.tail = T
       /\ d.working_size = w /\ SamePages(g, d) /\ DirtyAt(d) = DirtyAt(g)
       /\ ListOf(d) = ListOf(g) /\ NextOf(d) = NextOf(g) /\ PrevOf(d) = PrevOf(g)
  BY <1>18, <1>21, <1>22, WithEndsIs
<1>24. CFLRUCounts(c, d) /\ SamePages(c, d)
  BY <1>8, <1>9, <1>10, <1>11, <1>17, <1>18, <1>23 DEF CFLRUCounts, SamePages
<1> QED BY <1>3, <1>8, <1>9, <1>19, <1>20, <1>23, <1>24

LEMMA AddedToIs ==
  ASSUME NEW n \in Nat, NEW B \in Nat, NEW c, c \in CFLRUCaches(n, B), NEW a, a \in Ref(n),
         a # NULL, NEW X, X \in Lists, NEW d, d = add_to_list(c, a, X)
  PROVE  /\ d \in CFLRUCaches(n, B) /\ CFLRUCounts(c, d)
         /\ d.working_size = SizeMore(X, c.working_size)
         /\ d.head = At(c.head, X, a)
         /\ d.tail = At(c.tail, X, IF c.tail[X] = NULL THEN a ELSE c.tail[X])
         /\ SamePages(c, d) /\ DirtyAt(d) = DirtyAt(c)
         /\ ListOf(d) = SetAt(ListOf(c), a, X)
         /\ NextOf(d) = SetAt(NextOf(c), a, c.head[X])
         /\ PrevOf(d) = SetAt(SetAt(PrevOf(c), c.head[X], a), a, NULL)
<1>1. c \in Caches(n, B) /\ a \in 0..n
  BY DEF Caches, Ref
<1>2. PICK first : first = c.head[X]
  OBVIOUS
<1>3. first \in Ref(n)
  BY <1>2 DEF CFLRUCaches
<1>4. PICK u : u = SetPrev(c, first, a)
  OBVIOUS
<1>5. /\ SameRest(c, u) /\ u \in Caches(n, B) /\ SamePages(c, u)
      /\ DirtyAt(u) = DirtyAt(c) /\ ListOf(u) = ListOf(c) /\ NextOf(u) = NextOf(c)
      /\ PrevOf(u) = SetAt(PrevOf(c), first, a)
  BY <1>1, <1>3, <1>4, SetPrevIs
<1>6. /\ u \in CFLRUCaches(n, B) /\ CFLRUCounts(c, u) /\ u.head = c.head /\ u.tail = c.tail
      /\ u.working_size = c.working_size
  BY <1>5, KeptInCFLRU
<1>7. PICK x : x = [u.nodes[a] EXCEPT !.next = first, !.prev = NULL, !.list_type = X]
  OBVIOUS
<1>8. PICK g : g = WithNode(u, a, x)
  OBVIOUS
<1>9. u.nodes[a] \in PageNode(n) /\ DirtyAt(u)[a] = u.nodes[a].dirty
  BY <1>1, <1>5, NodeFields
<1>10. x \in PageNode(n)
  BY <1>3, <1>7, <1>9, NodeChanges DEF Lists
<1>11. /\ x.page_number = u.nodes[a].page_number /\ x.hash_next = u.nodes[a].hash_next
       /\ x.dirty = u.nodes[a].dirty /\ x.next = first /\ x.prev = NULL /\ x.list_type = X
  BY <1>7, <1>9 DEF PageNode
<1>12. /\ SameRest(u, g) /\ g \in Caches(n, B) /\ SamePages(u, g)
       /\ DirtyAt(g) = SetAt(DirtyAt(u), a, x.dirty)
       /\ ListOf(g) = SetAt(ListOf(u), a, x.list_type)
       /\ NextOf(g) = SetAt(NextOf(u), a, x.next)
       /\ PrevOf(g) = SetAt(PrevOf(u), a, x.prev)
  BY <1>1, <1>5, <1>8, <1>10, <1>11, KeptAs
<1>13. /\ g \in CFLRUCaches(n, B) /\ CFLRUCounts(u, g) /\ g.head = u.head
       /\ g.tail = u.tail /\ g.working_size = u.working_size
  BY <1>6, <1>12, KeptInCFLRU
<1>14. DirtyAt(g) = DirtyAt(u)
  <2>1. DirtyAt(u) \in [0..n -> BOOLEAN]
    BY <1>5, PoolOf, PoolFields
  <2> QED BY <1>1, <1>9, <1>11, <1>12, <2>1 DEF SetAt
<1>15. PICK H, T, w : /\ H = At(c.head, X, a)
                      /\ T = At(c.tail, X, IF c.tail[X] = NULL THEN a ELSE c.tail[X])
                      /\ w = SizeMore(X, c.working_size)
  OBVIOUS
<1>16. H \in [Lists -> Ref(n)] /\ T \in [Lists -> Ref(n)] /\ w \in Int
  <2>1. /\ c.head \in [Lists -> Ref(n)] /\ c.tail \in [Lists -> Ref(n)]
        /\ c.working_size \in Int
    BY DEF CFLRUCaches
  <2> QED BY <1>15, <2>1 DEF At, SizeMore
<1>17. d = WithEnds(g, H, T, w)
  <2>1. d = [u EXCEPT
               !.nodes[a].next = first, !.nodes[a].prev = NULL, !.nodes[a].list_type = X,
               !.head[X] = a,
               !.tail[X] = IF @ = NULL THEN a ELSE @,
               !.working_size = IF X = "WORKING" THEN @ + 1 ELSE @]
    BY <1>2, <1>4 DEF add_to_list
  <2>2. [[[u.nodes EXCEPT ![a].next = first] EXCEPT ![a].prev = NULL] EXCEPT ![a].list_type = X]
           = [u.nodes EXCEPT ![a] = x]
    <3>1. u.nodes \in [0..n -> PageNode(n)]
      BY <1>6 DEF CFLRUCaches
    <3> QED BY <1>1, <1>7, <3>1
  <2>3. /\ H = [u.head EXCEPT ![X] = a]
        /\ T = [u.tail EXCEPT ![X] = IF @ = NULL THEN a ELSE @]
        /\ w = IF X = "WORKING" THEN u.working_size + 1 ELSE u.working_size
    BY <1>6, <1>15 DEF At, SizeMore, CFLRUCaches
  <2>4. g = [u EXCEPT !.nodes[a].next = first, !.nodes[a].prev = NULL, !.nodes[a].list_type = X]
    BY <1>6, <1>8, <2>2 DEF WithNode, CFLRUCaches
  <2>5. d = [g EXCEPT !.head[X] = a,
                      !.tail[X] = IF @ = NULL THEN a ELSE @,
                      !.working_size = IF X = "WORKING" THEN @ + 1 ELSE @]
    BY ONLY <2>1, <2>4
  <2> QED BY <1>6, <1>13, <2>3, <2>5 DEF WithEnds, CFLRUCaches
<1>18. /\ d \in CFLRUCaches(n, B) /\ CFLRUCounts(g, d) /\ d.head = H /\ d.tail = T
       /\ d.working_size = w /\ SamePages(g, d) /\ DirtyAt(d) = DirtyAt(g)
       /\ ListOf(d) = ListOf(g) /\ NextOf(d) = NextOf(g) /\ PrevOf(d) = PrevOf(g)
  BY <1>13, <1>16, <1>17, WithEndsIs
<1>19. CFLRUCounts(c, d) /\ SamePages(c, d)
  BY <1>5, <1>6, <1>12, <1>13, <1>18 DEF CFLRUCounts, SamePages
<1> QED BY <1>2, <1>5, <1>11, <1>12, <1>14, <1>15, <1>18, <1>19

\* The nodes of S, in the order of r, are the list of type X.
IsList(c, n, S, r, X) ==
  /\ Ranked(0..n, S, r) /\ Both(NextOf(c), PrevOf(c), c.head[X], c.tail[X], S, r)
  /\ \A a \in S : ListOf(c)[a] = X

LEMMA ListAgrees ==
  ASSUME NEW n \in Nat, NEW c, NEW d, NEW S, NEW r, NEW r2, NEW X, IsList(c, n, S, r, X),
         d.head[X] = c.head[X], d.tail[X] = c.tail[X], SameOn(S, NextOf(c), NextOf(d)),
         SameOn(S, PrevOf(c), PrevOf(d)), SameOn(S, ListOf(c), ListOf(d)),
         r2 \in [0..n -> Int], SameOn(S, r, r2)
  PROVE  IsList(d, n, S, r2, X)
<1>1. Ranked(0..n, S, r) /\ S \subseteq 0..n
  BY DEF IsList, Ranked
<1>2. Ranked(0..n, S, r2)
  BY <1>1 DEF Ranked, SameOn
<1>3. \A b \in S : Reversed(r2)[b] = Reversed(r)[b]
  BY <1>1 DEF Reversed, Ranked, SameOn
<1>4. PICK q, q2 : q = Reversed(r) /\ q2 = Reversed(r2)
  OBVIOUS
<1>5. Linked(NextOf(c), c.head[X], S, r) /\ Linked(PrevOf(c), c.tail[X], S, q)
  BY <1>4 DEF IsList, Both
<1>6. Linked(NextOf(d), d.head[X], S, r2)
  BY <1>5 DEF Linked, SameOn
<1>7. Linked(PrevOf(d), d.tail[X], S, q2)
  BY <1>3, <1>4, <1>5 DEF Linked, SameOn
<1>8. \A a \in S : ListOf(d)[a] = X
  BY DEF IsList, SameOn
<1> QED BY <1>2, <1>4, <1>6, <1>7, <1>8 DEF IsList, Both

\* M gives the nodes of each list.
Listed(c, n, M, r) ==
  /\ M \in [Lists -> SUBSET (0..n)] /\ r \in [0..n -> Int]
  /\ \A X \in Lists : IsList(c, n, M[X], r, X)

LEMMA ListTaken ==
  ASSUME NEW n \in Nat, NEW B \in Nat, NEW c, c \in CFLRUCaches(n, B), NEW S, NEW r, NEW X,
         X \in Lists, IsList(c, n, S, r, X), NEW a, a \in S, NEW d, d = remove_from_list(c, a)
  PROVE  /\ IsList(d, n, Dropping(S, a), r, X)
         /\ SameOutside(0..n, S, NextOf(c), NextOf(d)) /\ SameOutside(0..n, S, PrevOf(c), PrevOf(d))
<1>1. S \subseteq 0..n /\ NULL \notin 0..n /\ a \in Ref(n) /\ a # NULL /\ ListOf(c)[a] = X
  BY DEF IsList, Ranked, Ref
<1>2. /\ d \in CFLRUCaches(n, B) /\ ListOf(d) = SetAt(ListOf(c), a, "NONE")
      /\ d.head = At(c.head, X, IF a = c.head[X] THEN NextOf(c)[a] ELSE c.head[X])
      /\ d.tail = At(c.tail, X, IF a = c.tail[X] THEN PrevOf(c)[a] ELSE c.tail[X])
      /\ NextOf(d) = SetAt(NextOf(c), PrevOf(c)[a], NextOf(c)[a])
      /\ PrevOf(d) = SetAt(PrevOf(c), NextOf(c)[a], PrevOf(c)[a])
  BY <1>1, TakenFromIs
<1>3. c \in Caches(n, B)
  BY DEF Caches
<1>4. /\ NextOf(c) \in [0..n -> Ref(n)] /\ PrevOf(c) \in [0..n -> Ref(n)]
      /\ ListOf(c) \in [0..n -> {"NONE", "WORKING", "CLEAN", "DIRTY"}]
  BY <1>3, PoolOf, PoolFields
<1>5. c.head \in [Lists -> Ref(n)] /\ c.tail \in [Lists -> Ref(n)]
  BY DEF CFLRUCaches
<1>6. /\ d.head[X] = IF a = c.head[X] THEN NextOf(c)[a] ELSE c.head[X]
      /\ d.tail[X] = IF a = c.tail[X] THEN PrevOf(c)[a] ELSE c.tail[X]
  BY <1>2, <1>5 DEF At
<1>7. PICK nx, pv, nx2, pv2 : /\ nx = NextOf(c) /\ pv = PrevOf(c)
                              /\ nx2 = NextOf(d) /\ pv2 = PrevOf(d)
  OBVIOUS
<1>8. TakenOut(0..n, nx, pv, c.head[X], c.tail[X], a, nx2, pv2, d.head[X], d.tail[X])
  BY <1>1, <1>2, <1>4, <1>6, <1>7 DEF TakenOut, SetAt
<1>9. Ranked(0..n, S, r) /\ Both(nx, pv, c.head[X], c.tail[X], S, r)
  BY <1>7 DEF IsList
<1>10. /\ Both(nx2, pv2, d.head[X], d.tail[X], Dropping(S, a), r)
       /\ Ranked(0..n, Dropping(S, a), r)
       /\ SameOutside(0..n, S, nx, nx2) /\ SameOutside(0..n, S, pv, pv2)
  BY <1>8, <1>9, LinksUnlinked
<1>11. \A b \in Dropping(S, a) : ListOf(d)[b] = X
  BY <1>1, <1>2, <1>4 DEF IsList, Dropping, SetAt
<1> QED BY <1>7, <1>10, <1>11 DEF IsList

LEMMA ListsTaken ==
  ASSUME NEW n \in Nat, NEW B \in Nat, NEW c, c \in CFLRUCaches(n, B), NEW M, NEW r, NEW X,
         X \in Lists, Listed(c, n, M, r), NEW a, a \in M[X], NEW d, d = remove_from_list(c, a)
  PROVE  Listed(d, n, At(M, X, Dropping(M[X], a)), r)
<1>1. M \in [Lists -> SUBSET (0..n)] /\ r \in [0..n -> Int] /\ IsList(c, n, M[X], r, X)
  BY DEF Listed
<1>2. /\ IsList(d, n, Dropping(M[X], a), r, X)
      /\ SameOutside(0..n, M[X], NextOf(c), NextOf(d))
      /\ SameOutside(0..n, M[X], PrevOf(c), PrevOf(d))
  BY <1>1, ListTaken
<1>3. a \in 0..n /\ a \in Ref(n) /\ a # NULL /\ ListOf(c)[a] = X
  BY <1>1 DEF IsList, Ref, Ranked
<1>4. /\ ListOf(d) = SetAt(ListOf(c), a, "NONE")
      /\ d.head = At(c.head, X, IF a = c.head[X] THEN NextOf(c)[a] ELSE c.head[X])
      /\ d.tail = At(c.tail, X, IF a = c.tail[X] THEN PrevOf(c)[a] ELSE c.tail[X])
  BY <1>3, TakenFromIs
<1>5. c.head \in [Lists -> Ref(n)] /\ c.tail \in [Lists -> Ref(n)]
      /\ ListOf(c) \in [0..n -> {"NONE", "WORKING", "CLEAN", "DIRTY"}]
  BY PoolOf, PoolFields DEF CFLRUCaches, Caches
<1>6. ASSUME NEW Y \in Lists, Y # X PROVE IsList(d, n, M[Y], r, Y)
  <2>1. IsList(c, n, M[Y], r, Y) /\ M[Y] \subseteq 0..n
    BY <1>1, <1>6 DEF Listed
  <2>2. \A b \in M[Y] : b \notin M[X] /\ b # a
    BY <1>1, <1>3, <1>6, <2>1 DEF IsList
  <2>3. d.head[Y] = c.head[Y] /\ d.tail[Y] = c.tail[Y]
    BY <1>4, <1>5, <1>6 DEF At
  <2>4. SameOn(M[Y], NextOf(c), NextOf(d)) /\ SameOn(M[Y], PrevOf(c), PrevOf(d))
    BY <1>2, <2>1, <2>2 DEF SameOn, SameOutside
  <2>5. SameOn(M[Y], ListOf(c), ListOf(d))
    BY <1>3, <1>4, <1>5, <2>1, <2>2 DEF SameOn, SetAt
  <2>6. SameOn(M[Y], r, r)
    BY DEF SameOn
  <2> QED BY <1>1, <2>1, <2>3, <2>4, <2>5, <2>6, ListAgrees
<1>7. PICK M2 : M2 = At(M, X, Dropping(M[X], a))
  OBVIOUS
<1>8. /\ M2 \in [Lists -> SUBSET (0..n)] /\ M2[X] = Dropping(M[X], a)
      /\ \A Y \in Lists : Y # X => M2[Y] = M[Y]
  BY <1>1, <1>7 DEF At, Dropping
<1>9. \A Y \in Lists : IsList(d, n, M2[Y], r, Y)
  BY <1>2, <1>6, <1>8
<1> QED BY <1>1, <1>7, <1>8, <1>9 DEF Listed

\* A node a enters the list of type X, which turns c into d.
Adds(c, n, B, M, r, r2, a, X, d) ==
  /\ c \in CFLRUCaches(n, B) /\ Listed(c, n, M, r) /\ X \in Lists
  /\ a \in Ref(n) /\ a # NULL /\ \A Y \in Lists : a \notin M[Y] /\ SameOn(M[Y], r, r2)
  /\ Ahead(0..n, M[X], r, r2, a) /\ d = add_to_list(c, a, X)

LEMMA ListsAdded ==
  ASSUME NEW n \in Nat, NEW B \in Nat, NEW c, NEW M, NEW r, NEW r2, NEW a, NEW X, NEW d,
         Adds(c, n, B, M, r, r2, a, X, d)
  PROVE  Listed(d, n, At(M, X, Adding(M[X], a)), r2)
<1>1. /\ c \in CFLRUCaches(n, B) /\ Listed(c, n, M, r) /\ X \in Lists
      /\ a \in Ref(n) /\ a # NULL /\ \A Y \in Lists : a \notin M[Y] /\ SameOn(M[Y], r, r2)
      /\ Ahead(0..n, M[X], r, r2, a) /\ d = add_to_list(c, a, X)
  BY DEF Adds
<1>2. /\ M \in [Lists -> SUBSET (0..n)] /\ r2 \in [0..n -> Int] /\ IsList(c, n, M[X], r, X)
      /\ a \in 0..n /\ c \in Caches(n, B)
  BY <1>1 DEF Listed, Ahead, Ref, Caches
<1>3. /\ d \in CFLRUCaches(n, B) /\ ListOf(d) = SetAt(ListOf(c), a, X)
      /\ d.head = At(c.head, X, a)
      /\ d.tail = At(c.tail, X, IF c.tail[X] = NULL THEN a ELSE c.tail[X])
      /\ NextOf(d) = SetAt(NextOf(c), a, c.head[X])
      /\ PrevOf(d) = SetAt(SetAt(PrevOf(c), c.head[X], a), a, NULL)
  BY <1>1, AddedToIs
<1>4. /\ c.head \in [Lists -> Ref(n)] /\ c.tail \in [Lists -> Ref(n)]
      /\ NextOf(c) \in [0..n -> Ref(n)] /\ PrevOf(c) \in [0..n -> Ref(n)]
      /\ ListOf(c) \in [0..n -> {"NONE", "WORKING", "CLEAN", "DIRTY"}]
  BY <1>1, <1>2, PoolOf, PoolFields DEF CFLRUCaches
<1>5. PICK S, first : S = M[X] /\ first = c.head[X]
  OBVIOUS
<1>6. S \subseteq 0..n /\ a \notin S /\ first \in Ref(n)
  BY <1>1, <1>2, <1>4, <1>5
<1>7. /\ d.head[X] = a /\ d.tail[X] = (IF c.tail[X] = NULL THEN a ELSE c.tail[X])
      /\ \A Y \in Lists : Y # X => d.head[Y] = c.head[Y] /\ d.tail[Y] = c.tail[Y]
  BY <1>1, <1>3, <1>4 DEF At
<1>8. /\ \A b \in 0..n : NextOf(d)[b] = IF b = a THEN first ELSE NextOf(c)[b]
      /\ \A b \in 0..n : PrevOf(d)[b] = IF b = a THEN NULL ELSE IF b = first THEN a ELSE PrevOf(c)[b]
      /\ \A b \in 0..n : ListOf(d)[b] = IF b = a THEN X ELSE ListOf(c)[b]
  <2>1. PICK pv : pv = SetAt(PrevOf(c), first, a)
    OBVIOUS
  <2>2. pv \in [0..n -> Ref(n)] /\ \A b \in 0..n : pv[b] = IF b = first THEN a ELSE PrevOf(c)[b]
    <3>1. CASE first = NULL
      <4>1. pv = PrevOf(c) /\ \A b \in 0..n : b # first
        BY <2>1, <3>1 DEF SetAt, NULL
      <4> QED BY <1>4, <4>1
    <3>2. CASE first # NULL
      <4>1. first \in 0..n /\ pv = [PrevOf(c) EXCEPT ![first] = a]
        BY <1>6, <2>1, <3>2 DEF SetAt, Ref
      <4> QED BY <1>1, <1>4, <4>1
    <3> QED BY <3>1, <3>2
  <2>3. \A b \in 0..n : PrevOf(d)[b] = IF b = a THEN NULL ELSE pv[b]
    BY <1>1, <1>2, <1>3, <1>5, <2>1, <2>2 DEF SetAt
  <2>4. \A b \in 0..n : NextOf(d)[b] = IF b = a THEN first ELSE NextOf(c)[b]
    BY <1>1, <1>2, <1>3, <1>4, <1>5 DEF SetAt
  <2>5. \A b \in 0..n : ListOf(d)[b] = IF b = a THEN X ELSE ListOf(c)[b]
    BY <1>1, <1>2, <1>3, <1>4 DEF SetAt
  <2> QED BY <2>2, <2>3, <2>4, <2>5
<1>9. IsList(d, n, Adding(S, a), r2, X)
  <2>1. PICK nx, pv, nx2, pv2 : /\ nx = NextOf(c) /\ pv = PrevOf(c)
                                /\ nx2 = NextOf(d) /\ pv2 = PrevOf(d)
    OBVIOUS
  <2>2. Ranked(0..n, S, r) /\ Both(nx, pv, first, c.tail[X], S, r) /\ Ahead(0..n, S, r, r2, a)
    BY <1>1, <1>2, <1>5, <2>1 DEF IsList
  <2>3. PutFirst(0..n, nx, pv, first, c.tail[X], a, nx2, pv2, d.tail[X])
    BY <1>7, <1>8, <2>1 DEF PutFirst
  <2>4. /\ Both(nx2, pv2, a, d.tail[X], Adding(S, a), r2) /\ Ranked(0..n, Adding(S, a), r2)
    BY <1>2, <1>6, <2>2, <2>3, LinksPushed
  <2>5. \A b \in Adding(S, a) : ListOf(d)[b] = X
    BY <1>2, <1>5, <1>6, <1>8 DEF Adding, IsList
  <2> QED BY <1>7, <2>1, <2>4, <2>5 DEF IsList
<1>10. first = NULL \/ first \in S
  BY <1>2, <1>5 DEF IsList, Both, Linked
<1>11. ASSUME NEW Y \in Lists, Y # X PROVE IsList(d, n, M[Y], r2, Y)
  <2>1. IsList(c, n, M[Y], r, Y) /\ M[Y] \subseteq 0..n /\ a \notin M[Y] /\ SameOn(M[Y], r, r2)
    BY <1>1, <1>2, <1>11 DEF Listed
  <2>2. \A b \in M[Y] : b \notin S /\ b # a /\ b # first
    <3>1. \A b \in S : ListOf(c)[b] = X
      BY <1>2, <1>5 DEF IsList
    <3>2. \A b \in M[Y] : ListOf(c)[b] = Y
      BY <2>1 DEF IsList
    <3>3. \A b \in M[Y] : b # NULL
      BY <2>1 DEF NULL
    <3> QED BY <1>10, <1>11, <2>1, <3>1, <3>2, <3>3
  <2>3. SameOn(M[Y], NextOf(c), NextOf(d)) /\ SameOn(M[Y], PrevOf(c), PrevOf(d))
        /\ SameOn(M[Y], ListOf(c), ListOf(d))
    BY <1>8, <2>1, <2>2 DEF SameOn
  <2> QED BY <1>2, <1>7, <1>11, <2>1, <2>3, ListAgrees
<1>12. PICK M2 : M2 = At(M, X, Adding(S, a))
  OBVIOUS
<1>13. /\ M2 \in [Lists -> SUBSET (0..n)] /\ M2[X] = Adding(S, a)
       /\ \A Y \in Lists : Y # X => M2[Y] = M[Y]
  BY <1>1, <1>2, <1>6, <1>12 DEF At, Adding
<1>14. \A Y \in Lists : IsList(d, n, M2[Y], r2, Y)
  BY <1>9, <1>11, <1>13
<1> QED BY <1>2, <1>5, <1>12, <1>13, <1>14 DEF Listed

\* The last of a list has the highest rank.
LEMMA ListTail ==
  ASSUME NEW n \in Nat, NEW c, NEW S, NEW r, NEW X, IsList(c, n, S, r, X)
  PROVE  /\ c.tail[X] = NULL <=> S = {}
         /\ c.tail[X] # NULL => c.tail[X] \in S /\ c.tail[X] \in Ref(n)
         /\ \A b \in S : b # c.tail[X] => r[b] < r[c.tail[X]]
         /\ c.tail[X] # NULL => ListOf(c)[c.tail[X]] = X
<1>1. /\ S \subseteq 0..n /\ NULL \notin 0..n /\ r \in [0..n -> Int]
      /\ \A a, b \in S : r[a] = r[b] => a = b
  BY DEF IsList, Ranked
<1>2. PICK q : q = Reversed(r)
  OBVIOUS
<1>3. Linked(PrevOf(c), c.tail[X], S, q) /\ \A b \in S : q[b] = -r[b]
  BY <1>1, <1>2 DEF IsList, Both, Reversed
<1>4. c.tail[X] = NULL <=> S = {}
  BY <1>1, <1>3 DEF Linked
<1>5. ASSUME c.tail[X] # NULL
      PROVE  c.tail[X] \in S /\ \A b \in S : b # c.tail[X] => r[b] < r[c.tail[X]]
  <2>1. c.tail[X] \in S /\ \A b \in S : q[c.tail[X]] <= q[b]
    BY <1>3, <1>5 DEF Linked
  <2>2. ASSUME NEW b \in S, b # c.tail[X] PROVE r[b] < r[c.tail[X]]
    <3>1. q[c.tail[X]] <= q[b] /\ q[b] = -r[b] /\ q[c.tail[X]] = -r[c.tail[X]]
      BY <1>3, <2>1
    <3>2. r[b] \in Int /\ r[c.tail[X]] \in Int /\ r[b] # r[c.tail[X]]
      BY <1>1, <2>1, <2>2
    <3> QED BY <3>1, <3>2
  <2> QED BY <2>1, <2>2
<1> QED BY <1>1, <1>4, <1>5 DEF IsList, Ref

Everything(M) == M["WORKING"] \cup M["CLEAN"] \cup M["DIRTY"]

\* Working nodes come before all others, and these are parted by their bits.
Policy(c, M, r) ==
  /\ \A X \in {"CLEAN", "DIRTY"} : \A a \in M["WORKING"], b \in M[X] : r[a] < r[b]
  /\ \A a \in M["CLEAN"] : ~ DirtyAt(c)[a]
  /\ \A a \in M["DIRTY"] : DirtyAt(c)[a]

\* The node a goes from the working list to another one.
Moved(M, M2, a) ==
  /\ a \in M["WORKING"] /\ M2["WORKING"] = Dropping(M["WORKING"], a)
  /\ Everything(M2) = Everything(M)

LEMMA MovedIs ==
  ASSUME NEW n \in Nat, NEW B \in Nat, NEW c, c \in CFLRUCaches(n, B), NEW M, NEW r,
         Listed(c, n, M, r), Policy(c, M, r), M["WORKING"] # {}, NEW d, d = move_to_CFlist(c)
  PROVE  /\ d \in CFLRUCaches(n, B) /\ CFLRUCounts(c, d) /\ SamePages(c, d)
         /\ DirtyAt(d) = DirtyAt(c) /\ d.working_size = c.working_size - 1
         /\ \E M2, a : Moved(M, M2, a) /\ Listed(d, n, M2, r) /\ Policy(d, M2, r)
<1>1. PICK a : a = c.tail["WORKING"]
  OBVIOUS
<1>2. PICK X : X = IF DirtyAt(c)[a] THEN "DIRTY" ELSE "CLEAN"
  OBVIOUS
<1>3. X \in {"CLEAN", "DIRTY"} /\ X \in Lists /\ "WORKING" \in Lists /\ X # "WORKING"
  BY <1>2 DEF Lists
<1>4. /\ M \in [Lists -> SUBSET (0..n)] /\ r \in [0..n -> Int]
      /\ \A Y \in Lists : IsList(c, n, M[Y], r, Y)
  BY DEF Listed
<1>5. /\ a \in M["WORKING"] /\ a # NULL /\ a \in Ref(n) /\ ListOf(c)[a] = "WORKING"
      /\ \A b \in M["WORKING"] : b # a => r[b] < r[a]
  <2>1. PICK S : S = M["WORKING"]
    OBVIOUS
  <2>2. IsList(c, n, S, r, "WORKING") /\ S # {}
    BY <1>3, <1>4, <2>1
  <2>3. a # NULL
    BY <1>1, <2>2, ListTail
  <2> QED BY <1>1, <2>1, <2>2, <2>3, ListTail
<1>6. a \in 0..n /\ c \in Caches(n, B)
  BY <1>3, <1>4, <1>5 DEF Caches
<1>7. PICK e : e = remove_from_list(c, a)
  OBVIOUS
<1>8. d = add_to_list(e, a, X)
  <2>1. c.nodes[a].dirty = DirtyAt(c)[a]
    BY <1>6, NodeFields
  <2>2. X = IF c.nodes[a].dirty THEN "DIRTY" ELSE "CLEAN"
    BY <1>2, <2>1
  <2>3. c.tail.WORKING = a
    BY <1>1
  <2> QED BY <1>5, <1>7, <2>2, <2>3 DEF move_to_CFlist
<1>9. /\ e \in CFLRUCaches(n, B) /\ CFLRUCounts(c, e) /\ e.working_size = c.working_size - 1
      /\ SamePages(c, e) /\ DirtyAt(e) = DirtyAt(c)
  BY <1>3, <1>5, <1>7, TakenFromIs DEF SizeLess
<1>10. PICK M1 : M1 = At(M, "WORKING", Dropping(M["WORKING"], a))
  OBVIOUS
<1>11. Listed(e, n, M1, r)
  BY <1>3, <1>5, <1>7, <1>10, ListsTaken
<1>12. /\ M1["WORKING"] = Dropping(M["WORKING"], a) /\ M1["CLEAN"] = M["CLEAN"]
       /\ M1["DIRTY"] = M["DIRTY"] /\ M1 \in [Lists -> SUBSET (0..n)]
  BY <1>4, <1>10 DEF At, Lists, Dropping
<1>13. \A Y \in Lists : Y # "WORKING" => a \notin M[Y]
  BY <1>3, <1>4, <1>5 DEF IsList
<1>14. Adds(e, n, B, M1, r, r, a, X, d)
  <2>1. \A Y \in Lists : a \notin M1[Y]
    BY <1>12, <1>13 DEF Lists, Dropping
  <2>2. Ahead(0..n, M1[X], r, r, a)
    <3>1. M1[X] = M[X]
      BY <1>3, <1>12
    <3> QED BY <1>3, <1>4, <1>5, <3>1 DEF Ahead, Policy
  <2>3. \A Y \in Lists : SameOn(M1[Y], r, r)
    BY DEF SameOn
  <2> QED BY <1>3, <1>5, <1>8, <1>9, <1>11, <2>1, <2>2, <2>3 DEF Adds
<1>15. /\ d \in CFLRUCaches(n, B) /\ CFLRUCounts(e, d) /\ d.working_size = e.working_size
       /\ SamePages(e, d) /\ DirtyAt(d) = DirtyAt(e)
  BY <1>3, <1>5, <1>8, <1>9, AddedToIs DEF SizeMore
<1>16. PICK M2 : M2 = At(M1, X, Adding(M1[X], a))
  OBVIOUS
<1>17. Listed(d, n, M2, r)
  BY <1>14, <1>16, ListsAdded
<1>18. /\ M2["WORKING"] = Dropping(M["WORKING"], a) /\ M2[X] = Adding(M[X], a)
       /\ \A Y \in Lists : Y # X /\ Y # "WORKING" => M2[Y] = M[Y]
  BY <1>3, <1>12, <1>16 DEF At, Lists
<1>19. Moved(M, M2, a)
  <2>1. CASE X = "CLEAN"
    <3>1. M2["CLEAN"] = M["CLEAN"] \cup {a} /\ M2["DIRTY"] = M["DIRTY"]
      BY <1>18, <2>1 DEF Lists, Adding
    <3> QED BY <1>5, <1>18, <3>1 DEF Moved, Everything, Dropping
  <2>2. CASE X = "DIRTY"
    <3>1. M2["DIRTY"] = M["DIRTY"] \cup {a} /\ M2["CLEAN"] = M["CLEAN"]
      BY <1>18, <2>2 DEF Lists, Adding
    <3> QED BY <1>5, <1>18, <3>1 DEF Moved, Everything, Dropping
  <2> QED BY <1>3, <2>1, <2>2
<1>20. Policy(d, M2, r)
  <2>1. ASSUME NEW Y \in {"CLEAN", "DIRTY"}, NEW b \in M2["WORKING"], NEW g \in M2[Y]
        PROVE  r[b] < r[g]
    <3>1. b \in M["WORKING"] /\ b # a
      BY <1>18 DEF Dropping
    <3>2. g = a \/ g \in M[Y]
      BY <1>18 DEF Lists, Adding
    <3> QED BY <1>5, <3>1, <3>2 DEF Policy
  <2>2. DirtyAt(d) = DirtyAt(c)
    BY <1>9, <1>15
  <2>3. ASSUME NEW g \in M2["CLEAN"] PROVE ~ DirtyAt(d)[g]
    <3>1. g \in M["CLEAN"] \/ (g = a /\ X = "CLEAN")
      BY <1>3, <1>18 DEF Lists, Adding
    <3> QED BY <1>2, <2>2, <3>1 DEF Policy
  <2>4. ASSUME NEW g \in M2["DIRTY"] PROVE DirtyAt(d)[g]
    <3>1. g \in M["DIRTY"] \/ (g = a /\ X = "DIRTY")
      BY <1>3, <1>18 DEF Lists, Adding
    <3> QED BY <1>2, <2>2, <3>1 DEF Policy
  <2> QED BY <2>1, <2>3, <2>4 DEF Policy
<1>21. CFLRUCounts(c, d) /\ SamePages(c, d) /\ DirtyAt(d) = DirtyAt(c)
  BY <1>9, <1>15 DEF CFLRUCounts, SamePages
<1>22. d.working_size = c.working_size - 1
  BY <1>9, <1>15
<1> QED BY <1>15, <1>17, <1>19, <1>20, <1>21, <1>22

LEMMA FinitePool ==
  ASSUME NEW n \in Nat, NEW S, S \subseteq 0..n
  PROVE  IsFiniteSet(S)
<1>1. IsFiniteSet(0..n)
  BY FS_Interval
<1>2. S \in SUBSET (0..n)
  OBVIOUS
<1> QED BY <1>1, <1>2, FS_Subset

LEMMA OneLess ==
  ASSUME NEW n \in Nat, NEW S, S \subseteq 0..n, NEW a, a \in S
  PROVE  Cardinality(S) \in Nat /\ Cardinality(Dropping(S, a)) = Cardinality(S) - 1
<1>1. IsFiniteSet(S)
  BY FinitePool
<1> QED BY <1>1, FS_CardinalityType, FS_RemoveElement DEF Dropping

LEMMA OneMore ==
  ASSUME NEW n \in Nat, NEW S, S \subseteq 0..n, NEW a, a \notin S
  PROVE  Cardinality(S) \in Nat /\ Cardinality(Adding(S, a)) = Cardinality(S) + 1
<1>1. IsFiniteSet(S)
  BY FinitePool
<1> QED BY <1>1, FS_CardinalityType, FS_AddElement DEF Adding

LEMMA WorkingIs ==
  ASSUME NEW n \in Nat, NEW c, NEW M, NEW r, Listed(c, n, M, r)
  PROVE  /\ M["WORKING"] \subseteq 0..n /\ Everything(M) \subseteq 0..n
         /\ M["WORKING"] \subseteq Everything(M)
         /\ Cardinality(M["WORKING"]) \in Nat
         /\ M["WORKING"] = {} <=> Cardinality(M["WORKING"]) = 0
<1>1. M \in [Lists -> SUBSET (0..n)]
  BY DEF Listed
<1>2. M["WORKING"] \subseteq 0..n /\ M["CLEAN"] \subseteq 0..n /\ M["DIRTY"] \subseteq 0..n
  BY <1>1 DEF Lists
<1>3. IsFiniteSet(M["WORKING"])
  BY <1>2, FinitePool
<1> QED BY <1>2, <1>3, FS_CardinalityType, FS_EmptySet DEF Everything

\* The working list has as many pages as it may have, or all there are.
Sized(c, M, cap) ==
  /\ c.working_size = Cardinality(M["WORKING"]) /\ c.working_size <= cap
  /\ M["WORKING"] # Everything(M) => c.working_size = cap

\* It may have one too many.
Oversized(c, M, cap) ==
  /\ c.working_size = Cardinality(M["WORKING"]) /\ c.working_size <= cap + 1
  /\ M["WORKING"] # Everything(M) => c.working_size >= cap

\* The nodes of M are in their lists, as the policy wants them.
InPolicy(c, n, M, r) == Listed(c, n, M, r) /\ Policy(c, M, r)

LEMMA MigratedIs ==
  ASSUME NEW n \in Nat, NEW B \in Nat, NEW c, c \in CFLRUCaches(n, B), NEW M, NEW r,
         InPolicy(c, n, M, r), NEW cap \in Nat, c.working_cap = cap, Oversized(c, M, cap),
         NEW d, d = Migrate(c)
  PROVE  /\ d \in CFLRUCaches(n, B) /\ CFLRUCounts(c, d) /\ SamePages(c, d)
         /\ DirtyAt(d) = DirtyAt(c)
         /\ \E M2 : /\ InPolicy(d, n, M2, r) /\ Everything(M2) = Everything(M)
                    /\ Sized(d, M2, cap)
<1>1. Listed(c, n, M, r) /\ Policy(c, M, r)
  BY DEF InPolicy
<1>2. PICK w \in Nat : w = c.working_size /\ w = Cardinality(M["WORKING"])
  BY <1>1, WorkingIs DEF Oversized
<1>3. w <= cap + 1 /\ (M["WORKING"] # Everything(M) => w >= cap)
  BY <1>2 DEF Oversized
<1>4. CASE w > cap
  <2>1. d = move_to_CFlist(c)
    BY <1>2, <1>4 DEF Migrate
  <2>2. M["WORKING"] # {}
    BY <1>1, <1>2, <1>4, WorkingIs
  <2>3. /\ d \in CFLRUCaches(n, B) /\ CFLRUCounts(c, d) /\ SamePages(c, d)
        /\ DirtyAt(d) = DirtyAt(c) /\ d.working_size = c.working_size - 1
        /\ \E M2, a : Moved(M, M2, a) /\ Listed(d, n, M2, r) /\ Policy(d, M2, r)
    BY <1>1, <2>1, <2>2, MovedIs
  <2>4. PICK M2, a : Moved(M, M2, a) /\ Listed(d, n, M2, r) /\ Policy(d, M2, r)
    BY <2>3
  <2>5. /\ a \in M["WORKING"] /\ M2["WORKING"] = Dropping(M["WORKING"], a)
        /\ Everything(M2) = Everything(M)
    BY <2>4 DEF Moved
  <2>6. Cardinality(M2["WORKING"]) = w - 1
    BY <1>1, <1>2, <2>5, WorkingIs, OneLess
  <2>7. Sized(d, M2, cap)
    <3>1. w - 1 = cap
      BY <1>3, <1>4
    <3>2. d.working_size = cap /\ Cardinality(M2["WORKING"]) = cap
      BY <1>2, <2>3, <2>6, <3>1
    <3> QED BY <3>2 DEF Sized
  <2> QED BY <2>3, <2>4, <2>5, <2>7 DEF InPolicy
<1>5. CASE ~ (w > cap)
  <2>1. d = c
    BY <1>2, <1>5 DEF Migrate
  <2>2. Sized(c, M, cap)
    BY <1>2, <1>3, <1>5 DEF Sized
  <2>3. CFLRUCounts(c, d) /\ SamePages(c, d)
    BY <2>1 DEF CFLRUCounts, SamePages
  <2> QED BY <2>1, <2>2, <2>3
<1> QED BY <1>4, <1>5

\* The node a, which is in no list, enters the working list.
Brings(c, n, B, M, r, r2, a, d) ==
  /\ c \in CFLRUCaches(n, B) /\ InPolicy(c, n, M, r) /\ a \in Ref(n) /\ a # NULL
  /\ a \notin Everything(M) /\ Ahead(0..n, Everything(M), r, r2, a)
  /\ d = add_to_list(c, a, "WORKING")

Joined(M, M2, a) ==
  M2["WORKING"] = Adding(M["WORKING"], a) /\ Everything(M2) = Adding(Everything(M), a)

LEMMA BroughtIs ==
  ASSUME NEW n \in Nat, NEW B \in Nat, NEW c, NEW M, NEW r, NEW r2, NEW a, NEW d,
         Brings(c, n, B, M, r, r2, a, d)
  PROVE  /\ d \in CFLRUCaches(n, B) /\ CFLRUCounts(c, d) /\ SamePages(c, d)
         /\ DirtyAt(d) = DirtyAt(c) /\ d.working_size = c.working_size + 1
         /\ \E M2 : Joined(M, M2, a) /\ InPolicy(d, n, M2, r2)
<1>1. /\ c \in CFLRUCaches(n, B) /\ Listed(c, n, M, r) /\ Policy(c, M, r)
      /\ a \in Ref(n) /\ a # NULL /\ a \notin Everything(M)
      /\ r2 \in [0..n -> Int] /\ \A b \in Everything(M) : r2[b] = r[b] /\ r2[a] < r[b]
      /\ d = add_to_list(c, a, "WORKING") /\ "WORKING" \in Lists
  BY DEF Brings, InPolicy, Ahead, Lists
<1>2. M \in [Lists -> SUBSET (0..n)]
  BY <1>1 DEF Listed
<1>3. \A Y \in Lists : M[Y] \subseteq Everything(M)
  BY DEF Lists, Everything
<1>4. Adds(c, n, B, M, r, r2, a, "WORKING", d)
  <2>1. \A Y \in Lists : a \notin M[Y] /\ SameOn(M[Y], r, r2)
    BY <1>1, <1>3 DEF SameOn
  <2>2. Ahead(0..n, M["WORKING"], r, r2, a)
    BY <1>1, <1>3 DEF Ahead
  <2> QED BY <1>1, <2>1, <2>2 DEF Adds
<1>5. /\ d \in CFLRUCaches(n, B) /\ CFLRUCounts(c, d) /\ SamePages(c, d)
      /\ DirtyAt(d) = DirtyAt(c) /\ d.working_size = c.working_size + 1
  BY <1>1, AddedToIs DEF SizeMore
<1>6. PICK M2 : M2 = At(M, "WORKING", Adding(M["WORKING"], a))
  OBVIOUS
<1>7. Listed(d, n, M2, r2)
  BY <1>4, <1>6, ListsAdded
<1>8. /\ M2["WORKING"] = Adding(M["WORKING"], a) /\ M2["CLEAN"] = M["CLEAN"]
      /\ M2["DIRTY"] = M["DIRTY"]
  BY <1>2, <1>6 DEF At, Lists
<1>9. Joined(M, M2, a)
  BY <1>8 DEF Joined, Everything, Adding
<1>10. Policy(d, M2, r2)
  <2>1. ASSUME NEW Y \in {"CLEAN", "DIRTY"}, NEW b \in M2["WORKING"], NEW g \in M2[Y]
        PROVE  r2[b] < r2[g]
    <3>1. g \in M[Y] /\ g \in Everything(M) /\ (b = a \/ b \in M["WORKING"])
      BY <1>8 DEF Adding, Everything
    <3>2. r2[g] = r[g] /\ r2[a] < r[g]
      BY <1>1, <3>1
    <3>3. b \in M["WORKING"] => r2[b] = r[b] /\ r[b] < r[g]
      BY <1>1, <3>1 DEF Policy, Everything
    <3> QED BY <3>1, <3>2, <3>3
  <2>2. /\ \A g \in M2["CLEAN"] : ~ DirtyAt(d)[g]
        /\ \A g \in M2["DIRTY"] : DirtyAt(d)[g]
    BY <1>1, <1>5, <1>8 DEF Policy
  <2> QED BY <2>1, <2>2 DEF Policy
<1> QED BY <1>5, <1>7, <1>9, <1>10 DEF InPolicy

\* A cache d whose lists are those of c as far as their nodes go.
Agreeing(c, d, M, n, r, r2) ==
  /\ d.head = c.head /\ d.tail = c.tail
  /\ SameOn(Everything(M), NextOf(c), NextOf(d)) /\ SameOn(Everything(M), PrevOf(c), PrevOf(d))
  /\ SameOn(Everything(M), ListOf(c), ListOf(d)) /\ SameOn(Everything(M), DirtyAt(c), DirtyAt(d))
  /\ r2 \in [0..n -> Int] /\ SameOn(Everything(M), r, r2)

LEMMA SortedAgrees ==
  ASSUME NEW n \in Nat, NEW c, NEW d, NEW M, NEW r, NEW r2, InPolicy(c, n, M, r),
         Agreeing(c, d, M, n, r, r2)
  PROVE  InPolicy(d, n, M, r2)
<1>1. /\ d.head = c.head /\ d.tail = c.tail
      /\ SameOn(Everything(M), NextOf(c), NextOf(d)) /\ SameOn(Everything(M), PrevOf(c), PrevOf(d))
      /\ SameOn(Everything(M), ListOf(c), ListOf(d)) /\ SameOn(Everything(M), DirtyAt(c), DirtyAt(d))
      /\ r2 \in [0..n -> Int] /\ SameOn(Everything(M), r, r2)
  BY DEF Agreeing
<1>2. /\ M \in [Lists -> SUBSET (0..n)] /\ \A X \in Lists : IsList(c, n, M[X], r, X)
      /\ Policy(c, M, r)
  BY DEF InPolicy, Listed
<1>3. \A X \in Lists : M[X] \subseteq Everything(M)
  BY DEF Lists, Everything
<1>4. ASSUME NEW X \in Lists PROVE IsList(d, n, M[X], r2, X)
  <2>1. IsList(c, n, M[X], r, X) /\ d.head[X] = c.head[X] /\ d.tail[X] = c.tail[X]
    BY <1>1, <1>2
  <2>2. /\ SameOn(M[X], NextOf(c), NextOf(d)) /\ SameOn(M[X], PrevOf(c), PrevOf(d))
        /\ SameOn(M[X], ListOf(c), ListOf(d)) /\ SameOn(M[X], r, r2)
    BY <1>1, <1>3 DEF SameOn
  <2> QED BY <1>1, <2>1, <2>2, ListAgrees
<1>5. Policy(d, M, r2)
  <2>1. \A b \in Everything(M) : r2[b] = r[b] /\ DirtyAt(d)[b] = DirtyAt(c)[b]
    BY <1>1 DEF SameOn
  <2>2. /\ M["WORKING"] \subseteq Everything(M) /\ M["CLEAN"] \subseteq Everything(M)
        /\ M["DIRTY"] \subseteq Everything(M)
    BY DEF Everything
  <2>3. ASSUME NEW X \in {"CLEAN", "DIRTY"}, NEW a \in M["WORKING"], NEW b \in M[X]
        PROVE  r2[a] < r2[b]
    <3>1. a \in Everything(M) /\ b \in Everything(M) /\ r[a] < r[b]
      BY <1>2, <2>2 DEF Policy
    <3> QED BY <2>1, <3>1
  <2>4. ASSUME NEW a \in M["CLEAN"] PROVE ~ DirtyAt(d)[a]
    BY <1>2, <2>1, <2>2 DEF Policy
  <2>5. ASSUME NEW a \in M["DIRTY"] PROVE DirtyAt(d)[a]
    BY <1>2, <2>1, <2>2 DEF Policy
  <2> QED BY <2>3, <2>4, <2>5 DEF Policy
<1> QED BY <1>1, <1>2, <1>4, <1>5 DEF InPolicy, Listed

\* The lists without the node a.
Shed(M, M1, a) ==
  /\ M1["WORKING"] = Dropping(M["WORKING"], a) /\ M1["CLEAN"] = Dropping(M["CLEAN"], a)
  /\ M1["DIRTY"] = Dropping(M["DIRTY"], a) /\ Everything(M1) = Dropping(Everything(M), a)

\* The node a, whose bit may have changed from c to e, is taken out of its list.
Detaches(c, e, n, B, M, r, a, d) ==
  /\ InPolicy(c, n, M, r) /\ e \in CFLRUCaches(n, B) /\ e.head = c.head /\ e.tail = c.tail
  /\ NextOf(e) = NextOf(c) /\ PrevOf(e) = PrevOf(c) /\ ListOf(e) = ListOf(c)
  /\ SameOn(Dropping(Everything(M), a), DirtyAt(c), DirtyAt(e))
  /\ a \in Everything(M) /\ d = remove_from_list(e, a)

LEMMA DetachedIs ==
  ASSUME NEW n \in Nat, NEW B \in Nat, NEW c, NEW e, NEW M, NEW r, NEW a, NEW d,
         Detaches(c, e, n, B, M, r, a, d)
  PROVE  /\ d \in CFLRUCaches(n, B) /\ CFLRUCounts(e, d) /\ SamePages(e, d)
         /\ DirtyAt(d) = DirtyAt(e)
         /\ d.working_size = e.working_size - (IF a \in M["WORKING"] THEN 1 ELSE 0)
         /\ \E M1 : Shed(M, M1, a) /\ InPolicy(d, n, M1, r)
<1>1. /\ Listed(c, n, M, r) /\ Policy(c, M, r)
      /\ e \in CFLRUCaches(n, B) /\ e.head = c.head /\ e.tail = c.tail
      /\ NextOf(e) = NextOf(c) /\ PrevOf(e) = PrevOf(c) /\ ListOf(e) = ListOf(c)
      /\ SameOn(Dropping(Everything(M), a), DirtyAt(c), DirtyAt(e))
      /\ a \in Everything(M) /\ d = remove_from_list(e, a)
  BY DEF Detaches, InPolicy
<1>2. /\ M \in [Lists -> SUBSET (0..n)] /\ r \in [0..n -> Int]
      /\ \A X \in Lists : IsList(c, n, M[X], r, X)
  BY <1>1 DEF Listed
<1>3. Listed(e, n, M, r)
  BY <1>1, <1>2 DEF Listed, IsList
<1>4. PICK X \in Lists : a \in M[X]
  BY <1>1 DEF Everything, Lists
<1>5. /\ \A Y \in Lists : Y # X => a \notin M[Y]
      /\ a \in Ref(n) /\ a # NULL /\ ListOf(e)[a] = X
  <2>1. ListOf(c)[a] = X /\ a \in 0..n /\ NULL \notin 0..n
    BY <1>2, <1>4 DEF IsList, Ranked
  <2>2. \A Y \in Lists : a \in M[Y] => ListOf(c)[a] = Y
    BY <1>2 DEF IsList
  <2> QED BY <1>1, <2>1, <2>2 DEF Ref
<1>6. /\ d \in CFLRUCaches(n, B) /\ CFLRUCounts(e, d) /\ SamePages(e, d)
      /\ DirtyAt(d) = DirtyAt(e) /\ d.working_size = SizeLess(X, e.working_size)
  BY <1>1, <1>5, TakenFromIs
<1>7. PICK M1 : M1 = At(M, X, Dropping(M[X], a))
  OBVIOUS
<1>8. Listed(d, n, M1, r)
  BY <1>1, <1>3, <1>4, <1>7, ListsTaken
<1>9. \A Y \in Lists : M1[Y] = Dropping(M[Y], a)
  <2>1. ASSUME NEW Y \in Lists PROVE M1[Y] = Dropping(M[Y], a)
    <3>1. CASE Y = X
      BY <1>2, <1>4, <1>7, <3>1 DEF At
    <3>2. CASE Y # X
      <4>1. M1[Y] = M[Y]
        BY <1>2, <1>4, <1>7, <3>2 DEF At
      <4> QED BY <1>5, <3>2, <4>1 DEF Dropping
    <3> QED BY <3>1, <3>2
  <2> QED BY <2>1
<1>10. Shed(M, M1, a)
  <2>1. /\ M1["WORKING"] = Dropping(M["WORKING"], a) /\ M1["CLEAN"] = Dropping(M["CLEAN"], a)
        /\ M1["DIRTY"] = Dropping(M["DIRTY"], a)
    BY <1>9 DEF Lists
  <2> QED BY <2>1 DEF Shed, Everything, Dropping
<1>11. Policy(d, M1, r)
  <2>1. /\ M1["WORKING"] = Dropping(M["WORKING"], a) /\ M1["CLEAN"] = Dropping(M["CLEAN"], a)
        /\ M1["DIRTY"] = Dropping(M["DIRTY"], a)
    BY <1>10 DEF Shed
  <2>2. \A b \in Everything(M) : b # a => DirtyAt(d)[b] = DirtyAt(c)[b]
    BY <1>1, <1>6 DEF SameOn, Dropping
  <2>3. ASSUME NEW Y \in {"CLEAN", "DIRTY"}, NEW b \in M1["WORKING"], NEW g \in M1[Y]
        PROVE  r[b] < r[g]
    <3>1. b \in M["WORKING"] /\ g \in M[Y]
      BY <2>1 DEF Dropping
    <3> QED BY <1>1, <3>1 DEF Policy
  <2>4. ASSUME NEW g \in M1["CLEAN"] PROVE ~ DirtyAt(d)[g]
    <3>1. g \in M["CLEAN"] /\ g # a /\ g \in Everything(M)
      BY <2>1 DEF Dropping, Everything
    <3> QED BY <1>1, <2>2, <3>1 DEF Policy
  <2>5. ASSUME NEW g \in M1["DIRTY"] PROVE DirtyAt(d)[g]
    <3>1. g \in M["DIRTY"] /\ g # a /\ g \in Everything(M)
      BY <2>1 DEF Dropping, Everything
    <3> QED BY <1>1, <2>2, <3>1 DEF Policy
  <2> QED BY <2>3, <2>4, <2>5 DEF Policy
<1>12. d.working_size = e.working_size - (IF a \in M["WORKING"] THEN 1 ELSE 0)
  <2>0. e.working_size \in Int
    BY <1>1 DEF CFLRUCaches
  <2>1. a \in M["WORKING"] <=> X = "WORKING"
    BY <1>4, <1>5 DEF Lists
  <2> QED BY <1>6, <2>0, <2>1 DEF SizeLess
<1> QED BY <1>6, <1>8, <1>10, <1>11, <1>12 DEF InPolicy

\* The first node of the working list comes to its front again.
Fronts(c, e, n, M, r, r2, a) ==
  /\ InPolicy(c, n, M, r) /\ a \in Everything(M) /\ a = c.head["WORKING"]
  /\ e.head = c.head /\ e.tail = c.tail
  /\ NextOf(e) = NextOf(c) /\ PrevOf(e) = PrevOf(c) /\ ListOf(e) = ListOf(c)
  /\ SameOn(Dropping(Everything(M), a), DirtyAt(c), DirtyAt(e))
  /\ Ahead(0..n, Dropping(Everything(M), a), r, r2, a)

LEMMA FrontIs ==
  ASSUME NEW n \in Nat, NEW c, NEW e, NEW M, NEW r, NEW r2, NEW a,
         Fronts(c, e, n, M, r, r2, a)
  PROVE  InPolicy(e, n, M, r2)
<1>1. /\ M \in [Lists -> SUBSET (0..n)] /\ \A X \in Lists : IsList(c, n, M[X], r, X)
      /\ Policy(c, M, r) /\ a \in Everything(M) /\ a = c.head["WORKING"]
      /\ e.head = c.head /\ e.tail = c.tail
      /\ NextOf(e) = NextOf(c) /\ PrevOf(e) = PrevOf(c) /\ ListOf(e) = ListOf(c)
      /\ SameOn(Dropping(Everything(M), a), DirtyAt(c), DirtyAt(e))
      /\ Ahead(0..n, Dropping(Everything(M), a), r, r2, a)
  BY DEF Fronts, InPolicy, Listed
<1>2. /\ r2 \in [0..n -> Int]
      /\ \A b \in Everything(M) : b # a => r2[b] = r[b] /\ r2[a] < r[b]
  BY <1>1 DEF Ahead, Dropping
<1>3. "WORKING" \in Lists /\ \A X \in Lists : M[X] \subseteq Everything(M)
  BY DEF Lists, Everything
<1>4. PICK W : W = M["WORKING"]
  OBVIOUS
<1>5. /\ IsList(c, n, W, r, "WORKING") /\ Ranked(0..n, W, r)
      /\ Both(NextOf(c), PrevOf(c), c.head["WORKING"], c.tail["WORKING"], W, r)
  BY <1>1, <1>3, <1>4 DEF IsList
<1>6. a # NULL
  BY <1>1 DEF Everything, IsList, Ranked, Lists
<1>7. a \in W
  BY <1>1, <1>5, <1>6 DEF Both, Linked
<1>8. \A X \in Lists : X # "WORKING" => a \notin M[X]
  BY <1>1, <1>3, <1>4, <1>7 DEF IsList
<1>9. IsList(e, n, W, r2, "WORKING")
  <2>1. Ahead(0..n, Dropping(W, a), r, r2, a)
    BY <1>2, <1>3, <1>4 DEF Ahead, Dropping
  <2>2. /\ Both(NextOf(c), PrevOf(c), c.head["WORKING"], c.tail["WORKING"], W, r2)
        /\ Ranked(0..n, W, r2)
    BY <1>1, <1>5, <1>7, <2>1, FrontAgain
  <2>3. \A b \in W : ListOf(e)[b] = "WORKING"
    BY <1>1, <1>5 DEF IsList
  <2> QED BY <1>1, <2>2, <2>3 DEF IsList
<1>10. ASSUME NEW X \in Lists, X # "WORKING" PROVE IsList(e, n, M[X], r2, X)
  <2>1. IsList(c, n, M[X], r, X) /\ e.head[X] = c.head[X] /\ e.tail[X] = c.tail[X]
    BY <1>1
  <2>2. /\ SameOn(M[X], NextOf(c), NextOf(e)) /\ SameOn(M[X], PrevOf(c), PrevOf(e))
        /\ SameOn(M[X], ListOf(c), ListOf(e))
    BY <1>1 DEF SameOn
  <2>3. SameOn(M[X], r, r2)
    BY <1>2, <1>3, <1>8, <1>10 DEF SameOn
  <2> QED BY <1>2, <2>1, <2>2, <2>3, ListAgrees
<1>11. Policy(e, M, r2)
  <2>1. \A b \in Everything(M) : b # a => DirtyAt(e)[b] = DirtyAt(c)[b]
    BY <1>1 DEF SameOn, Dropping
  <2>2. a \notin M["CLEAN"] /\ a \notin M["DIRTY"]
    BY <1>8 DEF Lists
  <2>3. ASSUME NEW X \in {"CLEAN", "DIRTY"}, NEW b \in M["WORKING"], NEW g \in M[X]
        PROVE  r2[b] < r2[g]
    <3>1. b \in Everything(M) /\ g \in Everything(M) /\ g # a /\ r[b] < r[g]
      BY <1>1, <2>2 DEF Policy, Everything
    <3> QED BY <1>2, <3>1
  <2>4. ASSUME NEW g \in M["CLEAN"] PROVE ~ DirtyAt(e)[g]
    <3>1. g \in Everything(M) /\ g # a
      BY <2>2 DEF Everything
    <3> QED BY <1>1, <2>1, <3>1 DEF Policy
  <2>5. ASSUME NEW g \in M["DIRTY"] PROVE DirtyAt(e)[g]
    <3>1. g \in Everything(M) /\ g # a
      BY <2>2 DEF Everything
    <3> QED BY <1>1, <2>1, <3>1 DEF Policy
  <2> QED BY <2>3, <2>4, <2>5 DEF Policy
<1>12. \A X \in Lists : IsList(e, n, M[X], r2, X)
  BY <1>4, <1>9, <1>10
<1> QED BY <1>1, <1>2, <1>11, <1>12 DEF InPolicy, Listed

\* The node a leaves its list, comes to the front of the working list, and
\* the last of that may have to leave it.
Renews(c, e, n, B, M, r, r2, cap, a, d) ==
  /\ InPolicy(c, n, M, r) /\ Sized(c, M, cap) /\ cap \in Nat
  /\ e \in CFLRUCaches(n, B) /\ e.head = c.head /\ e.tail = c.tail
  /\ NextOf(e) = NextOf(c) /\ PrevOf(e) = PrevOf(c) /\ ListOf(e) = ListOf(c)
  /\ SameOn(Dropping(Everything(M), a), DirtyAt(c), DirtyAt(e))
  /\ e.working_size = c.working_size /\ e.working_cap = cap /\ a \in Everything(M)
  /\ Ahead(0..n, Dropping(Everything(M), a), r, r2, a)
  /\ d = Migrate(add_to_list(remove_from_list(e, a), a, "WORKING"))

LEMMA RenewedIs ==
  ASSUME NEW n \in Nat, NEW B \in Nat, NEW c, NEW e, NEW M, NEW r, NEW r2, NEW cap, NEW a, NEW d,
         Renews(c, e, n, B, M, r, r2, cap, a, d)
  PROVE  /\ d \in CFLRUCaches(n, B) /\ CFLRUCounts(e, d) /\ SamePages(e, d)
         /\ DirtyAt(d) = DirtyAt(e)
         /\ \E M2 : /\ InPolicy(d, n, M2, r2) /\ Everything(M2) = Everything(M)
                    /\ Sized(d, M2, cap)
<1>1. /\ InPolicy(c, n, M, r) /\ Sized(c, M, cap) /\ cap \in Nat
      /\ e \in CFLRUCaches(n, B) /\ e.head = c.head /\ e.tail = c.tail
      /\ NextOf(e) = NextOf(c) /\ PrevOf(e) = PrevOf(c) /\ ListOf(e) = ListOf(c)
      /\ SameOn(Dropping(Everything(M), a), DirtyAt(c), DirtyAt(e))
      /\ e.working_size = c.working_size /\ e.working_cap = cap /\ a \in Everything(M)
      /\ Ahead(0..n, Dropping(Everything(M), a), r, r2, a)
      /\ d = Migrate(add_to_list(remove_from_list(e, a), a, "WORKING"))
  BY DEF Renews
<1>2. PICK f : f = remove_from_list(e, a)
  OBVIOUS
<1>3. PICK g : g = add_to_list(f, a, "WORKING")
  OBVIOUS
<1>4. /\ f \in CFLRUCaches(n, B) /\ CFLRUCounts(e, f) /\ SamePages(e, f)
      /\ DirtyAt(f) = DirtyAt(e)
      /\ f.working_size = e.working_size - (IF a \in M["WORKING"] THEN 1 ELSE 0)
      /\ \E M1 : Shed(M, M1, a) /\ InPolicy(f, n, M1, r)
  <2>1. Detaches(c, e, n, B, M, r, a, f)
    BY <1>1, <1>2 DEF Detaches
  <2> QED BY <2>1, DetachedIs
<1>5. PICK M1 : Shed(M, M1, a) /\ InPolicy(f, n, M1, r)
  BY <1>4
<1>6. /\ M1["WORKING"] = Dropping(M["WORKING"], a)
      /\ Everything(M1) = Dropping(Everything(M), a) /\ a \notin Everything(M1)
  BY <1>5 DEF Shed, Dropping
<1>7. a \in Ref(n) /\ a # NULL
  <2>1. Everything(M) \subseteq 0..n
    BY <1>1, WorkingIs DEF InPolicy
  <2> QED BY <1>1, <2>1 DEF Ref, NULL
<1>8. /\ g \in CFLRUCaches(n, B) /\ CFLRUCounts(f, g) /\ SamePages(f, g)
      /\ DirtyAt(g) = DirtyAt(f) /\ g.working_size = f.working_size + 1
      /\ \E M2 : Joined(M1, M2, a) /\ InPolicy(g, n, M2, r2)
  <2>1. Brings(f, n, B, M1, r, r2, a, g)
    BY <1>1, <1>3, <1>4, <1>5, <1>6, <1>7 DEF Brings
  <2> QED BY <2>1, BroughtIs
<1>9. PICK M2 : Joined(M1, M2, a) /\ InPolicy(g, n, M2, r2)
  BY <1>8
<1>10. /\ M2["WORKING"] = Adding(Dropping(M["WORKING"], a), a)
       /\ Everything(M2) = Everything(M)
  <2>1. Adding(Dropping(Everything(M), a), a) = Everything(M)
    BY <1>1 DEF Adding, Dropping
  <2> QED BY <1>6, <1>9, <2>1 DEF Joined
<1>11. PICK w \in Nat : w = c.working_size /\ w = Cardinality(M["WORKING"])
  BY <1>1, WorkingIs DEF Sized, InPolicy
<1>12. w <= cap /\ (M["WORKING"] # Everything(M) => w = cap)
  BY <1>1, <1>11 DEF Sized
<1>13. Oversized(g, M2, cap)
  <2>1. CASE a \in M["WORKING"]
    <3>1. M2["WORKING"] = M["WORKING"]
      BY <1>10, <2>1 DEF Adding, Dropping
    <3>2. g.working_size = w
      BY <1>1, <1>4, <1>8, <1>11, <2>1
    <3> QED BY <1>1, <1>10, <1>11, <1>12, <3>1, <3>2 DEF Oversized
  <2>2. CASE a \notin M["WORKING"]
    <3>1. M2["WORKING"] = Adding(M["WORKING"], a) /\ M["WORKING"] # Everything(M)
      BY <1>1, <1>10, <2>2 DEF Adding, Dropping
    <3>2. Cardinality(M2["WORKING"]) = w + 1
      <4>1. M["WORKING"] \subseteq 0..n
        BY <1>1, WorkingIs DEF InPolicy
      <4> QED BY <1>11, <2>2, <3>1, <4>1, OneMore
    <3>3. g.working_size = w + 1 /\ w = cap
      BY <1>1, <1>4, <1>8, <1>11, <1>12, <2>2, <3>1
    <3> QED BY <3>2, <3>3 DEF Oversized
  <2> QED BY <2>1, <2>2
<1>14. g.working_cap = cap
  BY <1>1, <1>4, <1>8 DEF CFLRUCounts
<1>15. d = Migrate(g)
  BY <1>1, <1>2, <1>3
<1>16. /\ d \in CFLRUCaches(n, B) /\ CFLRUCounts(g, d) /\ SamePages(g, d)
       /\ DirtyAt(d) = DirtyAt(g)
       /\ \E M3 : /\ InPolicy(d, n, M3, r2) /\ Everything(M3) = Everything(M2)
                  /\ Sized(d, M3, cap)
  BY <1>1, <1>8, <1>9, <1>13, <1>14, <1>15, MigratedIs
<1>17. CFLRUCounts(e, d) /\ SamePages(e, d)
  BY <1>4, <1>8, <1>16 DEF CFLRUCounts, SamePages
<1>18. DirtyAt(d) = DirtyAt(e)
  BY <1>4, <1>8, <1>16
<1> QED BY <1>10, <1>16, <1>17, <1>18

---------------------------------------------------------------------------
(* The CFLRU cache: each list is in the order of the last use, and the     *)
(* pages out of the working list are parted by whether they are dirty.     *)

Sorting(c, n, M, R, U, cap) ==
  /\ InPolicy(c, n, M, RankOf(c, R)) /\ Everything(M) = U /\ Sized(c, M, cap)

CFLRUHolds(c, n, B, cap, U, h, M, R) ==
  /\ c \in CFLRUCaches(n, B) /\ c.working_cap = cap /\ cap \in Nat
  /\ Free(c, n, U) /\ Table(c, n, B, U, h) /\ Loose(c, n, U)
  /\ R \in [Nat -> Int] /\ Sorting(c, n, M, R, U, cap)

HittingIt(c, n, B, cap, U, h, M, E, R, R2, a, page, is_write, d) ==
  /\ CFLRUHolds(c, n, B, cap, U, h, M, R) /\ PagesIn(c, U) \subseteq E /\ Latest(E, R, R2, page)
  /\ a \in U /\ PageOf(c)[a] = page /\ is_write \in BOOLEAN /\ d = CFLRUHit(c, a, is_write)

LEMMA CFLRUHitHolds ==
  ASSUME NEW n \in Nat, NEW B \in Nat, NEW c, NEW cap, NEW U, NEW h, NEW M, NEW E, NEW R,
         NEW R2, NEW a, NEW page, NEW is_write, NEW d,
         HittingIt(c, n, B, cap, U, h, M, E, R, R2, a, page, is_write, d)
  PROVE  /\ \E M2 : CFLRUHolds(d, n, B, cap, U, h, M2, R2)
         /\ d.hit = c.hit + 1 /\ d.miss = c.miss /\ d.write_back = c.write_back
         /\ PagesIn(d, U) = PagesIn(c, U)
         /\ DirtyIn(d, U) = Written(DirtyIn(c, U), page, is_write)
<1>1. /\ c \in CFLRUCaches(n, B) /\ c.working_cap = cap /\ cap \in Nat
      /\ Free(c, n, U) /\ Table(c, n, B, U, h) /\ Loose(c, n, U)
      /\ R \in [Nat -> Int] /\ InPolicy(c, n, M, RankOf(c, R)) /\ Everything(M) = U
      /\ Sized(c, M, cap) /\ PagesIn(c, U) \subseteq E /\ Latest(E, R, R2, page)
      /\ a \in U /\ PageOf(c)[a] = page /\ is_write \in BOOLEAN /\ d = CFLRUHit(c, a, is_write)
  BY DEF HittingIt, CFLRUHolds, Sorting
<1>2. c \in Caches(n, B)
  BY <1>1 DEF Caches
<1>3. PageOf(c) \in [0..n -> Nat] /\ DirtyAt(c) \in [0..n -> BOOLEAN]
  BY <1>2, PoolOf, PoolFields
<1>4. U \subseteq 0..n /\ a \in 0..n /\ a # NULL /\ a \in Ref(n)
  BY <1>1 DEF Table, Ranked, Ref
<1>5. \A a1, a2 \in U : PageOf(c)[a1] = PageOf(c)[a2] => a1 = a2
  BY <1>1 DEF Table
<1>6. Ahead(0..n, Dropping(U, a), RankOf(c, R), RankOf(c, R2), a)
  <2>1. PICK V : V = Dropping(U, a)
    OBVIOUS
  <2>2. V \subseteq 0..n /\ PagesIn(c, V) \subseteq E
    BY <1>1, <1>4, <2>1 DEF Dropping, PagesIn
  <2>3. page \notin PagesIn(c, V)
    BY <1>1, <1>5, <2>1 DEF Dropping, PagesIn
  <2>4. SameOn(V, PageOf(c), PageOf(c)) /\ Paged(c, n)
    BY <1>3 DEF SameOn, Paged
  <2>5. Ahead(0..n, V, RankOf(c, R), RankOf(c, R2), a)
    BY <1>1, <1>4, <2>2, <2>3, <2>4, LatestAhead
  <2> QED BY <2>1, <2>5
<1>7. PICK e : e = Counted(c, a, is_write)
  OBVIOUS
<1>8. /\ HitOnly(c, e) /\ e \in Caches(n, B) /\ SamePages(c, e)
      /\ DirtyAt(e) = SetAt(DirtyAt(c), a, DirtyAt(c)[a] \/ is_write)
      /\ ListOf(e) = ListOf(c) /\ NextOf(e) = NextOf(c) /\ PrevOf(e) = PrevOf(c)
  BY <1>1, <1>2, <1>4, <1>7, CountedIs
<1>9. /\ e \in CFLRUCaches(n, B) /\ e.free_list = c.free_list /\ e.hit = c.hit + 1
      /\ e.miss = c.miss /\ e.write_back = c.write_back /\ e.head = c.head /\ e.tail = c.tail
      /\ e.working_cap = c.working_cap /\ e.working_size = c.working_size
  <2>1. e.nodes \in [0..n -> PageNode(n)]
    BY <1>8, PoolOf DEF IsPool
  <2>2. PICK k \in Nat : k = c.hit + 1
    BY <1>1 DEF CFLRUCaches
  <2>3. e = [c EXCEPT !.nodes = e.nodes, !.hit = k]
    BY <1>8, <2>2 DEF HitOnly
  <2> QED BY <1>1, <2>1, <2>2, <2>3 DEF CFLRUCaches
<1>10. SameOn(Dropping(Everything(M), a), DirtyAt(c), DirtyAt(e))
  <2>1. \A b \in 0..n : b # a => DirtyAt(e)[b] = DirtyAt(c)[b]
    BY <1>3, <1>4, <1>8 DEF SetAt
  <2> QED BY <1>1, <1>4, <2>1 DEF SameOn, Dropping
<1>11. /\ d \in CFLRUCaches(n, B) /\ CFLRUCounts(e, d) /\ SamePages(e, d)
       /\ DirtyAt(d) = DirtyAt(e)
       /\ \E M2 : /\ InPolicy(d, n, M2, RankOf(c, R2)) /\ Everything(M2) = U
                  /\ Sized(d, M2, cap)
  <2>1. CASE a = c.head["WORKING"]
    <3>1. d = e
      BY <1>1, <1>7, <2>1 DEF CFLRUHit, Counted
    <3>2. Fronts(c, e, n, M, RankOf(c, R), RankOf(c, R2), a)
      BY <1>1, <1>6, <1>8, <1>9, <1>10, <2>1 DEF Fronts
    <3>3. InPolicy(e, n, M, RankOf(c, R2))
      BY <3>2, FrontIs
    <3>4. Sized(e, M, cap)
      BY <1>1, <1>9 DEF Sized
    <3>5. CFLRUCounts(e, d) /\ SamePages(e, d)
      BY <3>1 DEF CFLRUCounts, SamePages
    <3> QED BY <1>1, <1>9, <3>1, <3>3, <3>4, <3>5
  <2>2. CASE a # c.head["WORKING"]
    <3>1. d = Migrate(add_to_list(remove_from_list(e, a), a, "WORKING"))
      BY <1>1, <1>7, <2>2 DEF CFLRUHit, Counted
    <3>2. Renews(c, e, n, B, M, RankOf(c, R), RankOf(c, R2), cap, a, d)
      BY <1>1, <1>6, <1>8, <1>9, <1>10, <3>1 DEF Renews
    <3> QED BY <1>1, <3>2, RenewedIs
  <2> QED BY <2>1, <2>2
<1>12. PICK M2 : /\ InPolicy(d, n, M2, RankOf(c, R2)) /\ Everything(M2) = U
                 /\ Sized(d, M2, cap)
  BY <1>11
<1>13. SamePages(c, d) /\ DirtyAt(d) = SetAt(DirtyAt(c), a, DirtyAt(c)[a] \/ is_write)
  BY <1>8, <1>11 DEF SamePages
<1>14. PageOf(d) = PageOf(c) /\ RankOf(d, R2) = RankOf(c, R2)
  BY <1>13 DEF SamePages, RankOf
<1>15. /\ d.free_list = c.free_list /\ d.hit = c.hit + 1 /\ d.miss = c.miss
       /\ d.write_back = c.write_back /\ d.working_cap = c.working_cap
  BY <1>9, <1>11 DEF CFLRUCounts
<1>16. Table(d, n, B, U, h)
  <2>1. Table(c, n, B, U, h)
    BY <1>1
  <2>2. d.buckets = c.buckets /\ PageOf(d) = PageOf(c) /\ HashNext(d) = HashNext(c)
    BY <1>13 DEF SamePages
  <2> QED BY <2>1, <2>2, TableAgrees
<1>17. Loose(d, n, U)
  BY <1>1, <1>13 DEF SamePages, Loose
<1>18. Free(d, n, U)
  BY <1>1, <1>15, FreeKept
<1>19. Sorting(d, n, M2, R2, U, cap)
  BY <1>12, <1>14 DEF Sorting
<1>20. R2 \in [Nat -> Int]
  BY <1>1 DEF Latest
<1>21. CFLRUHolds(d, n, B, cap, U, h, M2, R2)
  BY <1>1, <1>11, <1>15, <1>16, <1>17, <1>18, <1>19, <1>20 DEF CFLRUHolds
<1>22. DirtyAt(c)[a] \in BOOLEAN /\ a \in DOMAIN DirtyAt(c)
  BY <1>3, <1>4
<1>23. /\ PagesIn(d, U) = PagesIn(c, U)
       /\ DirtyIn(d, U) = Written(DirtyIn(c, U), PageOf(c)[a], is_write)
  BY <1>1, <1>4, <1>13, <1>14, <1>22, PagesHit
<1> QED BY <1>1, <1>15, <1>21, <1>23

Placed(c, a, page, is_write) ==
  Migrate(put(add_to_list(Initialize([c EXCEPT !.miss = @ + 1], a, page, is_write), a, "WORKING"), a))

\* A node a that is in no list and no bucket is ready for a page.
Vacant(c, n, B, cap, V, h, M, R, a) ==
  /\ c \in CFLRUCaches(n, B) /\ c.working_cap = cap /\ cap \in Nat
  /\ Free(c, n, Adding(V, a)) /\ Table(c, n, B, V, h) /\ Loose(c, n, Adding(V, a))
  /\ R \in [Nat -> Int] /\ Sorting(c, n, M, R, V, cap) /\ a \in Ref(n) /\ a # NULL /\ a \notin V

Placing(c, n, B, cap, V, h, M, E, R, R2, a, page, is_write, d) ==
  /\ Vacant(c, n, B, cap, V, h, M, R, a) /\ PagesIn(c, V) \subseteq E
  /\ page \notin PagesIn(c, V) /\ Latest(E, R, R2, page)
  /\ page \in Nat /\ is_write \in BOOLEAN /\ d = Placed(c, a, page, is_write)

LEMMA PlacedHolds ==
  ASSUME NEW n \in Nat, NEW B \in Nat, NEW c, NEW cap, NEW V, NEW h, NEW M, NEW E, NEW R,
         NEW R2, NEW a, NEW page, NEW is_write, NEW d,
         Placing(c, n, B, cap, V, h, M, E, R, R2, a, page, is_write, d)
  PROVE  /\ \E h2, M2 : CFLRUHolds(d, n, B, cap, Adding(V, a), h2, M2, R2)
         /\ d.hit = c.hit /\ d.miss = c.miss + 1 /\ d.write_back = c.write_back
         /\ PagesIn(d, Adding(V, a)) = Adding(PagesIn(c, V), page)
         /\ DirtyIn(d, Adding(V, a)) = Written(DirtyIn(c, V), page, is_write)
<1>1. /\ c \in CFLRUCaches(n, B) /\ c.working_cap = cap /\ cap \in Nat
      /\ Free(c, n, Adding(V, a)) /\ Table(c, n, B, V, h) /\ Loose(c, n, Adding(V, a))
      /\ R \in [Nat -> Int] /\ InPolicy(c, n, M, RankOf(c, R)) /\ Everything(M) = V
      /\ Sized(c, M, cap) /\ a \in Ref(n) /\ a # NULL /\ a \notin V
      /\ PagesIn(c, V) \subseteq E /\ page \notin PagesIn(c, V) /\ Latest(E, R, R2, page)
      /\ page \in Nat /\ is_write \in BOOLEAN /\ d = Placed(c, a, page, is_write)
  BY DEF Placing, Vacant, Sorting
<1>2. c \in Caches(n, B) /\ a \in 0..n /\ V \subseteq 0..n /\ NULL \notin 0..n
  BY <1>1 DEF Caches, Ref, Table, Ranked
<1>3. /\ PageOf(c) \in [0..n -> Nat] /\ DirtyAt(c) \in [0..n -> BOOLEAN]
      /\ NextOf(c) \in [0..n -> Ref(n)] /\ PrevOf(c) \in [0..n -> Ref(n)]
      /\ HashNext(c) \in [0..n -> Ref(n)]
  BY <1>2, PoolOf, PoolFields
<1>4. PICK h2 : Ahead(0..n, V, h, h2, a)
  <2>1. h \in [0..n -> Int]
    BY <1>1 DEF Table, Ranked
  <2> QED BY <1>1, <1>2, <2>1, AheadExists
<1>5. PICK k \in Nat : k = c.miss + 1
  BY <1>1 DEF CFLRUCaches
<1>6. PICK e1 : e1 = [c EXCEPT !.miss = k]
  OBVIOUS
<1>7. /\ e1 \in CFLRUCaches(n, B) /\ e1.nodes = c.nodes /\ e1.buckets = c.buckets
      /\ e1.head = c.head /\ e1.tail = c.tail /\ e1.free_list = c.free_list /\ e1.hit = c.hit
      /\ e1.miss = k /\ e1.write_back = c.write_back /\ e1.working_cap = c.working_cap
      /\ e1.working_size = c.working_size
  BY <1>1, <1>6 DEF CFLRUCaches
<1>8. /\ SamePages(c, e1) /\ DirtyAt(e1) = DirtyAt(c) /\ ListOf(e1) = ListOf(c)
      /\ NextOf(e1) = NextOf(c) /\ PrevOf(e1) = PrevOf(c)
  BY <1>7, SameNodes
<1>9. PICK e2 : e2 = Initialize(e1, a, page, is_write)
  OBVIOUS
<1>10. e1 \in Caches(n, B)
  BY <1>7 DEF Caches
<1>11. /\ SameRest(e1, e2) /\ e2 \in Caches(n, B) /\ e2.buckets = e1.buckets
       /\ PageOf(e2) = SetAt(PageOf(e1), a, page)
       /\ DirtyAt(e2) = SetAt(DirtyAt(e1), a, is_write)
       /\ ListOf(e2) = ListOf(e1)
       /\ NextOf(e2) = SetAt(NextOf(e1), a, NULL)
       /\ PrevOf(e2) = SetAt(PrevOf(e1), a, NULL)
       /\ HashNext(e2) = SetAt(HashNext(e1), a, NULL)
  BY <1>1, <1>2, <1>9, <1>10, InitializeIs
<1>12. /\ e2 \in CFLRUCaches(n, B) /\ e2.head = c.head /\ e2.tail = c.tail
       /\ e2.free_list = c.free_list /\ e2.hit = c.hit /\ e2.miss = k
       /\ e2.write_back = c.write_back /\ e2.working_cap = c.working_cap
       /\ e2.working_size = c.working_size
  BY <1>7, <1>11, PoolOf, SameRestFields
\* Outside a nothing has changed.
<1>13. \A b \in V : /\ b \in 0..n /\ b # a
                    /\ PageOf(e2)[b] = PageOf(c)[b] /\ DirtyAt(e2)[b] = DirtyAt(c)[b]
                    /\ NextOf(e2)[b] = NextOf(c)[b] /\ PrevOf(e2)[b] = PrevOf(c)[b]
                    /\ HashNext(e2)[b] = HashNext(c)[b] /\ ListOf(e2)[b] = ListOf(c)[b]
  <2>1. /\ PageOf(e1) = PageOf(c) /\ HashNext(e1) = HashNext(c)
    BY <1>8 DEF SamePages
  <2>2. ASSUME NEW b \in V PROVE b \in 0..n /\ b # a
    BY <1>1, <1>2
  <2>3. /\ PageOf(e2) = [PageOf(c) EXCEPT ![a] = page] /\ DirtyAt(e2) = [DirtyAt(c) EXCEPT ![a] = is_write]
        /\ NextOf(e2) = [NextOf(c) EXCEPT ![a] = NULL] /\ PrevOf(e2) = [PrevOf(c) EXCEPT ![a] = NULL]
        /\ HashNext(e2) = [HashNext(c) EXCEPT ![a] = NULL] /\ ListOf(e2) = ListOf(c)
    BY <1>1, <1>8, <1>11, <2>1 DEF SetAt
  <2>4. ASSUME NEW b \in V
        PROVE  /\ PageOf(e2)[b] = PageOf(c)[b] /\ NextOf(e2)[b] = NextOf(c)[b]
               /\ PrevOf(e2)[b] = PrevOf(c)[b] /\ HashNext(e2)[b] = HashNext(c)[b]
    BY <1>2, <1>3, <2>2, <2>3
  <2>5. ASSUME NEW b \in V PROVE DirtyAt(e2)[b] = DirtyAt(c)[b]
    BY <1>2, <1>3, <2>2, <2>3
  <2> QED BY <2>2, <2>3, <2>4, <2>5
<1>14. PICK r2 : r2 = RankOf(e2, R2)
  OBVIOUS
<1>15. Ahead(0..n, V, RankOf(c, R), r2, a)
  <2>1. Paged(c, n) /\ Paged(e2, n)
    BY <1>3, <1>11, PoolOf, PoolFields DEF Paged
  <2>2. PageOf(e2)[a] = page
    <3>1. PageOf(e1) = PageOf(c)
      BY <1>8 DEF SamePages
    <3> QED BY <1>1, <1>2, <1>3, <1>11, <3>1 DEF SetAt
  <2>3. SameOn(V, PageOf(c), PageOf(e2))
    BY <1>13 DEF SameOn
  <2> QED BY <1>1, <1>2, <1>14, <2>1, <2>2, <2>3, LatestAhead
<1>17. InPolicy(e2, n, M, RankOf(c, R))
  <2>1. RankOf(c, R) \in [0..n -> Int]
    BY <1>1 DEF InPolicy, Listed
  <2>2. Agreeing(c, e2, M, n, RankOf(c, R), RankOf(c, R))
    BY <1>1, <1>12, <1>13, <2>1 DEF Agreeing, SameOn
  <2> QED BY <1>1, <2>2, SortedAgrees
<1>18. PICK e3 : e3 = add_to_list(e2, a, "WORKING")
  OBVIOUS
<1>19. /\ e3 \in CFLRUCaches(n, B) /\ CFLRUCounts(e2, e3) /\ SamePages(e2, e3)
       /\ DirtyAt(e3) = DirtyAt(e2) /\ e3.working_size = e2.working_size + 1
       /\ \E M2 : Joined(M, M2, a) /\ InPolicy(e3, n, M2, r2)
  <2>1. Brings(e2, n, B, M, RankOf(c, R), r2, a, e3)
    BY <1>1, <1>12, <1>15, <1>17, <1>18 DEF Brings
  <2> QED BY <2>1, BroughtIs
<1>20. PICK M2 : Joined(M, M2, a) /\ InPolicy(e3, n, M2, r2)
  BY <1>19
<1>21. PICK e4 : e4 = put(e3, a)
  OBVIOUS
<1>22. /\ PageOf(e3) = SetAt(PageOf(c), a, page) /\ DirtyAt(e3) = SetAt(DirtyAt(c), a, is_write)
       /\ HashNext(e3) = SetAt(HashNext(c), a, NULL) /\ e3.buckets = c.buckets
       /\ PageOf(e3) = PageOf(e2) /\ HashNext(e3) = HashNext(e2)
  BY <1>7, <1>8, <1>11, <1>19 DEF SamePages
<1>23. Table(e3, n, B, V, h)
  <2>1. \A b \in V : PageOf(e3)[b] = PageOf(c)[b] /\ HashNext(e3)[b] = HashNext(c)[b]
    BY <1>13, <1>22
  <2> QED BY <1>1, <1>22, <2>1, TableAgrees
<1>24. Loose(e3, n, Adding(V, a))
  <2>1. \A b \in 0..n : b # a => HashNext(e3)[b] = HashNext(c)[b]
    BY <1>1, <1>2, <1>3, <1>22 DEF SetAt
  <2>2. \A b \in (0..n) \ Adding(V, a) : HashNext(c)[b] = NULL /\ b # a
    BY <1>1 DEF Loose, Adding
  <2> QED BY <2>1, <2>2 DEF Loose
<1>25. /\ SameRest(e3, e4) /\ e4 \in Caches(n, B)
       /\ PageOf(e4) = PageOf(e3) /\ DirtyAt(e4) = DirtyAt(e3) /\ ListOf(e4) = ListOf(e3)
       /\ NextOf(e4) = NextOf(e3) /\ PrevOf(e4) = PrevOf(e3)
       /\ Table(e4, n, B, Adding(V, a), h2) /\ Loose(e4, n, Adding(V, a))
  <2>1. PageOf(e3)[a] = page
    BY <1>1, <1>2, <1>3, <1>22 DEF SetAt
  <2>2. \A b \in V : PageOf(e3)[b] # PageOf(e3)[a]
    <3>1. \A b \in V : PageOf(e3)[b] = PageOf(c)[b]
      BY <1>13, <1>22
    <3> QED BY <1>1, <2>1, <3>1 DEF PagesIn
  <2>3. e3 \in Caches(n, B)
    BY <1>19 DEF Caches
  <2>4. a \in Ref(n) /\ a # NULL /\ a \notin V
    BY <1>1
  <2> QED BY <1>4, <1>21, <1>23, <1>24, <2>2, <2>3, <2>4, PutIs
<1>26. /\ e4 \in CFLRUCaches(n, B) /\ CFLRUCounts(e3, e4) /\ e4.head = e3.head /\ e4.tail = e3.tail
       /\ e4.working_size = e3.working_size
  BY <1>19, <1>25, KeptInCFLRU
<1>27. InPolicy(e4, n, M2, r2)
  <2>1. r2 \in [0..n -> Int]
    BY <1>20 DEF InPolicy, Listed
  <2>2. Agreeing(e3, e4, M2, n, r2, r2)
    BY <1>25, <1>26, <2>1 DEF Agreeing, SameOn
  <2> QED BY <1>20, <2>2, SortedAgrees
<1>28. Oversized(e4, M2, cap)
  <2>1. PICK w \in Nat : w = c.working_size /\ w = Cardinality(M["WORKING"])
    BY <1>1, WorkingIs DEF Sized, InPolicy
  <2>2. w <= cap /\ (M["WORKING"] # V => w = cap)
    BY <1>1, <2>1 DEF Sized
  <2>3. M2["WORKING"] = Adding(M["WORKING"], a) /\ Everything(M2) = Adding(V, a)
    BY <1>1, <1>20 DEF Joined
  <2>4. M["WORKING"] \subseteq 0..n /\ a \notin M["WORKING"]
    BY <1>1, WorkingIs DEF InPolicy
  <2>5. Cardinality(M2["WORKING"]) = w + 1
    BY <2>1, <2>3, <2>4, OneMore
  <2>6. e4.working_size = w + 1
    BY <1>12, <1>19, <1>26, <2>1
  <2>7. M2["WORKING"] # Everything(M2) => w = cap
    BY <2>2, <2>3
  <2> QED BY <1>1, <2>2, <2>5, <2>6, <2>7 DEF Oversized
<1>29. e4.working_cap = cap
  BY <1>1, <1>12, <1>19, <1>26 DEF CFLRUCounts
<1>30. d = Migrate(e4)
  <2>1. e1 = [c EXCEPT !.miss = @ + 1]
    BY <1>5, <1>6
  <2> QED BY <1>1, <1>9, <1>18, <1>21, <2>1 DEF Placed
<1>31. /\ d \in CFLRUCaches(n, B) /\ CFLRUCounts(e4, d) /\ SamePages(e4, d)
       /\ DirtyAt(d) = DirtyAt(e4)
       /\ \E M3 : /\ InPolicy(d, n, M3, r2) /\ Everything(M3) = Everything(M2)
                  /\ Sized(d, M3, cap)
  BY <1>1, <1>26, <1>27, <1>28, <1>29, <1>30, MigratedIs
<1>32. PICK M3 : /\ InPolicy(d, n, M3, r2) /\ Everything(M3) = Everything(M2)
                 /\ Sized(d, M3, cap)
  BY <1>31
<1>33. /\ d.free_list = c.free_list /\ d.hit = c.hit /\ d.miss = c.miss + 1
       /\ d.write_back = c.write_back /\ d.working_cap = cap
  BY <1>1, <1>5, <1>12, <1>19, <1>26, <1>31 DEF CFLRUCounts
<1>34. /\ PageOf(d) = PageOf(e2) /\ PageOf(d) = SetAt(PageOf(c), a, page)
       /\ DirtyAt(d) = SetAt(DirtyAt(c), a, is_write)
       /\ HashNext(d) = HashNext(e4) /\ d.buckets = e4.buckets /\ PageOf(d) = PageOf(e4)
  BY <1>22, <1>25, <1>31 DEF SamePages
<1>35. Table(d, n, B, Adding(V, a), h2)
  BY <1>25, <1>34, TableAgrees
<1>36. Loose(d, n, Adding(V, a))
  BY <1>25, <1>34 DEF Loose
<1>37. Free(d, n, Adding(V, a))
  BY <1>1, <1>33, FreeKept
<1>38. Sorting(d, n, M3, R2, Adding(V, a), cap)
  <2>1. RankOf(d, R2) = r2
    BY <1>14, <1>34 DEF RankOf
  <2>2. Everything(M3) = Adding(V, a)
    BY <1>1, <1>20, <1>32 DEF Joined
  <2> QED BY <1>32, <2>1, <2>2 DEF Sorting
<1>39. R2 \in [Nat -> Int]
  BY <1>1 DEF Latest
<1>40. CFLRUHolds(d, n, B, cap, Adding(V, a), h2, M3, R2)
  BY <1>1, <1>31, <1>33, <1>35, <1>36, <1>37, <1>38, <1>39 DEF CFLRUHolds
<1>41. Enters(c, d, V, a, page, is_write)
  BY <1>1, <1>2, <1>3, <1>34 DEF Enters
<1>42. /\ PagesIn(d, Adding(V, a)) = Adding(PagesIn(c, V), page)
       /\ DirtyIn(d, Adding(V, a)) = Written(DirtyIn(c, V), page, is_write)
  BY <1>41, PagesEntered
<1> QED BY <1>33, <1>40, <1>42

\* The node that is given up: the last clean one out of the working list, else
\* the last of all.
Spared(c, M, r, v) ==
  /\ v \in Everything(M) /\ v \notin M["WORKING"]
  /\ \/ /\ ~ DirtyAt(c)[v]
        /\ \A b \in Everything(M) : b \notin M["WORKING"] /\ ~ DirtyAt(c)[b] => r[b] <= r[v]
     \/ /\ \A b \in Everything(M) : b \notin M["WORKING"] => DirtyAt(c)[b]
        /\ \A b \in Everything(M) : r[b] <= r[v]

LEMMA VictimIs ==
  ASSUME NEW n \in Nat, NEW c, NEW M, NEW r, InPolicy(c, n, M, r),
         M["WORKING"] # Everything(M)
  PROVE  Spared(c, M, r, Victim(c))
<1>1. PICK W, C, D : W = M["WORKING"] /\ C = M["CLEAN"] /\ D = M["DIRTY"]
  OBVIOUS
<1>2. PICK v : v = Victim(c)
  OBVIOUS
<1>3. IsList(c, n, W, r, "WORKING") /\ IsList(c, n, C, r, "CLEAN") /\ IsList(c, n, D, r, "DIRTY")
  BY <1>1 DEF InPolicy, Listed, Lists
<1>4. /\ \A a \in W : ListOf(c)[a] = "WORKING" /\ r[a] \in Int
      /\ \A a \in C : ListOf(c)[a] = "CLEAN" /\ r[a] \in Int /\ ~ DirtyAt(c)[a]
      /\ \A a \in D : ListOf(c)[a] = "DIRTY" /\ r[a] \in Int /\ DirtyAt(c)[a]
      /\ \A a \in W : \A b \in C \cup D : r[a] < r[b]
  <2>1. /\ \A a \in W : ListOf(c)[a] = "WORKING" /\ r[a] \in Int
        /\ \A a \in C : ListOf(c)[a] = "CLEAN" /\ r[a] \in Int
        /\ \A a \in D : ListOf(c)[a] = "DIRTY" /\ r[a] \in Int
    BY <1>3 DEF IsList, Ranked
  <2>2. Policy(c, M, r)
    BY DEF InPolicy
  <2> QED BY <1>1, <2>1, <2>2 DEF Policy
<1>5. Everything(M) = W \cup C \cup D
  BY <1>1 DEF Everything
<1>6. /\ c.tail["CLEAN"] = NULL <=> C = {}
      /\ c.tail["CLEAN"] # NULL =>
           c.tail["CLEAN"] \in C /\ \A b \in C : b # c.tail["CLEAN"] => r[b] < r[c.tail["CLEAN"]]
  BY <1>3, ListTail
<1>7. /\ c.tail["DIRTY"] = NULL <=> D = {}
      /\ c.tail["DIRTY"] # NULL =>
           c.tail["DIRTY"] \in D /\ \A b \in D : b # c.tail["DIRTY"] => r[b] < r[c.tail["DIRTY"]]
  BY <1>3, ListTail
<1>8. C \cap W = {} /\ D \cap W = {}
  BY <1>4
<1>9. CASE C # {}
  <2>1. v = c.tail["CLEAN"]
    BY <1>2, <1>6, <1>9 DEF Victim
  <2>2. v \in C /\ \A b \in C : r[b] <= r[v]
    BY <1>4, <1>6, <1>9, <2>1
  <2>3. v \in Everything(M) /\ v \notin W /\ ~ DirtyAt(c)[v]
    BY <1>4, <1>5, <1>8, <2>2
  <2>4. \A b \in Everything(M) : b \notin W /\ ~ DirtyAt(c)[b] => r[b] <= r[v]
    BY <1>4, <1>5, <2>2
  <2> QED BY <1>1, <1>2, <2>3, <2>4 DEF Spared
<1>10. CASE C = {}
  <2>1. v = c.tail["DIRTY"] /\ D # {}
    BY <1>1, <1>2, <1>5, <1>6, <1>10 DEF Victim
  <2>2. v \in D /\ \A b \in D : r[b] <= r[v]
    BY <1>4, <1>7, <2>1
  <2>3. v \in Everything(M) /\ v \notin W
    BY <1>5, <1>8, <2>2
  <2>4. \A b \in Everything(M) : b \notin W => DirtyAt(c)[b]
    BY <1>4, <1>5, <1>10
  <2>5. \A b \in Everything(M) : r[b] <= r[v]
    BY <1>4, <1>5, <1>10, <2>2
  <2> QED BY <1>1, <1>2, <2>3, <2>4, <2>5 DEF Spared
<1> QED BY <1>9, <1>10

Evicts(c, n, B, cap, U, h, M, R, v, d) ==
  /\ CFLRUHolds(c, n, B, cap, U, h, M, R) /\ M["WORKING"] # U /\ v = Victim(c)
  /\ v \in U /\ v \notin M["WORKING"] /\ d = CFLRUEvict(c)

LEMMA CFLRUEvictIs ==
  ASSUME NEW n \in Nat, NEW B \in Nat, NEW c, NEW cap, NEW U, NEW h, NEW M, NEW R, NEW v, NEW d,
         Evicts(c, n, B, cap, U, h, M, R, v, d)
  PROVE  /\ \E M1 : Vacant(d, n, B, cap, Dropping(U, v), h, M1, R, v)
         /\ d.hit = c.hit /\ d.miss = c.miss
         /\ d.write_back = c.write_back + (IF DirtyAt(c)[v] THEN 1 ELSE 0)
         /\ PageOf(d) = PageOf(c) /\ DirtyAt(d) = DirtyAt(c)
<1>1. /\ c \in CFLRUCaches(n, B) /\ c.working_cap = cap /\ cap \in Nat
      /\ Free(c, n, U) /\ Table(c, n, B, U, h) /\ Loose(c, n, U)
      /\ R \in [Nat -> Int] /\ InPolicy(c, n, M, RankOf(c, R)) /\ Everything(M) = U
      /\ Sized(c, M, cap) /\ M["WORKING"] # U /\ v = Victim(c)
      /\ v \in U /\ v \notin M["WORKING"] /\ d = CFLRUEvict(c)
  BY DEF Evicts, CFLRUHolds, Sorting
<1>2. c \in Caches(n, B) /\ v \in 0..n /\ U \subseteq 0..n /\ NULL \notin 0..n
  BY <1>1 DEF Caches, Table, Ranked
<1>3. v \in Ref(n) /\ v # NULL
  BY <1>2 DEF Ref
<1>4. c.nodes[v].dirty = DirtyAt(c)[v] /\ DirtyAt(c)[v] \in BOOLEAN
  BY <1>2, NodeFields, PoolOf, PoolFields
<1>5. PICK k \in Nat : k = c.write_back + (IF DirtyAt(c)[v] THEN 1 ELSE 0)
  <2>1. c.write_back \in Nat
    BY <1>1 DEF CFLRUCaches
  <2> QED BY <1>4, <2>1
<1>6. PICK e1 : e1 = [c EXCEPT !.write_back = k]
  OBVIOUS
<1>7. e1 = [c EXCEPT !.write_back = @ + IF c.nodes[Victim(c)].dirty THEN 1 ELSE 0]
  BY <1>1, <1>4, <1>5, <1>6
<1>8. /\ e1 \in CFLRUCaches(n, B) /\ e1.nodes = c.nodes /\ e1.buckets = c.buckets
      /\ e1.head = c.head /\ e1.tail = c.tail /\ e1.free_list = c.free_list /\ e1.hit = c.hit
      /\ e1.miss = c.miss /\ e1.write_back = k /\ e1.working_cap = c.working_cap
      /\ e1.working_size = c.working_size
  BY <1>1, <1>6 DEF CFLRUCaches
<1>9. /\ SamePages(c, e1) /\ DirtyAt(e1) = DirtyAt(c) /\ ListOf(e1) = ListOf(c)
      /\ NextOf(e1) = NextOf(c) /\ PrevOf(e1) = PrevOf(c)
  BY <1>8, SameNodes
<1>10. PICK e2 : e2 = remove(e1, v)
  OBVIOUS
<1>11. /\ SameRest(e1, e2) /\ e2 \in Caches(n, B)
       /\ PageOf(e2) = PageOf(e1) /\ DirtyAt(e2) = DirtyAt(e1) /\ ListOf(e2) = ListOf(e1)
       /\ NextOf(e2) = NextOf(e1) /\ PrevOf(e2) = PrevOf(e1)
       /\ Table(e2, n, B, Dropping(U, v), h) /\ Loose(e2, n, U)
  <2>1. e1.buckets = c.buckets /\ PageOf(e1) = PageOf(c) /\ HashNext(e1) = HashNext(c)
    BY <1>9 DEF SamePages
  <2>2. Table(e1, n, B, U, h)
    BY <1>1, <2>1, TableAgrees
  <2>3. Loose(e1, n, U)
    BY <1>1, <2>1 DEF Loose
  <2>4. e1 \in Caches(n, B)
    BY <1>8 DEF Caches
  <2> QED BY <1>1, <1>10, <2>2, <2>3, <2>4, RemoveIs
<1>12. /\ e2 \in CFLRUCaches(n, B) /\ CFLRUCounts(e1, e2) /\ e2.head = e1.head /\ e2.tail = e1.tail
       /\ e2.working_size = e1.working_size
  BY <1>8, <1>11, KeptInCFLRU
<1>13. d = remove_from_list(e2, v)
  BY <1>1, <1>7, <1>10 DEF CFLRUEvict
<1>14. /\ d \in CFLRUCaches(n, B) /\ CFLRUCounts(e2, d) /\ SamePages(e2, d)
       /\ DirtyAt(d) = DirtyAt(e2)
       /\ d.working_size = e2.working_size - (IF v \in M["WORKING"] THEN 1 ELSE 0)
       /\ \E M1 : Shed(M, M1, v) /\ InPolicy(d, n, M1, RankOf(c, R))
  <2>1. Detaches(c, e2, n, B, M, RankOf(c, R), v, d)
    BY <1>1, <1>8, <1>9, <1>11, <1>12, <1>13 DEF Detaches, SameOn
  <2> QED BY <2>1, DetachedIs
<1>15. PICK M1 : Shed(M, M1, v) /\ InPolicy(d, n, M1, RankOf(c, R))
  BY <1>14
<1>16. /\ d.free_list = c.free_list /\ d.hit = c.hit /\ d.miss = c.miss /\ d.write_back = k
       /\ d.working_cap = cap /\ d.working_size = c.working_size
  <2>1. e2.working_size \in Int
    BY <1>12 DEF CFLRUCaches
  <2> QED BY <1>1, <1>8, <1>12, <1>14, <2>1 DEF CFLRUCounts
<1>17. /\ d.buckets = e2.buckets /\ PageOf(d) = PageOf(e2) /\ HashNext(d) = HashNext(e2)
  BY <1>14 DEF SamePages
<1>18. PageOf(d) = PageOf(c) /\ DirtyAt(d) = DirtyAt(c)
  BY <1>9, <1>11, <1>14, <1>17 DEF SamePages
<1>19. Sized(d, M1, cap)
  <2>1. M1["WORKING"] = M["WORKING"]
    BY <1>1, <1>15 DEF Shed, Dropping
  <2>2. c.working_size = Cardinality(M["WORKING"]) /\ c.working_size = cap /\ cap <= cap
    BY <1>1 DEF Sized
  <2> QED BY <1>16, <2>1, <2>2 DEF Sized
<1>20. Sorting(d, n, M1, R, Dropping(U, v), cap)
  <2>1. RankOf(d, R) = RankOf(c, R)
    BY <1>18 DEF RankOf
  <2> QED BY <1>1, <1>15, <1>19, <2>1 DEF Sorting, Shed
<1>21. Adding(Dropping(U, v), v) = U /\ v \notin Dropping(U, v)
  BY <1>1 DEF Adding, Dropping
<1>22. Table(d, n, B, Dropping(U, v), h)
  BY <1>11, <1>17, TableAgrees
<1>23. Loose(d, n, Adding(Dropping(U, v), v))
  BY <1>11, <1>17, <1>21 DEF Loose
<1>24. Free(d, n, Adding(Dropping(U, v), v))
  BY <1>1, <1>16, <1>21, FreeKept
<1>25. Vacant(d, n, B, cap, Dropping(U, v), h, M1, R, v)
  BY <1>1, <1>3, <1>14, <1>16, <1>20, <1>21, <1>22, <1>23, <1>24 DEF Vacant
<1> QED BY <1>5, <1>16, <1>18, <1>25

\* Different nodes have different pages.
LEMMA PagesCount ==
  ASSUME NEW n \in Nat, NEW B \in Nat, NEW c, NEW U, NEW h, Table(c, n, B, U, h),
         NEW S, S \subseteq U
  PROVE  IsFiniteSet(PagesIn(c, S)) /\ Cardinality(PagesIn(c, S)) = Cardinality(S)
<1>1. S \subseteq 0..n /\ \A a1, a2 \in S : PageOf(c)[a1] = PageOf(c)[a2] => a1 = a2
  BY DEF Table, Ranked
<1>2. IsFiniteSet(S)
  BY <1>1, FinitePool
<1>3. PICK f : f = [a \in S |-> PageOf(c)[a]]
  OBVIOUS
<1>4. f \in Bijection(S, PagesIn(c, S))
  <2>1. \A a1, a2 \in S : f[a1] = f[a2] => a1 = a2
    BY <1>1, <1>3
  <2>2. f \in [S -> PagesIn(c, S)] /\ \A p \in PagesIn(c, S) : \E a \in S : f[a] = p
    BY <1>3 DEF PagesIn
  <2>3. f \in Injection(S, PagesIn(c, S))
    BY <2>1, <2>2 DEF Injection, IsInjective
  <2>4. f \in Surjection(S, PagesIn(c, S))
    BY <2>2 DEF Surjection
  <2> QED BY <2>3, <2>4 DEF Bijection
<1> QED BY <1>2, <1>4, FS_Bijection DEF ExistsBijection

\* The page old of P is the last clean one after the first cap pages, or the
\* last of all when those are dirty.
CleanFirst(P, D, R, cap, old) ==
  \E W : /\ W \subseteq P /\ Cardinality(W) = cap
         /\ \A p \in W : \A q \in P : q \notin W => R[p] < R[q]
         /\ old \in P /\ old \notin W
         /\ \/ old \notin D /\ \A q \in P : q \notin W /\ q \notin D => R[q] <= R[old]
            \/ (\A q \in P : q \notin W => q \in D) /\ Highest(P, R, old)

SparedIn(c, n, B, cap, U, h, M, R, v) ==
  /\ CFLRUHolds(c, n, B, cap, U, h, M, R) /\ M["WORKING"] # U
  /\ Spared(c, M, RankOf(c, R), v)

LEMMA SparedPage ==
  ASSUME NEW n \in Nat, NEW B \in Nat, NEW c, NEW cap, NEW U, NEW h, NEW M, NEW R, NEW v,
         SparedIn(c, n, B, cap, U, h, M, R, v)
  PROVE  CleanFirst(PagesIn(c, U), DirtyIn(c, U), R, cap, PageOf(c)[v])
<1>1. PICK r, f, D, N : /\ r = RankOf(c, R) /\ f = PageOf(c) /\ D = DirtyAt(c)
                        /\ N = M["WORKING"]
  OBVIOUS
<1>2. /\ c \in CFLRUCaches(n, B) /\ Table(c, n, B, U, h) /\ InPolicy(c, n, M, r)
      /\ Everything(M) = U /\ Sized(c, M, cap) /\ N # U /\ Spared(c, M, r, v)
  BY <1>1 DEF SparedIn, CFLRUHolds, Sorting
<1>3. U \subseteq 0..n /\ N \subseteq U /\ \A a1, a2 \in U : f[a1] = f[a2] => a1 = a2
  BY <1>1, <1>2 DEF Table, Ranked, Everything
<1>4. c \in Caches(n, B)
  BY <1>2 DEF Caches
<1>5. \A a \in U : r[a] = R[f[a]]
  <2>1. DOMAIN f = 0..n
    BY <1>1, <1>4, PoolOf, PoolFields
  <2> QED BY <1>1, <1>3, <2>1 DEF RankOf
<1>6. PICK W : W = PagesIn(c, N)
  OBVIOUS
<1>7. Cardinality(W) = cap
  <2>0. Table(c, n, B, U, h) /\ N \subseteq U
    BY <1>2, <1>3
  <2>1. Cardinality(PagesIn(c, N)) = Cardinality(N)
    BY <2>0, PagesCount
  <2>2. Cardinality(M["WORKING"]) = cap
    BY <1>1, <1>2 DEF Sized
  <2> QED BY <1>1, <1>6, <2>1, <2>2
<1>8. PICK P : P = PagesIn(c, U)
  OBVIOUS
<1>9. PICK Q : Q = DirtyIn(c, U)
  OBVIOUS
<1>10. /\ W = {f[a] : a \in N} /\ P = {f[a] : a \in U}
       /\ Q = {f[a] : a \in {b \in U : D[b]}}
  BY <1>1, <1>6, <1>8, <1>9 DEF PagesIn, DirtyIn
<1>11. \A a \in U : f[a] \in W <=> a \in N
  BY <1>3, <1>10
<1>12. \A a \in U : f[a] \in Q <=> D[a]
  BY <1>3, <1>10
<1>13. \A a \in N : \A b \in U : b \notin N => r[a] < r[b]
  <2>1. Policy(c, M, r)
    BY <1>2 DEF InPolicy
  <2> QED BY <1>1, <1>2, <2>1 DEF Policy, Everything
<1>14. W \subseteq P
  BY <1>3, <1>10
<1>15. \A p \in W : \A q \in P : q \notin W => R[p] < R[q]
  <2> SUFFICES ASSUME NEW p \in W, NEW q \in P, q \notin W PROVE R[p] < R[q]
    OBVIOUS
  <2>1. PICK a \in N : f[a] = p
    BY <1>10
  <2>2. PICK b \in U : f[b] = q
    BY <1>10
  <2>3. b \notin N
    BY <1>11, <2>2
  <2> QED BY <1>3, <1>5, <1>13, <2>1, <2>2, <2>3
<1>16. /\ v \in U /\ v \notin N
       /\ \/ ~ D[v] /\ \A b \in U : b \notin N /\ ~ D[b] => r[b] <= r[v]
          \/ (\A b \in U : b \notin N => D[b]) /\ \A b \in U : r[b] <= r[v]
  BY <1>1, <1>2 DEF Spared
<1>17. PICK old : old = f[v]
  OBVIOUS
<1>18. old \in P /\ old \notin W
  BY <1>10, <1>11, <1>16, <1>17
<1>19. CASE ~ D[v] /\ \A b \in U : b \notin N /\ ~ D[b] => r[b] <= r[v]
  <2>1. old \notin Q
    BY <1>12, <1>16, <1>17, <1>19
  <2>2. ASSUME NEW q \in P, q \notin W, q \notin Q PROVE R[q] <= R[old]
    <3>1. PICK b \in U : f[b] = q
      BY <1>10
    <3>2. b \notin N /\ ~ D[b]
      BY <1>11, <1>12, <2>2, <3>1
    <3> QED BY <1>5, <1>16, <1>17, <1>19, <3>1, <3>2
  <2> QED BY <1>1, <1>7, <1>8, <1>9, <1>14, <1>15, <1>17, <1>18, <2>1, <2>2 DEF CleanFirst
<1>20. CASE (\A b \in U : b \notin N => D[b]) /\ \A b \in U : r[b] <= r[v]
  <2>1. ASSUME NEW q \in P, q \notin W PROVE q \in Q
    <3>1. PICK b \in U : f[b] = q
      BY <1>10
    <3> QED BY <1>11, <1>12, <1>20, <2>1, <3>1
  <2>2. ASSUME NEW q \in P PROVE R[q] <= R[old]
    <3>1. PICK b \in U : f[b] = q
      BY <1>10
    <3> QED BY <1>5, <1>16, <1>17, <1>20, <3>1
  <2>3. Highest(P, R, old)
    BY <2>2 DEF Highest
  <2> QED BY <1>1, <1>7, <1>8, <1>9, <1>14, <1>15, <1>17, <1>18, <2>1, <2>3 DEF CleanFirst
<1> QED BY <1>16, <1>19, <1>20

MissingIt(c, n, B, cap, U, h, M, E, R, R2, page, is_write, d) ==
  /\ CFLRUHolds(c, n, B, cap, U, h, M, R) /\ cap <= n /\ PagesIn(c, U) \subseteq E
  /\ Latest(E, R, R2, page) /\ page \notin PagesIn(c, U) /\ page \in Nat
  /\ is_write \in BOOLEAN /\ d = CFLRUMiss(c, page, is_write)

\* A page enters, and where all nodes are used one leaves.
MissedIt(c, d, n, U, U2, R, cap, page, is_write) ==
  /\ d.hit = c.hit /\ d.miss = c.miss + 1
  /\ \/ U # 0..n /\ Fills(c, d, PagesIn(c, U), DirtyIn(c, U), PagesIn(d, U2), DirtyIn(d, U2),
                          page, is_write)
     \/ U = 0..n /\ \E old :
          /\ Swaps(c, d, PagesIn(c, U), DirtyIn(c, U), PagesIn(d, U2), DirtyIn(d, U2), page,
                   is_write, old)
          /\ CleanFirst(PagesIn(c, U), DirtyIn(c, U), R, cap, old)

LEMMA CFLRUFillHolds ==
  ASSUME NEW n \in Nat, NEW B \in Nat, NEW c, NEW cap, NEW U, NEW h, NEW M, NEW E, NEW R,
         NEW R2, NEW page, NEW is_write, NEW d, FreeNode(c) # NULL,
         MissingIt(c, n, B, cap, U, h, M, E, R, R2, page, is_write, d)
  PROVE  \E U2, h2, M2 : /\ CFLRUHolds(d, n, B, cap, U2, h2, M2, R2)
                         /\ MissedIt(c, d, n, U, U2, R, cap, page, is_write)
<1>1. /\ c \in CFLRUCaches(n, B) /\ c.working_cap = cap /\ cap \in Nat
      /\ Free(c, n, U) /\ Table(c, n, B, U, h) /\ Loose(c, n, U)
      /\ R \in [Nat -> Int] /\ Sorting(c, n, M, R, U, cap) /\ PagesIn(c, U) \subseteq E
      /\ Latest(E, R, R2, page) /\ page \notin PagesIn(c, U) /\ page \in Nat
      /\ is_write \in BOOLEAN /\ d = CFLRUMiss(c, page, is_write)
  BY DEF MissingIt, CFLRUHolds
<1>2. PICK a : a = FreeNode(c)
  OBVIOUS
<1>3. a \in Ref(n) /\ a # NULL /\ a \notin U /\ U # 0..n
  BY <1>1, <1>2, FreeNodeIs
<1>4. PICK rest : rest = SubSeq(c.free_list, 1, Len(c.free_list) - 1)
  OBVIOUS
<1>5. PICK e : e = [c EXCEPT !.free_list = rest]
  OBVIOUS
<1>6. e.free_list = rest
  BY <1>1, <1>5 DEF CFLRUCaches
<1>7. Free(e, n, Adding(U, a)) /\ rest \in Seq(0..n)
  BY <1>1, <1>2, <1>3, <1>4, <1>6, FreeTaken
<1>8. /\ e \in CFLRUCaches(n, B) /\ e.nodes = c.nodes /\ e.buckets = c.buckets
      /\ e.head = c.head /\ e.tail = c.tail /\ e.hit = c.hit /\ e.miss = c.miss
      /\ e.write_back = c.write_back /\ e.working_cap = c.working_cap
      /\ e.working_size = c.working_size
  BY <1>1, <1>5, <1>7 DEF CFLRUCaches
<1>9. d = Placed(e, a, page, is_write)
  BY <1>1, <1>2, <1>4, <1>5 DEF CFLRUMiss, Placed
<1>10. /\ SamePages(c, e) /\ DirtyAt(e) = DirtyAt(c) /\ ListOf(e) = ListOf(c)
       /\ NextOf(e) = NextOf(c) /\ PrevOf(e) = PrevOf(c)
  BY <1>8, SameNodes
<1>11. PageOf(e) = PageOf(c) /\ HashNext(e) = HashNext(c) /\ RankOf(e, R) = RankOf(c, R)
  BY <1>10 DEF SamePages, RankOf
<1>12. Table(e, n, B, U, h)
  BY <1>1, <1>8, <1>11, TableAgrees
<1>13. Loose(e, n, Adding(U, a))
  BY <1>1, <1>11 DEF Loose, Adding
<1>14. Sorting(e, n, M, R, U, cap)
  <2>1. InPolicy(c, n, M, RankOf(c, R)) /\ Everything(M) = U /\ Sized(c, M, cap)
    BY <1>1 DEF Sorting
  <2>2. RankOf(c, R) \in [0..n -> Int]
    BY <2>1 DEF InPolicy, Listed
  <2>3. Agreeing(c, e, M, n, RankOf(c, R), RankOf(c, R))
    BY <1>8, <1>10, <2>2 DEF Agreeing, SameOn
  <2>4. InPolicy(e, n, M, RankOf(c, R))
    BY <2>1, <2>3, SortedAgrees
  <2>5. Sized(e, M, cap)
    BY <1>8, <2>1 DEF Sized
  <2> QED BY <1>11, <2>1, <2>4, <2>5 DEF Sorting
<1>15. PagesIn(e, U) = PagesIn(c, U) /\ DirtyIn(e, U) = DirtyIn(c, U)
  BY <1>10, <1>11 DEF PagesIn, DirtyIn
<1>16. Vacant(e, n, B, cap, U, h, M, R, a)
  BY <1>1, <1>3, <1>7, <1>8, <1>12, <1>13, <1>14 DEF Vacant
<1>17. /\ \E h2, M2 : CFLRUHolds(d, n, B, cap, Adding(U, a), h2, M2, R2)
       /\ d.hit = e.hit /\ d.miss = e.miss + 1 /\ d.write_back = e.write_back
       /\ PagesIn(d, Adding(U, a)) = Adding(PagesIn(e, U), page)
       /\ DirtyIn(d, Adding(U, a)) = Written(DirtyIn(e, U), page, is_write)
  <2>1. Placing(e, n, B, cap, U, h, M, E, R, R2, a, page, is_write, d)
    BY <1>1, <1>9, <1>15, <1>16 DEF Placing
  <2> QED BY <2>1, PlacedHolds
<1>18. MissedIt(c, d, n, U, Adding(U, a), R, cap, page, is_write)
  BY <1>3, <1>8, <1>15, <1>17 DEF MissedIt, Fills
<1> QED BY <1>17, <1>18

LEMMA CFLRUSwapHolds ==
  ASSUME NEW n \in Nat, NEW B \in Nat, NEW c, NEW cap, NEW U, NEW h, NEW M, NEW E, NEW R,
         NEW R2, NEW page, NEW is_write, NEW d, FreeNode(c) = NULL,
         MissingIt(c, n, B, cap, U, h, M, E, R, R2, page, is_write, d)
  PROVE  \E U2, h2, M2 : /\ CFLRUHolds(d, n, B, cap, U2, h2, M2, R2)
                         /\ MissedIt(c, d, n, U, U2, R, cap, page, is_write)
<1>1. /\ CFLRUHolds(c, n, B, cap, U, h, M, R) /\ cap <= n
      /\ PagesIn(c, U) \subseteq E /\ Latest(E, R, R2, page) /\ page \notin PagesIn(c, U)
      /\ page \in Nat /\ is_write \in BOOLEAN /\ d = CFLRUMiss(c, page, is_write)
  BY DEF MissingIt
<1>2. /\ c \in CFLRUCaches(n, B) /\ cap \in Nat /\ Free(c, n, U) /\ Table(c, n, B, U, h)
      /\ InPolicy(c, n, M, RankOf(c, R)) /\ Everything(M) = U /\ Sized(c, M, cap)
  BY <1>1 DEF CFLRUHolds, Sorting
<1>3. U = 0..n
  BY <1>2, FreeNodeIs
<1>4. M["WORKING"] # U
  <2>1. Cardinality(M["WORKING"]) \in Nat /\ Cardinality(M["WORKING"]) <= cap
    BY <1>2, WorkingIs DEF Sized, InPolicy
  <2>2. Cardinality(0..n) = n + 1
    BY FS_Interval
  <2> QED BY <1>1, <1>2, <1>3, <2>1, <2>2
<1>5. PICK v : v = Victim(c)
  OBVIOUS
<1>6. Spared(c, M, RankOf(c, R), v)
  BY <1>2, <1>4, <1>5, VictimIs
<1>7. v \in U /\ v \notin M["WORKING"]
  BY <1>2, <1>6 DEF Spared
<1>8. PICK e : e = CFLRUEvict(c)
  OBVIOUS
<1>9. /\ \E M1 : Vacant(e, n, B, cap, Dropping(U, v), h, M1, R, v)
      /\ e.hit = c.hit /\ e.miss = c.miss
      /\ e.write_back = c.write_back + (IF DirtyAt(c)[v] THEN 1 ELSE 0)
      /\ PageOf(e) = PageOf(c) /\ DirtyAt(e) = DirtyAt(c)
  <2>1. Evicts(c, n, B, cap, U, h, M, R, v, e)
    BY <1>1, <1>4, <1>5, <1>7, <1>8 DEF Evicts
  <2> QED BY <2>1, CFLRUEvictIs
<1>10. PICK V : V = Dropping(U, v)
  OBVIOUS
<1>11. PICK M1 : Vacant(e, n, B, cap, V, h, M1, R, v)
  BY <1>9, <1>10
<1>12. Adding(V, v) = U /\ v \notin V
  BY <1>7, <1>10 DEF Adding, Dropping
<1>13. \A a1, a2 \in U : PageOf(c)[a1] = PageOf(c)[a2] => a1 = a2
  BY <1>2 DEF Table
<1>14. /\ PagesIn(e, V) = Dropping(PagesIn(c, U), PageOf(c)[v])
       /\ DirtyIn(e, V) = Dropping(DirtyIn(c, U), PageOf(c)[v])
       /\ PageOf(c)[v] \in DirtyIn(c, U) <=> DirtyAt(c)[v]
       /\ PageOf(c)[v] \in PagesIn(c, U)
  BY <1>7, <1>9, <1>10, <1>13, PagesDropped
<1>15. d = Placed(e, v, page, is_write)
  BY <1>1, <1>5, <1>8 DEF CFLRUMiss, Placed
<1>16. /\ \E h2, M2 : CFLRUHolds(d, n, B, cap, Adding(V, v), h2, M2, R2)
       /\ d.hit = e.hit /\ d.miss = e.miss + 1 /\ d.write_back = e.write_back
       /\ PagesIn(d, Adding(V, v)) = Adding(PagesIn(e, V), page)
       /\ DirtyIn(d, Adding(V, v)) = Written(DirtyIn(e, V), page, is_write)
  <2>1. PagesIn(e, V) \subseteq E /\ page \notin PagesIn(e, V)
    BY <1>1, <1>14 DEF Dropping
  <2>2. Placing(e, n, B, cap, V, h, M1, E, R, R2, v, page, is_write, d)
    BY <1>1, <1>11, <1>15, <2>1 DEF Placing
  <2> QED BY <2>2, PlacedHolds
<1>17. CleanFirst(PagesIn(c, U), DirtyIn(c, U), R, cap, PageOf(c)[v])
  <2>1. SparedIn(c, n, B, cap, U, h, M, R, v)
    BY <1>1, <1>4, <1>6 DEF SparedIn
  <2> QED BY <2>1, SparedPage
<1>18. Swaps(c, d, PagesIn(c, U), DirtyIn(c, U), PagesIn(d, U), DirtyIn(d, U), page,
             is_write, PageOf(c)[v])
  BY <1>9, <1>12, <1>14, <1>16 DEF Swaps
<1>19. MissedIt(c, d, n, U, U, R, cap, page, is_write)
  BY <1>3, <1>9, <1>16, <1>17, <1>18 DEF MissedIt
<1> QED BY <1>12, <1>16, <1>19

CFLRUKeeps(c, n, B, cap, R) == \E U, h, M : CFLRUHolds(c, n, B, cap, U, h, M, R)

LEMMA CFLRUPages ==
  ASSUME NEW n \in Nat, NEW B \in Nat, NEW c, NEW cap, NEW U, NEW h, NEW M, NEW R,
         CFLRUHolds(c, n, B, cap, U, h, M, R)
  PROVE  /\ CachedPages(c) = PagesIn(c, U) /\ DirtyPages(c) = DirtyIn(c, U)
         /\ Room(c, n) /\ R \in [Nat -> Int]
         /\ Cardinality(CachedPages(c)) = n + 1 <=> U = 0..n
<1>1. /\ c \in CFLRUCaches(n, B) /\ Free(c, n, U) /\ Table(c, n, B, U, h) /\ Loose(c, n, U)
      /\ U \subseteq 0..n /\ R \in [Nat -> Int]
  BY DEF CFLRUHolds, Table, Ranked
<1>2. IsPool(c, n, B)
  BY <1>1, PoolOf DEF Caches
<1>3. CachedPages(c) = PagesIn(c, U) /\ DirtyPages(c) = DirtyIn(c, U)
  BY <1>1, <1>2, HeldIs
<1>4. /\ IsFiniteSet(PagesIn(c, U)) /\ Cardinality(PagesIn(c, U)) \in 0..(n + 1)
      /\ Cardinality(PagesIn(c, U)) = n + 1 <=> U = 0..n
  BY <1>1, UsedCount
<1>5. PagesIn(c, U) \subseteq Nat
  <2>1. PageOf(c) \in [0..n -> Nat]
    BY <1>2, PoolFields
  <2> QED BY <1>1, <2>1 DEF PagesIn
<1>6. DirtyIn(c, U) \subseteq PagesIn(c, U)
  BY DEF DirtyIn, PagesIn
<1>7. c.hit \in Nat /\ c.miss \in Nat /\ c.write_back \in Nat
  BY <1>1 DEF CFLRUCaches
<1> QED BY <1>1, <1>3, <1>4, <1>5, <1>6, <1>7 DEF Room

LEMMA CFLRUKeepsIs ==
  ASSUME NEW n \in Nat, NEW B \in Nat, NEW c, NEW cap, NEW R, CFLRUKeeps(c, n, B, cap, R)
  PROVE  Room(c, n) /\ R \in [Nat -> Int]
BY CFLRUPages DEF CFLRUKeeps

CFLRUSteps(c, d, n, cap, R, page, is_write) ==
  \/ Hits(c, d, page, is_write)
  \/ /\ Misses(c, d, page) /\ FillsPage(c, d, page, is_write)
     /\ Cardinality(CachedPages(c)) # n + 1
  \/ /\ Misses(c, d, page) /\ Cardinality(CachedPages(c)) = n + 1
     /\ \E old : /\ SwapsPage(c, d, page, is_write, old)
                 /\ CleanFirst(CachedPages(c), DirtyPages(c), R, cap, old)

CFLRUAccesses(c, n, B, cap, E, R, R2, page, is_write, d) ==
  /\ CFLRUKeeps(c, n, B, cap, R) /\ cap <= n /\ CachedPages(c) \subseteq E /\ Latest(E, R, R2, page)
  /\ page \in Nat /\ is_write \in BOOLEAN /\ d = CFLRUAccess(c, page, is_write)

LEMMA CFLRUAccessIs ==
  ASSUME NEW n \in Nat, NEW B \in Nat, NEW c, NEW cap, NEW E, NEW R, NEW R2, NEW page,
         NEW is_write, NEW d, CFLRUAccesses(c, n, B, cap, E, R, R2, page, is_write, d)
  PROVE  CFLRUKeeps(d, n, B, cap, R2) /\ CFLRUSteps(c, d, n, cap, R, page, is_write)
<1>1. /\ CFLRUKeeps(c, n, B, cap, R) /\ cap <= n /\ CachedPages(c) \subseteq E
      /\ Latest(E, R, R2, page) /\ page \in Nat /\ is_write \in BOOLEAN
      /\ d = CFLRUAccess(c, page, is_write)
  BY DEF CFLRUAccesses
<1>2. PICK U, h, M : CFLRUHolds(c, n, B, cap, U, h, M, R)
  BY <1>1 DEF CFLRUKeeps
<1>3. /\ CachedPages(c) = PagesIn(c, U) /\ DirtyPages(c) = DirtyIn(c, U)
      /\ Cardinality(CachedPages(c)) = n + 1 <=> U = 0..n
  BY <1>2, CFLRUPages
<1>4. /\ c \in CFLRUCaches(n, B) /\ Table(c, n, B, U, h) /\ Loose(c, n, U)
      /\ NULL \notin U
  BY <1>2 DEF CFLRUHolds, Table, Ranked
<1>5. IsPool(c, n, B)
  BY <1>4, PoolOf DEF Caches
<1>6. PICK a : a = get(c, page)
  OBVIOUS
<1>7. \/ a = NULL /\ \A b \in U : PageOf(c)[b] # page
      \/ a \in U /\ PageOf(c)[a] = page
  BY <1>1, <1>4, <1>5, <1>6, GetIs
<1>8. PagesIn(c, U) \subseteq E
  BY <1>1, <1>3
<1>9. CASE a \in U
  <2>1. d = CFLRUHit(c, a, is_write)
    BY <1>1, <1>4, <1>6, <1>9 DEF CFLRUAccess
  <2>2. PageOf(c)[a] = page
    BY <1>4, <1>7, <1>9
  <2>3. /\ \E M2 : CFLRUHolds(d, n, B, cap, U, h, M2, R2)
        /\ d.hit = c.hit + 1 /\ d.miss = c.miss /\ d.write_back = c.write_back
        /\ PagesIn(d, U) = PagesIn(c, U)
        /\ DirtyIn(d, U) = Written(DirtyIn(c, U), page, is_write)
    <3>1. HittingIt(c, n, B, cap, U, h, M, E, R, R2, a, page, is_write, d)
      BY <1>1, <1>2, <1>8, <1>9, <2>1, <2>2 DEF HittingIt
    <3> QED BY <3>1, CFLRUHitHolds
  <2>4. CachedPages(d) = PagesIn(d, U) /\ DirtyPages(d) = DirtyIn(d, U)
    BY <2>3, CFLRUPages
  <2>5. page \in PagesIn(c, U)
    BY <1>9, <2>2 DEF PagesIn
  <2>6. Hits(c, d, page, is_write)
    BY <1>3, <2>3, <2>4, <2>5 DEF Hits
  <2> QED BY <2>3, <2>6 DEF CFLRUKeeps, CFLRUSteps
<1>10. CASE a = NULL
  <2>1. d = CFLRUMiss(c, page, is_write)
    BY <1>1, <1>6, <1>10 DEF CFLRUAccess
  <2>2. page \notin PagesIn(c, U)
    BY <1>4, <1>7, <1>10 DEF PagesIn
  <2>3. MissingIt(c, n, B, cap, U, h, M, E, R, R2, page, is_write, d)
    BY <1>1, <1>2, <1>8, <2>1, <2>2 DEF MissingIt
  <2>4. PICK U2, h2, M2 : /\ CFLRUHolds(d, n, B, cap, U2, h2, M2, R2)
                          /\ MissedIt(c, d, n, U, U2, R, cap, page, is_write)
    BY <2>3, CFLRUFillHolds, CFLRUSwapHolds
  <2>5. CachedPages(d) = PagesIn(d, U2) /\ DirtyPages(d) = DirtyIn(d, U2)
    BY <2>4, CFLRUPages
  <2>6. Misses(c, d, page)
    BY <1>3, <2>2, <2>4 DEF Misses, MissedIt
  <2>7. \/ U # 0..n /\ FillsPage(c, d, page, is_write)
        \/ U = 0..n /\ \E old : /\ SwapsPage(c, d, page, is_write, old)
                                /\ CleanFirst(CachedPages(c), DirtyPages(c), R, cap, old)
    BY <1>3, <2>4, <2>5 DEF FillsPage, SwapsPage, MissedIt
  <2>8. CFLRUSteps(c, d, n, cap, R, page, is_write)
    BY <1>3, <2>6, <2>7 DEF CFLRUSteps
  <2> QED BY <2>4, <2>8 DEF CFLRUKeeps
<1> QED BY <1>7, <1>9, <1>10

---------------------------------------------------------------------------
(* At the start.                                                           *)

LEMMA CFLRUNewKeeps ==
  ASSUME NEW frames \in Nat, frames # 0, NEW cap \in Nat, NEW R, R \in [Nat -> Int],
         NEW c, c = CFLRUNew(frames, cap)
  PROVE  /\ CFLRUKeeps(c, frames - 1, TableSize(frames) - 1, cap, R)
         /\ CachedPages(c) = {} /\ DirtyPages(c) = {}
         /\ c.hit = 0 /\ c.miss = 0 /\ c.write_back = 0
<1>1. PICK n \in Nat : n = frames - 1
  OBVIOUS
<1>2. PICK B \in Nat : B = TableSize(frames) - 1
  BY TableSizeIs
<1>3. PICK h : h = [a \in 0..n |-> 0]
  OBVIOUS
<1>4. /\ c.nodes = [a \in 0..n |-> NoPage] /\ c.buckets = [b \in 0..B |-> NULL]
      /\ c.free_list = [k \in 1..frames |-> k - 1]
      /\ c.hit = 0 /\ c.miss = 0 /\ c.write_back = 0
      /\ c.working_cap = cap /\ c.working_size = 0
  BY <1>1, <1>2 DEF CFLRUNew, EmptyTable
<1>5. /\ c.head = [X \in Lists |-> NULL] /\ c.tail = [X \in Lists |-> NULL]
  BY DEF CFLRUNew, Lists
<1>6. NoPage \in PageNode(n) /\ NULL \in Ref(n)
  BY DEF NoPage, PageNode, Ref
<1>7. c.free_list \in Seq(0..n)
  <2>1. c.free_list \in [1..frames -> 0..n]
    BY <1>1, <1>4
  <2> QED BY <2>1, SequenceOf
<1>8. c \in CFLRUCaches(n, B)
  <2>1. c = [nodes |-> c.nodes, free_list |-> c.free_list, buckets |-> c.buckets,
             working_cap |-> c.working_cap, working_size |-> c.working_size,
             head |-> c.head, tail |-> c.tail, hit |-> c.hit, miss |-> c.miss,
             write_back |-> c.write_back]
    BY DEF CFLRUNew
  <2>2. c.nodes \in [0..n -> PageNode(n)] /\ c.buckets \in [0..B -> Ref(n)]
    BY <1>4, <1>6
  <2>3. /\ c.head \in [Lists -> Ref(n)] /\ c.tail \in [Lists -> Ref(n)]
    BY <1>5, <1>6
  <2>4. /\ c.hit \in Nat /\ c.miss \in Nat /\ c.write_back \in Nat /\ c.working_cap \in Nat
        /\ c.working_size \in Int
    BY <1>4
  <2> QED BY <1>7, <2>1, <2>2, <2>3, <2>4 DEF CFLRUCaches
<1>9. IsPool(c, n, B)
  BY <1>8, PoolOf DEF Caches
<1>10. Free(c, n, {})
  <2>1. (n + 1)..n = {} /\ n + 1 \in 0..(n + 1) /\ frames = n + 1
    BY <1>1
  <2> QED BY <1>4, <2>1 DEF Free
<1>11. NULL \notin 0..n
  BY DEF NULL
<1>12. \A r : r \in [0..n -> Int] => Ranked(0..n, {}, r)
  BY <1>11 DEF Ranked
<1>13. \A nx, r : Linked(nx, NULL, {}, r)
  BY DEF Linked
<1>14. Table(c, n, B, {}, h)
  <2>1. ASSUME NEW b \in 0..B PROVE Linked(HashNext(c), c.buckets[b], Bucket(c, B, {}, b), h)
    <3>1. Bucket(c, B, {}, b) = {} /\ c.buckets[b] = NULL
      BY <1>4 DEF Bucket
    <3> QED BY <1>13, <3>1
  <2>2. Ranked(0..n, {}, h)
    BY <1>3, <1>12
  <2> QED BY <2>1, <2>2 DEF Table
<1>15. Loose(c, n, {})
  <2>1. DOMAIN c.nodes = 0..n
    BY <1>4
  <2>2. \A a \in 0..n : HashNext(c)[a] = NULL
    BY <1>4, <2>1 DEF HashNext, NoPage
  <2> QED BY <2>2 DEF Loose
<1>16. PICK M : M = [X \in Lists |-> {}]
  OBVIOUS
<1>17. M["WORKING"] = {} /\ M["CLEAN"] = {} /\ M["DIRTY"] = {} /\ Everything(M) = {}
  BY <1>16 DEF Lists, Everything
<1>18. Sorting(c, n, M, R, {}, cap)
  <2>1. RankOf(c, R) \in [0..n -> Int]
    <3>1. PageOf(c) \in [0..n -> Nat]
      BY <1>9, PoolFields
    <3> QED BY <3>1 DEF RankOf
  <2>2. PICK r : r = RankOf(c, R)
    OBVIOUS
  <2>3. ASSUME NEW X \in Lists PROVE IsList(c, n, M[X], r, X)
    <3>1. M[X] = {} /\ c.head[X] = NULL /\ c.tail[X] = NULL
      BY <1>5, <1>16
    <3>2. Both(NextOf(c), PrevOf(c), NULL, NULL, {}, r)
      BY <1>13 DEF Both
    <3>3. Ranked(0..n, {}, r)
      BY <1>12, <2>1, <2>2
    <3> QED BY <3>1, <3>2, <3>3 DEF IsList
  <2>4. M \in [Lists -> SUBSET (0..n)]
    BY <1>16
  <2>5. Policy(c, M, r)
    <3>1. \A X \in {"CLEAN", "DIRTY"} : M[X] = {}
      BY <1>17
    <3> QED BY <1>17, <3>1 DEF Policy
  <2>6. Sized(c, M, cap)
    <3>1. Cardinality(M["WORKING"]) = 0
      BY <1>17, FS_EmptySet
    <3> QED BY <1>4, <1>17, <3>1 DEF Sized
  <2> QED BY <1>17, <2>1, <2>2, <2>3, <2>4, <2>5, <2>6 DEF Sorting, InPolicy, Listed
<1>19. CFLRUHolds(c, n, B, cap, {}, h, M, R)
  BY <1>4, <1>8, <1>10, <1>14, <1>15, <1>18 DEF CFLRUHolds
<1>20. CachedPages(c) = {} /\ DirtyPages(c) = {}
  <2>1. CachedPages(c) = PagesIn(c, {}) /\ DirtyPages(c) = DirtyIn(c, {})
    BY <1>19, CFLRUPages
  <2> QED BY <2>1 DEF PagesIn, DirtyIn
<1> QED BY <1>1, <1>2, <1>4, <1>19, <1>20 DEF CFLRUKeeps

---------------------------------------------------------------------------
(* The clean-first region of a list of pages.                              *)

\* W are the pages of P that were used last.
Leading(s, P, R, W) ==
  /\ Visits(s, P, R) /\ W \subseteq P /\ \A p \in P : R[p] \in Int
  /\ \A p \in W : \A q \in P : q \notin W => R[p] < R[q]

\* They are the first of the list.
LEMMA LeadingFirst ==
  ASSUME NEW s, NEW P, NEW R, NEW W, Leading(s, P, R, W)
  PROVE  \A k \in 1..Len(s) : s[k] \in W <=> k <= Cardinality(W)
<1>1. /\ Visits(s, P, R) /\ W \subseteq P /\ \A p \in P : R[p] \in Int
      /\ \A p \in W : \A q \in P : q \notin W => R[p] < R[q]
  BY DEF Leading
<1>2. /\ Len(s) \in Nat /\ \A k \in 1..Len(s) : s[k] \in P
      /\ \A b \in P : \E k \in 1..Len(s) : s[k] = b
      /\ \A i, j \in 1..Len(s) : i < j => R[s[i]] < R[s[j]]
  BY <1>1, VisitsDomain DEF Visits
<1>3. PICK L \in Nat : L = Len(s)
  BY <1>2
<1>4. PICK K : K = {k \in 1..L : s[k] \in W}
  OBVIOUS
<1>5. ASSUME NEW k \in K, NEW j \in 1..L, j <= k PROVE j \in K
  <2>1. CASE j = k
    BY <1>5, <2>1
  <2>2. CASE j < k
    <3>1. k \in 1..L /\ s[k] \in W /\ s[j] \in P
      BY <1>2, <1>3, <1>4, <1>5
    <3>2. R[s[j]] < R[s[k]]
      BY <1>2, <1>3, <1>5, <2>2, <3>1
    <3>3. s[j] \in W
      BY <1>1, <3>1, <3>2
    <3> QED BY <1>4, <1>5, <3>3
  <2> QED BY <1>4, <1>5, <2>1, <2>2
<1>6. IsFiniteSet(1..L) /\ IsFiniteSet(K)
  <2>1. IsFiniteSet(1..L)
    BY FS_Interval
  <2>2. K \subseteq 1..L
    BY <1>4
  <2> QED BY <2>1, <2>2, FS_Subset
<1>7. Cardinality(K) = Cardinality(W)
  <2>1. PICK f : f = [k \in K |-> s[k]]
    OBVIOUS
  <2>2. f \in [K -> W] /\ \A w \in W : \E k \in K : f[k] = w
    BY <1>1, <1>2, <1>3, <1>4, <2>1
  <2>3. ASSUME NEW i \in K, NEW j \in K, f[i] = f[j] PROVE i = j
    <3>1. i \in 1..L /\ j \in 1..L /\ s[i] = s[j] /\ R[s[i]] \in Int
      BY <1>1, <1>2, <1>3, <1>4, <2>1, <2>3
    <3>2. ~(i < j) /\ ~(j < i)
      BY <1>2, <1>3, <3>1
    <3> QED BY <3>1, <3>2
  <2>4. f \in Injection(K, W)
    BY <2>2, <2>3 DEF Injection, IsInjective
  <2>5. f \in Surjection(K, W)
    BY <2>2 DEF Surjection
  <2>6. f \in Bijection(K, W)
    BY <2>4, <2>5 DEF Bijection
  <2> QED BY <1>6, <2>6, FS_Bijection DEF ExistsBijection
<1>8. PICK m \in Nat : m = Cardinality(K)
  BY <1>6, FS_CardinalityType
<1>9. ASSUME NEW k \in K PROVE k <= m
  <2>1. k \in 1..L /\ 1..k \subseteq K
    BY <1>4, <1>5, <1>9
  <2>2. Cardinality(1..k) <= m
    BY <1>6, <1>8, <2>1, FS_Subset
  <2>3. Cardinality(1..k) = k
    BY <2>1, FS_Interval
  <2> QED BY <2>2, <2>3
<1>10. K = 1..m
  <2>1. K \subseteq 1..m
    BY <1>4, <1>9
  <2>2. IsFiniteSet(1..m) /\ Cardinality(1..m) = m
    BY FS_Interval
  <2> QED BY <1>8, <2>1, <2>2, FS_Subset
<1> QED BY <1>3, <1>4, <1>7, <1>8, <1>10

\* The victim of a full list.
Fallen(s, D, cap, F, old) ==
  \/ /\ \A k \in (cap + 1)..F : s[k] \in D
     /\ old = s[F]
  \/ \E last \in (cap + 1)..F :
       /\ s[last] \notin D /\ old = s[last]
       /\ \A k \in (cap + 1)..F : s[k] \notin D => k <= last

Choosing(s, P, D, R, cap, F, old) ==
  /\ Visits(s, P, R) /\ CleanFirst(P, D, R, cap, old) /\ \A p \in P : R[p] \in Int
  /\ cap \in Nat /\ F = Len(s)

LEMMA CleanFirstFalls ==
  ASSUME NEW s, NEW P, NEW D, NEW R, NEW cap, NEW F, NEW old, Choosing(s, P, D, R, cap, F, old)
  PROVE  Fallen(s, D, cap, F, old)
<1>1. /\ Visits(s, P, R) /\ CleanFirst(P, D, R, cap, old) /\ \A p \in P : R[p] \in Int
      /\ cap \in Nat /\ F = Len(s)
  BY DEF Choosing
<1>2. PICK W : /\ W \subseteq P /\ Cardinality(W) = cap
               /\ \A p \in W : \A q \in P : q \notin W => R[p] < R[q]
               /\ old \in P /\ old \notin W
               /\ \/ old \notin D /\ \A q \in P : q \notin W /\ q \notin D => R[q] <= R[old]
                  \/ (\A q \in P : q \notin W => q \in D) /\ Highest(P, R, old)
  BY <1>1 DEF CleanFirst
<1>3. /\ F \in Nat /\ \A k \in 1..F : s[k] \in P
      /\ \A b \in P : \E k \in 1..F : s[k] = b
      /\ \A i, j \in 1..F : i < j => R[s[i]] < R[s[j]]
  <2>1. Visits(s, P, R) /\ F = Len(s)
    BY <1>1
  <2>2. /\ F \in Nat /\ \A k \in 1..F : s[k] \in P
        /\ \A b \in P : \E k \in 1..F : s[k] = b
    BY <2>1, VisitsDomain
  <2>3. \A i, j \in 1..F : i < j => R[s[i]] < R[s[j]]
    BY <2>1 DEF Visits
  <2> QED BY <2>2, <2>3
<1>4. \A k \in 1..F : s[k] \in W <=> k <= cap
  <2>1. Leading(s, P, R, W)
    BY <1>1, <1>2 DEF Leading
  <2> QED BY <1>1, <1>2, <2>1, LeadingFirst
<1>5. \A k \in (cap + 1)..F : k \in 1..F /\ s[k] \in P /\ s[k] \notin W
  BY <1>1, <1>3, <1>4
<1>6. CASE (\A q \in P : q \notin W => q \in D) /\ Highest(P, R, old)
  <2>1. old = s[F]
    BY <1>1, <1>2, <1>6, HighestLast
  <2>2. \A k \in (cap + 1)..F : s[k] \in D
    BY <1>5, <1>6
  <2> QED BY <2>1, <2>2 DEF Fallen
<1>7. CASE old \notin D /\ \A q \in P : q \notin W /\ q \notin D => R[q] <= R[old]
  <2>1. PICK last \in 1..F : s[last] = old
    BY <1>2, <1>3
  <2>2. last \in (cap + 1)..F
    BY <1>1, <1>2, <1>3, <1>4, <2>1
  <2>3. ASSUME NEW k \in (cap + 1)..F, s[k] \notin D PROVE k <= last
    <3>1. SUFFICES ASSUME last < k PROVE FALSE
      BY <1>1, <1>3, <2>2
    <3>2. R[old] < R[s[k]] /\ R[old] \in Int /\ R[s[k]] \in Int
      BY <1>1, <1>2, <1>3, <1>5, <2>1, <3>1
    <3>3. R[s[k]] <= R[old]
      BY <1>5, <1>7, <2>3
    <3> QED BY <3>2, <3>3
  <2> QED BY <1>7, <2>1, <2>2, <2>3 DEF Fallen
<1> QED BY <1>2, <1>6, <1>7

---------------------------------------------------------------------------
(* What a step of a CFLRU cache does to the pages in order of their use.   *)

CFLRUMoves(c, d, n, B, cap, E, R, R2, page, is_write, q, q2) ==
  /\ CFLRUKeeps(c, n, B, cap, R) /\ CFLRUKeeps(d, n, B, cap, R2)
  /\ CFLRUSteps(c, d, n, cap, R, page, is_write) /\ cap \in Nat
  /\ CachedPages(c) \subseteq E /\ CachedPages(d) \subseteq Adding(E, page)
  /\ Ordered(q, E, R) /\ Ordered(q2, Adding(E, page), R2) /\ Latest(E, R, R2, page)
  /\ page \in Nat /\ is_write \in BOOLEAN

LEMMA AmongOrdered ==
  ASSUME NEW q, NEW E, NEW R, Ordered(q, E, R), NEW P, P \subseteq E
  PROVE  Visits(Among(q, P), P, R)
<1>1. R \in [Nat -> Int] /\ E \subseteq Nat /\ Visits(q, E, R)
  BY DEF Ordered
<1>2. \A b \in E : R[b] \in Int
  BY <1>1
<1>3. Visits(Among(q, P), E \cap P, R)
  BY <1>1, <1>2, AmongVisits
<1>4. E \cap P = P
  OBVIOUS
<1> QED BY <1>3, <1>4

\* The pages of a cache among those used, before and after an access.
LEMMA CFLRUMovesIs ==
  ASSUME NEW n \in Nat, NEW B \in Nat, NEW c, NEW d, NEW cap, NEW E, NEW R, NEW R2, NEW page,
         NEW is_write, NEW q, NEW q2,
         CFLRUMoves(c, d, n, B, cap, E, R, R2, page, is_write, q, q2), NEW s, NEW s2,
         s = Among(q, CachedPages(c)), s2 = Among(q2, CachedPages(d))
  PROVE  /\ Elements(s) = CachedPages(c)
         /\ \/ Hits(c, d, page, is_write) /\ s2 = Used(s, page)
            \/ /\ Misses(c, d, page) /\ FillsPage(c, d, page, is_write) /\ Len(s) < n + 1
               /\ s2 = Led(page, s)
            \/ /\ Misses(c, d, page) /\ Len(s) = n + 1
               /\ \E old : /\ SwapsPage(c, d, page, is_write, old)
                           /\ Fallen(s, DirtyPages(c), cap, n + 1, old)
                           /\ s2 = Led(page, Without(s, old))
<1>1. /\ CFLRUKeeps(c, n, B, cap, R) /\ CFLRUKeeps(d, n, B, cap, R2)
      /\ CFLRUSteps(c, d, n, cap, R, page, is_write) /\ cap \in Nat
      /\ CachedPages(c) \subseteq E /\ CachedPages(d) \subseteq Adding(E, page)
      /\ Ordered(q, E, R) /\ Ordered(q2, Adding(E, page), R2) /\ Latest(E, R, R2, page)
      /\ page \in Nat /\ is_write \in BOOLEAN
  BY DEF CFLRUMoves
<1>2. Room(c, n) /\ R \in [Nat -> Int] /\ E \subseteq Nat
  BY <1>1, CFLRUKeepsIs DEF Ordered
<1>3. Visits(s, CachedPages(c), R) /\ Visits(s2, CachedPages(d), R2)
  BY <1>1, AmongOrdered
<1>4. PICK P : P = CachedPages(c)
  OBVIOUS
<1>5. PICK P2 : P2 = CachedPages(d)
  OBVIOUS
<1>6. \A p \in P : R[p] \in Int
  BY <1>1, <1>2, <1>4
<1>7. Elements(s) = P /\ Len(s) = Cardinality(P) /\ Len(s) \in 0..(n + 1)
  <2>1. Len(s) = Cardinality(P)
    BY <1>3, <1>4, <1>6, VisitsCount
  <2> QED BY <1>2, <1>3, <1>4, <2>1 DEF Visits, Room
<1>8. Moves(s, s2, P, P2, E, R, R2, page)
  BY <1>1, <1>2, <1>3, <1>4, <1>5 DEF Moves
<1>9. CASE Hits(c, d, page, is_write)
  <2>1. P2 = P /\ page \in P
    BY <1>4, <1>5, <1>9 DEF Hits
  <2>2. s2 = Used(s, page)
    BY <1>8, <2>1, StackUsed
  <2> QED BY <1>4, <1>7, <1>9, <2>2
<1>10. CASE /\ Misses(c, d, page) /\ FillsPage(c, d, page, is_write)
            /\ Cardinality(CachedPages(c)) # n + 1
  <2>1. P2 = Adding(P, page) /\ page \notin P
    BY <1>4, <1>5, <1>10 DEF Misses, FillsPage, Fills
  <2>2. s2 = Led(page, s)
    BY <1>8, <2>1, StackFilled
  <2>3. Len(s) < n + 1
    BY <1>4, <1>7, <1>10
  <2> QED BY <1>4, <1>7, <1>10, <2>2, <2>3
<1>11. CASE /\ Misses(c, d, page) /\ Cardinality(CachedPages(c)) = n + 1
            /\ \E old : /\ SwapsPage(c, d, page, is_write, old)
                        /\ CleanFirst(CachedPages(c), DirtyPages(c), R, cap, old)
  <2>1. PICK old : /\ SwapsPage(c, d, page, is_write, old)
                   /\ CleanFirst(P, DirtyPages(c), R, cap, old)
    BY <1>4, <1>11
  <2>2. P2 = Adding(Dropping(P, old), page) /\ page \notin P
    BY <1>4, <1>5, <1>11, <2>1 DEF Misses, SwapsPage, Swaps
  <2>3. Len(s) = n + 1
    BY <1>4, <1>7, <1>11
  <2>4. Choosing(s, P, DirtyPages(c), R, cap, n + 1, old)
    BY <1>1, <1>3, <1>4, <1>6, <2>1, <2>3 DEF Choosing
  <2>5. Fallen(s, DirtyPages(c), cap, n + 1, old)
    BY <2>4, CleanFirstFalls
  <2>6. Replaces(s, s2, P, P2, E, R, R2, page, old)
    BY <1>8, <2>2 DEF Replaces
  <2>7. s2 = Led(page, Without(s, old))
    BY <2>6, StackReplaced
  <2>8. \E o : /\ SwapsPage(c, d, page, is_write, o)
               /\ Fallen(s, DirtyPages(c), cap, n + 1, o)
               /\ s2 = Led(page, Without(s, o))
    BY <2>1, <2>5, <2>7
  <2> QED BY <1>4, <1>7, <1>11, <2>3, <2>8
<1> QED BY <1>1, <1>9, <1>10, <1>11 DEF CFLRUSteps

\* An access caches no page but those used.
LEMMA CFLRUStays ==
  ASSUME NEW c, NEW d, NEW n, NEW cap, NEW E, NEW R, NEW page, NEW is_write,
         CFLRUSteps(c, d, n, cap, R, page, is_write), CachedPages(c) \subseteq E
  PROVE  CachedPages(d) \subseteq Adding(E, page)
<1>1. CASE Hits(c, d, page, is_write)
  BY <1>1 DEF Hits, Adding
<1>2. CASE FillsPage(c, d, page, is_write)
  BY <1>2 DEF FillsPage, Fills, Adding
<1>3. ASSUME NEW old, SwapsPage(c, d, page, is_write, old)
      PROVE  CachedPages(d) \subseteq Adding(E, page)
  BY <1>3 DEF SwapsPage, Swaps, Adding, Dropping
<1> QED BY <1>1, <1>2, <1>3 DEF CFLRUSteps

\* What an access to a CFLRU cache keeps.
CFLRUAccessed(c, d, n, B, cap, E, R, R2, page, is_write, q, q2) ==
  /\ CFLRUKeeps(c, n, B, cap, R) /\ CachedPages(c) \subseteq E /\ cap \in Nat /\ cap <= n
  /\ Ordered(q, E, R) /\ Ordered(q2, Adding(E, page), R2) /\ Latest(E, R, R2, page)
  /\ page \in Nat /\ is_write \in BOOLEAN /\ d = CFLRUAccess(c, page, is_write)

LEMMA AccessedCFLRU ==
  ASSUME NEW n \in Nat, NEW B \in Nat, NEW c, NEW d, NEW cap, NEW E, NEW R, NEW R2, NEW page,
         NEW is_write, NEW q, NEW q2,
         CFLRUAccessed(c, d, n, B, cap, E, R, R2, page, is_write, q, q2)
  PROVE  /\ CFLRUKeeps(d, n, B, cap, R2) /\ CachedPages(d) \subseteq Adding(E, page)
         /\ CFLRUMoves(c, d, n, B, cap, E, R, R2, page, is_write, q, q2)
<1>1. /\ CFLRUKeeps(c, n, B, cap, R) /\ CachedPages(c) \subseteq E /\ cap \in Nat /\ cap <= n
      /\ Ordered(q, E, R) /\ Ordered(q2, Adding(E, page), R2) /\ Latest(E, R, R2, page)
      /\ page \in Nat /\ is_write \in BOOLEAN /\ d = CFLRUAccess(c, page, is_write)
  BY DEF CFLRUAccessed
<1>2. CFLRUAccesses(c, n, B, cap, E, R, R2, page, is_write, d)
  BY <1>1 DEF CFLRUAccesses
<1>3. CFLRUKeeps(d, n, B, cap, R2) /\ CFLRUSteps(c, d, n, cap, R, page, is_write)
  BY <1>2, CFLRUAccessIs
<1>4. CachedPages(d) \subseteq Adding(E, page)
  BY <1>1, <1>3, CFLRUStays
<1>5. CFLRUMoves(c, d, n, B, cap, E, R, R2, page, is_write, q, q2)
  BY <1>1, <1>3, <1>4 DEF CFLRUMoves
<1> QED BY <1>3, <1>4, <1>5

---------------------------------------------------------------------------
(* The inductive invariant.                                                *)

Last(frames)  == frames - 1
Slots(frames) == TableSize(frames) - 1

\* An LRU cache of the given size, when R orders the pages of the trace.
LRUCache(c, frames, R) ==
  /\ LRUKeeps(c, Last(frames), Slots(frames), R)
  /\ Closed(c, Last(frames), Elements(recent), R)

\* The CFLRU cache, likewise.
CFLRUCache(c, R) ==
  /\ CFLRUKeeps(c, Last(LargeFrames), Slots(LargeFrames), WorkingCap, R)
  /\ CachedPages(c) \subseteq Elements(recent)

RInv(R) ==
  /\ Ordered(recent, Elements(recent), R)
  /\ LRUCache(small, SmallFrames, R) /\ LRUCache(large, LargeFrames, R)
  /\ CFLRUCache(cflru, R)
  /\ Ledger(small, large)

IInv == \E R : RInv(R)

LEMMA SizesAre ==
  /\ Last(SmallFrames) \in Nat /\ Last(LargeFrames) \in Nat
  /\ Slots(SmallFrames) \in Nat /\ Slots(LargeFrames) \in Nat
  /\ Last(SmallFrames) <= Last(LargeFrames)
  /\ SmallFrames \in Nat /\ SmallFrames # 0 /\ LargeFrames \in Nat /\ LargeFrames # 0
  /\ WorkingCap \in Nat /\ WorkingCap <= Last(LargeFrames)
<1>1. /\ SmallFrames \in Nat /\ SmallFrames # 0 /\ LargeFrames \in Nat /\ LargeFrames # 0
      /\ SmallFrames <= LargeFrames
  BY FramesAssumption
<1>2. Slots(SmallFrames) \in Nat /\ Slots(LargeFrames) \in Nat
  BY <1>1, TableSizeIs DEF Slots
<1>3. WorkingCap \in Nat /\ WorkingCap <= LargeFrames - 1
  BY <1>1, FramesAssumption
<1> QED BY <1>1, <1>2, <1>3 DEF Last

LEMMA InitHolds == Init => IInv
<1> SUFFICES ASSUME Init PROVE IInv
  OBVIOUS
<1>1. PICK R : R = [p \in Nat |-> 0]
  OBVIOUS
<1>2. R \in [Nat -> Int]
  BY <1>1
<1>3. /\ LRUKeeps(small, Last(SmallFrames), Slots(SmallFrames), R)
      /\ CachedPages(small) = {} /\ DirtyPages(small) = {}
      /\ small.hit = 0 /\ small.write_back = 0
  BY <1>2, SizesAre, LRUNewKeeps DEF Init, Last, Slots
<1>4. /\ LRUKeeps(large, Last(LargeFrames), Slots(LargeFrames), R)
      /\ CachedPages(large) = {} /\ DirtyPages(large) = {}
      /\ large.hit = 0 /\ large.write_back = 0
  BY <1>2, SizesAre, LRUNewKeeps DEF Init, Last, Slots
<1>5. recent = <<>> /\ Elements(recent) = {}
  BY DEF Init, Elements
<1>6. Visits(<<>>, {}, R)
  BY DEF Visits, Elements
<1>7. Ordered(recent, Elements(recent), R)
  BY <1>2, <1>5, <1>6 DEF Ordered
<1>8. LRUCache(small, SmallFrames, R) /\ LRUCache(large, LargeFrames, R)
  BY <1>3, <1>4, <1>5 DEF LRUCache, Closed
<1>9. CFLRUCache(cflru, R)
  <2>1. /\ CFLRUKeeps(cflru, Last(LargeFrames), Slots(LargeFrames), WorkingCap, R)
        /\ CachedPages(cflru) = {}
    BY <1>2, SizesAre, CFLRUNewKeeps DEF Init, Last, Slots
  <2> QED BY <2>1 DEF CFLRUCache
<1>10. Ledger(small, large)
  <2>1. DirtyPages(large) \ DirtyPages(small) = {}
    BY <1>4
  <2> QED BY <1>3, <1>4, <2>1, FS_EmptySet DEF Ledger
<1> QED BY <1>7, <1>8, <1>9, <1>10 DEF IInv, RInv

\* What an access to one LRU cache keeps.
AccessesOne(c, d, frames, E, R, R2, page, is_write, q) ==
  /\ LRUKeeps(c, Last(frames), Slots(frames), R) /\ Closed(c, Last(frames), E, R)
  /\ Ordered(q, E, R) /\ Latest(E, R, R2, page)
  /\ page \in Nat /\ is_write \in BOOLEAN /\ d = LRUAccess(c, page, is_write)
  /\ frames \in Nat /\ frames # 0

LEMMA AccessedOne ==
  ASSUME NEW c, NEW d, NEW frames, NEW E, NEW R, NEW R2, NEW page, NEW is_write, NEW q,
         AccessesOne(c, d, frames, E, R, R2, page, is_write, q)
  PROVE  /\ LRUKeeps(d, Last(frames), Slots(frames), R2)
         /\ Closed(d, Last(frames), Adding(E, page), R2)
         /\ LRUSteps(c, d, Last(frames), R, page, is_write)
         /\ LRUMoves(c, d, Last(frames), Slots(frames), E, R, R2, page, is_write)
         /\ Room(c, Last(frames)) /\ Room(d, Last(frames))
<1>1. /\ LRUKeeps(c, Last(frames), Slots(frames), R) /\ Closed(c, Last(frames), E, R)
      /\ Ordered(q, E, R) /\ Latest(E, R, R2, page)
      /\ page \in Nat /\ is_write \in BOOLEAN /\ d = LRUAccess(c, page, is_write)
      /\ frames \in Nat /\ frames # 0
  BY DEF AccessesOne
<1>2. PICK n \in Nat : n = Last(frames)
  BY <1>1 DEF Last
<1>3. PICK B \in Nat : B = Slots(frames)
  BY <1>1, TableSizeIs DEF Slots
<1>4. CachedPages(c) \subseteq E /\ E \subseteq Nat
  BY <1>1 DEF Closed, Ordered
<1>5. LRUAccesses(c, n, B, E, R, R2, page, is_write, d)
  BY <1>1, <1>2, <1>3, <1>4 DEF LRUAccesses
<1>6. LRUKeeps(d, n, B, R2) /\ LRUSteps(c, d, n, R, page, is_write)
  BY <1>5, LRUAccessIs
<1>7. LRUMoves(c, d, n, B, E, R, R2, page, is_write)
  BY <1>1, <1>2, <1>3, <1>4, <1>6 DEF LRUMoves
<1>8. Closed(d, n, Adding(E, page), R2)
  BY <1>1, <1>2, <1>7, ClosedStays
<1>9. Room(c, n) /\ Room(d, n)
  <2>1. LRUKeeps(c, n, B, R)
    BY <1>1, <1>2, <1>3
  <2> QED BY <1>6, <2>1, LRUKeepsIs
<1> QED BY <1>2, <1>3, <1>6, <1>7, <1>8, <1>9

LEMMA TraceItems ==
  ASSUME NEW op, NEW addr \in Addresses
  PROVE  /\ TraceItem(op, addr).page \in PageNumbers /\ TraceItem(op, addr).page \in Nat
         /\ TraceItem(op, addr).is_write \in BOOLEAN
<1>1. addr \in Nat
  BY AddressAssumption
<1>2. addr \div 4096 \in Nat
  BY <1>1
<1> QED BY <1>2 DEF TraceItem, PageNumbers

LEMMA AccessIs ==
  ASSUME NEW R, RInv(R), NEW op, NEW addr \in Addresses, Access(op, addr)
  PROVE  \E R2, page, is_write :
           /\ page \in PageNumbers /\ is_write \in BOOLEAN
           /\ trace' = [is_write |-> is_write, page |-> page]
           /\ LRUMoves(large, large', Last(LargeFrames), Slots(LargeFrames), Elements(recent),
                       R, R2, page, is_write)
           /\ CFLRUMoves(cflru, cflru', Last(LargeFrames), Slots(LargeFrames), WorkingCap,
                         Elements(recent), R, R2, page, is_write, recent, recent')
           /\ RInv(R2)'
<1>1. PICK page : page = TraceItem(op, addr).page
  OBVIOUS
<1>2. PICK is_write : is_write = TraceItem(op, addr).is_write
  OBVIOUS
<1>3. page \in PageNumbers /\ page \in Nat /\ is_write \in BOOLEAN
  BY <1>1, <1>2, TraceItems
<1>4. /\ small' = LRUAccess(small, page, is_write) /\ large' = LRUAccess(large, page, is_write)
      /\ cflru' = CFLRUAccess(cflru, page, is_write) /\ recent' = Used(recent, page)
  BY <1>1, <1>2 DEF Access
<1>5. PICK E : E = Elements(recent)
  OBVIOUS
<1>6. /\ Ordered(recent, E, R) /\ LRUKeeps(small, Last(SmallFrames), Slots(SmallFrames), R)
      /\ Closed(small, Last(SmallFrames), E, R)
      /\ LRUKeeps(large, Last(LargeFrames), Slots(LargeFrames), R)
      /\ Closed(large, Last(LargeFrames), E, R) /\ Ledger(small, large)
  BY <1>5 DEF RInv, LRUCache
<1>7. PICK R2 : Latest(E, R, R2, page) /\ Ordered(recent', Adding(E, page), R2)
  <2>1. \E R2 : Latest(E, R, R2, page) /\ Ordered(Used(recent, page), Adding(E, page), R2)
    BY <1>3, <1>6, LatestExists
  <2> QED BY <1>4, <2>1
<1>8. Elements(recent') = Adding(E, page)
  BY <1>7 DEF Ordered, Visits
<1>9. /\ LRUKeeps(small', Last(SmallFrames), Slots(SmallFrames), R2)
      /\ Closed(small', Last(SmallFrames), Adding(E, page), R2)
      /\ LRUSteps(small, small', Last(SmallFrames), R, page, is_write)
      /\ Room(small, Last(SmallFrames)) /\ Room(small', Last(SmallFrames))
  <2>1. AccessesOne(small, small', SmallFrames, E, R, R2, page, is_write, recent)
    BY <1>3, <1>4, <1>6, <1>7, SizesAre DEF AccessesOne
  <2> QED BY <2>1, AccessedOne
<1>10. /\ LRUKeeps(large', Last(LargeFrames), Slots(LargeFrames), R2)
       /\ Closed(large', Last(LargeFrames), Adding(E, page), R2)
       /\ LRUSteps(large, large', Last(LargeFrames), R, page, is_write)
       /\ LRUMoves(large, large', Last(LargeFrames), Slots(LargeFrames), E, R, R2, page, is_write)
       /\ Room(large, Last(LargeFrames)) /\ Room(large', Last(LargeFrames))
  <2>1. AccessesOne(large, large', LargeFrames, E, R, R2, page, is_write, recent)
    BY <1>3, <1>4, <1>6, <1>7, SizesAre DEF AccessesOne
  <2> QED BY <2>1, AccessedOne
<1>11. Ledger(small', large')
  <2>1. CachedPages(small') \subseteq CachedPages(large')
    BY <1>7, <1>9, <1>10, SizesAre, Included
  <2>2. BothAccess(small, small', Last(SmallFrames), large, large', Last(LargeFrames), E, R, R2,
                   page, is_write, recent)
    BY <1>3, <1>6, <1>7, <1>9, <1>10, <2>1, SizesAre DEF BothAccess
  <2> QED BY <1>6, <2>2, SizesAre, LedgerKept
<1>12. /\ CFLRUKeeps(cflru', Last(LargeFrames), Slots(LargeFrames), WorkingCap, R2)
       /\ CachedPages(cflru') \subseteq Adding(E, page)
       /\ CFLRUMoves(cflru, cflru', Last(LargeFrames), Slots(LargeFrames), WorkingCap,
                     E, R, R2, page, is_write, recent, recent')
  <2>1. /\ CFLRUKeeps(cflru, Last(LargeFrames), Slots(LargeFrames), WorkingCap, R)
        /\ CachedPages(cflru) \subseteq E
    BY <1>5 DEF RInv, CFLRUCache
  <2>2. CFLRUAccessed(cflru, cflru', Last(LargeFrames), Slots(LargeFrames), WorkingCap,
                      E, R, R2, page, is_write, recent, recent')
    BY <1>3, <1>4, <1>6, <1>7, <2>1, SizesAre DEF CFLRUAccessed
  <2> QED BY <2>2, SizesAre, AccessedCFLRU
<1>13. RInv(R2)'
  BY <1>7, <1>8, <1>9, <1>10, <1>11, <1>12 DEF RInv, LRUCache, CFLRUCache
<1>14. trace' = [is_write |-> is_write, page |-> page]
  BY <1>1, <1>2 DEF Access, TraceItem
<1> QED BY <1>3, <1>5, <1>10, <1>12, <1>13, <1>14

LEMMA StepHolds == IInv /\ [Next]_vars => IInv'
<1> SUFFICES ASSUME IInv, [Next]_vars PROVE IInv'
  OBVIOUS
<1>1. PICK R : RInv(R)
  BY DEF IInv
<1>2. CASE Next
  <2>1. PICK op \in {"R", "W"}, addr \in Addresses : Access(op, addr)
    BY <1>2 DEF Next
  <2>2. \E R2 : RInv(R2)'
    BY <1>1, <2>1, AccessIs
  <2> QED BY <2>2 DEF IInv
<1>3. CASE UNCHANGED vars
  <2>1. RInv(R)'
    BY <1>1, <1>3 DEF vars, RInv, LRUCache, CFLRUCache
  <2> QED BY <2>1 DEF IInv
<1> QED BY <1>2, <1>3 DEF Next

\* On every trace and with any numbers of frames, the lists, tables and free
\* nodes of the three caches are in order, an LRU cache holds the pages used
\* last, the lists of the CFLRU cache keep their order, their kinds and their
\* sizes, and the larger LRU cache has never hit less often nor written back
\* more often.
THEOREM Invariance == Spec => []IInv
BY InitHolds, StepHolds, PTL DEF Spec

LEMMA IInvIncludes == IInv => Inclusion
<1> SUFFICES ASSUME IInv PROVE Inclusion
  OBVIOUS
<1>1. PICK R : RInv(R)
  BY DEF IInv
<1>2. /\ Ordered(recent, Elements(recent), R) /\ Ledger(small, large)
      /\ LRUKeeps(small, Last(SmallFrames), Slots(SmallFrames), R)
      /\ Closed(small, Last(SmallFrames), Elements(recent), R)
      /\ LRUKeeps(large, Last(LargeFrames), Slots(LargeFrames), R)
      /\ Closed(large, Last(LargeFrames), Elements(recent), R)
  BY <1>1 DEF RInv, LRUCache
<1>3. Room(small, Last(SmallFrames)) /\ Room(large, Last(LargeFrames))
  BY <1>2, SizesAre, LRUKeepsIs
<1>4. CachedPages(small) \subseteq CachedPages(large)
  BY <1>2, <1>3, SizesAre, Included
<1>5. small.write_back >= large.write_back
  <2>1. PICK X : X = DirtyPages(large) \ DirtyPages(small)
    OBVIOUS
  <2>2. X \subseteq CachedPages(large) /\ IsFiniteSet(CachedPages(large))
    BY <1>3, <2>1 DEF Room
  <2>3. Cardinality(X) \in Nat
    BY <2>2, Smaller
  <2>4. small.write_back \in Nat /\ large.write_back \in Nat
    BY <1>3 DEF Room
  <2>5. small.write_back >= large.write_back + Cardinality(X)
    BY <1>2, <2>1 DEF Ledger
  <2> QED BY <2>3, <2>4, <2>5
<1> QED BY <1>2, <1>4, <1>5 DEF Inclusion, Ledger

\* On every trace the larger LRU cache holds what the smaller one does, hits
\* at least as often and writes back at most as often.
THEOREM MoreFramesNeverHurt == Spec => []Inclusion
BY Invariance, IInvIncludes, PTL

---------------------------------------------------------------------------
(* The LRU cache implements the replacement of pages.                      *)

LEMMA LRURecency ==
  ASSUME NEW s, NEW page
  PROVE  /\ LRU!Elements(s) = Elements(s)
         /\ LRU!Without(s, page) = Without(s, page)
         /\ LRU!Used(s, page) = Used(s, page)
<1>1. LRU!Elements(s) = Elements(s)
  BY DEF LRU!Elements, Elements
<1>2. LRU!Without(s, page) = Without(s, page)
  BY <1>1 DEF LRU!Without, LRU!Among, Without, Among
<1>3. LRU!Used(s, page) = Used(s, page)
  BY <1>2 DEF LRU!Used, Used
<1> QED BY <1>1, <1>2, <1>3

LEMMA LRUInitIs == Init => LRU!Init
<1> SUFFICES ASSUME Init PROVE LRU!Init
  OBVIOUS
<1>1. PICK R : R = [p \in Nat |-> 0]
  OBVIOUS
<1>2. R \in [Nat -> Int]
  BY <1>1
<1>3. /\ LRUKeeps(large, Last(LargeFrames), Slots(LargeFrames), R)
      /\ CachedPages(large) = {} /\ DirtyPages(large) = {}
      /\ large.hit = 0 /\ large.miss = 0 /\ large.write_back = 0
  BY <1>2, SizesAre, LRUNewKeeps DEF Init, Last, Slots
<1>4. Visits(Pages(large, large.head), {}, R)
  <2>1. Visits(Pages(large, large.head), CachedPages(large), R)
    <3>1. LRUKeeps(large, Last(LargeFrames), Slots(LargeFrames), R)
      BY <1>3
    <3>2. Last(LargeFrames) \in Nat /\ Slots(LargeFrames) \in Nat
      BY SizesAre
    <3> QED BY <3>1, <3>2, LRUKeepsIs
  <2> QED BY <1>3, <2>1
<1>5. Pages(large, large.head) = <<>>
  <2>1. PICK s : s = Pages(large, large.head)
    OBVIOUS
  <2>2. s \in Seq({})
    BY <1>4, <2>1 DEF Visits
  <2>3. s = <<>>
    BY <2>2
  <2> QED BY <2>1, <2>3
<1> QED BY <1>3, <1>5 DEF Init, LRU!Init

LEMMA LRUStepIs ==
  ASSUME NEW n \in Nat, NEW B \in Nat, NEW E, NEW R, NEW R2, NEW page, NEW is_write,
         n = Last(LargeFrames), page \in PageNumbers, is_write \in BOOLEAN,
         trace' = [is_write |-> is_write, page |-> page],
         LRUMoves(large, large', n, B, E, R, R2, page, is_write)
  PROVE  LRU!Next
<1>1. PICK s : s = Pages(large, large.head)
  OBVIOUS
<1>2. PICK s2 : s2 = Pages(large', large'.head)
  OBVIOUS
<1>3. /\ Elements(s) = CachedPages(large)
      /\ \/ Hits(large, large', page, is_write) /\ s2 = Used(s, page)
         \/ /\ Misses(large, large', page) /\ FillsPage(large, large', page, is_write)
            /\ Len(s) < n + 1 /\ s2 = Led(page, s)
         \/ /\ Misses(large, large', page) /\ Len(s) = n + 1
            /\ SwapsPage(large, large', page, is_write, s[n + 1])
            /\ s2 = Led(page, Without(s, s[n + 1]))
  BY <1>1, <1>2, LRUMovesIs
<1>4. n + 1 = LargeFrames /\ LargeFrames \in Nat
  BY SizesAre DEF Last
<1>5. CASE Hits(large, large', page, is_write) /\ s2 = Used(s, page)
  <2>1. LRU!Hit(page, is_write)
    <3>1. large'.hit = large.hit + 1
      BY <1>5 DEF Hits
    <3>2. UNCHANGED <<large.miss, large.write_back>>
      BY <1>5 DEF Hits
    <3>3. page \in LRU!Elements(Pages(large, large.head))
      BY <1>1, <1>3, <1>5, LRURecency DEF Hits
    <3>4. Pages(large, large.head)' = LRU!Used(Pages(large, large.head), page)
      BY LRURecency, <1>1, <1>2, <1>5
    <3>5. DirtyPages(large)' = LRU!Mark(DirtyPages(large), page, is_write)
      BY <1>5 DEF Hits, LRU!Mark, Written
    <3> QED BY <3>1, <3>2, <3>3, <3>4, <3>5 DEF LRU!Hit
  <2> QED BY <2>1 DEF LRU!Next
<1>6. CASE /\ Misses(large, large', page) /\ FillsPage(large, large', page, is_write)
           /\ Len(s) < n + 1 /\ s2 = Led(page, s)
  <2>1. LRU!Fill(page, is_write)
    <3>1. large'.miss = large.miss + 1
      BY <1>6 DEF Misses
    <3>2. UNCHANGED <<large.hit, large.write_back>>
      BY <1>6 DEF Misses, FillsPage, Fills
    <3>3. page \notin LRU!Elements(Pages(large, large.head))
      BY LRURecency, <1>1, <1>3, <1>6 DEF Misses
    <3>4. Len(Pages(large, large.head)) < LargeFrames
      BY <1>1, <1>4, <1>6
    <3>5. Pages(large, large.head)' = <<page>> \o Pages(large, large.head)
      BY <1>1, <1>2, <1>6 DEF Led
    <3>6. DirtyPages(large)' = LRU!Mark(DirtyPages(large), page, is_write)
      BY <1>6 DEF FillsPage, Fills, LRU!Mark, Written
    <3> QED BY <3>1, <3>2, <3>3, <3>4, <3>5, <3>6 DEF LRU!Fill
  <2> QED BY <2>1 DEF LRU!Next
<1>7. CASE /\ Misses(large, large', page) /\ Len(s) = n + 1
           /\ SwapsPage(large, large', page, is_write, s[n + 1])
           /\ s2 = Led(page, Without(s, s[n + 1]))
  <2>1. PICK victim : victim = s[LargeFrames]
    OBVIOUS
  <2>2. LRU!Victim(s, DirtyPages(large)) = victim
    <3> DEFINE clean == {k \in (LargeFrames - 1 + 1)..LargeFrames : s[k] \notin DirtyPages(large)}
    <3>1. clean = {} \/ clean = {LargeFrames}
      BY <1>4
    <3>2. CASE clean = {}
      BY <2>1, <3>2 DEF LRU!Victim
    <3>3. CASE clean = {LargeFrames}
      <4>1. (CHOOSE k \in clean : \A m \in clean : m <= k) = LargeFrames
        BY <1>4, <3>3
      <4> QED BY <2>1, <3>3, <4>1 DEF LRU!Victim
    <3> QED BY <3>1, <3>2, <3>3
  <2>3. /\ Misses(large, large', page) /\ SwapsPage(large, large', page, is_write, victim)
        /\ s2 = Led(page, Without(s, victim)) /\ Len(s) = LargeFrames
    BY <1>4, <1>7, <2>1
  <2>4. LRU!Replace(page, is_write)
    <3>1. large'.miss = large.miss + 1
      BY <2>3 DEF Misses
    <3>2. UNCHANGED large.hit
      BY <2>3 DEF Misses
    <3>3. page \notin LRU!Elements(Pages(large, large.head))
      BY LRURecency, <1>1, <1>3, <2>3 DEF Misses
    <3>4. Len(Pages(large, large.head)) = LargeFrames
      BY <1>1, <2>3
    <3>5. Pages(large, large.head)' = <<page>> \o LRU!Without(Pages(large, large.head), victim)
      BY LRURecency, <1>1, <1>2, <2>3 DEF Led
    <3>6. DirtyPages(large)' = LRU!Mark(DirtyPages(large) \ {victim}, page, is_write)
      BY <2>3 DEF SwapsPage, Swaps, LRU!Mark, Written, Dropping
    <3>7. large'.write_back = large.write_back + IF victim \in DirtyPages(large) THEN 1 ELSE 0
      BY <2>3 DEF SwapsPage, Swaps
    <3>8. LRU!Victim(Pages(large, large.head), DirtyPages(large)) = victim
      BY <1>1, <2>2
    <3> QED BY <3>1, <3>2, <3>3, <3>4, <3>5, <3>6, <3>7, <3>8 DEF LRU!Replace
  <2> QED BY <2>4 DEF LRU!Next
<1> QED BY <1>3, <1>5, <1>6, <1>7

LEMMA LRURefines == IInv /\ [Next]_vars => [LRU!Next]_(LRU!vars)
<1> SUFFICES ASSUME IInv, [Next]_vars PROVE [LRU!Next]_(LRU!vars)
  OBVIOUS
<1>1. PICK R : RInv(R)
  BY DEF IInv
<1>2. CASE Next
  <2>1. PICK op \in {"R", "W"}, addr \in Addresses : Access(op, addr)
    BY <1>2 DEF Next
  <2>2. PICK R2, page, is_write :
           /\ page \in PageNumbers /\ is_write \in BOOLEAN
           /\ trace' = [is_write |-> is_write, page |-> page]
           /\ LRUMoves(large, large', Last(LargeFrames), Slots(LargeFrames), Elements(recent),
                       R, R2, page, is_write)
    BY <1>1, <2>1, AccessIs
  <2>3. LRU!Next
    BY <2>2, SizesAre, LRUStepIs
  <2> QED BY <2>3
<1>3. CASE UNCHANGED vars
  <2>1. UNCHANGED <<trace, large>>
    BY <1>3 DEF vars
  <2> QED BY <2>1 DEF LRU!vars
<1> QED BY <1>2, <1>3

\* With all its nodes, links, buckets and counters the LRU cache does no more
\* than replace the least recently used page of a full list.
THEOREM LRUImplementsReplacement == Spec => LRUReplaces
<1>1. Init /\ [][Next]_vars => []IInv
  BY Invariance DEF Spec
<1> QED BY <1>1, LRUInitIs, LRURefines, PTL DEF Spec, LRUReplaces, LRU!Spec

---------------------------------------------------------------------------
(* The CFLRU cache implements the replacement of pages.                    *)

LEMMA CFLRURecency ==
  ASSUME NEW s, NEW page
  PROVE  /\ CFLRU!Elements(s) = Elements(s)
         /\ CFLRU!Without(s, page) = Without(s, page)
         /\ CFLRU!Used(s, page) = Used(s, page)
<1>1. CFLRU!Elements(s) = Elements(s)
  BY DEF CFLRU!Elements, Elements
<1>2. CFLRU!Without(s, page) = Without(s, page)
  BY <1>1 DEF CFLRU!Without, CFLRU!Among, Without, Among
<1>3. CFLRU!Used(s, page) = Used(s, page)
  BY <1>2 DEF CFLRU!Used, Used
<1> QED BY <1>1, <1>2, <1>3

LEMMA CFLRUInitIs == Init => CFLRU!Init
<1> SUFFICES ASSUME Init PROVE CFLRU!Init
  OBVIOUS
<1>1. PICK R : R = [p \in Nat |-> 0]
  OBVIOUS
<1>2. R \in [Nat -> Int]
  BY <1>1
<1>3. /\ CachedPages(cflru) = {} /\ DirtyPages(cflru) = {}
      /\ cflru.hit = 0 /\ cflru.miss = 0 /\ cflru.write_back = 0
  <2>1. cflru = CFLRUNew(LargeFrames, WorkingCap)
    BY DEF Init
  <2>2. LargeFrames \in Nat /\ LargeFrames # 0 /\ WorkingCap \in Nat
    BY SizesAre
  <2> QED BY <1>2, <2>1, <2>2, CFLRUNewKeeps
<1>4. recent = <<>> /\ Elements(recent) = {}
  BY DEF Init, Elements
<1>5. Ordered(recent, {}, R)
  <2>1. Visits(<<>>, {}, R)
    BY DEF Visits, Elements
  <2> QED BY <1>2, <1>4, <2>1 DEF Ordered
<1>6. Among(recent, CachedPages(cflru)) = <<>>
  <2>1. PICK s : s = Among(recent, {})
    OBVIOUS
  <2>2. Visits(s, {}, R)
    BY <1>5, <2>1, AmongOrdered
  <2>3. s \in Seq({})
    BY <2>2 DEF Visits
  <2>4. s = <<>>
    BY <2>3
  <2> QED BY <1>3, <2>1, <2>4
<1> QED BY <1>3, <1>6 DEF Init, CFLRU!Init

LEMMA TheGreatest ==
  ASSUME NEW S, S \subseteq Int, NEW last \in S, \A m \in S : m <= last
  PROVE  (CHOOSE k \in S : \A m \in S : m <= k) = last
<1> DEFINE x == CHOOSE k \in S : \A m \in S : m <= k
<1>1. \E k \in S : \A m \in S : m <= k
  OBVIOUS
<1>2. x \in S /\ \A m \in S : m <= x
  BY <1>1, Zenon
<1> HIDE DEF x
<1>3. x <= last /\ last <= x /\ x \in Int /\ last \in Int
  BY <1>2
<1>4. x = last
  BY <1>3
<1> QED BY <1>4 DEF x

\* The page that falls from a full list is the one given up.
LEMMA CFLRUVictim ==
  ASSUME NEW s, NEW D, NEW old, Fallen(s, D, WorkingCap, LargeFrames, old)
  PROVE  CFLRU!Victim(s, D) = old
<1>1. WorkingCap \in Nat /\ LargeFrames \in Nat /\ WorkingCap < LargeFrames
  BY SizesAre DEF Last
<1> DEFINE clean == {k \in (LargeFrames - (LargeFrames - WorkingCap) + 1)..LargeFrames :
                     s[k] \notin D}
<1>2. /\ \A k \in clean : k \in (WorkingCap + 1)..LargeFrames /\ s[k] \notin D
      /\ \A k \in (WorkingCap + 1)..LargeFrames : s[k] \notin D => k \in clean
  BY <1>1
<1>3. CASE /\ \A k \in (WorkingCap + 1)..LargeFrames : s[k] \in D
           /\ old = s[LargeFrames]
  <2>1. clean = {}
    BY <1>2, <1>3
  <2> QED BY <1>3, <2>1 DEF CFLRU!Victim
<1>4. ASSUME NEW last \in (WorkingCap + 1)..LargeFrames, s[last] \notin D, old = s[last],
             \A k \in (WorkingCap + 1)..LargeFrames : s[k] \notin D => k <= last
      PROVE  CFLRU!Victim(s, D) = old
  <2>1. last \in clean /\ clean # {} /\ (\A m \in clean : m <= last) /\ clean \subseteq Int
    BY <1>1, <1>2, <1>4
  <2>2. (CHOOSE k \in clean : \A m \in clean : m <= k) = last
    BY <2>1, TheGreatest
  <2> QED BY <1>4, <2>1, <2>2 DEF CFLRU!Victim
<1> QED BY <1>3, <1>4 DEF Fallen

LEMMA CFLRUStepIs ==
  ASSUME NEW n \in Nat, NEW B \in Nat, NEW E, NEW R, NEW R2, NEW page, NEW is_write,
         n = Last(LargeFrames), page \in PageNumbers, is_write \in BOOLEAN,
         trace' = [is_write |-> is_write, page |-> page],
         CFLRUMoves(cflru, cflru', n, B, WorkingCap, E, R, R2, page, is_write, recent, recent')
  PROVE  CFLRU!Next
<1>1. PICK s : s = Among(recent, CachedPages(cflru))
  OBVIOUS
<1>2. PICK s2 : s2 = Among(recent', CachedPages(cflru'))
  OBVIOUS
<1>3. /\ Elements(s) = CachedPages(cflru)
      /\ \/ Hits(cflru, cflru', page, is_write) /\ s2 = Used(s, page)
         \/ /\ Misses(cflru, cflru', page) /\ FillsPage(cflru, cflru', page, is_write)
            /\ Len(s) < n + 1 /\ s2 = Led(page, s)
         \/ /\ Misses(cflru, cflru', page) /\ Len(s) = n + 1
            /\ \E old : /\ SwapsPage(cflru, cflru', page, is_write, old)
                        /\ Fallen(s, DirtyPages(cflru), WorkingCap, n + 1, old)
                        /\ s2 = Led(page, Without(s, old))
  BY <1>1, <1>2, CFLRUMovesIs
<1>4. n + 1 = LargeFrames /\ LargeFrames \in Nat
  BY SizesAre DEF Last
<1>5. CASE Hits(cflru, cflru', page, is_write) /\ s2 = Used(s, page)
  <2>1. CFLRU!Hit(page, is_write)
    <3>1. cflru'.hit = cflru.hit + 1
      BY <1>5 DEF Hits
    <3>2. UNCHANGED <<cflru.miss, cflru.write_back>>
      BY <1>5 DEF Hits
    <3>3. page \in CFLRU!Elements(Among(recent, CachedPages(cflru)))
      BY <1>1, <1>3, <1>5, CFLRURecency DEF Hits
    <3>4. Among(recent, CachedPages(cflru))'
          = CFLRU!Used(Among(recent, CachedPages(cflru)), page)
      BY CFLRURecency, <1>1, <1>2, <1>5
    <3>5. DirtyPages(cflru)' = CFLRU!Mark(DirtyPages(cflru), page, is_write)
      BY <1>5 DEF Hits, CFLRU!Mark, Written
    <3> QED BY <3>1, <3>2, <3>3, <3>4, <3>5 DEF CFLRU!Hit
  <2> QED BY <2>1 DEF CFLRU!Next
<1>6. CASE /\ Misses(cflru, cflru', page) /\ FillsPage(cflru, cflru', page, is_write)
           /\ Len(s) < n + 1 /\ s2 = Led(page, s)
  <2>1. CFLRU!Fill(page, is_write)
    <3>1. cflru'.miss = cflru.miss + 1
      BY <1>6 DEF Misses
    <3>2. UNCHANGED <<cflru.hit, cflru.write_back>>
      BY <1>6 DEF Misses, FillsPage, Fills
    <3>3. page \notin CFLRU!Elements(Among(recent, CachedPages(cflru)))
      BY CFLRURecency, <1>1, <1>3, <1>6 DEF Misses
    <3>4. Len(Among(recent, CachedPages(cflru))) < LargeFrames
      BY <1>1, <1>4, <1>6
    <3>5. Among(recent, CachedPages(cflru))' = <<page>> \o Among(recent, CachedPages(cflru))
      BY <1>1, <1>2, <1>6 DEF Led
    <3>6. DirtyPages(cflru)' = CFLRU!Mark(DirtyPages(cflru), page, is_write)
      BY <1>6 DEF FillsPage, Fills, CFLRU!Mark, Written
    <3> QED BY <3>1, <3>2, <3>3, <3>4, <3>5, <3>6 DEF CFLRU!Fill
  <2> QED BY <2>1 DEF CFLRU!Next
<1>7. CASE /\ Misses(cflru, cflru', page) /\ Len(s) = n + 1
           /\ \E old : /\ SwapsPage(cflru, cflru', page, is_write, old)
                       /\ Fallen(s, DirtyPages(cflru), WorkingCap, n + 1, old)
                       /\ s2 = Led(page, Without(s, old))
  <2>1. PICK victim : /\ SwapsPage(cflru, cflru', page, is_write, victim)
                      /\ Fallen(s, DirtyPages(cflru), WorkingCap, LargeFrames, victim)
                      /\ s2 = Led(page, Without(s, victim))
    BY <1>4, <1>7
  <2>2. CFLRU!Victim(s, DirtyPages(cflru)) = victim
    BY <2>1, CFLRUVictim
  <2>3. Misses(cflru, cflru', page) /\ Len(s) = LargeFrames
    BY <1>4, <1>7
  <2>4. CFLRU!Replace(page, is_write)
    <3>1. cflru'.miss = cflru.miss + 1
      BY <2>3 DEF Misses
    <3>2. UNCHANGED cflru.hit
      BY <2>3 DEF Misses
    <3>3. page \notin CFLRU!Elements(Among(recent, CachedPages(cflru)))
      BY CFLRURecency, <1>1, <1>3, <2>3 DEF Misses
    <3>4. Len(Among(recent, CachedPages(cflru))) = LargeFrames
      BY <1>1, <2>3
    <3>5. Among(recent, CachedPages(cflru))'
          = <<page>> \o CFLRU!Without(Among(recent, CachedPages(cflru)), victim)
      BY CFLRURecency, <1>1, <1>2, <2>1 DEF Led
    <3>6. DirtyPages(cflru)' = CFLRU!Mark(DirtyPages(cflru) \ {victim}, page, is_write)
      BY <2>1 DEF SwapsPage, Swaps, CFLRU!Mark, Written, Dropping
    <3>7. cflru'.write_back = cflru.write_back + IF victim \in DirtyPages(cflru) THEN 1 ELSE 0
      BY <2>1 DEF SwapsPage, Swaps
    <3>8. CFLRU!Victim(Among(recent, CachedPages(cflru)), DirtyPages(cflru)) = victim
      BY <1>1, <2>2
    <3> QED BY <3>1, <3>2, <3>3, <3>4, <3>5, <3>6, <3>7, <3>8 DEF CFLRU!Replace
  <2> QED BY <2>4 DEF CFLRU!Next
<1> QED BY <1>3, <1>5, <1>6, <1>7

LEMMA CFLRURefines == IInv /\ [Next]_vars => [CFLRU!Next]_(CFLRU!vars)
<1> SUFFICES ASSUME IInv, [Next]_vars PROVE [CFLRU!Next]_(CFLRU!vars)
  OBVIOUS
<1>1. PICK R : RInv(R)
  BY DEF IInv
<1>2. CASE Next
  <2>1. PICK op \in {"R", "W"}, addr \in Addresses : Access(op, addr)
    BY <1>2 DEF Next
  <2>2. PICK R2, page, is_write :
           /\ page \in PageNumbers /\ is_write \in BOOLEAN
           /\ trace' = [is_write |-> is_write, page |-> page]
           /\ CFLRUMoves(cflru, cflru', Last(LargeFrames), Slots(LargeFrames), WorkingCap,
                         Elements(recent), R, R2, page, is_write, recent, recent')
    BY <1>1, <2>1, AccessIs
  <2>3. CFLRU!Next
    BY <2>2, SizesAre, CFLRUStepIs
  <2> QED BY <2>3
<1>3. CASE UNCHANGED vars
  <2>1. UNCHANGED <<trace, cflru, recent>>
    BY <1>3 DEF vars
  <2> QED BY <2>1 DEF CFLRU!vars
<1> QED BY <1>2, <1>3

\* Although the pages of a CFLRU cache wander between three lists, it does no
\* more than replace pages of a full list: the least recently used clean page
\* of the clean-first region, or the least recently used of all.
THEOREM CFLRUImplementsReplacement == Spec => CFLRUReplaces
<1>1. Init /\ [][Next]_vars => []IInv
  BY Invariance DEF Spec
<1> QED BY <1>1, CFLRUInitIs, CFLRURefines, PTL DEF Spec, CFLRUReplaces, CFLRU!Spec
=============================================================================
