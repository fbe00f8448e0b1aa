---------------------------- MODULE TarFSProofs ----------------------------
(***************************************************************************)
(* HW6, for archives of every length, any names and sizes and every size   *)
(* of a block: what is served is what the archive holds.                   *)
(***************************************************************************)
EXTENDS TarFS, Iteration, FiniteSetTheorems, SequenceTheorems

\* The parts of the paths of archives.
Parts == UNION {ToSet(p) : p \in Paths}

Types == {"dir", "file", "link", "other"}

Node ==
  [name   : Parts \cup {"/"},
   type   : Types,
   size   : Nat,
   mode   : {<<>>} \cup (Types \X ({"0755"} \cup Nat)),
   meta   : {"uninitialised"} \cup Nat,
   offset : Nat,
   link   : {<<>>} \cup ({"target"} \X Nat),
   childs : Seq(Nat)]

\* All of a node but its childs.
Attr(node) ==
  <<node.name, node.type, node.size, node.mode, node.meta, node.offset, node.link>>

\* Node c is on the path of n and its own name.
Follows(t, w, n, c) == w[c] = Append(w[n], t[c].name)

\* The childs of n are one part further on, each once.
HasChilds(t, w, n) ==
  /\ t[n].childs \in Seq(DOMAIN t)
  /\ \A i, j \in DOMAIN t[n].childs : t[n].childs[i] = t[n].childs[j] => i = j
  /\ \A i \in DOMAIN t[n].childs : Follows(t, w, n, t[n].childs[i])

HasParent(t, c) ==
  /\ t[c].name \in Parts
  /\ \E n \in DOMAIN t : \E i \in DOMAIN t[n].childs : t[n].childs[i] = c

(* A tree in terms of the function w that gives every node its path, which *)
(* no other node has.                                                      *)
IsTree(t, w) ==
  /\ t \in Seq(Node) /\ t # <<>>
  /\ w \in [DOMAIN t -> Seq(Parts)]
  /\ w[Root] = <<>>
  /\ \A m, n \in DOMAIN t : w[m] = w[n] => m = n
  /\ \A n \in DOMAIN t : HasChilds(t, w, n)
  /\ \A c \in DOMAIN t \ {Root} : HasParent(t, c)

LEMMA TreeDomain ==
  ASSUME NEW t, NEW w, IsTree(t, w)
  PROVE  /\ Len(t) \in Nat \ {0} /\ DOMAIN t = 1..Len(t) /\ Root \in DOMAIN t
         /\ NULL \notin DOMAIN t /\ Len(t) + 1 \notin DOMAIN t
         /\ \A n \in DOMAIN t : t[n] \in Node /\ n \in Nat
<1>1. t \in Seq(Node) /\ t # <<>>
  BY DEF IsTree
<1>2. Len(t) \in Nat \ {0} /\ DOMAIN t = 1..Len(t) /\ \A n \in 1..Len(t) : t[n] \in Node
  BY <1>1, EmptySeq, LenProperties, ElementOfSeq
<1> QED BY <1>2 DEF Root, NULL

LEMMA AppendParts ==
  ASSUME NEW S, NEW s \in Seq(S), NEW a \in S
  PROVE  /\ Append(s, a) \in Seq(S) /\ Append(s, a) # <<>> /\ Len(Append(s, a)) = Len(s) + 1
         /\ DOMAIN Append(s, a) = DOMAIN s \cup {Len(s) + 1} /\ Len(s) + 1 \notin DOMAIN s
         /\ Append(s, a)[Len(s) + 1] = a
         /\ \A i \in DOMAIN s : Append(s, a)[i] = s[i]
OBVIOUS

\* The path of a node leads through its parent.
LEMMA ParentPath ==
  ASSUME NEW t, NEW w, IsTree(t, w), NEW c \in DOMAIN t, NEW q \in Seq(Parts),
         NEW name \in Parts, w[c] = Append(q, name)
  PROVE  /\ t[c].name = name /\ c # Root
         /\ \E n \in DOMAIN t : w[n] = q /\ \E i \in DOMAIN t[n].childs : t[n].childs[i] = c
<1>1. c # Root
  BY AppendParts DEF IsTree
<1>2. PICK n \in DOMAIN t : \E i \in DOMAIN t[n].childs : t[n].childs[i] = c
  BY <1>1 DEF IsTree, HasParent
<1>3. w[c] = Append(w[n], t[c].name)
  <2>1. HasChilds(t, w, n)
    BY DEF IsTree
  <2> QED BY <1>2, <2>1 DEF HasChilds, Follows
<1>4. w[n] \in Seq(Parts) /\ t[c].name \in Parts
  BY <1>1 DEF IsTree, HasParent
<1>5. w[n] = q /\ t[c].name = name
  <2>1. Append(w[n], t[c].name) = Append(q, name)
    BY <1>3
  <2> QED BY <1>4, <2>1, AppendInjective
<1> QED BY <1>1, <1>2, <1>5

\* Child finds the node that is one part further on, if there is one.
LEMMA ChildIs ==
  ASSUME NEW t, NEW w, IsTree(t, w), NEW n \in DOMAIN t, NEW name \in Parts
  PROVE  LET c == Child(t, n, name)
             q == Append(w[n], name)
         IN IF \E x \in DOMAIN t : w[x] = q
            THEN c \in DOMAIN t /\ c # Root /\ w[c] = q /\ t[c].name = name
            ELSE c = NULL
<1> DEFINE found == {k \in DOMAIN t[n].childs : t[t[n].childs[k]].name = name}
           c == Child(t, n, name)
           q == Append(w[n], name)
<1>1. c = IF found = {} THEN NULL ELSE t[n].childs[Min(found)]
  BY DEF Child
<1>2. /\ w[n] \in Seq(Parts) /\ HasChilds(t, w, n)
      /\ \A m, x \in DOMAIN t : w[m] = w[x] => m = x
      /\ \A i \in DOMAIN t[n].childs : t[n].childs[i] \in DOMAIN t
      /\ DOMAIN t[n].childs \in SUBSET Nat
  <2>1. HasChilds(t, w, n) /\ w[n] \in Seq(Parts)
    BY DEF IsTree
  <2>2. t[n].childs \in Seq(DOMAIN t)
    BY <2>1 DEF HasChilds
  <2>3. \A m, x \in DOMAIN t : w[m] = w[x] => m = x
    BY DEF IsTree
  <2> QED BY <2>1, <2>2, <2>3
<1>3. CASE \E x \in DOMAIN t : w[x] = q
  <2>1. PICK x \in DOMAIN t : w[x] = q
    BY <1>3
  <2>2. t[x].name = name /\ x # Root
    BY <1>2, <2>1, ParentPath
  <2>3. PICK m \in DOMAIN t : w[m] = w[n] /\ \E i \in DOMAIN t[m].childs : t[m].childs[i] = x
    BY <1>2, <2>1, ParentPath
  <2>4. PICK i \in DOMAIN t[n].childs : t[n].childs[i] = x
    BY <1>2, <2>3
  <2>5. i \in found
    BY <2>2, <2>4
  <2>6. \A k \in found : t[n].childs[k] = x
    <3> SUFFICES ASSUME NEW k \in found PROVE t[n].childs[k] = x
      OBVIOUS
    <3>1. k \in DOMAIN t[n].childs /\ t[t[n].childs[k]].name = name /\ t[n].childs[k] \in DOMAIN t
      BY <1>2
    <3>2. w[t[n].childs[k]] = q
      BY <1>2, <3>1 DEF HasChilds, Follows
    <3> QED BY <1>2, <2>1, <3>1, <3>2
  <2>7. found \in SUBSET Nat
    BY <1>2
  <2>8. Min(found) \in found
    <3> HIDE DEF found
    <3> QED BY <2>5, <2>7, MinOf
  <2>9. c = x
    <3> HIDE DEF found
    <3> QED BY <1>1, <2>5, <2>6, <2>8
  <2> HIDE DEF c
  <2> QED BY <1>3, <2>1, <2>2, <2>9 DEF c
<1>4. CASE ~ \E x \in DOMAIN t : w[x] = q
  <2>1. found = {}
    <3> SUFFICES ASSUME NEW k \in found PROVE FALSE
      OBVIOUS
    <3>1. k \in DOMAIN t[n].childs /\ t[t[n].childs[k]].name = name /\ t[n].childs[k] \in DOMAIN t
      BY <1>2
    <3>2. w[t[n].childs[k]] = q
      BY <1>2, <3>1 DEF HasChilds, Follows
    <3> QED BY <1>4, <3>1, <3>2
  <2> QED BY <1>1, <1>4, <2>1
<1> QED BY <1>3, <1>4

\* t2 is t with one more node at its end, at path q.
AddPath(t, w, q) == [m \in 1..(Len(t) + 1) |-> IF m \in DOMAIN t THEN w[m] ELSE q]

HasAdded(t, w, q, node, t2) ==
  /\ IsTree(t2, AddPath(t, w, q))
  /\ DOMAIN t2 = DOMAIN t \cup {Len(t) + 1}
  /\ \A m \in DOMAIN t : Attr(t2[m]) = Attr(t[m])
  /\ t2[Len(t) + 1] = node

\* A node that no other has the path of becomes a child.
LEMMA AddTree ==
  ASSUME NEW t, NEW w, IsTree(t, w), NEW n \in DOMAIN t,
         NEW node \in Node, node.childs = <<>>, node.name \in Parts,
         \A c \in DOMAIN t : w[c] # Append(w[n], node.name)
  PROVE  HasAdded(t, w, Append(w[n], node.name), node, AddChild(t, n, node))
<1> DEFINE new == Len(t) + 1
           q   == Append(w[n], node.name)
           kids == Append(t[n].childs, new)
           t1  == [t EXCEPT ![n].childs = Append(@, Len(t) + 1)]
           t2  == AddChild(t, n, node)
           w2  == [m \in 1..(Len(t) + 1) |-> IF m \in DOMAIN t THEN w[m] ELSE q]
<1>1. /\ Len(t) \in Nat \ {0} /\ DOMAIN t = 1..Len(t) /\ Root \in DOMAIN t
      /\ new \notin DOMAIN t /\ new \in Nat /\ 1..new = DOMAIN t \cup {new}
      /\ \A m \in DOMAIN t : t[m] \in Node /\ m \in Nat
      /\ new # Root
  BY TreeDomain DEF Root
<1>2. /\ t \in Seq(Node) /\ w \in [DOMAIN t -> Seq(Parts)] /\ w[Root] = <<>>
      /\ \A m, x \in DOMAIN t : w[m] = w[x] => m = x
      /\ \A m \in DOMAIN t : HasChilds(t, w, m)
      /\ \A c \in DOMAIN t \ {Root} : HasParent(t, c)
  BY DEF IsTree
<1>3. /\ kids \in Seq(DOMAIN t \cup {new}) /\ kids \in Seq(Nat)
      /\ DOMAIN kids = DOMAIN t[n].childs \cup {Len(t[n].childs) + 1}
      /\ Len(t[n].childs) + 1 \notin DOMAIN t[n].childs
      /\ kids[Len(t[n].childs) + 1] = new
      /\ \A i \in DOMAIN t[n].childs : kids[i] = t[n].childs[i] /\ kids[i] \in DOMAIN t
  <2>1. t[n].childs \in Seq(DOMAIN t)
    BY <1>2 DEF HasChilds
  <2>2. DOMAIN t \subseteq DOMAIN t \cup {new} /\ DOMAIN t \cup {new} \subseteq Nat
    BY <1>1
  <2>3. t[n].childs \in Seq(DOMAIN t \cup {new})
    BY <2>1, <2>2, SeqMonotonic
  <2>4. kids \in Seq(DOMAIN t \cup {new})
    BY <2>3, AppendParts
  <2>5. kids \in Seq(Nat)
    BY <2>2, <2>4, SeqMonotonic
  <2>6. \A i \in DOMAIN t[n].childs : t[n].childs[i] \in DOMAIN t
    BY <2>1
  <2> QED BY <2>3, <2>4, <2>5, <2>6, AppendParts
<1>4. t1[n] = [t[n] EXCEPT !.childs = kids] /\ t1[n] \in Node
  <2>1. t1[n] = [t[n] EXCEPT !.childs = kids]
    BY <1>1
  <2>2. t[n] \in Node
    BY <1>1
  <2> HIDE DEF kids
  <2> QED BY <1>3, <2>1, <2>2 DEF Node
<1>5. t1 \in Seq(Node) /\ Len(t1) = Len(t) /\ \A m \in DOMAIN t : m # n => t1[m] = t[m]
  <2>1. t1 = [t EXCEPT ![n] = t1[n]]
    BY <1>1, <1>2
  <2> QED BY <1>1, <1>2, <1>4, <2>1
<1>6. t2 = Append(t1, node)
  BY DEF AddChild
<1> HIDE DEF t1
<1>7. /\ t2 \in Seq(Node) /\ t2 # <<>> /\ DOMAIN t2 = DOMAIN t \cup {new}
      /\ t2[new] = node /\ \A m \in DOMAIN t : t2[m] = t1[m]
  BY <1>1, <1>5, <1>6
<1> HIDE DEF t2
<1>8. /\ t2[n].childs = kids /\ \A m \in DOMAIN t : m # n => t2[m].childs = t[m].childs
      /\ t2[new].childs = <<>>
      /\ t2[new].name = node.name /\ \A m \in DOMAIN t : t2[m].name = t[m].name
  <2>1. t[n] \in Node /\ t2[n] = t1[n]
    BY <1>1, <1>7
  <2>2. t2[n].childs = kids /\ t2[n].name = t[n].name
    <3> HIDE DEF kids
    <3> QED BY <1>4, <2>1 DEF Node
  <2>3. \A m \in DOMAIN t : m # n => t2[m] = t[m]
    BY <1>5, <1>7
  <2> HIDE DEF kids
  <2> QED BY <1>7, <2>2, <2>3
<1>9. ASSUME NEW m \in DOMAIN t PROVE Attr(t2[m]) = Attr(t[m])
  <2>1. t[m] \in Node
    BY <1>1
  <2>2. CASE m = n
    <3>1. t2[m] = [t[m] EXCEPT !.childs = kids]
      BY <1>4, <1>7, <2>2
    <3> HIDE DEF kids
    <3> QED BY <2>1, <3>1 DEF Attr, Node
  <2>3. CASE m # n
    BY <1>5, <1>7, <2>3
  <2> QED BY <2>2, <2>3
<1>10. /\ q \in Seq(Parts) /\ q # <<>> /\ w2[new] = q /\ \A m \in DOMAIN t : w2[m] = w[m]
       /\ w2 \in [DOMAIN t2 -> Seq(Parts)]
  <2>1. q \in Seq(Parts) /\ q # <<>>
    <3>1. w[n] \in Seq(Parts)
      BY <1>2
    <3> QED BY <3>1, AppendParts
  <2> HIDE DEF q
  <2> QED BY <1>1, <1>2, <1>7, <2>1
<1>11. \A c \in DOMAIN t : w[c] # q
  OBVIOUS
<1>12. q = Append(w2[n], node.name)
  BY <1>10
<1> HIDE DEF w2, q
<1>13. w2[Root] = <<>> /\ \A m, x \in DOMAIN t2 : w2[m] = w2[x] => m = x
  <2>1. ASSUME NEW m \in DOMAIN t2, NEW x \in DOMAIN t2, w2[m] = w2[x] PROVE m = x
    <3>1. CASE m \in DOMAIN t /\ x \in DOMAIN t
      BY <1>2, <1>10, <2>1, <3>1
    <3>2. CASE m \in DOMAIN t /\ x = new
      BY <1>10, <1>11, <2>1, <3>2
    <3>3. CASE m = new /\ x \in DOMAIN t
      BY <1>10, <1>11, <2>1, <3>3
    <3> QED BY <1>7, <3>1, <3>2, <3>3
  <2> QED BY <1>1, <1>2, <1>10, <2>1
<1>14. ASSUME NEW m \in DOMAIN t2 PROVE HasChilds(t2, w2, m)
  <2>1. CASE m = new
    <3>1. t2[m].childs = <<>>
      BY <1>8, <2>1
    <3> QED BY <3>1 DEF HasChilds
  <2>2. CASE m = n
    <3>1. t2[m].childs = kids /\ w2[m] = w[n]
      BY <1>8, <1>10, <2>2
    <3>2. kids \in Seq(DOMAIN t2)
      BY <1>3, <1>7
    <3>3. \A i, j \in DOMAIN t[n].childs : t[n].childs[i] = t[n].childs[j] => i = j
      BY <1>2 DEF HasChilds
    <3>4. \A i, j \in DOMAIN kids : kids[i] = kids[j] => i = j
      <4> HIDE DEF kids
      <4> QED BY <1>1, <1>3, <3>3
    <3>5. ASSUME NEW i \in DOMAIN kids PROVE Follows(t2, w2, m, kids[i])
      <4>1. CASE i \in DOMAIN t[n].childs
        <5>1. kids[i] = t[n].childs[i] /\ kids[i] \in DOMAIN t
          BY <1>3, <4>1
        <5>2. w[kids[i]] = Append(w[n], t[kids[i]].name)
          BY <1>2, <4>1, <5>1 DEF HasChilds, Follows
        <5> HIDE DEF kids
        <5> QED BY <1>8, <1>10, <3>1, <5>1, <5>2 DEF Follows
      <4>2. CASE i \notin DOMAIN t[n].childs
        <5>1. kids[i] = new
          BY <1>3, <4>2
        <5> HIDE DEF kids
        <5> QED BY <1>8, <1>10, <1>12, <2>2, <5>1 DEF Follows
      <4> QED BY <4>1, <4>2
    <3> HIDE DEF kids
    <3> QED BY <3>1, <3>2, <3>4, <3>5 DEF HasChilds
  <2>3. CASE m # new /\ m # n
    <3>1. m \in DOMAIN t /\ t2[m].childs = t[m].childs /\ w2[m] = w[m] /\ HasChilds(t, w, m)
      BY <1>2, <1>7, <1>8, <1>10, <2>3
    <3>2. t[m].childs \in Seq(DOMAIN t)
      BY <3>1 DEF HasChilds
    <3>3. t[m].childs \in Seq(DOMAIN t2)
      BY <1>7, <3>2, SeqMonotonic
    <3>4. ASSUME NEW i \in DOMAIN t[m].childs PROVE Follows(t2, w2, m, t[m].childs[i])
      <4>1. t[m].childs[i] \in DOMAIN t
        BY <3>2
      <4>2. w[t[m].childs[i]] = Append(w[m], t[t[m].childs[i]].name)
        BY <3>1 DEF HasChilds, Follows
      <4> QED BY <1>8, <1>10, <3>1, <4>1, <4>2 DEF Follows
    <3> QED BY <3>1, <3>3, <3>4 DEF HasChilds
  <2> QED BY <2>1, <2>2, <2>3
<1>15. ASSUME NEW c \in DOMAIN t2 \ {Root} PROVE HasParent(t2, c)
  <2>1. CASE c = new
    <3>1. Len(t[n].childs) + 1 \in DOMAIN kids /\ kids[Len(t[n].childs) + 1] = c
      BY <1>3, <2>1
    <3> HIDE DEF kids
    <3> QED BY <1>7, <1>8, <2>1, <3>1 DEF HasParent
  <2>2. CASE c # new
    <3>1. c \in DOMAIN t \ {Root} /\ t2[c].name = t[c].name
      BY <1>7, <1>8, <2>2
    <3>2. PICK m \in DOMAIN t : \E i \in DOMAIN t[m].childs : t[m].childs[i] = c
      BY <1>2, <3>1 DEF HasParent
    <3>3. PICK i \in DOMAIN t[m].childs : t[m].childs[i] = c
      BY <3>2
    <3>4. i \in DOMAIN t2[m].childs /\ t2[m].childs[i] = c
      <4>1. CASE m = n
        <5>1. i \in DOMAIN kids /\ kids[i] = c
          BY <1>3, <3>3, <4>1
        <5> HIDE DEF kids
        <5> QED BY <1>8, <4>1, <5>1
      <4>2. CASE m # n
        BY <1>8, <3>3, <4>2
      <4> QED BY <4>1, <4>2
    <3> QED BY <1>2, <1>7, <3>1, <3>4 DEF HasParent
  <2> QED BY <2>1, <2>2
<1>16. IsTree(t2, w2)
  BY <1>7, <1>10, <1>13, <1>14, <1>15 DEF IsTree
<1> QED BY <1>7, <1>9, <1>16 DEF HasAdded, AddPath, w2, q, t2

\* A node is updated: paths and childs stay.
LEMMA UpdateTree ==
  ASSUME NEW t, NEW w, IsTree(t, w), NEW x \in DOMAIN t \ {Root},
         NEW node \in Node, node.name = t[x].name
  PROVE  LET t2 == [t EXCEPT ![x] = Update(@, node)]
         IN /\ IsTree(t2, w) /\ DOMAIN t2 = DOMAIN t
            /\ Attr(t2[x]) = Attr(node)
            /\ \A m \in DOMAIN t : m # x => t2[m] = t[m]
<1> DEFINE t2 == [t EXCEPT ![x] = Update(@, node)]
<1>1. /\ DOMAIN t = 1..Len(t) /\ t[x] \in Node /\ t \in Seq(Node)
      /\ \A m \in DOMAIN t : t[m] \in Node
  BY TreeDomain DEF IsTree
<1>2. t2[x] = [node EXCEPT !.childs = t[x].childs]
  BY <1>1 DEF Update
<1>3. t2[x] \in Node /\ t2[x].childs = t[x].childs /\ t2[x].name = t[x].name /\ Attr(t2[x]) = Attr(node)
  BY <1>1, <1>2 DEF Node, Attr
<1>4. /\ t2 \in Seq(Node) /\ DOMAIN t2 = DOMAIN t /\ t2 # <<>>
      /\ \A m \in DOMAIN t : m # x => t2[m] = t[m]
  <2>1. t2 = [t EXCEPT ![x] = t2[x]]
    BY <1>1
  <2> HIDE DEF t2
  <2> QED BY <1>1, <1>3, <2>1
<1> HIDE DEF t2
<1>5. \A m \in DOMAIN t : t2[m].childs = t[m].childs /\ t2[m].name = t[m].name
  BY <1>3, <1>4
<1>6. IsTree(t2, w)
  <2>1. ASSUME NEW n \in DOMAIN t PROVE HasChilds(t2, w, n)
    <3>1. HasChilds(t, w, n) /\ t2[n].childs = t[n].childs
      BY <1>5 DEF IsTree
    <3>2. \A i \in DOMAIN t[n].childs : t[n].childs[i] \in DOMAIN t
      BY <3>1 DEF HasChilds
    <3>3. ASSUME NEW i \in DOMAIN t[n].childs PROVE Follows(t2, w, n, t[n].childs[i])
      <4>1. w[t[n].childs[i]] = Append(w[n], t[t[n].childs[i]].name)
        BY <3>1 DEF HasChilds, Follows
      <4>2. t2[t[n].childs[i]].name = t[t[n].childs[i]].name
        BY <1>5, <3>2
      <4> QED BY <4>1, <4>2 DEF Follows
    <3> QED BY <1>4, <3>1, <3>3 DEF HasChilds
  <2>2. ASSUME NEW c \in DOMAIN t \ {Root} PROVE HasParent(t2, c)
    <3>1. HasParent(t, c) /\ t2[c].name = t[c].name
      BY <1>5 DEF IsTree
    <3> QED BY <1>4, <1>5, <3>1 DEF HasParent
  <2> QED BY <1>4, <2>1, <2>2 DEF IsTree
<1> QED BY <1>3, <1>4, <1>6 DEF t2

---------------------------------------------------------------------------
(* Walking down a path.                                                    *)

Prefix(path, k) == SubSeq(path, 1, k)

LEMMA PrefixSteps ==
  ASSUME NEW path \in Seq(Parts)
  PROVE  /\ Len(path) \in Nat
         /\ Prefix(path, 0) = <<>> /\ Prefix(path, Len(path)) = path
         /\ \A k \in 0..Len(path) : Prefix(path, k) \in Seq(Parts) /\ Len(Prefix(path, k)) = k
         /\ \A k \in 1..Len(path) :
              /\ path[k] \in Parts /\ k - 1 \in 0..Len(path) /\ k \in 0..Len(path)
              /\ Prefix(path, k) = Append(Prefix(path, k - 1), path[k])
<1>1. Len(path) \in Nat /\ path \in [1..Len(path) -> Parts]
  BY LenProperties
<1>2. Prefix(path, 0) = <<>>
  BY SubSeqEmpty DEF Prefix
<1>3. Prefix(path, Len(path)) = path
  BY SubSeqFull DEF Prefix
<1>4. ASSUME NEW k \in 0..Len(path)
      PROVE  /\ Prefix(path, k) \in Seq(Parts) /\ Len(Prefix(path, k)) = k
             /\ \A i \in 1..k : Prefix(path, k)[i] = path[i]
  <2>1. \A i \in 1..k : path[i] \in Parts
    BY <1>1
  <2>2. k \in Int /\ 1 \in Int /\ (IF 1 <= k THEN k - 1 + 1 ELSE 0) = k /\ k - 1 + 1 = k
    BY <1>1
  <2>3. /\ SubSeq(path, 1, k) \in Seq(Parts)
        /\ Len(SubSeq(path, 1, k)) = IF 1 <= k THEN k - 1 + 1 ELSE 0
        /\ \A i \in 1..(k - 1 + 1) : SubSeq(path, 1, k)[i] = path[1 + i - 1]
    BY <2>1, <2>2, SubSeqProperties
  <2> QED BY <2>2, <2>3 DEF Prefix
<1>5. ASSUME NEW k \in 1..Len(path)
      PROVE  Prefix(path, k) = Append(Prefix(path, k - 1), path[k])
  <2>1. k - 1 \in 0..Len(path) /\ k \in 0..Len(path) /\ path[k] \in Parts
    BY <1>1
  <2> DEFINE p == Prefix(path, k)
             q == Prefix(path, k - 1)
  <2>2. /\ p \in Seq(Parts) /\ Len(p) = k /\ \A i \in 1..k : p[i] = path[i]
        /\ q \in Seq(Parts) /\ Len(q) = k - 1 /\ \A i \in 1..(k - 1) : q[i] = path[i]
    BY <1>4, <2>1
  <2> HIDE DEF p, q
  <2>3. /\ Append(q, path[k]) \in Seq(Parts) /\ Len(Append(q, path[k])) = k
        /\ \A i \in 1..k : Append(q, path[k])[i] = path[i]
    <3>1. Append(q, path[k]) \in Seq(Parts) /\ Len(Append(q, path[k])) = k
      BY <2>1, <2>2, AppendParts
    <3>2. DOMAIN q = 1..(k - 1) /\ Len(q) + 1 = k
      BY <2>1, <2>2
    <3>3. ASSUME NEW i \in 1..k PROVE Append(q, path[k])[i] = path[i]
      <4>1. CASE i = k
        BY <2>1, <2>2, <3>2, <4>1, AppendParts
      <4>2. CASE i # k
        <5>1. i \in DOMAIN q /\ i \in 1..(k - 1)
          BY <3>2, <4>2
        <5> QED BY <2>1, <2>2, <5>1, AppendParts
      <4> QED BY <4>1, <4>2
    <3> QED BY <3>1, <3>3
  <2>4. p = Append(q, path[k])
    BY <2>2, <2>3, SeqEqual
  <2> QED BY <2>4 DEF p, q
<1>6. \A k \in 0..Len(path) : Prefix(path, k) \in Seq(Parts) /\ Len(Prefix(path, k)) = k
  BY <1>4
<1>7. \A k \in 1..Len(path) :
        /\ path[k] \in Parts /\ k - 1 \in 0..Len(path) /\ k \in 0..Len(path)
        /\ Prefix(path, k) = Append(Prefix(path, k - 1), path[k])
  <2> SUFFICES ASSUME NEW k \in 1..Len(path)
               PROVE  path[k] \in Parts /\ k - 1 \in 0..Len(path) /\ k \in 0..Len(path)
    BY <1>5
  <2> QED BY <1>1
<1> QED BY <1>1, <1>2, <1>3, <1>6, <1>7

\* The loop of find_node goes from node to node, or to NULL.
LEMMA FindSteps ==
  ASSUME NEW t, NEW w, IsTree(t, w), NEW path \in Seq(Parts)
  PROVE  \E c \in [0..Len(path) -> DOMAIN t \cup {NULL}] :
           /\ c[0] = Root
           /\ \A k \in 1..Len(path) :
                c[k] = IF c[k - 1] = NULL THEN NULL ELSE Child(t, c[k - 1], path[k])
           /\ find_node(t, path) = c[Len(path)]
<1> DEFINE N == DOMAIN t \cup {NULL}
           L == Len(path)
           F == [z \in (0..L) \X N |->
                   IF z[1] = 0 \/ z[2] = NULL THEN NULL ELSE Child(t, z[2], path[z[1]])]
           Steps(c) == c = [k \in 0..L |-> IF k = 0 THEN Root
                              ELSE IF c[k - 1] = NULL THEN NULL ELSE Child(t, c[k - 1], path[k])]
<1>1. L \in Nat /\ 0 \in Int /\ L \in Int /\ 0 <= L /\ 0 \in 0..L /\ L \in 0..L
  BY PrefixSteps
<1>2. F \in [(0..L) \X N -> N]
  <2>1. ASSUME NEW k \in 0..L, NEW n \in N, k # 0, n # NULL PROVE Child(t, n, path[k]) \in N
    <3>1. k \in 1..L /\ n \in DOMAIN t
      BY <1>1, <2>1
    <3>2. path[k] \in Parts
      BY <3>1, PrefixSteps
    <3> QED BY <3>1, <3>2, ChildIs
  <2> QED BY <2>1
<1>3. Root \in N
  BY TreeDomain
<1>4. PICK s : IsLoop(s, 0, L, N, Root, F)
  <2> HIDE DEF F, N, L
  <2> QED BY <1>1, <1>2, <1>3, LoopExists
<1>5. s \in [0..L -> N] /\ s[0] = Root
  BY <1>4 DEF IsLoop
<1>6. ASSUME NEW k \in 0..L, k # 0
      PROVE  s[k] = IF s[k - 1] = NULL THEN NULL ELSE Child(t, s[k - 1], path[k])
  <2>1. k - 1 \in 0..L
    BY <1>1, <1>6
  <2>2. <<k, s[k - 1]>> \in (0..L) \X N
    BY <1>5, <2>1
  <2>3. F[<<k, s[k - 1]>>] = IF s[k - 1] = NULL THEN NULL ELSE Child(t, s[k - 1], path[k])
    BY <1>6, <2>2
  <2>4. s[k] = F[<<k, s[k - 1]>>]
    BY <1>4, <1>6 DEF IsLoop
  <2> QED BY <2>3, <2>4
<1> HIDE DEF F, N
<1>7. Steps(s)
  <2> HIDE DEF L
  <2> QED BY <1>5, <1>6
<1> DEFINE c == CHOOSE g : Steps(g)
<1>8. Steps(c)
  BY <1>7, Zenon
<1>9. find_node(t, path) = c[L]
  BY DEF find_node
<1> HIDE DEF c
<1>10. /\ c[0] = Root /\ DOMAIN c = 0..L /\ c = [k \in 0..L |-> c[k]]
       /\ \A k \in 1..L : c[k] = IF c[k - 1] = NULL THEN NULL ELSE Child(t, c[k - 1], path[k])
  <2>1. DOMAIN c = 0..L /\ c = [k \in 0..L |-> c[k]]
    BY <1>8
  <2>2. c[0] = Root
    BY <1>1, <1>8
  <2>3. ASSUME NEW k \in 1..L
        PROVE  c[k] = IF c[k - 1] = NULL THEN NULL ELSE Child(t, c[k - 1], path[k])
    <3>1. k \in 0..L /\ k # 0
      BY <1>1
    <3> QED BY <1>8, <3>1
  <2> QED BY <2>1, <2>2, <2>3
<1>11. \A k \in 0..L : c[k] \in N
  <2> DEFINE T == {k \in 0..L : c[k] \in N}
  <2>1. 0 \in T
    BY <1>1, <1>3, <1>10
  <2>2. ASSUME NEW k \in 0..(L - 1), k \in T PROVE k + 1 \in T
    <3>1. k + 1 \in 1..L /\ k + 1 \in 0..L /\ k + 1 - 1 = k /\ c[k] \in N
      BY <1>1, <2>2
    <3>2. path[k + 1] \in Parts
      BY <3>1, PrefixSteps
    <3>3. c[k + 1] = IF c[k] = NULL THEN NULL ELSE Child(t, c[k], path[k + 1])
      <4>1. c[k + 1] = IF c[k + 1 - 1] = NULL THEN NULL ELSE Child(t, c[k + 1 - 1], path[k + 1])
        BY <1>10, <3>1
      <4>2. k + 1 - 1 = k
        BY <3>1
      <4> QED BY <4>1, <4>2, Zenon
    <3>4. c[k + 1] \in N
      BY <3>1, <3>2, <3>3, ChildIs DEF N
    <3> QED BY <3>1, <3>4
  <2> HIDE DEF T
  <2>3. 0..L \subseteq T
    BY <1>1, <2>1, <2>2, IntervalInduction
  <2> QED BY <2>3 DEF T
<1>12. c \in [0..L -> N]
  BY <1>10, <1>11
<1> QED BY <1>9, <1>10, <1>12 DEF N

\* find_node finds the node of a path, if there is one.
LEMMA FindIs ==
  ASSUME NEW t, NEW w, IsTree(t, w), NEW path \in Seq(Parts)
  PROVE  LET n == find_node(t, path)
         IN IF \E x \in DOMAIN t : w[x] = path
            THEN n \in DOMAIN t /\ w[n] = path
            ELSE n = NULL
<1> DEFINE L == Len(path)
           Here(c, k) == IF \E x \in DOMAIN t : w[x] = Prefix(path, k)
                         THEN c[k] \in DOMAIN t /\ w[c[k]] = Prefix(path, k)
                         ELSE c[k] = NULL
<1>1. PICK c \in [0..L -> DOMAIN t \cup {NULL}] :
        /\ c[0] = Root
        /\ \A k \in 1..L : c[k] = IF c[k - 1] = NULL THEN NULL ELSE Child(t, c[k - 1], path[k])
        /\ find_node(t, path) = c[L]
  BY FindSteps
<1> DEFINE T == {k \in 0..L : Here(c, k)}
<1>2. L \in Nat /\ 0 \in 0..L /\ L \in 0..L
  BY PrefixSteps
<1>3. 0 \in T
  <2>1. Root \in DOMAIN t /\ w[Root] = Prefix(path, 0)
    BY PrefixSteps, TreeDomain DEF IsTree
  <2> QED BY <1>1, <1>2, <2>1
<1>4. ASSUME NEW k \in 0..(L - 1), k \in T PROVE k + 1 \in T
  <2>1. k + 1 \in 1..L /\ k + 1 \in 0..L /\ k + 1 - 1 = k /\ k \in 0..L /\ Here(c, k)
    BY <1>2, <1>4
  <2>2. /\ path[k + 1] \in Parts /\ Prefix(path, k) \in Seq(Parts)
        /\ Prefix(path, k + 1) = Append(Prefix(path, k), path[k + 1])
    BY <2>1, PrefixSteps
  <2>3. c[k + 1] = IF c[k] = NULL THEN NULL ELSE Child(t, c[k], path[k + 1])
    <3>1. c[k + 1] = IF c[k + 1 - 1] = NULL THEN NULL ELSE Child(t, c[k + 1 - 1], path[k + 1])
      BY <1>1, <2>1
    <3>2. k + 1 - 1 = k
      BY <2>1
    <3> QED BY <3>1, <3>2, Zenon
  <2>4. CASE \E x \in DOMAIN t : w[x] = Prefix(path, k)
    <3>1. c[k] \in DOMAIN t /\ w[c[k]] = Prefix(path, k) /\ c[k] # NULL
      BY <2>1, <2>4, TreeDomain
    <3>2. c[k + 1] = Child(t, c[k], path[k + 1])
      BY <2>3, <3>1
    <3> DEFINE q == Append(w[c[k]], path[k + 1])
    <3>4. IF \E x \in DOMAIN t : w[x] = q THEN c[k + 1] \in DOMAIN t /\ w[c[k + 1]] = q
          ELSE c[k + 1] = NULL
      <4>1. c[k] \in DOMAIN t /\ path[k + 1] \in Parts
        BY <2>2, <3>1
      <4>2. \A n \in DOMAIN t, name \in Parts :
              IF \E x \in DOMAIN t : w[x] = Append(w[n], name)
              THEN Child(t, n, name) \in DOMAIN t /\ w[Child(t, n, name)] = Append(w[n], name)
              ELSE Child(t, n, name) = NULL
        BY ChildIs
      <4> QED BY <3>2, <4>1, <4>2, Zenon
    <3>5. q = Prefix(path, k + 1)
      BY <2>2, <3>1
    <3>3. Here(c, k + 1)
      BY <3>4, <3>5
    <3> QED BY <2>1, <3>3
  <2>5. CASE ~ \E x \in DOMAIN t : w[x] = Prefix(path, k)
    <3>1. c[k + 1] = NULL
      BY <2>1, <2>3, <2>5
    <3>2. ~ \E x \in DOMAIN t : w[x] = Prefix(path, k + 1)
      <4> SUFFICES ASSUME NEW x \in DOMAIN t, w[x] = Prefix(path, k + 1) PROVE FALSE
        OBVIOUS
      <4>1. w[x] = Append(Prefix(path, k), path[k + 1])
        BY <2>2
      <4>2. \E n \in DOMAIN t : w[n] = Prefix(path, k)
        BY <2>2, <4>1, ParentPath
      <4> QED BY <2>5, <4>2
    <3>3. Here(c, k + 1)
      BY <3>1, <3>2
    <3> QED BY <2>1, <3>3
  <2> QED BY <2>4, <2>5
<1>5. L \in T
  <2> HIDE DEF T, L
  <2>1. 0 \in Int /\ L \in Int
    BY <1>2
  <2>2. 0..L \subseteq T
    BY <1>3, <1>4, <2>1, IntervalInduction
  <2> QED BY <1>2, <2>2
<1>6. Prefix(path, L) = path
  BY PrefixSteps
<1> QED BY <1>1, <1>5, <1>6

\* (t2, w2) has the nodes of (t, w), as they were, and more, which all are
\* default directories of their names.
Grown(t, w, t2, w2) ==
  /\ IsTree(t2, w2)
  /\ DOMAIN t \subseteq DOMAIN t2
  /\ \A m \in DOMAIN t : w2[m] = w[m] /\ Attr(t2[m]) = Attr(t[m])
  /\ \A m \in DOMAIN t2 \ DOMAIN t :
       w2[m] # <<>> /\ Attr(t2[m]) = Attr(DefaultDir(Last(w2[m])))

LEMMA LastOfAppend ==
  ASSUME NEW S, NEW s \in Seq(S), NEW a \in S
  PROVE  Last(Append(s, a)) = a
BY AppendParts DEF Last

LEMMA DefaultNode ==
  ASSUME NEW name \in Parts
  PROVE  DefaultDir(name) \in Node /\ DefaultDir(name).childs = <<>>
         /\ DefaultDir(name).name = name
<1>1. <<"dir", "0755">> \in Types \X ({"0755"} \cup Nat)
  BY DEF Types
<1>2. <<>> \in Seq(Nat)
  OBVIOUS
<1> QED BY <1>1, <1>2 DEF DefaultDir, Node, Types

\* A round of get_parent_node goes one part further.
LEMMA DescendIs ==
  ASSUME NEW t, NEW w, IsTree(t, w), NEW n \in DOMAIN t, NEW part \in Parts
  PROVE  LET d == Descend([nodes |-> t, curr |-> n], part)
         IN \E w2 : /\ Grown(t, w, d.nodes, w2)
                    /\ d.curr \in DOMAIN d.nodes
                    /\ w2[d.curr] = Append(w[n], part)
                    /\ \A m \in DOMAIN d.nodes \ DOMAIN t : m = d.curr
<1> DEFINE d == Descend([nodes |-> t, curr |-> n], part)
           c == Child(t, n, part)
           q == Append(w[n], part)
<1>1. d = IF c # NULL THEN [nodes |-> t, curr |-> c]
          ELSE [nodes |-> AddChild(t, n, DefaultDir(part)), curr |-> Len(t) + 1]
  BY DEF Descend
<1>2. IF \E x \in DOMAIN t : w[x] = q
      THEN c \in DOMAIN t /\ c # Root /\ w[c] = q /\ t[c].name = part ELSE c = NULL
  BY ChildIs
<1>3. NULL \notin DOMAIN t /\ Len(t) + 1 \notin DOMAIN t
  BY TreeDomain
<1>4. w[n] \in Seq(Parts)
  BY DEF IsTree
<1>5. q # <<>> /\ Last(q) = part
  BY <1>4, AppendParts, LastOfAppend
<1> HIDE DEF c, q
<1>6. CASE \E x \in DOMAIN t : w[x] = q
  <2>1. d.nodes = t /\ d.curr = c /\ c \in DOMAIN t /\ w[c] = q
    BY <1>1, <1>2, <1>3, <1>6
  <2>2. Grown(t, w, d.nodes, w)
    BY <2>1 DEF Grown
  <2> HIDE DEF d
  <2> QED BY <2>1, <2>2 DEF q, d
<1>7. CASE ~ \E x \in DOMAIN t : w[x] = q
  <2> DEFINE w2 == [m \in 1..(Len(t) + 1) |-> IF m \in DOMAIN t THEN w[m] ELSE q]
             t2 == AddChild(t, n, DefaultDir(part))
  <2>1. d.nodes = t2 /\ d.curr = Len(t) + 1
    BY <1>1, <1>2, <1>7
  <2>2. /\ IsTree(t2, w2) /\ DOMAIN t2 = DOMAIN t \cup {Len(t) + 1}
        /\ \A m \in DOMAIN t : Attr(t2[m]) = Attr(t[m])
        /\ t2[Len(t) + 1] = DefaultDir(part)
    <3>1. \A x \in DOMAIN t : w[x] # Append(w[n], DefaultDir(part).name)
      BY <1>7, DefaultNode DEF q
    <3>2. DefaultDir(part).name = part /\ DefaultDir(part) \in Node /\ DefaultDir(part).childs = <<>>
      BY DefaultNode
    <3> DEFINE node == DefaultDir(part)
    <3>3. /\ node \in Node /\ node.childs = <<>> /\ node.name \in Parts /\ node.name = part
          /\ \A x \in DOMAIN t : w[x] # Append(w[n], node.name)
      BY <3>1, <3>2
    <3> HIDE DEF node
    <3>4. HasAdded(t, w, Append(w[n], node.name), node, AddChild(t, n, node))
      BY <3>3, AddTree
    <3>5. HasAdded(t, w, q, node, t2)
      BY <3>3, <3>4 DEF q, node
    <3> QED BY <3>5 DEF HasAdded, AddPath, node
  <2>3. Len(t) \in Nat /\ DOMAIN t = 1..Len(t)
    BY TreeDomain
  <2>4. w2[Len(t) + 1] = q /\ \A m \in DOMAIN t : w2[m] = w[m]
    BY <1>3, <2>3
  <2> HIDE DEF w2, t2
  <2>5. Grown(t, w, t2, w2)
    BY <1>5, <2>2, <2>4 DEF Grown
  <2> HIDE DEF d
  <2> QED BY <2>1, <2>2, <2>4, <2>5 DEF q, d
<1> QED BY <1>6, <1>7

LEMMA GrownTransitive ==
  ASSUME NEW t, NEW w, NEW t2, NEW w2, NEW t3, NEW w3,
         Grown(t, w, t2, w2), Grown(t2, w2, t3, w3)
  PROVE  Grown(t, w, t3, w3)
<1>1. ASSUME NEW m \in DOMAIN t PROVE w3[m] = w[m] /\ Attr(t3[m]) = Attr(t[m])
  BY DEF Grown
<1>2. ASSUME NEW m \in DOMAIN t3 \ DOMAIN t
      PROVE  w3[m] # <<>> /\ Attr(t3[m]) = Attr(DefaultDir(Last(w3[m])))
  <2>1. CASE m \in DOMAIN t2
    <3>1. w3[m] = w2[m] /\ Attr(t3[m]) = Attr(t2[m]) /\ w2[m] # <<>>
          /\ Attr(t2[m]) = Attr(DefaultDir(Last(w2[m])))
      BY <1>2, <2>1 DEF Grown
    <3> QED BY <3>1
  <2>2. CASE m \notin DOMAIN t2
    BY <2>2 DEF Grown
  <2> QED BY <2>1, <2>2
<1> QED BY <1>1, <1>2 DEF Grown

\* Where get_parent_node can be: at a node of a tree.
Places ==
  {at \in [nodes : Seq(Node), curr : Nat] :
     \E w : IsTree(at.nodes, w) /\ at.curr \in DOMAIN at.nodes}

LEMMA DescendPlaces ==
  ASSUME NEW at \in Places, NEW part \in Parts
  PROVE  Descend(at, part) \in Places
<1>1. PICK w : IsTree(at.nodes, w) /\ at.curr \in DOMAIN at.nodes
  BY DEF Places
<1>2. at = [nodes |-> at.nodes, curr |-> at.curr]
  BY DEF Places
<1> DEFINE d == Descend(at, part)
<1>3. PICK w2 : Grown(at.nodes, w, d.nodes, w2) /\ d.curr \in DOMAIN d.nodes
  BY <1>1, <1>2, DescendIs
<1>4. IsTree(d.nodes, w2) /\ d.nodes \in Seq(Node) /\ d.curr \in Nat
  BY <1>3, TreeDomain DEF Grown, IsTree
<1>5. d = [nodes |-> d.nodes, curr |-> d.curr]
  BY DEF Descend
<1> HIDE DEF d
<1>6. d \in [nodes : Seq(Node), curr : Nat]
  BY <1>4, <1>5
<1> QED BY <1>3, <1>4, <1>6 DEF Places, d

\* The loop of get_parent_node goes from place to place.
LEMMA ParentSteps ==
  ASSUME NEW t, NEW w, IsTree(t, w), NEW path \in Seq(Parts), path # <<>>
  PROVE  \E at \in [0..(Len(path) - 1) -> Places] :
           /\ at[0] = [nodes |-> t, curr |-> Root]
           /\ \A k \in 1..(Len(path) - 1) : at[k] = Descend(at[k - 1], path[k])
           /\ get_parent_node(t, path) = at[Len(path) - 1]
<1> DEFINE L == Len(path) - 1
           start == [nodes |-> t, curr |-> Root]
           F == [z \in (0..L) \X Places |->
                   IF z[1] = 0 THEN start ELSE Descend(z[2], path[z[1]])]
           Steps(g) == g = [k \in 0..L |-> IF k = 0 THEN [nodes |-> t, curr |-> Root]
                                           ELSE Descend(g[k - 1], path[k])]
<1>1. L \in Nat /\ 0 \in Int /\ L \in Int /\ 0 <= L /\ 0 \in 0..L /\ L \in 0..L
      /\ 0..L \subseteq 0..Len(path) /\ 1..L \subseteq 1..Len(path)
  BY EmptySeq, PrefixSteps
<1>2. start \in Places
  <2>1. t \in Seq(Node) /\ Root \in DOMAIN t /\ Root \in Nat
    BY TreeDomain DEF IsTree
  <2> QED BY <2>1 DEF Places
<1> HIDE DEF start
<1>3. F \in [(0..L) \X Places -> Places]
  <2>1. ASSUME NEW k \in 0..L, NEW at \in Places, k # 0 PROVE Descend(at, path[k]) \in Places
    <3>1. path[k] \in Parts
      BY <1>1, <2>1, PrefixSteps
    <3> QED BY <3>1, DescendPlaces
  <2> QED BY <1>2, <2>1
<1>4. PICK s : IsLoop(s, 0, L, Places, start, F)
  <2> HIDE DEF F, L
  <2> QED BY <1>1, <1>2, <1>3, LoopExists
<1>5. s \in [0..L -> Places] /\ s[0] = start
  BY <1>4 DEF IsLoop
<1>6. ASSUME NEW k \in 0..L, k # 0 PROVE s[k] = Descend(s[k - 1], path[k])
  <2>1. k - 1 \in 0..L
    BY <1>1, <1>6
  <2>2. <<k, s[k - 1]>> \in (0..L) \X Places
    BY <1>5, <2>1
  <2>3. F[<<k, s[k - 1]>>] = Descend(s[k - 1], path[k])
    BY <1>6, <2>2
  <2>4. s[k] = F[<<k, s[k - 1]>>]
    BY <1>4, <1>6 DEF IsLoop
  <2> QED BY <2>3, <2>4
<1> HIDE DEF F
<1>7. Steps(s)
  <2> HIDE DEF L
  <2> QED BY <1>5, <1>6 DEF start
<1> DEFINE c == CHOOSE g : Steps(g)
<1>8. Steps(c)
  BY <1>7, Zenon
<1>9. get_parent_node(t, path) = c[L]
  BY DEF get_parent_node
<1> HIDE DEF c
<1>10. /\ c[0] = start /\ DOMAIN c = 0..L /\ c = [k \in 0..L |-> c[k]]
       /\ \A k \in 1..L : c[k] = Descend(c[k - 1], path[k])
  <2>1. DOMAIN c = 0..L /\ c = [k \in 0..L |-> c[k]]
    BY <1>8
  <2>2. c[0] = start
    BY <1>1, <1>8 DEF start
  <2>3. ASSUME NEW k \in 1..L PROVE c[k] = Descend(c[k - 1], path[k])
    <3>1. k \in 0..L /\ k # 0
      BY <1>1
    <3> QED BY <1>8, <3>1
  <2> QED BY <2>1, <2>2, <2>3
<1>11. \A k \in 0..L : c[k] \in Places
  <2> DEFINE T == {k \in 0..L : c[k] \in Places}
  <2>1. 0 \in T
    BY <1>1, <1>2, <1>10
  <2>2. ASSUME NEW k \in 0..(L - 1), k \in T PROVE k + 1 \in T
    <3>1. k + 1 \in 1..L /\ k + 1 \in 0..L /\ k + 1 - 1 = k /\ c[k] \in Places
      BY <1>1, <2>2
    <3>2. path[k + 1] \in Parts
      BY <1>1, <3>1, PrefixSteps
    <3>3. c[k + 1] = Descend(c[k], path[k + 1])
      <4>1. \A j \in 1..L : c[j] = Descend(c[j - 1], path[j])
        BY <1>10
      <4>3. c[k + 1] = Descend(c[k + 1 - 1], path[k + 1])
        <5> HIDE DEF L
        <5> DEFINE j == k + 1
        <5>1. j \in 1..L
          BY <3>1
        <5> HIDE DEF j
        <5>2. c[j] = Descend(c[j - 1], path[j])
          BY <4>1, <5>1
        <5> QED BY <5>2 DEF j
      <4>2. k + 1 - 1 = k
        BY <3>1
      <4> QED BY <4>2, <4>3, Zenon
    <3>4. c[k + 1] \in Places
      BY <3>1, <3>2, <3>3, DescendPlaces
    <3> QED BY <3>1, <3>4
  <2> HIDE DEF T
  <2>3. 0..L \subseteq T
    BY <1>1, <2>1, <2>2, IntervalInduction
  <2> QED BY <2>3 DEF T
<1>12. c \in [0..L -> Places]
  BY <1>10, <1>11
<1> QED BY <1>9, <1>10, <1>12 DEF start

\* After k rounds get_parent_node is at the node of the first k parts, and
\* the nodes it has added are those of beginnings of the path.
Reached(t, w, path, k, at, w2) ==
  /\ Grown(t, w, at.nodes, w2)
  /\ at.curr \in DOMAIN at.nodes /\ w2[at.curr] = Prefix(path, k)
  /\ \A m \in DOMAIN at.nodes \ DOMAIN t : \E j \in 1..k : w2[m] = Prefix(path, j)
  /\ \A j \in 0..k : \E m \in DOMAIN at.nodes : w2[m] = Prefix(path, j)

LEMMA ReachedNext ==
  ASSUME NEW t, NEW w, NEW path \in Seq(Parts), NEW k \in 0..(Len(path) - 1),
         NEW at \in Places, NEW w2, Reached(t, w, path, k, at, w2)
  PROVE  \E w3 : Reached(t, w, path, k + 1, Descend(at, path[k + 1]), w3)
<1>1. /\ Len(path) \in Nat /\ k + 1 \in 1..Len(path) /\ k + 1 - 1 = k /\ k \in Nat
      /\ 1..(k + 1) = 1..k \cup {k + 1} /\ 0..(k + 1) = 0..k \cup {k + 1}
  <2>1. Len(path) \in Nat
    BY PrefixSteps
  <2>2. k \in Nat /\ k + 1 \in 1..Len(path) /\ k + 1 - 1 = k
    BY <2>1
  <2>3. 1..(k + 1) = 1..k \cup {k + 1}
    BY <2>2
  <2>4. 0..(k + 1) = 0..k \cup {k + 1}
    BY <2>2
  <2> QED BY <2>1, <2>2, <2>3, <2>4
<1>2. /\ path[k + 1] \in Parts
      /\ Prefix(path, k + 1) = Append(Prefix(path, k), path[k + 1])
  BY <1>1, PrefixSteps
<1>3. at = [nodes |-> at.nodes, curr |-> at.curr]
  BY DEF Places
<1>4. IsTree(at.nodes, w2) /\ at.curr \in DOMAIN at.nodes /\ w2[at.curr] = Prefix(path, k)
  BY DEF Reached, Grown
<1> DEFINE d == Descend(at, path[k + 1])
<1>5. PICK w3 : /\ Grown(at.nodes, w2, d.nodes, w3)
                /\ d.curr \in DOMAIN d.nodes
                /\ w3[d.curr] = Append(w2[at.curr], path[k + 1])
                /\ \A m \in DOMAIN d.nodes \ DOMAIN at.nodes : m = d.curr
  <2> DEFINE n == at.curr
             g == at.nodes
             part == path[k + 1]
  <2>1. n \in DOMAIN g /\ part \in Parts /\ IsTree(g, w2) /\ at = [nodes |-> g, curr |-> n]
    BY <1>2, <1>3, <1>4
  <2> HIDE DEF n, g, part
  <2>2. \E w3 : /\ Grown(g, w2, Descend([nodes |-> g, curr |-> n], part).nodes, w3)
                /\ Descend([nodes |-> g, curr |-> n], part).curr
                     \in DOMAIN Descend([nodes |-> g, curr |-> n], part).nodes
                /\ w3[Descend([nodes |-> g, curr |-> n], part).curr] = Append(w2[n], part)
                /\ \A m \in DOMAIN Descend([nodes |-> g, curr |-> n], part).nodes \ DOMAIN g :
                     m = Descend([nodes |-> g, curr |-> n], part).curr
    BY <2>1, DescendIs
  <2> QED BY <2>1, <2>2 DEF n, g, part
<1> HIDE DEF d
<1>6. Grown(t, w, d.nodes, w3)
  BY <1>5, GrownTransitive DEF Reached
<1>7. w3[d.curr] = Prefix(path, k + 1)
  BY <1>2, <1>4, <1>5
<1>8. DOMAIN at.nodes \subseteq DOMAIN d.nodes /\ \A m \in DOMAIN at.nodes : w3[m] = w2[m]
  BY <1>5 DEF Grown
<1>9. ASSUME NEW m \in DOMAIN d.nodes \ DOMAIN t
      PROVE  \E j \in 1..(k + 1) : w3[m] = Prefix(path, j)
  <2>1. CASE m \in DOMAIN at.nodes
    <3>1. \E j \in 1..k : w2[m] = Prefix(path, j)
      BY <1>9, <2>1 DEF Reached
    <3> QED BY <1>1, <1>8, <2>1, <3>1
  <2>2. CASE m \notin DOMAIN at.nodes
    BY <1>1, <1>5, <1>7, <2>2
  <2> QED BY <2>1, <2>2
<1>10. ASSUME NEW j \in 0..(k + 1) PROVE \E m \in DOMAIN d.nodes : w3[m] = Prefix(path, j)
  <2>1. CASE j \in 0..k
    <3>1. \E m \in DOMAIN at.nodes : w2[m] = Prefix(path, j)
      BY <2>1 DEF Reached
    <3> QED BY <1>8, <3>1
  <2>2. CASE j = k + 1
    BY <1>5, <1>7, <2>2
  <2> QED BY <1>1, <2>1, <2>2
<1> QED BY <1>5, <1>6, <1>7, <1>9, <1>10 DEF Reached, d

\* get_parent_node returns the node of all but the last part of the path.
LEMMA ParentIs ==
  ASSUME NEW t, NEW w, IsTree(t, w), NEW path \in Seq(Parts), path # <<>>
  PROVE  \E w2 : Reached(t, w, path, Len(path) - 1, get_parent_node(t, path), w2)
<1> DEFINE L == Len(path) - 1
<1>1. L \in Nat /\ 0 \in Int /\ L \in Int /\ 0 \in 0..L /\ L \in 0..L /\ Len(path) \in Nat
  BY EmptySeq, PrefixSteps
<1>2. PICK at \in [0..L -> Places] :
        /\ at[0] = [nodes |-> t, curr |-> Root]
        /\ \A k \in 1..L : at[k] = Descend(at[k - 1], path[k])
        /\ get_parent_node(t, path) = at[L]
  BY ParentSteps
<1> DEFINE T == {k \in 0..L : \E w2 : Reached(t, w, path, k, at[k], w2)}
<1>3. 0 \in T
  <2>1. at[0].nodes = t /\ at[0].curr = Root
    BY <1>2
  <2>2. Root \in DOMAIN t /\ w[Root] = Prefix(path, 0)
    BY PrefixSteps, TreeDomain DEF IsTree
  <2>3. Grown(t, w, t, w)
    BY DEF Grown
  <2>4. \A j \in 0..0 : j = 0
    OBVIOUS
  <2>5. \A j \in 0..0 : \E m \in DOMAIN t : w[m] = Prefix(path, j)
    BY <2>2, <2>4
  <2>6. Reached(t, w, path, 0, at[0], w)
    BY <2>1, <2>2, <2>3, <2>5 DEF Reached
  <2> QED BY <1>1, <2>6
<1>4. ASSUME NEW k \in 0..(L - 1), k \in T PROVE k + 1 \in T
  <2>1. k + 1 \in 1..L /\ k + 1 \in 0..L /\ k + 1 - 1 = k /\ k \in 0..L /\ k \in 0..(Len(path) - 1)
    BY <1>1, <1>4
  <2>2. PICK w2 : Reached(t, w, path, k, at[k], w2)
    BY <1>4
  <2>3. at[k] \in Places
    BY <1>2, <2>1
  <2>4. PICK w3 : Reached(t, w, path, k + 1, Descend(at[k], path[k + 1]), w3)
    <3> HIDE DEF L
    <3> QED BY <2>1, <2>2, <2>3, ReachedNext
  <2>5. at[k + 1] = Descend(at[k], path[k + 1])
    <3> DEFINE j == k + 1
    <3>1. j \in 1..L /\ j - 1 = k
      BY <2>1
    <3> HIDE DEF j, L
    <3>2. at[j] = Descend(at[j - 1], path[j])
      BY <1>2, <3>1
    <3> QED BY <3>1, <3>2 DEF j
  <2> QED BY <2>1, <2>4, <2>5
<1>5. L \in T
  <2> HIDE DEF T, L
  <2>1. 0..L \subseteq T
    BY <1>1, <1>3, <1>4, IntervalInduction
  <2> QED BY <1>1, <2>1
<1> QED BY <1>2, <1>5

\* (t2, w2) is (t, w) with a node at q, new or not, and the others as they were.
HasPut(t, w, q, node, t2, w2) ==
  /\ IsTree(t2, w2) /\ DOMAIN t \subseteq DOMAIN t2
  /\ \A m \in DOMAIN t : w2[m] = w[m]
  /\ \A m \in DOMAIN t2 : w2[m] = q => Attr(t2[m]) = Attr(node)
  /\ \A m \in DOMAIN t2 : w2[m] # q => m \in DOMAIN t /\ Attr(t2[m]) = Attr(t[m])
  /\ \E m \in DOMAIN t2 : w2[m] = q

LEMMA StoreIs ==
  ASSUME NEW t, NEW w, IsTree(t, w), NEW n \in DOMAIN t,
         NEW node \in Node, node.childs = <<>>, node.name \in Parts
  PROVE  \E w2 : HasPut(t, w, Append(w[n], node.name), node, Store(t, n, node), w2)
<1> DEFINE t2 == Store(t, n, node)
           x  == Child(t, n, node.name)
           q  == Append(w[n], node.name)
<1>1. t2 = IF x # NULL THEN [t EXCEPT ![x] = Update(@, node)] ELSE AddChild(t, n, node)
  BY DEF Store
<1>2. IF \E c \in DOMAIN t : w[c] = q
      THEN x \in DOMAIN t /\ x # Root /\ w[x] = q /\ t[x].name = node.name ELSE x = NULL
  BY ChildIs
<1>3. NULL \notin DOMAIN t /\ Len(t) + 1 \notin DOMAIN t /\ Len(t) \in Nat /\ DOMAIN t = 1..Len(t)
  BY TreeDomain
<1>4. \A c, m \in DOMAIN t : w[c] = w[m] => c = m
  BY DEF IsTree
<1> HIDE DEF x
<1>5. CASE \E c \in DOMAIN t : w[c] = q
  <2>1. x \in DOMAIN t \ {Root} /\ w[x] = q /\ t[x].name = node.name /\ x # NULL
    BY <1>2, <1>3, <1>5
  <2> DEFINE t3 == [t EXCEPT ![x] = Update(@, node)]
  <2>2. t2 = t3
    BY <1>1, <2>1
  <2>3. /\ IsTree(t3, w) /\ DOMAIN t3 = DOMAIN t /\ Attr(t3[x]) = Attr(node)
        /\ \A m \in DOMAIN t : m # x => t3[m] = t[m]
    BY <2>1, UpdateTree
  <2> HIDE DEF t3
  <2>4. /\ \A m \in DOMAIN t3 : w[m] = q => Attr(t3[m]) = Attr(node)
        /\ \A m \in DOMAIN t3 : w[m] # q => m \in DOMAIN t /\ Attr(t3[m]) = Attr(t[m])
        /\ \E m \in DOMAIN t3 : w[m] = q
    BY <1>4, <2>1, <2>3
  <2> HIDE DEF t2, q
  <2>5. HasPut(t, w, q, node, t2, w)
    BY <2>2, <2>3, <2>4 DEF HasPut
  <2> QED BY <2>5 DEF t2, q
<1>6. CASE ~ \E c \in DOMAIN t : w[c] = q
  <2> DEFINE t3 == AddChild(t, n, node)
             w3 == [m \in 1..(Len(t) + 1) |->
                      IF m \in DOMAIN t THEN w[m] ELSE Append(w[n], node.name)]
  <2>1. t2 = t3
    BY <1>1, <1>2, <1>6
  <2>2. /\ IsTree(t3, w3) /\ DOMAIN t3 = DOMAIN t \cup {Len(t) + 1}
        /\ \A m \in DOMAIN t : Attr(t3[m]) = Attr(t[m])
        /\ t3[Len(t) + 1] = node
    <3>1. \A c \in DOMAIN t : w[c] # Append(w[n], node.name)
      BY <1>6
    <3>2. HasAdded(t, w, Append(w[n], node.name), node, AddChild(t, n, node))
      BY <3>1, AddTree
    <3> QED BY <3>2 DEF HasAdded, AddPath
  <2>3. w3[Len(t) + 1] = q /\ \A m \in DOMAIN t : w3[m] = w[m]
    BY <1>3
  <2> HIDE DEF t3, w3, q
  <2>4. \A m \in DOMAIN t : w3[m] # q
    BY <1>6, <2>3
  <2>5. /\ \A m \in DOMAIN t3 : w3[m] = q => Attr(t3[m]) = Attr(node)
        /\ \A m \in DOMAIN t3 : w3[m] # q => m \in DOMAIN t /\ Attr(t3[m]) = Attr(t[m])
        /\ \E m \in DOMAIN t3 : w3[m] = q
    BY <2>2, <2>3, <2>4
  <2> HIDE DEF t2
  <2>6. HasPut(t, w, q, node, t2, w3)
    BY <2>1, <2>2, <2>3, <2>5 DEF HasPut
  <2> QED BY <2>6 DEF t2, q
<1> QED BY <1>5, <1>6

\* What parsing an entry with this path and node does to a tree: it has the
\* node at the path, and default directories at those of its beginnings
\* that had no node; all else is as it was.
HasStored(t, w, path, node, t2, w2) ==
  /\ IsTree(t2, w2)
  /\ \A m \in DOMAIN t2 :
       \/ w2[m] = path /\ Attr(t2[m]) = Attr(node)
       \/ w2[m] # path /\ \E x \in DOMAIN t : w2[m] = w[x] /\ Attr(t2[m]) = Attr(t[x])
       \/ /\ w2[m] # path /\ w2[m] # <<>> /\ \A x \in DOMAIN t : w[x] # w2[m]
          /\ \E j \in 0..Len(path) : w2[m] = Prefix(path, j)
          /\ Attr(t2[m]) = Attr(DefaultDir(Last(w2[m])))
  /\ \A x \in DOMAIN t : \E m \in DOMAIN t2 : w2[m] = w[x]
  /\ \A j \in 0..Len(path) : \E m \in DOMAIN t2 : w2[m] = Prefix(path, j)

LEMMA StorePath ==
  ASSUME NEW t, NEW w, IsTree(t, w), NEW path \in Seq(Parts), path # <<>>,
         NEW node \in Node, node.childs = <<>>, node.name = Last(path)
  PROVE  LET parent == get_parent_node(t, path)
         IN \E w2 : HasStored(t, w, path, node, Store(parent.nodes, parent.curr, node), w2)
<1> DEFINE L == Len(path) - 1
           parent == get_parent_node(t, path)
           g == parent.nodes
           n == parent.curr
           t2 == Store(g, n, node)
<1>1. /\ L \in 0..Len(path) /\ Len(path) \in 1..Len(path) /\ Len(path) \in Nat
      /\ 0..Len(path) = 0..L \cup {Len(path)} /\ 1..L \subseteq 0..Len(path) /\ Len(path) - 1 = L
  <2>1. Len(path) \in Nat \ {0}
    BY EmptySeq, PrefixSteps
  <2>2. 0..Len(path) = 0..L \cup {Len(path)}
    BY <2>1
  <2> QED BY <2>1, <2>2
<1>2. PICK v : Reached(t, w, path, L, parent, v)
  BY ParentIs
<1>3. /\ Last(path) \in Parts /\ node.name = Last(path)
      /\ path = Append(Prefix(path, L), Last(path))
  BY <1>1, PrefixSteps DEF Last
<1>4. IsTree(g, v) /\ n \in DOMAIN g /\ v[n] = Prefix(path, L)
  BY <1>2 DEF Reached, Grown
<1> HIDE DEF parent, L, g, n, t2
<1>5. PICK w2 : HasPut(g, v, path, node, t2, w2)
  <2>1. node.name \in Parts
    BY <1>3
  <2>2. \E w2 : HasPut(g, v, Append(v[n], node.name), node, Store(g, n, node), w2)
    BY <1>4, <2>1, StoreIs
  <2> QED BY <1>3, <1>4, <2>2 DEF t2
<1>6. ASSUME NEW m \in DOMAIN t2, w2[m] # path
      PROVE  \/ \E x \in DOMAIN t : w2[m] = w[x] /\ Attr(t2[m]) = Attr(t[x])
             \/ /\ w2[m] # <<>> /\ \A x \in DOMAIN t : w[x] # w2[m]
                /\ \E j \in 0..Len(path) : w2[m] = Prefix(path, j)
                /\ Attr(t2[m]) = Attr(DefaultDir(Last(w2[m])))
  <2>1. m \in DOMAIN g /\ Attr(t2[m]) = Attr(g[m]) /\ w2[m] = v[m]
    BY <1>5, <1>6 DEF HasPut
  <2>2. CASE m \in DOMAIN t
    <3>1. v[m] = w[m] /\ Attr(g[m]) = Attr(t[m])
      BY <1>2, <2>2 DEF Reached, Grown, g
    <3> QED BY <2>1, <2>2, <3>1
  <2>3. CASE m \notin DOMAIN t
    <3>1. /\ v[m] # <<>> /\ Attr(g[m]) = Attr(DefaultDir(Last(v[m])))
          /\ \E j \in 1..L : v[m] = Prefix(path, j)
      BY <1>2, <2>1, <2>3 DEF Reached, Grown, g
    <3>2. ASSUME NEW x \in DOMAIN t, w[x] = w2[m] PROVE FALSE
      <4>1. x \in DOMAIN g /\ v[x] = w[x]
        BY <1>2 DEF Reached, Grown, g
      <4>2. \A a, b \in DOMAIN g : v[a] = v[b] => a = b
        BY <1>4 DEF IsTree
      <4> QED BY <2>1, <2>3, <3>2, <4>1, <4>2
    <3> QED BY <1>1, <2>1, <3>1, <3>2
  <2> QED BY <2>2, <2>3
<1>7. ASSUME NEW x \in DOMAIN t PROVE \E m \in DOMAIN t2 : w2[m] = w[x]
  <2>1. x \in DOMAIN g /\ v[x] = w[x]
    BY <1>2 DEF Reached, Grown, g
  <2> QED BY <1>5, <2>1 DEF HasPut
<1>8. ASSUME NEW j \in 0..Len(path) PROVE \E m \in DOMAIN t2 : w2[m] = Prefix(path, j)
  <2>1. CASE j \in 0..L
    <3>1. \E m \in DOMAIN g : v[m] = Prefix(path, j)
      BY <1>2, <2>1 DEF Reached, g
    <3> QED BY <1>5, <3>1 DEF HasPut
  <2>2. CASE j = Len(path)
    BY <1>5, <2>2, PrefixSteps DEF HasPut
  <2> QED BY <1>1, <2>1, <2>2
<1>9. HasStored(t, w, path, node, t2, w2)
  BY <1>5, <1>6, <1>7, <1>8 DEF HasStored, HasPut
<1> QED BY <1>9 DEF t2, g, n, parent

---------------------------------------------------------------------------
(* The tape.                                                               *)

LEMMA Division ==
  ASSUME NEW b \in Nat \ {0}, NEW q \in Nat, NEW r \in 0..(b - 1)
  PROVE  (b * q + r) \div b = q /\ (b * q + r) % b = r
OBVIOUS

LEMMA DivisionExists ==
  ASSUME NEW b \in Nat \ {0}, NEW n \in Nat
  PROVE  n = b * (n \div b) + (n % b) /\ n % b \in 0..(b - 1) /\ n \div b \in Nat
OBVIOUS

\* What parse_tar_file skips is what the content and its padding occupy.
LEMMA Skipped ==
  ASSUME NEW n \in Nat
  PROVE  /\ ContentBlocks(n) * Block = n + Padding(n)
         /\ Padding(n) \in Nat
<1> DEFINE q == n \div Block
           r == n % Block
<1>1. Block \in Nat \ {0}
  BY BlockAssumption
<1>2. n = Block * q + r /\ r \in 0..(Block - 1) /\ q \in Nat
  BY <1>1, DivisionExists
<1>3. ContentBlocks(n) = (n + Block - 1) \div Block /\ Padding(n) = (Block - r) % Block
  BY DEF ContentBlocks, Padding
<1> HIDE DEF q, r
<1>4. CASE r = 0
  <2>1. n + Block - 1 = Block * q + (Block - 1) /\ Block - 1 \in 0..(Block - 1)
    BY <1>1, <1>2, <1>4
  <2>2. (n + Block - 1) \div Block = q
    BY <1>1, <1>2, <2>1, Division
  <2>3. Block - r = Block * 1 + 0 /\ 0 \in 0..(Block - 1)
    BY <1>1, <1>4
  <2>4. (Block - r) % Block = 0
    BY <1>1, <2>3, Division
  <2> QED BY <1>1, <1>2, <1>3, <1>4, <2>2, <2>4
<1>5. CASE r # 0
  <2>1. n + Block - 1 = Block * (q + 1) + (r - 1) /\ r - 1 \in 0..(Block - 1) /\ q + 1 \in Nat
    BY <1>1, <1>2, <1>5
  <2>2. (n + Block - 1) \div Block = q + 1
    BY <1>1, <2>1, Division
  <2>3. Block - r = Block * 0 + (Block - r) /\ Block - r \in 0..(Block - 1)
    BY <1>1, <1>2, <1>5
  <2>4. (Block - r) % Block = Block - r
    BY <1>1, <2>3, Division
  <2>5. (q + 1) * Block = n + (Block - r)
    BY <1>1, <1>2
  <2> QED BY <1>1, <1>2, <1>3, <2>2, <2>4, <2>5
<1> QED BY <1>4, <1>5

Cells == ({"header"} \X Nat) \cup ({"byte"} \X Nat \X Nat) \cup {<<"zero">>}

LEMMA EntryIs ==
  ASSUME archive \in Seq(Headers), NEW e \in DOMAIN archive
  PROVE  /\ archive[e].path \in Seq(Parts) /\ archive[e].path # <<>>
         /\ archive[e].typeflag \in Types
         /\ archive[e].size \in Nat
         /\ archive[e].typeflag \in {"dir", "link"} => archive[e].size = 0
<1>1. archive[e] \in Headers
  OBVIOUS
<1>2. \A p \in Paths : p \in Seq(Parts) /\ p # <<>>
  BY PathsAssumption DEF Parts
<1>3. \A n \in Sizes : n \in Nat
  BY SizesAssumption
<1>4. CASE archive[e] \in {Header(p, f, n) : p \in Paths, f \in {"file", "other"}, n \in Sizes}
  BY <1>2, <1>3, <1>4 DEF Header, Types
<1>5. CASE archive[e] \in {Header(p, f, 0) : p \in Paths, f \in {"dir", "link"}}
  BY <1>2, <1>5 DEF Header, Types
<1> QED BY <1>1, <1>4, <1>5 DEF Headers

\* An entry occupies a header and whole blocks for its content.
LEMMA ExtentIs ==
  ASSUME archive \in Seq(Headers), NEW e \in DOMAIN archive
  PROVE  /\ Extent(e) \in Seq(Cells)
         /\ Len(Extent(e)) = Block + ContentBlocks(archive[e].size) * Block
         /\ Block + archive[e].size <= Len(Extent(e))
         /\ Extent(e)[1] = <<"header", e>>
         /\ \A k \in 1..archive[e].size : Extent(e)[Block + k] = Content(e)[k]
<1> DEFINE n == archive[e].size
           h == [k \in 1..Block |-> <<"header", e>>]
           z == Zeros(Padding(n))
<1>1. n \in Nat /\ Block \in Nat \ {0} /\ Padding(n) \in Nat /\ e \in Nat
      /\ ContentBlocks(n) * Block = n + Padding(n)
  <2>1. DOMAIN archive = 1..Len(archive) /\ Len(archive) \in Nat
    BY LenProperties
  <2>2. archive[e].size \in Nat
    BY EntryIs
  <2>3. ContentBlocks(n) * Block = n + Padding(n) /\ Padding(n) \in Nat
    BY <2>2, Skipped
  <2> QED BY <2>1, <2>2, <2>3, BlockAssumption
<1> HIDE DEF n
<1>2. h \in Seq(Cells) /\ Len(h) = Block /\ h[1] = <<"header", e>>
  <2>1. <<"header", e>> \in Cells
    BY <1>1 DEF Cells
  <2> HIDE DEF Cells
  <2> QED BY <1>1, <2>1
<1>3. Content(e) \in Seq(Cells) /\ Len(Content(e)) = n
  <2>1. \A k \in 1..n : <<"byte", e, k - 1>> \in Cells
    BY <1>1 DEF Cells
  <2>2. Content(e) = [k \in 1..n |-> <<"byte", e, k - 1>>]
    BY DEF Content, n
  <2> HIDE DEF Cells
  <2> QED BY <1>1, <2>1, <2>2
<1>4. z \in Seq(Cells) /\ Len(z) = Padding(n)
  <2>1. <<"zero">> \in Cells
    BY DEF Cells
  <2> HIDE DEF Cells
  <2> DEFINE m == Padding(n)
  <2>2. m \in Nat /\ z = [k \in 1..m |-> <<"zero">>]
    BY <1>1 DEF Zeros
  <2> HIDE DEF z, m
  <2>3. z \in Seq(Cells) /\ Len(z) = m
    BY <2>1, <2>2
  <2> QED BY <2>3 DEF m
<1>5. Extent(e) = h \o Content(e) \o z
  BY DEF Extent, n
<1> HIDE DEF h, z
<1> DEFINE hc == h \o Content(e)
<1>6. /\ hc \in Seq(Cells) /\ Len(hc) = Block + n /\ hc[1] = <<"header", e>>
      /\ \A k \in 1..n : hc[Block + k] = Content(e)[k]
  <2>1. /\ hc \in Seq(Cells) /\ Len(hc) = Len(h) + Len(Content(e))
        /\ \A i \in 1..(Len(h) + Len(Content(e))) :
             hc[i] = IF i <= Len(h) THEN h[i] ELSE Content(e)[i - Len(h)]
    BY <1>2, <1>3, ConcatProperties
  <2>2. hc[1] = <<"header", e>>
    BY <1>1, <1>2, <1>3, <2>1
  <2>3. ASSUME NEW k \in 1..n PROVE hc[Block + k] = Content(e)[k]
    <3>1. Block + k \in 1..(Block + n) /\ ~(Block + k <= Block) /\ Block + k - Block = k
      BY <1>1
    <3> DEFINE j == Block + k
    <3>2. j \in 1..(Len(h) + Len(Content(e))) /\ ~(j <= Len(h)) /\ j - Len(h) = k
      BY <1>1, <1>2, <1>3, <3>1
    <3> HIDE DEF hc, j
    <3>3. hc[j] = Content(e)[j - Len(h)]
      BY <2>1, <3>2
    <3> QED BY <3>2, <3>3 DEF j
  <2> QED BY <1>2, <1>3, <2>1, <2>2, <2>3
<1> HIDE DEF hc
<1>7. /\ Extent(e) \in Seq(Cells) /\ Len(Extent(e)) = Block + n + Padding(n)
      /\ \A i \in 1..(Block + n) : Extent(e)[i] = hc[i]
  <2>1. Extent(e) = hc \o z
    BY <1>5 DEF hc
  <2>2. /\ Extent(e) \in Seq(Cells) /\ Len(Extent(e)) = Len(hc) + Len(z)
        /\ \A i \in 1..(Len(hc) + Len(z)) :
             Extent(e)[i] = IF i <= Len(hc) THEN hc[i] ELSE z[i - Len(hc)]
    <3>1. /\ hc \o z \in Seq(Cells) /\ Len(hc \o z) = Len(hc) + Len(z)
          /\ \A i \in 1..(Len(hc) + Len(z)) :
               (hc \o z)[i] = IF i <= Len(hc) THEN hc[i] ELSE z[i - Len(hc)]
      BY <1>4, <1>6, ConcatProperties
    <3> QED BY <2>1, <3>1, Zenon
  <2>3. ASSUME NEW i \in 1..(Block + n) PROVE Extent(e)[i] = hc[i]
    <3>1. i \in 1..(Block + n + Padding(n)) /\ i <= Block + n
      BY <1>1
    <3> QED BY <1>4, <1>6, <2>2, <3>1
  <2> QED BY <1>1, <1>4, <1>6, <2>2, <2>3
<1>8. Extent(e)[1] = <<"header", e>> /\ \A k \in 1..n : Extent(e)[Block + k] = Content(e)[k]
  <2>1. 1 \in 1..(Block + n) /\ \A k \in 1..n : Block + k \in 1..(Block + n)
    BY <1>1
  <2> QED BY <1>6, <1>7, <2>1
<1> QED BY <1>1, <1>7, <1>8 DEF n

\* The archive up to and with entry e, and where it ends.
Taped ==
  CHOOSE s : s = [e \in 0..Len(archive) |-> IF e = 0 THEN <<>> ELSE s[e - 1] \o Extent(e)]

Ends(e) == Len(Taped[e])

LEMMA TapedIs ==
  ASSUME archive \in Seq(Headers)
  PROVE  /\ Taped \in [0..Len(archive) -> Seq(Cells)]
         /\ Taped[0] = <<>>
         /\ \A e \in 1..Len(archive) : Taped[e] = Taped[e - 1] \o Extent(e)
         /\ Tape = Taped[Len(archive)] \o Zeros(2 * Block)
<1> DEFINE N == Len(archive)
           S == Seq(Cells)
           F == [x \in (0..N) \X S |-> IF x[1] = 0 THEN <<>> ELSE x[2] \o Extent(x[1])]
           Steps(g) == g = [e \in 0..N |-> IF e = 0 THEN <<>> ELSE g[e - 1] \o Extent(e)]
<1>1. N \in Nat /\ 0 \in Int /\ N \in Int /\ 0 <= N /\ 0 \in 0..N /\ N \in 0..N
      /\ DOMAIN archive = 1..N /\ <<>> \in S
  BY LenProperties
<1>2. ASSUME NEW e \in 0..N, e # 0, NEW s \in S PROVE s \o Extent(e) \in S
  <2>1. e \in DOMAIN archive
    BY <1>1, <1>2
  <2>2. Extent(e) \in Seq(Cells)
    BY <2>1, ExtentIs
  <2> QED BY <2>2, ConcatProperties
<1> HIDE DEF S
<1>3. F \in [(0..N) \X S -> S]
  BY <1>1, <1>2
<1>4. PICK s : IsLoop(s, 0, N, S, <<>>, F)
  <2> HIDE DEF F, N
  <2> QED BY <1>1, <1>3, LoopExists
<1>5. s \in [0..N -> S] /\ s[0] = <<>>
  BY <1>4 DEF IsLoop
<1>6. ASSUME NEW e \in 0..N, e # 0 PROVE s[e] = s[e - 1] \o Extent(e)
  <2>1. e - 1 \in 0..N
    BY <1>1, <1>6
  <2>2. <<e, s[e - 1]>> \in (0..N) \X S
    BY <1>5, <2>1
  <2>3. F[<<e, s[e - 1]>>] = s[e - 1] \o Extent(e)
    BY <1>6, <2>2
  <2>4. s[e] = F[<<e, s[e - 1]>>]
    BY <1>4, <1>6 DEF IsLoop
  <2> QED BY <2>3, <2>4
<1> HIDE DEF F
<1>7. Steps(s)
  <2> HIDE DEF N
  <2> QED BY <1>5, <1>6
<1>8. Steps(Taped)
  BY <1>7, Zenon DEF Taped
<1>9. Tape = Taped[N] \o Zeros(2 * Block)
  BY DEF Tape, Taped
<1>10. /\ Taped[0] = <<>> /\ Taped = [e \in 0..N |-> Taped[e]]
       /\ \A e \in 1..N : Taped[e] = Taped[e - 1] \o Extent(e)
  <2>1. Taped = [e \in 0..N |-> Taped[e]]
    BY <1>8
  <2>2. Taped[0] = <<>>
    BY <1>1, <1>8
  <2>3. ASSUME NEW e \in 1..N PROVE Taped[e] = Taped[e - 1] \o Extent(e)
    <3>1. e \in 0..N /\ e # 0
      BY <1>1
    <3> QED BY <1>8, <3>1
  <2> QED BY <2>1, <2>2, <2>3
<1>11. \A e \in 0..N : Taped[e] \in S
  <2> DEFINE T == {e \in 0..N : Taped[e] \in S}
  <2>1. 0 \in T
    BY <1>1, <1>10
  <2>2. ASSUME NEW k \in 0..(N - 1), k \in T PROVE k + 1 \in T
    <3> DEFINE e == k + 1
    <3>1. e \in 1..N /\ e \in 0..N /\ e # 0 /\ e - 1 = k /\ Taped[k] \in S
      BY <1>1, <2>2
    <3> HIDE DEF e, N
    <3>2. Taped[e] = Taped[k] \o Extent(e)
      BY <1>10, <3>1
    <3>3. Taped[e] \in S
      BY <1>2, <3>1, <3>2
    <3> QED BY <3>1, <3>3 DEF e
  <2> HIDE DEF T
  <2>3. 0..N \subseteq T
    BY <1>1, <2>1, <2>2, IntervalInduction
  <2> QED BY <2>3 DEF T
<1>12. Taped \in [0..N -> S]
  BY <1>10, <1>11
<1> QED BY <1>9, <1>10, <1>12 DEF S

\* Where the parts of the tape are.
LEMMA TapeIs ==
  ASSUME archive \in Seq(Headers)
  PROVE  /\ Ends(0) = 0 /\ \A e \in 0..Len(archive) : Ends(e) \in Nat
         /\ \A e \in 1..Len(archive) :
              /\ Ends(e) = Ends(e - 1) + Len(Extent(e))
              /\ \A k \in 1..Len(Extent(e)) : Tape[Ends(e - 1) + k] = Extent(e)[k]
              /\ Ends(e) <= Ends(Len(archive))
         /\ Tape \in Seq(Cells) /\ Len(Tape) = Ends(Len(archive)) + 2 * Block
         /\ \A k \in 1..(2 * Block) : Tape[Ends(Len(archive)) + k] = <<"zero">>
<1> DEFINE N == Len(archive)
           z == Zeros(2 * Block)
<1>1. /\ N \in Nat /\ N \in 0..N /\ DOMAIN archive = 1..N /\ Block \in Nat \ {0}
      /\ 2 * Block \in Nat /\ 0 \in 0..N
  BY LenProperties, BlockAssumption
<1>2. /\ Taped \in [0..N -> Seq(Cells)] /\ Taped[0] = <<>> /\ Tape = Taped[N] \o z
      /\ \A e \in 1..N : Taped[e] = Taped[e - 1] \o Extent(e)
  BY TapedIs
<1>3. \A e \in 0..N : Taped[e] \in Seq(Cells) /\ Ends(e) \in Nat
  BY <1>2, LenProperties DEF Ends
<1>4. Ends(0) = 0
  BY <1>2, EmptySeq DEF Ends
<1>5. z \in Seq(Cells) /\ Len(z) = 2 * Block /\ \A k \in 1..(2 * Block) : z[k] = <<"zero">>
  <2>1. <<"zero">> \in Cells
    BY DEF Cells
  <2> HIDE DEF Cells
  <2>2. z = [k \in 1..(2 * Block) |-> <<"zero">>]
    BY DEF Zeros
  <2> HIDE DEF z
  <2> QED BY <1>1, <2>1, <2>2
<1> HIDE DEF N, z
<1>6. ASSUME NEW e \in 1..N
      PROVE  /\ Ends(e) = Ends(e - 1) + Len(Extent(e)) /\ Len(Extent(e)) \in Nat
             /\ e - 1 \in 0..N /\ e \in 0..N
             /\ \A i \in 1..Ends(e) : Taped[e][i] = IF i <= Ends(e - 1) THEN Taped[e - 1][i]
                                                    ELSE Extent(e)[i - Ends(e - 1)]
  <2>1. e - 1 \in 0..N /\ e \in 0..N /\ e \in DOMAIN archive
    BY <1>1
  <2>2. Extent(e) \in Seq(Cells) /\ Taped[e - 1] \in Seq(Cells)
    BY <1>3, <2>1, ExtentIs
  <2>3. /\ Len(Taped[e - 1] \o Extent(e)) = Len(Taped[e - 1]) + Len(Extent(e))
        /\ \A i \in 1..(Len(Taped[e - 1]) + Len(Extent(e))) :
             (Taped[e - 1] \o Extent(e))[i] = IF i <= Len(Taped[e - 1]) THEN Taped[e - 1][i]
                                              ELSE Extent(e)[i - Len(Taped[e - 1])]
    BY <2>2, ConcatProperties
  <2>4. Taped[e] = Taped[e - 1] \o Extent(e)
    BY <1>2
  <2>5. Len(Extent(e)) \in Nat
    BY <2>2, LenProperties
  <2> QED BY <2>1, <2>3, <2>4, <2>5, Zenon DEF Ends
<1>7. ASSUME NEW e \in 0..N
      PROVE  /\ Ends(e) <= Ends(N)
             /\ \A i \in 1..Ends(e) : Taped[N][i] = Taped[e][i]
  <2> DEFINE T == {d \in e..N : Ends(e) <= Ends(d) /\ \A i \in 1..Ends(e) : Taped[d][i] = Taped[e][i]}
  <2>1. e \in T
    <3>1. e \in e..N /\ Ends(e) \in Nat
      BY <1>1, <1>3
    <3> QED BY <3>1
  <2>2. ASSUME NEW k \in e..(N - 1), k \in T PROVE k + 1 \in T
    <3> DEFINE d == k + 1
    <3>1. d \in 1..N /\ d - 1 = k /\ d \in e..N /\ k \in 0..N /\ d \in 0..N
      BY <1>1, <2>2
    <3>2. Ends(e) <= Ends(k) /\ \A i \in 1..Ends(e) : Taped[k][i] = Taped[e][i]
      BY <2>2
    <3>3. Ends(e) \in Nat /\ Ends(k) \in Nat /\ Ends(d) \in Nat
      BY <1>3, <3>1
    <3> HIDE DEF d
    <3>4. /\ Ends(d) = Ends(k) + Len(Extent(d)) /\ Len(Extent(d)) \in Nat
          /\ \A i \in 1..Ends(d) : Taped[d][i] = IF i <= Ends(k) THEN Taped[k][i]
                                                  ELSE Extent(d)[i - Ends(k)]
      BY <1>6, <3>1
    <3>5. Ends(e) <= Ends(d)
      BY <3>2, <3>3, <3>4
    <3>6. ASSUME NEW i \in 1..Ends(e) PROVE Taped[d][i] = Taped[e][i]
      <4>1. i \in 1..Ends(d) /\ i <= Ends(k)
        BY <3>2, <3>3, <3>5
      <4>2. Taped[d][i] = Taped[k][i]
        BY <3>4, <4>1
      <4> QED BY <3>2, <4>2
    <3> QED BY <3>1, <3>5, <3>6 DEF d
  <2>3. N \in T
    <3> HIDE DEF T
    <3>1. e..N \subseteq T
      BY <1>1, <2>1, <2>2, IntervalInduction
    <3> QED BY <1>1, <3>1
  <2> QED BY <2>3
<1>8. /\ Tape \in Seq(Cells) /\ Len(Tape) = Ends(N) + 2 * Block
      /\ \A i \in 1..(Ends(N) + 2 * Block) :
           Tape[i] = IF i <= Ends(N) THEN Taped[N][i] ELSE z[i - Ends(N)]
  <2>1. Taped[N] \in Seq(Cells)
    BY <1>1, <1>3
  <2>2. /\ Taped[N] \o z \in Seq(Cells) /\ Len(Taped[N] \o z) = Len(Taped[N]) + Len(z)
        /\ \A i \in 1..(Len(Taped[N]) + Len(z)) :
             (Taped[N] \o z)[i] = IF i <= Len(Taped[N]) THEN Taped[N][i] ELSE z[i - Len(Taped[N])]
    <3> DEFINE s == Taped[N]
    <3>1. s \in Seq(Cells) /\ z \in Seq(Cells)
      BY <1>5, <2>1
    <3> HIDE DEF s
    <3>2. /\ s \o z \in Seq(Cells) /\ Len(s \o z) = Len(s) + Len(z)
          /\ \A i \in 1..(Len(s) + Len(z)) :
               (s \o z)[i] = IF i <= Len(s) THEN s[i] ELSE z[i - Len(s)]
      BY <3>1, ConcatProperties
    <3> QED BY <3>2 DEF s
  <2> QED BY <1>2, <1>5, <2>2, Zenon DEF Ends
<1>9. ASSUME NEW e \in 1..N, NEW k \in 1..Len(Extent(e))
      PROVE  Tape[Ends(e - 1) + k] = Extent(e)[k]
  <2> DEFINE i == Ends(e - 1) + k
  <2>1. /\ Ends(e) = Ends(e - 1) + Len(Extent(e)) /\ Len(Extent(e)) \in Nat
        /\ e - 1 \in 0..N /\ e \in 0..N
    BY <1>6
  <2>2. Ends(e) \in Nat /\ Ends(e - 1) \in Nat /\ Ends(N) \in Nat /\ Ends(e) <= Ends(N)
    BY <1>1, <1>3, <1>7, <2>1
  <2>3. /\ i \in 1..Ends(e) /\ i <= Ends(N) /\ i \in 1..(Ends(N) + 2 * Block)
        /\ ~(i <= Ends(e - 1)) /\ i - Ends(e - 1) = k
    BY <1>1, <2>1, <2>2
  <2> HIDE DEF i
  <2>4. Taped[e][i] = Extent(e)[k]
    BY <1>6, <2>3
  <2>5. Tape[i] = Taped[N][i] /\ Taped[N][i] = Taped[e][i]
    BY <1>7, <1>8, <2>1, <2>3
  <2> QED BY <2>4, <2>5 DEF i
<1>10. ASSUME NEW k \in 1..(2 * Block) PROVE Tape[Ends(N) + k] = <<"zero">>
  <2> DEFINE i == Ends(N) + k
  <2>1. i \in 1..(Ends(N) + 2 * Block) /\ ~(i <= Ends(N)) /\ i - Ends(N) = k
    BY <1>1, <1>3
  <2> HIDE DEF i
  <2>2. Tape[i] = z[k]
    BY <1>8, <2>1
  <2> QED BY <1>5, <2>2 DEF i
<1>11. \A e \in 1..N : Ends(e) <= Ends(N)
  BY <1>6, <1>7
<1> QED BY <1>3, <1>4, <1>6, <1>8, <1>9, <1>10, <1>11 DEF N

\* fread within the file.
LEMMA FReadIs ==
  ASSUME archive \in Seq(Headers), NEW o \in Nat, NEW n \in Nat, o + n <= Len(Tape)
  PROVE  FRead(o, n) = [k \in 1..n |-> Tape[o + k]]
<1>1. Tape \in Seq(Cells) /\ Len(Tape) \in Nat /\ \A i \in 1..Len(Tape) : Tape[i] \in Cells
  BY TapeIs, LenProperties
<1>2. FRead(o, n) = SubSeq(Tape, o + 1, o + n)
  <2>1. o + n = Len(Tape) \/ ~(o + n > Len(Tape))
    BY <1>1
  <2> QED BY <2>1 DEF FRead
<1>3. \A i \in (o + 1)..(o + n) : i \in 1..Len(Tape)
  BY <1>1
<1>4. /\ o + 1 \in Int /\ o + n \in Int /\ (IF o + 1 <= o + n THEN o + n - (o + 1) + 1 ELSE 0) = n
      /\ o + n - (o + 1) + 1 = n
  OBVIOUS
<1> DEFINE a == o + 1
           b == o + n
           s == SubSeq(Tape, a, b)
<1>5. /\ s \in Seq(Cells) /\ Len(s) = n
      /\ \A i \in 1..n : s[i] = Tape[o + i]
  <2>1. \A i \in a..b : Tape[i] \in Cells
    BY <1>1, <1>3
  <2>2. a \in Int /\ b \in Int /\ (IF a <= b THEN b - a + 1 ELSE 0) = n /\ b - a + 1 = n
    BY <1>4
  <2>3. \A i \in 1..n : a + i - 1 = o + i
    OBVIOUS
  <2> HIDE DEF a, b
  <2>4. /\ SubSeq(Tape, a, b) \in Seq(Cells)
        /\ Len(SubSeq(Tape, a, b)) = IF a <= b THEN b - a + 1 ELSE 0
        /\ \A i \in 1..(b - a + 1) : SubSeq(Tape, a, b)[i] = Tape[a + i - 1]
    BY <2>1, <2>2, SubSeqProperties
  <2> QED BY <2>2, <2>3, <2>4
<1> HIDE DEF s
<1>6. s = [k \in 1..n |-> s[k]]
  BY <1>5, LenProperties
<1>7. s = [k \in 1..n |-> Tape[o + k]]
  BY <1>5, <1>6
<1> QED BY <1>2, <1>7 DEF s

\* Where the parser reads a header it finds the next entry, and past the
\* last entry it finds the empty block.
LEMMA HeaderAt ==
  ASSUME archive \in Seq(Headers), NEW d \in 0..Len(archive), pos = Ends(d)
  PROVE  /\ d < Len(archive) => AtHeader /\ Head(FRead(pos, Block))[2] = d + 1
         /\ d = Len(archive) => ~AtHeader
<1>1. /\ Ends(d) \in Nat /\ Block \in Nat \ {0} /\ Len(archive) \in Nat
      /\ DOMAIN archive = 1..Len(archive) /\ Len(Tape) = Ends(Len(archive)) + 2 * Block
      /\ Ends(Len(archive)) \in Nat
  BY TapeIs, BlockAssumption, LenProperties
<1>2. ASSUME pos + Block <= Len(Tape)
      PROVE  FRead(pos, Block) # <<>> /\ Head(FRead(pos, Block)) = Tape[pos + 1]
  <2>1. FRead(pos, Block) = [k \in 1..Block |-> Tape[pos + k]]
    <3>1. pos \in Nat /\ Block \in Nat
      BY <1>1
    <3> QED BY <1>2, <3>1, FReadIs
  <2> DEFINE s == [k \in 1..Block |-> Tape[pos + k]]
  <2>2. 1 \in DOMAIN s /\ s[1] = Tape[pos + 1]
    BY <1>1
  <2>3. s # <<>> /\ Head(s) = s[1]
    BY <2>2
  <2> QED BY <2>1, <2>2, <2>3
<1>3. CASE d < Len(archive)
  <2> DEFINE e == d + 1
  <2>1. e \in 1..Len(archive) /\ e \in DOMAIN archive /\ e - 1 = d
    BY <1>1, <1>3
  <2> HIDE DEF e
  <2>2. /\ Ends(e) = Ends(e - 1) + Len(Extent(e)) /\ Ends(e) <= Ends(Len(archive))
        /\ \A k \in 1..Len(Extent(e)) : Tape[Ends(e - 1) + k] = Extent(e)[k]
    BY <2>1, TapeIs
  <2>3. /\ Block + archive[e].size <= Len(Extent(e)) /\ Extent(e)[1] = <<"header", e>>
        /\ archive[e].size \in Nat /\ Len(Extent(e)) \in Nat
    BY <2>1, ExtentIs, EntryIs, LenProperties
  <2>4. 1 \in 1..Len(Extent(e)) /\ pos + Block <= Len(Tape)
    <3>1. Ends(e) = pos + Len(Extent(e))
      BY <2>1, <2>2
    <3>2. pos \in Nat /\ Ends(e) <= Ends(Len(archive))
      BY <1>1, <2>2
    <3>3. Block <= Len(Extent(e)) /\ 1 \in 1..Len(Extent(e))
      <4>1. \A b, n, x \in Nat : b # 0 /\ b + n <= x => b <= x /\ 1 \in 1..x
        OBVIOUS
      <4>2. Block \in Nat /\ Block # 0
        BY <1>1
      <4> QED BY <2>3, <4>1, <4>2
    <3>4. pos + Block <= Ends(Len(archive))
      BY <1>1, <2>3, <3>1, <3>2, <3>3
    <3>5. Ends(Len(archive)) <= Len(Tape)
      BY <1>1
    <3> QED BY <1>1, <3>2, <3>3, <3>4, <3>5
  <2>5. Tape[pos + 1] = <<"header", e>>
    BY <2>1, <2>2, <2>3, <2>4
  <2>6. Head(FRead(pos, Block)) = <<"header", e>> /\ FRead(pos, Block) # <<>>
    BY <1>2, <2>4, <2>5
  <2>7. AtHeader
    BY <2>6 DEF AtHeader
  <2> QED BY <1>3, <2>6, <2>7 DEF e
<1>4. CASE d = Len(archive)
  <2>1. pos + Block <= Len(Tape) /\ 1 \in 1..(2 * Block)
    BY <1>1, <1>4
  <2>2. Tape[pos + 1] = <<"zero">>
    BY <1>4, <2>1, TapeIs
  <2>3. Head(FRead(pos, Block))[1] = "zero"
    BY <1>2, <2>1, <2>2
  <2>4. ~AtHeader
    BY <2>3 DEF AtHeader
  <2> QED BY <1>1, <1>4, <2>4
<1> QED BY <1>1, <1>3, <1>4

---------------------------------------------------------------------------
(* The invariant: after d entries both positions are at the end of the     *)
(* d-th, and the tree shows what the first d entries say.                  *)

Implied(d) == {<<>>} \cup UNION {Prefixes(archive[e].path) : e \in 1..d}
Entries(path, d) == {e \in 1..d : archive[e].path = path}
DefaultName(path) == IF path = <<>> THEN "/" ELSE Last(path)

Wanted(path, d) ==
  IF Entries(path, d) = {} THEN Attr(DefaultDir(DefaultName(path)))
  ELSE LET e == Max(Entries(path, d)) IN Attr(EntryNode(e, Ends(e - 1) + Block))

Shows(t, w, d) ==
  /\ IsTree(t, w)
  /\ \A m \in DOMAIN t : w[m] \in Implied(d) /\ Attr(t[m]) = Wanted(w[m], d)
  /\ \A path \in Implied(d) : \E m \in DOMAIN t : w[m] = path

Parsed(d) == pos = Ends(d) /\ cur = Ends(d) /\ \E w : Shows(nodes, w, d)

IndInv ==
  /\ archive \in Seq(Headers)
  /\ phase \in {"parsing", "mounted"}
  /\ \E d \in 0..Len(archive) : Parsed(d) /\ (phase = "mounted" => d = Len(archive))

LEMMA EntryNodeIs ==
  ASSUME archive \in Seq(Headers), NEW e \in DOMAIN archive, NEW offset \in Nat
  PROVE  LET node == EntryNode(e, offset)
         IN node \in Node /\ node.childs = <<>> /\ node.name = Last(archive[e].path)
<1>1. /\ archive[e].path \in Seq(Parts) /\ archive[e].path # <<>>
      /\ archive[e].typeflag \in Types /\ archive[e].size \in Nat /\ e \in Nat
  BY EntryIs, LenProperties
<1>2. Last(archive[e].path) \in Parts
  BY <1>1, EmptySeq, PrefixSteps DEF Last
<1>3. <<>> \in Seq(Nat)
  OBVIOUS
<1>4. <<archive[e].typeflag, e>> \in Types \X ({"0755"} \cup Nat)
      /\ <<"target", e>> \in {"target"} \X Nat
  BY <1>1
<1> QED BY <1>1, <1>2, <1>3, <1>4 DEF EntryNode, Node

\* The last of the first d entries of a path.
LEMMA LastEntry ==
  ASSUME NEW d \in Nat, NEW path
  PROVE  /\ Entries(path, d) # {} =>
              /\ Max(Entries(path, d)) \in Entries(path, d)
              /\ \A e \in Entries(path, d) : e <= Max(Entries(path, d))
         /\ Entries(path, d + 1) = IF archive[d + 1].path = path
                                   THEN Entries(path, d) \cup {d + 1} ELSE Entries(path, d)
         /\ archive[d + 1].path = path => Max(Entries(path, d + 1)) = d + 1
<1>1. ASSUME NEW n \in Nat, Entries(path, n) # {}
      PROVE  /\ Max(Entries(path, n)) \in Entries(path, n)
             /\ \A e \in Entries(path, n) : e <= Max(Entries(path, n))
  <2>1. Entries(path, n) \in SUBSET Nat /\ \A e \in Entries(path, n) : e <= n
    BY DEF Entries
  <2> QED BY <1>1, <2>1, MaxOf
<1>2. 1..(d + 1) = 1..d \cup {d + 1}
  OBVIOUS
<1>3. Entries(path, d + 1) = IF archive[d + 1].path = path
                             THEN Entries(path, d) \cup {d + 1} ELSE Entries(path, d)
  BY <1>2 DEF Entries
<1>4. ASSUME archive[d + 1].path = path PROVE Max(Entries(path, d + 1)) = d + 1
  <2>1. d + 1 \in Entries(path, d + 1) /\ d + 1 \in Nat
    BY <1>3, <1>4
  <2>2. \A e \in Entries(path, d + 1) : e \in Nat /\ e <= d + 1
    BY DEF Entries
  <2>3. Max(Entries(path, d + 1)) \in Entries(path, d + 1) /\ d + 1 <= Max(Entries(path, d + 1))
    BY <1>1, <2>1
  <2> QED BY <2>1, <2>2, <2>3
<1> QED BY <1>1, <1>3, <1>4

LEMMA ImpliedIs ==
  ASSUME archive \in Seq(Headers), NEW d \in 0..Len(archive)
  PROVE  /\ \A path \in Implied(d) : path \in Seq(Parts)
         /\ \A path : Entries(path, d) # {} => path \in Implied(d) /\ path # <<>>
         /\ d < Len(archive) =>
              Implied(d + 1) = Implied(d) \cup Prefixes(archive[d + 1].path)
<1>1. Len(archive) \in Nat /\ DOMAIN archive = 1..Len(archive)
  BY LenProperties
<1>2. \A e \in 1..d : e \in DOMAIN archive
  BY <1>1
<1>3. ASSUME NEW e \in 1..d
      PROVE  /\ archive[e].path \in Prefixes(archive[e].path) /\ archive[e].path # <<>>
             /\ \A path \in Prefixes(archive[e].path) : path \in Seq(Parts)
  <2>1. archive[e].path \in Seq(Parts) /\ archive[e].path # <<>>
    BY <1>2, EntryIs
  <2> DEFINE p == archive[e].path
  <2>2. Len(p) \in 0..Len(p) /\ SubSeq(p, 1, Len(p)) = p
        /\ \A l \in 0..Len(p) : SubSeq(p, 1, l) \in Seq(Parts)
    BY <2>1, PrefixSteps DEF Prefix
  <2> QED BY <2>1, <2>2 DEF Prefixes
<1>4. \A path \in Implied(d) : path \in Seq(Parts)
  <2>1. <<>> \in Seq(Parts)
    OBVIOUS
  <2> QED BY <1>3, <2>1 DEF Implied
<1>5. \A path : Entries(path, d) # {} => path \in Implied(d) /\ path # <<>>
  BY <1>3 DEF Implied, Entries
<1>6. 1..(d + 1) = 1..d \cup {d + 1}
  BY <1>1
<1>7. Implied(d + 1) = Implied(d) \cup Prefixes(archive[d + 1].path)
  BY <1>6 DEF Implied
<1> QED BY <1>4, <1>5, <1>7

LEMMA InitShows ==
  ASSUME Init
  PROVE  IndInv
<1>1. PICK n \in 0..MaxEntries : archive \in [1..n -> Headers]
  BY DEF Init
<1>2. n \in Nat /\ archive \in Seq(Headers) /\ Len(archive) \in Nat /\ 0 \in 0..Len(archive)
  BY <1>1, EntriesAssumption
<1> DEFINE t == <<DefaultDir("/")>>
           w == [m \in {1} |-> <<>>]
<1>3. DOMAIN t = {1} /\ t[1] = DefaultDir("/") /\ t # <<>> /\ t \in Seq(Node)
  <2>1. DefaultDir("/") \in Node
    <3>1. <<"dir", "0755">> \in Types \X ({"0755"} \cup Nat) /\ <<>> \in Seq(Nat)
      BY DEF Types
    <3> QED BY <3>1 DEF DefaultDir, Node, Types
  <2> QED BY <2>1
<1>4. w[1] = <<>> /\ w \in [DOMAIN t -> Seq(Parts)] /\ <<>> \in Seq(Parts)
  BY <1>3
<1>5. IsTree(t, w)
  <2>1. t[1].childs = <<>>
    BY <1>3 DEF DefaultDir
  <2>2. HasChilds(t, w, 1)
    <3> HIDE DEF t, w
    <3> QED BY <2>1 DEF HasChilds
  <2> HIDE DEF t, w
  <2> QED BY <1>3, <1>4, <2>2 DEF IsTree, Root
<1>6. Implied(0) = {<<>>} /\ Entries(<<>>, 0) = {}
  <2>1. 1..0 = {}
    OBVIOUS
  <2> QED BY <2>1 DEF Implied, Entries
<1>7. Attr(t[1]) = Wanted(<<>>, 0)
  BY <1>3, <1>6 DEF Wanted, DefaultName
<1> HIDE DEF t, w
<1>8. Shows(t, w, 0)
  BY <1>3, <1>4, <1>5, <1>6, <1>7 DEF Shows
<1>9. pos = 0 /\ cur = 0 /\ nodes = t /\ phase = "parsing"
  BY DEF Init, t
<1>10. Parsed(0)
  BY <1>2, <1>8, <1>9, TapeIs DEF Parsed
<1> QED BY <1>2, <1>9, <1>10 DEF IndInv

\* Parsing entry d + 1 into a tree that shows the first d.
LEMMA EntryShows ==
  ASSUME archive \in Seq(Headers), NEW d \in 0..(Len(archive) - 1),
         NEW t, NEW w, Shows(t, w, d), NEW t2, NEW w2,
         HasStored(t, w, archive[d + 1].path, EntryNode(d + 1, Ends(d) + Block), t2, w2)
  PROVE  Shows(t2, w2, d + 1)
<1> DEFINE e == d + 1
           path == archive[e].path
<1>1. /\ Len(archive) \in Nat /\ d \in Nat /\ e \in DOMAIN archive /\ e - 1 = d
      /\ d \in 0..Len(archive) /\ d < Len(archive)
  BY LenProperties
<1>2. path \in Seq(Parts) /\ path # <<>> /\ Len(path) \in 0..Len(path)
  BY <1>1, EntryIs, PrefixSteps
<1>3. Implied(e) = Implied(d) \cup Prefixes(path)
  BY <1>1, ImpliedIs
<1>4. /\ \A p : Entries(p, e) = IF path = p THEN Entries(p, d) \cup {e} ELSE Entries(p, d)
      /\ Max(Entries(path, e)) = e
  BY <1>1, LastEntry
<1> HIDE DEF e, path
<1>5. /\ IsTree(t, w)
      /\ \A m \in DOMAIN t : w[m] \in Implied(d) /\ Attr(t[m]) = Wanted(w[m], d)
      /\ \A p \in Implied(d) : \E m \in DOMAIN t : w[m] = p
  BY DEF Shows
<1>6. /\ IsTree(t2, w2)
      /\ \A m \in DOMAIN t2 :
           \/ w2[m] = path /\ Attr(t2[m]) = Attr(EntryNode(e, Ends(e - 1) + Block))
           \/ w2[m] # path /\ \E x \in DOMAIN t : w2[m] = w[x] /\ Attr(t2[m]) = Attr(t[x])
           \/ /\ w2[m] # path /\ w2[m] # <<>> /\ \A x \in DOMAIN t : w[x] # w2[m]
              /\ \E j \in 0..Len(path) : w2[m] = Prefix(path, j)
              /\ Attr(t2[m]) = Attr(DefaultDir(Last(w2[m])))
      /\ \A x \in DOMAIN t : \E m \in DOMAIN t2 : w2[m] = w[x]
      /\ \A j \in 0..Len(path) : \E m \in DOMAIN t2 : w2[m] = Prefix(path, j)
  BY <1>1 DEF HasStored, e, path
<1>7. \A j \in 0..Len(path) : Prefix(path, j) \in Prefixes(path)
  BY DEF Prefix, Prefixes
<1>8. \A p \in Prefixes(path) : \E j \in 0..Len(path) : p = Prefix(path, j)
  BY DEF Prefix, Prefixes
<1>9. ASSUME NEW p, p # path
      PROVE  Wanted(p, e) = Wanted(p, d)
  BY <1>4, <1>9 DEF Wanted
<1>10. ASSUME NEW m \in DOMAIN t2
       PROVE  w2[m] \in Implied(e) /\ Attr(t2[m]) = Wanted(w2[m], e)
  <2>1. CASE w2[m] = path /\ Attr(t2[m]) = Attr(EntryNode(e, Ends(e - 1) + Block))
    <3>1. path \in Prefixes(path)
      BY <1>2, <1>7, PrefixSteps
    <3>2. Entries(path, e) # {}
      BY <1>4
    <3>3. Wanted(path, e) = Attr(EntryNode(e, Ends(e - 1) + Block))
      BY <1>4, <3>2 DEF Wanted
    <3> QED BY <1>3, <2>1, <3>1, <3>3
  <2>2. CASE w2[m] # path /\ \E x \in DOMAIN t : w2[m] = w[x] /\ Attr(t2[m]) = Attr(t[x])
    <3>1. PICK x \in DOMAIN t : w2[m] = w[x] /\ Attr(t2[m]) = Attr(t[x])
      BY <2>2
    <3>2. w[x] \in Implied(d) /\ Attr(t[x]) = Wanted(w[x], d)
      BY <1>5
    <3> QED BY <1>3, <1>9, <2>2, <3>1, <3>2
  <2>3. CASE /\ w2[m] # path /\ w2[m] # <<>> /\ \A x \in DOMAIN t : w[x] # w2[m]
             /\ \E j \in 0..Len(path) : w2[m] = Prefix(path, j)
             /\ Attr(t2[m]) = Attr(DefaultDir(Last(w2[m])))
    <3>1. w2[m] \in Prefixes(path)
      BY <1>7, <2>3
    <3>2. w2[m] \notin Implied(d)
      BY <1>5, <2>3
    <3>3. Entries(w2[m], d) = {}
      BY <1>1, <3>2, ImpliedIs
    <3>4. Wanted(w2[m], d) = Attr(DefaultDir(Last(w2[m])))
      BY <2>3, <3>3 DEF Wanted, DefaultName
    <3> QED BY <1>3, <1>9, <2>3, <3>1, <3>4
  <2> QED BY <1>6, <2>1, <2>2, <2>3
<1>11. ASSUME NEW p \in Implied(e) PROVE \E m \in DOMAIN t2 : w2[m] = p
  <2>1. CASE p \in Implied(d)
    <3>1. PICK x \in DOMAIN t : w[x] = p
      BY <1>5, <2>1
    <3> QED BY <1>6, <3>1
  <2>2. CASE p \in Prefixes(path)
    BY <1>6, <1>8, <2>2
  <2> QED BY <1>3, <2>1, <2>2
<1>12. Shows(t2, w2, e)
  BY <1>6, <1>10, <1>11 DEF Shows
<1> QED BY <1>12 DEF e

\* What is said of an archive does not change while the archive does not.
LEMMA SameArchive ==
  ASSUME archive' = archive
  PROVE  /\ \A e : Ends(e)' = Ends(e)
         /\ \A t, w, d : Shows(t, w, d) => Shows(t, w, d)'
<1>1. \A e : Ends(e)' = Ends(e)
  BY DEF Ends, Taped, Extent, Content
<1>2. \A d : Implied(d)' = Implied(d)
  BY DEF Implied
<1>3. \A p, d : Wanted(p, d)' = Wanted(p, d)
  <2>1. \A p, d : Entries(p, d)' = Entries(p, d)
    BY DEF Entries
  <2>2. \A e, o : EntryNode(e, o)' = EntryNode(e, o)
    BY DEF EntryNode
  <2> QED BY <1>1, <2>1, <2>2 DEF Wanted
<1>4. \A t, w, d : Shows(t, w, d) => Shows(t, w, d)'
  BY <1>2, <1>3 DEF Shows
<1> QED BY <1>1, <1>4

LEMMA ParseEntryShows ==
  ASSUME IndInv, ParseEntry
  PROVE  IndInv'
<1>1. /\ archive \in Seq(Headers) /\ phase = "parsing" /\ AtHeader
      /\ archive' = archive /\ phase' = phase
  BY DEF IndInv, ParseEntry
<1>2. PICK d \in 0..Len(archive) : Parsed(d)
  BY DEF IndInv
<1>3. PICK w : pos = Ends(d) /\ cur = Ends(d) /\ Shows(nodes, w, d)
  BY <1>2 DEF Parsed
<1> DEFINE e == d + 1
           path == archive[e].path
           parent == get_parent_node(nodes, path)
           node == EntryNode(e, cur + Block)
<1>4. d < Len(archive) /\ Head(FRead(pos, Block))[2] = e
  <2>1. Len(archive) \in Nat
    BY <1>1, LenProperties
  <2> QED BY <1>1, <1>3, <2>1, HeaderAt
<1>5. /\ e \in DOMAIN archive /\ e - 1 = d /\ d \in 0..(Len(archive) - 1)
      /\ e \in 1..Len(archive) /\ e \in 0..Len(archive)
      /\ Ends(d) \in Nat /\ Block \in Nat /\ cur + Block \in Nat
  <2>1. Len(archive) \in Nat /\ DOMAIN archive = 1..Len(archive)
    BY <1>1, LenProperties
  <2>2. Ends(d) \in Nat
    BY <1>1, TapeIs
  <2> QED BY <1>3, <1>4, <2>1, <2>2, BlockAssumption
<1>6. /\ nodes' = Store(parent.nodes, parent.curr, node)
      /\ pos' = pos + Block + ContentBlocks(archive[e].size) * Block
      /\ cur' = cur + Block + ContentBlocks(archive[e].size) * Block
  BY <1>4 DEF ParseEntry
<1>7. path \in Seq(Parts) /\ path # <<>>
  BY <1>1, <1>5, EntryIs
<1>8. node \in Node /\ node.childs = <<>> /\ node.name = Last(path)
  BY <1>1, <1>5, EntryNodeIs
<1>9. IsTree(nodes, w)
  BY <1>3 DEF Shows
<1>10. PICK w2 : HasStored(nodes, w, path, node, nodes', w2)
  <2> HIDE DEF path, node
  <2> QED BY <1>6, <1>7, <1>8, <1>9, StorePath
<1>11. Shows(nodes', w2, e)
  BY <1>1, <1>3, <1>5, <1>10, EntryShows
<1>12. pos' = Ends(e) /\ cur' = Ends(e)
  <2>1. Ends(e) = Ends(d) + Len(Extent(e))
    <3> HIDE DEF e
    <3>1. Ends(e) = Ends(e - 1) + Len(Extent(e))
      BY <1>1, <1>5, TapeIs
    <3> QED BY <1>5, <3>1
  <2>2. Len(Extent(e)) = Block + ContentBlocks(archive[e].size) * Block
    BY <1>1, <1>5, ExtentIs
  <2>3. ContentBlocks(archive[e].size) * Block \in Nat
    <3>1. archive[e].size \in Nat
      BY <1>1, <1>5, EntryIs
    <3>2. ContentBlocks(archive[e].size) * Block = archive[e].size + Padding(archive[e].size)
          /\ Padding(archive[e].size) \in Nat
      BY <3>1, Skipped
    <3> QED BY <3>1, <3>2
  <2> HIDE DEF e
  <2> QED BY <1>3, <1>5, <1>6, <2>1, <2>2, <2>3
<1> HIDE DEF e
<1>13. PICK t2 : t2 = nodes'
  OBVIOUS
<1>14. Parsed(e)'
  <2>1. Shows(t2, w2, e)'
    BY <1>1, <1>11, <1>13, SameArchive
  <2>2. Shows(nodes, w2, e)'
    BY <1>13, <2>1 DEF Shows
  <2> QED BY <1>1, <1>12, <2>2, SameArchive DEF Parsed
<1> QED BY <1>1, <1>5, <1>14 DEF IndInv

LEMMA MountShows ==
  ASSUME IndInv, Mount
  PROVE  IndInv'
<1>1. /\ archive \in Seq(Headers) /\ ~AtHeader /\ phase' = "mounted"
      /\ archive' = archive /\ pos' = pos /\ cur' = cur /\ nodes' = nodes
  BY DEF IndInv, Mount
<1>2. PICK d \in 0..Len(archive) : Parsed(d)
  BY DEF IndInv
<1>3. d = Len(archive)
  <2>1. Len(archive) \in Nat /\ pos = Ends(d)
    BY <1>1, <1>2, LenProperties DEF Parsed
  <2> QED BY <1>1, <2>1, HeaderAt
<1>4. Parsed(d)'
  BY <1>1, <1>2, SameArchive DEF Parsed
<1> QED BY <1>1, <1>2, <1>3, <1>4 DEF IndInv

LEMMA StutterShows ==
  ASSUME IndInv, UNCHANGED vars
  PROVE  IndInv'
<1>1. archive' = archive /\ pos' = pos /\ cur' = cur /\ nodes' = nodes /\ phase' = phase
  BY DEF vars
<1>2. PICK d \in 0..Len(archive) : Parsed(d) /\ (phase = "mounted" => d = Len(archive))
  BY DEF IndInv
<1>3. Parsed(d)'
  BY <1>1, <1>2, SameArchive DEF Parsed
<1> QED BY <1>1, <1>2, <1>3 DEF IndInv

THEOREM TreeShowsArchive == Spec => []IndInv
<1>1. Init => IndInv
  BY InitShows
<1>2. IndInv /\ [Next]_vars => IndInv'
  BY ParseEntryShows, MountShows, StutterShows DEF Next
<1> QED BY <1>1, <1>2, PTL DEF Spec

---------------------------------------------------------------------------
(* What the handlers answer.                                               *)

\* The node that a handler finds for a path of the archive.
LEMMA Answer ==
  ASSUME IndInv, phase = "mounted", NEW path \in ImpliedPaths
  PROVE  LET n == find_node(nodes, path)
             node == nodes[n]
             e == LastOf(path)
         IN /\ n # NULL /\ path \in Seq(Parts)
            /\ \E w : Shows(nodes, w, Len(archive)) /\ n \in DOMAIN nodes /\ w[n] = path
            /\ Named(path) = {} => node.mode = <<"dir", "0755">> /\ node.type = "dir"
            /\ Named(path) # {} =>
                 /\ e \in DOMAIN archive /\ archive[e].path = path
                 /\ node.type = archive[e].typeflag /\ node.size = archive[e].size
                 /\ node.meta = e /\ node.offset = Ends(e - 1) + Block
                 /\ archive[e].typeflag # "other" => node.mode = <<archive[e].typeflag, e>>
                 /\ archive[e].typeflag = "link" => node.link = <<"target", e>>
<1> DEFINE N == Len(archive)
           n == find_node(nodes, path)
           node == nodes[n]
           e == LastOf(path)
<1>1. archive \in Seq(Headers) /\ N \in Nat /\ DOMAIN archive = 1..N /\ N \in 0..N
  BY LenProperties DEF IndInv
<1>2. PICK w : Shows(nodes, w, N)
  BY DEF IndInv, Parsed
<1>3. ImpliedPaths = Implied(N) /\ Named(path) = Entries(path, N)
  BY <1>1 DEF ImpliedPaths, Implied, Named, Entries
<1>4. path \in Seq(Parts)
  BY <1>1, <1>3, ImpliedIs
<1>5. IsTree(nodes, w) /\ \E m \in DOMAIN nodes : w[m] = path
  BY <1>2, <1>3 DEF Shows
<1>6. n \in DOMAIN nodes /\ w[n] = path
  BY <1>4, <1>5, FindIs
<1>7. n # NULL
  BY <1>5, <1>6, TreeDomain
<1> HIDE DEF n
<1>8. Attr(node) = Wanted(path, N)
  BY <1>2, <1>6 DEF Shows
<1>9. ASSUME Named(path) = {} PROVE node.mode = <<"dir", "0755">> /\ node.type = "dir"
  <2>1. Attr(node) = Attr(DefaultDir(DefaultName(path)))
    BY <1>3, <1>8, <1>9 DEF Wanted
  <2> HIDE DEF node
  <2> QED BY <2>1 DEF Attr, DefaultDir
<1>10. ASSUME Named(path) # {}
       PROVE  /\ e \in DOMAIN archive /\ archive[e].path = path
              /\ node.type = archive[e].typeflag /\ node.size = archive[e].size
              /\ node.meta = e /\ node.offset = Ends(e - 1) + Block
              /\ archive[e].typeflag # "other" => node.mode = <<archive[e].typeflag, e>>
              /\ archive[e].typeflag = "link" => node.link = <<"target", e>>
  <2> DEFINE f == Max(Entries(path, N))
  <2>1. f \in Named(path) /\ \A x \in Named(path) : x <= f
    BY <1>1, <1>3, <1>10, LastEntry
  <2> HIDE DEF f
  <2>2. e \in Named(path) /\ \A x \in Named(path) : x <= e
    BY <2>1 DEF LastOf
  <2>3. \A x \in Named(path) : x \in Nat /\ x \in DOMAIN archive /\ archive[x].path = path
    BY <1>1 DEF Named
  <2> HIDE DEF e
  <2>4. e = f
    BY <2>1, <2>2, <2>3
  <2>5. Attr(node) = Attr(EntryNode(e, Ends(e - 1) + Block))
    BY <1>3, <1>8, <1>10, <2>4 DEF Wanted, f
  <2>6. archive[e].typeflag \in {"dir", "link"} => archive[e].size = 0
    BY <1>1, <2>2, <2>3, EntryIs
  <2> HIDE DEF node
  <2> QED BY <2>2, <2>3, <2>5, <2>6 DEF Attr, EntryNode
<1> QED BY <1>2, <1>4, <1>6, <1>7, <1>9, <1>10 DEF n

\* What getattr and readlink answer for every path of the archive is what
\* its last entry says, or a default directory if it has none.
THEOREM MirrorsArchiveAlways == Spec => []MirrorsArchive
<1>1. IndInv => MirrorsArchive
  <2> SUFFICES ASSUME IndInv, phase = "mounted", NEW path \in ImpliedPaths \ {<<>>}
               PROVE  IF Named(path) = {}
                      THEN my_getattr(path).mode = <<"dir", "0755">>
                      ELSE LET e == LastOf(path) flag == archive[e].typeflag
                           IN flag # "other" =>
                                /\ my_getattr(path)
                                     = [mode |-> <<flag, e>>, size |-> archive[e].size, meta |-> e]
                                /\ my_readlink(path) = IF flag = "link" THEN <<"target", e>>
                                                       ELSE <<"EINVAL">>
    BY DEF MirrorsArchive
  <2> DEFINE n == find_node(nodes, path)
             e == LastOf(path)
  <2>1. path \in ImpliedPaths /\ n # NULL
    BY Answer
  <2>2. my_getattr(path) = [mode |-> nodes[n].mode, size |-> nodes[n].size, meta |-> nodes[n].meta]
    BY <2>1 DEF my_getattr
  <2>3. my_readlink(path) = IF nodes[n].type # "link" THEN <<"EINVAL">> ELSE nodes[n].link
    BY <2>1 DEF my_readlink
  <2>4. CASE Named(path) = {}
    BY <2>1, <2>2, <2>4, Answer
  <2>5. CASE Named(path) # {}
    <3>1. /\ nodes[n].type = archive[e].typeflag /\ nodes[n].size = archive[e].size
          /\ nodes[n].meta = e
          /\ archive[e].typeflag # "other" => nodes[n].mode = <<archive[e].typeflag, e>>
          /\ archive[e].typeflag = "link" => nodes[n].link = <<"target", e>>
      BY <2>1, <2>5, Answer
    <3> HIDE DEF n, e
    <3>2. archive[e].typeflag # "other" =>
            /\ my_getattr(path)
                 = [mode |-> <<archive[e].typeflag, e>>, size |-> archive[e].size, meta |-> e]
            /\ my_readlink(path) = IF archive[e].typeflag = "link" THEN <<"target", e>>
                                   ELSE <<"EINVAL">>
      BY <2>2, <2>3, <3>1
    <3> QED BY <2>5, <3>2 DEF e
  <2> QED BY <2>4, <2>5
<1> QED BY <1>1, TreeShowsArchive, PTL

\* The bytes that an entry's content has on the tape.
LEMMA ContentAt ==
  ASSUME archive \in Seq(Headers), NEW e \in DOMAIN archive,
         NEW i \in Nat, NEW n \in Nat, i + n <= archive[e].size
  PROVE  FRead(Ends(e - 1) + Block + i, n) = [k \in 1..n |-> Content(e)[i + k]]
<1> DEFINE N == Len(archive)
           o == Ends(e - 1) + Block + i
           size == archive[e].size
           X == Len(Extent(e))
<1>1. /\ e \in 1..N /\ e - 1 \in 0..N /\ N \in 0..N
      /\ Ends(e - 1) \in Nat /\ Ends(N) \in Nat /\ Ends(e) \in Nat
  <2>1. N \in Nat /\ DOMAIN archive = 1..N
    BY LenProperties
  <2>2. e \in 1..N /\ e - 1 \in 0..N /\ e \in 0..N /\ N \in 0..N
    BY <2>1
  <2> QED BY <2>2, TapeIs
<1>2. Block \in Nat \ {0} /\ size \in Nat
  BY EntryIs, BlockAssumption
<1>3. /\ X \in Nat /\ Block + size <= X
      /\ \A k \in 1..size : Extent(e)[Block + k] = Content(e)[k]
  BY ExtentIs, LenProperties
<1>4. /\ Ends(e) = Ends(e - 1) + X /\ Ends(e) <= Ends(N)
      /\ \A k \in 1..X : Tape[Ends(e - 1) + k] = Extent(e)[k]
      /\ Len(Tape) = Ends(N) + 2 * Block
  BY <1>1, TapeIs
<1> HIDE DEF N, size, X
<1>5. i + n <= size
  BY DEF size
<1>6. o \in Nat /\ o + n <= Len(Tape)
  <2>1. o \in Nat /\ o + n <= Ends(e - 1) + X
    <3>1. \A a, b, c, x \in Nat : b + c <= x /\ i + n <= c => a + b + i + n <= a + x
      OBVIOUS
    <3>2. Block + size <= X /\ X \in Nat
      BY <1>3
    <3>3. o \in Nat
      BY <1>1, <1>2
    <3> QED BY <1>1, <1>2, <1>5, <3>1, <3>2, <3>3
  <2>2. Ends(e - 1) + X <= Len(Tape)
    BY <1>1, <1>2, <1>4
  <2>3. Len(Tape) \in Nat
    BY <1>1, <1>2, <1>4
  <2> HIDE DEF o
  <2> QED BY <1>1, <1>3, <2>1, <2>2, <2>3
<1>7. FRead(o, n) = [k \in 1..n |-> Tape[o + k]]
  <2> HIDE DEF o
  <2> QED BY <1>6, FReadIs
<1>8. ASSUME NEW k \in 1..n PROVE Tape[o + k] = Content(e)[i + k]
  <2> DEFINE j == i + k
             m == Block + j
  <2>1. j \in 1..size /\ m \in 1..X /\ o + k = Ends(e - 1) + m
    <3>1. j \in 1..size
      BY <1>2, <1>5
    <3>2. Block \in Nat /\ X \in Nat /\ Block + size <= X
      BY <1>2, <1>3
    <3> HIDE DEF j
    <3>3. m \in 1..X
      BY <1>2, <3>1, <3>2
    <3>4. o + k = Ends(e - 1) + m
      <4>1. Ends(e - 1) \in Nat /\ Block \in Nat /\ k \in Nat
        BY <1>1, <3>2
      <4> QED BY <4>1 DEF j
    <3> QED BY <3>1, <3>3, <3>4
  <2> HIDE DEF o, j
  <2>2. Extent(e)[m] = Content(e)[j]
    BY <1>3, <2>1
  <2> HIDE DEF m
  <2>3. Tape[Ends(e - 1) + m] = Extent(e)[m]
    BY <1>4, <2>1
  <2> QED BY <2>1, <2>2, <2>3 DEF j
<1> HIDE DEF o
<1>9. FRead(o, n) = [k \in 1..n |-> Content(e)[i + k]]
  BY <1>7, <1>8
<1> QED BY <1>9 DEF o

\* read returns the bytes that were asked for, and nothing that is not
\* content of the file; without the archive it says so.
THEOREM ReadsContentAlways == Spec => []ReadsContent
<1>1. IndInv => ReadsContent
  <2> SUFFICES ASSUME IndInv, phase = "mounted", NEW e \in DOMAIN archive,
                      e = LastOf(archive[e].path),
                      NEW offset \in 0..(archive[e].size + 1),
                      NEW size \in 0..(archive[e].size + 1)
               PROVE  /\ my_read(archive[e].path, size, offset, TRUE)
                           = [k \in 1..Min({size, Max({archive[e].size - offset, 0})}) |->
                                Content(e)[offset + k]]
                      /\ my_read(archive[e].path, size, offset, FALSE)
                           = IF offset < archive[e].size THEN <<"errno">> ELSE <<>>
    BY DEF ReadsContent
  <2> DEFINE path == archive[e].path
             s == archive[e].size
             n == find_node(nodes, path)
             start == Ends(e - 1) + Block
             left == s - offset
  <2>1. archive \in Seq(Headers) /\ s \in Nat /\ offset \in Nat /\ size \in Nat
    <3>1. archive \in Seq(Headers)
      BY DEF IndInv
    <3>2. s \in Nat
      BY <3>1, EntryIs
    <3> QED BY <3>1, <3>2
  <2>2. path \in ImpliedPaths /\ Named(path) # {}
    <3>1. Len(path) \in 0..Len(path) /\ SubSeq(path, 1, Len(path)) = path
      <4>1. path \in Seq(Parts)
        BY <2>1, EntryIs
      <4> HIDE DEF path
      <4> QED BY <4>1, PrefixSteps DEF Prefix
    <3>2. path \in Prefixes(path)
      BY <3>1 DEF Prefixes
    <3> QED BY <3>2 DEF ImpliedPaths, Named
  <2>3. n # NULL /\ nodes[n].size = s /\ nodes[n].offset = start
    BY <2>2, Answer
  <2>4. start \in Nat
    <3>1. Len(archive) \in Nat /\ DOMAIN archive = 1..Len(archive)
      BY <2>1, LenProperties
    <3>2. e - 1 \in 0..Len(archive)
      BY <3>1
    <3>3. Ends(e - 1) \in Nat
      BY <2>1, <3>2, TapeIs
    <3> QED BY <3>3, BlockAssumption
  <2>5. /\ my_read(path, size, offset, TRUE)
             = IF offset >= s THEN <<>>
               ELSE FRead(start + offset, IF offset + size > s THEN s - offset ELSE size)
        /\ my_read(path, size, offset, FALSE) = IF offset >= s THEN <<>> ELSE <<"errno">>
    <3> HIDE DEF path, s, start
    <3> QED BY <2>3 DEF my_read, n
  <2> HIDE DEF s, start, n
  <2>6. CASE offset >= s
    <3>1. Max({left, 0}) = 0
      <4>1. left \in Int /\ left <= 0
        BY <2>1, <2>6
      <4> HIDE DEF left
      <4> QED BY <4>1 DEF Max
    <3>2. Min({size, 0}) = 0
      BY <2>1 DEF Min
    <3>3. [k \in 1..0 |-> Content(e)[offset + k]] = <<>>
      OBVIOUS
    <3>4. ~(offset < s)
      BY <2>1, <2>6
    <3> QED BY <2>5, <2>6, <3>1, <3>2, <3>3, <3>4 DEF s
  <2>7. CASE offset < s
    <3> DEFINE clipped == IF offset + size > s THEN s - offset ELSE size
    <3>1. left \in Nat /\ Max({left, 0}) = left
      <4>1. left \in Nat /\ left >= 0
        BY <2>1, <2>7
      <4> HIDE DEF left
      <4> QED BY <4>1 DEF Max
    <3>2. Min({size, left}) = clipped
      <4>1. clipped = IF size > left THEN left ELSE size
        BY <2>1
      <4> HIDE DEF left, clipped
      <4> QED BY <2>1, <3>1, <4>1 DEF Min
    <3>3. clipped \in Nat /\ offset + clipped <= s
      BY <2>1, <2>7
    <3>4. /\ my_read(path, size, offset, TRUE) = FRead(start + offset, clipped)
          /\ my_read(path, size, offset, FALSE) = <<"errno">>
      <4>1. ~(offset >= s)
        BY <2>1, <2>7
      <4> QED BY <2>5, <4>1
    <3> HIDE DEF clipped
    <3>5. FRead(start + offset, clipped) = [k \in 1..clipped |-> Content(e)[offset + k]]
      BY <2>1, <3>3, ContentAt DEF start, s
    <3> QED BY <2>7, <3>1, <3>2, <3>4, <3>5 DEF s
  <2>8. offset >= s \/ offset < s
    BY <2>1
  <2> QED BY <2>6, <2>7, <2>8
<1> QED BY <1>1, TreeShowsArchive, PTL

\* The childs of a node bear the names of what the archive has below its
\* path, each of them once.
LEMMA ChildNames ==
  ASSUME archive \in Seq(Headers), NEW w, Shows(nodes, w, Len(archive)), NEW n \in DOMAIN nodes
  PROVE  LET c == nodes[n].childs
             names == {Last(p) : p \in {q \in ImpliedPaths \ {<<>>} : Front(q) = w[n]}}
         IN /\ c \in Seq(DOMAIN nodes)
            /\ {nodes[c[k]].name : k \in DOMAIN c} = names
            /\ \A j, k \in DOMAIN c : nodes[c[j]].name = nodes[c[k]].name => j = k
<1> DEFINE N == Len(archive)
           c == nodes[n].childs
           names == {Last(p) : p \in {q \in ImpliedPaths \ {<<>>} : Front(q) = w[n]}}
<1>1. ImpliedPaths = Implied(N) /\ N \in 0..N
  <2>1. N \in Nat /\ DOMAIN archive = 1..N
    BY LenProperties
  <2> QED BY <2>1 DEF ImpliedPaths, Implied
<1>2. /\ IsTree(nodes, w)
      /\ \A m \in DOMAIN nodes : w[m] \in Implied(N)
      /\ \A p \in Implied(N) : \E m \in DOMAIN nodes : w[m] = p
  BY DEF Shows
<1>3. /\ HasChilds(nodes, w, n) /\ w \in [DOMAIN nodes -> Seq(Parts)]
      /\ \A m, x \in DOMAIN nodes : w[m] = w[x] => m = x
      /\ w[Root] = <<>> /\ \A x \in DOMAIN nodes \ {Root} : HasParent(nodes, x)
  BY <1>2 DEF IsTree
<1>4. /\ c \in Seq(DOMAIN nodes) /\ \A k \in DOMAIN c : c[k] \in DOMAIN nodes
      /\ \A j, k \in DOMAIN c : c[j] = c[k] => j = k
      /\ \A k \in DOMAIN c : w[c[k]] = Append(w[n], nodes[c[k]].name)
  <2>1. c \in Seq(DOMAIN nodes)
    BY <1>3 DEF HasChilds
  <2> QED BY <1>3, <2>1 DEF HasChilds, Follows
<1>5. \A k \in DOMAIN c : nodes[c[k]].name \in Parts
  <2> SUFFICES ASSUME NEW k \in DOMAIN c PROVE nodes[c[k]].name \in Parts
    OBVIOUS
  <2>1. w[c[k]] # <<>>
    BY <1>3, <1>4
  <2>2. c[k] \in DOMAIN nodes \ {Root}
    BY <1>3, <1>4, <2>1
  <2> QED BY <1>3, <2>2 DEF HasParent
<1>6. ASSUME NEW q \in Seq(Parts), NEW a \in Parts
      PROVE  Append(q, a) # <<>> /\ Front(Append(q, a)) = q /\ Last(Append(q, a)) = a
  <2>1. Append(q, a) # <<>> /\ Last(Append(q, a)) = a
    BY AppendParts, LastOfAppend
  <2>2. Len(Append(q, a)) - 1 = Len(q) /\ Len(q) \in Nat
    BY AppendParts, LenProperties
  <2>3. SubSeq(Append(q, a), 1, Len(q)) = q
    BY <1>6
  <2> QED BY <2>1, <2>2, <2>3 DEF Front
<1>7. ASSUME NEW q \in Seq(Parts), q # <<>>
      PROVE  Front(q) \in Seq(Parts) /\ Last(q) \in Parts /\ q = Append(Front(q), Last(q))
  <2>1. Len(q) \in 1..Len(q) /\ Len(q) - 1 \in 0..Len(q)
    BY <1>7, EmptySeq, PrefixSteps
  <2> QED BY <2>1, PrefixSteps DEF Prefix, Front, Last
<1> HIDE DEF c, names
<1>8. ASSUME NEW k \in DOMAIN c PROVE nodes[c[k]].name \in names
  <2> DEFINE p == w[c[k]]
  <2>1. p \in ImpliedPaths /\ p = Append(w[n], nodes[c[k]].name) /\ w[n] \in Seq(Parts)
    BY <1>1, <1>2, <1>3, <1>4
  <2> HIDE DEF p
  <2>2. p # <<>> /\ Front(p) = w[n] /\ Last(p) = nodes[c[k]].name
    BY <1>5, <1>6, <2>1
  <2> QED BY <2>1, <2>2 DEF names
<1>9. ASSUME NEW a \in names PROVE \E k \in DOMAIN c : nodes[c[k]].name = a
  <2>1. PICK p \in ImpliedPaths : p # <<>> /\ Front(p) = w[n] /\ a = Last(p)
    BY DEF names
  <2>2. p \in Seq(Parts)
    BY <1>1, <2>1, ImpliedIs
  <2>3. p = Append(w[n], a) /\ a \in Parts
    BY <1>7, <2>1, <2>2
  <2>4. PICK x \in DOMAIN nodes : w[x] = p
    BY <1>1, <1>2
  <2>5. w[n] \in Seq(Parts)
    BY <1>3
  <2>6. /\ nodes[x].name = a
        /\ \E m \in DOMAIN nodes : w[m] = w[n] /\ \E i \in DOMAIN nodes[m].childs : nodes[m].childs[i] = x
    <3> DEFINE q == w[n]
    <3>1. w[x] = Append(q, a) /\ q \in Seq(Parts)
      BY <2>3, <2>4, <2>5
    <3> HIDE DEF q
    <3>2. /\ nodes[x].name = a
          /\ \E m \in DOMAIN nodes : w[m] = q /\ \E i \in DOMAIN nodes[m].childs : nodes[m].childs[i] = x
      BY <1>2, <2>3, <3>1, ParentPath
    <3> QED BY <3>2 DEF q
  <2> QED BY <1>3, <2>6 DEF c
<1>10. ASSUME NEW j \in DOMAIN c, NEW k \in DOMAIN c, nodes[c[j]].name = nodes[c[k]].name
       PROVE  j = k
  <2>1. w[c[j]] = w[c[k]]
    BY <1>4, <1>10
  <2>2. c[j] = c[k]
    BY <1>3, <1>4, <2>1
  <2> QED BY <1>4, <2>2
<1>11. {nodes[c[k]].name : k \in DOMAIN c} = names
  BY <1>8, <1>9
<1> QED BY <1>4, <1>10, <1>11 DEF c, names

\* readdir of a directory lists "." and "..", and every name that the archive
\* has below it once.
THEOREM ListsOnceAlways == Spec => []ListsOnce
<1>1. IndInv => ListsOnce
  <2> SUFFICES ASSUME IndInv, phase = "mounted", NEW path \in ImpliedPaths,
                      Named(path) = {} \/ archive[LastOf(path)].typeflag = "dir"
               PROVE  LET names == {Last(p) : p \in {q \in ImpliedPaths \ {<<>>} : Front(q) = path}}
                      IN /\ ToSet(my_readdir(path)) = {".", ".."} \cup names
                         /\ Len(my_readdir(path)) = 2 + Cardinality(names)
    BY DEF ListsOnce
  <2> DEFINE n == find_node(nodes, path)
             c == nodes[n].childs
             names == {Last(p) : p \in {q \in ImpliedPaths \ {<<>>} : Front(q) = path}}
             listed == [k \in DOMAIN c |-> nodes[c[k]].name]
             L == Len(c)
             ans == my_readdir(path)
  <2>1. n # NULL /\ nodes[n].type = "dir"
    BY Answer
  <2>2. PICK w : Shows(nodes, w, Len(archive)) /\ n \in DOMAIN nodes /\ w[n] = path
    BY Answer
  <2> HIDE DEF n
  <2>3. /\ c \in Seq(DOMAIN nodes)
        /\ {nodes[c[k]].name : k \in DOMAIN c} = names
        /\ \A j, k \in DOMAIN c : nodes[c[j]].name = nodes[c[k]].name => j = k
    <3>1. archive \in Seq(Headers)
      BY DEF IndInv
    <3>2. LET d  == nodes[n].childs
              nm == {Last(p) : p \in {q \in ImpliedPaths \ {<<>>} : Front(q) = w[n]}}
          IN /\ d \in Seq(DOMAIN nodes)
             /\ {nodes[d[k]].name : k \in DOMAIN d} = nm
             /\ \A j, k \in DOMAIN d : nodes[d[j]].name = nodes[d[k]].name => j = k
      BY <2>2, <3>1, ChildNames
    <3> QED BY <2>2, <3>2
  <2>4. ans = <<".", "..">> \o listed
    BY <2>1 DEF my_readdir, n
  <2> HIDE DEF c, names, ans
  <2>5. L \in Nat /\ DOMAIN c = 1..L
    BY <2>3, LenProperties
  <2> HIDE DEF L
  <2>6. /\ listed \in [1..L -> names] /\ \A a \in names : \E k \in 1..L : listed[k] = a
        /\ \A j, k \in 1..L : listed[j] = listed[k] => j = k
    BY <2>3, <2>5
  <2> HIDE DEF listed
  <2>7. Cardinality(names) = L
    <3>1. listed \in Bijection(1..L, names)
      <4>1. DOMAIN listed = 1..L
        BY <2>6
      <4>2. IsInjective(listed)
        BY <2>6, <4>1 DEF IsInjective
      <4> QED BY <2>6, <4>2 DEF Bijection, Injection, Surjection
    <3>2. ExistsBijection(1..L, names)
      BY <3>1 DEF ExistsBijection
    <3>3. IsFiniteSet(1..L) /\ Cardinality(1..L) = L
      BY <2>5, FS_Interval
    <3> QED BY <3>2, <3>3, FS_Bijection
  <2>8. /\ Len(ans) = 2 + L
        /\ \A i \in 1..(2 + L) : ans[i] = IF i <= 2 THEN <<".", "..">>[i] ELSE listed[i - 2]
        /\ DOMAIN ans = 1..(2 + L)
    <3> DEFINE S == names \cup {".", ".."}
               dots == <<".", "..">>
    <3>1. listed \in Seq(S) /\ Len(listed) = L
      BY <2>5, <2>6
    <3>2. dots \in Seq(S) /\ Len(dots) = 2
      OBVIOUS
    <3> HIDE DEF S, dots
    <3>3. /\ dots \o listed \in Seq(S)
          /\ Len(dots \o listed) = Len(dots) + Len(listed)
          /\ \A i \in 1..(Len(dots) + Len(listed)) :
               (dots \o listed)[i] = IF i <= Len(dots) THEN dots[i] ELSE listed[i - Len(dots)]
      BY <3>1, <3>2, ConcatProperties
    <3>4. ans \in Seq(S) /\ Len(ans) = 2 + L
      BY <2>4, <3>1, <3>2, <3>3 DEF dots
    <3>5. \A i \in 1..(2 + L) : ans[i] = IF i <= 2 THEN dots[i] ELSE listed[i - 2]
      BY <2>4, <3>1, <3>2, <3>3 DEF dots
    <3> QED BY <3>4, <3>5, LenProperties DEF dots
  <2>9. ToSet(ans) = {".", ".."} \cup names
    <3>1. ToSet(ans) = {ans[i] : i \in 1..(2 + L)}
      BY <2>8 DEF ToSet
    <3>2. ans[1] = "." /\ ans[2] = ".." /\ 1 \in 1..(2 + L) /\ 2 \in 1..(2 + L)
      BY <2>5, <2>8
    <3>3. ASSUME NEW i \in 1..(2 + L), i > 2 PROVE ans[i] \in names
      <4>1. i - 2 \in 1..L /\ ans[i] = listed[i - 2]
        BY <2>5, <2>8, <3>3
      <4> QED BY <2>6, <4>1
    <3>4. ASSUME NEW a \in names PROVE \E i \in 1..(2 + L) : ans[i] = a
      <4>1. PICK k \in 1..L : listed[k] = a
        BY <2>6
      <4> DEFINE i == k + 2
      <4>2. i \in 1..(2 + L) /\ ~(i <= 2) /\ i - 2 = k
        BY <2>5
      <4> HIDE DEF i
      <4>3. ans[i] = listed[i - 2]
        BY <2>8, <4>2
      <4> QED BY <4>1, <4>2, <4>3
    <3>5. \A i \in 1..(2 + L) : i = 1 \/ i = 2 \/ i > 2
      BY <2>5
    <3> QED BY <3>1, <3>2, <3>3, <3>4, <3>5
  <2> QED BY <2>7, <2>8, <2>9 DEF names, ans
<1> QED BY <1>1, TreeShowsArchive, PTL

=============================================================================
