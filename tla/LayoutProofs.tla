---------------------------- MODULE LayoutProofs ----------------------------
(***************************************************************************)
(* Proofs about Layout for every set of views, number of panes and set of  *)
(* terminal sizes: reshaping a part of a tree leaves all of it as a layout *)
(* anew would, and so, through LayoutGeometry, every property the runs     *)
(* check holds.                                                            *)
(***************************************************************************)
EXTENDS LayoutGeometry

(***************************************************************************)
(* The trees that Subtree, Join and Graft give.                            *)
(***************************************************************************)
(* Going to the parent and putting a path in front commute. *)
LEMMA ConcatParent ==
    ASSUME NEW p \in Path, NEW r \in Path, r # <<>>
    PROVE  p \o r # <<>> /\ Parent(p \o r) = p \o Parent(r) /\ Last(p \o r) = Last(r)
<1>1. Parent(r) \in Path /\ Last(r) \in Child /\ r = Append(Parent(r), Last(r))
  BY PathParent
<1> DEFINE a == Parent(r)
           c == Last(r)
<1>2. p \o r = Append(p \o a, c)
  BY ZenonT(40), <1>1, ConcatChild
<1>3. p \o a \in Path /\ c \in Child
  BY <1>1, PathConcat
<1> HIDE DEF a, c
<1>4. Parent(Append(p \o a, c)) = p \o a /\ Last(Append(p \o a, c)) = c /\ Append(p \o a, c) # <<>>
  BY <1>3, PathChild
<1> QED BY <1>2, <1>4 DEF a, c

(* A path with a first step in front. *)
LEMMA ConsPath ==
    ASSUME NEW c \in Child, NEW r \in Path
    PROVE  <<c>> \in Path /\ <<c>> \o r \in Path /\ <<c>> \o r # <<>> /\ Head(<<c>> \o r) = c /\ Tail(<<c>> \o r) = r
           /\ Append(<<>>, c) = <<c>>
<1>1. <<c>> \in Path /\ Len(<<c>>) = 1 /\ <<c>>[1] = c
  BY DEF Path
<1>2. <<c>> \o r \in Path /\ Len(<<c>> \o r) = 1 + Len(r) /\ Len(r) \in Nat
  BY <1>1, PathConcat DEF Path
<1>3. <<c>> \o r # <<>>
  BY <1>2, Len(<<>>) = 0
<1>4. Head(<<c>> \o r) = c
  BY <1>1, <1>2 DEF Path
<1>5. Tail(<<c>> \o r) = r
  <2>1. Tail(<<c>> \o r) \in Path /\ Len(Tail(<<c>> \o r)) = Len(r)
    BY <1>2, <1>3 DEF Path
  <2>2. \A i \in 1 .. Len(r) : Tail(<<c>> \o r)[i] = r[i]
    BY <1>1, <1>2 DEF Path
  <2> QED BY <2>1, <2>2 DEF Path
<1>6. Append(<<>>, c) = <<c>>
  OBVIOUS
<1> QED BY <1>1, <1>2, <1>3, <1>4, <1>5, <1>6

(* The tree under a node. *)
LEMMA SubtreeTree ==
    ASSUME NEW n, Tree(n), Bounded(n), NEW p \in DOMAIN n
    PROVE  LET s == Subtree(n, p)
           IN  /\ Tree(s) /\ Bounded(s)
               /\ DOMAIN s = {r \in Path : p \o r \in DOMAIN n}
               /\ \A r \in DOMAIN s : s[r] = n[p \o r]
               /\ Named(s) = {n[q].name : q \in {o \in Leaves(n) : Under(p, o)}}
<1> DEFINE s == Subtree(n, p)
<1>1. p \in Path /\ \A q \in DOMAIN n : q \in Path /\ n[q] \in Node
  BY TreePath
<1>2. DOMAIN s = {r \in Path : p \o r \in DOMAIN n}
  <2>1. DOMAIN s = {Rest(p, q) : q \in {o \in DOMAIN n : Under(p, o)}}
    BY DEF Subtree
  <2>2. ASSUME NEW q \in DOMAIN n, Under(p, q) PROVE Rest(p, q) \in Path /\ p \o Rest(p, q) \in DOMAIN n
    BY <1>1, <2>2, PathRest
  <2>3. ASSUME NEW r \in Path, p \o r \in DOMAIN n PROVE Under(p, p \o r) /\ r = Rest(p, p \o r)
    BY <1>1, PathConcat
  <2> QED BY <2>1, <2>2, <2>3
<1>3. \A r \in DOMAIN s : s[r] = n[p \o r]
  BY DEF Subtree
<1> HIDE DEF s
<1>4. s \in [DOMAIN s -> Node]
  <2>1. s = [r \in DOMAIN s |-> s[r]]
    BY DEF s, Subtree
  <2>2. \A r \in DOMAIN s : s[r] \in Node
    BY <1>1, <1>2, <1>3
  <2> QED BY <2>1, <2>2
<1>5. <<>> \in DOMAIN s
  <2>1. <<>> \in Path
    BY DEF Path
  <2> QED BY <1>1, <1>2, <2>1, PathConcat
<1>6. ASSUME NEW r \in DOMAIN s, ~IsView(s[r]), NEW c \in Child PROVE Append(r, c) \in DOMAIN s
  <2>1. r \in Path /\ p \o r \in DOMAIN n /\ ~IsView(n[p \o r])
    BY <1>2, <1>3, <1>6
  <2>2. Append(p \o r, c) \in DOMAIN n
    BY <2>1, TreePath
  <2>3. Append(r, c) \in Path /\ p \o Append(r, c) \in DOMAIN n
    BY ZenonT(40), <1>1, <2>1, <2>2, ConcatChild, PathChild
  <2> QED BY <1>2, <2>3
<1>7. ASSUME NEW r \in DOMAIN s, r # <<>> PROVE Parent(r) \in DOMAIN s /\ ~IsView(s[Parent(r)])
  <2>1. r \in Path /\ p \o r \in DOMAIN n /\ Parent(r) \in Path
    BY <1>2, <1>7, PathParent
  <2>2. p \o r # <<>> /\ Parent(p \o r) = p \o Parent(r)
    BY <1>1, <1>7, <2>1, ConcatParent
  <2>3. p \o Parent(r) \in DOMAIN n /\ ~IsView(n[p \o Parent(r)])
    BY <2>1, <2>2, TreePath
  <2> QED BY <1>2, <1>3, <2>1, <2>3
<1>8. \A r \in Leaves(s) : r \in Path /\ p \o r \in Leaves(n) /\ s[r] = n[p \o r]
  BY <1>2, <1>3 DEF Leaves
<1>9. \A q, r \in Leaves(s) : s[q].name = s[r].name => q = r
  <2> TAKE q \in Leaves(s), r \in Leaves(s)
  <2> SUFFICES ASSUME s[q].name = s[r].name PROVE q = r
    OBVIOUS
  <2>1. p \o q = p \o r
    BY <1>8 DEF Tree
  <2> QED BY <1>1, <1>8, <2>1, PathConcat
<1>10. Tree(s)
  BY <1>2, <1>4, <1>5, <1>6, <1>7, <1>9 DEF Tree, Leaves
<1>11. Bounded(s)
  <2>1. PICK d \in Nat : \A q \in DOMAIN n : Len(q) <= d
    BY DEF Bounded
  <2>2. \A r \in DOMAIN s : Len(r) <= d
    <3> TAKE r \in DOMAIN s
    <3>1. Len(p \o r) = Len(p) + Len(r) /\ Len(p) \in Nat /\ Len(r) \in Nat
      BY <1>1, <1>2, PathConcat DEF Path
    <3>2. Len(p \o r) <= d
      BY <1>2, <2>1
    <3> QED BY <3>1, <3>2
  <2> QED BY <2>2 DEF Bounded
<1>12. Named(s) = {n[q].name : q \in {o \in Leaves(n) : Under(p, o)}}
  <2>1. ASSUME NEW r \in Leaves(s) PROVE p \o r \in Leaves(n) /\ Under(p, p \o r) /\ s[r].name = n[p \o r].name
    BY <1>1, <1>8, PathConcat
  <2>2. ASSUME NEW q \in Leaves(n), Under(p, q) PROVE Rest(p, q) \in Leaves(s) /\ s[Rest(p, q)].name = n[q].name
    <3>1. Rest(p, q) \in Path /\ p \o Rest(p, q) = q
      BY <1>1, <2>2, PathRest DEF Leaves
    <3>2. Rest(p, q) \in DOMAIN s
      BY <1>2, <3>1 DEF Leaves
    <3> QED BY <1>3, <3>1, <3>2 DEF Leaves
  <2> QED BY <2>1, <2>2 DEF Named
<1> QED BY <1>2, <1>3, <1>10, <1>11, <1>12 DEF s

(* A node over two trees. *)
LEMMA JoinTree ==
    ASSUME NEW node \in Node, ~IsView(node), NEW m1, NEW m2, Tree(m1), Tree(m2), Bounded(m1), Bounded(m2),
           Named(m1) \cap Named(m2) = {}
    PROVE  LET j == Join(node, m1, m2)
           IN  /\ Tree(j) /\ Bounded(j) /\ j[<<>>] = node
               /\ Named(j) = Named(m1) \cup Named(m2)
               /\ \A q \in DOMAIN j : q # <<>> => \/ \E r \in DOMAIN m1 : j[q] = m1[r]
                                                 \/ \E r \in DOMAIN m2 : j[q] = m2[r]
<1> DEFINE j == Join(node, m1, m2)
           M(c) == IF c = "c1" THEN m1 ELSE m2
<1>0. "c1" \in Child /\ "c2" \in Child /\ <<>> \in Path /\ \A c \in Child : c = "c1" \/ c = "c2"
  BY DEF Child, Path
<1>1. \A c \in Child : /\ Tree(M(c)) /\ <<>> \in DOMAIN M(c)
                       /\ \A r \in DOMAIN M(c) : r \in Path /\ M(c)[r] \in Node
  <2> TAKE c \in Child
  <2>1. Tree(M(c))
    OBVIOUS
  <2> HIDE DEF M
  <2> QED BY <2>1, TreePath DEF Tree
<1>2. DOMAIN j = {<<>>} \cup {<<"c1">> \o r : r \in DOMAIN m1} \cup {<<"c2">> \o r : r \in DOMAIN m2}
  BY DEF Join
<1>3. j[<<>>] = node
  BY <1>2 DEF Join
<1>4. ASSUME NEW c \in Child, NEW r \in DOMAIN M(c)
      PROVE  <<c>> \o r \in DOMAIN j /\ j[<<c>> \o r] = M(c)[r] /\ <<c>> \o r # <<>> /\ <<c>> \o r \in Path
  <2>1. r \in Path
    BY <1>1
  <2>2. <<c>> \o r # <<>> /\ Head(<<c>> \o r) = c /\ Tail(<<c>> \o r) = r /\ <<c>> \o r \in Path
    BY <2>1, ConsPath
  <2>3. <<c>> \o r \in DOMAIN j
    BY <1>0, <1>2
  <2>4. j[<<c>> \o r] = IF Head(<<c>> \o r) = "c1" THEN m1[Tail(<<c>> \o r)] ELSE m2[Tail(<<c>> \o r)]
    BY <1>2, <2>2, <2>3 DEF Join
  <2> QED BY <2>2, <2>3, <2>4
<1>5. ASSUME NEW q \in DOMAIN j, q # <<>> PROVE \E c \in Child : \E r \in DOMAIN M(c) : q = <<c>> \o r
  BY <1>0, <1>2, <1>5
<1> HIDE DEF M
<1>6. j \in [DOMAIN j -> Node] /\ DOMAIN j \subseteq Path
  <2>1. j = [q \in DOMAIN j |-> j[q]]
    BY DEF Join
  <2> HIDE DEF j
  <2>2. \A q \in DOMAIN j : j[q] \in Node /\ q \in Path
    <3> TAKE q \in DOMAIN j
    <3>1. CASE q = <<>>
      BY <1>0, <1>3, <3>1 DEF j
    <3>2. CASE q # <<>>
      <4>1. PICK c \in Child : \E r \in DOMAIN M(c) : q = <<c>> \o r
        BY <1>5, <3>2 DEF j
      <4>2. PICK r \in DOMAIN M(c) : q = <<c>> \o r
        BY <4>1
      <4>3. M(c)[r] \in Node
        BY <1>1
      <4> QED BY <1>4, <4>2, <4>3 DEF j
    <3> QED BY <3>1, <3>2
  <2> QED BY <2>1, <2>2
<1> HIDE DEF j
<1>7. ASSUME NEW q \in DOMAIN j, ~IsView(j[q]), NEW k \in Child PROVE Append(q, k) \in DOMAIN j
  <2>1. CASE q = <<>>
    <3>1. Append(q, k) = <<k>> \o <<>>
      BY <1>0, <2>1, ConsPath, PathConcat
    <3> QED BY <1>1, <1>4, <3>1
  <2>2. CASE q # <<>>
    <3>10. PICK c \in Child : \E r \in DOMAIN M(c) : q = <<c>> \o r
      BY <1>5, <2>2
    <3>1. PICK r \in DOMAIN M(c) : q = <<c>> \o r
      BY <3>10
    <3>2. r \in Path /\ <<c>> \in Path
      BY <1>1, ConsPath
    <3>3. ~IsView(M(c)[r])
      BY <1>4, <1>7, <3>1
    <3>4. Append(r, k) \in DOMAIN M(c)
      BY <1>1, <3>3, TreePath
    <3>5. Append(q, k) = <<c>> \o Append(r, k)
      BY <3>1, <3>2, ConcatChild
    <3> QED BY <1>4, <3>4, <3>5
  <2> QED BY <2>1, <2>2
<1>8. ASSUME NEW q \in DOMAIN j, q # <<>> PROVE Parent(q) \in DOMAIN j /\ ~IsView(j[Parent(q)])
  <2>10. PICK c \in Child : \E r \in DOMAIN M(c) : q = <<c>> \o r
    BY <1>5, <1>8
  <2>1. PICK r \in DOMAIN M(c) : q = <<c>> \o r
    BY <2>10
  <2>2. r \in Path /\ <<c>> \in Path
    BY <1>1, ConsPath
  <2>3. CASE r = <<>>
    <3>1. q = Append(<<>>, c)
      BY <1>0, <2>1, <2>2, <2>3, ConsPath, PathConcat
    <3>2. Parent(q) = <<>>
      BY <1>0, <3>1, PathChild
    <3> QED BY <1>2, <1>3, <3>2 DEF j
  <2>4. CASE r # <<>>
    <3>1. Parent(r) \in DOMAIN M(c) /\ ~IsView(M(c)[Parent(r)])
      BY <1>1, <2>4, TreePath
    <3>2. Parent(q) = <<c>> \o Parent(r)
      BY <2>1, <2>2, <2>4, ConcatParent
    <3> QED BY <1>4, <3>1, <3>2
  <2> QED BY <2>3, <2>4
<1>9. ASSUME NEW q \in Leaves(j)
      PROVE  \E c \in Child : \E r \in Leaves(M(c)) : q = <<c>> \o r /\ j[q] = M(c)[r]
  <2>1. q \in DOMAIN j /\ IsView(j[q]) /\ q # <<>>
    BY <1>3 DEF Leaves
  <2>20. PICK c \in Child : \E r \in DOMAIN M(c) : q = <<c>> \o r
    BY <1>5, <2>1
  <2>2. PICK r \in DOMAIN M(c) : q = <<c>> \o r
    BY <2>20
  <2> QED BY <1>4, <2>1, <2>2 DEF Leaves
<1>10. ASSUME NEW c \in Child, NEW r \in Leaves(M(c)) PROVE <<c>> \o r \in Leaves(j) /\ j[<<c>> \o r] = M(c)[r]
  BY <1>4 DEF Leaves
<1>11. Named(j) = Named(m1) \cup Named(m2)
  <2>1. ASSUME NEW q \in Leaves(j) PROVE j[q].name \in Named(m1) \cup Named(m2)
    <3>10. PICK c \in Child : \E r \in Leaves(M(c)) : q = <<c>> \o r /\ j[q] = M(c)[r]
      BY <1>9
    <3>1. PICK r \in Leaves(M(c)) : q = <<c>> \o r /\ j[q] = M(c)[r]
      BY <3>10
    <3> QED BY <1>0, <3>1 DEF Named, M
  <2>2. ASSUME NEW r \in Leaves(m1) PROVE m1[r].name \in Named(j)
    BY <1>0, <1>10 DEF M, Named
  <2>3. ASSUME NEW r \in Leaves(m2) PROVE m2[r].name \in Named(j)
    BY <1>0, <1>10 DEF M, Named
  <2>4. Named(j) \subseteq Named(m1) \cup Named(m2)
    BY <2>1 DEF Named
  <2>5. Named(m1) \subseteq Named(j)
    BY <2>2 DEF Named
  <2>6. Named(m2) \subseteq Named(j)
    BY <2>3 DEF Named
  <2> QED BY <2>4, <2>5, <2>6
<1>12. \A q, o \in Leaves(j) : j[q].name = j[o].name => q = o
  <2> TAKE q \in Leaves(j), o \in Leaves(j)
  <2> SUFFICES ASSUME j[q].name = j[o].name PROVE q = o
    OBVIOUS
  <2>10. PICK c \in Child : \E r \in Leaves(M(c)) : q = <<c>> \o r /\ j[q] = M(c)[r]
    BY <1>9
  <2>1. PICK r \in Leaves(M(c)) : q = <<c>> \o r /\ j[q] = M(c)[r]
    BY <2>10
  <2>20. PICK d \in Child : \E s \in Leaves(M(d)) : o = <<d>> \o s /\ j[o] = M(d)[s]
    BY <1>9
  <2>2. PICK s \in Leaves(M(d)) : o = <<d>> \o s /\ j[o] = M(d)[s]
    BY <2>20
  <2>3. j[q].name \in Named(M(c)) /\ j[q].name \in Named(M(d))
    BY <2>1, <2>2 DEF Named
  <2>4. c = d
    BY <1>0, <2>3 DEF M
  <2>5. r = s
    <3>1. Tree(M(c)) /\ M(c)[r].name = M(c)[s].name /\ s \in Leaves(M(c))
      BY <1>1, <2>1, <2>2, <2>4
    <3> QED BY <3>1 DEF Tree
  <2> QED BY <2>1, <2>2, <2>4, <2>5
<1>13. Tree(j)
  <2>1. <<>> \in DOMAIN j
    BY <1>2 DEF j
  <2> QED BY <1>6, <1>7, <1>8, <1>12, <2>1 DEF Tree, Leaves
<1>14. Bounded(j)
  <2>1. PICK d1 \in Nat : \A r \in DOMAIN m1 : Len(r) <= d1
    BY DEF Bounded
  <2>2. PICK d2 \in Nat : \A r \in DOMAIN m2 : Len(r) <= d2
    BY DEF Bounded
  <2>3. \A q \in DOMAIN j : Len(q) <= d1 + d2 + 1
    <3> TAKE q \in DOMAIN j
    <3>1. CASE q = <<>>
      BY <3>1
    <3>2. CASE q # <<>>
      <4>10. PICK c \in Child : \E r \in DOMAIN M(c) : q = <<c>> \o r
        BY <1>5, <3>2
      <4>1. PICK r \in DOMAIN M(c) : q = <<c>> \o r
        BY <4>10
      <4>2. r \in Path /\ <<c>> \in Path
        BY <1>1, ConsPath
      <4>3. Len(q) = 1 + Len(r) /\ Len(r) \in Nat
        BY <4>1, <4>2, PathConcat DEF Path
      <4>4. Len(r) <= d1 \/ Len(r) <= d2
        BY <2>1, <2>2 DEF M
      <4> QED BY <4>3, <4>4
    <3> QED BY <3>1, <3>2
  <2>4. d1 + d2 + 1 \in Nat
    OBVIOUS
  <2> QED BY <2>3, <2>4 DEF Bounded
<1>15. ASSUME NEW q \in DOMAIN j, q # <<>>
       PROVE  (\E r \in DOMAIN m1 : j[q] = m1[r]) \/ (\E r \in DOMAIN m2 : j[q] = m2[r])
  <2>1. PICK c \in Child : \E r \in DOMAIN M(c) : q = <<c>> \o r
    BY <1>5, <1>15
  <2>2. PICK r \in DOMAIN M(c) : q = <<c>> \o r
    BY <2>1
  <2>3. j[q] = M(c)[r]
    BY <1>4, <2>2
  <2> QED BY <1>0, <2>2, <2>3 DEF M
<1> QED BY <1>3, <1>11, <1>13, <1>14, <1>15 DEF j

(* A tree with another in place of what is under p. *)
Kept(n, p) == {n[q].name : q \in {o \in Leaves(n) : ~Under(p, o)}}

(* A tree m in the place of what is under p: it is a tree when its names   *)
(* are not used elsewhere, with the names beside p and those of m.         *)
LEMMA GraftTree ==
    ASSUME NEW n, Tree(n), Bounded(n), NEW p \in DOMAIN n, NEW m, Tree(m), Bounded(m),
           Kept(n, p) \cap Named(m) = {}
    PROVE  LET g == Graft(n, p, m)
           IN  /\ Tree(g) /\ Bounded(g)
               /\ \A q \in Path : ~Under(p, q) => (q \in DOMAIN g <=> q \in DOMAIN n) /\ (q \in DOMAIN n => g[q] = n[q])
               /\ \A r \in DOMAIN m : p \o r \in DOMAIN g /\ g[p \o r] = m[r]
               /\ \A q \in DOMAIN g : Under(p, q) => \E r \in DOMAIN m : q = p \o r
               /\ Named(g) = Kept(n, p) \cup Named(m)
<1> DEFINE g == Graft(n, p, m)
<1>0. <<>> \in Path /\ p \in Path /\ (\A q \in DOMAIN n : q \in Path /\ n[q] \in Node)
      /\ \A r \in DOMAIN m : r \in Path /\ m[r] \in Node
  BY TreePath DEF Path
<1>1. DOMAIN g = {o \in DOMAIN n : ~Under(p, o)} \cup {p \o r : r \in DOMAIN m}
  BY DEF Graft
<1>2. ASSUME NEW q \in DOMAIN n, ~Under(p, q) PROVE q \in DOMAIN g /\ g[q] = n[q]
  BY <1>1, <1>2 DEF Graft
<1>3. ASSUME NEW r \in DOMAIN m PROVE p \o r \in DOMAIN g /\ g[p \o r] = m[r] /\ p \o r \in Path /\ Under(p, p \o r)
  <2>1. p \o r \in DOMAIN g
    BY <1>1
  <2>2. p \o r \in Path /\ Under(p, p \o r) /\ Rest(p, p \o r) = r
    BY <1>0, PathConcat
  <2> QED BY <1>1, <2>1, <2>2 DEF Graft
<1>4. ASSUME NEW q \in DOMAIN g
      PROVE  \/ q \in DOMAIN n /\ ~Under(p, q)
             \/ \E r \in DOMAIN m : q = p \o r
  BY <1>1
<1>5. g \in [DOMAIN g -> Node] /\ DOMAIN g \subseteq Path
  <2>1. g = [q \in DOMAIN g |-> g[q]]
    BY DEF Graft
  <2> HIDE DEF g
  <2>2. \A q \in DOMAIN g : g[q] \in Node /\ q \in Path
    BY <1>0, <1>2, <1>3, <1>4
  <2> QED BY <2>1, <2>2
<1> HIDE DEF g
<1>6. <<>> \in DOMAIN g
  <2>1. <<>> \in DOMAIN n /\ <<>> \in DOMAIN m
    BY DEF Tree
  <2>2. CASE p = <<>>
    <3>1. p \o <<>> = <<>>
      BY <1>0, <2>2, PathConcat
    <3> QED BY <1>3, <2>1, <3>1
  <2>3. CASE p # <<>>
    BY <1>0, <1>2, <2>1, <2>3, UnderRoot
  <2> QED BY <2>2, <2>3
<1>7. ASSUME NEW q \in DOMAIN g, ~IsView(g[q]), NEW c \in Child PROVE Append(q, c) \in DOMAIN g
  <2>1. CASE q \in DOMAIN n /\ ~Under(p, q)
    <3>1. Append(q, c) \in DOMAIN n /\ Append(q, c) \in Path /\ Parent(Append(q, c)) = q
      BY <1>0, <1>2, <1>7, <2>1, TreePath, PathChild
    <3>2. CASE ~Under(p, Append(q, c))
      BY <1>2, <3>1, <3>2
    <3>3. CASE Under(p, Append(q, c))
      <4>1. p = Append(q, c)
        BY <1>0, <2>1, <3>1, <3>3, UnderParent
      <4>2. p \o <<>> \in DOMAIN g /\ p \o <<>> = p
        BY <1>0, <1>3, PathConcat DEF Tree
      <4> QED BY <4>1, <4>2
    <3> QED BY <3>2, <3>3
  <2>2. ASSUME NEW r \in DOMAIN m, q = p \o r PROVE Append(q, c) \in DOMAIN g
    <3>1. ~IsView(m[r])
      BY <1>3, <1>7, <2>2
    <3>2. Append(r, c) \in DOMAIN m
      BY <3>1, TreePath
    <3>3. Append(q, c) = p \o Append(r, c)
      BY <1>0, <2>2, ConcatChild
    <3> QED BY <1>3, <3>2, <3>3
  <2> QED BY <1>4, <2>1, <2>2
<1>8. ASSUME NEW q \in DOMAIN g, q # <<>> PROVE Parent(q) \in DOMAIN g /\ ~IsView(g[Parent(q)])
  <2>1. ASSUME NEW o \in DOMAIN n, o # <<>>, ~Under(p, Parent(o)) PROVE Parent(o) \in DOMAIN g /\ ~IsView(g[Parent(o)])
    <3>1. Parent(o) \in DOMAIN n /\ ~IsView(n[Parent(o)])
      BY <2>1, TreePath
    <3> QED BY <1>2, <2>1, <3>1
  <2>2. CASE q \in DOMAIN n /\ ~Under(p, q)
    <3>1. Under(Parent(q), q) /\ Parent(q) \in Path
      BY <1>0, <1>8, <2>2, UnderParent, PathParent
    <3>2. ~Under(p, Parent(q))
      BY <1>0, <2>2, <3>1, UnderOrder
    <3> QED BY <1>8, <2>1, <2>2, <3>2
  <2>3. ASSUME NEW r \in DOMAIN m, q = p \o r PROVE Parent(q) \in DOMAIN g /\ ~IsView(g[Parent(q)])
    <3>1. CASE r = <<>>
      <4>1. q = p
        BY <1>0, <2>3, <3>1, PathConcat
      <4>2. ~Under(p, Parent(p))
        <5>1. Len(Parent(p)) = Len(p) - 1 /\ Len(p) \in Nat /\ Parent(p) \in Path
          BY <1>0, <1>8, <4>1, PathParent
        <5>2. ~(Len(p) <= Len(Parent(p)))
          BY <5>1
        <5> QED BY <1>0, <5>1, <5>2, UnderOrder
      <4> QED BY <1>8, <2>1, <4>1, <4>2
    <3>2. CASE r # <<>>
      <4>1. Parent(r) \in DOMAIN m /\ ~IsView(m[Parent(r)])
        BY <3>2, TreePath
      <4>2. Parent(q) = p \o Parent(r)
        BY <1>0, <2>3, <3>2, ConcatParent
      <4> QED BY <1>3, <4>1, <4>2
    <3> QED BY <3>1, <3>2
  <2> QED BY <1>4, <2>2, <2>3
<1>9. ASSUME NEW q \in Leaves(g)
      PROVE  \/ q \in Leaves(n) /\ ~Under(p, q) /\ g[q] = n[q] /\ g[q].name \in Kept(n, p)
             \/ \E r \in Leaves(m) : q = p \o r /\ g[q] = m[r] /\ g[q].name \in Named(m)
  <2>1. q \in DOMAIN g /\ IsView(g[q])
    BY DEF Leaves
  <2>2. CASE q \in DOMAIN n /\ ~Under(p, q)
    <3>1. g[q] = n[q]
      BY <1>2, <2>2
    <3> QED BY <2>1, <2>2, <3>1 DEF Leaves, Kept
  <2>3. ASSUME NEW r \in DOMAIN m, q = p \o r
        PROVE  \E o \in Leaves(m) : q = p \o o /\ g[q] = m[o] /\ g[q].name \in Named(m)
    <3>1. g[q] = m[r]
      BY <1>3, <2>3
    <3>2. r \in Leaves(m)
      BY <2>1, <3>1 DEF Leaves
    <3> QED BY <2>3, <3>1, <3>2 DEF Named
  <2> QED BY <1>4, <2>1, <2>2, <2>3
<1>10. Named(g) = Kept(n, p) \cup Named(m)
  <2>1. Named(g) \subseteq Kept(n, p) \cup Named(m)
    BY <1>9 DEF Named
  <2>2. ASSUME NEW q \in Leaves(n), ~Under(p, q) PROVE n[q].name \in Named(g)
    <3>1. q \in DOMAIN g /\ g[q] = n[q]
      BY <1>2, <2>2 DEF Leaves
    <3>2. q \in Leaves(g)
      BY <3>1 DEF Leaves
    <3> QED BY <3>1, <3>2 DEF Named
  <2>3. ASSUME NEW r \in Leaves(m) PROVE m[r].name \in Named(g)
    <3>1. p \o r \in DOMAIN g /\ g[p \o r] = m[r]
      BY <1>3 DEF Leaves
    <3>2. p \o r \in Leaves(g)
      BY <3>1 DEF Leaves
    <3> QED BY <3>1, <3>2 DEF Named
  <2>4. Kept(n, p) \subseteq Named(g)
    BY <2>2 DEF Kept
  <2>5. Named(m) \subseteq Named(g)
    BY <2>3 DEF Named
  <2> QED BY <2>1, <2>4, <2>5
<1>11. \A q, o \in Leaves(g) : g[q].name = g[o].name => q = o
  <2> TAKE q \in Leaves(g), o \in Leaves(g)
  <2> SUFFICES ASSUME g[q].name = g[o].name PROVE q = o
    OBVIOUS
  <2>1. CASE g[q].name \in Kept(n, p)
    <3>1. q \in Leaves(n) /\ o \in Leaves(n) /\ g[q] = n[q] /\ g[o] = n[o]
      BY <1>9, <2>1
    <3> QED BY <3>1 DEF Tree
  <2>2. CASE g[q].name \notin Kept(n, p)
    <3>1. PICK r \in Leaves(m) : q = p \o r /\ g[q] = m[r]
      BY <1>9, <2>2
    <3>2. PICK s \in Leaves(m) : o = p \o s /\ g[o] = m[s]
      BY <1>9, <2>2
    <3>3. r = s
      BY <3>1, <3>2 DEF Tree
    <3> QED BY <3>1, <3>2, <3>3
  <2> QED BY <2>1, <2>2
<1>12. Tree(g)
  BY <1>5, <1>6, <1>7, <1>8, <1>11 DEF Tree, Leaves
<1>13. Bounded(g)
  <2>1. PICK d1 \in Nat : \A r \in DOMAIN n : Len(r) <= d1
    BY DEF Bounded
  <2>2. PICK d2 \in Nat : \A r \in DOMAIN m : Len(r) <= d2
    BY DEF Bounded
  <2>3. \A q \in DOMAIN g : Len(q) <= d1 + d2
    <3> TAKE q \in DOMAIN g
    <3>1. CASE q \in DOMAIN n
      <4>1. Len(q) \in Nat /\ Len(q) <= d1
        BY <1>0, <2>1, <3>1 DEF Path
      <4> QED BY <4>1
    <3>2. ASSUME NEW r \in DOMAIN m, q = p \o r PROVE Len(q) <= d1 + d2
      <4>1. Len(q) = Len(p) + Len(r) /\ Len(p) \in Nat /\ Len(r) \in Nat
        BY <1>0, <3>2, PathConcat DEF Path
      <4>2. Len(p) <= d1 /\ Len(r) <= d2
        BY <2>1, <2>2
      <4> QED BY <4>1, <4>2
    <3> QED BY <1>4, <3>1, <3>2
  <2>4. d1 + d2 \in Nat
    OBVIOUS
  <2> QED BY <2>3, <2>4 DEF Bounded
<1>14. ASSUME NEW q \in Path, ~Under(p, q)
       PROVE  (q \in DOMAIN g <=> q \in DOMAIN n) /\ (q \in DOMAIN n => g[q] = n[q])
  BY <1>2, <1>3, <1>4, <1>14
<1>15. ASSUME NEW q \in DOMAIN g, Under(p, q) PROVE \E r \in DOMAIN m : q = p \o r
  BY <1>4, <1>15
<1> QED BY <1>3, <1>10, <1>12, <1>13, <1>14, <1>15 DEF g

(***************************************************************************)
(* reshape, a node at a time.                                              *)
(***************************************************************************)
(* What reshape is told about the screen, and the rectangles it is given. *)
Screens == [full : BOOLEAN, lines : Nat, cols : Nat]
IsScreen(scr) == scr \in Screens /\ scr.lines > 1 /\ scr.cols > 0
Rects   == [y : Nat, x : Nat, h : Nat, w : Nat]
(* What reshape is asked for: never nothing in both directions.            *)
Asked   == {r \in Rects : r.h > 0 \/ r.w > 0}
(* Nodes with a rectangle, and nodes that have none yet.                   *)
AnyNode == [t : {"VIEW", "HORIZONTAL", "VERTICAL"}, name : View \cup {NULL},
            y : Nat, x : Nat, h : Nat, w : Nat]
Old     == {node \in AnyNode : (node.h > 0 /\ node.w > 0) \/ (node.h = 0 /\ node.w = 0)}

(* The rectangle a node gets when it is asked to take r, if it is not a    *)
(* view that has r already.                                                *)
Given(r, scr) == [y |-> r.y, x |-> r.x,
                  h |-> IF scr.full THEN scr.lines - 1 ELSE AtLeast(r.h, 1),
                  w |-> IF scr.full THEN scr.cols ELSE AtLeast(r.w, 1)]

Top(scr) == [y |-> 0, x |-> 0, h |-> scr.lines - 1, w |-> scr.cols]

(* A node that was asked to take a rectangle has it, with at least one row *)
(* and column, unless it is a view that had it already.                    *)
LEMMA ReshapedNode ==
    ASSUME NEW node \in Old, NEW r \in Asked, NEW scr, IsScreen(scr)
    PROVE  LET m == Reshaped(node, r, scr)
           IN  /\ m \in Node /\ m.t = node.t /\ m.name = node.name
               /\ \/ Rect(m) = Given(r, scr)
                  \/ IsView(node) /\ Rect(m) = r
<1> DEFINE m == Reshaped(node, r, scr)
           r2 == [r EXCEPT !.h = IF scr.full THEN scr.lines - 1 ELSE AtLeast(r.h, 1),
                           !.w = IF scr.full THEN scr.cols ELSE AtLeast(r.w, 1)]
<1>1. /\ node.t \in {"VIEW", "HORIZONTAL", "VERTICAL"} /\ node.name \in View \cup {NULL}
      /\ node.y \in Nat /\ node.x \in Nat /\ node.h \in Nat /\ node.w \in Nat
      /\ node = [t |-> node.t, name |-> node.name, y |-> node.y, x |-> node.x, h |-> node.h, w |-> node.w]
  BY DEF Old, AnyNode
<1>2. r \in Rects /\ r.y \in Nat /\ r.x \in Nat /\ r.h \in Nat /\ r.w \in Nat /\ (r.h > 0 \/ r.w > 0)
  BY DEF Asked, Rects
<1>3. scr.lines \in Nat /\ scr.cols \in Nat /\ scr.full \in BOOLEAN /\ scr.lines > 1 /\ scr.cols > 0
  BY DEF IsScreen, Screens
<1>4. CASE IsView(node) /\ Rect(node) = r
  <2>1. m = node
    BY <1>4 DEF Reshaped
  <2>2. node.h = r.h /\ node.w = r.w
    BY <1>4 DEF Rect
  <2>3. node.h > 0 /\ node.w > 0
    BY <1>2, <2>2 DEF Old
  <2>4. node \in Node
    BY <1>1, <2>3 DEF Node
  <2> QED BY <1>4, <2>1, <2>4
<1>5. CASE ~(IsView(node) /\ Rect(node) = r)
  <2>1. m = Place(node, r2)
    BY <1>5 DEF Reshaped
  <2>2. r2 = Given(r, scr)
    <3> DEFINE hh == IF scr.full THEN scr.lines - 1 ELSE AtLeast(r.h, 1)
               ww == IF scr.full THEN scr.cols ELSE AtLeast(r.w, 1)
    <3>1. r2 = [r EXCEPT !.h = hh, !.w = ww]
      OBVIOUS
    <3> HIDE DEF hh, ww, r2
    <3>2. r2 = [y |-> r.y, x |-> r.x, h |-> hh, w |-> ww]
      BY <1>2, <3>1 DEF Rects
    <3> QED BY <3>2 DEF Given, hh, ww
  <2> HIDE DEF r2, m
  <2>3. m = [t |-> node.t, name |-> node.name, y |-> r2.y, x |-> r2.x, h |-> r2.h, w |-> r2.w]
    BY <1>1, <2>1 DEF Place
  <2>4. r2.y = r.y /\ r2.x = r.x /\ r2.h \in Nat \ {0} /\ r2.w \in Nat \ {0}
    BY <1>2, <1>3, <2>2 DEF Given, AtLeast
  <2>5. m \in Node
    BY <1>1, <1>2, <2>3, <2>4 DEF Node
  <2>6. Rect(m) = r2
    BY <2>2, <2>3 DEF Rect, Given
  <2> QED BY <2>2, <2>3, <2>5, <2>6 DEF m
<1> QED BY <1>4, <1>5

(* What reshapechildren asks for a child is again something a node can be  *)
(* asked for.                                                              *)
LEMMA HalfAsked ==
    ASSUME NEW node \in Node, NEW c \in Child, NEW scr, IsScreen(scr)
    PROVE  Half(node, c, scr) \in Asked
<1>1. node.y \in Nat /\ node.x \in Nat /\ node.h \in Nat \ {0} /\ node.w \in Nat \ {0}
  BY DEF Node
<1>2. scr.lines \in Nat /\ scr.cols \in Nat /\ scr.lines > 1 /\ scr.cols > 0
  BY DEF IsScreen, Screens
<1>3. \A e \in Nat \ {0} : e \div 2 \in Nat /\ (e % 2 # 1 => e \div 2 - 1 \in Nat)
  OBVIOUS
<1>4. /\ node.h \div 2 \in Nat /\ (node.h % 2 # 1 => node.h \div 2 - 1 \in Nat)
      /\ node.w \div 2 \in Nat /\ (node.w % 2 # 1 => node.w \div 2 - 1 \in Nat)
  BY <1>1, <1>3
<1>5. CASE scr.full
  <2>1. Half(node, c, scr) = [y |-> 0, x |-> 0, h |-> scr.lines, w |-> scr.cols]
    BY <1>5 DEF Half, FirstHalf, SecondHalf
  <2> QED BY <1>2, <2>1 DEF Asked, Rects
<1>6. CASE ~scr.full /\ c = "c1"
  <2>1. Half(node, c, scr) = IF node.t = "HORIZONTAL" THEN [y |-> node.y, x |-> node.x, h |-> node.h, w |-> node.w \div 2]
                             ELSE [y |-> node.y, x |-> node.x, h |-> node.h \div 2, w |-> node.w]
    BY <1>6 DEF Half, FirstHalf, Rect
  <2> QED BY <1>1, <1>4, <2>1 DEF Asked, Rects
<1>7. CASE ~scr.full /\ c # "c1"
  <2> DEFINE hh == node.h \div 2 - (IF node.h % 2 = 1 THEN 0 ELSE 1)
             ww == node.w \div 2 - (IF node.w % 2 = 1 THEN 0 ELSE 1)
  <2>1. Half(node, c, scr) = IF node.t = "HORIZONTAL"
                             THEN [y |-> node.y, x |-> node.x + node.w \div 2 + 1, h |-> node.h, w |-> ww]
                             ELSE [y |-> node.y + node.h \div 2 + 1, x |-> node.x, h |-> hh, w |-> node.w]
    <3>1. Half(node, c, scr) = SecondHalf(node, scr)
      BY <1>7 DEF Half
    <3>2. SecondHalf(node, scr) = IF node.t = "HORIZONTAL"
                                  THEN [Rect(node) EXCEPT !.x = node.x + node.w \div 2 + 1, !.w = ww]
                                  ELSE [Rect(node) EXCEPT !.y = node.y + node.h \div 2 + 1, !.h = hh]
      BY <1>7 DEF SecondHalf
    <3> HIDE DEF hh, ww
    <3> QED BY <3>1, <3>2 DEF Rect
  <2>2. hh \in Nat /\ ww \in Nat
    BY <1>4
  <2> HIDE DEF hh, ww
  <2> QED BY <1>1, <1>4, <2>1, <2>2 DEF Asked, Rects
<1> QED BY <1>5, <1>6, <1>7

(* o is the tree n with other rectangles, or none.                         *)
Shaped(n, o) == /\ o \in [DOMAIN n -> Old]
                /\ \A q \in DOMAIN n : o[q].t = n[q].t /\ o[q].name = n[q].name

(* A node of a tree has a size, as reshape expects. *)
LEMMA NodeOld == Node \subseteq Old
<1> SUFFICES ASSUME NEW node \in Node PROVE node \in Old
  OBVIOUS
<1>1. /\ node.t \in {"VIEW", "HORIZONTAL", "VERTICAL"} /\ node.name \in View \cup {NULL}
      /\ node.y \in Nat /\ node.x \in Nat /\ node.h \in Nat \ {0} /\ node.w \in Nat \ {0}
      /\ node = [t |-> node.t, name |-> node.name, y |-> node.y, x |-> node.x, h |-> node.h, w |-> node.w]
  BY DEF Node
<1> QED BY <1>1 DEF Old, AnyNode

(* A tree has the shape of itself. *)
LEMMA ShapedSelf ==
    ASSUME NEW n, Tree(n)
    PROVE  Shaped(n, n)
<1>1. n \in [DOMAIN n -> Node]
  BY DEF Tree
<1>2. n \in [DOMAIN n -> Old]
  BY <1>1, NodeOld
<1> QED BY <1>2 DEF Shaped

(* What the calls of reshape below p leave behind. *)
LEMMA ReshapeFcn ==
    ASSUME NEW n, Tree(n), Bounded(n), NEW o, Shaped(n, o), NEW p \in DOMAIN n, NEW r \in Asked,
           NEW scr, IsScreen(scr)
    PROVE  LET m == reshape(o, p, r, scr)
           IN  /\ m \in [DOMAIN n -> Old]
               /\ \A q \in DOMAIN n : ~Under(p, q) => m[q] = o[q]
               /\ \A q \in DOMAIN n : Under(p, q) =>
                     /\ m[q] \in Node
                     /\ m[q] = Reshaped(o[q], IF q = p THEN r ELSE Half(m[Parent(q)], Last(q), scr), scr)
<1> DEFINE S == {q \in DOMAIN o : Under(p, q)}
           G(g, q) == Reshaped(o[q], IF q = p THEN r ELSE Half(g[Parent(q)], Last(q), scr), scr)
           now == CHOOSE g : g = [q \in S |-> G(g, q)]
           m == reshape(o, p, r, scr)
<1>0. DOMAIN o = DOMAIN n /\ p \in Path /\ Len(p) \in Nat
      /\ \A q \in DOMAIN n : q \in Path /\ o[q] \in Old /\ Len(q) \in Nat
  BY TreePath DEF Shaped, Path
<1>1. m = [q \in DOMAIN o |-> IF Under(p, q) THEN now[q] ELSE o[q]]
  BY DEF reshape
<1>2. p \in S
  BY <1>0, UnderOrder
<1>3. ASSUME NEW q \in S, q # p PROVE Parent(q) \in S /\ Last(q) \in Child /\ Len(Parent(q)) = Len(q) - 1
  <2>1. q \in DOMAIN n /\ q \in Path /\ Under(p, q)
    BY <1>0
  <2>2. q # <<>> /\ Under(p, Parent(q))
    BY <1>0, <1>3, <2>1, UnderParent
  <2> QED BY <1>0, <2>1, <2>2, TreePath, PathParent
<1>4. \A q \in S : o[q] \in Old /\ q \in Path /\ Len(q) \in Nat /\ Len(p) <= Len(q)
  BY <1>0, UnderOrder
<1> HIDE DEF now, m
(* The recursion on the paths has a solution, built one level at a time.   *)
<1>5. PICK d \in Nat : \A q \in S : Len(q) <= d
  BY <1>0 DEF Bounded
<1> HIDE DEF S
<1> DEFINE L(i) == {q \in S : Len(q) <= Len(p) + i}
           T == {i \in 0 .. d : \E g \in [L(i) -> Node] : \A q \in L(i) : g[q] = G(g, q)}
<1>6. 0 \in T
  <2>1. \A q \in L(0) : q = p
    <3> TAKE q \in L(0)
    <3>1. Under(p, q) /\ Len(p) = Len(q)
      BY <1>0, <1>4 DEF S
    <3> QED BY <1>0, <1>4, <3>1, UnderOrder
  <2> DEFINE g == [q \in L(0) |-> Reshaped(o[q], r, scr)]
  <2>2. g \in [L(0) -> Node]
    BY <1>4, ReshapedNode
  <2>3. \A q \in L(0) : g[q] = G(g, q)
    BY <2>1
  <2>4. 0 \in 0 .. d
    OBVIOUS
  <2> HIDE DEF L, g, G
  <2> QED BY <2>2, <2>3, <2>4
<1>7. ASSUME NEW i \in 0 .. (d - 1), i \in T PROVE i + 1 \in T
  <2>1. PICK f \in [L(i) -> Node] : \A q \in L(i) : f[q] = G(f, q)
    BY <1>7
  <2> DEFINE g == [q \in L(i + 1) |-> IF q \in L(i) THEN f[q] ELSE G(f, q)]
  <2>2. \A q \in L(i + 1) : q # p => Parent(q) \in L(i)
    <3> TAKE q \in L(i + 1)
    <3> SUFFICES ASSUME q # p PROVE Parent(q) \in L(i)
      OBVIOUS
    <3>1. q \in S /\ Len(q) <= Len(p) + (i + 1) /\ Len(q) \in Nat
      BY <1>4
    <3>2. Parent(q) \in S /\ Len(Parent(q)) = Len(q) - 1
      BY <1>3, <3>1
    <3> QED BY <1>0, <3>1, <3>2
  <2>3. \A q \in L(i + 1) : G(f, q) \in Node
    <3> TAKE q \in L(i + 1)
    <3>1. o[q] \in Old
      BY <1>4
    <3>2. CASE q = p
      BY <3>1, <3>2, ReshapedNode
    <3>3. CASE q # p
      <4>1. f[Parent(q)] \in Node
        BY <2>1, <2>2, <3>3
      <4>2. Half(f[Parent(q)], Last(q), scr) \in Asked
        BY <1>3, <3>3, <4>1, HalfAsked
      <4> QED BY <3>1, <3>3, <4>2, ReshapedNode
    <3> QED BY <3>2, <3>3
  <2>4. L(i) \subseteq L(i + 1) /\ p \in L(i)
    BY <1>0, <1>2, <1>4
  <2>5. g \in [L(i + 1) -> Node]
    <3> HIDE DEF L, G
    <3> QED BY <2>1, <2>3
  <2>6. \A q \in L(i + 1) : g[q] = G(f, q)
    <3> HIDE DEF L, G
    <3> QED BY <2>1
  <2>7. \A q \in L(i + 1) : G(g, q) = G(f, q)
    <3> TAKE q \in L(i + 1)
    <3>1. CASE q = p
      BY <3>1
    <3>2. CASE q # p
      <4>1. Parent(q) \in L(i) /\ Parent(q) \in L(i + 1)
        BY <2>2, <2>4, <3>2
      <4>2. g[Parent(q)] = f[Parent(q)]
        BY <4>1
      <4> HIDE DEF g, L
      <4> QED BY <3>2, <4>2
    <3> QED BY <3>1, <3>2
  <2>8. i + 1 \in 0 .. d
    OBVIOUS
  <2> HIDE DEF L, g, G
  <2>9. \A q \in L(i + 1) : g[q] = G(g, q)
    BY <2>6, <2>7
  <2> QED BY <2>5, <2>8, <2>9
<1>8. 0 .. d \subseteq T
  <2> HIDE DEF T
  <2> QED BY <1>6, <1>7, LoopInduction
<1>9. L(d) = S
  <2>1. \A q \in S : Len(q) <= Len(p) + d
    BY <1>0, <1>4, <1>5
  <2> QED BY <2>1
<1>10. PICK g \in [S -> Node] : \A q \in S : g[q] = G(g, q)
  <2>1. d \in T
    <3> HIDE DEF T
    <3> QED BY <1>8
  <2> HIDE DEF L, G
  <2> QED BY <1>9, <2>1
<1>11. now = [q \in S |-> G(now, q)]
  <2>1. g = [q \in S |-> G(g, q)]
    <3> HIDE DEF G
    <3> QED BY <1>10
  <2> HIDE DEF G
  <2> QED BY <2>1 DEF now
<1>12. \A q \in S : now[q] = G(now, q)
  <2> HIDE DEF G
  <2> QED BY <1>11
(* Every node it gives is a node with a rectangle. *)
<1>13. \A q \in S : now[q] \in Node
  <2> DEFINE U == {q \in Path : q \in S => now[q] \in Node}
  <2>1. p \in U
    <3>1. now[p] = Reshaped(o[p], r, scr)
      BY <1>2, <1>12
    <3> QED BY <1>0, <1>2, <1>4, <3>1, ReshapedNode
  <2>2. ASSUME NEW q \in Path, Under(p, q), q # p, Parent(q) \in U PROVE q \in U
    <3> SUFFICES ASSUME q \in S PROVE now[q] \in Node
      BY <2>2
    <3>1. Parent(q) \in S /\ Last(q) \in Child
      BY <1>3, <2>2
    <3>2. now[Parent(q)] \in Node
      BY <2>2, <3>1
    <3>3. Half(now[Parent(q)], Last(q), scr) \in Asked
      BY <3>1, <3>2, HalfAsked
    <3>4. now[q] = Reshaped(o[q], Half(now[Parent(q)], Last(q), scr), scr)
      BY <1>12, <2>2
    <3> QED BY <1>4, <3>3, <3>4, ReshapedNode
  <2> HIDE DEF U
  <2>3. \A q \in Path : Under(p, q) => q \in U
    BY <1>0, <2>1, <2>2, PathDown
  <2>4. \A q \in S : q \in U
    BY <1>4, <2>3 DEF S
  <2> QED BY <1>4, <2>4 DEF U
<1>14. \A q \in DOMAIN n : m[q] = IF Under(p, q) THEN now[q] ELSE o[q]
  BY <1>0, <1>1
<1>15. \A q \in DOMAIN n : Under(p, q) => q \in S
  BY <1>0 DEF S
<1>16. m \in [DOMAIN n -> Old]
  <2>1. \A q \in DOMAIN n : m[q] \in Old
    BY <1>0, <1>13, <1>14, <1>15, NodeOld
  <2>2. m = [q \in DOMAIN n |-> m[q]]
    BY <1>0, <1>1
  <2> QED BY <2>1, <2>2
<1>17. ASSUME NEW q \in DOMAIN n, Under(p, q)
       PROVE  m[q] \in Node /\ m[q] = Reshaped(o[q], IF q = p THEN r ELSE Half(m[Parent(q)], Last(q), scr), scr)
  <2>1. m[q] = G(now, q) /\ m[q] \in Node
    <3> HIDE DEF G
    <3> QED BY <1>12, <1>13, <1>14, <1>15, <1>17
  <2>2. q # p => m[Parent(q)] = now[Parent(q)]
    <3> SUFFICES ASSUME q # p PROVE m[Parent(q)] = now[Parent(q)]
      OBVIOUS
    <3>1. Parent(q) \in S
      BY <1>3, <1>15, <1>17
    <3>2. Parent(q) \in DOMAIN n /\ Under(p, Parent(q))
      BY <1>0, <3>1 DEF S
    <3> QED BY <1>14, <3>2
  <2> QED BY <2>1, <2>2
<1> QED BY <1>14, <1>16, <1>17 DEF m

(***************************************************************************)
(* Fresh trees: each node has what its parent asks for it.                 *)
(***************************************************************************)
(* The same nodes, with other rectangles. *)
SameShape(n, m) == /\ DOMAIN m = DOMAIN n
                   /\ \A q \in DOMAIN n : m[q].t = n[q].t /\ m[q].name = n[q].name

(* A tree with the same paths, types and names as another is a tree of the *)
(* same views.                                                             *)
LEMMA ShapeTree ==
    ASSUME NEW n, Tree(n), Bounded(n), NEW m \in [DOMAIN n -> Node], SameShape(n, m)
    PROVE  Tree(m) /\ Bounded(m) /\ Leaves(m) = Leaves(n) /\ Named(m) = Named(n)
<1>1. DOMAIN m = DOMAIN n /\ \A q \in DOMAIN n : (IsView(m[q]) <=> IsView(n[q])) /\ m[q].name = n[q].name
  BY DEF SameShape, IsView
<1>2. Leaves(m) = Leaves(n)
  BY <1>1 DEF Leaves
<1>3. \A q \in Leaves(n) : m[q].name = n[q].name
  BY <1>1 DEF Leaves
<1>4. Named(m) = Named(n)
  BY <1>2, <1>3 DEF Named
<1>5. Bounded(m)
  BY <1>1 DEF Bounded
<1>6. Tree(m)
  BY <1>1, <1>2, <1>3 DEF Tree
<1> QED BY <1>2, <1>4, <1>5, <1>6

(* What the parent of the node at q asks of it, the screen of the root;    *)
(* the node has it, or the least that comes of it.                         *)
Ask(n, q, scr)       == IF q = <<>> THEN Top(scr) ELSE Half(n[Parent(q)], Last(q), scr)
FreshNode(n, q, scr) == \/ Rect(n[q]) = Given(Ask(n, q, scr), scr)
                        \/ IsView(n[q]) /\ Rect(n[q]) = Ask(n, q, scr)
Fresh(n, scr)        == \A q \in DOMAIN n : FreshNode(n, q, scr)

(* What ReshapeRoot asks for the root can be asked for, and given. *)
LEMMA TopAsked ==
    ASSUME NEW scr, IsScreen(scr)
    PROVE  Top(scr) \in Asked /\ Given(Top(scr), scr) = Top(scr)
<1>1. scr.lines \in Nat /\ scr.cols \in Nat /\ scr.lines > 1 /\ scr.cols > 0
  BY DEF IsScreen, Screens
<1>2. Top(scr) \in Asked
  BY <1>1 DEF Top, Asked, Rects
<1>3. AtLeast(scr.lines - 1, 1) = scr.lines - 1 /\ AtLeast(scr.cols, 1) = scr.cols
  BY <1>1 DEF AtLeast
<1>4. Given(Top(scr), scr) = Top(scr)
  BY <1>3 DEF Given, Top
<1> QED BY <1>2, <1>4

(* To be given what one was given changes nothing.                         *)
LEMMA GivenTwice ==
    ASSUME NEW r \in Rects, NEW scr, IsScreen(scr)
    PROVE  Given(Given(r, scr), scr) = Given(r, scr)
<1>1. r.h \in Nat /\ r.w \in Nat
  BY DEF Rects
<1>2. AtLeast(AtLeast(r.h, 1), 1) = AtLeast(r.h, 1) /\ AtLeast(AtLeast(r.w, 1), 1) = AtLeast(r.w, 1)
  BY <1>1 DEF AtLeast
<1> QED BY <1>2 DEF Given

(* A node of a tree has at least one row and column. *)
LEMMA NodeRect ==
    ASSUME NEW node \in Node
    PROVE  /\ Rect(node) \in Asked /\ Rect(node) \in Rects
           /\ \A scr : ~scr.full => Given(Rect(node), scr) = Rect(node)
<1>1. node.y \in Nat /\ node.x \in Nat /\ node.h \in Nat \ {0} /\ node.w \in Nat \ {0}
  BY DEF Node
<1>2. Rect(node) \in Rects /\ Rect(node) \in Asked
  BY <1>1 DEF Rect, Rects, Asked
<1>3. AtLeast(node.h, 1) = node.h /\ AtLeast(node.w, 1) = node.w
  BY <1>1 DEF AtLeast
<1>4. \A scr : ~scr.full => Given(Rect(node), scr) = Rect(node)
  BY <1>3 DEF Given, Rect
<1> QED BY <1>2, <1>4

(* What the parent of a fresh node asks for it can be asked for. *)
LEMMA AskAsked ==
    ASSUME NEW n, Tree(n), NEW q \in DOMAIN n, NEW scr, IsScreen(scr)
    PROVE  Ask(n, q, scr) \in Asked
<1>1. CASE q = <<>>
  BY <1>1, TopAsked DEF Ask
<1>2. CASE q # <<>>
  <2>1. n[Parent(q)] \in Node /\ Last(q) \in Child
    BY <1>2, TreePath, PathParent
  <2> QED BY <1>2, <2>1, HalfAsked DEF Ask
<1> QED BY <1>1, <1>2

(* reshape of a tree keeps its shape. *)
LEMMA ReshapeShape ==
    ASSUME NEW n, Tree(n), Bounded(n), NEW p \in DOMAIN n, NEW r \in Asked, NEW scr, IsScreen(scr)
    PROVE  LET m == reshape(n, p, r, scr)
           IN  /\ m \in [DOMAIN n -> Node] /\ SameShape(n, m) /\ Tree(m) /\ Bounded(m) /\ Named(m) = Named(n)
               /\ \A q \in DOMAIN n : ~Under(p, q) => m[q] = n[q]
<1> DEFINE m == reshape(n, p, r, scr)
           ask(q) == IF q = p THEN r ELSE Half(m[Parent(q)], Last(q), scr)
<1>1. /\ m \in [DOMAIN n -> Old]
      /\ \A q \in DOMAIN n : ~Under(p, q) => m[q] = n[q]
      /\ \A q \in DOMAIN n : Under(p, q) => m[q] \in Node /\ m[q] = Reshaped(n[q], ask(q), scr)
  BY ShapedSelf, ReshapeFcn
<1> HIDE DEF m
<1>2. \A q \in DOMAIN n : n[q] \in Node /\ n[q] \in Old /\ q \in Path
  BY TreePath, NodeOld
<1>3. ASSUME NEW q \in DOMAIN n PROVE m[q] \in Node /\ m[q].t = n[q].t /\ m[q].name = n[q].name
  <2>1. CASE ~Under(p, q)
    BY <1>1, <1>2, <2>1
  <2>2. CASE Under(p, q)
    <3>1. ask(q) \in Asked
      <4>1. CASE q = p
        BY <4>1
      <4>2. CASE q # p
        <5>1. q # <<>> /\ Under(p, Parent(q)) /\ Parent(q) \in DOMAIN n /\ Last(q) \in Child
          BY <1>2, <2>2, <4>2, TreePath, PathParent, UnderParent
        <5>2. m[Parent(q)] \in Node
          BY <1>1, <5>1
        <5> QED BY <4>2, <5>1, <5>2, HalfAsked
      <4> QED BY <4>1, <4>2
    <3> HIDE DEF ask
    <3> QED BY <1>1, <1>2, <2>2, <3>1, ReshapedNode
  <2> QED BY <2>1, <2>2
<1>4. m \in [DOMAIN n -> Node]
  <2>1. m = [q \in DOMAIN n |-> m[q]]
    BY <1>1
  <2> QED BY <1>3, <2>1
<1>5. SameShape(n, m)
  BY <1>3, <1>4 DEF SameShape
<1> QED BY <1>1, <1>4, <1>5, ShapeTree DEF m

(* reshape of a whole tree, or of one that is fresh but for what is under  *)
(* p, where p keeps its rectangle, leaves every node fresh.                *)
LEMMA ReshapeFresh ==
    ASSUME NEW n, NEW o, Tree(n), Bounded(n), Shaped(n, o), NEW p \in DOMAIN n, NEW r \in Asked, NEW scr, IsScreen(scr),
           \/ p = <<>> /\ r = Top(scr)
           \/ /\ o = n /\ r = Rect(n[p]) /\ ~IsView(n[p])
              /\ \A q \in DOMAIN n : ~Under(p, q) \/ q = p => FreshNode(n, q, scr)
    PROVE  Fresh(reshape(o, p, r, scr), scr)
<1> DEFINE m == reshape(o, p, r, scr)
           ask(q) == IF q = p THEN r ELSE Half(m[Parent(q)], Last(q), scr)
<1>1. /\ DOMAIN m = DOMAIN n
      /\ \A q \in DOMAIN n : ~Under(p, q) => m[q] = o[q]
      /\ \A q \in DOMAIN n : Under(p, q) => m[q] \in Node /\ m[q] = Reshaped(o[q], ask(q), scr)
  BY ReshapeFcn
<1> HIDE DEF m
<1>2. \A q \in DOMAIN n : q \in Path /\ o[q] \in Old /\ n[q] \in Node /\ o[q].t = n[q].t
  BY TreePath DEF Shaped
<1> SUFFICES ASSUME NEW q \in DOMAIN n PROVE FreshNode(m, q, scr)
  BY <1>1 DEF Fresh, m
<1>3. ASSUME Under(p, q), ask(q) \in Asked
      PROVE  \/ Rect(m[q]) = Given(ask(q), scr)
             \/ IsView(m[q]) /\ Rect(m[q]) = ask(q) /\ IsView(n[q])
  <2> HIDE DEF ask
  <2>1. /\ m[q].t = o[q].t
        /\ \/ Rect(m[q]) = Given(ask(q), scr)
           \/ IsView(o[q]) /\ Rect(m[q]) = ask(q)
    BY <1>1, <1>2, <1>3, ReshapedNode
  <2> QED BY <1>2, <2>1 DEF IsView
<1>4. CASE Under(p, q) /\ q # p
  <2>1. q # <<>> /\ Under(p, Parent(q)) /\ Parent(q) \in DOMAIN n /\ Last(q) \in Child
    BY <1>2, <1>4, TreePath, PathParent, UnderParent
  <2>2. m[Parent(q)] \in Node
    BY <1>1, <2>1
  <2>3. ask(q) = Ask(m, q, scr) /\ ask(q) \in Asked
    BY <1>4, <2>1, <2>2, HalfAsked DEF Ask
  <2> HIDE DEF ask
  <2> QED BY <1>3, <1>4, <2>3 DEF FreshNode
<1>5. CASE q = p /\ p = <<>> /\ r = Top(scr)
  <2>1. Under(p, q) /\ ask(q) = r /\ Ask(m, q, scr) = r
    BY <1>2, <1>5, UnderOrder DEF Ask
  <2> HIDE DEF ask
  <2> QED BY <1>3, <2>1 DEF FreshNode
<1>6. CASE ~(p = <<>> /\ r = Top(scr)) /\ (~Under(p, q) \/ q = p)
  <2>1. /\ o = n /\ r = Rect(n[p]) /\ ~IsView(n[p])
        /\ FreshNode(n, q, scr) /\ FreshNode(n, p, scr)
    BY <1>6
  <2>2. q # <<>> => ~Under(p, Parent(q)) /\ Parent(q) \in DOMAIN n
    <3> SUFFICES ASSUME q # <<>> PROVE ~Under(p, Parent(q)) /\ Parent(q) \in DOMAIN n
      OBVIOUS
    <3>1. Parent(q) \in DOMAIN n /\ Under(Parent(q), q) /\ Parent(q) \in Path /\ Len(Parent(q)) = Len(q) - 1 /\ Len(q) \in Nat
      BY <1>2, TreePath, PathParent, UnderParent
    <3>2. ASSUME Under(p, Parent(q)) PROVE FALSE
      <4>1. Under(p, q) /\ Len(p) <= Len(Parent(q))
        BY <1>2, <3>1, <3>2, UnderOrder
      <4>2. Len(p) = Len(q)
        BY <1>6, <4>1
      <4> QED BY <3>1, <4>1, <4>2
    <3> QED BY <3>1, <3>2
  <2>3. Ask(m, q, scr) = Ask(n, q, scr)
    BY <1>1, <2>1, <2>2 DEF Ask
  <2>4. CASE q = p
    <3>1. Under(p, q) /\ ask(q) = r
      BY <1>2, <2>4, UnderOrder
    <3>2. Rect(m[q]) = Given(r, scr)
      BY <1>3, <2>1, <2>4, <3>1
    <3>3. r = Given(Ask(n, p, scr), scr)
      BY <2>1 DEF FreshNode
    <3>4. Ask(n, p, scr) \in Rects
      BY AskAsked DEF Asked
    <3>5. Rect(m[q]) = Given(Ask(n, p, scr), scr)
      BY <3>2, <3>3, <3>4, GivenTwice
    <3> QED BY <2>3, <2>4, <3>5 DEF FreshNode
  <2>5. CASE q # p
    <3>1. m[q] = n[q]
      BY <1>1, <1>6, <2>1, <2>5
    <3> QED BY <2>1, <2>3, <3>1 DEF FreshNode
  <2> QED BY <2>4, <2>5
<1>7. CASE ~Under(p, q) /\ p = <<>>
  BY <1>2, <1>7, UnderOrder
<1> QED BY <1>4, <1>5, <1>6, <1>7

(* Out of full screen a fresh node has what it was given. *)
LEMMA FreshGiven ==
    ASSUME NEW n, Tree(n), NEW scr, IsScreen(scr), ~scr.full, NEW q \in DOMAIN n, FreshNode(n, q, scr)
    PROVE  Rect(n[q]) = Given(Ask(n, q, scr), scr)
<1>1. n[q] \in Node
  BY TreePath
<1>2. Given(Rect(n[q]), scr) = Rect(n[q])
  BY <1>1, NodeRect
<1> QED BY <1>2 DEF FreshNode

(* What is asked for a child depends on the parent's rectangle and type    *)
(* only.                                                                   *)
LEMMA HalfSame ==
    ASSUME NEW node, NEW node2, Rect(node) = Rect(node2), node.t = node2.t, NEW c, NEW scr
    PROVE  Half(node, c, scr) = Half(node2, c, scr)
<1>1. node.y = node2.y /\ node.x = node2.x /\ node.h = node2.h /\ node.w = node2.w
  BY DEF Rect
<1>2. FirstHalf(node, scr) = FirstHalf(node2, scr)
  BY <1>1 DEF FirstHalf
<1>3. SecondHalf(node, scr) = SecondHalf(node2, scr)
  BY <1>1, <1>2 DEF SecondHalf
<1> QED BY <1>2, <1>3 DEF Half

(* Two fresh trees agree on a node when they agree on the types above it.  *)
LEMMA FreshSame ==
    ASSUME NEW n, Tree(n), NEW m, Tree(m), NEW scr, IsScreen(scr), ~scr.full, Fresh(n, scr), Fresh(m, scr),
           NEW q \in DOMAIN n, q \in DOMAIN m,
           \A p \in DOMAIN n : Under(p, q) /\ p # q => n[p].t = m[p].t
    PROVE  Rect(n[q]) = Rect(m[q])
<1> DEFINE T == {r \in Path : Under(r, q) => Rect(n[r]) = Rect(m[r])}
<1>1. q \in Path /\ <<>> \in Path /\ <<>> \in DOMAIN n /\ <<>> \in DOMAIN m
  BY TreePath DEF Tree, Path
<1>2. ASSUME NEW r \in DOMAIN n, r \in DOMAIN m
      PROVE  Rect(n[r]) = Given(Ask(n, r, scr), scr) /\ Rect(m[r]) = Given(Ask(m, r, scr), scr)
  BY <1>2, FreshGiven DEF Fresh
<1>3. <<>> \in T
  BY <1>1, <1>2 DEF Ask
<1>4. ASSUME NEW r \in Path, Under(<<>>, r), r # <<>>, Parent(r) \in T PROVE r \in T
  <2> SUFFICES ASSUME Under(r, q) PROVE Rect(n[r]) = Rect(m[r])
    BY <1>4
  <2>1. r \in DOMAIN n /\ r \in DOMAIN m
    BY TreeUp
  <2>2. Parent(r) \in Path /\ Under(Parent(r), r) /\ Len(Parent(r)) = Len(r) - 1 /\ Len(r) \in Nat
    BY <1>4, PathParent, UnderParent
  <2>3. Under(Parent(r), q) /\ Parent(r) # q
    BY <1>1, <2>2, UnderOrder
  <2>4. Parent(r) \in DOMAIN n
    BY <2>1, <1>4, TreePath
  <2>5. Rect(n[Parent(r)]) = Rect(m[Parent(r)]) /\ n[Parent(r)].t = m[Parent(r)].t
    BY <1>4, <2>3, <2>4
  <2>6. Ask(n, r, scr) = Ask(m, r, scr)
    BY <1>4, <2>5, HalfSame DEF Ask
  <2> QED BY <1>2, <2>1, <2>6
<1> HIDE DEF T
<1>5. \A r \in Path : Under(<<>>, r) => r \in T
  BY <1>1, <1>3, <1>4, PathDown
<1>6. q \in T
  BY <1>1, <1>5, UnderOrder
<1> QED BY <1>1, <1>6, UnderOrder DEF T

(* The root of a fresh tree has the screen above the status line.          *)
LEMMA FreshRoot ==
    ASSUME NEW n, Tree(n), NEW scr, IsScreen(scr), Fresh(n, scr)
    PROVE  Rect(n[<<>>]) = Top(scr)
<1>1. FreshNode(n, <<>>, scr)
  BY DEF Fresh, Tree
<1> QED BY <1>1, TopAsked DEF FreshNode, Ask

(* A whole tree laid out by reshape.                                       *)
LEMMA ReshapeRootFresh ==
    ASSUME NEW n, Tree(n), Bounded(n), NEW scr, IsScreen(scr)
    PROVE  LET m == ReshapeRoot(n, scr)
           IN  Tree(m) /\ Bounded(m) /\ Named(m) = Named(n) /\ SameShape(n, m) /\ Fresh(m, scr)
<1>1. <<>> \in DOMAIN n
  BY DEF Tree
<1>2. ReshapeRoot(n, scr) = reshape(n, <<>>, Top(scr), scr)
  BY DEF ReshapeRoot, Top
<1>3. Fresh(reshape(n, <<>>, Top(scr), scr), scr)
  BY <1>1, TopAsked, ShapedSelf, ReshapeFresh
<1> QED BY <1>1, <1>2, <1>3, TopAsked, ReshapeShape

(* Out of full screen a fresh tree has the rectangles it would get if it   *)
(* had none.                                                               *)
LEMMA FreshAnew ==
    ASSUME NEW n, Tree(n), Bounded(n), NEW scr, IsScreen(scr), ~scr.full, Fresh(n, scr)
    PROVE  n = ReshapeRoot(Blank(n), scr)
<1> SUFFICES ASSUME NEW o, o = Blank(n) PROVE n = ReshapeRoot(o, scr)
  OBVIOUS
<1> DEFINE r == Top(scr)
           m == reshape(o, <<>>, r, scr)
           ask(q) == IF q = <<>> THEN r ELSE Half(m[Parent(q)], Last(q), scr)
<1>1. m = ReshapeRoot(o, scr)
  BY DEF ReshapeRoot, Top
<1>2. \A q \in DOMAIN n : /\ q \in Path /\ n[q] \in Node
                          /\ n[q] = [t |-> n[q].t, name |-> n[q].name, y |-> n[q].y, x |-> n[q].x, h |-> n[q].h, w |-> n[q].w]
                          /\ n[q].t \in {"VIEW", "HORIZONTAL", "VERTICAL"} /\ n[q].name \in View \cup {NULL}
  BY TreePath DEF Node
<1>3. \A q \in DOMAIN n : o[q] = [t |-> n[q].t, name |-> n[q].name, y |-> 0, x |-> 0, h |-> 0, w |-> 0]
  <2> TAKE q \in DOMAIN n
  <2> DEFINE node == n[q]
  <2>1. o[q] = [node EXCEPT !.y = 0, !.x = 0, !.h = 0, !.w = 0]
    BY DEF Blank
  <2>2. node \in Node
    BY <1>2
  <2> HIDE DEF node
  <2>3. o[q] = [t |-> node.t, name |-> node.name, y |-> 0, x |-> 0, h |-> 0, w |-> 0]
    BY <2>1, <2>2 DEF Node
  <2> QED BY <2>3 DEF node
<1>4. DOMAIN o = DOMAIN n /\ o = [q \in DOMAIN n |-> o[q]]
  BY DEF Blank
<1>5. \A q \in DOMAIN n : o[q] \in Old /\ o[q].t = n[q].t /\ o[q].name = n[q].name
  <2> TAKE q \in DOMAIN n
  <2> DEFINE a == n[q].t
             b == n[q].name
  <2>1. a \in {"VIEW", "HORIZONTAL", "VERTICAL"} /\ b \in View \cup {NULL}
    BY <1>2
  <2>2. o[q] = [t |-> a, name |-> b, y |-> 0, x |-> 0, h |-> 0, w |-> 0]
    BY <1>3
  <2> HIDE DEF a, b
  <2>3. o[q].h = 0 /\ o[q].w = 0 /\ o[q].t = a /\ o[q].name = b
    BY <2>2
  <2>4. o[q] \in AnyNode
    BY <2>1, <2>2 DEF AnyNode
  <2> QED BY <2>3, <2>4 DEF Old, a, b
<1>6. Shaped(n, o)
  BY <1>4, <1>5 DEF Shaped
<1>7. <<>> \in DOMAIN n /\ r \in Asked
  BY TopAsked DEF Tree
<1>8. Fresh(m, scr)
  BY <1>6, <1>7, ReshapeFresh
<1>9. m \in [DOMAIN n -> Old] /\ \A q \in DOMAIN n : m[q] \in Node /\ m[q] = Reshaped(o[q], ask(q), scr)
  BY <1>2, <1>6, <1>7, UnderOrder, ReshapeFcn
<1> HIDE DEF m, r
<1>10. \A q \in DOMAIN n : ask(q) \in Asked
  <2> TAKE q \in DOMAIN n
  <2>1. q # <<>> => m[Parent(q)] \in Node /\ Last(q) \in Child
    BY <1>2, <1>9, TreePath, PathParent
  <2> QED BY <1>7, <2>1, HalfAsked
<1> HIDE DEF ask
<1>11. \A q \in DOMAIN n : m[q].t = n[q].t /\ m[q].name = n[q].name
  BY <1>5, <1>9, <1>10, ReshapedNode
<1>12. DOMAIN m = DOMAIN n /\ m \in [DOMAIN n -> Node] /\ SameShape(n, m)
  <2>1. m = [q \in DOMAIN n |-> m[q]] /\ DOMAIN m = DOMAIN n
    BY <1>9
  <2> QED BY <1>9, <1>11, <2>1 DEF SameShape
<1>13. Tree(m)
  BY <1>12, ShapeTree
<1>14. \A q \in DOMAIN n : Rect(n[q]) = Rect(m[q])
  BY <1>8, <1>11, <1>12, <1>13, FreshSame
<1>15. \A q \in DOMAIN n : n[q] = m[q]
  <2> TAKE q \in DOMAIN n
  <2>1. /\ m[q] = [t |-> m[q].t, name |-> m[q].name, y |-> m[q].y, x |-> m[q].x, h |-> m[q].h, w |-> m[q].w]
    BY <1>9 DEF Node
  <2>2. n[q].y = m[q].y /\ n[q].x = m[q].x /\ n[q].h = m[q].h /\ n[q].w = m[q].w
    BY <1>14 DEF Rect
  <2> QED BY <1>2, <1>11, <2>1, <2>2
<1>16. n = m
  <2>1. n = [q \in DOMAIN n |-> n[q]] /\ m = [q \in DOMAIN n |-> m[q]]
    BY <1>12 DEF Tree
  <2> QED BY <1>15, <2>1
<1> QED BY <1>1, <1>16

(* In full screen a fresh node has the whole screen, and a view beside     *)
(* others may have the status line too.                                    *)
LEMMA FreshFull ==
    ASSUME NEW n, Tree(n), NEW scr, IsScreen(scr), scr.full, Fresh(n, scr), NEW q \in DOMAIN n
    PROVE  \/ Rect(n[q]) = Top(scr)
           \/ q # <<>> /\ IsView(n[q]) /\ Rect(n[q]) = [y |-> 0, x |-> 0, h |-> scr.lines, w |-> scr.cols]
<1>1. FreshNode(n, q, scr)
  BY DEF Fresh
<1>2. CASE q = <<>>
  BY <1>1, <1>2, FreshRoot
<1>3. CASE q # <<>>
  <2>1. Ask(n, q, scr) = [y |-> 0, x |-> 0, h |-> scr.lines, w |-> scr.cols]
    BY <1>3 DEF Ask, Half, FirstHalf, SecondHalf
  <2>2. Given(Ask(n, q, scr), scr) = Top(scr)
    BY <2>1 DEF Given, Top
  <2> QED BY <1>1, <1>3, <2>1, <2>2 DEF FreshNode
<1> QED BY <1>2, <1>3

(* Out of full screen, a container of a fresh tree with three cells to     *)
(* divide shares them out.                                                 *)
LEMMA FreshShared ==
    ASSUME NEW n, Tree(n), NEW scr, IsScreen(scr), ~scr.full, Fresh(n, scr), NEW p \in DOMAIN n, ~IsView(n[p]),
           Divided(n[p]) > 2
    PROVE  Shared(n, p)
<1> DEFINE node == n[p]
           n1 == n[Append(p, "c1")]
           n2 == n[Append(p, "c2")]
<1>1. p \in Path /\ node \in Node /\ "c1" \in Child /\ "c2" \in Child
  BY TreePath DEF Child
<1>2. Append(p, "c1") \in DOMAIN n /\ Append(p, "c2") \in DOMAIN n
  BY <1>1, TreePath
<1>3. /\ Ask(n, Append(p, "c1"), scr) = FirstHalf(node, scr)
      /\ Ask(n, Append(p, "c2"), scr) = SecondHalf(node, scr)
  BY <1>1, PathChild DEF Ask, Half
<1>4. Rect(n1) = Given(FirstHalf(node, scr), scr) /\ Rect(n2) = Given(SecondHalf(node, scr), scr)
  BY <1>2, <1>3, FreshGiven DEF Fresh
<1>5. node.y \in Nat /\ node.x \in Nat /\ node.h \in Nat \ {0} /\ node.w \in Nat \ {0}
  BY <1>1 DEF Node
<1> HIDE DEF node, n1, n2
<1> DEFINE i(e) == IF e % 2 = 1 THEN 0 ELSE 1
<1>6. \A e \in Nat : e > 2 => e \div 2 >= 1 /\ e \div 2 - i(e) >= 1 /\ e \div 2 \in Nat /\ e \div 2 - i(e) \in Nat
                              /\ e \div 2 + 1 + (e \div 2 - i(e)) = e
  OBVIOUS
<1>7. AtLeast(node.h, 1) = node.h /\ AtLeast(node.w, 1) = node.w
  BY <1>5 DEF AtLeast
<1>8. CASE node.t = "HORIZONTAL"
  <2> DEFINE k == node.w \div 2
             l == node.w \div 2 - i(node.w)
  <2>0. node.w > 2
    BY <1>8 DEF Divided, node
  <2>1. k \in Nat /\ l \in Nat /\ k >= 1 /\ l >= 1 /\ k + 1 + l = node.w
    BY <1>5, <1>6, <2>0
  <2>2. FirstHalf(node, scr) = [y |-> node.y, x |-> node.x, h |-> node.h, w |-> k]
    BY <1>8 DEF FirstHalf, Rect
  <2>3. SecondHalf(node, scr) = [y |-> node.y, x |-> node.x + k + 1, h |-> node.h, w |-> l]
    <3>1. SecondHalf(node, scr) = [Rect(node) EXCEPT !.x = node.x + k + 1, !.w = l]
      BY <1>8 DEF SecondHalf
    <3> HIDE DEF k, l
    <3> QED BY <3>1 DEF Rect
  <2>4. LineAt(node) = node.x + k /\ Along(node) = "x"
    BY <1>8 DEF LineAt, Along, Low, Extent
  <2> HIDE DEF k, l, i
  <2>5. AtLeast(k, 1) = k /\ AtLeast(l, 1) = l
    BY <2>1 DEF AtLeast
  <2>6. /\ n1.y = node.y /\ n1.x = node.x /\ n1.h = node.h /\ n1.w = k
        /\ n2.y = node.y /\ n2.x = node.x + k + 1 /\ n2.h = node.h /\ n2.w = l
    BY <1>4, <1>7, <2>2, <2>3, <2>5 DEF Rect, Given
  <2>7. /\ Extent(node, "x") > 2
        /\ Low(n1, "x") = Low(node, "x") /\ High(n1, "x") = LineAt(node)
        /\ Low(n2, "x") = LineAt(node) + 1 /\ High(n2, "x") = High(node, "x")
        /\ Low(n1, "y") = Low(node, "y") /\ High(n1, "y") = High(node, "y")
        /\ Low(n2, "y") = Low(node, "y") /\ High(n2, "y") = High(node, "y")
    BY <1>5, <2>0, <2>1, <2>4, <2>6 DEF Low, High, Extent
  <2> QED BY <2>4, <2>7 DEF Shared, Axis, Child, node, n1, n2
<1>9. CASE node.t # "HORIZONTAL"
  <2> DEFINE k == node.h \div 2
             l == node.h \div 2 - i(node.h)
  <2>0. node.h > 2
    BY <1>9 DEF Divided, node
  <2>1. k \in Nat /\ l \in Nat /\ k >= 1 /\ l >= 1 /\ k + 1 + l = node.h
    BY <1>5, <1>6, <2>0
  <2>2. FirstHalf(node, scr) = [y |-> node.y, x |-> node.x, h |-> k, w |-> node.w]
    BY <1>9 DEF FirstHalf, Rect
  <2>3. SecondHalf(node, scr) = [y |-> node.y + k + 1, x |-> node.x, h |-> l, w |-> node.w]
    <3>1. SecondHalf(node, scr) = [Rect(node) EXCEPT !.y = node.y + k + 1, !.h = l]
      BY <1>9 DEF SecondHalf
    <3> HIDE DEF k, l
    <3> QED BY <3>1 DEF Rect
  <2>4. LineAt(node) = node.y + k /\ Along(node) = "y"
    BY <1>9 DEF LineAt, Along, Low, Extent
  <2> HIDE DEF k, l, i
  <2>5. AtLeast(k, 1) = k /\ AtLeast(l, 1) = l
    BY <2>1 DEF AtLeast
  <2>6. /\ n1.y = node.y /\ n1.x = node.x /\ n1.h = k /\ n1.w = node.w
        /\ n2.y = node.y + k + 1 /\ n2.x = node.x /\ n2.h = l /\ n2.w = node.w
    BY <1>4, <1>7, <2>2, <2>3, <2>5 DEF Rect, Given
  <2>7. /\ Extent(node, "y") > 2
        /\ Low(n1, "y") = Low(node, "y") /\ High(n1, "y") = LineAt(node)
        /\ Low(n2, "y") = LineAt(node) + 1 /\ High(n2, "y") = High(node, "y")
        /\ Low(n1, "x") = Low(node, "x") /\ High(n1, "x") = High(node, "x")
        /\ Low(n2, "x") = Low(node, "x") /\ High(n2, "x") = High(node, "x")
    BY <1>5, <2>0, <2>1, <2>4, <2>6 DEF Low, High, Extent
  <2> QED BY <2>4, <2>7 DEF Shared, Axis, Child, node, n1, n2
<1> QED BY <1>8, <1>9

(* replacechild in a fresh tree. *)
LEMMA ReplaceFresh ==
    ASSUME NEW n, Tree(n), Bounded(n), NEW scr, IsScreen(scr), Fresh(n, scr), NEW p \in DOMAIN n,
           NEW m, Tree(m), Bounded(m), Kept(n, p) \cap Named(m) = {}
    PROVE  LET g == replacechild(n, p, m, scr)
           IN  /\ Tree(g) /\ Bounded(g) /\ Fresh(g, scr) /\ SameShape(Graft(n, p, m), g)
               /\ Named(g) = Kept(n, p) \cup Named(m)
<1> SUFFICES ASSUME NEW new, new = Graft(n, p, m)
             PROVE  LET g == replacechild(n, p, m, scr)
                    IN  /\ Tree(g) /\ Bounded(g) /\ Fresh(g, scr) /\ SameShape(new, g)
                        /\ Named(g) = Kept(n, p) \cup Named(m)
  OBVIOUS
<1>1. /\ Tree(new) /\ Bounded(new) /\ Named(new) = Kept(n, p) \cup Named(m)
      /\ \A q \in Path : ~Under(p, q) => (q \in DOMAIN new <=> q \in DOMAIN n) /\ (q \in DOMAIN n => new[q] = n[q])
  BY GraftTree
<1>2. p \in Path /\ \A q \in DOMAIN n : n[q] \in Node
  BY TreePath
<1>3. CASE p = <<>>
  <2>1. replacechild(n, p, m, scr) = ReshapeRoot(new, scr)
    BY <1>3 DEF replacechild
  <2> QED BY <1>1, <2>1, ReshapeRootFresh
<1>4. CASE p # <<>>
  <2> DEFINE a == Parent(p)
             r == Rect(n[a])
  <2>1. replacechild(n, p, m, scr) = reshape(new, a, r, scr)
    BY <1>4 DEF replacechild
  <2>2. /\ a \in DOMAIN n /\ ~IsView(n[a]) /\ a \in Path /\ Under(a, p)
        /\ Len(a) = Len(p) - 1 /\ Len(p) \in Nat
    BY <1>2, <1>4, TreePath, PathParent, UnderParent
  <2> HIDE DEF a
  <2>3. ~Under(p, a)
    BY <1>2, <2>2, UnderOrder
  <2>4. a \in DOMAIN new /\ new[a] = n[a]
    BY <1>1, <2>2, <2>3
  <2>5. r \in Asked
    BY <1>2, <2>2, NodeRect
  <2>6. ASSUME NEW q \in DOMAIN new, ~Under(a, q) \/ q = a PROVE FreshNode(new, q, scr)
    <3>1. q \in Path
      BY <1>1, TreePath
    <3>2. ~Under(p, q)
      BY <1>2, <2>2, <2>3, <2>6, <3>1, UnderOrder
    <3>3. q \in DOMAIN n /\ new[q] = n[q]
      BY <1>1, <3>1, <3>2
    <3>4. ASSUME q # <<>> PROVE new[Parent(q)] = n[Parent(q)]
      <4>1. Parent(q) \in DOMAIN n /\ Parent(q) \in Path /\ Under(Parent(q), q)
        BY <3>1, <3>3, <3>4, TreePath, PathParent, UnderParent
      <4>2. ~Under(p, Parent(q))
        BY <1>2, <3>1, <3>2, <4>1, UnderOrder
      <4> QED BY <1>1, <4>1, <4>2
    <3>5. Ask(new, q, scr) = Ask(n, q, scr)
      BY <3>4 DEF Ask
    <3>6. FreshNode(n, q, scr)
      BY <3>3 DEF Fresh
    <3> QED BY <3>3, <3>5, <3>6 DEF FreshNode
  <2> HIDE DEF r
  <2>7. Fresh(reshape(new, a, r, scr), scr)
    <3>1. Shaped(new, new) /\ r = Rect(new[a]) /\ ~IsView(new[a])
      BY <1>1, <2>2, <2>4, ShapedSelf DEF r
    <3> QED BY <1>1, <2>4, <2>5, <2>6, <3>1, ReshapeFresh
  <2>8. LET g == reshape(new, a, r, scr)
        IN  SameShape(new, g) /\ Tree(g) /\ Bounded(g) /\ Named(g) = Named(new)
    BY <1>1, <2>4, <2>5, ReshapeShape
  <2> QED BY <1>1, <2>1, <2>7, <2>8
<1> QED BY <1>3, <1>4

(* The first view under a node. *)
LEMMA FirstUnder ==
    ASSUME NEW n, Tree(n), Bounded(n), NEW p \in DOMAIN n
    PROVE  LET q == FirstView(n, p)
           IN  /\ q \in Leaves(n) /\ Under(p, q) /\ \A i \in Len(p) + 1 .. Len(q) : q[i] = "c1"
               /\ IsView(n[p]) => q = p
<1> DEFINE First(q) == Under(p, q) /\ \A i \in Len(p) + 1 .. Len(q) : q[i] = "c1"
           S == {q \in DOMAIN n : First(q)}
<1>1. p \in Path /\ Len(p) \in Nat /\ \A q \in DOMAIN n : q \in Path
  BY TreePath DEF Path
<1>2. p \in S
  <2>1. \A i \in Len(p) + 1 .. Len(p) : FALSE
    BY <1>1
  <2> QED BY <1>1, <2>1, UnderOrder
<1>3. PICK q \in S : \A o \in S : Len(o) <= Len(q)
  <2>1. S # {} /\ S \subseteq DOMAIN n
    BY <1>2
  <2> HIDE DEF S
  <2> QED BY <2>1, Deepest
<1>4. q \in DOMAIN n /\ First(q) /\ q \in Path
  BY <1>1, <1>3
<1>5. ASSUME ~IsView(n[q]) PROVE FALSE
  <2> DEFINE o == Append(q, "c1")
  <2>1. "c1" \in Child
    BY DEF Child
  <2>2. o \in DOMAIN n /\ o \in Path /\ Len(o) = Len(q) + 1 /\ Len(q) \in Nat /\ Under(q, o)
    BY <1>4, <1>5, <2>1, TreePath, PathChild, UnderChild DEF Path
  <2>3. Under(p, o)
    BY <1>1, <1>4, <2>2, UnderOrder
  <2>4. \A i \in Len(p) + 1 .. Len(o) : o[i] = "c1"
    <3> TAKE i \in Len(p) + 1 .. Len(o)
    <3>1. CASE i = Len(q) + 1
      BY <1>4, <3>1 DEF Path
    <3>2. CASE i # Len(q) + 1
      <4>1. i \in 1 .. Len(q) /\ i \in Len(p) + 1 .. Len(q)
        BY <1>1, <2>2, <3>2
      <4>2. o[i] = q[i]
        BY <1>4, <4>1 DEF Path
      <4> QED BY <1>4, <4>1, <4>2
    <3> QED BY <3>1, <3>2
  <2> HIDE DEF o
  <2>5. o \in S
    BY <2>2, <2>3, <2>4
  <2>6. Len(o) <= Len(q)
    BY <1>3, <2>5
  <2> QED BY <2>2, <2>6
<1>6. q \in Leaves(n) /\ First(q)
  BY <1>4, <1>5 DEF Leaves
<1> HIDE DEF First
<1>7. FirstView(n, p) \in Leaves(n) /\ First(FirstView(n, p))
  BY <1>6 DEF FirstView, First
<1>8. IsView(n[p]) => FirstView(n, p) = p
  BY <1>7, LeafEnds DEF Leaves, First
<1> QED BY <1>7, <1>8 DEF First

(* Out of full screen it starts where the node does. *)
LEMMA FirstCorner ==
    ASSUME NEW n, Tree(n), Bounded(n), NEW scr, IsScreen(scr), ~scr.full, Fresh(n, scr), NEW p \in DOMAIN n
    PROVE  n[FirstView(n, p)].y = n[p].y /\ n[FirstView(n, p)].x = n[p].x
<1> SUFFICES ASSUME NEW q, q = FirstView(n, p) PROVE n[q].y = n[p].y /\ n[q].x = n[p].x
  OBVIOUS
<1>1. q \in DOMAIN n /\ Under(p, q) /\ \A i \in Len(p) + 1 .. Len(q) : q[i] = "c1"
  BY FirstUnder DEF Leaves
<1>2. p \in Path /\ q \in Path
  BY <1>1, TreePath
<1> DEFINE T == {r \in Path : Under(p, r) => n[q].y = n[r].y /\ n[q].x = n[r].x}
<1>3. q \in T
  BY <1>2
<1>4. ASSUME NEW r \in Path, Under(r, q), r # <<>>, r \in T PROVE Parent(r) \in T
  <2>1. Parent(r) \in Path /\ Len(Parent(r)) = Len(r) - 1 /\ Len(r) \in Nat /\ Under(Parent(r), r)
    BY <1>4, PathParent, UnderParent
  <2> SUFFICES ASSUME Under(p, Parent(r)) PROVE n[q].y = n[Parent(r)].y /\ n[q].x = n[Parent(r)].x
    BY <2>1
  <2>2. Under(p, r) /\ Len(p) <= Len(r) - 1 /\ Len(p) \in Nat
    BY <1>2, <2>1, UnderOrder DEF Path
  <2>3. n[q].y = n[r].y /\ n[q].x = n[r].x
    BY <1>4, <2>2
  <2>4. r \in DOMAIN n
    BY <1>1, <1>4, TreeUp
  <2>5. Last(r) = "c1"
    <3>1. Len(r) \in 1 .. Len(r) /\ Len(r) <= Len(q) /\ Len(q) \in Nat
      BY <1>2, <1>4, <2>1, <2>2, UnderOrder DEF Path
    <3>2. q[Len(r)] = r[Len(r)]
      BY <1>4, <3>1 DEF Under
    <3>3. Len(r) \in Len(p) + 1 .. Len(q)
      BY <2>1, <2>2, <3>1
    <3> QED BY <1>1, <3>2, <3>3 DEF Last
  <2>6. Rect(n[r]) = Given(FirstHalf(n[Parent(r)], scr), scr)
    BY <1>4, <2>4, <2>5, FreshGiven DEF Fresh, Ask, Half
  <2>7. FirstHalf(n[Parent(r)], scr).y = n[Parent(r)].y /\ FirstHalf(n[Parent(r)], scr).x = n[Parent(r)].x
    BY DEF FirstHalf, Rect
  <2>8. n[r].y = FirstHalf(n[Parent(r)], scr).y /\ n[r].x = FirstHalf(n[Parent(r)], scr).x
    BY <2>6 DEF Rect, Given
  <2> QED BY <2>3, <2>7, <2>8
<1> HIDE DEF T
<1>5. p \in T
  BY <1>1, <1>2, <1>3, <1>4, PathUp
<1> QED BY <1>2, <1>5, UnderOrder DEF T

(* The cells of a tiled screen. *)
LEMMA TiledOnce ==
    ASSUME NEW n, Tree(n), Tiled(n), ScreenSize, Rect(n[<<>>]) = RootRect, NEW b \in DOMAIN n, SharedDownTo(n, b),
           ~IsView(n[b]), NEW q \in Leaves(n), NEW my \in Int, NEW mx \in Int,
           OnLine(n[b], Cell(my, mx)), Holds(n[b], Cell(my, mx))
    PROVE  ~Holds(n[q], Cell(my, mx))
<1> DEFINE c == Cell(my, mx)
<1>1. <<>> \in DOMAIN n /\ <<>> \in Path /\ n[<<>>] \in Node /\ b \in Path /\ n[b] \in Node /\ n[q] \in Node
      /\ q \in DOMAIN n /\ IsView(n[q])
  BY TreePath DEF Tree, Path, Leaves
<1>2. c \in [Axis -> Int] /\ c["y"] = my /\ c["x"] = mx
  BY CellAxes
<1>3. Holds(n[<<>>], c)
  <2> HIDE DEF c
  <2>1. Holds(n[b], c)
    BY DEF c
  <2> QED BY <1>1, <1>2, <2>1, HeldAbove, UnderOrder
<1>4. Shows(n[<<>>], my, mx)
  BY <1>1, <1>3, DrawnCells
<1>5. n[<<>>].y = 0 /\ n[<<>>].x = 0 /\ n[<<>>].h = LINES - 1 /\ n[<<>>].w = COLS
  BY <1>1, RootAxes
<1>6. my \in 0 .. LINES - 2 /\ mx \in 0 .. COLS - 1
  BY <1>4, <1>5 DEF Shows, ScreenSize
<1>7. ASSUME Holds(n[q], c) PROVE FALSE
  <2>1. Shows(Drawn(n[q]), my, mx) /\ Shows(Drawn(n[b]), my, mx)
    BY <1>1, <1>7, DrawnCells
  <2>2. q = b
    BY <1>1, <1>6, <2>1 DEF Tiled
  <2> QED BY <1>1, <2>2
<1> QED BY <1>7

(* On a tiled screen every container has three cells to divide: with one   *)
(* or two, a view is drawn over a line or past the edge of the screen.     *)
LEMMA TiledRoomy ==
    ASSUME NEW n, Tree(n), Bounded(n), NEW scr, IsScreen(scr), ~scr.full, Fresh(n, scr),
           scr.lines = LINES, scr.cols = COLS, Tiled(n)
    PROVE  Roomy(n)
<1> DEFINE S == {p \in DOMAIN n \ Leaves(n) : ~(Divided(n[p]) > 2)}
           L == {Len(p) : p \in S}
<1> SUFFICES ASSUME S # {} PROVE FALSE
  BY DEF Roomy
<1>1. ScreenSize /\ Rect(n[<<>>]) = RootRect
  BY FreshRoot DEF ScreenSize, IsScreen, Screens, RootRect, Top
<1>2. \A p \in DOMAIN n : p \in Path /\ Len(p) \in Nat /\ n[p] \in Node
  BY TreePath DEF Path
<1>3. PICK p \in S : \A q \in S : Len(p) <= Len(q)
  <2>1. L # {} /\ L \subseteq Nat
    BY <1>2
  <2>2. PICK k \in L : \A i \in L : k <= i
    <3> HIDE DEF L
    <3> QED BY <2>1, LeastNat
  <2> HIDE DEF S
  <2>3. PICK p \in S : k = Len(p)
    BY <2>2
  <2> QED BY <2>2, <2>3
<1>4. p \in DOMAIN n /\ ~IsView(n[p]) /\ ~(Divided(n[p]) > 2) /\ p \in Path /\ n[p] \in Node
  BY <1>2, <1>3 DEF Leaves
<1>5. SharedDownTo(n, p)
  <2> SUFFICES ASSUME NEW q \in DOMAIN n, Under(q, p), q # p PROVE Shared(n, q)
    BY DEF SharedDownTo
  <2>1. ~IsView(n[q])
    BY <1>2, <1>4, TreeUp
  <2>2. Len(q) <= Len(p) /\ Len(q) # Len(p)
    BY <1>2, <1>4, UnderOrder
  <2>3. q \notin S
    BY <1>2, <1>3, <1>4, <2>2
  <2>4. Divided(n[q]) > 2
    BY <2>1, <2>3 DEF Leaves
  <2> QED BY <2>1, <2>4, FreshShared
<1> HIDE DEF S, L
<1> DEFINE a == Along(n[p])
           o == IF a = "x" THEN "y" ELSE "x"
           e == Extent(n[p], a)
<1>6. /\ a \in Axis /\ o \in Axis /\ a # o /\ \A k \in Axis : k = a \/ k = o
      /\ e \in Nat /\ (e = 1 \/ e = 2) /\ Divided(n[p]) = e
  <2>1. n[p].h \in Nat \ {0} /\ n[p].w \in Nat \ {0}
    BY <1>4 DEF Node
  <2>2. e = Divided(n[p]) /\ e \in Nat \ {0}
    BY <2>1 DEF Along, Extent, Divided
  <2>3. e = 1 \/ e = 2
    BY <1>4, <2>2
  <2>4. a \in Axis
    BY DEF Along, Axis
  <2> QED BY <2>2, <2>3, <2>4 DEF Axis
<1>7. \A k \in Axis : /\ Low(n[p], k) \in Nat /\ High(n[p], k) \in Nat /\ Low(n[p], k) < High(n[p], k)
                      /\ High(n[p], k) = Low(n[p], k) + Extent(n[p], k)
  BY <1>4, NodeAxes
<1>8. "c1" \in Child /\ "c2" \in Child
  BY DEF Child
<1>9. \A c \in Child : Append(p, c) \in DOMAIN n /\ Rect(n[Append(p, c)]) = Given(Half(n[p], c, scr), scr)
  <2> TAKE c \in Child
  <2>1. Append(p, c) \in DOMAIN n /\ Parent(Append(p, c)) = p /\ Last(Append(p, c)) = c /\ Append(p, c) # <<>>
    BY <1>4, TreePath, PathChild
  <2> QED BY <2>1, FreshGiven DEF Fresh, Ask
(* The cell where the first view under a child starts.                     *)
<1>10. \A c \in Child : LET q == FirstView(n, Append(p, c))
                        IN  /\ q \in Leaves(n) /\ n[q] \in Node /\ q \in DOMAIN n
                            /\ \A k \in Axis : Low(n[q], k) = Low(n[Append(p, c)], k)
                            /\ Cell(n[q].y, n[q].x) \in [Axis -> Int]
                            /\ \A k \in Axis : Cell(n[q].y, n[q].x)[k] = Low(n[q], k)
                            /\ Holds(n[q], Cell(n[q].y, n[q].x))
  <2> TAKE c \in Child
  <2> SUFFICES ASSUME NEW q, q = FirstView(n, Append(p, c))
               PROVE  /\ q \in Leaves(n) /\ n[q] \in Node /\ q \in DOMAIN n
                      /\ \A k \in Axis : Low(n[q], k) = Low(n[Append(p, c)], k)
                      /\ Cell(n[q].y, n[q].x) \in [Axis -> Int]
                      /\ \A k \in Axis : Cell(n[q].y, n[q].x)[k] = Low(n[q], k)
                      /\ Holds(n[q], Cell(n[q].y, n[q].x))
    OBVIOUS
  <2>1. q \in Leaves(n) /\ q \in DOMAIN n /\ n[q] \in Node
    BY <1>2, <1>9, FirstUnder DEF Leaves
  <2>2. n[q].y = n[Append(p, c)].y /\ n[q].x = n[Append(p, c)].x
    BY <1>9, FirstCorner
  <2>3. n[q].y \in Int /\ n[q].x \in Int
    BY <2>1 DEF Node
  <2>4. /\ Cell(n[q].y, n[q].x) \in [Axis -> Int]
        /\ Cell(n[q].y, n[q].x)["y"] = n[q].y /\ Cell(n[q].y, n[q].x)["x"] = n[q].x
    BY <2>3, CellAxes
  <2>5. \A k \in Axis : Cell(n[q].y, n[q].x)[k] = Low(n[q], k)
    BY <2>4 DEF Low, Axis
  <2>6. \A k \in Axis : Low(n[q], k) \in Nat /\ Low(n[q], k) < High(n[q], k)
    BY <2>1, NodeAxes
  <2>7. Holds(n[q], Cell(n[q].y, n[q].x))
    BY <2>5, <2>6 DEF Holds
  <2> QED BY <2>1, <2>2, <2>4, <2>5, <2>7 DEF Low
<1>11. CASE e = 1
  <2> DEFINE q == FirstView(n, Append(p, "c1"))
             c == Cell(n[q].y, n[q].x)
  <2>1. Half(n[p], "c1", scr).y = n[p].y /\ Half(n[p], "c1", scr).x = n[p].x
    BY DEF Half, FirstHalf, Rect
  <2>2. n[Append(p, "c1")].y = n[p].y /\ n[Append(p, "c1")].x = n[p].x
    BY <1>8, <1>9, <2>1 DEF Rect, Given
  <2>3. \A k \in Axis : Low(n[Append(p, "c1")], k) = Low(n[p], k)
    BY <2>2 DEF Low
  <2>4. q \in Leaves(n) /\ n[q] \in Node /\ Holds(n[q], c) /\ \A k \in Axis : c[k] = Low(n[p], k)
    BY <1>8, <1>10, <2>3
  <2>5. n[q].y \in Int /\ n[q].x \in Int
    BY <2>4 DEF Node
  <2> HIDE DEF c
  <2>6. LineAt(n[p]) = Low(n[p], a)
    BY <1>6, <1>7, <1>11 DEF LineAt
  <2>7. Holds(n[p], c)
    BY <1>7, <2>4 DEF Holds
  <2>8. OnLine(n[p], c)
    BY <1>6, <1>7, <2>4, <2>6 DEF OnLine
  <2> HIDE DEF q, a
  <2> QED BY <1>1, <1>4, <1>5, <2>4, <2>5, <2>7, <2>8, TiledOnce DEF c
<1>12. CASE e = 2
  <2> DEFINE n2 == n[Append(p, "c2")]
             q == FirstView(n, Append(p, "c2"))
             c == Cell(n[q].y, n[q].x)
  <2>1. Low(n2, a) = Low(n[p], a) + 2 /\ Low(n2, o) = Low(n[p], o)
    <3>1. CASE n[p].t = "HORIZONTAL"
      <4>1. a = "x" /\ o = "y" /\ n[p].w = 2
        BY <1>12, <3>1 DEF Along, Extent
      <4>2. Half(n[p], "c2", scr).y = n[p].y /\ Half(n[p], "c2", scr).x = n[p].x + n[p].w \div 2 + 1
        BY <3>1 DEF Half, SecondHalf, Rect
      <4>3. n2.y = n[p].y /\ n2.x = n[p].x + n[p].w \div 2 + 1
        BY <1>8, <1>9, <4>2 DEF Rect, Given
      <4>4. n[p].x \in Nat
        BY <1>4 DEF Node
      <4> QED BY <4>1, <4>3, <4>4 DEF Low
    <3>2. CASE n[p].t # "HORIZONTAL"
      <4>1. a = "y" /\ o = "x" /\ n[p].h = 2
        BY <1>12, <3>2 DEF Along, Extent
      <4>2. Half(n[p], "c2", scr).x = n[p].x /\ Half(n[p], "c2", scr).y = n[p].y + n[p].h \div 2 + 1
        BY <3>2 DEF Half, SecondHalf, Rect
      <4>3. n2.x = n[p].x /\ n2.y = n[p].y + n[p].h \div 2 + 1
        BY <1>8, <1>9, <4>2 DEF Rect, Given
      <4>4. n[p].y \in Nat
        BY <1>4 DEF Node
      <4> QED BY <4>1, <4>3, <4>4 DEF Low
    <3> QED BY <3>1, <3>2
  <2>2. /\ q \in Leaves(n) /\ n[q] \in Node /\ q \in DOMAIN n /\ Holds(n[q], c)
        /\ \A k \in Axis : c[k] = Low(n[q], k) /\ Low(n[q], k) = Low(n2, k)
    BY <1>8, <1>10
  <2>3. n[q].y \in Nat /\ n[q].x \in Nat /\ n[q].h \in Nat \ {0} /\ n[q].w \in Nat \ {0} /\ c \in [Axis -> Int]
    BY <2>2, CellAxes DEF Node
  <2> HIDE DEF c, q, n2
  <2>4. Low(n[q], a) = High(n[p], a) /\ c[a] = High(n[p], a) /\ c[o] = Low(n[p], o)
    BY <1>6, <1>7, <1>12, <2>1, <2>2
  <2>5. <<>> \in Path /\ <<>> \in DOMAIN n /\ n[<<>>] \in Node /\ Under(<<>>, p)
    BY <1>4, TreePath, UnderOrder DEF Tree, Path
  <2>6. CASE High(n[p], a) = High(n[<<>>], a)
    <3>1. High(n[<<>>], "y") = LINES - 1 /\ High(n[<<>>], "x") = COLS
      BY <1>1, <2>5, RootAxes
    <3>2. n[q].y + n[q].h <= LINES - 1 /\ n[q].x + n[q].w <= COLS
      BY <2>2 DEF Tiled, Drawn, Leaves, Rect
    <3>3. IF a = "y" THEN n[q].y = LINES - 1 ELSE n[q].x = COLS
      BY <1>6, <2>4, <2>6, <3>1 DEF Low, Axis
    <3> QED BY <1>1, <2>3, <3>2, <3>3 DEF ScreenSize
  <2>7. ASSUME NEW b \in DOMAIN n, b # p, Under(b, p), Along(n[b]) = a, High(n[p], a) = LineAt(n[b])
        PROVE  FALSE
    <3>1. b \in Path /\ n[b] \in Node /\ ~IsView(n[b]) /\ Shared(n, b)
      BY <1>2, <1>4, <1>5, <2>7, TreeUp DEF SharedDownTo
    <3>2. SharedDownTo(n, b)
      <4> SUFFICES ASSUME NEW d \in DOMAIN n, Under(d, b), d # b PROVE Shared(n, d)
        BY DEF SharedDownTo
      <4>1. d \in Path /\ Under(d, p) /\ d # p
        BY <1>2, <1>4, <2>7, <3>1, UnderOrder
      <4> QED BY <1>5, <4>1 DEF SharedDownTo
    <3>3. Low(n[b], o) <= Low(n[p], o) /\ High(n[p], o) <= High(n[b], o) /\ Low(n[b], o) \in Nat /\ High(n[b], o) \in Nat
      BY <1>4, <1>5, <1>6, <2>7, <3>1, Inside, NodeAxes
    <3>4. OnLine(n[b], c)
      BY <1>6, <1>7, <2>4, <2>7, <3>3 DEF OnLine
    <3>5. Holds(n[b], c)
      BY <2>3, <3>1, <3>4, LineHeld
    <3> QED BY <1>1, <2>2, <2>3, <3>1, <3>2, <3>4, <3>5, TiledOnce DEF c
  <2> HIDE DEF a
  <2>8. High(n[p], a) = High(n[<<>>], a)
        \/ \E b \in DOMAIN n : b # p /\ Under(b, p) /\ Along(n[b]) = a /\ High(n[p], a) = LineAt(n[b])
    BY <1>4, <1>5, <1>6, <2>5, HighEdge
  <2> QED BY <2>6, <2>7, <2>8
<1> QED BY <1>6, <1>11, <1>12

(***************************************************************************)
(* The trees the operations leave.                                         *)
(***************************************************************************)
(* The names under a node, and beside it. *)
Below(n, p) == {n[q].name : q \in {o \in Leaves(n) : Under(p, o)}}

(* The names under a node and those beside it, and those under its         *)
(* children.                                                               *)
LEMMA NamesBelow ==
    ASSUME NEW n, Tree(n), NEW p \in DOMAIN n
    PROVE  /\ Named(n) = Kept(n, p) \cup Below(n, p) /\ Kept(n, p) \cap Below(n, p) = {}
           /\ IsView(n[p]) => Below(n, p) = {n[p].name}
           /\ ~IsView(n[p]) =>
                 /\ Below(n, p) = Below(n, Append(p, "c1")) \cup Below(n, Append(p, "c2"))
                 /\ Below(n, Append(p, "c1")) \cap Below(n, Append(p, "c2")) = {}
           /\ \A q \in DOMAIN n : Under(p, q) => Kept(n, p) \cap Below(n, q) = {}
<1>1. p \in Path /\ \A q \in DOMAIN n : q \in Path
  BY TreePath
<1>2. \A q, o \in Leaves(n) : n[q].name = n[o].name => q = o
  BY DEF Tree
<1>3. \A q \in Leaves(n) : q \in DOMAIN n /\ q \in Path /\ IsView(n[q])
  BY <1>1 DEF Leaves
<1>4. Named(n) = Kept(n, p) \cup Below(n, p)
  BY DEF Named, Kept, Below
<1>5. \A q \in DOMAIN n : Under(p, q) => Kept(n, p) \cap Below(n, q) = {}
  <2> SUFFICES ASSUME NEW q \in DOMAIN n, Under(p, q), NEW a \in Leaves(n), NEW b \in Leaves(n),
                      ~Under(p, a), Under(q, b), n[a].name = n[b].name
               PROVE  FALSE
    BY DEF Kept, Below
  <2>1. Under(p, b)
    BY <1>1, <1>3, UnderOrder
  <2> QED BY <1>2, <2>1
<1>6. Kept(n, p) \cap Below(n, p) = {}
  BY <1>1, <1>5, UnderOrder
<1>7. ASSUME IsView(n[p]) PROVE Below(n, p) = {n[p].name}
  <2>1. p \in Leaves(n)
    BY <1>7 DEF Leaves
  <2>2. {o \in Leaves(n) : Under(p, o)} = {p}
    BY <1>1, <1>3, <2>1, LeafEnds, UnderOrder
  <2> QED BY <2>2 DEF Below
<1>8. ASSUME ~IsView(n[p])
      PROVE  /\ Below(n, p) = Below(n, Append(p, "c1")) \cup Below(n, Append(p, "c2"))
             /\ Below(n, Append(p, "c1")) \cap Below(n, Append(p, "c2")) = {}
  <2>1. "c1" \in Child /\ "c2" \in Child /\ \A c \in Child : c = "c1" \/ c = "c2"
    BY DEF Child
  <2>2. \A q \in Leaves(n) : Under(p, q) <=> Under(Append(p, "c1"), q) \/ Under(Append(p, "c2"), q)
    <3> TAKE q \in Leaves(n)
    <3>1. q # p /\ q \in Path
      BY <1>3, <1>8
    <3> QED BY <1>1, <2>1, <3>1, UnderChild
  <2>3. \A q \in Leaves(n) : ~(Under(Append(p, "c1"), q) /\ Under(Append(p, "c2"), q))
    BY <1>1, <1>3, <2>1, UnderChild, "c1" # "c2"
  <2>4. Below(n, p) = Below(n, Append(p, "c1")) \cup Below(n, Append(p, "c2"))
    BY <2>2 DEF Below
  <2>5. Below(n, Append(p, "c1")) \cap Below(n, Append(p, "c2")) = {}
    BY <1>2, <2>3 DEF Below
  <2> QED BY <2>4, <2>5
<1> QED BY <1>4, <1>5, <1>6, <1>7, <1>8

(* A tree of one view. *)
LEMMA NewViewTree ==
    ASSUME NEW v \in View, NEW h \in Nat \ {0}, NEW w \in Nat \ {0}
    PROVE  LET m == NewView(v, h, w)
           IN  /\ Tree(m) /\ Bounded(m) /\ Named(m) = {v} /\ DOMAIN m = {<<>>} /\ IsView(m[<<>>])
               /\ \A scr : scr.lines - 1 = h /\ scr.cols = w => Fresh(m, scr)
<1> DEFINE m == NewView(v, h, w)
           node == [t |-> "VIEW", name |-> v, y |-> 0, x |-> 0, h |-> h, w |-> w]
<1>1. DOMAIN m = {<<>>} /\ m[<<>>] = node /\ m = [p \in {<<>>} |-> node]
  BY DEF NewView
<1>2. node \in Node /\ IsView(node) /\ node.name = v /\ Rect(node) = [y |-> 0, x |-> 0, h |-> h, w |-> w]
  BY DEF Node, IsView, Rect
<1> HIDE DEF m, node
<1>3. Leaves(m) = {<<>>}
  BY <1>1, <1>2 DEF Leaves
<1>4. Named(m) = {v}
  BY <1>1, <1>2, <1>3 DEF Named
<1>5. Tree(m)
  <2>1. m \in [DOMAIN m -> Node] /\ <<>> \in Path
    BY <1>1, <1>2 DEF Path
  <2> QED BY <1>1, <1>2, <1>3, <2>1 DEF Tree
<1>6. Bounded(m)
  <2>1. \A p \in DOMAIN m : Len(p) <= 0
    BY <1>1, Len(<<>>) = 0
  <2> QED BY <2>1 DEF Bounded
<1>7. ASSUME NEW scr, scr.lines - 1 = h, scr.cols = w PROVE Fresh(m, scr)
  BY <1>1, <1>2, <1>7 DEF Fresh, FreshNode, Ask, Top
<1> QED BY <1>1, <1>2, <1>4, <1>5, <1>6, <1>7 DEF m

(* reshapechildren changes rectangles only. *)
LEMMA ReshapechildrenShape ==
    ASSUME NEW c, Tree(c), Bounded(c), ~IsView(c[<<>>]), NEW scr, IsScreen(scr)
    PROVE  LET m == reshapechildren(c, <<>>, scr)
           IN  Tree(m) /\ Bounded(m) /\ Named(m) = Named(c) /\ SameShape(c, m)
<1> DEFINE r1 == FirstHalf(c[<<>>], scr)
           r2 == SecondHalf(c[<<>>], scr)
           p1 == Append(<<>>, "c1")
           p2 == Append(<<>>, "c2")
           m1 == reshape(c, p1, r1, scr)
           m  == reshape(m1, p2, r2, scr)
<1>1. <<>> \in DOMAIN c /\ "c1" \in Child /\ "c2" \in Child
  BY DEF Tree, Child
<1>2. p1 \in DOMAIN c /\ p2 \in DOMAIN c /\ c[<<>>] \in Node
  BY <1>1, TreePath
<1>3. Half(c[<<>>], "c1", scr) = r1 /\ Half(c[<<>>], "c2", scr) = r2
  BY DEF Half
<1>4. r1 \in Asked /\ r2 \in Asked
  BY <1>1, <1>2, <1>3, HalfAsked
<1>5. reshapechildren(c, <<>>, scr) = m
  BY DEF reshapechildren
<1> HIDE DEF r1, r2, p1, p2
<1>6. SameShape(c, m1) /\ Tree(m1) /\ Bounded(m1) /\ Named(m1) = Named(c)
  BY <1>2, <1>4, ReshapeShape
<1>7. p2 \in DOMAIN m1
  BY <1>2, <1>6 DEF SameShape
<1> HIDE DEF m1
<1>8. SameShape(m1, m) /\ Tree(m) /\ Bounded(m) /\ Named(m) = Named(m1)
  BY <1>4, <1>6, <1>7, ReshapeShape
<1>9. SameShape(c, m)
  BY <1>6, <1>8 DEF SameShape
<1> QED BY <1>5, <1>6, <1>8, <1>9

(* What split makes of a tree. *)
SplitTree(n, p, t, v, nh, nw, scr) ==
    replacechild(n, p, reshapechildren(Join([n[p] EXCEPT !.t = t, !.name = NULL],
                                            Subtree(n, p), NewView(v, nh, nw)), <<>>, scr), scr)

(* split in a fresh tree: the tree it leaves is fresh and has the new view *)
(* beside the focused one, under a container in its place.                 *)
LEMMA SplitFresh ==
    ASSUME NEW n, Tree(n), Bounded(n), NEW scr, IsScreen(scr), Fresh(n, scr), NEW p \in Leaves(n),
           NEW t \in {"HORIZONTAL", "VERTICAL"}, NEW v \in View \ Named(n), NEW nh \in Nat \ {0}, NEW nw \in Nat \ {0}
    PROVE  LET g == SplitTree(n, p, t, v, nh, nw, scr)
           IN  /\ Tree(g) /\ Bounded(g) /\ Fresh(g, scr) /\ Named(g) = Named(n) \cup {v}
               /\ \A q \in Path : ~Under(p, q) => (q \in DOMAIN g <=> q \in DOMAIN n) /\ (q \in DOMAIN n => g[q].t = n[q].t)
               /\ p \in DOMAIN g /\ g[p].t = t
               /\ \A q \in DOMAIN g : Under(p, q) /\ q # p => IsView(g[q])
<1> DEFINE node == [n[p] EXCEPT !.t = t, !.name = NULL]
           s == Subtree(n, p)
           u == NewView(v, nh, nw)
           c == Join(node, s, u)
           c2 == reshapechildren(c, <<>>, scr)
           new == Graft(n, p, c2)
           g == replacechild(n, p, c2, scr)
<1>1. p \in DOMAIN n /\ IsView(n[p]) /\ p \in Path /\ n[p] \in Node
  BY TreePath DEF Leaves
<1>2. node \in Node /\ node.t = t /\ ~IsView(node)
  <2>1. \A no \in Node : [no EXCEPT !.t = t, !.name = NULL] \in Node /\ [no EXCEPT !.t = t, !.name = NULL].t = t
    BY DEF Node
  <2> HIDE DEF node
  <2>2. node \in Node /\ node.t = t
    BY <1>1, <2>1 DEF node
  <2> QED BY <2>2 DEF IsView
<1> HIDE DEF node
<1>3. /\ Tree(s) /\ Bounded(s) /\ Named(s) = {n[p].name} /\ DOMAIN s = {r \in Path : p \o r \in DOMAIN n}
      /\ \A r \in DOMAIN s : s[r] = n[p \o r]
  <2>1. /\ Tree(s) /\ Bounded(s) /\ DOMAIN s = {r \in Path : p \o r \in DOMAIN n}
        /\ \A r \in DOMAIN s : s[r] = n[p \o r]
        /\ Named(s) = {n[q].name : q \in {o \in Leaves(n) : Under(p, o)}}
    BY <1>1, SubtreeTree
  <2> HIDE DEF s
  <2>2. Named(s) = Below(n, p)
    BY <2>1 DEF Below
  <2>3. Below(n, p) = {n[p].name}
    BY <1>1, NamesBelow
  <2> QED BY <2>1, <2>2, <2>3
<1>4. \A r \in DOMAIN s : IsView(s[r])
  <2> TAKE r \in DOMAIN s
  <2>1. r \in Path /\ p \o r \in DOMAIN n /\ Under(p, p \o r)
    BY <1>1, <1>3, PathConcat
  <2>2. p \o r = p
    BY <2>1, LeafEnds
  <2> QED BY <1>1, <1>3, <2>2
<1>5. Tree(u) /\ Bounded(u) /\ Named(u) = {v} /\ \A r \in DOMAIN u : IsView(u[r])
  BY NewViewTree
<1> HIDE DEF s, u
<1>6. n[p].name \in Named(n)
  BY DEF Named
<1>7. /\ Tree(c) /\ Bounded(c) /\ c[<<>>] = node /\ Named(c) = {n[p].name} \cup {v}
      /\ \A q \in DOMAIN c : q # <<>> => (\E r \in DOMAIN s : c[q] = s[r]) \/ (\E r \in DOMAIN u : c[q] = u[r])
  <2>1. Named(s) \cap Named(u) = {}
    BY <1>3, <1>5, <1>6
  <2>2. /\ Tree(c) /\ Bounded(c) /\ c[<<>>] = node /\ Named(c) = Named(s) \cup Named(u)
        /\ \A q \in DOMAIN c : q # <<>> => (\E r \in DOMAIN s : c[q] = s[r]) \/ (\E r \in DOMAIN u : c[q] = u[r])
    <3>1. Tree(s) /\ Tree(u) /\ Bounded(s) /\ Bounded(u)
      BY <1>3, <1>5
    <3> QED BY <1>2, <2>1, <3>1, JoinTree
  <2> HIDE DEF c
  <2> QED BY <1>3, <1>5, <2>2
<1>8. \A q \in DOMAIN c : q # <<>> => IsView(c[q])
  BY <1>4, <1>5, <1>7
<1> HIDE DEF c
<1>9. Tree(c2) /\ Bounded(c2) /\ Named(c2) = {n[p].name} \cup {v} /\ SameShape(c, c2)
  BY <1>2, <1>7, ReshapechildrenShape
<1> HIDE DEF c2
<1>10. Named(n) = Kept(n, p) \cup {n[p].name} /\ Kept(n, p) \cap {n[p].name} = {}
  BY <1>1, NamesBelow
<1>11. Kept(n, p) \cap Named(c2) = {}
  BY <1>9, <1>10
<1>12. /\ Tree(g) /\ Bounded(g) /\ Fresh(g, scr) /\ SameShape(new, g)
       /\ Named(g) = Kept(n, p) \cup Named(c2)
  BY <1>1, <1>9, <1>11, ReplaceFresh
<1>13. /\ \A q \in Path : ~Under(p, q) => (q \in DOMAIN new <=> q \in DOMAIN n) /\ (q \in DOMAIN n => new[q] = n[q])
       /\ \A r \in DOMAIN c2 : p \o r \in DOMAIN new /\ new[p \o r] = c2[r]
       /\ \A q \in DOMAIN new : Under(p, q) => \E r \in DOMAIN c2 : q = p \o r
  BY <1>1, <1>9, <1>11, GraftTree
<1>14. g = SplitTree(n, p, t, v, nh, nw, scr)
  BY DEF SplitTree, c2, c, s, u, node
<1> HIDE DEF g, new
<1>15. \A q \in Path : ~Under(p, q) => (q \in DOMAIN g <=> q \in DOMAIN n) /\ (q \in DOMAIN n => g[q].t = n[q].t)
  BY <1>12, <1>13 DEF SameShape
<1>16. p \in DOMAIN g /\ g[p].t = t
  <2>1. <<>> \in DOMAIN c2 /\ c2[<<>>].t = c[<<>>].t
    BY <1>7, <1>9 DEF SameShape, Tree
  <2>2. p \o <<>> = p
    BY <1>1, PathConcat
  <2>3. p \in DOMAIN new /\ new[p] = c2[<<>>]
    BY <1>13, <2>1, <2>2
  <2> QED BY <1>2, <1>7, <1>12, <2>1, <2>3 DEF SameShape
<1>17. ASSUME NEW q \in DOMAIN g, Under(p, q), q # p PROVE IsView(g[q])
  <2>1. q \in DOMAIN new /\ g[q].t = new[q].t
    BY <1>12 DEF SameShape
  <2>2. PICK r \in DOMAIN c2 : q = p \o r
    BY <1>13, <1>17, <2>1
  <2>3. r # <<>>
    BY <1>1, <1>17, <2>2, PathConcat
  <2>4. r \in DOMAIN c /\ c2[r].t = c[r].t
    BY <1>9 DEF SameShape
  <2>5. IsView(c[r])
    BY <1>8, <2>3, <2>4
  <2> QED BY <1>13, <2>1, <2>2, <2>4, <2>5 DEF IsView
<1> QED BY <1>9, <1>10, <1>12, <1>14, <1>15, <1>16, <1>17

(* What deletenode leaves of a tree, and whom it gives the focus to. *)
LEMMA DeleteFresh ==
    ASSUME NEW n, Tree(n), Bounded(n), NEW scr, IsScreen(scr), Fresh(n, scr), NEW p \in Leaves(n), p # <<>>,
           NEW v \in Named(n)
    PROVE  LET g == removechild(n, p, scr)
           IN  /\ Tree(g) /\ Bounded(g) /\ Fresh(g, scr) /\ Named(g) \subseteq Named(n)
               /\ (IF n[p].name = v THEN focus(n, Sibling(p), v) ELSE v) \in Named(g)
<1> DEFINE a == Parent(p)
           s == Sibling(p)
           m == Subtree(n, s)
           g == removechild(n, p, scr)
<1>1. p \in DOMAIN n /\ IsView(n[p]) /\ p \in Path
  BY TreePath DEF Leaves
<1>2. /\ a \in DOMAIN n /\ ~IsView(n[a]) /\ a \in Path /\ Last(p) \in Child /\ p = Append(a, Last(p))
  BY <1>1, TreePath, PathParent
<1>3. Other(Last(p)) \in Child /\ Other(Last(p)) # Last(p) /\ \A c \in Child : c = Last(p) \/ c = Other(Last(p))
  BY <1>2 DEF Other, Child
<1>4. s = Append(a, Other(Last(p)))
  BY DEF Sibling
<1> HIDE DEF a, s
<1>5. s \in DOMAIN n /\ s \in Path /\ Under(a, s) /\ s # NULL
  BY ZenonT(40), <1>2, <1>3, <1>4, TreePath, PathChild, UnderChild, NULLAssumption
<1>6. /\ Tree(m) /\ Bounded(m) /\ Named(m) = Below(n, s)
  <2>1. Tree(m) /\ Bounded(m) /\ Named(m) = {n[q].name : q \in {o \in Leaves(n) : Under(s, o)}}
    BY <1>5, SubtreeTree
  <2> HIDE DEF m
  <2> QED BY <2>1 DEF Below
<1>7. Kept(n, a) \cap Named(m) = {} /\ Named(n) = Kept(n, a) \cup Below(n, a)
  BY <1>2, <1>5, <1>6, NamesBelow
<1>8. g = replacechild(n, a, m, scr)
  BY DEF removechild, a, s
<1> HIDE DEF g, m
<1>9. Tree(g) /\ Bounded(g) /\ Fresh(g, scr) /\ Named(g) = Kept(n, a) \cup Below(n, s)
  BY <1>2, <1>6, <1>7, <1>8, ReplaceFresh
<1>10. \A q \in Leaves(n) : q \in DOMAIN n /\ q \in Path /\ IsView(n[q])
  BY TreePath DEF Leaves
<1>11. Below(n, s) \subseteq Below(n, a)
  BY <1>2, <1>5, <1>10, UnderOrder DEF Below
<1>12. ASSUME NEW q \in Leaves(n), q # p PROVE n[q].name \in Named(g)
  <2>1. CASE ~Under(a, q)
    BY <1>9, <2>1 DEF Kept
  <2>2. CASE Under(a, q)
    <3>1. a # q
      BY <1>2, <1>10
    <3>2. PICK c \in Child : Under(Append(a, c), q)
      BY <1>2, <1>10, <2>2, <3>1, UnderChild
    <3>3. c # Last(p)
      <4> SUFFICES ASSUME c = Last(p) PROVE FALSE
        OBVIOUS
      <4>1. Under(p, q)
        BY <1>2, <3>2
      <4> QED BY <1>10, <1>12, <4>1, LeafEnds
    <3>4. Under(s, q)
      BY <1>3, <1>4, <3>2, <3>3
    <3> QED BY <1>9, <3>4 DEF Below
  <2> QED BY <2>1, <2>2
<1>13. CASE n[p].name = v
  <2>1. focus(n, s, v) = n[FirstView(n, s)].name
    BY <1>5 DEF focus
  <2>2. FirstView(n, s) \in Leaves(n) /\ Under(s, FirstView(n, s))
    BY <1>5, FirstUnder
  <2>3. n[FirstView(n, s)].name \in Named(g)
    BY <1>9, <2>2 DEF Below
  <2> QED BY <1>7, <1>9, <1>11, <1>13, <2>1, <2>3 DEF s, g
<1>14. CASE n[p].name # v
  <2>1. PICK q \in Leaves(n) : n[q].name = v
    BY DEF Named
  <2>2. v \in Named(g)
    BY <1>12, <1>14, <2>1
  <2> QED BY <1>7, <1>9, <1>11, <1>14, <2>2 DEF g
<1> QED BY <1>13, <1>14

(* What swapnode makes of a tree. *)
SwapTree(n, a, scr) ==
    reshape(Graft(n, a, Join(n[a], Subtree(n, Append(a, "c2")), Subtree(n, Append(a, "c1")))),
            <<>>, Rect(n[<<>>]), scr)

(* swapnode in a fresh tree, with main's pass of SWAP. *)
LEMMA SwapFresh ==
    ASSUME NEW n, Tree(n), Bounded(n), NEW scr, IsScreen(scr), Fresh(n, scr), NEW a \in DOMAIN n, ~IsView(n[a])
    PROVE  LET g == SwapTree(n, a, scr)
           IN  Tree(g) /\ Bounded(g) /\ Fresh(g, scr) /\ Named(g) = Named(n)
<1> DEFINE p1 == Append(a, "c1")
           p2 == Append(a, "c2")
           m1 == Subtree(n, p1)
           m2 == Subtree(n, p2)
           j == Join(n[a], m2, m1)
           new == Graft(n, a, j)
           g == reshape(new, <<>>, Top(scr), scr)
<1>1. "c1" \in Child /\ "c2" \in Child /\ a \in Path /\ n[a] \in Node
  BY TreePath DEF Child
<1>2. p1 \in DOMAIN n /\ p2 \in DOMAIN n
  BY <1>1, TreePath
<1>3. /\ Below(n, a) = Below(n, p1) \cup Below(n, p2) /\ Below(n, p1) \cap Below(n, p2) = {}
      /\ Named(n) = Kept(n, a) \cup Below(n, a) /\ Kept(n, a) \cap Below(n, a) = {}
  BY NamesBelow
<1>4. g = SwapTree(n, a, scr)
  BY FreshRoot DEF SwapTree
<1> HIDE DEF p1, p2, g
<1>5. ASSUME NEW p \in DOMAIN n
      PROVE  Tree(Subtree(n, p)) /\ Bounded(Subtree(n, p)) /\ Named(Subtree(n, p)) = Below(n, p)
  <2>1. Tree(Subtree(n, p)) /\ Bounded(Subtree(n, p))
        /\ Named(Subtree(n, p)) = {n[q].name : q \in {o \in Leaves(n) : Under(p, o)}}
    BY SubtreeTree
  <2> QED BY <2>1 DEF Below
<1>6. Tree(m1) /\ Bounded(m1) /\ Named(m1) = Below(n, p1) /\ Tree(m2) /\ Bounded(m2) /\ Named(m2) = Below(n, p2)
  BY <1>2, <1>5
<1> HIDE DEF m1, m2
<1>7. Tree(j) /\ Bounded(j) /\ Named(j) = Below(n, a)
  <2>1. Named(m2) \cap Named(m1) = {}
    BY <1>3, <1>6
  <2>2. Tree(j) /\ Bounded(j) /\ Named(j) = Named(m2) \cup Named(m1)
    BY <1>1, <1>6, <2>1, JoinTree
  <2> HIDE DEF j
  <2> QED BY <1>3, <1>6, <2>2
<1> HIDE DEF j
<1>8. Tree(new) /\ Bounded(new) /\ Named(new) = Named(n)
  <2>1. Kept(n, a) \cap Named(j) = {}
    BY <1>3, <1>7
  <2>2. Tree(new) /\ Bounded(new) /\ Named(new) = Kept(n, a) \cup Named(j)
    BY <1>7, <2>1, GraftTree
  <2> QED BY <1>3, <1>7, <2>2
<1> HIDE DEF new
<1>9. <<>> \in DOMAIN new
  BY <1>8 DEF Tree
<1>10. Tree(g) /\ Bounded(g) /\ Named(g) = Named(new)
  BY <1>8, <1>9, TopAsked, ReshapeShape DEF g
<1>11. Fresh(g, scr)
  BY <1>8, <1>9, TopAsked, ShapedSelf, ReshapeFresh DEF g
<1> QED BY <1>4, <1>8, <1>10, <1>11

(* findnode gives a node, or none.                                         *)
LEMMA FindNode ==
    ASSUME NEW n, Tree(n), Bounded(n), NEW y, NEW x
    PROVE  findnode(n, y, x) = NULL \/ findnode(n, y, x) \in DOMAIN n
<1> DEFINE W == Walk(n, y, x)
           enters(p) == /\ IN_(n[p], y, x)
                        /\ (p # <<>> /\ Last(p) = "c2") => ~IN_(n[Sibling(p)], y, x)
<1>1. W = {q \in DOMAIN n : \A p \in DOMAIN n : Under(p, q) => enters(p)}
  BY DEF Walk
<1>2. \A q \in DOMAIN n : q \in Path
  BY TreePath
<1>3. ASSUME NEW p \in W, NEW q \in W PROVE Under(p, q) \/ Under(q, p)
  <2> SUFFICES ASSUME ~Under(p, q), ~Under(q, p) PROVE FALSE
    OBVIOUS
  <2>1. p \in DOMAIN n /\ q \in DOMAIN n /\ p \in Path /\ q \in Path
    BY <1>1, <1>2
  <2>2. ASSUME NEW d \in Path, NEW p0 \in W, NEW q0 \in W, Under(Append(d, "c1"), p0), Under(Append(d, "c2"), q0)
        PROVE  FALSE
    <3>1. "c1" \in Child /\ "c2" \in Child
      BY DEF Child
    <3>2. /\ Append(d, "c1") \in Path /\ Append(d, "c2") \in Path
          /\ Parent(Append(d, "c2")) = d /\ Last(Append(d, "c2")) = "c2" /\ Append(d, "c2") # <<>>
      BY <3>1, PathChild
    <3>3. Append(d, "c1") \in DOMAIN n /\ Append(d, "c2") \in DOMAIN n
      BY <1>1, <2>2, <3>2, TreeUp
    <3>4. enters(Append(d, "c1")) /\ enters(Append(d, "c2"))
      <4> HIDE DEF enters
      <4> QED BY <1>1, <2>2, <3>3
    <3>5. Sibling(Append(d, "c2")) = Append(d, "c1")
      BY <3>2 DEF Sibling, Other
    <3> QED BY <3>2, <3>4, <3>5
  <2>3. PICK d \in Path, a \in Child, b \in Child : a # b /\ Under(Append(d, a), p) /\ Under(Append(d, b), q)
    BY <2>1, UnderDiverge
  <2>4. (a = "c1" /\ b = "c2") \/ (a = "c2" /\ b = "c1")
    BY <2>3 DEF Child
  <2> QED BY <2>2, <2>3, <2>4
<1>4. ASSUME W # {} PROVE \E q \in W : \A p \in W : Under(p, q)
  <2>1. W \subseteq DOMAIN n
    BY <1>1
  <2> HIDE DEF W
  <2>2. PICK q \in W : \A p \in W : Len(p) <= Len(q)
    BY <1>4, <2>1, Deepest
  <2>3. \A p \in W : Under(p, q)
    <3> TAKE p \in W
    <3>1. p \in Path /\ q \in Path /\ Len(p) \in Nat /\ Len(q) \in Nat /\ Len(p) <= Len(q)
      BY <1>2, <2>1, <2>2 DEF Path
    <3>2. CASE Under(q, p)
      <4>1. Len(q) = Len(p)
        BY <3>1, <3>2, UnderOrder
      <4> QED BY <3>1, <3>2, <4>1, UnderOrder
    <3> QED BY <1>3, <3>2
  <2> QED BY <2>3
<1>5. findnode(n, y, x) = IF W = {} THEN NULL ELSE CHOOSE q \in W : \A p \in W : Under(p, q)
  BY DEF findnode
<1>6. W \subseteq DOMAIN n
  BY <1>1
<1> HIDE DEF W
<1> QED BY <1>4, <1>5, <1>6

(* Of some views, one is the first of the tree.                            *)
LEMMA FirstOf ==
    ASSUME NEW n, Tree(n), Bounded(n), NEW hit, hit \subseteq Leaves(n), hit # {}
    PROVE  \E p \in hit : \A q \in hit \ {p} : Before(p, q)
<1> DEFINE S == {p \in DOMAIN n : /\ \E h \in hit : Under(p, h)
                                  /\ \A h \in hit : Under(p, h) \/ Before(p, h)}
<1>1. \A q \in DOMAIN n : q \in Path
  BY TreePath
<1>2. \A h \in hit : h \in DOMAIN n /\ h \in Path /\ IsView(n[h])
  BY <1>1 DEF Leaves
<1>3. <<>> \in S
  BY <1>2, UnderOrder DEF Tree
<1>4. PICK p \in S : \A q \in S : Len(q) <= Len(p)
  <2>1. S # {} /\ S \subseteq DOMAIN n
    BY <1>3
  <2> HIDE DEF S
  <2> QED BY <2>1, Deepest
<1>5. /\ p \in DOMAIN n /\ p \in Path /\ Len(p) \in Nat /\ (\E h \in hit : Under(p, h))
      /\ \A h \in hit : Under(p, h) \/ Before(p, h)
  BY <1>1, <1>4 DEF Path
<1>6. ASSUME ~IsView(n[p]) PROVE FALSE
  <2>1. "c1" \in Child /\ "c2" \in Child /\ \A c \in Child : c = "c1" \/ c = "c2"
    BY DEF Child
  <2> DEFINE p1 == Append(p, "c1")
             p2 == Append(p, "c2")
  <2>2. /\ p1 \in DOMAIN n /\ p2 \in DOMAIN n /\ p1 \in Path /\ p2 \in Path
        /\ Len(p1) = Len(p) + 1 /\ Len(p2) = Len(p) + 1
    BY <1>5, <1>6, <2>1, TreePath, PathChild
  <2>3. \A h \in hit : Under(p, h) => Under(p1, h) \/ Under(p2, h)
    <3> TAKE h \in hit
    <3>1. h # p /\ h \in Path
      BY <1>2, <1>6
    <3> QED BY <1>5, <2>1, <3>1, UnderChild
  <2>4. ASSUME NEW c \in Child, NEW h \in hit, Before(p, h) PROVE Before(Append(p, c), h)
    <3>1. PICK i \in DOMAIN p \cap DOMAIN h : p[i] = "c1" /\ h[i] = "c2" /\ \A k \in 1 .. i - 1 : p[k] = h[k]
      BY <2>4 DEF Before
    <3>2. DOMAIN p = 1 .. Len(p) /\ DOMAIN Append(p, c) = 1 .. Len(p) + 1 /\ \A k \in 1 .. Len(p) : Append(p, c)[k] = p[k]
      BY <1>5 DEF Path
    <3>3. i \in DOMAIN Append(p, c) \cap DOMAIN h /\ \A k \in 1 .. i - 1 : k \in 1 .. Len(p)
      BY <1>5, <3>1, <3>2
    <3> QED BY <3>1, <3>2, <3>3 DEF Before
  <2>5. ASSUME NEW h \in hit, Under(p2, h) PROVE Before(p1, h)
    <3>1. /\ DOMAIN p1 = 1 .. Len(p) + 1 /\ p1[Len(p) + 1] = "c1" /\ \A k \in 1 .. Len(p) : p1[k] = p[k]
          /\ DOMAIN h = 1 .. Len(h) /\ Len(h) \in Nat
      BY <1>2, <1>5 DEF Path
    <3>2. Under(p, h) /\ Len(p) < Len(h) /\ h[Len(p) + 1] = "c2"
      BY <1>2, <1>5, <2>1, <2>5, UnderChild
    <3>3. Len(p) + 1 \in DOMAIN p1 \cap DOMAIN h
      BY <1>5, <3>1, <3>2
    <3>4. \A k \in 1 .. (Len(p) + 1) - 1 : p1[k] = h[k]
      BY <1>5, <3>1, <3>2 DEF Under
    <3> QED BY <3>1, <3>2, <3>3, <3>4 DEF Before
  <2> HIDE DEF p1, p2
  <2>6. CASE \E h \in hit : Under(p1, h)
    <3>1. \A h \in hit : Under(p1, h) \/ Before(p1, h)
      BY <1>5, <2>1, <2>3, <2>4, <2>5 DEF p1
    <3>2. p1 \in S
      BY <2>2, <2>6, <3>1
    <3>3. Len(p1) <= Len(p)
      BY <1>4, <3>2
    <3> QED BY <1>5, <2>2, <3>3
  <2>7. CASE ~\E h \in hit : Under(p1, h)
    <3>1. \A h \in hit : Under(p2, h) \/ Before(p2, h)
      BY <1>5, <2>1, <2>3, <2>4, <2>7 DEF p2
    <3>2. \E h \in hit : Under(p2, h)
      BY <1>5, <2>3, <2>7
    <3>3. p2 \in S
      BY <2>2, <3>1, <3>2
    <3>4. Len(p2) <= Len(p)
      BY <1>4, <3>3
    <3> QED BY <1>5, <2>2, <3>4
  <2> QED BY <2>6, <2>7
<1>7. \A h \in hit : Under(p, h) => h = p
  <2> TAKE h \in hit
  <2>1. p \in Leaves(n)
    BY <1>5, <1>6 DEF Leaves
  <2> QED BY <1>2, <2>1, LeafEnds
<1>8. p \in hit
  BY <1>5, <1>7
<1> QED BY <1>5, <1>7, <1>8

(* coordinate_findnode gives a view, or none. *)
LEMMA ClickedLeaf ==
    ASSUME NEW n, Tree(n), Bounded(n), NEW mx, NEW my
    PROVE  coordinate_findnode(n, mx, my) = NULL \/ coordinate_findnode(n, mx, my) \in Leaves(n)
<1> DEFINE hit == {p \in Leaves(n) : is_coordinate(n[p].y, n[p].x, n[p].h, n[p].w, mx, my)}
<1>1. coordinate_findnode(n, mx, my) = IF hit = {} THEN NULL ELSE CHOOSE p \in hit : \A q \in hit \ {p} : Before(p, q)
  BY DEF coordinate_findnode
<1>2. hit \subseteq Leaves(n)
  OBVIOUS
<1> HIDE DEF hit
<1>3. hit # {} => \E p \in hit : \A q \in hit \ {p} : Before(p, q)
  BY <1>2, FirstOf
<1> QED BY <1>1, <1>2, <1>3

(***************************************************************************)
(* The steps.                                                              *)
(***************************************************************************)
(* The inductive invariant: the tree of every open pane has finitely many  *)
(* levels, and that of the pane shown is fresh, the shape that the partial *)
(* reshapes of the operations rely on.                                     *)
LayoutInv ==
    /\ TypeOK
    /\ \A i \in Slot : t_root[i] # NoPane => Bounded(t_root[i])
    /\ Fresh(Pane, Screen)

(* A tree is not the empty slot. *)
LEMMA TreeSome ==
    ASSUME NEW n, Tree(n)
    PROVE  n # NoPane
<1>1. <<>> \in DOMAIN n
  BY DEF Tree
<1>2. DOMAIN NoPane = {}
  BY DEF NoPane
<1> QED BY <1>1, <1>2

(* What reshape is told about the screen. *)
LEMMA SizeScreen ==
    ASSUME NEW s \in Sizes, NEW full \in BOOLEAN
    PROVE  IsScreen([full |-> full, lines |-> s[1], cols |-> s[2]])
<1>1. s \in Nat \X Nat /\ s[1] > 1 /\ s[2] > 0
  BY SizesAssumption
<1>2. s[1] \in Nat /\ s[2] \in Nat
  BY <1>1
<1> QED BY <1>1, <1>2 DEF IsScreen, Screens

(* What holds of the pane shown. *)
LEMMA PaneFacts ==
    ASSUME LayoutInv
    PROVE  /\ t_root_index \in Slot /\ t_root[t_root_index] = Pane /\ Pane # NoPane
           /\ Tree(Pane) /\ Bounded(Pane) /\ Named(Pane) \subseteq View /\ Named(Pane) \subseteq Opened
           /\ FocusedPath \in Leaves(Pane) /\ Pane[FocusedPath].name = t_focused[t_root_index]
           /\ t_focused[t_root_index] \in Named(Pane) /\ t_focused[t_root_index] \in View
           /\ IsScreen(Screen) /\ Screen.lines = LINES /\ Screen.cols = COLS /\ Screen.full = Full
           /\ LINES = size[1] /\ COLS = size[2] /\ ScreenSize
           /\ Fresh(Pane, Screen)
<1>1. TypeOK /\ Fresh(Pane, Screen)
  BY DEF LayoutInv
<1>2. /\ t_root_index \in Slot /\ t_root[t_root_index] = Pane /\ Tree(Pane) /\ size \in Sizes
      /\ t_focused[t_root_index] \in Named(Pane) /\ Full \in BOOLEAN /\ t_focused[t_root_index] \in View
  BY <1>1 DEF TypeOK, Pane, Full
<1>3. Pane # NoPane
  BY <1>2, TreeSome
<1>4. Bounded(Pane) /\ Named(Pane) \subseteq View
  BY <1>2, <1>3 DEF LayoutInv, TypeOK
<1>5. Named(Pane) \subseteq Opened
  BY <1>2, <1>3 DEF Opened
<1>6. FocusedPath \in Leaves(Pane) /\ Pane[FocusedPath].name = t_focused[t_root_index]
  <2>1. \E p \in Leaves(Pane) : Pane[p].name = t_focused[t_root_index]
    BY <1>2 DEF Named
  <2> QED BY <2>1 DEF FocusedPath, PathOf
<1>7. Screen = [full |-> Full, lines |-> size[1], cols |-> size[2]] /\ LINES = size[1] /\ COLS = size[2]
  BY DEF Screen, Full, LINES, COLS
<1>8. IsScreen(Screen) /\ Screen.lines = LINES /\ Screen.cols = COLS /\ Screen.full = Full
  BY <1>2, <1>7, SizeScreen
<1>9. ScreenSize
  BY <1>8 DEF IsScreen, Screens, ScreenSize
<1> QED BY <1>1, <1>2, <1>3, <1>4, <1>5, <1>6, <1>7, <1>8, <1>9

(* A step that shows the tree m in the slot i, where the other slots keep  *)
(* theirs or lose it.                                                      *)
LEMMA StepInv ==
    ASSUME LayoutInv, NEW i \in Slot, NEW m, Tree(m), Bounded(m), Named(m) \subseteq View,
           NEW root, DOMAIN root = Slot, \A j \in Slot \ {i} : root[j] \in {NoPane, t_root[j]},
           t_root' = [root EXCEPT ![i] = m] \/ (t_root' = root /\ root[i] = m), t_root_index' = i,
           t_focused' \in [Slot -> View], \A j \in Slot \ {i} : t_focused'[j] = t_focused[j], t_focused'[i] \in Named(m),
           t_isfullscreen' \in [Slot -> BOOLEAN], size' \in Sizes,
           \A j \in Slot \ {i} : root[j] # NoPane => Named(m) \cap Named(t_root[j]) = {},
           Fresh(m, [full |-> t_isfullscreen'[i], lines |-> size'[1], cols |-> size'[2]])
    PROVE  LayoutInv'
<1>1. TypeOK /\ \A j \in Slot : t_root[j] # NoPane => Bounded(t_root[j])
  BY DEF LayoutInv
<1>2. DOMAIN t_root' = Slot /\ t_root'[i] = m /\ \A j \in Slot \ {i} : t_root'[j] = root[j]
  OBVIOUS
<1>3. \A j \in Slot \ {i} : t_root'[j] # NoPane => t_root'[j] = t_root[j] /\ t_root[j] # NoPane
  BY <1>2
<1>4. Pane' = m
  BY <1>2 DEF Pane
<1>5. ASSUME NEW j \in Slot, t_root'[j] # NoPane
      PROVE  Tree(t_root'[j]) /\ Named(t_root'[j]) \subseteq View /\ t_focused'[j] \in Named(t_root'[j]) /\ Bounded(t_root'[j])
  <2>1. CASE j = i
    BY <1>2, <2>1
  <2>2. CASE j # i
    <3>1. t_root'[j] = t_root[j] /\ t_root[j] # NoPane /\ t_focused'[j] = t_focused[j]
      BY <1>3, <1>5, <2>2
    <3>2. Tree(t_root[j]) /\ Named(t_root[j]) \subseteq View /\ t_focused[j] \in Named(t_root[j]) /\ Bounded(t_root[j])
      BY <1>1, <3>1 DEF TypeOK
    <3> QED BY <3>1, <3>2
  <2> QED BY <2>1, <2>2
<1>6. ASSUME NEW j \in Slot, NEW k \in Slot, j # k, t_root'[j] # NoPane, t_root'[k] # NoPane
      PROVE  Named(t_root'[j]) \cap Named(t_root'[k]) = {}
  <2>1. \A h \in Slot \ {i} : t_root'[h] # NoPane => Named(m) \cap Named(t_root'[h]) = {}
    BY <1>2, <1>3
  <2>2. CASE j = i
    BY <1>2, <1>6, <2>1, <2>2
  <2>3. CASE k = i
    BY <1>2, <1>6, <2>1, <2>3
  <2>4. CASE j # i /\ k # i
    <3>1. t_root'[j] = t_root[j] /\ t_root[j] # NoPane /\ t_root'[k] = t_root[k] /\ t_root[k] # NoPane
      BY <1>3, <1>6, <2>4
    <3>2. Named(t_root[j]) \cap Named(t_root[k]) = {}
      BY <1>1, <1>6, <3>1 DEF TypeOK
    <3> QED BY <3>1, <3>2
  <2> QED BY <2>2, <2>3, <2>4
<1>7. TypeOK'
  <2>1. (t_focused[t_root_index])' \in Named(Pane)'
    <3>1. Named(Pane)' = Named(m)
      BY <1>4
    <3> QED BY <3>1
  <2>2. Tree(Pane)'
    BY <1>4
  <2>3. \A j \in Slot : (t_root[j] # NoPane => /\ Tree(t_root[j]) /\ Named(t_root[j]) \subseteq View
                                               /\ t_focused[j] \in Named(t_root[j]))'
    BY <1>5
  <2>4. \A j, k \in Slot : (j # k /\ t_root[j] # NoPane /\ t_root[k] # NoPane =>
                              Named(t_root[j]) \cap Named(t_root[k]) = {})'
    BY <1>6
  <2> QED BY <1>2, <2>1, <2>2, <2>3, <2>4 DEF TypeOK
<1>8. Fresh(Pane, Screen)'
  <2>1. Screen' = [full |-> t_isfullscreen'[i], lines |-> size'[1], cols |-> size'[2]]
    BY DEF Screen, LINES, COLS
  <2> QED BY <1>4, <2>1
<1>9. \A j \in Slot : (t_root[j] # NoPane => Bounded(t_root[j]))'
  BY <1>5
<1> QED BY <1>7, <1>8, <1>9 DEF LayoutInv

(* The usual step: the tree of the pane shown changes. *)
LEMMA PaneStep ==
    ASSUME LayoutInv, NEW m, Tree(m), Bounded(m), Named(m) \subseteq Named(Pane) \cup (View \ Opened),
           t_root' = [t_root EXCEPT ![t_root_index] = m], t_root_index' = t_root_index,
           NEW v \in Named(m), t_focused' = [t_focused EXCEPT ![t_root_index] = v],
           t_isfullscreen' \in [Slot -> BOOLEAN], size' \in Sizes,
           Fresh(m, [full |-> t_isfullscreen'[t_root_index], lines |-> size'[1], cols |-> size'[2]])
    PROVE  LayoutInv'
<1>1. TypeOK /\ DOMAIN t_root = Slot /\ t_focused \in [Slot -> View]
  BY DEF LayoutInv, TypeOK
<1>2. Named(m) \subseteq View /\ v \in View /\ t_root_index \in Slot /\ Pane # NoPane /\ t_root[t_root_index] = Pane
  BY PaneFacts
<1>3. ASSUME NEW j \in Slot \ {t_root_index}, t_root[j] # NoPane PROVE Named(m) \cap Named(t_root[j]) = {}
  <2>1. Named(Pane) \cap Named(t_root[j]) = {}
    BY <1>1, <1>2, <1>3 DEF TypeOK
  <2>2. Named(t_root[j]) \subseteq Opened
    BY <1>3 DEF Opened
  <2> QED BY <2>1, <2>2
<1>4. t_focused' \in [Slot -> View] /\ t_focused'[t_root_index] = v
      /\ \A j \in Slot \ {t_root_index} : t_focused'[j] = t_focused[j]
  BY <1>1, <1>2
<1>5. \A j \in Slot \ {t_root_index} : t_root[j] \in {NoPane, t_root[j]}
  OBVIOUS
<1> QED BY ZenonT(40), <1>1, <1>2, <1>3, <1>4, <1>5, StepInv

(* The first view has the screen above the status line. *)
LEMMA LayoutInit == Init => LayoutInv
<1> SUFFICES ASSUME Init PROVE LayoutInv
  OBVIOUS
<1> USE DEF Init
<1>1. PICK v \in View : /\ t_root = [i \in Slot |-> IF i = 0 THEN NewView(v, LINES - 1, COLS) ELSE NoPane]
                        /\ t_focused = [i \in Slot |-> v]
  OBVIOUS
<1> DEFINE m == NewView(v, LINES - 1, COLS)
<1>2. size \in Sizes /\ size \in Nat \X Nat /\ size[1] > 1 /\ size[2] > 0
  BY SizesAssumption
<1>3. LINES - 1 \in Nat \ {0} /\ COLS \in Nat \ {0}
  BY <1>2 DEF LINES, COLS
<1>4. /\ Tree(m) /\ Bounded(m) /\ Named(m) = {v}
      /\ \A scr : scr.lines - 1 = LINES - 1 /\ scr.cols = COLS => Fresh(m, scr)
  BY <1>3, NewViewTree
<1>5. 0 \in Slot
  BY SlotsAssumption DEF Slot
<1> HIDE DEF m
<1>6. Pane = m /\ t_root[0] = m /\ \A i \in Slot : t_root[i] # NoPane => i = 0
  BY <1>1, <1>5 DEF Pane, m
<1>7. Fresh(Pane, Screen)
  <2>1. Screen.lines = LINES /\ Screen.cols = COLS
    BY DEF Screen
  <2> QED BY <1>4, <1>6, <2>1
<1>8. t_focused \in [Slot -> View] /\ t_isfullscreen \in [Slot -> BOOLEAN] /\ DOMAIN t_root = Slot
      /\ \A i \in Slot : t_focused[i] = v
  BY <1>1
<1>9. \A i \in Slot : t_root[i] # NoPane => /\ Tree(t_root[i]) /\ Bounded(t_root[i]) /\ Named(t_root[i]) \subseteq View
                                            /\ t_focused[i] \in Named(t_root[i])
  BY <1>4, <1>6, <1>8
<1>10. \A i, j \in Slot : i # j /\ t_root[i] # NoPane /\ t_root[j] # NoPane =>
          Named(t_root[i]) \cap Named(t_root[j]) = {}
  BY <1>6
<1>11. t_root_index \in Slot /\ Tree(Pane) /\ t_focused[t_root_index] \in Named(Pane)
  BY <1>4, <1>5, <1>6, <1>8
<1>12. TypeOK
  BY <1>2, <1>8, <1>9, <1>10, <1>11 DEF TypeOK
<1> QED BY <1>7, <1>9, <1>12 DEF LayoutInv

(* A split: the size of the view newnode makes is one it makes.            *)
LEMMA SplitStep ==
    ASSUME LayoutInv, NEW t \in {"HORIZONTAL", "VERTICAL"}, Split(t)
    PROVE  /\ LayoutInv'
           /\ \E v \in View \ Opened : \E nh, nw \in Nat \ {0} :
                 /\ nh = SplitRows(Focused, t) /\ nw = SplitCols(Focused, t) /\ nh >= 2 /\ nw >= 2
                 /\ t_root_index' = t_root_index /\ size' = size /\ Full' = Full
                 /\ Pane' = SplitTree(Pane, FocusedPath, t, v, nh, nw, Screen)
<1> DEFINE p  == FocusedPath
           nh == SplitRows(Focused, t)
           nw == SplitCols(Focused, t)
<1>1. PICK v \in View \ Opened :
          /\ ~newnode_fails(nh, nw) /\ ~newnode_fails(Focused.h, Focused.w)
          /\ SetPane(SplitTree(Pane, p, t, v, nh, nw, Screen), v)
          /\ UNCHANGED <<t_isfullscreen, t_root_index, size>>
  BY DEF Split, SplitTree, Focused
<1>2. /\ Tree(Pane) /\ Bounded(Pane) /\ p \in Leaves(Pane) /\ Fresh(Pane, Screen) /\ IsScreen(Screen)
      /\ Named(Pane) \subseteq Opened /\ t_root_index \in Slot /\ LINES \in Nat /\ COLS \in Nat
      /\ Screen.lines = LINES /\ Screen.cols = COLS /\ LINES > 1 /\ COLS > 0
  BY PaneFacts DEF ScreenSize
<1>3. Focused \in Node
  BY <1>2, TreePath DEF Focused, Leaves
<1>4. nh \in Int /\ nw \in Int
  <2>1. Focused.h \in Nat \ {0} /\ Focused.w \in Nat \ {0}
    BY <1>3 DEF Node
  <2>2. (Focused.h - 1) \div 2 \in Int /\ Focused.w \div 2 \in Int
    BY <2>1
  <2>3. LINES - 1 \in Int
    BY <1>2
  <2> QED BY <1>2, <2>1, <2>2, <2>3 DEF SplitRows, SplitCols
<1>5. nh >= 2 /\ nw >= 2 /\ nh \in Nat \ {0} /\ nw \in Nat \ {0}
  BY <1>1, <1>4 DEF newnode_fails
<1> HIDE DEF nh, nw
<1> DEFINE g == SplitTree(Pane, p, t, v, nh, nw, Screen)
<1>6. Tree(g) /\ Bounded(g) /\ Fresh(g, Screen) /\ Named(g) = Named(Pane) \cup {v}
  <2>1. v \in View \ Named(Pane)
    BY <1>2
  <2> QED BY <1>2, <1>5, <2>1, SplitFresh
<1> HIDE DEF g
<1>7. t_root' = [t_root EXCEPT ![t_root_index] = g] /\ t_focused' = [t_focused EXCEPT ![t_root_index] = v]
      /\ t_root_index' = t_root_index /\ size' = size /\ t_isfullscreen' = t_isfullscreen
  BY <1>1 DEF SetPane, g
<1>8. t_isfullscreen' \in [Slot -> BOOLEAN] /\ size' \in Sizes /\ DOMAIN t_root = Slot
  BY <1>7 DEF LayoutInv, TypeOK
<1>9. Screen = [full |-> t_isfullscreen'[t_root_index], lines |-> size'[1], cols |-> size'[2]]
  BY <1>7 DEF Screen, LINES, COLS
<1>10. LayoutInv'
  BY <1>6, <1>7, <1>8, <1>9, PaneStep
<1>11. Pane' = g /\ Full' = Full
  BY <1>2, <1>7, <1>8 DEF Pane, Full
<1> QED BY <1>5, <1>7, <1>10, <1>11 DEF g, nh, nw

(* deletenode of a view beside others. *)
LEMMA DeleteViewStep ==
    ASSUME LayoutInv, NEW p \in Leaves(Pane), DeleteView(p)
    PROVE  LayoutInv' /\ Named(Pane)' \subseteq Named(Pane)
<1> DEFINE v == t_focused[t_root_index]
           g == removechild(Pane, p, Screen)
           f == IF Pane[p].name = v THEN focus(Pane, Sibling(p), v) ELSE v
<1>1. /\ p # <<>> /\ t_root' = [t_root EXCEPT ![t_root_index] = g] /\ t_focused' = [t_focused EXCEPT ![t_root_index] = f]
      /\ t_root_index' = t_root_index /\ size' = size /\ t_isfullscreen' = t_isfullscreen
  BY DEF DeleteView, SetPane
<1>2. /\ Tree(Pane) /\ Bounded(Pane) /\ Fresh(Pane, Screen) /\ IsScreen(Screen)
      /\ v \in Named(Pane) /\ t_root_index \in Slot
  BY PaneFacts
<1>3. Tree(g) /\ Bounded(g) /\ Fresh(g, Screen) /\ Named(g) \subseteq Named(Pane) /\ f \in Named(g)
  BY <1>1, <1>2, DeleteFresh
<1> HIDE DEF g, f
<1>4. t_isfullscreen' \in [Slot -> BOOLEAN] /\ size' \in Sizes /\ DOMAIN t_root = Slot
  BY <1>1 DEF LayoutInv, TypeOK
<1>5. Screen = [full |-> t_isfullscreen'[t_root_index], lines |-> size'[1], cols |-> size'[2]]
  BY <1>1 DEF Screen, LINES, COLS
<1>6. LayoutInv'
  BY <1>1, <1>3, <1>4, <1>5, PaneStep
<1>7. Pane' = g
  BY <1>1, <1>2, <1>4 DEF Pane
<1> QED BY <1>3, <1>6, <1>7

(* The slot shown next is one in use.                                      *)
LEMMA NextUsed ==
    ASSUME NEW used, used \subseteq Slot, used # {}, t_root_index \in Slot
    PROVE  NextSlot(used) \in used
<1> DEFINE above == {i \in used : i > t_root_index}
           below == {i \in used : i < t_root_index}
           least(S) == CHOOSE i \in S : \A j \in S : i <= j
<1>1. used \subseteq Nat /\ t_root_index \in Nat
  BY DEF Slot
<1>2. \A S : S \subseteq Nat /\ S # {} => least(S) \in S
  <2> SUFFICES ASSUME NEW S, S \subseteq Nat, S # {} PROVE least(S) \in S
    OBVIOUS
  <2>1. \E m \in S : \A k \in S : m <= k
    BY LeastNat
  <2> QED BY <2>1
<1> HIDE DEF least
<1>3. NextSlot(used) = IF above # {} THEN least(above) ELSE IF below # {} THEN least(below) ELSE t_root_index
  BY DEF NextSlot, least
<1>4. above \subseteq used /\ below \subseteq used /\ above \subseteq Nat /\ below \subseteq Nat
  BY <1>1
<1>5. CASE above = {} /\ below = {}
  <2>1. \A i \in used : i = t_root_index
    BY <1>1, <1>5
  <2> QED BY <1>3, <1>5, <2>1
<1> HIDE DEF above, below
<1> QED BY <1>2, <1>3, <1>4, <1>5

(* Showing the next pane of those left.                                    *)
LEMMA ShowNextStep ==
    ASSUME LayoutInv, NEW root, DOMAIN root = Slot, \A j \in Slot : root[j] \in {NoPane, t_root[j]},
           \E j \in Slot : root[j] # NoPane, ShowNext(root), UNCHANGED <<t_focused, t_isfullscreen, size>>
    PROVE  /\ LayoutInv' /\ root[t_root_index'] # NoPane /\ t_root_index' \in Slot
           /\ Named(Pane)' = Named(t_root[t_root_index'])
<1> DEFINE used == {j \in Slot : root[j] # NoPane}
           i == NextSlot(used)
           scr == [Screen EXCEPT !.full = t_isfullscreen[i]]
           m == ReshapeRoot(root[i], scr)
<1>1. TypeOK /\ \A j \in Slot : t_root[j] # NoPane => Bounded(t_root[j])
  BY DEF LayoutInv
<1>2. /\ t_root_index' = i /\ t_root' = [root EXCEPT ![i] = m]
      /\ t_focused' = t_focused /\ t_isfullscreen' = t_isfullscreen /\ size' = size
  BY DEF ShowNext
<1>3. i \in used
  <2>1. used \subseteq Slot /\ used # {} /\ t_root_index \in Slot
    BY PaneFacts
  <2> HIDE DEF used
  <2> QED BY <2>1, NextUsed
<1>4. i \in Slot /\ root[i] # NoPane
  BY <1>3
<1> HIDE DEF i, used
<1>5. root[i] = t_root[i] /\ t_root[i] # NoPane
  BY <1>4
<1>6. /\ Tree(t_root[i]) /\ Bounded(t_root[i]) /\ Named(t_root[i]) \subseteq View /\ t_focused[i] \in Named(t_root[i])
      /\ t_isfullscreen[i] \in BOOLEAN /\ size \in Sizes
  BY <1>1, <1>4, <1>5 DEF TypeOK
<1>7. scr = [full |-> t_isfullscreen[i], lines |-> size[1], cols |-> size[2]] /\ IsScreen(scr)
  <2>1. scr = [full |-> t_isfullscreen[i], lines |-> size[1], cols |-> size[2]]
    BY DEF Screen, LINES, COLS
  <2> HIDE DEF scr
  <2> QED BY <1>6, <2>1, SizeScreen
<1> HIDE DEF scr
<1>8. Tree(m) /\ Bounded(m) /\ Named(m) = Named(t_root[i]) /\ Fresh(m, scr)
  BY <1>5, <1>6, <1>7, ReshapeRootFresh
<1> HIDE DEF m
<1>9. \A j \in Slot \ {i} : root[j] # NoPane => Named(m) \cap Named(t_root[j]) = {}
  <2> TAKE j \in Slot \ {i}
  <2>1. root[j] # NoPane => t_root[j] # NoPane
    OBVIOUS
  <2> QED BY <1>1, <1>4, <1>5, <1>8, <2>1 DEF TypeOK
<1>10. Fresh(m, [full |-> t_isfullscreen'[i], lines |-> size'[1], cols |-> size'[2]])
  BY <1>2, <1>7, <1>8
<1>11. t_focused' \in [Slot -> View] /\ t_focused'[i] \in Named(m) /\ t_isfullscreen' \in [Slot -> BOOLEAN] /\ size' \in Sizes
       /\ \A j \in Slot \ {i} : t_focused'[j] = t_focused[j]
  BY <1>1, <1>2, <1>6, <1>8 DEF TypeOK
<1>12. LayoutInv'
  <2>1. Named(m) \subseteq View /\ \A j \in Slot \ {i} : root[j] \in {NoPane, t_root[j]}
    BY <1>6, <1>8
  <2> QED BY ZenonT(40), <1>2, <1>4, <1>8, <1>9, <1>10, <1>11, <2>1, StepInv
<1>13. Pane' = m
  BY <1>2, <1>4 DEF Pane
<1> QED BY <1>2, <1>4, <1>8, <1>12, <1>13

(* No view comes into the pane shown.                                      *)
NoNewView == t_root_index' = t_root_index => Named(Pane)' \subseteq Named(Pane)

(* Going to the next pane, which is laid out on the screen as it is. *)
LEMMA NextPaneStep ==
    ASSUME LayoutInv, NextPane
    PROVE  LayoutInv' /\ NoNewView
<1>1. ShowNext(t_root) /\ UNCHANGED <<t_focused, t_isfullscreen, size>>
  BY DEF NextPane
<1>2. DOMAIN t_root = Slot /\ t_root_index \in Slot /\ t_root[t_root_index] # NoPane /\ t_root[t_root_index] = Pane
  BY PaneFacts DEF LayoutInv, TypeOK
<1>3. \A j \in Slot : t_root[j] \in {NoPane, t_root[j]}
  OBVIOUS
<1>4. LayoutInv' /\ Named(Pane)' = Named(t_root[t_root_index'])
  BY <1>1, <1>2, <1>3, ShowNextStep
<1> QED BY <1>2, <1>4 DEF NoNewView

(* deletenode of the only view of a pane. *)
LEMMA DeletePaneStep ==
    ASSUME LayoutInv, DeletePane
    PROVE  LayoutInv' /\ NoNewView
<1> DEFINE root == [t_root EXCEPT ![t_root_index] = NoPane]
<1>1. /\ \E i \in Slot \ {t_root_index} : t_root[i] # NoPane
      /\ ShowNext(root) /\ UNCHANGED <<t_focused, t_isfullscreen, size>>
  BY DEF DeletePane
<1>2. DOMAIN t_root = Slot /\ t_root_index \in Slot
  BY DEF LayoutInv, TypeOK
<1>3. /\ DOMAIN root = Slot /\ root[t_root_index] = NoPane /\ \A j \in Slot : root[j] \in {NoPane, t_root[j]}
      /\ \E j \in Slot : root[j] # NoPane
  BY <1>1, <1>2
<1> HIDE DEF root
<1>4. LayoutInv' /\ root[t_root_index'] # NoPane
  BY <1>1, <1>3, ShowNextStep
<1> QED BY <1>3, <1>4 DEF NoNewView

(* Opening a pane. *)
LEMMA CreatePaneStep ==
    ASSUME LayoutInv, CreatePane
    PROVE  LayoutInv' /\ NoNewView
<1>1. PICK i \in Slot, v \in View \ Opened :
        /\ t_root[i] = NoPane /\ ~newnode_fails(LINES - 1, COLS)
        /\ t_root_index' = i
        /\ t_root' = [t_root EXCEPT ![i] = NewView(v, LINES - 1, COLS)]
        /\ t_focused' = [t_focused EXCEPT ![i] = v]
        /\ t_isfullscreen' = [t_isfullscreen EXCEPT ![i] = FALSE]
        /\ size' = size
  BY DEF CreatePane
<1> DEFINE m == NewView(v, LINES - 1, COLS)
<1>2. /\ t_root_index \in Slot /\ t_root[t_root_index] # NoPane
      /\ LINES \in Nat /\ COLS \in Nat /\ LINES > 1 /\ COLS > 0 /\ LINES = size[1] /\ COLS = size[2]
  BY PaneFacts DEF ScreenSize
<1>3. /\ DOMAIN t_root = Slot /\ t_focused \in [Slot -> View] /\ t_isfullscreen \in [Slot -> BOOLEAN] /\ size \in Sizes
  BY DEF LayoutInv, TypeOK
<1>4. /\ Tree(m) /\ Bounded(m) /\ Named(m) = {v}
      /\ \A scr : scr.lines - 1 = LINES - 1 /\ scr.cols = COLS => Fresh(m, scr)
  <2>1. LINES - 1 \in Nat \ {0} /\ COLS \in Nat \ {0}
    BY <1>2
  <2> QED BY <2>1, NewViewTree
<1> HIDE DEF m
<1>5. Fresh(m, [full |-> t_isfullscreen'[i], lines |-> size'[1], cols |-> size'[2]])
  BY <1>1, <1>2, <1>4
<1>6. \A j \in Slot \ {i} : t_root[j] # NoPane => Named(m) \cap Named(t_root[j]) = {}
  BY <1>4 DEF Opened
<1>7. /\ t_focused' \in [Slot -> View] /\ t_isfullscreen' \in [Slot -> BOOLEAN] /\ t_focused'[i] = v /\ size' \in Sizes
      /\ \A j \in Slot \ {i} : t_focused'[j] = t_focused[j]
  BY <1>1, <1>3
<1>8. LayoutInv'
  <2>1. t_root' = [t_root EXCEPT ![i] = m]
    BY <1>1 DEF m
  <2>2. \A j \in Slot \ {i} : t_root[j] \in {NoPane, t_root[j]}
    OBVIOUS
  <2>3. Named(m) \subseteq View /\ t_focused'[i] \in Named(m)
    BY <1>4, <1>7
  <2>4. t_root_index' = i
    BY <1>1
  <2> QED BY <1>3, <1>4, <1>5, <1>6, <1>7, <2>1, <2>2, <2>3, <2>4, StepInv
<1>9. t_root_index' # t_root_index
  BY <1>1, <1>2
<1> QED BY <1>8, <1>9 DEF NoNewView

(* A step that lays out the pane shown anew.                               *)
LEMMA SameNamesStep ==
    ASSUME LayoutInv, NEW m, Tree(m), Bounded(m), Named(m) = Named(Pane),
           t_root' = [t_root EXCEPT ![t_root_index] = m], t_root_index' = t_root_index, t_focused' = t_focused,
           t_isfullscreen' \in [Slot -> BOOLEAN], size' \in Sizes,
           Fresh(m, [full |-> t_isfullscreen'[t_root_index], lines |-> size'[1], cols |-> size'[2]])
    PROVE  LayoutInv' /\ NoNewView
<1> DEFINE v == t_focused[t_root_index]
<1>1. v \in Named(m) /\ t_root_index \in Slot /\ DOMAIN t_root = Slot /\ t_focused \in [Slot -> View]
  BY PaneFacts DEF LayoutInv, TypeOK
<1>2. t_focused' = [t_focused EXCEPT ![t_root_index] = v]
  BY <1>1
<1>3. Pane' = m
  BY <1>1 DEF Pane
<1> HIDE DEF v
<1>4. LayoutInv'
  BY <1>1, <1>2, PaneStep
<1> QED BY <1>3, <1>4 DEF NoNewView

(* Swapping the focused view with its sibling. *)
LEMMA swapnodeStep ==
    ASSUME LayoutInv, swapnode
    PROVE  LayoutInv' /\ NoNewView
<1> DEFINE a == Parent(FocusedPath)
           m == SwapTree(Pane, a, Screen)
<1>1. /\ FocusedPath # <<>> /\ t_root' = [t_root EXCEPT ![t_root_index] = m]
      /\ t_focused' = t_focused /\ t_isfullscreen' = t_isfullscreen /\ t_root_index' = t_root_index /\ size' = size
  BY DEF swapnode, SwapTree
<1>2. Tree(Pane) /\ Bounded(Pane) /\ Fresh(Pane, Screen) /\ IsScreen(Screen) /\ FocusedPath \in Leaves(Pane)
  BY PaneFacts
<1>3. a \in DOMAIN Pane /\ ~IsView(Pane[a])
  BY <1>1, <1>2, TreePath DEF Leaves
<1>4. Tree(m) /\ Bounded(m) /\ Fresh(m, Screen) /\ Named(m) = Named(Pane)
  BY <1>2, <1>3, SwapFresh
<1> HIDE DEF m
<1>5. t_isfullscreen' \in [Slot -> BOOLEAN] /\ size' \in Sizes
  BY <1>1 DEF LayoutInv, TypeOK
<1>6. Screen = [full |-> t_isfullscreen'[t_root_index], lines |-> size'[1], cols |-> size'[2]]
  BY <1>1 DEF Screen, LINES, COLS
<1> QED BY <1>1, <1>4, <1>5, <1>6, SameNamesStep

(* In and out of full screen. *)
LEMMA togglefullscreenStep ==
    ASSUME LayoutInv, togglefullscreen
    PROVE  LayoutInv' /\ NoNewView
<1> DEFINE full == ~t_isfullscreen[t_root_index]
           scr == [Screen EXCEPT !.full = full]
           m == ReshapeRoot(Pane, scr)
<1>1. /\ t_isfullscreen' = [t_isfullscreen EXCEPT ![t_root_index] = full]
      /\ t_root' = [t_root EXCEPT ![t_root_index] = m]
      /\ t_focused' = t_focused /\ t_root_index' = t_root_index /\ size' = size
  BY DEF togglefullscreen
<1>2. /\ Tree(Pane) /\ Bounded(Pane) /\ t_root_index \in Slot /\ t_isfullscreen \in [Slot -> BOOLEAN] /\ size \in Sizes
  BY PaneFacts DEF LayoutInv, TypeOK
<1>3. scr = [full |-> full, lines |-> size[1], cols |-> size[2]] /\ full \in BOOLEAN
  BY <1>2 DEF Screen, LINES, COLS
<1> HIDE DEF scr, full
<1>4. IsScreen(scr)
  BY <1>2, <1>3, SizeScreen
<1>5. Tree(m) /\ Bounded(m) /\ Fresh(m, scr) /\ Named(m) = Named(Pane)
  BY <1>2, <1>4, ReshapeRootFresh
<1> HIDE DEF m
<1>6. t_isfullscreen' \in [Slot -> BOOLEAN] /\ size' \in Sizes /\ t_isfullscreen'[t_root_index] = full
  BY <1>1, <1>2, <1>3
<1>7. Fresh(m, [full |-> t_isfullscreen'[t_root_index], lines |-> size'[1], cols |-> size'[2]])
  BY <1>1, <1>3, <1>5, <1>6
<1> QED BY <1>1, <1>5, <1>6, <1>7, SameNamesStep

(* A resize of the terminal. *)
LEMMA ResizeStep ==
    ASSUME LayoutInv, Resize
    PROVE  LayoutInv' /\ NoNewView
<1>1. PICK s \in Sizes :
          /\ size' = s
          /\ t_root' = [t_root EXCEPT ![t_root_index] = ReshapeRoot(Pane, [Screen EXCEPT !.lines = s[1], !.cols = s[2]])]
          /\ t_focused' = t_focused /\ t_isfullscreen' = t_isfullscreen /\ t_root_index' = t_root_index
  BY DEF Resize
<1> DEFINE scr == [Screen EXCEPT !.lines = s[1], !.cols = s[2]]
           m == ReshapeRoot(Pane, scr)
<1>2. Tree(Pane) /\ Bounded(Pane) /\ t_root_index \in Slot /\ t_isfullscreen \in [Slot -> BOOLEAN]
  BY PaneFacts DEF LayoutInv, TypeOK
<1>3. scr = [full |-> t_isfullscreen[t_root_index], lines |-> s[1], cols |-> s[2]]
  <2> DEFINE l == s[1]
             c == s[2]
  <2>1. scr = [Screen EXCEPT !.lines = l, !.cols = c]
    OBVIOUS
  <2> HIDE DEF l, c, scr
  <2>2. scr = [full |-> t_isfullscreen[t_root_index], lines |-> l, cols |-> c]
    BY <2>1 DEF Screen
  <2> QED BY <2>2 DEF l, c
<1> HIDE DEF scr
<1>4. IsScreen(scr)
  BY <1>2, <1>3, SizeScreen
<1>5. Tree(m) /\ Bounded(m) /\ Fresh(m, scr) /\ Named(m) = Named(Pane)
  BY <1>2, <1>4, ReshapeRootFresh
<1>6. t_root' = [t_root EXCEPT ![t_root_index] = m]
  BY <1>1 DEF scr
<1> HIDE DEF m
<1>7. Fresh(m, [full |-> t_isfullscreen'[t_root_index], lines |-> size'[1], cols |-> size'[2]])
  BY <1>1, <1>3, <1>5
<1> QED BY <1>1, <1>2, <1>5, <1>6, <1>7, SameNamesStep

(* The focus moves within the pane shown.                                  *)
LEMMA FocusStep ==
    ASSUME LayoutInv, NEW v \in Named(Pane), SetFocus(v)
    PROVE  LayoutInv' /\ NoNewView
<1>1. /\ t_focused' = [t_focused EXCEPT ![t_root_index] = v]
      /\ t_root' = t_root /\ t_isfullscreen' = t_isfullscreen /\ t_root_index' = t_root_index /\ size' = size
  BY DEF SetFocus
<1>2. Tree(Pane) /\ Bounded(Pane) /\ Fresh(Pane, Screen) /\ t_root_index \in Slot /\ Pane = t_root[t_root_index]
  BY PaneFacts
<1>3. t_isfullscreen' \in [Slot -> BOOLEAN] /\ size' \in Sizes /\ DOMAIN t_root = Slot
  BY <1>1 DEF LayoutInv, TypeOK
<1>4. t_root' = t_root /\ t_root[t_root_index] = Pane /\ \A j \in Slot \ {t_root_index} : t_root[j] \in {NoPane, t_root[j]}
  BY <1>1, <1>2
<1>5. Screen = [full |-> t_isfullscreen'[t_root_index], lines |-> size'[1], cols |-> size'[2]]
  BY <1>1 DEF Screen, LINES, COLS
<1>6. LayoutInv'
  <2>1. TypeOK /\ Pane # NoPane /\ Named(Pane) \subseteq View
    BY PaneFacts DEF LayoutInv
  <2>2. \A j \in Slot \ {t_root_index} : t_root[j] # NoPane => Named(Pane) \cap Named(t_root[j]) = {}
    BY <1>2, <2>1 DEF TypeOK
  <2>3. t_focused' \in [Slot -> View] /\ t_focused'[t_root_index] = v
        /\ \A j \in Slot \ {t_root_index} : t_focused'[j] = t_focused[j]
    BY <1>1, <1>2, <2>1 DEF TypeOK
  <2>4. Fresh(Pane, [full |-> t_isfullscreen'[t_root_index], lines |-> size'[1], cols |-> size'[2]])
    BY <1>2, <1>5
  <2>5. t_root_index' = t_root_index
    BY <1>1
  <2> QED BY <1>2, <1>3, <1>4, <2>1, <2>2, <2>3, <2>4, <2>5, StepInv
<1>7. Pane' = Pane
  BY <1>1 DEF Pane
<1> QED BY <1>6, <1>7 DEF NoNewView

(* focus gives the keyboard to a view of the pane shown. *)
LEMMA FocusNamed ==
    ASSUME LayoutInv, NEW p, p = NULL \/ p \in DOMAIN Pane
    PROVE  focus(Pane, p, t_focused[t_root_index]) \in Named(Pane)
<1>1. Tree(Pane) /\ Bounded(Pane) /\ t_focused[t_root_index] \in Named(Pane)
  BY PaneFacts
<1>2. CASE p = NULL
  BY <1>1, <1>2 DEF focus
<1>3. CASE p # NULL
  BY <1>1, <1>3, FirstUnder DEF focus, Named
<1> QED BY <1>2, <1>3

(* An arrow command. *)
LEMMA MoveStep ==
    ASSUME LayoutInv, Move
    PROVE  LayoutInv' /\ NoNewView
<1>1. PICK cmd \in DOMAIN Places(Focused) : SetFocus(MoveTo(cmd))
  BY DEF Move
<1> DEFINE at == Places(Focused)[cmd]
           p == findnode(Pane, at[1], at[2])
<1>2. Tree(Pane) /\ Bounded(Pane)
  BY PaneFacts
<1>3. p = NULL \/ p \in DOMAIN Pane
  BY <1>2, FindNode
<1>4. MoveTo(cmd) = focus(Pane, p, t_focused[t_root_index])
  BY DEF MoveTo
<1> HIDE DEF p
<1> QED BY <1>1, <1>3, <1>4, FocusNamed, FocusStep

(* A click. *)
LEMMA ClickStep ==
    ASSUME LayoutInv, Click
    PROVE  LayoutInv' /\ NoNewView
<1>1. PICK my \in 0 .. LINES - 1, mx \in 0 .. COLS - 1 : SetFocus(ClickedView(mx, my))
  BY DEF Click
<1> DEFINE p == coordinate_findnode(Pane, mx, my)
<1>2. Tree(Pane) /\ Bounded(Pane)
  BY PaneFacts
<1>3. p = NULL \/ p \in DOMAIN Pane
  BY <1>2, ClickedLeaf DEF Leaves
<1>4. ClickedView(mx, my) = focus(Pane, p, t_focused[t_root_index])
  BY DEF ClickedView
<1> HIDE DEF p
<1> QED BY <1>1, <1>3, <1>4, FocusNamed, FocusStep

(* Every step preserves the inductive invariant. *)
LEMMA LayoutNext == LayoutInv /\ [Next]_vars => LayoutInv'
<1> SUFFICES ASSUME LayoutInv, [Next]_vars PROVE LayoutInv'
  OBVIOUS
<1>1. CASE Split("HORIZONTAL")
  BY <1>1, SplitStep
<1>2. CASE Split("VERTICAL")
  BY <1>2, SplitStep
<1>3. ASSUME NEW p \in Leaves(Pane), DeleteView(p) PROVE LayoutInv'
  BY <1>3, DeleteViewStep
<1>4. CASE DeletePane
  BY <1>4, DeletePaneStep
<1>5. CASE CreatePane
  BY <1>5, CreatePaneStep
<1>6. CASE NextPane
  BY <1>6, NextPaneStep
<1>7. CASE swapnode
  BY <1>7, swapnodeStep
<1>8. CASE togglefullscreen
  BY <1>8, togglefullscreenStep
<1>9. CASE Resize
  BY <1>9, ResizeStep
<1>10. CASE Move
  BY <1>10, MoveStep
<1>11. CASE Click
  BY <1>11, ClickStep
<1>12. CASE UNCHANGED vars
  <2>1. TypeOK'
    BY <1>12 DEF LayoutInv, vars, TypeOK, Pane
  <2>2. (\A i \in Slot : t_root[i] # NoPane => Bounded(t_root[i]))'
    BY <1>12 DEF LayoutInv, vars
  <2>3. Fresh(Pane, Screen)'
    BY <1>12 DEF LayoutInv, vars, Pane, Screen, LINES, COLS
  <2> QED BY <2>1, <2>2, <2>3 DEF LayoutInv
<1> QED BY <1>1, <1>2, <1>3, <1>4, <1>5, <1>6, <1>7, <1>8, <1>9, <1>10, <1>11, <1>12 DEF Next

(***************************************************************************)
(* The theorems.                                                           *)
(***************************************************************************)
(* Out of full screen, with room in every container, the pane shown is     *)
(* laid out.                                                               *)
LEMMA InvLaidOut ==
    ASSUME LayoutInv, ~Full, Roomy(Pane)
    PROVE  LaidOut(Pane)
<1>1. /\ Tree(Pane) /\ Bounded(Pane) /\ IsScreen(Screen) /\ ~Screen.full /\ Fresh(Pane, Screen)
      /\ ScreenSize /\ Screen.lines = LINES /\ Screen.cols = COLS
  BY PaneFacts
<1>2. AllShared(Pane)
  <2> SUFFICES ASSUME NEW p \in DOMAIN Pane, ~IsView(Pane[p]) PROVE Shared(Pane, p)
    BY DEF AllShared
  <2>1. Divided(Pane[p]) > 2
    BY DEF Roomy, Leaves
  <2> QED BY <1>1, <2>1, FreshShared
<1>3. Rect(Pane[<<>>]) = RootRect
  BY <1>1, FreshRoot DEF Top, RootRect
<1> QED BY <1>1, <1>2, <1>3 DEF LaidOut

(* The invariant gives each of the properties: the rectangles are those of *)
(* a layout anew,                                                          *)
LEMMA InvRectsFresh == LayoutInv => RectsFresh
<1> SUFFICES ASSUME LayoutInv PROVE RectsFresh
  OBVIOUS
<1>1. /\ Tree(Pane) /\ Bounded(Pane) /\ IsScreen(Screen) /\ Screen.full = Full /\ Fresh(Pane, Screen)
      /\ Screen.lines = LINES /\ Screen.cols = COLS
  BY PaneFacts
<1>2. ~Full => Pane = ReshapeRoot(Blank(Pane), Screen)
  BY <1>1, FreshAnew
<1>3. ASSUME Full, NEW p \in DOMAIN Pane
      PROVE  \/ Rect(Pane[p]) = [y |-> 0, x |-> 0, h |-> LINES - 1, w |-> COLS]
             \/ p # <<>> /\ IsView(Pane[p]) /\ Rect(Pane[p]) = [y |-> 0, x |-> 0, h |-> LINES, w |-> COLS]
  BY <1>1, <1>3, FreshFull DEF Top
<1> QED BY <1>2, <1>3 DEF RectsFresh, LayoutInv

(* the views and the lines tile the screen, *)
LEMMA InvPartition == LayoutInv => Partition
<1> SUFFICES ASSUME LayoutInv, ~Full, Roomy(Pane) PROVE Tiled(Pane)
  BY DEF Partition
<1>1. LaidOut(Pane)
  BY InvLaidOut
<1> QED BY <1>1, TilesScreen DEF LaidOut

(* clicks find the view that shows the cell, *)
LEMMA InvClickHits == LayoutInv => ClickHits
<1> SUFFICES ASSUME LayoutInv, ~Full, Roomy(Pane)
             PROVE  /\ \A my \in 0 .. LINES - 1, mx \in 0 .. COLS - 1 :
                          LET to == coordinate_findnode(Pane, mx, my)
                          IN  to # NULL => IsView(Pane[to]) /\ Shows(Pane[to], my, mx)
                    /\ \A p \in Leaves(Pane) : Pane[p].h > 1 /\ Pane[p].w > 1 =>
                          coordinate_findnode(Pane, Pane[p].x + Pane[p].w - 1, Pane[p].y + Pane[p].h - 1) = p
  BY DEF ClickHits
<1>1. LaidOut(Pane)
  BY InvLaidOut
<1>2. \A my \in 0 .. LINES - 1, mx \in 0 .. COLS - 1 : my \in Int /\ mx \in Int
  OBVIOUS
<1>3. /\ \A my \in Int, mx \in Int :
            LET to == coordinate_findnode(Pane, mx, my)
            IN  to # NULL => IsView(Pane[to]) /\ Shows(Pane[to], my, mx)
      /\ \A p \in Leaves(Pane) : Pane[p].h > 1 /\ Pane[p].w > 1 =>
            coordinate_findnode(Pane, Pane[p].x + Pane[p].w - 1, Pane[p].y + Pane[p].h - 1) = p
  BY <1>1, ClickLands
<1> QED BY <1>2, <1>3

(* labels are, over the width of a view, on the view's own cells or a line, *)
LEMMA InvLabelsOwn == LayoutInv => LabelsOwn
<1> SUFFICES ASSUME LayoutInv, ~Full, Roomy(Pane), NEW p \in Leaves(Pane)
             PROVE  LET at == LabelCell(Pane[p])
                        last == at.x + Pane[p].w - 1
                    IN  /\ \A q \in DOMAIN Pane \ {p} :
                              LabelCell(Pane[q]).y = at.y /\ LabelCell(Pane[q]).x <= last => LabelledBefore(q, p)
                        /\ \A q \in Leaves(Pane) \ {p}, x \in at.x .. last : ~Shows(Pane[q], at.y, x)
  BY DEF LabelsOwn
<1>1. LaidOut(Pane)
  BY InvLaidOut
<1> QED BY <1>1, LabelsApart

(* and arrow commands land beside the focused view. *)
LEMMA InvMoveLandsBeside == LayoutInv => MoveLandsBeside
<1> SUFFICES ASSUME LayoutInv, NEW cmd \in DOMAIN Places(Focused)
             PROVE  LET to == Pane[PathOf(Pane, MoveTo(cmd))]
                    IN  IF Full THEN to = Focused
                        ELSE Roomy(Pane) => IF AtEdge(Focused, cmd) THEN to = Focused ELSE Beside(Focused, to, cmd)
  BY DEF MoveLandsBeside
<1> DEFINE y == Places(Focused)[cmd][1]
           x == Places(Focused)[cmd][2]
           m == findnode(Pane, y, x)
           to == Pane[PathOf(Pane, MoveTo(cmd))]
<1>1. /\ Tree(Pane) /\ Bounded(Pane) /\ FocusedPath \in Leaves(Pane) /\ Pane[FocusedPath].name = t_focused[t_root_index]
      /\ IsScreen(Screen) /\ Screen.full = Full /\ Fresh(Pane, Screen) /\ Screen.lines = LINES /\ Screen.cols = COLS
      /\ ScreenSize
  BY PaneFacts
<1>2. cmd \in Commands
  BY DEF Places, Commands
<1>3. FocusedPath \in DOMAIN Pane /\ Focused = Pane[FocusedPath] /\ Focused \in Node
  BY <1>1, TreePath DEF Leaves, Focused
<1>4. MoveTo(cmd) = focus(Pane, m, t_focused[t_root_index])
  BY DEF MoveTo
<1>5. m = NULL => to = Focused
  BY <1>4 DEF focus, FocusedPath, Focused
<1>6. m \in Leaves(Pane) => to = Pane[m]
  <2> SUFFICES ASSUME m \in Leaves(Pane) PROVE to = Pane[m]
    OBVIOUS
  <2> HIDE DEF m, to
  <2>1. m \in DOMAIN Pane /\ IsView(Pane[m]) /\ m \in Path
    BY <1>1, TreePath DEF Leaves
  <2>2. m # NULL
    BY <2>1, NULLAssumption
  <2>3. FirstView(Pane, m) = m
    BY <1>1, <2>1, FirstUnder
  <2>4. MoveTo(cmd) = Pane[m].name
    BY <1>4, <2>2, <2>3 DEF focus
  <2>5. PathOf(Pane, Pane[m].name) = m
    <3>1. \A q \in Leaves(Pane) : Pane[q].name = Pane[m].name => q = m
      BY <1>1 DEF Tree
    <3> QED BY <3>1 DEF PathOf
  <2> QED BY <2>4, <2>5 DEF to
<1>7. CASE ~Full
  <2> SUFFICES ASSUME Roomy(Pane)
               PROVE  IF AtEdge(Focused, cmd) THEN to = Focused ELSE Beside(Focused, to, cmd)
    BY <1>7
  <2>1. LaidOut(Pane)
    BY <1>7, InvLaidOut
  <2>2. IF AtEdge(Focused, cmd) THEN m = NULL ELSE m \in Leaves(Pane) /\ Beside(Focused, Pane[m], cmd)
    BY <1>2, <1>3, <2>1, MoveLands
  <2> HIDE DEF m, to
  <2> QED BY <1>5, <1>6, <2>2
<1>8. CASE Full
  <2>1. Rect(Pane[<<>>]) = [y |-> 0, x |-> 0, h |-> LINES - 1, w |-> COLS]
    BY <1>1, FreshRoot DEF Top
  <2>2. Pane[<<>>].y = 0 /\ Pane[<<>>].x = 0 /\ Pane[<<>>].h = LINES - 1 /\ Pane[<<>>].w = COLS
    BY <2>1 DEF Rect
  <2>3. \/ Rect(Focused) = Top(Screen)
        \/ Rect(Focused) = [y |-> 0, x |-> 0, h |-> Screen.lines, w |-> Screen.cols]
    BY <1>1, <1>3, <1>8, FreshFull
  <2>4. Focused.y = 0 /\ Focused.x = 0 /\ (Focused.h = LINES - 1 \/ Focused.h = LINES) /\ Focused.w = COLS
    BY <1>1, <2>3 DEF Rect, Top
  <2>5. /\ Places(Focused)["MOVE_UP"][1] = Focused.y - 2
        /\ Places(Focused)["MOVE_DOWN"][1] = Focused.y + Focused.h + 2
        /\ Places(Focused)["MOVE_LEFT"][2] = Focused.x - 2
        /\ Places(Focused)["MOVE_RIGHT"][2] = Focused.x + Focused.w + 2
    BY DEF Places, ABOVE, BELOW, LEFT, RIGHT
  <2>6. y < 0 \/ y > LINES - 1 \/ x < 0 \/ x > COLS
    <3>1. CASE cmd = "MOVE_UP"
      BY <2>4, <2>5, <3>1
    <3>2. CASE cmd = "MOVE_DOWN"
      BY <1>1, <2>4, <2>5, <3>2 DEF ScreenSize
    <3>3. CASE cmd = "MOVE_LEFT"
      BY <2>4, <2>5, <3>3
    <3>4. CASE cmd = "MOVE_RIGHT"
      BY <1>1, <2>4, <2>5, <3>4 DEF ScreenSize
    <3> QED BY <1>2, <3>1, <3>2, <3>3, <3>4 DEF Commands
  <2>7. y \in Int /\ x \in Int
    BY <1>2, <1>3, AimCell
  <2> HIDE DEF y, x
  <2>8. ~IN_(Pane[<<>>], y, x)
    BY <1>1, <2>2, <2>6, <2>7 DEF IN_, ScreenSize
  <2>9. m = NULL
    BY <1>1, <2>8, FindNothing
  <2> QED BY <1>5, <1>8, <2>9
<1> QED BY <1>7, <1>8

(* A split leaves room in every container of a tree that has room.         *)
LEMMA SplitRoomy ==
    ASSUME NEW n, Tree(n), Bounded(n), NEW scr, IsScreen(scr), ~scr.full, Fresh(n, scr), Roomy(n), NEW p \in Leaves(n),
           NEW t \in {"HORIZONTAL", "VERTICAL"}, NEW v \in View \ Named(n), NEW nh \in Nat \ {0}, NEW nw \in Nat \ {0},
           nh >= 2, nw >= 2,
           nh = IF t = "VERTICAL" THEN (n[p].h - 1) \div 2 ELSE n[p].h,
           nw = IF t = "HORIZONTAL" THEN n[p].w \div 2 ELSE n[p].w
    PROVE  Roomy(SplitTree(n, p, t, v, nh, nw, scr))
<1> SUFFICES ASSUME NEW g, g = SplitTree(n, p, t, v, nh, nw, scr) PROVE Roomy(g)
  OBVIOUS
<1>1. /\ Tree(g) /\ Bounded(g) /\ Fresh(g, scr)
      /\ \A q \in Path : ~Under(p, q) => (q \in DOMAIN g <=> q \in DOMAIN n) /\ (q \in DOMAIN n => g[q].t = n[q].t)
      /\ p \in DOMAIN g /\ g[p].t = t
      /\ \A q \in DOMAIN g : Under(p, q) /\ q # p => IsView(g[q])
  BY SplitFresh
<1>2. p \in DOMAIN n /\ p \in Path /\ n[p] \in Node /\ \A q \in DOMAIN g : q \in Path
  BY <1>1, TreePath DEF Leaves
<1> SUFFICES ASSUME NEW q \in DOMAIN g, ~IsView(g[q]) PROVE Divided(g[q]) > 2
  BY DEF Roomy, Leaves
<1>3. ASSUME q \in DOMAIN n, ~Under(p, q) \/ q = p PROVE Rect(n[q]) = Rect(g[q])
  <2>1. ASSUME NEW d \in DOMAIN n, Under(d, q), d # q PROVE n[d].t = g[d].t
    <3>1. d \in Path /\ q \in Path
      BY <1>2, <2>1, TreePath
    <3>2. ~Under(p, d)
      BY <1>2, <1>3, <2>1, <3>1, UnderOrder
    <3> QED BY <1>1, <2>1, <3>1, <3>2
  <2> QED BY ZenonT(40), <1>1, <1>3, <2>1, FreshSame
<1>4. CASE ~Under(p, q)
  <2>1. q \in DOMAIN n /\ g[q].t = n[q].t
    BY <1>1, <1>2, <1>4
  <2>2. Rect(n[q]) = Rect(g[q])
    BY <1>3, <1>4, <2>1
  <2>3. Divided(g[q]) = Divided(n[q])
    BY <2>1, <2>2 DEF Divided, Rect
  <2>4. ~IsView(n[q])
    BY <2>1 DEF IsView
  <2> QED BY <2>1, <2>3, <2>4 DEF Roomy, Leaves
<1>5. CASE q = p
  <2>1. Rect(n[p]) = Rect(g[p])
    BY <1>2, <1>3, <1>5
  <2>2. g[p].h = n[p].h /\ g[p].w = n[p].w /\ n[p].h \in Nat /\ n[p].w \in Nat
    BY <1>2, <2>1 DEF Rect, Node
  <2>3. CASE t = "HORIZONTAL"
    <3>1. n[p].w \div 2 >= 2
      BY <2>3
    <3>2. n[p].w > 2
      BY <2>2, <3>1
    <3> QED BY <1>1, <1>5, <2>2, <2>3, <3>2 DEF Divided
  <2>4. CASE t = "VERTICAL"
    <3>1. (n[p].h - 1) \div 2 >= 2
      BY <2>4
    <3>2. n[p].h > 2
      BY <2>2, <3>1
    <3> QED BY <1>1, <1>5, <2>2, <2>4, <3>2 DEF Divided
  <2> QED BY <2>3, <2>4
<1>6. CASE Under(p, q) /\ q # p
  BY <1>1, <1>6
<1> QED BY <1>4, <1>5, <1>6

(* A split takes a tiled pane to a tiled pane. *)
LEMMA SplitTiles ==
    ASSUME LayoutInv, NEW t \in {"HORIZONTAL", "VERTICAL"}, Split(t), ~Full, Tiled(Pane)
    PROVE  Tiled(Pane)'
<1>1. /\ Tree(Pane) /\ Bounded(Pane) /\ FocusedPath \in Leaves(Pane) /\ Fresh(Pane, Screen) /\ IsScreen(Screen)
      /\ Screen.full = Full /\ Screen.lines = LINES /\ Screen.cols = COLS /\ Named(Pane) \subseteq Opened /\ ScreenSize
  BY PaneFacts
<1>2. PICK v \in View \ Opened : \E nh, nw \in Nat \ {0} :
         /\ nh = SplitRows(Focused, t) /\ nw = SplitCols(Focused, t) /\ nh >= 2 /\ nw >= 2
         /\ t_root_index' = t_root_index /\ size' = size /\ Full' = Full
         /\ Pane' = SplitTree(Pane, FocusedPath, t, v, nh, nw, Screen)
  BY SplitStep
<1>3. PICK nh, nw \in Nat \ {0} :
         /\ nh = SplitRows(Focused, t) /\ nw = SplitCols(Focused, t) /\ nh >= 2 /\ nw >= 2
         /\ t_root_index' = t_root_index /\ size' = size /\ Full' = Full
         /\ Pane' = SplitTree(Pane, FocusedPath, t, v, nh, nw, Screen)
  BY <1>2
<1> DEFINE g == SplitTree(Pane, FocusedPath, t, v, nh, nw, Screen)
<1>4. v \in View \ Named(Pane)
  BY <1>1
<1>5. Roomy(Pane)
  BY <1>1, TiledRoomy
<1>6. /\ nh = IF t = "VERTICAL" THEN (Pane[FocusedPath].h - 1) \div 2 ELSE Pane[FocusedPath].h
      /\ nw = IF t = "HORIZONTAL" THEN Pane[FocusedPath].w \div 2 ELSE Pane[FocusedPath].w
  BY <1>1, <1>3 DEF SplitRows, SplitCols, Focused
<1>7. Tree(g) /\ Bounded(g) /\ Fresh(g, Screen)
  BY <1>1, <1>4, SplitFresh
<1>8. Roomy(g)
  BY <1>1, <1>3, <1>4, <1>5, <1>6, SplitRoomy
<1> HIDE DEF g
<1>9. AllShared(g)
  <2> SUFFICES ASSUME NEW p \in DOMAIN g, ~IsView(g[p]) PROVE Shared(g, p)
    BY DEF AllShared
  <2>1. Divided(g[p]) > 2
    BY <1>8 DEF Roomy, Leaves
  <2> QED BY <1>1, <1>7, <2>1, FreshShared
<1>10. Rect(g[<<>>]) = RootRect
  BY <1>1, <1>7, FreshRoot DEF Top, RootRect
<1>11. Tiled(g)
  BY <1>1, <1>7, <1>9, <1>10, TilesScreen
<1>12. Pane' = g /\ LINES' = LINES /\ COLS' = COLS
  BY <1>3 DEF g, LINES, COLS
<1> QED BY <1>11, <1>12 DEF Tiled

(* Every node of an open pane has a size of at least one row and column,   *)
(* no view is in two places, and the focus is always on a view of the pane *)
(* shown (newnode, AtLeast in reshape, focus).                             *)
THEOREM LayoutTypes == Spec => []TypeOK
<1>1. LayoutInv => TypeOK
  BY DEF LayoutInv
<1> QED BY <1>1, LayoutInit, LayoutNext, PTL DEF Spec

(* However a pane came to be - splits, deletions and swaps that reshape a  *)
(* part of it, full screen, resizes while it was hidden - its rectangles   *)
(* are those a layout anew would give it (the calls of reshape in          *)
(* replacechild, swapnode, togglefullscreen, KEY_RESIZE and main's         *)
(* passes).                                                                *)
THEOREM LayoutFresh == Spec => []RectsFresh
<1> QED BY LayoutInit, LayoutNext, InvRectsFresh, PTL DEF Spec

(* Out of full screen the views and the lines between them share out the   *)
(* screen without a gap or an overlap (reshapechildren and drawchildren).  *)
THEOREM ViewsPartition == Spec => []Partition
<1> QED BY LayoutInit, LayoutNext, InvPartition, PTL DEF Spec

(* An arrow command goes to the view across the line from the middle of    *)
(* the focused one, and nowhere at the edge of the screen or in full       *)
(* screen (ABOVE, BELOW, LEFT, RIGHT and findnode).                        *)
THEOREM ArrowsLandBeside == Spec => []MoveLandsBeside
<1> QED BY LayoutInit, LayoutNext, InvMoveLandsBeside, PTL DEF Spec

(* A click gives the focus to the view that shows the cell, or leaves it,  *)
(* and every view of two rows and columns can be clicked                   *)
(* (coordinate_findnode).                                                  *)
THEOREM ClicksHit == Spec => []ClickHits
<1> QED BY LayoutInit, LayoutNext, InvClickHits, PTL DEF Spec

(* With labels on, the label of a view is, as far as the view is wide,     *)
(* drawn over by no other one and on no text but the view's own            *)
(* (window_label, draw_label).                                             *)
THEOREM LabelsAreOwn == Spec => []LabelsOwn
<1> QED BY LayoutInit, LayoutNext, InvLabelsOwn, PTL DEF Spec

(* A split never draws two views over each other, whatever the size of the *)
(* terminal: newnode refuses a view that would be too small (split,        *)
(* newnode and reshapechildren).                                           *)
THEOREM SplitsKeepTiling == Spec => SplitKeepsTiling
<1>1. LayoutInv /\ [Next]_vars =>
        [( /\ t_root_index' = t_root_index
           /\ Named(Pane)' \ Named(Pane) # {}
           /\ ~Full /\ Tiled(Pane) ) => Tiled(Pane)']_vars
  <2> SUFFICES ASSUME LayoutInv, Next, t_root_index' = t_root_index, Named(Pane)' \ Named(Pane) # {}, ~Full, Tiled(Pane)
               PROVE  Tiled(Pane)'
    OBVIOUS
  <2>1. ~NoNewView
    BY DEF NoNewView
  <2>2. CASE Split("HORIZONTAL")
    BY <2>2, SplitTiles
  <2>3. CASE Split("VERTICAL")
    BY <2>3, SplitTiles
  <2>4. ASSUME NEW p \in Leaves(Pane), DeleteView(p) PROVE FALSE
    BY <2>1, <2>4, DeleteViewStep DEF NoNewView
  <2>5. CASE DeletePane
    BY <2>1, <2>5, DeletePaneStep
  <2>6. CASE CreatePane
    BY <2>1, <2>6, CreatePaneStep
  <2>7. CASE NextPane
    BY <2>1, <2>7, NextPaneStep
  <2>8. CASE swapnode
    BY <2>1, <2>8, swapnodeStep
  <2>9. CASE togglefullscreen
    BY <2>1, <2>9, togglefullscreenStep
  <2>10. CASE Resize
    BY <2>1, <2>10, ResizeStep
  <2>11. CASE Move
    BY <2>1, <2>11, MoveStep
  <2>12. CASE Click
    BY <2>1, <2>12, ClickStep
  <2> QED BY <2>2, <2>3, <2>4, <2>5, <2>6, <2>7, <2>8, <2>9, <2>10, <2>11, <2>12 DEF Next
<1> QED BY <1>1, LayoutInit, LayoutNext, PTL DEF Spec, SplitKeepsTiling

=============================================================================
