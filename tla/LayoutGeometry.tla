--------------------------- MODULE LayoutGeometry ---------------------------
(***************************************************************************)
(* Lemmas on the rectangles of a pane, for every tree: when the children   *)
(* of each container share out its rectangle around the line between them, *)
(* the views and the lines tile the screen, findnode and                   *)
(* coordinate_findnode find the view they should, and no label is drawn    *)
(* over another view.                                                      *)
(***************************************************************************)
EXTENDS Layout, Loops, SequenceTheorems, TLAPS

(***************************************************************************)
(* Paths.                                                                  *)
(***************************************************************************)
(* A child has a path one step longer, which ends in the child and goes    *)
(* back to its parent.                                                     *)
LEMMA PathChild ==
    ASSUME NEW p \in Path, NEW c \in Child
    PROVE  /\ Append(p, c) \in Path /\ Len(Append(p, c)) = Len(p) + 1
           /\ Parent(Append(p, c)) = p /\ Last(Append(p, c)) = c
           /\ Append(p, c) # <<>> /\ Append(p, c) # p
<1>1. Append(p, c) \in Path /\ Len(Append(p, c)) = Len(p) + 1
  BY DEF Path
<1>2. Last(Append(p, c)) = c
  BY DEF Path, Last
<1>3. Parent(Append(p, c)) = p
  BY DEF Path, Parent
<1>4. Append(p, c) # <<>> /\ Append(p, c) # p
  BY <1>1, Len(p) \in Nat, Len(<<>>) = 0 DEF Path
<1> QED BY <1>1, <1>2, <1>3, <1>4

(* Every path but that of the root is its parent's, followed by c1 or c2. *)
LEMMA PathParent ==
    ASSUME NEW q \in Path, q # <<>>
    PROVE  /\ Len(q) \in Nat \ {0} /\ Parent(q) \in Path /\ Last(q) \in Child
           /\ Len(Parent(q)) = Len(q) - 1
           /\ q = Append(Parent(q), Last(q))
<1>1. Len(q) \in Nat \ {0}
  BY DEF Path
<1>2. Parent(q) \in Path /\ Len(Parent(q)) = Len(q) - 1
  <2>1. \A i \in 1 .. (Len(q) - 1) : q[i] \in Child
    BY <1>1 DEF Path
  <2>2. Len(q) - 1 \in Int /\ 1 \in Int
    BY <1>1
  <2>3. /\ SubSeq(q, 1, Len(q) - 1) \in Seq(Child)
        /\ Len(SubSeq(q, 1, Len(q) - 1)) = IF 1 <= Len(q) - 1 THEN (Len(q) - 1) - 1 + 1 ELSE 0
    BY <2>1, <2>2, SubSeqProperties
  <2>4. Parent(q) = SubSeq(q, 1, Len(q) - 1)
    BY DEF Parent
  <2>5. Len(Parent(q)) = Len(q) - 1
    <3> HIDE DEF Parent
    <3>1. Len(Parent(q)) = IF 1 <= Len(q) - 1 THEN (Len(q) - 1) - 1 + 1 ELSE 0
      BY <2>3, <2>4
    <3>2. \A k \in Nat \ {0} : (IF 1 <= k - 1 THEN (k - 1) - 1 + 1 ELSE 0) = k - 1
      OBVIOUS
    <3> QED BY <1>1, <3>1, <3>2
  <2>6. Parent(q) \in Path
    BY <2>3, <2>4 DEF Path
  <2> QED BY <2>5, <2>6
<1>3. Last(q) \in Child
  BY <1>1 DEF Path, Last
<1>4. q = Append(Parent(q), Last(q))
  BY <1>1, <1>2, <1>3 DEF Path, Parent, Last
<1> QED BY <1>1, <1>2, <1>3, <1>4

(* Being under a node is a partial order with the root on top. *)
LEMMA UnderOrder ==
    /\ \A p \in Path : Under(p, p) /\ Under(<<>>, p)
    /\ \A p, q, r \in Path : Under(p, q) /\ Under(q, r) => Under(p, r)
    /\ \A p, q \in Path : Under(p, q) /\ Under(q, p) => p = q
    /\ \A p, q \in Path : Under(p, q) /\ Len(p) = Len(q) => p = q
    /\ \A p, q \in Path : Under(p, q) => Len(p) <= Len(q)
<1>1. \A p \in Path : Under(p, p) /\ Under(<<>>, p)
  BY DEF Path, Under
<1>2. \A p, q, r \in Path : Under(p, q) /\ Under(q, r) => Under(p, r)
  BY DEF Path, Under
<1>3. \A p, q \in Path : Under(p, q) /\ Len(p) = Len(q) => p = q
  <2> TAKE p \in Path, q \in Path
  <2> SUFFICES ASSUME Under(p, q), Len(p) = Len(q) PROVE p = q
    OBVIOUS
  <2>1. \A i \in 1 .. Len(p) : p[i] = q[i]
    BY DEF Under
  <2> QED BY <2>1 DEF Path
<1>4. \A p, q \in Path : Under(p, q) => Len(p) <= Len(q)
  BY DEF Under
<1>5. \A p, q \in Path : Under(p, q) /\ Under(q, p) => p = q
  <2> TAKE p \in Path, q \in Path
  <2>1. Len(p) \in Nat /\ Len(q) \in Nat
    BY DEF Path
  <2> QED BY <1>3, <1>4, <2>1
<1> QED BY <1>1, <1>2, <1>3, <1>4, <1>5

(* Nothing is above the root. *)
LEMMA UnderRoot ==
    ASSUME NEW p \in Path, Under(p, <<>>)
    PROVE  p = <<>>
<1>1. <<>> \in Path
  BY DEF Path
<1> QED BY <1>1, UnderOrder

(* A node under another, and not that one, has its parent under it. *)
LEMMA UnderParent ==
    ASSUME NEW p \in Path, NEW q \in Path
    PROVE  /\ q # <<>> => Under(Parent(q), q)
           /\ Under(p, q) /\ p # q => q # <<>> /\ Under(p, Parent(q))
<1>1. q # <<>> => Under(Parent(q), q)
  BY DEF Path, Parent, Under
<1>2. ASSUME Under(p, q), p # q PROVE q # <<>> /\ Under(p, Parent(q))
  <2>1. q # <<>>
    BY <1>2, UnderRoot
  <2>2. Len(p) <= Len(q) /\ Len(p) # Len(q) /\ Len(p) \in Nat /\ Len(q) \in Nat
    BY <1>2, UnderOrder DEF Path
  <2>3. Len(Parent(q)) = Len(q) - 1 /\ Parent(q) \in Path
    BY <2>1, PathParent
  <2>4. \A i \in 1 .. Len(p) : Parent(q)[i] = p[i]
    BY <1>2, <2>2, <2>3 DEF Parent, Under, Path
  <2> QED BY <2>1, <2>2, <2>3, <2>4 DEF Under
<1> QED BY <1>1, <1>2

(* What is under a node, and not that node, is under exactly one of its    *)
(* children.                                                               *)
LEMMA UnderChild ==
    ASSUME NEW p \in Path, NEW q \in Path
    PROVE  /\ \A c \in Child : Under(Append(p, c), q) <=>
                  Under(p, q) /\ Len(p) < Len(q) /\ q[Len(p) + 1] = c
           /\ Under(p, q) /\ p # q => \E c \in Child : Under(Append(p, c), q)
           /\ \A c \in Child : Under(p, Append(p, c)) /\ ~Under(Append(p, c), p)
           /\ \A c, d \in Child : Under(Append(p, c), q) /\ Under(Append(p, d), q) => c = d
<1>0. Len(p) \in Nat /\ Len(q) \in Nat
  BY DEF Path
<1>1. ASSUME NEW c \in Child
      PROVE  Under(Append(p, c), q) <=> Under(p, q) /\ Len(p) < Len(q) /\ q[Len(p) + 1] = c
  <2>1. Len(Append(p, c)) = Len(p) + 1 /\ Append(p, c)[Len(p) + 1] = c
        /\ \A i \in 1 .. Len(p) : Append(p, c)[i] = p[i]
    BY DEF Path
  <2>2. 1 .. (Len(p) + 1) = (1 .. Len(p)) \cup {Len(p) + 1}
    BY <1>0
  <2> QED BY <1>0, <2>1, <2>2 DEF Under
<1>2. ASSUME Under(p, q), p # q PROVE \E c \in Child : Under(Append(p, c), q)
  <2>1. Len(p) < Len(q)
    BY <1>2, <1>0, UnderOrder
  <2>2. q[Len(p) + 1] \in Child
    BY <2>1, <1>0 DEF Path
  <2> QED BY <1>1, <1>2, <2>1, <2>2
<1>3. \A c \in Child : Under(p, Append(p, c)) /\ ~Under(Append(p, c), p)
  <2> TAKE c \in Child
  <2>1. Append(p, c) \in Path /\ Len(Append(p, c)) = Len(p) + 1 /\ Parent(Append(p, c)) = p /\ Append(p, c) # <<>>
    BY PathChild
  <2>2. Under(p, Append(p, c))
    BY <2>1, UnderParent
  <2>3. ~(Len(Append(p, c)) <= Len(p))
    BY <2>1, <1>0
  <2> QED BY <2>1, <2>2, <2>3, UnderOrder
<1> QED BY <1>1, <1>2, <1>3

(* Two nodes above a third one are one above the other. *)
LEMMA UnderComparable ==
    ASSUME NEW p \in Path, NEW q \in Path, NEW r \in Path, Under(p, r), Under(q, r)
    PROVE  Under(p, q) \/ Under(q, p)
<1>1. Len(p) \in Nat /\ Len(q) \in Nat
  BY DEF Path
<1> QED BY <1>1 DEF Under

(* Two nodes neither of which is under the other are under different       *)
(* children of a node.                                                     *)
LEMMA UnderDiverge ==
    ASSUME NEW p \in Path, NEW q \in Path, ~Under(p, q), ~Under(q, p)
    PROVE  \E d \in Path, a \in Child, b \in Child :
              a # b /\ Under(Append(d, a), p) /\ Under(Append(d, b), q)
<1>1. Len(p) \in Nat /\ Len(q) \in Nat
  BY DEF Path
<1> DEFINE D == {i \in Nat \ {0} : i <= Len(p) /\ i <= Len(q) /\ p[i] # q[i]}
<1>2. D # {} /\ D \subseteq Nat
  BY <1>1 DEF Under
<1> HIDE DEF D
<1>3. PICK k \in D : \A i \in D : k <= i
  BY <1>2, LeastNat
<1> USE DEF D
<1> DEFINE d == SubSeq(p, 1, k - 1)
<1>4. d \in Path /\ Len(d) = k - 1 /\ \A i \in 1 .. (k - 1) : d[i] = p[i]
  BY <1>1, <1>3 DEF Path
<1>5. \A i \in 1 .. (k - 1) : p[i] = q[i]
  BY <1>1, <1>3
<1>6. p[k] \in Child /\ q[k] \in Child /\ p[k] # q[k]
  BY <1>1, <1>3 DEF Path
<1>7. Under(d, p) /\ Under(d, q)
  BY <1>1, <1>3, <1>4, <1>5 DEF Under
<1>8. Len(d) + 1 = k /\ Len(d) < Len(p) /\ Len(d) < Len(q)
  BY <1>1, <1>3, <1>4
<1> HIDE DEF D, d
<1>9. Under(Append(d, p[k]), p) /\ Under(Append(d, q[k]), q)
  BY <1>4, <1>6, <1>7, <1>8, UnderChild
<1> QED BY <1>4, <1>6, <1>9

(* The path p followed by r: under p, with r as the rest. *)
LEMMA PathConcat ==
    ASSUME NEW p \in Path, NEW r \in Path
    PROVE  /\ p \o r \in Path /\ Len(p \o r) = Len(p) + Len(r)
           /\ Under(p, p \o r) /\ Rest(p, p \o r) = r
           /\ p \o <<>> = p /\ <<>> \o p = p
           /\ p \o r = p => r = <<>>
<1>1. p \o r \in Path /\ Len(p \o r) = Len(p) + Len(r)
  BY DEF Path
<1>2. Under(p, p \o r)
  BY DEF Path, Under
<1>3. Rest(p, p \o r) = r
  <2>1. Rest(p, p \o r) \in Path /\ Len(Rest(p, p \o r)) = Len(r)
    BY <1>1 DEF Path, Rest
  <2>2. \A i \in 1 .. Len(r) : Rest(p, p \o r)[i] = r[i]
    BY <1>1 DEF Path, Rest
  <2> QED BY <2>1, <2>2 DEF Path
<1>4. p \o <<>> = p /\ <<>> \o p = p
  BY DEF Path
<1>5. ASSUME p \o r = p PROVE r = <<>>
  <2>1. Len(r) = 0
    BY <1>1, <1>5 DEF Path
  <2> QED BY <2>1 DEF Path
<1> QED BY <1>1, <1>2, <1>3, <1>4, <1>5

(* A path under p is p followed by its rest. *)
LEMMA PathRest ==
    ASSUME NEW p \in Path, NEW q \in Path, Under(p, q)
    PROVE  Rest(p, q) \in Path /\ p \o Rest(p, q) = q
<1>1. Len(p) \in Nat /\ Len(q) \in Nat /\ Len(p) <= Len(q)
  BY DEF Path, Under
<1>2. Rest(p, q) \in Path /\ Len(Rest(p, q)) = Len(q) - Len(p)
  BY <1>1 DEF Path, Rest
<1>3. p \o Rest(p, q) \in Path /\ Len(p \o Rest(p, q)) = Len(q)
  BY <1>1, <1>2 DEF Path
<1>4. \A i \in 1 .. Len(q) : (p \o Rest(p, q))[i] = q[i]
  <2> TAKE i \in 1 .. Len(q)
  <2>1. CASE i <= Len(p)
    BY <2>1, <1>1, <1>2 DEF Path, Under
  <2>2. CASE i > Len(p)
    <3>1. (p \o Rest(p, q))[i] = Rest(p, q)[i - Len(p)]
      BY <2>2, <1>1, <1>2 DEF Path
    <3>2. Rest(p, q)[i - Len(p)] = q[i]
      BY <2>2, <1>1, <1>2 DEF Path, Rest
    <3> QED BY <3>1, <3>2
  <2>3. i <= Len(p) \/ i > Len(p)
    BY <1>1
  <2> QED BY <2>1, <2>2, <2>3
<1>5. \A s, t \in Seq(Child) : Len(s) = Len(t) /\ (\A i \in 1 .. Len(s) : s[i] = t[i]) => s = t
  OBVIOUS
<1>6. Len(p \o Rest(p, q)) = Len(q) /\ \A i \in 1 .. Len(p \o Rest(p, q)) : (p \o Rest(p, q))[i] = q[i]
  BY <1>3, <1>4
<1> QED BY <1>2, <1>3, <1>5, <1>6 DEF Path

(* Going to a child and putting a path in front commute. *)
LEMMA ConcatChild ==
    ASSUME NEW p \in Path, NEW r \in Path, NEW c \in Child
    PROVE  p \o Append(r, c) = Append(p \o r, c)
<1>1. p \o Append(r, c) \in Path /\ Append(p \o r, c) \in Path
  BY DEF Path
<1>2. Len(p \o Append(r, c)) = Len(Append(p \o r, c))
  BY DEF Path
<1>3. \A i \in 1 .. Len(p \o Append(r, c)) : (p \o Append(r, c))[i] = Append(p \o r, c)[i]
  BY DEF Path
<1> QED BY <1>1, <1>2, <1>3 DEF Path

(* A path in front of both changes nothing about which of two is above. *)
LEMMA ConcatUnder ==
    ASSUME NEW p \in Path, NEW r \in Path, NEW s \in Path
    PROVE  Under(p \o r, p \o s) <=> Under(r, s)
<1>1. Len(p \o r) = Len(p) + Len(r) /\ Len(p \o s) = Len(p) + Len(s) /\ Len(p) \in Nat /\ Len(r) \in Nat /\ Len(s) \in Nat
  BY PathConcat DEF Path
<1>2. ASSUME Under(r, s) PROVE Under(p \o r, p \o s)
  BY SMTT(30), <1>1, <1>2 DEF Under, Path
<1>3. ASSUME Under(p \o r, p \o s) PROVE Under(r, s)
  <2>1. Len(r) <= Len(s)
    BY <1>1, <1>3 DEF Under
  <2>2. ASSUME NEW i \in 1 .. Len(r) PROVE s[i] = r[i]
    <3>1. i + Len(p) \in 1 .. Len(p \o r)
      BY <1>1
    <3>2. (p \o s)[i + Len(p)] = (p \o r)[i + Len(p)]
      BY <3>1, <1>3 DEF Under
    <3>3. (p \o s)[i + Len(p)] = s[i] /\ (p \o r)[i + Len(p)] = r[i]
      BY <1>1, <2>1 DEF Path
    <3> QED BY <3>2, <3>3
  <2> QED BY <2>1, <2>2 DEF Under
<1> QED BY <1>2, <1>3

(***************************************************************************)
(* Rectangles and the lines between them.                                  *)
(***************************************************************************)
(* Induction along a path, from p down to the nodes under it. *)
LEMMA PathDown ==
    ASSUME NEW p \in Path, NEW T, p \in T,
           \A r \in Path : Under(p, r) /\ r # p /\ Parent(r) \in T => r \in T
    PROVE  \A q \in Path : Under(p, q) => q \in T
<1> DEFINE U == {q \in Path : Under(p, q) /\ q \notin T}
           L == {Len(q) : q \in U}
<1> SUFFICES ASSUME U # {} PROVE FALSE
  OBVIOUS
<1>1. L # {} /\ L \subseteq Nat
  <2>1. \A q \in U : Len(q) \in Nat
    BY DEF Path
  <2> QED BY <2>1
<1>2. PICK k \in L : \A i \in L : k <= i
  <2> HIDE DEF L
  <2> QED BY <1>1, LeastNat
<1>3. PICK q \in U : Len(q) = k
  BY <1>2
<1>4. q # p /\ q # <<>> /\ Under(p, Parent(q)) /\ Parent(q) \in Path
  BY <1>3, UnderParent, PathParent
<1>5. Len(Parent(q)) = Len(q) - 1 /\ Len(q) \in Nat
  BY <1>3, <1>4, PathParent
<1>6. Parent(q) \notin U
  <2>1. ~(k <= Len(Parent(q)))
    BY <1>3, <1>5
  <2> QED BY <1>2, <2>1
<1>7. Parent(q) \in T
  BY <1>4, <1>6
<1> QED BY <1>3, <1>4, <1>7

(* Induction along a path, from q up to the nodes above it. *)
LEMMA PathUp ==
    ASSUME NEW q \in Path, NEW T, q \in T,
           \A r \in Path : Under(r, q) /\ r # <<>> /\ r \in T => Parent(r) \in T
    PROVE  \A p \in Path : Under(p, q) => p \in T
<1> DEFINE U == {p \in Path : Under(p, q) /\ p \notin T}
           L == {Len(q) - Len(p) : p \in U}
<1> SUFFICES ASSUME U # {} PROVE FALSE
  OBVIOUS
<1>1. L # {} /\ L \subseteq Nat
  <2>1. \A p \in U : Len(p) <= Len(q) /\ Len(p) \in Nat /\ Len(q) \in Nat
    BY UnderOrder DEF Path
  <2> QED BY <2>1
<1>2. PICK k \in L : \A i \in L : k <= i
  <2> HIDE DEF L
  <2> QED BY <1>1, LeastNat
<1>3. PICK p \in U : Len(q) - Len(p) = k
  BY <1>2
<1>4. PICK c \in Child : Under(Append(p, c), q)
  BY <1>3, UnderChild
<1>5. /\ Append(p, c) \in Path /\ Append(p, c) # <<>> /\ Parent(Append(p, c)) = p
      /\ Len(Append(p, c)) = Len(p) + 1 /\ Len(p) \in Nat /\ Len(q) \in Nat
  BY <1>3, PathChild DEF Path
<1>6. Append(p, c) \notin U
  <2>1. ~(k <= Len(q) - Len(Append(p, c)))
    BY <1>3, <1>5
  <2> QED BY <1>2, <2>1
<1>7. Append(p, c) \in T
  BY <1>4, <1>5, <1>6
<1> QED BY <1>3, <1>4, <1>5, <1>7

(* The nodes of a tree.                                                    *)
LEMMA TreePath ==
    ASSUME NEW n, Tree(n), NEW q \in DOMAIN n
    PROVE  /\ q \in Path /\ n[q] \in Node
           /\ ~IsView(n[q]) => \A c \in Child : Append(q, c) \in DOMAIN n
           /\ q # <<>> => Parent(q) \in DOMAIN n /\ ~IsView(n[Parent(q)])
BY DEF Tree, Leaves

(* Every prefix of a node's path is a node, and a container unless it is   *)
(* the node itself.                                                        *)
LEMMA TreeUp ==
    ASSUME NEW n, Tree(n), NEW q \in DOMAIN n, NEW p \in Path, Under(p, q)
    PROVE  p \in DOMAIN n /\ (p # q => ~IsView(n[p]))
<1>1. q \in Path
  BY TreePath
<1> DEFINE T == {r \in DOMAIN n : r # q => ~IsView(n[r])}
<1>2. q \in T
  OBVIOUS
<1>3. ASSUME NEW r \in Path, Under(r, q), r # <<>>, r \in T PROVE Parent(r) \in T
  BY <1>3, TreePath
<1> HIDE DEF T
<1>4. p \in T
  BY <1>1, <1>2, <1>3, PathUp
<1> QED BY <1>4 DEF T

(* There is nothing under a view. *)
LEMMA LeafEnds ==
    ASSUME NEW n, Tree(n), NEW p \in Leaves(n), NEW q \in DOMAIN n, Under(p, q)
    PROVE  q = p
<1>1. p \in DOMAIN n /\ p \in Path /\ IsView(n[p])
  BY TreePath DEF Leaves
<1> QED BY <1>1, TreeUp

(* The rectangles along one axis: a node takes the cells from its Low up   *)
(* to and without its High.                                                *)
Axis == {"y", "x"}
Low(node, a)   == IF a = "y" THEN node.y ELSE node.x
Extent(node, a) == IF a = "y" THEN node.h ELSE node.w
High(node, a)  == Low(node, a) + Extent(node, a)
Along(node)    == IF node.t = "HORIZONTAL" THEN "x" ELSE "y"
LineAt(node)   == Low(node, Along(node)) + Extent(node, Along(node)) \div 2

(* The children of p take its rectangle, but for the line between them.    *)
Shared(n, p) ==
    /\ Extent(n[p], Along(n[p])) > 2
    /\ \A a \in Axis \ {Along(n[p])}, c \in Child :
          Low(n[Append(p, c)], a) = Low(n[p], a) /\ High(n[Append(p, c)], a) = High(n[p], a)
    /\ LET a == Along(n[p])
       IN  /\ Low(n[Append(p, "c1")], a) = Low(n[p], a)
           /\ High(n[Append(p, "c1")], a) = LineAt(n[p])
           /\ Low(n[Append(p, "c2")], a) = LineAt(n[p]) + 1
           /\ High(n[Append(p, "c2")], a) = High(n[p], a)

(* All nodes above q share out their rectangles. *)
SharedDownTo(n, q) == \A p \in DOMAIN n : Under(p, q) /\ p # q => Shared(n, p)

(* The edges of a node along each axis. *)
LEMMA NodeAxes ==
    ASSUME NEW node \in Node
    PROVE  /\ Along(node) \in Axis
           /\ \A a \in Axis : /\ Low(node, a) \in Nat /\ Extent(node, a) \in Nat \ {0}
                              /\ High(node, a) \in Nat /\ Low(node, a) < High(node, a)
                              /\ High(node, a) = Low(node, a) + Extent(node, a)
           /\ LineAt(node) \in Nat
<1>1. \A a \in Axis : Low(node, a) \in Nat /\ Extent(node, a) \in Nat \ {0}
  BY DEF Node, Axis, Low, Extent
<1>2. Along(node) \in Axis
  BY DEF Along, Axis
<1>3. \A e \in Nat : e \div 2 \in Nat
  OBVIOUS
<1>4. LineAt(node) \in Nat
  <2>1. Low(node, Along(node)) \in Nat /\ Extent(node, Along(node)) \div 2 \in Nat
    BY <1>1, <1>2, <1>3
  <2> QED BY <2>1 DEF LineAt
<1> HIDE DEF Low, Extent
<1>5. \A a \in Axis : /\ High(node, a) \in Nat /\ Low(node, a) < High(node, a)
                      /\ High(node, a) = Low(node, a) + Extent(node, a)
  BY <1>1 DEF High
<1> QED BY <1>1, <1>2, <1>4, <1>5

(* The line of a container whose children share it out has a cell of the   *)
(* container before it and another after it.                               *)
LEMMA LineInside ==
    ASSUME NEW n, Tree(n), NEW p \in DOMAIN n, ~IsView(n[p]), Shared(n, p)
    PROVE  LET a == Along(n[p])
           IN  /\ Low(n[p], a) + 1 <= LineAt(n[p])
               /\ LineAt(n[p]) + 2 <= High(n[p], a)
<1> DEFINE a == Along(n[p])
           e == Extent(n[p], a)
<1>1. n[p] \in Node /\ a \in Axis
  BY TreePath, NodeAxes
<1>2. /\ Low(n[p], a) \in Nat /\ e \in Nat /\ e > 2 /\ LineAt(n[p]) = Low(n[p], a) + e \div 2
      /\ High(n[p], a) = Low(n[p], a) + e
  BY <1>1, NodeAxes DEF Shared, LineAt
<1>3. LineAt(n[p]) + 1 < High(n[p], a)
  <2>1. \A k \in Nat : k > 2 => k \div 2 + 1 < k /\ k \div 2 >= 1 /\ k \div 2 \in Nat
    OBVIOUS
  <2> HIDE DEF a, e
  <2> QED BY <1>2, <2>1
<1>4. Low(n[p], a) + 1 <= LineAt(n[p])
  <2>1. \A k \in Nat : k > 2 => k \div 2 >= 1 /\ k \div 2 \in Nat
    OBVIOUS
  <2> HIDE DEF a, e
  <2> QED BY <1>2, <2>1
<1>5. LineAt(n[p]) \in Nat /\ High(n[p], a) \in Nat
  BY <1>1, NodeAxes
<1> HIDE DEF a, e
<1>6. LineAt(n[p]) + 2 <= High(n[p], a)
  BY <1>3, <1>5
<1> QED BY <1>4, <1>6 DEF a

(* A child takes a part of its parent's rectangle. *)
LEMMA ChildInside ==
    ASSUME NEW n, Tree(n), NEW r \in DOMAIN n, r # <<>>, Shared(n, Parent(r)), NEW a \in Axis
    PROVE  /\ Low(n[Parent(r)], a) <= Low(n[r], a)
           /\ High(n[r], a) <= High(n[Parent(r)], a)
           /\ a # Along(n[Parent(r)]) => /\ Low(n[Parent(r)], a) = Low(n[r], a)
                                         /\ High(n[r], a) = High(n[Parent(r)], a)
           /\ Last(r) = "c1" => Low(n[Parent(r)], a) = Low(n[r], a)
           /\ Last(r) = "c2" => High(n[r], a) = High(n[Parent(r)], a)
           /\ a = Along(n[Parent(r)]) =>
                 /\ Last(r) = "c1" => High(n[r], a) = LineAt(n[Parent(r)])
                 /\ Last(r) = "c2" => Low(n[r], a) = LineAt(n[Parent(r)]) + 1
<1> DEFINE p == Parent(r)
<1>1. /\ r \in Path /\ p \in DOMAIN n /\ ~IsView(n[p]) /\ Last(r) \in Child
      /\ r = Append(p, Last(r))
  BY TreePath, PathParent
<1>2. /\ n[p] \in Node /\ n[r] \in Node
      /\ Low(n[p], a) \in Nat /\ High(n[p], a) \in Nat /\ LineAt(n[p]) \in Nat
      /\ Low(n[r], a) \in Nat /\ High(n[r], a) \in Nat
  BY <1>1, TreePath, NodeAxes
<1>3. Low(n[p], Along(n[p])) + 1 <= LineAt(n[p]) /\ LineAt(n[p]) + 2 <= High(n[p], Along(n[p]))
  BY <1>1, LineInside
<1>4. Last(r) = "c1" \/ Last(r) = "c2"
  BY <1>1 DEF Child
<1> HIDE DEF p
<1>5. CASE a # Along(n[p])
  <2>1. Low(n[p], a) = Low(n[r], a) /\ High(n[r], a) = High(n[p], a)
    BY <1>1, <1>5 DEF Shared, p
  <2> QED BY <1>2, <1>5, <2>1 DEF p
<1>6. CASE a = Along(n[p]) /\ Last(r) = "c1"
  <2>1. Low(n[p], a) = Low(n[r], a) /\ High(n[r], a) = LineAt(n[p])
    BY <1>1, <1>6 DEF Shared, p
  <2> QED BY <1>2, <1>3, <1>6, <2>1 DEF p
<1>7. CASE a = Along(n[p]) /\ Last(r) = "c2"
  <2>1. Low(n[r], a) = LineAt(n[p]) + 1 /\ High(n[r], a) = High(n[p], a)
    BY <1>1, <1>7 DEF Shared, p
  <2> QED BY <1>2, <1>3, <1>7, <2>1 DEF p
<1> QED BY <1>4, <1>5, <1>6, <1>7

(* A node lies inside each of the nodes above it, along both axes. *)
LEMMA Inside ==
    ASSUME NEW n, Tree(n), NEW q \in DOMAIN n, SharedDownTo(n, q), NEW p \in Path, Under(p, q),
           NEW a \in Axis
    PROVE  p \in DOMAIN n /\ Low(n[p], a) <= Low(n[q], a) /\ High(n[q], a) <= High(n[p], a)
<1> DEFINE T == {r \in DOMAIN n : Low(n[r], a) <= Low(n[q], a) /\ High(n[q], a) <= High(n[r], a)}
<1>1. \A r \in DOMAIN n : Low(n[r], a) \in Nat /\ High(n[r], a) \in Nat
  BY TreePath, NodeAxes
<1>2. q \in Path /\ q \in T
  BY <1>1, TreePath
<1>3. ASSUME NEW r \in Path, Under(r, q), r # <<>>, r \in T PROVE Parent(r) \in T
  <2>1. Parent(r) \in DOMAIN n /\ Parent(r) \in Path
    BY <1>3, TreePath
  <2>2. Under(Parent(r), q) /\ Parent(r) # q
    <3>1. Under(Parent(r), r) /\ Len(Parent(r)) = Len(r) - 1 /\ Len(r) \in Nat /\ Len(q) \in Nat
      BY <1>2, <1>3, UnderParent, PathParent DEF Path
    <3>2. Len(r) <= Len(q)
      BY <1>2, <1>3, UnderOrder
    <3>3. Under(Parent(r), q)
      BY <1>2, <1>3, <2>1, <3>1, UnderOrder
    <3> QED BY <3>1, <3>2, <3>3
  <2>3. Shared(n, Parent(r))
    BY <2>1, <2>2 DEF SharedDownTo
  <2>4. Low(n[Parent(r)], a) <= Low(n[r], a) /\ High(n[r], a) <= High(n[Parent(r)], a)
    BY <1>3, <2>3, ChildInside
  <2> QED BY <1>1, <1>2, <1>3, <2>1, <2>4
<1> HIDE DEF T
<1>4. p \in T
  BY <1>2, <1>3, PathUp
<1> QED BY <1>4 DEF T

(* Every node above q, and q itself, is a child of a container that is     *)
(* shared out.                                                             *)
LEMMA RestSharedUp ==
    ASSUME NEW n, Tree(n), NEW q \in DOMAIN n, SharedDownTo(n, q), NEW r \in Path, Under(r, q), r # <<>>
    PROVE  /\ r \in DOMAIN n /\ Parent(r) \in DOMAIN n /\ Parent(r) \in Path /\ Under(Parent(r), q)
           /\ Shared(n, Parent(r))
<1>1. q \in Path
  BY TreePath
<1>2. r \in DOMAIN n /\ Parent(r) \in DOMAIN n /\ Parent(r) \in Path
  <2>1. r \in DOMAIN n
    BY TreeUp
  <2> QED BY <2>1, TreePath
<1>3. Under(Parent(r), r) /\ Len(Parent(r)) = Len(r) - 1 /\ Len(r) \in Nat /\ Len(q) \in Nat
  BY <1>1, UnderParent, PathParent DEF Path
<1>4. Len(r) <= Len(q)
  BY <1>1, UnderOrder
<1>5. Under(Parent(r), q)
  BY <1>1, <1>2, <1>3, UnderOrder
<1>6. Parent(r) # q
  BY <1>3, <1>4
<1> QED BY <1>2, <1>5, <1>6 DEF SharedDownTo

(* A node has its far edge on that of k, which is above it, or on the line *)
(* of a container between the two.                                         *)
LEMMA HighEdge ==
    ASSUME NEW n, Tree(n), NEW q \in DOMAIN n, SharedDownTo(n, q), NEW k \in Path, Under(k, q),
           NEW a \in Axis
    PROVE  \/ High(n[q], a) = High(n[k], a)
           \/ \E b \in DOMAIN n : /\ Under(k, b) /\ b # q /\ Under(b, q) /\ Under(Append(b, "c1"), q)
                                  /\ Along(n[b]) = a /\ High(n[q], a) = LineAt(n[b])
<1> DEFINE Line == \E b \in DOMAIN n : /\ Under(k, b) /\ b # q /\ Under(b, q) /\ Under(Append(b, "c1"), q)
                                       /\ Along(n[b]) = a /\ High(n[q], a) = LineAt(n[b])
           T == {r \in Path : High(n[q], a) = High(n[r], a) \/ Line \/ ~Under(k, r)}
<1> HIDE DEF Line
<1>1. q \in T /\ q \in Path
  BY TreePath
<1>2. ASSUME NEW r \in Path, Under(r, q), r # <<>>, r \in T PROVE Parent(r) \in T
  <2> DEFINE s == Parent(r)
  <2>1. r \in DOMAIN n /\ s \in DOMAIN n /\ s \in Path /\ Under(s, q) /\ Shared(n, s)
    BY <1>2, RestSharedUp
  <2>2. r = Append(s, Last(r)) /\ Last(r) \in Child /\ Under(s, r) /\ s # r
    BY <1>2, PathParent, UnderParent, PathChild
  <2> SUFFICES ASSUME Under(k, s), ~Line PROVE High(n[q], a) = High(n[s], a)
    BY <2>1
  <2>3. Under(k, r)
    BY <2>1, <2>2, UnderOrder
  <2>4. High(n[q], a) = High(n[r], a)
    BY <1>2, <2>3
  <2>5. CASE a # Along(n[s]) \/ Last(r) = "c2"
    <3>1. High(n[r], a) = High(n[s], a)
      BY <1>2, <2>1, <2>5, ChildInside
    <3> QED BY <2>4, <3>1
  <2>6. CASE a = Along(n[s]) /\ Last(r) = "c1"
    <3>1. High(n[r], a) = LineAt(n[s])
      BY <1>2, <2>1, <2>6, ChildInside
    <3>2. s # q
      BY <1>1, <1>2, <2>1, <2>2, UnderOrder
    <3>3. Line
      BY <1>2, <2>1, <2>2, <2>4, <2>6, <3>1, <3>2 DEF Line
    <3> QED BY <3>3
  <2> QED BY <2>2, <2>5, <2>6 DEF Child
<1> HIDE DEF T
<1>3. k \in T
  BY <1>1, <1>2, PathUp
<1>4. Under(k, k)
  BY UnderOrder
<1> QED BY <1>3, <1>4 DEF T, Line

(* The same for its near edge: on that of k, or right after the line of a  *)
(* container between the two.                                              *)
LEMMA LowEdge ==
    ASSUME NEW n, Tree(n), NEW q \in DOMAIN n, SharedDownTo(n, q), NEW k \in Path, Under(k, q),
           NEW a \in Axis
    PROVE  \/ Low(n[q], a) = Low(n[k], a)
           \/ \E b \in DOMAIN n : /\ Under(k, b) /\ b # q /\ Under(b, q) /\ Under(Append(b, "c2"), q)
                                  /\ Along(n[b]) = a /\ Low(n[q], a) = LineAt(n[b]) + 1
<1> DEFINE Line == \E b \in DOMAIN n : /\ Under(k, b) /\ b # q /\ Under(b, q) /\ Under(Append(b, "c2"), q)
                                       /\ Along(n[b]) = a /\ Low(n[q], a) = LineAt(n[b]) + 1
           T == {r \in Path : Low(n[q], a) = Low(n[r], a) \/ Line \/ ~Under(k, r)}
<1> HIDE DEF Line
<1>1. q \in T /\ q \in Path
  BY TreePath
<1>2. ASSUME NEW r \in Path, Under(r, q), r # <<>>, r \in T PROVE Parent(r) \in T
  <2> DEFINE s == Parent(r)
  <2>1. r \in DOMAIN n /\ s \in DOMAIN n /\ s \in Path /\ Under(s, q) /\ Shared(n, s)
    BY <1>2, RestSharedUp
  <2>2. r = Append(s, Last(r)) /\ Last(r) \in Child /\ Under(s, r) /\ s # r
    BY <1>2, PathParent, UnderParent, PathChild
  <2> SUFFICES ASSUME Under(k, s), ~Line PROVE Low(n[q], a) = Low(n[s], a)
    BY <2>1
  <2>3. Under(k, r)
    BY <2>1, <2>2, UnderOrder
  <2>4. Low(n[q], a) = Low(n[r], a)
    BY <1>2, <2>3
  <2>5. CASE a # Along(n[s]) \/ Last(r) = "c1"
    <3>1. Low(n[r], a) = Low(n[s], a)
      BY <1>2, <2>1, <2>5, ChildInside
    <3> QED BY <2>4, <3>1
  <2>6. CASE a = Along(n[s]) /\ Last(r) = "c2"
    <3>1. Low(n[r], a) = LineAt(n[s]) + 1
      BY <1>2, <2>1, <2>6, ChildInside
    <3>2. s # q
      BY <1>1, <1>2, <2>1, <2>2, UnderOrder
    <3>3. Line
      BY <1>2, <2>1, <2>2, <2>4, <2>6, <3>1, <3>2 DEF Line
    <3> QED BY <3>3
  <2> QED BY <2>2, <2>5, <2>6 DEF Child
<1> HIDE DEF T
<1>3. k \in T
  BY <1>1, <1>2, PathUp
<1>4. Under(k, k)
  BY UnderOrder
<1> QED BY <1>3, <1>4 DEF T, Line

(* Cells.  A node encloses also the cells right after its own.             *)
Cell(my, mx) == [a \in Axis |-> IF a = "y" THEN my ELSE mx]
Holds(node, c)    == \A a \in Axis : Low(node, a) <= c[a] /\ c[a] < High(node, a)
Encloses(node, c) == \A a \in Axis : Low(node, a) <= c[a] /\ c[a] <= High(node, a)
OnLine(node, c) == /\ c[Along(node)] = LineAt(node)
                   /\ \A a \in Axis \ {Along(node)} : Low(node, a) <= c[a] /\ c[a] < High(node, a)

(* The two coordinates of a cell. *)
LEMMA CellAxes ==
    ASSUME NEW my \in Int, NEW mx \in Int
    PROVE  Cell(my, mx) \in [Axis -> Int] /\ Cell(my, mx)["y"] = my /\ Cell(my, mx)["x"] = mx
BY DEF Cell, Axis

(* A node encloses the cells it holds, and the line after them. *)
LEMMA HoldsEncloses ==
    ASSUME NEW node \in Node, NEW c \in [Axis -> Int], Holds(node, c)
    PROVE  Encloses(node, c)
<1>1. \A a \in Axis : Low(node, a) \in Nat /\ High(node, a) \in Nat /\ c[a] \in Int
  BY NodeAxes
<1> QED BY <1>1 DEF Holds, Encloses

(* What a node holds or encloses, every node above it does. *)
LEMMA HeldAbove ==
    ASSUME NEW n, Tree(n), NEW q \in DOMAIN n, SharedDownTo(n, q), NEW p \in Path, Under(p, q),
           NEW c \in [Axis -> Int]
    PROVE  (Holds(n[q], c) => Holds(n[p], c)) /\ (Encloses(n[q], c) => Encloses(n[p], c))
<1>1. \A a \in Axis : /\ c[a] \in Int /\ Low(n[q], a) \in Nat /\ High(n[q], a) \in Nat
                      /\ Low(n[p], a) \in Nat /\ High(n[p], a) \in Nat
                      /\ Low(n[p], a) <= Low(n[q], a) /\ High(n[q], a) <= High(n[p], a)
  <2> TAKE a \in Axis
  <2>1. p \in DOMAIN n /\ Low(n[p], a) <= Low(n[q], a) /\ High(n[q], a) <= High(n[p], a)
    BY Inside
  <2>2. n[p] \in Node /\ n[q] \in Node
    BY <2>1, TreePath
  <2> QED BY <2>1, <2>2, NodeAxes
<1>2. ASSUME Holds(n[q], c) PROVE Holds(n[p], c)
  BY <1>1, <1>2 DEF Holds
<1>3. ASSUME Encloses(n[q], c) PROVE Encloses(n[p], c)
  BY <1>1, <1>3 DEF Encloses
<1> QED BY <1>2, <1>3

(* The sides of a container's line.                                        *)
LEMMA Sides ==
    ASSUME NEW n, Tree(n), NEW q \in DOMAIN n, SharedDownTo(n, q), NEW d \in Path, NEW b \in Child,
           Under(Append(d, b), q)
    PROVE  /\ d \in DOMAIN n /\ n[d] \in Node /\ ~IsView(n[d]) /\ Shared(n, d)
           /\ b = "c1" => High(n[q], Along(n[d])) <= LineAt(n[d])
           /\ b = "c2" => LineAt(n[d]) + 1 <= Low(n[q], Along(n[d]))
<1> DEFINE r == Append(d, b)
           a == Along(n[d])
<1>1. r \in Path /\ r # <<>> /\ Parent(r) = d /\ Last(r) = b
  BY PathChild
<1>2. r \in DOMAIN n /\ d \in DOMAIN n /\ Shared(n, d)
  BY <1>1, RestSharedUp
<1>3. n[d] \in Node /\ ~IsView(n[d]) /\ a \in Axis
  <2>1. n[d] \in Node /\ ~IsView(n[d])
    BY <1>1, <1>2, TreePath
  <2> QED BY <2>1, NodeAxes
<1>4. Low(n[r], a) <= Low(n[q], a) /\ High(n[q], a) <= High(n[r], a)
  BY <1>1, <1>3, Inside
<1>5. /\ b = "c1" => High(n[r], a) = LineAt(n[d])
      /\ b = "c2" => Low(n[r], a) = LineAt(n[d]) + 1
  BY <1>1, <1>2, <1>3, ChildInside
<1> QED BY <1>2, <1>3, <1>4, <1>5

(* No cell is enclosed by two nodes neither of which is under the other:   *)
(* they lie on different sides of a line.                                  *)
LEMMA NotBothEnclose ==
    ASSUME NEW n, Tree(n), NEW p \in DOMAIN n, NEW q \in DOMAIN n,
           SharedDownTo(n, p), SharedDownTo(n, q),
           NEW c \in [Axis -> Int], Encloses(n[p], c), Encloses(n[q], c)
    PROVE  Under(p, q) \/ Under(q, p)
<1>1. p \in Path /\ q \in Path
  BY TreePath
<1>2. SUFFICES ASSUME ~Under(p, q), ~Under(q, p) PROVE FALSE
  OBVIOUS
<1>3. PICK d \in Path, e \in Child, f \in Child :
          e # f /\ Under(Append(d, e), p) /\ Under(Append(d, f), q)
  BY <1>1, <1>2, UnderDiverge
<1> DEFINE a == Along(n[d])
<1>4. /\ n[d] \in Node
      /\ e = "c1" => High(n[p], a) <= LineAt(n[d])
      /\ e = "c2" => LineAt(n[d]) + 1 <= Low(n[p], a)
  BY <1>3, Sides
<1>5. /\ f = "c1" => High(n[q], a) <= LineAt(n[d])
      /\ f = "c2" => LineAt(n[d]) + 1 <= Low(n[q], a)
  BY <1>3, Sides
<1>6. a \in Axis /\ LineAt(n[d]) \in Nat
  BY <1>4, NodeAxes
<1>7. n[p] \in Node /\ n[q] \in Node
  BY TreePath
<1>8. Low(n[p], a) \in Nat /\ High(n[p], a) \in Nat /\ Low(n[q], a) \in Nat /\ High(n[q], a) \in Nat /\ c[a] \in Int
  BY <1>6, <1>7, NodeAxes
<1>9. Low(n[p], a) <= c[a] /\ c[a] <= High(n[p], a) /\ Low(n[q], a) <= c[a] /\ c[a] <= High(n[q], a)
  BY <1>6 DEF Encloses
<1> HIDE DEF a
<1> QED BY <1>3, <1>4, <1>5, <1>6, <1>8, <1>9 DEF Child

(* No node under a container holds a cell of its line. *)
LEMMA LineApart ==
    ASSUME NEW n, Tree(n), NEW p \in DOMAIN n, NEW q \in DOMAIN n, SharedDownTo(n, q),
           Under(p, q), p # q, NEW c \in [Axis -> Int], OnLine(n[p], c)
    PROVE  ~Holds(n[q], c)
<1>1. p \in Path /\ q \in Path /\ n[q] \in Node
  BY TreePath
<1>2. PICK b \in Child : Under(Append(p, b), q)
  BY <1>1, UnderChild
<1> DEFINE a == Along(n[p])
<1>3. /\ n[p] \in Node
      /\ b = "c1" => High(n[q], a) <= LineAt(n[p])
      /\ b = "c2" => LineAt(n[p]) + 1 <= Low(n[q], a)
  BY <1>1, <1>2, Sides
<1>4. a \in Axis /\ LineAt(n[p]) \in Nat
  BY <1>3, NodeAxes
<1>5. Low(n[q], a) \in Nat /\ High(n[q], a) \in Nat
  BY <1>1, <1>4, NodeAxes
<1>6. c[a] = LineAt(n[p])
  BY DEF OnLine
<1>7. Holds(n[q], c) => Low(n[q], a) <= LineAt(n[p]) /\ LineAt(n[p]) < High(n[q], a)
  BY <1>4, <1>6 DEF Holds
<1> HIDE DEF a
<1> QED BY <1>3, <1>4, <1>5, <1>7 DEF Child

(* A container holds the cells of its line. *)
LEMMA LineHeld ==
    ASSUME NEW n, Tree(n), NEW p \in DOMAIN n, ~IsView(n[p]), Shared(n, p),
           NEW c \in [Axis -> Int], OnLine(n[p], c)
    PROVE  Holds(n[p], c)
<1> DEFINE e == Along(n[p])
<1>1. n[p] \in Node
  BY TreePath
<1>2. e \in Axis /\ LineAt(n[p]) \in Nat /\ \A a \in Axis : Low(n[p], a) \in Nat /\ High(n[p], a) \in Nat
  BY <1>1, NodeAxes
<1>3. Low(n[p], e) + 1 <= LineAt(n[p]) /\ LineAt(n[p]) + 2 <= High(n[p], e)
  BY LineInside
<1>4. c[e] = LineAt(n[p]) /\ \A a \in Axis \ {e} : Low(n[p], a) <= c[a] /\ c[a] < High(n[p], a)
  BY DEF OnLine
<1> HIDE DEF e
<1>5. Low(n[p], e) <= c[e] /\ c[e] < High(n[p], e)
  BY <1>2, <1>3, <1>4
<1> QED BY <1>4, <1>5 DEF Holds

(* No path of the tree is longer than some number, and every container's   *)
(* children share it out.                                                  *)
Bounded(n) == \E d \in Nat : \A p \in DOMAIN n : Len(p) <= d
AllShared(n) == \A p \in DOMAIN n : ~IsView(n[p]) => Shared(n, p)

(* Among some nodes of a tree one is deepest. *)
LEMMA Deepest ==
    ASSUME NEW n, Tree(n), Bounded(n), NEW S, S \subseteq DOMAIN n, S # {}
    PROVE  \E p \in S : \A q \in S : Len(q) <= Len(p)
<1>1. PICK d \in Nat : \A p \in DOMAIN n : Len(p) <= d
  BY DEF Bounded
<1> DEFINE L == {d - Len(p) : p \in S}
<1>2. \A p \in S : Len(p) \in Nat /\ Len(p) <= d
  BY <1>1, TreePath DEF Path
<1>3. L # {} /\ L \subseteq Nat
  BY <1>2
<1>4. PICK k \in L : \A i \in L : k <= i
  <2> HIDE DEF L
  <2> QED BY <1>3, LeastNat
<1>5. PICK p \in S : k = d - Len(p)
  BY <1>4
<1>6. \A q \in S : d - Len(p) <= d - Len(q)
  BY <1>4, <1>5
<1> QED BY <1>2, <1>6

(* When all containers are shared out, those above a node are. *)
LEMMA AllSharedDown ==
    ASSUME NEW n, Tree(n), AllShared(n), NEW q \in DOMAIN n
    PROVE  SharedDownTo(n, q)
<1> SUFFICES ASSUME NEW p \in DOMAIN n, Under(p, q), p # q PROVE Shared(n, p)
  BY DEF SharedDownTo
<1>1. p \in Path
  BY TreePath
<1>2. ~IsView(n[p])
  BY <1>1, TreeUp
<1> QED BY <1>2 DEF AllShared

(* The rectangles of the children, with the line between them.             *)
LEMMA ChildCells ==
    ASSUME NEW n, Tree(n), NEW p \in DOMAIN n, ~IsView(n[p]), Shared(n, p), NEW c \in [Axis -> Int]
    PROVE  /\ Encloses(n[p], c) => \E k \in Child : Encloses(n[Append(p, k)], c)
           /\ Holds(n[p], c) => OnLine(n[p], c) \/ \E k \in Child : Holds(n[Append(p, k)], c)
<1> DEFINE e == Along(n[p])
           n1 == n[Append(p, "c1")]
           n2 == n[Append(p, "c2")]
<1>1. "c1" \in Child /\ "c2" \in Child
  BY DEF Child
<1>2. e \in Axis /\ LineAt(n[p]) \in Nat /\ \A a \in Axis : Low(n[p], a) \in Nat /\ High(n[p], a) \in Nat /\ c[a] \in Int
  BY TreePath, NodeAxes
<1>3. /\ Low(n1, e) = Low(n[p], e) /\ High(n1, e) = LineAt(n[p])
      /\ Low(n2, e) = LineAt(n[p]) + 1 /\ High(n2, e) = High(n[p], e)
  BY DEF Shared
<1>4. \A a \in Axis \ {e} : /\ Low(n1, a) = Low(n[p], a) /\ High(n1, a) = High(n[p], a)
                            /\ Low(n2, a) = Low(n[p], a) /\ High(n2, a) = High(n[p], a)
  BY <1>1 DEF Shared
<1> HIDE DEF e, n1, n2
<1>5. ASSUME Encloses(n[p], c) PROVE Encloses(n1, c) \/ Encloses(n2, c)
  <2>1. CASE c[e] <= LineAt(n[p])
    <3>1. Low(n1, e) <= c[e] /\ c[e] <= High(n1, e)
      BY <1>2, <1>3, <1>5, <2>1 DEF Encloses
    <3>2. \A a \in Axis \ {e} : Low(n1, a) <= c[a] /\ c[a] <= High(n1, a)
      BY <1>4, <1>5 DEF Encloses
    <3> QED BY <3>1, <3>2 DEF Encloses
  <2>2. CASE c[e] > LineAt(n[p])
    <3>1. Low(n2, e) <= c[e] /\ c[e] <= High(n2, e)
      BY <1>2, <1>3, <1>5, <2>2 DEF Encloses
    <3>2. \A a \in Axis \ {e} : Low(n2, a) <= c[a] /\ c[a] <= High(n2, a)
      BY <1>4, <1>5 DEF Encloses
    <3> QED BY <3>1, <3>2 DEF Encloses
  <2> QED BY <1>2, <2>1, <2>2
<1>6. ASSUME Holds(n[p], c) PROVE OnLine(n[p], c) \/ Holds(n1, c) \/ Holds(n2, c)
  <2>1. CASE c[e] = LineAt(n[p])
    BY <1>6, <2>1 DEF Holds, OnLine, e
  <2>2. CASE c[e] < LineAt(n[p])
    <3>1. Low(n1, e) <= c[e] /\ c[e] < High(n1, e)
      BY <1>2, <1>3, <1>6, <2>2 DEF Holds
    <3>2. \A a \in Axis \ {e} : Low(n1, a) <= c[a] /\ c[a] < High(n1, a)
      BY <1>4, <1>6 DEF Holds
    <3> QED BY <3>1, <3>2 DEF Holds
  <2>3. CASE c[e] > LineAt(n[p])
    <3>1. Low(n2, e) <= c[e] /\ c[e] < High(n2, e)
      BY <1>2, <1>3, <1>6, <2>3 DEF Holds
    <3>2. \A a \in Axis \ {e} : Low(n2, a) <= c[a] /\ c[a] < High(n2, a)
      BY <1>4, <1>6 DEF Holds
    <3> QED BY <3>1, <3>2 DEF Holds
  <2> QED BY <1>2, <2>1, <2>2, <2>3
<1> QED BY <1>1, <1>5, <1>6 DEF n1, n2

(* What is drawn for a node, and what findnode tests, in cells.            *)
LEMMA DrawnCells ==
    ASSUME NEW node \in Node, NEW my \in Int, NEW mx \in Int
    PROVE  /\ Shows(node, my, mx) <=> Holds(node, Cell(my, mx))
           /\ IsView(node) => (Shows(Drawn(node), my, mx) <=> Holds(node, Cell(my, mx)))
           /\ ~IsView(node) => (Shows(Drawn(node), my, mx) <=> OnLine(node, Cell(my, mx)))
           /\ IN_(node, my, mx) <=> Encloses(node, Cell(my, mx))
<1>1. /\ node.y \in Nat /\ node.x \in Nat /\ node.h \in Nat \ {0} /\ node.w \in Nat \ {0}
      /\ node.t \in {"VIEW", "HORIZONTAL", "VERTICAL"}
  BY DEF Node
<1>2. Shows(node, my, mx) <=> Holds(node, Cell(my, mx))
  BY <1>1 DEF Shows, Holds, Cell, Axis, Low, High, Extent
<1>3. IN_(node, my, mx) <=> Encloses(node, Cell(my, mx))
  BY <1>1 DEF IN_, Encloses, Cell, Axis, Low, High, Extent
<1>4. Shows(Rect(node), my, mx) <=> Shows(node, my, mx)
  BY DEF Shows, Rect
<1>5. ASSUME ~IsView(node) PROVE Shows(Separator(node), my, mx) <=> OnLine(node, Cell(my, mx))
  <2>1. node.h \div 2 \in Nat /\ node.w \div 2 \in Nat
    BY <1>1
  <2>2. CASE node.t = "HORIZONTAL"
    <3>1. Separator(node) = [y |-> node.y, x |-> node.x + node.w \div 2, h |-> node.h, w |-> 1]
      BY <2>2 DEF Separator, Rect
    <3>2. Shows(Separator(node), my, mx) <=> my \in node.y .. node.y + node.h - 1 /\ mx = node.x + node.w \div 2
      BY <1>1, <2>1, <3>1 DEF Shows
    <3>3. OnLine(node, Cell(my, mx)) <=> mx = node.x + node.w \div 2 /\ node.y <= my /\ my < node.y + node.h
      BY <2>2 DEF OnLine, Cell, Axis, Along, LineAt, Low, High, Extent
    <3> QED BY <1>1, <3>2, <3>3
  <2>3. CASE node.t # "HORIZONTAL"
    <3>1. Separator(node) = [y |-> node.y + node.h \div 2, x |-> node.x, h |-> 1, w |-> node.w]
      BY <2>3 DEF Separator, Rect
    <3>2. Shows(Separator(node), my, mx) <=> mx \in node.x .. node.x + node.w - 1 /\ my = node.y + node.h \div 2
      BY <1>1, <2>1, <3>1 DEF Shows
    <3>3. OnLine(node, Cell(my, mx)) <=> my = node.y + node.h \div 2 /\ node.x <= mx /\ mx < node.x + node.w
      BY <2>3 DEF OnLine, Cell, Axis, Along, LineAt, Low, High, Extent
    <3> QED BY <1>1, <3>2, <3>3
  <2> QED BY <2>2, <2>3
<1> QED BY <1>2, <1>3, <1>4, <1>5 DEF Drawn

(* The screen above the status line. *)
RootRect == [y |-> 0, x |-> 0, h |-> LINES - 1, w |-> COLS]
ScreenSize == LINES \in Nat /\ COLS \in Nat /\ LINES > 1 /\ COLS > 0

(* The edges of a root that has the screen above the status line. *)
LEMMA RootAxes ==
    ASSUME NEW node \in Node, Rect(node) = RootRect, ScreenSize
    PROVE  /\ node.y = 0 /\ node.x = 0 /\ node.h = LINES - 1 /\ node.w = COLS
           /\ Low(node, "y") = 0 /\ High(node, "y") = LINES - 1
           /\ Low(node, "x") = 0 /\ High(node, "x") = COLS
<1>1. node.y = 0 /\ node.x = 0 /\ node.h = LINES - 1 /\ node.w = COLS
  BY DEF Rect, RootRect
<1> QED BY <1>1 DEF Low, High, Extent, ScreenSize

(* When the root has the screen above the status line and every container  *)
(* is shared out, views and lines tile the screen.                         *)
LEMMA TilesScreen ==
    ASSUME NEW n, Tree(n), Bounded(n), AllShared(n), Rect(n[<<>>]) = RootRect, ScreenSize
    PROVE  Tiled(n)
<1>0. <<>> \in DOMAIN n /\ <<>> \in Path /\ n[<<>>] \in Node
  <2>1. <<>> \in DOMAIN n
    BY DEF Tree
  <2> QED BY <2>1, TreePath
<1>1. \A p \in DOMAIN n : n[p] \in Node /\ p \in Path /\ SharedDownTo(n, p) /\ Under(<<>>, p)
  BY TreePath, AllSharedDown, UnderOrder
<1>2. ASSUME NEW p \in DOMAIN n
      PROVE  LET r == Drawn(n[p])
             IN  r.y >= 0 /\ r.y + r.h <= LINES - 1 /\ r.x >= 0 /\ r.x + r.w <= COLS
  <2>1. /\ Low(n[p], "y") >= 0 /\ High(n[p], "y") <= LINES - 1
        /\ Low(n[p], "x") >= 0 /\ High(n[p], "x") <= COLS
    <3>1. "y" \in Axis /\ "x" \in Axis
      BY DEF Axis
    <3>2. \A a \in Axis : Low(n[<<>>], a) <= Low(n[p], a) /\ High(n[p], a) <= High(n[<<>>], a)
      BY <1>0, <1>1, Inside
    <3>3. \A a \in Axis : Low(n[p], a) \in Nat
      BY <1>1, NodeAxes
    <3> QED BY <1>0, <3>1, <3>2, <3>3, RootAxes
  <2>2. n[p].y \in Nat /\ n[p].x \in Nat /\ n[p].h \in Nat /\ n[p].w \in Nat
    BY <1>1 DEF Node
  <2>3. CASE IsView(n[p])
    BY <2>1, <2>2, <2>3 DEF Drawn, Rect, Low, High, Extent
  <2>4. CASE ~IsView(n[p])
    <3>1. /\ Low(n[p], Along(n[p])) + 1 <= LineAt(n[p])
          /\ LineAt(n[p]) + 2 <= High(n[p], Along(n[p]))
      BY <2>4, LineInside DEF AllShared
    <3>2. n[p].h \div 2 \in Nat /\ n[p].w \div 2 \in Nat
      BY <2>2
    <3>3. CASE n[p].t = "HORIZONTAL"
      <4>1. Drawn(n[p]) = [y |-> n[p].y, x |-> n[p].x + n[p].w \div 2, h |-> n[p].h, w |-> 1]
        BY <2>4, <3>3 DEF Drawn, Separator, Rect
      <4>2. n[p].x + n[p].w \div 2 + 2 <= n[p].x + n[p].w
        BY <3>1, <3>3 DEF Along, LineAt, Low, High, Extent
      <4>3. n[p].y + n[p].h <= LINES - 1 /\ n[p].x + n[p].w <= COLS
        BY <2>1 DEF Low, High, Extent
      <4> QED BY SMTT(30), <2>2, <3>2, <4>1, <4>2, <4>3 DEF ScreenSize
    <3>4. CASE n[p].t # "HORIZONTAL"
      <4>1. Drawn(n[p]) = [y |-> n[p].y + n[p].h \div 2, x |-> n[p].x, h |-> 1, w |-> n[p].w]
        BY <2>4, <3>4 DEF Drawn, Separator, Rect
      <4>2. n[p].y + n[p].h \div 2 + 2 <= n[p].y + n[p].h
        BY <3>1, <3>4 DEF Along, LineAt, Low, High, Extent
      <4>3. n[p].y + n[p].h <= LINES - 1 /\ n[p].x + n[p].w <= COLS
        BY <2>1 DEF Low, High, Extent
      <4> QED BY <2>2, <3>2, <4>1, <4>2, <4>3 DEF ScreenSize
    <3> QED BY <3>3, <3>4
  <2> QED BY <2>3, <2>4
<1>3. ASSUME NEW my \in 0 .. LINES - 2, NEW mx \in 0 .. COLS - 1
      PROVE  \E p \in DOMAIN n : Shows(Drawn(n[p]), my, mx)
  <2> DEFINE c == Cell(my, mx)
             S == {p \in DOMAIN n : Holds(n[p], c)}
  <2>1. my \in Int /\ mx \in Int /\ 0 <= my /\ my < LINES - 1 /\ 0 <= mx /\ mx < COLS
    BY DEF ScreenSize
  <2>2. c \in [Axis -> Int] /\ c["y"] = my /\ c["x"] = mx
    BY <2>1, CellAxes
  <2> HIDE DEF c
  <2>3. Holds(n[<<>>], c)
    BY <1>0, <2>1, <2>2, RootAxes DEF Holds, Axis
  <2>4. S # {} /\ S \subseteq DOMAIN n
    BY <1>0, <2>3
  <2>5. PICK p \in S : \A q \in S : Len(q) <= Len(p)
    <3> HIDE DEF S
    <3> QED BY <2>4, Deepest
  <2>6. p \in DOMAIN n /\ Holds(n[p], c) /\ p \in Path
    BY <2>5, <1>1
  <2>7. CASE IsView(n[p])
    BY <1>1, <2>1, <2>6, <2>7, DrawnCells DEF c
  <2>8. CASE ~IsView(n[p])
    <3>1. OnLine(n[p], c) \/ \E k \in Child : Holds(n[Append(p, k)], c)
      BY <2>2, <2>6, <2>8, ChildCells DEF AllShared
    <3>2. ASSUME NEW k \in Child, Holds(n[Append(p, k)], c) PROVE FALSE
      <4>1. Append(p, k) \in S
        BY <2>6, <2>8, <3>2, TreePath
      <4>2. Len(Append(p, k)) = Len(p) + 1 /\ Len(p) \in Nat
        BY <2>6, PathChild DEF Path
      <4> HIDE DEF S
      <4>3. Len(Append(p, k)) <= Len(p)
        BY <2>5, <4>1
      <4> QED BY <4>2, <4>3
    <3>3. OnLine(n[p], c)
      BY <3>1, <3>2
    <3> QED BY <1>1, <2>1, <2>6, <2>8, <3>3, DrawnCells DEF c
  <2> QED BY <2>7, <2>8
<1>4. ASSUME NEW my \in 0 .. LINES - 2, NEW mx \in 0 .. COLS - 1, NEW p \in DOMAIN n, NEW q \in DOMAIN n,
             Shows(Drawn(n[p]), my, mx), Shows(Drawn(n[q]), my, mx)
      PROVE  p = q
  <2> DEFINE c == Cell(my, mx)
  <2>1. my \in Int /\ mx \in Int
    BY DEF ScreenSize
  <2>2. c \in [Axis -> Int]
    BY <2>1, CellAxes
  <2>3. \A s \in DOMAIN n : Shows(Drawn(n[s]), my, mx) =>
           IF IsView(n[s]) THEN Holds(n[s], c) ELSE OnLine(n[s], c)
    BY <1>1, <2>1, DrawnCells
  <2> HIDE DEF c
  <2>4. \A s \in DOMAIN n : Shows(Drawn(n[s]), my, mx) => Holds(n[s], c)
    BY <2>2, <2>3, LineHeld DEF AllShared
  <2>5. Holds(n[p], c) /\ Holds(n[q], c)
    BY <1>4, <2>4
  <2>6. Under(p, q) \/ Under(q, p)
    <3>1. Encloses(n[p], c) /\ Encloses(n[q], c)
      BY <1>1, <2>2, <2>5, HoldsEncloses
    <3> QED BY <1>1, <2>2, <3>1, NotBothEnclose
  <2>7. ASSUME NEW s \in DOMAIN n, NEW u \in DOMAIN n, Under(s, u), s # u,
               Shows(Drawn(n[s]), my, mx), Holds(n[u], c)
        PROVE  FALSE
    <3>1. ~IsView(n[s])
      BY <1>1, <2>7, TreeUp
    <3>2. OnLine(n[s], c)
      BY <2>3, <2>7, <3>1
    <3> QED BY <1>1, <2>2, <2>7, <3>2, LineApart
  <2> QED BY <1>4, <2>5, <2>6, <2>7
<1> QED BY <1>2, <1>3, <1>4 DEF Tiled

(***************************************************************************)
(* The views findnode, clicks and labels lead to.                          *)
(***************************************************************************)
(* findnode finds the one view that encloses the cell. *)
LEMMA FindLeaf ==
    ASSUME NEW n, Tree(n), Bounded(n), AllShared(n), NEW y \in Int, NEW x \in Int, IN_(n[<<>>], y, x)
    PROVE  findnode(n, y, x) \in Leaves(n) /\ IN_(n[findnode(n, y, x)], y, x)
<1> DEFINE c == Cell(y, x)
           S == {q \in DOMAIN n : Encloses(n[q], c)}
<1>0. c \in [Axis -> Int]
  BY CellAxes
<1>1. \A p \in DOMAIN n : /\ p \in Path /\ n[p] \in Node /\ SharedDownTo(n, p) /\ Under(<<>>, p)
                          /\ (IN_(n[p], y, x) <=> Encloses(n[p], c))
  BY TreePath, AllSharedDown, UnderOrder, DrawnCells
<1> HIDE DEF c
<1>2. <<>> \in DOMAIN n /\ <<>> \in S
  <2>1. <<>> \in DOMAIN n
    BY DEF Tree
  <2> QED BY <1>1, <2>1
<1>3. Walk(n, y, x) = S
  <2>1. ASSUME NEW q \in Walk(n, y, x) PROVE q \in S
    <3>1. q \in DOMAIN n /\ Under(q, q)
      BY <1>1, UnderOrder DEF Walk
    <3>2. IN_(n[q], y, x)
      BY <3>1 DEF Walk
    <3> QED BY <1>1, <3>1, <3>2
  <2>2. ASSUME NEW q \in S, NEW p \in DOMAIN n, Under(p, q)
        PROVE  IN_(n[p], y, x) /\ ((p # <<>> /\ Last(p) = "c2") => ~IN_(n[Sibling(p)], y, x))
    <3>1. Encloses(n[p], c)
      BY <1>0, <1>1, <2>2, HeldAbove
    <3>2. ASSUME p # <<>>, Last(p) = "c2", IN_(n[Sibling(p)], y, x) PROVE FALSE
      <4> DEFINE s == Sibling(p)
                 d == Parent(p)
      <4>1. d \in DOMAIN n /\ ~IsView(n[d]) /\ d \in Path /\ p = Append(d, "c2")
        BY <1>1, <3>2, TreePath, PathParent
      <4>2. s = Append(d, "c1") /\ "c1" \in Child /\ "c2" \in Child
        BY <3>2 DEF Sibling, Other, Child
      <4>3. s \in DOMAIN n
        BY <4>1, <4>2, TreePath
      <4>4. Encloses(n[s], c)
        BY <1>1, <3>2, <4>3
      <4> HIDE DEF d
      <4>5. Under(s, p) \/ Under(p, s)
        BY <1>0, <1>1, <3>1, <4>3, <4>4, NotBothEnclose
      <4>6. Len(s) = Len(p)
        BY <4>1, <4>2, PathChild
      <4>7. s = p
        BY <1>1, <4>3, <4>5, <4>6, UnderOrder
      <4>8. Last(s) = "c1"
        BY <4>1, <4>2, PathChild
      <4> QED BY <3>2, <4>7, <4>8
    <3> QED BY <1>1, <3>1, <3>2
  <2>3. S \subseteq Walk(n, y, x)
    BY <2>2 DEF Walk
  <2> QED BY <2>1, <2>3
<1>4. PICK p \in S : \A q \in S : Len(q) <= Len(p)
  <2>1. S \subseteq DOMAIN n /\ S # {}
    BY <1>2
  <2> HIDE DEF S
  <2> QED BY <2>1, Deepest
<1>5. p \in DOMAIN n /\ p \in Path /\ Encloses(n[p], c)
  BY <1>1, <1>4
<1>6. IsView(n[p])
  <2> SUFFICES ASSUME ~IsView(n[p]) PROVE FALSE
    OBVIOUS
  <2>1. PICK k \in Child : Encloses(n[Append(p, k)], c)
    BY <1>0, <1>5, ChildCells DEF AllShared
  <2>2. Append(p, k) \in S
    BY <1>5, <2>1, TreePath
  <2>3. Len(Append(p, k)) = Len(p) + 1 /\ Len(p) \in Nat
    BY <1>5, PathChild DEF Path
  <2> HIDE DEF S
  <2>4. Len(Append(p, k)) <= Len(p)
    BY <1>4, <2>2
  <2> QED BY <2>3, <2>4
<1>7. \A q \in S : Under(q, p)
  <2> TAKE q \in S
  <2>1. Under(q, p) \/ Under(p, q)
    BY <1>0, <1>1, <1>5, NotBothEnclose
  <2>2. p \in Leaves(n) /\ Under(p, p)
    BY <1>5, <1>6, UnderOrder DEF Leaves
  <2> QED BY <2>1, <2>2, LeafEnds
<1>8. findnode(n, y, x) = p
  <2> DEFINE f == CHOOSE q \in S : \A o \in S : Under(o, q)
  <2>1. S # {} /\ findnode(n, y, x) = f
    BY <1>2, <1>3 DEF findnode
  <2> HIDE DEF S
  <2>2. f \in S /\ \A o \in S : Under(o, f)
    BY <1>4, <1>7
  <2> HIDE DEF f
  <2>3. f = p
    <3>1. Under(p, f) /\ Under(f, p) /\ f \in Path
      BY <1>1, <1>4, <1>7, <2>2 DEF S
    <3> QED BY <1>5, <3>1, UnderOrder
  <2> QED BY <2>1, <2>3
<1> QED BY <1>1, <1>5, <1>6, <1>8 DEF Leaves

(* findnode finds nothing outside the root. *)
LEMMA FindNothing ==
    ASSUME NEW n, Tree(n), NEW y, NEW x, ~IN_(n[<<>>], y, x)
    PROVE  findnode(n, y, x) = NULL
<1>1. Walk(n, y, x) = {}
  <2> SUFFICES ASSUME NEW q \in Walk(n, y, x) PROVE FALSE
    OBVIOUS
  <2>1. q \in DOMAIN n /\ <<>> \in DOMAIN n
    BY DEF Walk, Tree
  <2>2. Under(<<>>, q)
    BY <2>1, TreePath, UnderOrder
  <2>3. IN_(n[<<>>], y, x)
    BY <2>1, <2>2 DEF Walk
  <2> QED BY <2>3
<1> QED BY <1>1 DEF findnode

(* A click: at most one view has the cell. *)
LEMMA ClickFinds ==
    ASSUME NEW n, Tree(n), AllShared(n), NEW mx \in Int, NEW my \in Int
    PROVE  LET hits == {p \in Leaves(n) : is_coordinate(n[p].y, n[p].x, n[p].h, n[p].w, mx, my)}
           IN  /\ \A p \in hits : coordinate_findnode(n, mx, my) = p
               /\ hits = {} => coordinate_findnode(n, mx, my) = NULL
               /\ \A p \in hits : Shows(n[p], my, mx)
<1> DEFINE c == Cell(my, mx)
           hits == {p \in Leaves(n) : is_coordinate(n[p].y, n[p].x, n[p].h, n[p].w, mx, my)}
<1>0. c \in [Axis -> Int]
  BY CellAxes
<1>1. \A p \in DOMAIN n : /\ p \in Path /\ n[p] \in Node /\ SharedDownTo(n, p)
                          /\ (Shows(n[p], my, mx) <=> Holds(n[p], c))
  BY TreePath, AllSharedDown, DrawnCells
<1>2. \A p \in hits : p \in DOMAIN n /\ Shows(n[p], my, mx)
  <2> TAKE p \in hits
  <2>1. p \in DOMAIN n /\ n[p] \in Node
    BY <1>1 DEF Leaves
  <2>2. n[p].y \in Nat /\ n[p].x \in Nat /\ n[p].h \in Nat /\ n[p].w \in Nat
    BY <2>1 DEF Node
  <2>3. is_coordinate(n[p].y, n[p].x, n[p].h, n[p].w, mx, my)
    OBVIOUS
  <2> QED BY <2>1, <2>2, <2>3 DEF is_coordinate, Shows
<1> HIDE DEF c
<1>3. \A p, q \in hits : p = q
  <2> TAKE p \in hits, q \in hits
  <2>1. Encloses(n[p], c) /\ Encloses(n[q], c)
    BY <1>0, <1>1, <1>2, HoldsEncloses
  <2>2. Under(p, q) \/ Under(q, p)
    BY <1>0, <1>1, <1>2, <2>1, NotBothEnclose
  <2>3. p \in Leaves(n) /\ q \in Leaves(n)
    OBVIOUS
  <2> QED BY <1>2, <2>2, <2>3, LeafEnds
<1>4. ASSUME NEW p \in hits PROVE coordinate_findnode(n, mx, my) = p
  <2> DEFINE f == CHOOSE o \in hits : \A q \in hits \ {o} : Before(o, q)
  <2>1. coordinate_findnode(n, mx, my) = f
    <3>1. hits # {}
      OBVIOUS
    <3> QED BY <3>1 DEF coordinate_findnode
  <2> HIDE DEF hits
  <2>2. \A q \in hits \ {p} : Before(p, q)
    BY <1>3
  <2>3. f \in hits
    BY <2>2
  <2> QED BY <1>3, <2>1, <2>3
<1>5. hits = {} => coordinate_findnode(n, mx, my) = NULL
  BY DEF coordinate_findnode
<1> QED BY <1>2, <1>4, <1>5


(* Across the line that ends f on its far side is a node which encloses the
   cell two cells after f. *)
(* Two cells after the far edge of f, which is not the edge of the screen: *)
(* a node there starts right after the line that f ends at.                *)
LEMMA AfterLine ==
    ASSUME NEW n, Tree(n), AllShared(n), NEW f \in DOMAIN n, NEW a \in Axis,
           NEW c \in [Axis -> Int], High(n[f], a) # High(n[<<>>], a), c[a] = High(n[f], a) + 2,
           \A o \in Axis \ {a} : Low(n[f], o) <= c[o] /\ c[o] < High(n[f], o)
    PROVE  \E k \in DOMAIN n : Low(n[k], a) = High(n[f], a) + 1 /\ Encloses(n[k], c)
<1>1. \A p \in DOMAIN n : /\ p \in Path /\ n[p] \in Node /\ SharedDownTo(n, p) /\ Under(<<>>, p)
                          /\ \A e \in Axis : Low(n[p], e) \in Nat /\ High(n[p], e) \in Nat
                          /\ LineAt(n[p]) \in Nat
  BY TreePath, AllSharedDown, UnderOrder, NodeAxes
<1>2. \A e \in Axis : c[e] \in Int
  OBVIOUS
<1>3. PICK b \in DOMAIN n : /\ b # f /\ Under(b, f) /\ Under(Append(b, "c1"), f)
                            /\ Along(n[b]) = a /\ High(n[f], a) = LineAt(n[b])
  <2>1. <<>> \in Path
    BY DEF Path
  <2> QED BY <1>1, <2>1, HighEdge
<1> DEFINE k == Append(b, "c2")
<1>4. "c1" \in Child /\ "c2" \in Child
  BY DEF Child
<1>5. ~IsView(n[b]) /\ Shared(n, b) /\ k \in DOMAIN n
  <2>1. ~IsView(n[b])
    BY <1>1, <1>3, TreeUp
  <2> QED BY <1>4, <2>1, TreePath DEF AllShared
<1>6. Low(n[k], a) = LineAt(n[b]) + 1
  BY <1>3, <1>5 DEF Shared
<1>7. Encloses(n[k], c)
  <2>1. Low(n[k], a) <= c[a] /\ c[a] <= High(n[k], a)
    <3>1. Low(n[k], a) < High(n[k], a)
      BY <1>1, <1>5, NodeAxes
    <3> HIDE DEF k
    <3> QED BY <1>1, <1>3, <1>5, <1>6, <3>1
  <2>2. ASSUME NEW o \in Axis \ {a} PROVE Low(n[k], o) <= c[o] /\ c[o] <= High(n[k], o)
    <3>1. Low(n[k], o) = Low(n[b], o) /\ High(n[k], o) = High(n[b], o)
      BY <1>3, <1>4, <1>5, <2>2 DEF Shared
    <3>2. Low(n[b], o) <= Low(n[f], o) /\ High(n[f], o) <= High(n[b], o)
      BY <1>1, <1>3, Inside
    <3>3. Low(n[f], o) <= c[o] /\ c[o] < High(n[f], o)
      BY <2>2
    <3>4. /\ Low(n[f], o) \in Nat /\ High(n[f], o) \in Nat
          /\ Low(n[b], o) \in Nat /\ High(n[b], o) \in Nat /\ c[o] \in Int
      BY <1>1, <1>2, <2>2
    <3> HIDE DEF k
    <3> QED BY <3>1, <3>2, <3>3, <3>4
  <2> QED BY <2>1, <2>2 DEF Encloses
<1> QED BY <1>1, <1>3, <1>5, <1>6, <1>7

(* The view two cells after the far edge of f starts right after the line. *)
LEMMA FoundAfter ==
    ASSUME NEW n, Tree(n), AllShared(n), NEW f \in DOMAIN n, NEW m \in Leaves(n), NEW a \in Axis,
           NEW c \in [Axis -> Int], High(n[f], a) # High(n[<<>>], a), c[a] = High(n[f], a) + 2,
           \A o \in Axis \ {a} : Low(n[f], o) <= c[o] /\ c[o] < High(n[f], o),
           Encloses(n[m], c)
    PROVE  Low(n[m], a) = High(n[f], a) + 1
<1>1. \A p \in DOMAIN n : /\ p \in Path /\ n[p] \in Node /\ SharedDownTo(n, p) /\ Under(<<>>, p)
                          /\ \A e \in Axis : Low(n[p], e) \in Nat /\ High(n[p], e) \in Nat
                          /\ LineAt(n[p]) \in Nat
  BY TreePath, AllSharedDown, UnderOrder, NodeAxes
<1>2. m \in DOMAIN n /\ \A e \in Axis : c[e] \in Int
  BY DEF Leaves
<1>5. PICK k \in DOMAIN n : Low(n[k], a) = High(n[f], a) + 1 /\ Encloses(n[k], c)
  BY AfterLine
<1>8. Under(k, m)
  <2>1. Under(k, m) \/ Under(m, k)
    BY <1>1, <1>2, <1>5, NotBothEnclose
  <2>2. Under(m, k) => m = k
    BY <1>5, LeafEnds
  <2> QED BY <1>1, <1>2, <2>1, <2>2, UnderOrder
<1>9. Low(n[m], a) = Low(n[k], a)
  <2>1. \/ Low(n[m], a) = Low(n[k], a)
        \/ \E e \in DOMAIN n : /\ Under(k, e) /\ e # m /\ Under(e, m) /\ Along(n[e]) = a /\ Low(n[m], a) = LineAt(n[e]) + 1
    BY <1>1, <1>2, <1>5, <1>8, LowEdge
  <2>2. ASSUME NEW e \in DOMAIN n, Under(k, e), e # m, Under(e, m), Along(n[e]) = a, Low(n[m], a) = LineAt(n[e]) + 1
        PROVE  FALSE
    <3>1. ~IsView(n[e])
      BY <1>1, <1>2, <2>2, TreeUp
    <3>2. Low(n[e], a) + 1 <= LineAt(n[e])
      BY <2>2, <3>1, LineInside DEF AllShared
    <3>3. Low(n[k], a) <= Low(n[e], a)
      BY <1>1, <1>5, <2>2, Inside
    <3>4. Low(n[m], a) <= c[a]
      BY DEF Encloses
    <3> QED BY <1>1, <1>2, <1>5, <2>2, <3>2, <3>3, <3>4
  <2> QED BY <2>1, <2>2
<1> QED BY <1>5, <1>9

(* Across the line that ends f on its near side is a node which encloses the
   cell two cells before f. *)
(* Two cells before the near edge of f, which is not the edge of the       *)
(* screen: a node there ends at the line that f starts after.              *)
LEMMA BeforeLine ==
    ASSUME NEW n, Tree(n), AllShared(n), NEW f \in DOMAIN n, NEW a \in Axis,
           NEW c \in [Axis -> Int], Low(n[f], a) # Low(n[<<>>], a), c[a] = Low(n[f], a) - 2,
           \A o \in Axis \ {a} : Low(n[f], o) <= c[o] /\ c[o] < High(n[f], o)
    PROVE  \E k \in DOMAIN n : High(n[k], a) + 1 = Low(n[f], a) /\ Encloses(n[k], c)
<1>1. \A p \in DOMAIN n : /\ p \in Path /\ n[p] \in Node /\ SharedDownTo(n, p) /\ Under(<<>>, p)
                          /\ \A e \in Axis : Low(n[p], e) \in Nat /\ High(n[p], e) \in Nat
                          /\ LineAt(n[p]) \in Nat
  BY TreePath, AllSharedDown, UnderOrder, NodeAxes
<1>2. \A e \in Axis : c[e] \in Int
  OBVIOUS
<1>3. PICK b \in DOMAIN n : /\ b # f /\ Under(b, f) /\ Under(Append(b, "c2"), f)
                            /\ Along(n[b]) = a /\ Low(n[f], a) = LineAt(n[b]) + 1
  <2>1. <<>> \in Path
    BY DEF Path
  <2> QED BY <1>1, <2>1, LowEdge
<1> DEFINE k == Append(b, "c1")
<1>4. "c1" \in Child /\ "c2" \in Child
  BY DEF Child
<1>5. ~IsView(n[b]) /\ Shared(n, b) /\ k \in DOMAIN n
  <2>1. ~IsView(n[b])
    BY <1>1, <1>3, TreeUp
  <2> QED BY <1>4, <2>1, TreePath DEF AllShared
<1>6. High(n[k], a) = LineAt(n[b]) /\ Low(n[k], a) = Low(n[b], a)
  BY <1>3, <1>5 DEF Shared
<1>7. Encloses(n[k], c)
  <2>1. Low(n[k], a) <= c[a] /\ c[a] <= High(n[k], a)
    <3>1. Low(n[b], a) + 1 <= LineAt(n[b])
      BY <1>3, <1>5, LineInside
    <3> HIDE DEF k
    <3> QED BY <1>1, <1>3, <1>5, <1>6, <3>1
  <2>2. ASSUME NEW o \in Axis \ {a} PROVE Low(n[k], o) <= c[o] /\ c[o] <= High(n[k], o)
    <3>1. Low(n[k], o) = Low(n[b], o) /\ High(n[k], o) = High(n[b], o)
      BY <1>3, <1>4, <1>5, <2>2 DEF Shared
    <3>2. Low(n[b], o) <= Low(n[f], o) /\ High(n[f], o) <= High(n[b], o)
      BY <1>1, <1>3, Inside
    <3>3. Low(n[f], o) <= c[o] /\ c[o] < High(n[f], o)
      BY <2>2
    <3>4. /\ Low(n[f], o) \in Nat /\ High(n[f], o) \in Nat
          /\ Low(n[b], o) \in Nat /\ High(n[b], o) \in Nat /\ c[o] \in Int
      BY <1>1, <1>2, <2>2
    <3> HIDE DEF k
    <3> QED BY <3>1, <3>2, <3>3, <3>4
  <2> QED BY <2>1, <2>2 DEF Encloses
<1> QED BY <1>1, <1>3, <1>5, <1>6, <1>7

(* The view two cells before the near edge of f ends right before the line. *)
LEMMA FoundBefore ==
    ASSUME NEW n, Tree(n), AllShared(n), NEW f \in DOMAIN n, NEW m \in Leaves(n), NEW a \in Axis,
           NEW c \in [Axis -> Int], Low(n[f], a) # Low(n[<<>>], a), c[a] = Low(n[f], a) - 2,
           \A o \in Axis \ {a} : Low(n[f], o) <= c[o] /\ c[o] < High(n[f], o),
           Encloses(n[m], c)
    PROVE  High(n[m], a) + 1 = Low(n[f], a)
<1>1. \A p \in DOMAIN n : /\ p \in Path /\ n[p] \in Node /\ SharedDownTo(n, p) /\ Under(<<>>, p)
                          /\ \A e \in Axis : Low(n[p], e) \in Nat /\ High(n[p], e) \in Nat
                          /\ LineAt(n[p]) \in Nat
  BY TreePath, AllSharedDown, UnderOrder, NodeAxes
<1>2. m \in DOMAIN n /\ \A e \in Axis : c[e] \in Int
  BY DEF Leaves
<1>5. PICK k \in DOMAIN n : High(n[k], a) + 1 = Low(n[f], a) /\ Encloses(n[k], c)
  BY BeforeLine
<1>8. Under(k, m)
  <2>1. Under(k, m) \/ Under(m, k)
    BY <1>1, <1>2, <1>5, NotBothEnclose
  <2>2. Under(m, k) => m = k
    BY <1>5, LeafEnds
  <2> QED BY <1>1, <1>2, <2>1, <2>2, UnderOrder
<1>9. High(n[m], a) = High(n[k], a)
  <2>1. \/ High(n[m], a) = High(n[k], a)
        \/ \E e \in DOMAIN n : /\ Under(k, e) /\ e # m /\ Under(e, m) /\ Along(n[e]) = a /\ High(n[m], a) = LineAt(n[e])
    BY <1>1, <1>2, <1>5, <1>8, HighEdge
  <2>2. ASSUME NEW e \in DOMAIN n, Under(k, e), e # m, Under(e, m), Along(n[e]) = a, High(n[m], a) = LineAt(n[e])
        PROVE  FALSE
    <3>1. ~IsView(n[e])
      BY <1>1, <1>2, <2>2, TreeUp
    <3>2. LineAt(n[e]) + 2 <= High(n[e], a)
      BY <2>2, <3>1, LineInside DEF AllShared
    <3>3. High(n[e], a) <= High(n[k], a)
      BY <1>1, <1>5, <2>2, Inside
    <3>4. c[a] <= High(n[m], a)
      BY DEF Encloses
    <3> QED BY <1>1, <1>2, <1>5, <2>2, <3>2, <3>3, <3>4
  <2> QED BY <2>1, <2>2
<1> QED BY <1>5, <1>9

(* A pane laid out with room in every container. *)
LaidOut(n) == Tree(n) /\ Bounded(n) /\ AllShared(n) /\ Rect(n[<<>>]) = RootRect /\ ScreenSize

(* The arrow commands and the cells they aim at. *)
Commands == {"MOVE_UP", "MOVE_DOWN", "MOVE_LEFT", "MOVE_RIGHT"}
Aim(node, cmd) == Cell(Places(node)[cmd][1], Places(node)[cmd][2])

(* The cells the four arrow commands aim at: two away from an edge, and in *)
(* the middle of the other axis.                                           *)
LEMMA AimCell ==
    ASSUME NEW node \in Node
    PROVE  /\ \A cmd \in Commands : /\ Places(node)[cmd][1] \in Int /\ Places(node)[cmd][2] \in Int
                                    /\ Aim(node, cmd) \in [Axis -> Int]
           /\ Aim(node, "MOVE_UP")["y"] = Low(node, "y") - 2
           /\ Aim(node, "MOVE_DOWN")["y"] = High(node, "y") + 2
           /\ Aim(node, "MOVE_LEFT")["x"] = Low(node, "x") - 2
           /\ Aim(node, "MOVE_RIGHT")["x"] = High(node, "x") + 2
           /\ \A cmd \in {"MOVE_UP", "MOVE_DOWN"} : Aim(node, cmd)["x"] = node.x + node.w \div 2
           /\ \A cmd \in {"MOVE_LEFT", "MOVE_RIGHT"} : Aim(node, cmd)["y"] = node.y + node.h \div 2
           /\ Low(node, "x") <= node.x + node.w \div 2 /\ node.x + node.w \div 2 < High(node, "x")
           /\ Low(node, "y") <= node.y + node.h \div 2 /\ node.y + node.h \div 2 < High(node, "y")
<1>1. node.y \in Nat /\ node.x \in Nat /\ node.h \in Nat \ {0} /\ node.w \in Nat \ {0}
  BY DEF Node
<1>2. \A e \in Nat \ {0} : e \div 2 \in Nat /\ e \div 2 < e
  OBVIOUS
<1>3. node.h \div 2 \in Nat /\ node.w \div 2 \in Nat /\ node.h \div 2 < node.h /\ node.w \div 2 < node.w
  BY <1>1, <1>2
<1>4. /\ Places(node)["MOVE_UP"] = <<node.y - 2, node.x + node.w \div 2>>
      /\ Places(node)["MOVE_DOWN"] = <<node.y + node.h + 2, node.x + node.w \div 2>>
      /\ Places(node)["MOVE_LEFT"] = <<node.y + node.h \div 2, node.x - 2>>
      /\ Places(node)["MOVE_RIGHT"] = <<node.y + node.h \div 2, node.x + node.w + 2>>
  BY DEF Places, ABOVE, BELOW, LEFT, RIGHT
<1>5. \A cmd \in Commands : Places(node)[cmd][1] \in Int /\ Places(node)[cmd][2] \in Int
  BY <1>1, <1>3, <1>4 DEF Commands
<1>6. \A cmd \in Commands : /\ Aim(node, cmd) \in [Axis -> Int]
                            /\ Aim(node, cmd)["y"] = Places(node)[cmd][1]
                            /\ Aim(node, cmd)["x"] = Places(node)[cmd][2]
  <2> TAKE cmd \in Commands
  <2> DEFINE y == Places(node)[cmd][1]
             x == Places(node)[cmd][2]
  <2>1. y \in Int /\ x \in Int
    BY <1>5
  <2>2. Aim(node, cmd) = Cell(y, x)
    BY DEF Aim
  <2> HIDE DEF y, x
  <2>3. Cell(y, x) \in [Axis -> Int] /\ Cell(y, x)["y"] = y /\ Cell(y, x)["x"] = x
    BY <2>1, CellAxes
  <2> QED BY <2>2, <2>3 DEF y, x
<1>7. /\ Low(node, "y") = node.y /\ High(node, "y") = node.y + node.h
      /\ Low(node, "x") = node.x /\ High(node, "x") = node.x + node.w
  BY DEF Low, High, Extent
<1>8. "MOVE_UP" \in Commands /\ "MOVE_DOWN" \in Commands /\ "MOVE_LEFT" \in Commands /\ "MOVE_RIGHT" \in Commands
  BY DEF Commands
<1>9. \A cmd \in {"MOVE_UP", "MOVE_DOWN"} : Aim(node, cmd)["x"] = node.x + node.w \div 2
  BY <1>4, <1>6, <1>8
<1>10. \A cmd \in {"MOVE_LEFT", "MOVE_RIGHT"} : Aim(node, cmd)["y"] = node.y + node.h \div 2
  BY <1>4, <1>6, <1>8
<1>11. /\ Aim(node, "MOVE_UP")["y"] = Low(node, "y") - 2
       /\ Aim(node, "MOVE_DOWN")["y"] = High(node, "y") + 2
       /\ Aim(node, "MOVE_LEFT")["x"] = Low(node, "x") - 2
       /\ Aim(node, "MOVE_RIGHT")["x"] = High(node, "x") + 2
  BY <1>4, <1>6, <1>7, <1>8
<1>12. /\ Low(node, "x") <= node.x + node.w \div 2 /\ node.x + node.w \div 2 < High(node, "x")
       /\ Low(node, "y") <= node.y + node.h \div 2 /\ node.y + node.h \div 2 < High(node, "y")
  BY <1>1, <1>3, <1>7
<1> QED BY <1>5, <1>6, <1>9, <1>10, <1>11, <1>12

(* The root of a pane that is laid out with room in every container. *)
LEMMA RootOf ==
    ASSUME NEW n, LaidOut(n)
    PROVE  /\ <<>> \in DOMAIN n /\ <<>> \in Path /\ n[<<>>] \in Node
           /\ Low(n[<<>>], "y") = 0 /\ High(n[<<>>], "y") = LINES - 1
           /\ Low(n[<<>>], "x") = 0 /\ High(n[<<>>], "x") = COLS
           /\ \A p \in DOMAIN n : Under(<<>>, p) /\ SharedDownTo(n, p) /\ p \in Path /\ n[p] \in Node
<1>1. <<>> \in DOMAIN n
  BY DEF LaidOut, Tree
<1>2. \A p \in DOMAIN n : Under(<<>>, p) /\ SharedDownTo(n, p) /\ p \in Path /\ n[p] \in Node
  BY TreePath, AllSharedDown, UnderOrder DEF LaidOut
<1> QED BY <1>1, <1>2, RootAxes DEF LaidOut

(* One direction of an arrow command, along the axis a.                    *)
LEMMA Across ==
    ASSUME NEW n, LaidOut(n), NEW f \in DOMAIN n, NEW a \in Axis, NEW cmd \in Commands,
           \A o \in Axis \ {a} : Low(n[f], o) <= Aim(n[f], cmd)[o] /\ Aim(n[f], cmd)[o] < High(n[f], o)
    PROVE  LET m == findnode(n, Places(n[f])[cmd][1], Places(n[f])[cmd][2])
           IN  /\ Aim(n[f], cmd)[a] = High(n[f], a) + 2 =>
                     IF High(n[f], a) = High(n[<<>>], a) THEN m = NULL
                     ELSE m \in Leaves(n) /\ Low(n[m], a) = High(n[f], a) + 1 /\ Encloses(n[m], Aim(n[f], cmd))
               /\ Aim(n[f], cmd)[a] = Low(n[f], a) - 2 =>
                     IF Low(n[f], a) = 0 THEN m = NULL
                     ELSE m \in Leaves(n) /\ High(n[m], a) + 1 = Low(n[f], a) /\ Encloses(n[m], Aim(n[f], cmd))
<1> DEFINE y == Places(n[f])[cmd][1]
           x == Places(n[f])[cmd][2]
           m == findnode(n, y, x)
           c == Aim(n[f], cmd)
<1>1. Tree(n) /\ Bounded(n) /\ AllShared(n)
  BY DEF LaidOut
<1>2. /\ <<>> \in DOMAIN n /\ <<>> \in Path /\ n[<<>>] \in Node /\ n[f] \in Node
      /\ Low(n[<<>>], a) = 0
      /\ \A p \in DOMAIN n : Under(<<>>, p) /\ SharedDownTo(n, p) /\ p \in Path /\ n[p] \in Node
  BY RootOf DEF Axis
<1>3. y \in Int /\ x \in Int /\ c \in [Axis -> Int] /\ c = Cell(y, x)
  BY <1>2, AimCell DEF Aim
<1>4. \A p \in DOMAIN n : IN_(n[p], y, x) <=> Encloses(n[p], c)
  BY <1>2, <1>3, DrawnCells
<1>5. \A p \in DOMAIN n : \A e \in Axis : Low(n[p], e) \in Nat /\ High(n[p], e) \in Nat
  BY <1>2, NodeAxes
<1> HIDE DEF y, x, c
<1>6. ASSUME Encloses(n[<<>>], c) PROVE m \in Leaves(n) /\ Encloses(n[m], c)
  <2>1. IN_(n[<<>>], y, x)
    BY <1>2, <1>4, <1>6
  <2>2. m \in Leaves(n) /\ IN_(n[m], y, x)
    BY <1>1, <1>3, <2>1, FindLeaf
  <2> QED BY <1>4, <2>2 DEF Leaves
<1>7. ASSUME ~Encloses(n[<<>>], c) PROVE m = NULL
  BY <1>1, <1>2, <1>4, <1>7, FindNothing
<1>8. \A k \in DOMAIN n : Encloses(n[k], c) => Encloses(n[<<>>], c)
  BY <1>1, <1>2, <1>3, HeldAbove
<1>9. \A o \in Axis \ {a} : Low(n[f], o) <= c[o] /\ c[o] < High(n[f], o)
  BY DEF c
<1> HIDE DEF m
<1>10. ASSUME c[a] = High(n[f], a) + 2
       PROVE  IF High(n[f], a) = High(n[<<>>], a) THEN m = NULL
              ELSE m \in Leaves(n) /\ Low(n[m], a) = High(n[f], a) + 1 /\ Encloses(n[m], c)
  <2>1. CASE High(n[f], a) = High(n[<<>>], a)
    <3>1. ~(c[a] <= High(n[<<>>], a))
      BY <1>2, <1>5, <1>10, <2>1
    <3>2. ~Encloses(n[<<>>], c)
      BY <3>1 DEF Encloses
    <3> QED BY <1>7, <2>1, <3>2
  <2>2. CASE High(n[f], a) # High(n[<<>>], a)
    <3>1. \E k \in DOMAIN n : Encloses(n[k], c)
      BY <1>1, <1>3, <1>9, <1>10, <2>2, AfterLine
    <3>2. m \in Leaves(n) /\ Encloses(n[m], c)
      BY <1>6, <1>8, <3>1
    <3>3. Low(n[m], a) = High(n[f], a) + 1
      BY <1>1, <1>3, <1>9, <1>10, <2>2, <3>2, FoundAfter
    <3> QED BY <2>2, <3>2, <3>3
  <2> QED BY <2>1, <2>2
<1>11. ASSUME c[a] = Low(n[f], a) - 2
       PROVE  IF Low(n[f], a) = 0 THEN m = NULL
              ELSE m \in Leaves(n) /\ High(n[m], a) + 1 = Low(n[f], a) /\ Encloses(n[m], c)
  <2>1. CASE Low(n[f], a) = 0
    <3>1. ~(Low(n[<<>>], a) <= c[a])
      BY <1>2, <1>5, <1>11, <2>1
    <3>2. ~Encloses(n[<<>>], c)
      BY <3>1 DEF Encloses
    <3> QED BY <1>7, <2>1, <3>2
  <2>2. CASE Low(n[f], a) # 0
    <3>0. Low(n[f], a) # Low(n[<<>>], a)
      BY <1>2, <2>2
    <3>1. \E k \in DOMAIN n : Encloses(n[k], c)
      BY <1>1, <1>3, <1>9, <1>11, <3>0, BeforeLine
    <3>2. m \in Leaves(n) /\ Encloses(n[m], c)
      BY <1>6, <1>8, <3>1
    <3>3. High(n[m], a) + 1 = Low(n[f], a)
      BY <1>1, <1>3, <1>9, <1>11, <3>0, <3>2, FoundBefore
    <3> QED BY <2>2, <3>2, <3>3
  <2> QED BY <2>1, <2>2
<1> QED BY <1>10, <1>11 DEF m, c, y, x

(* Where findnode finds the target of an arrow command: beside the node,   *)
(* or nowhere at the edge of the screen.                                   *)
LEMMA MoveLands ==
    ASSUME NEW n, LaidOut(n), NEW f \in DOMAIN n, NEW cmd \in Commands
    PROVE  LET m == findnode(n, Places(n[f])[cmd][1], Places(n[f])[cmd][2])
           IN  IF AtEdge(n[f], cmd) THEN m = NULL ELSE m \in Leaves(n) /\ Beside(n[f], n[m], cmd)
<1> DEFINE m == findnode(n, Places(n[f])[cmd][1], Places(n[f])[cmd][2])
           c == Aim(n[f], cmd)
<1>1. n[f] \in Node /\ "y" \in Axis /\ "x" \in Axis
  BY RootOf DEF Axis
<1>2. /\ Low(n[f], "y") = n[f].y /\ High(n[f], "y") = n[f].y + n[f].h
      /\ Low(n[f], "x") = n[f].x /\ High(n[f], "x") = n[f].x + n[f].w
      /\ High(n[<<>>], "y") = LINES - 1 /\ High(n[<<>>], "x") = COLS
  BY RootOf DEF Low, High, Extent
<1>3. ASSUME m \in Leaves(n)
      PROVE  /\ n[m] \in Node
             /\ Low(n[m], "y") = n[m].y /\ High(n[m], "y") = n[m].y + n[m].h
             /\ Low(n[m], "x") = n[m].x /\ High(n[m], "x") = n[m].x + n[m].w
             /\ n[m].y \in Nat /\ n[m].x \in Nat /\ n[m].h \in Nat /\ n[m].w \in Nat
             /\ Encloses(n[m], c) => /\ n[m].x <= c["x"] /\ c["x"] <= n[m].x + n[m].w
                                     /\ n[m].y <= c["y"] /\ c["y"] <= n[m].y + n[m].h
  <2>1. n[m] \in Node
    BY <1>3, RootOf DEF Leaves
  <2>2. n[m].y \in Nat /\ n[m].x \in Nat /\ n[m].h \in Nat /\ n[m].w \in Nat
    BY <2>1 DEF Node
  <2> HIDE DEF m, c
  <2> QED BY <1>1, <2>1, <2>2 DEF Low, High, Extent, Encloses
<1>4. c["y"] \in Int /\ c["x"] \in Int
  BY <1>1, AimCell
<1> HIDE DEF m, c
<1>5. CASE cmd = "MOVE_UP"
  <2>1. \A o \in Axis \ {"y"} : Low(n[f], o) <= c[o] /\ c[o] < High(n[f], o)
    BY <1>1, <1>5, AimCell DEF Axis, c
  <2>2. c["y"] = Low(n[f], "y") - 2 /\ c["x"] = n[f].x + n[f].w \div 2
    BY <1>1, <1>5, AimCell DEF c
  <2>3. IF Low(n[f], "y") = 0 THEN m = NULL
        ELSE m \in Leaves(n) /\ High(n[m], "y") + 1 = Low(n[f], "y") /\ Encloses(n[m], c)
    BY <1>1, <2>1, <2>2, Across DEF m, c
  <2> QED BY <1>2, <1>3, <1>4, <1>5, <2>2, <2>3 DEF AtEdge, Beside, m
<1>6. CASE cmd = "MOVE_DOWN"
  <2>1. \A o \in Axis \ {"y"} : Low(n[f], o) <= c[o] /\ c[o] < High(n[f], o)
    BY <1>1, <1>6, AimCell DEF Axis, c
  <2>2. c["y"] = High(n[f], "y") + 2 /\ c["x"] = n[f].x + n[f].w \div 2
    BY <1>1, <1>6, AimCell DEF c
  <2>3. IF High(n[f], "y") = High(n[<<>>], "y") THEN m = NULL
        ELSE m \in Leaves(n) /\ Low(n[m], "y") = High(n[f], "y") + 1 /\ Encloses(n[m], c)
    BY <1>1, <2>1, <2>2, Across DEF m, c
  <2> QED BY <1>2, <1>3, <1>4, <1>6, <2>2, <2>3 DEF AtEdge, Beside, m
<1>7. CASE cmd = "MOVE_LEFT"
  <2>1. \A o \in Axis \ {"x"} : Low(n[f], o) <= c[o] /\ c[o] < High(n[f], o)
    BY <1>1, <1>7, AimCell DEF Axis, c
  <2>2. c["x"] = Low(n[f], "x") - 2 /\ c["y"] = n[f].y + n[f].h \div 2
    BY <1>1, <1>7, AimCell DEF c
  <2>3. IF Low(n[f], "x") = 0 THEN m = NULL
        ELSE m \in Leaves(n) /\ High(n[m], "x") + 1 = Low(n[f], "x") /\ Encloses(n[m], c)
    BY <1>1, <2>1, <2>2, Across DEF m, c
  <2> QED BY <1>2, <1>3, <1>4, <1>7, <2>2, <2>3 DEF AtEdge, Beside, m
<1>8. CASE cmd = "MOVE_RIGHT"
  <2>1. \A o \in Axis \ {"x"} : Low(n[f], o) <= c[o] /\ c[o] < High(n[f], o)
    BY <1>1, <1>8, AimCell DEF Axis, c
  <2>2. c["x"] = High(n[f], "x") + 2 /\ c["y"] = n[f].y + n[f].h \div 2
    BY <1>1, <1>8, AimCell DEF c
  <2>3. IF High(n[f], "x") = High(n[<<>>], "x") THEN m = NULL
        ELSE m \in Leaves(n) /\ Low(n[m], "x") = High(n[f], "x") + 1 /\ Encloses(n[m], c)
    BY <1>1, <2>1, <2>2, Across DEF m, c
  <2> QED BY <1>2, <1>3, <1>4, <1>8, <2>2, <2>3 DEF AtEdge, Beside, m
<1> QED BY <1>5, <1>6, <1>7, <1>8 DEF Commands

(* The label of a view, over the width of the view. *)
LEMMA LabelsApart ==
    ASSUME NEW n, LaidOut(n), NEW p \in Leaves(n)
    PROVE  LET at == LabelCell(n[p])
               last == at.x + n[p].w - 1
           IN  /\ \A q \in DOMAIN n \ {p} :
                     LabelCell(n[q]).y = at.y /\ LabelCell(n[q]).x <= last => LabelledBefore(q, p)
               /\ \A q \in Leaves(n) \ {p}, x \in at.x .. last : ~Shows(n[q], at.y, x)
<1>1. Tree(n) /\ AllShared(n) /\ p \in DOMAIN n /\ "y" \in Axis /\ "x" \in Axis
  BY DEF LaidOut, Leaves, Axis
<1>2. \A q \in DOMAIN n : Under(<<>>, q) /\ SharedDownTo(n, q) /\ q \in Path /\ n[q] \in Node
  BY RootOf
<1>3. <<>> \in DOMAIN n /\ <<>> \in Path /\ Low(n[<<>>], "y") = 0
  BY RootOf
<1>4. \A q \in DOMAIN n : /\ n[q].y \in Nat /\ n[q].x \in Nat
                          /\ Low(n[q], "y") = n[q].y /\ Low(n[q], "x") = n[q].x
                          /\ \A a \in Axis : Low(n[q], a) \in Nat /\ High(n[q], a) \in Nat /\ Low(n[q], a) < High(n[q], a)
  BY <1>2, NodeAxes DEF Node, Low
(* A node that does not start on the first row starts below a line. *)
<1>5. ASSUME NEW q \in DOMAIN n, n[q].y # 0
      PROVE  n[q].y >= 2 /\ \E b \in DOMAIN n : /\ b # q /\ Under(b, q) /\ ~IsView(n[b])
                                               /\ Along(n[b]) = "y" /\ n[q].y = LineAt(n[b]) + 1
  <2>1. PICK b \in DOMAIN n : b # q /\ Under(b, q) /\ Along(n[b]) = "y" /\ Low(n[q], "y") = LineAt(n[b]) + 1
    BY <1>1, <1>2, <1>3, <1>4, <1>5, LowEdge
  <2>2. ~IsView(n[b]) /\ Shared(n, b)
    <3>1. ~IsView(n[b])
      BY <1>1, <1>2, <2>1, TreeUp
    <3> QED BY <1>1, <3>1 DEF AllShared
  <2>3. Low(n[b], "y") + 1 <= LineAt(n[b]) /\ LineAt(n[b]) \in Nat
    BY <1>1, <1>2, <2>1, <2>2, LineInside, NodeAxes
  <2> QED BY <1>4, <2>1, <2>2, <2>3
<1>6. \A q \in DOMAIN n : LabelCell(n[q]) = [y |-> IF n[q].y = 0 THEN 0 ELSE n[q].y - 1, x |-> n[q].x]
  BY <1>4 DEF LabelCell, AtLeast
<1>10. n[p].w \in Nat /\ High(n[p], "x") = n[p].x + n[p].w
  BY <1>1, <1>2, <1>4, NodeAxes DEF High, Extent, Node
<1>7. ASSUME NEW q \in DOMAIN n, q # p, LabelCell(n[q]).y = LabelCell(n[p]).y,
             LabelCell(n[q]).x <= LabelCell(n[p]).x + n[p].w - 1
      PROVE  LabelledBefore(q, p)
  <2>1. n[q].y = n[p].y /\ n[q].x < High(n[p], "x")
    <3>1. n[q].y = 0 \/ n[q].y >= 2
      BY <1>5
    <3>2. n[p].y = 0 \/ n[p].y >= 2
      BY <1>1, <1>5
    <3>3. n[q].x <= n[p].x + n[p].w - 1
      BY <1>1, <1>6, <1>7
    <3> QED BY <1>1, <1>4, <1>6, <1>7, <1>10, <3>1, <3>2, <3>3
  <2>2. p \in DOMAIN n /\ p \in Path /\ q \in Path /\ SharedDownTo(n, p) /\ SharedDownTo(n, q)
    BY <1>1, <1>2
  <2>3. CASE Under(q, p)
    BY <1>7, <2>3 DEF LabelledBefore
  <2>4. CASE Under(p, q)
    BY <1>1, <1>7, <2>4, LeafEnds
  (* The two are on different sides of a line, which goes down.            *)
  <2>5. CASE ~Under(p, q) /\ ~Under(q, p)
    <3>1. PICK d \in Path, e \in Child, f \in Child :
              e # f /\ Under(Append(d, e), p) /\ Under(Append(d, f), q)
      BY <2>2, <2>5, UnderDiverge
    <3>2. /\ n[d] \in Node
          /\ e = "c1" => High(n[p], Along(n[d])) <= LineAt(n[d])
          /\ e = "c2" => LineAt(n[d]) + 1 <= Low(n[p], Along(n[d]))
      BY <1>1, <2>2, <3>1, Sides
    <3>3. /\ f = "c1" => High(n[q], Along(n[d])) <= LineAt(n[d])
          /\ f = "c2" => LineAt(n[d]) + 1 <= Low(n[q], Along(n[d]))
      BY <1>1, <2>2, <3>1, Sides
    <3>4. LineAt(n[d]) \in Nat /\ Along(n[d]) \in Axis
      BY <3>2, NodeAxes
    <3>5. (e = "c1" /\ f = "c2") \/ (e = "c2" /\ f = "c1")
      BY <3>1 DEF Child
    <3>6. /\ Low(n[p], "y") < High(n[p], "y") /\ Low(n[q], "y") < High(n[q], "y")
          /\ Low(n[p], "y") = Low(n[q], "y") /\ Low(n[q], "x") < High(n[p], "x")
          /\ \A a \in Axis : /\ Low(n[p], a) \in Nat /\ High(n[p], a) \in Nat
                             /\ Low(n[q], a) \in Nat /\ High(n[q], a) \in Nat
      BY <1>1, <1>4, <2>1, <2>2
    <3>7. e = "c2" /\ f = "c1"
      <4>1. CASE Along(n[d]) = "y"
        BY <1>1, <3>2, <3>3, <3>4, <3>5, <3>6, <4>1
      <4>2. CASE Along(n[d]) = "x"
        BY <1>1, <3>2, <3>3, <3>4, <3>5, <3>6, <4>2
      <4> QED BY <3>4, <4>1, <4>2 DEF Axis
    <3>8. /\ Under(d, p) /\ Len(d) < Len(p) /\ p[Len(d) + 1] = "c2"
          /\ Under(d, q) /\ Len(d) < Len(q) /\ q[Len(d) + 1] = "c1"
      BY <2>2, <3>1, <3>7, UnderChild
    <3>9. Before(q, p)
      <4>1. Len(d) \in Nat /\ Len(p) \in Nat /\ Len(q) \in Nat
            /\ DOMAIN p = 1 .. Len(p) /\ DOMAIN q = 1 .. Len(q)
        BY <2>2, <3>1 DEF Path
      <4>2. Len(d) + 1 \in DOMAIN p \cap DOMAIN q /\ (Len(d) + 1) - 1 = Len(d)
        BY <3>8, <4>1
      <4>3. \A j \in 1 .. Len(d) : q[j] = p[j]
        BY <3>8 DEF Under
      <4> QED BY <3>8, <4>2, <4>3 DEF Before
    <3> QED BY <3>9 DEF LabelledBefore
  <2> QED BY <2>3, <2>4, <2>5
<1>8. ASSUME NEW q \in Leaves(n), q # p, NEW lx \in LabelCell(n[p]).x .. LabelCell(n[p]).x + n[p].w - 1,
             Shows(n[q], LabelCell(n[p]).y, lx)
      PROVE  FALSE
  <2> DEFINE ly == IF n[p].y = 0 THEN 0 ELSE n[p].y - 1
             c == Cell(ly, lx)
  <2>1. LabelCell(n[p]).y = ly /\ ly \in Int /\ lx \in Int /\ n[p].x <= lx /\ lx < High(n[p], "x")
    BY <1>1, <1>4, <1>6, <1>8, <1>10
  <2>2. c \in [Axis -> Int] /\ c["y"] = ly /\ c["x"] = lx
    BY ZenonT(40), <2>1, CellAxes
  <2>3. q \in DOMAIN n
    BY DEF Leaves
  <2>4. Holds(n[q], c)
    BY <1>2, <1>8, <2>1, <2>3, DrawnCells
  <2>5. CASE n[p].y = 0
    <3>1. Holds(n[p], c)
      BY <1>1, <1>4, <2>1, <2>2, <2>5 DEF Holds, Axis
    <3> HIDE DEF c
    <3>2. Encloses(n[p], c) /\ Encloses(n[q], c)
      BY <1>1, <1>2, <2>2, <2>3, <2>4, <3>1, HoldsEncloses
    <3>3. Under(p, q) \/ Under(q, p)
      BY <1>1, <1>2, <2>2, <2>3, <3>2, NotBothEnclose
    <3> QED BY <1>1, <1>8, <2>3, <3>3, LeafEnds
  <2>6. CASE n[p].y # 0
    <3>1. PICK b \in DOMAIN n : b # p /\ Under(b, p) /\ ~IsView(n[b]) /\ Along(n[b]) = "y" /\ n[p].y = LineAt(n[b]) + 1
      BY <1>1, <1>5, <2>6
    <3>2. Low(n[b], "x") <= Low(n[p], "x") /\ High(n[p], "x") <= High(n[b], "x")
      BY <1>1, <1>2, <3>1, Inside
    <3>3. LineAt(n[b]) \in Nat
      BY <1>2, <3>1, NodeAxes
    <3> HIDE DEF c
    <3>4. c["y"] = LineAt(n[b])
      BY <2>2, <2>6, <3>1, <3>3
    <3>5. Low(n[b], "x") <= c["x"] /\ c["x"] < High(n[b], "x")
      BY <1>1, <1>4, <2>1, <2>2, <3>1, <3>2
    <3>6. OnLine(n[b], c)
      BY <3>1, <3>4, <3>5 DEF OnLine, Axis
    <3>7. Holds(n[b], c)
      BY <1>1, <2>2, <3>1, <3>6, LineHeld DEF AllShared
    <3>8. Under(b, q) \/ Under(q, b)
      <4>1. Encloses(n[b], c) /\ Encloses(n[q], c)
        BY <1>2, <2>2, <2>3, <2>4, <3>7, HoldsEncloses
      <4> QED BY <1>1, <1>2, <2>2, <2>3, <4>1, NotBothEnclose
    <3>9. q # b
      BY <3>1 DEF Leaves
    <3>10. Under(b, q)
      BY <1>1, <3>8, <3>9, LeafEnds
    <3> QED BY <1>1, <1>2, <2>2, <2>3, <2>4, <3>6, <3>9, <3>10, LineApart
  <2> QED BY <2>5, <2>6
<1> QED BY <1>7, <1>8

(* Where coordinate_findnode finds a click: on the view that shows the     *)
(* cell, and every view of two rows and columns holds its own last cell.   *)
LEMMA ClickLands ==
    ASSUME NEW n, LaidOut(n)
    PROVE  /\ \A my \in Int, mx \in Int :
                 LET to == coordinate_findnode(n, mx, my)
                 IN  to # NULL => IsView(n[to]) /\ Shows(n[to], my, mx)
           /\ \A p \in Leaves(n) : n[p].h > 1 /\ n[p].w > 1 =>
                 coordinate_findnode(n, n[p].x + n[p].w - 1, n[p].y + n[p].h - 1) = p
<1>1. Tree(n) /\ AllShared(n)
  BY DEF LaidOut
<1>2. ASSUME NEW my \in Int, NEW mx \in Int, coordinate_findnode(n, mx, my) # NULL
      PROVE  LET to == coordinate_findnode(n, mx, my) IN IsView(n[to]) /\ Shows(n[to], my, mx)
  <2> DEFINE hits == {p \in Leaves(n) : is_coordinate(n[p].y, n[p].x, n[p].h, n[p].w, mx, my)}
  <2>1. /\ \A p \in hits : coordinate_findnode(n, mx, my) = p
        /\ hits = {} => coordinate_findnode(n, mx, my) = NULL
        /\ \A p \in hits : Shows(n[p], my, mx)
    BY <1>1, ClickFinds
  <2>2. \A p \in hits : IsView(n[p])
    BY DEF Leaves
  <2> HIDE DEF hits
  <2> QED BY <1>2, <2>1, <2>2
<1>3. ASSUME NEW p \in Leaves(n), n[p].h > 1, n[p].w > 1
      PROVE  coordinate_findnode(n, n[p].x + n[p].w - 1, n[p].y + n[p].h - 1) = p
  <2> DEFINE mx == n[p].x + n[p].w - 1
             my == n[p].y + n[p].h - 1
             hits == {q \in Leaves(n) : is_coordinate(n[q].y, n[q].x, n[q].h, n[q].w, mx, my)}
  <2>1. n[p].y \in Nat /\ n[p].x \in Nat /\ n[p].h \in Nat /\ n[p].w \in Nat
    BY RootOf DEF Leaves, Node
  <2>2. mx \in Int /\ my \in Int
    BY <2>1
  <2>3. is_coordinate(n[p].y, n[p].x, n[p].h, n[p].w, mx, my)
    BY <1>3, <2>1 DEF is_coordinate
  <2>4. p \in hits
    BY <2>3
  <2> HIDE DEF mx, my
  <2>5. \A q \in hits : coordinate_findnode(n, mx, my) = q
    BY <1>1, <2>2, ClickFinds
  <2> HIDE DEF hits
  <2>6. coordinate_findnode(n, mx, my) = p
    BY <2>4, <2>5
  <2> QED BY <2>6 DEF mx, my
<1> QED BY <1>2, <1>3

=============================================================================
