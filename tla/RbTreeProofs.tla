----------------------------- MODULE RbTreeProofs -----------------------------
(***************************************************************************)
(* Proofs about RbTree, for any slots, bounds and order of operations.     *)
(***************************************************************************)
EXTENDS RbTree, FiniteSetTheorems, SequenceTheorems, WellFoundedInduction, TLAPS

\* x lies on that side of n in the order of the first frames.
Before(side, x, n) ==
  IF side = "rb_left" THEN BaseGfn[x] < BaseGfn[n] ELSE BaseGfn[n] < BaseGfn[x]

\* below[n] is the set of nodes of the subtree at n, which is in order.
Ordered(t, below) ==
  /\ below \in [Link -> SUBSET Slot]
  /\ below[NULL] = {}
  /\ \A n \in Slot : \A side \in Side :
       below[n] = {n} \cup below[t[side][n]] \cup below[t[Opposite(side)][n]]
  /\ \A n \in Slot : \A side \in Side : \A x \in below[t[side][n]] : Before(side, x, n)

\* Parent links agree with the children, and the nodes outside the tree are
\* cleared.
Linked(t, below) ==
  /\ \A n \in Slot : \A side \in Side :
       t[side][n] # NULL => t.parent[t[side][n]] = n
  /\ \A n \in Slot :
       t.parent[n] # NULL => \E side \in Side : t[side][t.parent[n]] = n
  /\ t.rb_node # NULL => t.parent[t.rb_node] = NULL
  /\ \A n \in Slot : n \in below[t.rb_node] <=> n = t.rb_node \/ t.parent[n] # NULL
  /\ \A n \in Slot : \A side \in Side : n \notin below[t.rb_node] => t[side][n] = NULL

Shape(t, below) == t \in Tree /\ Ordered(t, below) /\ Linked(t, below)

-----------------------------------------------------------------------------
(***************************************************************************)
(* Sides and fields                                                        *)
(***************************************************************************)

LEMMA Sides ==
  ASSUME NEW side \in Side
  PROVE  /\ Opposite(side) \in Side /\ Opposite(side) # side
         /\ Opposite(Opposite(side)) = side
         /\ \A other \in Side : other = side \/ other = Opposite(side)
BY DEF Side, Opposite

LEMMA Fields ==
  ASSUME NEW t \in Tree
  PROVE  /\ \A side \in Side : t[side] \in [Slot -> Link]
         /\ t["rb_left"] = t.rb_left /\ t["rb_right"] = t.rb_right
         /\ t.rb_node \in Link
         /\ t.parent \in [Slot -> Link]
         /\ t.color \in [Slot -> Colour]
BY DEF Tree, Side

\* The order is strict and total on nodes with different first frames.
LEMMA Strict ==
  ASSUME NEW side \in Side, NEW x \in Slot, NEW y \in Slot
  PROVE  /\ ~ Before(side, x, x)
         /\ Before(side, x, y) => ~ Before(side, y, x)
         /\ Before(Opposite(side), x, y) <=> Before(side, y, x)
         /\ \A z \in Slot : Before(side, x, y) /\ Before(side, y, z) => Before(side, x, z)
         /\ Before(side, x, y) => x # y
<1>1. \A s \in Slot : BaseGfn[s] \in Nat
  BY RangeAssumption
<1>2. CASE side = "rb_left"
  BY <1>1, <1>2 DEF Before, Opposite
<1>3. CASE side = "rb_right"
  BY <1>1, <1>3 DEF Before, Opposite
<1> QED BY <1>2, <1>3 DEF Side

-----------------------------------------------------------------------------
(***************************************************************************)
(* Induction over the tree, downwards and upwards                          *)
(***************************************************************************)

\* A set of natural numbers that has a member has a least one.
LEMMA LeastNatural ==
  ASSUME NEW S \in SUBSET Nat, S # {}
  PROVE  \E p \in S : \A q \in S : p <= q
<1> DEFINE R == {ss \in Nat \X Nat : ss[1] < ss[2]}
<1>1. IsWellFoundedOn(R, Nat)
  BY NatLessThanWellFounded DEF OpToRel
<1> HIDE DEF R
<1>2. PICK p \in S : \A q \in S : ~(<<q, p>> \in R)
  BY <1>1, WFMin
<1>3. ASSUME NEW q \in S PROVE p <= q
  <2>1. q \in Nat /\ p \in Nat
    OBVIOUS
  <2>2. <<q, p>> \in Nat \X Nat /\ <<q, p>>[1] = q /\ <<q, p>>[2] = p
    BY <2>1
  <2>3. ~(q < p)
    BY <1>2, <2>2 DEF R
  <2> QED BY <2>1, <2>3
<1> QED BY <1>3

\* A set that contains every node whose successors it contains is the whole set
\* of nodes, if some measure falls from a node to its successors.
LEMMA Descent ==
  ASSUME NEW rank \in [Slot -> Nat], NEW S \in SUBSET Slot,
         \A n \in Slot : (\A m \in Slot : rank[m] < rank[n] => m \in S) => n \in S
  PROVE  S = Slot
<1>1. SUFFICES ASSUME Slot \ S # {} PROVE FALSE
  OBVIOUS
<1> DEFINE Ranks == {rank[n] : n \in Slot \ S}
<1>2. Ranks \in SUBSET Nat /\ Ranks # {}
  BY <1>1
<1>3. PICK p \in Ranks : \A q \in Ranks : p <= q
  BY <1>2, LeastNatural
<1>4. PICK n \in Slot \ S : rank[n] = p
  BY <1>3
<1>5. ASSUME NEW m \in Slot, rank[m] < rank[n] PROVE m \in S
  <2>1. SUFFICES ASSUME m \notin S PROVE FALSE
    OBVIOUS
  <2>2. rank[m] \in Ranks
    BY <2>1
  <2> HIDE DEF Ranks
  <2>3. rank[n] <= rank[m]
    BY <1>3, <1>4, <2>2
  <2> QED BY <1>5, <2>3
<1> QED BY <1>4, <1>5

\* A child has fewer nodes below it, and its parent is not among them.
LEMMA ChildBelow ==
  ASSUME NEW t \in Tree, NEW below, Ordered(t, below),
         NEW n \in Slot, NEW side \in Side
  PROVE  /\ n \notin below[t[side][n]]
         /\ below[t[side][n]] \subseteq below[n]
         /\ n \in below[n]
         /\ below[n] \in SUBSET Slot
         /\ t[side][n] \in Link
<1>1. t[side][n] \in Link
  BY Fields
<1>2. below[n] = {n} \cup below[t[side][n]] \cup below[t[Opposite(side)][n]]
  BY DEF Ordered
<1>3. n \notin below[t[side][n]]
  BY Strict DEF Ordered
<1>4. below[n] \in SUBSET Slot
  BY DEF Ordered, Link
<1> QED BY <1>1, <1>2, <1>3, <1>4

\* What holds of a node when it holds of its children holds of every node.
LEMMA DownInduction ==
  ASSUME NEW t \in Tree, NEW below, Ordered(t, below), NEW S \in SUBSET Slot,
         \A n \in Slot : (\A side \in Side : t[side][n] \in S \cup {NULL}) => n \in S
  PROVE  S = Slot
<1> DEFINE rank == [n \in Slot |-> Cardinality(below[n])]
<1>1. \A n \in Slot : IsFiniteSet(below[n]) /\ Cardinality(below[n]) \in Nat
  <2>1. \A n \in Slot : below[n] \in SUBSET Slot
    BY DEF Ordered, Link
  <2> QED BY <2>1, SlotAssumption, FS_Subset, FS_CardinalityType
<1>2. rank \in [Slot -> Nat]
  BY <1>1
<1>3. ASSUME NEW n \in Slot, NEW side \in Side, t[side][n] # NULL
      PROVE  t[side][n] \in Slot /\ rank[t[side][n]] < rank[n]
  <2> DEFINE c == t[side][n]
  <2>1. c \in Slot
    BY <1>3, Fields DEF Link
  <2>2. /\ n \notin below[c] /\ n \in below[n]
        /\ below[c] \in SUBSET below[n]
    BY ChildBelow
  <2> HIDE DEF c
  <2>3. Cardinality(below[c]) <= Cardinality(below[n])
    BY <1>1, <2>2, FS_Subset
  <2>4. Cardinality(below[c]) # Cardinality(below[n])
    BY <1>1, <2>2, FS_Subset
  <2> QED BY <1>1, <2>1, <2>3, <2>4 DEF c
<1>4. ASSUME NEW n \in Slot, \A m \in Slot : rank[m] < rank[n] => m \in S
      PROVE  n \in S
  <2>1. \A side \in Side : t[side][n] \in S \cup {NULL}
    BY <1>3, <1>4
  <2> QED BY <2>1
<1> HIDE DEF rank
<1> QED BY <1>2, <1>4, Descent

\* What holds of a node when it holds of its parent holds of every node.
LEMMA UpInduction ==
  ASSUME NEW t \in Tree, NEW below, Ordered(t, below), Linked(t, below),
         NEW S \in SUBSET Slot,
         \A n \in Slot : t.parent[n] \in S \cup {NULL} => n \in S
  PROVE  S = Slot
<1> DEFINE Rest(n) == Slot \ below[n]
           rank == [n \in Slot |-> Cardinality(Rest(n))]
<1>1. \A n \in Slot : IsFiniteSet(Rest(n)) /\ Cardinality(Rest(n)) \in Nat
  <2>1. \A n \in Slot : Rest(n) \in SUBSET Slot
    OBVIOUS
  <2> HIDE DEF Rest
  <2> QED BY <2>1, SlotAssumption, FS_Subset, FS_CardinalityType
<1>2. rank \in [Slot -> Nat]
  BY <1>1
<1>3. ASSUME NEW n \in Slot, t.parent[n] # NULL
      PROVE  t.parent[n] \in Slot /\ rank[t.parent[n]] < rank[n]
  <2> DEFINE p == t.parent[n]
  <2>1. p \in Slot
    BY <1>3, Fields DEF Link
  <2>2. PICK side \in Side : t[side][p] = n
    BY <1>3 DEF Linked
  <2>3. /\ p \notin below[n] /\ p \in below[p]
        /\ below[n] \subseteq below[p]
    BY <2>1, <2>2, ChildBelow
  <2>4. Rest(p) \in SUBSET Rest(n) /\ Rest(p) # Rest(n)
    BY <2>1, <2>3
  <2> HIDE DEF p, Rest
  <2>5. Cardinality(Rest(p)) <= Cardinality(Rest(n))
    BY <1>1, <2>4, FS_Subset
  <2>6. Cardinality(Rest(p)) # Cardinality(Rest(n))
    BY <1>1, <2>4, FS_Subset
  <2> QED BY <1>1, <2>1, <2>5, <2>6 DEF p
<1>4. ASSUME NEW n \in Slot, \A m \in Slot : rank[m] < rank[n] => m \in S
      PROVE  n \in S
  <2>1. t.parent[n] \in S \cup {NULL}
    BY <1>3, <1>4
  <2> QED BY <2>1
<1> HIDE DEF rank
<1> QED BY <1>2, <1>4, Descent

\* The subtree at a node below another one is part of that one's.
LEMMA Transitive ==
  ASSUME NEW t \in Tree, NEW below, Ordered(t, below)
  PROVE  \A y \in Slot : \A x \in below[y] : below[x] \subseteq below[y]
<1> DEFINE S == {y \in Slot : \A x \in below[y] : below[x] \subseteq below[y]}
<1>1. ASSUME NEW y \in Slot, \A side \in Side : t[side][y] \in S \cup {NULL}
      PROVE  y \in S
  <2>1. SUFFICES ASSUME NEW x \in below[y] PROVE below[x] \subseteq below[y]
    OBVIOUS
  <2>2. x = y \/ \E side \in Side : x \in below[t[side][y]]
    BY <2>1 DEF Ordered, Side, Opposite
  <2>3. ASSUME NEW side \in Side, x \in below[t[side][y]] PROVE below[x] \subseteq below[y]
    <3>1. t[side][y] # NULL
      BY <2>3 DEF Ordered
    <3>2. t[side][y] \in S
      BY <1>1, <3>1
    <3>3. below[x] \subseteq below[t[side][y]]
      BY <2>3, <3>2
    <3> QED BY <3>3, ChildBelow
  <2> QED BY <2>2, <2>3
<1>2. S \in SUBSET Slot
  OBVIOUS
<1> HIDE DEF S
<1>3. S = Slot
  BY <1>1, <1>2, DownInduction
<1> QED BY <1>3 DEF S

-----------------------------------------------------------------------------
(***************************************************************************)
(* Rotations                                                               *)
(***************************************************************************)

\* A node, a child of it and the nodes around them are different.
LEMMA Distinct ==
  ASSUME NEW t, NEW below, Shape(t, below), NEW y \in Slot, NEW side \in Side,
         t[side][y] # NULL
  PROVE  /\ t[side][y] \in Slot /\ t[side][y] # y
         /\ t.parent[t[side][y]] = y
         /\ t[side][y] # t[Opposite(side)][y]
         /\ y \notin below[t[side][y]]
         /\ t.rb_node # t[side][y]
         /\ y \in below[t.rb_node] /\ t[side][y] \in below[t.rb_node]
         /\ \A s \in Side : t[s][t[side][y]] \notin {y, t[side][y]}
<1> DEFINE x == t[side][y]
<1>1. t \in Tree /\ Ordered(t, below) /\ Linked(t, below) /\ Opposite(side) \in Side
  BY Sides DEF Shape
<1>2. x \in Slot
  BY <1>1, Fields DEF Link
<1>3. y \notin below[x] /\ x \in below[x] /\ x # y
  BY <1>1, <1>2, ChildBelow
<1>4. t.parent[x] = y
  BY <1>1 DEF Linked
<1>5. x # t[Opposite(side)][y]
  <2>1. SUFFICES ASSUME x = t[Opposite(side)][y] PROVE FALSE
    OBVIOUS
  <2>2. Before(side, x, y) /\ Before(Opposite(side), x, y)
    BY <1>1, <1>3, <2>1 DEF Ordered
  <2> QED BY <1>2, <2>2, Strict
<1>6. t.rb_node # x
  BY <1>1, <1>2, <1>4, SlotAssumption DEF Linked
<1>7. y \in below[t.rb_node] /\ x \in below[t.rb_node]
  <2>1. y \in below[t.rb_node]
    BY <1>1 DEF Linked
  <2>2. y # NULL
    BY SlotAssumption
  <2> QED BY <1>1, <1>2, <1>4, <2>1, <2>2 DEF Linked
<1>8. ASSUME NEW s \in Side PROVE t[s][x] \notin {y, x}
  <2>1. /\ x \notin below[t[s][x]]
        /\ below[t[s][x]] \subseteq below[x]
    BY <1>1, <1>2, ChildBelow
  <2>2. y \in below[y]
    BY <1>1, ChildBelow
  <2> QED BY <1>3, <2>1, <2>2
<1> QED BY <1>2, <1>3, <1>4, <1>5, <1>6, <1>7, <1>8

\* t2 is t with x, the child of y on that side, above y.
Turned(t, t2, y, x, side) ==
  LET far == Opposite(side)
  IN  /\ t2.rb_node = IF t.rb_node = y THEN x ELSE t.rb_node
      /\ \A n \in Slot :
           /\ t2[side][n] = IF n = y THEN t[far][x]
                            ELSE IF t[side][n] = y THEN x ELSE t[side][n]
           /\ t2[far][n] = IF n = x THEN y
                           ELSE IF t[far][n] = y THEN x ELSE t[far][n]
           /\ t2.parent[n] = IF n = y THEN x
                             ELSE IF n = x THEN t.parent[y]
                             ELSE IF n = t[far][x] THEN y ELSE t.parent[n]

TurnedBelow(t, below, y, x, side) ==
  [below EXCEPT ![x] = below[y],
                ![y] = {y} \cup below[t[Opposite(side)][x]] \cup below[t[Opposite(side)][y]]]

\* A rotation keeps the order, the parent links and the set of nodes.
LEMMA TurnShape ==
  ASSUME NEW t, NEW below, Shape(t, below), NEW t2 \in Tree,
         NEW y \in Slot, NEW x \in Slot, NEW side \in Side, t[side][y] = x,
         Turned(t, t2, y, x, side)
  PROVE  /\ Shape(t2, TurnedBelow(t, below, y, x, side))
         /\ TurnedBelow(t, below, y, x, side)[t2.rb_node] = below[t.rb_node]
<1> DEFINE far == Opposite(side)
           a == t[side][x]
           c == t[far][x]
           d == t[far][y]
           b2 == TurnedBelow(t, below, y, x, side)
<1>1. t \in Tree /\ Ordered(t, below) /\ Linked(t, below)
  BY DEF Shape
<1>2. far \in Side /\ far # side /\ \A s \in Side : s = side \/ s = far
  BY Sides
<1>3. Opposite(far) = side
  BY Sides
<1>4. x # NULL /\ y # NULL
  BY SlotAssumption
<1>5. /\ x # y /\ t.parent[x] = y /\ x # d /\ t.rb_node # x
      /\ y \in below[t.rb_node] /\ x \in below[t.rb_node]
      /\ \A s \in Side : t[s][x] \notin {y, x}
  BY <1>4, Distinct
<1>6. a \in Link /\ c \in Link /\ d \in Link /\ d # y /\ a \notin {x, y} /\ c \notin {x, y}
  <2>1. a \in Link /\ c \in Link /\ d \in Link
    BY <1>1, <1>2, Fields
  <2>2. d # y
    BY <1>1, <1>2, ChildBelow
  <2> QED BY <1>2, <1>5, <2>1, <2>2
<1>7. /\ b2 \in [Link -> SUBSET Slot]
      /\ b2[x] = below[y]
      /\ b2[y] = {y} \cup below[c] \cup below[d]
      /\ \A m \in Link \ {x, y} : b2[m] = below[m]
  <2>1. below \in [Link -> SUBSET Slot] /\ x \in Link /\ y \in Link
    BY <1>1 DEF Ordered, Link
  <2>2. {y} \cup below[c] \cup below[d] \in SUBSET Slot
    BY <1>6, <2>1
  <2> QED BY <1>5, <2>1, <2>2 DEF TurnedBelow
<1>8. /\ below[y] = {y} \cup below[x] \cup below[d]
      /\ below[x] = {x} \cup below[a] \cup below[c]
      /\ below[NULL] = {}
  BY <1>1 DEF Ordered
<1>9. /\ t2[side][y] = c /\ t2[far][y] = d /\ t2[side][x] = a /\ t2[far][x] = y
  BY <1>2, <1>5, <1>6 DEF Turned
<1>10. ASSUME NEW n \in Slot \ {x, y}, NEW s \in Side
       PROVE  /\ t2[s][n] = IF t[s][n] = y THEN x ELSE t[s][n]
              /\ t[s][n] # x
              /\ b2[t2[s][n]] = below[t[s][n]]
  <2>1. t2[s][n] = IF t[s][n] = y THEN x ELSE t[s][n]
    BY <1>2 DEF Turned
  <2>2. t[s][n] # x /\ t[s][n] \in Link
    BY <1>1, <1>4, <1>5, Fields DEF Linked
  <2> QED BY <1>7, <2>1, <2>2
<1> HIDE DEF b2
<1>11. Ordered(t2, b2)
  <2>1. b2[NULL] = {}
    BY <1>4, <1>7, <1>8 DEF Link
  <2>2. ASSUME NEW n \in Slot PROVE b2[n] = {n} \cup b2[t2[side][n]] \cup b2[t2[far][n]]
    <3>1. CASE n = y
      BY <1>6, <1>7, <1>9, <3>1, <1>5
    <3>2. CASE n = x
      BY <1>6, <1>7, <1>8, <1>9, <3>2
    <3>3. CASE n \notin {x, y}
      <4>1. b2[n] = below[n]
        BY <1>7, <3>3 DEF Link
      <4>2. below[n] = {n} \cup below[t[side][n]] \cup below[t[far][n]]
        BY <1>1 DEF Ordered
      <4> QED BY <1>2, <1>10, <3>3, <4>1, <4>2
    <3> QED BY <3>1, <3>2, <3>3
  <2>3. \A n \in Slot : \A s \in Side :
          b2[n] = {n} \cup b2[t2[s][n]] \cup b2[t2[Opposite(s)][n]]
    <3> SUFFICES ASSUME NEW n \in Slot, NEW s \in Side
                 PROVE  b2[n] = {n} \cup b2[t2[s][n]] \cup b2[t2[Opposite(s)][n]]
      OBVIOUS
    <3>1. CASE s = side
      BY <2>2, <3>1
    <3>2. CASE s = far
      BY <1>3, <2>2, <3>2
    <3> QED BY <1>2, <3>1, <3>2
  <2>4. /\ \A z \in below[c] : z \in Slot /\ Before(side, z, y) /\ Before(far, z, x)
        /\ \A z \in below[d] : z \in Slot /\ Before(far, z, y)
        /\ \A z \in below[a] : Before(side, z, x)
        /\ Before(side, x, y)
    <3>1. \A z \in below[x] : Before(side, z, y)
      BY <1>1 DEF Ordered
    <3>2. below[c] \in SUBSET Slot /\ below[d] \in SUBSET Slot
      BY <1>1, <1>6 DEF Ordered
    <3>3. x \in below[x] /\ below[c] \subseteq below[x]
      BY <1>8
    <3>4. /\ \A z \in below[c] : Before(far, z, x)
          /\ \A z \in below[d] : Before(far, z, y)
          /\ \A z \in below[a] : Before(side, z, x)
      BY <1>1, <1>2 DEF Ordered
    <3> QED BY <3>1, <3>2, <3>3, <3>4
  <2>5. Before(far, y, x)
    BY <2>4, Strict
  <2>6. \A z \in below[d] : Before(far, z, x)
    BY <1>2, <2>4, <2>5, Strict
  <2>7. ASSUME NEW n \in Slot, NEW s \in Side, NEW z \in b2[t2[s][n]]
        PROVE  Before(s, z, n)
    <3>1. CASE n = y
      <4>1. CASE s = side
        BY <1>6, <1>7, <1>9, <2>4, <2>7, <3>1, <4>1
      <4>2. CASE s = far
        BY <1>5, <1>6, <1>7, <1>9, <2>4, <2>7, <3>1, <4>2
      <4> QED BY <1>2, <4>1, <4>2
    <3>2. CASE n = x
      <4>1. CASE s = side
        BY <1>6, <1>7, <1>9, <2>4, <2>7, <3>2, <4>1
      <4>2. CASE s = far
        BY <1>7, <1>9, <2>4, <2>5, <2>6, <2>7, <3>2, <4>2
      <4> QED BY <1>2, <4>1, <4>2
    <3>3. CASE n \notin {x, y}
      BY <1>1, <1>10, <2>7, <3>3 DEF Ordered
    <3> QED BY <3>1, <3>2, <3>3
  <2> QED BY <1>7, <2>1, <2>3, <2>7 DEF Ordered
<1>12. /\ t2.parent[y] = x /\ t2.parent[x] = t.parent[y]
       /\ c # NULL => t2.parent[c] = y
       /\ \A n \in Slot \ {x, y, c} : t2.parent[n] = t.parent[n]
  BY <1>5, <1>6 DEF Turned, Link
<1>13. /\ c # NULL => c \in Slot /\ t.parent[c] = x
       /\ d # NULL => d \in Slot /\ t.parent[d] = y /\ d # c
       /\ a # NULL => a \in Slot /\ t.parent[a] = x /\ a # c
  <2>1. c # NULL => c \in Slot /\ t.parent[c] = x
    BY <1>1, <1>2, <1>6 DEF Linked, Link
  <2>2. d # NULL => d \in Slot /\ t.parent[d] = y
    BY <1>1, <1>2, <1>6 DEF Linked, Link
  <2>3. a # NULL => a \in Slot /\ t.parent[a] = x /\ a # c
    BY <1>1, <1>2, <1>6, Distinct DEF Linked, Link
  <2> QED BY <1>5, <2>1, <2>2, <2>3
<1>14. ASSUME NEW n \in Slot, NEW s \in Side, t2[s][n] # NULL
       PROVE  t2.parent[t2[s][n]] = n
  <2>1. CASE n = y
    <3>1. CASE s = side
      BY <1>9, <1>12, <1>14, <2>1, <3>1
    <3>2. CASE s = far
      BY <1>5, <1>6, <1>9, <1>12, <1>13, <1>14, <2>1, <3>2
    <3> QED BY <1>2, <3>1, <3>2
  <2>2. CASE n = x
    <3>1. CASE s = side
      BY <1>6, <1>9, <1>12, <1>13, <1>14, <2>2, <3>1
    <3>2. CASE s = far
      BY <1>9, <1>12, <2>2, <3>2
    <3> QED BY <1>2, <3>1, <3>2
  <2>3. CASE n \notin {x, y}
    <3>1. CASE t[s][n] = y
      BY <1>1, <1>4, <1>10, <1>12, <2>3, <3>1 DEF Linked
    <3>2. CASE t[s][n] # y
      <4>1. t2[s][n] = t[s][n] /\ t[s][n] # x
        BY <1>10, <2>3, <3>2
      <4>2. t.parent[t[s][n]] = n /\ t[s][n] \in Slot
        BY <1>1, <1>14, <4>1, Fields DEF Linked, Link
      <4>3. t[s][n] # c
        BY <1>13, <2>3, <4>2, SlotAssumption
      <4>4. t[s][n] \in Slot \ {x, y, c}
        BY <3>2, <4>1, <4>2, <4>3
      <4> HIDE DEF c
      <4> QED BY <1>12, <4>1, <4>2, <4>4
    <3> QED BY <3>1, <3>2
  <2> QED BY <2>1, <2>2, <2>3
<1>15. ASSUME NEW n \in Slot, t2.parent[n] # NULL
       PROVE  \E s \in Side : t2[s][t2.parent[n]] = n
  <2>1. CASE n = y
    BY <1>2, <1>9, <1>12, <2>1
  <2>2. CASE n = x
    <3>1. PICK s \in Side : t[s][t.parent[y]] = y
      BY <1>1, <1>12, <1>15, <2>2 DEF Linked
    <3>2. t.parent[y] \in Slot \ {x, y}
      <4>1. t.parent[y] \in Slot
        BY <1>1, <1>12, <1>15, <2>2, Fields DEF Link
      <4>2. t.parent[y] # x
        BY <1>5, <3>1
      <4>3. t.parent[y] # y
        BY <1>1, <3>1, ChildBelow
      <4> QED BY <4>1, <4>2, <4>3
    <3> QED BY <1>10, <1>12, <2>2, <3>1, <3>2
  <2>3. CASE n = c
    BY <1>9, <1>12, <2>3, <1>15, SlotAssumption
  <2>4. CASE n \notin {x, y, c}
    <3>1. t2.parent[n] = t.parent[n] /\ t.parent[n] \in Slot
      BY <1>1, <1>12, <1>15, <2>4, Fields DEF Link
    <3>2. PICK s \in Side : t[s][t.parent[n]] = n
      BY <1>1, <1>15, <3>1 DEF Linked
    <3>3. CASE t.parent[n] = y
      BY <1>2, <1>9, <2>4, <3>1, <3>2, <3>3
    <3>4. CASE t.parent[n] = x
      BY <1>2, <1>9, <2>4, <3>1, <3>2, <3>4
    <3>5. CASE t.parent[n] \notin {x, y}
      BY <1>10, <2>4, <3>1, <3>2, <3>5
    <3> QED BY <3>3, <3>4, <3>5
  <2> QED BY <2>1, <2>2, <2>3, <2>4
<1>16. t2.rb_node = IF t.rb_node = y THEN x ELSE t.rb_node
  BY DEF Turned
<1>17. b2[t2.rb_node] = below[t.rb_node]
  BY <1>1, <1>5, <1>7, <1>16, Fields
<1>18. t2.rb_node # NULL => t2.parent[t2.rb_node] = NULL
  <2>1. CASE t.rb_node = y
    BY <1>1, <1>4, <1>12, <1>16, <2>1 DEF Linked
  <2>2. CASE t.rb_node # y /\ t.rb_node # NULL
    <3>1. t.parent[t.rb_node] = NULL /\ t.rb_node \in Slot
      BY <1>1, <2>2, Fields DEF Linked, Link
    <3> QED BY <1>4, <1>5, <1>12, <1>13, <1>16, <2>2, <3>1
  <2> QED BY <1>16, <2>1, <2>2
<1>19. ASSUME NEW n \in Slot
       PROVE  n \in below[t.rb_node] <=> n = t2.rb_node \/ t2.parent[n] # NULL
  <2>1. n \in below[t.rb_node] <=> n = t.rb_node \/ t.parent[n] # NULL
    BY <1>1 DEF Linked
  <2>2. CASE n = y
    BY <1>4, <1>5, <1>12, <2>2
  <2>3. CASE n = x
    <3>1. y = t.rb_node \/ t.parent[y] # NULL
      BY <1>1, <1>5 DEF Linked
    <3> QED BY <1>5, <1>12, <1>16, <2>3, <3>1
  <2>4. CASE n = c
    BY <1>4, <1>12, <1>13, <2>1, <2>4, SlotAssumption
  <2>5. CASE n \notin {x, y, c}
    BY <1>12, <1>16, <2>1, <2>5
  <2> QED BY <2>2, <2>3, <2>4, <2>5
<1>20. ASSUME NEW n \in Slot, NEW s \in Side, n \notin below[t.rb_node]
       PROVE  t2[s][n] = NULL
  BY <1>1, <1>4, <1>5, <1>10, <1>20 DEF Linked
<1>21. Linked(t2, b2)
  BY <1>14, <1>15, <1>17, <1>18, <1>19, <1>20 DEF Linked
<1> QED BY <1>11, <1>17, <1>21 DEF Shape, b2

-----------------------------------------------------------------------------
(***************************************************************************)
(* Removing a node with one child, exchanging a node, adding a leaf        *)
(***************************************************************************)

\* A node that is not in the tree is alone and below no other.
LEMMA Outside ==
  ASSUME NEW t, NEW below, Shape(t, below), NEW w \in Slot, w \notin below[t.rb_node]
  PROVE  /\ t.rb_node # w /\ t.parent[w] = NULL /\ below[w] = {w}
         /\ \A s \in Side : t[s][w] = NULL
         /\ \A m \in Slot : \A s \in Side : t[s][m] # w
         /\ \A m \in Link \ {w} : w \notin below[m]
<1>1. t \in Tree /\ Ordered(t, below) /\ Linked(t, below)
  BY DEF Shape
<1>2. t.rb_node # w /\ t.parent[w] = NULL /\ \A s \in Side : t[s][w] = NULL
  BY <1>1 DEF Linked
<1>3. below[w] = {w}
  BY <1>1, <1>2 DEF Ordered, Side, Opposite
<1>4. \A m \in Slot : \A s \in Side : t[s][m] # w
  BY <1>1, <1>2, SlotAssumption DEF Linked
<1>5. ASSUME NEW m \in Link \ {w}, w \in below[m] PROVE FALSE
  <2>1. m \in Slot
    BY <1>1, <1>5 DEF Link, Ordered
  <2>2. CASE m \in below[t.rb_node]
    <3>1. t.rb_node \in Slot
      BY <1>1, <2>2, Fields DEF Link, Ordered
    <3> QED BY <1>1, <1>5, <2>2, <3>1, Transitive
  <2>3. CASE m \notin below[t.rb_node]
    BY <1>1, <1>5, <2>1, <2>3 DEF Linked, Ordered, Side, Opposite
  <2> QED BY <2>2, <2>3
<1> QED BY <1>2, <1>3, <1>4, <1>5

\* t2 is t without n, whose only child c takes its place.
Spliced(t, t2, n, c) ==
  /\ t2.rb_node = IF t.rb_node = n THEN c ELSE t.rb_node
  /\ \A m \in Slot :
       /\ \A s \in Side : t2[s][m] = IF m = n THEN NULL
                                     ELSE IF t[s][m] = n THEN c ELSE t[s][m]
       /\ t2.parent[m] = IF m = n THEN NULL
                         ELSE IF m = c THEN t.parent[n] ELSE t.parent[m]

SplicedBelow(below, n) == [m \in Link |-> IF m = n THEN {n} ELSE below[m] \ {n}]

LEMMA SpliceShape ==
  ASSUME NEW t, NEW below, Shape(t, below), NEW t2 \in Tree, NEW n \in below[t.rb_node],
         NEW side \in Side, t[side][n] = NULL, Spliced(t, t2, n, t[Opposite(side)][n])
  PROVE  /\ Shape(t2, SplicedBelow(below, n))
         /\ SplicedBelow(below, n)[t2.rb_node] = below[t.rb_node] \ {n}
<1> DEFINE far == Opposite(side)
           c == t[far][n]
           b2 == SplicedBelow(below, n)
<1>1. t \in Tree /\ Ordered(t, below) /\ Linked(t, below)
  BY DEF Shape
<1>2. /\ below \in [Link -> SUBSET Slot] /\ t.rb_node \in Link
      /\ far \in Side /\ \A s \in Side : s = side \/ s = far
  BY <1>1, Fields, Sides DEF Ordered
<1>3. n \in Slot /\ n # NULL
  BY <1>2, SlotAssumption
<1>4. c \in Link /\ c # n /\ n \notin below[c]
  BY <1>1, <1>2, <1>3, Fields, ChildBelow
<1>5. below[NULL] = {} /\ below[n] = {n} \cup below[c]
  BY <1>1, <1>2, <1>3 DEF Ordered
<1>6. c # NULL => c \in Slot /\ t.parent[c] = n
  BY <1>1, <1>2, <1>3, <1>4 DEF Linked, Link
<1>7. /\ b2 \in [Link -> SUBSET Slot] /\ b2[n] = {n} /\ b2[NULL] = {}
      /\ \A m \in Link \ {n} : b2[m] = below[m] \ {n}
  <2>1. n \in Link /\ NULL \in Link
    BY <1>3 DEF Link
  <2> QED BY <1>2, <1>3, <1>5, <2>1 DEF SplicedBelow
<1>8. \A s \in Side : t2[s][n] = NULL
  BY <1>3 DEF Spliced
<1>9. ASSUME NEW m \in Slot \ {n}, NEW s \in Side
      PROVE  /\ t2[s][m] = IF t[s][m] = n THEN c ELSE t[s][m]
             /\ b2[t2[s][m]] = below[t[s][m]] \ {n}
  <2>1. t2[s][m] = IF t[s][m] = n THEN c ELSE t[s][m]
    BY DEF Spliced
  <2>2. t[s][m] \in Link
    BY <1>1, Fields
  <2> QED BY <1>4, <1>5, <1>7, <2>1, <2>2
<1> HIDE DEF b2
<1>10. Ordered(t2, b2)
  <2>1. ASSUME NEW m \in Slot, NEW s \in Side
        PROVE  b2[m] = {m} \cup b2[t2[s][m]] \cup b2[t2[Opposite(s)][m]]
    <3>1. CASE m = n
      BY <1>7, <1>8, <3>1, Sides
    <3>2. CASE m # n
      <4>1. Opposite(s) \in Side
        BY Sides
      <4>2. below[m] = {m} \cup below[t[s][m]] \cup below[t[Opposite(s)][m]]
        BY <1>1 DEF Ordered
      <4>3. b2[m] = below[m] \ {n}
        BY <1>7, <3>2 DEF Link
      <4> QED BY <1>9, <3>2, <4>1, <4>2, <4>3
    <3> QED BY <3>1, <3>2
  <2>2. ASSUME NEW m \in Slot, NEW s \in Side, NEW z \in b2[t2[s][m]]
        PROVE  Before(s, z, m)
    <3>1. CASE m = n
      BY <1>7, <1>8, <2>2, <3>1
    <3>2. CASE m # n
      BY <1>1, <1>9, <2>2, <3>2 DEF Ordered
    <3> QED BY <3>1, <3>2
  <2> QED BY <1>7, <2>1, <2>2 DEF Ordered
<1>11. /\ t2.parent[n] = NULL
       /\ c # NULL => t2.parent[c] = t.parent[n]
       /\ \A m \in Slot \ {n, c} : t2.parent[m] = t.parent[m]
       /\ t2.rb_node = IF t.rb_node = n THEN c ELSE t.rb_node
  BY <1>3, <1>4, <1>6 DEF Spliced
<1>12. ASSUME NEW m \in Slot, NEW s \in Side, t2[s][m] # NULL
       PROVE  t2.parent[t2[s][m]] = m
  <2>1. m # n
    BY <1>8, <1>12
  <2>2. CASE t[s][m] = n
    BY <1>1, <1>3, <1>9, <1>11, <1>12, <2>1, <2>2 DEF Linked
  <2>3. CASE t[s][m] # n
    <3>1. t2[s][m] = t[s][m] /\ t[s][m] \in Slot /\ t.parent[t[s][m]] = m
      BY <1>1, <1>9, <1>12, <2>1, <2>3, Fields DEF Linked, Link
    <3>2. t[s][m] # c
      BY <1>6, <2>1, <3>1, SlotAssumption
    <3> HIDE DEF c
    <3> QED BY <1>11, <2>3, <3>1, <3>2
  <2> QED BY <2>2, <2>3
<1>13. ASSUME NEW m \in Slot, t2.parent[m] # NULL
       PROVE  \E s \in Side : t2[s][t2.parent[m]] = m
  <2>1. m # n
    BY <1>11, <1>13
  <2>2. CASE m = c
    <3>1. t2.parent[m] = t.parent[n] /\ t.parent[n] \in Slot
      BY <1>1, <1>3, <1>11, <1>13, <2>2, SlotAssumption, Fields DEF Link
    <3>2. PICK s \in Side : t[s][t.parent[n]] = n
      BY <1>1, <1>3, <1>13, <3>1 DEF Linked
    <3>3. t.parent[n] # n
      BY <1>1, <1>3, <3>2, ChildBelow
    <3> QED BY <1>9, <2>2, <3>1, <3>2, <3>3
  <2>3. CASE m # c
    <3>1. t2.parent[m] = t.parent[m] /\ t.parent[m] \in Slot
      BY <1>1, <1>11, <1>13, <2>1, <2>3, Fields DEF Link
    <3>2. PICK s \in Side : t[s][t.parent[m]] = m
      BY <1>1, <1>13, <3>1 DEF Linked
    <3>3. t.parent[m] # n
      BY <1>2, <2>3, <3>2, SlotAssumption
    <3> QED BY <1>9, <2>1, <3>1, <3>2, <3>3
  <2> QED BY <2>2, <2>3
<1>14. b2[t2.rb_node] = below[t.rb_node] \ {n}
  BY <1>2, <1>4, <1>5, <1>7, <1>11
<1>15. t2.rb_node # NULL => t2.parent[t2.rb_node] = NULL
  <2>1. CASE t.rb_node = n
    BY <1>1, <1>3, <1>11, <2>1 DEF Linked
  <2>2. CASE t.rb_node # n /\ t.rb_node # NULL
    <3>1. t.parent[t.rb_node] = NULL /\ t.rb_node \in Slot
      BY <1>1, <1>2, <2>2 DEF Linked, Link
    <3> QED BY <1>3, <1>6, <1>11, <2>2, <3>1
  <2> QED BY <1>11, <2>1, <2>2
<1>16. ASSUME NEW m \in Slot
       PROVE  m \in below[t.rb_node] \ {n} <=> m = t2.rb_node \/ t2.parent[m] # NULL
  <2>1. /\ m \in below[t.rb_node] <=> m = t.rb_node \/ t.parent[m] # NULL
        /\ n = t.rb_node \/ t.parent[n] # NULL
    BY <1>1, <1>3 DEF Linked
  <2>2. CASE m = n
    BY <1>4, <1>11, <2>2
  <2>3. CASE m = c
    BY <1>3, <1>4, <1>6, <1>11, <2>1, <2>3, SlotAssumption
  <2>4. CASE m \notin {n, c}
    BY <1>11, <2>1, <2>4
  <2> QED BY <2>2, <2>3, <2>4
<1>17. ASSUME NEW m \in Slot, NEW s \in Side, m \notin below[t.rb_node] \ {n}
       PROVE  t2[s][m] = NULL
  BY <1>1, <1>3, <1>8, <1>9, <1>17 DEF Linked
<1>18. Linked(t2, b2)
  BY <1>12, <1>13, <1>14, <1>15, <1>16, <1>17 DEF Linked
<1> QED BY <1>10, <1>14, <1>18 DEF Shape, b2

\* t2 is t with w in the place of o.
Substituted(t, t2, o, w) ==
  /\ t2.rb_node = IF t.rb_node = o THEN w ELSE t.rb_node
  /\ \A m \in Slot :
       /\ \A s \in Side : t2[s][m] = IF m = w THEN t[s][o]
                                     ELSE IF m = o THEN NULL
                                     ELSE IF t[s][m] = o THEN w ELSE t[s][m]
       /\ t2.parent[m] = IF m = w THEN t.parent[o]
                         ELSE IF m = o THEN NULL
                         ELSE IF t.parent[m] = o THEN w ELSE t.parent[m]

Exchanged(S, o, w) == IF o \in S THEN (S \ {o}) \cup {w} ELSE S

SubstitutedBelow(below, o, w) ==
  [m \in Link |-> IF m = w THEN Exchanged(below[o], o, w)
                  ELSE IF m = o THEN {o} ELSE Exchanged(below[m], o, w)]

LEMMA SubstituteShape ==
  ASSUME NEW t, NEW below, Shape(t, below), NEW t2 \in Tree,
         NEW o \in below[t.rb_node], NEW w \in Slot \ below[t.rb_node],
         \A s \in Side : \A x \in below[t[s][o]] : Before(s, x, w),
         \A m \in Slot : \A s \in Side : o \in below[t[s][m]] => Before(s, w, m),
         Substituted(t, t2, o, w)
  PROVE  /\ Shape(t2, SubstitutedBelow(below, o, w))
         /\ SubstitutedBelow(below, o, w)[t2.rb_node] = (below[t.rb_node] \ {o}) \cup {w}
<1> DEFINE b2 == SubstitutedBelow(below, o, w)
           X(S) == Exchanged(S, o, w)
<1>1. t \in Tree /\ Ordered(t, below) /\ Linked(t, below)
  BY DEF Shape
<1>2. below \in [Link -> SUBSET Slot] /\ t.rb_node \in Link /\ below[NULL] = {}
  BY <1>1, Fields DEF Ordered
<1>3. o \in Slot /\ o # NULL /\ w # NULL /\ o # w
  BY <1>2, SlotAssumption
<1>4. /\ t.rb_node # w /\ t.parent[w] = NULL
      /\ \A s \in Side : t[s][w] = NULL
      /\ \A m \in Slot : \A s \in Side : t[s][m] # w
      /\ \A m \in Link \ {w} : w \notin below[m]
  BY Outside
<1>5. \A s \in Side : t[s][o] \in Link \ {o, w} /\ o \notin below[t[s][o]]
  <2>1. \A s \in Side : t[s][o] \in Link /\ o \notin below[t[s][o]] /\ o \in below[o]
    BY <1>1, <1>3, ChildBelow
  <2> QED BY <1>3, <1>4, <2>1
<1>6. /\ b2 \in [Link -> SUBSET Slot] /\ b2[NULL] = {}
      /\ b2[w] = X(below[o]) /\ b2[o] = {o}
      /\ \A m \in Link \ {o, w} : b2[m] = X(below[m])
  <2>1. w \in Link /\ o \in Link /\ NULL \in Link
    BY <1>3 DEF Link
  <2>2. \A S \in SUBSET Slot : X(S) \in SUBSET Slot
    BY <1>3 DEF Exchanged
  <2>3. X({}) = {}
    BY DEF Exchanged
  <2> HIDE DEF X
  <2>4. b2 \in [Link -> SUBSET Slot]
    BY <1>2, <1>3, <2>1, <2>2 DEF SubstitutedBelow, X
  <2> QED BY <1>2, <1>3, <2>1, <2>3, <2>4 DEF SubstitutedBelow, X
<1>7. \A s \in Side : /\ t2[s][w] = t[s][o] /\ t2[s][o] = NULL
                      /\ b2[t2[s][w]] = below[t[s][o]]
  <2>1. \A s \in Side : t2[s][w] = t[s][o] /\ t2[s][o] = NULL
    BY <1>3 DEF Substituted
  <2> QED BY <1>5, <1>6, <2>1 DEF Exchanged
<1>8. ASSUME NEW m \in Slot \ {o, w}, NEW s \in Side
      PROVE  /\ t2[s][m] = IF t[s][m] = o THEN w ELSE t[s][m]
             /\ b2[t2[s][m]] = X(below[t[s][m]])
             /\ t[s][m] \in Link \ {w}
  <2>1. t2[s][m] = IF t[s][m] = o THEN w ELSE t[s][m]
    BY DEF Substituted
  <2>2. t[s][m] \in Link \ {w}
    BY <1>1, <1>4, Fields
  <2> QED BY <1>6, <2>1, <2>2
<1> HIDE DEF b2
<1>9. Ordered(t2, b2)
  <2>1. ASSUME NEW m \in Slot, NEW s \in Side
        PROVE  b2[m] = {m} \cup b2[t2[s][m]] \cup b2[t2[Opposite(s)][m]]
    <3>1. Opposite(s) \in Side
      BY Sides
    <3>2. \A k \in Slot : below[k] = {k} \cup below[t[s][k]] \cup below[t[Opposite(s)][k]]
      BY <1>1 DEF Ordered
    <3>3. CASE m = o
      BY <1>6, <1>7, <3>1, <3>3
    <3>4. CASE m = w
      <4>1. X(below[o]) = (below[o] \ {o}) \cup {w}
        BY <1>3, <3>2 DEF Exchanged
      <4>2. below[o] \ {o} = below[t[s][o]] \cup below[t[Opposite(s)][o]]
        BY <1>3, <1>5, <3>1, <3>2
      <4> HIDE DEF X
      <4> QED BY <1>6, <1>7, <3>1, <3>4, <4>1, <4>2
    <3>5. CASE m \notin {o, w}
      <4>1. b2[m] = X(below[m])
        BY <1>6, <3>5 DEF Link
      <4>2. X(below[m]) = {m} \cup X(below[t[s][m]]) \cup X(below[t[Opposite(s)][m]])
        BY <3>2, <3>5 DEF Exchanged
      <4> HIDE DEF X
      <4> QED BY <1>8, <3>1, <3>5, <4>1, <4>2
    <3> QED BY <3>3, <3>4, <3>5
  <2>2. ASSUME NEW m \in Slot, NEW s \in Side, NEW z \in b2[t2[s][m]]
        PROVE  Before(s, z, m)
    <3>1. CASE m = o
      BY <1>6, <1>7, <2>2, <3>1
    <3>2. CASE m = w
      BY <1>7, <2>2, <3>2
    <3>3. CASE m \notin {o, w}
      <4>1. z \in X(below[t[s][m]])
        BY <1>8, <2>2, <3>3
      <4>2. CASE z \in below[t[s][m]]
        BY <1>1, <4>2 DEF Ordered
      <4>3. CASE z \notin below[t[s][m]]
        BY <4>1, <4>3 DEF Exchanged
      <4> QED BY <4>2, <4>3
    <3> QED BY <3>1, <3>2, <3>3
  <2> QED BY <1>6, <2>1, <2>2 DEF Ordered
<1>10. /\ t2.parent[w] = t.parent[o] /\ t2.parent[o] = NULL
       /\ \A m \in Slot \ {o, w} :
            t2.parent[m] = IF t.parent[m] = o THEN w ELSE t.parent[m]
       /\ t2.rb_node = IF t.rb_node = o THEN w ELSE t.rb_node
  BY <1>3 DEF Substituted
<1>11. ASSUME NEW m \in Slot, NEW s \in Side, t2[s][m] # NULL
       PROVE  t2.parent[t2[s][m]] = m
  <2>1. m # o
    BY <1>7, <1>11
  <2>2. CASE m = w
    <3>1. t2[s][w] = t[s][o] /\ t[s][o] \in Slot \ {o, w} /\ t.parent[t[s][o]] = o
      BY <1>1, <1>3, <1>5, <1>7, <1>11, <2>2 DEF Linked, Link
    <3> QED BY <1>10, <2>2, <3>1
  <2>3. CASE m # w
    <3>1. CASE t[s][m] = o
      BY <1>1, <1>3, <1>8, <1>10, <2>1, <2>3, <3>1 DEF Linked
    <3>2. CASE t[s][m] # o
      <4>1. t2[s][m] = t[s][m] /\ t[s][m] \in Slot \ {o, w} /\ t.parent[t[s][m]] = m
        BY <1>1, <1>8, <1>11, <2>1, <2>3, <3>2 DEF Linked, Link
      <4> QED BY <1>10, <2>1, <4>1
    <3> QED BY <3>1, <3>2
  <2> QED BY <2>2, <2>3
<1>12. ASSUME NEW m \in Slot, t2.parent[m] # NULL
       PROVE  \E s \in Side : t2[s][t2.parent[m]] = m
  <2>1. m # o
    BY <1>10, <1>12
  <2>2. CASE m = w
    <3>1. t2.parent[m] = t.parent[o] /\ t.parent[o] \in Slot
      BY <1>1, <1>3, <1>10, <1>12, <2>2, Fields DEF Link
    <3>2. PICK s \in Side : t[s][t.parent[o]] = o
      BY <1>1, <1>3, <1>12, <3>1 DEF Linked
    <3>3. t.parent[o] \notin {o, w}
      BY <1>3, <1>4, <1>5, <3>2
    <3> QED BY <1>8, <2>2, <3>1, <3>2, <3>3
  <2>3. CASE m # w
    <3>1. t.parent[m] # NULL /\ t.parent[m] \in Slot
      BY <1>1, <1>3, <1>10, <1>12, <2>1, <2>3, Fields DEF Link
    <3>2. PICK s \in Side : t[s][t.parent[m]] = m
      BY <1>1, <3>1 DEF Linked
    <3>3. CASE t.parent[m] = o
      BY <1>7, <1>10, <2>1, <2>3, <3>2, <3>3
    <3>4. CASE t.parent[m] # o
      <4>1. t.parent[m] # w
        BY <1>4, <3>2, SlotAssumption
      <4> QED BY <1>8, <1>10, <2>1, <2>3, <3>1, <3>2, <3>4, <4>1
    <3> QED BY <3>3, <3>4
  <2> QED BY <2>2, <2>3
<1>13. b2[t2.rb_node] = (below[t.rb_node] \ {o}) \cup {w}
  BY <1>2, <1>4, <1>6, <1>10 DEF Exchanged
<1>14. t2.rb_node # NULL => t2.parent[t2.rb_node] = NULL
  <2>1. CASE t.rb_node = o
    BY <1>1, <1>3, <1>10, <2>1 DEF Linked
  <2>2. CASE t.rb_node # o /\ t.rb_node # NULL
    <3>1. t.parent[t.rb_node] = NULL /\ t.rb_node \in Slot
      BY <1>1, <1>2, <2>2 DEF Linked, Link
    <3> QED BY <1>3, <1>4, <1>10, <2>2, <3>1
  <2> QED BY <1>10, <2>1, <2>2
<1>15. ASSUME NEW m \in Slot
       PROVE  m \in (below[t.rb_node] \ {o}) \cup {w} <=> m = t2.rb_node \/ t2.parent[m] # NULL
  <2>1. /\ m \in below[t.rb_node] <=> m = t.rb_node \/ t.parent[m] # NULL
        /\ o = t.rb_node \/ t.parent[o] # NULL
    BY <1>1, <1>3 DEF Linked
  <2>2. CASE m = o
    BY <1>3, <1>10, <2>2
  <2>3. CASE m = w
    BY <1>10, <2>1, <2>3
  <2>4. CASE m \notin {o, w}
    BY <1>3, <1>10, <2>1, <2>4
  <2> QED BY <2>2, <2>3, <2>4
<1>16. ASSUME NEW m \in Slot, NEW s \in Side, m \notin (below[t.rb_node] \ {o}) \cup {w}
       PROVE  t2[s][m] = NULL
  BY <1>1, <1>3, <1>7, <1>8, <1>16 DEF Linked
<1>17. Linked(t2, b2)
  BY <1>11, <1>12, <1>13, <1>14, <1>15, <1>16 DEF Linked
<1> QED BY <1>9, <1>13, <1>17 DEF Shape, b2

\* t2 is t with the leaf w on a free side of at.
Attached(t, t2, w, at, side) ==
  /\ t2.rb_node = t.rb_node
  /\ \A m \in Slot :
       /\ \A s \in Side : t2[s][m] = IF m = at /\ s = side THEN w ELSE t[s][m]
       /\ t2.parent[m] = IF m = w THEN at ELSE t.parent[m]

AttachedBelow(below, w, at) ==
  [m \in Link |-> IF at \in below[m] THEN below[m] \cup {w} ELSE below[m]]

LEMMA AttachShape ==
  ASSUME NEW t, NEW below, Shape(t, below), NEW t2 \in Tree,
         NEW at \in below[t.rb_node], NEW w \in Slot \ below[t.rb_node],
         NEW side \in Side, t[side][at] = NULL, Before(side, w, at),
         \A m \in Slot : \A s \in Side : at \in below[t[s][m]] => Before(s, w, m),
         Attached(t, t2, w, at, side)
  PROVE  /\ Shape(t2, AttachedBelow(below, w, at))
         /\ AttachedBelow(below, w, at)[t2.rb_node] = below[t.rb_node] \cup {w}
<1> DEFINE b2 == AttachedBelow(below, w, at)
           X(S) == IF at \in S THEN S \cup {w} ELSE S
<1>1. t \in Tree /\ Ordered(t, below) /\ Linked(t, below)
  BY DEF Shape
<1>2. below \in [Link -> SUBSET Slot] /\ t.rb_node \in Link /\ below[NULL] = {}
  BY <1>1, Fields DEF Ordered
<1>3. at \in Slot /\ at # NULL /\ w # NULL /\ at # w
  BY <1>2, SlotAssumption
<1>4. /\ t.rb_node # w /\ t.parent[w] = NULL /\ below[w] = {w}
      /\ \A s \in Side : t[s][w] = NULL
      /\ \A m \in Slot : \A s \in Side : t[s][m] # w
      /\ \A m \in Link \ {w} : w \notin below[m]
  BY Outside
<1>5. \A s \in Side : t[s][at] \in Link /\ at \notin below[t[s][at]] /\ at \in below[at]
  BY <1>1, <1>3, ChildBelow
<1>6. /\ b2 \in [Link -> SUBSET Slot] /\ b2[NULL] = {} /\ b2[w] = {w}
      /\ \A m \in Link : b2[m] = X(below[m])
  <2>1. w \in Link /\ NULL \in Link
    BY DEF Link
  <2> QED BY <1>2, <1>3, <1>4, <2>1 DEF AttachedBelow
<1>7. /\ t2[side][at] = w
      /\ \A m \in Slot : \A s \in Side : m # at \/ s # side => t2[s][m] = t[s][m]
      /\ t2.parent[w] = at
      /\ \A m \in Slot \ {w} : t2.parent[m] = t.parent[m]
      /\ t2.rb_node = t.rb_node
  BY <1>3 DEF Attached
<1> HIDE DEF b2
<1>8. Ordered(t2, b2)
  <2>1. ASSUME NEW m \in Slot
        PROVE  b2[m] = {m} \cup b2[t2[side][m]] \cup b2[t2[Opposite(side)][m]]
    <3>1. Opposite(side) \in Side /\ Opposite(side) # side
      BY Sides
    <3>2. below[m] = {m} \cup below[t[side][m]] \cup below[t[Opposite(side)][m]]
      BY <1>1 DEF Ordered
    <3>3. /\ b2[m] = X(below[m])
          /\ t[side][m] \in Link /\ t[Opposite(side)][m] \in Link
      <4>1. t[side][m] \in Link /\ t[Opposite(side)][m] \in Link
        BY <1>1, <3>1, Fields
      <4>2. m \in Link
        BY DEF Link
      <4> HIDE DEF X
      <4> QED BY <1>6, <4>1, <4>2
    <3>4. CASE m = at
      <4>1. t2[Opposite(side)][m] = t[Opposite(side)][at] /\ t2[side][m] = w
        BY <1>7, <3>1, <3>4
      <4>2. b2[t[Opposite(side)][at]] = below[t[Opposite(side)][at]]
        BY <1>5, <1>6, <3>1
      <4>3. b2[m] = below[at] \cup {w} /\ below[t[side][at]] = {}
        BY <1>2, <1>5, <3>3, <3>4
      <4> QED BY <1>6, <3>2, <3>4, <4>1, <4>2, <4>3
    <3>5. CASE m # at
      <4>1. t2[side][m] = t[side][m] /\ t2[Opposite(side)][m] = t[Opposite(side)][m]
        BY <1>7, <3>1, <3>5
      <4>2. /\ b2[t[side][m]] = X(below[t[side][m]])
            /\ b2[t[Opposite(side)][m]] = X(below[t[Opposite(side)][m]])
        BY <1>6, <3>3
      <4>3. X(below[m]) = {m} \cup X(below[t[side][m]]) \cup X(below[t[Opposite(side)][m]])
        BY <3>2, <3>5
      <4> HIDE DEF X
      <4> QED BY <3>3, <4>1, <4>2, <4>3
    <3> QED BY <3>4, <3>5
  <2>2. ASSUME NEW m \in Slot, NEW s \in Side
        PROVE  b2[m] = {m} \cup b2[t2[s][m]] \cup b2[t2[Opposite(s)][m]]
    <3>1. CASE s = side
      BY <2>1, <3>1
    <3>2. CASE s = Opposite(side)
      <4>1. Opposite(s) = side
        BY <3>2, Sides
      <4> QED BY <2>1, <3>2, <4>1
    <3> QED BY <3>1, <3>2, Sides
  <2>3. ASSUME NEW m \in Slot, NEW s \in Side, NEW z \in b2[t2[s][m]]
        PROVE  Before(s, z, m)
    <3>1. CASE m = at /\ s = side
      BY <1>6, <1>7, <2>3, <3>1
    <3>2. CASE m # at \/ s # side
      <4>1. z \in X(below[t[s][m]])
        <5>1. t2[s][m] = t[s][m] /\ t[s][m] \in Link
          BY <1>1, <1>7, <3>2, Fields
        <5> QED BY <1>6, <2>3, <5>1
      <4>2. CASE z \in below[t[s][m]]
        BY <1>1, <4>2 DEF Ordered
      <4>3. CASE z \notin below[t[s][m]]
        BY <4>1, <4>3
      <4> QED BY <4>2, <4>3
    <3> QED BY <3>1, <3>2
  <2> QED BY <1>6, <2>2, <2>3 DEF Ordered
<1>9. ASSUME NEW m \in Slot, NEW s \in Side, t2[s][m] # NULL
      PROVE  t2.parent[t2[s][m]] = m
  <2>1. CASE m = at /\ s = side
    BY <1>7, <2>1
  <2>2. CASE m # at \/ s # side
    <3>1. t2[s][m] = t[s][m]
      BY <1>7, <2>2
    <3>2. t[s][m] \in Slot \ {w} /\ t.parent[t[s][m]] = m
      BY <1>1, <1>4, <1>9, <3>1, Fields DEF Linked, Link
    <3> QED BY <1>7, <3>1, <3>2
  <2> QED BY <2>1, <2>2
<1>10. ASSUME NEW m \in Slot, t2.parent[m] # NULL
       PROVE  \E s \in Side : t2[s][t2.parent[m]] = m
  <2>1. CASE m = w
    BY <1>7, <2>1
  <2>2. CASE m # w
    <3>1. t2.parent[m] = t.parent[m] /\ t.parent[m] \in Slot
      BY <1>1, <1>7, <1>10, <2>2, Fields DEF Link
    <3>2. PICK s \in Side : t[s][t.parent[m]] = m
      BY <1>1, <1>10, <3>1 DEF Linked
    <3>3. t.parent[m] # at \/ s # side
      BY <3>2, SlotAssumption
    <3> QED BY <1>7, <3>1, <3>2, <3>3
  <2> QED BY <2>1, <2>2
<1>11. b2[t2.rb_node] = below[t.rb_node] \cup {w}
  BY <1>2, <1>6, <1>7
<1>12. t2.rb_node # NULL => t2.parent[t2.rb_node] = NULL
  BY <1>1, <1>2, <1>4, <1>7 DEF Linked, Link
<1>13. ASSUME NEW m \in Slot
       PROVE  m \in below[t.rb_node] \cup {w} <=> m = t2.rb_node \/ t2.parent[m] # NULL
  BY <1>1, <1>3, <1>7 DEF Linked
<1>14. ASSUME NEW m \in Slot, NEW s \in Side, m \notin below[t.rb_node] \cup {w}
       PROVE  t2[s][m] = NULL
  BY <1>1, <1>7, <1>14 DEF Linked
<1>15. Linked(t2, b2)
  BY <1>9, <1>10, <1>11, <1>12, <1>13, <1>14 DEF Linked
<1> QED BY <1>8, <1>11, <1>15 DEF Shape, b2

-----------------------------------------------------------------------------
(***************************************************************************)
(* What the operations of rbtree.c do to the fields                        *)
(***************************************************************************)

\* Two trees with the same links.
SameLinks(t, r) ==
  /\ r.rb_node = t.rb_node
  /\ \A m \in Slot : /\ \A s \in Side : r[s][m] = t[s][m]
                     /\ r.parent[m] = t.parent[m]

LEMMA RecolourShape ==
  ASSUME NEW t, NEW below, Shape(t, below), NEW r \in Tree, SameLinks(t, r)
  PROVE  Shape(r, below)
<1>1. Ordered(r, below)
  BY Sides DEF Shape, SameLinks, Ordered
<1>2. Linked(r, below)
  <2>1. \A n \in Slot : r.parent[n] # NULL => r.parent[n] \in Slot
    BY Fields DEF Link
  <2>2. r.rb_node # NULL => r.rb_node \in Slot
    BY Fields DEF Link
  <2>3. \A n \in Slot : \A side \in Side : r[side][n] # NULL => r[side][n] \in Slot
    BY Fields DEF Link
  <2>4. Linked(t, below)
    BY DEF Shape
  <2> QED BY <2>1, <2>2, <2>3, <2>4 DEF SameLinks, Linked
<1> QED BY <1>1, <1>2 DEF Shape

\* r is t after SetChild, SetParentColorIfAny, SetParentIfAny, __rb_change_child.
ChildSet(t, r, n, side, c) ==
  /\ r \in Tree /\ r.rb_node = t.rb_node
  /\ \A m \in Slot :
       /\ \A s \in Side : r[s][m] = IF m = n /\ s = side THEN c ELSE t[s][m]
       /\ r.parent[m] = t.parent[m] /\ r.color[m] = t.color[m]

ParentColorSet(t, r, n, p, c) ==
  /\ r \in Tree /\ r.rb_node = t.rb_node
  /\ \A m \in Slot :
       /\ \A s \in Side : r[s][m] = t[s][m]
       /\ r.parent[m] = IF m = n THEN p ELSE t.parent[m]
       /\ r.color[m] = IF m = n THEN c ELSE t.color[m]

ParentSet(t, r, n, p) ==
  /\ r \in Tree /\ r.rb_node = t.rb_node
  /\ \A m \in Slot :
       /\ \A s \in Side : r[s][m] = t[s][m]
       /\ r.parent[m] = IF m = n THEN p ELSE t.parent[m]
       /\ r.color[m] = t.color[m]

ChildChanged(t, r, old, nw, p) ==
  /\ r \in Tree
  /\ r.rb_node = IF p = NULL THEN nw ELSE t.rb_node
  /\ \A m \in Slot :
       /\ \A s \in Side : r[s][m] = IF m = p /\ t[s][m] = old THEN nw ELSE t[s][m]
       /\ r.parent[m] = t.parent[m] /\ r.color[m] = t.color[m]

LEMMA SetChildFields ==
  ASSUME NEW t \in Tree, NEW n \in Slot, NEW side \in Side, NEW c \in Link
  PROVE  ChildSet(t, SetChild(t, n, side, c), n, side, c)
<1>1. CASE side = "rb_left"
  BY <1>1 DEF ChildSet, SetChild, Tree, Side
<1>2. CASE side = "rb_right"
  BY <1>2 DEF ChildSet, SetChild, Tree, Side
<1> QED BY <1>1, <1>2 DEF Side

LEMMA SetParentColorFields ==
  ASSUME NEW t \in Tree, NEW n \in Link, NEW p \in Link, NEW c \in Colour
  PROVE  /\ ParentColorSet(t, SetParentColorIfAny(t, n, p, c), n, p, c)
         /\ n # NULL => ParentColorSet(t, rb_set_parent_color(t, n, p, c), n, p, c)
<1>1. CASE n = NULL
  BY <1>1, SlotAssumption DEF SetParentColorIfAny, ParentColorSet
<1>2. CASE n \in Slot
  <2> DEFINE r == rb_set_parent_color(t, n, p, c)
  <2>1. /\ r \in Tree
        /\ r.rb_left = t.rb_left /\ r.rb_right = t.rb_right /\ r.rb_node = t.rb_node
        /\ r.parent = [t.parent EXCEPT ![n] = p]
        /\ r.color = [t.color EXCEPT ![n] = c]
    BY <1>2 DEF rb_set_parent_color, Tree
  <2>2. SetParentColorIfAny(t, n, p, c) = r
    BY <1>2, SlotAssumption DEF SetParentColorIfAny
  <2>3. t.parent \in [Slot -> Link] /\ t.color \in [Slot -> Colour]
    BY Fields
  <2> HIDE DEF r
  <2>4. \A s \in Side : r[s] = t[s]
    BY <2>1, Fields DEF Side
  <2>5. ParentColorSet(t, r, n, p, c)
    BY <2>1, <2>3, <2>4 DEF ParentColorSet
  <2> QED BY <2>2, <2>5 DEF r
<1> QED BY <1>1, <1>2 DEF Link

LEMMA SetParentFields ==
  ASSUME NEW t \in Tree, NEW n \in Link, NEW p \in Link
  PROVE  /\ ParentSet(t, SetParentIfAny(t, n, p), n, p)
         /\ n # NULL => ParentSet(t, rb_set_parent(t, n, p), n, p)
<1>1. CASE n = NULL
  BY <1>1, SlotAssumption DEF SetParentIfAny, ParentSet
<1>2. CASE n \in Slot
  <2> DEFINE r == rb_set_parent(t, n, p)
  <2>1. /\ r \in Tree
        /\ r.rb_left = t.rb_left /\ r.rb_right = t.rb_right /\ r.rb_node = t.rb_node
        /\ r.parent = [t.parent EXCEPT ![n] = p] /\ r.color = t.color
    BY <1>2 DEF rb_set_parent, Tree
  <2>2. SetParentIfAny(t, n, p) = r
    BY <1>2, SlotAssumption DEF SetParentIfAny
  <2>3. t.parent \in [Slot -> Link]
    BY Fields
  <2> HIDE DEF r
  <2>4. \A s \in Side : r[s] = t[s]
    BY <2>1, Fields DEF Side
  <2>5. ParentSet(t, r, n, p)
    BY <2>1, <2>3, <2>4 DEF ParentSet
  <2> QED BY <2>2, <2>5 DEF r
<1> QED BY <1>1, <1>2 DEF Link

\* __rb_change_child follows old's link from its parent p, or from the root.
LEMMA ChangeChildFields ==
  ASSUME NEW t \in Tree, NEW old, NEW nw \in Link, NEW p \in Link,
         p # NULL => \E s \in Side : t[s][p] = old /\ t[Opposite(s)][p] # old
  PROVE  ChildChanged(t, __rb_change_child(t, old, nw, p), old, nw, p)
<1>1. CASE p = NULL
  <2> DEFINE r == [t EXCEPT !.rb_node = nw]
  <2>1. /\ r \in Tree
        /\ r.rb_left = t.rb_left /\ r.rb_right = t.rb_right /\ r.rb_node = nw
        /\ r.parent = t.parent /\ r.color = t.color
    BY DEF Tree
  <2>2. __rb_change_child(t, old, nw, p) = r
    BY <1>1 DEF __rb_change_child
  <2> HIDE DEF r
  <2>3. \A s \in Side : r[s] = t[s]
    BY <2>1, Fields DEF Side
  <2> QED BY <1>1, <2>1, <2>2, <2>3, SlotAssumption DEF ChildChanged
<1>2. CASE p \in Slot
  <2>1. p # NULL
    BY <1>2, SlotAssumption
  <2>2. PICK s0 \in Side : t[s0][p] = old /\ t[Opposite(s0)][p] # old
    BY <2>1
  <2> DEFINE r == SetChild(t, p, s0, nw)
  <2>3. __rb_change_child(t, old, nw, p) = r
    <3>1. CASE s0 = "rb_left"
      BY <2>1, <2>2, <3>1, Fields DEF __rb_change_child
    <3>2. CASE s0 = "rb_right"
      BY <2>1, <2>2, <3>2, Fields DEF __rb_change_child, Opposite
    <3> QED BY <3>1, <3>2 DEF Side
  <2>4. ChildSet(t, r, p, s0, nw)
    BY <1>2, SetChildFields
  <2> HIDE DEF r
  <2>5. ASSUME NEW m \in Slot, NEW s \in Side
        PROVE  r[s][m] = IF m = p /\ t[s][m] = old THEN nw ELSE t[s][m]
    <3>1. s = s0 \/ s = Opposite(s0)
      BY Sides
    <3> QED BY <2>2, <2>4, <3>1 DEF ChildSet
  <2> QED BY <2>1, <2>3, <2>4, <2>5 DEF ChildChanged, ChildSet
<1> QED BY <1>1, <1>2 DEF Link

\* The last steps of every rotation, on a tree u whose inner links are turned
\* already: x takes the place, the parent and the colour of y.
LEMMA RotateSetParents ==
  ASSUME NEW t, NEW below, Shape(t, below), NEW u \in Tree, NEW side \in Side,
         NEW y \in Slot, NEW x \in Slot, t[side][y] = x, NEW col \in Colour,
         u.rb_node = t.rb_node,
         \A m \in Slot :
           /\ u[side][m] = IF m = y THEN t[Opposite(side)][x] ELSE t[side][m]
           /\ u[Opposite(side)][m] = IF m = x THEN y ELSE t[Opposite(side)][m]
           /\ m # x => u.parent[m] = IF m = t[Opposite(side)][x] THEN y ELSE t.parent[m]
  PROVE  LET r == __rb_rotate_set_parents(u, y, x, col)
         IN  /\ r \in Tree
             /\ Turned(t, r, y, x, side)
             /\ \A m \in Slot : r.color[m] = IF m = y THEN col
                                             ELSE IF m = x THEN u.color[y] ELSE u.color[m]
<1> DEFINE far == Opposite(side)
           c == t[far][x]
           up == u.parent[y]
           uc == u.color[y]
           u1 == rb_set_parent_color(u, x, up, uc)
           u2 == rb_set_parent_color(u1, y, x, col)
           r == __rb_change_child(u2, y, x, up)
<1>1. t \in Tree /\ Ordered(t, below) /\ Linked(t, below)
  BY DEF Shape
<1>2. far \in Side /\ far # side /\ Opposite(far) = side /\ \A s \in Side : s = side \/ s = far
  BY Sides
<1>3. x # NULL /\ y # NULL /\ x \in Link /\ y \in Link
  BY SlotAssumption DEF Link
<1>4. /\ x # y /\ t.parent[x] = y /\ t.rb_node # x
      /\ \A s \in Side : t[s][x] \notin {y, x}
      /\ y \in below[t.rb_node]
  BY <1>3, Distinct
<1>5. up = t.parent[y] /\ up \in Link /\ uc \in Colour
  BY <1>2, <1>4, Fields
<1> HIDE DEF up, uc
<1>6. ParentColorSet(u, u1, x, up, uc)
  BY <1>3, <1>5, SetParentColorFields
<1> HIDE DEF u1
<1>7. ParentColorSet(u1, u2, y, x, col)
  <2>1. u1 \in Tree
    BY <1>6 DEF ParentColorSet
  <2> QED BY <1>3, <2>1, SetParentColorFields
<1> HIDE DEF u2
<1>8. ASSUME up # NULL
      PROVE  up \in Slot \ {x, y} /\ \E s \in Side : u2[s][up] = y /\ u2[Opposite(s)][up] # y
  <2>1. up \in Slot
    BY <1>5, <1>8 DEF Link
  <2>2. PICK s \in Side : t[s][up] = y
    BY <1>1, <1>5, <1>8 DEF Linked
  <2>3. up # x /\ up # y
    BY <1>1, <1>4, <2>2, ChildBelow
  <2>4. t[Opposite(s)][up] # y /\ Opposite(s) \in Side
    BY <1>3, <2>1, <2>2, Distinct, Sides
  <2>5. \A z \in Side : u2[z][up] = t[z][up]
    BY <1>2, <1>6, <1>7, <2>1, <2>3 DEF ParentColorSet
  <2> QED BY <2>1, <2>2, <2>3, <2>4, <2>5
<1>9. ChildChanged(u2, r, y, x, up)
  <2>1. up # NULL => \E s \in Side : u2[s][up] = y /\ u2[Opposite(s)][up] # y
    BY <1>8
  <2>2. u2 \in Tree
    BY <1>7 DEF ParentColorSet
  <2> QED BY ONLY <1>3, <1>5, <2>1, <2>2, ChangeChildFields
<1> HIDE DEF r
<1>10. r.rb_node = IF t.rb_node = y THEN x ELSE t.rb_node
  <2>1. t.rb_node = y => t.parent[y] = NULL
    BY <1>1, <1>3 DEF Linked
  <2>2. t.parent[y] = NULL => t.rb_node = y
    BY <1>1, <1>4 DEF Linked
  <2> QED BY <1>5, <1>6, <1>7, <1>9, <2>1, <2>2 DEF ParentColorSet, ChildChanged
<1>11. ASSUME NEW m \in Slot, NEW s \in Side, m # y \/ s # side, m # x \/ s # far
       PROVE  r[s][m] = IF t[s][m] = y THEN x ELSE t[s][m]
  <2>1. u2[s][m] = t[s][m]
    BY <1>2, <1>6, <1>7, <1>11 DEF ParentColorSet
  <2>2. t[s][m] = y => m = up
    BY <1>1, <1>3, <1>5 DEF Linked
  <2> QED BY <1>9, <2>1, <2>2 DEF ChildChanged
<1>12. r[side][y] = c /\ r[far][x] = y
  <2>1. u2[side][y] = c /\ u2[far][x] = y
    BY <1>2, <1>6, <1>7 DEF ParentColorSet
  <2>2. up # x /\ up # y
    BY <1>3, <1>8
  <2> QED BY <1>2, <1>9, <2>1, <2>2 DEF ChildChanged
<1>13. \A m \in Slot : r.parent[m] = IF m = y THEN x ELSE IF m = x THEN t.parent[y]
                                     ELSE IF m = c THEN y ELSE t.parent[m]
  BY <1>5, <1>6, <1>7, <1>9 DEF ParentColorSet, ChildChanged
<1>14. Turned(t, r, y, x, side)
  <2>1. ASSUME NEW m \in Slot
        PROVE  /\ r[side][m] = IF m = y THEN c ELSE IF t[side][m] = y THEN x ELSE t[side][m]
               /\ r[far][m] = IF m = x THEN y ELSE IF t[far][m] = y THEN x ELSE t[far][m]
    BY <1>2, <1>11, <1>12
  <2> QED BY <1>10, <1>13, <2>1 DEF Turned
<1>15. \A m \in Slot : r.color[m] = IF m = y THEN col
                                    ELSE IF m = x THEN u.color[y] ELSE u.color[m]
  BY <1>6, <1>7, <1>9 DEF uc, ParentColorSet, ChildChanged
<1>16. __rb_rotate_set_parents(u, y, x, col) = r
  BY DEF __rb_rotate_set_parents, r, u2, u1, up, uc
<1> QED BY <1>9, <1>14, <1>15, <1>16 DEF ChildChanged

-----------------------------------------------------------------------------
(***************************************************************************)
(* What the recursive functions of the model compute                       *)
(***************************************************************************)

\* Two functions that take the same value at a node when they do at its
\* children, and at NULL, are equal.
LEMMA SameFunction ==
  ASSUME NEW t \in Tree, NEW below, Ordered(t, below), NEW f, NEW g, f[NULL] = g[NULL],
         \A m \in Slot : (\A s \in Side : f[t[s][m]] = g[t[s][m]]) => f[m] = g[m]
  PROVE  \A m \in Link : f[m] = g[m]
<1> DEFINE S == {m \in Slot : f[m] = g[m]}
<1>1. ASSUME NEW m \in Slot, \A s \in Side : t[s][m] \in S \cup {NULL} PROVE m \in S
  BY <1>1
<1>2. S \in SUBSET Slot
  OBVIOUS
<1> HIDE DEF S
<1>3. S = Slot
  BY <1>1, <1>2, DownInduction
<1> QED BY <1>3 DEF S, Link

\* The nodes of a subtree are the ones of its certificate.
LEMMA SubtreeIs ==
  ASSUME NEW t \in Tree, NEW below, Ordered(t, below), NEW n \in Link
  PROVE  Subtree(t, n) = below[n]
<1> DEFINE F(f) == [m \in Link |-> IF m = NULL THEN {}
                      ELSE {m} \cup f[t.rb_left[m]] \cup f[t.rb_right[m]]]
           g == CHOOSE f : f = F(f)
<1>1. Subtree(t, n) = g[n]
  BY DEF Subtree
<1>2. below = F(below)
  <2>1. below \in [Link -> SUBSET Slot] /\ below[NULL] = {}
    BY DEF Ordered
  <2>2. \A m \in Slot : below[m] = {m} \cup below[t.rb_left[m]] \cup below[t.rb_right[m]]
    BY Fields DEF Ordered, Side, Opposite
  <2>3. \A m \in Link : below[m] = F(below)[m]
    BY <2>1, <2>2, SlotAssumption DEF Link
  <2> QED BY <2>1, <2>3
<1>3. g = F(g)
  BY <1>2
<1> HIDE DEF g
<1>4. /\ g[NULL] = {}
      /\ \A m \in Slot : g[m] = {m} \cup g[t.rb_left[m]] \cup g[t.rb_right[m]]
  BY <1>3, SlotAssumption DEF Link
<1>5. ASSUME NEW m \in Slot, \A s \in Side : g[t[s][m]] = below[t[s][m]]
      PROVE  g[m] = below[m]
  <2>1. below[m] = {m} \cup below[t.rb_left[m]] \cup below[t.rb_right[m]]
    BY Fields DEF Ordered, Side, Opposite
  <2>2. g[t.rb_left[m]] = below[t.rb_left[m]] /\ g[t.rb_right[m]] = below[t.rb_right[m]]
    BY <1>5, Fields DEF Side
  <2> QED BY <1>4, <2>1, <2>2
<1>6. \A m \in Link : g[m] = below[m]
  <2>1. g[NULL] = below[NULL]
    BY <1>4 DEF Ordered
  <2> QED BY <1>5, <2>1, SameFunction
<1> QED BY <1>1, <1>6

\* A black node counts on the paths through it.
Weight(t, n) == IF t.color[n] = "black" THEN 1 ELSE 0

\* bh[n] is the number of black nodes on every path down from n.  Where at is
\* not NULL, the paths through its child on that side lack one.
Lack(at, side, m, s) == IF m = at /\ s = side THEN 1 ELSE 0

Balanced(t, bh, at, side) ==
  /\ bh \in [Link -> Nat] /\ bh[NULL] = 0
  /\ \A m \in Slot : \A s \in Side :
       bh[m] = bh[t[s][m]] + Lack(at, side, m, s) + Weight(t, m)

\* The heights of a subtree that does not contain at.
LEMMA HeightsAre ==
  ASSUME NEW t \in Tree, NEW below, Ordered(t, below), NEW n \in Link,
         NEW bh, NEW at \in Link, NEW side, at # NULL => side \in Side,
         Balanced(t, bh, at, side), at \notin below[n]
  PROVE  BlackHeights(t, n) = {bh[n]}
<1> DEFINE Up(X, m) == {h + (IF t.color[m] = "black" THEN 1 ELSE 0) : h \in X}
           F(f) == [m \in Link |-> IF m = NULL THEN {0}
                      ELSE Up(f[t.rb_left[m]] \cup f[t.rb_right[m]], m)]
           g == CHOOSE f : f = F(f)
           H == [m \in Link |-> IF at \in below[m] THEN {bh[m], bh[m] - 1} ELSE {bh[m]}]
<1>1. BlackHeights(t, n) = g[n]
  BY DEF BlackHeights
<1>2. /\ below[NULL] = {} /\ NULL \in Link /\ Slot \subseteq Link
      /\ \A m \in Slot : \A s \in Side : t[s][m] \in Link
      /\ \A m \in Slot : \A s \in Side : t[Opposite(s)][m] \in Link
  <2>1. \A m \in Slot : \A s \in Side : t[s][m] \in Link
    BY Fields
  <2>2. \A s \in Side : Opposite(s) \in Side
    BY Sides
  <2> QED BY <2>1, <2>2 DEF Ordered, Link
<1>3. H[NULL] = {0} /\ \A m \in Link : bh[m] \in Nat
  BY <1>2 DEF Balanced
<1>4. ASSUME NEW m \in Slot, at \notin below[m]
      PROVE  H[m] = Up(H[t.rb_left[m]] \cup H[t.rb_right[m]], m)
  <2>1. at # m /\ \A s \in Side : at \notin below[t[s][m]]
    BY <1>4, ChildBelow DEF Side
  <2>2. at \notin below[t.rb_left[m]] /\ at \notin below[t.rb_right[m]]
    BY <2>1, Fields DEF Side
  <2>3. \A s \in Side : bh[m] = bh[t[s][m]] + Weight(t, m)
    <3>1. \A s \in Side : Lack(at, side, m, s) = 0
      BY <2>1 DEF Lack
    <3>2. \A s \in Side : bh[t[s][m]] \in Nat
      BY <1>2, <1>3
    <3> QED BY <3>1, <3>2 DEF Balanced
  <2>4. bh[m] = bh[t.rb_left[m]] + Weight(t, m) /\ bh[m] = bh[t.rb_right[m]] + Weight(t, m)
    BY <2>3, Fields DEF Side
  <2>5. /\ t.rb_left[m] \in Link /\ t.rb_right[m] \in Link
        /\ bh[t.rb_left[m]] \in Nat /\ bh[t.rb_right[m]] \in Nat
    BY <1>2, <1>3, Fields DEF Side
  <2>6. H[m] = {bh[m]} /\ H[t.rb_left[m]] = {bh[t.rb_left[m]]} /\ H[t.rb_right[m]] = {bh[t.rb_right[m]]}
    BY <1>2, <1>4, <2>2, <2>5
  <2> HIDE DEF H
  <2>7. bh[t.rb_left[m]] = bh[t.rb_right[m]]
    BY <2>4, <2>5 DEF Weight
  <2> QED BY <2>4, <2>5, <2>6, <2>7 DEF Weight
<1>5. ASSUME NEW m \in Slot, at \in below[m]
      PROVE  H[m] = Up(H[t.rb_left[m]] \cup H[t.rb_right[m]], m)
  <2>1. at \in Slot
    BY <1>5 DEF Ordered, Link
  <2>2. PICK s \in Side : IF m = at THEN s = side ELSE at \in below[t[s][m]]
    BY <1>5, SlotAssumption DEF Ordered, Side, Opposite
  <2> DEFINE o == Opposite(s)
             z == t[s][m]
             y == t[o][m]
  <2>3. H[t.rb_left[m]] \cup H[t.rb_right[m]] = H[z] \cup H[y]
    BY Fields DEF Side, Opposite
  <2>4. o \in Side /\ o # s /\ z \in Link /\ y \in Link
    BY <1>2, Sides
  <2>5. bh[m] \in Nat /\ bh[z] \in Nat /\ bh[y] \in Nat
    BY <1>2, <1>3, <2>4
  <2>6. at \notin below[y]
    <3>1. CASE m = at
      BY <2>4, <3>1, ChildBelow
    <3>2. CASE m # at
      <4>1. Before(s, at, m) /\ (at \in below[y] => Before(o, at, m))
        BY <2>2, <2>4, <3>2 DEF Ordered
      <4> QED BY <2>1, <4>1, Strict
    <3> QED BY <3>1, <3>2
  <2>7. H[m] = {bh[m], bh[m] - 1} /\ H[y] = {bh[y]}
    BY <1>2, <1>5, <2>4, <2>6
  <2>8. /\ bh[m] = bh[z] + Lack(at, side, m, s) + Weight(t, m)
        /\ bh[m] = bh[y] + Lack(at, side, m, o) + Weight(t, m)
    BY <2>4 DEF Balanced
  <2>9. CASE m = at
    <3>1. Lack(at, side, m, s) = 1 /\ Lack(at, side, m, o) = 0
      BY <2>2, <2>4, <2>9 DEF Lack
    <3>2. at \notin below[z]
      BY <2>4, <2>9, ChildBelow
    <3>3. H[z] = {bh[z]}
      BY <2>4, <3>2
    <3> HIDE DEF H, o, z, y
    <3>4. H[m] = Up(H[z] \cup H[y], m)
      BY <2>5, <2>7, <2>8, <3>1, <3>3 DEF Weight
    <3> QED BY <2>3, <3>4 DEF z, y
  <2>10. CASE m # at
    <3>1. Lack(at, side, m, s) = 0 /\ Lack(at, side, m, o) = 0
      BY <2>10 DEF Lack
    <3>2. H[z] = {bh[z], bh[z] - 1}
      BY <2>2, <2>4, <2>10
    <3> HIDE DEF H, o, z, y
    <3>3. H[m] = Up(H[z] \cup H[y], m)
      BY <2>5, <2>7, <2>8, <3>1, <3>2 DEF Weight
    <3> QED BY <2>3, <3>3 DEF z, y
  <2> QED BY <2>9, <2>10
<1>6. \A m \in Slot : H[m] = Up(H[t.rb_left[m]] \cup H[t.rb_right[m]], m)
  BY <1>4, <1>5
<1>7. H = F(H)
  <2>1. \A m \in Link : H[m] = F(H)[m]
    <3>1. \A m \in Link : m # NULL => m \in Slot
      BY DEF Link
    <3> HIDE DEF H
    <3> QED BY <1>3, <1>6, <3>1
  <2> QED BY <2>1
<1>8. g = F(g)
  <2> HIDE DEF H, F
  <2> QED BY <1>7
<1> HIDE DEF g
<1>9. /\ g[NULL] = {0}
      /\ \A m \in Slot : g[m] = Up(g[t.rb_left[m]] \cup g[t.rb_right[m]], m)
  BY <1>8, SlotAssumption DEF Link
<1> HIDE DEF H
<1>10. ASSUME NEW m \in Slot, \A s \in Side : g[t[s][m]] = H[t[s][m]] PROVE g[m] = H[m]
  <2>1. g[t.rb_left[m]] = H[t.rb_left[m]] /\ g[t.rb_right[m]] = H[t.rb_right[m]]
    BY <1>10, Fields DEF Side
  <2> QED BY <1>6, <1>9, <2>1
<1>11. \A m \in Link : g[m] = H[m]
  <2>1. g[NULL] = H[NULL]
    BY <1>3, <1>9
  <2> QED BY <1>10, <2>1, SameFunction
<1>12. H[n] = {bh[n]}
  BY DEF H
<1> QED BY <1>1, <1>11, <1>12

\* f follows next until it is NULL.  Such an f exists, whatever next is.
Follows(f, D, next, val) ==
  f = [n \in D |-> IF next[n] = NULL THEN val[n] ELSE f[next[n]]]

LEMMA TailRecursion ==
  ASSUME NEW D, NEW next \in [D -> D \cup {NULL}], NULL \notin D, NEW val
  PROVE  \E f : Follows(f, D, next, val)
<1> DEFINE Closed(S) == \A m \in S : next[m] # NULL => next[m] \in S
           Reach(n) == {m \in D : \A S \in SUBSET D : n \in S /\ Closed(S) => m \in S}
           Ends(n) == {m \in Reach(n) : next[m] = NULL}
           f == [n \in D |-> val[CHOOSE m : m \in Ends(n)]]
<1>1. ASSUME NEW n \in D, next[n] = NULL PROVE f[n] = val[n]
  <2>1. Closed({n}) /\ {n} \in SUBSET D
    BY <1>1
  <2>2. Ends(n) = {n}
    BY <1>1, <2>1
  <2> HIDE DEF Ends
  <2> QED BY <2>2
<1>2. ASSUME NEW n \in D, next[n] # NULL PROVE f[n] = f[next[n]]
  <2>1. next[n] \in D
    BY <1>2
  <2>2. ASSUME NEW m \in Reach(next[n]) PROVE m \in Reach(n)
    <3>1. SUFFICES ASSUME NEW S \in SUBSET D, n \in S, Closed(S) PROVE m \in S
      BY <2>2
    <3>2. next[n] \in S
      BY <1>2, <3>1
    <3> QED BY <2>2, <3>1, <3>2
  <2>3. ASSUME NEW m \in Reach(n), m # n PROVE m \in Reach(next[n])
    <3>1. SUFFICES ASSUME NEW S \in SUBSET D, next[n] \in S, Closed(S) PROVE m \in S
      BY <2>3
    <3>2. S \cup {n} \in SUBSET D /\ n \in S \cup {n} /\ Closed(S \cup {n})
      BY <3>1
    <3>3. m \in S \cup {n}
      BY <2>3, <3>2
    <3> QED BY <2>3, <3>3
  <2> HIDE DEF Reach
  <2>4. Ends(n) = Ends(next[n])
    BY <1>2, <2>2, <2>3
  <2> HIDE DEF Ends
  <2> QED BY <2>1, <2>4
<1> HIDE DEF Ends
<1>3. f = [n \in D |-> f[n]]
  OBVIOUS
<1> HIDE DEF f
<1>4. f = [n \in D |-> IF next[n] = NULL THEN val[n] ELSE f[next[n]]]
  BY <1>1, <1>2, <1>3
<1> QED BY <1>4 DEF Follows

\* The last node on a side of a subtree: the others lie on its other side.
LEMMA FurthestIs ==
  ASSUME NEW t, NEW below, Shape(t, below), NEW side \in Side, NEW n \in Slot
  PROVE  LET m == Furthest(t, n, side)
         IN  /\ m \in below[n] /\ t[side][m] = NULL
             /\ \A x \in below[n] : x = m \/ Before(side, m, x)
             /\ m # n => t[side][t.parent[m]] = m /\ t.parent[m] \in below[n]
<1>1. t \in Tree /\ Ordered(t, below) /\ Linked(t, below) /\ Opposite(side) \in Side
  BY Sides DEF Shape
<1> DEFINE next == [m \in Slot |-> t[side][m]]
           val == [m \in Slot |-> m]
           F(f) == [m \in Slot |-> IF t[side][m] = NULL THEN m ELSE f[t[side][m]]]
           g == CHOOSE f : f = F(f)
<1>2. Furthest(t, n, side) = g[n]
  BY DEF Furthest
<1>3. g = F(g)
  <2>1. next \in [Slot -> Slot \cup {NULL}]
    BY <1>1, Fields DEF Link
  <2> HIDE DEF next, val
  <2>2. PICK f : Follows(f, Slot, next, val)
    BY <2>1, SlotAssumption, TailRecursion
  <2>3. f = [m \in Slot |-> IF next[m] = NULL THEN val[m] ELSE f[next[m]]]
    BY <2>2 DEF Follows
  <2>4. f = F(f)
    BY <2>3 DEF next, val
  <2> QED BY <2>4
<1> HIDE DEF g
<1>4. \A m \in Slot : g[m] = IF t[side][m] = NULL THEN m ELSE g[t[side][m]]
  BY <1>3
<1> DEFINE P(m) == /\ g[m] \in below[m] /\ t[side][g[m]] = NULL
                   /\ \A x \in below[m] : x = g[m] \/ Before(side, g[m], x)
                   /\ g[m] # m => t[side][t.parent[g[m]]] = g[m] /\ t.parent[g[m]] \in below[m]
           S == {m \in Slot : P(m)}
<1>5. ASSUME NEW m \in Slot, \A s \in Side : t[s][m] \in S \cup {NULL} PROVE P(m)
  <2>1. below[m] = {m} \cup below[t[side][m]] \cup below[t[Opposite(side)][m]]
    BY <1>1 DEF Ordered
  <2>2. /\ \A x \in below[t[side][m]] : x \in Slot /\ Before(side, x, m)
        /\ \A x \in below[t[Opposite(side)][m]] : x \in Slot /\ Before(side, m, x)
    <3>1. /\ \A x \in below[t[side][m]] : Before(side, x, m)
          /\ \A x \in below[t[Opposite(side)][m]] : Before(Opposite(side), x, m)
      BY <1>1 DEF Ordered
    <3>2. \A s \in Side : \A x \in below[t[s][m]] : x \in Slot
      BY <1>1, ChildBelow
    <3> QED BY <1>1, <3>1, <3>2, Strict
  <2>3. CASE t[side][m] = NULL
    <3>1. below[t[side][m]] = {}
      BY <1>1, <2>3 DEF Ordered
    <3>2. g[m] = m
      BY <1>4, <2>3
    <3> QED BY <2>1, <2>2, <2>3, <3>1, <3>2
  <2>4. CASE t[side][m] # NULL
    <3> DEFINE c == t[side][m]
    <3>1. c \in Slot /\ P(c) /\ g[m] = g[c] /\ c # m /\ t.parent[c] = m
      <4>1. c \in S
        BY <1>5, <2>4
      <4>2. t.parent[c] = m /\ c # m
        BY <2>4, Distinct
      <4> QED BY <1>4, <2>4, <4>1, <4>2
    <3> HIDE DEF c
    <3>2. below[m] = {m} \cup below[c] \cup below[t[Opposite(side)][m]]
      BY <2>1 DEF c
    <3>3. \A x \in below[c] : x \in Slot /\ Before(side, x, m)
      BY <2>2 DEF c
    <3>4. g[m] \in below[m] /\ t[side][g[m]] = NULL
      BY <3>1, <3>2
    <3>5. ASSUME NEW x \in below[m] PROVE x = g[m] \/ Before(side, g[m], x)
      <4>1. CASE x \in below[c]
        BY <3>1, <4>1
      <4>2. CASE x = m
        BY <3>1, <3>3, <4>2
      <4>3. CASE x \in below[t[Opposite(side)][m]]
        <5>1. g[m] \in Slot /\ x \in Slot /\ Before(side, g[m], m) /\ Before(side, m, x)
          BY <2>2, <3>1, <3>3, <4>3
        <5> QED BY <5>1, Strict
      <4> QED BY <3>2, <4>1, <4>2, <4>3
    <3>6. t[side][t.parent[g[m]]] = g[m] /\ t.parent[g[m]] \in below[m]
      <4>1. CASE g[m] = c
        BY <3>1, <3>2, <4>1 DEF c
      <4>2. CASE g[m] # c
        BY <3>1, <3>2, <4>2
      <4> QED BY <4>1, <4>2
    <3> QED BY <3>4, <3>5, <3>6
  <2> QED BY <2>3, <2>4
<1>6. S = Slot
  <2>1. S \in SUBSET Slot
    OBVIOUS
  <2>2. \A m \in Slot : (\A s \in Side : t[s][m] \in S \cup {NULL}) => m \in S
    BY <1>5
  <2> HIDE DEF S
  <2> QED BY <1>1, <2>1, <2>2, DownInduction
<1>7. P(n)
  BY <1>6
<1> QED BY <1>2, <1>7

LEMMA LeftmostIs ==
  ASSUME NEW t \in Tree, NEW n
  PROVE  Leftmost(t, n) = Furthest(t, n, "rb_left")
BY DEF Leftmost, Furthest

\* The free link at which s belongs, if no node starts at its frame.
LEMMA InsertPointIs ==
  ASSUME NEW t, NEW below, Shape(t, below), NEW w \in Slot, t.rb_node # NULL,
         \A o \in below[t.rb_node] : BaseGfn[o] # BaseGfn[w]
  PROVE  \E at \in below[t.rb_node] : \E side \in Side :
           /\ InsertPoint(t, w) = <<at, side>>
           /\ t[side][at] = NULL /\ Before(side, w, at)
           /\ \A m \in Slot : \A s \in Side : at \in below[t[s][m]] => Before(s, w, m)
<1>1. t \in Tree /\ Ordered(t, below) /\ Linked(t, below) /\ t.rb_node \in Slot
  BY Fields DEF Shape, Link
<1> DEFINE d(m) == IF BaseGfn[w] < BaseGfn[m] THEN "rb_left" ELSE "rb_right"
           next == [m \in Slot |-> t[d(m)][m]]
           val == [m \in Slot |-> <<m, d(m)>>]
           F(f) == [m \in Slot |-> IF t[d(m)][m] = NULL THEN <<m, d(m)>> ELSE f[t[d(m)][m]]]
           g == CHOOSE f : f = F(f)
<1>2. InsertPoint(t, w) = g[t.rb_node]
  BY DEF InsertPoint
<1>d. \A m \in Slot : d(m) \in Side
  BY DEF Side
<1>3. g = F(g)
  <2>1. next \in [Slot -> Slot \cup {NULL}]
    <3>1. \A m \in Slot : t[d(m)][m] \in Slot \cup {NULL}
      BY <1>1, <1>d, Fields DEF Link
    <3> HIDE DEF d
    <3> QED BY <3>1
  <2> HIDE DEF next, val
  <2>2. PICK f : Follows(f, Slot, next, val)
    BY <2>1, SlotAssumption, TailRecursion
  <2>3. f = [m \in Slot |-> IF next[m] = NULL THEN val[m] ELSE f[next[m]]]
    BY <2>2 DEF Follows
  <2> HIDE DEF d
  <2>4. f = F(f)
    BY <2>3 DEF next, val
  <2> QED BY <2>4
<1> HIDE DEF g, d
<1>4. \A m \in Slot : g[m] = IF t[d(m)][m] = NULL THEN <<m, d(m)>> ELSE g[t[d(m)][m]]
  BY <1>3
<1> DEFINE Q(n, at) == /\ at \in below[n] /\ g[n] = <<at, d(at)>> /\ t[d(at)][at] = NULL
                       /\ \A m \in below[n] : \A s \in Side :
                            at \in below[t[s][m]] => s = d(m)
           S == {n \in Slot : \E at \in Slot : Q(n, at)}
<1>5. ASSUME NEW n \in Slot, \A s \in Side : t[s][n] \in S \cup {NULL} PROVE n \in S
  <2>1. /\ below[n] = {n} \cup below[t[d(n)][n]] \cup below[t[Opposite(d(n))][n]]
        /\ Opposite(d(n)) \in Side
        /\ \A s \in Side : s = d(n) \/ s = Opposite(d(n))
    BY <1>1, <1>d, Sides DEF Ordered
  <2>2. CASE t[d(n)][n] = NULL
    <3>1. g[n] = <<n, d(n)>> /\ n \in below[n]
      BY <1>4, <2>1, <2>2
    <3>2. ASSUME NEW m \in below[n], NEW s \in Side, n \in below[t[s][m]] PROVE FALSE
      <4>1. m \in Slot
        BY <1>1, <3>2, ChildBelow
      <4>2. n \in below[m] /\ m \notin below[t[s][m]]
        BY <1>1, <3>2, <4>1, ChildBelow
      <4>3. below[n] \subseteq below[t[s][m]]
        <5>1. t[s][m] \in Slot
          BY <1>1, <3>2, <4>1, Fields DEF Ordered, Link
        <5> QED BY <1>1, <3>2, <5>1, Transitive
      <4> QED BY <3>2, <4>2, <4>3
    <3>3. Q(n, n)
      BY <2>2, <3>1, <3>2
    <3> QED BY <3>3
  <2>3. CASE t[d(n)][n] # NULL
    <3> DEFINE c == t[d(n)][n]
    <3>1. c \in S
      BY <1>5, <1>d, <2>3
    <3>2. c \in Slot /\ g[n] = g[c]
      BY <1>4, <2>3, <3>1
    <3>3. PICK at \in Slot : Q(c, at)
      BY <3>1
    <3>4. at \in below[c] /\ g[c] = <<at, d(at)>> /\ t[d(at)][at] = NULL
      BY <3>3
    <3>5. at \notin below[t[Opposite(d(n))][n]]
      <4>1. Before(d(n), at, n)
        BY <1>1, <1>d, <3>4 DEF Ordered
      <4>2. at \in below[t[Opposite(d(n))][n]] => Before(Opposite(d(n)), at, n)
        BY <1>1, <2>1 DEF Ordered
      <4> QED BY <1>d, <4>1, <4>2, Strict
    <3>6. ASSUME NEW m \in below[n], NEW s \in Side, at \in below[t[s][m]] PROVE s = d(m)
      <4>1. CASE m = n
        BY <2>1, <3>5, <3>6, <4>1
      <4>2. CASE m \in below[c]
        BY <3>3, <3>6, <4>2
      <4>3. CASE m \in below[t[Opposite(d(n))][n]]
        <5> DEFINE z == t[Opposite(d(n))][n]
        <5>1. z \in Slot /\ m \in Slot
          BY <1>1, <2>1, <4>3, Fields DEF Ordered, Link
        <5>2. below[m] \subseteq below[z]
          BY <1>1, <4>3, <5>1, Transitive
        <5>3. below[t[s][m]] \subseteq below[m]
          BY <1>1, <5>1, ChildBelow
        <5> QED BY <3>5, <3>6, <5>2, <5>3
      <4> QED BY <2>1, <4>1, <4>2, <4>3
    <3>7. Q(n, at)
      BY <2>1, <3>2, <3>4, <3>6
    <3> QED BY <3>7
  <2> QED BY <2>2, <2>3
<1>6. S = Slot
  <2>1. S \in SUBSET Slot
    OBVIOUS
  <2> HIDE DEF S
  <2> QED BY <1>1, <1>5, <2>1, DownInduction
<1>7. PICK at \in Slot : Q(t.rb_node, at)
  BY <1>1, <1>6
<1>8. \A m \in below[t.rb_node] : m \in Slot /\ Before(d(m), w, m)
  <2>1. \A m \in below[t.rb_node] : m \in Slot
    BY <1>1 DEF Ordered, Link
  <2>2. \A m \in Slot : BaseGfn[m] \in Nat
    BY RangeAssumption
  <2> QED BY <2>1, <2>2 DEF Before, d
<1>9. ASSUME NEW m \in Slot, NEW s \in Side, at \in below[t[s][m]] PROVE Before(s, w, m)
  <2>1. m \in below[t.rb_node]
    BY <1>1, <1>9 DEF Linked, Ordered
  <2>2. s = d(m)
    BY <1>7, <1>9, <2>1
  <2> QED BY <1>8, <2>1, <2>2
<1>10. at \in below[t.rb_node] /\ InsertPoint(t, w) = <<at, d(at)>> /\ t[d(at)][at] = NULL
  BY <1>2, <1>7
<1> QED BY <1>8, <1>9, <1>10, <1>d

-----------------------------------------------------------------------------
(***************************************************************************)
(* Rotations and colours                                                   *)
(***************************************************************************)

\* No red node but ex has a red parent.
NoRedPair(t, ex) ==
  \A m \in Slot : \A s \in Side :
    t.color[m] = "red" /\ t[s][m] # ex => IsBlackOrNull(t, t[s][m])

\* The nodes around a rotation: the links that change are the ones named.
LEMMA AroundTurn ==
  ASSUME NEW t, NEW below, Shape(t, below), NEW r \in Tree,
         NEW y \in Slot, NEW x \in Slot, NEW side \in Side, t[side][y] = x,
         Turned(t, r, y, x, side)
  PROVE  /\ x # y /\ x # NULL /\ y # NULL /\ t[side][x] \notin {x, y}
         /\ r[side][x] = t[side][x] /\ r[Opposite(side)][x] = y
         /\ r[side][y] = t[Opposite(side)][x] /\ r[Opposite(side)][y] = t[Opposite(side)][y]
         /\ \A m \in Slot \ {x, y} : \A s \in Side :
              /\ t[s][m] \in Link
              /\ r[s][m] = IF t[s][m] = y THEN x ELSE t[s][m]
              /\ t[s][m] # x
              /\ t[s][m] # NULL => t[s][m] # t[side][x]
<1> DEFINE far == Opposite(side)
<1>1. t \in Tree /\ Ordered(t, below) /\ Linked(t, below)
  BY DEF Shape
<1>2. far \in Side /\ far # side /\ \A s \in Side : s = side \/ s = far
  BY Sides
<1>3. x # NULL /\ y # NULL
  BY SlotAssumption
<1>4. /\ x # y /\ t.parent[x] = y
      /\ \A s \in Side : t[s][x] \notin {y, x}
  BY <1>3, Distinct
<1>5. t[far][y] # y
  BY <1>1, <1>2, ChildBelow
<1>6. ASSUME NEW m \in Slot \ {x, y}, NEW s \in Side
      PROVE  /\ t[s][m] \in Link
             /\ r[s][m] = IF t[s][m] = y THEN x ELSE t[s][m]
             /\ t[s][m] # x
             /\ t[s][m] # NULL => t[s][m] # t[side][x]
  <2>1. t[s][m] # NULL => t.parent[t[s][m]] = m
    BY <1>1 DEF Linked
  <2>2. t[side][x] # NULL => t.parent[t[side][x]] = x
    BY <1>1 DEF Linked
  <2>3. r[s][m] = IF t[s][m] = y THEN x ELSE t[s][m]
    BY <1>2 DEF Turned
  <2> QED BY <1>1, <1>3, <1>4, <2>1, <2>2, <2>3, Fields
<1>7. /\ r[side][x] = t[side][x] /\ r[far][x] = y
      /\ r[side][y] = t[far][x] /\ r[far][y] = t[far][y]
  BY <1>2, <1>4, <1>5 DEF Turned
<1> QED BY <1>2, <1>3, <1>4, <1>6, <1>7

\* What the rotation must give of the heights: they hold at the two nodes it
\* turns, and the place it turns is as high as before.
TurnHeights(t, r, y, x, side, bh, bh2, at2, sd2) ==
  LET far == Opposite(side)
      a == t[side][x]
  IN  /\ bh2[NULL] = 0
      /\ bh2[x] = bh[y]
      /\ \A m \in Slot \ {x, y, a} : bh2[m] = bh[m] /\ r.color[m] = t.color[m]
      /\ a # NULL => bh2[a] + Weight(t, a) = bh[a] + Weight(r, a)
      /\ bh2[x] = bh2[a] + Weight(r, x)
      /\ bh2[x] = bh2[y] + Weight(r, x)
      /\ bh2[y] = bh2[t[far][x]] + Lack(at2, sd2, y, side) + Weight(r, y)
      /\ bh2[y] = bh2[t[far][y]] + Lack(at2, sd2, y, far) + Weight(r, y)

\* A rotation keeps the balance if it does at the two nodes it turns.
LEMMA TurnBalance ==
  ASSUME NEW t, NEW below, Shape(t, below), NEW r \in Tree,
         NEW y \in Slot, NEW x \in Slot, NEW side \in Side, t[side][y] = x,
         Turned(t, r, y, x, side),
         NEW bh, NEW at, NEW sd, Balanced(t, bh, at, sd),
         NEW bh2 \in [Link -> Nat], NEW at2, NEW sd2, at2 # x,
         \/ at \in {y, NULL} /\ at2 \in {y, NULL}
         \/ at2 = at /\ sd2 = sd,
         TurnHeights(t, r, y, x, side, bh, bh2, at2, sd2)
  PROVE  Balanced(r, bh2, at2, sd2)
<1> DEFINE far == Opposite(side)
           a == t[side][x]
<1>1. far \in Side /\ far # side /\ \A s \in Side : s = side \/ s = far
  BY Sides
<1>2. /\ x # y /\ x # NULL /\ y # NULL /\ a \notin {x, y}
      /\ r[side][x] = t[side][x] /\ r[far][x] = y
      /\ r[side][y] = t[far][x] /\ r[far][y] = t[far][y]
      /\ \A m \in Slot \ {x, y} : \A s \in Side :
           /\ t[s][m] \in Link
           /\ r[s][m] = IF t[s][m] = y THEN x ELSE t[s][m]
           /\ t[s][m] # x
           /\ t[s][m] # NULL => t[s][m] # t[side][x]
  BY AroundTurn
<1>3. bh \in [Link -> Nat] /\ bh[NULL] = 0 /\ Slot \subseteq Link /\ NULL \in Link
  BY DEF Balanced, Link
<1>h. /\ bh2[NULL] = 0 /\ bh2[x] = bh[y]
      /\ \A m \in Slot \ {x, y, a} : bh2[m] = bh[m] /\ r.color[m] = t.color[m]
      /\ a # NULL => bh2[a] + Weight(t, a) = bh[a] + Weight(r, a)
      /\ bh2[x] = bh2[a] + Weight(r, x)
      /\ bh2[x] = bh2[y] + Weight(r, x)
      /\ bh2[y] = bh2[t[far][x]] + Lack(at2, sd2, y, side) + Weight(r, y)
      /\ bh2[y] = bh2[t[far][y]] + Lack(at2, sd2, y, far) + Weight(r, y)
  BY DEF TurnHeights
<1>4. ASSUME NEW m \in Slot \ {x, y}, NEW s \in Side
      PROVE  bh2[m] = bh2[r[s][m]] + Lack(at2, sd2, m, s) + Weight(r, m)
  <2>1. bh2[r[s][m]] = bh[t[s][m]]
    <3>1. CASE t[s][m] = y
      BY <1>2, <1>h, <3>1
    <3>2. CASE t[s][m] = NULL
      BY <1>2, <1>3, <1>h, <3>2
    <3>3. CASE t[s][m] # y /\ t[s][m] # NULL
      <4>1. t[s][m] \in Slot \ {x, y, a}
        BY <1>2, <3>3 DEF Link
      <4> QED BY <1>2, <1>h, <4>1
    <3> QED BY <3>1, <3>2, <3>3
  <2>2. bh2[m] + Weight(t, m) = bh[m] + Weight(r, m)
    <3>1. CASE m = a
      BY <1>h, <3>1, SlotAssumption
    <3>2. CASE m # a
      BY <1>h, <3>2 DEF Weight
    <3> QED BY <3>1, <3>2
  <2>3. Lack(at, sd, m, s) = Lack(at2, sd2, m, s) /\ Lack(at2, sd2, m, s) \in Nat
    BY SlotAssumption DEF Lack
  <2>4. bh[m] = bh[t[s][m]] + Lack(at2, sd2, m, s) + Weight(t, m)
    BY <2>3 DEF Balanced
  <2>5. bh[m] \in Nat /\ bh2[m] \in Nat /\ bh[t[s][m]] \in Nat /\ Weight(t, m) \in Nat /\ Weight(r, m) \in Nat
    BY <1>2, <1>3 DEF Weight
  <2> QED BY <2>1, <2>2, <2>3, <2>4, <2>5
<1>5. ASSUME NEW s \in Side
      PROVE  bh2[x] = bh2[r[s][x]] + Lack(at2, sd2, x, s) + Weight(r, x)
  <2>1. Lack(at2, sd2, x, s) = 0
    BY <1>2 DEF Lack
  <2>2. bh2[x] = bh2[r[s][x]] + Weight(r, x)
    BY <1>1, <1>2, <1>h
  <2>3. r[s][x] \in Link
    BY Fields
  <2>4. bh2[r[s][x]] \in Nat /\ Weight(r, x) \in Nat
    BY <2>3 DEF Weight
  <2> QED BY <2>1, <2>2, <2>4
<1>6. ASSUME NEW s \in Side
      PROVE  bh2[y] = bh2[r[s][y]] + Lack(at2, sd2, y, s) + Weight(r, y)
  BY <1>1, <1>2, <1>h
<1> QED BY <1>h, <1>4, <1>5, <1>6 DEF Balanced

\* A rotation leaves no red pair but ex2 if it leaves none at the two nodes.
LEMMA TurnColours ==
  ASSUME NEW t, NEW below, Shape(t, below), NEW r \in Tree,
         NEW y \in Slot, NEW x \in Slot, NEW side \in Side, t[side][y] = x,
         Turned(t, r, y, x, side),
         NEW ex \in {t[side][x], x, NULL}, NoRedPair(t, ex), NEW ex2,
         \A m \in Slot \ {x, y, t[side][x]} : r.color[m] = t.color[m],
         LET a == t[side][x]
         IN  a # NULL /\ r.color[a] = "red" => t.color[a] = "red",
         r.color[x] = "red" => t.color[y] = "red",
         r.color[x] = "red" =>
           /\ t[side][x] # ex2 => IsBlackOrNull(r, t[side][x])
           /\ y # ex2 => IsBlackOrNull(r, y),
         r.color[y] = "red" =>
           /\ t[Opposite(side)][x] # ex2 => IsBlackOrNull(r, t[Opposite(side)][x])
           /\ t[Opposite(side)][y] # ex2 => IsBlackOrNull(r, t[Opposite(side)][y])
  PROVE  NoRedPair(r, ex2)
<1> DEFINE far == Opposite(side)
           a == t[side][x]
<1>1. far \in Side /\ far # side /\ \A s \in Side : s = side \/ s = far
  BY Sides
<1>2. /\ x # y /\ x # NULL /\ y # NULL /\ a \notin {x, y}
      /\ r[side][x] = t[side][x] /\ r[far][x] = y
      /\ r[side][y] = t[far][x] /\ r[far][y] = t[far][y]
      /\ \A m \in Slot \ {x, y} : \A s \in Side :
           /\ t[s][m] \in Link
           /\ r[s][m] = IF t[s][m] = y THEN x ELSE t[s][m]
           /\ t[s][m] # x
           /\ t[s][m] # NULL => t[s][m] # t[side][x]
  BY AroundTurn
<1>c. r.color \in [Slot -> Colour] /\ t.color \in [Slot -> Colour]
  BY Fields DEF Shape
<1>3. ASSUME NEW m \in Slot \ {x, y}, NEW s \in Side, r.color[m] = "red"
      PROVE  IsBlackOrNull(r, r[s][m])
  <2>1. t.color[m] = "red"
    BY <1>3, SlotAssumption
  <2>2. t[s][m] # NULL => IsBlackOrNull(t, t[s][m])
    <3>1. t[s][m] # NULL => t[s][m] # ex
      BY <1>2
    <3> QED BY <2>1, <3>1 DEF NoRedPair
  <2>3. CASE t[s][m] = y
    BY <1>2, <1>c, <2>2, <2>3 DEF IsBlackOrNull, Colour
  <2>4. CASE t[s][m] = NULL
    BY <1>2, <2>4 DEF IsBlackOrNull
  <2>5. CASE t[s][m] # y /\ t[s][m] # NULL
    <3>1. t[s][m] \in Slot \ {x, y, a}
      BY <1>2, <2>5 DEF Link
    <3> QED BY <1>2, <2>2, <2>5, <3>1 DEF IsBlackOrNull
  <2> QED BY <2>3, <2>4, <2>5
<1>4. ASSUME NEW s \in Side, r.color[x] = "red", r[s][x] # ex2
      PROVE  IsBlackOrNull(r, r[s][x])
  BY <1>1, <1>2, <1>4
<1>5. ASSUME NEW s \in Side, r.color[y] = "red", r[s][y] # ex2
      PROVE  IsBlackOrNull(r, r[s][y])
  BY <1>1, <1>2, <1>5
<1> QED BY <1>3, <1>4, <1>5 DEF NoRedPair

\* There is a tree that is another one turned, in any colours.
LEMMA TurnExists ==
  ASSUME NEW t, NEW below, Shape(t, below),
         NEW y \in Slot, NEW x \in Slot, NEW side \in Side, t[side][y] = x,
         NEW color \in [Slot -> Colour]
  PROVE  \E v \in Tree : Turned(t, v, y, x, side) /\ v.color = color
<1> DEFINE far == Opposite(side)
           near2 == [n \in Slot |-> IF n = y THEN t[far][x]
                                    ELSE IF t[side][n] = y THEN x ELSE t[side][n]]
           far2 == [n \in Slot |-> IF n = x THEN y
                                   ELSE IF t[far][n] = y THEN x ELSE t[far][n]]
           up == [n \in Slot |-> IF n = y THEN x
                                 ELSE IF n = x THEN t.parent[y]
                                 ELSE IF n = t[far][x] THEN y ELSE t.parent[n]]
           root == IF t.rb_node = y THEN x ELSE t.rb_node
           v == [rb_node |-> root,
                 rb_left |-> IF side = "rb_left" THEN near2 ELSE far2,
                 rb_right |-> IF side = "rb_left" THEN far2 ELSE near2,
                 parent |-> up, color |-> color]
<1>1. t \in Tree /\ far \in Side
  BY Sides DEF Shape
<1>2. near2 \in [Slot -> Link] /\ far2 \in [Slot -> Link] /\ up \in [Slot -> Link] /\ root \in Link
  <2>1. /\ t[side] \in [Slot -> Link] /\ t[far] \in [Slot -> Link]
        /\ t.parent \in [Slot -> Link] /\ t.rb_node \in Link /\ Slot \subseteq Link
    BY <1>1, Fields DEF Link
  <2> QED BY <2>1
<1>3. /\ \A n \in Slot : near2[n] = IF n = y THEN t[far][x]
                                    ELSE IF t[side][n] = y THEN x ELSE t[side][n]
      /\ \A n \in Slot : far2[n] = IF n = x THEN y
                                   ELSE IF t[far][n] = y THEN x ELSE t[far][n]
      /\ \A n \in Slot : up[n] = IF n = y THEN x
                                 ELSE IF n = x THEN t.parent[y]
                                 ELSE IF n = t[far][x] THEN y ELSE t.parent[n]
  OBVIOUS
<1> HIDE DEF near2, far2, up
<1>4. v \in Tree /\ v.parent = up /\ v.color = color /\ v.rb_node = root
  BY <1>2 DEF Tree
<1>5. v[side] = near2 /\ v[far] = far2
  <2>1. CASE side = "rb_left"
    BY <2>1 DEF Opposite
  <2>2. CASE side = "rb_right"
    BY <2>2 DEF Opposite
  <2> QED BY <2>1, <2>2 DEF Side
<1> HIDE DEF v
<1>6. Turned(t, v, y, x, side)
  BY <1>3, <1>4, <1>5 DEF Turned
<1> QED BY <1>4, <1>6

\* RotateAtGparent, on a tree u that differs from t in the links it writes.
LEMMA RotateAtGparentIs ==
  ASSUME NEW t, NEW below, Shape(t, below), NEW u \in Tree, NEW side \in Side,
         NEW g \in Slot, NEW p \in Slot, t[side][g] = p,
         u.rb_node = t.rb_node,
         \A m \in Slot :
           /\ m # g => u[side][m] = t[side][m]
           /\ u[Opposite(side)][m] = t[Opposite(side)][m]
           /\ m # p => u.parent[m] = t.parent[m]
           /\ u.color[m] = t.color[m]
  PROVE  LET r == RotateAtGparent(u, g, p, side)
         IN  /\ r \in Tree
             /\ Turned(t, r, g, p, side)
             /\ \A m \in Slot : r.color[m] = IF m = g THEN "red"
                                             ELSE IF m = p THEN t.color[g]
                                             ELSE IF m = t[Opposite(side)][p] THEN "black"
                                             ELSE t.color[m]
<1> DEFINE inner == Opposite(side)
           c == t[inner][p]
           u1 == SetChild(u, g, side, c)
           u2 == SetChild(u1, p, inner, g)
           u3 == SetParentColorIfAny(u2, c, g, "black")
           r == __rb_rotate_set_parents(u3, g, p, "red")
<1>1. t \in Tree /\ inner \in Side /\ inner # side
  BY Sides DEF Shape
<1>2. c \in Link /\ g \in Link /\ "black" \in Colour /\ "red" \in Colour
  BY <1>1, Fields DEF Link, Colour
<1>3. RotateAtGparent(u, g, p, side) = r
  BY DEF RotateAtGparent
<1>4. p # NULL /\ p # g /\ c \notin {g, p}
  <2>1. p # NULL
    BY SlotAssumption
  <2> QED BY <1>1, <2>1, Distinct
<1>5. ChildSet(u, u1, g, side, c)
  BY <1>2, SetChildFields
<1> HIDE DEF u1
<1>6. ChildSet(u1, u2, p, inner, g)
  <2>1. u1 \in Tree
    BY <1>5 DEF ChildSet
  <2> QED BY <1>1, <1>2, <2>1, SetChildFields
<1> HIDE DEF u2
<1>7. ParentColorSet(u2, u3, c, g, "black")
  <2>1. u2 \in Tree
    BY <1>6 DEF ChildSet
  <2> QED BY <1>2, <2>1, SetParentColorFields
<1> HIDE DEF u3
<1>8. u3 \in Tree /\ u3.rb_node = t.rb_node
  BY <1>5, <1>6, <1>7 DEF ChildSet, ParentColorSet
<1>9. \A m \in Slot :
        /\ u3[side][m] = IF m = g THEN c ELSE t[side][m]
        /\ u3[inner][m] = IF m = p THEN g ELSE t[inner][m]
        /\ m # p => u3.parent[m] = IF m = c THEN g ELSE t.parent[m]
        /\ u3.color[m] = IF m = c THEN "black" ELSE t.color[m]
  BY <1>1, <1>5, <1>6, <1>7 DEF ChildSet, ParentColorSet
<1>10. /\ r \in Tree
       /\ Turned(t, r, g, p, side)
       /\ \A m \in Slot : r.color[m] = IF m = g THEN "red"
                                       ELSE IF m = p THEN u3.color[g] ELSE u3.color[m]
  BY <1>2, <1>8, <1>9, RotateSetParents
<1> HIDE DEF r
<1>11. \A m \in Slot : r.color[m] = IF m = g THEN "red"
                                    ELSE IF m = p THEN t.color[g]
                                    ELSE IF m = c THEN "black" ELSE t.color[m]
  BY <1>4, <1>9, <1>10
<1> QED BY <1>3, <1>10, <1>11

\* RotateAtParent leaves t turned at p, but for the link from g and the parent
\* of n, which RotateAtGparent writes.
LEMMA RotateAtParentIs ==
  ASSUME NEW t, NEW below, Shape(t, below), NEW side \in Side,
         NEW g \in Slot, NEW p \in Slot, NEW n \in Slot, t[side][g] = p,
         t[Opposite(side)][p] = n, NEW v \in Tree,
         Turned(t, v, p, n, Opposite(side)), v.color = t.color,
         t.color[p] = "red", IsBlackOrNull(t, t[side][n])
  PROVE  LET u == RotateAtParent(t, n, p, side)
         IN  /\ u \in Tree /\ u.rb_node = v.rb_node /\ v[side][g] = n
             /\ \A m \in Slot :
                  /\ m # g => u[side][m] = v[side][m]
                  /\ u[Opposite(side)][m] = v[Opposite(side)][m]
                  /\ m # n => u.parent[m] = v.parent[m]
                  /\ u.color[m] = v.color[m]
<1> DEFINE inner == Opposite(side)
           c == t[side][n]
           u1 == SetChild(t, p, inner, c)
           u2 == SetChild(u1, n, side, p)
           u3 == SetParentColorIfAny(u2, c, p, "black")
           u == rb_set_parent_color(u3, p, n, "red")
<1>1. t \in Tree /\ Linked(t, below) /\ inner \in Side /\ inner # side /\ Opposite(inner) = side
  BY Sides DEF Shape
<1>2. c \in Link /\ p \in Link /\ n \in Link /\ "black" \in Colour /\ "red" \in Colour
  BY <1>1, Fields DEF Link, Colour
<1>3. RotateAtParent(t, n, p, side) = u
  BY DEF RotateAtParent
<1>4. p # NULL /\ n # NULL /\ n # p /\ c \notin {n, p} /\ p # g
  <2>1. p # NULL /\ n # NULL
    BY SlotAssumption
  <2> QED BY <1>1, <2>1, Distinct
<1>5. t.rb_node # p /\ t.parent[p] = g /\ n # g
  <2>1. t.rb_node # p /\ t.parent[p] = g /\ n # g
    BY <1>1, <1>4, Distinct
  <2> QED BY <2>1
<1>6. ChildSet(t, u1, p, inner, c)
  BY <1>1, <1>2, SetChildFields
<1> HIDE DEF u1
<1>7. ChildSet(u1, u2, n, side, p)
  <2>1. u1 \in Tree
    BY <1>6 DEF ChildSet
  <2> QED BY <1>1, <1>2, <2>1, SetChildFields
<1> HIDE DEF u2
<1>8. ParentColorSet(u2, u3, c, p, "black")
  <2>1. u2 \in Tree
    BY <1>7 DEF ChildSet
  <2> QED BY <1>2, <2>1, SetParentColorFields
<1> HIDE DEF u3
<1>9. ParentColorSet(u3, u, p, n, "red")
  <2>1. u3 \in Tree
    BY <1>8 DEF ParentColorSet
  <2> QED BY <1>2, <1>4, <2>1, SetParentColorFields
<1> HIDE DEF u
<1>10. u \in Tree /\ u.rb_node = t.rb_node
  BY <1>6, <1>7, <1>8, <1>9 DEF ChildSet, ParentColorSet
<1>11. \A m \in Slot :
         /\ u[side][m] = IF m = n THEN p ELSE t[side][m]
         /\ u[inner][m] = IF m = p THEN c ELSE t[inner][m]
         /\ u.parent[m] = IF m = p THEN n ELSE IF m = c THEN p ELSE t.parent[m]
         /\ u.color[m] = IF m = p THEN "red" ELSE IF m = c THEN "black" ELSE t.color[m]
  BY <1>1, <1>6, <1>7, <1>8, <1>9 DEF ChildSet, ParentColorSet
<1>12. /\ v.rb_node = IF t.rb_node = p THEN n ELSE t.rb_node
       /\ \A m \in Slot :
            /\ v[inner][m] = IF m = p THEN c
                             ELSE IF t[inner][m] = p THEN n ELSE t[inner][m]
            /\ v[side][m] = IF m = n THEN p
                            ELSE IF t[side][m] = p THEN n ELSE t[side][m]
            /\ v.parent[m] = IF m = p THEN n
                             ELSE IF m = n THEN t.parent[p]
                             ELSE IF m = c THEN p ELSE t.parent[m]
  BY <1>1 DEF Turned
<1>13. ASSUME NEW m \in Slot
       PROVE  /\ t[inner][m] # p
              /\ m # g => t[side][m] # p
  <2>1. \A s \in Side : t[s][m] = p => m = g
    BY <1>1, <1>4, <1>5 DEF Linked
  <2>2. t[inner][g] # p
    BY <1>4, Distinct
  <2> QED BY <1>1, <2>1, <2>2
<1>14. ASSUME NEW m \in Slot
       PROVE  u.color[m] = v.color[m]
  BY <1>11, SlotAssumption DEF IsBlackOrNull
<1>15. v[side][g] = n
  BY <1>5, <1>12
<1>16. \A m \in Slot :
         /\ m # g => u[side][m] = v[side][m]
         /\ u[inner][m] = v[inner][m]
         /\ m # n => u.parent[m] = v.parent[m]
  BY <1>11, <1>12, <1>13
<1> QED BY <1>3, <1>5, <1>10, <1>12, <1>14, <1>15, <1>16

-----------------------------------------------------------------------------
(***************************************************************************)
(* Insertion                                                               *)
(***************************************************************************)

\* A red-black tree; and one whose red node n may have a red parent p.
Finished(t, below, bh) ==
  /\ Shape(t, below) /\ Balanced(t, bh, NULL, NULL) /\ NoRedPair(t, NULL)
  /\ IsBlackOrNull(t, t.rb_node)

Inserting(t, below, bh, n, p) ==
  /\ Shape(t, below) /\ Balanced(t, bh, NULL, NULL) /\ NoRedPair(t, n)
  /\ n \in below[t.rb_node] /\ t.color[n] = "red" /\ t.parent[n] = p
  /\ t.rb_node # n => t.color[t.rb_node] = "black"

\* Every node is as high as its children and itself.
LEMMA Heights ==
  ASSUME NEW t \in Tree, NEW bh, NEW at \in Link, NEW sd, Balanced(t, bh, at, sd),
         NEW m \in Slot
  PROVE  /\ bh[m] \in Nat
         /\ \A s \in Side :
              /\ t[s][m] \in Link /\ bh[t[s][m]] \in Nat
              /\ m = at /\ s = sd => bh[m] = bh[t[s][m]] + 1 + Weight(t, m)
              /\ m # at \/ s # sd => bh[m] = bh[t[s][m]] + Weight(t, m)
         /\ t.color[m] = "black" => Weight(t, m) = 1
         /\ t.color[m] = "red" => Weight(t, m) = 0
<1>1. bh \in [Link -> Nat] /\ m \in Link
  BY DEF Balanced, Link
<1>2. Weight(t, m) \in Nat
  BY DEF Weight
<1>3. ASSUME NEW s \in Side
      PROVE  /\ t[s][m] \in Link /\ bh[t[s][m]] \in Nat
             /\ m = at /\ s = sd => bh[m] = bh[t[s][m]] + 1 + Weight(t, m)
             /\ m # at \/ s # sd => bh[m] = bh[t[s][m]] + Weight(t, m)
  <2>1. t[s][m] \in Link
    BY Fields
  <2>2. bh[t[s][m]] \in Nat
    BY <1>1, <2>1
  <2>3. bh[m] = bh[t[s][m]] + Lack(at, sd, m, s) + Weight(t, m)
    BY DEF Balanced
  <2> QED BY <1>2, <2>1, <2>2, <2>3 DEF Lack
<1> QED BY <1>1, <1>3 DEF Weight

\* The node above the parent of a node with a red parent.
LEMMA Grandparent ==
  ASSUME NEW t, NEW below, NEW bh, NEW n \in Slot, NEW p \in Slot,
         Inserting(t, below, bh, n, p), t.color[p] = "red"
  PROVE  /\ t.parent[p] \in Slot /\ \E side \in Side : t[side][t.parent[p]] = p
         /\ t.color[t.parent[p]] = "black" /\ p # n /\ n # t.rb_node /\ p # t.rb_node
         /\ t.color[t.rb_node] = "black" /\ t.rb_node \in Slot
         /\ \E side \in Side : t[side][p] = n
<1>1. t \in Tree /\ Ordered(t, below) /\ Linked(t, below) /\ Shape(t, below)
  BY DEF Shape, Inserting
<1>2. p # NULL /\ n # NULL
  BY SlotAssumption
<1>3. PICK s \in Side : t[s][p] = n
  BY <1>1, <1>2 DEF Linked, Inserting
<1>4. n # p /\ n # t.rb_node /\ p \in below[t.rb_node]
  BY <1>1, <1>2, <1>3, Distinct
<1>5. t.color[t.rb_node] = "black" /\ p # t.rb_node
  BY <1>4 DEF Inserting
<1>6. t.parent[p] # NULL
  BY <1>1, <1>4, <1>5 DEF Linked
<1>7. t.parent[p] \in Slot
  BY <1>1, <1>6, Fields DEF Link
<1>8. PICK side \in Side : t[side][t.parent[p]] = p
  BY <1>1, <1>6 DEF Linked
<1>9. t.color[t.parent[p]] # "red"
  <2>1. NoRedPair(t, n)
    BY DEF Inserting
  <2> QED BY <1>2, <1>4, <1>7, <1>8, <2>1 DEF NoRedPair, IsBlackOrNull
<1>10. t.color[t.parent[p]] = "black"
  BY <1>1, <1>7, <1>9, Fields DEF Colour
<1>11. t.rb_node \in Slot
  <2>1. below[NULL] = {} /\ t.rb_node \in Link
    BY <1>1, Fields DEF Ordered
  <2> QED BY <1>4, <2>1 DEF Link
<1> QED BY <1>3, <1>4, <1>5, <1>7, <1>8, <1>10, <1>11

\* Case 3: node is the outer child of its parent.
LEMMA InsertTurn ==
  ASSUME NEW t, NEW below, NEW bh, NEW n \in Slot, NEW p \in Slot, NEW g \in Slot,
         NEW side \in Side, Inserting(t, below, bh, n, p), t.color[p] = "red",
         t[side][g] = p, t[side][p] = n, IsBlackOrNull(t, t[Opposite(side)][g]),
         NEW r \in Tree, Turned(t, r, g, p, side),
         \A m \in Slot : r.color[m] = IF m = g THEN "red"
                                      ELSE IF m = p THEN t.color[g]
                                      ELSE IF m = t[Opposite(side)][p] THEN "black"
                                      ELSE t.color[m]
  PROVE  \E below2, bh2 : Finished(r, below2, bh2) /\ below2[r.rb_node] = below[t.rb_node]
<1> DEFINE inner == Opposite(side)
           c == t[inner][p]
           d == t[inner][g]
           bh2 == [bh EXCEPT ![p] = bh[g], ![g] = bh[p]]
           b2 == TurnedBelow(t, below, g, p, side)
<1>1. /\ Shape(t, below) /\ t \in Tree /\ Linked(t, below)
      /\ Balanced(t, bh, NULL, NULL) /\ NoRedPair(t, n)
      /\ inner \in Side /\ inner # side
  BY Sides DEF Inserting, Shape
<1>2. p # NULL /\ g # NULL /\ n # NULL
  BY SlotAssumption
<1>3. t.parent[p] = g /\ p # g /\ c \notin {g, p} /\ d # p /\ c # n /\ n \notin {g, p} /\ d # g
  <2>1. t.parent[p] = g /\ p # g /\ c \notin {g, p} /\ d # p /\ n \notin {g, p}
    BY <1>1, <1>2, Distinct
  <2>2. c # n
    BY <1>1, <1>2, Distinct
  <2>3. d # g
    BY <1>1, ChildBelow DEF Shape
  <2> QED BY <2>1, <2>2, <2>3
<1>4. t.color[g] = "black" /\ n # t.rb_node /\ p # t.rb_node /\ t.color[t.rb_node] = "black" /\ t.rb_node \in Slot
  BY <1>3, Grandparent
<1>5. IsBlackOrNull(t, c)
  BY <1>1, <1>3 DEF NoRedPair
<1>6. /\ bh \in [Link -> Nat] /\ Slot \subseteq Link /\ NULL \in Link /\ bh[NULL] = 0
      /\ c \in Link /\ d \in Link /\ n \in Link
  BY <1>1, Fields DEF Balanced, Link
<1>7. bh[p] = bh[n] /\ bh[p] = bh[c] /\ bh[g] = bh[p] + 1 /\ bh[g] = bh[d] + 1
  <2>1. NULL \in Link
    BY DEF Link
  <2>2. /\ bh[n] \in Nat /\ bh[c] \in Nat /\ bh[p] \in Nat /\ bh[d] \in Nat
        /\ bh[p] = bh[n] + Weight(t, p) /\ bh[p] = bh[c] + Weight(t, p) /\ Weight(t, p) = 0
    BY <1>1, <1>2, <1>6, <2>1, Heights
  <2>3. bh[g] = bh[p] + Weight(t, g) /\ bh[g] = bh[d] + Weight(t, g) /\ Weight(t, g) = 1
    BY <1>1, <1>2, <1>4, <2>1, Heights
  <2> QED BY <2>2, <2>3
<1>8. /\ bh2 \in [Link -> Nat] /\ bh2[NULL] = 0 /\ bh2[p] = bh[g] /\ bh2[g] = bh[p]
      /\ \A m \in Link \ {p, g} : bh2[m] = bh[m]
  BY <1>2, <1>3, <1>6
<1> HIDE DEF bh2
<1>9. /\ r.color[g] = "red" /\ r.color[p] = "black"
      /\ \A m \in Slot \ {p, g} : r.color[m] = t.color[m]
  <2>1. \A m \in Slot \ {p, g} : m = c => t.color[m] = "black"
    BY <1>5, SlotAssumption DEF IsBlackOrNull
  <2> QED BY <1>3, <1>4, <2>1
<1>10. Balanced(r, bh2, NULL, NULL)
  <2>1. /\ bh2[c] = bh[c] /\ bh2[d] = bh[d] /\ bh2[n] = bh[n]
    BY <1>3, <1>6, <1>8
  <2>2. Weight(r, p) = 1 /\ Weight(r, g) = 0 /\ Weight(r, n) = Weight(t, n)
    BY <1>3, <1>9 DEF Weight
  <2>3. \A s \in Side : Lack(NULL, NULL, g, s) = 0
    BY <1>2 DEF Lack
  <2>t. bh[c] \in Nat /\ bh[d] \in Nat /\ bh[n] \in Nat /\ bh[p] \in Nat /\ bh[g] \in Nat
    BY <1>6
  <2>l. Lack(NULL, NULL, g, side) = 0 /\ Lack(NULL, NULL, g, inner) = 0
    BY <1>1, <2>3
  <2>x. bh2[p] = bh2[n] + Weight(r, p)
    BY <1>7, <1>8, <2>1, <2>2, <2>t
  <2>y. bh2[p] = bh2[g] + Weight(r, p)
    BY <1>7, <1>8, <2>2, <2>t
  <2>z. bh2[g] = bh2[c] + Lack(NULL, NULL, g, side) + Weight(r, g)
    BY <1>7, <1>8, <2>1, <2>2, <2>t, <2>l
  <2>4. bh2[g] = bh2[d] + Lack(NULL, NULL, g, inner) + Weight(r, g)
    BY <1>7, <1>8, <2>1, <2>2, <2>t, <2>l
  <2>5. \A m \in Slot \ {p, g, t[side][p]} : bh2[m] = bh[m] /\ r.color[m] = t.color[m]
    BY <1>6, <1>8, <1>9
  <2>6. t[side][p] # NULL => bh2[t[side][p]] + Weight(t, t[side][p]) = bh[t[side][p]] + Weight(r, t[side][p])
    BY <2>1, <2>2
  <2>7. TurnHeights(t, r, g, p, side, bh, bh2, NULL, NULL)
    BY <1>8, <2>x, <2>y, <2>z, <2>4, <2>5, <2>6 DEF TurnHeights
  <2> QED BY <1>1, <1>2, <1>8, <2>7, TurnBalance
<1>11. NoRedPair(r, NULL)
  <2>1. IsBlackOrNull(r, c) /\ IsBlackOrNull(r, d)
    BY <1>3, <1>5, <1>6, <1>9 DEF IsBlackOrNull, Link
  <2>2. \A m \in Slot \ {p, g, t[side][p]} : r.color[m] = t.color[m]
    BY <1>9
  <2>3. t[side][p] # NULL /\ r.color[t[side][p]] = "red" => t.color[t[side][p]] = "red"
    BY <1>3, <1>9
  <2> QED BY <1>1, <1>9, <2>1, <2>2, <2>3, TurnColours
<1>12. Shape(r, b2) /\ b2[r.rb_node] = below[t.rb_node]
  BY <1>1, TurnShape
<1>13. IsBlackOrNull(r, r.rb_node)
  <2>1. r.rb_node = IF t.rb_node = g THEN p ELSE t.rb_node
    BY DEF Turned
  <2> QED BY <1>4, <1>9, <2>1 DEF IsBlackOrNull
<1>14. Finished(r, b2, bh2)
  BY <1>10, <1>11, <1>12, <1>13 DEF Finished
<1> QED BY <1>12, <1>14

\* Case 2: node is the inner child; turned at its parent it is an outer one.
LEMMA InsertTurnInner ==
  ASSUME NEW t, NEW below, NEW bh, NEW n \in Slot, NEW p \in Slot, NEW g \in Slot,
         NEW side \in Side, Inserting(t, below, bh, n, p), t.color[p] = "red",
         t[side][g] = p, t[Opposite(side)][p] = n,
         NEW v \in Tree, Turned(t, v, p, n, Opposite(side)), v.color = t.color
  PROVE  /\ \E below2 : /\ Inserting(v, below2, bh, p, n)
                        /\ below2[v.rb_node] = below[t.rb_node]
         /\ v[side][g] = n /\ v[side][n] = p /\ v[Opposite(side)][g] = t[Opposite(side)][g]
         /\ IsBlackOrNull(t, t[side][n])
<1> DEFINE inner == Opposite(side)
           a == t[inner][n]
           c == t[side][n]
           e == t[side][p]
           b2 == TurnedBelow(t, below, p, n, inner)
<1>1. /\ Shape(t, below) /\ t \in Tree /\ Linked(t, below)
      /\ Balanced(t, bh, NULL, NULL) /\ NoRedPair(t, n) /\ t.color[n] = "red"
      /\ inner \in Side /\ inner # side /\ Opposite(inner) = side
  BY Sides DEF Inserting, Shape
<1>2. p # NULL /\ g # NULL /\ n # NULL
  BY SlotAssumption
<1>3. /\ t.parent[p] = g /\ p # g /\ n \notin {g, p} /\ e # n
      /\ a \notin {n, p} /\ c \notin {n, p} /\ t.rb_node # p
  <2>1. t.parent[p] = g /\ p # g /\ n \notin {g, p} /\ t.rb_node # p
    BY <1>1, <1>2, Distinct
  <2>2. e # n /\ a \notin {n, p} /\ c \notin {n, p}
    BY <1>1, <1>2, Distinct
  <2> QED BY <2>1, <2>2
<1>4. n # t.rb_node /\ t.color[t.rb_node] = "black" /\ t.color[g] = "black"
  BY <1>3, Grandparent
<1>5. IsBlackOrNull(t, a) /\ IsBlackOrNull(t, c) /\ IsBlackOrNull(t, e)
  BY <1>1, <1>3 DEF NoRedPair
<1>6. bh \in [Link -> Nat] /\ bh[NULL] = 0
  BY <1>1 DEF Balanced
<1>7. bh[n] = bh[p] /\ bh[n] = bh[a] /\ bh[n] = bh[c] /\ bh[p] = bh[e]
  <2>1. NULL \in Link
    BY DEF Link
  <2>2. /\ bh[n] \in Nat /\ bh[a] \in Nat /\ bh[c] \in Nat /\ bh[e] \in Nat
        /\ bh[n] = bh[a] + Weight(t, n) /\ bh[n] = bh[c] + Weight(t, n) /\ Weight(t, n) = 0
        /\ bh[p] = bh[n] + Weight(t, p) /\ bh[p] = bh[e] + Weight(t, p) /\ Weight(t, p) = 0
    BY <1>1, <1>2, <2>1, Heights
  <2> QED BY <2>2
<1>8. Balanced(v, bh, NULL, NULL)
  <2>1. \A m \in Slot : Weight(v, m) = Weight(t, m)
    BY DEF Weight
  <2>2. Weight(v, n) = 0 /\ Weight(v, p) = 0
    BY <1>1 DEF Weight
  <2>3. Lack(NULL, NULL, p, side) = 0 /\ Lack(NULL, NULL, p, inner) = 0
    BY <1>2 DEF Lack
  <2>4. bh[a] \in Nat /\ bh[c] \in Nat /\ bh[e] \in Nat /\ bh[p] \in Nat /\ bh[n] \in Nat
    BY <1>1, <1>6, Fields DEF Link
  <2>x. bh[n] = bh[a] + Weight(v, n)
    BY <1>7, <2>2, <2>4
  <2>y. bh[n] = bh[p] + Weight(v, n)
    BY <1>7, <2>2, <2>4
  <2>z. bh[p] = bh[c] + Lack(NULL, NULL, p, inner) + Weight(v, p)
    BY <1>7, <2>2, <2>3, <2>4
  <2>5. bh[p] = bh[e] + Lack(NULL, NULL, p, side) + Weight(v, p)
    <3>1. bh[p] = bh[e] /\ bh[e] \in Nat
      BY <1>7, <2>4
    <3>2. Lack(NULL, NULL, p, side) = 0 /\ Weight(v, p) = 0
      BY <2>2, <2>3
    <3> QED BY ONLY <3>1, <3>2
  <2>6. a # NULL => a \in Slot /\ bh[a] + Weight(t, a) = bh[a] + Weight(v, a)
    BY <1>1, <2>1, Fields DEF Link
  <2>7. TurnHeights(t, v, p, n, inner, bh, bh, NULL, NULL)
    BY <1>1, <1>6, <1>7, <2>x, <2>y, <2>z, <2>5, <2>6 DEF TurnHeights
  <2> QED BY <1>1, <1>2, <1>6, <2>7, TurnBalance
<1>9. NoRedPair(v, p)
  <2>1. IsBlackOrNull(v, a) /\ IsBlackOrNull(v, c) /\ IsBlackOrNull(v, e)
    BY <1>5 DEF IsBlackOrNull
  <2> QED BY <1>1, <2>1, TurnColours
<1>10. Shape(v, b2) /\ b2[v.rb_node] = below[t.rb_node]
  BY <1>1, TurnShape
<1>11. v.rb_node = t.rb_node /\ v.parent[p] = n /\ v[side][g] = n /\ v[side][n] = p /\ v[inner][g] = t[inner][g]
  <2>1. t[inner][g] # p
    BY <1>1, <1>2, Distinct
  <2> QED BY <1>1, <1>3, <2>1 DEF Turned
<1>12. p \in b2[v.rb_node]
  BY <1>1, <1>2, <1>10, Distinct
<1>13. Inserting(v, b2, bh, p, n)
  BY <1>4, <1>8, <1>9, <1>10, <1>11, <1>12 DEF Inserting
<1> QED BY <1>5, <1>10, <1>11, <1>13

\* The rotations of __rb_insert end the loop with a red-black tree of the same
\* nodes.
LEMMA InsertRotateEnds ==
  ASSUME NEW t, NEW below, NEW bh, NEW n \in Slot, NEW p \in Slot, NEW g \in Slot,
         NEW side \in Side, Inserting(t, below, bh, n, p), t.color[p] = "red",
         t[side][g] = p, IsBlackOrNull(t, t[Opposite(side)][g]), NEW r,
         r = IF n = t[Opposite(side)][p]
             THEN RotateAtGparent(RotateAtParent(t, n, p, side), g, n, side)
             ELSE RotateAtGparent(t, g, p, side)
  PROVE  \E below2, bh2 : Finished(r, below2, bh2) /\ below2[r.rb_node] = below[t.rb_node]
<1> DEFINE inner == Opposite(side)
<1>1. Shape(t, below) /\ t \in Tree /\ t.color[n] = "red" /\ inner \in Side
  BY Sides DEF Inserting, Shape
<1>2. CASE n # t[inner][p]
  <2>1. t[side][p] = n
    <3>1. \E s \in Side : t[s][p] = n
      BY Grandparent
    <3> QED BY <1>2, <3>1, Sides
  <2>2. /\ r \in Tree
        /\ Turned(t, r, g, p, side)
        /\ \A m \in Slot : r.color[m] = IF m = g THEN "red"
                                        ELSE IF m = p THEN t.color[g]
                                        ELSE IF m = t[Opposite(side)][p] THEN "black"
                                        ELSE t.color[m]
    <3>1. r = RotateAtGparent(t, g, p, side)
      BY <1>2
    <3> QED BY <1>1, <3>1, RotateAtGparentIs
  <2> QED BY <2>1, <2>2, InsertTurn
<1>3. CASE n = t[inner][p]
  <2>1. PICK v \in Tree : Turned(t, v, p, n, inner) /\ v.color = t.color
    <3>1. t.color \in [Slot -> Colour]
      BY <1>1, Fields
    <3> QED BY <1>1, <1>3, <3>1, TurnExists
  <2>2. /\ \E below2 : /\ Inserting(v, below2, bh, p, n)
                       /\ below2[v.rb_node] = below[t.rb_node]
        /\ v[side][g] = n /\ v[side][n] = p /\ v[inner][g] = t[inner][g]
        /\ IsBlackOrNull(t, t[side][n])
    BY <1>3, <2>1, InsertTurnInner
  <2>3. PICK b1 : Inserting(v, b1, bh, p, n) /\ b1[v.rb_node] = below[t.rb_node]
    BY <2>2
  <2> DEFINE u == RotateAtParent(t, n, p, side)
  <2>4. /\ u \in Tree /\ u.rb_node = v.rb_node
        /\ \A m \in Slot :
             /\ m # g => u[side][m] = v[side][m]
             /\ u[inner][m] = v[inner][m]
             /\ m # n => u.parent[m] = v.parent[m]
             /\ u.color[m] = v.color[m]
    BY <1>1, <1>3, <2>1, <2>2, RotateAtParentIs
  <2>5. r = RotateAtGparent(u, g, n, side)
    BY <1>3
  <2> HIDE DEF u
  <2>6. Shape(v, b1) /\ v.color[n] = "red" /\ IsBlackOrNull(v, v[inner][g])
    BY <1>1, <2>1, <2>2, <2>3 DEF Inserting, IsBlackOrNull
  <2>7. /\ r \in Tree
        /\ Turned(v, r, g, n, side)
        /\ \A m \in Slot : r.color[m] = IF m = g THEN "red"
                                        ELSE IF m = n THEN v.color[g]
                                        ELSE IF m = v[Opposite(side)][n] THEN "black"
                                        ELSE v.color[m]
    BY <2>2, <2>4, <2>5, <2>6, RotateAtGparentIs
  <2>8. \E below2, bh2 : Finished(r, below2, bh2) /\ below2[r.rb_node] = b1[v.rb_node]
    BY <2>2, <2>3, <2>6, <2>7, InsertTurn
  <2> QED BY <2>3, <2>8
<1> QED BY <1>2, <1>3

\* Case 1 moves the red pair to the grandparent.
LEMMA InsertFlipClimbs ==
  ASSUME NEW t, NEW below, NEW bh, NEW n \in Slot, NEW p \in Slot, NEW g \in Slot,
         NEW side \in Side, NEW u \in Slot, Inserting(t, below, bh, n, p), t.color[p] = "red",
         t[side][g] = p, t[Opposite(side)][g] = u, t.color[u] = "red", NEW r,
         r = rb_set_parent_color(rb_set_parent_color(rb_set_parent_color(t, u, g, "black"),
                                                     p, g, "black"),
                                 g, t.parent[g], "red")
  PROVE  /\ \E bh2 : Inserting(r, below, bh2, g, t.parent[g])
         /\ r.rb_node = t.rb_node
<1> DEFINE inner == Opposite(side)
           t1 == rb_set_parent_color(t, u, g, "black")
           t2 == rb_set_parent_color(t1, p, g, "black")
           bh2 == [bh EXCEPT ![p] = bh[p] + 1, ![u] = bh[u] + 1]
<1>1. /\ Shape(t, below) /\ t \in Tree /\ Linked(t, below)
      /\ Balanced(t, bh, NULL, NULL) /\ NoRedPair(t, n)
      /\ inner \in Side /\ inner # side
  BY Sides DEF Inserting, Shape
<1>2. /\ p # NULL /\ g # NULL /\ u # NULL /\ p \in Link /\ g \in Link /\ u \in Link
      /\ t.parent[g] \in Link /\ "red" \in Colour /\ "black" \in Colour
  BY <1>1, SlotAssumption, Fields DEF Link, Colour
<1>3. /\ t.parent[p] = g /\ t.parent[u] = g /\ p # u /\ g # p /\ g # u
      /\ t.rb_node \notin {p, u} /\ g \in below[t.rb_node]
  BY <1>1, <1>2, Distinct
<1>4. t.color[g] = "black" /\ n # t.rb_node /\ t.color[t.rb_node] = "black" /\ t.rb_node \in Slot
  BY <1>3, Grandparent
<1>5. ParentColorSet(t, t1, u, g, "black")
  BY <1>1, <1>2, SetParentColorFields
<1> HIDE DEF t1
<1>6. ParentColorSet(t1, t2, p, g, "black")
  <2>1. t1 \in Tree
    BY <1>5 DEF ParentColorSet
  <2> QED BY <1>2, <2>1, SetParentColorFields
<1>7. r = rb_set_parent_color(t2, g, t.parent[g], "red")
  BY DEF t1
<1> HIDE DEF t2
<1>8. ParentColorSet(t2, r, g, t.parent[g], "red")
  <2>1. t2 \in Tree
    BY <1>6 DEF ParentColorSet
  <2> QED BY <1>2, <1>7, <2>1, SetParentColorFields
<1>9. /\ r \in Tree /\ r.rb_node = t.rb_node
      /\ \A m \in Slot :
           /\ \A s \in Side : r[s][m] = t[s][m]
           /\ r.parent[m] = t.parent[m]
           /\ r.color[m] = IF m = g THEN "red" ELSE IF m = p \/ m = u THEN "black" ELSE t.color[m]
  BY <1>3, <1>5, <1>6, <1>8 DEF ParentColorSet
<1>10. Shape(r, below)
  BY <1>1, <1>9, RecolourShape DEF SameLinks
<1>11. /\ bh \in [Link -> Nat] /\ bh[NULL] = 0
       /\ bh2 \in [Link -> Nat] /\ bh2[p] = bh[p] + 1 /\ bh2[u] = bh[u] + 1
       /\ \A m \in Link \ {p, u} : bh2[m] = bh[m]
  <2>1. bh \in [Link -> Nat] /\ bh[NULL] = 0
    BY <1>1 DEF Balanced
  <2>2. bh[p] + 1 \in Nat /\ bh[u] + 1 \in Nat
    BY <1>2, <2>1
  <2> QED BY <1>2, <1>3, <2>1, <2>2
<1> HIDE DEF bh2
<1>12. ASSUME NEW m \in Slot, NEW s \in Side
       PROVE  bh2[m] = bh2[r[s][m]] + Lack(NULL, NULL, m, s) + Weight(r, m)
  <2>1. /\ bh[m] \in Nat /\ bh[t[s][m]] \in Nat /\ t[s][m] \in Link
        /\ bh[m] = bh[t[s][m]] + Weight(t, m) /\ m # NULL /\ m \in Link
    <3>1. m # NULL /\ NULL \in Link /\ m \in Link
      BY SlotAssumption DEF Link
    <3> QED BY <1>1, <3>1, Heights
  <2>2. Lack(NULL, NULL, m, s) = 0
    BY <2>1 DEF Lack
  <2>3. r[s][m] = t[s][m]
    BY <1>9
  <2>4. CASE m = g
    <3>1. t[s][m] \in {p, u}
      BY <2>4, Sides
    <3>2. bh2[t[s][m]] = bh[t[s][m]] + 1 /\ bh2[m] = bh[m]
      BY <1>2, <1>3, <1>11, <2>4, <3>1
    <3>3. Weight(t, m) = 1 /\ Weight(r, m) = 0
      BY <1>4, <1>9, <2>4 DEF Weight
    <3> QED BY <2>1, <2>2, <2>3, <3>2, <3>3
  <2>5. CASE m # g
    <3>1. bh2[t[s][m]] = bh[t[s][m]]
      <4>1. t[s][m] # p /\ t[s][m] # u
        BY <1>1, <1>2, <1>3, <2>5 DEF Linked
      <4> QED BY <1>11, <2>1, <4>1
    <3>2. CASE m \in {p, u}
      <4>1. bh2[m] = bh[m] + 1
        BY <1>11, <3>2
      <4>2. Weight(t, m) = 0 /\ Weight(r, m) = 1
        BY <1>3, <1>9, <2>5, <3>2 DEF Weight
      <4> QED BY <2>1, <2>2, <2>3, <3>1, <4>1, <4>2
    <3>3. CASE m \notin {p, u}
      <4>1. bh2[m] = bh[m]
        BY <1>11, <2>1, <3>3
      <4>2. Weight(t, m) = Weight(r, m) /\ Weight(t, m) \in Nat
        BY <1>9, <2>5, <3>3 DEF Weight
      <4> QED BY <2>1, <2>2, <2>3, <3>1, <4>1, <4>2
    <3> QED BY <3>2, <3>3
  <2> QED BY <2>4, <2>5
<1>13. Balanced(r, bh2, NULL, NULL)
  <2>1. bh2[NULL] = 0
    BY <1>2, <1>11 DEF Link
  <2> QED BY <1>11, <1>12, <2>1 DEF Balanced
<1>14. NoRedPair(r, g)
  <2>1. SUFFICES ASSUME NEW m \in Slot, NEW s \in Side, r.color[m] = "red",
                        r[s][m] # g, r[s][m] # NULL
                 PROVE  r.color[r[s][m]] = "black"
    BY DEF NoRedPair, IsBlackOrNull
  <2> DEFINE z == t[s][m]
  <2>2. z \in Slot /\ r[s][m] = z /\ z # g /\ z # NULL
    BY <1>1, <1>9, <2>1, Fields DEF Link
  <2>3. CASE z \in {p, u}
    BY <1>3, <1>9, <2>2, <2>3
  <2>4. CASE z \notin {p, u}
    <3>1. m # g
      BY <2>4, Sides
    <3>2. t.color[m] = "red" /\ m \notin {p, u}
      BY <1>9, <2>1, <3>1
    <3>3. z # n
      <4>1. t.parent[z] = m
        BY <1>1, <2>2 DEF Linked
      <4>2. t.parent[n] = p
        BY DEF Inserting
      <4> QED BY <3>2, <4>1, <4>2
    <3>4. t.color[z] = "black"
      BY <1>1, <2>2, <3>2, <3>3 DEF NoRedPair, IsBlackOrNull
    <3> QED BY <1>9, <2>2, <2>4, <3>4
  <2> QED BY <2>3, <2>4
<1>15. Inserting(r, below, bh2, g, t.parent[g])
  <2>1. r.rb_node # g => r.color[r.rb_node] = "black"
    BY <1>3, <1>4, <1>9
  <2> QED BY <1>3, <1>9, <1>10, <1>13, <1>14, <2>1 DEF Inserting
<1> QED BY <1>9, <1>15

\* The loop ends at the root, which it makes black, or below a black parent.
LEMMA InsertDoneEnds ==
  ASSUME NEW t, NEW below, NEW bh, NEW n \in Slot, NEW p \in Link,
         Inserting(t, below, bh, n, p), IsBlackOrNull(t, p), NEW r,
         r = IF p = NULL THEN rb_set_parent_color(t, n, NULL, "black") ELSE t
  PROVE  /\ \E bh2 : Finished(r, below, bh2)
         /\ r.rb_node = t.rb_node
<1>1. /\ Shape(t, below) /\ t \in Tree /\ Linked(t, below) /\ t.color[n] = "red"
      /\ Balanced(t, bh, NULL, NULL) /\ NoRedPair(t, n) /\ t.parent[n] = p
      /\ n \in below[t.rb_node]
  BY DEF Inserting, Shape
<1>2. n # NULL /\ n \in Link /\ NULL \in Link /\ "black" \in Colour
  BY SlotAssumption DEF Link, Colour
<1>3. \A m \in Slot : \A s \in Side : t[s][m] = n => m = p
  BY <1>1, <1>2 DEF Linked
<1>4. CASE p = NULL
  <2> DEFINE bh2 == [bh EXCEPT ![n] = bh[n] + 1]
  <2>1. t.rb_node = n
    BY <1>1, <1>4 DEF Linked
  <2>2. ParentColorSet(t, r, n, NULL, "black")
    BY <1>1, <1>2, <1>4, SetParentColorFields
  <2>3. /\ r \in Tree /\ r.rb_node = t.rb_node
        /\ \A m \in Slot :
             /\ \A s \in Side : r[s][m] = t[s][m]
             /\ r.parent[m] = t.parent[m]
             /\ r.color[m] = IF m = n THEN "black" ELSE t.color[m]
    BY <1>1, <1>4, <2>2 DEF ParentColorSet
  <2>4. Shape(r, below)
    BY <1>1, <2>3, RecolourShape DEF SameLinks
  <2>5. /\ bh \in [Link -> Nat] /\ bh[NULL] = 0
        /\ bh2 \in [Link -> Nat] /\ bh2[n] = bh[n] + 1
        /\ \A m \in Link \ {n} : bh2[m] = bh[m]
    <3>1. bh \in [Link -> Nat] /\ bh[NULL] = 0
      BY <1>1 DEF Balanced
    <3>2. bh[n] + 1 \in Nat
      BY <1>2, <3>1
    <3> QED BY <1>2, <3>1, <3>2
  <2> HIDE DEF bh2
  <2>6. ASSUME NEW m \in Slot, NEW s \in Side
        PROVE  bh2[m] = bh2[r[s][m]] + Lack(NULL, NULL, m, s) + Weight(r, m)
    <3>1. m # NULL /\ m \in Link
      BY SlotAssumption DEF Link
    <3>2. /\ bh[m] \in Nat /\ bh[t[s][m]] \in Nat /\ t[s][m] \in Link
          /\ bh[m] = bh[t[s][m]] + Weight(t, m)
      BY <1>1, <1>2, <3>1, Heights
    <3>3. Lack(NULL, NULL, m, s) = 0 /\ r[s][m] = t[s][m]
      BY <2>3, <3>1 DEF Lack
    <3>4. bh2[t[s][m]] = bh[t[s][m]]
      BY <1>3, <1>4, <2>5, <3>1, <3>2
    <3>5. CASE m = n
      <4>1. bh2[m] = bh[m] + 1 /\ Weight(t, m) = 0 /\ Weight(r, m) = 1
        BY <1>1, <2>3, <2>5, <3>5 DEF Weight
      <4> QED BY <3>2, <3>3, <3>4, <4>1
    <3>6. CASE m # n
      <4>1. bh2[m] = bh[m] /\ Weight(t, m) = Weight(r, m) /\ Weight(t, m) \in Nat
        BY <2>3, <2>5, <3>1, <3>6 DEF Weight
      <4> QED BY <3>2, <3>3, <3>4, <4>1
    <3> QED BY <3>5, <3>6
  <2>7. Balanced(r, bh2, NULL, NULL)
    <3>1. bh2[NULL] = 0
      BY <1>2, <2>5
    <3> QED BY <2>5, <2>6, <3>1 DEF Balanced
  <2>8. NoRedPair(r, NULL)
    <3>1. SUFFICES ASSUME NEW m \in Slot, NEW s \in Side, r.color[m] = "red", r[s][m] # NULL
                   PROVE  r.color[r[s][m]] = "black"
      BY DEF NoRedPair, IsBlackOrNull
    <3>2. r[s][m] = t[s][m] /\ t[s][m] \in Slot /\ t[s][m] # n /\ t.color[m] = "red"
      BY <1>1, <1>3, <1>4, <2>3, <3>1, Fields, SlotAssumption DEF Link
    <3> QED BY <1>1, <2>3, <3>1, <3>2 DEF NoRedPair, IsBlackOrNull
  <2>9. IsBlackOrNull(r, r.rb_node)
    BY <2>1, <2>3 DEF IsBlackOrNull
  <2>10. Finished(r, below, bh2)
    BY <2>4, <2>7, <2>8, <2>9 DEF Finished
  <2> QED BY <2>3, <2>10
<1>5. CASE p # NULL
  <2>1. r = t /\ t.color[p] = "black"
    BY <1>5 DEF IsBlackOrNull
  <2>2. NoRedPair(t, NULL)
    <3>1. SUFFICES ASSUME NEW m \in Slot, NEW s \in Side, t.color[m] = "red", t[s][m] # NULL
                   PROVE  IsBlackOrNull(t, t[s][m])
      BY DEF NoRedPair, IsBlackOrNull
    <3>2. t[s][m] # n
      BY <1>3, <2>1, <3>1
    <3> QED BY <1>1, <3>1, <3>2 DEF NoRedPair
  <2>3. t.rb_node # n
    BY <1>1, <1>2, <1>5 DEF Linked
  <2>4. IsBlackOrNull(t, t.rb_node)
    BY <2>3 DEF Inserting, IsBlackOrNull
  <2>5. Finished(t, below, bh)
    BY <1>1, <2>2, <2>4 DEF Finished
  <2> QED BY <2>1, <2>5
<1> QED BY <1>4, <1>5

LEMMA ForgetFields ==
  ASSUME NEW t \in Tree, NEW n \in Slot
  PROVE  /\ Forget(t, n) \in Tree /\ Forget(t, n).rb_node = t.rb_node
         /\ \A m \in Slot :
              /\ \A s \in Side : Forget(t, n)[s][m] = IF m = n THEN NULL ELSE t[s][m]
              /\ Forget(t, n).parent[m] = IF m = n THEN NULL ELSE t.parent[m]
              /\ Forget(t, n).color[m] = IF m = n THEN "red" ELSE t.color[m]
<1> DEFINE u == rb_set_parent_color(t, n, NULL, "red")
           r == [u EXCEPT !.rb_left[n] = NULL, !.rb_right[n] = NULL]
<1>1. ParentColorSet(t, u, n, NULL, "red")
  <2>1. n \in Link /\ NULL \in Link /\ n # NULL /\ "red" \in Colour
    BY SlotAssumption DEF Link, Colour
  <2> QED BY <2>1, SetParentColorFields
<1>2. Forget(t, n) = r
  BY DEF Forget
<1> HIDE DEF u
<1>3. u \in Tree
  BY <1>1 DEF ParentColorSet
<1>4. /\ r \in Tree /\ r.rb_node = u.rb_node /\ r.parent = u.parent /\ r.color = u.color
      /\ r.rb_left = [u.rb_left EXCEPT ![n] = NULL]
      /\ r.rb_right = [u.rb_right EXCEPT ![n] = NULL]
  BY <1>3 DEF Tree, Link
<1> HIDE DEF r
<1>5. /\ u.rb_left \in [Slot -> Link] /\ u.rb_right \in [Slot -> Link]
      /\ \A s \in Side : r[s] = [u[s] EXCEPT ![n] = NULL]
      /\ \A s \in Side : u[s] \in [Slot -> Link]
  BY <1>3, <1>4, Fields DEF Side
<1>6. \A m \in Slot : \A s \in Side : r[s][m] = IF m = n THEN NULL ELSE u[s][m]
  BY <1>5
<1> QED BY <1>1, <1>2, <1>4, <1>6 DEF ParentColorSet

LEMMA LinkNodeFields ==
  ASSUME NEW t \in Tree, NEW n \in Slot, NEW p \in Link, NEW r, r = rb_link_node(t, n, p)
  PROVE  /\ r \in Tree /\ r.rb_node = t.rb_node
         /\ \A m \in Slot :
              /\ \A s \in Side : r[s][m] = IF m = n THEN NULL ELSE t[s][m]
              /\ r.parent[m] = IF m = n THEN p ELSE t.parent[m]
              /\ r.color[m] = IF m = n THEN "red" ELSE t.color[m]
<1> DEFINE u == Forget(t, n)
<1>1. /\ u \in Tree /\ u.rb_node = t.rb_node
      /\ \A m \in Slot :
           /\ \A s \in Side : u[s][m] = IF m = n THEN NULL ELSE t[s][m]
           /\ u.parent[m] = IF m = n THEN NULL ELSE t.parent[m]
           /\ u.color[m] = IF m = n THEN "red" ELSE t.color[m]
  BY ForgetFields
<1>2. r = rb_set_parent(u, n, p)
  BY DEF rb_link_node
<1> HIDE DEF u
<1>3. ParentSet(u, r, n, p)
  <2>1. n \in Link /\ n # NULL
    BY SlotAssumption DEF Link
  <2> QED BY <1>1, <1>2, <2>1, SetParentFields
<1> QED BY <1>1, <1>3 DEF ParentSet

\* The leaf w is linked, red, below its place.
LEMMA LinkStarts ==
  ASSUME NEW t, NEW below, NEW bh, Finished(t, below, bh), NEW w \in Slot,
         w \notin below[t.rb_node], t.rb_node # NULL,
         \A o \in below[t.rb_node] : BaseGfn[o] # BaseGfn[w], NEW r,
         LET at == InsertPoint(t, w)
         IN  r = SetChild(rb_link_node(t, w, at[1]), at[1], at[2], w)
  PROVE  /\ InsertPoint(t, w)[1] \in Slot
         /\ \E below2, bh2 : /\ Inserting(r, below2, bh2, w, InsertPoint(t, w)[1])
                             /\ below2[r.rb_node] = below[t.rb_node] \cup {w}
<1>1. /\ Shape(t, below) /\ t \in Tree /\ Ordered(t, below) /\ Linked(t, below)
      /\ Balanced(t, bh, NULL, NULL) /\ NoRedPair(t, NULL) /\ t.rb_node \in Slot
      /\ t.color[t.rb_node] = "black"
  <2>1. t \in Tree /\ IsBlackOrNull(t, t.rb_node)
    BY DEF Finished, Shape
  <2> QED BY <2>1, Fields DEF Finished, Shape, IsBlackOrNull, Link
<1>2. PICK at \in below[t.rb_node], side \in Side :
           /\ InsertPoint(t, w) = <<at, side>>
           /\ t[side][at] = NULL /\ Before(side, w, at)
           /\ \A m \in Slot : \A s \in Side : at \in below[t[s][m]] => Before(s, w, m)
  BY <1>1, InsertPointIs
<1>3. at \in Slot /\ at \in Link /\ at # w /\ w # NULL /\ w \in Link /\ NULL \in Link
  BY <1>1, <1>2, SlotAssumption DEF Ordered, Link
<1> DEFINE u == rb_link_node(t, w, at)
           b2 == AttachedBelow(below, w, at)
           bh2 == [bh EXCEPT ![w] = 0]
<1>4. r = SetChild(u, at, side, w) /\ InsertPoint(t, w)[1] = at
  BY <1>2
<1>5. /\ u \in Tree /\ u.rb_node = t.rb_node
      /\ \A m \in Slot :
           /\ \A s \in Side : u[s][m] = IF m = w THEN NULL ELSE t[s][m]
           /\ u.parent[m] = IF m = w THEN at ELSE t.parent[m]
           /\ u.color[m] = IF m = w THEN "red" ELSE t.color[m]
  BY <1>1, <1>3, LinkNodeFields
<1> HIDE DEF u
<1>6. ChildSet(u, r, at, side, w)
  BY <1>3, <1>4, <1>5, SetChildFields
<1>7. /\ t.rb_node # w /\ t.parent[w] = NULL /\ \A s \in Side : t[s][w] = NULL
      /\ \A m \in Slot : \A s \in Side : t[s][m] # w
  BY <1>1, Outside
<1>8. /\ r \in Tree /\ r.rb_node = t.rb_node
      /\ \A m \in Slot :
           /\ \A s \in Side : r[s][m] = IF m = at /\ s = side THEN w ELSE t[s][m]
           /\ r.parent[m] = IF m = w THEN at ELSE t.parent[m]
           /\ r.color[m] = IF m = w THEN "red" ELSE t.color[m]
  BY <1>3, <1>5, <1>6, <1>7 DEF ChildSet
<1>9. Shape(r, b2) /\ b2[r.rb_node] = below[t.rb_node] \cup {w}
  <2>1. Attached(t, r, w, at, side)
    BY <1>8 DEF Attached
  <2> QED BY <1>1, <1>2, <1>8, <2>1, AttachShape, SMTT(20)
<1> HIDE DEF b2
<1>10. /\ bh \in [Link -> Nat] /\ bh[NULL] = 0 /\ bh2 \in [Link -> Nat] /\ bh2[w] = 0
       /\ \A m \in Link \ {w} : bh2[m] = bh[m]
  BY <1>1, <1>3 DEF Balanced
<1> HIDE DEF bh2
<1>11. ASSUME NEW m \in Slot, NEW s \in Side
       PROVE  bh2[m] = bh2[r[s][m]] + Lack(NULL, NULL, m, s) + Weight(r, m)
  <2>1. m # NULL /\ m \in Link
    BY SlotAssumption DEF Link
  <2>2. /\ bh[m] \in Nat /\ bh[t[s][m]] \in Nat /\ t[s][m] \in Link
        /\ bh[m] = bh[t[s][m]] + Weight(t, m)
    BY <1>1, <1>3, <2>1, Heights
  <2>3. Lack(NULL, NULL, m, s) = 0
    BY <2>1 DEF Lack
  <2>4. CASE m = w
    <3>1. bh2[m] = 0 /\ Weight(r, m) = 0 /\ r[s][m] = NULL
      BY <1>3, <1>7, <1>8, <1>10, <2>4 DEF Weight
    <3>2. bh2[r[s][m]] = 0
      BY <1>3, <1>10, <3>1
    <3> QED BY <2>3, <3>1, <3>2
  <2>5. CASE m # w
    <3>1. bh2[m] = bh[m] /\ Weight(r, m) = Weight(t, m) /\ Weight(t, m) \in Nat
      BY <1>8, <1>10, <2>1, <2>5 DEF Weight
    <3>2. bh2[r[s][m]] = bh[t[s][m]]
      <4>1. CASE m = at /\ s = side
        BY <1>2, <1>8, <1>10, <4>1
      <4>2. CASE ~(m = at /\ s = side)
        BY <1>7, <1>8, <1>10, <2>2, <4>2
      <4> QED BY <4>1, <4>2
    <3> QED BY <2>2, <2>3, <3>1, <3>2
  <2> QED BY <2>4, <2>5
<1>12. Balanced(r, bh2, NULL, NULL)
  <2>1. bh2[NULL] = 0
    BY <1>3, <1>10
  <2> QED BY <1>10, <1>11, <2>1 DEF Balanced
<1>13. NoRedPair(r, w)
  <2>1. SUFFICES ASSUME NEW m \in Slot, NEW s \in Side, r.color[m] = "red",
                        r[s][m] # w, r[s][m] # NULL
                 PROVE  r.color[r[s][m]] = "black"
    BY DEF NoRedPair, IsBlackOrNull
  <2>2. r[s][m] = t[s][m] /\ m # w
    BY <1>3, <1>7, <1>8, <2>1
  <2>3. t[s][m] \in Slot /\ t.color[m] = "red"
    BY <1>1, <1>8, <2>1, <2>2, Fields DEF Link
  <2> QED BY <1>1, <1>8, <2>1, <2>2, <2>3 DEF NoRedPair, IsBlackOrNull
<1>14. Inserting(r, b2, bh2, w, at)
  <2>1. w \in b2[r.rb_node] /\ r.color[w] = "red" /\ r.parent[w] = at
    BY <1>8, <1>9
  <2>2. r.color[r.rb_node] = "black"
    BY <1>1, <1>7, <1>8
  <2> QED BY <1>9, <1>12, <1>13, <2>1, <2>2 DEF Inserting
<1> QED BY <1>3, <1>4, <1>9, <1>14

WithRoot(t, w) == [t EXCEPT !.rb_node = w]

\* An empty tree gets its root.
LEMMA RootStarts ==
  ASSUME NEW t, NEW below, NEW bh, Finished(t, below, bh), NEW w \in Slot, t.rb_node = NULL,
         NEW r, r = WithRoot(rb_link_node(t, w, NULL), w)
  PROVE  \E below2, bh2 : /\ Inserting(r, below2, bh2, w, NULL)
                          /\ below2[r.rb_node] = below[t.rb_node] \cup {w}
<1>1. /\ Shape(t, below) /\ t \in Tree /\ Ordered(t, below) /\ Linked(t, below)
      /\ Balanced(t, bh, NULL, NULL) /\ below[NULL] = {} /\ NULL \in Link
      /\ w \in Link /\ w # NULL
  BY SlotAssumption DEF Finished, Shape, Ordered, Link
<1>2. \A m \in Slot : t.parent[m] = NULL /\ below[m] = {m} /\ \A s \in Side : t[s][m] = NULL
  BY <1>1, Outside
<1> DEFINE u == rb_link_node(t, w, NULL)
           bh2 == [m \in Link |-> IF m = w \/ m = NULL THEN 0 ELSE Weight(t, m)]
<1>3. /\ u \in Tree
      /\ \A m \in Slot :
           /\ \A s \in Side : u[s][m] = IF m = w THEN NULL ELSE t[s][m]
           /\ u.parent[m] = IF m = w THEN NULL ELSE t.parent[m]
           /\ u.color[m] = IF m = w THEN "red" ELSE t.color[m]
  BY <1>1, LinkNodeFields
<1>4. r = [u EXCEPT !.rb_node = w]
  BY DEF WithRoot
<1> HIDE DEF u
<1>5. /\ r \in Tree /\ r.rb_node = w /\ r.parent = u.parent /\ r.color = u.color
      /\ r.rb_left = u.rb_left /\ r.rb_right = u.rb_right
  BY <1>1, <1>3, <1>4 DEF Tree
<1>6. \A m \in Slot :
        /\ \A s \in Side : r[s][m] = NULL
        /\ r.parent[m] = NULL
        /\ r.color[m] = IF m = w THEN "red" ELSE t.color[m]
  <2>1. \A s \in Side : r[s] = u[s]
    BY <1>3, <1>5, Fields DEF Side
  <2> QED BY <1>2, <1>3, <1>5, <2>1
<1>7. Ordered(r, below)
  <2>1. ASSUME NEW m \in Slot, NEW s \in Side
        PROVE  /\ below[m] = {m} \cup below[r[s][m]] \cup below[r[Opposite(s)][m]]
               /\ \A x \in below[r[s][m]] : Before(s, x, m)
    BY <1>1, <1>2, <1>6, Sides
  <2> QED BY <1>1, <2>1 DEF Ordered
<1>8. Linked(r, below)
  BY <1>1, <1>2, <1>5, <1>6 DEF Linked
<1>9. Shape(r, below)
  BY <1>5, <1>7, <1>8 DEF Shape
<1>10. bh2 \in [Link -> Nat] /\ \A m \in Link : bh2[m] = IF m = w \/ m = NULL THEN 0 ELSE Weight(t, m)
  BY DEF Weight
<1> HIDE DEF bh2
<1>11. ASSUME NEW m \in Slot, NEW s \in Side
       PROVE  bh2[m] = bh2[r[s][m]] + Lack(NULL, NULL, m, s) + Weight(r, m)
  <2>1. m # NULL /\ m \in Link
    BY SlotAssumption DEF Link
  <2>2. Lack(NULL, NULL, m, s) = 0 /\ bh2[r[s][m]] = 0
    BY <1>1, <1>6, <1>10, <2>1 DEF Lack
  <2>3. bh2[m] = Weight(r, m) /\ Weight(r, m) \in Nat
    BY <1>6, <1>10, <2>1 DEF Weight
  <2> QED BY <2>2, <2>3
<1>12. Balanced(r, bh2, NULL, NULL)
  <2>1. bh2[NULL] = 0
    BY <1>1, <1>10
  <2> QED BY <1>10, <1>11, <2>1 DEF Balanced
<1>13. NoRedPair(r, w)
  BY <1>6 DEF NoRedPair, IsBlackOrNull
<1>14. Inserting(r, below, bh2, w, NULL)
  BY <1>2, <1>5, <1>6, <1>9, <1>12, <1>13 DEF Inserting
<1> QED BY <1>1, <1>2, <1>5, <1>14

-----------------------------------------------------------------------------
(***************************************************************************)
(* Rebalancing after removal                                               *)
(***************************************************************************)

\* The paths through the child of p on side sd lack one black node.
Erasing(t, below, bh, p, sd) ==
  /\ Shape(t, below) /\ Balanced(t, bh, p, sd) /\ NoRedPair(t, NULL)
  /\ p \in below[t.rb_node] /\ IsBlackOrNull(t, t[sd][p])
  /\ t.color[t.rb_node] = "black"

\* What is known of the sibling s of n: it has one black node more below it.
Sibling(t, bh, p, sd, far, s, n) ==
  /\ t \in Tree /\ far \in Side /\ far # sd /\ Opposite(far) = sd
  /\ s \in Slot /\ s \in Link /\ s # NULL /\ n \in Link /\ p # NULL /\ p \in Link
  /\ s # n /\ s # p /\ n # p
  /\ bh \in [Link -> Nat] /\ bh[NULL] = 0
  /\ bh[p] \in Nat /\ bh[s] \in Nat /\ bh[n] \in Nat
  /\ bh[s] = bh[n] + 1
  /\ bh[p] = bh[s] + Weight(t, p)
  /\ \A z \in Side : /\ bh[s] = bh[t[z][s]] + Weight(t, s)
                     /\ t[z][s] \in Link /\ bh[t[z][s]] \in Nat
                     /\ t[z][s] \notin {p, s}
  /\ t.rb_node \in Slot /\ s # t.rb_node
  /\ \A z \in Side : t[z][s] # NULL => t[z][s] # t.rb_node

\* There is a sibling, with one black node more below it.
LEMMA SiblingIs ==
  ASSUME NEW t, NEW below, NEW bh, NEW p \in Slot, NEW sd \in Side,
         Erasing(t, below, bh, p, sd), NEW far, far = Opposite(sd),
         NEW s, s = t[far][p], NEW n, n = t[sd][p]
  PROVE  Sibling(t, bh, p, sd, far, s, n)
<1>1. /\ Shape(t, below) /\ t \in Tree /\ Ordered(t, below) /\ Linked(t, below)
      /\ Balanced(t, bh, p, sd)
      /\ far \in Side /\ far # sd /\ Opposite(far) = sd
  BY Sides DEF Erasing, Shape
<1>2. p # NULL /\ p \in Link
  BY SlotAssumption DEF Link
<1>3. /\ bh[p] \in Nat /\ s \in Link /\ bh[s] \in Nat /\ n \in Link /\ bh[n] \in Nat
      /\ bh[p] = bh[s] + Weight(t, p) /\ bh[p] = bh[n] + 1 + Weight(t, p)
  BY <1>1, <1>2, Heights
<1>4. bh[s] = bh[n] + 1
  <2>1. Weight(t, p) \in Nat
    BY DEF Weight
  <2>2. bh[s] \in Nat /\ bh[n] \in Nat
    BY <1>3
  <2> DEFINE w == Weight(t, p)
  <2>3. w \in Nat /\ bh[s] + w = bh[n] + 1 + w
    BY <1>3, <2>1
  <2> HIDE DEF w
  <2> QED BY ONLY <2>2, <2>3
<1>5. bh \in [Link -> Nat] /\ bh[NULL] = 0
  BY <1>1 DEF Balanced
<1>6. s # NULL
  <2>1. bh[s] # 0
    BY <1>3, <1>4
  <2> QED BY <1>5, <2>1
<1>7. s \in Slot /\ s # p /\ s # n /\ s # t.rb_node /\ \A z \in Side : t[z][s] \notin {p, s}
  BY <1>1, <1>6, Distinct
<1>8. n # p
  BY <1>1, ChildBelow
<1>9. ASSUME NEW z \in Side
      PROVE  bh[s] = bh[t[z][s]] + Weight(t, s) /\ t[z][s] \in Link /\ bh[t[z][s]] \in Nat
  BY <1>1, <1>2, <1>7, Heights
<1>10. t.rb_node \in Slot
  <2>1. p \in below[t.rb_node] /\ t.rb_node \in Link
    BY <1>1, Fields DEF Erasing
  <2> QED BY <1>1, <2>1 DEF Ordered, Link
<1>11. \A z \in Side : t[z][s] # NULL => t[z][s] # t.rb_node
  BY <1>1, <1>7, Distinct
<1> QED BY <1>1, <1>2, <1>3, <1>4, <1>5, <1>6, <1>7, <1>8, <1>9, <1>10, <1>11 DEF Sibling

\* RedSibling makes the sibling black and keeps the invariant of the loop.
LEMMA RedSiblingKeeps ==
  ASSUME NEW t, NEW below, NEW bh, NEW p \in Slot, NEW sd \in Side,
         Erasing(t, below, bh, p, sd), NEW r, r = RedSibling(t, p, sd)
  PROVE  \E below2, bh2 :
           /\ Erasing(r, below2, bh2, p, sd)
           /\ below2[r.rb_node] = below[t.rb_node]
           /\ r.color[SiblingOf(r, p, sd)] = "black"
           /\ r = t \/ r.color[p] = "red"
<1> DEFINE far == Opposite(sd)
           s == t[far][p]
           n == t[sd][p]
           c == t[sd][s]
           a == t[far][s]
           bh2 == [bh EXCEPT ![s] = bh[p], ![p] = bh[s]]
           b2 == TurnedBelow(t, below, p, s, far)
           u1 == SetChild(t, p, far, c)
           u2 == SetChild(u1, s, sd, p)
           u3 == rb_set_parent_color(u2, c, p, "black")
<1>0. Sibling(t, bh, p, sd, far, s, n)
  BY SiblingIs
<1>1. /\ t \in Tree /\ far \in Side /\ far # sd /\ Opposite(far) = sd
      /\ s \in Slot /\ s \in Link /\ s # NULL /\ n \in Link /\ p # NULL /\ p \in Link
      /\ s # n /\ s # p /\ n # p
      /\ bh \in [Link -> Nat] /\ bh[NULL] = 0
      /\ bh[p] \in Nat /\ bh[s] \in Nat /\ bh[n] \in Nat
      /\ bh[s] = bh[n] + 1
      /\ bh[p] = bh[s] + Weight(t, p)
      /\ t.rb_node \in Slot /\ s # t.rb_node
  BY <1>0 DEF Sibling
<1>2. /\ bh[s] = bh[c] + Weight(t, s) /\ c \in Link /\ bh[c] \in Nat /\ c \notin {p, s}
      /\ bh[s] = bh[a] + Weight(t, s) /\ a \in Link /\ bh[a] \in Nat /\ a \notin {p, s}
  <2>1. \A z \in Side : /\ bh[s] = bh[t[z][s]] + Weight(t, s)
                        /\ t[z][s] \in Link /\ bh[t[z][s]] \in Nat
                        /\ t[z][s] \notin {p, s}
    BY <1>0 DEF Sibling
  <2> HIDE DEF s
  <2> QED BY <1>1, <2>1
<1>3. /\ Shape(t, below) /\ Balanced(t, bh, p, sd) /\ NoRedPair(t, NULL)
      /\ p \in below[t.rb_node] /\ IsBlackOrNull(t, n) /\ t.color[t.rb_node] = "black"
  BY DEF Erasing
<1>4. CASE t.color[s] = "black"
  <2>1. r = t
    BY <1>4 DEF RedSibling
  <2>2. r.color[SiblingOf(r, p, sd)] = "black"
    BY <1>4, <2>1 DEF SiblingOf
  <2> QED BY <2>1, <2>2
<1>5. CASE t.color[s] # "black"
  <2>1. t.color[s] = "red" /\ t.color[p] = "black"
    <3>1. t.color[s] = "red" /\ t.color[p] \in Colour
      BY <1>1, <1>5, Fields DEF Colour
    <3>2. t.color[p] # "red"
      BY <1>1, <1>3, <1>5 DEF NoRedPair, IsBlackOrNull
    <3> QED BY <3>1, <3>2 DEF Colour
  <2>2. Weight(t, s) = 0 /\ Weight(t, p) = 1
    BY <2>1 DEF Weight
  <2>3. bh[c] = bh[s] /\ bh[a] = bh[s] /\ bh[p] = bh[s] + 1 /\ c # NULL
    BY <1>1, <1>2, <2>2
  <2>4. c \in Slot /\ t.color[c] = "black" /\ c # n /\ c # a
    <3>1. c \in Slot
      BY <1>2, <2>3 DEF Link
    <3>2. t.color[c] = "black"
      BY <1>1, <1>3, <2>1, <2>3 DEF NoRedPair, IsBlackOrNull
    <3>3. c # a
      BY <1>1, <1>3, <2>3, Distinct
    <3>4. t.parent[c] = s /\ (n # NULL => t.parent[n] = p)
      BY <1>1, <1>3, <2>3 DEF Shape, Linked
    <3> QED BY <1>1, <2>3, <3>1, <3>2, <3>3, <3>4
  <2>5. r = __rb_rotate_set_parents(u3, p, s, "red")
    BY <1>5 DEF RedSibling
  <2>6. ChildSet(t, u1, p, far, c)
    BY <1>1, <1>2, SetChildFields
  <2> HIDE DEF u1
  <2>7. ChildSet(u1, u2, s, sd, p)
    <3>1. u1 \in Tree
      BY <2>6 DEF ChildSet
    <3> QED BY <1>1, <3>1, SetChildFields
  <2> HIDE DEF u2
  <2>8. ParentColorSet(u2, u3, c, p, "black")
    <3>1. u2 \in Tree /\ "black" \in Colour
      BY <2>7 DEF ChildSet, Colour
    <3> QED BY <1>1, <1>2, <2>3, <3>1, SetParentColorFields
  <2> HIDE DEF u3
  <2>9. u3 \in Tree /\ u3.rb_node = t.rb_node
    BY <2>6, <2>7, <2>8 DEF ChildSet, ParentColorSet
  <2>10. \A m \in Slot :
           /\ u3[far][m] = IF m = p THEN c ELSE t[far][m]
           /\ u3[sd][m] = IF m = s THEN p ELSE t[sd][m]
           /\ u3.parent[m] = IF m = c THEN p ELSE t.parent[m]
           /\ u3.color[m] = t.color[m]
    BY <1>1, <2>4, <2>6, <2>7, <2>8 DEF ChildSet, ParentColorSet
  <2>11. /\ r \in Tree
         /\ Turned(t, r, p, s, far)
         /\ \A m \in Slot : r.color[m] = IF m = p THEN "red"
                                         ELSE IF m = s THEN t.color[p] ELSE t.color[m]
    <3>1. "red" \in Colour
      BY DEF Colour
    <3>2. LET q == __rb_rotate_set_parents(u3, p, s, "red")
          IN  /\ q \in Tree
              /\ Turned(t, q, p, s, far)
              /\ \A m \in Slot : q.color[m] = IF m = p THEN "red"
                                              ELSE IF m = s THEN u3.color[p] ELSE u3.color[m]
      BY <1>1, <1>3, <2>9, <2>10, <3>1, RotateSetParents
    <3> QED BY <2>5, <2>10, <3>2
  <2>12. /\ bh2 \in [Link -> Nat] /\ bh2[NULL] = 0 /\ bh2[s] = bh[p] /\ bh2[p] = bh[s]
         /\ \A m \in Link \ {p, s} : bh2[m] = bh[m]
    <3>1. /\ bh \in [Link -> Nat] /\ bh[NULL] = 0 /\ s \in Link /\ p \in Link /\ s # p
          /\ s # NULL /\ p # NULL /\ NULL \in Link /\ bh[p] \in Nat /\ bh[s] \in Nat
      BY <1>1 DEF Link
    <3> HIDE DEF s
    <3> QED BY ONLY <3>1 DEF bh2
  <2> HIDE DEF bh2
  <2>13. /\ bh2[c] = bh[c] /\ bh2[a] = bh[a] /\ bh2[n] = bh[n]
         /\ Weight(r, s) = 1 /\ Weight(r, p) = 0
         /\ a # NULL => Weight(r, a) = Weight(t, a)
         /\ Lack(p, sd, p, far) = 0 /\ Lack(p, sd, p, sd) = 1
    BY <1>1, <1>2, <2>1, <2>11, <2>12 DEF Weight, Lack, Link
  <2>14. bh2[s] = bh2[a] + Weight(r, s)
    BY <1>1, <1>2, <2>3, <2>12, <2>13
  <2>15. bh2[s] = bh2[p] + Weight(r, s)
    BY <1>1, <2>3, <2>12, <2>13
  <2>16. bh2[p] = bh2[c] + Lack(p, sd, p, far) + Weight(r, p)
    BY <1>1, <1>2, <2>3, <2>12, <2>13
  <2>17. bh2[p] = bh2[n] + Lack(p, sd, p, sd) + Weight(r, p)
    BY <1>1, <2>3, <2>12, <2>13
  <2>18. a # NULL => bh2[a] + Weight(t, a) = bh[a] + Weight(r, a)
    BY <2>13
  <2>19. \A m \in Slot \ {s, p, a} : bh2[m] = bh[m] /\ r.color[m] = t.color[m]
    BY <2>11, <2>12 DEF Link
  <2>20. Balanced(r, bh2, p, sd)
    <3>1. TurnHeights(t, r, p, s, far, bh, bh2, p, sd)
      BY <1>1, <2>12, <2>14, <2>15, <2>16, <2>17, <2>18, <2>19 DEF TurnHeights
    <3> QED BY <1>1, <1>3, <2>11, <2>12, <3>1, TurnBalance
  <2>21. IsBlackOrNull(r, n) /\ IsBlackOrNull(r, c)
    BY <1>1, <1>2, <1>3, <2>4, <2>11 DEF IsBlackOrNull, Link
  <2>22. NoRedPair(r, NULL)
    <3>1. r.color[s] = "black"
      BY <1>1, <2>1, <2>11
    <3>2. a # NULL /\ r.color[a] = "red" => t.color[a] = "red"
      BY <1>2, <2>11 DEF Link
    <3> QED BY <1>1, <1>3, <2>11, <2>19, <2>21, <3>1, <3>2, TurnColours
  <2>23. Shape(r, b2) /\ b2[r.rb_node] = below[t.rb_node]
    BY <1>1, <1>3, <2>11, TurnShape
  <2>24. r[sd][p] = n /\ r[far][p] = c
    BY <1>1, <1>3, <2>11, AroundTurn
  <2>25. r.color[r.rb_node] = "black"
    <3>1. r.rb_node = IF t.rb_node = p THEN s ELSE t.rb_node
      BY <2>11 DEF Turned
    <3> QED BY <1>1, <1>3, <2>1, <2>11, <3>1
  <2>26. Erasing(r, b2, bh2, p, sd)
    BY <1>3, <2>20, <2>21, <2>22, <2>23, <2>24, <2>25 DEF Erasing
  <2>27. r.color[SiblingOf(r, p, sd)] = "black" /\ r.color[p] = "red"
    BY <1>2, <2>4, <2>11, <2>24 DEF SiblingOf
  <2> QED BY <2>23, <2>26, <2>27
<1> QED BY <1>4, <1>5

\* The sibling turns red, and p black.  What the paths through p then lack is
\* taken off the heights of the sibling and of p.
LEMMA FlipBalance ==
  ASSUME NEW t, NEW below, NEW bh, NEW p \in Slot, NEW sd \in Side,
         Erasing(t, below, bh, p, sd), NEW s, s = t[Opposite(sd)][p],
         t.color[s] = "black", NEW r \in Tree, SameLinks(t, r),
         \A m \in Slot : r.color[m] = IF m = s THEN "red"
                                      ELSE IF m = p THEN "black" ELSE t.color[m],
         \A z \in Side : IsBlackOrNull(t, t[z][s]),
         NEW at \in Link, NEW sd2,
         IF t.color[p] = "red" THEN at = NULL
         ELSE /\ at = t.parent[p]
              /\ at # NULL => sd2 \in Side /\ t[sd2][at] = p
  PROVE  /\ Shape(r, below) /\ NoRedPair(r, NULL) /\ IsBlackOrNull(r, p)
         /\ r.rb_node = t.rb_node /\ r.color[r.rb_node] = "black"
         /\ \E bh2 : Balanced(r, bh2, at, sd2)
<1> DEFINE far == Opposite(sd)
           n == t[sd][p]
           hs == bh[s] - 1
           hp == IF t.color[p] = "red" THEN bh[p] ELSE bh[p] - 1
           bh2 == [bh EXCEPT ![s] = hs, ![p] = hp]
<1>0. Sibling(t, bh, p, sd, far, s, n)
  BY SiblingIs
<1>1. /\ t \in Tree /\ far \in Side /\ far # sd
      /\ s \in Slot /\ s \in Link /\ s # NULL /\ n \in Link /\ p # NULL /\ p \in Link
      /\ s # n /\ s # p /\ n # p
      /\ bh \in [Link -> Nat] /\ bh[NULL] = 0
      /\ bh[p] \in Nat /\ bh[s] \in Nat /\ bh[n] \in Nat
      /\ bh[s] = bh[n] + 1
      /\ bh[p] = bh[s] + Weight(t, p)
      /\ t.rb_node \in Slot /\ s # t.rb_node
  BY <1>0 DEF Sibling
<1>2. /\ Shape(t, below) /\ Linked(t, below) /\ Balanced(t, bh, p, sd) /\ NoRedPair(t, NULL)
      /\ p \in below[t.rb_node] /\ IsBlackOrNull(t, n) /\ t.color[t.rb_node] = "black"
  BY DEF Erasing, Shape
<1>3. \A z \in Side : bh[s] = bh[t[z][s]] + 1 /\ t[z][s] \in Link /\ bh[t[z][s]] \in Nat /\ t[z][s] \notin {p, s}
  <2>1. \A z \in Side : /\ bh[s] = bh[t[z][s]] + Weight(t, s)
                        /\ t[z][s] \in Link /\ bh[t[z][s]] \in Nat
                        /\ t[z][s] \notin {p, s}
    BY <1>0 DEF Sibling
  <2>2. Weight(t, s) = 1
    BY DEF Weight
  <2> QED BY <2>1, <2>2
<1>4. Shape(r, below)
  BY <1>2, RecolourShape
<1>5. /\ r.rb_node = t.rb_node
      /\ \A m \in Slot : r.parent[m] = t.parent[m] /\ \A z \in Side : r[z][m] = t[z][m]
  BY DEF SameLinks
<1>6. hs = bh[n] /\ hs \in Nat /\ hp \in Nat /\ hp = bh[n] + 1
  <2>1. CASE t.color[p] = "red"
    <3>1. Weight(t, p) = 0
      BY <2>1 DEF Weight
    <3> QED BY <1>1, <2>1, <3>1
  <2>2. CASE t.color[p] # "red"
    <3>1. Weight(t, p) = 1
      BY <1>1, <2>2, Fields DEF Weight, Colour
    <3> QED BY <1>1, <2>2, <3>1
  <2> QED BY <2>1, <2>2
<1>7. /\ bh2 \in [Link -> Nat] /\ bh2[s] = hs /\ bh2[p] = hp
      /\ \A m \in Link \ {p, s} : bh2[m] = bh[m]
  <2>1. bh \in [Link -> Nat] /\ s \in Link /\ p \in Link /\ s # p
    BY <1>1
  <2> HIDE DEF hs, hp
  <2> QED BY ONLY <1>6, <2>1 DEF bh2
<1> HIDE DEF bh2, hs, hp
<1>8. \A m \in Slot : \A z \in Side : t[z][m] # NULL => t.parent[t[z][m]] = m
  BY <1>2 DEF Linked
<1>9. t.parent[s] = p /\ at # p /\ at # s
  <2>1. t.parent[s] = p
    BY <1>1, <1>8
  <2>2. ASSUME at # NULL PROVE at # p /\ at # s
    <3>1. t.color[p] # "red" /\ at = t.parent[p] /\ sd2 \in Side /\ t[sd2][at] = p /\ at \in Slot
      BY <2>2 DEF Link
    <3>2. at # p
      BY <1>1, <1>2, <3>1, Distinct
    <3>3. at # s
      BY <1>3, <3>1
    <3> QED BY <3>2, <3>3
  <2> QED BY <1>1, <2>1, <2>2
<1>10. ASSUME NEW m \in Slot, NEW z \in Side
       PROVE  bh2[m] = bh2[r[z][m]] + Lack(at, sd2, m, z) + Weight(r, m)
  <2> DEFINE k == t[z][m]
  <2>1. m # NULL /\ m \in Link /\ r[z][m] = k /\ k \in Link /\ bh[k] \in Nat /\ bh[m] \in Nat
    BY <1>1, <1>5, SlotAssumption, Fields DEF Link
  <2>2. m # p => bh[m] = bh[k] + Weight(t, m) /\ Weight(t, m) \in Nat
    <3>1. Weight(t, m) \in Nat
      BY DEF Weight
    <3> QED BY <1>1, <1>2, <3>1, Heights
  <2>3. CASE m = s
    <3>1. bh2[m] = hs /\ bh2[k] = bh[k] /\ bh[s] = bh[k] + 1
      BY <1>3, <1>7, <2>1, <2>3
    <3>2. Lack(at, sd2, m, z) = 0 /\ Weight(r, m) = 0
      BY <1>9, <2>3 DEF Lack, Weight
    <3>3. hs = bh[k]
      BY <1>1, <1>6, <2>1, <3>1
    <3> QED BY <2>1, <3>1, <3>2, <3>3
  <2>4. CASE m = p
    <3>1. Lack(at, sd2, m, z) = 0 /\ Weight(r, m) = 1
      BY <1>1, <1>9, <2>4 DEF Lack, Weight
    <3>2. bh2[k] = bh[n]
      <4>1. CASE z = sd
        BY <1>1, <1>7, <2>4, <4>1
      <4>2. CASE z # sd
        <5>1. k = s
          BY <2>4, <4>2, Sides
        <5> QED BY <1>6, <1>7, <5>1
      <4> QED BY <4>1, <4>2
    <3>3. bh2[m] = bh[n] + 1
      BY <1>6, <1>7, <2>4
    <3> QED BY <1>1, <2>1, <3>1, <3>2, <3>3
  <2>5. CASE m \notin {s, p}
    <3>1. bh2[m] = bh[m] /\ Weight(r, m) = Weight(t, m)
      BY <1>7, <2>1, <2>5 DEF Weight
    <3>2. k # s
      BY <1>1, <1>8, <1>9, <2>5
    <3>3. CASE k # p
      <4>1. bh2[k] = bh[k]
        BY <1>7, <2>1, <3>2, <3>3
      <4>2. Lack(at, sd2, m, z) = 0
        <5>1. CASE at = NULL
          BY <2>1, <5>1 DEF Lack
        <5>2. CASE at # NULL
          BY <3>3, <5>2 DEF Lack
        <5> QED BY <5>1, <5>2
      <4> QED BY <2>1, <2>2, <2>5, <3>1, <4>1, <4>2
    <3>4. CASE k = p
      <4>1. t.parent[p] = m
        BY <1>1, <1>8, <3>4
      <4>2. CASE t.color[p] = "red"
        <5>1. Lack(at, sd2, m, z) = 0 /\ bh2[k] = bh[k]
          BY <1>7, <2>1, <3>4, <4>2 DEF Lack, hp
        <5> QED BY <2>1, <2>2, <2>5, <3>1, <5>1
      <4>3. CASE t.color[p] # "red"
        <5>1. at = m /\ sd2 \in Side /\ t[sd2][m] = p
          BY <2>1, <4>1, <4>3
        <5>2. sd2 = z
          <6>1. t[Opposite(z)][m] # p
            BY <1>1, <1>2, <3>4, Distinct
          <6> QED BY <5>1, <6>1, Sides
        <5>3. Lack(at, sd2, m, z) = 1
          BY <5>1, <5>2 DEF Lack
        <5>4. bh2[k] = bh[k] - 1
          BY <1>7, <3>4, <4>3 DEF hp
        <5> QED BY <2>1, <2>2, <2>5, <3>1, <5>3, <5>4
      <4> QED BY <4>2, <4>3
    <3> QED BY <3>3, <3>4
  <2> QED BY <2>3, <2>4, <2>5
<1>11. Balanced(r, bh2, at, sd2)
  <2>1. bh2[NULL] = 0
    BY <1>1, <1>7 DEF Link
  <2> QED BY <1>7, <1>10, <2>1 DEF Balanced
<1>12. NoRedPair(r, NULL)
  <2>1. SUFFICES ASSUME NEW m \in Slot, NEW z \in Side, r.color[m] = "red", r[z][m] # NULL
                 PROVE  r.color[r[z][m]] = "black"
    BY DEF NoRedPair, IsBlackOrNull
  <2> DEFINE k == t[z][m]
  <2>2. k \in Slot /\ r[z][m] = k /\ k # NULL /\ m # p
    BY <1>1, <1>5, <2>1, Fields DEF Link
  <2>3. k # s
    BY <1>8, <1>9, <2>2
  <2>4. CASE k = p
    BY <1>1, <2>2, <2>4
  <2>5. CASE k # p
    <3>1. t.color[k] = "black"
      <4>1. CASE m = s
        BY <2>2, <4>1 DEF IsBlackOrNull
      <4>2. CASE m # s
        BY <1>2, <2>1, <2>2, <4>2 DEF NoRedPair, IsBlackOrNull
      <4> QED BY <4>1, <4>2
    <3> QED BY <2>2, <2>3, <2>5, <3>1
  <2> QED BY <2>4, <2>5
<1>13. IsBlackOrNull(r, p) /\ r.color[r.rb_node] = "black"
  BY <1>1, <1>2, <1>5 DEF IsBlackOrNull
<1> QED BY <1>4, <1>5, <1>11, <1>12, <1>13

\* RotateAndFlip, on a tree u that differs from v in what it writes.
LEMMA RotateAndFlipIs ==
  ASSUME NEW v, NEW below, Shape(v, below), NEW u \in Tree, NEW sd \in Side,
         NEW p \in Slot, NEW x \in Slot, NEW f \in Slot, NEW far, far = Opposite(sd),
         v[far][p] = x, v[far][x] = f, u.rb_node = v.rb_node,
         \A m \in Slot :
           /\ \A s \in Side : u[s][m] = v[s][m]
           /\ m \notin {x, f} => u.parent[m] = v.parent[m] /\ u.color[m] = v.color[m],
         NEW r, r = RotateAndFlip(u, p, sd)
  PROVE  /\ r \in Tree
         /\ Turned(v, r, p, x, far)
         /\ \A m \in Slot : r.color[m] = IF m \in {p, f} THEN "black"
                                         ELSE IF m = x THEN v.color[p] ELSE v.color[m]
<1> DEFINE c == v[sd][x]
           u1 == SetChild(u, p, far, c)
           u2 == SetChild(u1, x, sd, p)
           u3 == rb_set_parent_color(u2, f, x, "black")
           u4 == SetParentIfAny(u3, c, p)
           q == __rb_rotate_set_parents(u4, p, x, "black")
<1>1. v \in Tree /\ far \in Side /\ far # sd /\ Opposite(far) = sd
  BY Sides DEF Shape
<1>2. /\ p # NULL /\ x # NULL /\ f # NULL /\ c \in Link /\ p \in Link /\ x \in Link /\ f \in Link
      /\ "black" \in Colour
  BY <1>1, SlotAssumption, Fields DEF Link, Colour
<1>3. /\ x # p /\ f # x /\ f # p /\ c # f /\ c \notin {x, p} /\ v.parent[f] = x
  <2>1. x # p /\ f \notin {x, p} /\ c \notin {x, p}
    BY <1>1, <1>2, Distinct
  <2>2. c # f /\ v.parent[f] = x
    BY <1>1, <1>2, Distinct
  <2> QED BY <2>1, <2>2
<1>4. r = q
  <2>1. u[far][p] = x /\ u[sd][x] = c /\ u[far][x] = f
    BY <1>1
  <2> QED BY <2>1 DEF RotateAndFlip
<1>5. ChildSet(u, u1, p, far, c)
  BY <1>1, <1>2, SetChildFields
<1> HIDE DEF u1
<1>6. ChildSet(u1, u2, x, sd, p)
  <2>1. u1 \in Tree
    BY <1>5 DEF ChildSet
  <2> QED BY <1>2, <2>1, SetChildFields
<1> HIDE DEF u2
<1>7. ParentColorSet(u2, u3, f, x, "black")
  <2>1. u2 \in Tree
    BY <1>6 DEF ChildSet
  <2> QED BY <1>2, <2>1, SetParentColorFields
<1> HIDE DEF u3
<1>8. ParentSet(u3, u4, c, p)
  <2>1. u3 \in Tree
    BY <1>7 DEF ParentColorSet
  <2> QED BY <1>2, <2>1, SetParentFields
<1> HIDE DEF u4
<1>9. u4 \in Tree /\ u4.rb_node = v.rb_node
  BY <1>5, <1>6, <1>7, <1>8 DEF ChildSet, ParentColorSet, ParentSet
<1>10. \A m \in Slot :
         /\ u4[far][m] = IF m = p THEN c ELSE v[far][m]
         /\ u4[sd][m] = IF m = x THEN p ELSE v[sd][m]
         /\ u4.color[m] = IF m = f THEN "black" ELSE u.color[m]
  BY <1>1, <1>5, <1>6, <1>7, <1>8 DEF ChildSet, ParentColorSet, ParentSet
<1>11. ASSUME NEW m \in Slot, m # x
       PROVE  u4.parent[m] = IF m = c THEN p ELSE v.parent[m]
  <2>1. u4.parent[m] = IF m = c THEN p ELSE IF m = f THEN x ELSE u.parent[m]
    BY <1>5, <1>6, <1>7, <1>8 DEF ChildSet, ParentColorSet, ParentSet
  <2> QED BY <1>3, <1>11, <2>1
<1>12. /\ q \in Tree
       /\ Turned(v, q, p, x, far)
       /\ \A m \in Slot : q.color[m] = IF m = p THEN "black"
                                       ELSE IF m = x THEN u4.color[p] ELSE u4.color[m]
  <2>1. \A m \in Slot :
          /\ u4[far][m] = IF m = p THEN v[sd][x] ELSE v[far][m]
          /\ u4[sd][m] = IF m = x THEN p ELSE v[sd][m]
          /\ m # x => u4.parent[m] = IF m = v[sd][x] THEN p ELSE v.parent[m]
    BY <1>10, <1>11
  <2> QED BY <1>1, <1>2, <1>9, <2>1, RotateSetParents
<1> HIDE DEF q
<1>13. \A m \in Slot : q.color[m] = IF m \in {p, f} THEN "black"
                                    ELSE IF m = x THEN v.color[p] ELSE v.color[m]
  BY <1>3, <1>10, <1>12
<1> QED BY <1>4, <1>12, <1>13

\* Case 4 ends the loop: the far nephew is red.
LEMMA FlipTurn ==
  ASSUME NEW v, NEW below, NEW bh, NEW p \in Slot, NEW sd \in Side,
         Erasing(v, below, bh, p, sd), NEW far, far = Opposite(sd),
         NEW x \in Slot, NEW f \in Slot, v[far][p] = x, v[far][x] = f,
         v.color[x] = "black", v.color[f] = "red", NEW r \in Tree, Turned(v, r, p, x, far),
         \A m \in Slot : r.color[m] = IF m \in {p, f} THEN "black"
                                      ELSE IF m = x THEN v.color[p] ELSE v.color[m]
  PROVE  \E below2, bh2 : Finished(r, below2, bh2) /\ below2[r.rb_node] = below[v.rb_node]
<1> DEFINE n == v[sd][p]
           c == v[sd][x]
           bh2 == [bh EXCEPT ![x] = bh[p], ![p] = bh[x], ![f] = bh[f] + 1]
           b2 == TurnedBelow(v, below, p, x, far)
<1>0. Sibling(v, bh, p, sd, far, x, n)
  BY SiblingIs
<1>1. /\ v \in Tree /\ far \in Side /\ far # sd /\ Opposite(far) = sd
      /\ x \in Link /\ x # NULL /\ n \in Link /\ p # NULL /\ p \in Link
      /\ x # n /\ x # p /\ n # p
      /\ bh \in [Link -> Nat] /\ bh[NULL] = 0
      /\ bh[p] \in Nat /\ bh[x] \in Nat /\ bh[n] \in Nat
      /\ bh[x] = bh[n] + 1
      /\ bh[p] = bh[x] + Weight(v, p)
      /\ v.rb_node \in Slot /\ x # v.rb_node
  BY <1>0 DEF Sibling
<1>2. /\ Shape(v, below) /\ Linked(v, below) /\ Balanced(v, bh, p, sd) /\ NoRedPair(v, NULL)
      /\ p \in below[v.rb_node] /\ IsBlackOrNull(v, n) /\ v.color[v.rb_node] = "black"
  BY DEF Erasing, Shape
<1>3. /\ bh[x] = bh[c] + 1 /\ c \in Link /\ bh[c] \in Nat /\ c \notin {p, x}
      /\ bh[x] = bh[f] + 1 /\ bh[f] \in Nat /\ f \notin {p, x} /\ f # NULL /\ f # v.rb_node
      /\ f \in Link
  <2>1. \A z \in Side : /\ bh[x] = bh[v[z][x]] + Weight(v, x)
                        /\ v[z][x] \in Link /\ bh[v[z][x]] \in Nat
                        /\ v[z][x] \notin {p, x}
                        /\ v[z][x] # NULL => v[z][x] # v.rb_node
    BY <1>0 DEF Sibling
  <2>2. Weight(v, x) = 1 /\ f # NULL
    BY SlotAssumption DEF Weight
  <2>3. bh[f] \in Nat /\ f \notin {p, x} /\ f # v.rb_node /\ f \in Link
    BY <1>1, <2>1, <2>2
  <2>4. c \in Link /\ bh[c] \in Nat /\ c \notin {p, x}
    BY <2>1
  <2>5. bh[x] = bh[f] + Weight(v, x)
    BY <1>1, <2>1
  <2>6. bh[x] = bh[c] + Weight(v, x)
    BY <2>1
  <2> HIDE DEF c
  <2> QED BY <2>2, <2>3, <2>4, <2>5, <2>6
<1>4. c # f /\ n # f
  <2>1. c # f /\ v.parent[f] = x
    BY <1>1, <1>2, <1>3, Distinct
  <2>2. n # NULL => v.parent[n] = p
    BY <1>2 DEF Linked
  <2> QED BY <1>1, <1>3, <2>1, <2>2
<1>5. /\ bh2 \in [Link -> Nat] /\ bh2[NULL] = 0 /\ bh2[x] = bh[p] /\ bh2[p] = bh[x]
      /\ bh2[f] = bh[f] + 1
      /\ \A m \in Link \ {p, x, f} : bh2[m] = bh[m]
  <2>1. /\ bh \in [Link -> Nat] /\ bh[NULL] = 0 /\ x \in Link /\ p \in Link /\ f \in Link
        /\ x # p /\ x # f /\ f # p /\ NULL \in Link /\ NULL \notin {x, p, f}
    BY <1>1, <1>3 DEF Link
  <2>2. bh[p] \in Nat /\ bh[x] \in Nat /\ bh[f] + 1 \in Nat
    BY <1>1, <1>3
  <2> QED BY ONLY <2>1, <2>2 DEF bh2
<1> HIDE DEF bh2
<1>6. /\ bh2[c] = bh[c] /\ bh2[n] = bh[n]
      /\ Weight(r, x) = Weight(v, p) /\ Weight(r, p) = 1 /\ Weight(r, f) = 1 /\ Weight(v, f) = 0
      /\ Lack(NULL, NULL, p, far) = 0 /\ Lack(NULL, NULL, p, sd) = 0
      /\ Weight(v, p) \in Nat
  <2>1. bh2[c] = bh[c] /\ bh2[n] = bh[n]
    BY <1>1, <1>3, <1>4, <1>5
  <2>2. Weight(r, p) = 1 /\ Weight(r, f) = 1 /\ Weight(v, f) = 0 /\ Weight(v, p) \in Nat
    BY DEF Weight
  <2>3. Weight(r, x) = Weight(v, p)
    BY <1>1, <1>3 DEF Weight
  <2> QED BY <1>1, <2>1, <2>2, <2>3 DEF Lack
<1>7. bh2[x] = bh2[f] + Weight(r, x)
  BY <1>1, <1>3, <1>5, <1>6
<1>8. bh2[x] = bh2[p] + Weight(r, x)
  BY <1>1, <1>5, <1>6
<1>9. bh2[p] = bh2[c] + Lack(NULL, NULL, p, far) + Weight(r, p)
  BY <1>1, <1>3, <1>5, <1>6
<1>10. bh2[p] = bh2[n] + Lack(NULL, NULL, p, sd) + Weight(r, p)
  BY <1>1, <1>5, <1>6
<1>11. bh2[f] + Weight(v, f) = bh[f] + Weight(r, f)
  BY <1>3, <1>5, <1>6
<1>12. \A m \in Slot \ {x, p, f} : bh2[m] = bh[m] /\ r.color[m] = v.color[m]
  BY <1>5 DEF Link
<1>13. Balanced(r, bh2, NULL, NULL)
  <2>1. TurnHeights(v, r, p, x, far, bh, bh2, NULL, NULL)
    BY <1>1, <1>5, <1>7, <1>8, <1>9, <1>10, <1>11, <1>12 DEF TurnHeights
  <2> QED BY <1>1, <1>2, <1>5, <2>1, TurnBalance
<1>14. NoRedPair(r, NULL)
  <2>1. r.color[p] = "black" /\ r.color[f] = "black" /\ r.color[x] = v.color[p]
    BY <1>1, <1>3
  <2>2. IsBlackOrNull(r, p) /\ IsBlackOrNull(r, f)
    BY <2>1 DEF IsBlackOrNull
  <2> QED BY <1>1, <1>2, <1>12, <2>1, <2>2, TurnColours
<1>15. Shape(r, b2) /\ b2[r.rb_node] = below[v.rb_node]
  BY <1>1, <1>2, TurnShape
<1>16. IsBlackOrNull(r, r.rb_node)
  <2>1. r.rb_node = IF v.rb_node = p THEN x ELSE v.rb_node
    BY DEF Turned
  <2> QED BY <1>1, <1>2, <1>3, <2>1 DEF IsBlackOrNull
<1>17. Finished(r, b2, bh2)
  BY <1>13, <1>14, <1>15, <1>16 DEF Finished
<1> QED BY <1>15, <1>17

\* The colours of the sibling s and the near nephew x, exchanged.
NearColours(t, v, s, x) ==
  \A m \in Slot : v.color[m] = IF m = s THEN "red" ELSE IF m = x THEN "black" ELSE t.color[m]

\* The sibling is x, whose far child s is red: the situation of case 4.
FarIsRed(v, below2, bh2, p, sd, far, s, x) ==
  /\ Erasing(v, below2, bh2, p, sd)
  /\ v[far][p] = x /\ v[far][x] = s /\ v.color[x] = "black" /\ v.color[s] = "red"

\* Case 3: the near nephew x is red; turned at the sibling s, the far one is.
LEMMA NearTurn ==
  ASSUME NEW t, NEW below, NEW bh, NEW p \in Slot, NEW sd \in Side,
         Erasing(t, below, bh, p, sd), NEW far, far = Opposite(sd),
         NEW s \in Slot, NEW x \in Slot, t[far][p] = s, t[sd][s] = x,
         t.color[s] = "black", t.color[x] = "red", IsBlackOrNull(t, t[far][s]),
         NEW v \in Tree, Turned(t, v, s, x, sd),
         NearColours(t, v, s, x)
  PROVE  \E below2, bh2 : /\ FarIsRed(v, below2, bh2, p, sd, far, s, x)
                          /\ below2[v.rb_node] = below[t.rb_node]
<1> DEFINE n == t[sd][p]
           a == t[sd][x]
           c == t[far][x]
           d == t[far][s]
           bh2 == [bh EXCEPT ![x] = bh[s], ![s] = bh[x]]
           b2 == TurnedBelow(t, below, s, x, sd)
<1>0. Sibling(t, bh, p, sd, far, s, n)
  BY SiblingIs
<1>1. /\ t \in Tree /\ far \in Side /\ far # sd /\ Opposite(far) = sd
      /\ s \in Link /\ s # NULL /\ n \in Link /\ p # NULL /\ p \in Link
      /\ s # n /\ s # p /\ n # p
      /\ bh \in [Link -> Nat] /\ bh[NULL] = 0 /\ bh[s] \in Nat
      /\ t.rb_node \in Slot /\ s # t.rb_node
  BY <1>0 DEF Sibling
<1>2. /\ Shape(t, below) /\ Linked(t, below) /\ Balanced(t, bh, p, sd) /\ NoRedPair(t, NULL)
      /\ p \in below[t.rb_node] /\ IsBlackOrNull(t, n) /\ t.color[t.rb_node] = "black"
  BY DEF Erasing, Shape
<1>3. /\ x # NULL /\ x \in Link /\ x \notin {p, s} /\ x # d /\ x # t.rb_node
      /\ a \in Link /\ c \in Link /\ d \in Link /\ d # s /\ a \notin {s, x} /\ c \notin {s, x}
  <2>1. x # NULL /\ x \in Link
    BY SlotAssumption DEF Link
  <2>2. x # d /\ x # s /\ x # t.rb_node /\ a \notin {s, x} /\ c \notin {s, x}
    BY <1>1, <1>2, <2>1, Distinct
  <2>3. x # p
    BY <1>1, <1>2, Distinct
  <2>4. a \in Link /\ c \in Link /\ d \in Link
    BY <1>1, Fields
  <2>5. d # s
    BY <1>1, <1>2, ChildBelow DEF Shape
  <2> QED BY <2>1, <2>2, <2>3, <2>4, <2>5
<1>4. /\ bh[x] \in Nat /\ bh[a] \in Nat /\ bh[c] \in Nat /\ bh[d] \in Nat
  BY <1>1, <1>3
<1>5. bh[s] = bh[x] + 1 /\ bh[s] = bh[d] + 1
  <2>1. Weight(t, s) = 1
    BY DEF Weight
  <2>2. bh[s] = bh[x] + Weight(t, s)
    BY <1>1, <1>2, Heights
  <2>3. bh[s] = bh[d] + Weight(t, s)
    BY <1>1, <1>2, Heights
  <2> QED BY <2>1, <2>2, <2>3
<1>6. bh[x] = bh[a] /\ bh[x] = bh[c]
  <2>1. Weight(t, x) = 0
    BY DEF Weight
  <2>2. bh[x] = bh[a] + Weight(t, x)
    BY <1>1, <1>2, <1>3, Heights
  <2>3. bh[x] = bh[c] + Weight(t, x)
    BY <1>1, <1>2, <1>3, Heights
  <2> QED BY <1>4, <2>1, <2>2, <2>3
<1>7. /\ v.color[x] = "black" /\ v.color[s] = "red"
      /\ \A m \in Slot \ {s, x} : v.color[m] = t.color[m]
  BY <1>3 DEF NearColours
<1>8. /\ bh2 \in [Link -> Nat] /\ bh2[NULL] = 0 /\ bh2[x] = bh[s] /\ bh2[s] = bh[x]
      /\ \A m \in Link \ {x, s} : bh2[m] = bh[m]
  <2>1. /\ bh \in [Link -> Nat] /\ bh[NULL] = 0 /\ x \in Link /\ s \in Link
        /\ x # s /\ NULL \in Link /\ NULL \notin {x, s} /\ bh[s] \in Nat /\ bh[x] \in Nat
    BY <1>1, <1>3, <1>4 DEF Link
  <2> QED BY ONLY <2>1 DEF bh2
<1> HIDE DEF bh2
<1>9. bh2[a] = bh[a] /\ bh2[c] = bh[c] /\ bh2[d] = bh[d]
  BY <1>3, <1>8
<1>10. /\ Weight(v, x) = 1 /\ Weight(v, s) = 0 /\ (a # NULL => Weight(v, a) = Weight(t, a))
       /\ Lack(p, sd, s, sd) = 0 /\ Lack(p, sd, s, far) = 0
  BY <1>1, <1>3, <1>7 DEF Weight, Lack, Link
<1>11. bh2[x] = bh2[a] + Weight(v, x)
  <2>1. bh2[x] = bh[s] /\ bh2[a] = bh[a] /\ Weight(v, x) = 1
    BY <1>8, <1>9, <1>10
  <2>2. bh[s] = bh[x] + 1 /\ bh[x] = bh[a]
    BY <1>5, <1>6
  <2> QED BY ONLY <2>1, <2>2
<1>12. bh2[x] = bh2[s] + Weight(v, x)
  BY <1>4, <1>5, <1>8, <1>10
<1>13. bh2[s] = bh2[c] + Lack(p, sd, s, sd) + Weight(v, s)
  BY <1>4, <1>6, <1>8, <1>9, <1>10
<1>14. bh2[s] = bh2[d] + Lack(p, sd, s, far) + Weight(v, s)
  <2>1. bh[s] \in Nat /\ bh[x] \in Nat /\ bh[d] \in Nat
    BY <1>1, <1>4
  <2>2. bh[x] = bh[d]
    BY ONLY <1>5, <2>1
  <2> QED BY ONLY <1>8, <1>9, <1>10, <2>1, <2>2
<1>15. a # NULL => bh2[a] + Weight(t, a) = bh[a] + Weight(v, a)
  BY <1>9, <1>10
<1>16. \A m \in Slot \ {x, s, a} : bh2[m] = bh[m] /\ v.color[m] = t.color[m]
  BY <1>7, <1>8 DEF Link
<1>17. Balanced(v, bh2, p, sd)
  <2>1. TurnHeights(t, v, s, x, sd, bh, bh2, p, sd)
    BY <1>8, <1>11, <1>12, <1>13, <1>14, <1>15, <1>16 DEF TurnHeights
  <2> QED BY <1>1, <1>2, <1>3, <1>8, <2>1, TurnBalance
<1>18. NoRedPair(v, NULL)
  <2>1. IsBlackOrNull(t, c)
    BY <1>1, <1>2 DEF NoRedPair, IsBlackOrNull
  <2>2. IsBlackOrNull(v, c) /\ IsBlackOrNull(v, d)
    BY <1>3, <1>7, <2>1 DEF IsBlackOrNull, Link
  <2>3. a # NULL /\ v.color[a] = "red" => t.color[a] = "red"
    BY <1>3, <1>7 DEF Link
  <2> QED BY <1>1, <1>2, <1>7, <1>16, <2>2, <2>3, TurnColours
<1>19. Shape(v, b2) /\ b2[v.rb_node] = below[t.rb_node]
  BY <1>1, <1>2, TurnShape
<1>20. v[far][p] = x /\ v[far][x] = s /\ v[sd][p] = n /\ v.rb_node = t.rb_node
  <2>1. \A z \in Side : v[z][p] = IF t[z][p] = s THEN x ELSE t[z][p]
    BY <1>1, <1>2, <1>3, AroundTurn
  <2>2. v[far][x] = s
    BY <1>1, <1>2, AroundTurn
  <2>3. v.rb_node = t.rb_node
    BY <1>1 DEF Turned
  <2>4. v[far][p] = x
    BY <1>1, <2>1
  <2>5. v[sd][p] = n
    BY <1>1, <2>1
  <2> QED BY <2>2, <2>3, <2>4, <2>5
<1>21. IsBlackOrNull(v, n) /\ v.color[v.rb_node] = "black"
  <2>1. n # x
    <3>1. t.parent[x] = s /\ (n # NULL => t.parent[n] = p)
      BY <1>2, <1>3 DEF Linked
    <3> QED BY <1>1, <1>3, <3>1
  <2> QED BY <1>1, <1>2, <1>3, <1>7, <1>20, <2>1 DEF IsBlackOrNull, Link
<1>22. Erasing(v, b2, bh2, p, sd)
  BY <1>2, <1>17, <1>18, <1>19, <1>20, <1>21 DEF Erasing
<1>23. FarIsRed(v, b2, bh2, p, sd, far, s, x)
  BY <1>7, <1>20, <1>22 DEF FarIsRed
<1> QED BY <1>19, <1>23

\* RotateAtSibling writes all of the turned tree but what RotateAndFlip does.
LEMMA RotateAtSiblingIs ==
  ASSUME NEW t, NEW below, Shape(t, below), NEW p \in Slot, NEW sd \in Side,
         NEW far, far = Opposite(sd),
         NEW s \in Slot, NEW x \in Slot, t[far][p] = s, t[sd][s] = x,
         IsBlackOrNull(t, t[far][s]), IsBlackOrNull(t, t[far][x]),
         NEW v \in Tree, Turned(t, v, s, x, sd),
         NearColours(t, v, s, x),
         NEW u, u = RotateAtSibling(t, p, sd)
  PROVE  /\ u \in Tree /\ u.rb_node = v.rb_node
         /\ \A m \in Slot :
              /\ \A z \in Side : u[z][m] = v[z][m]
              /\ m \notin {x, s} => u.parent[m] = v.parent[m] /\ u.color[m] = v.color[m]
<1> DEFINE c == t[far][x]
           u1 == SetChild(t, s, sd, c)
           u2 == SetChild(u1, x, far, s)
           u3 == SetChild(u2, p, far, x)
           q == SetParentColorIfAny(u3, c, s, "black")
<1>1. /\ t \in Tree /\ far \in Side /\ far # sd /\ Opposite(far) = sd
      /\ \A z \in Side : z = sd \/ z = far
  BY Sides DEF Shape
<1>2. /\ s # NULL /\ x # NULL /\ c \in Link /\ s \in Link /\ x \in Link /\ p # NULL
      /\ "black" \in Colour
  BY <1>1, SlotAssumption, Fields DEF Link, Colour
<1>3. /\ s # p /\ x # s /\ x # p /\ t.rb_node # s /\ t.parent[s] = p /\ c \notin {s, x}
  <2>1. s # p /\ x # p /\ t.rb_node # s /\ t.parent[s] = p
    BY <1>1, <1>2, Distinct
  <2>2. x # s /\ c \notin {s, x}
    BY <1>1, <1>2, Distinct
  <2> QED BY <2>1, <2>2
<1>4. u = q
  BY DEF RotateAtSibling
<1>5. ChildSet(t, u1, s, sd, c)
  BY <1>1, <1>2, SetChildFields
<1> HIDE DEF u1
<1>6. ChildSet(u1, u2, x, far, s)
  <2>1. u1 \in Tree
    BY <1>5 DEF ChildSet
  <2> QED BY <1>1, <1>2, <2>1, SetChildFields
<1> HIDE DEF u2
<1>7. ChildSet(u2, u3, p, far, x)
  <2>1. u2 \in Tree
    BY <1>6 DEF ChildSet
  <2> QED BY <1>1, <1>2, <2>1, SetChildFields
<1> HIDE DEF u3
<1>8. ParentColorSet(u3, q, c, s, "black")
  <2>1. u3 \in Tree
    BY <1>7 DEF ChildSet
  <2> QED BY <1>2, <2>1, SetParentColorFields
<1> HIDE DEF q
<1>9. q \in Tree /\ q.rb_node = t.rb_node
  BY <1>5, <1>6, <1>7, <1>8 DEF ChildSet, ParentColorSet
<1>10. \A m \in Slot :
         /\ q[sd][m] = IF m = s THEN c ELSE t[sd][m]
         /\ q[far][m] = IF m = p THEN x ELSE IF m = x THEN s ELSE t[far][m]
         /\ q.parent[m] = IF m = c THEN s ELSE t.parent[m]
         /\ q.color[m] = IF m = c THEN "black" ELSE t.color[m]
  BY <1>1, <1>5, <1>6, <1>7, <1>8 DEF ChildSet, ParentColorSet
<1>11. /\ v.rb_node = t.rb_node
       /\ \A m \in Slot :
            /\ v[sd][m] = IF m = s THEN c ELSE IF t[sd][m] = s THEN x ELSE t[sd][m]
            /\ v[far][m] = IF m = x THEN s ELSE IF t[far][m] = s THEN x ELSE t[far][m]
            /\ v.parent[m] = IF m = s THEN x ELSE IF m = x THEN t.parent[s]
                             ELSE IF m = c THEN s ELSE t.parent[m]
  BY <1>3 DEF Turned
<1>12. ASSUME NEW m \in Slot
       PROVE  t[sd][m] # s /\ (m # p => t[far][m] # s)
  <2>1. \A z \in Side : t[z][m] = s => m = p
    BY <1>1, <1>2, <1>3 DEF Shape, Linked
  <2>2. t[sd][p] # s
    BY <1>1, <1>2, Distinct
  <2> QED BY <1>1, <2>1, <2>2
<1>13. ASSUME NEW m \in Slot, m \notin {x, s} PROVE q.color[m] = v.color[m]
  <2>1. v.color[m] = t.color[m]
    BY <1>13 DEF NearColours
  <2>2. m = c => t.color[m] = "black"
    BY SlotAssumption DEF IsBlackOrNull
  <2> QED BY <1>10, <2>1, <2>2
<1>14. ASSUME NEW m \in Slot PROVE q[sd][m] = v[sd][m] /\ q[far][m] = v[far][m]
  BY <1>3, <1>10, <1>11, <1>12
<1>15. \A m \in Slot : \A z \in Side : q[z][m] = v[z][m]
  BY <1>1, <1>14
<1>16. \A m \in Slot : m \notin {x, s} => q.parent[m] = v.parent[m]
  BY <1>10, <1>11
<1> QED BY <1>4, <1>9, <1>11, <1>13, <1>15, <1>16

\* The rotations of ____rb_erase_color end the loop with a red-black tree of
\* the same nodes.
LEMMA EraseRotateEnds ==
  ASSUME NEW t, NEW below, NEW bh, NEW p \in Slot, NEW sd \in Side,
         Erasing(t, below, bh, p, sd), t.color[SiblingOf(t, p, sd)] = "black",
         ~ BlackNephews(t, p, sd), NEW r,
         r = RotateAndFlip(RotateAtSibling(t, p, sd), p, sd)
  PROVE  \E below2, bh2 : Finished(r, below2, bh2) /\ below2[r.rb_node] = below[t.rb_node]
<1> DEFINE far == Opposite(sd)
           s == t[far][p]
           n == t[sd][p]
           f == t[far][s]
           x == t[sd][s]
           u == RotateAtSibling(t, p, sd)
<1>0. Sibling(t, bh, p, sd, far, s, n)
  BY SiblingIs
<1>1. t \in Tree /\ far \in Side /\ far # sd /\ s \in Slot /\ f \in Link /\ x \in Link
  BY <1>0 DEF Sibling
<1>2. Shape(t, below) /\ NoRedPair(t, NULL) /\ t.color[s] = "black"
  BY DEF Erasing, SiblingOf
<1>3. CASE ~ IsBlackOrNull(t, f)
  <2>1. f \in Slot /\ t.color[f] = "red"
    BY <1>1, <1>3, Fields DEF IsBlackOrNull, Link, Colour
  <2>2. u = t
    BY <1>3 DEF RotateAtSibling
  <2>3. r = RotateAndFlip(t, p, sd)
    BY <2>2
  <2>4. /\ r \in Tree
        /\ Turned(t, r, p, s, far)
        /\ \A m \in Slot : r.color[m] = IF m \in {p, f} THEN "black"
                                        ELSE IF m = s THEN t.color[p] ELSE t.color[m]
    BY <1>1, <1>2, <2>1, <2>3, RotateAndFlipIs
  <2> QED BY <1>1, <1>2, <2>1, <2>4, FlipTurn
<1>4. CASE IsBlackOrNull(t, f)
  <2>1. x \in Slot /\ t.color[x] = "red"
    <3>1. ~ IsBlackOrNull(t, x)
      <4>1. \A z \in Side : z = sd \/ z = far
        BY Sides
      <4>2. \E z \in Side : ~ IsBlackOrNull(t, t[z][s])
        BY <1>1, Fields DEF BlackNephews, SiblingOf, Side
      <4> QED BY <1>4, <4>1, <4>2
    <3> QED BY <1>1, <3>1, Fields DEF IsBlackOrNull, Link, Colour
  <2>2. PICK v \in Tree : Turned(t, v, s, x, sd) /\ NearColours(t, v, s, x)
    <3> DEFINE col == [m \in Slot |-> IF m = s THEN "red" ELSE IF m = x THEN "black"
                                      ELSE t.color[m]]
    <3>1. col \in [Slot -> Colour]
      BY <1>1, Fields DEF Colour
    <3>2. ASSUME NEW v, v.color = col PROVE NearColours(t, v, s, x)
      BY <3>2 DEF NearColours
    <3> HIDE DEF col
    <3>3. \E v \in Tree : Turned(t, v, s, x, sd) /\ v.color = col
      BY <1>1, <1>2, <2>1, <3>1, TurnExists
    <3> QED BY <3>2, <3>3
  <2>3. PICK b1, h1 : /\ FarIsRed(v, b1, h1, p, sd, far, s, x)
                      /\ b1[v.rb_node] = below[t.rb_node]
    <3>1. t[far][p] = s /\ t[sd][s] = x /\ IsBlackOrNull(t, t[far][s])
      BY <1>4
    <3>2. Erasing(t, below, bh, p, sd) /\ far = Opposite(sd) /\ p \in Slot /\ sd \in Side
      OBVIOUS
    <3> HIDE DEF s, x, f, u, far
    <3> QED BY ONLY <1>1, <1>2, <2>1, <2>2, <3>1, <3>2, NearTurn
  <2>4. /\ Erasing(v, b1, h1, p, sd) /\ b1[v.rb_node] = below[t.rb_node]
        /\ v[far][p] = x /\ v[far][x] = s /\ v.color[x] = "black" /\ v.color[s] = "red"
    BY <2>3 DEF FarIsRed
  <2>5. IsBlackOrNull(t, t[far][x])
    BY <1>1, <1>2, <2>1 DEF NoRedPair, IsBlackOrNull
  <2>6. /\ u \in Tree /\ u.rb_node = v.rb_node
        /\ \A m \in Slot :
             /\ \A z \in Side : u[z][m] = v[z][m]
             /\ m \notin {x, s} => u.parent[m] = v.parent[m] /\ u.color[m] = v.color[m]
    <3>1. t[far][p] = s /\ t[sd][s] = x /\ IsBlackOrNull(t, t[far][s])
      BY <1>4
    <3> HIDE DEF s, x, f
    <3> QED BY <1>1, <1>2, <2>1, <2>2, <2>5, <3>1, RotateAtSiblingIs
  <2>7. Shape(v, b1) /\ r = RotateAndFlip(u, p, sd)
    BY <2>4 DEF Erasing
  <2> HIDE DEF u
  <2>8. /\ r \in Tree
        /\ Turned(v, r, p, x, far)
        /\ \A m \in Slot : r.color[m] = IF m \in {p, s} THEN "black"
                                        ELSE IF m = x THEN v.color[p] ELSE v.color[m]
    BY <1>1, <2>1, <2>4, <2>6, <2>7, RotateAndFlipIs
  <2>9. \E below2, bh2 : Finished(r, below2, bh2) /\ below2[r.rb_node] = b1[v.rb_node]
    BY <1>1, <2>1, <2>4, <2>8, FlipTurn
  <2> QED BY <2>4, <2>9
<1> QED BY <1>3, <1>4

-----------------------------------------------------------------------------
(***************************************************************************)
(* Removal                                                                 *)
(***************************************************************************)

\* There is a tree that is another one without n, in any colours.
LEMMA SpliceExists ==
  ASSUME NEW t \in Tree, NEW n \in Slot, NEW c \in Link, NEW color \in [Slot -> Colour]
  PROVE  \E v \in Tree : Spliced(t, v, n, c) /\ v.color = color
<1> DEFINE kid(s) == [m \in Slot |-> IF m = n THEN NULL
                                     ELSE IF t[s][m] = n THEN c ELSE t[s][m]]
           up == [m \in Slot |-> IF m = n THEN NULL
                                 ELSE IF m = c THEN t.parent[n] ELSE t.parent[m]]
           root == IF t.rb_node = n THEN c ELSE t.rb_node
           v == [rb_node |-> root, rb_left |-> kid("rb_left"), rb_right |-> kid("rb_right"),
                 parent |-> up, color |-> color]
<1>1. \A s \in Side : kid(s) \in [Slot -> Link]
  BY Fields DEF Link
<1>2. up \in [Slot -> Link] /\ root \in Link
  BY Fields DEF Link
<1>3. "rb_left" \in Side /\ "rb_right" \in Side
  BY DEF Side
<1>4. \A m \in Slot :
        /\ up[m] = IF m = n THEN NULL ELSE IF m = c THEN t.parent[n] ELSE t.parent[m]
        /\ \A s \in Side : kid(s)[m] = IF m = n THEN NULL
                                       ELSE IF t[s][m] = n THEN c ELSE t[s][m]
  OBVIOUS
<1>5. root = IF t.rb_node = n THEN c ELSE t.rb_node
  OBVIOUS
<1> HIDE DEF kid, up, root
<1>6. /\ v \in Tree /\ v.rb_node = root /\ v.rb_left = kid("rb_left")
      /\ v.rb_right = kid("rb_right") /\ v.parent = up /\ v.color = color
  BY <1>1, <1>2, <1>3 DEF Tree
<1> HIDE DEF v
<1>7. \A s \in Side : v[s] = kid(s)
  BY <1>6, Fields DEF Side
<1>8. Spliced(t, v, n, c)
  BY <1>4, <1>5, <1>6, <1>7 DEF Spliced
<1> QED BY <1>6, <1>8

\* A red-black tree or, below p, one that lacks a black node at a leaf.
Pending(t, below, bh, p, sd) ==
  IF p = NULL THEN Finished(t, below, bh)
  ELSE /\ p \in Slot /\ sd \in Side /\ Erasing(t, below, bh, p, sd)
       /\ t[sd][p] = NULL

\* The colours after n is gone: its child c, if any, is black.
SpliceColours(t, r, n, c) ==
  \A m \in Slot : r.color[m] = IF m = n THEN "red" ELSE IF m = c THEN "black" ELSE t.color[m]

\* Where a black node is missing after n is gone.
MissingAt(t, n, c) == IF c = NULL /\ t.color[n] = "black" THEN t.parent[n] ELSE NULL

\* The only child of a node is a red leaf, and the node is black.
LEMMA OnlyChild ==
  ASSUME NEW t, NEW below, NEW bh, Finished(t, below, bh), NEW n \in Slot,
         NEW side \in Side, t[side][n] = NULL, NEW c, c = t[Opposite(side)][n]
  PROVE  /\ c \in Link /\ bh[c] = 0 /\ bh[n] = Weight(t, n)
         /\ c # NULL => c \in Slot /\ t.color[c] = "red" /\ t.color[n] = "black"
<1>1. t \in Tree /\ Balanced(t, bh, NULL, NULL) /\ NoRedPair(t, NULL) /\ Opposite(side) \in Side
  BY Sides DEF Finished, Shape
<1>2. n # NULL /\ NULL \in Link
  BY SlotAssumption DEF Link
<1>3. bh[NULL] = 0
  BY <1>1 DEF Balanced
<1>4. /\ bh[n] \in Nat /\ c \in Link /\ bh[c] \in Nat /\ bh[n] = bh[c] + Weight(t, n)
      /\ bh[n] = bh[NULL] + Weight(t, n)
  BY <1>1, <1>2, Heights
<1>5. Weight(t, n) \in Nat
  BY DEF Weight
<1>6. bh[c] = 0 /\ bh[n] = Weight(t, n)
  BY ONLY <1>3, <1>4, <1>5
<1>7. ASSUME c # NULL PROVE c \in Slot /\ t.color[c] = "red" /\ t.color[n] = "black"
  <2>1. c \in Slot
    BY <1>4, <1>7 DEF Link
  <2>2. bh[c] = bh[t[side][c]] + Weight(t, c) /\ bh[t[side][c]] \in Nat
    BY <1>1, <1>2, <1>7, <2>1, Heights
  <2>3. Weight(t, c) \in {0, 1}
    BY DEF Weight
  <2>4. Weight(t, c) = 0
    BY ONLY <1>6, <2>2, <2>3
  <2>5. t.color[c] \in Colour /\ t.color[n] \in Colour
    BY <1>1, <2>1, Fields
  <2>6. t.color[c] = "red"
    BY <2>4, <2>5 DEF Weight, Colour
  <2>7. t.color[n] # "red"
    BY <1>1, <1>7, <2>6 DEF NoRedPair, IsBlackOrNull
  <2> QED BY <2>1, <2>5, <2>6, <2>7 DEF Colour
<1> QED BY <1>4, <1>6, <1>7

\* Without n the tree is balanced, or lacks a black node where n hung.
LEMMA SpliceKeeps ==
  ASSUME NEW t, NEW below, NEW bh, Finished(t, below, bh), NEW n \in below[t.rb_node],
         NEW side \in Side, t[side][n] = NULL, NEW c, c = t[Opposite(side)][n],
         NEW r \in Tree, Spliced(t, r, n, c), SpliceColours(t, r, n, c)
  PROVE  \E bh2, sd : Pending(r, SplicedBelow(below, n), bh2, MissingAt(t, n, c), sd)
<1> DEFINE at == MissingAt(t, n, c)
           p == t.parent[n]
           bh2 == [bh EXCEPT ![n] = 0, ![c] = IF c = NULL THEN 0 ELSE 1]
           b2 == SplicedBelow(below, n)
<1>1. /\ Shape(t, below) /\ t \in Tree /\ Ordered(t, below) /\ Linked(t, below)
      /\ Balanced(t, bh, NULL, NULL) /\ NoRedPair(t, NULL) /\ IsBlackOrNull(t, t.rb_node)
      /\ Opposite(side) \in Side /\ \A s \in Side : s = side \/ s = Opposite(side)
  BY Sides DEF Finished, Shape
<1>2. n \in Slot /\ n # NULL /\ n \in Link /\ NULL \in Link /\ t.rb_node \in Link
  BY <1>1, Fields, SlotAssumption DEF Ordered, Link
<1>3. /\ c \in Link /\ bh[c] = 0 /\ bh[n] = Weight(t, n)
      /\ c # NULL => c \in Slot /\ t.color[c] = "red" /\ t.color[n] = "black"
  BY <1>2, OnlyChild
<1>4. c # n
  BY <1>1, <1>2, ChildBelow
<1>5. Shape(r, b2) /\ b2[r.rb_node] = below[t.rb_node] \ {n}
  BY <1>1, SpliceShape
<1>6. \A m \in Slot :
        /\ \A s \in Side : r[s][m] = IF m = n THEN NULL
                                     ELSE IF t[s][m] = n THEN c ELSE t[s][m]
        /\ r.color[m] = IF m = n THEN "red" ELSE IF m = c THEN "black" ELSE t.color[m]
  BY DEF Spliced, SpliceColours
<1>7. /\ bh \in [Link -> Nat] /\ bh[NULL] = 0
      /\ bh2 \in [Link -> Nat] /\ bh2[NULL] = 0 /\ bh2[n] = 0
      /\ c # NULL => bh2[c] = 1
      /\ \A m \in Link \ {n, c} : bh2[m] = bh[m]
  <2>1. bh \in [Link -> Nat] /\ bh[NULL] = 0
    BY <1>1 DEF Balanced
  <2>2. n \in Link /\ c \in Link /\ NULL \in Link /\ n # c /\ n # NULL
    BY <1>2, <1>3, <1>4
  <2> QED BY ONLY <2>1, <2>2 DEF bh2
<1> HIDE DEF bh2
<1>8. \A m \in Slot : \A s \in Side : t[s][m] # NULL => t.parent[t[s][m]] = m
  BY <1>1 DEF Linked
<1>9. ASSUME NEW m \in Slot \ {n, c}, NEW s \in Side, t[s][m] # n
      PROVE  bh2[m] = bh2[r[s][m]] + Weight(r, m)
  <2> DEFINE k == t[s][m]
  <2>1. m # NULL /\ m \in Link /\ k \in Link
    BY <1>1, SlotAssumption, Fields DEF Link
  <2>2. bh[m] = bh[k] + Weight(t, m)
    BY <1>1, <1>2, <2>1, Heights
  <2>3. bh2[m] = bh[m] /\ Weight(r, m) = Weight(t, m) /\ r[s][m] = k
    BY <1>6, <1>7, <1>9, <2>1 DEF Weight
  <2>4. k # c \/ k = NULL
    BY <1>1, <1>2, <1>8, <1>9
  <2>5. bh2[k] = bh[k]
    BY <1>7, <1>9, <2>1, <2>4
  <2> QED BY <2>2, <2>3, <2>5
<1>10. ASSUME NEW s \in Side PROVE bh2[n] = bh2[r[s][n]] + Weight(r, n)
  <2>1. Weight(r, n) = 0 /\ r[s][n] = NULL
    BY <1>2, <1>6 DEF Weight
  <2> QED BY <1>7, <2>1
<1>11. ASSUME NEW s \in Side, c # NULL PROVE bh2[c] = bh2[r[s][c]] + Weight(r, c)
  <2>1. c \in Slot /\ Weight(t, c) = 0 /\ Weight(r, c) = 1
    BY <1>3, <1>4, <1>6, <1>11 DEF Weight
  <2>2. bh[c] = bh[t[s][c]] + Weight(t, c) /\ t[s][c] \in Link /\ bh[t[s][c]] \in Nat
    BY <1>1, <1>2, <1>11, <2>1, Heights
  <2>3. bh[t[s][c]] = 0
    BY <1>3, <2>1, <2>2
  <2>4. t[s][c] \notin {n, c}
    BY <1>1, <1>2, <1>11, Distinct
  <2>5. r[s][c] = t[s][c] /\ bh2[t[s][c]] = 0
    BY <1>4, <1>6, <1>7, <2>1, <2>2, <2>3, <2>4
  <2> QED BY <1>7, <1>11, <2>1, <2>5
<1>12. ASSUME NEW m \in Slot \ {n, c}, NEW s \in Side, t[s][m] = n
       PROVE  /\ m = p /\ m # NULL /\ r[s][m] = c
              /\ c # NULL \/ t.color[n] = "red" => bh2[m] = bh2[r[s][m]] + Weight(r, m)
              /\ c = NULL /\ t.color[n] = "black" => bh2[m] = bh2[r[s][m]] + 1 + Weight(r, m)
  <2>1. m # NULL /\ m \in Link /\ m = p
    BY <1>2, <1>8, <1>12, SlotAssumption DEF Link
  <2>2. bh[m] = bh[n] + Weight(t, m)
    BY <1>1, <1>2, <1>12, <2>1, Heights
  <2>3. bh2[m] = bh[m] /\ Weight(r, m) = Weight(t, m) /\ r[s][m] = c
    BY <1>6, <1>7, <1>12, <2>1 DEF Weight
  <2>4. c # NULL => bh2[c] = bh[n]
    BY <1>3, <1>7 DEF Weight
  <2>5. c = NULL => bh2[c] = 0
    BY <1>7
  <2>6. t.color[n] = "red" => bh[n] = 0 /\ c = NULL
    BY <1>3 DEF Weight
  <2>7. t.color[n] = "black" => bh[n] = 1
    BY <1>3 DEF Weight
  <2>8. c # NULL \/ t.color[n] = "red" => bh2[m] = bh2[r[s][m]] + Weight(r, m)
    BY <2>2, <2>3, <2>4, <2>5, <2>6
  <2>9. c = NULL /\ t.color[n] = "black" => bh2[m] = bh2[r[s][m]] + 1 + Weight(r, m)
    BY <2>2, <2>3, <2>5, <2>7
  <2> QED BY <2>1, <2>3, <2>8, <2>9
<1>13. \A m \in Slot : Weight(r, m) \in Nat /\ m \in Link
  BY DEF Weight, Link
<1>14. \A m \in Slot : \A s \in Side : r[s][m] \in Link /\ bh2[r[s][m]] \in Nat
  BY <1>7, Fields
<1>15. NoRedPair(r, NULL)
  <2>1. SUFFICES ASSUME NEW m \in Slot, NEW s \in Side, r.color[m] = "red", r[s][m] # NULL
                 PROVE  r.color[r[s][m]] = "black"
    BY DEF NoRedPair, IsBlackOrNull
  <2>2. m \notin {n, c} /\ t.color[m] = "red"
    BY <1>4, <1>6, <2>1
  <2>3. r[s][m] = IF t[s][m] = n THEN c ELSE t[s][m]
    BY <1>6, <2>2
  <2>4. CASE t[s][m] = n
    BY <1>3, <1>4, <1>6, <2>1, <2>3, <2>4
  <2>5. CASE t[s][m] # n
    <3>1. t[s][m] \in Slot /\ r[s][m] = t[s][m]
      BY <1>1, <2>1, <2>3, <2>5, Fields DEF Link
    <3>2. t.color[t[s][m]] = "black"
      BY <1>1, <2>1, <2>2, <2>3, <2>5 DEF NoRedPair, IsBlackOrNull
    <3> QED BY <1>6, <2>5, <3>1, <3>2
  <2> QED BY <2>4, <2>5
<1>16. IsBlackOrNull(r, r.rb_node)
  <2>1. r.rb_node = IF t.rb_node = n THEN c ELSE t.rb_node
    BY DEF Spliced
  <2>2. CASE t.rb_node = n
    BY <1>3, <1>4, <1>6, <2>1, <2>2 DEF IsBlackOrNull
  <2>3. CASE t.rb_node # n
    <3>1. r.rb_node = t.rb_node /\ (t.rb_node # NULL => t.rb_node \in Slot)
      BY <1>2, <2>1, <2>3 DEF Link
    <3> QED BY <1>1, <1>6, <2>3, <3>1 DEF IsBlackOrNull
  <2> QED BY <2>2, <2>3
<1>17. p \in Link /\ (p = NULL => t.rb_node = n)
  <2>1. p \in Link
    BY <1>1, <1>2, Fields
  <2> QED BY <1>1, <1>2, <2>1 DEF Linked
<1>18. CASE at = NULL
  <2>1. ASSUME NEW m \in Slot, NEW s \in Side
        PROVE  bh2[m] = bh2[r[s][m]] + Lack(NULL, NULL, m, s) + Weight(r, m)
    <3>1. Lack(NULL, NULL, m, s) = 0
      BY SlotAssumption DEF Lack
    <3>2. bh2[m] = bh2[r[s][m]] + Weight(r, m)
      <4>1. CASE m = n
        BY <1>10, <4>1
      <4>2. CASE m = c
        BY <1>11, <4>2, SlotAssumption
      <4>3. CASE m \notin {n, c} /\ t[s][m] # n
        BY <1>9, <4>3
      <4>4. CASE m \notin {n, c} /\ t[s][m] = n
        <5>1. /\ m = p /\ m # NULL
              /\ c # NULL \/ t.color[n] = "red" => bh2[m] = bh2[r[s][m]] + Weight(r, m)
          BY <1>12, <4>4
        <5>2. t.color[n] \in Colour
          BY <1>1, <1>2, Fields
        <5> QED BY <1>18, <5>1, <5>2 DEF MissingAt, Colour
      <4> QED BY <4>1, <4>2, <4>3, <4>4
    <3> QED BY <1>13, <1>14, <3>1, <3>2
  <2>2. Balanced(r, bh2, NULL, NULL)
    BY <1>7, <2>1 DEF Balanced
  <2>3. Finished(r, b2, bh2)
    BY <1>5, <1>15, <1>16, <2>2 DEF Finished
  <2>4. Pending(r, b2, bh2, at, NULL)
    BY <1>18, <2>3 DEF Pending
  <2> QED BY <2>4
<1>19. CASE at # NULL
  <2>1. at = p /\ c = NULL /\ t.color[n] = "black" /\ p # NULL /\ p \in Slot
    BY <1>17, <1>19 DEF MissingAt, Link
  <2>2. PICK sd \in Side : t[sd][p] = n
    BY <1>1, <1>2, <2>1 DEF Linked
  <2>3. p \notin {n, c} /\ t[Opposite(sd)][p] # n /\ p \in below[t.rb_node]
    BY <1>1, <1>2, <2>1, <2>2, Distinct
  <2>4. r[sd][p] = NULL
    BY <1>6, <2>1, <2>2, <2>3
  <2>5. ASSUME NEW m \in Slot, NEW s \in Side
        PROVE  bh2[m] = bh2[r[s][m]] + Lack(p, sd, m, s) + Weight(r, m)
    <3>1. m # c
      BY <2>1, SlotAssumption
    <3>2. CASE m = n
      <4>1. Lack(p, sd, m, s) = 0
        BY <2>3, <3>2 DEF Lack
      <4>2. bh2[m] = bh2[r[s][m]] + Weight(r, m)
        BY <1>10, <3>2
      <4> QED BY <1>13, <1>14, <4>1, <4>2
    <3>3. CASE m # n /\ t[s][m] # n
      <4>1. Lack(p, sd, m, s) = 0
        BY <2>2, <3>3 DEF Lack
      <4>2. bh2[m] = bh2[r[s][m]] + Weight(r, m)
        BY <1>9, <3>1, <3>3
      <4> QED BY <1>13, <1>14, <4>1, <4>2
    <3>4. CASE m # n /\ t[s][m] = n
      <4>1. m = p /\ bh2[m] = bh2[r[s][m]] + 1 + Weight(r, m)
        BY <1>12, <2>1, <3>1, <3>4
      <4>2. s = sd
        BY <2>2, <2>3, <3>4, <4>1, Sides
      <4>3. Lack(p, sd, m, s) = 1
        BY <4>1, <4>2 DEF Lack
      <4> QED BY <4>1, <4>3
    <3> QED BY <3>2, <3>3, <3>4
  <2>6. Balanced(r, bh2, p, sd)
    BY <1>7, <2>5 DEF Balanced
  <2>7. r.color[r.rb_node] = "black"
    <3>1. p \in b2[r.rb_node]
      BY <1>5, <2>3
    <3>2. r.rb_node # NULL
      BY <1>5, <3>1 DEF Shape, Ordered
    <3> QED BY <1>16, <3>2 DEF IsBlackOrNull
  <2>8. Erasing(r, b2, bh2, p, sd)
    BY <1>5, <1>15, <2>3, <2>4, <2>6, <2>7 DEF Erasing, IsBlackOrNull
  <2>9. Pending(r, b2, bh2, at, sd)
    BY <2>1, <2>4, <2>8 DEF Pending
  <2> QED BY <2>9
<1> QED BY <1>18, <1>19

\* The colours after w took the place of o.
SubstituteColours(t, r, o, w) ==
  \A m \in Slot : r.color[m] = IF m = w THEN t.color[o] ELSE IF m = o THEN "red" ELSE t.color[m]

\* w fits in the order where o is.
Fits(t, below, o, w) ==
  /\ \A s \in Side : \A x \in below[t[s][o]] : Before(s, x, w)
  /\ \A m \in Slot : \A s \in Side : o \in below[t[s][m]] => Before(s, w, m)

\* r is t with w in the place and in the colour of o.
Replaces(t, below, r, o, w) ==
  /\ r \in Tree /\ o \in below[t.rb_node] /\ w \in Slot \ below[t.rb_node]
  /\ Fits(t, below, o, w) /\ Substituted(t, r, o, w) /\ SubstituteColours(t, r, o, w)

\* at2 is what at is called once w took the place of o.
Renamed(at, at2, o, w) == at2 = IF at = o THEN w ELSE at

\* w in the place of o: the heights and colours stay as they are.
LEMMA SubstituteKeeps ==
  ASSUME NEW t, NEW below, NEW bh, NEW at, NEW sd, Pending(t, below, bh, at, sd),
         NEW r, NEW o, NEW w, Replaces(t, below, r, o, w), NEW at2, Renamed(at, at2, o, w)
  PROVE  \E below2, bh2 : /\ Pending(r, below2, bh2, at2, sd)
                          /\ below2[r.rb_node] = (below[t.rb_node] \ {o}) \cup {w}
<1>0. at2 = IF at = o THEN w ELSE at
  BY DEF Renamed
<1>a. /\ r \in Tree /\ o \in below[t.rb_node] /\ w \in Slot /\ w \notin below[t.rb_node]
      /\ Fits(t, below, o, w) /\ Substituted(t, r, o, w) /\ SubstituteColours(t, r, o, w)
  BY DEF Replaces
<1> DEFINE bh2 == [bh EXCEPT ![w] = bh[o], ![o] = 0]
           b2 == SubstitutedBelow(below, o, w)
           sd1 == IF at = NULL THEN NULL ELSE sd
<1>1. /\ Shape(t, below) /\ Balanced(t, bh, at, sd1) /\ NoRedPair(t, NULL)
      /\ IsBlackOrNull(t, t.rb_node)
      /\ at # NULL => /\ at \in Slot /\ sd \in Side /\ t[sd][at] = NULL
                      /\ at \in below[t.rb_node]
  <2>1. CASE at = NULL
    BY <2>1 DEF Pending, Finished
  <2>2. CASE at # NULL
    BY <2>2 DEF Pending, Erasing, IsBlackOrNull
  <2> QED BY <2>1, <2>2
<1>2. /\ t \in Tree /\ Ordered(t, below) /\ Linked(t, below) /\ t.rb_node \in Link
      /\ bh \in [Link -> Nat] /\ bh[NULL] = 0
  <2>1. t \in Tree /\ Ordered(t, below) /\ Linked(t, below)
    BY <1>1 DEF Shape
  <2>2. bh \in [Link -> Nat] /\ bh[NULL] = 0
    BY <1>1 DEF Balanced
  <2> QED BY <2>1, <2>2, Fields
<1>3. /\ o \in Slot /\ o # NULL /\ w # NULL /\ o # w /\ o \in Link /\ w \in Link /\ NULL \in Link
      /\ at # w
  <2>1. o \in Slot
    BY <1>2, <1>a DEF Ordered
  <2> QED BY <1>1, <1>a, <2>1, SlotAssumption DEF Link
<1>4. /\ t.rb_node # w /\ \A s \in Side : t[s][w] = NULL
      /\ \A m \in Slot : \A s \in Side : t[s][m] # w
  BY <1>1, <1>a, Outside
<1>5. Shape(r, b2) /\ b2[r.rb_node] = (below[t.rb_node] \ {o}) \cup {w}
  <2>1. /\ \A s \in Side : \A x \in below[t[s][o]] : Before(s, x, w)
        /\ \A m \in Slot : \A s \in Side : o \in below[t[s][m]] => Before(s, w, m)
    BY <1>a DEF Fits
  <2>2. w \in Slot \ below[t.rb_node]
    BY <1>a
  <2> QED BY <1>1, <1>a, <2>1, <2>2, SubstituteShape
<1>6. /\ r.rb_node = IF t.rb_node = o THEN w ELSE t.rb_node
      /\ \A m \in Slot :
           /\ \A s \in Side : r[s][m] = IF m = w THEN t[s][o]
                                        ELSE IF m = o THEN NULL
                                        ELSE IF t[s][m] = o THEN w ELSE t[s][m]
           /\ r.color[m] = IF m = w THEN t.color[o] ELSE IF m = o THEN "red" ELSE t.color[m]
  BY <1>a DEF Substituted, SubstituteColours
<1>7. /\ bh2 \in [Link -> Nat] /\ bh2[NULL] = 0 /\ bh2[w] = bh[o] /\ bh2[o] = 0
      /\ \A m \in Link \ {o, w} : bh2[m] = bh[m]
  <2>1. bh \in [Link -> Nat] /\ bh[NULL] = 0
    BY <1>2
  <2>2. o \in Link /\ w \in Link /\ NULL \in Link /\ o # w /\ o # NULL /\ w # NULL
    BY <1>3
  <2> QED BY ONLY <2>1, <2>2 DEF bh2
<1> HIDE DEF bh2, b2
<1>8. ASSUME NEW m \in Slot, NEW s \in Side, t[s][m] # o
      PROVE  bh2[t[s][m]] = bh[t[s][m]]
  <2>1. t[s][m] \in Link \ {o, w}
    BY <1>2, <1>4, <1>8, Fields
  <2> QED BY <1>7, <2>1
<1>9. \A s \in Side : t[s][o] # o
  BY <1>2, <1>3, ChildBelow
<1>10. ASSUME NEW m \in Slot, NEW s \in Side
       PROVE  bh2[m] = bh2[r[s][m]] + Lack(at2, sd1, m, s) + Weight(r, m)
  <2>1. m \in Link /\ m # NULL /\ t[s][m] \in Link
    BY <1>2, SlotAssumption, Fields DEF Link
  <2>2. CASE m = o
    <3>1. r[s][m] = NULL /\ Weight(r, m) = 0
      BY <1>3, <1>6, <2>2 DEF Weight
    <3>2. Lack(at2, sd1, m, s) = 0
      BY <1>0, <1>3, <2>2 DEF Lack
    <3> QED BY <1>7, <2>2, <3>1, <3>2
  <2>3. CASE m = w
    <3>1. bh[o] = bh[t[s][o]] + Lack(at, sd1, o, s) + Weight(t, o)
      BY <1>1, <1>3 DEF Balanced
    <3>2. r[s][m] = t[s][o] /\ Weight(r, m) = Weight(t, o) /\ bh2[m] = bh[o]
      BY <1>6, <1>7, <2>3 DEF Weight
    <3>3. Lack(at2, sd1, m, s) = Lack(at, sd1, o, s)
      BY <1>0, <1>3, <2>3 DEF Lack
    <3>4. bh2[t[s][o]] = bh[t[s][o]]
      BY <1>3, <1>8, <1>9
    <3> QED BY <3>1, <3>2, <3>3, <3>4
  <2>4. CASE m \notin {o, w}
    <3>1. bh[m] = bh[t[s][m]] + Lack(at, sd1, m, s) + Weight(t, m)
      BY <1>1 DEF Balanced
    <3>2. Weight(r, m) = Weight(t, m) /\ bh2[m] = bh[m]
      BY <1>6, <1>7, <2>1, <2>4 DEF Weight
    <3>3. Lack(at2, sd1, m, s) = Lack(at, sd1, m, s)
      BY <1>0, <2>4 DEF Lack
    <3>4. bh2[r[s][m]] = bh[t[s][m]]
      <4>1. CASE t[s][m] = o
        BY <1>6, <1>7, <2>4, <4>1
      <4>2. CASE t[s][m] # o
        BY <1>6, <1>8, <2>4, <4>2
      <4> QED BY <4>1, <4>2
    <3> QED BY <3>1, <3>2, <3>3, <3>4
  <2> QED BY <2>2, <2>3, <2>4
<1>11. Balanced(r, bh2, at2, sd1)
  BY <1>7, <1>10 DEF Balanced
<1>12. NoRedPair(r, NULL)
  <2>1. SUFFICES ASSUME NEW m \in Slot, NEW s \in Side, r.color[m] = "red", r[s][m] # NULL
                 PROVE  r.color[r[s][m]] = "black"
    BY DEF NoRedPair, IsBlackOrNull
  <2> DEFINE m0 == IF m = w THEN o ELSE m
  <2>2. m # o /\ m0 \in Slot /\ t.color[m0] = "red"
    BY <1>a, <1>3, <1>6, <2>1
  <2>3. r[s][m] = IF t[s][m0] = o THEN w ELSE t[s][m0]
    BY <1>6, <1>9, <2>2
  <2>4. t[s][m0] # NULL /\ t[s][m0] \in Slot /\ t[s][m0] # w
    <3>1. t[s][m0] \in Link /\ t[s][m0] # w
      BY <1>2, <1>4, <2>2, Fields
    <3> QED BY <1>a, <1>3, <2>1, <2>3, <3>1 DEF Link
  <2>5. t.color[t[s][m0]] = "black"
    BY <1>a, <1>1, <2>2, <2>4 DEF NoRedPair, IsBlackOrNull
  <2> HIDE DEF m0
  <2> QED BY <1>a, <1>3, <1>6, <2>3, <2>4, <2>5
<1>13. IsBlackOrNull(r, r.rb_node)
  <2>1. t.rb_node # NULL => t.rb_node \in Slot
    BY <1>2 DEF Link
  <2> QED BY <1>a, <1>1, <1>3, <1>4, <1>6, <2>1 DEF IsBlackOrNull
<1>14. CASE at = NULL
  <2>1. at2 = NULL /\ Balanced(r, bh2, NULL, NULL)
    BY <1>a, <1>0, <1>3, <1>11, <1>14
  <2>2. Finished(r, b2, bh2)
    BY <1>5, <1>12, <1>13, <2>1 DEF Finished
  <2>3. Pending(r, b2, bh2, at2, sd)
    BY <2>1, <2>2 DEF Pending
  <2> QED BY <1>5, <2>3
<1>15. CASE at # NULL
  <2>1. at2 # NULL /\ at2 \in Slot /\ sd \in Side /\ sd1 = sd /\ at2 \in b2[r.rb_node]
    BY <1>a, <1>0, <1>1, <1>3, <1>5, <1>15
  <2>2. r[sd][at2] = NULL
    BY <1>a, <1>0, <1>1, <1>3, <1>6, <1>15
  <2>3. r.color[r.rb_node] = "black"
    <3>1. r.rb_node # NULL
      BY <1>5, <2>1 DEF Shape, Ordered
    <3> QED BY <1>13, <3>1 DEF IsBlackOrNull
  <2>4. Erasing(r, b2, bh2, at2, sd)
    BY <1>5, <1>11, <1>12, <2>1, <2>2, <2>3 DEF Erasing, IsBlackOrNull
  <2>5. Pending(r, b2, bh2, at2, sd)
    BY <2>1, <2>2, <2>4 DEF Pending
  <2> QED BY <1>5, <2>5
<1> QED BY <1>14, <1>15

\* The link that holds a node of the tree.
LEMMA HeldBy ==
  ASSUME NEW t, NEW below, Shape(t, below), NEW n \in below[t.rb_node]
  PROVE  /\ n \in Slot /\ n # NULL /\ n \in Link /\ t.parent[n] \in Link /\ t.parent[n] # n
         /\ t.parent[n] = NULL <=> t.rb_node = n
         /\ t.parent[n] # NULL =>
              /\ t.parent[n] \in Slot
              /\ \E s \in Side : t[s][t.parent[n]] = n /\ t[Opposite(s)][t.parent[n]] # n
         /\ \A m \in Slot : \A s \in Side : t[s][m] = n => m = t.parent[n]
         /\ \A m \in Slot : t.parent[m] = n => \E s \in Side : t[s][n] = m
<1>1. t \in Tree /\ Ordered(t, below) /\ Linked(t, below)
  BY DEF Shape
<1>2. n \in Slot /\ n # NULL /\ n \in Link /\ t.parent[n] \in Link /\ t.rb_node \in Link
  BY <1>1, Fields, SlotAssumption DEF Ordered, Link
<1>3. t.parent[n] = NULL <=> t.rb_node = n
  BY <1>1, <1>2 DEF Linked
<1>4. ASSUME t.parent[n] # NULL
      PROVE  /\ t.parent[n] \in Slot /\ t.parent[n] # n
             /\ \E s \in Side : t[s][t.parent[n]] = n /\ t[Opposite(s)][t.parent[n]] # n
  <2>1. t.parent[n] \in Slot
    BY <1>2, <1>4 DEF Link
  <2>2. PICK s \in Side : t[s][t.parent[n]] = n
    BY <1>1, <1>2, <1>4 DEF Linked
  <2>3. t.parent[n] # n /\ t[Opposite(s)][t.parent[n]] # n
    BY <1>2, <2>1, <2>2, Distinct
  <2> QED BY <2>1, <2>2, <2>3
<1>5. \A m \in Slot : \A s \in Side : t[s][m] = n => m = t.parent[n]
  BY <1>1, <1>2 DEF Linked
<1>6. \A m \in Slot : t.parent[m] = n => \E s \in Side : t[s][n] = m
  BY <1>1, <1>2 DEF Linked
<1> QED BY <1>2, <1>3, <1>4, <1>5, <1>6

\* rb_replace_node puts w in the place of o.
LEMMA ReplaceIs ==
  ASSUME NEW t, NEW below, Shape(t, below), NEW o \in below[t.rb_node],
         NEW w \in Slot \ below[t.rb_node], NEW r, r = Forget(rb_replace_node(t, o, w), o)
  PROVE  r \in Tree /\ Substituted(t, r, o, w) /\ SubstituteColours(t, r, o, w)
<1> DEFINE p == t.parent[o]
           a == t.rb_left[o]
           b == t.rb_right[o]
           t1 == [t EXCEPT !.rb_left[w] = a, !.rb_right[w] = b, !.parent[w] = p,
                           !.color[w] = t.color[o]]
           t2 == SetParentIfAny(t1, a, w)
           t3 == SetParentIfAny(t2, b, w)
           t4 == __rb_change_child(t3, o, w, p)
<1>1. t \in Tree /\ Linked(t, below)
  BY DEF Shape
<1>2. /\ o \in Slot /\ o # NULL /\ o \in Link /\ p \in Link /\ p # o
      /\ p = NULL <=> t.rb_node = o
      /\ p # NULL =>
           /\ p \in Slot
           /\ \E s \in Side : t[s][p] = o /\ t[Opposite(s)][p] # o
      /\ \A m \in Slot : \A s \in Side : t[s][m] = o => m = p
      /\ \A m \in Slot : t.parent[m] = o => \E s \in Side : t[s][o] = m
  BY HeldBy
<1>3. a \in Link /\ b \in Link /\ w \in Link /\ w # o /\ w # NULL /\ a # o /\ b # o
  <2>1. \A s \in Side : t[s][o] # o
    BY <1>2, ChildBelow DEF Shape
  <2>2. a \in Link /\ b \in Link /\ a # o /\ b # o
    BY <1>1, <1>2, <2>1, Fields DEF Side
  <2> QED BY <1>2, <2>2, SlotAssumption DEF Link
<1>4. /\ t.rb_node # w /\ t.parent[w] = NULL
      /\ \A m \in Slot : \A s \in Side : t[s][m] # w
  BY Outside
<1>5. a # w /\ b # w /\ p # w
  <2>1. a # w /\ b # w
    BY <1>1, <1>2, <1>4, Fields DEF Side
  <2>2. ASSUME p = w PROVE FALSE
    BY <1>2, <1>3, <1>4, <2>2, Outside
  <2> QED BY <2>1, <2>2
<1>6. /\ t1 \in Tree /\ t1.rb_node = t.rb_node
      /\ t1.rb_left = [t.rb_left EXCEPT ![w] = a] /\ t1.rb_right = [t.rb_right EXCEPT ![w] = b]
      /\ t1.parent = [t.parent EXCEPT ![w] = p] /\ t1.color = [t.color EXCEPT ![w] = t.color[o]]
  <2>1. t.color[o] \in Colour
    BY <1>1, <1>2, Fields
  <2>2. a \in Link /\ b \in Link /\ p \in Link
    BY <1>2, <1>3
  <2> HIDE DEF a, b, p
  <2> QED BY <1>1, <2>1, <2>2 DEF Tree
<1>7. \A m \in Slot :
        /\ \A s \in Side : t1[s][m] = IF m = w THEN t[s][o] ELSE t[s][m]
        /\ t1.parent[m] = IF m = w THEN p ELSE t.parent[m]
        /\ t1.color[m] = IF m = w THEN t.color[o] ELSE t.color[m]
  <2>1. \A s \in Side : t1[s] = [t[s] EXCEPT ![w] = t[s][o]]
    <3>1. t1.rb_left = t1["rb_left"] /\ t1.rb_right = t1["rb_right"]
      BY <1>6, Fields
    <3> HIDE DEF t1
    <3> QED BY <1>1, <1>6, <3>1, Fields DEF Side
  <2>2. /\ \A s \in Side : t[s] \in [Slot -> Link]
        /\ t.parent \in [Slot -> Link] /\ t.color \in [Slot -> Colour]
    BY <1>1, Fields
  <2> HIDE DEF t1, p
  <2>3. \A m \in Slot : \A s \in Side : t1[s][m] = IF m = w THEN t[s][o] ELSE t[s][m]
    <3>1. ASSUME NEW m \in Slot, NEW s \in Side
          PROVE  t1[s][m] = IF m = w THEN t[s][o] ELSE t[s][m]
      <4>1. t1[s] = [t[s] EXCEPT ![w] = t[s][o]] /\ t[s] \in [Slot -> Link]
        BY <2>1, <2>2
      <4> QED BY ONLY <4>1, m \in Slot
    <3> QED BY <3>1
  <2>4. \A m \in Slot : t1.parent[m] = IF m = w THEN p ELSE t.parent[m]
    BY <1>6, <2>2
  <2>5. \A m \in Slot : t1.color[m] = IF m = w THEN t.color[o] ELSE t.color[m]
    BY <1>6, <2>2
  <2> QED BY <2>3, <2>4, <2>5
<1>8. rb_replace_node(t, o, w) = t4
  BY DEF rb_replace_node
<1> HIDE DEF t1
<1>9. ParentSet(t1, t2, a, w)
  BY <1>3, <1>6, SetParentFields
<1> HIDE DEF t2
<1>10. ParentSet(t2, t3, b, w)
  <2>1. t2 \in Tree
    BY <1>9 DEF ParentSet
  <2> QED BY <1>3, <2>1, SetParentFields
<1> HIDE DEF t3, a, b
<1>11. /\ t3 \in Tree /\ t3.rb_node = t.rb_node
       /\ \A m \in Slot :
            /\ \A s \in Side : t3[s][m] = IF m = w THEN t[s][o] ELSE t[s][m]
            /\ t3.parent[m] = IF m = a \/ m = b THEN w ELSE IF m = w THEN p ELSE t.parent[m]
            /\ t3.color[m] = IF m = w THEN t.color[o] ELSE t.color[m]
  BY <1>6, <1>7, <1>9, <1>10 DEF ParentSet
<1>12. ChildChanged(t3, t4, o, w, p)
  <2>1. p # NULL => \E s \in Side : t3[s][p] = o /\ t3[Opposite(s)][p] # o
    BY <1>2, <1>5, <1>11, Sides
  <2> HIDE DEF p
  <2> QED BY <1>2, <1>3, <1>11, <2>1, ChangeChildFields
<1> HIDE DEF t4
<1>13. /\ t4 \in Tree /\ t4.rb_node = IF p = NULL THEN w ELSE t.rb_node
       /\ \A m \in Slot :
            /\ \A s \in Side : t4[s][m] = IF m = w THEN t[s][o]
                                          ELSE IF t[s][m] = o THEN w ELSE t[s][m]
            /\ t4.parent[m] = IF m = a \/ m = b THEN w ELSE IF m = w THEN p ELSE t.parent[m]
            /\ t4.color[m] = IF m = w THEN t.color[o] ELSE t.color[m]
  BY <1>2, <1>5, <1>11, <1>12 DEF ChildChanged
<1>14. r = Forget(t4, o)
  BY <1>8
<1>15. /\ r \in Tree /\ r.rb_node = t4.rb_node
       /\ \A m \in Slot :
            /\ \A s \in Side : r[s][m] = IF m = o THEN NULL ELSE t4[s][m]
            /\ r.parent[m] = IF m = o THEN NULL ELSE t4.parent[m]
            /\ r.color[m] = IF m = o THEN "red" ELSE t4.color[m]
  BY <1>2, <1>13, <1>14, ForgetFields, SMTT(20)
<1>16. \A m \in Slot : t.parent[m] = o <=> m = a \/ m = b
  <2>1. a = t["rb_left"][o] /\ b = t["rb_right"][o]
    BY <1>1, Fields DEF a, b
  <2>2. \A m \in Slot : m = a \/ m = b => t.parent[m] = o
    BY <1>1, <1>2, <2>1, SlotAssumption DEF Linked, Side
  <2> QED BY <1>2, <2>1, <2>2 DEF Side
<1>17. Substituted(t, r, o, w)
  <2>1. r.rb_node = IF t.rb_node = o THEN w ELSE t.rb_node
    BY <1>2, <1>13, <1>15
  <2>2. \A m \in Slot : \A s \in Side :
           r[s][m] = IF m = w THEN t[s][o] ELSE IF m = o THEN NULL
                     ELSE IF t[s][m] = o THEN w ELSE t[s][m]
    BY <1>3, <1>13, <1>15
  <2>3. \A m \in Slot : r.parent[m] = IF m = w THEN t.parent[o] ELSE IF m = o THEN NULL
                                      ELSE IF t.parent[m] = o THEN w ELSE t.parent[m]
    BY <1>3, <1>5, <1>13, <1>15, <1>16
  <2> QED BY <2>1, <2>2, <2>3 DEF Substituted
<1>18. SubstituteColours(t, r, o, w)
  BY <1>3, <1>13, <1>15 DEF SubstituteColours
<1> QED BY <1>15, <1>17, <1>18

\* A slot that starts where the old one does takes its place.
LEMMA ReplaceEnds ==
  ASSUME NEW t, NEW below, NEW bh, Finished(t, below, bh), NEW o \in below[t.rb_node],
         NEW w \in Slot \ below[t.rb_node], BaseGfn[o] = BaseGfn[w],
         NEW r, r = Forget(rb_replace_node(t, o, w), o)
  PROVE  \E below2, bh2 : /\ Finished(r, below2, bh2)
                          /\ below2[r.rb_node] = (below[t.rb_node] \ {o}) \cup {w}
<1>1. Shape(t, below) /\ Ordered(t, below) /\ o \in Slot /\ NULL \in Link /\ o # NULL
  <2>1. Shape(t, below)
    BY DEF Finished
  <2> QED BY <2>1, HeldBy DEF Shape, Link
<1>2. r \in Tree /\ Substituted(t, r, o, w) /\ SubstituteColours(t, r, o, w)
  BY <1>1, ReplaceIs
<1>3. Pending(t, below, bh, NULL, NULL)
  BY DEF Pending
<1>4. Fits(t, below, o, w)
  BY <1>1 DEF Ordered, Before, Fits
<1>5. Replaces(t, below, r, o, w) /\ Renamed(NULL, NULL, o, w)
  BY <1>1, <1>2, <1>4 DEF Replaces, Renamed
<1>6. \E below2, bh2 : /\ Pending(r, below2, bh2, NULL, NULL)
                       /\ below2[r.rb_node] = (below[t.rb_node] \ {o}) \cup {w}
  BY ONLY <1>3, <1>5, SubstituteKeeps
<1> QED BY <1>6 DEF Pending

\* A node with at most one child is removed.
LEMMA EraseOneEnds ==
  ASSUME NEW t, NEW below, NEW bh, Finished(t, below, bh), NEW n \in below[t.rb_node],
         NULL \in {t.rb_left[n], t.rb_right[n]}, NEW r,
         r = Forget(EraseOneChild(t, n).tree, n)
  PROVE  \E below2, bh2, sd : /\ Pending(r, below2, bh2, EraseOneChild(t, n).rebalance, sd)
                              /\ below2[r.rb_node] = below[t.rb_node] \ {n}
<1> DEFINE c == IF t.rb_left[n] = NULL THEN t.rb_right[n] ELSE t.rb_left[n]
           side == IF t.rb_left[n] = NULL THEN "rb_left" ELSE "rb_right"
           p == t.parent[n]
           t1 == __rb_change_child(t, n, c, p)
           t2 == SetParentColorIfAny(t1, c, p, t.color[n])
<1>1. Shape(t, below) /\ t \in Tree
  BY DEF Finished, Shape
<1>2. /\ n \in Slot /\ n # NULL /\ n \in Link /\ p \in Link /\ p # n
      /\ p = NULL <=> t.rb_node = n
      /\ p # NULL =>
           /\ p \in Slot
           /\ \E s \in Side : t[s][p] = n /\ t[Opposite(s)][p] # n
      /\ \A m \in Slot : \A s \in Side : t[s][m] = n => m = p
  BY <1>1, HeldBy
<1>3. side \in Side /\ t[side][n] = NULL /\ c = t[Opposite(side)][n]
  BY <1>1, Fields DEF Side, Opposite
<1>4. EraseOneChild(t, n).tree = t2 /\ EraseOneChild(t, n).rebalance = MissingAt(t, n, c)
  BY DEF EraseOneChild, MissingAt
<1> HIDE DEF c, side, p
<1>5. /\ c \in Link
      /\ c # NULL => c \in Slot /\ t.color[n] = "black"
  BY <1>2, <1>3, OnlyChild
<1>6. c # n
  BY <1>1, <1>2, <1>3, Sides, ChildBelow DEF Shape
<1>7. ChildChanged(t, t1, n, c, p)
  BY <1>1, <1>2, <1>5, ChangeChildFields
<1> HIDE DEF t1
<1>8. ParentColorSet(t1, t2, c, p, t.color[n])
  <2>1. t1 \in Tree /\ t.color[n] \in Colour
    BY <1>1, <1>2, <1>7, Fields DEF ChildChanged
  <2> QED BY <1>2, <1>5, <2>1, SetParentColorFields
<1> HIDE DEF t2
<1>9. r = Forget(t2, n)
  BY <1>4
<1>10. /\ t2 \in Tree /\ t2.rb_node = IF p = NULL THEN c ELSE t.rb_node
       /\ \A m \in Slot :
            /\ \A s \in Side : t2[s][m] = IF t[s][m] = n THEN c ELSE t[s][m]
            /\ t2.parent[m] = IF m = c THEN p ELSE t.parent[m]
            /\ t2.color[m] = IF m = c THEN t.color[n] ELSE t.color[m]
  BY <1>2, <1>7, <1>8 DEF ChildChanged, ParentColorSet
<1>11. /\ r \in Tree /\ r.rb_node = t2.rb_node
       /\ \A m \in Slot :
            /\ \A s \in Side : r[s][m] = IF m = n THEN NULL ELSE t2[s][m]
            /\ r.parent[m] = IF m = n THEN NULL ELSE t2.parent[m]
            /\ r.color[m] = IF m = n THEN "red" ELSE t2.color[m]
  BY <1>2, <1>9, <1>10, ForgetFields
<1>12. Spliced(t, r, n, c)
  BY <1>2, <1>10, <1>11 DEF Spliced, p
<1>13. SpliceColours(t, r, n, c)
  BY <1>5, <1>10, <1>11, SlotAssumption DEF SpliceColours
<1>14. \E bh2, sd : Pending(r, SplicedBelow(below, n), bh2, MissingAt(t, n, c), sd)
  BY <1>3, <1>11, <1>12, <1>13, SpliceKeeps
<1>15. SplicedBelow(below, n)[r.rb_node] = below[t.rb_node] \ {n}
  BY <1>1, <1>3, <1>11, <1>12, SpliceShape
<1> QED BY <1>4, <1>14, <1>15

\* n has two children, l and q; its successor s is the leftmost node below q.
Successor(t, n, l, q, s, d, p, up) ==
  /\ t \in Tree /\ n \in Slot /\ l \in Slot /\ q \in Slot /\ s \in Slot
  /\ d \in Link /\ p \in Link /\ up \in Slot
  /\ t["rb_left"][n] = l /\ t["rb_right"][n] = q
  /\ t["rb_left"][s] = NULL /\ t["rb_right"][s] = d
  /\ t.parent[n] = p /\ t.parent[l] = n /\ t.parent[q] = n
  /\ n \notin {l, q, s, d, p} /\ l \notin {q, s, d, p} /\ s \notin {d, p} /\ d # q
  /\ t.rb_node # s
  /\ IF s = q THEN up = s
     ELSE /\ up = t.parent[s] /\ t["rb_left"][up] = s /\ up \notin {n, s, p}

\* Where the successor is in the order.
Succeeds(t, below, n, l, q, s) ==
  /\ s \in below[q] /\ Before("rb_right", s, n)
  /\ \A x \in below[l] : Before("rb_left", x, s)
  /\ \A x \in below[q] : x = s \/ Before("rb_right", x, s)
  /\ n \notin below[s] /\ below[s] \subseteq below[q] /\ below[q] \subseteq below[n]
  /\ below[n] = {n} \cup below[l] \cup below[q]

LEMMA SuccessorIs ==
  ASSUME NEW t, NEW below, Shape(t, below), NEW n \in below[t.rb_node],
         NEW l, l = t["rb_left"][n], NEW q, q = t["rb_right"][n], l # NULL, q # NULL,
         NEW s, s = Leftmost(t, q), NEW d, d = t["rb_right"][s], NEW p, p = t.parent[n],
         NEW up, up = IF s = q THEN s ELSE t.parent[s]
  PROVE  Successor(t, n, l, q, s, d, p, up) /\ Succeeds(t, below, n, l, q, s)
<1>1. t \in Tree /\ Ordered(t, below) /\ Linked(t, below)
  BY DEF Shape
<1>2. /\ n \in Slot /\ n # NULL /\ n \in Link /\ p \in Link /\ p # n
      /\ p # NULL => p \in Slot /\ \E z \in Side : t[z][p] = n
  BY HeldBy
<1>3. /\ "rb_left" \in Side /\ "rb_right" \in Side
      /\ Opposite("rb_left") = "rb_right" /\ Opposite("rb_right") = "rb_left"
  BY DEF Side, Opposite
<1>4. /\ l \in Slot /\ l # n /\ t.parent[l] = n /\ l # q /\ n \notin below[l]
      /\ t["rb_left"][l] \notin {n, l} /\ t["rb_right"][l] \notin {n, l}
  BY <1>2, <1>3, Distinct
<1>5. /\ q \in Slot /\ q # n /\ t.parent[q] = n /\ n \notin below[q]
      /\ t["rb_left"][q] \notin {n, q} /\ t["rb_right"][q] \notin {n, q}
  BY <1>2, <1>3, Distinct
<1>6. /\ s \in below[q] /\ t["rb_left"][s] = NULL
      /\ \A x \in below[q] : x = s \/ Before("rb_left", s, x)
      /\ s # q => t["rb_left"][t.parent[s]] = s /\ t.parent[s] \in below[q]
  <2>1. s = Furthest(t, q, "rb_left")
    BY <1>1, LeftmostIs
  <2> QED BY <1>3, <1>5, <2>1, FurthestIs
<1>7. s \in Slot /\ s # NULL /\ l # NULL /\ q # NULL
  BY <1>1, <1>5, <1>6, SlotAssumption DEF Ordered, Link
<1>8. d \in Link
  BY <1>1, <1>3, <1>7, Fields
<1>9. below[s] \subseteq below[q] /\ below[q] \subseteq below[n] /\ below[l] \subseteq below[n]
  <2>1. below[s] \subseteq below[q]
    BY <1>1, <1>5, <1>6, Transitive
  <2>2. below[q] \subseteq below[n] /\ below[l] \subseteq below[n]
    BY <1>1, <1>2, <1>3, ChildBelow
  <2> QED BY <2>1, <2>2
<1>10. below[n] = {n} \cup below[l] \cup below[q]
  BY <1>1, <1>2, <1>3 DEF Ordered
<1>11. ASSUME NEW x \in below[l] PROVE x \in Slot /\ Before("rb_left", x, n) /\ x \notin below[q]
  <2>1. Before("rb_left", x, n) /\ x \in Slot
    BY <1>1, <1>2, <1>3, <1>4, <1>11 DEF Ordered, Link
  <2>2. ASSUME x \in below[q] PROVE FALSE
    <3>1. Before("rb_right", x, n)
      BY <1>1, <1>2, <1>3, <2>2 DEF Ordered
    <3> QED BY <1>2, <1>3, <2>1, <3>1, Strict
  <2> QED BY <2>1, <2>2
<1>12. Before("rb_right", s, n)
  BY <1>1, <1>2, <1>3, <1>6 DEF Ordered
<1>13. \A x \in below[l] : Before("rb_left", x, s)
  <2>1. Before("rb_left", n, s)
    BY <1>2, <1>3, <1>7, <1>12, Strict
  <2> QED BY <1>2, <1>3, <1>7, <1>11, <2>1, Strict
<1>14. \A x \in below[q] : x = s \/ Before("rb_right", x, s)
  <2>1. \A x \in below[q] : x \in Slot
    BY <1>1, <1>5 DEF Ordered, Link
  <2> QED BY <1>3, <1>6, <1>7, <2>1, Strict
<1>15. /\ l \in below[l] /\ q \in below[q] /\ s \in below[s] /\ n \in below[n]
       /\ d # s /\ s \notin below[d] /\ below[d] \subseteq below[s]
       /\ d # NULL => d \in below[d]
  <2>1. l \in below[l] /\ q \in below[q] /\ s \in below[s] /\ n \in below[n]
    BY <1>1, <1>2, <1>3, <1>4, <1>5, <1>7, ChildBelow
  <2>2. d # s /\ s \notin below[d] /\ below[d] \subseteq below[s]
    BY <1>1, <1>3, <1>7, ChildBelow
  <2>3. d # NULL => d \in below[d]
    BY <1>1, <1>3, <1>8, ChildBelow DEF Link
  <2> QED BY <2>1, <2>2, <2>3
<1>16. n \notin {l, q, s, d, p}
  BY <1>2, <1>4, <1>5, <1>6, <1>9, <1>15
<1>17. l \notin {q, s, d}
  BY <1>4, <1>6, <1>7, <1>9, <1>11, <1>15
<1>18. d # q
  <2>1. CASE s = q
    BY <1>15, <2>1
  <2>2. CASE s # q
    <3>1. ASSUME d = q PROVE FALSE
      <4>1. t.parent[d] = s
        <5>1. t["rb_right"][s] # NULL
          BY <1>7, <3>1
        <5> QED BY <1>3, <1>7, <5>1, Distinct
      <4> QED BY <1>5, <1>16, <3>1, <4>1
    <3> QED BY <3>1
  <2> QED BY <2>1, <2>2
<1>19. p \notin below[n] /\ t.rb_node # s
  <2>1. p \notin below[n]
    <3>1. CASE p = NULL
      BY <1>1, <1>2, <3>1, SlotAssumption DEF Ordered
    <3>2. CASE p # NULL
      BY <1>2, <3>2, Distinct
    <3> QED BY <3>1, <3>2
  <2>2. t.parent[s] # NULL
    <3>1. CASE s = q
      BY <1>2, <1>5, <3>1
    <3>2. CASE s # q
      <4>1. t.parent[s] \in Slot
        BY <1>1, <1>5, <1>6, <3>2 DEF Ordered, Link
      <4> QED BY <4>1, SlotAssumption
    <3> QED BY <3>1, <3>2
  <2>3. t.rb_node # s
    BY <1>1, <1>7, <2>2 DEF Linked
  <2> QED BY <2>1, <2>3
<1>20. l # p /\ s # p
  BY <1>6, <1>9, <1>15, <1>19
<1>21. /\ up \in Slot
       /\ IF s = q THEN up = s
          ELSE /\ up = t.parent[s] /\ t["rb_left"][up] = s /\ up \notin {n, s, p}
  <2>1. CASE s = q
    BY <1>7, <2>1
  <2>2. CASE s # q
    <3>1. up = t.parent[s] /\ t["rb_left"][up] = s /\ up \in below[q]
      BY <1>6, <2>2
    <3>2. up \in Slot
      BY <1>1, <1>5, <3>1 DEF Ordered, Link
    <3>3. up # n /\ up # p
      BY <1>5, <1>9, <1>19, <3>1
    <3>4. up # s
      BY <1>1, <1>3, <1>7, <3>1, ChildBelow
    <3> QED BY <2>2, <3>1, <3>2, <3>3, <3>4
  <2> QED BY <2>1, <2>2
<1>22. Successor(t, n, l, q, s, d, p, up)
  BY <1>1, <1>2, <1>4, <1>5, <1>6, <1>7, <1>8, <1>15, <1>16, <1>17, <1>18, <1>19, <1>20, <1>21
     DEF Successor
<1>23. Succeeds(t, below, n, l, q, s)
  <2>1. n \notin below[s]
    BY <1>5, <1>9
  <2> QED BY <1>6, <1>9, <1>10, <1>12, <1>13, <1>14, <2>1 DEF Succeeds
<1> QED BY <1>22, <1>23

\* What the last writes of EraseTwoChildren make of a tree u.
TwoErased(u, r, n, l, s, d, p, up, col) ==
  /\ r \in Tree /\ r.rb_node = IF p = NULL THEN s ELSE u.rb_node
  /\ \A m \in Slot :
       /\ r["rb_left"][m] = IF m = n THEN NULL ELSE IF m = s THEN l
                            ELSE IF m = p /\ u["rb_left"][m] = n THEN s ELSE u["rb_left"][m]
       /\ r["rb_right"][m] = IF m = n THEN NULL
                             ELSE IF m = p /\ u["rb_right"][m] = n THEN s ELSE u["rb_right"][m]
       /\ r.parent[m] = IF m = n THEN NULL ELSE IF m = s THEN p ELSE IF m = d THEN up
                        ELSE IF m = l THEN s ELSE u.parent[m]
       /\ r.color[m] = IF m = n THEN "red" ELSE IF m = s THEN col
                       ELSE IF m = d THEN "black" ELSE u.color[m]

LEMMA TwoErasedIs ==
  ASSUME NEW u \in Tree, NEW n \in Slot, NEW l \in Slot, NEW s \in Slot, NEW d \in Link,
         NEW p \in Link, NEW up \in Link, NEW col \in Colour, n # s, p # s,
         p # NULL => \E z \in Side : u[z][p] = n /\ u[Opposite(z)][p] # n, NEW r,
         r = Forget(rb_set_parent_color(
                      SetParentColorIfAny(
                        __rb_change_child(rb_set_parent(SetChild(u, s, "rb_left", l), l, s),
                                          n, s, p),
                        d, up, "black"),
                      s, p, col), n)
  PROVE  TwoErased(u, r, n, l, s, d, p, up, col)
<1> DEFINE u1 == SetChild(u, s, "rb_left", l)
           u2 == rb_set_parent(u1, l, s)
           u3 == __rb_change_child(u2, n, s, p)
           u4 == SetParentColorIfAny(u3, d, up, "black")
           u5 == rb_set_parent_color(u4, s, p, col)
<1>1. /\ "rb_left" \in Side /\ "rb_right" \in Side /\ "rb_left" # "rb_right"
      /\ "black" \in Colour /\ n # NULL /\ l # NULL /\ s # NULL
      /\ n \in Link /\ l \in Link /\ s \in Link
  BY SlotAssumption DEF Side, Colour, Link
<1>2. r = Forget(u5, n)
  OBVIOUS
<1>3. ChildSet(u, u1, s, "rb_left", l)
  BY <1>1, SetChildFields
<1> HIDE DEF u1
<1>4. ParentSet(u1, u2, l, s)
  <2>1. u1 \in Tree
    BY <1>3 DEF ChildSet
  <2> QED BY <1>1, <2>1, SetParentFields
<1> HIDE DEF u2
<1>5. /\ u2 \in Tree /\ u2.rb_node = u.rb_node
      /\ \A m \in Slot :
           /\ \A z \in Side : u2[z][m] = IF m = s /\ z = "rb_left" THEN l ELSE u[z][m]
           /\ u2.parent[m] = IF m = l THEN s ELSE u.parent[m]
           /\ u2.color[m] = u.color[m]
  BY <1>3, <1>4 DEF ChildSet, ParentSet
<1>6. ChildChanged(u2, u3, n, s, p)
  <2>1. ASSUME p # NULL PROVE \E z \in Side : u2[z][p] = n /\ u2[Opposite(z)][p] # n
    <3>1. p \in Slot
      BY <2>1 DEF Link
    <3>2. \A z \in Side : u2[z][p] = u[z][p]
      BY <1>5, <3>1
    <3> QED BY <2>1, <3>2, Sides
  <2> QED BY <1>1, <1>5, <2>1, ChangeChildFields
<1> HIDE DEF u3
<1>7. ParentColorSet(u3, u4, d, up, "black")
  <2>1. u3 \in Tree
    BY <1>6 DEF ChildChanged
  <2> QED BY <1>1, <2>1, SetParentColorFields
<1> HIDE DEF u4
<1>8. ParentColorSet(u4, u5, s, p, col)
  <2>1. u4 \in Tree
    BY <1>7 DEF ParentColorSet
  <2> QED BY <1>1, <2>1, SetParentColorFields
<1> HIDE DEF u5
<1>9. /\ u5 \in Tree /\ u5.rb_node = IF p = NULL THEN s ELSE u.rb_node
      /\ \A m \in Slot :
           /\ \A z \in Side : u5[z][m] = IF m = p /\ u2[z][m] = n THEN s ELSE u2[z][m]
           /\ u5.parent[m] = IF m = s THEN p ELSE IF m = d THEN up ELSE u2.parent[m]
           /\ u5.color[m] = IF m = s THEN col ELSE IF m = d THEN "black" ELSE u2.color[m]
  BY <1>5, <1>6, <1>7, <1>8 DEF ChildChanged, ParentColorSet
<1>10. /\ r \in Tree /\ r.rb_node = u5.rb_node
       /\ \A m \in Slot :
            /\ \A z \in Side : r[z][m] = IF m = n THEN NULL ELSE u5[z][m]
            /\ r.parent[m] = IF m = n THEN NULL ELSE u5.parent[m]
            /\ r.color[m] = IF m = n THEN "red" ELSE u5.color[m]
  <2>1. u5 \in Tree /\ n \in Slot
    BY <1>9
  <2>2. /\ Forget(u5, n) \in Tree /\ Forget(u5, n).rb_node = u5.rb_node
        /\ \A m \in Slot :
             /\ \A z \in Side : Forget(u5, n)[z][m] = IF m = n THEN NULL ELSE u5[z][m]
             /\ Forget(u5, n).parent[m] = IF m = n THEN NULL ELSE u5.parent[m]
             /\ Forget(u5, n).color[m] = IF m = n THEN "red" ELSE u5.color[m]
    BY ONLY <2>1, ForgetFields
  <2> QED BY ONLY <1>2, <2>2
<1>11. \A m \in Slot :
         r["rb_left"][m] = IF m = n THEN NULL ELSE IF m = s THEN l
                           ELSE IF m = p /\ u["rb_left"][m] = n THEN s ELSE u["rb_left"][m]
  <2>1. \A m \in Slot : u2["rb_left"][m] = IF m = s THEN l ELSE u["rb_left"][m]
    BY <1>1, <1>5
  <2>2. \A m \in Slot : r["rb_left"][m] = IF m = n THEN NULL ELSE
                           IF m = p /\ u2["rb_left"][m] = n THEN s ELSE u2["rb_left"][m]
    BY <1>1, <1>9, <1>10
  <2> QED BY <2>1, <2>2
<1>12. \A m \in Slot :
         r["rb_right"][m] = IF m = n THEN NULL
                            ELSE IF m = p /\ u["rb_right"][m] = n THEN s ELSE u["rb_right"][m]
  <2>1. \A m \in Slot : u2["rb_right"][m] = u["rb_right"][m]
    BY <1>1, <1>5
  <2>2. \A m \in Slot : r["rb_right"][m] = IF m = n THEN NULL ELSE
                           IF m = p /\ u2["rb_right"][m] = n THEN s ELSE u2["rb_right"][m]
    BY <1>1, <1>9, <1>10
  <2> QED BY <2>1, <2>2
<1>13. \A m \in Slot :
         /\ r.parent[m] = IF m = n THEN NULL ELSE IF m = s THEN p ELSE IF m = d THEN up
                          ELSE IF m = l THEN s ELSE u.parent[m]
         /\ r.color[m] = IF m = n THEN "red" ELSE IF m = s THEN col
                         ELSE IF m = d THEN "black" ELSE u.color[m]
  BY <1>5, <1>9, <1>10
<1> QED BY <1>9, <1>10, <1>11, <1>12, <1>13 DEF TwoErased

\* EraseTwoChildren is the removal of the successor, which then takes the
\* place of the node.
LEMMA EraseTwoIs ==
  ASSUME NEW t, NEW below, Shape(t, below), NEW n \in below[t.rb_node],
         NEW l, NEW q, NEW s, NEW d, NEW p, NEW up, Successor(t, n, l, q, s, d, p, up),
         NEW v \in Tree, Spliced(t, v, s, d), SpliceColours(t, v, s, d),
         NEW u \in Tree, u.rb_node = t.rb_node,
         \A m \in Slot :
           /\ u["rb_left"][m] = IF s # q /\ m = up THEN d ELSE t["rb_left"][m]
           /\ u["rb_right"][m] = IF s # q /\ m = s THEN q ELSE t["rb_right"][m]
           /\ u.parent[m] = IF s # q /\ m = q THEN s ELSE t.parent[m]
           /\ u.color[m] = t.color[m],
         NEW r, TwoErased(u, r, n, l, s, d, p, up, t.color[n])
  PROVE  r \in Tree /\ Substituted(v, r, n, s) /\ SubstituteColours(v, r, n, s)
<1>1. /\ t \in Tree /\ n \in Slot /\ l \in Slot /\ q \in Slot /\ s \in Slot
      /\ d \in Link /\ p \in Link /\ up \in Slot
      /\ t["rb_left"][n] = l /\ t["rb_right"][n] = q
      /\ t["rb_left"][s] = NULL /\ t["rb_right"][s] = d
      /\ t.parent[n] = p /\ t.parent[l] = n /\ t.parent[q] = n
      /\ n \notin {l, q, s, d, p} /\ l \notin {q, s, d, p} /\ s \notin {d, p} /\ d # q
      /\ t.rb_node # s
  BY DEF Successor
<1>2. /\ s = q => up = s
      /\ s # q => up = t.parent[s] /\ t["rb_left"][up] = s /\ up \notin {n, s, p}
  BY DEF Successor
<1>3. NULL \notin {n, l, q, s, up} /\ \A z \in Side : z = "rb_left" \/ z = "rb_right"
  BY <1>1, SlotAssumption DEF Side
<1>4. /\ p = NULL <=> t.rb_node = n
      /\ \A m \in Slot : \A z \in Side : t[z][m] = n => m = p
      /\ \A m \in Slot : t.parent[m] = n => m = l \/ m = q
  <2>1. /\ p = NULL <=> t.rb_node = n
        /\ \A m \in Slot : \A z \in Side : t[z][m] = n => m = p
        /\ \A m \in Slot : t.parent[m] = n => \E z \in Side : t[z][n] = m
    BY <1>1, HeldBy
  <2> QED BY <1>1, <1>3, <2>1
<1>5. \A m \in Slot : \A z \in Side : t[z][m] = s => m = t.parent[s]
  BY <1>1, <1>3 DEF Shape, Linked
<1>6. s # q => t["rb_right"][up] # s
  <2>1. "rb_left" \in Side /\ Opposite("rb_left") = "rb_right"
    BY DEF Side, Opposite
  <2> QED BY <1>1, <1>2, <1>3, <2>1, Distinct
<1>7. "rb_left" \in Side /\ "rb_right" \in Side
  BY DEF Side
<1>8. /\ v.rb_node = t.rb_node
      /\ \A m \in Slot :
           /\ \A z \in Side : v[z][m] = IF m = s THEN NULL
                                        ELSE IF t[z][m] = s THEN d ELSE t[z][m]
           /\ v.parent[m] = IF m = s THEN NULL
                            ELSE IF m = d THEN t.parent[s] ELSE t.parent[m]
           /\ v.color[m] = IF m = s THEN "red" ELSE IF m = d THEN "black" ELSE t.color[m]
  BY <1>1 DEF Spliced, SpliceColours
<1>9. /\ r \in Tree /\ r.rb_node = IF p = NULL THEN s ELSE u.rb_node
      /\ \A m \in Slot :
           /\ r["rb_left"][m] = IF m = n THEN NULL ELSE IF m = s THEN l
                                ELSE IF m = p /\ u["rb_left"][m] = n THEN s ELSE u["rb_left"][m]
           /\ r["rb_right"][m] = IF m = n THEN NULL
                                 ELSE IF m = p /\ u["rb_right"][m] = n THEN s
                                 ELSE u["rb_right"][m]
           /\ r.parent[m] = IF m = n THEN NULL ELSE IF m = s THEN p ELSE IF m = d THEN up
                            ELSE IF m = l THEN s ELSE u.parent[m]
           /\ r.color[m] = IF m = n THEN "red" ELSE IF m = s THEN t.color[n]
                           ELSE IF m = d THEN "black" ELSE u.color[m]
  BY DEF TwoErased
<1>10. ASSUME NEW m \in Slot
       PROVE  r["rb_left"][m] = IF m = s THEN v["rb_left"][n] ELSE IF m = n THEN NULL
                                ELSE IF v["rb_left"][m] = n THEN s ELSE v["rb_left"][m]
  <2>1. v["rb_left"][n] = l
    BY <1>1, <1>7, <1>8
  <2>2. CASE m = s
    BY <1>1, <1>9, <2>1, <2>2
  <2>3. CASE m = n
    BY <1>1, <1>9, <2>3
  <2>4. CASE m \notin {s, n}
    <3>1. v["rb_left"][m] = IF t["rb_left"][m] = s THEN d ELSE t["rb_left"][m]
      BY <1>7, <1>8, <2>4
    <3>2. CASE s = q
      <4>1. t["rb_left"][m] # s
        BY <1>1, <1>5, <1>7, <2>4, <3>2
      <4>2. u["rb_left"][m] = t["rb_left"][m]
        BY <3>2
      <4> QED BY <1>4, <1>7, <1>9, <2>4, <3>1, <4>1, <4>2
    <3>3. CASE s # q
      <4>1. t["rb_left"][m] = s <=> m = up
        BY <1>2, <1>5, <1>7, <3>3
      <4>2. u["rb_left"][m] = v["rb_left"][m]
        BY <3>1, <3>3, <4>1
      <4>3. v["rb_left"][m] = n => m = p
        BY <1>1, <1>4, <1>7, <3>1
      <4> QED BY <1>9, <2>4, <4>2, <4>3
    <3> QED BY <3>2, <3>3
  <2> QED BY <2>2, <2>3, <2>4
<1>11. ASSUME NEW m \in Slot
       PROVE  r["rb_right"][m] = IF m = s THEN v["rb_right"][n] ELSE IF m = n THEN NULL
                                 ELSE IF v["rb_right"][m] = n THEN s ELSE v["rb_right"][m]
  <2>1. v["rb_right"][n] = IF s = q THEN d ELSE q
    BY <1>1, <1>7, <1>8
  <2>2. CASE m = s
    <3>1. u["rb_right"][s] = IF s = q THEN d ELSE q
      BY <1>1
    <3> QED BY <1>1, <1>9, <2>1, <2>2, <3>1
  <2>3. CASE m = n
    BY <1>1, <1>9, <2>3
  <2>4. CASE m \notin {s, n}
    <3>1. v["rb_right"][m] = IF t["rb_right"][m] = s THEN d ELSE t["rb_right"][m]
      BY <1>7, <1>8, <2>4
    <3>2. t["rb_right"][m] # s
      BY <1>1, <1>2, <1>5, <1>6, <1>7, <2>4
    <3>3. u["rb_right"][m] = t["rb_right"][m]
      BY <2>4
    <3> QED BY <1>4, <1>7, <1>9, <2>4, <3>1, <3>2, <3>3
  <2> QED BY <2>2, <2>3, <2>4
<1>12. ASSUME NEW m \in Slot
       PROVE  r.parent[m] = IF m = s THEN v.parent[n] ELSE IF m = n THEN NULL
                            ELSE IF v.parent[m] = n THEN s ELSE v.parent[m]
  <2>1. v.parent[n] = p
    BY <1>1, <1>8
  <2>2. CASE m \in {s, n}
    BY <1>1, <1>9, <2>1, <2>2
  <2>3. CASE m = d
    <3>1. v.parent[m] = t.parent[s] /\ r.parent[m] = up /\ m \notin {s, n}
      BY <1>1, <1>8, <1>9, <2>3
    <3>2. CASE s = q
      BY <1>1, <1>2, <3>1, <3>2
    <3>3. CASE s # q
      BY <1>2, <3>1, <3>3
    <3> QED BY <3>2, <3>3
  <2>4. CASE m = l
    BY <1>1, <1>8, <1>9, <2>4
  <2>5. CASE m \notin {s, n, d, l}
    <3>1. v.parent[m] = t.parent[m] /\ r.parent[m] = u.parent[m]
      BY <1>8, <1>9, <2>5
    <3> QED BY <1>1, <1>4, <2>5, <3>1
  <2> QED BY <2>2, <2>3, <2>4, <2>5
<1>13. Substituted(v, r, n, s)
  <2>1. r.rb_node = IF v.rb_node = n THEN s ELSE v.rb_node
    BY <1>4, <1>8, <1>9
  <2>2. \A m \in Slot : \A z \in Side :
          r[z][m] = IF m = s THEN v[z][n] ELSE IF m = n THEN NULL
                    ELSE IF v[z][m] = n THEN s ELSE v[z][m]
    BY <1>3, <1>10, <1>11
  <2> QED BY <1>12, <2>1, <2>2 DEF Substituted
<1>14. SubstituteColours(v, r, n, s)
  BY <1>1, <1>8, <1>9 DEF SubstituteColours
<1> QED BY <1>9, <1>13, <1>14

\* A node with two children is removed.
LEMMA EraseTwoEnds ==
  ASSUME NEW t, NEW below, NEW bh, Finished(t, below, bh), NEW n \in below[t.rb_node],
         NULL \notin {t.rb_left[n], t.rb_right[n]}, NEW r,
         r = Forget(EraseTwoChildren(t, n).tree, n)
  PROVE  \E below2, bh2, sd : /\ Pending(r, below2, bh2, EraseTwoChildren(t, n).rebalance, sd)
                              /\ below2[r.rb_node] = below[t.rb_node] \ {n}
<1> DEFINE l == t.rb_left[n]
           q == t.rb_right[n]
           s == Leftmost(t, q)
           d == t.rb_right[s]
           p == t.parent[n]
           up == IF s = q THEN s ELSE t.parent[s]
           u1 == SetChild(t, up, "rb_left", d)
           u2 == SetChild(u1, s, "rb_right", q)
           u3 == rb_set_parent(u2, q, s)
           u == IF s = q THEN t ELSE u3
           last == rb_set_parent_color(
                     SetParentColorIfAny(
                       __rb_change_child(rb_set_parent(SetChild(u, s, "rb_left", l), l, s),
                                         n, s, p),
                       d, up, "black"),
                     s, p, t.color[n])
           missing == IF d = NULL /\ t.color[s] = "black" THEN up ELSE NULL
<1>1. EraseTwoChildren(t, n).tree = last /\ EraseTwoChildren(t, n).rebalance = missing
  BY DEF EraseTwoChildren
<1>2. Shape(t, below) /\ t \in Tree /\ t.rb_left = t["rb_left"] /\ t.rb_right = t["rb_right"]
  BY Fields DEF Finished, Shape
<1>3. Successor(t, n, l, q, s, d, p, up) /\ Succeeds(t, below, n, l, q, s)
  <2>1. /\ l = t["rb_left"][n] /\ q = t["rb_right"][n] /\ l # NULL /\ q # NULL
        /\ s = Leftmost(t, q) /\ d = t["rb_right"][s] /\ p = t.parent[n]
        /\ up = IF s = q THEN s ELSE t.parent[s]
    BY <1>2
  <2> HIDE DEF l, q, s, d, p, up
  <2> QED BY <1>2, <2>1, SuccessorIs
<1>4. r = Forget(last, n)
  BY <1>1
<1>5. up = s \/ s # q
  OBVIOUS
<1> HIDE DEF l, q, s, d, p, up
<1>6. /\ n \in Slot /\ l \in Slot /\ q \in Slot /\ s \in Slot
      /\ d \in Link /\ p \in Link /\ up \in Slot
      /\ t["rb_left"][s] = NULL /\ t["rb_right"][s] = d
      /\ t["rb_left"][n] = l /\ t["rb_right"][n] = q
      /\ n \notin {l, q, s, d, p} /\ l \notin {q, s, d, p} /\ s \notin {d, p} /\ d # q
      /\ s = q => up = s
      /\ s # q => up = t.parent[s] /\ t["rb_left"][up] = s /\ up \notin {n, s, p}
      /\ t.parent[n] = p /\ t.parent[q] = n
  BY <1>3 DEF Successor
<1>7. /\ s \in below[q] /\ Before("rb_right", s, n)
      /\ \A x \in below[l] : Before("rb_left", x, s)
      /\ \A x \in below[q] : x = s \/ Before("rb_right", x, s)
      /\ n \notin below[s] /\ below[s] \subseteq below[q] /\ below[q] \subseteq below[n]
      /\ below[n] = {n} \cup below[l] \cup below[q]
  BY <1>3 DEF Succeeds
<1>8. /\ "rb_left" \in Side /\ "rb_right" \in Side /\ "rb_left" # "rb_right"
      /\ Opposite("rb_left") = "rb_right" /\ Opposite("rb_right") = "rb_left"
      /\ NULL \in Link /\ NULL \notin {n, l, q, s, up} /\ q \in Link /\ up \in Link /\ s \in Link
  BY <1>6, SlotAssumption DEF Side, Opposite, Link
<1>9. /\ u \in Tree /\ u.rb_node = t.rb_node
      /\ \A m \in Slot :
           /\ u["rb_left"][m] = IF s # q /\ m = up THEN d ELSE t["rb_left"][m]
           /\ u["rb_right"][m] = IF s # q /\ m = s THEN q ELSE t["rb_right"][m]
           /\ u.parent[m] = IF s # q /\ m = q THEN s ELSE t.parent[m]
           /\ u.color[m] = t.color[m]
  <2>1. CASE s = q
    BY <1>2, <2>1
  <2>2. CASE s # q
    <3>1. ChildSet(t, u1, up, "rb_left", d)
      BY <1>2, <1>6, <1>8, SetChildFields
    <3> HIDE DEF u1
    <3>2. ChildSet(u1, u2, s, "rb_right", q)
      <4>1. u1 \in Tree
        BY <3>1 DEF ChildSet
      <4> QED BY <1>6, <1>8, <4>1, SetChildFields
    <3> HIDE DEF u2
    <3>3. ParentSet(u2, u3, q, s)
      <4>1. u2 \in Tree
        BY <3>2 DEF ChildSet
      <4> QED BY <1>6, <1>8, <4>1, SetParentFields
    <3> HIDE DEF u3
    <3>4. u = u3
      BY <2>2
    <3>5. /\ u3 \in Tree /\ u3.rb_node = t.rb_node
          /\ \A m \in Slot :
               /\ u3["rb_left"][m] = IF m = up THEN d ELSE t["rb_left"][m]
               /\ u3["rb_right"][m] = IF m = s THEN q ELSE t["rb_right"][m]
               /\ u3.parent[m] = IF m = q THEN s ELSE t.parent[m]
               /\ u3.color[m] = t.color[m]
      BY <1>8, <3>1, <3>2, <3>3 DEF ChildSet, ParentSet
    <3> QED BY <2>2, <3>4, <3>5
  <2> QED BY <2>1, <2>2
<1> HIDE DEF u
<1>10. TwoErased(u, r, n, l, s, d, p, up, t.color[n])
  <2>1. t.color[n] \in Colour
    BY <1>2, <1>6, Fields
  <2>2. ASSUME p # NULL PROVE \E z \in Side : u[z][p] = n /\ u[Opposite(z)][p] # n
    <3>1. p \in Slot /\ \E z \in Side : t[z][p] = n /\ t[Opposite(z)][p] # n
      BY <1>2, <1>6, <2>2, HeldBy
    <3>2. u["rb_left"][p] = t["rb_left"][p] /\ u["rb_right"][p] = t["rb_right"][p]
      BY <1>6, <1>9, <3>1
    <3>3. \A z \in Side : u[z][p] = t[z][p]
      BY <3>2 DEF Side
    <3> QED BY <3>1, <3>3, Sides
  <2>3. n # s /\ p # s
    BY <1>6
  <2> QED BY ONLY <1>4, <1>6, <1>8, <1>9, <2>1, <2>2, <2>3, TwoErasedIs DEF last
<1> HIDE DEF last
<1>11. PICK v \in Tree : Spliced(t, v, s, d) /\ SpliceColours(t, v, s, d)
  <2> DEFINE col == [m \in Slot |-> IF m = s THEN "red" ELSE IF m = d THEN "black"
                                    ELSE t.color[m]]
  <2>1. col \in [Slot -> Colour]
    BY <1>2, Fields DEF Colour
  <2>2. ASSUME NEW v, v.color = col PROVE SpliceColours(t, v, s, d)
    BY <2>2 DEF SpliceColours
  <2> HIDE DEF col
  <2>3. \E v \in Tree : Spliced(t, v, s, d) /\ v.color = col
    BY <1>2, <1>6, <2>1, SpliceExists
  <2> QED BY <2>2, <2>3
<1>12. r \in Tree /\ Substituted(v, r, n, s) /\ SubstituteColours(v, r, n, s)
  <2>1. n \in below[t.rb_node]
    OBVIOUS
  <2> QED BY ONLY <1>2, <1>3, <1>9, <1>10, <1>11, <2>1, EraseTwoIs
<1> DEFINE b2 == SplicedBelow(below, s)
<1>13. s \in below[t.rb_node]
  <2>1. \A y \in Slot : \A x \in below[y] : below[x] \subseteq below[y]
    BY <1>2, Transitive DEF Shape
  <2>2. t.rb_node \in Slot
    BY <1>2, Fields DEF Shape, Ordered, Link
  <2> QED BY <1>6, <1>7, <2>1, <2>2
<1>14. PICK bh2, sd : Pending(v, b2, bh2, MissingAt(t, s, d), sd)
  BY <1>6, <1>8, <1>11, <1>13, SpliceKeeps
<1>15. b2[v.rb_node] = below[t.rb_node] \ {s}
  BY <1>2, <1>6, <1>8, <1>11, <1>13, SpliceShape
<1>16. b2[NULL] = {} /\ b2[s] = {s} /\ \A m \in Link \ {s} : b2[m] = below[m] \ {s}
  BY <1>2, <1>8 DEF SplicedBelow, Shape, Ordered
<1> HIDE DEF b2
<1>17. \A m \in Slot : \A z \in Side :
         v[z][m] = IF m = s THEN NULL ELSE IF t[z][m] = s THEN d ELSE t[z][m]
  BY <1>11 DEF Spliced
<1>18. below[d] \subseteq below[s] /\ s \notin below[d]
  BY <1>2, <1>6, <1>8, ChildBelow DEF Shape
<1>19. ASSUME NEW z \in Side, NEW x \in b2[v[z][n]] PROVE Before(z, x, s)
  <2>1. CASE z = "rb_left"
    <3>1. v[z][n] = l
      BY <1>6, <1>17, <2>1
    <3>2. x \in below[l]
      BY <1>6, <1>16, <1>19, <3>1 DEF Link
    <3> QED BY <1>7, <2>1, <3>2
  <2>2. CASE z = "rb_right"
    <3>1. v[z][n] = IF q = s THEN d ELSE q
      BY <1>6, <1>17, <2>2
    <3>2. x \in below[q] \ {s}
      <4>1. CASE q = s
        BY <1>6, <1>7, <1>16, <1>18, <1>19, <3>1, <4>1
      <4>2. CASE q # s
        BY <1>8, <1>16, <1>19, <3>1, <4>2
      <4> QED BY <4>1, <4>2
    <3> QED BY <1>7, <2>2, <3>2
  <2> QED BY <2>1, <2>2 DEF Side
<1>20. ASSUME NEW m \in Slot, NEW z \in Side, n \in b2[v[z][m]] PROVE Before(z, s, m)
  <2>1. m # s
    BY <1>16, <1>17, <1>20
  <2>2. t[z][m] # s
    <3>1. ASSUME t[z][m] = s PROVE FALSE
      BY <1>6, <1>7, <1>16, <1>17, <1>18, <1>20, <2>1, <3>1
    <3> QED BY <3>1
  <2>3. t[z][m] \in Link /\ n \in below[t[z][m]]
    BY <1>2, <1>16, <1>17, <1>20, <2>1, <2>2, Fields
  <2>4. t[z][m] \in Slot
    BY <1>2, <2>3 DEF Shape, Ordered, Link
  <2>5. s \in below[t[z][m]]
    <3>1. \A y \in Slot : \A x \in below[y] : below[x] \subseteq below[y]
      BY <1>2, Transitive DEF Shape
    <3> QED BY <1>7, <2>3, <2>4, <3>1
  <2> QED BY <1>2, <2>5 DEF Shape, Ordered
<1>21. Replaces(v, b2, r, n, s)
  <2>1. n \in b2[v.rb_node] /\ s \in Slot \ b2[v.rb_node]
    BY <1>6, <1>15
  <2>2. Fits(v, b2, n, s)
    BY <1>19, <1>20 DEF Fits
  <2> QED BY <1>12, <2>1, <2>2 DEF Replaces
<1>22. Renamed(MissingAt(t, s, d), missing, n, s)
  <2>1. CASE d = NULL /\ t.color[s] = "black"
    <3>1. MissingAt(t, s, d) = t.parent[s] /\ missing = up
      BY <2>1 DEF MissingAt
    <3>2. s = q => t.parent[s] = n /\ up = s
      BY <1>6
    <3> QED BY <1>6, <3>1, <3>2 DEF Renamed
  <2>2. CASE ~(d = NULL /\ t.color[s] = "black")
    <3>1. MissingAt(t, s, d) = NULL /\ missing = NULL
      BY <2>2 DEF MissingAt
    <3> QED BY <1>8, <3>1 DEF Renamed
  <2> QED BY <2>1, <2>2
<1> HIDE DEF missing
<1>23. \E below2, bh3 : /\ Pending(r, below2, bh3, missing, sd)
                        /\ below2[r.rb_node] = (b2[v.rb_node] \ {n}) \cup {s}
  BY ONLY <1>14, <1>21, <1>22, SubstituteKeeps
<1>24. (b2[v.rb_node] \ {n}) \cup {s} = below[t.rb_node] \ {n}
  BY <1>6, <1>13, <1>15
<1> QED BY <1>1, <1>23, <1>24

\* __rb_erase_augmented removes the node it is given and no other.
LEMMA EraseEnds ==
  ASSUME NEW t, NEW below, NEW bh, Finished(t, below, bh), NEW n \in below[t.rb_node],
         NEW r, r = Forget(__rb_erase_augmented(t, n).tree, n)
  PROVE  \E below2, bh2, sd :
           /\ Pending(r, below2, bh2, __rb_erase_augmented(t, n).rebalance, sd)
           /\ below2[r.rb_node] = below[t.rb_node] \ {n}
<1>1. CASE NULL \in {t.rb_left[n], t.rb_right[n]}
  <2>1. __rb_erase_augmented(t, n) = EraseOneChild(t, n)
    BY <1>1 DEF __rb_erase_augmented
  <2> QED BY <1>1, <2>1, EraseOneEnds
<1>2. CASE NULL \notin {t.rb_left[n], t.rb_right[n]}
  <2>1. __rb_erase_augmented(t, n) = EraseTwoChildren(t, n)
    BY <1>2 DEF __rb_erase_augmented
  <2> QED BY <1>2, <2>1, EraseTwoEnds
<1> QED BY <1>1, <1>2

\* r is t with a red sibling s of p and a black p.
Flipped(t, r, p, sd, s) ==
  /\ s = t[Opposite(sd)][p] /\ r \in Tree /\ SameLinks(t, r)
  /\ \A m \in Slot : r.color[m] = IF m = s THEN "red"
                                  ELSE IF m = p THEN "black" ELSE t.color[m]

\* The sibling turns red; the colour of p is black already, or is made so.
LEMMA FlipFields ==
  ASSUME NEW t, NEW below, NEW bh, NEW p \in Slot, NEW sd \in Side,
         Erasing(t, below, bh, p, sd), NEW s, s = SiblingOf(t, p, sd), NEW flip,
         flip = rb_set_parent_color(t, s, p, "red"), NEW r,
         r = IF rb_is_red(t, p) THEN rb_set_black(flip, p) ELSE flip
  PROVE  Flipped(t, r, p, sd, s)
<1> DEFINE far == Opposite(sd)
           n == t[sd][p]
<1>1. s = t[far][p]
  BY DEF SiblingOf
<1>2. Sibling(t, bh, p, sd, far, s, n)
  BY <1>1, SiblingIs
<1>3. t \in Tree /\ s \in Slot /\ s \in Link /\ s # NULL /\ p \in Link /\ s # p /\ far \in Side
  BY <1>2 DEF Sibling
<1>4. t.parent[s] = p
  BY <1>1, <1>3 DEF Erasing, Shape, Linked
<1>5. ParentColorSet(t, flip, s, p, "red")
  BY <1>3, SetParentColorFields DEF Colour
<1>6. /\ flip \in Tree /\ SameLinks(t, flip)
      /\ \A m \in Slot : flip.color[m] = IF m = s THEN "red" ELSE t.color[m]
  BY <1>4, <1>5 DEF ParentColorSet, SameLinks
<1>7. CASE rb_is_red(t, p)
  <2>1. t.color[p] = "red" /\ flip.color[p] = "red"
    BY <1>3, <1>6, <1>7 DEF rb_is_red
  <2>2. r = [flip EXCEPT !.color[p] = IF @ = "red" THEN "black" ELSE "carry"]
    BY <1>7 DEF rb_set_black
  <2>3. /\ r \in Tree /\ r.rb_node = flip.rb_node /\ r.parent = flip.parent
        /\ r.rb_left = flip.rb_left /\ r.rb_right = flip.rb_right
        /\ r.color = [flip.color EXCEPT ![p] = "black"]
    <3>1. flip \in Tree /\ flip.color[p] = "red" /\ "black" \in Colour
      BY <1>6, <2>1 DEF Colour
    <3> QED BY ONLY <2>2, <3>1 DEF Tree
  <2>4. \A z \in Side : r[z] = flip[z]
    BY <1>6, <2>3, Fields DEF Side
  <2>5. SameLinks(t, r)
    BY <1>6, <2>3, <2>4 DEF SameLinks
  <2>6. \A m \in Slot : r.color[m] = IF m = p THEN "black" ELSE flip.color[m]
    <3>1. flip.color \in [Slot -> Colour]
      BY <1>6, Fields
    <3> QED BY ONLY <2>3, <3>1
  <2> QED BY <1>1, <1>3, <1>6, <2>3, <2>5, <2>6 DEF Flipped
<1>8. CASE ~ rb_is_red(t, p)
  <2>1. r = flip
    BY <1>8
  <2>2. t.color[p] = "black"
    BY <1>3, <1>8, Fields DEF rb_is_red, Colour
  <2> QED BY <1>1, <1>3, <1>6, <2>1, <2>2 DEF Flipped
<1> QED BY <1>7, <1>8

\* The flip ends the loop at a red node or at the root; else it goes on above.
LEMMA FlipStep ==
  ASSUME NEW t, NEW below, NEW bh, NEW p \in Slot, NEW sd \in Side,
         Erasing(t, below, bh, p, sd), NEW s, s = SiblingOf(t, p, sd),
         t.color[s] = "black", BlackNephews(t, p, sd), NEW flip,
         flip = rb_set_parent_color(t, s, p, "red"), NEW r,
         r = IF rb_is_red(t, p) THEN rb_set_black(flip, p) ELSE flip
  PROVE  /\ r.rb_node = t.rb_node
         /\ rb_is_red(t, p) \/ t.parent[p] = NULL => \E bh2 : Finished(r, below, bh2)
         /\ ~ rb_is_red(t, p) /\ t.parent[p] # NULL =>
              /\ t.parent[p] \in Slot
              /\ \E bh2 : \E sd2 \in Side : /\ Erasing(r, below, bh2, t.parent[p], sd2)
                                            /\ r[sd2][t.parent[p]] = p
<1>0. Flipped(t, r, p, sd, s)
  BY FlipFields
<1>1. /\ s = t[Opposite(sd)][p] /\ r \in Tree /\ SameLinks(t, r)
      /\ \A m \in Slot : r.color[m] = IF m = s THEN "red"
                                      ELSE IF m = p THEN "black" ELSE t.color[m]
  BY <1>0 DEF Flipped
<1>2. Shape(t, below) /\ t \in Tree /\ p \in below[t.rb_node] /\ NULL \in Link
  BY DEF Erasing, Shape, Link
<1>3. \A z \in Side : IsBlackOrNull(t, t[z][s])
  BY <1>2, Fields DEF BlackNephews, Side
<1>4. /\ t.parent[p] \in Link
      /\ t.parent[p] # NULL => t.parent[p] \in Slot /\ \E z \in Side : t[z][t.parent[p]] = p
  BY <1>2, HeldBy
<1> DEFINE at == IF t.color[p] = "red" THEN NULL ELSE t.parent[p]
<1>5. at \in Link /\ (at # NULL => at = t.parent[p] /\ \E z \in Side : t[z][at] = p)
  BY <1>2, <1>4
<1>6. PICK sd2 : IF at = NULL THEN sd2 = NULL ELSE sd2 \in Side /\ t[sd2][at] = p
  BY <1>5
<1>7. IF t.color[p] = "red" THEN at = NULL
      ELSE /\ at = t.parent[p]
           /\ at # NULL => sd2 \in Side /\ t[sd2][at] = p
  BY <1>6
<1>8. at = NULL <=> rb_is_red(t, p) \/ t.parent[p] = NULL
  BY DEF rb_is_red
<1>9. at # NULL => at = t.parent[p]
  OBVIOUS
<1> HIDE DEF at
<1>10. /\ Shape(r, below) /\ NoRedPair(r, NULL) /\ IsBlackOrNull(r, p)
       /\ r.rb_node = t.rb_node /\ r.color[r.rb_node] = "black"
       /\ \E bh2 : Balanced(r, bh2, at, sd2)
  BY <1>1, <1>3, <1>5, <1>7, FlipBalance, SMTT(20)
<1>11. PICK bh2 : Balanced(r, bh2, at, sd2)
  BY <1>10
<1>12. CASE at = NULL
  <2>1. Balanced(r, bh2, NULL, NULL)
    BY <1>6, <1>11, <1>12
  <2>2. Finished(r, below, bh2)
    BY <1>10, <2>1 DEF Finished, IsBlackOrNull
  <2> QED BY <1>8, <1>10, <1>12, <2>2
<1>13. CASE at # NULL
  <2>1. at = t.parent[p] /\ sd2 \in Side /\ t[sd2][at] = p /\ at \in Slot
    BY <1>5, <1>6, <1>9, <1>13 DEF Link
  <2>2. r[sd2][at] = p
    BY <1>1, <2>1 DEF SameLinks
  <2>3. at \in below[r.rb_node]
    <3>1. p # NULL
      BY SlotAssumption
    <3> QED BY <1>2, <1>10, <2>1, <3>1, Distinct
  <2>4. Erasing(r, below, bh2, at, sd2)
    BY <1>10, <1>11, <2>2, <2>3 DEF Erasing
  <2> QED BY <1>8, <1>10, <1>13, <2>1, <2>2, <2>4
<1> QED BY <1>12, <1>13

-----------------------------------------------------------------------------
(***************************************************************************)
(* The operations on the tree, up to the certificates                      *)
(***************************************************************************)

\* t is a red-black tree of the slots S.
Balances(t, S) ==
  \E below, bh : Finished(t, below, bh) /\ below[t.rb_node] = S

\* t is such a tree in the loop of __rb_insert, at node n below p.
Inserts(t, S, n, p) ==
  /\ n \in Slot /\ p \in Link
  /\ \E below, bh : Inserting(t, below, bh, n, p) /\ below[t.rb_node] = S

\* t is such a tree in the loop of ____rb_erase_color, at node n below p.
Erases(t, S, n, p) ==
  /\ p \in Slot
  /\ \E below, bh, sd : /\ sd \in Side /\ Erasing(t, below, bh, p, sd)
                        /\ t[sd][p] = n /\ below[t.rb_node] = S

\* The side of n and the tree after case 1.
RecolourStart(t, S, n, p, sd) ==
  /\ p \in Slot /\ sd \in Side
  /\ \E below, bh : /\ Erasing(t, below, bh, p, sd)
                    /\ t[sd][p] = n /\ below[t.rb_node] = S

\* The loop is at a node on the side the code takes it to be on.
LEMMA EraseSide ==
  ASSUME NEW t, NEW S, NEW n, NEW p, Erases(t, S, n, p)
  PROVE  RecolourStart(t, S, n, p, IF n = t.rb_right[p] THEN "rb_right" ELSE "rb_left")
<1>1. PICK below, bh, sd : /\ sd \in Side /\ Erasing(t, below, bh, p, sd)
                           /\ t[sd][p] = n /\ below[t.rb_node] = S
  BY DEF Erases
<1>2. p \in Slot
  BY DEF Erases
<1> DEFINE far == Opposite(sd)
           s == t[far][p]
<1>3. Sibling(t, bh, p, sd, far, s, n)
  BY <1>1, <1>2, SiblingIs
<1>4. s # n /\ t \in Tree
  BY <1>3 DEF Sibling
<1>5. t["rb_right"] = t.rb_right
  BY <1>4, Fields
<1>6. sd = IF n = t.rb_right[p] THEN "rb_right" ELSE "rb_left"
  BY <1>1, <1>4, <1>5 DEF Side, Opposite
<1> QED BY <1>1, <1>2, <1>6 DEF RecolourStart

\* What is left of an iteration after case 1.
LEMMA EraseColorStep ==
  ASSUME NEW t, NEW S, NEW n, NEW p, NEW sd, RecolourStart(t, S, n, p, sd),
         NEW w, w = RedSibling(t, p, sd), NEW flip,
         flip = rb_set_parent_color(w, SiblingOf(w, p, sd), p, "red")
  PROVE  /\ ~ BlackNephews(w, p, sd) =>
              Balances(RotateAndFlip(RotateAtSibling(w, p, sd), p, sd), S)
         /\ BlackNephews(w, p, sd) /\ rb_is_red(w, p) => Balances(rb_set_black(flip, p), S)
         /\ BlackNephews(w, p, sd) /\ ~ rb_is_red(w, p) /\ t.parent[p] = NULL =>
              Balances(flip, S)
         /\ BlackNephews(w, p, sd) /\ ~ rb_is_red(w, p) /\ t.parent[p] # NULL =>
              Erases(flip, S, p, t.parent[p])
<1>1. PICK below, bh : Erasing(t, below, bh, p, sd) /\ below[t.rb_node] = S
  BY DEF RecolourStart
<1>2. p \in Slot /\ sd \in Side
  BY DEF RecolourStart
<1>3. PICK below2, bh2 :
        /\ Erasing(w, below2, bh2, p, sd)
        /\ below2[w.rb_node] = below[t.rb_node]
        /\ w.color[SiblingOf(w, p, sd)] = "black"
        /\ w = t \/ w.color[p] = "red"
  BY <1>1, <1>2, RedSiblingKeeps
<1>4. ASSUME ~ BlackNephews(w, p, sd), NEW r,
             r = RotateAndFlip(RotateAtSibling(w, p, sd), p, sd)
      PROVE  Balances(r, S)
  <2>1. \E below3, bh3 : Finished(r, below3, bh3) /\ below3[r.rb_node] = below2[w.rb_node]
    BY ONLY <1>2, <1>3, <1>4, EraseRotateEnds
  <2> QED BY <1>1, <1>3, <2>1 DEF Balances
<1> DEFINE s == SiblingOf(w, p, sd)
           r == IF rb_is_red(w, p) THEN rb_set_black(flip, p) ELSE flip
<1>5. ASSUME BlackNephews(w, p, sd)
      PROVE  /\ rb_is_red(w, p) \/ w.parent[p] = NULL => Balances(r, S)
             /\ ~ rb_is_red(w, p) /\ w.parent[p] # NULL => Erases(r, S, p, w.parent[p])
  <2>1. w.color[s] = "black" /\ flip = rb_set_parent_color(w, s, p, "red")
    BY <1>3
  <2>2. s = SiblingOf(w, p, sd) /\ r = IF rb_is_red(w, p) THEN rb_set_black(flip, p) ELSE flip
    OBVIOUS
  <2> HIDE DEF s, r
  <2>3. /\ r.rb_node = w.rb_node
        /\ rb_is_red(w, p) \/ w.parent[p] = NULL => \E bh3 : Finished(r, below2, bh3)
        /\ ~ rb_is_red(w, p) /\ w.parent[p] # NULL =>
             /\ w.parent[p] \in Slot
             /\ \E bh3 : \E sd2 \in Side : /\ Erasing(r, below2, bh3, w.parent[p], sd2)
                                           /\ r[sd2][w.parent[p]] = p
    BY ONLY <1>2, <1>3, <1>5, <2>1, <2>2, FlipStep
  <2>4. below2[r.rb_node] = S
    BY <1>1, <1>3, <2>3
  <2>5. rb_is_red(w, p) \/ w.parent[p] = NULL => Balances(r, S)
    BY <2>3, <2>4 DEF Balances
  <2>6. ~ rb_is_red(w, p) /\ w.parent[p] # NULL => Erases(r, S, p, w.parent[p])
    BY <2>3, <2>4 DEF Erases
  <2> QED BY <2>5, <2>6
<1>6. ~ rb_is_red(w, p) => w = t /\ r = flip
  BY <1>3 DEF rb_is_red
<1>7. rb_is_red(w, p) => r = rb_set_black(flip, p)
  OBVIOUS
<1> HIDE DEF r
<1> QED BY <1>4, <1>5, <1>6, <1>7

LEMMA LinkStep ==
  ASSUME NEW t, NEW S, Balances(t, S), NEW w \in Slot, w \notin S,
         \A o \in S : BaseGfn[o] # BaseGfn[w]
  PROVE  /\ t.rb_node = NULL =>
              Inserts(WithRoot(rb_link_node(t, w, NULL), w), S \cup {w}, w, NULL)
         /\ t.rb_node # NULL =>
              LET at == InsertPoint(t, w)
              IN  Inserts(SetChild(rb_link_node(t, w, at[1]), at[1], at[2], w),
                          S \cup {w}, w, at[1])
<1>1. PICK below, bh : Finished(t, below, bh) /\ below[t.rb_node] = S
  BY DEF Balances
<1>2. ASSUME t.rb_node = NULL, NEW r, r = WithRoot(rb_link_node(t, w, NULL), w)
      PROVE  Inserts(r, S \cup {w}, w, NULL)
  <2>1. \E below2, bh2 : /\ Inserting(r, below2, bh2, w, NULL)
                         /\ below2[r.rb_node] = below[t.rb_node] \cup {w}
    BY <1>1, <1>2, RootStarts
  <2> QED BY <1>1, <2>1 DEF Inserts, Link
<1>3. ASSUME t.rb_node # NULL, NEW r,
             LET at == InsertPoint(t, w)
             IN  r = SetChild(rb_link_node(t, w, at[1]), at[1], at[2], w)
      PROVE  Inserts(r, S \cup {w}, w, InsertPoint(t, w)[1])
  <2>1. w \notin below[t.rb_node] /\ \A o \in below[t.rb_node] : BaseGfn[o] # BaseGfn[w]
    BY <1>1
  <2>2. /\ InsertPoint(t, w)[1] \in Slot
        /\ \E below2, bh2 : /\ Inserting(r, below2, bh2, w, InsertPoint(t, w)[1])
                            /\ below2[r.rb_node] = below[t.rb_node] \cup {w}
    BY ONLY <1>1, <1>3, <2>1, w \in Slot, LinkStarts
  <2> QED BY <1>1, <2>2 DEF Inserts, Link
<1> QED BY <1>2, <1>3

LEMMA InsertDoneStep ==
  ASSUME NEW t, NEW S, NEW n, NEW p, Inserts(t, S, n, p), IsBlackOrNull(t, p), NEW r,
         r = IF p = NULL THEN rb_set_parent_color(t, n, NULL, "black") ELSE t
  PROVE  Balances(r, S)
<1>1. PICK below, bh : Inserting(t, below, bh, n, p) /\ below[t.rb_node] = S
  BY DEF Inserts
<1>2. n \in Slot /\ p \in Link
  BY DEF Inserts
<1>3. (\E bh2 : Finished(r, below, bh2)) /\ r.rb_node = t.rb_node
  BY <1>1, <1>2, InsertDoneEnds
<1> QED BY <1>1, <1>3 DEF Balances

\* The parent of a red node that is red has a parent, and hangs from it on the
\* side the code takes it to be on.
LEMMA InsertSide ==
  ASSUME NEW t, NEW S, NEW n, NEW p, Inserts(t, S, n, p), ~ IsBlackOrNull(t, p),
         NEW g, g = t.parent[p], NEW side,
         side = IF p # t.rb_right[g] THEN "rb_left" ELSE "rb_right"
  PROVE  /\ n \in Slot /\ p \in Slot /\ g \in Slot /\ side \in Side /\ t \in Tree
         /\ t.color[p] = "red" /\ t[side][g] = p
<1>1. PICK below, bh : Inserting(t, below, bh, n, p)
  BY DEF Inserts
<1>2. n \in Slot /\ p \in Slot /\ t \in Tree
  BY <1>1 DEF Inserts, Inserting, Shape, Link, IsBlackOrNull
<1>3. t.color[p] = "red"
  BY <1>2, Fields DEF IsBlackOrNull, Colour
<1>4. g \in Slot /\ \E z \in Side : t[z][g] = p
  BY <1>1, <1>2, <1>3, Grandparent
<1>5. t["rb_right"] = t.rb_right
  BY <1>2, Fields
<1>6. side \in Side /\ t[side][g] = p
  BY <1>4, <1>5 DEF Side
<1> QED BY <1>2, <1>3, <1>4, <1>6

LEMMA InsertFlipStep ==
  ASSUME NEW t, NEW S, NEW n, NEW p, Inserts(t, S, n, p), ~ IsBlackOrNull(t, p),
         NEW g, g = t.parent[p], NEW side,
         side = IF p # t.rb_right[g] THEN "rb_left" ELSE "rb_right",
         NEW u, u = t[Opposite(side)][g], ~ IsBlackOrNull(t, u), NEW r,
         r = rb_set_parent_color(rb_set_parent_color(rb_set_parent_color(t, u, g, "black"),
                                                     p, g, "black"),
                                 g, t.parent[g], "red")
  PROVE  Inserts(r, S, g, t.parent[g])
<1>1. PICK below, bh : Inserting(t, below, bh, n, p) /\ below[t.rb_node] = S
  BY DEF Inserts
<1>2. /\ n \in Slot /\ p \in Slot /\ g \in Slot /\ side \in Side /\ t \in Tree
      /\ t.color[p] = "red" /\ t[side][g] = p
  BY InsertSide
<1>3. u \in Slot /\ t.color[u] = "red"
  <2>1. u \in Link /\ u # NULL
    <3>1. Opposite(side) \in Side
      BY <1>2, Sides
    <3> QED BY <1>2, <3>1, Fields DEF IsBlackOrNull
  <2>2. u \in Slot
    BY <2>1 DEF Link
  <2> QED BY <1>2, <2>2, Fields DEF IsBlackOrNull, Colour
<1>4. (\E bh2 : Inserting(r, below, bh2, g, t.parent[g])) /\ r.rb_node = t.rb_node
  <2>1. /\ t[Opposite(side)][g] = u
        /\ r = rb_set_parent_color(
                 rb_set_parent_color(rb_set_parent_color(t, u, g, "black"), p, g, "black"),
                 g, t.parent[g], "red")
    OBVIOUS
  <2> QED BY ONLY <1>1, <1>2, <1>3, <2>1, InsertFlipClimbs
<1>5. t.parent[g] \in Link
  BY <1>2, Fields
<1> QED BY <1>1, <1>2, <1>4, <1>5 DEF Inserts

LEMMA InsertRotateStep ==
  ASSUME NEW t, NEW S, NEW n, NEW p, Inserts(t, S, n, p), ~ IsBlackOrNull(t, p),
         NEW g, g = t.parent[p], NEW side,
         side = IF p # t.rb_right[g] THEN "rb_left" ELSE "rb_right",
         IsBlackOrNull(t, t[Opposite(side)][g]), NEW r,
         r = IF n = t[Opposite(side)][p]
             THEN RotateAtGparent(RotateAtParent(t, n, p, side), g, n, side)
             ELSE RotateAtGparent(t, g, p, side)
  PROVE  Balances(r, S)
<1>1. PICK below, bh : Inserting(t, below, bh, n, p) /\ below[t.rb_node] = S
  BY DEF Inserts
<1>2. /\ n \in Slot /\ p \in Slot /\ g \in Slot /\ side \in Side /\ t \in Tree
      /\ t.color[p] = "red" /\ t[side][g] = p
  BY InsertSide
<1>3. \E below2, bh2 : Finished(r, below2, bh2) /\ below2[r.rb_node] = below[t.rb_node]
  <2>1. /\ IsBlackOrNull(t, t[Opposite(side)][g])
        /\ r = IF n = t[Opposite(side)][p]
               THEN RotateAtGparent(RotateAtParent(t, n, p, side), g, n, side)
               ELSE RotateAtGparent(t, g, p, side)
    OBVIOUS
  <2> QED BY ONLY <1>1, <1>2, <2>1, InsertRotateEnds
<1> QED BY <1>1, <1>3 DEF Balances

LEMMA EraseStep ==
  ASSUME NEW t, NEW S, Balances(t, S), NEW n \in S, NEW p,
         p = __rb_erase_augmented(t, n).rebalance,
         NEW r, r = Forget(__rb_erase_augmented(t, n).tree, n)
  PROVE  /\ p = NULL => Balances(r, S \ {n})
         /\ p # NULL => Erases(r, S \ {n}, NULL, p)
<1>1. PICK below, bh : Finished(t, below, bh) /\ below[t.rb_node] = S
  BY DEF Balances
<1>2. PICK below2, bh2, sd : /\ Pending(r, below2, bh2, p, sd)
                             /\ below2[r.rb_node] = below[t.rb_node] \ {n}
  BY <1>1, EraseEnds
<1> QED BY <1>1, <1>2 DEF Pending, Balances, Erases

LEMMA ReplaceStep ==
  ASSUME NEW t, NEW S, Balances(t, S), NEW o \in S, NEW w \in Slot \ S,
         BaseGfn[o] = BaseGfn[w], NEW r, r = Forget(rb_replace_node(t, o, w), o)
  PROVE  Balances(r, (S \ {o}) \cup {w})
<1>1. PICK below, bh : Finished(t, below, bh) /\ below[t.rb_node] = S
  BY DEF Balances
<1>2. o \in below[t.rb_node] /\ w \in Slot \ below[t.rb_node]
  BY <1>1
<1>3. \E below2, bh2 : /\ Finished(r, below2, bh2)
                       /\ below2[r.rb_node] = (below[t.rb_node] \ {o}) \cup {w}
  BY <1>1, <1>2, ReplaceEnds, SMTT(20)
<1> QED BY <1>1, <1>3 DEF Balances

\* The certificate is the set of nodes the code reaches from the root.
LEMMA NodesAre ==
  ASSUME NEW t, NEW S,
         \/ Balances(t, S)
         \/ \E n, p : Inserts(t, S, n, p)
         \/ \E n, p : Erases(t, S, n, p)
  PROVE  /\ t \in Tree /\ S \in SUBSET Slot /\ Subtree(t, t.rb_node) = S
         /\ \E below : Shape(t, below) /\ below[t.rb_node] = S
<1>1. PICK below : Shape(t, below) /\ below[t.rb_node] = S
  BY DEF Balances, Inserts, Erases, Finished, Inserting, Erasing
<1>2. t \in Tree /\ Ordered(t, below) /\ t.rb_node \in Link
  BY <1>1, Fields DEF Shape
<1>3. S \in SUBSET Slot
  BY <1>1, <1>2 DEF Ordered
<1> QED BY <1>1, <1>2, <1>3, SubtreeIs

-----------------------------------------------------------------------------
(***************************************************************************)
(* What the certificates say of the tree                                   *)
(***************************************************************************)

LEMMA InOrder ==
  ASSUME NEW t, NEW below, Shape(t, below), NEW n \in below[t.rb_node]
  PROVE  /\ \A x \in Subtree(t, t.rb_left[n]) : BaseGfn[x] < BaseGfn[n]
         /\ \A x \in Subtree(t, t.rb_right[n]) : BaseGfn[x] > BaseGfn[n]
         /\ \A side \in Side : t[side][n] # NULL => t.parent[t[side][n]] = n
<1>1. n \in Slot /\ t \in Tree /\ Ordered(t, below) /\ Linked(t, below)
  BY HeldBy DEF Shape
<1>2. "rb_left" \in Side /\ "rb_right" \in Side
  BY DEF Side
<1>3. /\ t.rb_left[n] = t["rb_left"][n] /\ t.rb_right[n] = t["rb_right"][n]
      /\ t["rb_left"][n] \in Link /\ t["rb_right"][n] \in Link
  BY <1>1, <1>2, Fields
<1>4. /\ Subtree(t, t.rb_left[n]) = below[t["rb_left"][n]]
      /\ Subtree(t, t.rb_right[n]) = below[t["rb_right"][n]]
  BY <1>1, <1>3, SubtreeIs
<1>5. ASSUME NEW x \in below[t["rb_left"][n]] PROVE BaseGfn[x] < BaseGfn[n]
  <2>1. Before("rb_left", x, n)
    BY <1>1, <1>2 DEF Ordered
  <2> QED BY <2>1 DEF Before
<1>6. ASSUME NEW x \in below[t["rb_right"][n]] PROVE BaseGfn[x] > BaseGfn[n]
  <2>1. Before("rb_right", x, n)
    BY <1>1, <1>2 DEF Ordered
  <2>2. BaseGfn[n] < BaseGfn[x]
    BY <2>1 DEF Before
  <2>3. x \in Slot
    BY <1>1, <1>3 DEF Ordered
  <2>4. BaseGfn[x] \in Nat /\ BaseGfn[n] \in Nat
    BY <1>1, <2>3, RangeAssumption
  <2> QED BY <2>2, <2>4
<1>7. \A side \in Side : t[side][n] # NULL => t.parent[t[side][n]] = n
  BY <1>1 DEF Linked
<1> QED BY <1>4, <1>5, <1>6, <1>7

\* Only ex may be a red node with a red parent.
LEMMA RedPairs ==
  ASSUME NEW t, NEW below, Shape(t, below), NEW ex, NoRedPair(t, ex)
  PROVE  \A m \in RedRed(t) : m = ex /\ m \in Slot
<1>1. t \in Tree /\ Ordered(t, below) /\ t.rb_node \in Link
  BY Fields DEF Shape
<1>2. Subtree(t, t.rb_node) = below[t.rb_node]
  BY <1>1, SubtreeIs
<1>3. SUFFICES ASSUME NEW m \in RedRed(t), m # ex PROVE FALSE
  <2>1. ASSUME NEW m \in RedRed(t) PROVE m \in Slot
    BY <1>1, <1>2, <2>1 DEF RedRed, Ordered
  <2> QED BY <2>1
<1>4. /\ m \in below[t.rb_node] /\ m # t.rb_node
      /\ t.color[m] = "red" /\ t.color[t.parent[m]] = "red"
  BY <1>2, <1>3 DEF RedRed
<1>5. m # NULL /\ t.parent[m] \in Slot /\ \E s \in Side : t[s][t.parent[m]] = m
  BY <1>4, HeldBy
<1>6. IsBlackOrNull(t, m)
  BY <1>3, <1>4, <1>5 DEF NoRedPair
<1> QED BY <1>4, <1>5, <1>6 DEF IsBlackOrNull

LEMMA OneHeight ==
  ASSUME NEW t, NEW below, NEW bh, Shape(t, below), Balanced(t, bh, NULL, NULL)
  PROVE  Cardinality(BlackHeights(t, t.rb_node)) = 1
<1>1. t \in Tree /\ Ordered(t, below) /\ t.rb_node \in Link
  BY Fields DEF Shape
<1>2. NULL \in Link /\ NULL \notin below[t.rb_node]
  BY <1>1, SlotAssumption DEF Ordered, Link
<1>3. BlackHeights(t, t.rb_node) = {bh[t.rb_node]}
  BY <1>1, <1>2, HeightsAre
<1> QED BY <1>3, FS_Singleton

LEMMA BalancedTree ==
  ASSUME NEW t, NEW S, Balances(t, S)
  PROVE  /\ IsBlackOrNull(t, t.rb_node)
         /\ RedRed(t) = {}
         /\ Cardinality(BlackHeights(t, t.rb_node)) = 1
<1>1. PICK below, bh : Finished(t, below, bh)
  BY DEF Balances
<1>2. /\ Shape(t, below) /\ Balanced(t, bh, NULL, NULL) /\ NoRedPair(t, NULL)
      /\ IsBlackOrNull(t, t.rb_node)
  BY <1>1 DEF Finished
<1>3. Cardinality(BlackHeights(t, t.rb_node)) = 1
  BY <1>2, OneHeight
<1>4. RedRed(t) = {}
  BY <1>2, RedPairs, SlotAssumption
<1> QED BY <1>2, <1>3, <1>4

LEMMA InsertLoop ==
  ASSUME NEW t, NEW S, NEW n, NEW p, Inserts(t, S, n, p)
  PROVE  /\ t.color[n] = "red" /\ t.parent[n] = p
         /\ RedRed(t) \subseteq {n}
         /\ Cardinality(BlackHeights(t, t.rb_node)) = 1
<1>1. PICK below, bh : Inserting(t, below, bh, n, p)
  BY DEF Inserts
<1>2. /\ Shape(t, below) /\ Balanced(t, bh, NULL, NULL) /\ NoRedPair(t, n)
      /\ t.color[n] = "red" /\ t.parent[n] = p
  BY <1>1 DEF Inserting
<1>3. Cardinality(BlackHeights(t, t.rb_node)) = 1
  BY <1>2, OneHeight
<1>4. RedRed(t) \subseteq {n}
  BY <1>2, RedPairs
<1> QED BY <1>2, <1>3, <1>4

LEMMA EraseLoop ==
  ASSUME NEW t, NEW S, NEW n, NEW p, NEW sd, RecolourStart(t, S, n, p, sd)
  PROVE  /\ IsBlackOrNull(t, n) /\ t[sd][p] = n /\ RedRed(t) = {}
         /\ BlackHeights(t, t[Opposite(sd)][p]) = {h + 1 : h \in BlackHeights(t, n)}
         /\ Cardinality(BlackHeights(t, t[Opposite(sd)][p])) = 1
<1>1. PICK below, bh : Erasing(t, below, bh, p, sd) /\ t[sd][p] = n
  BY DEF RecolourStart
<1>2. p \in Slot /\ sd \in Side
  BY DEF RecolourStart
<1>3. /\ Shape(t, below) /\ Balanced(t, bh, p, sd) /\ NoRedPair(t, NULL)
      /\ IsBlackOrNull(t, n) /\ t \in Tree /\ Ordered(t, below)
  BY <1>1 DEF Erasing, Shape
<1>4. RedRed(t) = {}
  BY <1>3, RedPairs, SlotAssumption
<1> DEFINE far == Opposite(sd)
           s == t[far][p]
<1>5. Sibling(t, bh, p, sd, far, s, n)
  BY <1>1, <1>2, SiblingIs
<1>6. far \in Side /\ s \in Link /\ n \in Link /\ p \in Link /\ bh[s] = bh[n] + 1
  BY <1>5 DEF Sibling
<1>7. p \notin below[n] /\ p \notin below[s]
  BY <1>1, <1>2, <1>3, <1>6, ChildBelow
<1> HIDE DEF s
<1>8. BlackHeights(t, n) = {bh[n]} /\ BlackHeights(t, s) = {bh[s]}
  BY <1>2, <1>3, <1>6, <1>7, HeightsAre
<1>9. BlackHeights(t, s) = {h + 1 : h \in BlackHeights(t, n)}
  BY <1>6, <1>8
<1>10. Cardinality(BlackHeights(t, s)) = 1
  BY <1>8, FS_Singleton
<1> QED BY <1>1, <1>3, <1>4, <1>9, <1>10 DEF s

-----------------------------------------------------------------------------
(***************************************************************************)
(* Look-ups                                                                *)
(***************************************************************************)

Disjoint(S) == \A x, y \in S : x = y \/ ~ Overlap(x, y)

\* A member of X, if there is one.
Pick(X) == IF X = {} THEN NULL ELSE CHOOSE x : x \in X

LEMMA PickIs ==
  ASSUME NEW X
  PROVE  /\ X # {} => Pick(X) \in X
         /\ X = {} => Pick(X) = NULL
         /\ \A x : X = {x} => Pick(X) = x
BY DEF Pick

\* Of two slots that do not overlap the lower one ends where the other begins.
LEMMA EndsBefore ==
  ASSUME NEW x \in Slot, NEW y \in Slot, ~ Overlap(x, y), BaseGfn[x] <= BaseGfn[y]
  PROVE  BaseGfn[x] + Npages[x] <= BaseGfn[y]
<1>1. /\ BaseGfn[x] \in Nat /\ BaseGfn[y] \in Nat
      /\ Npages[x] \in Nat \ {0} /\ Npages[y] \in Nat \ {0}
  BY RangeAssumption
<1> QED BY <1>1 DEF Overlap

\* The slots below any node are apart if those of the tree are.
LEMMA DisjointBelow ==
  ASSUME NEW t, NEW below, Shape(t, below), Disjoint(below[t.rb_node]), NEW m \in Slot
  PROVE  Disjoint(below[m])
<1>1. t \in Tree /\ Ordered(t, below) /\ t.rb_node \in Link
  BY Fields DEF Shape
<1>2. CASE m \in below[t.rb_node]
  <2>1. t.rb_node \in Slot
    BY <1>1, <1>2 DEF Ordered, Link
  <2>2. below[m] \subseteq below[t.rb_node]
    BY <1>1, <1>2, <2>1, Transitive
  <2> QED BY <2>2 DEF Disjoint
<1>3. CASE m \notin below[t.rb_node]
  <2>1. below[m] = {m}
    BY <1>3, Outside
  <2> QED BY <2>1 DEF Disjoint
<1> QED BY <1>2, <1>3

\* The order of the nodes below n.
LEMMA BelowIs ==
  ASSUME NEW t, NEW below, Shape(t, below), NEW n \in Slot
  PROVE  LET l == t.rb_left[n]
             r == t.rb_right[n]
         IN  /\ l \in Link /\ r \in Link /\ below[n] = {n} \cup below[l] \cup below[r]
             /\ below[n] \subseteq Slot
             /\ \A x \in below[l] : x \in Slot /\ BaseGfn[x] < BaseGfn[n]
             /\ \A x \in below[r] : x \in Slot /\ BaseGfn[n] < BaseGfn[x]
<1> DEFINE l == t["rb_left"][n]
           r == t["rb_right"][n]
<1>1. t \in Tree /\ Ordered(t, below) /\ "rb_left" \in Side /\ "rb_right" \in Side
  BY DEF Shape, Side
<1>2. l = t.rb_left[n] /\ r = t.rb_right[n] /\ l \in Link /\ r \in Link
  BY <1>1, Fields
<1>3. below[n] = {n} \cup below[l] \cup below[r]
  BY <1>1 DEF Ordered, Opposite
<1>4. below[n] \subseteq Slot
  BY <1>1, ChildBelow
<1>5. ASSUME NEW x \in below[l] PROVE BaseGfn[x] < BaseGfn[n]
  <2>1. Before("rb_left", x, n)
    BY <1>1 DEF Ordered
  <2> QED BY <2>1 DEF Before
<1>6. ASSUME NEW x \in below[r] PROVE BaseGfn[n] < BaseGfn[x]
  <2>1. Before("rb_right", x, n)
    BY <1>1 DEF Ordered
  <2> QED BY <2>1 DEF Before
<1> HIDE DEF l, r
<1> QED BY <1>2, <1>3, <1>4, <1>5, <1>6

Holds(s, gfn) == BaseGfn[s] <= gfn /\ gfn < BaseGfn[s] + Npages[s]

\* Which way the slot that holds a frame lies.
LEMMA HoldsBelow ==
  ASSUME NEW t, NEW below, Shape(t, below), NEW n \in Slot, Disjoint(below[n]),
         NEW gfn \in Nat, NEW Hit, Hit = [m \in Link |-> {s \in below[m] : Holds(s, gfn)}]
  PROVE  /\ gfn < BaseGfn[n] => Hit[n] = Hit[t.rb_left[n]]
         /\ ~(gfn < BaseGfn[n]) /\ gfn < BaseGfn[n] + Npages[n] => Hit[n] = {n}
         /\ ~(gfn < BaseGfn[n]) /\ ~(gfn < BaseGfn[n] + Npages[n]) =>
              Hit[n] = Hit[t.rb_right[n]]
<1> DEFINE l == t.rb_left[n]
           r == t.rb_right[n]
<1>1. /\ l \in Link /\ r \in Link /\ below[n] = {n} \cup below[l] \cup below[r]
      /\ below[n] \subseteq Slot
      /\ \A x \in below[l] : x \in Slot /\ BaseGfn[x] < BaseGfn[n]
      /\ \A x \in below[r] : x \in Slot /\ BaseGfn[n] < BaseGfn[x]
  BY BelowIs
<1>2. \A x \in Slot : BaseGfn[x] \in Nat /\ Npages[x] \in Nat
  BY RangeAssumption
<1>3. n \in Link
  BY DEF Link
<1>4. /\ Hit[n] = {s \in below[n] : Holds(s, gfn)}
      /\ Hit[l] = {s \in below[l] : Holds(s, gfn)}
      /\ Hit[r] = {s \in below[r] : Holds(s, gfn)}
  BY <1>1, <1>3
<1> HIDE DEF l, r
<1>5. \A x \in below[l] : BaseGfn[x] + Npages[x] <= BaseGfn[n]
  <2>1. ASSUME NEW x \in below[l] PROVE BaseGfn[x] + Npages[x] <= BaseGfn[n]
    <3>1. x \in Slot /\ BaseGfn[x] < BaseGfn[n] /\ x \in below[n] /\ n \in below[n]
      BY <1>1
    <3>2. BaseGfn[x] \in Nat /\ BaseGfn[n] \in Nat
      BY <1>2, <3>1
    <3>3. x # n /\ BaseGfn[x] <= BaseGfn[n]
      BY <3>1, <3>2
    <3>4. ~ Overlap(x, n)
      BY <3>1, <3>3 DEF Disjoint
    <3> QED BY <3>1, <3>3, <3>4, EndsBefore
  <2> QED BY <2>1
<1>6. CASE gfn < BaseGfn[n]
  <2>1. \A x \in {n} \cup below[r] : ~ Holds(x, gfn)
    BY <1>1, <1>2, <1>6 DEF Holds
  <2>2. Hit[n] = Hit[l]
    BY <1>1, <1>4, <2>1
  <2> QED BY <1>6, <2>2 DEF l
<1>7. CASE ~(gfn < BaseGfn[n]) /\ gfn < BaseGfn[n] + Npages[n]
  <2>1. Holds(n, gfn)
    BY <1>2, <1>7 DEF Holds
  <2>2. \A x \in below[l] : ~ Holds(x, gfn)
    BY <1>1, <1>2, <1>5, <1>7 DEF Holds
  <2>3. \A x \in below[r] : ~ Holds(x, gfn)
    <3>1. ASSUME NEW x \in below[r] PROVE ~ Holds(x, gfn)
      <4>1. x \in Slot /\ BaseGfn[n] < BaseGfn[x] /\ x \in below[n] /\ n \in below[n]
        BY <1>1
      <4>2. BaseGfn[x] \in Nat /\ BaseGfn[n] \in Nat /\ Npages[n] \in Nat
        BY <1>2, <4>1
      <4>3. x # n /\ BaseGfn[n] <= BaseGfn[x]
        BY <4>1, <4>2
      <4>4. BaseGfn[n] + Npages[n] <= BaseGfn[x]
        BY <4>1, <4>3, EndsBefore DEF Disjoint
      <4> QED BY <1>7, <4>2, <4>4 DEF Holds
    <3> QED BY <3>1
  <2>4. Hit[n] = {n}
    BY <1>1, <1>4, <2>1, <2>2, <2>3
  <2> QED BY <1>7, <2>4
<1>8. CASE ~(gfn < BaseGfn[n]) /\ ~(gfn < BaseGfn[n] + Npages[n])
  <2>1. \A x \in {n} \cup below[l] : ~ Holds(x, gfn)
    BY <1>1, <1>2, <1>5, <1>8 DEF Holds
  <2>2. Hit[n] = Hit[r]
    BY <1>1, <1>4, <2>1
  <2> QED BY <1>8, <2>2 DEF r
<1> QED BY <1>6, <1>7, <1>8

\* search_memslots returns the slot that holds the frame, or NULL.
LEMMA SearchIs ==
  ASSUME NEW t, NEW below, Shape(t, below), Disjoint(below[t.rb_node]), NEW gfn \in Nat
  PROVE  search_memslots(t, gfn) = Pick({s \in below[t.rb_node] : Holds(s, gfn)})
<1> DEFINE F(f) == [n \in Link |->
                      IF n = NULL THEN NULL
                      ELSE IF gfn < BaseGfn[n] THEN f[t.rb_left[n]]
                      ELSE IF gfn < BaseGfn[n] + Npages[n] THEN n
                      ELSE f[t.rb_right[n]]]
           g == CHOOSE f : f = F(f)
           Hit == [m \in Link |-> {s \in below[m] : Holds(s, gfn)}]
           H == [m \in Link |-> Pick(Hit[m])]
<1>1. search_memslots(t, gfn) = g[t.rb_node]
  BY DEF search_memslots
<1>2. t \in Tree /\ Ordered(t, below) /\ t.rb_node \in Link /\ NULL \in Link
  BY Fields DEF Shape, Link
<1>3. Hit[NULL] = {} /\ Hit[t.rb_node] = {s \in below[t.rb_node] : Holds(s, gfn)}
  BY <1>2 DEF Ordered
<1>4. ASSUME NEW n \in Slot
      PROVE  /\ n \in Link /\ n # NULL /\ t.rb_left[n] \in Link /\ t.rb_right[n] \in Link
             /\ gfn < BaseGfn[n] => Hit[n] = Hit[t.rb_left[n]]
             /\ ~(gfn < BaseGfn[n]) /\ gfn < BaseGfn[n] + Npages[n] => Hit[n] = {n}
             /\ ~(gfn < BaseGfn[n]) /\ ~(gfn < BaseGfn[n] + Npages[n]) =>
                  Hit[n] = Hit[t.rb_right[n]]
  <2>1. n \in Link /\ n # NULL
    BY SlotAssumption DEF Link
  <2>2. t.rb_left[n] \in Link /\ t.rb_right[n] \in Link
    BY BelowIs
  <2>3. Disjoint(below[n]) /\ Hit = [m \in Link |-> {s \in below[m] : Holds(s, gfn)}]
    BY DisjointBelow
  <2> HIDE DEF Hit
  <2> QED BY <2>1, <2>2, <2>3, HoldsBelow
<1> HIDE DEF Hit
<1>5. H[NULL] = NULL /\ \A m \in Link : H[m] = Pick(Hit[m])
  BY <1>2, <1>3, PickIs
<1>6. ASSUME NEW n \in Slot
      PROVE  H[n] = IF gfn < BaseGfn[n] THEN H[t.rb_left[n]]
                    ELSE IF gfn < BaseGfn[n] + Npages[n] THEN n
                    ELSE H[t.rb_right[n]]
  BY <1>4, <1>5, PickIs
<1> HIDE DEF H
<1>7. H = F(H)
  <2>1. \A m \in Link : H[m] = F(H)[m]
    <3>1. \A m \in Link : m # NULL => m \in Slot
      BY DEF Link
    <3> QED BY <1>5, <1>6, <3>1
  <2> QED BY <2>1 DEF H
<1>8. g = F(g)
  <2> HIDE DEF F
  <2> QED BY <1>7
<1> HIDE DEF g
<1>9. /\ g[NULL] = NULL
      /\ \A n \in Slot : g[n] = IF gfn < BaseGfn[n] THEN g[t.rb_left[n]]
                                ELSE IF gfn < BaseGfn[n] + Npages[n] THEN n
                                ELSE g[t.rb_right[n]]
  BY <1>8, SlotAssumption DEF Link
<1>10. ASSUME NEW m \in Slot, \A s \in Side : g[t[s][m]] = H[t[s][m]] PROVE g[m] = H[m]
  <2>1. g[t.rb_left[m]] = H[t.rb_left[m]] /\ g[t.rb_right[m]] = H[t.rb_right[m]]
    BY <1>2, <1>10, Fields DEF Side
  <2> QED BY <1>6, <1>9, <2>1
<1>11. \A m \in Link : g[m] = H[m]
  BY <1>2, <1>5, <1>9, <1>10, SameFunction
<1> QED BY <1>1, <1>2, <1>3, <1>5, <1>11

\* The members of A nearest to where the walk in the direction of side starts.
Nearest(side, A) == {x \in A : \A y \in A : y = x \/ Before(side, y, x)}

IsNearest(side, A, m) == IF A = {} THEN m = NULL ELSE m \in Nearest(side, A)

\* The slots below each node that start above a frame.
AboveIn(below, start) == [m \in Link |-> {x \in below[m] : start < BaseGfn[x]}]

\* Which way the first slot above a frame lies.
LEMMA AboveBelow ==
  ASSUME NEW t, NEW below, Shape(t, below), NEW n \in Slot, NEW start \in Nat,
         NEW Above, Above = AboveIn(below, start)
  PROVE  /\ start < BaseGfn[n] /\ Above[t.rb_left[n]] = {} =>
              Nearest("rb_right", Above[n]) = {n}
         /\ start < BaseGfn[n] /\ Above[t.rb_left[n]] # {} =>
              Nearest("rb_right", Above[n]) = Nearest("rb_right", Above[t.rb_left[n]])
         /\ start < BaseGfn[n] => Above[n] # {}
         /\ ~(start < BaseGfn[n]) => Above[n] = Above[t.rb_right[n]]
<1> DEFINE l == t.rb_left[n]
           r == t.rb_right[n]
<1>1. /\ l \in Link /\ r \in Link /\ below[n] = {n} \cup below[l] \cup below[r]
      /\ below[n] \subseteq Slot
      /\ \A x \in below[l] : x \in Slot /\ BaseGfn[x] < BaseGfn[n]
      /\ \A x \in below[r] : x \in Slot /\ BaseGfn[n] < BaseGfn[x]
  BY BelowIs
<1>2. \A x \in Slot : BaseGfn[x] \in Nat
  BY RangeAssumption
<1>3. n \in Link
  BY DEF Link
<1>4. /\ Above[n] = {x \in below[n] : start < BaseGfn[x]}
      /\ Above[l] = {x \in below[l] : start < BaseGfn[x]}
      /\ Above[r] = {x \in below[r] : start < BaseGfn[x]}
  BY <1>1, <1>3 DEF AboveIn
<1> HIDE DEF l, r
<1>5. CASE ~(start < BaseGfn[n])
  <2>1. \A x \in {n} \cup below[l] : ~(start < BaseGfn[x])
    BY <1>1, <1>2, <1>5
  <2>2. Above[n] = Above[r]
    BY <1>1, <1>4, <2>1
  <2> QED BY <1>5, <2>2 DEF r
<1>6. CASE start < BaseGfn[n]
  <2>1. \A x \in below[r] : start < BaseGfn[x]
    BY <1>1, <1>2, <1>6
  <2>2. Above[n] = {n} \cup Above[l] \cup below[r]
    BY <1>1, <1>4, <1>6, <2>1
  <2>3. /\ \A x, y : Before("rb_right", y, x) <=> BaseGfn[x] < BaseGfn[y]
        /\ \A x \in Above[l] : x \in Slot /\ BaseGfn[x] < BaseGfn[n]
    BY <1>1, <1>4 DEF Before
  <2>4. ASSUME Above[l] = {} PROVE Nearest("rb_right", Above[n]) = {n}
    <3>1. n \in Nearest("rb_right", Above[n])
      BY <1>1, <2>2, <2>3, <2>4 DEF Nearest
    <3>2. ASSUME NEW x \in Nearest("rb_right", Above[n]) PROVE x = n
      <4>1. x \in below[r] \/ x = n
        BY <2>2, <2>4 DEF Nearest
      <4>2. n = x \/ BaseGfn[x] < BaseGfn[n]
        BY <2>2, <2>3 DEF Nearest
      <4> QED BY <1>1, <1>2, <4>1, <4>2
    <3> QED BY <3>1, <3>2
  <2>5. ASSUME Above[l] # {}
        PROVE  Nearest("rb_right", Above[n]) = Nearest("rb_right", Above[l])
    <3>1. PICK z \in Above[l] : TRUE
      BY <2>5
    <3>2. ASSUME NEW x \in Nearest("rb_right", Above[n])
          PROVE  x \in Nearest("rb_right", Above[l])
      <4>1. z \in Above[n] /\ (z = x \/ BaseGfn[x] < BaseGfn[z])
        BY <2>2, <2>3, <3>1 DEF Nearest
      <4>2. z \in Slot /\ BaseGfn[z] < BaseGfn[n]
        BY <2>3, <3>1
      <4>3. x \in Above[n] /\ x \in Slot
        BY <1>1, <1>4 DEF Nearest
      <4>4. x # n /\ x \notin below[r]
        BY <1>1, <1>2, <4>1, <4>2, <4>3
      <4>5. x \in Above[l]
        BY <2>2, <4>3, <4>4
      <4> QED BY <2>2, <4>5 DEF Nearest
    <3>3. ASSUME NEW x \in Nearest("rb_right", Above[l])
          PROVE  x \in Nearest("rb_right", Above[n])
      <4>1. x \in Above[l] /\ x \in Slot /\ BaseGfn[x] < BaseGfn[n]
        BY <2>3 DEF Nearest
      <4>2. ASSUME NEW y \in below[r] PROVE BaseGfn[x] < BaseGfn[y]
        BY <1>1, <1>2, <4>1
      <4>3. \A y \in Above[n] : y = x \/ Before("rb_right", y, x)
        BY <2>2, <2>3, <4>1, <4>2 DEF Nearest
      <4> QED BY <2>2, <4>1, <4>3 DEF Nearest
    <3> QED BY <3>2, <3>3
  <2>6. Above[n] # {}
    BY <2>2
  <2> QED BY <1>6, <2>4, <2>5, <2>6 DEF l
<1> QED BY <1>5, <1>6

\* UpperBound is the first slot that starts above the frame, or NULL.
LEMMA UpperBoundIs ==
  ASSUME NEW t, NEW below, Shape(t, below), NEW start \in Nat
  PROVE  IsNearest("rb_right", {x \in below[t.rb_node] : start < BaseGfn[x]},
                   UpperBound(t, start))
<1> DEFINE F(f) == [at \in Link \X Link |->
                      IF at[1] = NULL THEN at[2]
                      ELSE IF start < BaseGfn[at[1]] THEN f[<<t.rb_left[at[1]], at[1]>>]
                      ELSE f[<<t.rb_right[at[1]], at[2]>>]]
           g == CHOOSE f : f = F(f)
           Above == [m \in Link |-> {x \in below[m] : start < BaseGfn[x]}]
           Best(m) == Pick(Nearest("rb_right", Above[m]))
           H == [at \in Link \X Link |-> IF Above[at[1]] = {} THEN at[2] ELSE Best(at[1])]
<1>1. UpperBound(t, start) = g[<<t.rb_node, NULL>>]
  BY DEF UpperBound
<1>2. t \in Tree /\ Ordered(t, below) /\ t.rb_node \in Link /\ NULL \in Link
  BY Fields DEF Shape, Link
<1>3. Above[NULL] = {} /\ Above[t.rb_node] = {x \in below[t.rb_node] : start < BaseGfn[x]}
  BY <1>2 DEF Ordered
<1>4. ASSUME NEW n \in Slot
      PROVE  /\ n \in Link /\ n # NULL /\ t.rb_left[n] \in Link /\ t.rb_right[n] \in Link
             /\ start < BaseGfn[n] /\ Above[t.rb_left[n]] = {} =>
                  Nearest("rb_right", Above[n]) = {n}
             /\ start < BaseGfn[n] /\ Above[t.rb_left[n]] # {} =>
                  Nearest("rb_right", Above[n]) = Nearest("rb_right", Above[t.rb_left[n]])
             /\ start < BaseGfn[n] => Above[n] # {}
             /\ ~(start < BaseGfn[n]) => Above[n] = Above[t.rb_right[n]]
  <2>1. n \in Link /\ n # NULL
    BY SlotAssumption DEF Link
  <2>2. t.rb_left[n] \in Link /\ t.rb_right[n] \in Link
    BY BelowIs
  <2>3. Above = AboveIn(below, start)
    BY DEF AboveIn
  <2> HIDE DEF Above
  <2>4. /\ start < BaseGfn[n] /\ Above[t.rb_left[n]] = {} =>
             Nearest("rb_right", Above[n]) = {n}
        /\ start < BaseGfn[n] /\ Above[t.rb_left[n]] # {} =>
             Nearest("rb_right", Above[n]) = Nearest("rb_right", Above[t.rb_left[n]])
        /\ start < BaseGfn[n] => Above[n] # {}
        /\ ~(start < BaseGfn[n]) => Above[n] = Above[t.rb_right[n]]
    <3>1. Shape(t, below) /\ n \in Slot /\ start \in Nat
      OBVIOUS
    <3> QED BY ONLY <2>3, <3>1, AboveBelow
  <2> QED BY <2>1, <2>2, <2>4
<1> HIDE DEF Above
<1>5. \A m, b \in Link : H[<<m, b>>] = IF Above[m] = {} THEN b ELSE Best(m)
  OBVIOUS
<1>6. ASSUME NEW n \in Slot, NEW b \in Link
      PROVE  H[<<n, b>>] = IF start < BaseGfn[n] THEN H[<<t.rb_left[n], n>>]
                           ELSE H[<<t.rb_right[n], b>>]
  <2>1. /\ H[<<n, b>>] = IF Above[n] = {} THEN b ELSE Best(n)
        /\ H[<<t.rb_left[n], n>>] = IF Above[t.rb_left[n]] = {} THEN n
                                    ELSE Best(t.rb_left[n])
        /\ H[<<t.rb_right[n], b>>] = IF Above[t.rb_right[n]] = {} THEN b
                                     ELSE Best(t.rb_right[n])
    BY <1>4, <1>5
  <2> HIDE DEF H
  <2>2. CASE start < BaseGfn[n] /\ Above[t.rb_left[n]] = {}
    <3>1. Best(n) = n
      BY <1>4, <2>2, PickIs
    <3> QED BY <1>4, <2>1, <2>2, <3>1
  <2>3. CASE start < BaseGfn[n] /\ Above[t.rb_left[n]] # {}
    <3>1. Best(n) = Best(t.rb_left[n])
      BY <1>4, <2>3
    <3> QED BY <1>4, <2>1, <2>3, <3>1
  <2>4. CASE ~(start < BaseGfn[n])
    <3>1. Best(n) = Best(t.rb_right[n]) /\ Above[n] = Above[t.rb_right[n]]
      BY <1>4, <2>4
    <3> HIDE DEF Best
    <3> QED BY <2>1, <2>4, <3>1
  <2> QED BY <2>2, <2>3, <2>4
<1> HIDE DEF Best
<1>7. H = F(H)
  <2>1. ASSUME NEW at \in Link \X Link PROVE H[at] = F(H)[at]
    <3>1. at = <<at[1], at[2]>> /\ at[1] \in Link /\ at[2] \in Link
      BY <2>1
    <3>2. F(H)[at] = IF at[1] = NULL THEN at[2]
                     ELSE IF start < BaseGfn[at[1]] THEN H[<<t.rb_left[at[1]], at[1]>>]
                     ELSE H[<<t.rb_right[at[1]], at[2]>>]
      BY <2>1
    <3>3. CASE at[1] = NULL
      BY <1>3, <3>2, <3>3
    <3> HIDE DEF H
    <3>4. CASE at[1] # NULL
      <4>1. at[1] \in Slot
        BY <3>1, <3>4 DEF Link
      <4>2. H[<<at[1], at[2]>>] = IF start < BaseGfn[at[1]] THEN H[<<t.rb_left[at[1]], at[1]>>]
                                  ELSE H[<<t.rb_right[at[1]], at[2]>>]
        BY <1>6, <3>1, <4>1
      <4> QED BY <3>1, <3>2, <3>4, <4>2
    <3> QED BY <3>3, <3>4
  <2>2. H = [at \in Link \X Link |-> H[at]] /\ F(H) = [at \in Link \X Link |-> F(H)[at]]
    OBVIOUS
  <2> QED BY <2>1
<1>8. g = F(g)
  <2> HIDE DEF F, H
  <2> QED BY <1>7
<1> HIDE DEF g, H
<1>9. /\ \A b \in Link : g[<<NULL, b>>] = b
      /\ \A n \in Slot : \A b \in Link :
           g[<<n, b>>] = IF start < BaseGfn[n] THEN g[<<t.rb_left[n], n>>]
                         ELSE g[<<t.rb_right[n], b>>]
  <2>1. ASSUME NEW n \in Link, NEW b \in Link
        PROVE  g[<<n, b>>] = IF n = NULL THEN b
                             ELSE IF start < BaseGfn[n] THEN g[<<t.rb_left[n], n>>]
                             ELSE g[<<t.rb_right[n], b>>]
    <3>1. <<n, b>> \in Link \X Link /\ <<n, b>>[1] = n /\ <<n, b>>[2] = b
      OBVIOUS
    <3>2. g[<<n, b>>] = F(g)[<<n, b>>]
      BY <1>8
    <3> QED BY <3>1, <3>2
  <2> HIDE DEF F
  <2> QED BY <1>2, <1>4, <2>1
<1> DEFINE Right(m, b) == IF Above[m] = {} THEN g[<<m, b>>] = b
                          ELSE g[<<m, b>>] \in Nearest("rb_right", Above[m])
           S == {m \in Slot : \A b \in Link : Right(m, b)}
<1>10. ASSUME NEW n \in Slot, \A side \in Side : t[side][n] \in S \cup {NULL}
       PROVE  n \in S
  <2>1. t.rb_left[n] \in S \cup {NULL} /\ t.rb_right[n] \in S \cup {NULL}
    BY <1>2, <1>10, Fields DEF Side
  <2>2. \A b \in Link : Right(t.rb_left[n], b) /\ Right(t.rb_right[n], b)
    BY <1>3, <1>9, <2>1
  <2>3. ASSUME NEW b \in Link PROVE Right(n, b)
    <3>1. g[<<n, b>>] = IF start < BaseGfn[n] THEN g[<<t.rb_left[n], n>>]
                        ELSE g[<<t.rb_right[n], b>>]
      BY <1>9
    <3>2. Right(t.rb_left[n], n) /\ Right(t.rb_right[n], b)
      BY <1>4, <2>2
    <3>3. CASE start < BaseGfn[n] /\ Above[t.rb_left[n]] = {}
      BY <1>4, <3>1, <3>2, <3>3
    <3>4. CASE start < BaseGfn[n] /\ Above[t.rb_left[n]] # {}
      BY <1>4, <3>1, <3>2, <3>4
    <3>5. CASE ~(start < BaseGfn[n])
      BY <1>4, <3>1, <3>2, <3>5
    <3> QED BY <3>3, <3>4, <3>5
  <2> QED BY <2>3
<1>11. S \in SUBSET Slot
  OBVIOUS
<1> HIDE DEF S
<1>12. S = Slot
  BY <1>2, <1>10, <1>11, DownInduction
<1>13. Right(t.rb_node, NULL)
  BY <1>2, <1>3, <1>9, <1>12 DEF S, Link
<1> QED BY <1>1, <1>3, <1>13 DEF IsNearest

-----------------------------------------------------------------------------
\* The slots outside the subtree at y lie on the same side of all its nodes.
Outlying(t, below, y) ==
  \A x \in below[t.rb_node] \ below[y] : \A z \in below[y] : \A side \in Side :
    Before(side, x, z) <=> Before(side, x, y)

LEMMA Interval ==
  ASSUME NEW t, NEW below, Shape(t, below), NEW y \in below[t.rb_node]
  PROVE  Outlying(t, below, y)
<1> DEFINE T == below[t.rb_node]
           S == {m \in Slot : m \in T => Outlying(t, below, m)}
<1>1. t \in Tree /\ Ordered(t, below) /\ Linked(t, below)
  BY DEF Shape
<1>2. T \subseteq Slot /\ y \in Slot
  BY <1>1, Fields DEF Ordered
<1>3. ASSUME NEW m \in Slot, t.parent[m] \in S \cup {NULL} PROVE m \in S
  <2>1. SUFFICES ASSUME m \in T PROVE Outlying(t, below, m)
    OBVIOUS
  <2>2. CASE t.parent[m] = NULL
    <3>1. t.rb_node = m
      BY <1>1, <2>1, <2>2 DEF Linked
    <3> QED BY <3>1 DEF Outlying
  <2>3. CASE t.parent[m] # NULL
    <3> DEFINE p == t.parent[m]
    <3>1. p \in S /\ p \in Slot
      BY <1>3, <2>3
    <3>2. PICK s \in Side : t[s][p] = m
      BY <1>1, <2>3 DEF Linked
    <3>3. p \in T /\ m \in below[m]
      BY <1>1, <1>3, <3>1, <3>2, Distinct, ChildBelow, SlotAssumption
    <3> DEFINE o == Opposite(s)
               c == t[o][p]
    <3>4. o \in Side
      BY Sides
    <3>5. /\ below[p] = {p} \cup below[m] \cup below[c]
          /\ \A x \in below[m] : Before(s, x, p)
          /\ \A x \in below[c] : Before(o, x, p)
          /\ p \in below[p]
      <4>1. /\ below[p] = {p} \cup below[t[s][p]] \cup below[t[Opposite(s)][p]]
            /\ \A x \in below[t[s][p]] : Before(s, x, p)
            /\ \A x \in below[t[o][p]] : Before(o, x, p)
        BY <1>1, <3>1, <3>4 DEF Ordered
      <4> QED BY <3>2, <4>1
    <3>6. below[p] \subseteq Slot
      BY <1>1, <3>1, ChildBelow, Sides
    <3>7. Outlying(t, below, p)
      BY <3>1, <3>3
    <3> HIDE DEF p, c, S
    <3>8. ASSUME NEW x \in T \ below[m], NEW z \in below[m], NEW side \in Side
          PROVE  Before(side, x, z) <=> Before(side, x, m)
      <4>1. CASE x \notin below[p]
        <5>1. x \in T \ below[p] /\ z \in below[p] /\ m \in below[p]
          BY <3>3, <3>5, <3>8, <4>1
        <5> HIDE DEF T, o
        <5> QED BY <3>7, <5>1 DEF Outlying, T
      <4>2. CASE x \in below[p]
        <5>1. x \in Slot /\ z \in Slot /\ m \in Slot /\ p \in Slot
          BY <3>1, <3>5, <3>6, <4>2
        <5>2. Before(o, p, z) /\ Before(o, p, m)
          <6>1. Before(s, z, p) /\ Before(s, m, p)
            BY <3>3, <3>5
          <6> QED BY <5>1, <6>1, Strict
        <5>3. x = p \/ Before(o, x, p)
          BY <3>5, <3>8, <4>2
        <5> HIDE DEF o
        <5>4. Before(o, x, z) /\ Before(o, x, m)
          BY <3>4, <5>1, <5>2, <5>3, Strict
        <5>5. side = o \/ side = s
          BY <3>2, <3>8 DEF o, Opposite, Side
        <5>6. CASE side = o
          BY <5>4, <5>6
        <5>7. CASE side = s
          <6>1. ~ Before(s, x, z) /\ ~ Before(s, x, m)
            <7>1. Before(s, z, x) /\ Before(s, m, x)
              BY <5>1, <5>4, Strict DEF o
            <7> QED BY <5>1, <7>1, Strict
          <6> QED BY <5>7, <6>1
        <5> QED BY <5>5, <5>6, <5>7
      <4> QED BY <4>1, <4>2
    <3> QED BY <3>8 DEF Outlying
  <2> QED BY <2>2, <2>3
<1>4. S \in SUBSET Slot
  OBVIOUS
<1>5. \A m \in Slot : t.parent[m] \in S \cup {NULL} => m \in S
  BY <1>3
<1>6. y \in S
  <2> HIDE DEF S
  <2>1. S = Slot
    BY <1>1, <1>4, <1>5, UpInduction
  <2> QED BY <1>2, <2>1
<1> QED BY <1>6

\* The slots outside the subtree at m on that side of it.
Beyond(t, below, m, side) == {x \in below[t.rb_node] \ below[m] : Before(side, x, m)}

\* The way up: m hangs on that side of its parent.
LEMMA BeyondChild ==
  ASSUME NEW t, NEW below, Shape(t, below), NEW m \in below[t.rb_node], NEW side \in Side,
         NEW p, p = t.parent[m], p # NULL
  PROVE  /\ p \in below[t.rb_node]
         /\ t[side][p] = m => Beyond(t, below, m, side) = Beyond(t, below, p, side)
         /\ t[side][p] # m => p \in Nearest(side, Beyond(t, below, m, side))
<1> DEFINE T == below[t.rb_node]
           o == Opposite(side)
<1>1. t \in Tree /\ Ordered(t, below) /\ Linked(t, below) /\ o \in Side
  BY Sides DEF Shape
<1>2. T \subseteq Slot /\ m \in Slot /\ p \in Slot /\ p # m
  BY <1>1, Fields, HeldBy DEF Ordered
<1>3. t[side][p] = m \/ t[o][p] = m
  <2>1. PICK s \in Side : t[s][p] = m
    BY <1>1, <1>2 DEF Linked
  <2> QED BY <2>1 DEF o, Opposite, Side
<1>4. p \in T /\ m \in below[m] /\ m # NULL
  BY <1>1, <1>2, <1>3, Distinct, ChildBelow, SlotAssumption
<1>5. Outlying(t, below, p)
  BY <1>4, Interval
<1>6. /\ below[p] = {p} \cup below[t[side][p]] \cup below[t[o][p]]
      /\ \A x \in below[t[side][p]] : Before(side, x, p)
      /\ \A x \in below[t[o][p]] : Before(o, x, p)
  BY <1>1, <1>2 DEF Ordered
<1>7. below[p] \subseteq Slot /\ p \in below[p]
  BY <1>1, <1>2, ChildBelow
<1>8. m \in below[p]
  BY <1>3, <1>4, <1>6
<1>9. \A x \in T \ below[p] : Before(side, x, m) <=> Before(side, x, p)
  BY <1>5, <1>8 DEF Outlying
<1>10. \A x, y \in Slot : Before(o, x, y) <=> Before(side, y, x)
  BY Strict
<1> HIDE DEF o
<1>11. CASE t[side][p] = m
  <2>1. below[p] = {p} \cup below[m] \cup below[t[o][p]]
    BY <1>6, <1>11
  <2>2. Before(side, m, p)
    BY <1>4, <1>6, <1>11
  <2>3. \A x \in {p} \cup below[t[o][p]] : ~ Before(side, x, m)
    <3>1. ASSUME NEW x \in below[t[o][p]] PROVE ~ Before(side, x, m)
      <4>1. x \in Slot /\ Before(side, p, x)
        BY <1>2, <1>6, <1>7, <1>10
      <4>2. Before(side, m, x)
        BY <1>2, <2>2, <4>1, Strict
      <4> QED BY <1>2, <4>1, <4>2, Strict
    <3>2. ~ Before(side, p, m)
      BY <1>2, <2>2, Strict
    <3> QED BY <3>1, <3>2
  <2>4. ASSUME NEW x \in T
        PROVE  x \in Beyond(t, below, m, side) <=> x \in Beyond(t, below, p, side)
    <3>1. CASE x \in below[p]
      BY <2>1, <2>3, <3>1 DEF Beyond
    <3>2. CASE x \notin below[p]
      BY <1>9, <2>1, <3>2 DEF Beyond
    <3> QED BY <3>1, <3>2
  <2>5. Beyond(t, below, m, side) = Beyond(t, below, p, side)
    BY <2>4 DEF Beyond
  <2> QED BY <1>4, <1>11, <2>5
<1>12. CASE t[side][p] # m
  <2>1. t[o][p] = m
    BY <1>3, <1>12
  <2>2. below[p] = {p} \cup below[t[side][p]] \cup below[m]
    BY <1>6, <2>1
  <2>3. Before(side, p, m)
    BY <1>2, <1>4, <1>6, <1>10, <2>1
  <2>4. p \notin below[m]
    BY <1>1, <1>2, <2>1, ChildBelow
  <2>5. p \in Beyond(t, below, m, side)
    BY <1>4, <2>3, <2>4 DEF Beyond
  <2>6. ASSUME NEW x \in Beyond(t, below, m, side) PROVE x = p \/ Before(side, x, p)
    <3>1. x \in T \ below[m] /\ Before(side, x, m)
      BY DEF Beyond
    <3>2. CASE x \in below[p]
      BY <1>6, <2>2, <3>1, <3>2
    <3>3. CASE x \notin below[p]
      BY <1>9, <3>1, <3>3
    <3> QED BY <3>2, <3>3
  <2>7. p \in Nearest(side, Beyond(t, below, m, side))
    BY <2>5, <2>6 DEF Nearest
  <2> QED BY <1>4, <1>12, <2>7
<1> QED BY <1>11, <1>12

\* How Neighbour climbs from m.
ClimbFrom(t, side, g) ==
  \A m \in Slot :
    g[m] = IF t.parent[m] # NULL /\ m = t[side][t.parent[m]] THEN g[t.parent[m]]
           ELSE t.parent[m]

LEMMA ClimbIs ==
  ASSUME NEW t, NEW below, Shape(t, below), NEW side \in Side, NEW g, ClimbFrom(t, side, g),
         NEW n \in Slot
  PROVE  IF n \in below[t.rb_node] THEN IsNearest(side, Beyond(t, below, n, side), g[n])
         ELSE g[n] = NULL
<1> DEFINE T == below[t.rb_node]
           P(m) == IF m \in T THEN IsNearest(side, Beyond(t, below, m, side), g[m])
                   ELSE g[m] = NULL
           S == {m \in Slot : P(m)}
<1>1. t \in Tree /\ Ordered(t, below) /\ Linked(t, below)
  BY DEF Shape
<1>2. ASSUME NEW m \in Slot, t.parent[m] \in S \cup {NULL} PROVE m \in S
  <2> DEFINE p == t.parent[m]
  <2>0. g[m] = IF p # NULL /\ m = t[side][p] THEN g[p] ELSE p
    BY DEF ClimbFrom
  <2>1. CASE m \notin T
    <3>1. p = NULL
      BY <2>1, Outside
    <3> QED BY <2>0, <2>1, <3>1
  <2>2. CASE m \in T /\ p = NULL
    <3>1. t.rb_node = m
      BY <1>1, <2>2 DEF Linked
    <3>2. Beyond(t, below, m, side) = {} /\ g[m] = NULL
      BY <2>0, <2>2, <3>1 DEF Beyond
    <3> QED BY <2>2, <3>2 DEF IsNearest
  <2>3. CASE m \in T /\ p # NULL
    <3>1. /\ p \in T
          /\ t[side][p] = m => Beyond(t, below, m, side) = Beyond(t, below, p, side)
          /\ t[side][p] # m => p \in Nearest(side, Beyond(t, below, m, side))
      BY <2>3, BeyondChild
    <3>2. CASE t[side][p] = m
      <4>1. g[m] = g[p] /\ P(p)
        BY <1>2, <2>0, <2>3, <3>2
      <4> HIDE DEF p
      <4> QED BY <2>3, <3>1, <3>2, <4>1
    <3>3. CASE t[side][p] # m
      <4>1. g[m] = p
        BY <2>0, <3>3
      <4> HIDE DEF p
      <4>2. Beyond(t, below, m, side) # {}
        BY <3>1, <3>3 DEF Nearest
      <4> QED BY <2>3, <3>1, <3>3, <4>1, <4>2 DEF IsNearest
    <3> QED BY <3>2, <3>3
  <2> QED BY <2>1, <2>2, <2>3
<1>3. S \in SUBSET Slot
  OBVIOUS
<1>4. \A m \in Slot : t.parent[m] \in S \cup {NULL} => m \in S
  BY <1>2
<1>5. n \in S
  <2> HIDE DEF S
  <2>1. S = Slot
    BY <1>1, <1>3, <1>4, UpInduction
  <2> QED BY <2>1
<1> QED BY <1>5

\* rb_next and rb_prev return the nearest slot on that side, or NULL; a node
\* outside the tree has no neighbour.
LEMMA NeighbourIs ==
  ASSUME NEW t, NEW below, Shape(t, below), NEW side \in Side, NEW n \in Slot
  PROVE  IF n \in below[t.rb_node]
         THEN IsNearest(side, {x \in below[t.rb_node] : Before(side, x, n)},
                        Neighbour(t, n, side))
         ELSE Neighbour(t, n, side) = NULL
<1> DEFINE T == below[t.rb_node]
           o == Opposite(side)
           A == {x \in T : Before(side, x, n)}
           F(f) == [m \in Slot |-> IF t.parent[m] # NULL /\ m = t[side][t.parent[m]]
                                   THEN f[t.parent[m]] ELSE t.parent[m]]
           g == CHOOSE f : f = F(f)
<1>1. t \in Tree /\ Ordered(t, below) /\ Linked(t, below) /\ o \in Side
  BY Sides DEF Shape
<1>2. Neighbour(t, n, side) = IF t[side][n] # NULL THEN Furthest(t, t[side][n], o) ELSE g[n]
  BY DEF Neighbour
<1>3. g = F(g)
  <2> DEFINE next == [m \in Slot |-> IF t.parent[m] # NULL /\ m = t[side][t.parent[m]]
                                     THEN t.parent[m] ELSE NULL]
             val == [m \in Slot |-> t.parent[m]]
  <2>1. \A m \in Slot : t.parent[m] \in Slot \cup {NULL}
    BY <1>1, Fields DEF Link
  <2>2. next \in [Slot -> Slot \cup {NULL}]
    BY <2>1
  <2>3. \A m \in Slot : /\ next[m] = IF t.parent[m] # NULL /\ m = t[side][t.parent[m]]
                                     THEN t.parent[m] ELSE NULL
                        /\ val[m] = t.parent[m]
    OBVIOUS
  <2> HIDE DEF next, val
  <2>4. PICK f : Follows(f, Slot, next, val)
    BY <2>2, SlotAssumption, TailRecursion
  <2>5. f = [m \in Slot |-> IF next[m] = NULL THEN val[m] ELSE f[next[m]]]
    BY <2>4 DEF Follows
  <2>6. f = F(f)
    <3>1. \A m \in Slot : (IF next[m] = NULL THEN val[m] ELSE f[next[m]]) = F(f)[m]
      BY <2>3
    <3> QED BY <2>5, <3>1
  <2> HIDE DEF F
  <2> QED BY <2>6
<1>4. ClimbFrom(t, side, g)
  <2> HIDE DEF g
  <2> QED BY <1>3 DEF ClimbFrom
<1> HIDE DEF g, F
<1>5. IF n \in T THEN IsNearest(side, Beyond(t, below, n, side), g[n]) ELSE g[n] = NULL
  BY <1>4, ClimbIs
<1>6. CASE n \notin T
  <2>1. t[side][n] = NULL
    BY <1>6, Outside
  <2> QED BY <1>2, <1>5, <1>6, <2>1
<1>7. CASE n \in T
  <2>1. T \subseteq Slot
    BY <1>1, Fields DEF Ordered
  <2>2. /\ below[n] = {n} \cup below[t[side][n]] \cup below[t[o][n]]
        /\ \A x \in below[t[side][n]] : Before(side, x, n)
        /\ \A x \in below[t[o][n]] : Before(o, x, n)
    BY <1>1 DEF Ordered
  <2>3. below[n] \subseteq Slot
    BY <1>1, ChildBelow
  <2>4. below[n] \subseteq T
    <3>1. t.rb_node \in Slot
      BY <1>1, <1>7, Fields DEF Ordered, Link
    <3> QED BY <1>1, <1>7, <3>1, Transitive
  <2>5. \A x \in {n} \cup below[t[o][n]] : ~ Before(side, x, n)
    <3>1. ASSUME NEW x \in below[t[o][n]] PROVE ~ Before(side, x, n)
      <4>1. x \in Slot /\ Before(o, x, n)
        BY <2>2, <2>3
      <4>2. Before(side, n, x)
        BY <4>1, Strict
      <4> QED BY <4>1, <4>2, Strict
    <3>2. ~ Before(side, n, n)
      BY Strict
    <3> QED BY <3>1, <3>2
  <2>6. CASE t[side][n] = NULL
    <3>1. below[t[side][n]] = {}
      BY <1>1, <2>6 DEF Ordered
    <3>2. A = Beyond(t, below, n, side)
      BY <2>2, <2>5, <3>1 DEF Beyond
    <3>3. Neighbour(t, n, side) = g[n]
      BY <1>2, <2>6
    <3> HIDE DEF A
    <3>4. IsNearest(side, A, Neighbour(t, n, side))
      BY <1>5, <1>7, <3>2, <3>3
    <3> QED BY <1>7, <3>4 DEF A
  <2>7. CASE t[side][n] # NULL
    <3> DEFINE c == t[side][n]
               f == Furthest(t, c, o)
    <3>1. c \in Slot
      BY <1>1, <2>7, Fields DEF Link
    <3>2. f \in below[c] /\ \A x \in below[c] : x = f \/ Before(o, f, x)
      BY <1>1, <3>1, FurthestIs
    <3> HIDE DEF f, o
    <3>3. f \in A /\ f \in below[n] /\ f \in Slot
      BY <2>2, <2>3, <2>4, <3>2
    <3>4. ASSUME NEW x \in A PROVE x = f \/ Before(side, x, f)
      <4>1. x \in T /\ Before(side, x, n) /\ x \in Slot
        BY <2>1
      <4>2. CASE x \in below[n]
        <5>1. x \in below[c]
          BY <2>2, <2>5, <4>1, <4>2
        <5>2. x = f \/ Before(o, f, x)
          BY <3>2, <5>1
        <5> QED BY <3>3, <4>1, <5>2, Strict DEF o
      <4>3. CASE x \notin below[n]
        BY <1>7, <3>3, <4>1, <4>3, Interval DEF Outlying
      <4> QED BY <4>2, <4>3
    <3>5. Neighbour(t, n, side) = f
      BY <1>2, <2>7 DEF f
    <3> HIDE DEF A
    <3>6. IsNearest(side, A, Neighbour(t, n, side))
      BY <3>3, <3>4, <3>5 DEF IsNearest, Nearest
    <3> QED BY <1>7, <3>6 DEF A
  <2> QED BY <2>6, <2>7
<1> QED BY <1>6, <1>7

\* m is the slot of A that starts first, or last; NULL when there is none.
Lowest(A, m) ==
  IF A = {} THEN m = NULL ELSE m \in A /\ \A x \in A : x = m \/ BaseGfn[m] < BaseGfn[x]

Highest(A, m) ==
  IF A = {} THEN m = NULL ELSE m \in A /\ \A x \in A : x = m \/ BaseGfn[x] < BaseGfn[m]

Over(T, frame) == {x \in T : frame < BaseGfn[x]}

Under(T, frame) == {x \in T : BaseGfn[x] < frame}

LEMMA IsNearestIs ==
  ASSUME NEW A, NEW m
  PROVE  /\ IsNearest("rb_right", A, m) => Lowest(A, m)
         /\ IsNearest("rb_left", A, m) => Highest(A, m)
<1>1. \A x, y : /\ Before("rb_right", x, y) <=> BaseGfn[y] < BaseGfn[x]
                /\ Before("rb_left", x, y) <=> BaseGfn[x] < BaseGfn[y]
  BY DEF Before
<1> QED BY <1>1 DEF IsNearest, Nearest, Lowest, Highest

LEMMA StepsAre ==
  ASSUME NEW t, NEW below, Shape(t, below), NEW T, T = below[t.rb_node]
  PROVE  /\ T \subseteq Slot
         /\ \A n \in T : Lowest(Over(T, BaseGfn[n]), rb_next(t, n))
         /\ \A n \in T : Highest(Under(T, BaseGfn[n]), rb_prev(t, n))
         /\ \A n \in Slot \ T : rb_next(t, n) = NULL
         /\ Highest(T, rb_last(t))
         /\ \A start \in Nat : Lowest(Over(T, start), UpperBound(t, start))
<1>1. t \in Tree /\ Ordered(t, below) /\ t.rb_node \in Link
  BY Fields DEF Shape
<1>2. T \subseteq Slot
  BY <1>1 DEF Ordered
<1>3. "rb_right" \in Side /\ "rb_left" \in Side /\ Opposite("rb_left") = "rb_right"
  BY DEF Side, Opposite
<1>4. \A n : /\ {x \in T : Before("rb_right", x, n)} = Over(T, BaseGfn[n])
             /\ {x \in T : Before("rb_left", x, n)} = Under(T, BaseGfn[n])
  BY DEF Before, Over, Under
<1>5. ASSUME NEW n \in T PROVE Lowest(Over(T, BaseGfn[n]), rb_next(t, n))
  <2>1. IsNearest("rb_right", {x \in T : Before("rb_right", x, n)}, Neighbour(t, n, "rb_right"))
    BY <1>2, <1>3, NeighbourIs
  <2> QED BY <1>4, <2>1, IsNearestIs DEF rb_next
<1>6. ASSUME NEW n \in T PROVE Highest(Under(T, BaseGfn[n]), rb_prev(t, n))
  <2>1. IsNearest("rb_left", {x \in T : Before("rb_left", x, n)}, Neighbour(t, n, "rb_left"))
    BY <1>2, <1>3, NeighbourIs
  <2> QED BY <1>4, <2>1, IsNearestIs DEF rb_prev
<1>7. ASSUME NEW n \in Slot \ T PROVE rb_next(t, n) = NULL
  BY <1>3, NeighbourIs DEF rb_next
<1>8. Highest(T, rb_last(t))
  <2>1. CASE t.rb_node = NULL
    BY <1>1, <2>1 DEF Ordered, Highest, rb_last
  <2>2. CASE t.rb_node # NULL
    <3>1. t.rb_node \in Slot
      BY <1>1, <2>2 DEF Link
    <3> DEFINE m == Furthest(t, t.rb_node, "rb_right")
    <3>2. m \in T /\ \A x \in T : x = m \/ Before("rb_right", m, x)
      BY <1>3, <3>1, FurthestIs
    <3>3. rb_last(t) = m
      BY <2>2 DEF rb_last
    <3> HIDE DEF m
    <3> QED BY <3>2, <3>3 DEF Highest, Before
  <2> QED BY <2>1, <2>2
<1>9. ASSUME NEW start \in Nat PROVE Lowest(Over(T, start), UpperBound(t, start))
  BY UpperBoundIs, IsNearestIs DEF Over
<1> QED BY <1>2, <1>5, <1>6, <1>7, <1>8, <1>9

\* The slots that end above a frame.
Reaching(T, start) == {x \in T : start < BaseGfn[x] + Npages[x]}

\* An iteration starts with the first slot that ends above the frame.
LEMMA IterStartIs ==
  ASSUME NEW t, NEW below, Shape(t, below), NEW T, T = below[t.rb_node], Disjoint(T),
         NEW start \in Nat
  PROVE  Lowest(Reaching(T, start), kvm_memslot_iter_start(t, start))
<1> DEFINE above == UpperBound(t, start)
           prev == rb_prev(t, above)
           first == IF above = NULL THEN rb_last(t) ELSE IF prev # NULL THEN prev ELSE above
           L == {x \in T : BaseGfn[x] <= start}
           W == Reaching(T, start)
<1>1. /\ T \subseteq Slot
      /\ \A n \in T : Lowest(Over(T, BaseGfn[n]), rb_next(t, n))
      /\ \A n \in T : Highest(Under(T, BaseGfn[n]), rb_prev(t, n))
      /\ Highest(T, rb_last(t))
      /\ Lowest(Over(T, start), above)
  BY StepsAre
<1>2. kvm_memslot_iter_start(t, start) =
        IF first # NULL /\ BaseGfn[first] + Npages[first] <= start
        THEN rb_next(t, first) ELSE first
  BY DEF kvm_memslot_iter_start
<1>3. /\ \A x \in T : BaseGfn[x] \in Nat /\ Npages[x] \in Nat \ {0}
      /\ NULL \notin T
  BY <1>1, RangeAssumption, SlotAssumption
<1>4. \A x, y \in T : BaseGfn[x] < BaseGfn[y] => BaseGfn[x] + Npages[x] <= BaseGfn[y]
  <2>1. ASSUME NEW x \in T, NEW y \in T, BaseGfn[x] < BaseGfn[y]
        PROVE  BaseGfn[x] + Npages[x] <= BaseGfn[y]
    <3>1. x # y /\ BaseGfn[x] <= BaseGfn[y]
      BY <1>3, <2>1
    <3>2. ~ Overlap(x, y)
      BY <3>1 DEF Disjoint
    <3> QED BY <1>1, <3>1, <3>2, EndsBefore
  <2> QED BY <2>1
<1> HIDE DEF above, prev
<1>5. CASE L = {}
  <2>1. Over(T, start) = T /\ W = T
    BY <1>3, <1>5 DEF Over, Reaching
  <2>2. Lowest(T, above)
    BY <1>1, <2>1
  <2>3. Lowest(T, first)
    <3>1. CASE T = {}
      BY <1>1, <2>2, <3>1 DEF Lowest, Highest
    <3>2. CASE T # {}
      <4>1. above \in T /\ above # NULL /\ Highest(Under(T, BaseGfn[above]), prev)
        BY <1>1, <1>3, <2>2, <3>2 DEF Lowest, prev
      <4>2. Under(T, BaseGfn[above]) = {}
        BY <1>3, <2>2, <3>2, <4>1 DEF Under, Lowest
      <4>3. prev = NULL
        BY <4>1, <4>2 DEF Highest
      <4> QED BY <2>2, <4>1, <4>3
    <3> QED BY <3>1, <3>2
  <2> HIDE DEF first
  <2>4. first # NULL => ~(BaseGfn[first] + Npages[first] <= start)
    BY <1>3, <1>5, <2>3 DEF Lowest
  <2> QED BY <1>2, <2>1, <2>3, <2>4
<1>6. CASE L # {}
  <2>1. Highest(L, first)
    <3>1. CASE Over(T, start) = {}
      <4>1. above = NULL
        BY <1>1, <3>1 DEF Lowest
      <4>2. L = T
        BY <1>3, <3>1 DEF Over
      <4> HIDE DEF L
      <4> QED BY <1>1, <4>1, <4>2
    <3>2. CASE Over(T, start) # {}
      <4>1. /\ above \in T /\ above # NULL /\ start < BaseGfn[above]
            /\ \A x \in T : start < BaseGfn[x] => x = above \/ BaseGfn[above] < BaseGfn[x]
        BY <1>1, <1>3, <3>2 DEF Lowest, Over
      <4>2. Under(T, BaseGfn[above]) = L
        BY <1>3, <4>1 DEF Under
      <4>3. Highest(Under(T, BaseGfn[above]), prev)
        BY <1>1, <4>1 DEF prev
      <4> HIDE DEF L
      <4>4. Highest(L, prev)
        BY <4>2, <4>3
      <4>5. prev \in L
        BY <1>6, <4>4 DEF Highest
      <4>6. prev # NULL
        BY <1>3, <4>5 DEF L
      <4> QED BY <4>1, <4>4, <4>6
    <3> QED BY <3>1, <3>2
  <2> HIDE DEF first
  <2>2. /\ first \in T /\ first # NULL /\ BaseGfn[first] <= start
        /\ \A x \in T : BaseGfn[x] <= start => x = first \/ BaseGfn[x] < BaseGfn[first]
    BY <1>3, <1>6, <2>1 DEF Highest
  <2>3. ASSUME NEW x \in T, BaseGfn[x] < BaseGfn[first] PROVE x \notin W
    <3>1. BaseGfn[x] + Npages[x] <= BaseGfn[first]
      BY <1>4, <2>2, <2>3
    <3> QED BY <1>3, <2>2, <3>1 DEF Reaching
  <2>4. ASSUME NEW x \in T, BaseGfn[first] < BaseGfn[x] PROVE x \in W /\ start < BaseGfn[x]
    <3>1. ~(BaseGfn[x] <= start)
      BY <1>3, <2>2, <2>4
    <3> QED BY <1>3, <3>1 DEF Reaching
  <2>5. \A x \in T : x = first \/ BaseGfn[x] < BaseGfn[first] \/ BaseGfn[first] < BaseGfn[x]
    BY <1>3, <2>2
  <2>6. CASE BaseGfn[first] + Npages[first] <= start
    <3>1. first \notin W
      BY <1>3, <2>2, <2>6 DEF Reaching
    <3>2. W = Over(T, BaseGfn[first])
      BY <2>3, <2>4, <2>5, <3>1 DEF Reaching, Over
    <3>3. Lowest(Over(T, BaseGfn[first]), rb_next(t, first))
      BY <1>1, <2>2
    <3> HIDE DEF W
    <3>4. kvm_memslot_iter_start(t, start) = rb_next(t, first)
      BY <1>2, <2>2, <2>6
    <3> QED BY <3>2, <3>3, <3>4 DEF W
  <2>7. CASE ~(BaseGfn[first] + Npages[first] <= start)
    <3>1. first \in W
      BY <1>3, <2>2, <2>7 DEF Reaching
    <3>2. \A x \in W : x = first \/ BaseGfn[first] < BaseGfn[x]
      BY <2>3, <2>5 DEF Reaching
    <3>3. kvm_memslot_iter_start(t, start) = first
      BY <1>2, <2>7
    <3> QED BY <3>1, <3>2, <3>3 DEF Lowest
  <2> QED BY <2>6, <2>7
<1> QED BY <1>5, <1>6

-----------------------------------------------------------------------------
\* What the walk makes of the rest of it: it ends at the nodes of stop.
WalkBody(stop, n, rest) == IF n \in stop THEN <<>> ELSE <<n>> \o rest

WalksTo(f, next, stop) ==
  f = [n \in Link |-> IF n = NULL THEN <<>> ELSE WalkBody(stop, n, f[next[n]])]

\* The equation of the walk has a solution when its steps go down a rank.
LEMMA WalkExists ==
  ASSUME NEW next \in [Slot -> Link], NEW K \in Nat, NEW rank \in [Slot -> 0 .. K], NEW stop,
         \A n \in Slot : next[n] # NULL => rank[next[n]] < rank[n]
  PROVE  \E f : WalksTo(f, next, stop)
<1> DEFINE Partial(f, k) ==
             /\ f[NULL] = <<>>
             /\ \A n \in Slot : rank[n] < k => f[n] = WalkBody(stop, n, f[next[n]])
           Good == {k \in Nat : \E f : Partial(f, k)}
<1>0. NULL \notin Slot /\ NULL \in Link /\ \A n \in Link : n # NULL => n \in Slot
  BY SlotAssumption DEF Link
<1>1. 0 \in Good
  <2> DEFINE f == [n \in Link |-> <<>>]
  <2>1. f[NULL] = <<>>
    BY <1>0
  <2>2. \A n \in Slot : ~(rank[n] < 0)
    OBVIOUS
  <2> HIDE DEF f
  <2>3. Partial(f, 0)
    BY <2>1, <2>2
  <2> QED BY <2>3
<1>2. ASSUME NEW k \in Good PROVE k + 1 \in Good
  <2>1. PICK f : Partial(f, k)
    BY <1>2
  <2> DEFINE h == [n \in Link |-> IF n = NULL \/ rank[n] < k THEN f[n]
                                  ELSE WalkBody(stop, n, f[next[n]])]
  <2>2. h[NULL] = <<>>
    BY <1>0, <2>1
  <2>3. \A n \in Slot : h[n] = IF rank[n] < k THEN f[n] ELSE WalkBody(stop, n, f[next[n]])
    BY <1>0 DEF Link
  <2> HIDE DEF h
  <2>4. ASSUME NEW n \in Slot, rank[n] < k + 1 PROVE h[n] = WalkBody(stop, n, h[next[n]])
    <3>1. h[next[n]] = f[next[n]]
      <4>1. CASE next[n] = NULL
        BY <2>1, <2>2, <4>1
      <4>2. CASE next[n] # NULL
        <5>1. next[n] \in Slot /\ rank[next[n]] < rank[n]
          BY <1>0, <4>2
        <5>2. rank[n] \in Int /\ rank[next[n]] \in Int /\ k \in Int
          BY <5>1
        <5>3. rank[next[n]] < k
          BY ONLY <2>4, <5>1, <5>2
        <5> QED BY <2>3, <5>1, <5>3
      <4> QED BY <4>1, <4>2
    <3>2. h[n] = WalkBody(stop, n, f[next[n]])
      <4>1. CASE rank[n] < k
        <5>1. f[n] = WalkBody(stop, n, f[next[n]])
          BY <2>1, <4>1
        <5> QED BY <2>3, <4>1, <5>1
      <4>2. CASE ~(rank[n] < k)
        BY <2>3, <4>2
      <4> QED BY <4>1, <4>2
    <3> QED BY <3>1, <3>2
  <2>5. Partial(h, k + 1)
    BY <2>2, <2>4
  <2> HIDE DEF Partial
  <2> QED BY <2>5
<1>3. K + 1 \in Good
  <2> HIDE DEF Good
  <2>1. SUFFICES ASSUME K + 1 \notin Good PROVE FALSE
    OBVIOUS
  <2> DEFINE Bad == Nat \ Good
  <2>2. Bad \in SUBSET Nat /\ Bad # {}
    BY <2>1
  <2>3. PICK p \in Bad : \A q \in Bad : p <= q
    BY <2>2, LeastNatural
  <2>4. p # 0 /\ p - 1 \in Nat /\ (p - 1) + 1 = p
    BY <1>1, <2>3
  <2>5. p - 1 \notin Bad
    BY <2>3, <2>4
  <2>6. p - 1 \in Good
    BY <2>4, <2>5
  <2> QED BY <1>2, <2>3, <2>4, <2>6
<1>4. PICK f : Partial(f, K + 1)
  BY <1>3
<1> DEFINE h == [n \in Link |-> f[n]]
<1>5. \A n \in Slot : f[n] = WalkBody(stop, n, f[next[n]])
  <2>1. \A n \in Slot : rank[n] < K + 1
    OBVIOUS
  <2> QED BY <1>4, <2>1
<1>6. ASSUME NEW n \in Link
      PROVE  h[n] = IF n = NULL THEN <<>> ELSE WalkBody(stop, n, h[next[n]])
  <2>1. h[n] = f[n]
    OBVIOUS
  <2>2. CASE n = NULL
    BY <1>4, <2>1, <2>2
  <2>3. CASE n # NULL
    <3>1. n \in Slot /\ next[n] \in Link
      BY <1>0, <2>3
    <3>2. h[next[n]] = f[next[n]]
      BY <3>1
    <3> QED BY <1>5, <2>1, <2>3, <3>1, <3>2
  <2> QED BY <2>2, <2>3
<1>7. h = [n \in Link |-> h[n]]
  OBVIOUS
<1> HIDE DEF h
<1>8. h = [n \in Link |-> IF n = NULL THEN <<>> ELSE WalkBody(stop, n, h[next[n]])]
  BY <1>6, <1>7
<1> QED BY <1>8 DEF WalksTo

\* w is the members of A, lowest first.
Lists(w, A) ==
  /\ w \in Seq(Slot)
  /\ {w[i] : i \in DOMAIN w} = A
  /\ \A i, j \in DOMAIN w : i < j => BaseGfn[w[i]] < BaseGfn[w[j]]

LEMMA ListsNothing == Lists(<<>>, {})
<1>1. <<>> \in Seq(Slot) /\ Len(<<>>) = 0
  BY EmptySeq
<1>2. DOMAIN <<>> = 1 .. 0
  BY <1>1, LenProperties
<1>3. \A i : i \notin DOMAIN <<>>
  BY <1>2
<1> QED BY <1>1, <1>3 DEF Lists

LEMMA ListsOne ==
  ASSUME NEW n \in Slot, NEW w, NEW A, Lists(w, A), \A x \in A : BaseGfn[n] < BaseGfn[x]
  PROVE  Lists(<<n>> \o w, {n} \cup A)
<1> DEFINE v == <<n>> \o w
<1>1. w \in Seq(Slot) /\ <<n>> \in Seq(Slot) /\ Len(<<n>>) = 1 /\ <<n>>[1] = n
  BY DEF Lists
<1>2. /\ v \in Seq(Slot) /\ Len(v) = 1 + Len(w)
      /\ \A i \in 1 .. 1 + Len(w) : v[i] = IF i <= 1 THEN <<n>>[i] ELSE w[i - 1]
  BY <1>1, ConcatProperties
<1>3. Len(w) \in Nat /\ DOMAIN w = 1 .. Len(w)
  BY <1>1, LenProperties
<1>4. DOMAIN v = 1 .. 1 + Len(w)
  BY <1>2, LenProperties
<1> HIDE DEF v
<1>5. v[1] = n
  BY <1>1, <1>2, <1>3
<1>6. ASSUME NEW i \in DOMAIN v, i # 1 PROVE i - 1 \in DOMAIN w /\ v[i] = w[i - 1]
  BY <1>2, <1>3, <1>4, <1>6
<1>7. ASSUME NEW i \in DOMAIN w PROVE i + 1 \in DOMAIN v /\ v[i + 1] = w[i]
  <2>1. i \in 1 .. Len(w) /\ i + 1 \in DOMAIN v /\ i + 1 # 1 /\ (i + 1) - 1 = i
    BY <1>3, <1>4
  <2>2. v[i + 1] = w[(i + 1) - 1]
    BY <1>6, <2>1
  <2> QED BY <2>1, <2>2
<1>8. 1 \in DOMAIN v
  BY <1>3, <1>4
<1>9. {w[i] : i \in DOMAIN w} = A
  BY DEF Lists
<1>10. {v[i] : i \in DOMAIN v} = {n} \cup A
  <2>1. ASSUME NEW x \in {v[i] : i \in DOMAIN v} PROVE x \in {n} \cup A
    <3>1. PICK i \in DOMAIN v : x = v[i]
      OBVIOUS
    <3>2. CASE i = 1
      BY <1>5, <3>1, <3>2
    <3>3. CASE i # 1
      BY <1>6, <1>9, <3>1, <3>3
    <3> QED BY <3>2, <3>3
  <2>2. ASSUME NEW x \in A PROVE x \in {v[i] : i \in DOMAIN v}
    <3>1. PICK i \in DOMAIN w : x = w[i]
      BY <1>9
    <3> QED BY <1>7, <3>1
  <2>3. n \in {v[i] : i \in DOMAIN v}
    BY <1>5, <1>8
  <2> QED BY <2>1, <2>2, <2>3
<1>11. ASSUME NEW i \in DOMAIN v, NEW j \in DOMAIN v, i < j
       PROVE  BaseGfn[v[i]] < BaseGfn[v[j]]
  <2>1. j # 1 /\ j - 1 \in DOMAIN w /\ v[j] = w[j - 1]
    <3>1. j # 1
      BY <1>3, <1>4, <1>11
    <3> QED BY <1>6, <3>1
  <2>2. CASE i = 1
    <3>1. w[j - 1] \in A
      BY <1>9, <2>1
    <3> QED BY <1>5, <2>1, <2>2, <3>1
  <2>3. CASE i # 1
    <3>1. i - 1 \in DOMAIN w /\ v[i] = w[i - 1]
      BY <1>6, <2>3
    <3>2. i - 1 < j - 1
      BY <1>3, <1>4, <1>11
    <3> QED BY <2>1, <3>1, <3>2 DEF Lists
  <2> QED BY <2>2, <2>3
<1>12. Lists(v, {n} \cup A)
  BY <1>2, <1>10, <1>11 DEF Lists
<1> QED BY <1>12 DEF v

\* The slots from m on that start below end.
Onward(T, m, end) == {x \in {m} \cup Over(T, BaseGfn[m]) : BaseGfn[x] < end}

\* The walk along rb_next from any slot lists the ones from there on.
LEMMA WalkIs ==
  ASSUME NEW t, NEW below, Shape(t, below), NEW T, T = below[t.rb_node],
         NEW start \in Nat, NEW end \in Nat
  PROVE  LET r == kvm_memslot_iter_start(t, start)
         IN  /\ r = NULL => Lists(Visited(t, start, end), {})
             /\ r \in T => Lists(Visited(t, start, end), Onward(T, r, end))
<1> DEFINE F(f) == [n \in Link |-> IF n = NULL THEN <<>>
                                   ELSE IF BaseGfn[n] >= end THEN <<>>
                                   ELSE <<n>> \o f[rb_next(t, n)]]
           g == CHOOSE f : f = F(f)
           r == kvm_memslot_iter_start(t, start)
           next == [n \in Slot |-> rb_next(t, n)]
           stop == {n \in Slot : BaseGfn[n] >= end}
           rank == [n \in Slot |-> IF n \in T THEN Cardinality(Over(T, BaseGfn[n])) ELSE 0]
           K == Cardinality(T)
<1>1. Visited(t, start, end) = g[r]
  BY DEF Visited
<1>2. /\ T \subseteq Slot
      /\ \A n \in T : Lowest(Over(T, BaseGfn[n]), rb_next(t, n))
      /\ \A n \in Slot \ T : rb_next(t, n) = NULL
  BY StepsAre
<1>3. \A x \in Slot : BaseGfn[x] \in Nat
  BY RangeAssumption
<1>4. NULL \notin Slot /\ NULL \in Link /\ Slot \subseteq Link /\ \A n \in Link : n # NULL => n \in Slot
  BY SlotAssumption DEF Link
<1>5. ASSUME NEW n \in T, rb_next(t, n) # NULL
      PROVE  /\ rb_next(t, n) \in T /\ BaseGfn[n] < BaseGfn[rb_next(t, n)]
             /\ Over(T, BaseGfn[n]) = {rb_next(t, n)} \cup Over(T, BaseGfn[rb_next(t, n)])
  <2> DEFINE m == rb_next(t, n)
  <2>1. Lowest(Over(T, BaseGfn[n]), m) /\ m # NULL
    BY <1>2, <1>5
  <2> HIDE DEF m
  <2>2. /\ m \in T /\ BaseGfn[n] < BaseGfn[m]
        /\ \A x \in Over(T, BaseGfn[n]) : x = m \/ BaseGfn[m] < BaseGfn[x]
    BY <2>1 DEF Lowest, Over
  <2>3. BaseGfn[n] \in Nat /\ BaseGfn[m] \in Nat /\ \A x \in T : BaseGfn[x] \in Nat
    BY <1>2, <1>3, <2>2
  <2>4. Over(T, BaseGfn[n]) = {m} \cup Over(T, BaseGfn[m])
    BY <2>2, <2>3 DEF Over
  <2> QED BY <2>2, <2>4 DEF m
<1>6. IsFiniteSet(T) /\ \A a : IsFiniteSet(Over(T, a)) /\ Over(T, a) \in SUBSET T
  <2>1. IsFiniteSet(T)
    BY <1>2, SlotAssumption, FS_Subset
  <2>2. \A a : Over(T, a) \in SUBSET T
    BY DEF Over
  <2> QED BY <2>1, <2>2, FS_Subset
<1>7. K \in Nat /\ rank \in [Slot -> 0 .. K]
  <2>1. K \in Nat
    BY <1>6, FS_CardinalityType
  <2>2. \A a : Cardinality(Over(T, a)) \in 0 .. K
    <3>1. \A a : Cardinality(Over(T, a)) \in Nat
      BY <1>6, FS_CardinalityType
    <3>2. \A a : Cardinality(Over(T, a)) <= K
      BY <1>6, FS_Subset
    <3> HIDE DEF K
    <3> QED BY <2>1, <3>1, <3>2
  <2>3. 0 \in 0 .. K
    BY <2>1
  <2> HIDE DEF K
  <2> QED BY <2>1, <2>2, <2>3
<1>8. next \in [Slot -> Link] /\ \A n \in Slot : next[n] = rb_next(t, n)
  <2>1. ASSUME NEW n \in Slot PROVE rb_next(t, n) \in Link
    <3>1. CASE n \in T
      BY <1>2, <1>4, <1>5, <3>1
    <3>2. CASE n \notin T
      BY <1>2, <1>4, <3>2
    <3> QED BY <3>1, <3>2
  <2> QED BY <2>1
<1>9. ASSUME NEW n \in Slot, next[n] # NULL PROVE n \in T /\ next[n] \in T /\ rank[next[n]] < rank[n]
  <2>1. n \in T /\ next[n] \in T /\ next[n] = rb_next(t, n)
    BY <1>2, <1>5, <1>8, <1>9
  <2> DEFINE A == Over(T, BaseGfn[n])
             B == Over(T, BaseGfn[next[n]])
             m == next[n]
  <2>2. A = {m} \cup B /\ BaseGfn[n] < BaseGfn[m]
    BY <1>5, <1>9, <2>1
  <2>3. m \notin B
    BY <1>2, <1>3, <2>1 DEF Over
  <2>4. rank[n] = Cardinality(A) /\ rank[m] = Cardinality(B)
    BY <1>2, <2>1
  <2>5. IsFiniteSet(B)
    BY <1>6
  <2> HIDE DEF A, B, m, rank, next
  <2>6. Cardinality(A) = Cardinality(B) + 1
    <3>1. A = B \cup {m}
      BY <2>2
    <3>2. Cardinality(B \cup {m}) = Cardinality(B) + 1
      BY <2>3, <2>5, FS_AddElement
    <3> QED BY <3>1, <3>2
  <2>7. Cardinality(B) \in Nat
    BY <2>5, FS_CardinalityType
  <2> QED BY <2>1, <2>4, <2>6, <2>7 DEF m
<1>10. g = F(g)
  <2>1. \E f : WalksTo(f, next, stop)
    <3> HIDE DEF next, stop, rank, K
    <3> QED BY <1>7, <1>8, <1>9, WalkExists
  <2>2. PICK f : WalksTo(f, next, stop)
    BY <2>1
  <2>3. f = [n \in Link |-> IF n = NULL THEN <<>> ELSE WalkBody(stop, n, f[next[n]])]
    BY <2>2 DEF WalksTo
  <2>4. ASSUME NEW n \in Link
        PROVE  (IF n = NULL THEN <<>> ELSE WalkBody(stop, n, f[next[n]])) =
               (IF n = NULL THEN <<>> ELSE IF BaseGfn[n] >= end THEN <<>>
                ELSE <<n>> \o f[rb_next(t, n)])
    <3>1. CASE n = NULL
      BY <3>1
    <3>2. CASE n # NULL
      <4>1. next[n] = rb_next(t, n) /\ (n \in stop <=> BaseGfn[n] >= end)
        BY <1>4, <1>8, <3>2
      <4> HIDE DEF next, stop
      <4> QED BY <3>2, <4>1 DEF WalkBody
    <3> QED BY <3>1, <3>2
  <2>5. f = F(f)
    <3> HIDE DEF next, stop
    <3> QED BY <2>3, <2>4
  <2> HIDE DEF F
  <2> QED BY <2>5
<1> HIDE DEF g
<1>11. /\ g[NULL] = <<>>
       /\ \A n \in Slot : g[n] = IF BaseGfn[n] >= end THEN <<>> ELSE <<n>> \o g[rb_next(t, n)]
  BY <1>4, <1>10
<1> HIDE DEF F
<1> DEFINE S == {m \in Slot : m \in T => Lists(g[m], Onward(T, m, end))}
<1>12. ASSUME NEW m \in Slot, \A x \in Slot : rank[x] < rank[m] => x \in S PROVE m \in S
  <2>1. SUFFICES ASSUME m \in T PROVE Lists(g[m], Onward(T, m, end))
    OBVIOUS
  <2> DEFINE n == rb_next(t, m)
  <2>2. Lowest(Over(T, BaseGfn[m]), n) /\ BaseGfn[m] \in Nat /\ next[m] = n
    BY <1>2, <1>3, <1>8, <2>1
  <2>3. CASE BaseGfn[m] >= end
    <3>1. \A x \in {m} \cup Over(T, BaseGfn[m]) : ~(BaseGfn[x] < end)
      BY <1>2, <1>3, <2>2, <2>3 DEF Over
    <3>2. Onward(T, m, end) = {} /\ g[m] = <<>>
      BY <1>11, <2>3, <3>1 DEF Onward
    <3> QED BY <3>2, ListsNothing
  <2>4. CASE ~(BaseGfn[m] >= end)
    <3>1. g[m] = <<m>> \o g[n] /\ BaseGfn[m] < end
      <4>1. BaseGfn[m] < end
        BY <2>2, <2>4
      <4>2. g[m] = IF BaseGfn[m] >= end THEN <<>> ELSE <<m>> \o g[rb_next(t, m)]
        BY <1>11
      <4> QED BY <2>4, <4>1, <4>2
    <3>2. CASE n = NULL
      <4>1. Over(T, BaseGfn[m]) = {}
        <5>1. n \notin Over(T, BaseGfn[m])
          BY <1>2, <1>4, <3>2 DEF Over
        <5> HIDE DEF n
        <5> QED BY <2>2, <5>1 DEF Lowest
      <4>2. Onward(T, m, end) = {m} \cup {}
        BY <3>1, <4>1 DEF Onward
      <4>3. g[n] = <<>>
        BY <1>11, <3>2
      <4> HIDE DEF n
      <4> QED BY <3>1, <4>2, <4>3, ListsNothing, ListsOne
    <3>3. CASE n # NULL
      <4>1. /\ n \in T /\ BaseGfn[m] < BaseGfn[n]
            /\ Over(T, BaseGfn[m]) = {n} \cup Over(T, BaseGfn[n])
        BY <1>5, <2>1, <3>3
      <4>2. rank[n] < rank[m]
        BY <1>9, <2>2, <3>3
      <4>3. n \in S
        BY <1>2, <1>12, <4>1, <4>2
      <4>4. Lists(g[n], Onward(T, n, end))
        BY <4>1, <4>3
      <4>5. Onward(T, m, end) = {m} \cup Onward(T, n, end)
        BY <3>1, <4>1 DEF Onward
      <4>6. \A x \in Onward(T, n, end) : BaseGfn[m] < BaseGfn[x]
        <5>1. \A x \in Onward(T, n, end) : x \in Over(T, BaseGfn[m])
          BY <4>1 DEF Onward
        <5> QED BY <5>1 DEF Over
      <4> HIDE DEF n
      <4> QED BY <3>1, <4>4, <4>5, <4>6, ListsOne
    <3> QED BY <3>2, <3>3
  <2> QED BY <2>3, <2>4
<1>13. S = Slot
  <2>1. S \in SUBSET Slot /\ rank \in [Slot -> Nat]
    BY <1>7
  <2>2. \A m \in Slot : (\A x \in Slot : rank[x] < rank[m] => x \in S) => m \in S
    BY <1>12
  <2> HIDE DEF S, rank
  <2> QED BY <2>1, <2>2, Descent
<1>14. r = NULL => Lists(g[r], {})
  BY <1>11, ListsNothing
<1>15. r \in T => Lists(g[r], Onward(T, r, end))
  BY <1>2, <1>13
<1> QED BY <1>1, <1>14, <1>15

\* The iteration lists the slots that intersect the range, lowest first.
LEMMA VisitedIs ==
  ASSUME NEW t, NEW below, Shape(t, below), NEW T, T = below[t.rb_node], Disjoint(T),
         NEW start \in Nat, NEW end \in Nat
  PROVE  Lists(Visited(t, start, end),
               {s \in T : BaseGfn[s] < end /\ start < BaseGfn[s] + Npages[s]})
<1> DEFINE r == kvm_memslot_iter_start(t, start)
           W == Reaching(T, start)
           Hit == {s \in T : BaseGfn[s] < end /\ start < BaseGfn[s] + Npages[s]}
<1>1. Lowest(W, r)
  BY IterStartIs
<1>2. T \subseteq Slot
  BY StepsAre
<1>3. \A x \in T : x # NULL /\ BaseGfn[x] \in Nat /\ Npages[x] \in Nat \ {0}
  BY <1>2, RangeAssumption, SlotAssumption
<1>4. /\ r = NULL => Lists(Visited(t, start, end), {})
      /\ r \in T => Lists(Visited(t, start, end), Onward(T, r, end))
  BY WalkIs
<1> HIDE DEF r
<1>5. CASE W = {}
  <2>1. r = NULL
    BY <1>1, <1>5 DEF Lowest
  <2>2. Hit = {}
    BY <1>5 DEF Reaching
  <2> HIDE DEF Hit
  <2>3. Lists(Visited(t, start, end), Hit)
    BY <1>4, <2>1, <2>2
  <2> QED BY <2>3 DEF Hit
<1>6. CASE W # {}
  <2>1. /\ r \in T /\ start < BaseGfn[r] + Npages[r]
        /\ \A x \in W : x = r \/ BaseGfn[r] < BaseGfn[x]
    BY <1>1, <1>6 DEF Lowest, Reaching
  <2>2. ASSUME NEW x \in T, BaseGfn[r] < BaseGfn[x] PROVE start < BaseGfn[x] + Npages[x]
    <3>1. x # r /\ BaseGfn[r] <= BaseGfn[x]
      BY <1>3, <2>1, <2>2
    <3>2. ~ Overlap(r, x)
      BY <2>1, <3>1 DEF Disjoint
    <3>3. BaseGfn[r] + Npages[r] <= BaseGfn[x]
      BY <1>2, <2>1, <3>1, <3>2, EndsBefore
    <3> QED BY <1>3, <2>1, <3>3
  <2>3. ASSUME NEW x \in T PROVE x \in Hit <=> x \in Onward(T, r, end)
    <3>1. x \in W <=> x = r \/ BaseGfn[r] < BaseGfn[x]
      BY <2>1, <2>2 DEF Reaching
    <3>2. x \in Hit <=> x \in W /\ BaseGfn[x] < end
      BY DEF Reaching
    <3>3. x \in Onward(T, r, end) <=> (x = r \/ BaseGfn[r] < BaseGfn[x]) /\ BaseGfn[x] < end
      BY DEF Onward, Over
    <3> QED BY <3>1, <3>2, <3>3
  <2>4. Onward(T, r, end) \subseteq T
    BY <2>1 DEF Onward, Over
  <2>5. Hit = Onward(T, r, end)
    BY <2>3, <2>4
  <2> HIDE DEF Hit
  <2>6. Lists(Visited(t, start, end), Hit)
    BY <1>4, <2>1, <2>5
  <2> QED BY <2>6 DEF Hit
<1> QED BY <1>5, <1>6

-----------------------------------------------------------------------------
(***************************************************************************)
(* The inductive invariant                                                 *)
(***************************************************************************)

\* The tree has the certificate that the place in the code calls for.
Certified ==
  /\ pc \in {"idle", "link"} => Balances(tree, Members)
  /\ pc = "insert" => Inserts(tree, Members, node, parent)
  /\ pc = "erase_color" => Erases(tree, Members, node, parent)

\* The slot that waits for its insertion starts at a frame of its own.
NewFits ==
  /\ pc = "link" => new # NULL
  /\ pc \in {"idle", "insert"} => new = NULL
  /\ new # NULL => new \notin Members /\ \A s \in Members : BaseGfn[s] # BaseGfn[new]

IInv == TypeOK /\ Certified /\ NewFits

LEMMA MembersAreSlots ==
  ASSUME IInv
  PROVE  /\ Members \in SUBSET Slot
         /\ \E below : Shape(tree, below) /\ below[tree.rb_node] = Members
<1>1. pc \in {"idle", "erase_color", "link", "insert"}
  BY DEF IInv, TypeOK
<1>2. \/ Balances(tree, Members)
      \/ \E n, p : Inserts(tree, Members, n, p)
      \/ \E n, p : Erases(tree, Members, n, p)
  BY <1>1 DEF IInv, Certified
<1> QED BY <1>2, NodesAre

LEMMA Initially ==
  ASSUME Init
  PROVE  IInv /\ Members = {}
<1> DEFINE below == [m \in Link |-> IF m = NULL THEN {} ELSE {m}]
           bh == [m \in Link |-> 0]
<1>1. /\ NULL \in Link /\ tree.rb_node = NULL /\ below[NULL] = {} /\ bh[NULL] = 0
      /\ below \in [Link -> SUBSET Slot] /\ bh \in [Link -> Nat]
      /\ \A m \in Slot : m \in Link /\ m # NULL /\ below[m] = {m} /\ bh[m] = 0
  BY SlotAssumption DEF Init, Link
<1>2. tree \in Tree
  BY <1>1 DEF Init, Tree, Colour
<1>3. \A m \in Slot : /\ tree.rb_left[m] = NULL /\ tree.rb_right[m] = NULL
                      /\ tree.parent[m] = NULL /\ tree.color[m] = "red"
  BY DEF Init
<1>4. \A m \in Slot : \A s \in Side : tree[s][m] = NULL /\ tree[Opposite(s)][m] = NULL
  BY <1>2, <1>3, Fields DEF Side, Opposite
<1> HIDE DEF below, bh
<1>5. Ordered(tree, below)
  BY <1>1, <1>4 DEF Ordered
<1>6. Linked(tree, below)
  BY <1>1, <1>3, <1>4 DEF Linked
<1>7. Balanced(tree, bh, NULL, NULL)
  <2>1. ASSUME NEW m \in Slot, NEW s \in Side
        PROVE  bh[m] = bh[tree[s][m]] + Lack(NULL, NULL, m, s) + Weight(tree, m)
    <3>1. Lack(NULL, NULL, m, s) = 0 /\ Weight(tree, m) = 0
      BY <1>1, <1>3 DEF Lack, Weight
    <3>2. bh[m] = 0 /\ bh[tree[s][m]] = 0
      BY <1>1, <1>4
    <3> QED BY ONLY <3>1, <3>2
  <2> QED BY <1>1, <2>1 DEF Balanced
<1>8. NoRedPair(tree, NULL) /\ IsBlackOrNull(tree, tree.rb_node)
  BY <1>1, <1>4 DEF NoRedPair, IsBlackOrNull
<1>9. Finished(tree, below, bh) /\ below[tree.rb_node] = {}
  BY <1>1, <1>2, <1>5, <1>6, <1>7, <1>8 DEF Finished, Shape
<1>10. Balances(tree, {})
  BY <1>9 DEF Balances
<1>11. Members = {}
  BY <1>10, NodesAre DEF Members, Root
<1> QED BY <1>2, <1>10, <1>11 DEF IInv, TypeOK, Certified, NewFits, Init, Link

\* The set of nodes after a step, from the certificate of the new tree.
LEMMA NextMembers ==
  ASSUME NEW S,
         \/ Balances(tree', S)
         \/ \E n, p : Inserts(tree', S, n, p)
         \/ \E n, p : Erases(tree', S, n, p)
  PROVE  Members' = S /\ tree' \in Tree
BY NodesAre DEF Members, Root

LEMMA LinkKeeps ==
  ASSUME IInv, kvm_insert_gfn_node
  PROVE  /\ IInv' /\ new \in Slot /\ Members' = Members \cup {new}
         /\ \A s \in Members : BaseGfn[s] # BaseGfn[new]
<1>1. /\ pc = "link" /\ new \in Slot /\ new \notin Members /\ Balances(tree, Members)
      /\ \A s \in Members : BaseGfn[s] # BaseGfn[new]
  BY DEF IInv, TypeOK, Certified, NewFits, kvm_insert_gfn_node, Link
<1>2. /\ Root = NULL => /\ tree' = WithRoot(rb_link_node(tree, new, NULL), new)
                        /\ parent' = NULL
      /\ Root # NULL =>
           LET at == InsertPoint(tree, new)
           IN  /\ tree' = SetChild(rb_link_node(tree, new, at[1]), at[1], at[2], new)
               /\ parent' = at[1]
      /\ node' = new /\ new' = NULL /\ pc' = "insert"
  BY DEF kvm_insert_gfn_node, WithRoot
<1>3. Inserts(tree', Members \cup {new}, new, parent')
  BY <1>1, <1>2, LinkStep DEF Root
<1>4. Members' = Members \cup {new} /\ tree' \in Tree
  BY <1>3, NextMembers
<1>5. new \in Link /\ parent' \in Link /\ NULL \in Link
  BY <1>1, <1>3 DEF Inserts, Link
<1>6. TypeOK'
  BY <1>2, <1>4, <1>5 DEF TypeOK
<1>7. Certified'
  BY <1>2, <1>3, <1>4 DEF Certified
<1>8. NewFits'
  BY <1>2 DEF NewFits
<1> QED BY <1>1, <1>4, <1>6, <1>7, <1>8 DEF IInv

LEMMA InsertDoneKeeps ==
  ASSUME IInv, InsertDone
  PROVE  IInv' /\ Members' = Members
<1>1. Inserts(tree, Members, node, parent) /\ new = NULL /\ IsBlackOrNull(tree, parent)
  BY DEF IInv, Certified, NewFits, InsertDone
<1>2. /\ tree' = IF parent = NULL
                 THEN rb_set_parent_color(tree, node, NULL, "black") ELSE tree
      /\ pc' = "idle" /\ node' = NULL /\ parent' = NULL /\ new' = NULL
  BY <1>1 DEF InsertDone, Return
<1>3. Balances(tree', Members)
  BY <1>1, <1>2, InsertDoneStep
<1>4. Members' = Members /\ tree' \in Tree
  BY <1>3, NextMembers
<1> QED BY <1>2, <1>3, <1>4 DEF IInv, TypeOK, Certified, NewFits, Link

LEMMA InsertFlipKeeps ==
  ASSUME IInv, InsertFlip
  PROVE  IInv' /\ Members' = Members
<1>1. /\ Inserts(tree, Members, node, parent) /\ pc = "insert" /\ new = NULL
      /\ ~ IsBlackOrNull(tree, parent) /\ ~ IsBlackOrNull(tree, Uncle)
  BY DEF IInv, Certified, NewFits, InsertFlip
<1>2. /\ tree' = rb_set_parent_color(
                   rb_set_parent_color(rb_set_parent_color(tree, Uncle, Gparent, "black"),
                                       parent, Gparent, "black"),
                   Gparent, tree.parent[Gparent], "red")
      /\ node' = Gparent /\ parent' = tree.parent[Gparent]
      /\ pc' = "insert" /\ new' = NULL
  BY <1>1 DEF InsertFlip
<1>3. /\ Gparent = tree.parent[parent]
      /\ ParentSide = IF parent # tree.rb_right[Gparent] THEN "rb_left" ELSE "rb_right"
      /\ Uncle = tree[Opposite(ParentSide)][Gparent]
  BY DEF Gparent, ParentSide, Uncle
<1>4. Inserts(tree', Members, Gparent, tree.parent[Gparent])
  BY ONLY <1>1, <1>2, <1>3, InsertFlipStep
<1>5. Members' = Members /\ tree' \in Tree
  BY <1>4, NextMembers
<1>6. node' \in Link /\ parent' \in Link
  BY <1>2, <1>4 DEF Inserts, Link
<1> QED BY <1>2, <1>4, <1>5, <1>6 DEF IInv, TypeOK, Certified, NewFits, Link

LEMMA InsertRotateKeeps ==
  ASSUME IInv, NEW side \in Side, InsertRotate(side)
  PROVE  IInv' /\ Members' = Members
<1>1. /\ Inserts(tree, Members, node, parent) /\ pc = "insert" /\ new = NULL
      /\ ~ IsBlackOrNull(tree, parent) /\ IsBlackOrNull(tree, Uncle) /\ ParentSide = side
  BY DEF IInv, Certified, NewFits, InsertRotate
<1>2. /\ tree' = IF node = tree[Opposite(side)][parent]
                 THEN RotateAtGparent(RotateAtParent(tree, node, parent, side),
                                      Gparent, node, side)
                 ELSE RotateAtGparent(tree, Gparent, parent, side)
      /\ pc' = "idle" /\ node' = NULL /\ parent' = NULL /\ new' = NULL
  BY <1>1 DEF InsertRotate, Return
<1>3. /\ Gparent = tree.parent[parent]
      /\ side = IF parent # tree.rb_right[Gparent] THEN "rb_left" ELSE "rb_right"
      /\ IsBlackOrNull(tree, tree[Opposite(side)][Gparent])
  BY <1>1 DEF Gparent, ParentSide, Uncle
<1>4. Balances(tree', Members)
  BY ONLY <1>1, <1>2, <1>3, InsertRotateStep
<1>5. Members' = Members /\ tree' \in Tree
  BY <1>4, NextMembers
<1> QED BY <1>2, <1>4, <1>5 DEF IInv, TypeOK, Certified, NewFits, Link

LEMMA EraseColorKeeps ==
  ASSUME IInv, NEW side, side = IF NodeIsRight THEN "rb_right" ELSE "rb_left",
         EraseColor(side)
  PROVE  IInv' /\ Members' = Members
<1> DEFINE w == RedSibling(tree, parent, side)
           flip == rb_set_parent_color(w, SiblingOf(w, parent, side), parent, "red")
<1>1. /\ pc = "erase_color" /\ Erases(tree, Members, node, parent)
      /\ new \in Link /\ NULL \in Link
      /\ new # NULL => new \notin Members /\ \A s \in Members : BaseGfn[s] # BaseGfn[new]
  BY DEF IInv, TypeOK, Certified, NewFits, EraseColor, Link
<1>2. RecolourStart(tree, Members, node, parent, side)
  BY <1>1, EraseSide DEF NodeIsRight
<1>3. /\ ~ BlackNephews(w, parent, side) =>
           Balances(RotateAndFlip(RotateAtSibling(w, parent, side), parent, side), Members)
      /\ BlackNephews(w, parent, side) /\ rb_is_red(w, parent) =>
           Balances(rb_set_black(flip, parent), Members)
      /\ BlackNephews(w, parent, side) /\ ~ rb_is_red(w, parent) /\ tree.parent[parent] = NULL =>
           Balances(flip, Members)
      /\ BlackNephews(w, parent, side) /\ ~ rb_is_red(w, parent) /\ tree.parent[parent] # NULL =>
           Erases(flip, Members, parent, tree.parent[parent])
  BY <1>2, EraseColorStep
<1>4. \/ /\ ~ BlackNephews(w, parent, side)
         /\ tree' = RotateAndFlip(RotateAtSibling(w, parent, side), parent, side)
         /\ Return(AfterErase)
      \/ /\ BlackNephews(w, parent, side) /\ rb_is_red(w, parent)
         /\ tree' = rb_set_black(flip, parent)
         /\ Return(AfterErase)
      \/ /\ BlackNephews(w, parent, side) /\ ~ rb_is_red(w, parent)
         /\ tree.parent[parent] = NULL /\ tree' = flip
         /\ Return(AfterErase)
      \/ /\ BlackNephews(w, parent, side) /\ ~ rb_is_red(w, parent)
         /\ tree.parent[parent] # NULL /\ tree' = flip
         /\ node' = parent /\ parent' = tree.parent[parent]
         /\ UNCHANGED <<pc, new>>
  BY DEF EraseColor, Climb
<1> HIDE DEF w, flip
<1>5. \/ Balances(tree', Members) /\ Return(AfterErase)
      \/ /\ Erases(tree', Members, parent, tree.parent[parent])
         /\ node' = parent /\ parent' = tree.parent[parent]
         /\ UNCHANGED <<pc, new>>
  BY <1>3, <1>4
<1>6. CASE Balances(tree', Members) /\ Return(AfterErase)
  <2>1. Members' = Members /\ tree' \in Tree
    BY <1>6, NextMembers
  <2>2. /\ pc' = IF new # NULL THEN "link" ELSE "idle"
        /\ node' = NULL /\ parent' = NULL /\ new' = new
    BY <1>6 DEF Return, AfterErase
  <2> QED BY <1>1, <1>6, <2>1, <2>2 DEF IInv, TypeOK, Certified, NewFits
<1>7. CASE /\ Erases(tree', Members, parent, tree.parent[parent])
           /\ node' = parent /\ parent' = tree.parent[parent]
           /\ UNCHANGED <<pc, new>>
  <2>1. Members' = Members /\ tree' \in Tree
    BY <1>7, NextMembers
  <2>2. node' \in Link /\ parent' \in Link
    BY <1>7 DEF IInv, TypeOK, Erases, Link
  <2> QED BY <1>1, <1>7, <2>1, <2>2 DEF IInv, TypeOK, Certified, NewFits
<1> QED BY <1>5, <1>6, <1>7

\* Slots that do not overlap start at different frames.
LEMMA ApartStarts ==
  ASSUME NEW s \in Slot, NEW o \in Slot, ~ Overlap(s, o)
  PROVE  BaseGfn[s] # BaseGfn[o]
<1>1. /\ BaseGfn[s] \in Nat /\ BaseGfn[o] \in Nat
      /\ Npages[s] \in Nat \ {0} /\ Npages[o] \in Nat \ {0}
  BY RangeAssumption
<1> QED BY <1>1 DEF Overlap

\* kvm_replace_memslot keeps the invariant, and takes the step of the set that
\* the slots it is given ask for.
LEMMA ReplaceKeeps ==
  ASSUME IInv, NEW old \in Link, NEW nw \in Link, kvm_replace_memslot(old, nw)
  PROVE  /\ IInv'
         /\ \/ old \in Members /\ old \in Slot /\ Members' = Members \ {old}
            \/ /\ old \in Members /\ old \in Slot /\ nw \in Slot \ Members
               /\ BaseGfn[old] = BaseGfn[nw]
               /\ Members' = (Members \ {old}) \cup {nw}
            \/ old = NULL /\ Members' = Members
<1>1. /\ pc = "idle" /\ Balances(tree, Members) /\ node \in Link /\ parent \in Link
      /\ new = NULL /\ NULL \in Link /\ Members \in SUBSET Slot
  BY MembersAreSlots DEF IInv, TypeOK, Certified, NewFits, kvm_replace_memslot, Link
<1>2. /\ old # NULL => old \in Members /\ old \in Slot
      /\ nw # NULL => nw \in Slot /\ nw \notin Members
      /\ nw # NULL => \A s \in Members \ {old} : BaseGfn[s] # BaseGfn[nw]
  BY <1>1, ApartStarts DEF kvm_replace_memslot, Link
<1>3. CASE old # NULL /\ kvm_erase_gfn_node(old, nw)
  <2> DEFINE p == __rb_erase_augmented(tree, old).rebalance
  <2>1. /\ tree' = Forget(__rb_erase_augmented(tree, old).tree, old)
        /\ parent' = p /\ node' = NULL /\ new' = nw
        /\ pc' = IF p # NULL THEN "erase_color" ELSE IF nw # NULL THEN "link" ELSE "idle"
    BY <1>3 DEF kvm_erase_gfn_node
  <2>2. old \in Members /\ p = __rb_erase_augmented(tree, old).rebalance
    BY <1>2, <1>3
  <2> HIDE DEF p
  <2>3. /\ p = NULL => Balances(tree', Members \ {old})
        /\ p # NULL => Erases(tree', Members \ {old}, NULL, p)
    BY ONLY <1>1, <2>1, <2>2, EraseStep
  <2>4. Members' = Members \ {old} /\ tree' \in Tree
    BY <2>3, NextMembers
  <2>5. p \in Link
    BY <1>1, <2>3 DEF Erases, Link
  <2>6. TypeOK'
    BY <1>1, <2>1, <2>4, <2>5 DEF TypeOK
  <2>7. Certified'
    BY <2>1, <2>3, <2>4 DEF Certified
  <2>8. NewFits'
    BY <1>2, <2>1, <2>4 DEF NewFits
  <2> QED BY <1>2, <1>3, <2>4, <2>6, <2>7, <2>8 DEF IInv
<1>4. CASE /\ old # NULL /\ nw # NULL
           /\ BaseGfn[old] = BaseGfn[nw]
           /\ tree' = Forget(rb_replace_node(tree, old, nw), old)
           /\ UNCHANGED <<pc, node, parent, new>>
  <2>1. Balances(tree', (Members \ {old}) \cup {nw})
    BY <1>1, <1>2, <1>4, ReplaceStep
  <2>2. Members' = (Members \ {old}) \cup {nw} /\ tree' \in Tree
    BY <2>1, NextMembers
  <2>3. IInv'
    BY <1>1, <1>4, <2>1, <2>2 DEF IInv, TypeOK, Certified, NewFits
  <2> QED BY <1>2, <1>4, <2>2, <2>3
<1>5. CASE /\ old = NULL /\ nw # NULL /\ pc' = "link" /\ new' = nw
           /\ UNCHANGED <<tree, node, parent>>
  <2>1. Members' = Members
    BY <1>5 DEF Members, Root
  <2>2. Members \ {old} = Members
    BY <1>1, <1>5, SlotAssumption
  <2>3. TypeOK'
    BY <1>5 DEF IInv, TypeOK
  <2>4. Certified'
    BY <1>1, <1>5, <2>1 DEF Certified
  <2>5. NewFits'
    BY <1>2, <1>5, <2>1, <2>2 DEF NewFits
  <2> QED BY <1>5, <2>1, <2>3, <2>4, <2>5 DEF IInv
<1> QED BY <1>3, <1>4, <1>5 DEF kvm_replace_memslot

\* Every step keeps the invariant and is, on the set of nodes, a step of GfnSet.
LEMMA Invariant ==
  ASSUME IInv, [Next]_vars
  PROVE  IInv' /\ [Abstract!Next]_Members
<1>1. CASE kvm_insert_gfn_node
  <2>1. /\ IInv' /\ new \in Slot /\ Members' = Members \cup {new}
        /\ \A s \in Members : BaseGfn[s] # BaseGfn[new]
    BY <1>1, LinkKeeps
  <2> QED BY <2>1 DEF Abstract!Next, Abstract!Insert
<1>2. CASE InsertDone
  BY <1>2, InsertDoneKeeps
<1>3. CASE InsertFlip
  BY <1>3, InsertFlipKeeps
<1>4. CASE InsertRotateLeft \/ InsertRotateRight
  BY <1>4, InsertRotateKeeps DEF InsertRotateLeft, InsertRotateRight, Side
<1>5. CASE EraseColorLeft \/ EraseColorRight
  <2> DEFINE side == IF NodeIsRight THEN "rb_right" ELSE "rb_left"
  <2>1. EraseColor(side)
    BY <1>5 DEF EraseColorLeft, EraseColorRight
  <2>2. side = IF NodeIsRight THEN "rb_right" ELSE "rb_left"
    OBVIOUS
  <2> HIDE DEF side
  <2> QED BY <2>1, <2>2, EraseColorKeeps
<1>6. ASSUME NEW old \in Link, NEW nw \in Link, kvm_replace_memslot(old, nw)
      PROVE  IInv' /\ [Abstract!Next]_Members
  <2>1. /\ IInv'
        /\ \/ old \in Members /\ old \in Slot /\ Members' = Members \ {old}
           \/ /\ old \in Members /\ old \in Slot /\ nw \in Slot \ Members
              /\ BaseGfn[old] = BaseGfn[nw]
              /\ Members' = (Members \ {old}) \cup {nw}
           \/ Members' = Members
    BY <1>6, ReplaceKeeps
  <2> QED BY <2>1 DEF Abstract!Next, Abstract!Erase, Abstract!Exchange
<1>7. CASE UNCHANGED vars
  BY <1>7 DEF vars, IInv, TypeOK, Certified, NewFits, Members, Root
<1> QED BY <1>1, <1>2, <1>3, <1>4, <1>5, <1>6, <1>7 DEF Next, Step

-----------------------------------------------------------------------------
\* No two slots overlap, of those in the tree and the one that is to enter it.
Apart == Disjoint(Members \cup ({new} \ {NULL}))

LEMMA ApartKept ==
  ASSUME IInv, Apart, [Next]_vars
  PROVE  Apart'
<1> DEFINE Coming == Members \cup ({new} \ {NULL})
<1>1. CASE kvm_insert_gfn_node
  <2>1. new \in Slot /\ Members' = Members \cup {new} /\ new' = NULL
    BY <1>1, LinkKeeps DEF kvm_insert_gfn_node
  <2>2. Coming' = Coming
    BY <2>1, SlotAssumption
  <2> QED BY <2>2 DEF Apart
<1>2. ASSUME Members' = Members, new' = new PROVE Apart'
  BY <1>2 DEF Apart
<1>3. CASE InsertDone
  BY <1>2, <1>3, InsertDoneKeeps DEF InsertDone, Return
<1>4. CASE InsertFlip
  BY <1>2, <1>4, InsertFlipKeeps DEF InsertFlip
<1>5. CASE InsertRotateLeft \/ InsertRotateRight
  <2>1. PICK side \in Side : InsertRotate(side)
    BY <1>5 DEF InsertRotateLeft, InsertRotateRight, Side
  <2> QED BY <1>2, <2>1, InsertRotateKeeps DEF InsertRotate, Return
<1>6. CASE EraseColorLeft \/ EraseColorRight
  <2> DEFINE side == IF NodeIsRight THEN "rb_right" ELSE "rb_left"
  <2>1. EraseColor(side)
    BY <1>6 DEF EraseColorLeft, EraseColorRight
  <2>2. side = IF NodeIsRight THEN "rb_right" ELSE "rb_left"
    OBVIOUS
  <2> HIDE DEF side
  <2>3. Members' = Members
    BY <2>1, <2>2, EraseColorKeeps
  <2>4. new' = new
    BY <2>1 DEF EraseColor, Return
  <2> QED BY <1>2, <2>3, <2>4
<1>7. ASSUME NEW old \in Link, NEW nw \in Link, kvm_replace_memslot(old, nw) PROVE Apart'
  <2>1. \/ old \in Members /\ old \in Slot /\ Members' = Members \ {old}
        \/ /\ old \in Members /\ old \in Slot /\ nw \in Slot \ Members
           /\ BaseGfn[old] = BaseGfn[nw]
           /\ Members' = (Members \ {old}) \cup {nw}
        \/ old = NULL /\ Members' = Members
    BY <1>7, ReplaceKeeps
  <2>2. new = NULL /\ new' \in {nw, NULL}
    BY <1>7 DEF IInv, NewFits, kvm_replace_memslot, kvm_erase_gfn_node
  <2>3. nw # NULL => \A s \in Members \ {old} : ~ Overlap(s, nw)
    BY <1>7 DEF kvm_replace_memslot
  <2>4. Members \in SUBSET Slot /\ NULL \notin Members /\ Disjoint(Members)
    <3>1. Members \cup ({new} \ {NULL}) = Members
      BY <2>2
    <3>2. Members \in SUBSET Slot
      BY MembersAreSlots
    <3> QED BY <3>1, <3>2, SlotAssumption DEF Apart
  <2> DEFINE Rest == (Members \ {old}) \cup ({nw} \ {NULL})
  <2>5. (Members \cup ({new} \ {NULL}))' \subseteq Rest
    <3>1. Members' \subseteq Rest
      BY <2>1, <2>4, SlotAssumption
    <3>2. ({new} \ {NULL})' \subseteq Rest
      BY <2>2
    <3> QED BY <3>1, <3>2
  <2>6. \A x, y \in Rest : x = y \/ ~ Overlap(x, y)
    BY <2>3, <2>4 DEF Disjoint, Overlap
  <2> QED BY <2>5, <2>6 DEF Apart, Disjoint, Overlap
<1>8. CASE UNCHANGED vars
  <2>1. Members' = Members /\ new' = new
    BY <1>8 DEF vars, Members, Root
  <2> QED BY <1>2, <2>1
<1> QED BY <1>1, <1>3, <1>4, <1>5, <1>6, <1>7, <1>8 DEF Next, Step

LEMMA LookupsSound ==
  ASSUME IInv, Apart
  PROVE  LookupsAgree
<1>1. PICK below : Shape(tree, below) /\ below[tree.rb_node] = Members
  BY MembersAreSlots
<1>2. Disjoint(Members) /\ Gfn \subseteq Nat
  BY RangeAssumption DEF Apart, Disjoint
<1>3. ASSUME NEW gfn \in Gfn
      PROVE  LET found == search_memslots(tree, gfn)
                 hits == {s \in Members : BaseGfn[s] <= gfn /\ gfn < BaseGfn[s] + Npages[s]}
             IN  IF hits = {} THEN found = NULL ELSE found \in hits
  <2> DEFINE hits == {s \in Members : BaseGfn[s] <= gfn /\ gfn < BaseGfn[s] + Npages[s]}
  <2>1. hits = {s \in Members : Holds(s, gfn)}
    BY DEF Holds
  <2>2. search_memslots(tree, gfn) = Pick({s \in Members : Holds(s, gfn)})
    BY <1>1, <1>2, SearchIs
  <2> HIDE DEF hits
  <2>3. search_memslots(tree, gfn) = Pick(hits)
    BY <2>1, <2>2
  <2>4. IF hits = {} THEN search_memslots(tree, gfn) = NULL
        ELSE search_memslots(tree, gfn) \in hits
    BY <2>3, PickIs
  <2> QED BY <2>4 DEF hits
<1>4. ASSUME NEW start \in Gfn, NEW end \in Gfn
      PROVE  LET seen == Visited(tree, start, end)
             IN  /\ {seen[i] : i \in DOMAIN seen} =
                      {s \in Members : BaseGfn[s] < end /\ start < BaseGfn[s] + Npages[s]}
                 /\ \A i, j \in DOMAIN seen : i < j => BaseGfn[seen[i]] < BaseGfn[seen[j]]
  <2>1. Lists(Visited(tree, start, end),
              {s \in Members : BaseGfn[s] < end /\ start < BaseGfn[s] + Npages[s]})
    BY <1>1, <1>2, VisitedIs
  <2> QED BY <2>1 DEF Lists
<1> QED BY <1>3, <1>4 DEF LookupsAgree

-----------------------------------------------------------------------------
(***************************************************************************)
(* Theorems                                                                *)
(***************************************************************************)

LEMMA Sound ==
  ASSUME IInv
  PROVE  WellFormed
<1>1. PICK below : Shape(tree, below) /\ below[tree.rb_node] = Members
  BY MembersAreSlots
<1>2. SearchOrder
  BY <1>1, InOrder DEF SearchOrder
<1>3. ParentLinksAgree
  <2>1. Root # NULL => tree.parent[Root] = NULL
    BY <1>1 DEF Root, Shape, Linked
  <2>2. \A n \in Members : \A side \in Side :
          tree[side][n] # NULL => tree.parent[tree[side][n]] = n
    BY <1>1, InOrder
  <2> QED BY <2>1, <2>2 DEF ParentLinksAgree
<1>4. RedBlack
  BY BalancedTree DEF IInv, Certified, RedBlack, Root
<1>5. LoopInvariant
  <2>1. ASSUME pc = "insert"
        PROVE  /\ tree.color[node] = "red" /\ tree.parent[node] = parent
               /\ RedRed(tree) \subseteq {node}
               /\ Cardinality(BlackHeights(tree, Root)) = 1
    BY <2>1, InsertLoop DEF IInv, Certified, Root
  <2>2. ASSUME pc = "erase_color", NEW side,
               side = IF NodeIsRight THEN "rb_right" ELSE "rb_left"
        PROVE  /\ IsBlackOrNull(tree, node) /\ tree[side][parent] = node
               /\ RedRed(tree) = {}
               /\ BlackHeights(tree, tree[Opposite(side)][parent]) =
                    {h + 1 : h \in BlackHeights(tree, node)}
               /\ Cardinality(BlackHeights(tree, tree[Opposite(side)][parent])) = 1
    <3>1. Erases(tree, Members, node, parent)
      BY <2>2 DEF IInv, Certified
    <3>2. RecolourStart(tree, Members, node, parent, side)
      BY <2>2, <3>1, EraseSide DEF NodeIsRight
    <3> QED BY <3>2, EraseLoop
  <2> QED BY <2>1, <2>2 DEF LoopInvariant
<1> QED BY <1>2, <1>3, <1>4, <1>5 DEF WellFormed

\* Every step of the operations of rbtree.c leaves the tree with a certificate:
\* its subtrees as sets of slots, and its black heights.
THEOREM Invariance == Spec => []IInv
<1>1. Init => IInv
  BY Initially
<1>2. IInv /\ [Next]_vars => IInv'
  BY Invariant
<1> QED BY <1>1, <1>2, PTL DEF Spec

\* The links of the tree stay nodes or NULL, colours stay red or black
\* (rb_set_black never adds to a node that is black already) and the locals of
\* the loops stay nodes or NULL.
THEOREM TypeCorrect == Spec => []TypeOK
<1>1. IInv => TypeOK
  BY DEF IInv
<1> QED BY <1>1, Invariance, PTL

\* At every step of __rb_insert, ____rb_erase_color, __rb_erase_augmented and
\* rb_replace_node the tree is in order, its parent links agree, it is a
\* red-black tree between two operations, and the loops' own invariants hold.
THEOREM TreeIsSound == Spec => []WellFormed
<1>1. IInv => WellFormed
  BY Sound
<1> QED BY <1>1, Invariance, PTL

\* The tree implements the set of slots: kvm_insert_gfn_node, kvm_erase_gfn_node
\* and rb_replace_node change the set in one step, rebalancing never does.
THEOREM Refinement == Spec => ImplementsGfnSet
<1>1. Init => Abstract!Init
  BY Initially DEF Abstract!Init
<1>2. IInv /\ [Next]_vars => [Abstract!Next]_Members
  BY Invariant
<1> QED BY <1>1, <1>2, Invariance, PTL DEF Spec, ImplementsGfnSet, Abstract!Spec

\* Between two operations search_memslots returns the slot that holds a frame,
\* or NULL when none does, and the iteration of kvm_for_each_memslot_in_gfn_range
\* (kvm_memslot_iter_start, then rb_next) visits exactly the slots that intersect
\* the range, lowest first.  It needs, beside the shape of the tree, that no two
\* slots overlap, which kvm_check_memslot_overlap keeps so.
THEOREM LookupsCorrect == Spec => []LookupsAgree
<1>1. Init => Apart
  BY Initially DEF Apart, Disjoint, Init
<1>2. IInv /\ Apart /\ [Next]_vars => Apart'
  BY ApartKept
<1>3. IInv /\ Apart => LookupsAgree
  BY LookupsSound
<1> QED BY <1>1, <1>2, <1>3, Invariance, PTL DEF Spec

=============================================================================
