-------------------------------- MODULE RbTree --------------------------------
(***************************************************************************)
(* The red-black tree of rbtree.c, as kvm_replace_memslot uses it for the  *)
(* gfn tree of a memslot set, at the level of its pointers.                *)
(*                                                                         *)
(* An operation is a step that links or unlinks a node, then one step for  *)
(* each iteration of the rebalancing loop.  Only the set that is not       *)
(* active is changed, so look-ups see the tree between operations: they    *)
(* are operators.                                                          *)
(*                                                                         *)
(* rbtree.c writes every case twice, for a left and for a right child.     *)
(* The operators take the side as an argument; Opposite is the mirror.     *)
(***************************************************************************)
EXTENDS Integers, FiniteSets, Sequences

CONSTANTS
  Slot,      \* memory slots: each holds the node of this tree
  BaseGfn,   \* base_gfn and npages of a slot
  Npages,
  Volatile,  \* bound: the other slots enter once, in order, and stay
  Moves,     \* bound: the pairs <<old, new>> that one change replaces
  Gfn,       \* frames that are looked up
  NULL

ASSUME SlotAssumption == NULL \notin Slot /\ IsFiniteSet(Slot)
ASSUME RangeAssumption ==
  /\ BaseGfn \in [Slot -> Nat]
  /\ Npages \in [Slot -> Nat \ {0}]
  /\ Volatile \subseteq Slot
  /\ Moves \subseteq Volatile \X Volatile
  /\ Gfn \subseteq Nat

VARIABLES
  tree,          \* struct rb_root and every struct rb_node
  pc,            \* "idle", or the loop or call that is next
  node, parent,  \* locals of ____rb_erase_color and __rb_insert
  new            \* the slot still to be inserted

vars == <<tree, pc, node, parent, new>>

Link == Slot \cup {NULL}
Side == {"rb_left", "rb_right"}
Colour == {"red", "black"}

\* struct rb_root and struct rb_node; __rb_parent_color is two fields.
Tree ==
  [rb_node : Link, rb_left : [Slot -> Link], rb_right : [Slot -> Link],
   parent : [Slot -> Link], color : [Slot -> Colour]]

TypeOK ==
  /\ tree \in Tree
  /\ pc \in {"idle", "erase_color", "link", "insert"}
  /\ node \in Link
  /\ parent \in Link
  /\ new \in Link

Init ==
  /\ tree = [rb_node |-> NULL,
             rb_left |-> [s \in Slot |-> NULL],
             rb_right |-> [s \in Slot |-> NULL],
             parent |-> [s \in Slot |-> NULL],
             color |-> [s \in Slot |-> "red"]]
  /\ pc = "idle"
  /\ node = NULL
  /\ parent = NULL
  /\ new = NULL

-----------------------------------------------------------------------------
(***************************************************************************)
(* Reading and writing links.  Every operator maps a tree to a tree.       *)
(***************************************************************************)
Opposite(side) == IF side = "rb_left" THEN "rb_right" ELSE "rb_left"

SetChild(t, n, side, c) == [t EXCEPT ![side][n] = c]

rb_set_parent(t, n, p) == [t EXCEPT !.parent[n] = p]

rb_set_parent_color(t, n, p, c) == [t EXCEPT !.parent[n] = p, !.color[n] = c]

\* if (tmp) rb_set_parent_color(tmp, ...)
SetParentColorIfAny(t, n, p, c) ==
  IF n = NULL THEN t ELSE rb_set_parent_color(t, n, p, c)

SetParentIfAny(t, n, p) == IF n = NULL THEN t ELSE rb_set_parent(t, n, p)

\* rb_is_red, on a node that is there.
rb_is_red(t, n) == t.color[n] = "red"

\* __rb_parent_color += RB_BLACK: on a black node it carries into the parent.
rb_set_black(t, n) ==
  [t EXCEPT !.color[n] = IF @ = "red" THEN "black" ELSE "carry"]

IsBlackOrNull(t, n) == n # NULL => t.color[n] = "black"

__rb_change_child(t, old, nw, p) ==
  IF p = NULL THEN [t EXCEPT !.rb_node = nw]
  ELSE SetChild(t, p, IF t.rb_left[p] = old THEN "rb_left" ELSE "rb_right", nw)

__rb_rotate_set_parents(t, old, nw, color) ==
  LET t1 == rb_set_parent_color(t, nw, t.parent[old], t.color[old])
  IN  __rb_change_child(rb_set_parent_color(t1, old, nw, color), old, nw,
                        t.parent[old])

Root == tree.rb_node

\* The end of a loop: its locals go out of scope.
Return(to) ==
  /\ pc' = to
  /\ node' = NULL
  /\ parent' = NULL
  /\ UNCHANGED new

\* The fields of a node outside the tree are never read; the model clears them.
Forget(t, n) ==
  [rb_set_parent_color(t, n, NULL, "red") EXCEPT !.rb_left[n] = NULL,
                                                 !.rb_right[n] = NULL]

-----------------------------------------------------------------------------
(***************************************************************************)
(* Insertion                                                               *)
(***************************************************************************)

\* The link kvm_insert_gfn_node ends at.  Its callers exclude a slot that
\* starts at the same frame.
InsertPoint(t, s) ==
  LET Down[n \in Slot] ==
        LET side == IF BaseGfn[s] < BaseGfn[n] THEN "rb_left" ELSE "rb_right"
        IN  IF t[side][n] = NULL THEN <<n, side>> ELSE Down[t[side][n]]
  IN  Down[t.rb_node]

rb_link_node(t, n, p) == rb_set_parent(Forget(t, n), n, p)

\* kvm_insert_gfn_node up to the call of rb_insert_color.
kvm_insert_gfn_node ==
  /\ pc = "link"
  /\ LET at == InsertPoint(tree, new)
     IN  IF Root = NULL
         THEN /\ tree' = [rb_link_node(tree, new, NULL) EXCEPT !.rb_node = new]
              /\ parent' = NULL
         ELSE /\ tree' = SetChild(rb_link_node(tree, new, at[1]), at[1], at[2], new)
              /\ parent' = at[1]
  /\ node' = new
  /\ new' = NULL
  /\ pc' = "insert"

\* Mutant: the loop ends at the root only.
InsertDoneAtRoot ==
  /\ pc = "insert"
  /\ parent = NULL
  /\ tree' = rb_set_parent_color(tree, node, NULL, "black")
  /\ Return("idle")

\* The new node is the root, or its parent is black.
InsertDone ==
  /\ pc = "insert"
  /\ IsBlackOrNull(tree, parent)
  /\ tree' = IF parent = NULL
             THEN rb_set_parent_color(tree, node, NULL, "black") ELSE tree
  /\ Return("idle")

Gparent == tree.parent[parent]

ParentSide == IF parent # tree.rb_right[Gparent] THEN "rb_left" ELSE "rb_right"

Uncle == tree[Opposite(ParentSide)][Gparent]

\* Case 1: the uncle is red; flip the colours and go on at the grandparent.
InsertFlip ==
  /\ pc = "insert"
  /\ ~IsBlackOrNull(tree, parent)
  /\ ~IsBlackOrNull(tree, Uncle)
  /\ LET t1 == rb_set_parent_color(tree, Uncle, Gparent, "black")
         t2 == rb_set_parent_color(t1, parent, Gparent, "black")
     IN  tree' = rb_set_parent_color(t2, Gparent, tree.parent[Gparent], "red")
  /\ node' = Gparent
  /\ parent' = tree.parent[Gparent]
  /\ UNCHANGED <<pc, new>>

\* Mutant: the inner subtree is lost in a rotation.
RotateDropsSubtree(t, n, p, side) ==
  rb_set_parent_color(SetChild(SetChild(t, p, Opposite(side), NULL), n, side, p),
                      p, n, "red")

\* Case 2: node is the inner child of p; rotate at p, so that node takes its
\* place below g.  As in the code g's own link is left to case 3.
RotateAtParent(t, n, p, side) ==
  LET inner == Opposite(side)
      tmp == t[side][n]
      t1 == SetChild(SetChild(t, p, inner, tmp), n, side, p)
  IN  rb_set_parent_color(SetParentColorIfAny(t1, tmp, p, "black"), p, n, "red")

\* Case 3: node is the outer child; rotate at the grandparent.
RotateAtGparent(t, g, p, side) ==
  LET inner == Opposite(side)
      tmp == t[inner][p]
      t1 == SetChild(SetChild(t, g, side, tmp), p, inner, g)
  IN  __rb_rotate_set_parents(SetParentColorIfAny(t1, tmp, g, "black"), g, p, "red")

InsertRotate(side) ==
  /\ pc = "insert"
  /\ ~IsBlackOrNull(tree, parent)
  /\ IsBlackOrNull(tree, Uncle)
  /\ ParentSide = side
  /\ tree' = IF node = tree[Opposite(side)][parent]
             THEN RotateAtGparent(RotateAtParent(tree, node, parent, side),
                                  Gparent, node, side)
             ELSE RotateAtGparent(tree, Gparent, parent, side)
  /\ Return("idle")

\* __rb_insert for a parent that is a left child, and its mirror.
InsertRotateLeft == InsertRotate("rb_left")

InsertRotateRight == InsertRotate("rb_right")

-----------------------------------------------------------------------------
(***************************************************************************)
(* Removal                                                                 *)
(***************************************************************************)

\* The leftmost node below n.
Leftmost(t, n) ==
  LET Down[m \in Slot] == IF t.rb_left[m] = NULL THEN m ELSE Down[t.rb_left[m]]
  IN  Down[n]

\* Mutant: an erased black leaf leaves its paths one black node short.
EraseWithoutRebalance(t, n) ==
  LET child == IF t.rb_left[n] = NULL THEN t.rb_right[n] ELSE t.rb_left[n]
      t1 == __rb_change_child(t, n, child, t.parent[n])
  IN  [tree |-> SetParentColorIfAny(t1, child, t.parent[n], t.color[n]),
       rebalance |-> NULL]

\* Case 1 of __rb_erase_augmented: n has at most one child, which takes its
\* place and its colour.  The result is a tree and the node to rebalance at.
EraseOneChild(t, n) ==
  LET child == IF t.rb_left[n] = NULL THEN t.rb_right[n] ELSE t.rb_left[n]
      up == t.parent[n]
      t1 == __rb_change_child(t, n, child, up)
  IN  [tree |-> SetParentColorIfAny(t1, child, up, t.color[n]),
       rebalance |-> IF child = NULL /\ t.color[n] = "black" THEN up ELSE NULL]

\* Cases 2 and 3: the successor of n takes its place, its parent, its children
\* and its colour.
EraseTwoChildren(t, n) ==
  LET child == t.rb_right[n]
      successor == Leftmost(t, child)
      child2 == t.rb_right[successor]
      up == IF successor = child THEN successor ELSE t.parent[successor]
      t1 == IF successor = child THEN t
            ELSE rb_set_parent(SetChild(SetChild(t, up, "rb_left", child2),
                                        successor, "rb_right", child),
                               child, successor)
      t2 == rb_set_parent(SetChild(t1, successor, "rb_left", t.rb_left[n]),
                          t.rb_left[n], successor)
      t3 == __rb_change_child(t2, n, successor, t.parent[n])
      t4 == SetParentColorIfAny(t3, child2, up, "black")
  IN  [tree |-> rb_set_parent_color(t4, successor, t.parent[n], t.color[n]),
       rebalance |-> IF child2 = NULL /\ t.color[successor] = "black"
                     THEN up ELSE NULL]

__rb_erase_augmented(t, n) ==
  IF NULL \in {t.rb_left[n], t.rb_right[n]}
  THEN EraseOneChild(t, n) ELSE EraseTwoChildren(t, n)

\* kvm_erase_gfn_node; nw is inserted afterwards when it is not NULL.
kvm_erase_gfn_node(old, nw) ==
  LET r == __rb_erase_augmented(tree, old)
  IN  /\ tree' = Forget(r.tree, old)
      /\ parent' = r.rebalance
      /\ node' = NULL
      /\ pc' = IF r.rebalance # NULL THEN "erase_color"
               ELSE IF nw # NULL THEN "link" ELSE "idle"
      /\ new' = nw

\* Case 1 of ____rb_erase_color: a red sibling; rotate at p.
RedSibling(t, p, side) ==
  LET far == Opposite(side)
      s == t[far][p]
      tmp == t[side][s]
      t1 == SetChild(SetChild(t, p, far, tmp), s, side, p)
  IN  IF t.color[s] = "black" THEN t
      ELSE __rb_rotate_set_parents(rb_set_parent_color(t1, tmp, p, "black"),
                                   p, s, "red")

\* The sibling after case 1.
SiblingOf(t, p, side) == t[Opposite(side)][p]

BlackNephews(t, p, side) ==
  LET s == SiblingOf(t, p, side)
  IN  IsBlackOrNull(t, t.rb_left[s]) /\ IsBlackOrNull(t, t.rb_right[s])

\* Case 3: the near nephew is red, the far one is not; rotate at the sibling.
RotateAtSibling(t, p, side) ==
  LET far == Opposite(side)
      s == t[far][p]
      near == t[side][s]
      tmp == t[far][near]
      t1 == SetChild(SetChild(SetChild(t, s, side, tmp), near, far, s), p, far, near)
  IN  IF ~IsBlackOrNull(t, t[far][s]) THEN t
      ELSE SetParentColorIfAny(t1, tmp, s, "black")

\* Case 4: rotate at p and flip colours; far nephew fn becomes black.  It is
\* the old sibling after case 3, whose parent link is written here.
RotateAndFlip(t, p, side) ==
  LET far == Opposite(side)
      s == t[far][p]
      tmp == t[side][s]
      t1 == SetChild(SetChild(t, p, far, tmp), s, side, p)
      t2 == rb_set_parent_color(t1, t[far][s], s, "black")
  IN  __rb_rotate_set_parents(SetParentIfAny(t2, tmp, p), p, s, "black")

\* Where the loop goes on: one level up.
Climb(p) == tree.parent[p]

AfterErase == IF new # NULL THEN "link" ELSE "idle"

\* One iteration of ____rb_erase_color for a node on the given side of parent.
EraseColor(side) ==
  LET t == RedSibling(tree, parent, side)
      flip == rb_set_parent_color(t, SiblingOf(t, parent, side), parent, "red")
      up == Climb(parent)
  IN  /\ pc = "erase_color"
      /\ IF ~BlackNephews(t, parent, side)
         THEN /\ tree' = RotateAndFlip(RotateAtSibling(t, parent, side), parent, side)
              /\ Return(AfterErase)
         ELSE IF rb_is_red(t, parent)
         THEN /\ tree' = rb_set_black(flip, parent)
              /\ Return(AfterErase)
         ELSE IF up = NULL
         THEN /\ tree' = flip
              /\ Return(AfterErase)
         ELSE /\ tree' = flip
              /\ node' = parent
              /\ parent' = up
              /\ UNCHANGED <<pc, new>>

NodeIsRight == node = tree.rb_right[parent]

EraseColorLeft == pc = "erase_color" /\ ~NodeIsRight /\ EraseColor("rb_left")

\* The else branch, the mirror of the first.
EraseColorRight == pc = "erase_color" /\ NodeIsRight /\ EraseColor("rb_right")

-----------------------------------------------------------------------------
\* rb_replace_node: a copy of the victim takes its place.
rb_replace_node(t, victim, nw) ==
  LET t1 == [t EXCEPT !.rb_left[nw] = t.rb_left[victim],
                      !.rb_right[nw] = t.rb_right[victim],
                      !.parent[nw] = t.parent[victim],
                      !.color[nw] = t.color[victim]]
      t2 == SetParentIfAny(SetParentIfAny(t1, t.rb_left[victim], nw),
                           t.rb_right[victim], nw)
  IN  __rb_change_child(t2, victim, nw, t.parent[victim])

\* The nodes below n, n included.
Subtree(t, n) ==
  LET Nodes[m \in Link] ==
        IF m = NULL THEN {} ELSE {m} \cup Nodes[t.rb_left[m]] \cup Nodes[t.rb_right[m]]
  IN  Nodes[n]

Members == Subtree(tree, Root)

Overlap(s, o) ==
  /\ BaseGfn[s] < BaseGfn[o] + Npages[o]
  /\ BaseGfn[o] < BaseGfn[s] + Npages[s]

MayEnter(s) ==
  \/ s \in Volatile
  \/ \A o \in Slot \ Volatile : BaseGfn[o] < BaseGfn[s] => o \in Members

\* kvm_replace_memslot for this tree.  Its callers pass an old slot of the set
\* and a new one that overlaps no other (kvm_check_memslot_overlap).
kvm_replace_memslot(old, nw) ==
  /\ pc = "idle"
  /\ old # NULL => old \in Members \cap Volatile
  /\ NULL \in {old, nw} \/ <<old, nw>> \in Moves
  /\ nw # NULL => /\ nw \notin Members
                  /\ \A s \in Members \ {old} : ~Overlap(s, nw)
                  /\ MayEnter(nw)
  /\ \/ /\ old # NULL
        /\ nw # NULL => BaseGfn[old] # BaseGfn[nw]
        /\ kvm_erase_gfn_node(old, nw)
     \/ /\ old # NULL /\ nw # NULL
        /\ BaseGfn[old] = BaseGfn[nw]
        /\ tree' = Forget(rb_replace_node(tree, old, nw), old)
        /\ UNCHANGED <<pc, node, parent, new>>
     \/ /\ old = NULL /\ nw # NULL
        /\ pc' = "link"
        /\ new' = nw
        /\ UNCHANGED <<tree, node, parent>>

Step ==
  \/ kvm_insert_gfn_node \/ InsertDone \/ InsertFlip
  \/ InsertRotateLeft \/ InsertRotateRight
  \/ EraseColorLeft \/ EraseColorRight

Next == Step \/ \E old, nw \in Link : kvm_replace_memslot(old, nw)

\* A started operation runs to its end: nothing in it waits.
Spec == Init /\ [][Next]_vars /\ WF_vars(Step)

-----------------------------------------------------------------------------
(***************************************************************************)
(* Look-ups                                                                *)
(***************************************************************************)

\* search_memslots without approx.
search_memslots(t, gfn) ==
  LET Down[n \in Link] ==
        IF n = NULL THEN NULL
        ELSE IF gfn < BaseGfn[n] THEN Down[t.rb_left[n]]
        ELSE IF gfn < BaseGfn[n] + Npages[n] THEN n
        ELSE Down[t.rb_right[n]]
  IN  Down[t.rb_node]

\* The last node in the direction side, starting at n.
Furthest(t, n, side) ==
  LET Down[m \in Slot] == IF t[side][m] = NULL THEN m ELSE Down[t[side][m]]
  IN  Down[n]

\* rb_next for side rb_right, rb_prev for side rb_left.
Neighbour(t, n, side) ==
  LET Up[m \in Slot] ==
        LET p == t.parent[m]
        IN  IF p # NULL /\ m = t[side][p] THEN Up[p] ELSE p
  IN  IF t[side][n] # NULL THEN Furthest(t, t[side][n], Opposite(side)) ELSE Up[n]

rb_next(t, n) == Neighbour(t, n, "rb_right")

rb_prev(t, n) == Neighbour(t, n, "rb_left")

rb_last(t) == IF t.rb_node = NULL THEN NULL ELSE Furthest(t, t.rb_node, "rb_right")

\* The first node that starts above start.
UpperBound(t, start) ==
  LET Down[at \in Link \X Link] ==
        LET n == at[1]
            best == at[2]
        IN  IF n = NULL THEN best
            ELSE IF start < BaseGfn[n] THEN Down[<<t.rb_left[n], n>>]
            ELSE Down[<<t.rb_right[n], best>>]
  IN  Down[<<t.rb_node, NULL>>]

\* Mutant: the iteration does not step back from the upper bound.
StartAtUpperBound(t, start) == UpperBound(t, start)

\* The node the iteration over a range begins with.
kvm_memslot_iter_start(t, start) ==
  LET above == UpperBound(t, start)
      first == IF above = NULL THEN rb_last(t)
               ELSE IF rb_prev(t, above) # NULL THEN rb_prev(t, above) ELSE above
  IN  IF first # NULL /\ BaseGfn[first] + Npages[first] <= start
      THEN rb_next(t, first) ELSE first

\* The slots kvm_for_each_memslot_in_gfn_range visits, in order.
Visited(t, start, end) ==
  LET Walk[n \in Link] ==
        IF n = NULL THEN <<>>
        ELSE IF BaseGfn[n] >= end THEN <<>>
        ELSE <<n>> \o Walk[rb_next(t, n)]
  IN  Walk[kvm_memslot_iter_start(t, start)]

-----------------------------------------------------------------------------
(***************************************************************************)
(* Properties                                                              *)
(***************************************************************************)

\* At every moment, in the middle of rebalancing too, the tree is in the order
\* of the slots' first frames, so no rotation loses or misplaces a slot.
SearchOrder ==
  \A n \in Members :
    /\ \A l \in Subtree(tree, tree.rb_left[n]) : BaseGfn[l] < BaseGfn[n]
    /\ \A r \in Subtree(tree, tree.rb_right[n]) : BaseGfn[r] > BaseGfn[n]

\* At every moment the parent link of a node, which rb_next and rb_prev follow,
\* leads to the node that holds it.
ParentLinksAgree ==
  /\ Root # NULL => tree.parent[Root] = NULL
  /\ \A n \in Members : \A side \in Side :
       tree[side][n] # NULL => tree.parent[tree[side][n]] = n

\* The number of black nodes on each path from n down to a leaf: a set that has
\* one member when the tree is balanced.
BlackHeights(t, n) ==
  LET Heights[m \in Link] ==
        IF m = NULL THEN {0}
        ELSE {h + (IF t.color[m] = "black" THEN 1 ELSE 0) :
                h \in Heights[t.rb_left[m]] \cup Heights[t.rb_right[m]]}
  IN  Heights[n]

RedRed(t) ==
  {n \in Subtree(t, t.rb_node) :
     n # t.rb_node /\ t.color[n] = "red" /\ t.color[t.parent[n]] = "red"}

\* Between two operations the root is black, no red node has a red child and
\* every path holds the same number of black nodes: look-ups stay logarithmic.
RedBlack ==
  pc \in {"idle", "link"} =>
    /\ IsBlackOrNull(tree, Root)
    /\ RedRed(tree) = {}
    /\ Cardinality(BlackHeights(tree, Root)) = 1

\* The loop invariants of __rb_insert and ____rb_erase_color (rbtree.c:133-140
\* and 445-447).  While inserting, node is red and is the only one that may
\* have a red parent.  While erasing, node is black or NULL, hangs from parent,
\* and the paths through it are the ones that lack one black node.
LoopInvariant ==
  /\ pc = "insert" =>
       /\ tree.color[node] = "red"
       /\ tree.parent[node] = parent
       /\ RedRed(tree) \subseteq {node}
       /\ Cardinality(BlackHeights(tree, Root)) = 1
  /\ pc = "erase_color" =>
       LET side == IF NodeIsRight THEN "rb_right" ELSE "rb_left"
           height == BlackHeights(tree, tree[Opposite(side)][parent])
       IN  /\ IsBlackOrNull(tree, node)
           /\ tree[side][parent] = node
           /\ RedRed(tree) = {}
           /\ height = {h + 1 : h \in BlackHeights(tree, node)}
           /\ Cardinality(height) = 1

\* The tree is sound at every step: in order, with parent links that agree,
\* balanced between two operations and, inside one, off balance by no more than
\* the loops of rbtree.c say.
WellFormed == SearchOrder /\ ParentLinksAgree /\ RedBlack /\ LoopInvariant

\* Between two operations a look-up returns the slot that holds the frame, and
\* the iteration that kvm_check_memslot_overlap makes visits exactly the slots
\* that intersect a range, lowest first.
LookupsAgree ==
  pc = "idle" =>
    /\ \A gfn \in Gfn :
         LET found == search_memslots(tree, gfn)
             hits == {s \in Members : BaseGfn[s] <= gfn /\ gfn < BaseGfn[s] + Npages[s]}
         IN  IF hits = {} THEN found = NULL ELSE found \in hits
    /\ \A start, end \in Gfn :
         start < end =>
           LET seen == Visited(tree, start, end)
           IN  /\ {seen[i] : i \in DOMAIN seen} =
                    {s \in Members : BaseGfn[s] < end /\ start < BaseGfn[s] + Npages[s]}
               /\ \A i, j \in DOMAIN seen : i < j => BaseGfn[seen[i]] < BaseGfn[seen[j]]

Abstract == INSTANCE GfnSet WITH members <- Members

\* The tree implements the set of slots the memory slot code expects: a slot
\* enters and leaves it in one step, and rebalancing changes nothing.
ImplementsGfnSet == Abstract!Spec

\* Rebalancing ends: its loop climbs or stops.
RebalancingEnds == (pc # "idle") ~> (pc = "idle")

=============================================================================
