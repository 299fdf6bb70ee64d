------------------------------- MODULE MCRbTree -------------------------------
(***************************************************************************)
(* Twelve slots: eleven from frame 0 to frame 22 and one that shares       *)
(* its first frame with another, for rb_replace_node.                      *)
(***************************************************************************)
EXTENDS RbTree

Slots == 0 .. 11

\* Slots 0 and 11 start at the same frame; the odd ones are followed by a gap.
Bases == [s \in Slots |-> IF s = 11 THEN 0 ELSE 2 * s]

Sizes == [s \in Slots |-> IF s % 2 = 1 THEN 1 ELSE 2]

\* Slots that come and go: leaves and inner nodes, at both ends and inside.
ComeAndGo == {0, 2, 3, 6, 9, 11}

\* An exchange at the same frame and back, and a move up and down the tree.
Changes == {<<0, 11>>, <<11, 0>>, <<2, 9>>, <<9, 2>>}

Frames == {0, 3, 7, 14}

=============================================================================
