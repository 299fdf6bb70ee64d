------------------------------- MODULE EntrySet -------------------------------
(***************************************************************************)
(* What the users of a hash table expect of it: a set of entries that one  *)
(* operation at a time extends, shrinks or empties.                        *)
(***************************************************************************)
CONSTANT Entry

VARIABLE members

Init == members = {}

Insert(e) == e \notin members /\ members' = members \cup {e}

Remove(e) == e \in members /\ members' = members \ {e}

Clear == members' = {}

Next == Clear \/ \E e \in Entry : Insert(e) \/ Remove(e)

Spec == Init /\ [][Next]_members

=============================================================================
