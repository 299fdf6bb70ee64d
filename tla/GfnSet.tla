-------------------------------- MODULE GfnSet --------------------------------
(***************************************************************************)
(* What the memory slot code expects of a gfn tree: a set of slots with    *)
(* distinct first frames, changed by kvm_replace_memslot.  A slot whose    *)
(* frame is unchanged is exchanged in one step; one that moves leaves the  *)
(* set before it comes back.                                               *)
(***************************************************************************)
CONSTANTS Slot, BaseGfn, NULL

VARIABLE members

Init == members = {}

Insert(new) ==
  /\ \A s \in members : BaseGfn[s] # BaseGfn[new]
  /\ members' = members \cup {new}

Erase(old) ==
  /\ old \in members
  /\ members' = members \ {old}

Exchange(old, new) ==
  /\ old \in members
  /\ new \notin members
  /\ BaseGfn[old] = BaseGfn[new]
  /\ members' = (members \ {old}) \cup {new}

Next ==
  \/ \E s \in Slot : Insert(s) \/ Erase(s)
  \/ \E old, new \in Slot : Exchange(old, new)

Spec == Init /\ [][Next]_members

=============================================================================
