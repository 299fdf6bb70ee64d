------------------------------ MODULE MCMemslots ------------------------------
(***************************************************************************)
(* Small instances of Memslots: two slot numbers and guest frames 0 .. 4.  *)
(***************************************************************************)
EXTENDS Memslots, TLC

Mem(id, base, n, flags) ==
  [valid |-> TRUE, id |-> id, base_gfn |-> base, npages |-> n, flags |-> flags]

Invalid == [Mem(1, 0, 1, {}) EXCEPT !.valid = FALSE]

\* Regions whose numbers keep their place: creations, overlaps (from below, from
\* above and around), a change of flags both ways, rejected changes, and a
\* region beyond the last guest frame.
InPlace ==
  {Mem(1, 0, 2, {}), Mem(1, 0, 2, {"log_dirty"}), Mem(1, 0, 1, {}),
   Mem(2, 1, 1, {}), Mem(2, 2, 2, {"log_dirty"}), Mem(2, 2, 2, {}),
   Mem(2, 4, 2, {"log_dirty"}), Invalid}

\* Slot 1 moves within, onto slot 2 and beyond the guest's frames.
Moves == {Mem(1, 1, 2, {}), Mem(1, 2, 2, {}), Mem(1, 4, 2, {})}

Delete == {Mem(1, 0, 0, {})}

One(S) == {<<m>> : m \in S}

InPlaceOrMove == One(InPlace \cup Moves)

\* What the request of the driver's client sends: the physical memory ranges in
\* order, without flags.
PhysicalRanges == {<<Mem(0, 0, 2, {}), Mem(1, 2, 2, {})>>}

\* For two threads: a creation and a change of flags whose preparation may fail,
\* a creation that is refused, a MOVE that is refused, one that goes on, and a
\* deletion.
ThreadRequests ==
  One({Mem(1, 0, 2, {"log_dirty"}), Mem(2, 4, 2, {})})
    \cup {<<Mem(1, 4, 2, {}), Mem(2, 2, 2, {})>>,
          <<Mem(1, 0, 2, {}), Mem(1, 1, 2, {})>>,
          <<Mem(1, 0, 2, {}), Mem(1, 0, 0, {})>>}

WithDelete == One({Mem(1, 0, 2, {}), Mem(2, 2, 2, {})} \cup Delete)

\* Blocks of the pool are interchangeable.
Blocks == Permutations(Slot)

=============================================================================
