------------------------------- MODULE MCTdpMmu -------------------------------
(***************************************************************************)
(* Two processors and a root of three levels with two entries per table.   *)
(***************************************************************************)
EXTENDS TdpMmu

Processors == {1, 2}

\* Frames that share the root only, each the last of its lowest table.
Frames == {1, 7}

=============================================================================
