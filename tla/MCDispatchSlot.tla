--------------------------- MODULE MCDispatchSlot ---------------------------
(* The instances of DispatchSlot. *)
EXTENDS DispatchSlot

CONSTANTS j1, j2, j3

MCLine == <<j1, j2, j3>>
=============================================================================
