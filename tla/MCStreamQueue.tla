--------------------------- MODULE MCStreamQueue ---------------------------
(* TLC instances of StreamQueue. *)
EXTENDS StreamQueue, TLC

MCSymmetry == Permutations(Jobs) \cup Permutations(Workers)
=============================================================================
