--------------------------- MODULE MCCaptureLease ---------------------------
(* Instances of CaptureLease for TLC.                                      *)
EXTENDS CaptureLease, TLC

Symmetry == Permutations(Procs) \cup Permutations(Tokens)
=============================================================================
