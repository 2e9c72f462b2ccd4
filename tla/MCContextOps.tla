---------------------------- MODULE MCContextOps ----------------------------
(* Instances of ContextOps for TLC.                                        *)
EXTENDS ContextOps, TLC

Symmetry == Permutations(Names)
=============================================================================
