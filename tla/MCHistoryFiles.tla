-------------------------- MODULE MCHistoryFiles ---------------------------
(* Instances of HistoryFiles for TLC.                                      *)
EXTENDS HistoryFiles, TLC

Symmetry == Permutations(Procs) \cup Permutations(Files)

(* What a file nobody can reach any more held does not matter.             *)
View == <<path, stray, [f \in Files |-> IF f \in Free THEN Empty ELSE content[f]], backup, safety, lease, pc, proc, copying, events>>
=============================================================================
