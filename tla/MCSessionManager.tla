-------------------------- MODULE MCSessionManager --------------------------
(***************************************************************************)
(* Two callers of the session manager while the settings of their context  *)
(* are edited.  No identity is special to the manager, so TLC explores one *)
(* state of each class of renamings; the run checks no liveness.           *)
(***************************************************************************)
EXTENDS SessionManager, TLC

Renamings ==
    Permutations(Procs) \cup Permutations(Names) \cup Permutations(Configs)
        \cup Permutations(Sessions) \cup Permutations(Clients)
=============================================================================
