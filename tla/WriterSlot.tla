----------------------------- MODULE WriterSlot -----------------------------
(***************************************************************************)
(* What users of the history are promised of its writers ("two scheduled   *)
(* captures cannot both proceed"): one process at a time may write, and    *)
(* the next begins only after the one before has left or its time has run  *)
(* out (AcquireOperationLease and ReleaseCaptureLease of                   *)
(* internal/assessment/store.go, without files, rows, tokens and clocks).  *)
(***************************************************************************)
CONSTANT Procs          \* processes sharing one history database

VARIABLE writers        \* those that may write now

Init == writers = {}

(* The lease is granted, or a late renewal finds it still free.            *)
Enter(p) == writers = {} /\ writers' = {p}

(* It is released, expires, or its owner is killed.                        *)
Leave == writers # {} /\ writers' = {}

Next == Leave \/ \E p \in Procs : Enter(p)

Spec == Init /\ [][Next]_writers
=============================================================================
