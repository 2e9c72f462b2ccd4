---------------------------- MODULE WriterLease ----------------------------
(***************************************************************************)
(* What the history database promises about its single writer slot: the    *)
(* row id = 1 of table capture_lease (internal/assessment/store.go).       *)
(*                                                                         *)
(* The row names a token and the time until which it may write.  Whoever   *)
(* acts on the row compares it with a time it read earlier, never later    *)
(* than the current one.  A token is taken from the row only after it      *)
(* expired or by its owner; only a token that has not expired at the time  *)
(* read is extended, and an expired one is never revived.                  *)
(***************************************************************************)
EXTENDS Naturals

CONSTANTS
    Tokens,     \* lease tokens: 128 random bits, so never the same twice
    Duration,   \* leaseDuration, in clock ticks
    MaxTime,    \* bound on the clock
    None        \* no row, no file, no token

ASSUME DurationAssumption == Duration \in Nat \ {0}
ASSUME MaxTimeAssumption  == MaxTime \in Nat
ASSUME TokenAssumption    == None \notin Tokens
ASSUME RowAssumption      == None \notin [token: Tokens, expires: Nat]

VARIABLES
    now,        \* the clock every process reads
    row         \* capture_lease: None or [token, expires]

leaseVars == <<now, row>>

Rows == [token: Tokens, expires: Nat]

LeaseInit == now = 0 /\ row = None

(* The row's token may write at time t.                                    *)
ValidAt(k, t) == row # None /\ row.token = k /\ row.expires > t

(* Seeded fault: an unexpired row is reclaimed as well.                    *)
TakeUnexpired(k, t) ==
    /\ t <= now
    /\ row' = [token |-> k, expires |-> t + Duration]
    /\ UNCHANGED now

(* The transaction of AcquireOperationLease: an expired row is deleted and *)
(* the new one inserted; a live row makes the insert fail.                 *)
Take(k, t) ==
    /\ t <= now
    /\ row # None => row.expires <= t
    /\ row' = [token |-> k, expires |-> t + Duration]
    /\ UNCHANGED now

(* The update of RenewCaptureLease.                                        *)
Extend(k, t) ==
    /\ t <= now
    /\ ValidAt(k, t)
    /\ row' = [row EXCEPT !.expires = t + Duration]
    /\ UNCHANGED now

(* The delete of ReleaseCaptureLease.                                      *)
Free(k) ==
    /\ row # None /\ row.token = k
    /\ row' = None
    /\ UNCHANGED now

Tick == now < MaxTime /\ now' = now + 1 /\ UNCHANGED row

(* A token that lost the slot by expiring never gets it back: the slot     *)
(* goes to a token that is not in the row.                                 *)
Grant(k, t) == (row # None => row.token # k) /\ Take(k, t)

LeaseNext ==
    \/ Tick
    \/ \E k \in Tokens : \/ \E t \in 0..MaxTime : Grant(k, t) \/ Extend(k, t)
                         \/ Free(k)

LeaseSpec == LeaseInit /\ [][LeaseNext]_leaseVars
=============================================================================
