---------------------------- MODULE CaptureLease ----------------------------
(***************************************************************************)
(* The writer lease of the capture ledger as processes run it: the sidecar *)
(* file <history.db>.lock first, the database row second                   *)
(* (internal/assessment/store.go, AcquireOperationLease and below).        *)
(*                                                                         *)
(* Every system call on the file is a step of its own, because processes   *)
(* share it and may be stopped between two of them.  A file is identified  *)
(* by the token that created it: a write goes to the file that was opened, *)
(* which by then may have been removed and replaced.                       *)
(***************************************************************************)
EXTENDS WriterLease

CONSTANTS
    Procs       \* processes sharing one history database

VARIABLES
    lock,       \* the sidecar: None, or [by, token, expires]; token None if empty
    pc,         \* process -> where it is in acquiring, renewing or releasing
    tok,        \* process -> the token it works with, or None
    t,          \* process -> the time it read when it began
    file,       \* process -> the file it has open for writing, by creator
    until       \* process -> when the lease it was granted runs out

locals == <<tok, t, file, until>>
vars   == <<now, row, lock, pc, locals>>

Files    == [by: Tokens, token: Tokens \cup {None}, expires: Nat]
HeldPCs == {"held", "renewRow", "renewRead", "renewTrunc", "renewWrite"}
PCs     == HeldPCs \cup {"idle", "create", "read", "remove", "recreate", "write",
                         "insert", "relRead", "relRemove"}

Init ==
    /\ LeaseInit
    /\ lock  = None
    /\ pc    = [p \in Procs |-> "idle"]
    /\ tok   = [p \in Procs |-> None]
    /\ t     = [p \in Procs |-> 0]
    /\ file  = [p \in Procs |-> None]
    /\ until = [p \in Procs |-> 0]

(* A new random token is none that appears anywhere.                       *)
UsedTokens ==
    {k \in Tokens : \/ \E p \in Procs : tok[p] = k \/ file[p] = k
                    \/ row # None /\ row.token = k
                    \/ lock # None /\ (lock.by = k \/ lock.token = k)}

FreshTokens == Tokens \ UsedTokens

Goto(p, l) == pc' = [pc EXCEPT ![p] = l]

(* The operation of p is over, or p was killed: its locals are gone.       *)
Forget(p) ==
    /\ Goto(p, "idle")
    /\ tok'   = [tok EXCEPT ![p] = None]
    /\ t'     = [t EXCEPT ![p] = 0]
    /\ file'  = [file EXCEPT ![p] = None]
    /\ until' = [until EXCEPT ![p] = 0]

(* What p wrote is visible only if the file it has open is still there.    *)
WriteThrough(p) ==
    lock' = IF lock # None /\ lock.by = file[p]
            THEN [lock EXCEPT !.token = tok[p], !.expires = t[p] + Duration]
            ELSE lock

-----------------------------------------------------------------------------
(* acquireSidecarLease.                                                    *)

BeginAcquire(p) ==
    /\ pc[p] = "idle"
    /\ \E k \in FreshTokens : tok' = [tok EXCEPT ![p] = k]
    /\ t' = [t EXCEPT ![p] = now]
    /\ Goto(p, "create")
    /\ UNCHANGED <<now, row, lock, file, until>>

(* open(O_CREATE|O_EXCL): succeeds only when there is no file.             *)
CreateLock(p) ==
    /\ pc[p] = "create"
    /\ IF lock = None
       THEN /\ lock' = [by |-> tok[p], token |-> None, expires |-> 0]
            /\ file' = [file EXCEPT ![p] = tok[p]]
            /\ Goto(p, "write")
       ELSE Goto(p, "read") /\ UNCHANGED <<lock, file>>
    /\ UNCHANGED <<now, row, tok, t, until>>

WriteLock(p) ==
    /\ pc[p] = "write"
    /\ WriteThrough(p)
    /\ file' = [file EXCEPT ![p] = None]
    /\ Goto(p, "insert")
    /\ UNCHANGED <<now, row, tok, t, until>>

(* A file that is there but whose content parses and has expired may be    *)
(* reclaimed; any other answer means somebody else is running.             *)
Reclaimable(p) == lock # None /\ lock.token # None /\ lock.expires <= t[p]

ReadLock(p) ==
    /\ pc[p] = "read"
    /\ IF Reclaimable(p) THEN Goto(p, "remove") /\ UNCHANGED locals
                         ELSE Forget(p)
    /\ UNCHANGED <<now, row, lock>>

(* By now the file may be another one than the one that was read.          *)
RemoveLock(p) ==
    /\ pc[p] = "remove"
    /\ lock' = None
    /\ Goto(p, "recreate")
    /\ UNCHANGED <<now, row, locals>>

RecreateLock(p) ==
    /\ pc[p] = "recreate"
    /\ IF lock = None
       THEN /\ lock' = [by |-> tok[p], token |-> None, expires |-> 0]
            /\ file' = [file EXCEPT ![p] = tok[p]]
            /\ Goto(p, "write")
            /\ UNCHANGED <<tok, t, until>>
       ELSE Forget(p) /\ UNCHANGED lock
    /\ UNCHANGED <<now, row>>

-----------------------------------------------------------------------------
(* The database row: AcquireOperationLease, RenewCaptureLease and          *)
(* ReleaseCaptureLease.  Each statement can also fail for a reason of the  *)
(* database's own, and then changes nothing: a failed insert gives up the  *)
(* sidecar, a failed renewal leaves the capture going, a failed delete     *)
(* leaves the row behind.                                                  *)

InsertRow(p) ==
    /\ pc[p] = "insert"
    /\ \/ /\ Take(tok[p], t[p])
          /\ until' = [until EXCEPT ![p] = t[p] + Duration]
          /\ Goto(p, "held")
       \/ /\ Goto(p, "relRead")
          /\ UNCHANGED <<now, row, until>>
    /\ UNCHANGED <<lock, tok, t, file>>

(* The heartbeat of a capture carries the time of its tick.                *)
BeginRenew(p) ==
    /\ pc[p] = "held"
    /\ t' = [t EXCEPT ![p] = now]
    /\ Goto(p, "renewRow")
    /\ UNCHANGED <<now, row, lock, tok, file, until>>

RenewExpiredRow(p) ==      \* seeded fault: WHERE without expires_at > now
    /\ pc[p] = "renewRow"
    /\ row # None /\ row.token = tok[p]
    /\ row'   = [row EXCEPT !.expires = t[p] + Duration]
    /\ until' = [until EXCEPT ![p] = t[p] + Duration]
    /\ Goto(p, "renewRead")
    /\ UNCHANGED <<now, lock, tok, t, file>>

RenewRow(p) ==
    /\ pc[p] = "renewRow"
    /\ \/ /\ Extend(tok[p], t[p])
          /\ until' = [until EXCEPT ![p] = t[p] + Duration]
          /\ Goto(p, "renewRead")
       \/ /\ Goto(p, "held")
          /\ UNCHANGED <<now, row, until>>
    /\ UNCHANGED <<lock, tok, t, file>>

RenewRead(p) ==
    /\ pc[p] = "renewRead"
    /\ Goto(p, IF lock # None /\ lock.token = tok[p] THEN "renewTrunc" ELSE "held")
    /\ UNCHANGED <<now, row, lock, locals>>

(* open(O_TRUNC) empties whatever file is there now.                       *)
RenewTrunc(p) ==
    /\ pc[p] = "renewTrunc"
    /\ IF lock = None THEN Goto(p, "held") /\ UNCHANGED <<lock, file>>
       ELSE /\ lock' = [lock EXCEPT !.token = None, !.expires = 0]
            /\ file' = [file EXCEPT ![p] = lock.by]
            /\ Goto(p, "renewWrite")
    /\ UNCHANGED <<now, row, tok, t, until>>

RenewWrite(p) ==
    /\ pc[p] = "renewWrite"
    /\ WriteThrough(p)
    /\ file' = [file EXCEPT ![p] = None]
    /\ Goto(p, "held")
    /\ UNCHANGED <<now, row, tok, t, until>>

(* The heartbeat has been waited for before the lease is released.         *)
ReleaseAnyRow(p) ==        \* seeded fault: the delete does not name the token
    /\ pc[p] = "held"
    /\ row' = None
    /\ Goto(p, "relRead")
    /\ UNCHANGED <<now, lock, locals>>

Release(p) ==
    /\ pc[p] = "held"
    /\ Free(tok[p]) \/ UNCHANGED <<now, row>>
    /\ Goto(p, "relRead")
    /\ UNCHANGED <<lock, locals>>

(* releaseSidecarLease: only a file that names the token is removed, but   *)
(* reading and removing it are two steps.                                  *)
ReleaseRead(p) ==
    /\ pc[p] = "relRead"
    /\ IF lock # None /\ lock.token = tok[p]
       THEN Goto(p, "relRemove") /\ UNCHANGED locals
       ELSE Forget(p)
    /\ UNCHANGED <<now, row, lock>>

ReleaseRemove(p) ==
    /\ pc[p] = "relRemove"
    /\ lock' = None
    /\ Forget(p)
    /\ UNCHANGED <<now, row>>

(* The process is killed between two system calls.                         *)
Crash(p) ==
    /\ pc[p] # "idle"
    /\ Forget(p)
    /\ UNCHANGED <<now, row, lock>>

-----------------------------------------------------------------------------
Acquire(p) == \/ CreateLock(p) \/ WriteLock(p) \/ ReadLock(p)
              \/ RemoveLock(p) \/ RecreateLock(p) \/ InsertRow(p)

Renew(p) == RenewRow(p) \/ RenewRead(p) \/ RenewTrunc(p) \/ RenewWrite(p)

FinishRelease(p) == ReleaseRead(p) \/ ReleaseRemove(p)

Clock == Tick /\ UNCHANGED <<lock, pc, locals>>

Next ==
    \/ Clock
    \/ \E p \in Procs :
        \/ BeginAcquire(p) \/ Acquire(p) \/ BeginRenew(p) \/ Renew(p)
        \/ Release(p) \/ FinishRelease(p) \/ Crash(p)

Spec == Init /\ [][Next]_vars

-----------------------------------------------------------------------------
(* Properties.                                                             *)

(* Every variable has its type.                                            *)
TypeOK ==
    /\ now \in Nat
    /\ row \in Rows \cup {None}
    /\ lock \in Files \cup {None}
    /\ pc \in [Procs -> PCs]
    /\ tok \in [Procs -> Tokens \cup {None}]
    /\ t \in [Procs -> Nat]
    /\ file \in [Procs -> Tokens \cup {None}]
    /\ until \in [Procs -> Nat]

(* A process was granted the lease and the time it was granted for has not *)
(* run out.                                                                *)
MayWrite(p) == pc[p] \in HeldPCs /\ until[p] > now

(* "Two scheduled captures cannot both proceed": whatever happens to the   *)
(* sidecar file, at most one process may write at any time                 *)
(* (AcquireCaptureLease).                                                  *)
OneWriter == \A p, q \in Procs : MayWrite(p) /\ MayWrite(q) => p = q

(* A process within the time it was granted finds its token in the row,    *)
(* valid: none of its guarded writes (saveContext, finishRun,              *)
(* SetCaptureLeaseRun, ValidateCaptureLease) is refused early.             *)
GrantIsHonoured == \A p \in Procs : MayWrite(p) => ValidAt(tok[p], now)

(* Why: a process works with a token nobody else has; until it inserts the *)
(* row the row is not its own; once granted, the row is its own with the   *)
(* expiry it knows, or its time has run out; and no process acts on a time *)
(* still to come.                                                          *)
TokensDiffer ==
    /\ \A p \in Procs : pc[p] # "idle" => tok[p] # None
    /\ \A p, q \in Procs : p # q /\ tok[p] # None => tok[p] # tok[q]

AskingPCs == {"create", "read", "remove", "recreate", "write", "insert"}

RowNotMineYet ==
    \A p \in Procs : pc[p] \in AskingPCs /\ row # None => row.token # tok[p]

GrantedOrOver ==
    \A p \in Procs : pc[p] \in HeldPCs =>
        \/ row # None /\ row.token = tok[p] /\ row.expires = until[p]
        \/ until[p] <= now

ClockRead == now <= MaxTime /\ \A p \in Procs : t[p] <= now

(* The inductive invariant behind OneWriter and GrantIsHonoured.           *)
LeaseInv == TypeOK /\ TokensDiffer /\ RowNotMineYet /\ GrantedOrOver /\ ClockRead

(* The steps on the sidecar and the row implement the promise of the row:  *)
(* no interleaving takes the slot from a token that has not expired, and   *)
(* no renewal, however late, revives one that has.                         *)
ImplementsWriterLease == LeaseSpec

(* Files, row, tokens and clocks together implement a slot for one writer: *)
(* nobody enters while another process is within the time it was granted,  *)
(* also when leases run out, are renewed late, or their owners are killed. *)
Slot == INSTANCE WriterSlot WITH writers <- {p \in Procs : MayWrite(p)}
ImplementsWriterSlot == Slot!Spec

(* "Expired leases are reclaimed": when no process is running, the sidecar *)
(* is absent or names a time after which the next one may remove it.       *)
Restartable ==
    (\A p \in Procs : pc[p] = "idle") => lock = None \/ lock.token # None
=============================================================================
