------------------------- MODULE CaptureLeaseProofs -------------------------
(***************************************************************************)
(* For any number of processes, tokens and clock ticks: at most one        *)
(* process may write, a granted lease is honoured for as long as it was    *)
(* granted, and the sidecar-and-row protocol implements WriterLease.       *)
(***************************************************************************)
EXTENDS CaptureLease, TLAPS

(* What every step of a process and of the clock does to the five parts of *)
(* the invariant: the initial state has them.                              *)
LEMMA LeaseInvInit == Init => LeaseInv
  BY DurationAssumption, MaxTimeAssumption, TokenAssumption
  DEF Init, LeaseInit, LeaseInv, TypeOK, TokensDiffer, RowNotMineYet,
      GrantedOrOver, ClockRead, PCs, HeldPCs, AskingPCs

(* Rewriting the content of a sidecar file gives a sidecar file.           *)
LEMMA FileRewrite ==
  ASSUME NEW f \in Files, NEW k \in Tokens \cup {None}, NEW e \in Nat
  PROVE  [f EXCEPT !.token = k, !.expires = e] \in Files
  BY DEF Files

(* What WriteThrough leaves in the sidecar is a sidecar file, or none.     *)
LEMMA WriteThroughType ==
  ASSUME TypeOK, NEW p \in Procs, WriteThrough(p)
  PROVE  lock' \in Files \cup {None}
<1>1. tok[p] \in Tokens \cup {None} /\ t[p] + Duration \in Nat
  BY DurationAssumption DEF TypeOK
<1>2. CASE lock # None /\ lock.by = file[p]
  <2>1. lock \in Files
    BY <1>2 DEF TypeOK
  <2> QED BY <1>1, <1>2, <2>1, FileRewrite DEF WriteThrough
<1>3. CASE ~(lock # None /\ lock.by = file[p])
  BY <1>3 DEF WriteThrough, TypeOK
<1> QED BY <1>2, <1>3

(* Every variable keeps its type in every step.                            *)
LEMMA TypeOKStep == LeaseInv /\ [Next]_vars => TypeOK'
<1> SUFFICES ASSUME LeaseInv, [Next]_vars PROVE TypeOK'
  OBVIOUS
<1> USE DurationAssumption, MaxTimeAssumption, TokenAssumption
    DEF LeaseInv, TypeOK, PCs, HeldPCs, Rows, Files, Goto, locals
<1>1. CASE Clock
  BY <1>1 DEF Clock, Tick
<1>2. ASSUME NEW p \in Procs, BeginAcquire(p) PROVE TypeOK'
  BY <1>2 DEF BeginAcquire, FreshTokens
<1>3. ASSUME NEW p \in Procs, Acquire(p) PROVE TypeOK'
  <2>1. CASE CreateLock(p)
    BY <2>1 DEF CreateLock, TokensDiffer
  <2>2. CASE WriteLock(p)
    BY <2>2, WriteThroughType DEF WriteLock
  <2>3. CASE ReadLock(p)
    BY <2>3 DEF ReadLock, Forget
  <2>4. CASE RemoveLock(p)
    BY <2>4 DEF RemoveLock
  <2>5. CASE RecreateLock(p)
    BY <2>5 DEF RecreateLock, Forget, TokensDiffer
  <2>6. CASE InsertRow(p)
    BY <2>6 DEF InsertRow, Take, TokensDiffer
  <2> QED BY <1>3, <2>1, <2>2, <2>3, <2>4, <2>5, <2>6 DEF Acquire
<1>4. ASSUME NEW p \in Procs, BeginRenew(p) PROVE TypeOK'
  BY <1>4 DEF BeginRenew
<1>5. ASSUME NEW p \in Procs, Renew(p) PROVE TypeOK'
  <2>1. CASE RenewRow(p)
    BY <2>1 DEF RenewRow, Extend, ValidAt
  <2>2. CASE RenewRead(p)
    BY <2>2 DEF RenewRead
  <2>3. CASE RenewTrunc(p)
    <3>1. lock # None => /\ [lock EXCEPT !.token = None, !.expires = 0] \in Files
                         /\ lock.by \in Tokens
      BY FileRewrite
    <3> QED BY <2>3, <3>1 DEF RenewTrunc
  <2>4. CASE RenewWrite(p)
    BY <2>4, WriteThroughType DEF RenewWrite
  <2> QED BY <1>5, <2>1, <2>2, <2>3, <2>4 DEF Renew
<1>6. ASSUME NEW p \in Procs, Release(p) PROVE TypeOK'
  BY <1>6 DEF Release, Free
<1>7. ASSUME NEW p \in Procs, FinishRelease(p) PROVE TypeOK'
  BY <1>7 DEF FinishRelease, ReleaseRead, ReleaseRemove, Forget
<1>8. ASSUME NEW p \in Procs, Crash(p) PROVE TypeOK'
  BY <1>8 DEF Crash, Forget
<1>9. CASE UNCHANGED vars
  BY <1>9 DEF vars
<1> QED BY <1>1, <1>2, <1>3, <1>4, <1>5, <1>6, <1>7, <1>8, <1>9 DEF Next

(* A token is fresh when it is taken, so no two processes share one and    *)
(* the row cannot hold the token of a process that is still asking.        *)
LEMMA TokensStep == LeaseInv /\ [Next]_vars => TokensDiffer' /\ RowNotMineYet'
<1> SUFFICES ASSUME LeaseInv, [Next]_vars PROVE TokensDiffer' /\ RowNotMineYet'
  OBVIOUS
<1> USE TokenAssumption
    DEF LeaseInv, TypeOK, PCs, HeldPCs, AskingPCs, Goto, locals,
        TokensDiffer, RowNotMineYet
<1>1. CASE Clock
  BY <1>1 DEF Clock, Tick
<1>2. ASSUME NEW p \in Procs, BeginAcquire(p) PROVE TokensDiffer' /\ RowNotMineYet'
  BY <1>2 DEF BeginAcquire, FreshTokens, UsedTokens
<1>3. ASSUME NEW p \in Procs, Acquire(p) PROVE TokensDiffer' /\ RowNotMineYet'
  <2>1. CASE CreateLock(p) \/ WriteLock(p) \/ RemoveLock(p)
    BY <2>1 DEF CreateLock, WriteLock, RemoveLock
  <2>2. CASE ReadLock(p) \/ RecreateLock(p)
    BY <2>2 DEF ReadLock, RecreateLock, Forget
  <2>3. CASE InsertRow(p)
    BY <2>3 DEF InsertRow, Take
  <2> QED BY <1>3, <2>1, <2>2, <2>3 DEF Acquire
<1>4. ASSUME NEW p \in Procs, BeginRenew(p) PROVE TokensDiffer' /\ RowNotMineYet'
  BY <1>4 DEF BeginRenew
<1>5. ASSUME NEW p \in Procs, Renew(p) PROVE TokensDiffer' /\ RowNotMineYet'
  <2>1. CASE RenewRow(p)
    BY <2>1 DEF RenewRow, Extend, ValidAt, Rows
  <2>2. CASE RenewRead(p) \/ RenewTrunc(p) \/ RenewWrite(p)
    BY <2>2 DEF RenewRead, RenewTrunc, RenewWrite
  <2> QED BY <1>5, <2>1, <2>2 DEF Renew
<1>6. ASSUME NEW p \in Procs, Release(p) PROVE TokensDiffer' /\ RowNotMineYet'
  BY <1>6 DEF Release, Free
<1>7. ASSUME NEW p \in Procs, FinishRelease(p) PROVE TokensDiffer' /\ RowNotMineYet'
  BY <1>7 DEF FinishRelease, ReleaseRead, ReleaseRemove, Forget
<1>8. ASSUME NEW p \in Procs, Crash(p) PROVE TokensDiffer' /\ RowNotMineYet'
  BY <1>8 DEF Crash, Forget
<1>9. CASE UNCHANGED vars
  BY <1>9 DEF vars
<1> QED BY <1>1, <1>2, <1>3, <1>4, <1>5, <1>6, <1>7, <1>8, <1>9 DEF Next

(* A grant ends only by its time running out or by its owner.  The step    *)
(* that matters is InsertRow by another process: it replaces a row that    *)
(* had expired at a time already past, so its former owner's time is over. *)
LEMMA GrantStep == LeaseInv /\ [Next]_vars => GrantedOrOver' /\ ClockRead'
<1> SUFFICES ASSUME LeaseInv, [Next]_vars PROVE GrantedOrOver' /\ ClockRead'
  OBVIOUS
<1> USE DurationAssumption, MaxTimeAssumption, TokenAssumption
    DEF LeaseInv, TypeOK, PCs, HeldPCs, Goto, locals, GrantedOrOver, ClockRead
<1>1. CASE Clock
  BY <1>1 DEF Clock, Tick
<1>2. ASSUME NEW p \in Procs, BeginAcquire(p) PROVE GrantedOrOver' /\ ClockRead'
  BY <1>2 DEF BeginAcquire
<1>3. ASSUME NEW p \in Procs, Acquire(p) PROVE GrantedOrOver' /\ ClockRead'
  <2>1. CASE CreateLock(p) \/ WriteLock(p) \/ RemoveLock(p)
    BY <2>1 DEF CreateLock, WriteLock, RemoveLock
  <2>2. CASE ReadLock(p) \/ RecreateLock(p)
    BY <2>2 DEF ReadLock, RecreateLock, Forget
  <2>3. CASE InsertRow(p)
    <3>1. CASE Take(tok[p], t[p]) /\ until' = [until EXCEPT ![p] = t[p] + Duration]
      <4>1. row' # None /\ row'.token = tok[p] /\ row'.expires = until'[p]
        BY <2>3, <3>1, RowAssumption DEF InsertRow, Take, TokensDiffer
      <4>2. \A q \in Procs \ {p} : pc[q] \in HeldPCs => until[q] <= now
        BY <3>1 DEF Take, Rows
      <4> QED BY <2>3, <3>1, <4>1, <4>2 DEF InsertRow, Take
    <3>2. CASE UNCHANGED <<now, row, until>> /\ Goto(p, "relRead")
      BY <2>3, <3>2 DEF InsertRow
    <3> QED BY <2>3, <3>1, <3>2 DEF InsertRow
  <2> QED BY <1>3, <2>1, <2>2, <2>3 DEF Acquire
<1>4. ASSUME NEW p \in Procs, BeginRenew(p) PROVE GrantedOrOver' /\ ClockRead'
  BY <1>4 DEF BeginRenew
<1>5. ASSUME NEW p \in Procs, Renew(p) PROVE GrantedOrOver' /\ ClockRead'
  <2>1. CASE RenewRow(p)
    <3>1. CASE Extend(tok[p], t[p]) /\ until' = [until EXCEPT ![p] = t[p] + Duration]
      <4>1. row' # None /\ row'.token = tok[p] /\ row'.expires = until'[p]
        BY <2>1, <3>1, RowAssumption DEF RenewRow, Extend, ValidAt, Rows
      <4>2. \A q \in Procs \ {p} : pc[q] \in HeldPCs => until[q] <= now
        BY <2>1, <3>1 DEF RenewRow, Extend, ValidAt, TokensDiffer
      <4> QED BY <2>1, <3>1, <4>1, <4>2 DEF RenewRow, Extend
    <3>2. CASE UNCHANGED <<now, row, until>> /\ Goto(p, "held")
      BY <2>1, <3>2 DEF RenewRow
    <3> QED BY <2>1, <3>1, <3>2 DEF RenewRow
  <2>2. CASE RenewRead(p) \/ RenewTrunc(p) \/ RenewWrite(p)
    BY <2>2 DEF RenewRead, RenewTrunc, RenewWrite
  <2> QED BY <1>5, <2>1, <2>2 DEF Renew
<1>6. ASSUME NEW p \in Procs, Release(p) PROVE GrantedOrOver' /\ ClockRead'
  BY <1>6 DEF Release, Free, TokensDiffer
<1>7. ASSUME NEW p \in Procs, FinishRelease(p) PROVE GrantedOrOver' /\ ClockRead'
  BY <1>7 DEF FinishRelease, ReleaseRead, ReleaseRemove, Forget
<1>8. ASSUME NEW p \in Procs, Crash(p) PROVE GrantedOrOver' /\ ClockRead'
  BY <1>8 DEF Crash, Forget
<1>9. CASE UNCHANGED vars
  BY <1>9 DEF vars
<1> QED BY <1>1, <1>2, <1>3, <1>4, <1>5, <1>6, <1>7, <1>8, <1>9 DEF Next

(* The inductive invariant holds in every reachable state.                 *)
THEOREM LeaseInvariant == Spec => []LeaseInv
<1>1. LeaseInv /\ [Next]_vars => LeaseInv'
  BY TypeOKStep, TokensStep, GrantStep DEF LeaseInv
<1> QED BY <1>1, LeaseInvInit, PTL DEF Spec

(* At most one process may write to the history database at any time,      *)
(* however the steps on the sidecar file interleave and wherever processes *)
(* are killed (AcquireCaptureLease: "two scheduled captures cannot both    *)
(* proceed").                                                              *)
THEOREM OneWriterHolds == Spec => []OneWriter
<1>1. LeaseInv => OneWriter
  BY DEF LeaseInv, TypeOK, TokensDiffer, GrantedOrOver, OneWriter, MayWrite,
         HeldPCs, Rows
<1> QED BY <1>1, LeaseInvariant, PTL

(* Within the time it was granted, a writer is never refused by the checks *)
(* of saveContext, finishRun, SetCaptureLeaseRun and ValidateCaptureLease. *)
THEOREM GrantIsHonouredHolds == Spec => []GrantIsHonoured
<1>1. LeaseInv => GrantIsHonoured
  BY DEF LeaseInv, TypeOK, GrantedOrOver, GrantIsHonoured, MayWrite, ValidAt
<1> QED BY <1>1, LeaseInvariant, PTL

(* The protocol with the sidecar file implements the promise of the row.   *)
THEOREM ImplementsWriterLeaseHolds == Spec => ImplementsWriterLease
<1>1. Init => LeaseInit
  BY DEF Init
<1>2. LeaseInv /\ [Next]_vars => [LeaseNext]_leaseVars
  <2> SUFFICES ASSUME LeaseInv, [Next]_vars PROVE [LeaseNext]_leaseVars
    OBVIOUS
  <2>1. CASE Clock
    BY <2>1 DEF Clock, LeaseNext
  <2>2. ASSUME NEW p \in Procs, InsertRow(p) PROVE [LeaseNext]_leaseVars
    <3>1. tok[p] \in Tokens /\ t[p] \in 0..MaxTime
      BY <2>2, MaxTimeAssumption
      DEF LeaseInv, TypeOK, TokensDiffer, ClockRead, InsertRow
    <3>2. row # None => row.token # tok[p]
      BY <2>2 DEF LeaseInv, RowNotMineYet, AskingPCs, InsertRow
    <3> QED BY <2>2, <3>1, <3>2 DEF InsertRow, LeaseNext, Grant, leaseVars
  <2>3. ASSUME NEW p \in Procs, RenewRow(p) PROVE [LeaseNext]_leaseVars
    <3>1. tok[p] \in Tokens /\ t[p] \in 0..MaxTime
      BY <2>3, MaxTimeAssumption
      DEF LeaseInv, TypeOK, TokensDiffer, ClockRead, RenewRow
    <3> QED BY <2>3, <3>1 DEF RenewRow, LeaseNext, leaseVars
  <2>4. ASSUME NEW p \in Procs, Release(p) PROVE [LeaseNext]_leaseVars
    <3>1. tok[p] \in Tokens
      BY <2>4 DEF LeaseInv, TypeOK, TokensDiffer, Release
    <3> QED BY <2>4, <3>1 DEF Release, LeaseNext, leaseVars
  <2>5. ASSUME NEW p \in Procs,
               \/ BeginAcquire(p) \/ CreateLock(p) \/ WriteLock(p) \/ ReadLock(p)
               \/ RemoveLock(p) \/ RecreateLock(p) \/ BeginRenew(p) \/ RenewRead(p)
               \/ RenewTrunc(p) \/ RenewWrite(p) \/ FinishRelease(p) \/ Crash(p)
        PROVE  UNCHANGED leaseVars
    BY <2>5 DEF leaseVars, BeginAcquire, CreateLock, WriteLock, ReadLock, RemoveLock,
                RecreateLock, BeginRenew, RenewRead, RenewTrunc, RenewWrite,
                FinishRelease, ReleaseRead, ReleaseRemove, Crash
  <2>6. CASE UNCHANGED vars
    BY <2>6 DEF vars, leaseVars
  <2> QED BY <2>1, <2>2, <2>3, <2>4, <2>5, <2>6 DEF Next, Acquire, Renew
<1> QED BY <1>1, <1>2, LeaseInvariant, PTL DEF Spec, ImplementsWriterLease, LeaseSpec

(* Who may write after a step might have before it, or is the one that was *)
(* granted or renewed the lease in it.                                     *)
LEMMA NewWriter ==
  ASSUME LeaseInv, [Next]_vars, NEW q \in Procs, MayWrite(q)', ~MayWrite(q)
  PROVE  (InsertRow(q) /\ Take(tok[q], t[q])) \/ (RenewRow(q) /\ Extend(tok[q], t[q]))
<1> USE DEF MayWrite, HeldPCs
<1>0. now \in Nat /\ pc \in [Procs -> PCs] /\ until \in [Procs -> Nat]
  BY DEF LeaseInv, TypeOK
<1>1. CASE Clock
  BY <1>0, <1>1 DEF Clock, Tick, locals
<1>2. CASE UNCHANGED vars
  BY <1>2 DEF vars, locals
<1>3. ASSUME NEW p \in Procs, InsertRow(p)
      PROVE  InsertRow(q) /\ Take(tok[q], t[q])
  BY <1>0, <1>3 DEF InsertRow, Goto, Take
<1>4. ASSUME NEW p \in Procs, RenewRow(p)
      PROVE  RenewRow(q) /\ Extend(tok[q], t[q])
  BY <1>0, <1>4 DEF RenewRow, Goto, Extend
<1>5. ASSUME NEW p \in Procs,
             \/ BeginAcquire(p) \/ CreateLock(p) \/ WriteLock(p) \/ ReadLock(p)
             \/ RemoveLock(p) \/ RecreateLock(p) \/ BeginRenew(p) \/ RenewRead(p)
             \/ RenewTrunc(p) \/ RenewWrite(p) \/ FinishRelease(p) \/ Crash(p) \/ Release(p)
      PROVE  FALSE
  BY <1>0, <1>5 DEF BeginAcquire, CreateLock, WriteLock, ReadLock, RemoveLock,
              RecreateLock, BeginRenew, RenewRead, RenewTrunc, RenewWrite,
              FinishRelease, ReleaseRead, ReleaseRemove, Crash, Release, Free, Goto, Forget, locals
<1> QED BY <1>1, <1>2, <1>3, <1>4, <1>5 DEF Next, Acquire, Renew

(* Such a process entered an empty slot: the row it was granted was free,  *)
(* expired, or its own.                                                    *)
LEMMA EntersEmpty ==
  ASSUME LeaseInv, [Next]_vars, NEW q \in Procs, MayWrite(q)', ~MayWrite(q)
  PROVE  \A p \in Procs : ~MayWrite(p)
<1> SUFFICES ASSUME NEW p \in Procs, MayWrite(p) PROVE FALSE
  OBVIOUS
<1>1. /\ row # None /\ row.token = tok[p] /\ row.expires = until[p] /\ until[p] > now
      /\ now \in Nat /\ until[p] \in Nat /\ t[q] \in Nat /\ t[q] <= now
  BY DEF LeaseInv, TypeOK, GrantedOrOver, MayWrite, ClockRead
<1>2. p # q
  OBVIOUS
<1>3. CASE InsertRow(q) /\ Take(tok[q], t[q])
  BY <1>1, <1>3 DEF Take
<1>4. CASE RenewRow(q) /\ Extend(tok[q], t[q])
  <2>1. row.token = tok[q]
    BY <1>4 DEF Extend, ValidAt
  <2>2. tok[p] # None
    BY DEF MayWrite, HeldPCs, LeaseInv, TokensDiffer
  <2> QED BY <1>1, <1>2, <2>1, <2>2 DEF LeaseInv, TokensDiffer
<1> QED BY <1>3, <1>4, NewWriter

(* The protocol implements the slot for one writer, which has neither      *)
(* files nor rows nor clocks.                                              *)
THEOREM ImplementsWriterSlotHolds == Spec => ImplementsWriterSlot
<1> DEFINE W == {p \in Procs : MayWrite(p)}
<1>1. Init => W = {}
  BY DEF Init, MayWrite, HeldPCs
<1>2. LeaseInv => OneWriter
  BY DEF LeaseInv, TypeOK, TokensDiffer, GrantedOrOver, OneWriter, MayWrite, HeldPCs, Rows
<1>3. LeaseInv /\ LeaseInv' /\ [Next]_vars => [Slot!Next]_W
  <2> SUFFICES ASSUME LeaseInv, LeaseInv', [Next]_vars PROVE [Slot!Next]_W
    OBVIOUS
  <2>1. OneWriter'
    <3>1. LeaseInv' => OneWriter'
      BY DEF LeaseInv, TypeOK, TokensDiffer, GrantedOrOver, OneWriter, MayWrite, HeldPCs, Rows
    <3> QED BY <3>1
  <2>2. CASE \E q \in Procs : MayWrite(q)' /\ ~MayWrite(q)
    <3>1. PICK q \in Procs : MayWrite(q)' /\ ~MayWrite(q)
      BY <2>2
    <3>2. W = {}
      BY <3>1, EntersEmpty
    <3>3. W' = {q}
      BY <3>1, <2>1 DEF OneWriter
    <3> QED BY <3>2, <3>3 DEF Slot!Next, Slot!Enter
  <2>3. CASE \A q \in Procs : MayWrite(q)' => MayWrite(q)
    <3>1. W' \subseteq W
      BY <2>3
    <3>2. W' = W \/ (W # {} /\ W' = {})
      BY <3>1, <1>2 DEF OneWriter
    <3> QED BY <3>2 DEF Slot!Next, Slot!Leave
  <2> QED BY <2>2, <2>3
<1> QED BY <1>1, <1>3, LeaseInvariant, PTL DEF Spec, ImplementsWriterSlot, Slot!Spec, Slot!Init
=============================================================================
