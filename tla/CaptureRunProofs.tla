-------------------------- MODULE CaptureRunProofs --------------------------
(***************************************************************************)
(* For any number of processes, runs and contexts: a complete run is       *)
(* complete, a capture that holds the lease is left alone, and what the    *)
(* ledger holds it keeps.                                                  *)
(***************************************************************************)
EXTENDS CaptureRun, FiniteSetTheorems, TLAPS

-----------------------------------------------------------------------------
(* The status finishRun computes.                                          *)

LEMMA ContextsFinite ==
  ASSUME TypeOK
  PROVE  /\ IsFiniteSet(Contexts) /\ Contexts # {}
         /\ Cardinality(Contexts) \in Nat
  BY WorkloadsAssumption, FS_CardinalityType DEF TypeOK, Contexts

(* As many rows as there are contexts and kinds: none is missing.          *)
LEMMA CountAll ==
  ASSUME TypeOK,
         NEW X, X \subseteq Contexts \X (1..Kinds),
         Cardinality(X) = Cardinality(Contexts) * Kinds
  PROVE  X = Contexts \X (1..Kinds)
<1>1. IsFiniteSet(1..Kinds) /\ Cardinality(1..Kinds) = Kinds
  BY CountAssumption, FS_Interval
<1>2. /\ IsFiniteSet(Contexts \X (1..Kinds))
      /\ Cardinality(Contexts \X (1..Kinds)) = Cardinality(Contexts) * Cardinality(1..Kinds)
  BY <1>1, ContextsFinite, FS_Product, Zenon
<1> QED BY <1>1, <1>2, FS_Subset

LEMMA CountNone ==
  ASSUME TypeOK,
         NEW X, X \subseteq Contexts \X (1..Kinds)
  PROVE  /\ Cardinality(X) \in Nat
         /\ Cardinality(X) = 0 <=> X = {}
<1>1. IsFiniteSet(1..Kinds)
  BY CountAssumption, FS_Interval
<1>2. IsFiniteSet(Contexts \X (1..Kinds))
  BY <1>1, ContextsFinite, FS_Product
<1>3. IsFiniteSet(X)
  BY <1>2, FS_Subset
<1> QED BY <1>3, FS_EmptySet, FS_CardinalityType

(* finishRun declares a run complete only when every collection of every   *)
(* context is there and succeeded.                                         *)
LEMMA CompleteVerdict ==
  ASSUME TypeOK, RowsThere, NEW r \in RunIds, Exists(r),
         FinishStatus(r) = "complete"
  PROVE  AllCollected(r)
<1>1. /\ Collected(r) \subseteq Contexts \X (1..Kinds)
      /\ Okay(r) \subseteq Contexts \X (1..Kinds)
  BY DEF Collected, Okay
<1>2. runs[r] \in RunRows /\ Kinds \in Nat \ {0}
  BY CountAssumption DEF TypeOK, Exists
<1>3. CASE Cardinality(Collected(r)) > 0
  <2>1. /\ Cardinality(Okay(r)) = Cardinality(Contexts) * Kinds
        /\ Cardinality(Collected(r)) = Cardinality(Contexts) * Kinds
    BY <1>3, Zenon DEF FinishStatus
  <2>2. /\ Okay(r) = Contexts \X (1..Kinds)
        /\ Collected(r) = Contexts \X (1..Kinds)
    BY <1>1, <2>1, CountAll
  <2>3. ASSUME NEW c \in Contexts
        PROVE  runs[r].ctx[c].rows = Kinds /\ runs[r].ctx[c].ok = Kinds
    <3>1. <<c, Kinds>> \in Contexts \X (1..Kinds)
      BY <1>2
    <3>2. <<c, Kinds>> \in Okay(r) /\ <<c, Kinds>> \in Collected(r)
      BY <2>2, <3>1
    <3>3. runs[r].ctx[c] \in ContextRows
      BY <1>2 DEF RunRows
    <3>4. Kinds <= runs[r].ctx[c].ok /\ Kinds <= runs[r].ctx[c].rows
      BY <3>2 DEF Okay, Collected
    <3> QED BY <1>2, <3>3, <3>4 DEF ContextRows
  <2> QED BY <2>3 DEF AllCollected
<1>4. CASE ~(Cardinality(Collected(r)) > 0)
  <2>1. Collected(r) = {}
    BY <1>1, <1>4, CountNone
  <2>2. WithVM(r, "success") = {}
    <3>1. SUFFICES ASSUME NEW c \in Contexts, runs[r].ctx[c].vm = "success" PROVE FALSE
      BY DEF WithVM
    <3>2. runs[r].ctx[c].rows = Kinds
      BY <3>1 DEF RowsThere, Known, Exists
    <3>3. <<c, 1>> \in Collected(r)
      BY <1>2, <3>2 DEF Collected
    <3> QED BY <2>1, <3>3
  <2>3. Cardinality(WithVM(r, "success")) = 0
    BY <2>2, FS_EmptySet
  <2>4. ~(Cardinality(WithVM(r, "success")) > 0)
    BY <2>3
  <2>5. FinishStatus(r) = "failed"
    BY <1>4, <2>3, <2>4, Zenon DEF FinishStatus
  <2> QED BY <2>5
<1> QED BY <1>3, <1>4

-----------------------------------------------------------------------------
(* Types.                                                                  *)

LEMMA LedgerInvInit == Init => LedgerInv
<1> SUFFICES ASSUME Init PROVE LedgerInv
  OBVIOUS
<1> USE DEF Init, LeaseInit
<1>1. TypeOK
  BY DurationAssumption, MaxTimeAssumption, CountAssumption
  DEF TypeOK, PCs, Locals, NoOp, RunIds, Statuses
<1>2. \A p \in Procs : pc[p] = "idle" /\ op[p] = NoOp
  OBVIOUS
<1>3. \A r \in RunIds : runs[r] = None
  OBVIOUS
<1>4. TokensDiffer /\ TimesRead
  BY <1>2 DEF TokensDiffer, TimesRead, NoOp
<1>5. OwnersApart /\ CaptureLive /\ VerdictsTrue /\ ImportsPartial /\ CandidatesOld
  BY <1>2, <1>3 DEF OwnersApart, CaptureLive, VerdictsTrue, ImportsPartial, CandidatesOld, CapturePCs, ImportPCs
<1>6. RowsThere /\ CompleteMeansAll
  BY <1>3 DEF RowsThere, CompleteMeansAll, Known, Exists
<1> QED BY <1>1, <1>4, <1>5, <1>6 DEF LedgerInv

(* A process goes on to a point of its program with locals of their type.  *)
LEMMA GotoType ==
  ASSUME TypeOK, UNCHANGED work, NEW p \in Procs, NEW l \in PCs, NEW o \in Locals, Goto(p, l, o)
  PROVE  pc' \in [Procs -> PCs] /\ op' \in [Procs -> Locals']
<1>1. Locals' = Locals
  BY DEF Locals, Contexts
<1> QED BY <1>1 DEF TypeOK, Goto

LEMMA NoOpType == ASSUME TypeOK PROVE NoOp \in Locals
  BY MaxTimeAssumption DEF NoOp, Locals, Statuses

LEMMA NewRunType ==
  ASSUME NEW pin \in BOOLEAN PROVE NewRun(pin) \in RunRows
  BY MaxTimeAssumption, CountAssumption DEF NewRun, RunRows, RunningRow, ContextRows, Statuses

LEMMA VerdictType == ASSUME NEW r PROVE FinishStatus(r) \in {"failed", "complete", "partial"}
  BY Zenon DEF FinishStatus

(* A run keeps its type whichever of its fields is written.                *)
LEMMA RunRowsExcept ==
  ASSUME NEW x \in RunRows
  PROVE  /\ \A s \in Statuses, t \in 0..MaxTime : [x EXCEPT !.status = s, !.at = t] \in RunRows
         /\ \A b \in BOOLEAN : [x EXCEPT !.pinned = b] \in RunRows
         /\ \A c \in Contexts, y \in ContextRows : [x EXCEPT !.ctx[c] = y] \in RunRows
         /\ \A f \in [Contexts -> ContextRows] : [x EXCEPT !.ctx = f] \in RunRows
  BY DEF RunRows

(* What a step does to the ledger is of the right type.                    *)
LEMMA RunsExceptType ==
  ASSUME TypeOK, NEW r \in RunIds, NEW x \in RunRows \cup {None}
  PROVE  [runs EXCEPT ![r] = x] \in [RunIds -> RunRows \cup {None}]
  BY DEF TypeOK

LEMMA TypeOKStep == LedgerInv /\ [Next]_vars => TypeOK'
<1> SUFFICES ASSUME LedgerInv, [Next]_vars PROVE TypeOK'
  OBVIOUS
<1>0. TypeOK
  BY DEF LedgerInv
<1>u. CASE UNCHANGED vars
  BY <1>0, <1>u DEF vars, TypeOK, RunRows, Locals, Contexts
<1>n. CASE Next
  <2>0. work' = work /\ Contexts' = Contexts /\ RunRows' = RunRows /\ Locals' = Locals
    BY <1>n DEF Next, Contexts, RunRows, Locals
  <2> DEFINE PcOp == pc' \in [Procs -> PCs] /\ op' \in [Procs -> Locals]
             Runs == runs' \in [RunIds -> RunRows \cup {None}]
             Row  == /\ now' \in 0..MaxTime
                     /\ row' \in [token: Tokens, expires: 0..(MaxTime + Duration)] \cup {None}
  <2>1. SUFFICES PcOp /\ Runs /\ Row /\ nextRun' \in 1..(MaxRuns + 1)
    BY <1>0, <2>0 DEF TypeOK
  <2>2. ASSUME UNCHANGED <<now, row>> PROVE Row
    BY <1>0, <2>2 DEF TypeOK
  <2>3. ASSUME UNCHANGED runs PROVE Runs
    BY <1>0, <2>3 DEF TypeOK
  <2>4. ASSUME UNCHANGED nextRun PROVE nextRun' \in 1..(MaxRuns + 1)
    BY <1>0, <2>4 DEF TypeOK
  <2>5. ASSUME NEW p \in Procs, NEW l \in PCs, NEW o \in Locals, Goto(p, l, o) PROVE PcOp
    BY <1>0, <2>0, <2>5, GotoType
  <2>6. ASSUME NEW p \in Procs, Return(p) PROVE PcOp
    BY <1>0, <2>5, <2>6, NoOpType DEF Return, PCs
  <2>7. ASSUME NEW k \in Tokens, NEW u \in 0..MaxTime, Take(k, u) \/ Extend(k, u) PROVE Row
    BY <1>0, <2>7, DurationAssumption, MaxTimeAssumption DEF TypeOK, Take, Extend, ValidAt
  <2>8. ASSUME NEW k, Free(k) PROVE Row
    BY <1>0, <2>8 DEF TypeOK, Free
  <2>9. ASSUME NEW p \in Procs
        PROVE  /\ op[p] \in Locals /\ now \in 0..MaxTime
               /\ op[p].t \in 0..MaxTime
               /\ op[p].run \in RunIds \cup {None}
    BY <1>0 DEF TypeOK, Locals
  <2>10. CASE Clock
    <3>1. Row
      BY <1>0, <2>10, MaxTimeAssumption DEF Clock, Tick, TypeOK
    <3>2. PcOp
      BY <1>0, <2>10 DEF Clock, TypeOK
    <3> QED BY <2>3, <2>4, <2>10, <3>1, <3>2 DEF Clock
  <2>i. ASSUME NEW pin \in BOOLEAN, InsertRun(pin) PROVE Runs /\ nextRun' \in 1..(MaxRuns + 1)
    BY <1>0, <2>i, NewRunType, CountAssumption DEF InsertRun, RunIds, TypeOK
  <2>e. ASSUME NEW r \in RunIds, Exists(r) PROVE runs[r] \in RunRows
    BY <1>0, <2>e DEF TypeOK, Exists
  <2>c. ASSUME NEW r, Exists(r), r \in RunIds \cup {None}, NEW c \in Contexts, NEW x \in ContextRows,
               runs' = [runs EXCEPT ![r].ctx[c] = x]
        PROVE  Runs
    <3>1. r \in RunIds
      BY <2>c DEF Exists
    <3>2. [runs[r] EXCEPT !.ctx[c] = x] \in RunRows
      BY <2>c, <2>e, <3>1, RunRowsExcept
    <3> QED BY <1>0, <2>c, <3>1, <3>2, RunsExceptType
  <2>f. ASSUME NEW r, Exists(r), r \in RunIds \cup {None}, NEW u \in Statuses, NEW t \in 0..MaxTime,
               runs' = [runs EXCEPT ![r].status = u, ![r].at = t]
        PROVE  Runs
    <3>1. r \in RunIds
      BY <2>f DEF Exists
    <3>2. [runs[r] EXCEPT !.status = u, !.at = t] \in RunRows
      BY <2>f, <2>e, <3>1, RunRowsExcept
    <3>3. [runs EXCEPT ![r].status = u, ![r].at = t] = [runs EXCEPT ![r] = [runs[r] EXCEPT !.status = u, !.at = t]]
      BY <1>0, <3>1 DEF TypeOK
    <3> QED BY <1>0, <2>f, <3>1, <3>2, <3>3, RunsExceptType
  <2>11. ASSUME NEW p \in Procs, Capture(p) PROVE PcOp /\ Runs /\ Row /\ nextRun' \in 1..(MaxRuns + 1)
    <3> USE <1>0, <2>9 DEF Locals, PCs
    <3>1. CASE BeginCapture(p)
      <4>1. PICK k \in Tokens : Take(k, now) /\ Goto(p, "start", [NoOp EXCEPT !.tok = k])
        BY <3>1 DEF BeginCapture, FreshTokens
      <4>2. [NoOp EXCEPT !.tok = k] \in Locals
        BY NoOpType
      <4> QED BY <2>3, <2>4, <2>5, <2>7, <3>1, <4>1, <4>2 DEF BeginCapture
    <3>2. CASE StartRun(p)
      <4>1. [op[p] EXCEPT !.run = nextRun, !.todo = Contexts] \in Locals
        BY <3>2 DEF StartRun, InsertRun
      <4> QED BY <2>2, <2>5, <2>i, <3>2, <4>1 DEF StartRun
    <3>3. CASE SetRun(p)
      BY <2>2, <2>3, <2>4, <2>5, <3>3 DEF SetRun
    <3>4. CASE FinishRead(p)
      <4>1. [op[p] EXCEPT !.t = now, !.verdict = FinishStatus(op[p].run)] \in Locals
        BY VerdictType DEF Statuses
      <4> QED BY <2>2, <2>3, <2>4, <2>5, <3>4, <4>1 DEF FinishRead
    <3>5. CASE FinishWrite(p)
      <4>1. Runs
        BY <2>3, <2>f, <3>5 DEF FinishWrite
      <4> QED BY <2>2, <2>4, <2>5, <3>5, <4>1 DEF FinishWrite
    <3>6. CASE Abort(p)
      BY <2>2, <2>3, <2>4, <2>5, <3>6 DEF Abort
    <3>7. CASE Beat(p)
      <4>1. [op[p] EXCEPT !.beat = now] \in Locals /\ pc[p] \in PCs
        BY <3>7 DEF Beat
      <4> QED BY <2>2, <2>3, <2>4, <2>5, <3>7, <4>1 DEF Beat
    <3>8. CASE Renew(p)
      <4>1. [op[p] EXCEPT !.beat = None] \in Locals /\ pc[p] \in PCs /\ op[p].beat \in 0..MaxTime
        BY <3>8 DEF Renew, TypeOK
      <4>2. Row
        BY <2>2, <2>7, <3>8, <4>1 DEF Renew, Extend, ValidAt, TypeOK
      <4> QED BY <2>3, <2>4, <2>5, <3>8, <4>1, <4>2 DEF Renew
    <3>9. CASE Release(p)
      <4>1. Row
        BY <2>2, <2>8, <3>9 DEF Release
      <4> QED BY <2>3, <2>4, <2>6, <3>9, <4>1 DEF Release
    <3>10. ASSUME NEW c \in Contexts, SaveFails(p, c) PROVE PcOp /\ Runs /\ Row /\ nextRun' \in 1..(MaxRuns + 1)
      <4>1. [op[p] EXCEPT !.todo = @ \ {c}] \in Locals
        OBVIOUS
      <4> QED BY <2>2, <2>3, <2>4, <2>5, <3>10, <4>1 DEF SaveFails
    <3>11. ASSUME NEW c \in Contexts, NEW x \in PossibleResults, Save(p, c, x)
           PROVE PcOp /\ Runs /\ Row /\ nextRun' \in 1..(MaxRuns + 1)
      <4>1. [op[p] EXCEPT !.todo = @ \ {c}] \in Locals
        OBVIOUS
      <4>2. x \in ContextRows
        BY CountAssumption DEF PossibleResults, Results, ContextRows
      <4>3. Runs
        BY <2>c, <3>11, <4>2 DEF Save
      <4> QED BY <2>2, <2>4, <2>5, <3>11, <4>1, <4>3 DEF Save
    <3> QED BY <2>11, <3>1, <3>2, <3>3, <3>4, <3>5, <3>6, <3>7, <3>8, <3>9, <3>10, <3>11 DEF Capture
  <2>12. ASSUME NEW p \in Procs, Recover(p) PROVE PcOp /\ Runs /\ Row /\ nextRun' \in 1..(MaxRuns + 1)
    <3> USE <1>0, <2>9 DEF Locals, PCs
    <3>1. CASE Open(p)
      <4>1. [NoOp EXCEPT !.t = now] \in Locals
        BY NoOpType
      <4> QED BY <2>2, <2>3, <2>4, <2>5, <3>1, <4>1 DEF Open
    <3>2. CASE RecoverContexts(p)
      <4>1. ASSUME NEW r \in RunIds, runs[r] # None
            PROVE  [runs[r] EXCEPT !.ctx = [c \in Contexts |-> Interrupted(@[c])]] \in RunRows
        <5>1. runs[r] \in RunRows
          BY <4>1 DEF TypeOK
        <5>2. [c \in Contexts |-> Interrupted(runs[r].ctx[c])] \in [Contexts -> ContextRows]
          BY <5>1 DEF RunRows, ContextRows, Interrupted
        <5> QED BY <5>1, <5>2, RunRowsExcept
      <4>2. Runs
        BY <2>3, <3>2, <4>1 DEF RecoverContexts
      <4> QED BY <2>2, <2>4, <2>5, <3>2, <4>2 DEF RecoverContexts
    <3>3. CASE RecoverRuns(p)
      <4>1. ASSUME NEW r \in RunIds, runs[r] # None
            PROVE  [runs[r] EXCEPT !.status = "failed", !.at = op[p].t] \in RunRows
        <5>1. runs[r] \in RunRows
          BY <4>1 DEF TypeOK
        <5>2. "failed" \in Statuses /\ op[p].t \in 0..MaxTime
          BY DEF Statuses
        <5> QED BY <5>1, <5>2, RunRowsExcept
      <4>2. \A r \in RunIds : runs[r] \in RunRows \cup {None}
        BY DEF TypeOK
      <4>3. Runs
        BY <2>3, <3>3, <4>1, <4>2 DEF RecoverRuns, Exists
      <4> QED BY <2>2, <2>4, <2>6, <3>3, <4>3 DEF RecoverRuns
    <3> QED BY <2>12, <3>1, <3>2, <3>3 DEF Recover
  <2>13. ASSUME NEW p \in Procs, Import(p) PROVE PcOp /\ Runs /\ Row /\ nextRun' \in 1..(MaxRuns + 1)
    <3> USE <1>0, <2>9 DEF Locals, PCs
    <3>1. CASE BeginImport(p)
      <4>1. PICK u \in 0..now : Goto(p, "importing", [NoOp EXCEPT !.t = u, !.run = nextRun, !.todo = Contexts])
        BY <3>1 DEF BeginImport
      <4>2. [NoOp EXCEPT !.t = u, !.run = nextRun, !.todo = Contexts] \in Locals
        <5>1. u \in 0..MaxTime /\ nextRun \in RunIds
          BY <2>9, <3>1, MaxTimeAssumption DEF BeginImport, InsertRun
        <5> QED BY <5>1, NoOpType
      <4> QED BY <2>2, <2>5, <2>i, <3>1, <4>1, <4>2 DEF BeginImport
    <3>2. CASE ImportCount(p)
      <4>1. [op[p] EXCEPT !.verdict = FinishStatus(op[p].run)] \in Locals
        BY VerdictType DEF Statuses
      <4> QED BY <2>2, <2>3, <2>4, <2>5, <3>2, <4>1 DEF ImportCount
    <3>3. CASE ImportFinish(p)
      <4>1. Runs
        BY <2>3, <2>f, <3>3 DEF ImportFinish
      <4> QED BY <2>2, <2>4, <2>6, <3>3, <4>1 DEF ImportFinish
    <3>4. CASE ImportFails(p)
      BY <2>2, <2>3, <2>4, <2>5, <2>6, <3>4 DEF ImportFails
    <3>5. ASSUME NEW c \in Contexts, ImportSave(p, c) PROVE PcOp /\ Runs /\ Row /\ nextRun' \in 1..(MaxRuns + 1)
      <4>1. [op[p] EXCEPT !.todo = @ \ {c}] \in Locals
        OBVIOUS
      <4>2. \A k \in 1..(Kinds - 1) : [vm |-> "success", rows |-> Kinds, ok |-> k] \in ContextRows
        BY CountAssumption DEF ContextRows
      <4>3. Runs
        <5>1. PICK k \in 1..(Kinds - 1) :
                  runs' = [runs EXCEPT ![op[p].run].ctx[c] = [vm |-> "success", rows |-> Kinds, ok |-> k]]
          BY <3>5 DEF ImportSave
        <5>2. Exists(op[p].run)
          BY <3>5 DEF ImportSave
        <5>3. op[p].run \in RunIds \cup {None}
          BY <2>9
        <5> QED BY <2>c, <4>2, <5>1, <5>2, <5>3
      <4>4. nextRun' \in 1..(MaxRuns + 1) /\ Row
        BY <2>2, <2>4, <3>5 DEF ImportSave
      <4>5. PcOp
        BY <2>5, <3>5, <4>1 DEF ImportSave
      <4> QED BY <4>3, <4>4, <4>5
    <3> QED BY <2>13, <3>1, <3>2, <3>3, <3>4, <3>5 DEF Import
  <2>14. ASSUME NEW p \in Procs, Maintain(p) PROVE PcOp /\ Runs /\ Row /\ nextRun' \in 1..(MaxRuns + 1)
    <3> USE <1>0, <2>9 DEF Locals, PCs
    <3>1. ASSUME NEW r \in RunIds, BeginDelete(p, r) PROVE PcOp /\ Runs /\ Row /\ nextRun' \in 1..(MaxRuns + 1)
      <4>1. [NoOp EXCEPT !.run = r] \in Locals
        BY NoOpType
      <4> QED BY <2>2, <2>3, <2>4, <2>5, <3>1, <4>1 DEF BeginDelete
    <3>2. ASSUME NEW r \in RunIds, NEW b \in BOOLEAN, SetPinned(p, r, b)
          PROVE PcOp /\ Runs /\ Row /\ nextRun' \in 1..(MaxRuns + 1)
      <4>1. [runs[r] EXCEPT !.pinned = b] \in RunRows
        BY <2>e, <3>2, RunRowsExcept DEF SetPinned
      <4>2. Runs
        BY <3>2, <4>1, RunsExceptType DEF SetPinned
      <4> QED BY <2>2, <2>4, <3>2, <4>2 DEF SetPinned, TypeOK
    <3>3. CASE Delete(p)
      <4>1. Runs
        BY <3>3 DEF Delete, TypeOK
      <4> QED BY <2>2, <2>4, <2>6, <3>3, <4>1 DEF Delete
    <3>4. CASE PruneRead(p)
      <4>1. [NoOp EXCEPT !.cand = Candidates] \in Locals
        BY NoOpType DEF Candidates, Known
      <4> QED BY <2>2, <2>3, <2>4, <2>5, <3>4, <4>1 DEF PruneRead
    <3>5. CASE PruneLease(p)
      <4>1. CASE Return(p) /\ UNCHANGED <<now, row>>
        BY <2>2, <2>3, <2>4, <2>6, <3>5, <4>1 DEF PruneLease
      <4>2. ASSUME NEW k \in FreshTokens, Take(k, now), Goto(p, "pruning", [op[p] EXCEPT !.tok = k])
            PROVE PcOp /\ Runs /\ Row /\ nextRun' \in 1..(MaxRuns + 1)
        <5>1. k \in Tokens /\ [op[p] EXCEPT !.tok = k] \in Locals
          BY DEF FreshTokens
        <5> QED BY <2>3, <2>4, <2>5, <2>7, <3>5, <4>2, <5>1 DEF PruneLease
      <4> QED BY <3>5, <4>1, <4>2 DEF PruneLease
    <3>6. CASE Prune(p)
      <4>1. Runs
        BY <3>6 DEF Prune, TypeOK
      <4> QED BY <2>2, <2>4, <2>5, <3>6, <4>1 DEF Prune
    <3> QED BY <2>14, <3>1, <3>2, <3>3, <3>4, <3>5, <3>6 DEF Maintain
  <2>15. ASSUME NEW p \in Procs, Crash(p) PROVE PcOp /\ Runs /\ Row /\ nextRun' \in 1..(MaxRuns + 1)
    BY <2>2, <2>3, <2>4, <2>6, <2>15 DEF Crash
  <2> QED BY <1>n, <2>10, <2>11, <2>12, <2>13, <2>14, <2>15 DEF Next
<1> QED BY <1>u, <1>n

-----------------------------------------------------------------------------
(* Tokens, times and owners.                                               *)

Acts(p) == Capture(p) \/ Recover(p) \/ Import(p) \/ Maintain(p) \/ Crash(p)

(* A step of one process leaves the others where they are.                 *)
LEMMA OthersStay ==
  ASSUME TypeOK, NEW p \in Procs, Acts(p)
  PROVE  \A q \in Procs : q # p => pc'[q] = pc[q] /\ op'[q] = op[q]
<1>1. CASE Capture(p)
  BY <1>1 DEF TypeOK, Capture, BeginCapture, StartRun, SetRun, FinishRead, FinishWrite, Abort, Beat, Renew,
              Release, SaveFails, Save, Goto, Return
<1>2. CASE Recover(p)
  BY <1>2 DEF TypeOK, Recover, Open, RecoverContexts, RecoverRuns, Goto, Return
<1>3. CASE Import(p)
  BY <1>3 DEF TypeOK, Import, BeginImport, ImportCount, ImportFinish, ImportFails, ImportSave, Goto, Return
<1>4. CASE Maintain(p)
  BY <1>4 DEF TypeOK, Maintain, BeginDelete, SetPinned, Delete, PruneRead, PruneLease, Prune, Goto, Return
<1>5. CASE Crash(p)
  BY <1>5 DEF TypeOK, Crash, Goto, Return
<1> QED BY <1>1, <1>2, <1>3, <1>4, <1>5 DEF Acts

LEMMA GotoTo ==
  ASSUME TypeOK, NEW p \in Procs, NEW l, NEW o, Goto(p, l, o)
  PROVE  pc'[p] = l /\ op'[p] = o
  BY DEF TypeOK, Goto

LEMMA ReturnTo ==
  ASSUME TypeOK, NEW p \in Procs, Return(p)
  PROVE  pc'[p] = "idle" /\ op'[p] = NoOp
  BY GotoTo DEF Return

(* Where a step takes its process, and with which locals.                  *)
SameRun(p) == op'[p].tok = op[p].tok /\ op'[p].t = op[p].t /\ op'[p].run = op[p].run

StaysThere(p) ==
  /\ pc'[p] = pc[p] /\ SameRun(p) /\ op'[p].todo = op[p].todo
  /\ op'[p].verdict = op[p].verdict /\ op'[p].cand = op[p].cand
  /\ op'[p].beat \in {op[p].beat, None, now}

LeavesOff(p) ==
  \/ pc'[p] = "idle" /\ op'[p] = NoOp
  \/ pc'[p] \in {"release", "delete"} /\ op'[p] = op[p]
  \/ /\ pc'[p] \in {"start", "delete", "recoverContexts", "pruneLease"} /\ op'[p].beat = None
     /\ op'[p].tok \in FreshTokens \cup {None} /\ op'[p].t \in {0, now}
     /\ pc'[p] = "recoverContexts" => op'[p].t = now
     /\ pc'[p] = "pruneLease" => PruneRead(p) /\ op'[p].cand = Candidates
  \/ pc[p] = "recoverContexts" /\ pc'[p] = "recoverRuns" /\ op'[p] = op[p]

BeginsRun(p) ==
  /\ op'[p].run = nextRun /\ op'[p].todo = Contexts /\ op'[p].beat \in {op[p].beat, None}
  /\ \/ StartRun(p) /\ pc'[p] = "setRun" /\ op'[p].tok = op[p].tok /\ op'[p].t = op[p].t
     \/ BeginImport(p) /\ pc'[p] = "importing" /\ op'[p].tok = None /\ op'[p].t \in 0..now

Writes(p) ==
  \/ SetRun(p) /\ Valid(p) /\ pc'[p] = "saving" /\ op'[p] = op[p]
  \/ /\ SameRun(p) /\ op'[p].beat = op[p].beat
     /\ \E c \in Contexts :
          /\ op'[p].todo = op[p].todo \ {c}
          /\ \/ /\ pc'[p] = "saving"
                /\ SaveFails(p, c) \/ \E x \in PossibleResults : Save(p, c, x)
             \/ pc'[p] = "importing" /\ ImportSave(p, c)

Counts(p) ==
  /\ op'[p].tok = op[p].tok /\ op'[p].run = op[p].run /\ op'[p].todo = op[p].todo
  /\ op'[p].beat = op[p].beat /\ op'[p].verdict = FinishStatus(op[p].run)
  /\ \/ FinishRead(p) /\ Valid(p) /\ pc'[p] = "counted" /\ op'[p].t = now
     \/ ImportCount(p) /\ pc'[p] = "importCounted" /\ op'[p].t = op[p].t

PruneGoes(p) ==
  /\ PruneLease(p) /\ pc'[p] = "pruning" /\ op'[p].tok \in FreshTokens
  /\ op'[p].t = op[p].t /\ op'[p].beat = op[p].beat /\ op'[p].cand = op[p].cand

LEMMA Flow ==
  ASSUME TypeOK, NEW p \in Procs, Acts(p)
  PROVE  StaysThere(p) \/ LeavesOff(p) \/ BeginsRun(p) \/ Writes(p) \/ Counts(p) \/ PruneGoes(p)
<1>0. op[p] \in Locals
  BY DEF TypeOK
<1> DEFINE Goal == StaysThere(p) \/ LeavesOff(p) \/ BeginsRun(p) \/ Writes(p) \/ Counts(p) \/ PruneGoes(p)
<1>1. CASE BeginCapture(p)
  <2>1. PICK k \in FreshTokens : Goto(p, "start", [NoOp EXCEPT !.tok = k])
    BY <1>1, Zenon DEF BeginCapture
  <2>2. pc'[p] = "start" /\ op'[p] = [NoOp EXCEPT !.tok = k]
    BY <2>1, GotoTo, Zenon
  <2>3. LeavesOff(p)
    BY <1>1, <1>0, <2>2 DEF LeavesOff, NoOp
  <2> QED BY <2>3
<1>2. CASE StartRun(p)
  <2>1. Goto(p, "setRun", [op[p] EXCEPT !.run = nextRun, !.todo = Contexts])
    BY <1>2, Zenon DEF StartRun
  <2>2. pc'[p] = "setRun" /\ op'[p] = [op[p] EXCEPT !.run = nextRun, !.todo = Contexts]
    BY <2>1, GotoTo, Zenon
  <2>3. BeginsRun(p)
    BY <1>2, <1>0, <2>2 DEF BeginsRun, Locals
  <2> QED BY <2>3
<1>3. CASE SetRun(p)
  <2>1. CASE Valid(p)
    <3>1. Writes(p)
      BY <1>3, <2>1, GotoTo DEF SetRun, Writes
    <3> QED BY <3>1
  <2>2. CASE ~Valid(p)
    <3>1. LeavesOff(p)
      BY <1>3, <2>2, GotoTo DEF SetRun, LeavesOff
    <3> QED BY <3>1
  <2> QED BY <2>1, <2>2
<1>4. CASE FinishRead(p)
  <2>1. CASE Valid(p) /\ Exists(op[p].run)
    <3>1. Goto(p, "counted", [op[p] EXCEPT !.t = now, !.verdict = FinishStatus(op[p].run)])
      BY <1>4, <2>1, Zenon DEF FinishRead
    <3>2. pc'[p] = "counted" /\ op'[p] = [op[p] EXCEPT !.t = now, !.verdict = FinishStatus(op[p].run)]
      BY <3>1, GotoTo, Zenon
    <3>3. Counts(p)
      BY <1>4, <1>0, <2>1, <3>2 DEF Counts, Locals
    <3> QED BY <3>3
  <2>2. CASE ~(Valid(p) /\ Exists(op[p].run))
    <3>1. Goto(p, "release", op[p])
      BY <1>4, <2>2, Zenon DEF FinishRead
    <3>2. LeavesOff(p)
      BY <3>1, GotoTo DEF LeavesOff
    <3> QED BY <3>2
  <2> QED BY <2>1, <2>2
<1>5. CASE FinishWrite(p)
  <2>1. LeavesOff(p)
    BY <1>5, GotoTo, ReturnTo DEF FinishWrite, LeavesOff
  <2> QED BY <2>1
<1>6. CASE Abort(p)
  <2>1. LeavesOff(p)
    BY <1>6, GotoTo, ReturnTo DEF Abort, LeavesOff
  <2> QED BY <2>1
<1>7. CASE Beat(p)
  <2>1. StaysThere(p)
    BY <1>7, <1>0, GotoTo DEF Beat, StaysThere, SameRun, Locals
  <2> QED BY <2>1
<1>8. CASE Renew(p)
  <2>1. StaysThere(p)
    BY <1>8, <1>0, GotoTo DEF Renew, StaysThere, SameRun, Locals
  <2> QED BY <2>1
<1>9. CASE Release(p)
  <2>1. LeavesOff(p)
    BY <1>9, GotoTo, ReturnTo DEF Release, LeavesOff
  <2> QED BY <2>1
<1>10. ASSUME NEW c \in Contexts, SaveFails(p, c) PROVE Goal
  <2>1. Goto(p, "saving", [op[p] EXCEPT !.todo = @ \ {c}])
    BY <1>10, Zenon DEF SaveFails
  <2>2. pc'[p] = "saving" /\ op'[p] = [op[p] EXCEPT !.todo = @ \ {c}]
    BY <2>1, GotoTo, Zenon
  <2>3. Writes(p)
    BY <1>10, <1>0, <2>2 DEF Writes, SameRun, Locals
  <2> QED BY <2>3
<1>11. ASSUME NEW c \in Contexts, NEW x \in PossibleResults, Save(p, c, x) PROVE Goal
  <2>1. Goto(p, "saving", [op[p] EXCEPT !.todo = @ \ {c}])
    BY <1>11, Zenon DEF Save
  <2>2. pc'[p] = "saving" /\ op'[p] = [op[p] EXCEPT !.todo = @ \ {c}]
    BY <2>1, GotoTo, Zenon
  <2>3. Writes(p)
    BY <1>11, <1>0, <2>2 DEF Writes, SameRun, Locals
  <2> QED BY <2>3
<1>12. CASE Open(p)
  <2>1. Goto(p, "recoverContexts", [NoOp EXCEPT !.t = now])
    BY <1>12, Zenon DEF Open
  <2>2. pc'[p] = "recoverContexts" /\ op'[p] = [NoOp EXCEPT !.t = now]
    BY <2>1, GotoTo, Zenon
  <2>3. LeavesOff(p)
    BY <1>12, <1>0, <2>2 DEF LeavesOff, NoOp
  <2> QED BY <2>3
<1>13. CASE RecoverContexts(p)
  <2>1. LeavesOff(p)
    BY <1>13, GotoTo, ReturnTo DEF RecoverContexts, LeavesOff
  <2> QED BY <2>1
<1>14. CASE RecoverRuns(p)
  <2>1. Return(p)
    BY <1>14, Zenon DEF RecoverRuns
  <2>2. LeavesOff(p)
    BY <2>1, ReturnTo DEF LeavesOff
  <2> QED BY <2>2
<1>15. CASE BeginImport(p)
  <2>1. PICK u \in 0..now : Goto(p, "importing", [NoOp EXCEPT !.t = u, !.run = nextRun, !.todo = Contexts])
    BY <1>15, Zenon DEF BeginImport
  <2>2. pc'[p] = "importing" /\ op'[p] = [NoOp EXCEPT !.t = u, !.run = nextRun, !.todo = Contexts]
    BY <2>1, GotoTo, Zenon
  <2>3. BeginsRun(p)
    BY <1>15, <1>0, <2>2 DEF BeginsRun, NoOp
  <2> QED BY <2>3
<1>16. CASE ImportCount(p)
  <2>1. Goto(p, "importCounted", [op[p] EXCEPT !.verdict = FinishStatus(op[p].run)])
    BY <1>16, Zenon DEF ImportCount
  <2>2. pc'[p] = "importCounted" /\ op'[p] = [op[p] EXCEPT !.verdict = FinishStatus(op[p].run)]
    BY <2>1, GotoTo, Zenon
  <2>3. Counts(p)
    BY <1>16, <1>0, <2>2 DEF Counts, Locals
  <2> QED BY <2>3
<1>17. CASE ImportFinish(p)
  <2>1. LeavesOff(p)
    BY <1>17, GotoTo, ReturnTo DEF ImportFinish, LeavesOff
  <2> QED BY <2>1
<1>18. CASE ImportFails(p)
  <2>1. LeavesOff(p)
    BY <1>18, GotoTo, ReturnTo DEF ImportFails, LeavesOff
  <2> QED BY <2>1
<1>19. ASSUME NEW c \in Contexts, ImportSave(p, c) PROVE Goal
  <2>1. Goto(p, "importing", [op[p] EXCEPT !.todo = @ \ {c}])
    BY <1>19, Zenon DEF ImportSave
  <2>2. pc'[p] = "importing" /\ op'[p] = [op[p] EXCEPT !.todo = @ \ {c}]
    BY <2>1, GotoTo, Zenon
  <2>3. Writes(p)
    BY <1>19, <1>0, <2>2 DEF Writes, SameRun, Locals
  <2> QED BY <2>3
<1>20. ASSUME NEW r \in RunIds, BeginDelete(p, r) PROVE Goal
  <2>1. Goto(p, "delete", [NoOp EXCEPT !.run = r])
    BY <1>20, Zenon DEF BeginDelete
  <2>2. pc'[p] = "delete" /\ op'[p] = [NoOp EXCEPT !.run = r]
    BY <2>1, GotoTo, Zenon
  <2>3. LeavesOff(p)
    BY <1>20, <1>0, <2>2 DEF LeavesOff, NoOp
  <2> QED BY <2>3
<1>21. ASSUME NEW r \in RunIds, NEW b \in BOOLEAN, SetPinned(p, r, b) PROVE Goal
  <2>1. StaysThere(p)
    BY <1>21, <1>0, GotoTo DEF SetPinned, StaysThere, SameRun, Locals
  <2> QED BY <2>1
<1>22. CASE Delete(p)
  <2>1. LeavesOff(p)
    BY <1>22, GotoTo, ReturnTo DEF Delete, LeavesOff
  <2> QED BY <2>1
<1>23. CASE PruneRead(p)
  <2>1. Goto(p, "pruneLease", [NoOp EXCEPT !.cand = Candidates])
    BY <1>23, Zenon DEF PruneRead
  <2>2. pc'[p] = "pruneLease" /\ op'[p] = [NoOp EXCEPT !.cand = Candidates]
    BY <2>1, GotoTo, Zenon
  <2>3. LeavesOff(p)
    BY <1>23, <1>0, <2>2 DEF LeavesOff, NoOp
  <2> QED BY <2>3
<1>24. CASE PruneLease(p)
  <2>1. CASE Return(p)
    <3>1. LeavesOff(p)
      BY <2>1, ReturnTo DEF LeavesOff
    <3> QED BY <3>1
  <2>2. ASSUME NEW k \in FreshTokens, Goto(p, "pruning", [op[p] EXCEPT !.tok = k])
        PROVE  Goal
    <3>1. pc'[p] = "pruning" /\ op'[p] = [op[p] EXCEPT !.tok = k]
      BY <2>2, GotoTo, Zenon
    <3>2. PruneGoes(p)
      BY <1>24, <1>0, <3>1 DEF PruneGoes, Locals
    <3> QED BY <3>2
  <2> QED BY <1>24, <2>1, <2>2, Zenon DEF PruneLease
<1>25. CASE Prune(p)
  <2>1. LeavesOff(p)
    BY <1>25, GotoTo, ReturnTo DEF Prune, LeavesOff
  <2> QED BY <2>1
<1>26. CASE Crash(p)
  <2>1. LeavesOff(p)
    BY <1>26, GotoTo, ReturnTo DEF Crash, LeavesOff
  <2> QED BY <2>1
<1> QED BY <1>1, <1>2, <1>3, <1>4, <1>5, <1>6, <1>7, <1>8, <1>9, <1>10, <1>11, <1>12, <1>13, <1>14, <1>15, <1>16,
           <1>17, <1>18, <1>19, <1>20, <1>21, <1>22, <1>23, <1>24, <1>25, <1>26 DEF Acts, Capture, Recover,
           Import, Maintain

-----------------------------------------------------------------------------
(* What a step does to the lease.                                          *)

RowFlow(p) ==
  \/ row' = row
  \/ op'[p].tok \in FreshTokens /\ row' = [token |-> op'[p].tok, expires |-> now + Duration]
  \/ ValidAt(op[p].tok, op[p].beat) /\ row' = [row EXCEPT !.expires = op[p].beat + Duration] /\ Renew(p)
  \/ row' = None

LEMMA LeaseFlow ==
  ASSUME TypeOK, NEW p \in Procs, Acts(p)
  PROVE  now' = now /\ RowFlow(p)
<1> DEFINE Goal == now' = now /\ RowFlow(p)
<1>1. CASE BeginCapture(p)
  <2>1. PICK k \in FreshTokens : Take(k, now) /\ Goto(p, "start", [NoOp EXCEPT !.tok = k])
    BY <1>1, Zenon DEF BeginCapture
  <2>2. op'[p] = [NoOp EXCEPT !.tok = k]
    BY <2>1, GotoTo, Zenon
  <2>3. op'[p].tok = k
    BY <2>2 DEF NoOp
  <2> QED BY <2>1, <2>3 DEF Take, RowFlow
<1>2. CASE StartRun(p)
  BY <1>2, Zenon DEF StartRun, RowFlow
<1>3. CASE SetRun(p)
  BY <1>3, Zenon DEF SetRun, RowFlow
<1>4. CASE FinishRead(p)
  BY <1>4, Zenon DEF FinishRead, RowFlow
<1>5. CASE FinishWrite(p)
  BY <1>5, Zenon DEF FinishWrite, RowFlow
<1>6. CASE Abort(p)
  BY <1>6, Zenon DEF Abort, RowFlow
<1>7. CASE Beat(p)
  BY <1>7, Zenon DEF Beat, RowFlow
<1>8. CASE Renew(p)
  BY <1>8 DEF Renew, Extend, RowFlow
<1>9. CASE Release(p)
  BY <1>9 DEF Release, Free, RowFlow
<1>10. ASSUME NEW c \in Contexts, SaveFails(p, c) PROVE Goal
  BY <1>10, Zenon DEF SaveFails, RowFlow
<1>11. ASSUME NEW c \in Contexts, NEW x \in PossibleResults, Save(p, c, x) PROVE Goal
  BY <1>11, Zenon DEF Save, RowFlow
<1>12. CASE Open(p)
  BY <1>12, Zenon DEF Open, RowFlow
<1>13. CASE RecoverContexts(p)
  BY <1>13, Zenon DEF RecoverContexts, RowFlow
<1>14. CASE RecoverRuns(p)
  BY <1>14, Zenon DEF RecoverRuns, RowFlow
<1>15. CASE BeginImport(p)
  BY <1>15, Zenon DEF BeginImport, RowFlow
<1>16. CASE ImportCount(p)
  BY <1>16, Zenon DEF ImportCount, RowFlow
<1>17. CASE ImportFinish(p)
  BY <1>17, Zenon DEF ImportFinish, RowFlow
<1>18. CASE ImportFails(p)
  BY <1>18, Zenon DEF ImportFails, RowFlow
<1>19. ASSUME NEW c \in Contexts, ImportSave(p, c) PROVE Goal
  BY <1>19, Zenon DEF ImportSave, RowFlow
<1>20. ASSUME NEW r \in RunIds, BeginDelete(p, r) PROVE Goal
  BY <1>20, Zenon DEF BeginDelete, RowFlow
<1>21. ASSUME NEW r \in RunIds, NEW b \in BOOLEAN, SetPinned(p, r, b) PROVE Goal
  BY <1>21, Zenon DEF SetPinned, RowFlow
<1>22. CASE Delete(p)
  BY <1>22, Zenon DEF Delete, RowFlow
<1>23. CASE PruneRead(p)
  BY <1>23, Zenon DEF PruneRead, RowFlow
<1>24. CASE PruneLease(p)
  <2>1. CASE UNCHANGED <<now, row>>
    BY <2>1 DEF RowFlow
  <2>2. ASSUME NEW k \in FreshTokens, Take(k, now), Goto(p, "pruning", [op[p] EXCEPT !.tok = k]) PROVE Goal
    <3>1. op'[p] = [op[p] EXCEPT !.tok = k] /\ op[p] \in Locals
      BY <2>2, GotoTo, Zenon DEF TypeOK
    <3>2. op'[p].tok = k
      BY <3>1 DEF Locals
    <3> QED BY <2>2, <3>2 DEF Take, RowFlow
  <2> QED BY <1>24, <2>1, <2>2, Zenon DEF PruneLease
<1>25. CASE Prune(p)
  BY <1>25, Zenon DEF Prune, RowFlow
<1>26. CASE Crash(p)
  BY <1>26, Zenon DEF Crash, RowFlow
<1> QED BY <1>1, <1>2, <1>3, <1>4, <1>5, <1>6, <1>7, <1>8, <1>9, <1>10, <1>11, <1>12, <1>13, <1>14, <1>15, <1>16,
           <1>17, <1>18, <1>19, <1>20, <1>21, <1>22, <1>23, <1>24, <1>25, <1>26 DEF Acts, Capture, Recover,
           Import, Maintain

-----------------------------------------------------------------------------
(* What a step does to a run.                                              *)

Written(p, r) ==
  /\ r = op[p].run
  /\ \/ pc[p] = "saving" /\ Valid(p) /\ runs'[r].status = runs[r].status
        /\ \E c \in Contexts, x \in PossibleResults :
             /\ Save(p, c, x) /\ c \in op[p].todo /\ c \notin op'[p].todo
             /\ runs'[r].ctx = [runs[r].ctx EXCEPT ![c] = x]
     \/ /\ pc[p] = "counted" /\ ValidAt(op[p].tok, op[p].t) /\ FinishWrite(p)
        /\ runs'[r].status = op[p].verdict /\ runs'[r].ctx = runs[r].ctx
     \/ pc[p] = "importing" /\ runs'[r].status = runs[r].status
        /\ \E c \in Contexts, k \in 1..(Kinds - 1) :
             /\ ImportSave(p, c) /\ c \in op[p].todo /\ c \notin op'[p].todo
             /\ runs'[r].ctx = [runs[r].ctx EXCEPT ![c] = [vm |-> "success", rows |-> Kinds, ok |-> k]]
     \/ /\ pc[p] = "importCounted" /\ ImportFinish(p)
        /\ runs'[r].status = op[p].verdict /\ runs'[r].ctx = runs[r].ctx

Recovered(p, r) ==
  /\ NoLiveLease(p)
  /\ \/ /\ pc[p] = "recoverContexts" /\ runs'[r].status = runs[r].status
        /\ runs'[r].ctx = [c \in Contexts |-> Interrupted(runs[r].ctx[c])]
     \/ /\ pc[p] = "recoverRuns" /\ runs'[r].ctx = runs[r].ctx
        /\ runs[r].status = "running" /\ runs'[r].status = "failed"

Removed(p, r) ==
  /\ runs'[r] = None
  /\ \/ pc[p] = "delete" /\ Delete(p)
     \/ Prune(p) /\ r \in op[p].cand /\ Prunable(r)

RunsFlow(p, r) ==
  \/ runs'[r] = runs[r]
  \/ r = nextRun /\ nextRun' = nextRun + 1 /\ \E pin \in BOOLEAN : runs'[r] = NewRun(pin)
  \/ runs[r] # None /\ pc' = pc /\ runs'[r].status = runs[r].status /\ runs'[r].ctx = runs[r].ctx
  \/ r # None /\ runs[r] # None /\ Written(p, r)
  \/ runs[r] # None /\ Recovered(p, r)
  \/ runs[r] # None /\ Removed(p, r)

LEMMA LedgerFlow ==
  ASSUME TypeOK, NEW p \in Procs, Acts(p), NEW r \in RunIds
  PROVE  RunsFlow(p, r)
<1>0. /\ runs \in [RunIds -> RunRows \cup {None}]
      /\ op[p].run \in RunIds \cup {None} /\ op[p] \in Locals
  BY DEF TypeOK, Locals
<1>a. runs'[r] = runs[r] => RunsFlow(p, r)
  BY DEF RunsFlow
<1>b. UNCHANGED runs => RunsFlow(p, r)
  BY <1>a
<1>c. Exists(r) /\ Written(p, r) => RunsFlow(p, r)
  BY DEF RunsFlow, Exists
<1>d. runs[r] # None /\ Recovered(p, r) => RunsFlow(p, r)
  BY DEF RunsFlow
<1>e. runs[r] # None /\ Removed(p, r) => RunsFlow(p, r)
  BY DEF RunsFlow
<1>f. runs[r] # None /\ pc' = pc /\ runs'[r].status = runs[r].status /\ runs'[r].ctx = runs[r].ctx => RunsFlow(p, r)
  BY DEF RunsFlow
<1>1. CASE BeginCapture(p)
  BY <1>1, <1>b, Zenon DEF BeginCapture
<1>2. CASE StartRun(p)
  <2>1. PICK pin \in BOOLEAN : InsertRun(pin)
    BY <1>2, Zenon DEF StartRun
  <2> QED BY <1>0, <2>1 DEF InsertRun, RunsFlow
<1>3. CASE SetRun(p)
  BY <1>3, <1>b, Zenon DEF SetRun
<1>4. CASE FinishRead(p)
  BY <1>4, <1>b, Zenon DEF FinishRead
<1>5. CASE FinishWrite(p)
  <2>1. nextRun' = nextRun /\ pc[p] = "counted"
    BY <1>5 DEF FinishWrite
  <2>2. CASE r = op[p].run /\ ValidAt(op[p].tok, op[p].t) /\ Exists(r)
    <3>1. runs[r] \in RunRows
      BY <1>0, <2>2 DEF Exists
    <3>2. runs' = [runs EXCEPT ![r].status = op[p].verdict, ![r].at = op[p].t]
      BY <1>5, <2>2, Zenon DEF FinishWrite
    <3>3. runs'[r] = [runs[r] EXCEPT !.status = op[p].verdict, !.at = op[p].t]
      BY <1>0, <3>2
    <3>4. runs'[r].status = op[p].verdict /\ runs'[r].ctx = runs[r].ctx
      BY <3>1, <3>3 DEF RunRows
    <3>5. Written(p, r)
      BY <1>5, <2>1, <2>2, <3>4 DEF Written
    <3> QED BY <1>c, <2>1, <2>2, <3>5
  <2>3. CASE ~(r = op[p].run /\ ValidAt(op[p].tok, op[p].t) /\ Exists(r))
    <3>1. runs'[r] = runs[r]
      BY <1>5, <1>0, <2>3 DEF FinishWrite
    <3> QED BY <1>a, <2>1, <3>1
  <2> QED BY <2>2, <2>3
<1>6. CASE Abort(p)
  BY <1>6, <1>b, Zenon DEF Abort
<1>7. CASE Beat(p)
  BY <1>7, <1>b, Zenon DEF Beat
<1>8. CASE Renew(p)
  BY <1>8, <1>b, Zenon DEF Renew
<1>9. CASE Release(p)
  BY <1>9, <1>b, Zenon DEF Release
<1>10. ASSUME NEW c \in Contexts, SaveFails(p, c) PROVE RunsFlow(p, r)
  BY <1>10, <1>b, Zenon DEF SaveFails
<1>11. ASSUME NEW c \in Contexts, NEW x \in PossibleResults, Save(p, c, x) PROVE RunsFlow(p, r)
  <2>1. runs' = [runs EXCEPT ![op[p].run].ctx[c] = x]
    BY <1>11, Zenon DEF Save
  <2>2. CASE r = op[p].run
    <3>1. Exists(r) /\ runs[r] \in RunRows /\ pc[p] = "saving" /\ c \in op[p].todo /\ Valid(p) /\ nextRun' = nextRun
      BY <1>11, <1>0, <2>2 DEF Save, Exists
    <3>2. runs'[r] = [runs[r] EXCEPT !.ctx[c] = x]
      BY <1>0, <2>1, <2>2
    <3>3. runs'[r].status = runs[r].status /\ runs'[r].ctx = [runs[r].ctx EXCEPT ![c] = x]
      BY <3>1, <3>2 DEF RunRows
    <3>4. op'[p] = [op[p] EXCEPT !.todo = @ \ {c}]
      BY <1>11, GotoTo, Zenon DEF Save
    <3>5. c \notin op'[p].todo
      BY <1>0, <3>4 DEF Locals
    <3>6. Written(p, r)
      BY <1>11, <2>2, <3>1, <3>3, <3>5 DEF Written
    <3> QED BY <1>c, <3>1, <3>6
  <2>3. CASE r # op[p].run
    <3>1. runs'[r] = runs[r]
      BY <1>0, <2>1, <2>3 DEF Exists
    <3>2. nextRun' = nextRun
      BY <1>11 DEF Save
    <3> QED BY <1>a, <3>1, <3>2
  <2> QED BY <2>2, <2>3
<1>12. CASE Open(p)
  BY <1>12, <1>b, Zenon DEF Open
<1>13. CASE RecoverContexts(p)
  <2>1. nextRun' = nextRun /\ pc[p] = "recoverContexts"
    BY <1>13 DEF RecoverContexts
  <2>2. CASE NoLiveLease(p) /\ runs[r] # None
    <3>1. runs[r] \in RunRows
      BY <1>0, <2>2
    <3>2. runs'[r] = [runs[r] EXCEPT !.ctx = [c \in Contexts |-> Interrupted(@[c])]]
      BY <1>13, <2>2 DEF RecoverContexts
    <3>3. runs'[r].status = runs[r].status /\ runs'[r].ctx = [c \in Contexts |-> Interrupted(runs[r].ctx[c])]
      BY <3>1, <3>2 DEF RunRows
    <3>4. Recovered(p, r)
      BY <2>1, <2>2, <3>3 DEF Recovered
    <3> QED BY <1>d, <2>1, <2>2, <3>4
  <2>3. CASE ~(NoLiveLease(p) /\ runs[r] # None)
    <3>1. runs'[r] = runs[r]
      BY <1>13, <2>3 DEF RecoverContexts
    <3> QED BY <1>a, <2>1, <3>1
  <2> QED BY <2>2, <2>3
<1>14. CASE RecoverRuns(p)
  <2>1. nextRun' = nextRun /\ pc[p] = "recoverRuns"
    BY <1>14 DEF RecoverRuns
  <2>2. CASE NoLiveLease(p) /\ Exists(r) /\ runs[r].status = "running"
    <3>1. runs[r] \in RunRows
      BY <1>0, <2>2 DEF Exists
    <3>2. runs'[r] = [runs[r] EXCEPT !.status = "failed", !.at = op[p].t]
      BY <1>14, <2>2 DEF RecoverRuns
    <3>3. runs'[r].status = "failed" /\ runs'[r].ctx = runs[r].ctx
      BY <3>1, <3>2 DEF RunRows
    <3>4. Recovered(p, r) /\ runs[r] # None
      BY <2>1, <2>2, <3>3 DEF Recovered, Exists
    <3> QED BY <1>d, <2>1, <3>4
  <2>3. CASE ~(NoLiveLease(p) /\ Exists(r) /\ runs[r].status = "running")
    <3>1. runs'[r] = runs[r]
      BY <1>14, <2>3 DEF RecoverRuns
    <3> QED BY <1>a, <2>1, <3>1
  <2> QED BY <2>2, <2>3
<1>15. CASE BeginImport(p)
  <2>1. PICK pin \in BOOLEAN : InsertRun(pin)
    BY <1>15, Zenon DEF BeginImport
  <2> QED BY <1>0, <2>1 DEF InsertRun, RunsFlow
<1>16. CASE ImportCount(p)
  BY <1>16, <1>b, Zenon DEF ImportCount
<1>17. CASE ImportFinish(p)
  <2>1. nextRun' = nextRun /\ pc[p] = "importCounted"
    BY <1>17 DEF ImportFinish
  <2>2. CASE r = op[p].run /\ Exists(r)
    <3>1. runs[r] \in RunRows
      BY <1>0, <2>2 DEF Exists
    <3>2. runs' = [runs EXCEPT ![r].status = op[p].verdict, ![r].at = op[p].t]
      BY <1>17, <2>2, Zenon DEF ImportFinish
    <3>3. runs'[r] = [runs[r] EXCEPT !.status = op[p].verdict, !.at = op[p].t]
      BY <1>0, <3>2
    <3>4. runs'[r].status = op[p].verdict /\ runs'[r].ctx = runs[r].ctx
      BY <3>1, <3>3 DEF RunRows
    <3>5. Written(p, r)
      BY <1>17, <2>1, <2>2, <3>4 DEF Written
    <3> QED BY <1>c, <2>1, <2>2, <3>5
  <2>3. CASE ~(r = op[p].run /\ Exists(r))
    <3>1. runs'[r] = runs[r]
      BY <1>17, <1>0, <2>3 DEF ImportFinish
    <3> QED BY <1>a, <2>1, <3>1
  <2> QED BY <2>2, <2>3
<1>18. CASE ImportFails(p)
  BY <1>18, <1>b, Zenon DEF ImportFails
<1>19. ASSUME NEW c \in Contexts, ImportSave(p, c) PROVE RunsFlow(p, r)
  <2>1. PICK k \in 1..(Kinds - 1) : runs' = [runs EXCEPT ![op[p].run].ctx[c] = [vm |-> "success", rows |-> Kinds, ok |-> k]]
    BY <1>19, Zenon DEF ImportSave
  <2>2. CASE r = op[p].run
    <3>1. Exists(r) /\ runs[r] \in RunRows /\ pc[p] = "importing" /\ c \in op[p].todo /\ nextRun' = nextRun
      BY <1>19, <1>0, <2>2 DEF ImportSave, Exists
    <3>2. runs'[r] = [runs[r] EXCEPT !.ctx[c] = [vm |-> "success", rows |-> Kinds, ok |-> k]]
      BY <1>0, <2>1, <2>2
    <3>3. runs'[r].status = runs[r].status /\ runs'[r].ctx = [runs[r].ctx EXCEPT ![c] = [vm |-> "success", rows |-> Kinds, ok |-> k]]
      BY <3>1, <3>2 DEF RunRows
    <3>4. op'[p] = [op[p] EXCEPT !.todo = @ \ {c}]
      BY <1>19, GotoTo, Zenon DEF ImportSave
    <3>5. c \notin op'[p].todo
      BY <1>0, <3>4 DEF Locals
    <3>6. Written(p, r)
      BY <1>19, <2>2, <3>1, <3>3, <3>5 DEF Written
    <3> QED BY <1>c, <3>1, <3>6
  <2>3. CASE r # op[p].run
    <3>1. runs'[r] = runs[r]
      BY <1>0, <2>1, <2>3 DEF Exists
    <3>2. nextRun' = nextRun
      BY <1>19 DEF ImportSave
    <3> QED BY <1>a, <3>1, <3>2
  <2> QED BY <2>2, <2>3
<1>20. ASSUME NEW q \in RunIds, BeginDelete(p, q) PROVE RunsFlow(p, r)
  BY <1>20, <1>b, Zenon DEF BeginDelete
<1>21. ASSUME NEW q \in RunIds, NEW b \in BOOLEAN, SetPinned(p, q, b) PROVE RunsFlow(p, r)
  <2>1. pc' = pc /\ runs' = [runs EXCEPT ![q].pinned = b] /\ Exists(q)
    BY <1>21, Zenon DEF SetPinned
  <2>2. CASE r = q
    <3>1. runs[r] \in RunRows /\ runs'[r] = [runs[r] EXCEPT !.pinned = b] /\ runs[r] # None
      BY <1>0, <2>1, <2>2 DEF Exists
    <3>2. runs'[r].status = runs[r].status /\ runs'[r].ctx = runs[r].ctx
      BY <3>1 DEF RunRows
    <3> QED BY <1>f, <2>1, <3>1, <3>2
  <2>3. CASE r # q
    <3>1. runs'[r] = runs[r]
      BY <1>0, <2>1, <2>3 DEF Exists
    <3> QED BY <1>a, <2>1, <3>1
  <2> QED BY <2>2, <2>3
<1>22. CASE Delete(p)
  <2>1. nextRun' = nextRun /\ pc[p] = "delete" /\ (runs'[r] = None \/ runs'[r] = runs[r])
    BY <1>22, <1>0 DEF Delete
  <2> QED BY <1>22, <1>a, <1>e, <2>1 DEF Removed
<1>23. CASE PruneRead(p)
  BY <1>23, <1>b, Zenon DEF PruneRead
<1>24. CASE PruneLease(p)
  BY <1>24, <1>b, Zenon DEF PruneLease
<1>25. CASE Prune(p)
  <2>1. nextRun' = nextRun /\ (runs'[r] = runs[r] \/ (runs'[r] = None /\ r \in op[p].cand /\ Prunable(r)))
    BY <1>25 DEF Prune
  <2>2. Prunable(r) => runs[r] # None
    BY DEF Prunable, Exists
  <2> QED BY <1>25, <1>a, <1>e, <2>1, <2>2 DEF Removed
<1>26. CASE Crash(p)
  BY <1>26, <1>b, Zenon DEF Crash
<1> QED BY <1>1, <1>2, <1>3, <1>4, <1>5, <1>6, <1>7, <1>8, <1>9, <1>10, <1>11, <1>12, <1>13, <1>14, <1>15, <1>16,
           <1>17, <1>18, <1>19, <1>20, <1>21, <1>22, <1>23, <1>24, <1>25, <1>26 DEF Acts, Capture, Recover,
           Import, Maintain

-----------------------------------------------------------------------------
(* Tokens, times and owners.                                               *)

LEMMA NextRunFlow ==
  ASSUME NEW p \in Procs, Acts(p)
  PROVE  nextRun' = nextRun \/ (nextRun' = nextRun + 1 /\ nextRun \in RunIds)
<1>1. CASE Capture(p)
  BY <1>1 DEF Capture, BeginCapture, StartRun, InsertRun, SetRun, FinishRead, FinishWrite, Abort, Beat, Renew,
              Release, SaveFails, Save
<1>2. CASE Recover(p) \/ Crash(p)
  BY <1>2 DEF Recover, Open, RecoverContexts, RecoverRuns, Crash
<1>3. CASE Import(p)
  BY <1>3 DEF Import, BeginImport, InsertRun, ImportCount, ImportFinish, ImportFails, ImportSave
<1>4. CASE Maintain(p)
  BY <1>4 DEF Maintain, BeginDelete, SetPinned, Delete, PruneRead, PruneLease, Prune
<1> QED BY <1>1, <1>2, <1>3, <1>4 DEF Acts

LEMMA TokensStep ==
  ASSUME TypeOK, TokensDiffer, NEW p \in Procs, Acts(p)
  PROVE  TokensDiffer'
<1>1. \A q \in Procs : q # p => op'[q] = op[q]
  BY OthersStay
<1>2. \A q \in Procs : \A k \in FreshTokens : op[q].tok # k
  BY DEF FreshTokens
<1>3. op'[p].tok \in {op[p].tok, None} \cup FreshTokens
  BY Flow DEF StaysThere, LeavesOff, BeginsRun, Writes, Counts, PruneGoes, SameRun, NoOp
<1> QED BY <1>1, <1>2, <1>3 DEF TokensDiffer

LEMMA TimesStep ==
  ASSUME TypeOK, TimesRead, NEW p \in Procs, Acts(p)
  PROVE  TimesRead'
<1>1. now' = now /\ now \in Nat
  BY LeaseFlow, MaxTimeAssumption DEF TypeOK
<1>2. \A q \in Procs : q # p => pc'[q] = pc[q] /\ op'[q] = op[q]
  BY OthersStay
<1>3. /\ op[p].t <= now
      /\ pc[p] \in {"counted", "recoverContexts", "recoverRuns"} => op[p].t = now
      /\ op[p].beat # None => op[p].beat = now
  BY DEF TimesRead
<1>4. /\ op'[p].t <= now
      /\ pc'[p] \in {"counted", "recoverContexts", "recoverRuns"} => op'[p].t = now
      /\ op'[p].beat # None => op'[p].beat = now
  BY <1>1, <1>3, Flow DEF StaysThere, LeavesOff, BeginsRun, Writes, Counts, PruneGoes, SameRun, NoOp
<1> QED BY <1>1, <1>2, <1>4 DEF TimesRead

LEMMA OwnersStep ==
  ASSUME TypeOK, OwnersApart, NEW p \in Procs, Acts(p)
  PROVE  OwnersApart'
<1>0. nextRun \in Nat /\ \A r \in RunIds : r \in Nat
  BY CountAssumption DEF TypeOK, RunIds
<1>1. \A q \in Procs : q # p => pc'[q] = pc[q] /\ op'[q] = op[q]
  BY OthersStay
<1>2. ASSUME NEW r \in RunIds, r >= nextRun' PROVE runs'[r] = None
  <2>1. nextRun' = nextRun \/ nextRun' = nextRun + 1
    BY NextRunFlow
  <2>2. r >= nextRun /\ ~(r = nextRun /\ nextRun' = nextRun + 1)
    BY <1>0, <1>2, <2>1
  <2>3. runs[r] = None
    BY <2>2 DEF OwnersApart
  <2> QED BY <2>2, <2>3, LedgerFlow DEF RunsFlow
<1>3. ASSUME pc'[p] \in CapturePCs \cup ImportPCs
      PROVE  \/ op'[p].run = op[p].run /\ pc[p] \in CapturePCs \cup ImportPCs
             \/ op'[p].run = nextRun /\ nextRun \in RunIds /\ nextRun' = nextRun + 1
  <2>1. CASE StaysThere(p)
    BY <1>3, <2>1 DEF StaysThere, SameRun
  <2>2. CASE LeavesOff(p)
    BY <1>3, <2>2 DEF LeavesOff, CapturePCs, ImportPCs
  <2>3. CASE BeginsRun(p)
    BY <2>3 DEF BeginsRun, StartRun, BeginImport, InsertRun
  <2>4. CASE Writes(p)
    BY <2>4 DEF Writes, SameRun, SetRun, SaveFails, Save, ImportSave, CapturePCs, ImportPCs
  <2>5. CASE Counts(p)
    BY <2>5 DEF Counts, FinishRead, ImportCount, CapturePCs, ImportPCs
  <2>6. CASE PruneGoes(p)
    BY <1>3, <2>6 DEF PruneGoes, CapturePCs, ImportPCs
  <2> QED BY <2>1, <2>2, <2>3, <2>4, <2>5, <2>6, Flow
<1>4. nextRun' >= nextRun
  BY <1>0, NextRunFlow
<1>5. ASSUME NEW q \in Procs, pc'[q] \in CapturePCs \cup ImportPCs
      PROVE  op'[q].run \in RunIds /\ op'[q].run < nextRun'
  <2>1. ASSUME pc[q] \in CapturePCs \cup ImportPCs
        PROVE  op[q].run \in RunIds /\ op[q].run < nextRun'
    BY <1>0, <1>4, <2>1, NextRunFlow DEF OwnersApart
  <2> QED BY <1>0, <1>1, <1>3, <1>5, <2>1
<1>6. ASSUME NEW q \in Procs, NEW s \in Procs, q # s,
             pc'[q] \in CapturePCs \cup ImportPCs, pc'[s] \in CapturePCs \cup ImportPCs
      PROVE  op'[q].run # op'[s].run
  BY <1>0, <1>1, <1>3, <1>6 DEF OwnersApart
<1>7. CapturePCs' = CapturePCs /\ ImportPCs' = ImportPCs
  BY DEF CapturePCs, ImportPCs
<1> QED BY <1>2, <1>5, <1>6, <1>7 DEF OwnersApart

(* A process that may write after a step could already write before it.    *)
LEMMA ValidKept ==
  ASSUME TypeOK, TimesRead, NEW p \in Procs, Acts(p),
         NEW q \in Procs, op'[q].tok = op[q].tok, Valid(q)'
  PROVE  Valid(q)
<1>1. now' = now /\ RowFlow(p)
  BY LeaseFlow
<1>2. row' # None /\ row'.token = op[q].tok /\ row'.expires > now
  BY <1>1 DEF Valid, ValidAt
<1>3. CASE row' = row
  BY <1>2, <1>3 DEF Valid, ValidAt
<1>4. CASE op'[p].tok \in FreshTokens /\ row' = [token |-> op'[p].tok, expires |-> now + Duration]
  <2>1. op'[p].tok = op[q].tok
    BY <1>2, <1>4
  <2> QED BY <1>4, <2>1 DEF FreshTokens
<1>5. CASE /\ ValidAt(op[p].tok, op[p].beat) /\ row' = [row EXCEPT !.expires = op[p].beat + Duration]
           /\ Renew(p)
  <2>1. op[p].beat = now
    BY <1>5 DEF Renew, TimesRead
  <2>2. row \in [token: Tokens, expires: 0..(MaxTime + Duration)] /\ row.token = op[p].tok /\ row.expires > now
    BY <1>5, <2>1 DEF ValidAt, TypeOK
  <2>3. row'.token = row.token
    BY <1>5, <2>2
  <2> QED BY <1>2, <1>5, <2>2, <2>3 DEF Valid, ValidAt
<1> QED BY <1>1, <1>2, <1>3, <1>4, <1>5 DEF RowFlow

-----------------------------------------------------------------------------
(* The runs.                                                               *)

(* A row's contexts are what recovery, an import and a capture make of it. *)
LEMMA RowsStep ==
  ASSUME TypeOK, RowsThere, UNCHANGED work, NEW p \in Procs, Acts(p)
  PROVE  RowsThere'
<1>1. SUFFICES ASSUME NEW r \in RunIds, Exists(r)', NEW c \in Contexts, runs'[r].ctx[c].vm = "success"
               PROVE  runs'[r].ctx[c].rows = Kinds
  BY DEF RowsThere, Known, RunIds, Contexts
<1>2. r # None /\ runs'[r] # None
  BY <1>1 DEF Exists
<1>3. runs[r] # None => runs[r] \in RunRows /\ (runs[r].ctx[c].vm = "success" => runs[r].ctx[c].rows = Kinds)
  BY <1>2 DEF TypeOK, RowsThere, Known, Exists
<1>4. CASE runs'[r] = runs[r]
  BY <1>1, <1>2, <1>3, <1>4
<1>5. ASSUME NEW pin \in BOOLEAN, runs'[r] = NewRun(pin) PROVE FALSE
  BY <1>1, <1>5 DEF NewRun, RunningRow
<1>6. CASE runs[r] # None /\ runs'[r].ctx = runs[r].ctx
  BY <1>1, <1>3, <1>6
<1>7. CASE Exists(r) /\ Written(p, r)
  <2>1. CASE runs'[r].ctx = runs[r].ctx
    BY <1>6, <1>7, <2>1 DEF Exists
  <2>2. ASSUME NEW d \in Contexts, NEW x, x.vm = "success" => x.rows = Kinds,
               runs'[r].ctx = [runs[r].ctx EXCEPT ![d] = x]
        PROVE  runs'[r].ctx[c].rows = Kinds
    BY <1>1, <1>3, <1>7, <2>2 DEF Exists, RunRows
  <2>3. ASSUME NEW d \in Contexts, NEW x \in PossibleResults, runs'[r].ctx = [runs[r].ctx EXCEPT ![d] = x]
        PROVE  runs'[r].ctx[c].rows = Kinds
    <3>1. x.vm = "success" => x.rows = Kinds
      BY CountAssumption DEF PossibleResults, Results
    <3> QED BY <2>2, <2>3, <3>1
  <2>4. ASSUME NEW d \in Contexts, NEW k \in 1..(Kinds - 1),
               runs'[r].ctx = [runs[r].ctx EXCEPT ![d] = [vm |-> "success", rows |-> Kinds, ok |-> k]]
        PROVE  runs'[r].ctx[c].rows = Kinds
    <3> DEFINE x == [vm |-> "success", rows |-> Kinds, ok |-> k]
    <3>1. x.rows = Kinds /\ runs'[r].ctx = [runs[r].ctx EXCEPT ![d] = x]
      BY <2>4
    <3> HIDE DEF x
    <3> QED BY <2>2, <3>1
  <2> QED BY <1>7, <2>1, <2>3, <2>4, Zenon DEF Written
<1>8. CASE runs[r] # None /\ Recovered(p, r)
  BY <1>1, <1>3, <1>8 DEF Recovered, Interrupted, RunRows, ContextRows
<1>9. CASE Removed(p, r)
  BY <1>2, <1>9 DEF Removed
<1> QED BY <1>4, <1>5, <1>6, <1>7, <1>8, <1>9, LedgerFlow DEF RunsFlow, Exists

(* A run some process is writing is not written by another.                *)
LEMMA OthersWrite ==
  ASSUME OwnersApart, NEW p \in Procs, NEW q \in Procs, p # q, pc[q] \in CapturePCs \cup ImportPCs
  PROVE  ~Written(p, op[q].run) /\ op[q].run \in RunIds /\ op[q].run # nextRun
<1>1. op[q].run \in RunIds /\ op[q].run < nextRun
  BY DEF OwnersApart
<1>2. op[q].run \in Nat
  BY <1>1, CountAssumption DEF RunIds
<1>3. ~Written(p, op[q].run)
  BY DEF OwnersApart, Written, CapturePCs, ImportPCs
<1> QED BY <1>1, <1>2, <1>3

LEMMA CaptureLiveStep ==
  ASSUME TypeOK, TimesRead, OwnersApart, CaptureLive, UNCHANGED work, NEW p \in Procs, Acts(p)
  PROVE  CaptureLive'
<1>0. CapturePCs' = CapturePCs /\ Contexts' = Contexts /\ RunningRow' = RunningRow
  BY DEF CapturePCs, Contexts, RunningRow
<1>1. SUFFICES ASSUME NEW q \in Procs, pc'[q] \in CapturePCs, Valid(q)', Exists(op[q].run)'
               PROVE  /\ runs'[op'[q].run].status = "running"
                      /\ \A c \in op'[q].todo : runs'[op'[q].run].ctx[c] = RunningRow
  BY <1>0 DEF CaptureLive
<1>2. op'[q].run # None /\ runs'[op'[q].run] # None
  BY <1>1 DEF Exists
<1>3. CASE q # p
  <2>1. pc'[q] = pc[q] /\ op'[q] = op[q]
    BY <1>3, OthersStay
  <2> DEFINE r == op[q].run
  <2>2. Valid(q)
    BY <1>1, <2>1, ValidKept
  <2>3. ~Written(p, r) /\ r \in RunIds /\ r # nextRun
    BY <1>1, <1>3, <2>1, OthersWrite
  <2>4. ~NoLiveLease(p)
    <3>1. op[p].t <= now /\ op[p].t \in Nat /\ now \in Nat
      BY MaxTimeAssumption DEF TimesRead, TypeOK, Locals
    <3>2. row # None /\ row.expires > now /\ row.expires \in Nat
      BY <2>2, DurationAssumption, MaxTimeAssumption DEF Valid, ValidAt, TypeOK
    <3> QED BY <3>1, <3>2 DEF NoLiveLease
  <2>5. RunsFlow(p, r)
    BY <2>3, LedgerFlow
  <2>6. runs'[r] # None
    BY <1>2, <2>1
  <2> HIDE DEF r
  <2>7. /\ runs[r] # None
        /\ runs'[r].status = runs[r].status /\ runs'[r].ctx = runs[r].ctx
    BY <2>3, <2>4, <2>5, <2>6 DEF RunsFlow, Recovered, Removed
  <2> QED BY <1>1, <1>2, <2>1, <2>2, <2>7 DEF CaptureLive, Exists, r
<1>4. CASE q = p
  <2>1. CASE op'[p].run = op[p].run /\ op'[p].tok = op[p].tok /\ pc[p] \in CapturePCs
    <3> DEFINE r == op[p].run
    <3>1. Valid(p)
      BY <1>1, <1>4, <2>1, ValidKept
    <3>2. r \in RunIds /\ r # nextRun
      BY <2>1, CountAssumption DEF OwnersApart, RunIds
    <3>3. RunsFlow(p, r) /\ runs'[r] # None
      BY <1>2, <1>4, <2>1, <3>2, LedgerFlow
    <3>4. Exists(r)
      BY <1>2, <1>4, <2>1, <3>2, <3>3 DEF RunsFlow, Exists, Removed
    <3>5. /\ runs[r].status = "running"
          /\ \A c \in op[p].todo : runs[r].ctx[c] = RunningRow
      BY <2>1, <3>1, <3>4 DEF CaptureLive
    <3>6. ~Recovered(p, r) /\ ~Removed(p, r)
      BY <2>1, <3>3 DEF Recovered, Removed, CapturePCs
    <3>7. op'[p].todo \subseteq op[p].todo
      <4>1. ~BeginsRun(p) /\ ~PruneGoes(p) /\ ~LeavesOff(p)
        BY <1>1, <1>4, <2>1, <3>2 DEF BeginsRun, PruneGoes, LeavesOff, CapturePCs
      <4>2. CASE Writes(p)
        BY <4>2 DEF Writes
      <4> QED BY <4>1, <4>2, Flow DEF StaysThere, Counts
    <3>8. ~FinishWrite(p)
      BY <1>1, <1>4, GotoTo DEF FinishWrite, CapturePCs
    <3>9. op[p].todo \subseteq Contexts /\ runs[r] \in RunRows
      BY <3>2, <3>4 DEF TypeOK, Locals, Exists
    <3> HIDE DEF r
    <3>10. CASE Written(p, r)
      <4>1. PICK c \in Contexts, x \in PossibleResults :
              /\ runs'[r].status = runs[r].status /\ c \notin op'[p].todo
              /\ runs'[r].ctx = [runs[r].ctx EXCEPT ![c] = x]
        BY <2>1, <3>8, <3>10, Zenon DEF Written, CapturePCs
      <4> QED BY <1>4, <2>1, <3>5, <3>7, <3>9, <4>1 DEF r, RunRows
    <3>11. CASE ~Written(p, r)
      <4>1. runs'[r].status = runs[r].status /\ runs'[r].ctx = runs[r].ctx
        BY <3>2, <3>3, <3>6, <3>11 DEF RunsFlow, Exists
      <4> QED BY <1>4, <2>1, <3>5, <3>7, <4>1 DEF r
    <3> QED BY <3>10, <3>11
  <2>2. CASE BeginsRun(p) /\ StartRun(p)
    <3>1. op'[p].run = nextRun /\ op'[p].todo = Contexts
      BY <2>2 DEF BeginsRun
    <3>2. PICK pin \in BOOLEAN : InsertRun(pin)
      BY <2>2, Zenon DEF StartRun
    <3>3. runs'[nextRun] = NewRun(pin)
      BY <3>2 DEF InsertRun, TypeOK
    <3> QED BY <1>4, <3>1, <3>3 DEF NewRun
  <2>3. \/ BeginsRun(p) /\ StartRun(p)
        \/ op'[p].run = op[p].run /\ op'[p].tok = op[p].tok /\ pc[p] \in CapturePCs
    <3>1. ~PruneGoes(p) /\ ~LeavesOff(p) /\ (BeginsRun(p) => StartRun(p))
      BY <1>1, <1>4 DEF BeginsRun, PruneGoes, LeavesOff, CapturePCs
    <3>2. CASE StaysThere(p)
      BY <1>1, <1>4, <3>2 DEF StaysThere, SameRun
    <3>3. CASE Writes(p)
      BY <1>1, <1>4, <3>3 DEF Writes, SameRun, SetRun, SaveFails, Save, CapturePCs
    <3>4. CASE Counts(p)
      BY <1>1, <1>4, <3>4 DEF Counts, FinishRead, CapturePCs
    <3> QED BY <3>1, <3>2, <3>3, <3>4, Flow
  <2> QED BY <2>1, <2>2, <2>3
<1> QED BY <1>3, <1>4

(* What becomes of the status of a run: a deleted run is gone for good, a  *)
(* finished one stays finished, and none but a capture completes it.       *)
LEMMA StatusStep ==
  ASSUME LedgerInv, NEW p \in Procs, Acts(p), NEW r \in RunIds, r < nextRun
  PROVE  /\ runs[r] = None => runs'[r] = None
         /\ runs[r] # None /\ runs'[r] # None /\ runs[r].status # "running" =>
              /\ runs'[r].status # "running"
              /\ runs'[r].status = "complete" <=> runs[r].status = "complete"
         /\ (/\ runs[r] # None /\ runs'[r] # None /\ runs[r].status # "running"
             /\ ~(pc[p] \in ImportPCs /\ op[p].run = r)) =>
              /\ runs'[r].status = runs[r].status
              /\ runs'[r].ctx = runs[r].ctx
                   \/ runs'[r].ctx = [c \in Contexts |-> Interrupted(runs[r].ctx[c])]
<1>0. /\ TypeOK /\ TimesRead /\ OwnersApart /\ CaptureLive /\ ImportsPartial
      /\ r # nextRun
  BY CountAssumption DEF LedgerInv, RunIds
<1>1. RunsFlow(p, r)
  BY <1>0, LedgerFlow
<1>2. ASSUME Exists(r), Written(p, r), pc[p] \in {"saving", "counted"} PROVE runs[r].status = "running"
  <2>1. op[p].run = r /\ Valid(p)
    BY <1>0, <1>2 DEF Written, TimesRead, Valid
  <2> QED BY <1>0, <1>2, <2>1 DEF CaptureLive, CapturePCs
<1>3. ASSUME Exists(r), Written(p, r), pc[p] \notin {"saving", "counted"}
      PROVE  /\ pc[p] \in ImportPCs /\ op[p].run = r
             /\ runs[r].status # "complete"
             /\ runs'[r].status \in {runs[r].status, "failed", "partial"}
  <2>1. pc[p] \in ImportPCs /\ op[p].run = r
    BY <1>3 DEF Written, ImportPCs
  <2>2. runs[r].status # "complete" /\ (pc[p] = "importCounted" => op[p].verdict \in {"failed", "partial"})
    BY <1>0, <1>3, <2>1 DEF ImportsPartial
  <2> QED BY <1>3, <2>1, <2>2 DEF Written
<1>4. CASE Exists(r) /\ Written(p, r)
  BY <1>2, <1>3, <1>4 DEF Exists
<1>5. CASE ~(Exists(r) /\ Written(p, r))
  BY <1>0, <1>1, <1>5 DEF RunsFlow, Recovered, Removed, Exists
<1> QED BY <1>4, <1>5

LEMMA CompleteStep ==
  ASSUME LedgerInv, UNCHANGED work, NEW p \in Procs, Acts(p)
  PROVE  CompleteMeansAll'
<1>0. /\ TypeOK /\ TimesRead /\ OwnersApart /\ CaptureLive /\ ImportsPartial /\ VerdictsTrue /\ CompleteMeansAll
      /\ Contexts' = Contexts /\ RunIds' = RunIds
  BY DEF LedgerInv, Contexts, RunIds
<1>1. SUFFICES ASSUME NEW r \in RunIds, r # None, runs'[r] # None, runs'[r].status = "complete",
                      NEW c \in Contexts
               PROVE  runs'[r].ctx[c].rows = Kinds /\ runs'[r].ctx[c].ok = Kinds
  BY <1>0 DEF CompleteMeansAll, AllCollected, Known, Exists
<1>2. RunsFlow(p, r)
  BY <1>0, LedgerFlow
<1>3. CASE Exists(r) /\ runs[r].status = "complete"
  <2>1. AllCollected(r) /\ runs[r] \in RunRows
    BY <1>0, <1>3 DEF CompleteMeansAll, Known, TypeOK, Exists
  <2>2. r < nextRun
    BY <1>0, <1>3, CountAssumption DEF OwnersApart, Exists, RunIds, TypeOK
  <2>3. \/ runs'[r].ctx = runs[r].ctx
        \/ runs'[r].ctx = [d \in Contexts |-> Interrupted(runs[r].ctx[d])]
    <3>1. ~(pc[p] \in ImportPCs /\ op[p].run = r)
      BY <1>0, <1>3 DEF ImportsPartial
    <3> QED BY <1>1, <1>3, <2>2, <3>1, StatusStep DEF Exists
  <2> QED BY <2>1, <2>3 DEF AllCollected, Interrupted, RunRows, ContextRows
<1>4. CASE ~(Exists(r) /\ runs[r].status = "complete")
  <2>1. ~(runs'[r] = runs[r])
    BY <1>1, <1>4 DEF Exists
  <2>a. \A pin \in BOOLEAN : runs'[r] # NewRun(pin)
    BY <1>1 DEF NewRun
  <2>b. ~Recovered(p, r) \/ ~Exists(r)
    BY <1>1, <1>4 DEF Recovered
  <2>2. Exists(r) /\ Written(p, r) /\ runs'[r].status # runs[r].status
    BY <1>1, <1>2, <1>4, <2>1, <2>a, <2>b DEF RunsFlow, Removed, Exists
  <2>3. op[p].run = r /\ (pc[p] = "counted" \/ pc[p] = "importCounted")
        /\ op[p].verdict = "complete" /\ runs'[r].ctx = runs[r].ctx
    BY <1>1, <2>2 DEF Written
  <2>4. pc[p] # "importCounted"
    BY <1>0, <2>3 DEF ImportsPartial, ImportPCs
  <2>5. AllCollected(r)
    BY <1>0, <2>2, <2>3, <2>4 DEF VerdictsTrue
  <2> QED BY <2>3, <2>5 DEF AllCollected
<1> QED BY <1>3, <1>4

(* What another process does to a run that is being written.               *)
LEMMA OtherTouch ==
  ASSUME TypeOK, OwnersApart, NEW p \in Procs, Acts(p), NEW q \in Procs, q # p,
         pc[q] \in CapturePCs \cup ImportPCs, Exists(op[q].run)'
  PROVE  LET r == op[q].run
         IN  /\ pc'[q] = pc[q] /\ op'[q] = op[q]
             /\ r \in RunIds /\ Exists(r)
             /\ runs'[r].status \in {runs[r].status, "failed"}
             /\ \A c \in Contexts : /\ runs'[r].ctx[c].rows = runs[r].ctx[c].rows
                                   /\ runs'[r].ctx[c].ok = runs[r].ctx[c].ok
<1> DEFINE r == op[q].run
<1>1. ~Written(p, r) /\ r \in RunIds /\ r # nextRun
  BY OthersWrite
<1>2. pc'[q] = pc[q] /\ op'[q] = op[q]
  BY OthersStay
<1>3. r # None /\ runs'[r] # None
  BY <1>2 DEF Exists
<1>4. RunsFlow(p, r)
  BY <1>1, LedgerFlow
<1>5. Exists(r)
  BY <1>1, <1>3, <1>4 DEF RunsFlow, Exists
<1>6. runs[r] \in RunRows
  BY <1>1, <1>5 DEF TypeOK, Exists
<1> HIDE DEF r
<1>7. /\ runs'[r].status \in {runs[r].status, "failed"}
      /\ \/ runs'[r].ctx = runs[r].ctx
         \/ runs'[r].ctx = [c \in Contexts |-> Interrupted(runs[r].ctx[c])]
  BY <1>1, <1>3, <1>4 DEF RunsFlow, Recovered, Removed
<1>8. \A c \in Contexts : /\ runs'[r].ctx[c].rows = runs[r].ctx[c].rows
                          /\ runs'[r].ctx[c].ok = runs[r].ctx[c].ok
  BY <1>6, <1>7 DEF Interrupted, RunRows, ContextRows
<1> QED BY <1>1, <1>2, <1>5, <1>7, <1>8 DEF r

LEMMA VerdictsStep ==
  ASSUME LedgerInv, UNCHANGED work, NEW p \in Procs, Acts(p)
  PROVE  VerdictsTrue'
<1>0. /\ TypeOK /\ OwnersApart /\ RowsThere /\ VerdictsTrue /\ Contexts' = Contexts
  BY DEF LedgerInv, Contexts
<1>1. SUFFICES ASSUME NEW q \in Procs, pc'[q] = "counted", op'[q].verdict = "complete", Exists(op[q].run)'
               PROVE  \A c \in Contexts : /\ runs'[op'[q].run].ctx[c].rows = Kinds
                                         /\ runs'[op'[q].run].ctx[c].ok = Kinds
  BY <1>0 DEF VerdictsTrue, AllCollected
<1>2. op'[q].run # None /\ runs'[op'[q].run] # None
  BY <1>1 DEF Exists
<1>3. CASE q # p
  <2>1. pc'[q] = pc[q] /\ op'[q] = op[q]
    BY <1>0, <1>3, OthersStay
  <2>2. Exists(op[q].run) /\ \A c \in Contexts :
           /\ runs'[op[q].run].ctx[c].rows = runs[op[q].run].ctx[c].rows
           /\ runs'[op[q].run].ctx[c].ok = runs[op[q].run].ctx[c].ok
    BY <1>0, <1>1, <1>3, <2>1, OtherTouch DEF CapturePCs
  <2> QED BY <1>0, <1>1, <2>1, <2>2 DEF VerdictsTrue, AllCollected
<1>4. CASE q = p
  <2> DEFINE r == op[p].run
  <2>1. op'[p].run = r /\ \/ StaysThere(p) /\ pc[p] = "counted" /\ op[p].verdict = "complete"
                          \/ FinishRead(p) /\ pc[p] = "saving" /\ FinishStatus(r) = "complete" /\ Exists(r)
    <3>1. ~PruneGoes(p) /\ ~LeavesOff(p) /\ ~BeginsRun(p) /\ ~Writes(p)
      BY <1>1, <1>4, GotoTo DEF BeginsRun, PruneGoes, LeavesOff, Writes
    <3>2. CASE StaysThere(p)
      BY <1>1, <1>4, <3>2 DEF StaysThere, SameRun
    <3>3. CASE Counts(p)
      <4>1. op'[p].run = r /\ FinishRead(p) /\ FinishStatus(r) = "complete"
        BY <1>1, <1>4, <3>3 DEF Counts
      <4>2. Exists(r)
        BY <1>1, <1>4, <4>1, GotoTo, <1>0 DEF FinishRead
      <4> QED BY <4>1, <4>2 DEF FinishRead
    <3> QED BY <3>1, <3>2, <3>3, Flow, <1>0
  <2>2. r \in RunIds /\ r # nextRun
    BY <1>0, <2>1, CountAssumption DEF OwnersApart, RunIds, CapturePCs
  <2>3. RunsFlow(p, r)
    BY <1>0, <2>2, LedgerFlow
  <2>4. runs'[r] # None /\ r # None
    BY <1>2, <1>4, <2>1
  <2>5. Exists(r)
    BY <2>2, <2>3, <2>4 DEF RunsFlow, Exists
  <2>6. AllCollected(r)
    BY <1>0, <2>1, <2>2, <2>5, CompleteVerdict DEF VerdictsTrue
  <2>7. runs'[r].ctx = runs[r].ctx
    <3>1. ~Recovered(p, r) /\ ~Removed(p, r)
      BY <2>1, <2>4 DEF Recovered, Removed
    <3>2. CASE Written(p, r)
      <4>1. CASE StaysThere(p) /\ pc[p] = "counted"
        BY <3>2, <4>1 DEF Written
      <4>2. CASE FinishRead(p)
        BY <4>2 DEF FinishRead
      <4> QED BY <2>1, <4>1, <4>2
    <3> QED BY <2>2, <2>3, <3>1, <3>2 DEF RunsFlow
  <2> QED BY <1>4, <2>1, <2>6, <2>7 DEF AllCollected
<1> QED BY <1>3, <1>4

LEMMA ImportsStep ==
  ASSUME LedgerInv, UNCHANGED work, NEW p \in Procs, Acts(p)
  PROVE  ImportsPartial'
<1>0. /\ TypeOK /\ OwnersApart /\ RowsThere /\ ImportsPartial /\ Contexts' = Contexts /\ ImportPCs' = ImportPCs
  BY DEF LedgerInv, Contexts, ImportPCs
<1>1. SUFFICES ASSUME NEW q \in Procs, pc'[q] \in ImportPCs
               PROVE  /\ pc'[q] = "importCounted" => op'[q].verdict \in {"failed", "partial"}
                      /\ Exists(op[q].run)' =>
                            /\ runs'[op'[q].run].status # "complete"
                            /\ \A c \in Contexts : runs'[op'[q].run].ctx[c].ok < Kinds
  BY <1>0 DEF ImportsPartial
<1>2. CASE q # p
  <2>1. pc'[q] = pc[q] /\ op'[q] = op[q]
    BY <1>0, <1>2, OthersStay
  <2>2. Exists(op[q].run)' =>
           /\ Exists(op[q].run) /\ runs'[op[q].run].status \in {runs[op[q].run].status, "failed"}
           /\ \A c \in Contexts : runs'[op[q].run].ctx[c].ok = runs[op[q].run].ctx[c].ok
    BY <1>0, <1>1, <1>2, <2>1, OtherTouch
  <2> QED BY <1>0, <1>1, <2>1, <2>2 DEF ImportsPartial
<1>3. CASE q = p
  <2>1. \/ BeginsRun(p) /\ BeginImport(p) /\ pc'[p] = "importing"
        \/ op'[p].run = op[p].run /\ pc[p] \in ImportPCs
    <3>1. ~PruneGoes(p) /\ ~LeavesOff(p) /\ (BeginsRun(p) => BeginImport(p) /\ pc'[p] = "importing")
      BY <1>1, <1>3 DEF PruneGoes, LeavesOff, BeginsRun, ImportPCs
    <3>2. CASE StaysThere(p)
      BY <1>1, <1>3, <3>2 DEF StaysThere, SameRun
    <3>3. CASE Writes(p)
      BY <1>1, <1>3, <3>3 DEF Writes, SameRun, ImportSave, ImportPCs
    <3>4. CASE Counts(p)
      BY <1>1, <1>3, <3>4 DEF Counts, ImportCount, ImportPCs
    <3> QED BY <1>0, <3>1, <3>2, <3>3, <3>4, Flow
  <2>2. pc'[p] = "importCounted" => op'[p].verdict \in {"failed", "partial"}
    <3>1. SUFFICES ASSUME pc'[p] = "importCounted" PROVE op'[p].verdict \in {"failed", "partial"}
      OBVIOUS
    <3>2. ~PruneGoes(p) /\ ~LeavesOff(p) /\ ~BeginsRun(p) /\ ~Writes(p)
      BY <3>1 DEF PruneGoes, LeavesOff, BeginsRun, Writes
    <3>3. CASE StaysThere(p)
      BY <1>0, <3>1, <3>3 DEF StaysThere, ImportsPartial, ImportPCs
    <3>4. CASE Counts(p)
      <4>1. ImportCount(p) /\ op'[p].verdict = FinishStatus(op[p].run)
        BY <3>1, <3>4 DEF Counts
      <4>2. pc[p] \in ImportPCs /\ Exists(op[p].run)
        BY <4>1 DEF ImportCount, ImportPCs
      <4>3. op[p].run \in RunIds /\ \A c \in Contexts : runs[op[p].run].ctx[c].ok < Kinds
        BY <1>0, <4>2 DEF ImportsPartial, OwnersApart
      <4>4. ~AllCollected(op[p].run)
        BY <1>0, <4>3, ContextsFinite, CountAssumption DEF AllCollected
      <4> QED BY <1>0, <4>1, <4>2, <4>3, <4>4, CompleteVerdict, VerdictType
    <3> QED BY <1>0, <3>2, <3>3, <3>4, Flow
  <2>3. CASE BeginsRun(p) /\ BeginImport(p)
    <3>1. op'[p].run = nextRun
      BY <2>3 DEF BeginsRun
    <3>2. InsertRun(FALSE)
      BY <2>3, Zenon DEF BeginImport
    <3>3. runs'[nextRun] = NewRun(FALSE)
      BY <1>0, <3>2 DEF InsertRun, TypeOK
    <3> QED BY <1>3, <2>2, <3>1, <3>3, CountAssumption DEF NewRun, RunningRow
  <2>4. CASE op'[p].run = op[p].run /\ pc[p] \in ImportPCs
    <3> DEFINE r == op[p].run
    <3>1. SUFFICES ASSUME r # None, runs'[r] # None
                   PROVE  runs'[r].status # "complete" /\ \A c \in Contexts : runs'[r].ctx[c].ok < Kinds
      BY <1>3, <2>2, <2>4 DEF Exists
    <3>2. r \in RunIds /\ r # nextRun
      BY <1>0, <2>4, CountAssumption DEF OwnersApart, RunIds
    <3>3. RunsFlow(p, r)
      BY <1>0, <3>2, LedgerFlow
    <3>4. Exists(r) /\ runs[r] \in RunRows
      BY <1>0, <3>1, <3>2, <3>3 DEF RunsFlow, Exists, TypeOK
    <3>5. runs[r].status # "complete" /\ \A c \in Contexts : runs[r].ctx[c].ok < Kinds
      BY <1>0, <2>4, <3>4 DEF ImportsPartial
    <3>6. ~Recovered(p, r) /\ ~Removed(p, r)
      BY <2>4, <3>1 DEF Recovered, Removed, ImportPCs
    <3>7. ~ImportFinish(p)
      BY <1>0, <1>1, <1>3, ReturnTo DEF ImportFinish, ImportPCs
    <3> HIDE DEF r
    <3>8. CASE Written(p, r)
      <4>1. PICK c \in Contexts, k \in 1..(Kinds - 1) :
              /\ runs'[r].status = runs[r].status
              /\ runs'[r].ctx = [runs[r].ctx EXCEPT ![c] = [vm |-> "success", rows |-> Kinds, ok |-> k]]
        BY <2>4, <3>7, <3>8, Zenon DEF Written, ImportPCs
      <4> DEFINE x == [vm |-> "success", rows |-> Kinds, ok |-> k]
      <4>2. x.ok < Kinds /\ runs'[r].ctx = [runs[r].ctx EXCEPT ![c] = x]
        BY <4>1, CountAssumption
      <4> HIDE DEF x
      <4> QED BY <3>4, <3>5, <4>1, <4>2 DEF RunRows
    <3>9. CASE ~Written(p, r)
      BY <3>2, <3>3, <3>5, <3>6, <3>9 DEF RunsFlow
    <3> QED BY <3>8, <3>9
  <2> QED BY <2>1, <2>3, <2>4
<1> QED BY <1>2, <1>3

(* The completed and the deleted runs after r do not become fewer.         *)
LEMMA PassedGrows ==
  ASSUME LedgerInv, NEW p \in Procs, Acts(p), NEW r \in RunIds
  PROVE  /\ Cardinality(Passed(r)) \in Nat /\ Cardinality(Passed(r)') \in Nat
         /\ Cardinality(Passed(r)) <= Cardinality(Passed(r)')
<1>1. IsFiniteSet(RunIds)
  BY CountAssumption, FS_Interval DEF RunIds
<1>2. Passed(r) \subseteq RunIds /\ Passed(r)' \subseteq RunIds
  BY DEF Passed, RunIds
<1>3. Passed(r) \subseteq Passed(r)'
  <2>1. SUFFICES ASSUME NEW q \in RunIds, q > r, q < nextRun, runs[q] = None \/ runs[q].status = "complete"
                 PROVE  q < nextRun' /\ (runs'[q] = None \/ runs'[q].status = "complete")
    BY DEF Passed, RunIds
  <2>2. q < nextRun'
    BY <2>1, NextRunFlow, CountAssumption DEF LedgerInv, TypeOK, RunIds
  <2>3. runs'[q] = None \/ runs'[q].status = "complete"
    BY <2>1, StatusStep
  <2> QED BY <2>2, <2>3
<1>4. IsFiniteSet(Passed(r)) /\ IsFiniteSet(Passed(r)')
  BY <1>1, <1>2, FS_Subset
<1> QED BY <1>3, <1>4, FS_Subset, FS_CardinalityType

LEMMA CandidatesStep ==
  ASSUME LedgerInv, NEW p \in Procs, Acts(p)
  PROVE  CandidatesOld'
<1>0. TypeOK /\ OwnersApart /\ CandidatesOld /\ RunIds' = RunIds
  BY DEF LedgerInv, RunIds
<1>1. SUFFICES ASSUME NEW q \in Procs, pc'[q] \in {"pruneLease", "pruning"}, NEW r \in op'[q].cand
               PROVE  /\ r < nextRun'
                      /\ runs'[r] # None =>
                           /\ runs'[r].status # "running"
                           /\ runs'[r].status = "complete" => Cardinality(Passed(r)') >= KeepLast
  BY DEF CandidatesOld
<1>2. ASSUME r \in RunIds, r < nextRun,
             runs[r] # None => /\ runs[r].status # "running"
                               /\ runs[r].status = "complete" => Cardinality(Passed(r)) >= KeepLast
      PROVE  /\ r < nextRun'
             /\ runs'[r] # None =>
                  /\ runs'[r].status # "running"
                  /\ runs'[r].status = "complete" => Cardinality(Passed(r)') >= KeepLast
  <2>1. r < nextRun'
    BY <1>0, <1>2, NextRunFlow, CountAssumption DEF TypeOK, RunIds
  <2>2. runs'[r] # None => /\ runs[r] # None /\ runs'[r].status # "running"
                           /\ runs'[r].status = "complete" => runs[r].status = "complete"
    BY <1>2, StatusStep
  <2> QED BY <1>2, <2>1, <2>2, PassedGrows, CountAssumption
<1>3. \/ pc[q] \in {"pruneLease", "pruning"} /\ op'[q].cand = op[q].cand
      \/ q = p /\ PruneRead(p) /\ op'[q].cand = Candidates
  <2>1. CASE q # p
    BY <1>0, <1>1, <2>1, OthersStay
  <2>2. CASE q = p
    <3>1. ~BeginsRun(p) /\ ~Writes(p) /\ ~Counts(p)
      BY <1>1, <2>2 DEF BeginsRun, Writes, Counts
    <3>2. CASE StaysThere(p)
      BY <1>1, <2>2, <3>2 DEF StaysThere
    <3>3. CASE LeavesOff(p)
      BY <1>1, <2>2, <3>3 DEF LeavesOff
    <3>4. CASE PruneGoes(p)
      BY <2>2, <3>4 DEF PruneGoes, PruneLease
    <3> QED BY <1>0, <3>1, <3>2, <3>3, <3>4, Flow
  <2> QED BY <2>1, <2>2
<1>4. CASE pc[q] \in {"pruneLease", "pruning"} /\ op'[q].cand = op[q].cand
  <2>1. op[q].cand \subseteq RunIds
    BY <1>0 DEF TypeOK, Locals
  <2>2. /\ r \in RunIds /\ r < nextRun
        /\ runs[r] # None => /\ runs[r].status # "running"
                             /\ runs[r].status = "complete" => Cardinality(Passed(r)) >= KeepLast
    BY <1>0, <1>1, <1>4, <2>1 DEF CandidatesOld
  <2> QED BY <1>2, <2>2
<1>5. CASE PruneRead(p) /\ op'[q].cand = Candidates
  <2>1. r \in Known /\ r \notin Kept /\ runs[r].status # "running" /\ r \in RunIds /\ runs[r] # None
    BY <1>1, <1>5 DEF Candidates, Known, Exists
  <2>2. r < nextRun
    BY <1>0, <2>1, CountAssumption DEF OwnersApart, TypeOK, RunIds
  <2>3. ASSUME runs[r].status = "complete" PROVE Cardinality(Passed(r)) >= KeepLast
    <3> DEFINE Newer == {s \in Known : s > r /\ runs[s].status = "complete"}
    <3>1. ~(Cardinality(Newer) < KeepLast)
      BY <2>1, <2>3 DEF Kept
    <3>2. Newer \subseteq Passed(r)
      BY <1>0, <2>1, CountAssumption DEF Known, Passed, Exists, OwnersApart, TypeOK, RunIds
    <3>3. IsFiniteSet(Passed(r))
      <4>1. IsFiniteSet(RunIds) /\ Passed(r) \subseteq RunIds
        BY CountAssumption, FS_Interval DEF RunIds, Passed
      <4> QED BY <4>1, FS_Subset
    <3>4. /\ Cardinality(Newer) <= Cardinality(Passed(r))
          /\ Cardinality(Newer) \in Nat /\ Cardinality(Passed(r)) \in Nat
      BY <3>2, <3>3, FS_Subset, FS_CardinalityType
    <3> HIDE DEF Newer
    <3> QED BY <3>1, <3>4, CountAssumption
  <2> QED BY <1>2, <2>1, <2>2, <2>3
<1> QED BY <1>3, <1>4, <1>5

(* The clock ticks only while nobody has a time in hand.                   *)
LEMMA ClockStep ==
  ASSUME LedgerInv, UNCHANGED work, Clock, TypeOK'
  PROVE  LedgerInv'
<1>0. /\ TypeOK /\ TokensDiffer /\ TimesRead /\ OwnersApart /\ CaptureLive /\ RowsThere /\ VerdictsTrue
      /\ ImportsPartial /\ CandidatesOld /\ CompleteMeansAll
  BY DEF LedgerInv
<1>1. /\ now' = now + 1 /\ row' = row /\ runs' = runs /\ nextRun' = nextRun /\ pc' = pc /\ op' = op
      /\ work' = work /\ ~ClockInUse
  BY DEF Clock, Tick
<1>2. now \in Nat /\ (row # None => row.expires \in Nat) /\ \A p \in Procs : op[p].t \in Nat
  BY <1>0, DurationAssumption, MaxTimeAssumption DEF TypeOK, Locals
<1>3. TimesRead'
  BY <1>0, <1>1, <1>2 DEF TimesRead, ClockInUse
<1>4. \A p \in Procs : Valid(p)' => Valid(p)
  BY <1>1, <1>2 DEF Valid, ValidAt
<1>5. CaptureLive'
  BY <1>0, <1>1, <1>4 DEF CaptureLive, CapturePCs, Exists, Contexts, RunningRow
<1>6. TokensDiffer' /\ OwnersApart' /\ RowsThere'
  BY <1>0, <1>1 DEF TokensDiffer, OwnersApart, RowsThere, CapturePCs, ImportPCs, Known, Exists, Contexts, RunIds
<1>7. VerdictsTrue' /\ ImportsPartial' /\ CompleteMeansAll'
  BY <1>0, <1>1 DEF VerdictsTrue, ImportsPartial, CompleteMeansAll, AllCollected, ImportPCs, Known, Exists,
     Contexts, RunIds
<1>8. CandidatesOld'
  BY <1>0, <1>1 DEF CandidatesOld, Passed, RunIds
<1> QED BY <1>3, <1>5, <1>6, <1>7, <1>8 DEF LedgerInv

LEMMA StutterStep == ASSUME LedgerInv, UNCHANGED vars PROVE LedgerInv'
<1>0. /\ TypeOK /\ TokensDiffer /\ TimesRead /\ OwnersApart /\ CaptureLive /\ RowsThere /\ VerdictsTrue
      /\ ImportsPartial /\ CandidatesOld /\ CompleteMeansAll
  BY DEF LedgerInv
<1>1. /\ now' = now /\ row' = row /\ runs' = runs /\ nextRun' = nextRun /\ pc' = pc /\ op' = op /\ work' = work
  BY DEF vars
<1>2. TypeOK'
  BY TypeOKStep
<1>3. CaptureLive' /\ TimesRead'
  BY <1>0, <1>1 DEF CaptureLive, TimesRead, CapturePCs, Exists, Contexts, RunningRow, Valid, ValidAt
<1>4. TokensDiffer' /\ OwnersApart' /\ RowsThere'
  BY <1>0, <1>1 DEF TokensDiffer, OwnersApart, RowsThere, CapturePCs, ImportPCs, Known, Exists, Contexts, RunIds
<1>5. VerdictsTrue' /\ ImportsPartial' /\ CompleteMeansAll'
  BY <1>0, <1>1 DEF VerdictsTrue, ImportsPartial, CompleteMeansAll, AllCollected, ImportPCs, Known, Exists,
     Contexts, RunIds
<1>6. CandidatesOld'
  BY <1>0, <1>1 DEF CandidatesOld, Passed, RunIds
<1> QED BY <1>2, <1>3, <1>4, <1>5, <1>6 DEF LedgerInv

-----------------------------------------------------------------------------
(* The theorems.                                                           *)

(* A step is a tick of the clock or the step of one process.               *)
LEMMA StepOf ==
  ASSUME Next
  PROVE  UNCHANGED work /\ (Clock \/ \E p \in Procs : Acts(p))
  BY DEF Next, Acts

LEMMA LedgerInvStep == LedgerInv /\ [Next]_vars => LedgerInv'
<1> SUFFICES ASSUME LedgerInv, [Next]_vars PROVE LedgerInv'
  OBVIOUS
<1>0. TypeOK'
  BY TypeOKStep
<1>1. CASE UNCHANGED vars
  BY <1>1, StutterStep
<1>2. CASE Next /\ Clock
  BY <1>0, <1>2, StepOf, ClockStep
<1>3. ASSUME Next, NEW p \in Procs, Acts(p) PROVE LedgerInv'
  <2>1. UNCHANGED work
    BY <1>3, StepOf
  <2>2. TypeOK /\ TokensDiffer /\ TimesRead /\ OwnersApart /\ CaptureLive /\ RowsThere
    BY DEF LedgerInv
  <2>3. TokensDiffer' /\ TimesRead' /\ OwnersApart'
    BY <1>3, <2>2, TokensStep, TimesStep, OwnersStep
  <2>4. CaptureLive' /\ RowsThere'
    BY <1>3, <2>1, <2>2, CaptureLiveStep, RowsStep
  <2>5. VerdictsTrue' /\ ImportsPartial' /\ CompleteMeansAll' /\ CandidatesOld'
    BY <1>3, <2>1, VerdictsStep, ImportsStep, CompleteStep, CandidatesStep
  <2> QED BY <1>0, <2>3, <2>4, <2>5 DEF LedgerInv
<1> QED BY <1>1, <1>2, <1>3, StepOf

(* Every state satisfies the invariant of the ledger.                      *)
THEOREM LedgerInvariant == Spec => []LedgerInv
  BY LedgerInvInit, LedgerInvStep, PTL DEF Spec

(* A run declared complete by finishRun (store.go) has every collection of *)
(* every context it asked for, whatever other processes do.                *)
THEOREM CompleteMeansAllHolds == Spec => []CompleteMeansAll
<1>1. LedgerInv => CompleteMeansAll
  BY DEF LedgerInv
<1> QED BY <1>1, LedgerInvariant, PTL

(* While a capture holds a valid lease, recoverOrphanedRuns of another     *)
(* process leaves its run and its contexts as they are.                    *)
THEOREM LiveCaptureUntouchedHolds == Spec => []LiveCaptureUntouched
<1>1. LedgerInv => LiveCaptureUntouched
  BY DEF LedgerInv, LiveCaptureUntouched, CaptureLive, CapturePCs
<1> QED BY <1>1, LedgerInvariant, PTL

(* What one step does to finished, deleted and pruned runs.                *)
LEMMA KeptStep ==
  ASSUME LedgerInv, Next, NEW r \in RunIds
  PROVE  /\ (/\ r \notin UNION {ImportedBy(p) : p \in Procs}
             /\ runs[r] # None /\ runs[r].status # "running" /\ runs'[r] # None) =>
               /\ runs'[r].status = runs[r].status
               /\ \A c \in Contexts : runs[r].ctx[c].vm # "running" => runs'[r].ctx[c] = runs[r].ctx[c]
         /\ r < nextRun /\ runs[r] = None => runs'[r] = None
         /\ \A p \in Procs :
               (pc[p] = "pruning" /\ pc'[p] # "pruning" /\ runs[r] # None /\ runs'[r] = None) =>
                   /\ ~runs[r].pinned /\ runs[r].status # "running"
                   /\ runs[r].status = "complete" => Cardinality(Passed(r)) >= KeepLast
<1>0. TypeOK /\ OwnersApart /\ CandidatesOld /\ nextRun \in Nat /\ r \in Nat
  BY CountAssumption DEF LedgerInv, TypeOK, RunIds
<1>1. CASE Clock
  BY <1>1 DEF Clock
<1>2. ASSUME NEW a \in Procs, Acts(a)
      PROVE  /\ (/\ r \notin UNION {ImportedBy(p) : p \in Procs}
                 /\ runs[r] # None /\ runs[r].status # "running" /\ runs'[r] # None) =>
                   /\ runs'[r].status = runs[r].status
                   /\ \A c \in Contexts : runs[r].ctx[c].vm # "running" => runs'[r].ctx[c] = runs[r].ctx[c]
             /\ r < nextRun /\ runs[r] = None => runs'[r] = None
             /\ \A p \in Procs :
                   (pc[p] = "pruning" /\ pc'[p] # "pruning" /\ runs[r] # None /\ runs'[r] = None) =>
                       /\ ~runs[r].pinned /\ runs[r].status # "running"
                       /\ runs[r].status = "complete" => Cardinality(Passed(r)) >= KeepLast
  <2>1. runs[r] # None => r < nextRun
    BY <1>0 DEF OwnersApart
  <2>2. ASSUME r \notin UNION {ImportedBy(p) : p \in Procs},
               runs[r] # None, runs[r].status # "running", runs'[r] # None
        PROVE  /\ runs'[r].status = runs[r].status
               /\ \A c \in Contexts : runs[r].ctx[c].vm # "running" => runs'[r].ctx[c] = runs[r].ctx[c]
    <3>1. ~(pc[a] \in ImportPCs /\ op[a].run = r)
      BY <2>2 DEF ImportedBy, ImportPCs
    <3>2. /\ runs'[r].status = runs[r].status
          /\ \/ runs'[r].ctx = runs[r].ctx
             \/ runs'[r].ctx = [c \in Contexts |-> Interrupted(runs[r].ctx[c])]
      BY <1>2, <2>1, <2>2, <3>1, StatusStep
    <3> QED BY <3>2 DEF Interrupted
  <2>3. r < nextRun /\ runs[r] = None => runs'[r] = None
    BY <1>2, StatusStep
  <2>4. ASSUME NEW p \in Procs, pc[p] = "pruning", pc'[p] # "pruning", runs[r] # None, runs'[r] = None
        PROVE  /\ ~runs[r].pinned /\ runs[r].status # "running"
               /\ runs[r].status = "complete" => Cardinality(Passed(r)) >= KeepLast
    <3>1. a = p
      BY <1>0, <1>2, <2>4, OthersStay
    <3>2. RunsFlow(p, r) /\ r # nextRun
      BY <1>0, <1>2, <2>1, <2>4, <3>1, LedgerFlow
    <3>3. r \in op[p].cand /\ Prunable(r)
      BY <2>4, <3>2 DEF RunsFlow, Written, Recovered, Removed
    <3> QED BY <1>0, <2>4, <3>3 DEF Prunable, CandidatesOld
  <2> QED BY <2>2, <2>3, <2>4
<1> QED BY <1>1, <1>2, StepOf

(* A finished capture never changes, a deleted run does not come back, and *)
(* Prune takes neither a pinned nor a running run nor one of the newest    *)
(* complete ones, although it deletes from a list drawn up earlier.        *)
THEOREM RunsKeptHolds == Spec => RunsKept
<1>1. LedgerInv /\ [Next]_vars =>
        /\ [\A r \in RunIds \ UNION {ImportedBy(p) : p \in Procs} :
              (runs[r] # None /\ runs[r].status # "running" /\ runs'[r] # None) =>
                 /\ runs'[r].status = runs[r].status
                 /\ \A c \in Contexts : runs[r].ctx[c].vm # "running" => runs'[r].ctx[c] = runs[r].ctx[c]]_vars
        /\ [\A r \in RunIds : r < nextRun /\ runs[r] = None => runs'[r] = None]_vars
        /\ [\A p \in Procs, r \in RunIds :
              (pc[p] = "pruning" /\ pc'[p] # "pruning" /\ runs[r] # None /\ runs'[r] = None)
                  => ~runs[r].pinned /\ runs[r].status # "running"]_vars
        /\ [\A p \in Procs, r \in RunIds :
              (/\ pc[p] = "pruning" /\ pc'[p] # "pruning" /\ runs[r] # None /\ runs'[r] = None
               /\ runs[r].status = "complete")
                  => Cardinality({q \in RunIds : /\ q > r /\ q < nextRun
                                                 /\ runs[q] = None \/ runs[q].status = "complete"}) >= KeepLast]_vars
  BY KeptStep DEF Passed
<1> QED BY <1>1, LedgerInvariant, PTL
    DEF Spec, RunsKept, CapturesFinal, DeletedStaysDeleted, PruneSparesPinned, PruneKeepsNewest
=============================================================================
