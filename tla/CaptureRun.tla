----------------------------- MODULE CaptureRun -----------------------------
(***************************************************************************)
(* The capture ledger (internal/assessment): processes that capture,       *)
(* import, open, pin, delete and prune runs in one SQLite database, under  *)
(* the writer lease of module WriterLease.                                 *)
(*                                                                         *)
(* A statement or transaction on the database is one step.  Everything a   *)
(* process read before it (the clock, a count, a pin, the list of runs to  *)
(* prune) is a local that may be out of date by then.                      *)
(***************************************************************************)
EXTENDS WriterLease, FiniteSets

CONSTANTS
    Procs,      \* processes sharing the history database
    Kinds,      \* how many collections a context has (len(persistedKinds))
    MaxRuns,    \* bound on the runs ever started
    Age,        \* prune: runs finished longer ago than this ...
    KeepLast,   \* ... but never the newest KeepLast completed ones
    Workloads   \* what operators may do, and the vCenter contexts a run asks for

ASSUME CountAssumption ==
    /\ Kinds \in Nat \ {0} /\ MaxRuns \in Nat /\ Age \in Nat /\ KeepLast \in Nat
ASSUME WorkloadsAssumption ==
    \A w \in Workloads : /\ IsFiniteSet(w.contexts) /\ w.contexts # {}
                          /\ w.operations \subseteq {"capture", "import", "pin", "delete", "prune"}

VARIABLES
    runs,       \* table runs with its context_runs and context_collections
    nextRun,    \* AUTOINCREMENT: an identifier is never used twice
    pc,         \* process -> where it is in its operation
    op,         \* process -> the locals of its operation
    work        \* the workload, which does not change

vars == <<now, row, runs, nextRun, pc, op, work>>

Contexts   == work.contexts
Operations == work.operations

RunIds   == 1..MaxRuns
Statuses == {"running", "complete", "partial", "failed"}

(* One context of a run: vm_status, how many collection rows, how many of  *)
(* them succeeded or were empty.                                           *)
ContextRows == [vm: {"running", "success", "failed"}, rows: 0..Kinds, ok: 0..Kinds]
RunningRow  == [vm |-> "running", rows |-> 0, ok |-> 0]
RunRows     == [status: Statuses, pinned: BOOLEAN, at: 0..MaxTime, ctx: [Contexts -> ContextRows]]

PCs == {"idle", "start", "setRun", "saving", "counted", "release",
        "importing", "importCounted", "recoverContexts", "recoverRuns",
        "delete", "pruneLease", "pruning"}

Locals == [tok: Tokens \cup {None}, t: 0..MaxTime, beat: 0..MaxTime \cup {None},
           run: RunIds \cup {None}, todo: SUBSET Contexts, verdict: Statuses, cand: SUBSET RunIds]

NoOp == [tok |-> None, t |-> 0, beat |-> None, run |-> None, todo |-> {},
         verdict |-> "running", cand |-> {}]

Init ==
    /\ LeaseInit
    /\ work \in Workloads
    /\ runs    = [r \in RunIds |-> None]
    /\ nextRun = 1
    /\ pc      = [p \in Procs |-> "idle"]
    /\ op      = [p \in Procs |-> NoOp]

Goto(p, l, o) == pc' = [pc EXCEPT ![p] = l] /\ op' = [op EXCEPT ![p] = o]
Return(p)     == Goto(p, "idle", NoOp)

Exists(r)   == r # None /\ runs[r] # None
Known       == {r \in RunIds : Exists(r)}
Valid(p)    == ValidAt(op[p].tok, now)
FreshTokens == {k \in Tokens : (row # None => row.token # k) /\ \A p \in Procs : op[p].tok # k}

-----------------------------------------------------------------------------
(* Capture.                                                                *)

BeginCapture(p) ==
    /\ "capture" \in Operations
    /\ pc[p] = "idle"
    /\ \E k \in FreshTokens : Take(k, now) /\ Goto(p, "start", [NoOp EXCEPT !.tok = k])
    /\ UNCHANGED <<runs, nextRun>>

(* StartRunWithMetadata: one transaction, which no lease guards.           *)
NewRun(pin) == [status |-> "running", pinned |-> pin, at |-> 0,
                ctx |-> [c \in Contexts |-> RunningRow]]

InsertRun(pin) ==
    /\ nextRun \in RunIds
    /\ runs' = [runs EXCEPT ![nextRun] = NewRun(pin)]
    /\ nextRun' = nextRun + 1

StartRun(p) ==
    /\ pc[p] = "start"
    /\ \E pin \in BOOLEAN : (pin => "pin" \in Operations) /\ InsertRun(pin)
    /\ Goto(p, "setRun", [op[p] EXCEPT !.run = nextRun, !.todo = Contexts])
    /\ UNCHANGED <<now, row>>

(* SetCaptureLeaseRun: the lease must still be valid, else the capture     *)
(* ends and its run stays as it is.                                        *)
SetRun(p) ==
    /\ pc[p] = "setRun"
    /\ Goto(p, IF Valid(p) THEN "saving" ELSE "release", op[p])
    /\ UNCHANGED <<now, row, runs, nextRun>>

(* What captureContext reports of a context: it could not be reached, its  *)
(* index could not be built, or every collection was tried.                *)
Results ==
    {[vm |-> "failed", rows |-> 0, ok |-> 0]}
    \cup {[vm |-> v, rows |-> Kinds, ok |-> k] : v \in {"success", "failed"}, k \in 0..Kinds}

PossibleResults ==
    {x \in Results : /\ (x.vm = "success" => x.ok > 0)
                     /\ (x.rows > 0 /\ x.vm = "failed" => x.ok < Kinds)}

(* saveContext with a lease: the transaction commits only when the token   *)
(* is still valid, and only if the run's row is still there.               *)
SaveUnfenced(p, c, x) ==
    /\ pc[p] = "saving" /\ c \in op[p].todo
    /\ Exists(op[p].run)
    /\ runs' = [runs EXCEPT ![op[p].run].ctx[c] = x]
    /\ Goto(p, "saving", [op[p] EXCEPT !.todo = @ \ {c}])
    /\ UNCHANGED <<now, row, nextRun>>

SaveUpserting(p, c, x) ==   \* seeded fault: a save brings back a run deleted meanwhile
    /\ pc[p] = "saving" /\ c \in op[p].todo
    /\ Valid(p)
    /\ runs' = [runs EXCEPT ![op[p].run] =
                  [IF @ = None THEN NewRun(FALSE) ELSE @ EXCEPT !.ctx[c] = x]]
    /\ Goto(p, "saving", [op[p] EXCEPT !.todo = @ \ {c}])
    /\ UNCHANGED <<now, row, nextRun>>

Save(p, c, x) ==
    /\ pc[p] = "saving" /\ c \in op[p].todo
    /\ Valid(p) /\ Exists(op[p].run)
    /\ runs' = [runs EXCEPT ![op[p].run].ctx[c] = x]
    /\ Goto(p, "saving", [op[p] EXCEPT !.todo = @ \ {c}])
    /\ UNCHANGED <<now, row, nextRun>>

(* The save failed: the lease is gone, the run was deleted, the operator   *)
(* cancelled, or the database refused.  The capture goes on regardless.    *)
SaveFails(p, c) ==
    /\ pc[p] = "saving" /\ c \in op[p].todo
    /\ Goto(p, "saving", [op[p] EXCEPT !.todo = @ \ {c}])
    /\ UNCHANGED <<now, row, runs, nextRun>>

(* The rows of context_collections of a run, <<context, n>>: all of them,  *)
(* and those that succeeded or were empty.                                 *)
Collected(r)  == {x \in Contexts \X (1..Kinds) : x[2] <= runs[r].ctx[x[1]].rows}
Okay(r)       == {x \in Contexts \X (1..Kinds) : x[2] <= runs[r].ctx[x[1]].ok}
WithVM(r, vm) == {c \in Contexts : runs[r].ctx[c].vm = vm}

(* The status finishRun computes from its counts.                          *)
FinishStatusIgnoringMissing(r) ==  \* seeded fault: a context that saved nothing is overlooked
    CASE Okay(r) = {}                                                 -> "failed"
      [] Okay(r) # {} /\ Cardinality(Okay(r)) = Cardinality(Collected(r)) -> "complete"
      [] OTHER                                                        -> "partial"

FinishStatus(r) ==
    LET requested == Cardinality(Contexts) * Kinds
        collected == Cardinality(Collected(r))
        okay      == Cardinality(Okay(r))
        succeeded == Cardinality(WithVM(r, "success"))
        running   == Cardinality(WithVM(r, "running"))
    IN IF collected > 0
       THEN CASE okay = 0                                           -> "failed"
              [] okay > 0 /\ okay = requested /\ collected = requested -> "complete"
              [] OTHER                                              -> "partial"
       ELSE CASE succeeded = 0                                      -> "failed"
              [] succeeded > 0 /\ succeeded = Cardinality(Contexts) /\ running = 0 -> "complete"
              [] OTHER                                              -> "partial"

(* finishRun, first half: the lease is checked and the counts are read.    *)
FinishRead(p) ==
    /\ pc[p] = "saving" /\ op[p].todo = {}
    /\ IF Valid(p) /\ Exists(op[p].run)
       THEN Goto(p, "counted", [op[p] EXCEPT !.t = now, !.verdict = FinishStatus(op[p].run)])
       ELSE Goto(p, "release", op[p])
    /\ UNCHANGED <<now, row, runs, nextRun>>

(* finishRun, second half: the update compares the lease with the time     *)
(* read at the start.                                                      *)
FinishWrite(p) ==
    /\ pc[p] = "counted"
    /\ IF ValidAt(op[p].tok, op[p].t) /\ Exists(op[p].run)
       THEN runs' = [runs EXCEPT ![op[p].run].status = op[p].verdict,
                                 ![op[p].run].at = op[p].t]
       ELSE UNCHANGED runs
    /\ Goto(p, "release", op[p])
    /\ UNCHANGED <<now, row, nextRun>>

(* The operator cancels, or the database refuses: a capture or a prune     *)
(* ends early.                                                             *)
Abort(p) ==
    /\ pc[p] \in {"start", "setRun", "counted", "pruning"} \/ (pc[p] = "saving" /\ op[p].todo = {})
    /\ Goto(p, "release", op[p])
    /\ UNCHANGED <<now, row, runs, nextRun>>

(* The heartbeat goroutine: a tick carries the time it fired; nobody looks *)
(* whether the renewal worked.                                             *)
Beat(p) ==
    /\ pc[p] \in {"saving", "counted"} /\ op[p].beat = None
    /\ Goto(p, pc[p], [op[p] EXCEPT !.beat = now])
    /\ UNCHANGED <<now, row, runs, nextRun>>

Renew(p) ==
    /\ op[p].beat # None
    /\ Extend(op[p].tok, op[p].beat) \/ UNCHANGED <<now, row>>
    /\ Goto(p, pc[p], [op[p] EXCEPT !.beat = None])
    /\ UNCHANGED <<runs, nextRun>>

(* ReleaseCaptureLease, after the heartbeat has stopped.                   *)
Release(p) ==
    /\ pc[p] = "release" /\ op[p].beat = None
    /\ Free(op[p].tok) \/ UNCHANGED <<now, row>>
    /\ Return(p)
    /\ UNCHANGED <<runs, nextRun>>

-----------------------------------------------------------------------------
(* Opening the history: recoverOrphanedRuns, whose updates touch what is   *)
(* running only while no lease is live.  (Its update of context_collections *)
(* finds nothing: saveContext only ever stores finished collections.)      *)

Open(p) ==
    /\ pc[p] = "idle"
    /\ Goto(p, "recoverContexts", [NoOp EXCEPT !.t = now])
    /\ UNCHANGED <<now, row, runs, nextRun>>

NoLeaseEver(p) == TRUE     \* seeded fault: a live lease does not protect its run
NoLiveLease(p) == row # None => row.expires <= op[p].t

Interrupted(x) == IF x.vm = "running" THEN [x EXCEPT !.vm = "failed"] ELSE x

RecoverContexts(p) ==
    /\ pc[p] = "recoverContexts"
    /\ runs' = IF NoLiveLease(p)
               THEN [r \in RunIds |->
                       IF runs[r] = None THEN None
                       ELSE [runs[r] EXCEPT !.ctx = [c \in Contexts |-> Interrupted(@[c])]]]
               ELSE runs
    /\ Goto(p, "recoverRuns", op[p])
    /\ UNCHANGED <<now, row, nextRun>>

RecoverRuns(p) ==
    /\ pc[p] = "recoverRuns"
    /\ runs' = IF NoLiveLease(p)
               THEN [r \in RunIds |->
                       IF Exists(r) /\ runs[r].status = "running"
                       THEN [runs[r] EXCEPT !.status = "failed", !.at = op[p].t]
                       ELSE runs[r]]
               ELSE runs
    /\ Return(p)
    /\ UNCHANGED <<now, row, nextRun>>

-----------------------------------------------------------------------------
(* An RVTools import (rvimport Result.Write): the same three store calls   *)
(* with no lease; a failing one deletes the run again.  The run is dated   *)
(* by the workbook, some time in the past.                                 *)

BeginImport(p) ==
    /\ "import" \in Operations
    /\ pc[p] = "idle"
    /\ InsertRun(FALSE)
    /\ \E captured \in 0..now :
         Goto(p, "importing", [NoOp EXCEPT !.t = captured, !.run = nextRun, !.todo = Contexts])
    /\ UNCHANGED <<now, row>>

ImportSave(p, c) ==
    /\ pc[p] = "importing" /\ c \in op[p].todo
    /\ Exists(op[p].run)
    /\ \E k \in 1..(Kinds - 1) :
         runs' = [runs EXCEPT ![op[p].run].ctx[c] = [vm |-> "success", rows |-> Kinds, ok |-> k]]
    /\ Goto(p, "importing", [op[p] EXCEPT !.todo = @ \ {c}])
    /\ UNCHANGED <<now, row, nextRun>>

ImportCount(p) ==
    /\ pc[p] = "importing" /\ op[p].todo = {}
    /\ Exists(op[p].run)
    /\ Goto(p, "importCounted", [op[p] EXCEPT !.verdict = FinishStatus(op[p].run)])
    /\ UNCHANGED <<now, row, runs, nextRun>>

ImportFinish(p) ==
    /\ pc[p] = "importCounted"
    /\ runs' = IF Exists(op[p].run)
               THEN [runs EXCEPT ![op[p].run].status = op[p].verdict, ![op[p].run].at = op[p].t]
               ELSE runs
    /\ Return(p)
    /\ UNCHANGED <<now, row, nextRun>>

ImportFails(p) ==
    /\ pc[p] \in {"importing", "importCounted"}
    /\ IF Exists(op[p].run) /\ ~runs[op[p].run].pinned
       THEN Goto(p, "delete", op[p])
       ELSE Return(p)
    /\ UNCHANGED <<now, row, runs, nextRun>>

-----------------------------------------------------------------------------
(* UpdateRunFields, DeleteRun and Prune.                                   *)

SetPinned(p, r, b) ==
    /\ "pin" \in Operations
    /\ pc[p] = "idle"
    /\ Exists(r) /\ runs[r].pinned # b
    /\ runs' = [runs EXCEPT ![r].pinned = b]
    /\ UNCHANGED <<now, row, nextRun, pc, op>>

(* DeleteRun reads the pin, then deletes by identifier alone.              *)
BeginDelete(p, r) ==
    /\ "delete" \in Operations
    /\ pc[p] = "idle"
    /\ Exists(r) /\ ~runs[r].pinned
    /\ Goto(p, "delete", [NoOp EXCEPT !.run = r])
    /\ UNCHANGED <<now, row, runs, nextRun>>

Delete(p) ==
    /\ pc[p] = "delete"
    /\ runs' = [runs EXCEPT ![op[p].run] = None]
    /\ Return(p)
    /\ UNCHANGED <<now, row, nextRun>>

(* Prune: the newest KeepLast completed runs are kept whatever their age.  *)
KeptAnyStatus ==   \* seeded fault: a failed or partial run takes up a place
    {r \in Known : Cardinality({q \in Known : q > r}) < KeepLast}

Kept == {r \in Known : /\ runs[r].status = "complete"
                       /\ Cardinality({q \in Known : q > r /\ runs[q].status = "complete"}) < KeepLast}

Candidates == {r \in Known \ Kept : /\ runs[r].status # "running" /\ ~runs[r].pinned
                                    /\ runs[r].at + Age < now}

PruneRead(p) ==
    /\ "prune" \in Operations
    /\ pc[p] = "idle" /\ Candidates # {}
    /\ Goto(p, "pruneLease", [NoOp EXCEPT !.cand = Candidates])
    /\ UNCHANGED <<now, row, runs, nextRun>>

PruneLease(p) ==
    /\ pc[p] = "pruneLease"
    /\ \/ \E k \in FreshTokens : Take(k, now) /\ Goto(p, "pruning", [op[p] EXCEPT !.tok = k])
       \/ Return(p) /\ UNCHANGED <<now, row>>
    /\ UNCHANGED <<runs, nextRun>>

PrunableStillListed(r) == Exists(r)    \* seeded fault: the list is trusted
Prunable(r) == Exists(r) /\ ~runs[r].pinned /\ runs[r].status # "running"

Prune(p) ==
    /\ pc[p] = "pruning"
    /\ runs' = [r \in RunIds |-> IF r \in op[p].cand /\ Prunable(r) THEN None ELSE runs[r]]
    /\ Goto(p, "release", op[p])
    /\ UNCHANGED <<now, row, nextRun>>

(* A process is killed.                                                    *)
Crash(p) ==
    /\ pc[p] # "idle"
    /\ Return(p)
    /\ UNCHANGED <<now, row, runs, nextRun>>

-----------------------------------------------------------------------------
Capture(p) ==
    \/ BeginCapture(p) \/ StartRun(p) \/ SetRun(p) \/ FinishRead(p) \/ FinishWrite(p)
    \/ Abort(p) \/ Beat(p) \/ Renew(p) \/ Release(p)
    \/ \E c \in Contexts : SaveFails(p, c) \/ \E x \in PossibleResults : Save(p, c, x)

Recover(p) == Open(p) \/ RecoverContexts(p) \/ RecoverRuns(p)

Import(p) == \/ BeginImport(p) \/ ImportCount(p) \/ ImportFinish(p) \/ ImportFails(p)
             \/ \E c \in Contexts : ImportSave(p, c)

Maintain(p) ==
    \/ \E r \in RunIds : BeginDelete(p, r) \/ \E b \in BOOLEAN : SetPinned(p, r, b)
    \/ Delete(p) \/ PruneRead(p) \/ PruneLease(p) \/ Prune(p)

(* Somebody has read the clock and not yet acted on it.  A tick is long    *)
(* compared with that: a process is not suspended between the two for as   *)
(* long as a lease has left to run.                                        *)
ClockInUse == \E p \in Procs : \/ op[p].beat # None
                               \/ pc[p] \in {"counted", "recoverContexts", "recoverRuns"}

Clock == ~ClockInUse /\ Tick /\ UNCHANGED <<runs, nextRun, pc, op>>

Next ==
    /\ UNCHANGED work
    /\ \/ Clock
       \/ \E p \in Procs : Capture(p) \/ Recover(p) \/ Import(p) \/ Maintain(p) \/ Crash(p)

Spec == Init /\ [][Next]_vars

-----------------------------------------------------------------------------
(* Properties.                                                             *)

(* Every variable has its type.                                            *)
TypeOK ==
    /\ work \in Workloads
    /\ now \in 0..MaxTime /\ row \in [token: Tokens, expires: 0..(MaxTime + Duration)] \cup {None}
    /\ runs \in [RunIds -> RunRows \cup {None}] /\ nextRun \in 1..(MaxRuns + 1)
    /\ pc \in [Procs -> PCs]
    /\ op \in [Procs -> Locals]

(* "Capture creates one immutable run": a run that was given its final     *)
(* status keeps it until it is deleted, and what was recorded of its       *)
(* contexts with it, whoever captures or opens the history meanwhile.      *)
FinishedIsFinal ==
    [][\A r \in RunIds :
        (runs[r] # None /\ runs[r].status # "running" /\ runs'[r] # None) =>
            /\ runs'[r].status = runs[r].status
            /\ \A c \in Contexts : runs[r].ctx[c].vm # "running"
                                  => runs'[r].ctx[c] = runs[r].ctx[c]]_vars

(* A complete run is complete: every collection of every context it asked  *)
(* for succeeded, whatever failed, was cancelled or recovered on the way.  *)
AllCollected(r) ==
    \A c \in Contexts : runs[r].ctx[c].rows = Kinds /\ runs[r].ctx[c].ok = Kinds

CompleteMeansAll == \A r \in Known : runs[r].status = "complete" => AllCollected(r)

(* "Active captures (including captures in another process) are left       *)
(* untouched": while a capture holds the lease, opening the history does   *)
(* not declare its run, or a context it has yet to save, interrupted.      *)
LiveCaptureUntouched ==
    \A p \in Procs :
        (pc[p] \in {"saving", "counted"} /\ Valid(p) /\ Exists(op[p].run)) =>
            /\ runs[op[p].run].status = "running"
            /\ \A c \in op[p].todo : runs[op[p].run].ctx[c] = RunningRow

(* "Pinned captures are never pruned", nor is a running one, even when it  *)
(* was pinned after the list of candidates was drawn up.                   *)
PruneSparesPinned ==
    [][\A p \in Procs, r \in RunIds :
        (pc[p] = "pruning" /\ pc'[p] # "pruning" /\ runs[r] # None /\ runs'[r] = None)
            => ~runs[r].pinned /\ runs[r].status # "running"]_vars

(* "Preserve this many newest completed runs": a completed run that Prune   *)
(* deletes had KeepLast newer completed ones, which at most an operator's   *)
(* delete has taken away, also when others finished, pinned or pruned runs  *)
(* since the candidates were listed.                                       *)
PruneKeepsNewest ==
    [][\A p \in Procs, r \in RunIds :
        (/\ pc[p] = "pruning" /\ pc'[p] # "pruning" /\ runs[r] # None /\ runs'[r] = None
         /\ runs[r].status = "complete")
            => Cardinality({q \in RunIds : /\ q > r /\ q < nextRun
                                           /\ runs[q] = None \/ runs[q].status = "complete"}) >= KeepLast]_vars

(* A deleted run stays deleted: a capture or an import still under way when *)
(* its run is deleted (DeleteRun asks for no lease) neither brings it back  *)
(* nor writes into a run that came after it.                               *)
DeletedStaysDeleted ==
    [][\A r \in RunIds : r < nextRun /\ runs[r] = None => runs'[r] = None]_vars

(* Of a captured run, finished is final; of one that an import is still    *)
(* writing it is not (see FinishedIsFinal).                                *)
ImportedBy(p) == IF pc[p] \in {"importing", "importCounted"} THEN {op[p].run} ELSE {}
CapturesFinal ==
    [][\A r \in RunIds \ UNION {ImportedBy(p) : p \in Procs} :
        (runs[r] # None /\ runs[r].status # "running" /\ runs'[r] # None) =>
            /\ runs'[r].status = runs[r].status
            /\ \A c \in Contexts : runs[r].ctx[c].vm # "running" => runs'[r].ctx[c] = runs[r].ctx[c]]_vars

(* What the ledger holds it keeps: a finished capture never changes, a     *)
(* deleted run does not come back, and Prune takes away only what nobody   *)
(* wanted kept.                                                            *)
RunsKept == CapturesFinal /\ DeletedStaysDeleted /\ PruneSparesPinned /\ PruneKeepsNewest

-----------------------------------------------------------------------------
(* Why the three hold: what the steps of a process rely on.                *)

(* No two processes work with one token.                                   *)
TokensDiffer ==
    \A p, q \in Procs : p # q /\ op[p].tok # None => op[p].tok # op[q].tok

(* Nobody acts on a time to come, and a time still to be acted on is the   *)
(* present one.                                                            *)
TimesRead ==
    \A p \in Procs :
        /\ op[p].t <= now
        /\ pc[p] \in {"counted", "recoverContexts", "recoverRuns"} => op[p].t = now
        /\ op[p].beat # None => op[p].beat = now

(* A run is written by the process that started it, and by no other.       *)
CapturePCs == {"setRun", "saving", "counted"}
ImportPCs  == {"importing", "importCounted"}

OwnersApart ==
    /\ \A r \in RunIds : r >= nextRun => runs[r] = None
    /\ \A p \in Procs : pc[p] \in CapturePCs \cup ImportPCs =>
           /\ op[p].run \in RunIds /\ op[p].run < nextRun
           /\ \A q \in Procs : pc[q] \in CapturePCs \cup ImportPCs /\ q # p => op[p].run # op[q].run

(* As long as the lease of a capture is valid its run is as it left it.    *)
CaptureLive ==
    \A p \in Procs :
        (pc[p] \in CapturePCs /\ Valid(p) /\ Exists(op[p].run)) =>
            /\ runs[op[p].run].status = "running"
            /\ \A c \in op[p].todo : runs[op[p].run].ctx[c] = RunningRow

(* A context whose VMs were collected has a row for each kind.             *)
RowsThere ==
    \A r \in Known : \A c \in Contexts :
        runs[r].ctx[c].vm = "success" => runs[r].ctx[c].rows = Kinds

(* The verdict a process is about to write still holds of its run.         *)
VerdictsTrue ==
    \A p \in Procs :
        pc[p] = "counted" /\ op[p].verdict = "complete" /\ Exists(op[p].run) => AllCollected(op[p].run)

(* A workbook never holds every kind, so no import is complete.            *)
ImportsPartial ==
    \A p \in Procs : pc[p] \in ImportPCs =>
        /\ pc[p] = "importCounted" => op[p].verdict \in {"failed", "partial"}
        /\ Exists(op[p].run) => /\ runs[op[p].run].status # "complete"
                                /\ \A c \in Contexts : runs[op[p].run].ctx[c].ok < Kinds

(* The completed runs after r, and those that were deleted.                *)
Passed(r) == {q \in RunIds : /\ q > r /\ q < nextRun
                             /\ runs[q] = None \/ runs[q].status = "complete"}

(* What a prune has listed was finished and, if complete, not to be kept.  *)
CandidatesOld ==
    \A p \in Procs : pc[p] \in {"pruneLease", "pruning"} =>
        \A r \in op[p].cand :
            /\ r < nextRun
            /\ runs[r] # None => /\ runs[r].status # "running"
                                 /\ runs[r].status = "complete" => Cardinality(Passed(r)) >= KeepLast

(* The inductive invariant behind CompleteMeansAll, LiveCaptureUntouched   *)
(* and RunsKept.                                                           *)
LedgerInv ==
    /\ TypeOK /\ TokensDiffer /\ TimesRead /\ OwnersApart /\ CaptureLive /\ RowsThere
    /\ VerdictsTrue /\ ImportsPartial /\ CandidatesOld /\ CompleteMeansAll
=============================================================================
