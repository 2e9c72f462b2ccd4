---------------------------- MODULE HistoryFiles ----------------------------
(***************************************************************************)
(* The history database as a file: opening it and bringing its schema up   *)
(* to date (open, migrate and the migrateV* steps of                       *)
(* internal/assessment/store.go and perf.go), and replacing and copying it *)
(* (Backup and Restore of maintenance.go), by processes that may crash     *)
(* between any two steps.                                                  *)
(*                                                                         *)
(* A database file is an identity: a process that has it open keeps it     *)
(* when the path is removed or replaced.  Its content is the schema        *)
(* version it reports, the schema steps whose tables and columns are       *)
(* there, the captured runs and whether a lease is recorded in it.  One    *)
(* SQLite transaction is one action.  SQLite's own journal is left out, as *)
(* are the rows themselves, which CaptureRun models.                       *)
(***************************************************************************)
EXTENDS Integers, Sequences, FiniteSets

CONSTANTS
    Procs,      \* processes that use the history
    Files,      \* identities of database files
    Runs,       \* captured runs
    Oldest,     \* the versions of a database found at the start
    MaxEvents,  \* bound on backups, restores, crashes and leases run out
    OldBackups, \* the versions of a backup found at the start
    None

Current == 9     \* currentSchemaVersion
Steps == {"runs", "labels", "v3", "v4", "v5", "v6", "v7", "v8", "v9"}

(* The version from which every database has the step.                     *)
Since == [runs |-> 1, labels |-> 2, v3 |-> 3, v4 |-> 4, v5 |-> 6, v6 |-> 6, v7 |-> 7, v8 |-> 8, v9 |-> 9]

(* What a database file holds.                                             *)
Content == [version : 0..(Current + 1), schema : SUBSET Steps, runs : SUBSET Runs, held : BOOLEAN]

(* No build before 6 recorded version 5.                                   *)
ASSUME FilesAssumption ==
    /\ Oldest \cup OldBackups \subseteq (0..(Current + 1)) \ {5} /\ MaxEvents \in Nat
    /\ None \notin Files \cup Procs \cup Content

VARIABLES
    path,       \* the file at the history's path, or None
    stray,      \* whether a restore that had lost its lease put it there
    content,    \* file -> what it holds
    backup,     \* the content of the backup file, or None
    safety,     \* the contents of the pre-restore copies
    lease,      \* the process that holds the writer lease, or None
    pc, proc,   \* process -> where it is, and its locals
    copying,    \* whether anybody makes and restores backups
    events      \* backups, restores, crashes and leases run out so far

vars == <<path, stray, content, backup, safety, lease, pc, proc, copying, events>>

(* What builds of that version left.                                       *)
SchemaOf(v) == {s \in Steps : Since[s] <= v}

Empty    == [version |-> 0, schema |-> {}, runs |-> {}, held |-> FALSE]
NoLocals == [file |-> None, plan |-> {}, seen |-> 0, kept |-> None, from |-> None, copy |-> None]

Free == Files \ ({path} \cup {proc[p].file : p \in Procs})
At(p, l) == pc[p] = l
Goto(p, l, o) == pc' = [pc EXCEPT ![p] = l] /\ proc' = [proc EXCEPT ![p] = o]
file(p) == proc[p].file
db(p) == content[proc[p].file]

-----------------------------------------------------------------------------
(* open: an absent file is created, and the schema brought up to date.     *)

(* migrate, of the version it read first; the legacy steps are planned     *)
(* when they are reached, from the version read again then.                *)
PlanShort(v) == (IF v < 6 THEN {"legacy", "v6"} ELSE {}) \cup (IF v < 7 THEN {"v7"} ELSE {})
                 \cup (IF v < Current THEN {"v8"} ELSE {})   \* seeded fault: a step not chained
Plan(v) == (IF v < 6 THEN {"legacy", "v6"} ELSE {}) \cup (IF v < 7 THEN {"v7"} ELSE {})
             \cup (IF v < 8 THEN {"v8"} ELSE {}) \cup (IF v < Current THEN {"v9"} ELSE {})

(* A version of 6 or more falls through to the creation of the tables.     *)
LegacyPlanOnce(v) ==       \* seeded fault: version 4 is taken to have v5's columns
    IF v \in {4, 5} THEN {"v3"} ELSE IF v = 3 THEN {"v4", "v5"}
    ELSE IF v = 2 THEN {"v3", "v4", "v5"}
    ELSE {IF v = 1 THEN "labels" ELSE "runs", "v3", "v4", "v5"}
LegacyPlan(v) ==
    CASE v = 5 -> {"v3"}
      [] v = 4 -> {"v3", "v5"}
      [] v = 3 -> {"v4", "v5"}
      [] v = 2 -> {"v3", "v4", "v5"}
      [] v = 1 -> {"labels", "v3", "v4", "v5"}
      [] OTHER -> {"runs", "v3", "v4", "v5"}

(* The planned steps are taken in this order; s is the next of p.          *)
Rank == [legacy |-> 0, runs |-> 1, labels |-> 2, v3 |-> 3, v4 |-> 4, v5 |-> 5, v6 |-> 6, v7 |-> 7, v8 |-> 8, v9 |-> 9]
IsNext(s, p) == s \in proc[p].plan /\ \A t \in proc[p].plan : Rank[s] <= Rank[t]

(* o, with the file at the path opened and its version read.  A version    *)
(* newer than this build is refused (the disjunct is not enabled).         *)
OpenPath(p, o) ==
    /\ \/ path # None /\ UNCHANGED <<path, stray, content>>
       \/ path = None /\ \E f \in Free : path' = f /\ stray' = FALSE /\ content' = [content EXCEPT ![f] = Empty]
    /\ content'[path'].version <= Current
    /\ Goto(p, "migrate", [o EXCEPT !.file = path', !.plan = Plan(content'[path'].version)])

Open(p) == At(p, "closed") /\ OpenPath(p, NoLocals) /\ UNCHANGED <<backup, safety, lease>>

(* The steps read the version, or look for their columns, before their     *)
(* transaction: another process may commit in between.                     *)
StepReads(p) == \E s \in {"legacy", "v3", "v4", "v5", "v8", "v9"} :
    /\ At(p, "migrate") /\ IsNext(s, p)
    /\ IF s = "legacy"
       THEN Goto(p, "migrate", [proc[p] EXCEPT !.plan = LegacyPlan(db(p).version) \cup (@ \ {s})])
       ELSE Goto(p, "commit", [proc[p] EXCEPT !.seen =
                IF s \notin {"v8", "v9"} THEN db(p).version ELSE IF s \in db(p).schema THEN 1 ELSE 0])
    /\ UNCHANGED <<path, stray, content, backup, safety, lease>>

(* The schema and version after the step s, of a database c whose version  *)
(* (or column) was seen.  A statement that adds what is already there      *)
(* fails, except in the steps that tolerate it.                            *)
Repeats(c, s, seen) ==
    CASE s = "runs"            -> "runs" \in c.schema
      [] s = "labels"          -> "labels" \in c.schema
      [] s \in {"v8", "v9"}    -> seen = 0 /\ s \in c.schema
      [] OTHER                 -> FALSE

Adds(c, new, v)     == [c EXCEPT !.schema = @ \cup new, !.version = v]
CreateTables(c)     == Adds(c, {"runs", "labels"}, 2)
MigrateV3(c, seen)  == Adds(c, {"v3"}, IF seen >= 3 THEN c.version ELSE 3)
MigrateV4(c, seen)  == IF seen >= 4 THEN c ELSE Adds(c, {"v4"}, 4)
MigrateV5(c, seen)  == IF seen > 4 THEN c ELSE Adds(c, {"v5"}, c.version)
MigrateV6(c)        == Adds(c, {"v6"}, 6)
MigrateV7(c)        == Adds(c, {"v7"}, 7)
MigrateV8Ahead(c)   == Adds(c, {"v8"}, Current)   \* seeded fault: the version of a later step is recorded
MigrateV8(c)        == Adds(c, {"v8"}, 8)
MigrateV9(c)        == Adds(c, {"v9"}, 9)

AfterStep(c, s, seen) ==
    CASE s \in {"runs", "labels"} -> CreateTables(c)
      [] s = "v3" -> MigrateV3(c, seen)
      [] s = "v4" -> MigrateV4(c, seen)
      [] s = "v5" -> MigrateV5(c, seen)
      [] s = "v6" -> MigrateV6(c)
      [] s = "v7" -> MigrateV7(c)
      [] s = "v8" -> MigrateV8(c)
      [] s = "v9" -> MigrateV9(c)

StepCommits(p) == \E s \in Steps :
    /\ At(p, "commit") \/ (At(p, "migrate") /\ s \in {"runs", "labels", "v6", "v7"})
    /\ IsNext(s, p) /\ ~Repeats(db(p), s, proc[p].seen)
    /\ content' = [content EXCEPT ![file(p)] = AfterStep(@, s, proc[p].seen)]
    /\ Goto(p, "migrate", [proc[p] EXCEPT !.plan = @ \ {s}, !.seen = 0])
    /\ UNCHANGED <<path, stray, backup, safety, lease>>

Opened(p) ==
    /\ At(p, "migrate") /\ proc[p].plan = {} /\ proc[p].kept = None
    /\ Goto(p, "open", proc[p]) /\ UNCHANGED <<path, stray, content, backup, safety, lease>>

(* A step can always fail (a busy database, a full disk) and must when it  *)
(* repeats: open closes the database and returns the error.                *)
OpenFails(p) ==
    /\ At(p, "migrate") \/ At(p, "commit")
    /\ proc[p].plan # {} /\ proc[p].kept = None
    /\ Goto(p, "closed", NoLocals) /\ UNCHANGED <<path, stray, content, backup, safety, lease>>

Close(p) == At(p, "open") /\ Goto(p, "closed", NoLocals)
            /\ UNCHANGED <<path, stray, content, backup, safety, lease>>

-----------------------------------------------------------------------------
(* The writer lease: one file beside the database and one row in it.       *)

Acquire(p, l) ==
    /\ At(p, "open") /\ lease = None /\ ~db(p).held
    /\ lease' = p /\ content' = [content EXCEPT ![file(p)].held = TRUE]
    /\ Goto(p, l, proc[p])

(* Releasing deletes what has the token of this process.                   *)
Release(p) == lease' = IF lease = p THEN None ELSE lease
ReleaseRow(p) == content' = IF lease = p THEN [content EXCEPT ![file(p)].held = FALSE] ELSE content

(* Saving checks the lease; what it was lost to fails the capture.         *)
BeginCapture(p) == Acquire(p, "capture") /\ UNCHANGED <<path, stray, backup, safety>>
EndCapture(p) ==
    /\ At(p, "capture") /\ lease = p
    /\ \E r \in Runs : content' = [content EXCEPT ![file(p)].runs = @ \cup {r}, ![file(p)].held = FALSE]
    /\ Release(p) /\ Goto(p, "open", proc[p]) /\ UNCHANGED <<path, stray, backup, safety>>

(* A lease runs out two minutes after it was taken, whatever its process   *)
(* does: a capture renews it, as long as nothing holds it up; a backup and *)
(* a restore never do.                                                     *)
Lapse(p) ==
    /\ lease = p /\ pc[p] # "closed" /\ Release(p)
    /\ IF file(p) = None THEN content' = content ELSE ReleaseRow(p)
    /\ UNCHANGED <<path, stray, backup, safety, pc, proc>>

(* So does the lease of a process that is gone, and a row that came with a *)
(* copy.                                                                   *)
Expire ==
    /\ \/ lease # None /\ pc[lease] = "closed" /\ lease' = None /\ content' = content
       \/ \E f \in Files : content[f].held /\ ~(\E p \in Procs : file(p) = f /\ lease = p)
          /\ content' = [content EXCEPT ![f].held = FALSE] /\ lease' = lease
    /\ UNCHANGED <<path, stray, backup, safety, pc, proc>>

-----------------------------------------------------------------------------
(* Backup.  The copy is made with VACUUM INTO beside its destination, its  *)
(* lease row deleted if that succeeds, checked, and renamed into place.    *)

CopiesOf(c) == {c, [c EXCEPT !.held = FALSE]}

(* verifySQLiteFile.                                                       *)
Verified(c) == c.version \in 1..Current /\ "runs" \in c.schema

BeginBackup(p) == copying /\ Acquire(p, "vacuum") /\ UNCHANGED <<path, stray, backup, safety>>
Vacuum(p) ==
    /\ At(p, "vacuum") /\ Verified(db(p))
    /\ \E c \in CopiesOf(db(p)) : Goto(p, "publish", [proc[p] EXCEPT !.copy = c])
    /\ UNCHANGED <<path, stray, content, backup, safety, lease>>

(* --force removes the former backup first.  Nothing asks for the lease    *)
(* again, in a backup or in a restore.                                     *)
RemoveBackup(p) ==
    /\ At(p, "publish") /\ backup # None /\ backup' = None
    /\ UNCHANGED <<path, stray, content, safety, lease, pc, proc>>
Publish(p) ==
    /\ At(p, "publish") /\ backup = None /\ backup' = proc[p].copy
    /\ ReleaseRow(p) /\ Release(p)
    /\ Goto(p, "open", [proc[p] EXCEPT !.copy = None]) /\ UNCHANGED <<path, stray, safety>>

-----------------------------------------------------------------------------
(* Restore, of the backup file.                                            *)

(* Without --force only into an empty history.                             *)
BeginRestore(p) ==
    /\ copying /\ backup # None /\ Verified(backup)
    /\ Acquire(p, "safety") /\ UNCHANGED <<path, stray, backup, safety>>
SafetyUnsaved(p) ==        \* seeded fault: no copy is kept
    /\ At(p, "safety") /\ Goto(p, "copy", [proc[p] EXCEPT !.kept = db(p), !.from = file(p)])
    /\ UNCHANGED <<path, stray, content, backup, safety, lease>>
SafetyCopy(p) ==
    /\ At(p, "safety") /\ Verified(db(p))
    /\ \E c \in CopiesOf(db(p)) :
        /\ safety' = safety \cup {c}
        /\ Goto(p, "copy", [proc[p] EXCEPT !.kept = c, !.from = file(p)])
    /\ UNCHANGED <<path, stray, content, backup, lease>>

(* The source is copied beside the database and checked; then this         *)
(* process closes the database.                                            *)
CopySource(p) ==
    /\ At(p, "copy") /\ backup # None /\ Verified(backup)
    /\ Goto(p, "remove", [proc[p] EXCEPT !.copy = backup, !.file = None])
    /\ UNCHANGED <<path, stray, content, backup, safety, lease>>

(* What fails before the database is closed leaves it as it was.           *)
GiveUp(p) ==
    /\ pc[p] \in {"capture", "vacuum", "publish", "safety", "copy"}
    /\ ReleaseRow(p) /\ Release(p)
    /\ Goto(p, "open", [proc[p] EXCEPT !.kept = None, !.from = None, !.copy = None]) /\ UNCHANGED <<path, stray, backup, safety>>

RemoveLive(p) ==
    /\ At(p, "remove") /\ path' = None /\ stray' = FALSE
    /\ Goto(p, "rename", [proc[p] EXCEPT !.from = None]) /\ UNCHANGED <<content, backup, safety, lease>>

(* The new file appears at the path in one step, and is opened.            *)
Place(p, c) == \E f \in Free :
    /\ path' = f /\ stray' = (lease # p) /\ content' = [content EXCEPT ![f] = c]
    /\ Goto(p, "migrate", [proc[p] EXCEPT !.file = f, !.plan = Plan(c.version), !.copy = None])
Rename(p) == At(p, "rename") /\ Place(p, proc[p].copy) /\ UNCHANGED <<backup, safety, lease>>

(* reopenSafety, and the tail that follows a failed Open: the safety copy  *)
(* is put back, and opened.  It is written in place: a crash can leave     *)
(* the path without a database, but not without the copy.                  *)
PutBack(p) ==
    /\ \/ At(p, "rename")
       \/ pc[p] \in {"migrate", "commit"} /\ proc[p].kept # None /\ proc[p].plan # {}
    /\ Place(p, proc[p].kept) /\ UNCHANGED <<backup, safety, lease>>

Restored(p) ==
    /\ At(p, "migrate") /\ proc[p].plan = {} /\ proc[p].kept # None
    /\ Release(p) /\ Goto(p, "open", [proc[p] EXCEPT !.kept = None, !.from = None])
    /\ UNCHANGED <<path, stray, content, backup, safety>>

(* A process ends, anywhere.                                               *)
Crash(p) == pc[p] # "closed" /\ Goto(p, "closed", NoLocals)
            /\ UNCHANGED <<path, stray, content, backup, safety, lease>>

-----------------------------------------------------------------------------
(* What builds of version v left; some of version 4 had v5's columns.      *)
Found(v) ==
    [version : {v},
     schema  : {SchemaOf(v)} \cup (IF v = 4 THEN {SchemaOf(v) \cup {"v5"}} ELSE {}),
     runs    : IF v = 0 THEN {{}} ELSE SUBSET Runs,
     held    : {FALSE}]

Init ==
    /\ \/ copying = FALSE /\ backup = None
       \/ copying = TRUE /\ backup \in {None} \cup UNION {Found(v) : v \in OldBackups}
    /\ \E f \in Files, v \in IF copying THEN {Current} ELSE Oldest :
        /\ path = IF v = 0 THEN None ELSE f
        /\ content \in {[g \in Files |-> IF g = f /\ v > 0 THEN c ELSE Empty] : c \in Found(v)}
    /\ stray = FALSE /\ safety = {} /\ lease = None /\ events = 0
    /\ pc = [p \in Procs |-> "closed"] /\ proc = [p \in Procs |-> NoLocals]

Step ==
    \/ Expire
    \/ \E p \in Procs :
        \/ Open(p) \/ StepReads(p) \/ StepCommits(p) \/ Opened(p) \/ OpenFails(p) \/ Close(p)
        \/ BeginCapture(p) \/ EndCapture(p)
        \/ Vacuum(p) \/ RemoveBackup(p) \/ Publish(p)
        \/ SafetyCopy(p) \/ CopySource(p) \/ RemoveLive(p) \/ Rename(p)
        \/ PutBack(p) \/ Restored(p) \/ GiveUp(p)

Event == \E p \in Procs : BeginBackup(p) \/ BeginRestore(p) \/ Crash(p) \/ Lapse(p)

Next == /\ copying' = copying
        /\ \/ Step /\ events' = events
           \/ Event /\ events < MaxEvents /\ events' = events + 1

Spec == Init /\ [][Next]_vars

-----------------------------------------------------------------------------
(* Properties.                                                             *)

(* A store that open returned has every table and column of this build,    *)
(* from whichever version it started, whatever other processes migrated    *)
(* or crashed meanwhile (migrate).                                         *)
OpenedWhole == \A p \in Procs : pc[p] \in {"open", "capture", "vacuum", "publish", "safety", "copy"}
                                    => db(p).schema = Steps

(* No migration, however interleaved or cut short, leaves a database that  *)
(* cannot be migrated: a version never claims steps that are not there,    *)
(* and where the first steps fail when repeated, they are not there yet.   *)
MigratesOn ==
    path # None /\ content[path].version <= Current =>
        LET c == content[path] IN
        /\ SchemaOf(c.version) \subseteq c.schema
        /\ c.version = 0 => c.schema = {}
        /\ c.version = 1 => c.schema = {"runs"}

(* The schema of the history is whole: of every store that was opened, and *)
(* of the file itself, which can always be migrated on.                    *)
SchemaWhole == OpenedWhole /\ MigratesOn

(* A restore at work past its safety copy without the lease, which ran out *)
(* or was another's when the restored file was put in place.               *)
Overran(p) == proc[p].kept # None /\ lease # p

Restoring(p) == proc[p].kept # None /\ pc[p] \in {"migrate", "commit"}

(* Restore, and the lease it works under: from the database a run was      *)
(* captured into while it was the history, the run is still in the         *)
(* history, or in a copy of it, a crash between the removal and the rename *)
(* included.  Excepted are                                                 *)
(*   - a restore slower than its lease, which it never renews: while it    *)
(*     works, and for the database it put at the path;                     *)
(*   - a process that had the database open when another one replaced it:  *)
(*     the copy it keeps is of the database that is no longer there;       *)
(*   - what a restore is bringing up to date: its runs are the backup's.   *)
RestoreKeeps ==
    [][\A r \in Runs :
         /\ path # None /\ r \in content[path].runs /\ ~stray
         /\ \A p \in Procs : proc[p].from \in {None, path} /\ ~Overran(p) /\ ~Restoring(p)
         => \/ path' # None /\ r \in content'[path'].runs
            \/ \E c \in safety' \cup ({backup'} \ {None}) : r \in c.runs]_vars

(* A version never claims steps that are not there, and the steps that     *)
(* cannot be repeated are not there while the version still asks for them. *)
Sound(c) ==
    /\ c.version # 5 /\ SchemaOf(c.version) \subseteq c.schema
    /\ c.version = 0 => c.schema = {}
    /\ c.version = 1 => c.schema = {"runs"}

(* What a restore keeps, whichever process migrated or captured meanwhile, *)
(* is a whole database of a version this build opens; and what it is given *)
(* can be brought up to date (backupFile).                                 *)
CopiesUsable == /\ \A c \in safety : Verified(c) /\ c.schema = Steps
                /\ backup # None => Sound(backup)

-----------------------------------------------------------------------------
(* The inductive invariant behind the three properties.                    *)

Opens     == {"open", "capture", "vacuum", "publish", "safety", "copy"}
Migrating == {"migrate", "commit"}
Labels    == {"closed", "remove", "rename"} \cup Opens \cup Migrating
Locals == [file : Files \cup {None}, plan : SUBSET (Steps \cup {"legacy"}), seen : 0..(Current + 1),
           kept : Content \cup {None}, from : Files \cup {None}, copy : Content \cup {None}]

TypeOK ==
    /\ path \in Files \cup {None} /\ stray \in BOOLEAN /\ content \in [Files -> Content]
    /\ backup \in Content \cup {None} /\ safety \in SUBSET Content /\ lease \in Procs \cup {None}
    /\ pc \in [Procs -> Labels] /\ proc \in [Procs -> Locals]
    /\ copying \in BOOLEAN /\ events \in Nat

FilesSound == \A f \in Files : Sound(content[f])

(* Copies are whole: but the backup, which may be of an older build.       *)
Whole(c) == Verified(c) /\ Sound(c) /\ c.schema = Steps
CopiesSound == /\ \A c \in safety : Whole(c)
               /\ backup # None => Sound(backup)

(* What a plan will still add.                                             *)
Covers(plan) ==
    (plan \ {"legacy"}) \cup (IF "legacy" \in plan THEN {"runs", "labels", "v3", "v4", "v5"} ELSE {})
    \cup (IF plan \cap {"runs", "labels"} # {} THEN {"runs", "labels"} ELSE {})

(* A migration knows what is missing: what is not there is planned, and    *)
(* what it saw to be there stays there.                                    *)
MigrationCovers(p) ==
    /\ pc[p] \in Migrating \cup Opens => file(p) # None
    /\ file(p) # None => db(p).version <= Current
    /\ pc[p] \in Migrating => Steps \subseteq db(p).schema \cup Covers(proc[p].plan)
    /\ pc[p] = "commit" =>
        /\ proc[p].seen >= 4 => "v4" \in db(p).schema
        /\ proc[p].seen > 4 => "v5" \in db(p).schema
    /\ pc[p] \in Opens => db(p).schema = Steps

(* What a restore keeps is in the safety copies, and what it puts in place *)
(* was checked.                                                            *)
CopiesChecked(p) ==
    /\ proc[p].kept # None => proc[p].kept \in safety
    /\ proc[p].copy # None => Verified(proc[p].copy) /\ Sound(proc[p].copy)

(* A restore knows what it keeps and what it puts in place.                *)
RestoreSteps(p) ==
    /\ pc[p] = "publish" => proc[p].copy # None
    /\ pc[p] \in {"copy", "remove", "rename"} => proc[p].kept # None
    /\ pc[p] \in {"remove", "rename"} => proc[p].copy # None
    /\ proc[p].kept # None => pc[p] \in {"copy", "remove", "rename"} \cup Migrating
    /\ pc[p] \in {"copy", "remove"} => proc[p].from # None

(* As long as it has the lease, it has kept the runs of the database it    *)
(* removes, and nothing is captured before it has put one back.            *)
WorksAlone(p) ==
    lease = p /\ path # None /\ ~stray =>
        /\ pc[p] \in {"copy", "remove"} /\ path = proc[p].from
            => content[path].runs \subseteq proc[p].kept.runs
        /\ pc[p] = "rename" => content[path].runs = {}

HistoryInv == /\ TypeOK /\ FilesSound /\ CopiesSound
              /\ \A p \in Procs : MigrationCovers(p) /\ CopiesChecked(p) /\ RestoreSteps(p) /\ WorksAlone(p)
=============================================================================
