# vsfleet in TLA+

A model of [vsfleet](../src/README.md): what its session manager, its history
database, its terminal interface and its configuration do when several callers,
processes or messages meet, and what its analyses conclude from captures that
may have failed in part. TLC checks the modules on small instances; TLAPS proves
the safety properties of the eight protocol modules that hold state for every
value of the constants.

`PROJECT.json` lists in machine-readable form the components, the runs, the
seeded fault each property must catch, the source lines behind every definition,
the hazards and the theorems.

## 1. The system

vsfleet is a read-only command line and terminal interface for a fleet of
vCenters. An operator configures *contexts* (a vCenter, a route, a credential).
The program logs in, lists inventories, and *captures* them as runs in a local
SQLite history, which its analyses read.

| Part (`src/internal/...`) | State it keeps | Operations | What is hard |
|---|---|---|---|
| `session` | name → Session (settings, client, state, logged-out flag) | Connect, Login, Logout, Forget, Drop, Close | dials run without a lock; logouts, edits and drops overtake them; logins leak |
| `assessment` store: lease | row `capture_lease`, sidecar `history.db.lock` | acquire, renew, release, validate | several processes, expiry, crashes between system calls |
| `assessment` collector, store, maintenance | runs, their contexts and collections, pins | capture, import, open (recovery), pin, delete, prune | writers that lose the lease, recovery beside a live capture, lists drawn up before the lease |
| `assessment` migrations, backup, restore | database files, their version and schema, copies | open, migrate, back up, restore | two processes migrate at once, files replaced under running processes, crashes |
| `tui` model, commands, backend | one contextState per name, commands in flight, overlay, form | load, refresh, prompt, logout, edit, remove | messages of a superseded load, actions during asynchronous saves and logouts |
| `tui` screens | the screen with the keyboard, its subject, requests in flight | open, leave, ask, answer | answers that come late, or after the screen was left |
| `contextops`, `config`, `credentials` | configuration file, keyring | Build, Save, Remove, use-context | partial failure, shared keyring entries, two writers |
| `vsphere` | client caches; views and collectors on the server | retrieve, browse, events, tasks, performance | objects move between pages, calls fail, deadlines pass before the clean-up |
| analyses (`assessment` diff, timeline, trends, capacity; `health`, `sizing`, `decommission`, `network`, `topology`, `perf`) | none | functions of captured data | evidence that is missing in part |
| `report`, `rvimport` | none | a run to a workbook and back; anonymising | missing sheets and columns, joins |
| `limiter`, `transport`, `query`, `cli`, `update`, ... | little or none | | left out, see section 6 |

How they interact: the terminal interface and the command line call the session
manager through a backend; every load of the interface is a `Login`, every
on-demand query a `Connect`. An edit or a removal rewrites the configuration and
calls `Forget`. A capture takes the writer lease, logs in through the same
manager, saves context by context, and finishes the run. Every process that
opens the history first migrates it and recovers runs that were interrupted.
The analyses read stored runs only; the network screens and the retrieval read
the vCenter itself.

What makes each part correct:

* sessions: a logout wins over logins in flight; a client has one owner and is
  closed when let go; what is lent was logged in with the current settings;
* lease: never two writers, no grant cut short;
* ledger: a finished capture is final, "complete" means complete, recovery leaves
  a live capture alone, prune takes nothing pinned, running or protected;
* files: an opened history has its whole schema, copies can be restored, a
  restore loses no run;
* interface: no row of another vCenter, no lost or double load, no prompt nobody
  asked for; what a screen shows belongs to its subject and no screen hangs;
* configuration: the file always loads, a saved context finds its password, no
  entry in use is deleted;
* analyses and rules: no failure, outage or missing right is reported as a change
  of the estate, no advice is given that the estate does not bear out;
* exchange: what is imported is what was exported or is reported missing, what is
  shared hides every name and keeps every join;
* retrieval: pages add up, a cut-short read says so, nothing stays open.

## 2. Modules

**Protocols** (all have proofs)

| Module | Models | State and actions |
|---|---|---|
| `SessionManager` | `session/manager.go`, with `liveQuery` and `beginInventory` as its callers | Each section under `Manager.mu` or `Session.mu` is one action; dial, ping, query and close are separate. `pc`/`op` are a caller's position and locals. Session and client identities are reused once unreachable, so the number of operations is unbounded. |
| `WriterSlot` | what a lease is for | One set `writers`: a writer enters an empty slot and leaves it. |
| `WriterLease` | the `capture_lease` row | Grant to a new token, extend while unexpired, free, clock. |
| `CaptureLease` | the lease with its sidecar file | EXTENDS `WriterLease`. One step per system call or statement, a crash at any point. `ImplementsWriterLease` and `ImplementsWriterSlot` (an INSTANCE with `writers` the processes within their granted time) are the refinements. |
| `CaptureRun` | runs of the ledger | EXTENDS `WriterLease` and uses its row. One step per transaction; what was read before (clock, counts, pins, prune candidates) is a local that may be stale. |
| `HistoryFiles` | database files: open and migrate, backup, restore | A file is an identity, so that a process keeps the one it opened. Each process works under a lease that may run out at any step; a copy may keep the lease row it was made with. A migration is an action per transaction, in the order `Rank` gives; what it adds is the step's name in `schema`. |
| `InventoryLoad` | the load protocol of the interface | `st` is the contextState of one name; `cmds`, `streams`, `edits`, `logouts` are commands running or undelivered; each message handler is one action. The session manager appears as `live`, the settings it is logged in with. |
| `ContextOps` | configuration file and keyring | A command line process works on its own copy of the file, commands of the terminal interface share one. One step per keyring call or file operation; each may fail, and a process may be killed. |
| `Screens` | the interface's other screens | `mode` and what each screen is about; `asks` are the requests in flight, delivered in any order. |
| `Retrieval` | one client reading a vCenter that changes | `op` is the operation under way, `open` what it holds on the server (a view for each retrieval of the index, collectors for pages, listings and histories), `client` the caches; the calls fail, are refused or run into the deadline. |

**What is concluded** (pure operators, and a module that brings them evidence)

| Module | Models |
|---|---|
| `EstateHistory` | a vCenter that changes and captures of it that may see only a part: brings `RunDiff` (comparison, policy gate, run pairing), `Timeline` (a VM's history and the events that explain it) and `Trends` (trends and capacity) the runs, and compares what they say with the truth |
| `EstateRules` | two vCenters and one capture, any collection of which may be missing: the same for `Health`, `Orphans`, `Planning` (sizing, decommission), `NetworkCompare`, `Topology` and `NetworkView` |
| `Exchange` | a run is exported (`Workbook`), perhaps anonymised (`Share`), loses a sheet, column or cell, and is imported (`WorkbookImport`) |
| `Decoding`, `PerfSignal`, `FolderView` | the operators `Retrieval` is built from |

`MC*` modules hold symmetry sets and instances, `*Proofs` modules the theorems.

Data are abstracted to what the properties tell apart: settings are model values,
a collection is a count, a password is a value, a path is a sequence of names. A
configuration pointer is an identity plus its settings.

Names that end in a mistake (`DropUnchecked`, `SaveUnfenced`, `KeptAnyStatus`,
`PlanShort`, ...) are seeded faults. No specification uses them; each stands for
a plausible bug that the property it is paired with must reject.

## 3. Runs

| Run | Instance | Shows |
|---|---|---|
| `session_concurrent` | 2 callers, 1 name, 2 sessions, 2 clients | A logout is not undone by a login in flight (`LogoutWins`, `OnlyLoginUndoesLogout`), a client has one owner (`OneOwner`), a drop spares the replacement (`DropSparesReplacement`), every operation returns (`OperationsReturn`). |
| `session_edits` | 2 callers, 2 names, 2 settings, 2 sessions, 2 clients | A login is lost only where a dial lands on another login or on a session nobody finds any more, and a session comes to hold a login of other settings only where a dial lands after an edit (`LoginsAccounted`). 2.5 million states. |
| `lease_crash` | 2 processes, 5 tokens, lease 2 ticks, clock 5 | `GrantIsHonoured` and both refinements, with crashes anywhere. |
| `ledger` | 2 processes, 2 runs, up to 2 contexts with 2 collections | `CompleteMeansAll`, `LiveCaptureUntouched`, `RunsKept` beside captures, imports, pins, deletes, prunes, recoveries and crashes. 2.9 million states. |
| `history_files` | 2 processes, 3 files, any version from 0 to one too new, or a current database and a backup of version 7 | `SchemaWhole`, `CopiesUsable`, `RestoreKeeps`, while leases run out under backups, restores and captures at work. 2.0 million states. |
| `tui_load` | 2 settings, 3 groups of which 1 is paged, 3 keys or ticks | `LoadsAccounted`, `NoStaleData`, `LoadsProgress`, with saves and removals whose configuration write or password deletion fails. 0.6 million states. |
| `context_ops` | an interface and a command line process, 2 names, 2 operations | `FileLoads`, `SavedAnswers`, `DropSparesUsed`. 2.6 million states. |
| `analysis` | 2 contexts, 3 captures, 2 changes of the estate, 4 ways for a capture to end, clocks off by −3 or 4 ticks | `DiffTellsTruth`, `TimelineUnbroken`, `CausesFound`, `TrendsTellTruth`. |
| `estate_rules` | 2 vCenters, 2 VMs, 3 files, 2 changes, 10 ways for a capture to end | `AdviceSafe`, `OrphanSafe`, `BlastComplete`, `NetworkViewsTrue`. |
| `exchange` | 4 runs, 1 edit (a sheet, column or cell, identities and capacities included), 5 foreign formats, 3 context maps | `RoundTrip`, `ImportHonest`, `SharedSafely`. |
| `retrieval` | 3 VMs, pages of 2, 3 datastores, 2 operations, 1 change, 1 object the server does not give back | An operation that ended, also by its deadline, holds nothing on the server (`NothingLeftOpen`); a VM list has each VM that stayed once and whole (`PagesAddUp`); tags, attributes, settings, files, events, licences and samples are never passed off as more than was read (`ReadsTellTruth`); each VM has its true folder and is met on a walk through the folder view (`WalkFindsAll`). 2.6 million states. |
| `screens` | 2 datastores, 2 VMs, 2 requests in flight, six tours | `ShownBelongs`, `NothingHangs`, `EscGetsHome`. |

**Why the bounds are enough to be interesting.** Two callers and two clients let a
login land on, and a drop hit, a session another caller changed. Five tokens let
one process die holding the sidecar, another the row, and two more compete for
both. A clock of `Duration` plus a few ticks lets a lease expire, be reclaimed and
expire again. Two runs let prune protect one and take the other, and let a capture
outlive the recovery of an earlier one. Three files are the fewest for which a
restore replaces a database that another process has open. Three groups are the
fewest for which two fetches are in flight at once; three keys allow "open, save,
reload" and two refreshes around a logout. Two operations on the configuration let
one land inside the other. Three captures allow a gap in the middle of a VM's
history. A clock off by 3 or 4 ticks carries an event across the start or the end
of a capture, within the tolerance and beyond it. An older backup of one version
is enough beside databases found at every version: both go through the same
migrations. The bounds are `MaxTime`, `MaxRuns`, `MaxActs`, `MaxOps`, `MaxEvents`,
`MaxChanges`, `MaxEdits`, `MaxGen`, `MaxAsks`, `MaxKept` and the token set; all
appear in guards. `SessionManager` has none.

**Deadlock** is checked for sessions, the lease, the ledger and the exchange,
where something can always be done. In the others the system really stops: the
operator's keys, the operations or the changes are used up.

**Fairness.** `SessionManager`: weak fairness of each caller's next step and of
each background close. Dials, pings, queries and closes run under a timeout and
mutexes are held for a few assignments only, so every step ends. Starting an
operation is not fair. `InventoryLoad`: weak fairness of commands ending and of
their messages being handled: logins end by the manager's timeout, fetches by the
watchdog, and Bubble Tea delivers each command's message. Keys, ticks, password
answers, saves and pages need not happen. `Screens`: weak fairness of Esc for a
user who has decided to leave, and of nothing else: answers may never come.
The other specifications state safety only.

**Symmetry** is used in runs without liveness properties only. `MCHistoryFiles`
also hides (VIEW) what a file held that nobody can reach any more.

## 4. Proofs

Checked by TLAPS for every value of the constants. The assumptions are those the
modules name: the nil value is no identity (`NoneAssumption`, `TokenAssumption`,
`RowAssumption`, ...), a lease lasts at least a tick (`DurationAssumption`), a
context has at least one collection and a run at least one context
(`CountAssumption`, `WorkloadsAssumption`), a load fetches more than one group
(`GroupsAssumption`), no build recorded schema version 5 (`FilesAssumption`), the
interface's copy of the configuration is no command line process
(`ActorsAssumption`), a page of the task history has room for a task
(`RetrievalAssumption`), and the vCenter's inventory is one (`VCenterAssumption`: a
VM is on a host, no two files of a datastore have one path, every task has a key of
its own). Bounds such as `MaxTime` are arbitrary numbers.

Each proof module has an inductive invariant, one lemma per action (or family of
actions) that it is preserved, and theorems that combine them.

### `SessionManagerProofs`

* `SessionInvariant`: `SessionInv == TypeOK /\ OpShape /\ LogoutWins /\
  ConnectedHasClient /\ OneOwner`. A landing login puts the client it holds into a
  session, so one must know that no other session or caller has it and that it is
  not being closed; a drop must know which locals it carries at which point.
  Hence ownership is stated for callers as well as sessions. From it follow
  `LogoutWinsHolds`, `ConnectedHasClientHolds`, `OneOwnerHolds`.
* `DropSparesReplacementHolds` needs `SuspectsFailed` beside it: a caller asks for
  a drop only of a client that failed or was closed meanwhile, and what a session
  holds is not closed.
* `OnlyLoginUndoesLogoutHolds`: the only action that clears the flag of a session
  in use is the entry of an explicit login.
* `LoginsAccountedHolds`, for any number of callers: whoever else is at work, a
  step loses a login or gives a session a login of other settings only when it is
  a landing (`StepKeeps`, `StepOwnSettings`). What leaves the map is either closed
  by the step or on the list of the Forget that took it (`KeptOn`, `ReachedOn`);
  `LandingInv` adds that only a Forget has such a list and that a caller lands with
  a login of the settings it dialled.

### `CaptureLeaseProofs`

* `LeaseInvariant`, `OneWriterHolds`, `GrantIsHonouredHolds`: a granted process
  has the row, with the expiry it knows, or is out of time (`GrantedOrOver`);
  tokens differ, and the row does not carry a token still being asked for
  (`RowNotMineYet`). Nothing is said of the sidecar: mutual exclusion never
  depends on it.
* `ImplementsWriterLeaseHolds`, `ImplementsWriterSlotHolds`: every step of
  `CaptureLease` is a step of the row, and of the slot, or leaves it alone. The
  second needs that a process which comes within its time finds nobody within
  theirs (`NewWriter`).

### `CaptureRunProofs`

* `LedgerInvariant`: `LedgerInv == TypeOK /\ TokensDiffer /\ TimesRead /\
  OwnersApart /\ CaptureLive /\ RowsThere /\ VerdictsTrue /\ ImportsPartial /\
  CandidatesOld /\ CompleteMeansAll`. `CaptureLive` ties a valid lease to the run
  in its row; `OwnersApart` keeps two writers from one run; `VerdictsTrue` carries
  what `finishRun` counted to the later statement that records it: the verdict can
  be overtaken by a recovery or a delete, never by another save.
* `CompleteMeansAllHolds` rests on counting: as many successful rows as contexts
  times kinds are all of them (`CountAll`, from the finite-set theorems).
* `LiveCaptureUntouchedHolds`, and `RunsKeptHolds` with `CandidatesOld`: a prune
  deletes from a list drawn up earlier, and a run on it was neither pinned nor
  protected nor running then, which `RunsKept` must know of now.

### `InventoryLoadProofs`

* `NoStaleDataHolds`: the rows shown are those of the vCenter the context points
  at. The invariant (`FreshInv`) speaks of the context's state only: messages in
  flight may carry anything, since `Matches` compares the configuration pointer.
* `LoadsAccountedHolds` assumes `~QuickReadd` (section 5). Its invariant is
  `OneLoad`: all commands in flight are of one load, told apart by what they
  fetch, the one that connects is alone, and a removed name has heard from its
  commands before it is saved again.
* `NeverBackwardsHolds`: the safety half of `LoadsProgress`: every row shown is of
  a generation up to the context's own.

The first and the third hold for names that are saved again while their loads
still run (`QuickReadd`), which TLC does not explore.

### `ContextOpsProofs`

* `FileLoadsHolds`: `TypeOK`, which says that every copy a command works on is
  well formed, is inductive, because `Save` validates before it writes beside the
  file and renames.
* `SavedAnswersHolds`, `DropSparesUsedHolds`: `Alone` says how far a command that
  runs by itself has got, from the keyring through the copy in memory to the file.

### `HistoryFilesProofs`

* `HistoryInvariant`: `HistoryInv == TypeOK /\ FilesSound /\ CopiesSound` and, of
  each process, `MigrationCovers /\ CopiesChecked /\ RestoreSteps /\ WorksAlone`.
  A version never claims steps that are not there, and a step that cannot be
  repeated is not there while the version asks for it (`Sound`); what a database
  still lacks is still in the plan of whoever migrates it (`MigrationCovers`),
  although the other process may run the same steps, and even lower the version
  again; a restore that has begun has saved the history as long as it has its
  lease (`WorksAlone`), and from its safety copy to its last rename it is at one
  of the steps `RestoreSteps` names. A lease may run out under its holder at any
  step (`LapseKeeps`). That `Sound` survives every migration, at whatever version
  it was planned, is `StepEffect`.
* `SchemaWholeHolds`, `CopiesUsableHolds`, and `RestoreKeepsHolds` with the
  exceptions the property names: a restore that overran its lease (`Overran`) and
  the database it leaves (`stray`, which only matters from three processes on), a
  process that has an older database open, and a restore that is bringing its own
  up to date.

### `ScreensProofs`

* `ScreensInvariant`: `ScreensInv == TypeOK /\ ScreenHasSubject /\ FilesWait /\
  FormWaits /\ ChartsWait /\ NetWaits /\ TimelineCounts /\ HistoryWaits`. One part
  per kind of request. A key keeps the parts it does not touch because it only adds
  requests (`KeyKeeps`), an answer because it takes away its own only
  (`AnswerKeeps`); what is left is one lemma per screen or family of answers.
* `NothingHangsHolds` needs to count. A file's page waits for at most as many
  answers as are in flight for its generation (`WorkspaceWaits`), and a timeline
  for exactly the fresh ones (`TimelineWaits`), which must differ from every
  request that is sent again: no place is asked for while its answer is due.
* `ShownBelongsHolds`: the timeline because every answer it still takes is for its
  VM; the comparison because each way of moving an end, an answer that shortens the
  list of runs included, leaves both ends within the list and in order.

### `RetrievalProofs`

* `RetrievalInvariant`: `RetrievalInv == TypeOK /\ OpShape /\ OpenAccounted /\
  KeptIsOlder`. An operation's record has the fields of its kind and step
  (`OpShape`); what is open on the server is what the operation has yet to release
  and what the server would not give back (`OpenAccounted`; the read of VMs releases
  by looking at what is open instead, and each retrieval of the index releases its
  own view), and the latter is of an earlier object than
  the next to release (`KeptIsOlder`).
  `NothingLeftOpenHolds` follows: an operation that ended has nothing to release.
* Each kind of read has an invariant of its own over that one. What the steps of
  the other kinds leave alone is said once, by kind of step (`StepKinds`,
  `SameBut`), so that each has to be followed through its own steps only.
* `PagesAddUpHolds`, from `PagesInvariant`: a VM that has stayed where it was is in
  the list or in what the collector has yet to give, and in one of them once
  (`PagesAccounted`). A page takes from the front what it adds to the list, and a
  change of another VM only appends to the queue.
* `ReadsTellTruthHolds` puts five together. VMs (`VMsInvariant`): the index has the
  vCenter's entities, whatever was cached before and however far the retrievals that
  build it have got (`IndexTrue`), so what is decoded
  with it is the VM's own. Files (`FilesInvariant`): the rows told and the budget
  left make no more than the budget. History (`EventsInvariant`): every task of
  the time covered is read, or enough are, or the history has an error. Samples
  (`SamplesToldHolds`): every target is in a queue, was left out, or has a record.
  Licences (`LicencesToldHolds`) are read in one step.
* Where a list is taken apart from its front, the argument goes by the first
  element with a property (`FirstOf`), and where numbers are walked, by the least
  (`Least`, from the well-foundedness of the naturals), since the library's
  induction theorems cannot be instantiated.

### Only model-checked

* Liveness (`OperationsReturn`, the second half of
  `LoadsProgress`, `EscGetsHome`): the prover does neither liveness under fairness
  nor ENABLED.
* What the pure operators conclude (runs `analysis`, `estate_rules`, `exchange`,
  and `WalkFindsAll`, which climbs and walks trees): they are folds and recursive
  functions over sequences of records, and what such a definition computes for
  every input needs induction over data, which the installed provers cannot do.

## 5. Known disagreements

Places where the code does less than one of its comments promises. Each formula
is defined in the module named, is not among the properties of the run, and fails
when it is added to the configuration named; two rows are properties of a run with
an exception taken out or with another constant.

| Formula | Add to | What the code does |
|---|---|---|
| `Restartable` (`CaptureLease`) | `LeaseCrash.cfg` | A crash between creating or truncating the sidecar and writing its expiry leaves an empty file, which no later process reclaims (`store.go:804`; "Expired leases are reclaimed"). |
| `FinishedIsFinal` (`CaptureRun`) | `Ledger.cfg` | An import takes no lease: another process that opens the history declares it failed, and the import then finishes it (`rvimport.go:2109`, `store.go:703`). `RunsKept` therefore excepts runs being imported. |
| `HeldMatchesContext` (`SessionManager`) | `SessionEdits.cfg` | An edit that overtakes a dial: the client lands on a session that describes other settings (`manager.go:461`; the comment at `:307-314`). |
| `NoLoginLost` (`SessionManager`) | `SessionEdits.cfg` | Two callers dial at once and the second landing overwrites the first client; a login that lands after its context was forgotten stays open (`manager.go:434-464`). |
| `RestoreKeeps` (`HistoryFiles`) without `~Overran(p)` | `HistoryFiles.cfg` | A restore never renews its two-minute lease (`maintenance.go:124`, `:232`; `store.go:40`, `:732`): when it runs out, another process captures into the database the restore then removes ("fences every mutating ledger operation", `store.go:706`). |
| `LogoutHolds` (`InventoryLoad`) | `InventoryLoad.cfg` | A load begun between the logout key and its message leaves a session under a context shown as logged out (`model.go:2814`, `:2803`). |
| `SavedIsShown` (`InventoryLoad`) | `InventoryLoad.cfg` | A save whose form was left with esc is never shown (`model.go:1855`, `:1850`). |
| `UntouchedEditKeeps` (`ContextOps`) | `ContextOps.cfg` | Saving an unchanged form rewrites the credential reference of some contexts (`form.go:66-69`, `FormSave`). |
| `OutageIsNotDeletion` (`EstateHistory`) | `Analysis.cfg` | Infrastructure one context stopped seeing is reported as vanished while another still answers (`resource_diff.go:70-161`; `diff.go:17-25`). |
| `FolderMovesFound` (`EstateHistory`) | `Analysis.cfg` | The last folder known is not carried over a run that could not read it (`diff.go:351-380`). |
| `IdentityGapIsSeen` (`EstateRules`) | `EstateRules.cfg` | A context whose datastores have no identity does not count as a gap (`health/orphans.go:675-681`; `docs/health.md:59-60`). |
| `NeverEmptyForUnknown` (`Exchange`) | `Exchange.cfg` | A missing sheet can read as an empty answer (`rvimport.go:2168`; the package comment at `:12-16`). |
| `SnapshotsNeverEmpty` (`Exchange`) | `Exchange.cfg` | Snapshot rows skipped for an identity two VMs share or a missing date leave the answer "no snapshots" (`rvimport.go:906-908`, `:2133`; the package comment at `:12-16`). |
| `BlankIsNotZero` (`Exchange`) | `Exchange.cfg` | A blank capacity cell reads as 0 in a collection that answered (the package comment at `:8-11`). |
| `HostPartsKept` (`Exchange`) | `Exchange.cfg` | A host listed under two contexts of one vCenter: the rows of its adapters, port groups and paths all go to the later context's (`rvimport.go:1020`, `:1065`). |
| `ListingIsOfStore` (`Screens`) | `Screens.cfg` | A listing of another directory or datastore is told apart too weakly (`datastore_files.go:283-294`, `:66-69`). |
| `AdviceSafe` with `Wirings = {"standard"}` | `EstateRules.cfg` | A network of standard switches is compared by name only, and can read ready (`network/compare.go:438-461`; `docs/planning.md:74`). |

The properties of the runs are stated to hold beside these, and say so where they
except a case. So do these, of which a comment says nothing: `CausesFound`, where
the clock was not measured, leaves out a VM that also moved without changing its
host (a migration logged past the end of the capture that already saw it is
credited to the later move, `event_match.go:434-436`) and a migration logged at
the very start of a capture. Assumptions that stand for such a case: `~QuickReadd`
(a removed name is not saved again while its old load runs: the old messages would
count down the new load), and `ClockInUse` in `CaptureRun` (no lease expires
between a process reading the clock and the statement that uses it: a process
suspended inside `finishRun` can otherwise finish a run that was already
recovered).

Other weak spots met while modelling, stated by no formula:

* ledger: a delete by the operator between a prune's list and its deletes leaves
  fewer runs than `KeepLast`; a pin set between the check and the delete of
  `DeleteRun` is ignored;
* files: a crash between removal and rename leaves no history, and the next open
  makes an empty one (the runs are then in the safety copy); concurrent opens can
  fail spuriously or lower `user_version` while the schema stays whole; a process
  with the old file open keeps writing to it; `backup --force` removes the former
  backup first;
* configuration: a refused save has already overwritten the keyring entry; a
  failed write of the file leaves the copy in memory changed; two processes lose
  each other's updates; deleting a context with its credential takes an entry
  another context may share;
* analysis: a datastore or host seen through two contexts can be summed twice in
  the trends; a snapshot of a VM seen twice is attributed by map order; a VM with
  a chain of disks is charged twice in the capacity report; a VM reads "vanished"
  when the only context that saw it failed; a run after one whose configuration was
  unread lists a change of its availability (`diff.go:390-392`);
* rules: a VM whose configuration is unreadable has its files called unreferenced;
  sizing joins clusters by name; two same-named datastores, one without identity,
  are two subjects of one blast radius;
* network: same-named switches and networks across vCenters are one row; a
  topology read in flight when the contexts change is kept;
* exchange: skipped rows raise a warning only; a missing maintenance column reads
  as "no"; the scheme of an endpoint is lost; names of fewer than four characters
  and free text are not scrubbed;
* retrieval: the kind of an update is ignored, so an object that vanishes between
  two pages becomes a blank row; the task history stops at its bound in silence
  (`ReadsTellTruth` excepts it); an error of the custom field definitions is
  cached;
* screens: the answers of comparison and trends carry no generation; a finished
  capture's message moves the user to the history; an answer of a connection test
  is applied to whichever form is open.

## 6. What is assumed and what is left out

* A SQLite transaction is atomic and durable, a file write is seen by the next
  read, a rename is atomic; disk errors appear as operations that fail. SQLite's
  journal and write-ahead log are not modelled, nor is the doctor command.
* The terminal interface handles one message at a time; commands run beside it.
* In `InventoryLoad` there is one context name. Prompts raised by the form's own
  connection test, by captures and by diagnoses are left out.
* In `CaptureRun` labels, annotations and performance windows are left out: they
  change no other row.
* The estates of `EstateHistory` and `EstateRules` and the vCenter of `Retrieval`
  are external: what they do is what the code must cope with.
* Not modelled: the concurrency limiter (a semaphore that only delays calls),
  queries and selectors (parsers without state), transports (I/O), update check
  and saved interface state, the demo estate, test bed and release tooling,
  painting, wording, cell formats, the HTML, text and metadata reports, argument
  parsing.

## 7. What the plan has left

* Theorems on operators without recursion that the rules rest on: the readiness
  verdict of `Health`, the blindness of `Orphans`, the verdict of `Planning`, the
  policy gate of `RunDiff`. What those conclude over a whole estate goes through
  folds and stays with TLC.
* The limiter and the queries, when they come to hold state worth a model.
