------------------------------- MODULE RunDiff -------------------------------
(***************************************************************************)
(* What "capture diff" and the history screens report between two stored   *)
(* runs (internal/assessment: diff*.go, resource_diff.go, coverage.go,     *)
(* context_scope.go, policy.go, run_pair.go).                              *)
(*                                                                         *)
(* A run is [status, imported, at, ctx]; ctx is a sequence of context rows *)
(* [name, vc, coll, error, vms, res], coll giving a status for each        *)
(* collection kind that was recorded, vms a sequence of observations and   *)
(* res the resources by kind.  An observation is what one account could    *)
(* see: a field it could not read is Unknown (the empty string in the      *)
(* code), a group of fields it did not record is an empty function.        *)
(***************************************************************************)
EXTENDS Integers, FiniteSets, Sequences, SequencesExt, FiniteSetsExt

CONSTANT Unknown        \* a value nobody recorded

Nothing == [f \in {} |-> Unknown]

-----------------------------------------------------------------------------
(* Coverage: whether a collection answered the question at all.            *)

Successful(s) == s \in {"success", "empty"}

(* The status of a collection kind, Unknown when it was never recorded.    *)
StatusOf(c, kind) == IF kind \in DOMAIN c.coll THEN c.coll[kind] ELSE Unknown

ContextComplete(c, needs) == \A kind \in needs : Successful(StatusOf(c, kind))

BlindContexts(contexts, needs) ==
    {c.name : c \in {x \in ToSet(contexts) : ~ContextComplete(x, needs)}}

(* Selectors name stored contexts; a blank or unknown one is refused, so a *)
(* typo never widens the question.  No selector selects every context.     *)
ValidateStoredContexts(selectors, rows) ==
    Unknown \notin selectors /\ selectors \subseteq {c.name : c \in rows}

ContextSelected(name, selectors) == selectors = {} \/ name \in selectors

FilterContexts(rows, selectors) ==
    SelectSeq(rows, LAMBDA c : ContextSelected(c.name, selectors))

-----------------------------------------------------------------------------
(* Fields.  A change is <<field, before, after>>.                          *)

Change(f, a, b) == IF a = b THEN {} ELSE {<<f, a, b>>}

(* A field is compared only where both sides recorded it.                  *)
RecordedFieldChanges(a, b) ==
    {<<p, a[p], b[p]>> : p \in {q \in DOMAIN a \cap DOMAIN b : a[q] # b[q]}}

(* A flattened configuration: a path one side lacks is empty there.        *)
At(f, p) == IF p \in DOMAIN f THEN f[p] ELSE Unknown

FlattenedChanges(a, b) ==
    UNION {Change(p, At(a, p), At(b, p)) : p \in DOMAIN a \cup DOMAIN b}

KnownBoth(value, other) == IF other = Unknown THEN Unknown ELSE value

(* Tags and custom attributes, keyed by their identity, are compared when  *)
(* both sides could read them.                                             *)
MetadataFieldChanges(a, b) ==
    UNION {IF a[s].status = "available" /\ b[s].status = "available"
           THEN FlattenedChanges(a[s].values, b[s].values) ELSE {}
           : s \in {"tags", "custom_attributes"}}

(* Disks are flattened to <<device key, field>>; a field added by a later collector is   *)
(* compared only when both runs recorded it.                               *)
MigrationDisks(disks, other) ==
    [p \in DOMAIN disks |->
        IF p[2] = "late" /\ p \in DOMAIN other THEN KnownBoth(disks[p], other[p]) ELSE disks[p]]

(* The key a NIC is compared under: its own; or, for an import, which has  *)
(* none, that of the other side's NIC with its MAC address, then with its  *)
(* label; or its position, below zero.                                     *)
NicKey(nic, index, other) ==
    LET sameMAC   == {o \in ToSet(other) : o.key # 0 /\ nic.mac # Unknown /\ o.mac = nic.mac}
        sameLabel == {o \in ToSet(other) : o.key # 0 /\ nic.label # Unknown /\ o.label = nic.label}
        first(S)  == other[Min({i \in DOMAIN other : other[i] \in S})].key
    IN  CASE nic.key # 0     -> nic.key
          [] nic.key = 0 /\ sameMAC # {} -> first(sameMAC)
          [] nic.key = 0 /\ sameMAC = {} /\ sameLabel # {} -> first(sameLabel)
          [] OTHER           -> -index

MigrationNICs(nics, other) ==
    [k \in {NicKey(nics[i], i, other) : i \in DOMAIN nics} |->
        nics[Max({i \in DOMAIN nics : NicKey(nics[i], i, other) = k})].mac]

(* migrationConfig, flattened: the hardware version is late too.           *)
MigrationConfig(vm, other) ==
    [p \in {"hardware", "available", "guest_id"} |->
        CASE p = "hardware"  -> KnownBoth(vm.hardware, other.hardware)
          [] p = "available" -> vm.available
          [] p = "guest_id"  -> vm.guestId]

MigrationFieldChanges(a, b) ==
    LET fields == FlattenedChanges(MigrationConfig(a, b), MigrationConfig(b, a))
                  \cup FlattenedChanges(MigrationDisks(a.disks, b.disks), MigrationDisks(b.disks, a.disks))
        nics   == FlattenedChanges(MigrationNICs(a.nics, b.nics), MigrationNICs(b.nics, a.nics))
    IN  {f \in fields : f[1] = "available"}
        \cup {<<"migration", f[2], f[3]>> : f \in {x \in fields : x[1] # "available"} \cup nics}

(* The DRS rules that name a VM are sets, compared in three parts.         *)
VmClusterConfigChanges(a, b) ==
    IF a = Unknown \/ b = Unknown THEN {}
    ELSE Change("cluster_config.host_rules", a.hostRules, b.hostRules)
         \cup Change("cluster_config.rules", a.rules, b.rules)
         \cup Change("cluster_config.rule_states", a.states, b.states)

(* cfg stands for the CPU, the memory, the guest and the annotation of a VM; *)
(* available is the flag stored with them.                                 *)
ConfigUnknown(vm) == ~vm.available /\ vm.cfg = Unknown

ChangedFields(a, b, runtime) ==
    Change("name", a.name, b.name)
    \cup (IF ConfigUnknown(a) \/ ConfigUnknown(b) THEN {} ELSE Change("config", a.cfg, b.cfg))
    \cup RecordedFieldChanges(a.settings, b.settings)      \* files and settings
    \cup VmClusterConfigChanges(a.rules, b.rules)
    \cup MigrationFieldChanges(a, b)
    \cup MetadataFieldChanges(a.meta, b.meta)
    \cup (IF ~runtime THEN {}
          ELSE Change("power", a.power, b.power) \cup RecordedFieldChanges(a.state, b.state))

-----------------------------------------------------------------------------
(* Placement.                                                              *)

PlacementDiffers(a, b) == a # Unknown /\ b # Unknown /\ a # b

Placements == {"host", "cluster", "folder", "datastores"}

Moved(a, b) ==
    a.vc # b.vc \/ \E p \in Placements : PlacementDiffers(a.place[p], b.place[p])

(* lastKnown: along a lineage, the last value seen of what an account does *)
(* not always see.  The folder is not among it.                            *)
Remembered == Placements \ {"folder"}

NothingKnown == [place |-> [p \in Remembered |-> Unknown], cfg |-> Unknown]

Learn(known, vm) ==
    [place |-> [p \in Remembered |-> IF vm.place[p] = Unknown THEN known.place[p] ELSE vm.place[p]],
     cfg   |-> IF ConfigUnknown(vm) THEN known.cfg ELSE vm.cfg]

FillNothing(known, vm) == vm      \* seeded fault: what a run could not see hides a change

(* The flag of an unread configuration stays as the run stored it, so the  *)
(* next run's change of the flag is listed among its fields.               *)
Fill(known, vm) ==
    [vm EXCEPT !.place = [p \in Placements |->
                    IF @[p] = Unknown /\ p \in Remembered THEN known.place[p] ELSE @[p]],
               !.cfg = IF ConfigUnknown(vm) THEN known.cfg ELSE @]

-----------------------------------------------------------------------------
(* Matching the VMs of two runs.                                           *)

Bearing(vms, kind, value) == {i \in DOMAIN vms : vms[i][kind] = value}

(* findMatch: the same object of the same vCenter; else the same instance  *)
(* UUID, else the same BIOS UUID, when it is unambiguous in the target and *)
(* among the base VMs not yet paired.  0 when there is none.               *)
FindMatch(base, used, t, target) ==
    LET free    == DOMAIN base \ used
        moref   == {i \in free : base[i].vc = t.vc /\ base[i].id = t.id}
        same(k) == IF t[k] # Unknown /\ Cardinality(Bearing(target, k, t[k])) = 1
                   THEN free \cap Bearing(base, k, t[k]) ELSE {}
    IN  CASE moref # {}                        -> Min(moref)
          [] moref = {} /\ Cardinality(same("iu")) = 1 -> Min(same("iu"))
          [] moref = {} /\ Cardinality(same("iu")) # 1 /\ Cardinality(same("bu")) = 1 -> Min(same("bu"))
          [] OTHER                             -> 0

(* Each target VM in turn takes its match: a sequence of base positions.   *)
Matches(base, target) ==
    LET m[n \in 0..Len(target)] ==
            IF n = 0 THEN <<>>
            ELSE Append(m[n - 1], FindMatch(base, ToSet(m[n - 1]), target[n], target))
    IN  m[Len(target)]

-----------------------------------------------------------------------------
(* Snapshots of a VM seen in both runs, [id, name, at, imported, current]. *)

(* The unmatched snapshot that s is when either identifier was made up by  *)
(* an import: the same name, created less than a second apart.             *)
ImportedCounterpart(left, s) ==
    {o \in left : /\ o.imported \/ s.imported
                  /\ o.name = s.name
                  /\ o.at - s.at < 1000 /\ s.at - o.at < 1000}

SnapshotChanged(o, s) == o.name # s.name \/ (o.current # s.current /\ ~o.imported /\ ~s.imported)

(* First by identifier, then each of the rest, in order, with a counterpart. *)
CompareSnapshots(a, b) ==
    LET byId(s)   == {o \in ToSet(a) : o.id = s.id}
        left      == {o \in ToSet(a) : \A i \in DOMAIN b : b[i].id # o.id}
        unmatched == SelectSeq(b, LAMBDA s : byId(s) = {})
        pair[n \in 0..Len(unmatched)] ==        \* what is left of a, and the changes
            IF n = 0 THEN <<left, {}>>
            ELSE LET prev == pair[n - 1]
                     s    == unmatched[n]
                     like == ImportedCounterpart(prev[1], s)
                     o    == a[Min({i \in DOMAIN a : a[i] \in like})]
                 IN  IF like = {} THEN <<prev[1], prev[2] \cup {<<"created", s>>}>>
                     ELSE <<prev[1] \ {o},
                            prev[2] \cup IF SnapshotChanged(o, s) THEN {<<"changed", s>>} ELSE {}>>
        last == pair[Len(unmatched)]
    IN  last[2]
        \cup {<<"removed", o>> : o \in last[1]}
        \cup {<<"changed", s>> : s \in {x \in ToSet(b) : \E o \in byId(x) : SnapshotChanged(o, x)}}

-----------------------------------------------------------------------------
(* compareVMs: the changes, each [kind, fields, before, after], and the    *)
(* snapshot changes.                                                       *)
VMChange(kinds, fields, before, after) ==
    [kinds |-> kinds, fields |-> fields, before |-> before, after |-> after]

MatchedChange(b, t, fields) ==
    VMChange((IF Moved(b, t) THEN {"moved"} ELSE {}) \cup (IF fields # {} THEN {"modified"} ELSE {}),
             fields, <<b>>, <<t>>)

(* m gives each target VM its match.                                       *)
ComparedVMs(base, target, runtime, m) ==
    [vms |-> {c \in {IF m[i] = 0 THEN VMChange({"appeared"}, {}, <<>>, <<target[i]>>)
                     ELSE MatchedChange(base[m[i]], target[i], ChangedFields(base[m[i]], target[i], runtime))
                     : i \in DOMAIN target} : c.kinds # {}}
             \cup {VMChange({"vanished"}, {}, <<base[j]>>, <<>>) : j \in DOMAIN base \ ToSet(m)},
     snaps |-> UNION {IF m[i] = 0 THEN {<<"created", s>> : s \in ToSet(target[i].snaps)}
                      ELSE IF base[m[i]].vc = target[i].vc
                      THEN CompareSnapshots(base[m[i]].snaps, target[i].snaps) ELSE {}
                      : i \in DOMAIN target}]

CompareVMs(base, target, runtime) == ComparedVMs(base, target, runtime, Matches(base, target))

-----------------------------------------------------------------------------
(* Several contexts may reach one vCenter, each recording what its account *)
(* sees.  vcenterVMs: one observation of a VM on each side.                *)

ShareNames(side, other) ==
    LET names == {c.name : c \in ToSet(side)} \cap {c.name : c \in ToSet(other)}
    IN  IF names = {} THEN side ELSE SelectSeq(side, LAMBDA c : c.name \in names)

Observers(side, id) == {c.name : c \in {x \in ToSet(side) : \E i \in DOMAIN x.vms : x.vms[i].id = id}}

(* The first, by name, of the contexts that saw the VM, preferring one     *)
(* that saw it on the other side.  Names are numbers here.                 *)
ChosenContext(names, other) ==
    IF names \cap other # {} THEN Min(names \cap other) ELSE Min(names)

VcenterVMs(side, other) ==
    LET mine   == ShareNames(side, other)
        theirs == ShareNames(other, side)
        keep(c) == SelectSeq(c.vms, LAMBDA v :
                       ChosenContext(Observers(mine, v.id), Observers(theirs, v.id)) = c.name)
    IN  FlattenSeq([i \in DOMAIN mine |-> keep(mine[i])])

(* Contexts of a vCenter with a complete VM collection.                    *)
ReachedAll(run, vc) == SelectSeq(run.ctx, LAMBDA c : c.vc = vc)      \* seeded fault: a failed collection counts

Reached(run, vc) == SelectSeq(run.ctx, LAMBDA c : c.vc = vc /\ Successful(StatusOf(c, "vm")))

VCenters(run) == {c.vc : c \in ToSet(run.ctx)} \ {Unknown}

(* A vCenter without snapshot evidence in either run has none compared.    *)
SnapshotBlind(base, target, vc) ==
    \E c \in ToSet(Reached(base, vc)) \cup ToSet(Reached(target, vc)) :
        ~ContextComplete(c, {"snapshot"})

WithSnapshotCoverage(rows, blind) ==
    [i \in DOMAIN rows |->
        [rows[i] EXCEPT !.vms = [j \in DOMAIN @ |->
            IF blind THEN [@[j] EXCEPT !.snaps = <<>>] ELSE @[j]]]]

Comparable(run, other, vc) == Reached(run, vc) # <<>> /\ Reached(other, vc) # <<>>

(* The VMs one side brings to the comparison, vCenter after vCenter.       *)
SideVMs(run, other) ==
    LET of(vc, blind) == VcenterVMs(WithSnapshotCoverage(Reached(run, vc), blind),
                                    WithSnapshotCoverage(Reached(other, vc), blind))
        vcs == SetToSeq({vc \in VCenters(run) : Comparable(run, other, vc)})
    IN  FlattenSeq([i \in DOMAIN vcs |-> of(vcs[i], SnapshotBlind(run, other, vcs[i]))])

-----------------------------------------------------------------------------
(* A live capture against an RVTools import: what the workbook cannot hold *)
(* is not a change.                                                        *)

ImportInexact   == {"settings.create_date"}
ImportUncarried == {"cluster_config.host_rules", "cluster_config.rule_states"}

GapFields(base, target, fields, carried) ==
    IF base.imported = target.imported THEN fields
    ELSE {f \in fields :
            /\ f[1] \notin ImportInexact \cup ImportUncarried \cup {"available"}
            /\ f[1] \in carried \/ (IF base.imported THEN f[2] ELSE f[3]) # Unknown}

GapChange(x, fields) ==
    [x EXCEPT !.fields = fields, !.kinds = IF fields = {} THEN @ \ {"modified"} ELSE @]

(* What the workbook does carry of a VM and of a resource.                 *)
WorkbookCarries(what, c) == IF what = "vm" THEN {f[1] : f \in c.fields} \ {"migration"} ELSE {"name"}

GapChanges(base, target, changes, what) ==
    {c \in {GapChange(x, GapFields(base, target, x.fields, WorkbookCarries(what, x))) : x \in changes} : c.kinds # {}}

-----------------------------------------------------------------------------
(* Infrastructure: [kind, vc, id, stable, runtime, lists, details].        *)

(* changedResourceFields: the stable fields, the runtime fields when asked *)
(* for, the details both captures recorded, and lists compared whole.      *)
ChangedResourceFields(a, b, runtime) ==
    FlattenedChanges(a.stable, b.stable)
    \cup (IF runtime THEN FlattenedChanges(a.runtime, b.runtime) ELSE {})
    \cup RecordedFieldChanges(a.details, b.details)
    \cup (IF runtime THEN RecordedFieldChanges(a.volatile, b.volatile) ELSE {})
    \cup MetadataFieldChanges(a.meta, b.meta)

(* A host's LUNs are compared as a set when both captures recorded any,    *)
(* and each LUN both have by its policy and paths.                         *)
HostMultipathChanges(a, b) ==
    IF DOMAIN a = {} \/ DOMAIN b = {} THEN {}
    ELSE Change("multipaths", DOMAIN a, DOMAIN b) \cup RecordedFieldChanges(a, b)

(* A distributed switch: which port groups it has is compared whole, and   *)
(* each one both captures have field by field; so are a host's switches    *)
(* and port groups.                                                        *)
NamedChanges(a, b) ==
    UNION {RecordedFieldChanges(a[n], b[n]) : n \in DOMAIN a \cap DOMAIN b}

DvSwitchChanges(a, b) == Change("port_groups", DOMAIN a, DOMAIN b) \cup NamedChanges(a, b)

DatastoreAlarmChanges(a, b) == IF Unknown \in {a, b} THEN {} ELSE Change("alarms", a, b)

ResourceFields(kind, a, b, runtime) ==
    ChangedResourceFields(a, b, runtime)
    \cup CASE kind = "host"      -> HostMultipathChanges(a.parts, b.parts)
           [] kind = "dvswitch"  -> DvSwitchChanges(a.parts, b.parts)
           [] kind = "datastore" -> DatastoreAlarmChanges(a.alarms, b.alarms)
           [] OTHER              -> {}

Key(r) == <<r.vc, r.id>>

CompareResources(kind, base, target, runtime) ==
    {[kind |-> kind, kinds |-> {"appeared"}, key |-> Key(t), fields |-> {}] :
        t \in {x \in target : \A b \in base : Key(b) # Key(x)}}
    \cup {[kind |-> kind, kinds |-> {"vanished"}, key |-> Key(b), fields |-> {}] :
        b \in {x \in base : \A t \in target : Key(t) # Key(x)}}
    \cup {c \in {[kind |-> kind, kinds |-> {"modified"}, key |-> Key(p[2]),
                  fields |-> ResourceFields(kind, p[1], p[2], runtime)]
                 : p \in {q \in base \X target : Key(q[1]) = Key(q[2])}} : c.fields # {}}

(* All the vCenter's resources of the kind, whichever context recorded     *)
(* them, once one context's collection of the kind succeeded.              *)
ResourcesForVC(run, vc, kind) ==
    {r \in UNION {ToSet(c.res) : c \in ToSet(run.ctx)} : r.vc = vc /\ r.kind = kind}

CollectedVCs(run, kind) ==
    {c.vc : c \in {x \in ToSet(run.ctx) : Successful(StatusOf(x, kind))}} \ {Unknown}

FlattenComparable(run, other, kind) ==
    UNION {ResourcesForVC(run, vc, kind) : vc \in CollectedVCs(run, kind) \cap CollectedVCs(other, kind)}

InfrastructureDiff(base, target, kind, runtime) ==
    CompareResources(kind, FlattenComparable(base, target, kind),
                     FlattenComparable(target, base, kind), runtime)

-----------------------------------------------------------------------------
(* The diff, and what it could not compare.                                *)

ResourceKinds == {"host", "dvswitch", "datastore"}

(* What the comparison lacks of one side, seen from the other.             *)
Lacking(run) ==
    {c \in ToSet(run.ctx) :
        \/ \E k \in DOMAIN c.coll \ {"snapshot"} : ~Successful(c.coll[k])
        \/ c.vc # Unknown /\ Successful(StatusOf(c, "vm")) /\ ~ContextComplete(c, {"snapshot"})}

Alone(mine, theirs) == IF <<>> \in {mine, theirs} THEN {} ELSE ToSet(mine) \ ToSet(ShareNames(mine, theirs))

Missed(run, other) ==
    {vc \in VCenters(other) :
        \/ Reached(other, vc) # <<>> /\ Reached(run, vc) = <<>>
        \/ \E k \in ResourceKinds : vc \in CollectedVCs(other, k) \ CollectedVCs(run, k)}

CoverageGaps(run, other, scope) ==
    {<<scope, "context", c.name>> :
        c \in Lacking(run) \cup UNION {Alone(Reached(run, vc), Reached(other, vc)) : vc \in VCenters(run)}}
    \cup {<<scope, "vcenter", vc>> : vc \in Missed(run, other)}
    \cup {<<scope, "kind", k>> : k \in {x \in ResourceKinds : \A c \in ToSet(run.ctx) : x \notin DOMAIN c.coll}}

CoverageIssues(base, target) ==
    CoverageGaps(base, target, "baseline") \cup CoverageGaps(target, base, "target")

(* The target's snapshots with their ages, counted from when its context   *)
(* finished.  One recorded through two contexts is listed once, under      *)
(* either name: the order of a Go map decides.                             *)
SnapshotAges(run, olderThan) ==
    LET rows == {c \in ToSet(run.ctx) : ContextComplete(c, {"vm", "snapshot"})}
        of(c) == UNION {{<<c.vc, v.id, s>> : s \in ToSet(v.snaps)} : v \in ToSet(c.vms)}
    IN  {[vm |-> k[2], snap |-> k[3].id, age |-> run.end - k[3].at, ctxs |-> {c.name : c \in {x \in rows : k \in of(x)}}]
         : k \in {x \in UNION {of(c) : c \in rows} : olderThan = 0 \/ run.end - x[3].at >= olderThan}}

(* Limited to a selection after that: a snapshot listed under a context    *)
(* outside it is left out, so some are counted for sure and some maybe.    *)
SnapshotAgesForContexts(run, olderThan, selectors) ==
    LET ages == SnapshotAges(run, olderThan)
        in(n) == ContextSelected(n, selectors)
    IN  [sure  |-> {a \in ages : \A n \in a.ctxs : in(n)},
         maybe |-> {a \in ages : \E n \in a.ctxs : in(n)}]

DiffOf(base, target, runtime, d, ages) ==
    [vms       |-> GapChanges(base, target, d.vms, "vm"),
     snaps     |-> d.snaps,
     resources |-> GapChanges(base, target, UNION {InfrastructureDiff(base, target, k, runtime) : k \in ResourceKinds},
                              "resource"),
     coverage  |-> CoverageIssues(base, target),
     ages      |-> ages]

DiffSelected(base, target, runtime, ages) ==
    DiffOf(base, target, runtime, CompareVMs(SideVMs(base, target), SideVMs(target, base), runtime), ages)

SelectedOf(run, selectors) == [run EXCEPT !.ctx = FilterContexts(@, selectors)]

DiffForContexts(baseRun, targetRun, runtime, selectors) ==
    DiffSelected(SelectedOf(baseRun, selectors), SelectedOf(targetRun, selectors), runtime,
                 SnapshotAgesForContexts(targetRun, 0, selectors))

-----------------------------------------------------------------------------
PolicyOfTarget(base, target, d, opts) ==   \* seeded fault: only the newer run must be complete
    (opts.failOn \cap {<<"vm", k>> : k \in UNION {c.kinds : c \in d.vms}})
    \cup (IF opts.requireComplete /\ target.status # "complete" THEN {<<"require-complete", Unknown>>} ELSE {})

(* EvaluatePolicy: the rules of --fail-on, --max-snapshot-age and          *)
(* --require-complete a diff breaks.                                       *)
EvaluatePolicy(base, target, d, opts) ==
    LET broken == {<<"vm", k>> : k \in UNION {c.kinds : c \in d.vms}}
                  \cup {<<"snapshot", c[1]>> : c \in d.snaps}
                  \cup UNION {{<<c.kind, k>> : k \in c.kinds} : c \in d.resources}
        aged   == opts.maxAge > 0 /\ \E a \in d.ages.sure : a.age >= opts.maxAge
        gaps   == opts.requireComplete /\ ({base.status, target.status} # {"complete"} \/ d.coverage # {})
    IN  (opts.failOn \cap broken)
        \cup (IF aged THEN {<<"max-snapshot-age", Unknown>>} ELSE {})
        \cup (IF gaps THEN {<<"require-complete", Unknown>>} ELSE {})

-----------------------------------------------------------------------------
(* Which runs to compare.  Runs are given newest first.                    *)

RunsRecording(runs, contexts, all) ==
    SelectSeq(runs, LAMBDA r :
        LET recorded == {c.name : c \in ToSet(r.ctx)} \cap contexts
        IN  recorded = contexts \/ (~all /\ recorded # {}))

(* A run covers the names it recorded and the vCenters it reached, so a    *)
(* renamed context still pairs two runs.                                   *)
Covers(r) == {<<"name", c.name>> : c \in ToSet(r.ctx)}
             \cup {<<"vc", c.vc>> : c \in {x \in ToSet(r.ctx) : x.vc # Unknown}}

(* ComparableBefore: the first of the same kind, else the first.           *)
ComparableAmong(earlier, target) ==
    LET sharing == SelectSeq(earlier, LAMBDA r : Covers(r) \cap Covers(target) # {})
        alike   == SelectSeq(sharing, LAMBDA r : r.imported = target.imported)
    IN  CASE sharing = <<>> -> 0
          [] sharing # <<>> /\ alike # <<>> -> alike[1].id
          [] OTHER -> sharing[1].id

NewestComparablePair(runs, contexts) ==
    LET of    == RunsRecording(runs, contexts, TRUE)
        rest(i) == SubSeq(of, i + 1, Len(of))
        pairs == {i \in DOMAIN of : ComparableAmong(rest(i), of[i]) # 0}
    IN  IF pairs = {} THEN <<>>
        ELSE LET i == Min(pairs) IN <<ComparableAmong(rest(i), of[i]), of[i].id>>
=============================================================================
