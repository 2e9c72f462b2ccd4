---------------------------- MODULE EstateHistory ----------------------------
(***************************************************************************)
(* A vCenter that changes, the captures taken of it, and what the analysis *)
(* of internal/assessment says of them.  The estate is the truth; a run    *)
(* holds what each account could read of it (collector.go,                 *)
(* hidden_inventory.go); RunDiff, Timeline and Trends are what the program *)
(* concludes, and the properties compare the conclusions with the truth.   *)
(*                                                                         *)
(* The vCenter and what happens to it are external; its log is what        *)
(* vsphere/events.go reads from it.                                        *)
(***************************************************************************)
EXTENDS RunDiff, TLC

CONSTANTS
    Contexts,     \* names (numbers) of the contexts that reach the vCenter
    SeesVMs,      \* context -> the VMs, by instance UUID, its account may see
    SeesStores,   \* context -> the datastores it may see
    MaxRuns,      \* bound on the captures
    MaxChanges,   \* bound on what happens to the estate
    Changes,      \* the kinds of change that happen
    Outcomes,     \* how the captures of the contexts may end: a set of functions
    Skews         \* how far the vCenter's clock may be from ours

ASSUME BoundsAssumption == MaxRuns \in Nat \ {0} /\ MaxChanges \in Nat

VARIABLES
    estate,       \* moref -> the VM, for those that exist
    restricted,   \* contexts whose account reads no placement now
    log,          \* the vCenter's events
    runs,         \* stored captures, newest first
    truths,       \* the estate as it was at each of them
    clock,        \* our time
    changes,      \* changes so far
    skew,         \* the vCenter's clock less ours
    tellsTime     \* whether the vCenter will say its time

vars == <<estate, restricted, log, runs, truths, clock, changes, skew, tellsTime>>

VC    == "vc"
Hosts == {"h1", "h2"}
UUIDs == <<"u1", "u2", "u3", "u4">>
MoRefs == <<"vm-1", "vm-2", "vm-3", "vm-4">>

TL == INSTANCE Timeline
TR == INSTANCE Trends

Fresh == 1 + Cardinality({e \in ToSet(log) : e.kind \in {"created", "registered"}})

VMRecord(uuid, bios) ==
    [iu |-> uuid, bu |-> bios, name |-> "a", host |-> "h1", folder |-> "f1", cpu |-> "1", snaps |-> {}]

LogRecord(id, t, m, kind) ==
    [id |-> id, vm |-> m, t |-> t, ctx |-> 1, kind |-> kind, failed |-> FALSE,
     fields |-> {}, set |-> Nothing, from |-> Unknown, to |-> Unknown, name |-> Unknown]

LogEntry(m, kind) == LogRecord(Len(log) + 1, clock + skew, m, kind)

Init ==
    /\ estate     = (1 :> VMRecord("u1", "u1"))
    /\ restricted = {}
    /\ skew       \in Skews
    /\ tellsTime  \in BOOLEAN
    /\ clock      = 1
    /\ log        = <<LogRecord(1, skew, 1, "created")>>
    /\ runs       = <<>>
    /\ truths     = <<>>
    /\ changes    = 0

-----------------------------------------------------------------------------
(* What happens in the vCenter.                                            *)

Happens(kind) ==
    /\ kind \in Changes
    /\ changes < MaxChanges /\ Len(runs) < MaxRuns
    /\ changes' = changes + 1 /\ clock' = clock + 1
    /\ UNCHANGED <<runs, truths, skew, tellsTime>>

Logged(e) == log' = Append(log, e)

(* A new VM; a copy made outside vCenter keeps its original's BIOS UUID.   *)
Create ==
    /\ Happens("create")
    /\ Fresh \in DOMAIN UUIDs
    /\ \E bios \in {UUIDs[Fresh]} \cup {estate[m].bu : m \in DOMAIN estate} :
           estate' = estate @@ (Fresh :> VMRecord(UUIDs[Fresh], bios))
    /\ Logged(LogEntry(Fresh, "created"))
    /\ UNCHANGED restricted

Destroy(m) ==
    /\ Happens("destroy")
    /\ estate' = [x \in DOMAIN estate \ {m} |-> estate[x]]
    /\ Logged(LogEntry(m, "removed"))
    /\ UNCHANGED restricted

(* Unregistered and registered again: the VM keeps its identity under a    *)
(* new reference.                                                          *)
Reregister(m) ==
    /\ Happens("reregister")
    /\ Fresh \in DOMAIN UUIDs
    /\ estate' = [x \in (DOMAIN estate \ {m}) \cup {Fresh} |-> IF x = Fresh THEN estate[m] ELSE estate[x]]
    /\ Logged(LogEntry(Fresh, "registered"))
    /\ UNCHANGED restricted

Migrate(m) ==
    /\ Happens("migrate")
    /\ \E h \in Hosts \ {estate[m].host} :
        /\ estate' = [estate EXCEPT ![m].host = h]
        /\ Logged([LogEntry(m, "moved") EXCEPT !.from = estate[m].host, !.to = h])
    /\ UNCHANGED restricted

MoveFolder(m) ==
    /\ Happens("folder")
    /\ estate' = [estate EXCEPT ![m].folder = IF @ = "f1" THEN "f2" ELSE "f1"]
    /\ UNCHANGED <<log, restricted>>

Reconfigure(m) ==
    /\ Happens("reconfigure")
    /\ \E n \in {"1", "2"} \ {estate[m].cpu} :
        /\ estate' = [estate EXCEPT ![m].cpu = n]
        /\ Logged([LogEntry(m, "modified") EXCEPT !.fields = {"cpu"}, !.set = ("cpu" :> n)])
    /\ UNCHANGED restricted

(* vCenter logs a rename and a reconfiguration of the name.                *)
Rename(m) ==
    /\ Happens("rename")
    /\ \E n \in {"a", "b"} \ {estate[m].name} :
        /\ estate' = [estate EXCEPT ![m].name = n]
        /\ log' = log \o <<[LogEntry(m, "renamed") EXCEPT !.name = n],
                           [LogEntry(m, "modified") EXCEPT !.id = Len(log) + 2, !.fields = {"name"}, !.name = n]>>
    /\ UNCHANGED restricted

TakeSnapshot(m) ==
    /\ Happens("snapshot")
    /\ estate[m].snaps = {}
    /\ estate' = [estate EXCEPT ![m].snaps = {clock}]
    /\ Logged(LogEntry(m, "snapshot-created"))
    /\ UNCHANGED restricted

RemoveSnapshot(m) ==
    /\ Happens("snapshot")
    /\ estate[m].snaps # {}
    /\ estate' = [estate EXCEPT ![m].snaps = {}]
    /\ Logged(LogEntry(m, "snapshot-removed"))
    /\ UNCHANGED restricted

(* The account of a context loses, or is given back, what it may read of   *)
(* hosts, folders and the configuration of VMs, which holds their UUIDs.   *)
ToggleAccess(c) ==
    /\ Happens("restrict")
    /\ restricted' = IF c \in restricted THEN restricted \ {c} ELSE restricted \cup {c}
    /\ UNCHANGED <<estate, log>>

-----------------------------------------------------------------------------
(* Storage.  Every VM is on the first datastore: a disk of ten units and,  *)
(* under a snapshot, a delta disk of ten more, which is then its disk.     *)

StoreCapacity == 100

VMFiles(vm) == (vm.iu :> 10) @@ (IF vm.snaps = {} THEN Nothing ELSE (vm.iu \o "-delta" :> 10))
VMDisk(vm)  == vm.iu \o (IF vm.snaps = {} THEN "" ELSE "-delta")
SizeOfVM(vm) == 10 * Cardinality(DOMAIN VMFiles(vm))

StoreFiles(d, vms) ==
    LET of == {m \in DOMAIN vms : d = "d1"}
    IN  FoldSet(LAMBDA m, f : VMFiles(vms[m]) @@ f, Nothing, of)

-----------------------------------------------------------------------------
(* Capture.                                                                *)

Seen(c) == {m \in DOMAIN estate : estate[m].iu \in SeesVMs[c]}

ObserveVM(c, m) ==
    LET vm    == estate[m]
        blind == c \in restricted
    IN  [vc |-> VC, ctx |-> c, id |-> MoRefs[m], name |-> vm.name,
         iu |-> IF blind THEN Unknown ELSE vm.iu, bu |-> IF blind THEN Unknown ELSE vm.bu,
         available |-> ~blind, cfg |-> IF blind THEN Unknown ELSE vm.cpu, guestId |-> Unknown, hardware |-> Unknown,
         place |-> [host |-> IF blind THEN Unknown ELSE vm.host,
                    cluster |-> Unknown,
                    folder |-> IF blind THEN Unknown ELSE vm.folder,
                    datastores |-> Unknown],
         power |-> "poweredOn", state |-> Nothing, settings |-> Nothing, rules |-> Unknown,
         disks |-> Nothing, nics |-> <<>>,
         on |-> {"d1"}, size |-> SizeOfVM(vm),
         vmdks |-> IF blind THEN Nothing ELSE (VMDisk(vm) :> [ds |-> "d1", cap |-> 10]),
         meta |-> [s \in {"tags", "custom_attributes"} |-> [status |-> "available", values |-> Nothing]],
         snaps |-> SetToSeq({[id |-> s, name |-> "s", at |-> s, imported |-> FALSE, current |-> TRUE]
                             : s \in vm.snaps})]

(* Only the first context's account may browse datastores.                 *)
ListResource(c, kind, id) ==
    LET files   == StoreFiles(id, estate)
        payload == IF kind = "host" THEN ("cpu_cores" :> 2) @@ ("cpu_mhz" :> 5)
                   ELSE ("capacity_bytes" :> StoreCapacity)
                        @@ ("free_bytes" :> StoreCapacity - 10 * Cardinality(DOMAIN files))
        listed  == kind = "datastore" /\ c = Min(Contexts)
    IN  [kind |-> kind, vc |-> VC, id |-> id, stable |-> ("name" :> id), runtime |-> Nothing,
         details |-> Nothing, volatile |-> Nothing, parts |-> Nothing, alarms |-> Unknown,
         meta |-> [s \in {"tags", "custom_attributes"} |-> [status |-> "unavailable", values |-> Nothing]],
         payload |-> payload, metrics |-> TR!ResourceMetrics(kind, payload), ids |-> {id},
         browse |-> IF listed THEN "success" ELSE "denied", files |-> IF listed THEN files ELSE Nothing]

Counted(S) == IF S = {} THEN "empty" ELSE "success"

(* resourceCollection: a kind that failed stores nothing.                  *)
Resources(c, out) ==
    LET listed == (IF c \in restricted THEN {} ELSE {<<"host", h>> : h \in Hosts})
                  \cup {<<"datastore", d>> : d \in SeesStores[c]}
    IN  {r \in listed : out # "no " \o r[1]}

(* markHiddenInventory: a host listing that succeeded is partial when the  *)
(* cluster counts more hosts, or when a powered-on VM reports no host or   *)
(* one that was not listed.                                                *)
HiddenIgnored(coll, vms, hosts, counted) == coll    \* seeded fault: silence reads as an answer

MarkHiddenInventory(coll, vms, hosts, counted) ==
    IF /\ Successful(coll["host"])
       /\ \/ counted > Cardinality(hosts)
          \/ \E v \in vms : IF v.place["host"] = Unknown THEN v.power = "poweredOn"
                                                          ELSE v.place["host"] \notin hosts
    THEN [coll EXCEPT !["host"] = "partial"] ELSE coll

CollectionStatus(k, out, vms, res) ==
    CASE k \in {"host", "datastore"} ->
            IF out = "no " \o k THEN "failed" ELSE Counted({r \in res : r[1] = k})
      [] k = "cluster" -> IF out = "no cluster" THEN "failed" ELSE "success"
      [] k \in {"vm", "snapshot"} /\ out = "no vm" -> "failed"
      [] k = "vm" /\ out # "no vm" -> Counted(vms)
      [] OTHER -> Counted(UNION {ToSet(v.snaps) : v \in vms})

ContextRow(c, out, order, res, coll) ==
    CASE out = "unreachable" -> [name |-> c, vc |-> Unknown, coll |-> Nothing, vms |-> <<>>, res |-> <<>>]
      [] out = "no index"    -> [name |-> c, vc |-> VC, coll |-> [k \in DOMAIN coll |-> "failed"],
                                 vms |-> <<>>, res |-> <<>>]
      [] OTHER -> [name |-> c, vc |-> VC,
                   coll |-> MarkHiddenInventory(coll, ToSet(order), {r[2] : r \in {x \in res : x[1] = "host"}},
                                                IF out = "no cluster" THEN 0 ELSE Cardinality(Hosts)),
                   vms  |-> order,
                   res  |-> SetToSeq({ListResource(c, r[1], r[2]) : r \in res})]

CollectedContext(c, out, order, res) ==
    ContextRow(c, out, order, res,
               [k \in {"vm", "snapshot", "host", "cluster", "datastore"} |-> CollectionStatus(k, out, ToSet(order), res)])

ObserveAll(c, order) == [i \in DOMAIN order |-> ObserveVM(c, order[i])]

(* captureContext: the context cannot be reached; its index cannot be      *)
(* built; or every kind is collected, each of which may fail.              *)
CaptureContext(c, out) ==
    CollectedContext(c, out, ObserveAll(c, SetToSortSeq(IF out = "no vm" THEN {} ELSE Seen(c), <)),
                     Resources(c, out))

(* The status FinishRun gives: every collection succeeded, some, or none.  *)
RunStatus(rows) ==
    LET stats == [i \in DOMAIN rows |-> {k \in DOMAIN rows[i].coll : Successful(rows[i].coll[k])}]
        all(i) == DOMAIN rows[i].coll # {} /\ stats[i] = DOMAIN rows[i].coll
    IN  IF \A i \in DOMAIN rows : stats[i] = {} THEN "failed"
        ELSE IF \A i \in DOMAIN rows : all(i) THEN "complete" ELSE "partial"

RunFrom(rows) ==
    [id |-> Len(runs) + 1, at |-> clock + 1, end |-> clock + 2, imported |-> FALSE,
     status |-> RunStatus(rows), ctx |-> rows,
     offset |-> IF tellsTime THEN [c \in Contexts |-> skew] ELSE Nothing]

CaptureAll(order, out) == RunFrom([i \in DOMAIN order |-> CaptureContext(order[i], out[order[i]])])

Capture ==
    /\ Len(runs) < MaxRuns
    /\ \E out \in Outcomes : runs' = <<CaptureAll(SetToSortSeq(Contexts, <), out)>> \o runs
    /\ truths' = <<[vms |-> estate, restricted |-> restricted]>> \o truths
    /\ clock' = clock + 3
    /\ UNCHANGED <<estate, restricted, log, changes, skew, tellsTime>>

Next ==
    \/ Create
    \/ \E m \in DOMAIN estate :
          \/ Destroy(m) \/ Reregister(m) \/ Migrate(m) \/ MoveFolder(m)
          \/ Reconfigure(m) \/ Rename(m) \/ TakeSnapshot(m) \/ RemoveSnapshot(m)
    \/ \E c \in Contexts : ToggleAccess(c)
    \/ Capture

Spec == Init /\ [][Next]_vars

-----------------------------------------------------------------------------
(* Properties.  They are asked right after a capture.                      *)

JustCaptured == runs # <<>> /\ clock = runs[1].end + 1

(* What the vCenter told of its time is read by ExplainTimeline alone, for *)
(* the causes; whatever else is said of two histories that differ in       *)
(* nothing else is the same, and is asked where it was told and the skew   *)
(* is the largest.                                                         *)
Asked == JustCaptured /\ tellsTime /\ \A s \in Skews : s <= skew

CollectedBy(i) == {c.name : c \in {x \in ToSet(runs[i].ctx) : Successful(StatusOf(x, "vm"))}}

SeenThrough(C, i) == {m \in DOMAIN truths[i].vms : \E c \in C : truths[i].vms[m].iu \in SeesVMs[c]}

Copies(i) == \E m \in DOMAIN truths[i].vms : truths[i].vms[m].bu # truths[i].vms[m].iu

SameVM(i, m, j, n) == m = n \/ truths[i].vms[m].iu = truths[j].vms[n].iu

Elsewhere(a, b) == a.host # b.host \/ a.folder # b.folder

(* What a comparison d says of the VMs with this kind of change, by the    *)
(* observation of that side.                                               *)
Told(d, kind, side) ==
    {CHOOSE m \in DOMAIN MoRefs : MoRefs[m] = c[side][1].id : c \in {x \in d.vms : kind \in x.kinds}}

(* The VMs common contexts see before and after, and the comparison d.     *)
TellsTruth(d, before, after, readable) ==
    LET moved == {n \in after : \E m \in before : SameVM(2, m, 1, n)
                                   /\ Elsewhere(truths[2].vms[m], truths[1].vms[n])}
        gone  == {m \in before : \A n \in after : ~SameVM(2, m, 1, n)}
        new   == {n \in after : \A m \in before : ~SameVM(2, m, 1, n)}
    IN  /\ (before \cap after) \cap (Told(d, "vanished", "before") \cup Told(d, "appeared", "after")) = {}
        /\ ~Copies(1) /\ ~Copies(2) => Told(d, "moved", "after") \subseteq moved
        /\ readable => /\ Told(d, "vanished", "before") = gone
                       /\ Told(d, "appeared", "after") = new
                       /\ Told(d, "moved", "after") = moved

TellsTruthOf(d, common) ==
    /\ {} \in {CollectedBy(1), CollectedBy(2)} => d.vms = {}
    /\ common # {} => TellsTruth(d, SeenThrough(common, 2), SeenThrough(common, 1),
                                 /\ common \cap (truths[1].restricted \cup truths[2].restricted) = {}
                                 /\ ~Copies(1) /\ ~Copies(2))

(* DiffForContexts and compareVMs: a capture that read no VMs tells of no  *)
(* change.  Of the VMs the contexts common to two captures can see, one    *)
(* that is in both is never reported to have vanished or appeared,         *)
(* whatever failed and whatever an account could not read; one reported to *)
(* have moved did move; and when everything could be read, exactly the VMs *)
(* that went, came and moved are reported, whatever was renamed or         *)
(* registered again.                                                       *)
VMsTellTruth ==
    Asked /\ Len(runs) >= 2 =>
        TellsTruthOf(DiffForContexts(runs[2], runs[1], FALSE, {}), CollectedBy(1) \cap CollectedBy(2))

(* Something that tells of hosts was read: VMs, or the count of a cluster. *)
HasEvidence(c) == c.vms # <<>> \/ Successful(StatusOf(c, "cluster"))

(* markHiddenInventory and infrastructureDiff: no host is ever removed     *)
(* here, so none may be reported to have vanished or appeared because an   *)
(* account could not list it, as long as the capture read anything that    *)
(* tells of hosts.                                                         *)
RestrictedIsNotGone ==
    Asked /\ Len(runs) >= 2
    /\ (\A i \in {1, 2} : \A c \in ToSet(runs[i].ctx) : Successful(StatusOf(c, "host")) => HasEvidence(c)) =>
        InfrastructureDiff(runs[2], runs[1], "host", FALSE) = {}

VMKinds == {<<"vm", k>> : k \in {"appeared", "vanished", "moved"}}

(* What a VM is and where, by its UUID.                                    *)
Placed(i) == {<<vm.iu, vm.host, vm.folder>> : vm \in {truths[i].vms[m] : m \in DOMAIN truths[i].vms}}

(* EvaluatePolicy over the pair NewestComparablePair takes when told       *)
(* nothing, with --require-complete and --fail-on for VMs that come, go    *)
(* and move: the gate stays open only when none did.                       *)
OpenOver(base, target) ==
    EvaluatePolicy(runs[base], runs[target], DiffForContexts(runs[base], runs[target], FALSE, {}),
                   [failOn |-> VMKinds, maxAge |-> 0, requireComplete |-> TRUE]) = {}
    /\ ~Copies(base) /\ ~Copies(target) => Placed(base) = Placed(target)

GateOver(pair) ==
    pair # <<>> /\ OpenOver(Len(runs) + 1 - pair[1], Len(runs) + 1 - pair[2])

GateHolds == Asked /\ Len(runs) >= 2 => GateOver(NewestComparablePair(runs, {}))

(* The comparison of two captures, of VMs and of hosts, reports nothing    *)
(* that a failure, an outage of some contexts or a restricted account made *)
(* up, and where all could be read it leaves nothing out; a gate on it     *)
(* stays open only over an estate that did not change.                     *)
DiffTellsTruth == VMsTellTruth /\ RestrictedIsNotGone /\ GateHolds

(* The comment of DiffForContexts: "A context present on one side but not  *)
(* the other remains a coverage warning, never an inferred lifecycle       *)
(* change."  No datastore is ever removed here.                            *)
OutageIsNotDeletion ==
    Asked /\ Len(runs) >= 2 =>
        InfrastructureDiff(runs[2], runs[1], "datastore", FALSE) = {}

(* What the runs recorded of a VM's placement or configuration, oldest     *)
(* first, where an account could read it.                                  *)
ReadOf(u, p) ==
    LET of(r)  == {v \in UNION {ToSet(c.vms) : c \in ToSet(r.ctx)} : v.iu = u}
        oldest == SelectSeq(Reverse(runs), LAMBDA r : of(r) # {})
        one(r) == CHOOSE v \in of(r) : TRUE
    IN  [i \in DOMAIN oldest |->
            <<oldest[i].id, IF p = "config" THEN one(oldest[i]).cfg ELSE one(oldest[i]).place[p]>>]

TimelineOf(u) == TL!TimelineForContexts(runs, u, {}, FALSE, FALSE)

Claims(timeline, p) ==
    UNION {{<<e.run.id, f[2], f[3]>> : f \in {x \in e.fields : x[1] = p}}
           : e \in {x \in ToSet(timeline) : x.kind = IF p = "config" THEN "modified" ELSE "moved"}}

Recorded(u, p) ==
    LET seen == ReadOf(u, p) IN
    {<<seen[i][1], seen[i - 1][2], seen[i][2]>> : i \in {k \in 2..Len(seen) : seen[k][2] # seen[k - 1][2]}}

NoCopies == \A i \in DOMAIN runs : ~Copies(i)

(* The VM can be told from others throughout: its UUIDs were readable, or  *)
(* its reference never changed.                                            *)
Identified ==
    \/ \A i \in DOMAIN truths : truths[i].restricted = {}
    \/ \A i \in DOMAIN log : log[i].kind # "registered"

(* TimelineForContexts with lastKnown: a VM's changes of host and of       *)
(* configuration are found between the captures that could read them,      *)
(* whatever captures in between could not; and a VM every context may see, and that can be told *)
(* from others, vanishes only from a capture at which it did not exist.    *)
Unbroken(u, timeline) ==
    /\ \A p \in {"host", "config"} : Claims(timeline, p) = Recorded(u, p)
    /\ Identified /\ (\A c \in Contexts : u \in SeesVMs[c]) =>
           \A e \in ToSet(timeline) : e.kind = "vanished" =>
               LET then == truths[Len(runs) + 1 - e.run.id].vms
               IN  \A m \in DOMAIN then : then[m].iu # u

TimelineUnbroken ==
    Asked /\ NoCopies => \A u \in {UUIDs[i] : i \in 1..(Fresh - 1)} : Unbroken(u, TimelineOf(u))

(* The same of the folder: the comment of lastKnown has it that "a         *)
(* restricted account in the middle of a lineage then hides nothing".      *)
FolderMovesFound ==
    Asked /\ NoCopies =>
        \A u \in {UUIDs[i] : i \in 1..(Fresh - 1)} : Claims(TimelineOf(u), "folder") = Recorded(u, "folder")

EventsOf(u) ==
    SelectSeq(log, LAMBDA e : \E i \in DOMAIN truths : e.vm \in DOMAIN truths[i].vms /\ truths[i].vms[e.vm].iu = u)

CausesAre(u, history, events, spans, order) ==
    LET of(s)   == SelectSeq(history, LAMBDA h : s <= Len(order) /\ h.kind # "observed" /\ h.run = order[s])
        places(e) == {<<s, c>> \in (DOMAIN spans) \X (0..Len(history)) :
                        IF c = 0 THEN e \in ToSet(spans[s].left)
                        ELSE c \in DOMAIN spans[s].events /\ e \in spans[s].events[c]}
        migrations == {e \in ToSet(events) : e.kind = "moved"}
        stayed  == {h \in ToSet(history) : h.kind = "moved" /\ \A f \in h.fields : f[1] # "host"}
        tied    == {e \in migrations : \E i \in DOMAIN runs : e.t = runs[i].at}
        read    == (\A c \in Contexts : u \in SeesVMs[c]) /\ \A i \in DOMAIN truths : truths[i].restricted = {}
        sure    == read /\ (tellsTime \/ (Cardinality(migrations) = 1 /\ stayed = {} /\ tied = {}))
    IN  /\ \A e \in ToSet(events) : Cardinality(places(e)) = 1
        /\ sure => \A s \in DOMAIN spans : \A c \in DOMAIN of(s) :
               \A f \in of(s)[c].fields : of(s)[c].kind = "moved" /\ f[1] = "host" =>
                   \E e \in spans[s].events[c] : e.to = f[3]

CausesIn(u, history, events) ==
    history # <<>> => CausesAre(u, history, events, TL!ExplainTimeline(history, events),
                                SetToSortSeq({h.run : h \in ToSet(history)}, LAMBDA a, b : a.at < b.at))

(* ExplainTimeline: every event is placed exactly once, beside one change  *)
(* or among those that explain none; and where the clock was measured, or  *)
(* was off by less than the tolerance and only one migration was logged, a *)
(* change of host between captures that could read it has the migration    *)
(* that caused it.  Excepted, where the clock was not measured, are a VM   *)
(* that also moved without changing its host (pickMigration credits a      *)
(* migration logged past the end of the capture that saw it already to the *)
(* move after it, if the VM was on that host then), and a migration logged *)
(* at the very start of a capture (it is placed before it, and             *)
(* repairBoundaries takes only what was logged strictly earlier).          *)
CausesFound ==
    JustCaptured /\ NoCopies =>
        \A u \in {UUIDs[i] : i \in 1..(Fresh - 1)} :
            CausesIn(u, TL!TimelineForContexts(runs, u, {}, FALSE, TRUE), EventsOf(u))

(* The options of a trend over every stored capture, partial ones too, and *)
(* over the newest two (what is shown of an older one was checked then).   *)
Whole(contexts) ==
    [contexts |-> contexts, partial |-> TRUE, from |-> 0, to |-> 0, since |-> 0, limit |-> 0]
Recent(contexts) == [Whole(contexts) EXCEPT !.limit = 2]

(* ChurnTrend of a context: the number of VMs of each capture is that of   *)
(* the one before, plus those that appeared, less those that vanished.     *)
Balances(t) ==
    \A i \in 2..Len(t) : t[i].count = t[i - 1].count + t[i].churn["appeared"] - t[i].churn["vanished"]

ChurnBalances ==
    Asked /\ (\A i \in DOMAIN runs : Min(Contexts) \in CollectedBy(i)) =>
        Balances(TR!ChurnTrend(Reverse(runs), Whole({Min(Contexts)})))

TruthOf(id) == truths[Len(runs) + 1 - id]

(* SnapshotTrend: each snapshot of the VMs a capture listed is counted     *)
(* once, through however many contexts it was listed, and of the ones      *)
(* asked for none that was listed elsewhere only.                          *)
SnapshotsCounted ==
    LET seen(vms, C) == {m \in DOMAIN vms : \E c \in C : vms[m].iu \in SeesVMs[c]}
        snaps(vms, C) == UNION {{<<m, s>> : s \in vms[m].snaps} : m \in seen(vms, C)}
        listed(id, C) == snaps(TruthOf(id).vms, C)
        counted(S) == {<<CHOOSE m \in DOMAIN MoRefs : MoRefs[m] = a.vm, a.snap>> : a \in S}
    IN  Asked =>
            /\ \A p \in ToSet(TR!SnapshotTrend(Reverse(runs), Recent({}), 0)) :
                   LET all == listed(p.run, CollectedBy(Len(runs) + 1 - p.run)) IN
                   counted(p.sure) = all /\ Cardinality(p.sure) = Cardinality(all)
            /\ \A c \in Contexts : \A p \in ToSet(TR!SnapshotTrend(Reverse(runs), Recent({c}), 0)) :
                   counted(p.maybe) \subseteq listed(p.run, {c})

ShownCapacity(p) == IF "storage_capacity" \in DOMAIN p[2].sums THEN p[2].sums["storage_capacity"] ELSE 0

(* The series of the estate, the points <<context, point>>, and the gaps.  *)
SeriesTrue(series, points, gaps) ==
    /\ \A x \in points :
        LET p == x[2] IN
        IF <<p[1], x[1]>> \in gaps THEN p[2].sums = Nothing /\ p[2].used = -1
        ELSE /\ ShownCapacity(p) = StoreCapacity * Cardinality(SeesStores[x[1]])
             /\ p[2].used = TR!SumOver(SeesStores[x[1]],
                               LAMBDA d : 10 * Cardinality(DOMAIN StoreFiles(d, TruthOf(p[1]).vms)))
    /\ \A e \in ToSet(series) :
        ShownCapacity(e) = TR!SumOver({x \in points : x[2][1] = e[1]}, LAMBDA x : ShownCapacity(x[2]))

TrendTrue(t, gaps) ==
    SeriesTrue(t.estate, UNION {{<<n, p>> : p \in ToSet(t.context[n])} : n \in DOMAIN t.context}, gaps)

ReportAddsUp(all, own) ==
    /\ all.vms = TR!SumOver(own, LAMBDA r : r[2].vms)
    /\ \A k \in {"host", "datastore"} : all.counts[k] = TR!SumOver(own, LAMBDA r : r[2].counts[k])
    /\ all.warnings = UNION {r[2].warnings : r \in own}

(* CapacityTrend and ReportForContexts: what a context shows of its        *)
(* datastores is what they hold, or nothing and a gap where they could not *)
(* be listed, never zero; the estate is the sum of its contexts.           *)
CapacityShown ==
    Asked =>
        /\ TrendTrue(TR!CapacityTrend(Reverse(runs), Recent({}), "datastore"),
                     TR!CapacityTrendGaps(Reverse(runs), Recent({}), "datastore"))
        /\ ReportAddsUp(TR!ReportForContexts(runs[1], {}, 0),
                        {<<c, TR!ReportForContexts(runs[1], {c}, 0)>> : c \in Contexts})

(* What a VM or a file took of the datastores at a capture.                *)
TookAt(id, x) ==
    LET vms == TruthOf(id).vms
        m   == {n \in DOMAIN vms : MoRefs[n] = x}
        files == StoreFiles("d1", vms)
    IN  IF m # {} THEN SizeOfVM(vms[CHOOSE n \in m : TRUE])
        ELSE IF x \in DOMAIN files THEN files[x] ELSE 0

FilesOf(id, x) ==
    UNION {DOMAIN VMFiles(vm) : vm \in {TruthOf(id).vms[m] : m \in {n \in DOMAIN TruthOf(id).vms : MoRefs[n] = x}}}

(* attributeGrowth and capacityBlindness: when the growth of a datastore   *)
(* is said to be attributed, each file grew by what it is charged with,    *)
(* and each VM did, or files of its own did where the charge is exact,     *)
(* whichever context's reading of a VM was used; and it is, in full,       *)
(* when every context read everything and no VM came or went with a chain  *)
(* of disks (such a VM is charged whole, and its lower disks once more).   *)
GrowthAttributed(g) ==
    LET from == g.points[1].run
        to   == g.points[Len(g.points)].run
        read == \A i \in DOMAIN runs : runs[i].status = "complete" /\ truths[i].restricted = {}
        grew(x) == TookAt(to, x) - TookAt(from, x)
        chains(id) == {m \in DOMAIN TruthOf(id).vms : TruthOf(id).vms[m].snaps # {}}
        whole == /\ chains(from) \subseteq DOMAIN TruthOf(to).vms
                 /\ chains(to) \subseteq DOMAIN TruthOf(from).vms
    IN  Len(g.points) >= 2 =>
            /\ g.confidence = "attributed" => \A x \in g.by :
                   \/ x[3] = grew(x[1])
                   \/ x[2] = "exact" /\ \E F \in SUBSET (FilesOf(from, x[1]) \cup FilesOf(to, x[1])) :
                                              x[3] = TR!SumOver(F, grew)
            /\ read /\ whole => g.confidence = "attributed" /\ g.rest = 0

(* capacityProjection with linearFit: where three captures of a datastore  *)
(* are on a rising line, it is full when that line says.                   *)
ProjectionOnLine(g) ==
    LET p == g.points
        y(i) == TR!UsedBytes(p[i].ds)
        onLine == /\ Len(p) = 3 /\ y(3) > y(1)
                  /\ (y(2) - y(1)) * (p[3].at - p[2].at) = (y(3) - y(2)) * (p[2].at - p[1].at)
        floor == StoreCapacity \div 10
    IN  onLine =>
            /\ g.projection.confidence = "low"
            /\ g.projection.days = ((StoreCapacity - floor - y(3)) * (p[3].at - p[1].at)) \div (y(3) - y(1))

CapacityReported ==
    Asked /\ Len(runs) >= 2 =>
        \A last \in Contexts :
            \A g \in TR!CapacityReport(Reverse(runs), Whole({}), [percent |-> 10, bytes |-> 0], last) :
                GrowthAttributed(g) /\ ProjectionOnLine(g)

(* The trends add up to what happened.                                     *)
TrendsTellTruth ==
    ChurnBalances /\ SnapshotsCounted /\ CapacityShown /\ CapacityReported
=============================================================================
