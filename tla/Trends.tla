------------------------------- MODULE Trends -------------------------------
(***************************************************************************)
(* Trends over stored runs: churn, snapshots, capacity, the report of one  *)
(* run (trends.go) and what made a datastore grow (capacity.go).           *)
(*                                                                         *)
(* Runs and context rows are as in RunDiff, with a metric function for     *)
(* each resource: a metric that was not reported is absent from it.        *)
(* Fractions are kept as numerator and denominator.                        *)
(***************************************************************************)
EXTENDS Integers, FiniteSets, Sequences, SequencesExt, FiniteSetsExt

CONSTANT Unknown        \* a value nobody recorded

Diff == INSTANCE RunDiff

-----------------------------------------------------------------------------
(* The window.                                                             *)

EligibleTrendRuns(runs, opts) ==
    SelectSeq(runs, LAMBDA r :
        /\ r.status = "complete" \/ (opts.partial /\ r.status = "partial")
        /\ r.id >= opts.from /\ (opts.to # 0 => r.id <= opts.to)
        /\ r.at >= opts.since)

(* A failed collection is evidence only when partial runs are included.    *)
ContextPresent(c, partial) ==
    LET s == Diff!StatusOf(c, "vm") IN
    Diff!Successful(s) \/ (partial /\ s \notin {Unknown, "running"})

LimitTrendRuns(runs, limit) ==
    IF limit > 0 /\ Len(runs) > limit THEN SubSeq(runs, Len(runs) - limit + 1, Len(runs)) ELSE runs

(* The limit counts runs that contribute; a context no eligible run has    *)
(* recorded is an error, here <<>>.                                        *)
ContributingTrendRuns(runs, opts) ==
    LET eligible == EligibleTrendRuns(runs, opts)
        known    == UNION {{c.name : c \in ToSet(r.ctx)} : r \in ToSet(eligible)}
        present(r) == \E c \in ToSet(r.ctx) : c.name \in opts.contexts /\ ContextPresent(c, opts.partial)
    IN  CASE opts.contexts = {} -> LimitTrendRuns(eligible, opts.limit)
          [] opts.contexts # {} /\ opts.contexts \subseteq known ->
                LimitTrendRuns(SelectSeq(eligible, present), opts.limit)
          [] OTHER -> <<>>

Allowed(name, opts) == opts.contexts = {} \/ name \in opts.contexts

-----------------------------------------------------------------------------
(* Points.                                                                 *)

SumOver(S, f(_)) == FoldSet(LAMBDA x, n : n + f(x), 0, S)

VMCountAll(run, opts) ==      \* seeded fault: the selection is ignored
    SumOver({i \in DOMAIN run.ctx : Diff!Successful(Diff!StatusOf(run.ctx[i], "vm"))},
            LAMBDA i : Len(run.ctx[i].vms))

VMCount(run, opts) ==
    SumOver({i \in DOMAIN run.ctx : Diff!Successful(Diff!StatusOf(run.ctx[i], "vm"))
                                    /\ Allowed(run.ctx[i].name, opts)},
            LAMBDA i : Len(run.ctx[i].vms))

(* The context a change is charged to is the one the VM was taken from.    *)
ChangeContext(c) == IF c.after # <<>> THEN c.after[1].ctx ELSE c.before[1].ctx

ChurnCount(d, kind, opts) ==
    Cardinality({c \in d.vms : kind \in c.kinds /\ Allowed(ChangeContext(c), opts)})

ChurnOf(d, opts) == [k \in {"appeared", "vanished"} |-> ChurnCount(d, k, opts)]

(* Each run against the one before it in the window.                       *)
ChurnPoints(window, opts) ==
    [i \in DOMAIN window |->
        [run |-> window[i].id, count |-> VMCount(window[i], opts),
         churn |-> IF i = 1 THEN [k \in {"appeared", "vanished"} |-> 0]
                   ELSE ChurnOf(Diff!DiffForContexts(window[i - 1], window[i], FALSE, {}), opts)]]

ChurnTrend(runs, opts) == ChurnPoints(ContributingTrendRuns(runs, opts), opts)

(* The snapshots of each run at least so old, counted for sure and maybe.  *)
SnapshotTrend(runs, opts, olderThan) ==
    LET window == ContributingTrendRuns(runs, opts)
    IN  [i \in DOMAIN window |->
            LET ages == Diff!SnapshotAgesForContexts(window[i], 0, opts.contexts)
                stale(S) == {a \in S : a.age >= olderThan}
            IN  [run |-> window[i].id, sure |-> stale(ages.sure), maybe |-> stale(ages.maybe)]]

(* A metric of a host: the stored column, else its payload; the CPU        *)
(* capacity from total, cores times clock, or the clock alone.             *)
HostCPUCapacity(m) ==
    LET has(k) == k \in DOMAIN m /\ m[k] > 0 IN
    CASE has("total_cpu_mhz") -> m["total_cpu_mhz"]
      [] ~has("total_cpu_mhz") /\ has("cpu_cores") /\ has("cpu_mhz") -> m["cpu_cores"] * m["cpu_mhz"]
      [] ~has("total_cpu_mhz") /\ ~has("cpu_cores") /\ has("cpu_mhz") -> m["cpu_mhz"]
      [] OTHER -> -1

Metrics == {"cpu_capacity", "cpu_used", "storage_capacity", "storage_free"}

PayloadOf(payload, k) == IF k \in DOMAIN payload THEN payload[k] ELSE -1

(* resourceMetrics: the columns a resource is stored with.                 *)
Reported(columns) == [k \in {x \in Metrics : columns[x] >= 0} |-> columns[k]]

ResourceMetrics(kind, payload) ==
    Reported([k \in Metrics |->
        CASE kind = "host" /\ k = "cpu_capacity" -> HostCPUCapacity(payload)
          [] kind = "host" /\ k = "cpu_used" -> PayloadOf(payload, "cpu_usage_mhz")
          [] kind = "datastore" /\ k = "storage_capacity" -> PayloadOf(payload, "capacity_bytes")
          [] kind = "datastore" /\ k = "storage_free" -> PayloadOf(payload, "free_bytes")
          [] OTHER -> -1])

(* The stored column, else what the payload says.                          *)
Metric(r, k) ==
    PayloadOf(IF k \in DOMAIN r.metrics THEN r.metrics ELSE ResourceMetrics(r.kind, r.payload), k)

(* Sums over the resources that reported the metric; a metric none did is  *)
(* absent, never zero, and a utilisation needs both and a capacity.        *)
CapacityOf(sums) ==
    [sums |-> sums,
     used |-> IF {"storage_capacity", "storage_free"} \subseteq DOMAIN sums
              THEN sums["storage_capacity"] - sums["storage_free"] ELSE -1,
     utilisation |-> {k \in {"cpu", "storage"} :
        /\ k \o "_capacity" \in DOMAIN sums /\ sums[k \o "_capacity"] > 0
        /\ (IF k = "cpu" THEN "cpu_used" ELSE "storage_free") \in DOMAIN sums}]

(* values are <<the resource, the metric, its value>>.                     *)
SumsOf(values) ==
    [k \in {x[2] : x \in values} |-> SumOver({x \in values : x[2] = k}, LAMBDA x : x[3])]

CapacityForResources(resources) ==
    CapacityOf(SumsOf({x \in {<<rk[1], rk[2], Metric(rk[1][2], rk[2])>> : rk \in resources \X Metrics} : x[3] >= 0}))

(* loadResources: <<context, resource>> for every row; what two contexts   *)
(* list is there twice.                                                    *)
ResourcesOf(run, kind, names) ==
    UNION {{<<c.name, r>> : r \in {x \in ToSet(c.res) : x.kind = kind}}
           : c \in {x \in ToSet(run.ctx) : x.name \in names}}

ContextNames(run) == {c.name : c \in ToSet(run.ctx)}

(* One series for the estate and one for each context that ever listed     *)
(* such a resource; a context that recorded nothing in a run has no point  *)
(* there.                                                                  *)
CapacityPoint(r, kind, S) == <<r.id, CapacityForResources(ResourcesOf(r, kind, S))>>

CapacityAlong(series, kind, n) == [i \in DOMAIN series |-> CapacityPoint(series[i], kind, {n})]

RecordedIn(r, n) == \E c \in ToSet(r.ctx) : c.name = n /\ DOMAIN c.coll # {}

CapacityOver(window, opts, kind) ==
    LET of(r) == {n \in ContextNames(r) : Allowed(n, opts)} IN
    [estate  |-> [i \in DOMAIN window |-> CapacityPoint(window[i], kind, of(window[i]))],
     context |-> [n \in UNION {{x[1] : x \in ResourcesOf(r, kind, of(r))} : r \in ToSet(window)} |->
        CapacityAlong(SelectSeq(window, LAMBDA r : RecordedIn(r, n)), kind, n)]]

CapacityTrend(runs, opts, kind) == CapacityOver(ContributingTrendRuns(runs, opts), opts, kind)

CapacityTrendGaps(runs, opts, kind) ==
    UNION {{<<r.id, c.name>> : c \in {x \in ToSet(r.ctx) :
                Allowed(x.name, opts) /\ DOMAIN x.coll # {} /\ ~Diff!Successful(Diff!StatusOf(x, kind))}}
           : r \in ToSet(ContributingTrendRuns(runs, opts))}

(* The report of one run, for all its contexts or the selected ones.       *)
ReportOf(run, rows, names, selectors, ages, olderThan) ==
    [vms      |-> VMCount(run, [contexts |-> selectors]),
     counts   |-> [k \in {"host", "datastore"} |-> Cardinality(ResourcesOf(run, k, names))],
     capacity |-> [k \in {"host", "datastore"} |-> CapacityForResources(ResourcesOf(run, k, names))],
     stale    |-> {a \in ages.sure : a.age >= olderThan},
     warnings |-> {<<c.name, "vm">> : c \in {x \in rows : "vm" \notin DOMAIN x.coll}}
                  \cup UNION {{<<c.name, k>> : k \in {x \in DOMAIN c.coll : ~Diff!Successful(c.coll[x])}} : c \in rows}]

ReportForContexts(run, selectors, olderThan) ==
    LET rows == {c \in ToSet(run.ctx) : Diff!ContextSelected(c.name, selectors)}
    IN  ReportOf(run, rows, {c.name : c \in rows}, selectors,
                 Diff!SnapshotAgesForContexts(run, 0, selectors), olderThan)

-----------------------------------------------------------------------------
(* What made a datastore grow.  A datastore observation is [run, ctx, vc,  *)
(* id, name, ids, cap, free, browse, files]: ids identify its backing,     *)
(* files maps a path to a size.  Contexts are numbered in the order their  *)
(* rows are read.                                            *)

(* groupCapacityDatastores: the same object, or the same backing, joined   *)
(* transitively (union-find).                                              *)
Joined(a, b) == (a.vc = b.vc /\ a.id = b.id) \/ a.ids \cap b.ids # {}

GroupCapacityDatastores(values) ==
    FoldSet(LAMBDA v, groups :
                LET near == {g \in groups : \E w \in g : Joined(v, w)}
                IN  (groups \ near) \cup {UNION near \cup {v}},
            {}, values)

(* One point for each run: the first observation with usable numbers.      *)
CapacityPoints(group, runs) ==
    LET of(r) == {d \in group : d.run = r.id /\ d.cap >= 0 /\ d.free >= 0}
        seen  == SelectSeq(runs, LAMBDA r : of(r) # {})
        first(r) == CHOOSE d \in of(r) : \A e \in of(r) : d.ctx <= e.ctx
    IN  [i \in DOMAIN seen |-> [run |-> seen[i].id, at |-> seen[i].at, ds |-> first(seen[i])]]

UsedBytes(d) == d.cap - d.free

(* VM observations are [run, ctx, vc, key, ds: names, size, disks], disks  *)
(* mapping a path to [ds, cap].                                            *)
GroupNames(group) == {d.name : d \in group}

GroupVMs(group, vms, run) ==
    {v \in vms : v.run = run /\ \E d \in group : d.ctx = v.ctx /\ d.vc = v.vc}

DiskCapacityForGroup(v, group) ==
    SumOver({p \in DOMAIN v.disks : v.disks[p].ds \in GroupNames(group)}, LAMBDA p : v.disks[p].cap)

VmSize(v) == IF v.size # 0 THEN v.size ELSE SumOver(DOMAIN v.disks, LAMBDA p : v.disks[p].cap)

OneDatastore(v, group) == Cardinality(v.ds) = 1 /\ v.ds \subseteq GroupNames(group)
SomeDatastore(v, group) == Cardinality(v.ds) > 1 /\ v.ds \cap GroupNames(group) # {}

Browsed(d) == d.browse = "success"

(* The files of a group in a run, by path within the datastore.            *)
DatastoreFilesForGroup(group, run) ==
    LET of == {d \in group : d.run = run /\ Browsed(d)}
        paths == UNION {DOMAIN d.files : d \in of}
    IN  [p \in paths |-> (CHOOSE d \in of : p \in DOMAIN d.files).files[p]]

FileSize(files, p) == IF p \in DOMAIN files THEN files[p] ELSE 0

VmHasRelativeDisk(v, p, group) == p \in DOMAIN v.disks /\ v.disks[p].ds \in GroupNames(group)

(* Contributors of a growth: <<name, basis, bytes>>.  Where both runs      *)
(* listed the files, what a VM's files grew by is exact, and so are files  *)
(* no VM owns; otherwise a VM on this datastore alone is charged what it   *)
(* grew by, one on several what its disks here did; a VM that came or went *)
(* is charged whole.                                                       *)
AttributeGrowth(group, first, last, vms) ==
    LET of(d)    == GroupVMs(group, vms, d.run)
        byKey(d, k) == {v \in of(d) : v.key = k}
        keys     == {v.key : v \in of(first) \cup of(last)}
        common   == {k \in keys : byKey(first, k) # {} /\ byKey(last, k) # {}}
        one(S)   == CHOOSE v \in S : TRUE
        listed   == Browsed(first) /\ Browsed(last)
        before   == DatastoreFilesForGroup(group, first.run)
        after    == DatastoreFilesForGroup(group, last.run)
        paths    == IF listed THEN DOMAIN before \cup DOMAIN after ELSE {}
        grew(S)  == SumOver(S, LAMBDA p : FileSize(after, p) - FileSize(before, p))
        holds(d, p) == {v \in of(d) : VmHasRelativeDisk(v, p, group)}
        owners(p) == IF holds(first, p) # {} THEN holds(first, p) ELSE holds(last, p)
        files(k) == {p \in paths : owners(p) # {} /\ one(owners(p)).key = k}
        inferred(a, b) == IF OneDatastore(b, group) THEN {<<b.key, "inferred", b.size - a.size>>}
                          ELSE IF SomeDatastore(b, group)
                          THEN {<<b.key, "split", DiskCapacityForGroup(b, group) - DiskCapacityForGroup(a, group)>>}
                          ELSE {}
        whole(v, sign) == IF OneDatastore(v, group) THEN {<<v.key, "inferred", sign * VmSize(v)>>}
                          ELSE IF SomeDatastore(v, group) THEN {<<v.key, "split", sign * DiskCapacityForGroup(v, group)>>}
                          ELSE {}
    IN  UNION {IF k \in common
               THEN IF files(k) # {} THEN {<<k, "exact", grew(files(k))>>}
                    ELSE inferred(one(byKey(first, k)), one(byKey(last, k)))
               ELSE IF byKey(last, k) # {} THEN whole(one(byKey(last, k)), 1)
               ELSE whole(one(byKey(first, k)), -1) : k \in keys}
        \cup {<<p, "exact", grew({p})>> : p \in {q \in paths : owners(q) = {}}}

(* The context a group belonged to in each run: its own, or that of the    *)
(* nearest run that saw it, the earlier one first.                         *)
GroupContextsByRun(group, runs) ==
    LET observed(i) == {<<d.ctx, d.vc>> : d \in {x \in group : x.run = runs[i].id}}
        seen == {i \in DOMAIN runs : observed(i) # {}}
        dist(i, j) == IF j <= i THEN 2 * (i - j) ELSE 2 * (j - i) + 1
    IN  [i \in DOMAIN runs |->
            IF seen = {} THEN {}
            ELSE observed(CHOOSE j \in seen : \A k \in seen : dist(i, j) <= dist(i, k))]

CapacityNeverBlind(group, runs) == {}     \* seeded fault: failed collections are overlooked

(* Why the growth cannot be trusted.                                       *)
CapacityBlindness(group, runs) ==
    LET rows(i, cv) == {c \in ToSet(runs[i].ctx) : c.name = cv[1] /\ c.vc = cv[2]}
        blind(i, cv) == rows(i, cv) = {} \/ \E c \in rows(i, cv) : ~Diff!ContextComplete(c, {"vm", "datastore"})
    IN  UNION {{<<runs[i].id, cv[1]>> : cv \in {x \in GroupContextsByRun(group, runs)[i] : blind(i, x)}}
               : i \in DOMAIN runs}

(* Least squares over <<x, y>> points, times the denominators: the slope   *)
(* is num / den, r squared num * num / (den * yy).                         *)
LinearFit(points) ==
    LET n  == Len(points)
        S(f(_)) == SumOver(DOMAIN points, f)
        sx == S(LAMBDA i : points[i].at)   sy == S(LAMBDA i : UsedBytes(points[i].ds))
        sxx == S(LAMBDA i : points[i].at * points[i].at)
        sxy == S(LAMBDA i : points[i].at * UsedBytes(points[i].ds))
        syy == S(LAMBDA i : UsedBytes(points[i].ds) * UsedBytes(points[i].ds))
    IN  [num |-> n * sxy - sx * sy, den |-> n * sxx - sx * sx, yy |-> n * syy - sy * sy]

HasLargeCapacityGap(points) ==
    LET gap(i) == points[i].at - points[i - 1].at
        total == SumOver(2..Len(points), gap)
    IN  Len(points) >= 3 /\ \E i \in 2..Len(points) : gap(i) > 30 /\ gap(i) * (Len(points) - 1) > 2 * total

CapacityChangedDuringWindow(points) ==
    \E i \in 2..Len(points) : points[i].ds.cap # points[i - 1].ds.cap

(* When the free space crosses the floor: whether that is known, how many  *)
(* days remain (rounded down here), and how much it can be trusted.        *)
LowConfidence(points, span, fit, partial) ==
    \/ Len(points) < 5 \/ span < 7 \/ 2 * fit.num * fit.num < fit.den * fit.yy
    \/ CapacityChangedDuringWindow(points) \/ partial \/ HasLargeCapacityGap(points)

ProjectionFrom(points, last, floor, span, fit, partial) ==
    IF Len(points) < 3 \/ span < 1 \/ fit.num <= 0
    THEN [confidence |-> "unknown", days |-> IF last.ds.free <= floor THEN 0 ELSE -1]
    ELSE [confidence |-> IF LowConfidence(points, span, fit, partial) THEN "low" ELSE "projected",
          days |-> Max({0, ((last.ds.cap - floor - UsedBytes(last.ds)) * fit.den) \div fit.num})]

CapacityProjection(points, freePercent, freeBytes, partial) ==
    LET last == points[Len(points)] IN
    IF points = <<>> THEN [confidence |-> "unknown", days |-> -1]
    ELSE ProjectionFrom(points, last, Max({(last.ds.cap * freePercent) \div 100, freeBytes}),
                        last.at - points[1].at, LinearFit(points), partial)

Abs(n) == IF n < 0 THEN -n ELSE n

(* buildDatastoreCapacity: growth, what of it is not attributed, and how   *)
(* far the attribution can be trusted.                                     *)
Confidence(blind, rest, growth) ==
    IF blind # {} THEN "unknown" ELSE IF 20 * Abs(rest) <= Abs(growth) THEN "attributed" ELSE "partial"

Growth(confidence, growth, rest, by) == [confidence |-> confidence, growth |-> growth, rest |-> rest, by |-> by]

AttributedGrowth(growth, by, blind) ==
    LET rest == growth - SumOver(by, LAMBDA c : c[3]) IN
    Growth(Confidence(blind, rest, growth), growth, rest, by)

GrowthOf(group, runs, vms, first, last) ==
    AttributedGrowth(UsedBytes(last) - UsedBytes(first), AttributeGrowth(group, first, last, vms),
                     CapacityBlindness(group, runs))

DatastoreCapacity(group, runs, vms, floor, partial, points) ==
    (IF Len(points) < 2 THEN Growth("unknown", 0, 0, {})
     ELSE GrowthOf(group, runs, vms, points[1].ds, points[Len(points)].ds))
    @@ [points |-> points, projection |-> CapacityProjection(points, floor.percent, floor.bytes, partial)]

BuildDatastoreCapacity(group, runs, vms, floor, partial) ==
    DatastoreCapacity(group, runs, vms, floor, partial, CapacityPoints(group, runs))

(* CapacityReport: the datastores and the VMs of the runs in the window.   *)
(* Of a VM listed through two contexts the one read last is used, and the  *)
(* order of a Go map decides which: last is that context.                  *)
CapacityReport(runs, opts, floor, last) ==
    LET window == ContributingTrendRuns(runs, opts)
        rows(r) == {c \in ToSet(r.ctx) : Allowed(c.name, opts)}
        store(r, c, d) == [run |-> r.id, ctx |-> c.name, vc |-> c.vc, id |-> d.id, name |-> d.id, ids |-> d.ids,
                           cap |-> Metric(d, "storage_capacity"), free |-> Metric(d, "storage_free"),
                           browse |-> d.browse, files |-> d.files]
        stores == UNION {UNION {{store(r, c, d) : d \in {x \in ToSet(c.res) : x.kind = "datastore"}} : c \in rows(r)}
                         : r \in ToSet(window)}
        vm(r, c, v) == [run |-> r.id, ctx |-> c.name, vc |-> c.vc, key |-> v.id, ds |-> v.on, size |-> v.size, disks |-> v.vmdks]
        read   == UNION {UNION {{vm(r, c, v) : v \in ToSet(c.vms)} : c \in rows(r)} : r \in ToSet(window)}
        vms    == {v \in read : v.ctx = last \/ ~\E w \in read : w.run = v.run /\ w.key = v.key /\ w.ctx = last}
    IN  {BuildDatastoreCapacity(g, window, vms, floor, opts.partial) : g \in GroupCapacityDatastores(stores)}
=============================================================================
