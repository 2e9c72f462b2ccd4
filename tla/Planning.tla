------------------------------ MODULE Planning ------------------------------
(***************************************************************************)
(* Two questions asked of one stored run: would the VMs fit on a proposed  *)
(* target (internal/sizing), and does anything stand in the way of         *)
(* removing a VM (internal/decommission).                                  *)
(*                                                                         *)
(* A scenario sc is [hosts, cores, ram, store, rdm, cpuRatio, memRatio,    *)
(* growth, failures, clusters, off].  A number that may be left out is a   *)
(* set of at most one; the growth is a whole percentage.                   *)
(***************************************************************************)
EXTENDS Topology

-----------------------------------------------------------------------------
(* Sizing.                                                                 *)

Given(option, default) == IF option = {} THEN default ELSE CHOOSE x \in option : TRUE

UsableHosts(sc) ==
    LET left == Given(sc.hosts, 0) - Given(sc.failures, 1) IN IF left < 0 THEN 0 ELSE left

ClusterSelected(sc, v) ==
    sc.clusters = {} \/ \E f \in sc.clusters : f.name = v.cluster /\ f.ctx \in {Unknown, v.ctx}

SizedVMs(data, sc) ==
    {v \in data.vms : ~v.template /\ ClusterSelected(sc, v) /\ (v.power = "poweredOn" \/ sc.off)}

VMGaps(data, sc) ==
    LET vms == SizedVMs(data, sc) IN
    (IF data.status # "complete" THEN {"run"} ELSE {})
    \cup (IF data.ctx = <<>> THEN {"contexts"} ELSE {})
    \cup (IF BlindContexts(data.ctx, {"vm"}) # {} THEN {"blind"} ELSE {})
    \cup (IF vms = {} THEN {"scope"} ELSE {})
    \cup (IF \E v \in vms : v.cpu <= 0 \/ v.mem <= 0 THEN {"allocation"} ELSE {})

(* Demand that already exceeds supply settles the matter, whatever was not *)
(* seen; otherwise what was not seen leaves it open.                       *)
FinishLenient(missing, gaps, fits) ==          \* seeded fault: what was not seen counts as nothing
    IF missing THEN "unknown" ELSE IF ~fits THEN "insufficient" ELSE "fit"

Finish(missing, gaps, fits) ==
    IF missing THEN "unknown" ELSE IF ~fits THEN "insufficient" ELSE IF gaps # {} THEN "unknown" ELSE "fit"

Grown(sc, n) == n * (100 + Given(sc.growth, 0))

CPUDimension(sc, vms, gaps) ==
    LET ratio == Given(sc.cpuRatio, 1) IN
    Finish({} \in {sc.hosts, sc.cores} \/ ratio <= 0, gaps,
           Grown(sc, MapThenSumSet(LAMBDA v : v.cpu, vms)) <= 100 * UsableHosts(sc) * Given(sc.cores, 0) * ratio)

MemoryDimension(sc, vms, gaps) ==
    LET ratio == Given(sc.memRatio, 1) IN
    Finish({} \in {sc.hosts, sc.ram} \/ ratio <= 0, gaps,
           Grown(sc, MapThenSumSet(LAMBDA v : v.mem, vms)) <= 100 * UsableHosts(sc) * Given(sc.ram, 0) * ratio)

ReservationDimension(sc, vms, gaps) ==
    LET blind == {v \in vms : ~v.cfg}
        held(v) == IF v.memAlloc # Unknown /\ v.memAlloc.reservation > 0 THEN v.memAlloc.reservation ELSE 0
    IN  Finish({} \in {sc.hosts, sc.ram}, gaps \cup (IF blind # {} THEN {"reservation"} ELSE {}),
               MapThenSumSet(held, vms \ blind) <= UsableHosts(sc) * Given(sc.ram, 0))

(* Datastores that share an identity key are one.  A name that several     *)
(* contexts use, without an identity to tell, is ambiguous.                *)
StorageGroup(data, s) ==
    Closure({s}, {p \in data.stores \X data.stores : IdentityKeys(p[1]) \cap IdentityKeys(p[2]) # {}})

AmbiguousStore(data, s) ==
    LET sameName(x) == {o \in data.stores : o.name = x.name /\ o.ctx # x.ctx}
    IN  \E x \in StorageGroup(data, s) :
            /\ ~x.local /\ sameName(x) # {}
            /\ \/ IdentityKeys(x) = {}
               \/ \E o \in sameName(x) : o \notin StorageGroup(data, x) /\ IdentityKeys(o) = {} /\ ~o.local

IsRDM(d) == d.raw \/ d.lun # Unknown

(* Attachments as pairs <<VM, disk>>; files are counted once for each      *)
(* datastore and path, raw disks once for each LUN.                        *)
Attachments(vms) == UNION {{<<v, d>> : d \in v.disks} : v \in vms}

OnceEach(attachments, identity(_)) ==
    LET ids == {identity(a) : a \in attachments} IN
    MapThenSumSet(LAMBDA i : (CHOOSE a \in attachments : identity(a) = i)[2].cap, ids)

DatastoreDimension(data, sc, vms, gaps) ==
    LET files   == {a \in Attachments(vms) : ~IsRDM(a[2])}
        at(a)   == IF a[2].path = Unknown THEN {} ELSE StoresOf(data, a[1].ctx, a[2].path[1])
        store(a) == CHOOSE s \in at(a) : TRUE
        placed  == {a \in files : at(a) # {}}
        loose   == files \ placed
        demand  == MapThenSumSet(LAMBDA a : a[2].cap, loose)
                   + OnceEach(placed, LAMBDA a : <<StorageGroup(data, store(a)), a[2].path[2]>>)
        more    == (IF BlindContexts(data.ctx, {"datastore"}) # {} THEN {"datastores"} ELSE {})
                   \cup (IF \E v \in vms : v.disks = {} /\ ~v.cfg THEN {"no disks"} ELSE {})
                   \cup (IF loose # {} THEN {"unresolved disk"} ELSE {})
                   \cup (IF \E a \in placed : AmbiguousStore(data, store(a)) THEN {"ambiguous datastore"} ELSE {})
    IN  Finish(sc.store = {}, gaps \cup more, Grown(sc, demand) <= 100 * Given(sc.store, 0))

RDMDimension(sc, vms, gaps) ==
    LET raw    == {a \in Attachments(vms) : IsRDM(a[2])}
        named  == {a \in raw : a[2].lun # Unknown}
        shared(d) == d.bus \notin {Unknown, "noSharing"} \/ d.sharing \notin {Unknown, "sharingNone", "none"}
        demand == MapThenSumSet(LAMBDA a : a[2].cap, raw \ named) + OnceEach(named, LAMBDA a : a[2].lun)
        more   == (IF \E v \in vms : v.disks = {} /\ ~v.cfg THEN {"no disks"} ELSE {})
                  \cup (IF \E a \in raw \ named : shared(a[2]) THEN {"shared RDM"} ELSE {})
    IN  Finish(raw # {} /\ sc.rdm = {}, gaps \cup more, raw = {} \/ Grown(sc, demand) <= 100 * Given(sc.rdm, 0))

Dimensions(data, sc) ==
    LET vms  == SizedVMs(data, sc)
        gaps == VMGaps(data, sc)
    IN  {CPUDimension(sc, vms, gaps), MemoryDimension(sc, vms, gaps), ReservationDimension(sc, vms, gaps),
         DatastoreDimension(data, sc, vms, gaps), RDMDimension(sc, vms, gaps)}

EvaluateSizing(data, sc) ==
    LET verdicts == Dimensions(data, sc) IN
    IF "insufficient" \in verdicts THEN "insufficient" ELSE IF "unknown" \in verdicts THEN "unknown" ELSE "fit"

-----------------------------------------------------------------------------
(* Decommission.  Checks give "pass", "fail" or "unknown".  The first      *)
(* observation that does not pass decides; they come in the order of their *)
(* contexts.                                                               *)

Deciding(data, seen, Says(_)) ==
    LET speaking == {v \in seen : Says(v) # "pass"}
        at(v)    == Min({i \in DOMAIN data.ctx : data.ctx[i].name = v.ctx})
    IN  IF speaking = {} THEN "pass" ELSE Says(CHOOSE v \in speaking : \A w \in speaking : at(v) <= at(w))

PowerStateCheck(data, seen) ==
    Deciding(data, seen, LAMBDA v : CASE v.power = "poweredOff"                  -> "pass"
                                      [] v.power \in {"poweredOn", "suspended"} -> "fail"
                                      [] OTHER                                   -> "unknown")

ConnectionStateCheck(data, seen) ==
    Deciding(data, seen, LAMBDA v : CASE v.conn = "connected" -> "pass"
                                      [] v.conn = Unknown     -> "unknown"
                                      [] OTHER                -> "fail")

SnapshotCheck(data, seen) == Deciding(data, seen, LAMBDA v : IF v.snaps # {} THEN "fail" ELSE "pass")

MediaCheckUSB(data, seen) ==                    \* seeded fault: CD-ROMs are forgotten
    Deciding(data, seen, LAMBDA v : IF ~v.cfg THEN "unknown" ELSE IF "true" \in v.usbs THEN "fail" ELSE "pass")

MediaCheck(data, seen) ==
    LET says(devices) == IF "true" \in devices THEN "fail" ELSE IF Unknown \in devices THEN "unknown" ELSE "pass" IN
    IF data.schema < 6 THEN "unknown"
    ELSE Deciding(data, seen, LAMBDA v : IF ~v.cfg THEN "unknown"
                                         ELSE IF says(v.cdroms) # "pass" THEN says(v.cdroms) ELSE says(v.usbs))

DiskReferenceCheck(seen) ==
    IF \E v \in seen : ~v.cfg \/ \E d \in v.disks : d.path = Unknown THEN "unknown" ELSE "pass"

RawDiskGaps(seen) == {v \in seen : \E d \in v.disks : d.raw}

DependencyCheck(kind, seen, dep, open) ==
    LET needed  == \E v \in seen : IF kind = "datastore" THEN v.stores # {} \/ v.disks # {} ELSE v.nics # {}
        matched == \E e \in dep.edges : e.to.kind = kind /\ e.conf # "unresolved"
    IN  IF ~needed THEN "pass"
        ELSE IF dep.blind # {} \/ open # {} \/ (kind = "datastore" /\ RawDiskGaps(seen) # {}) \/ ~matched
        THEN "unknown" ELSE "pass"

ObservationsFor(data, s) ==
    {v \in data.vms : ~v.template /\ \E n \in s : n.ctx = v.ctx /\ IF n.id # Unknown THEN n.id = v.id ELSE n.name = v.name}

CoverageCheck(data, seen, dep) ==
    IF \/ dep.blind # {}
       \/ \E v \in seen, c \in ToSet(data.ctx) : c.name = v.ctx /\ ~Successful(StatusOf(c, "vm"))
    THEN "unknown" ELSE "pass"

SubjectChecks(data, g, s) ==
    LET dep     == Dependencies(g, s, 1)
        seen    == ObservationsFor(data, s)
        open(k) == UnresolvedReferences(g, s, {k})
    IN  IF seen = {} THEN {"unknown"}
        ELSE {PowerStateCheck(data, seen), ConnectionStateCheck(data, seen), SnapshotCheck(data, seen), MediaCheck(data, seen),
              DiskReferenceCheck(seen), DependencyCheck("datastore", seen, dep, open("datastore")),
              DependencyCheck("network", seen, dep, open("network")), CoverageCheck(data, seen, dep),
              IF open("host") \cup open("cluster") # {} THEN "unknown" ELSE "pass"}

SubjectVerdict(checks) ==
    IF "fail" \in checks THEN "blocked" ELSE IF "unknown" \in checks THEN "unknown" ELSE "no-blockers"

ScopeData(data, contexts) ==
    LET in(S) == {x \in S : contexts = {} \/ x.ctx \in contexts} IN
    [data EXCEPT !.ctx = FilterContexts(@, contexts), !.vms = in(@), !.hosts = in(@), !.stores = in(@),
                 !.clusters = in(@), !.switches = in(@), !.pools = in(@), !.nets = in(@)]

EvaluateDecommission(data, query, contexts) ==
    LET scoped   == ScopeData(data, contexts)
        g        == Build(scoped)
        subjects == Resolve(g, "vm", query, contexts)
        verdicts == {SubjectVerdict(SubjectChecks(scoped, g, s)) : s \in subjects}
    IN  IF ~ValidateStoredContexts(contexts, ToSet(data.ctx)) \/ subjects = {} THEN "unknown"
        ELSE IF "blocked" \in verdicts THEN "blocked"
        ELSE IF "unknown" \in verdicts \/ Cardinality(subjects) > 1 THEN "unknown"
        ELSE "no-blockers"
=============================================================================
