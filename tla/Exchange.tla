------------------------------- MODULE Exchange -------------------------------
(***************************************************************************)
(* A run leaves as a workbook and comes back: an RVTools-compatible export *)
(* (Workbook) or a scoped sharing export (Share) of a live run, edits of   *)
(* the file on the way (another RVTools build's columns, a worksheet or a  *)
(* column deleted, a row pasted twice, an identity cell blanked, clocks    *)
(* written in local time), and the import of what is left                  *)
(* (WorkbookImport).                                                       *)
(***************************************************************************)
EXTENDS WorkbookImport, Share, FiniteSets

CONSTANTS
    LiveRuns,       \* the captured runs that are exported
    MaxEdits,       \* bound on the number of edits of a workbook
    Formats,        \* sets of columns that some RVTools build does not write
    ContextMaps,    \* the --map-context choices
    LocalShift,     \* the distance of the exporting machine's clock from UTC
    NamedUplinks    \* the port group names that the generated uplink name matches

ASSUME EditBound == MaxEdits \in Nat

VARIABLES
    run,      \* the live run
    phase,    \* "live", "book", "shared", "imported" or "refused"
    book,     \* the workbook
    edits,    \* the number of edits made
    other,    \* whether the workbook is another build's
    shift,    \* how far the snapshot times of the workbook are from UTC
    zone,     \* the --timezone the import was given
    cmap,     \* the --map-context the import was given
    got,      \* the imported run
    shared    \* the shared workbook and its options

vars == <<run, phase, book, edits, other, shift, zone, cmap, got, shared>>

Init ==
    /\ run \in LiveRuns
    /\ phase = "live" /\ book = Unknown /\ edits = 0 /\ other = FALSE /\ shift = 0 /\ zone = Unknown /\ cmap = <<>>
    /\ got = Unknown /\ shared = Unknown

\* vsfleet export rvtools.
Export ==
    /\ phase = "live" /\ ValidResources(run)
    /\ book' = RvtoolsSheets(run) /\ phase' = "book"
    /\ UNCHANGED <<run, edits, other, shift, zone, cmap, got, shared>>

\* vsfleet export share; a refused request writes nothing.
ExportShared(opts) ==
    /\ phase = "live" /\ ValidResources(run)
    /\ ~ShareRefused(RvtoolsSheets(run), opts)
    /\ shared' = [opts |-> opts] @@ Shared(run, opts) /\ phase' = "shared"
    /\ UNCHANGED <<run, book, edits, other, shift, zone, cmap, got>>
RefuseShared(opts) ==
    /\ phase = "live" /\ ShareRefused(RvtoolsSheets(run), opts)
    /\ UNCHANGED vars

-----------------------------------------------------------------------------
\* What happens to the file between the two machines (external).
Edit(b) ==
    /\ phase = "book" /\ edits < MaxEdits
    /\ edits' = edits + 1 /\ book' = b /\ b # book
    /\ UNCHANGED <<run, phase, other, shift, zone, cmap, got, shared>>

Without(t, cols) == [t EXCEPT !.cols = @ \ cols]

DropSheet(s) == Edit([x \in DOMAIN book \ {s} |-> book[x]])
DropColumn(s, h) == Edit([book EXCEPT ![s] = Without(@, {h})])
PasteTwice(s, i) == Edit([book EXCEPT ![s].rows = Append(@, @[i])])
BlankCell(s, i, h) == Edit([book EXCEPT ![s].rows[i] = [@ EXCEPT ![h] = Unknown]])

\* A workbook of another build: it lacks some columns everywhere, and RVTools writes snapshot times in the
\* local time of the machine it runs on.
OtherBuild(cols, local) ==
    /\ phase = "book" /\ edits = 0 /\ ~other
    /\ other' = TRUE /\ shift' = (IF local THEN LocalShift ELSE 0)
    /\ book' = [x \in DOMAIN book |->
          LET t == Without(book[x], cols)
          IN  IF ~local \/ x # "vSnapshot" THEN t
              ELSE [t EXCEPT !.rows = [i \in DOMAIN @ |-> [@[i] EXCEPT !.DateTime = @ + LocalShift]]]]
    /\ UNCHANGED <<run, phase, edits, zone, cmap, got, shared>>

\* vsfleet import rvtools, with the time zone given or not.
Import(m, z) ==
    /\ phase = "book" /\ ~ParseFails(book, m)
    /\ got' = ImportedRun(book, "imported", m, z, NamedUplinks)
    /\ zone' = z /\ cmap' = m /\ phase' = "imported"
    /\ UNCHANGED <<run, book, edits, other, shift, shared>>
RefuseImport(m) ==
    /\ phase = "book" /\ ParseFails(book, m)
    /\ phase' = "refused" /\ cmap' = m
    /\ UNCHANGED <<run, book, edits, other, shift, zone, got, shared>>

ShareOptions == [profile : {"sizing-summary", "full-inventory"}, pseudonymize : BOOLEAN, link : BOOLEAN, key : BOOLEAN]

\* The columns worth deleting one at a time, and the cells worth blanking: identities, capacities, dates.
Deletable(s) == CriticalColumns(s) \cup {"ObjectID", "VMID", "VMUUID", "Datacenter", "CPUs", "Uplink", "Tools", "Filesystem"}
Blankable(s) == {"ObjectID", "VMID"} \cup (IF s \in {"vHost", "vCluster", "vDatastore", "vSnapshot"} THEN CriticalColumns(s) ELSE {})

Next ==
    \/ Export
    \/ \E o \in ShareOptions : ExportShared(o) \/ RefuseShared(o)
    \/ phase = "book" /\
        \/ \E s \in DOMAIN book \cap RecognizedSheets :
              \/ DropSheet(s)
              \/ \E h \in Deletable(s) \cap book[s].cols : (s # "vSnapshot" \/ h = "DateTime") /\ DropColumn(s, h)
              \/ \E i \in DOMAIN book[s].rows :
                    \/ s # "vSnapshot" /\ s \notin VMSheets \ {"vInfo"} /\ PasteTwice(s, i)
                    \/ \E h \in Blankable(s) \cap DOMAIN book[s].rows[i] : BlankCell(s, i, h)
        \/ \E cols \in Formats, local \in BOOLEAN : OtherBuild(cols, local)
        \/ \E m \in ContextMaps : RefuseImport(m) \/ \E z \in {Unknown} \cup (IF shift # 0 THEN {shift} ELSE {}) : Import(m, z)
    \/ phase \in {"imported", "refused", "shared"} /\ UNCHANGED vars

Spec == Init /\ [][Next]_vars

-----------------------------------------------------------------------------
Imported == phase = "imported"
CollectedIn(r, ctx, kind) == ContextOf(r, ctx).coll[kind] \in Answered

\* The context of the live run that an imported context came from: its name, or its server's when the
\* workbook has no vsfleet Context column, unless it was mapped.
Unmapped(name) == IF \E k \in DOMAIN cmap : cmap[k] = name THEN CHOOSE k \in DOMAIN cmap : cmap[k] = name ELSE name
Origin(name) ==
    CHOOSE c \in {d.name : d \in ToSet(run.contexts)} :
        Unmapped(name) \in {c, ContextOf(run, c).endpoint.host}

\* What a VM is, without the order of its parts and what no worksheet carries.
VMFacts(r, vm) ==
    [id |-> vm.id, uuid |-> vm.uuid, name |-> vm.name, cpu |-> vm.cpu, mem |-> vm.mem, used |-> vm.used,
     place |-> <<vm.dc, vm.cluster, vm.host>>, vmx |-> vm.vmx, ha |-> vm.ha, tools |-> vm.tools,
     disks |-> ToSet(vm.disks), parts |-> ToSet(vm.parts), media |-> ToSet(vm.media),
     nics |-> {[n EXCEPT !.key = 0] : n \in ToSet(vm.nics)},
     snaps |-> {<<s.name, s.time>> : s \in ToSet(vm.snaps)},
     folder |-> IF PlacementOf(run, vm).vapp # Unknown THEN Unknown ELSE vm.folder]
VMsOf(r, ctx) == {VMFacts(r, vm) : vm \in {v \in ToSet(r.vms) : v.ctx = ctx}}

\* The same for hosts, clusters, datastores and switches.  The parts of a host that two contexts of one
\* vCenter list are left out: the importer attaches them all to the later one.
Anon(parts) == {[p EXCEPT !.key = 0] : p \in ToSet(parts)}
ListedTwice(o) == \E x \in ToSet(run.res) : x.kind = "host" /\ x.vcid = o.vcid /\ x.id = o.id /\ x.ctx # Origin(o.ctx)
HostParts(o) == <<Anon(o.nics), Anon(o.portgroups), Anon(o.paths)>>
ResourceFacts(o) ==
    CASE o.kind = "host" -> <<o.id, o.name, o.dc, o.cluster, o.cores, o.mem, o.mhz, o.maintenance, o.certificate,
                              IF ListedTwice(o) THEN <<>> ELSE HostParts(o)>>
      [] o.kind = "cluster" -> <<o.id, o.name, o.dc, o.cpu, o.mem, o.cores, o.ha, o.failover>>
      [] o.kind = "datastore" -> <<o.id, o.name, o.dc, o.cap, o.free, o.accessible, o.address>>
      [] o.kind = "dvswitch" -> <<o.id, o.name, o.dc, o.mtu, Anon(o.portgroups)>>
ResourcesOf(r, ctx, kind) == {ResourceFacts(o) : o \in {x \in ToSet(r.res) : x.ctx = ctx /\ x.kind = kind}}

RoundTripKinds == {"host", "cluster", "datastore", "dvswitch"}

\* An export nobody edited brings every VM back with all of its parts (disks, adapters, filesystems, media,
\* snapshots, Tools, folder unless it is in a vApp), and every host, cluster, datastore and switch the live
\* run had collected: two same-named VMs, clones with one BIOS UUID, one managed-object ID used by two
\* vCenters and two same-named switches are all told apart.
RoundTrip ==
    Imported /\ edits = 0 /\ ~other =>
        \A c \in ToSet(got.contexts) :
            /\ VMsOf(got, c.name) = VMsOf(run, Origin(c.name))
            /\ \A k \in RoundTripKinds : CollectedIn(run, Origin(c.name), k) =>
                    /\ c.coll[k] \in Answered
                    /\ ResourcesOf(got, c.name, k) = ResourcesOf(run, Origin(c.name), k)

\* What the planning rules read of a resource.
Capacity(o) ==
    CASE o.kind = "host" -> <<o.cores, o.mem, o.mhz>>
      [] o.kind = "cluster" -> <<o.cpu, o.mem, o.cores>>
      [] o.kind = "datastore" -> <<o.cap, o.free>>
      [] o.kind = "dvswitch" -> {p.name : p \in ToSet(o.portgroups)}
CapacitiesOf(r, ctx, kind) == {<<o.id, Capacity(o)>> : o \in {x \in ToSet(r.res) : x.ctx = ctx /\ x.kind = kind}}
SnapshotsIn(r, ctx) ==
    UNION {{<<vm.vmx, s.name>> : s \in ToSet(vm.snaps)} : vm \in {v \in ToSet(r.vms) : v.ctx = ctx}}

\* A number whose cell is blank is read as 0.
HasBlankNumber(name, kind, id) ==
    kind # "dvswitch" /\ \E row \in ToSet(book[ResourceSheet(kind)].rows) :
        /\ RowContext(book[ResourceSheet(kind)], row) \in {Origin(name), ContextOf(run, Origin(name)).endpoint.host}
        /\ row["ObjectID"] = id
        /\ \E h \in CriticalColumns(ResourceSheet(kind)) : row[h] = Unknown
\* A snapshot's row is skipped when it has no date, and when several rows of vInfo have the identity it
\* refers to.
InfoPath(i) == book["vInfo"].rows[i]["Path"]
IsSkipped(path, name) ==
    \E row \in ToSet(book["vSnapshot"].rows) :
        LET vms == Carriers(book, RowContext(book["vSnapshot"], row), VMKeys(book["vSnapshot"], row))
        IN  /\ Cell(book["vSnapshot"], row, "Name") = name /\ (\E i \in vms : InfoPath(i) = path)
            /\ row["DateTime"] = Unknown \/ Cardinality(vms) > 1

\* A kind the import records as answered has exactly the objects, with the capacities, that the live run
\* collected: a deleted worksheet, a deleted column, a resource identity that is blank or repeated makes the
\* kind unavailable and never fewer, smaller or empty.  Two lacks are not held against a kind, and are
\* excepted one object at a time: a capacity cell that is blank counts as 0, and snapshot rows that are
\* skipped, for want of a date or because VMs share the identity they refer to, are not missed.
LackNeverImproves ==
    Imported =>
        \A c \in ToSet(got.contexts) :
            /\ \A k \in RoundTripKinds :
                  c.coll[k] \in Answered /\ CollectedIn(run, Origin(c.name), k) =>
                    LET mine == CapacitiesOf(got, c.name, k)
                        live == CapacitiesOf(run, Origin(c.name), k)
                    IN  /\ {p[1] : p \in mine} = {p[1] : p \in live}
                        /\ \A p \in mine : p \in live \/ HasBlankNumber(c.name, k, p[1])
            /\ c.coll["snapshot"] \in Answered =>
                    /\ SnapshotsIn(got, c.name) \subseteq SnapshotsIn(run, Origin(c.name))
                    /\ \A p \in SnapshotsIn(run, Origin(c.name)) \ SnapshotsIn(got, c.name) : IsSkipped(p[1], p[2])

\* Whatever was edited, a disk of an imported VM is a disk of the VM it was exported from, known by the
\* path of its configuration file: no identity that is missing or shared moves it to another one.
OwnPartsOnly ==
    Imported =>
        \A vm \in ToSet(got.vms) : \E src \in ToSet(run.vms) :
            /\ src.ctx = Origin(vm.ctx) /\ src.vmx = vm.vmx
            /\ {d.path : d \in ToSet(vm.disks)} \subseteq {d.path : d \in ToSet(src.disks)}
            /\ {s.name : s \in ToSet(vm.snaps)} \subseteq {s.name : s \in ToSet(src.snaps)}

\* A workbook whose snapshot times are in local time, imported without a time zone beside the live run it
\* came from, is either warned about or has no snapshot that an identity and a name tell apart in both runs.
ShiftNoticed ==
    Imported /\ shift # 0 /\ zone = Unknown /\ ~ZoneWarning(got, run, zone) =>
        \A vm \in ToSet(got.vms) : \A s \in ToSet(vm.snaps) : \A identity \in {vm.uuid, vm.bios} \ {Unknown} :
            Len(SnapTimes(got, identity, s.name)) # 1 \/ Len(SnapTimes(run, identity, s.name)) # 1

\* An import is honest about what it was given: edits, missing parts and another clock never give evidence
\* the live run did not have, move it to another VM, or shift its times unnoticed.
ImportHonest == LackNeverImproves /\ OwnPartsOnly /\ ShiftNoticed

-----------------------------------------------------------------------------
\* Two cells of a shared workbook that the recipient joins by: where the plain export had one value the
\* shared one has one token, and where it had two the shared one has two.
JoinColumns ==
    {<<"vInfo", "VMID", "vDisk", "VMID">>, <<"vInfo", "Context", "vsfleetCoverage", "Context">>,
     <<"vInfo", "Host", "vHost", "Host">>, <<"vInfo", "Cluster", "vCluster", "Name">>}
SameJoin(a, b, plainA, plainB) == (a = b) <=> (plainA = plainB)
JoinsSurvive(sheets, plain) ==
    /\ \A j \in JoinColumns : \A m \in DOMAIN plain[j[1]].rows, n \in DOMAIN plain[j[3]].rows :
          SameJoin(sheets[j[1]].rows[m][j[2]], sheets[j[3]].rows[n][j[4]], plain[j[1]].rows[m][j[2]], plain[j[3]].rows[n][j[4]])
    /\ \A m \in DOMAIN plain["vDisk"].rows, n \in DOMAIN plain["vDatastore"].rows :
          SameJoin(sheets["vDisk"].rows[m]["Path"].ds, sheets["vDatastore"].rows[n]["Name"],
                   plain["vDisk"].rows[m]["Path"].ds, plain["vDatastore"].rows[n]["Name"])

\* The words an error text still shows.
ShownWords(sheets) ==
    UNION {{w.of : w \in {x \in r["Error"] : x.as = Unknown}} :
            r \in ToSet(sheets["vsfleetCoverage"].rows)}
HiddenNames == {c.endpoint.host : c \in ToSet(run.contexts)} \cup {o.name : o \in {x \in ToSet(run.res) : x.kind \in {"host", "datastore"}}}

\* A pseudonymised export keeps the joins of the ordinary one, the datastore inside a file path included,
\* and no error text shows a vCenter, a host or a datastore (of four characters or more) that another
\* worksheet of the same export hides; a run with a gap is said to be partial.
SharedSafely ==
    phase = "shared" /\ shared.opts.pseudonymize =>
        /\ JoinsSurvive(shared.sheets, shared.plain)
        /\ ShownWords(shared.sheets) \cap HiddenNames \subseteq ShortNames
        /\ shared.partial <=> run.status # "complete" \/ \E c \in ToSet(run.contexts) : c.vm \notin Answered \/ \E k \in RoundTripKinds : c.coll[k] \notin Answered

\* The package comment of rvimport: evidence a workbook cannot answer for is recorded as unavailable, never
\* as empty.  Of the resources:
NeverEmptyForUnknown ==
    Imported =>
        \A c \in ToSet(got.contexts) : \A k \in RoundTripKinds :
            ~CollectedIn(run, Origin(c.name), k) => c.coll[k] # "empty"
\* and of the snapshots: none is recorded where the live run had some.
SnapshotsNeverEmpty ==
    Imported =>
        \A c \in ToSet(got.contexts) :
            SnapshotsIn(run, Origin(c.name)) # {} => c.coll["snapshot"] # "empty"
\* A field the workbook does not carry is left absent, rather than a value that reads as evidence.
BlankIsNotZero ==
    Imported =>
        \A c \in ToSet(got.contexts) : \A k \in RoundTripKinds :
            c.coll[k] \in Answered /\ CollectedIn(run, Origin(c.name), k) =>
                CapacitiesOf(got, c.name, k) = CapacitiesOf(run, Origin(c.name), k)
\* The adapters, port groups and paths of a host come back on the host they were exported from.
HostPartsKept ==
    Imported /\ edits = 0 /\ ~other =>
        \A o \in {x \in ToSet(got.res) : x.kind = "host"} :
            \E h \in ToSet(run.res) : h.kind = "host" /\ h.ctx = Origin(o.ctx) /\ h.id = o.id /\ HostParts(h) = HostParts(o)
=============================================================================
