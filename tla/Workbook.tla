------------------------------ MODULE Workbook ------------------------------
(***************************************************************************)
(* The RVTools-compatible export (internal/report).  A stored run becomes  *)
(* a workbook: per worksheet a set of headers and a sequence of rows, a    *)
(* row being a record from header to cell.  An absent cell, and the empty  *)
(* string, are Unknown.  Headers are named without blanks: VMID stands for *)
(* "VM ID", Server for "VI SDK Server", UUID for "VI SDK UUID".            *)
(*                                                                         *)
(* A run is [id, schema, contexts, vms, res]: contexts is a sequence of    *)
(* [name, endpoint, vcid, vm (status of the VM collection), coll (kind ->  *)
(* status), perf (a performance window is stored)], vms and res sequences  *)
(* of observations with their context.  Folders are sequences of names     *)
(* below the datacenter, file paths are [ds, dir, leaf].                   *)
(***************************************************************************)
EXTENDS Naturals, Integers, Sequences, SequencesExt

CONSTANT Unknown

Answered == {"success", "empty"}

\* The kinds of resource observation and what the export does with each.
ExportedKinds == {"host", "cluster", "datastore", "resourcepool", "vapp", "dvswitch", "license"}

\* A resource of a kind the exporter does not know makes the whole export fail; a network is skipped.
ValidResources(run) ==
    \A i \in DOMAIN run.res : run.res[i].kind \in ExportedKinds \cup {"network"}

\* canonicalData: devices by key, snapshots by creation time and then by ID, addresses and port groups
\* sorted (the order of rows of different objects is left as it is stored).
ByKey(s) == SortSeq(s, LAMBDA a, b : a.key < b.key)
CanonicalVM(vm) ==
    [vm EXCEPT !.disks = ByKey(@), !.nics = ByKey(@), !.media = ByKey(@),
               !.snaps = SortSeq(@, LAMBDA a, b : a.time < b.time \/ (a.time = b.time /\ a.seq < b.seq))]
Canonical(run) == [run EXCEPT !.vms = [i \in DOMAIN @ |-> CanonicalVM(@[i])]]

\* The dvswitch and host payloads are put in order before they are rendered.
CanonicalSwitch(sw) == [sw EXCEPT !.portgroups = ByKey(@)]
CanonicalHost(h) == [h EXCEPT !.nics = ByKey(@), !.portgroups = ByKey(@), !.paths = ByKey(@)]

ContextOf(run, name) ==
    SelectSeq(run.contexts, LAMBDA c : c.name = name)[1]

\* The VI SDK Server: the endpoint's host, without the URL scheme.
SdkServer(run, name) == ContextOf(run, name).endpoint.host

\* Each row ends with where it was observed.
Provenance(run, ctx, vcid) ==
    [Server |-> SdkServer(run, ctx), UUID |-> vcid, Context |-> ctx]

Resources(run, kind) == SelectSeq(run.res, LAMBDA r : r.kind = kind)

\* The vApp a VM is a direct member of, with the pool path of that vApp when exactly one pool or parent
\* vApp of the same context, datacenter and compute resource bears the recorded parent name.
VAppPath(run, v) ==
    LET parents == SelectSeq(run.res, LAMBDA p :
                     /\ p.kind \in (IF v.nested THEN {"vapp"} ELSE {"resourcepool"})
                     /\ p.ctx = v.ctx /\ p.name = v.parent /\ p.dc = v.dc)
    IN  IF Len(parents) = 1 /\ ~v.nested THEN parents[1].path \o <<v.name>> ELSE Unknown

\* The pool path without the datacenter's host folder: /DC/host/C1/Resources is written /DC/C1/Resources.
PoolPath(p) == SelectSeq(p.path, LAMBDA s : s # "host")

\* vmPlacements: a VM's pool or, when it is in one, its vApp (vApps are indexed last and win).
PlacementOf(run, vm) ==
    LET vapps == SelectSeq(Resources(run, "vapp"), LAMBDA v : v.ctx = vm.ctx /\ vm.id \in v.members)
        pools == SelectSeq(Resources(run, "resourcepool"), LAMBDA p : p.ctx = vm.ctx /\ vm.id \in p.members)
    IN  IF vapps # <<>> THEN [vapp |-> Last(vapps).name, pool |-> VAppPath(run, Last(vapps))]
        ELSE [vapp |-> Unknown, pool |-> IF pools # <<>> THEN PoolPath(Last(pools)) ELSE Unknown]

\* RVTools roots a folder at the datacenter, and leaves it empty for a VM in a vApp.
RvtoolsFolder(run, vm) ==
    IF PlacementOf(run, vm).vapp # Unknown THEN Unknown
    ELSE IF vm.dc = Unknown \/ vm.folder = Unknown THEN vm.folder
    ELSE <<vm.dc>> \o vm.folder

\* vmTail: the identity, place and provenance columns the per-VM worksheets share.
VMTail(run, vm) ==
    [VM |-> vm.name, VMID |-> vm.id, VMUUID |-> vm.uuid, Datacenter |-> vm.dc, Host |-> vm.host,
     Cluster |-> vm.cluster, Annotation |-> vm.annotation, Folder |-> RvtoolsFolder(run, vm)]
        @@ Provenance(run, vm.ctx, vm.vcid)

\* hostTail: the same for the worksheets about a host's parts.
HostTail(run, h) ==
    [Host |-> h.name, Datacenter |-> h.dc, Cluster |-> h.cluster, ObjectID |-> h.id]
        @@ Provenance(run, h.ctx, h.vcid)

\* One row per member of a VM's (or host's) list of parts, each made by Row.
PartRows(owners, Parts(_), Row(_, _)) ==
    FlattenSeq([i \in DOMAIN owners |-> [j \in DOMAIN Parts(owners[i]) |-> Row(owners[i], Parts(owners[i])[j])]])

\* Counts of devices are blank when the run did not record devices.
DeviceCount(run, vm, n) == IF run.schema >= 2 THEN n ELSE Unknown

\* vInfo.
VMRows(run) ==
    [i \in DOMAIN run.vms |->
        LET vm == run.vms[i]
        IN  [SMBIOS |-> vm.bios, CPUs |-> vm.cpu, Memory |-> vm.mem, InUse |-> vm.used,
             Disks |-> DeviceCount(run, vm, Len(vm.disks)), NICs |-> DeviceCount(run, vm, Len(vm.nics)),
             Consolidation |-> vm.consolidation, HAPriority |-> vm.ha, Path |-> vm.vmx,
             ResourcePool |-> PlacementOf(run, vm).pool, VApp |-> PlacementOf(run, vm).vapp]
                @@ VMTail(run, vm)]

\* vCPU and vMemory.
CPURows(run) == [i \in DOMAIN run.vms |-> [CPUs |-> run.vms[i].cpu] @@ VMTail(run, run.vms[i])]
MemoryRows(run) == [i \in DOMAIN run.vms |-> [SizeMiB |-> run.vms[i].mem] @@ VMTail(run, run.vms[i])]

\* vTools: the installation status, and the running state in a column of its own.
ToolsRows(run) ==
    [i \in DOMAIN run.vms |->
        [Tools |-> run.vms[i].tools.status, Running |-> run.vms[i].tools.state,
         VersionStatus |-> run.vms[i].tools.version] @@ VMTail(run, run.vms[i])]

\* vDisk.
DiskRows(run) ==
    PartRows(run.vms, LAMBDA vm : vm.disks, LAMBDA vm, d :
        [DiskKey |-> d.key, CapacityMiB |-> d.cap, Thin |-> d.thin, Path |-> d.path] @@ VMTail(run, vm))

\* vPartition: Tools may name several disks behind a filesystem, or none, which stays blank.
PartitionRows(run) ==
    PartRows(run.vms, LAMBDA vm : vm.parts, LAMBDA vm, p :
        [DiskKey |-> IF p.disks = {} THEN Unknown ELSE p.disks, FreeMiB |-> p.free, Filesystem |-> p.fs]
            @@ VMTail(run, vm))

\* vNetwork, and vCD and vUSB, which differ in their columns only.
NetworkRows(run) ==
    PartRows(run.vms, LAMBDA vm : vm.nics, LAMBDA vm, n :
        [Label |-> n.label, Network |-> n.network, Connected |-> n.connected] @@ VMTail(run, vm))
MediaRows(run, sheet) ==
    PartRows(run.vms, LAMBDA vm : SelectSeq(vm.media, LAMBDA m : m.sheet = sheet), LAMBDA vm, m :
        [DeviceKey |-> m.key, Connected |-> m.connected, Backing |-> m.backing] @@ VMTail(run, vm))

\* vSnapshot: a zero creation time is written as an empty cell.
SnapshotRows(run) ==
    PartRows(run.vms, LAMBDA vm : vm.snaps, LAMBDA vm, s :
        [Name |-> s.name, DateTime |-> IF s.time = 0 THEN Unknown ELSE s.time] @@ VMTail(run, vm))

\* vHost, vCluster and vDatastore: one row per stored resource of the kind.
HostRows(run) ==
    LET hs == Resources(run, "host")
    IN  [i \in DOMAIN hs |->
            [Cores |-> hs[i].cores, MemoryMB |-> hs[i].mem, Speed |-> hs[i].mhz, Maintenance |-> hs[i].maintenance,
             NumNICs |-> Len(hs[i].nics), Certificate |-> hs[i].certificate] @@ HostTail(run, hs[i])]
ClusterRows(run) ==
    LET cs == Resources(run, "cluster")
    IN  [i \in DOMAIN cs |->
            [Name |-> cs[i].name, TotalCpu |-> cs[i].cpu, TotalMemory |-> cs[i].mem, NumCpuCores |-> cs[i].cores,
             HAEnabled |-> cs[i].ha, FailoverLevel |-> cs[i].failover, ObjectID |-> cs[i].id, Datacenter |-> cs[i].dc]
                @@ Provenance(run, cs[i].ctx, cs[i].vcid)]
DatastoreRows(run) ==
    LET ds == Resources(run, "datastore")
    IN  [i \in DOMAIN ds |->
            [Name |-> ds[i].name, CapacityMiB |-> ds[i].cap, FreeMiB |-> ds[i].free, Accessible |-> ds[i].accessible,
             Address |-> ds[i].address, ObjectID |-> ds[i].id, Datacenter |-> ds[i].dc]
                @@ Provenance(run, ds[i].ctx, ds[i].vcid)]

\* vNIC (with vHBA and vSC+VMK), vSwitch and vPort, whose Rolling Order is the opposite of failback, and
\* vMultiPath, whose Object ID column does not name the host.
NICRows(run) ==
    PartRows(Resources(run, "host"), LAMBDA h : CanonicalHost(h).nics, LAMBDA h, n :
        [Device |-> n.device, Speed |-> n.speed] @@ HostTail(run, h))
Inverted(b) == IF b = Unknown THEN Unknown ELSE ~b
PortRows(run) ==
    PartRows(Resources(run, "host"), LAMBDA h : CanonicalHost(h).portgroups, LAMBDA h, p :
        [PortGroup |-> p.name, VLAN |-> p.vlan, RollingOrder |-> Inverted(p.failback)] @@ HostTail(run, h))
MultipathRows(run) ==
    PartRows(Resources(run, "host"), LAMBDA h : CanonicalHost(h).paths, LAMBDA h, p :
        [Disk |-> p.lun, PathCount |-> p.count, DeadPaths |-> p.dead] @@ HostTail(run, h))

\* dvSwitch and dvPort.  A port group names its switch by name and the switch's datacenter.
SwitchTail(run, sw) == [DVS |-> sw.name, Datacenter |-> sw.dc] @@ Provenance(run, sw.ctx, sw.vcid)
DVSwitchRows(run) ==
    LET ss == Resources(run, "dvswitch")
    IN  [i \in DOMAIN ss |-> [ObjectID |-> ss[i].id, MTU |-> ss[i].mtu] @@ SwitchTail(run, ss[i])]
DVPortRows(run) ==
    PartRows(Resources(run, "dvswitch"), LAMBDA sw : CanonicalSwitch(sw).portgroups, LAMBDA sw, p :
        [PortGroup |-> p.name, Key |-> p.pgkey, VLAN |-> p.vlan, Uplink |-> p.uplink,
         RollingOrder |-> Inverted(p.failback), ObjectID |-> p.pgkey] @@ SwitchTail(run, sw))

\* vFileInfo: a file per row, or one explanatory row when there is none.
FileInfoRows(run) ==
    LET rows == PartRows(Resources(run, "datastore"), LAMBDA d : IF d.files = Unknown THEN <<>> ELSE d.files,
                    LAMBDA d, f : [Path |-> f, DatastoreID |-> d.id] @@ Provenance(run, d.ctx, d.vcid))
    IN  IF rows = <<>> THEN <<[Note |-> "no file rows"]>> ELSE rows

\* vLicense, whose key is always redacted, written only when some context recorded licenses.
LicensesRecorded(run) ==
    \/ \E i \in DOMAIN run.contexts : run.contexts[i].coll["license"] # "not recorded"
    \/ Resources(run, "license") # <<>>
LicenseRows(run) ==
    LET ls == Resources(run, "license")
    IN  [i \in DOMAIN ls |-> [Name |-> ls[i].name, Key |-> "redacted", Used |-> ls[i].used]
                                @@ Provenance(run, ls[i].ctx, ls[i].vcid)]

\* vsfleetPerformance: a context without a stored window is said to be "not collected".
PerformanceRows(run) ==
    [i \in DOMAIN run.contexts |->
        [Context |-> run.contexts[i].name, Status |-> IF run.contexts[i].perf THEN "collected" ELSE "not collected"]]

-----------------------------------------------------------------------------
\* The kind of collection each worksheet answers for.
SheetKind(sheet) ==
    CASE sheet \in {"vHost", "vNIC", "vPort", "vMultiPath"} -> "host"
      [] sheet \in {"dvSwitch", "dvPort"} -> "dvswitch"
      [] sheet = "vCluster" -> "cluster"
      [] sheet = "vDatastore" -> "datastore"
      [] sheet = "vLicense" -> "license"
      [] OTHER -> "vm"

\* The schema a worksheet's evidence first appeared in.
SheetSchema(sheet) ==
    CASE sheet \in {"vDisk", "vNetwork"} -> 2
      [] sheet = "vPartition" -> 4
      [] sheet \in {"vCD", "vUSB"} -> 6
      [] sheet \in {"vNIC", "vPort", "vMultiPath"} -> 9
      [] sheet \in {"dvSwitch", "dvPort"} -> 10
      [] OTHER -> 0

\* How much of a context's VMs reported guest filesystems.
PartitionStatus(run, c) ==
    LET vms == SelectSeq(run.vms, LAMBDA vm : vm.ctx = c.name)
        silent == SelectSeq(vms, LAMBDA vm : vm.parts = <<>>)
    IN  IF c.vm \notin Answered THEN c.vm ELSE IF silent # <<>> THEN "partial" ELSE c.vm

\* vsfleetCoverage: what one context's collection says about one worksheet.
CoverageStatus(run, c, sheet) ==
    IF run.schema < SheetSchema(sheet) THEN "not recorded"
    ELSE IF sheet = "vPartition" THEN PartitionStatus(run, c)
    ELSE IF SheetKind(sheet) = "vm" THEN c.vm
    ELSE c.coll[SheetKind(sheet)]

CoveredOrder == <<"vInfo", "vCPU", "vMemory", "vDisk", "vPartition", "vNetwork", "vCD", "vUSB", "vSnapshot", "vTools",
                  "vCluster", "vHost", "vNIC", "vPort", "dvSwitch", "dvPort", "vDatastore", "vMultiPath">>
CoveredSheets == ToSet(CoveredOrder)
CoverageRows(run) ==
    LET sheets == CoveredOrder \o (IF LicensesRecorded(run) THEN <<"vLicense">> ELSE <<>>)
    IN  FlattenSeq([i \in DOMAIN run.contexts |-> [j \in DOMAIN sheets |->
            [Context |-> run.contexts[i].name, Endpoint |-> run.contexts[i].endpoint.host, Sheet |-> sheets[j],
             Status |-> CoverageStatus(run, run.contexts[i], sheets[j]), Error |-> run.contexts[i].error]]])

-----------------------------------------------------------------------------
RowsOf(run, sheet) ==
    CASE sheet = "vInfo" -> VMRows(run)          [] sheet = "vCPU" -> CPURows(run)
      [] sheet = "vMemory" -> MemoryRows(run)    [] sheet = "vDisk" -> DiskRows(run)
      [] sheet = "vPartition" -> PartitionRows(run) [] sheet = "vNetwork" -> NetworkRows(run)
      [] sheet \in {"vCD", "vUSB"} -> MediaRows(run, sheet) [] sheet = "vSnapshot" -> SnapshotRows(run)
      [] sheet = "vTools" -> ToolsRows(run)      [] sheet = "vCluster" -> ClusterRows(run)
      [] sheet = "vHost" -> HostRows(run)        [] sheet = "vNIC" -> NICRows(run)
      [] sheet = "vPort" -> PortRows(run)        [] sheet = "dvSwitch" -> DVSwitchRows(run)
      [] sheet = "dvPort" -> DVPortRows(run)     [] sheet = "vDatastore" -> DatastoreRows(run)
      [] sheet = "vMultiPath" -> MultipathRows(run) [] sheet = "vLicense" -> LicenseRows(run)
      [] sheet = "vFileInfo" -> FileInfoRows(run) [] sheet = "vsfleetCoverage" -> CoverageRows(run)
      [] sheet = "vsfleetPerformance" -> PerformanceRows(run)

\* The headers of each worksheet are fixed: a worksheet without rows still has all of them.
VMTailHeaders == {"VM", "VMID", "VMUUID", "Datacenter", "Host", "Cluster", "Annotation", "Folder", "Server", "UUID", "Context"}
HostTailHeaders == {"Host", "Datacenter", "Cluster", "ObjectID", "Server", "UUID", "Context"}
OwnHeaders(sheet) ==
    CASE sheet = "vInfo" -> {"SMBIOS", "CPUs", "Memory", "InUse", "Disks", "NICs", "Consolidation", "HAPriority", "Path", "ResourcePool", "VApp"}
      [] sheet = "vCPU" -> {"CPUs"} [] sheet = "vMemory" -> {"SizeMiB"}
      [] sheet = "vDisk" -> {"DiskKey", "CapacityMiB", "Thin", "Path"}
      [] sheet = "vPartition" -> {"DiskKey", "FreeMiB", "Filesystem"}
      [] sheet = "vNetwork" -> {"Label", "Network", "Connected"}
      [] sheet \in {"vCD", "vUSB"} -> {"DeviceKey", "Connected", "Backing"}
      [] sheet = "vSnapshot" -> {"Name", "DateTime"} [] sheet = "vTools" -> {"Tools", "Running", "VersionStatus"}
      [] sheet = "vHost" -> {"Cores", "MemoryMB", "Speed", "Maintenance", "NumNICs", "Certificate"}
      [] sheet = "vNIC" -> {"Device", "Speed"} [] sheet = "vPort" -> {"PortGroup", "VLAN", "RollingOrder"}
      [] sheet = "vMultiPath" -> {"Disk", "PathCount", "DeadPaths"}
      [] sheet = "vCluster" -> {"Name", "TotalCpu", "TotalMemory", "NumCpuCores", "HAEnabled", "FailoverLevel"}
      [] sheet = "vDatastore" -> {"Name", "CapacityMiB", "FreeMiB", "Accessible", "Address"}
      [] sheet = "dvSwitch" -> {"DVS", "MTU"}
      [] sheet = "dvPort" -> {"PortGroup", "Key", "VLAN", "Uplink", "RollingOrder", "DVS"}
      [] sheet = "vLicense" -> {"Name", "Key", "Used"} [] sheet = "vFileInfo" -> {"Path", "DatastoreID", "Note"}
      [] OTHER -> {"Endpoint", "Sheet", "Status", "Error"}
VMSheets == {"vInfo", "vCPU", "vMemory", "vDisk", "vPartition", "vNetwork", "vCD", "vUSB", "vSnapshot", "vTools"}
Headers(sheet) ==
    OwnHeaders(sheet) \cup
        (IF sheet \in VMSheets THEN VMTailHeaders
         ELSE IF sheet \in {"vHost", "vNIC", "vPort", "vMultiPath", "vCluster", "vDatastore", "dvSwitch", "dvPort"} THEN HostTailHeaders
         ELSE {"Server", "UUID", "Context"})

\* rvtoolsSheets: every worksheet in its order; the license sheet only for a run that recorded licenses.
SheetsFor(run) ==
    CoveredSheets \cup {"vFileInfo", "vsfleetCoverage", "vsfleetPerformance"}
        \cup (IF LicensesRecorded(run) THEN {"vLicense"} ELSE {})
RvtoolsSheets(run) ==
    LET data == Canonical(run)
    IN  [s \in SheetsFor(run) |-> [cols |-> Headers(s), rows |-> RowsOf(data, s)]]
=============================================================================
