--------------------------- MODULE WorkbookImport ---------------------------
(***************************************************************************)
(* The RVTools importer (internal/rvimport): a workbook, which may have    *)
(* come from any RVTools build and been edited since, becomes a run of the *)
(* assessment store.  Worksheets are read by header name.  What a workbook *)
(* cannot answer for is recorded "unavailable", never "empty".             *)
(***************************************************************************)
EXTENDS Workbook

\* Cell kinds.  Text keeps a blank; a number or a flag that is blank or unreadable reads as 0 or FALSE; an
\* optional one stays Unknown.
Cell(t, row, header) == IF header \in t.cols /\ header \in DOMAIN row THEN row[header] ELSE Unknown
ParseInt(v) == IF v = Unknown THEN 0 ELSE v
ParseBool(v) == IF v = Unknown THEN FALSE ELSE v
Invert(v) == IF v = Unknown THEN Unknown ELSE ~v

RecognizedSheets == CoveredSheets
NeverImported == {"resourcepool", "vapp", "network"}
ImportKinds == {"host", "cluster", "datastore", "snapshot", "dvswitch"}
PersistedKinds == {"vm"} \cup ImportKinds \cup NeverImported

\* The columns whose absence would let a zero improve a verdict.
CriticalColumns(sheet) ==
    CASE sheet = "vHost" -> {"Cores", "MemoryMB", "Speed"}
      [] sheet = "vCluster" -> {"NumCpuCores", "TotalCpu", "TotalMemory"}
      [] sheet = "vDatastore" -> {"CapacityMiB", "FreeMiB"}
      [] sheet = "vSnapshot" -> {"DateTime"}
      [] sheet = "dvSwitch" -> {"ObjectID", "DVS"}
      [] sheet = "dvPort" -> {"PortGroup", "DVS", "Key"}
      [] OTHER -> {}

\* A mistake: only a worksheet with none of its critical columns is refused.
MissingEvery(sheet, t) ==
    IF CriticalColumns(sheet) \cap t.cols = {} THEN CriticalColumns(sheet) ELSE {}
\* missingCritical: RVTools' dvPort has no Key, for which its Object ID stands.
MissingCritical(sheet, t) ==
    {c \in CriticalColumns(sheet) \ t.cols : ~(sheet = "dvPort" /\ c = "Key" /\ "ObjectID" \in t.cols)}

\* rowContext: the vsfleet Context, else the VI SDK Server, names the row's vCenter.
RowContext(t, row) ==
    LET ctx == Cell(t, row, "Context")
    IN  IF ctx # Unknown THEN ctx ELSE Cell(t, row, "Server")

\* vmKeys: managed-object ID and instance UUID; the BIOS UUID, which a clone keeps, only without them; a
\* name only when the row carries nothing stronger.
VMKeys(t, row) ==
    LET id == Cell(t, row, "VMID")
        uuid == Cell(t, row, "VMUUID")
        bios == Cell(t, row, "SMBIOS")
        strong == (IF id # Unknown THEN <<<<"id", id>>>> ELSE <<>>) \o (IF uuid # Unknown THEN <<<<"uuid", uuid>>>> ELSE <<>>)
    IN  IF strong # <<>> THEN strong
        ELSE IF bios # Unknown THEN <<<<"bios", bios>>>>
        ELSE IF Cell(t, row, "VM") # Unknown THEN <<<<"name", Cell(t, row, "VM")>>>>
        ELSE <<>>

\* parseSnapshotTime: a wall clock without an offset is read in the given zone, or as UTC.
SnapshotTime(v, zone) ==
    IF v = Unknown THEN Unknown ELSE IF zone = Unknown THEN v ELSE v - zone

\* folderBelowDatacenter.
FolderBelow(folder, dc) ==
    IF folder = Unknown \/ dc = Unknown \/ folder = <<>> THEN folder
    ELSE IF Head(folder) = dc THEN Tail(folder) ELSE folder

-----------------------------------------------------------------------------
\* The row mappers.  vInfo:
VMFromInfoRow(t, row, ctx) ==
    [ctx |-> ctx.name, vcid |-> ctx.vcid, id |-> Cell(t, row, "VMID"), uuid |-> Cell(t, row, "VMUUID"),
     bios |-> Cell(t, row, "SMBIOS"), name |-> Cell(t, row, "VM"), dc |-> Cell(t, row, "Datacenter"),
     host |-> Cell(t, row, "Host"), cluster |-> Cell(t, row, "Cluster"), annotation |-> Cell(t, row, "Annotation"),
     cpu |-> ParseInt(Cell(t, row, "CPUs")), mem |-> ParseInt(Cell(t, row, "Memory")),
     used |-> ParseInt(Cell(t, row, "InUse")),
     folder |-> FolderBelow(Cell(t, row, "Folder"), Cell(t, row, "Datacenter")),
     consolidation |-> Cell(t, row, "Consolidation"), ha |-> Cell(t, row, "HAPriority"), vmx |-> Cell(t, row, "Path"),
     disks |-> <<>>, nics |-> <<>>, media |-> <<>>, parts |-> <<>>, snaps |-> <<>>,
     tools |-> [status |-> Unknown, state |-> Unknown, version |-> Unknown]]

DiskFromRow(t, row) ==
    [key |-> ParseInt(Cell(t, row, "DiskKey")), cap |-> ParseInt(Cell(t, row, "CapacityMiB")),
     thin |-> Cell(t, row, "Thin"), path |-> Cell(t, row, "Path")]
\* An imported adapter has no device key: the rows keep their order.
NICFromRow(t, row) ==
    [key |-> 0, label |-> Cell(t, row, "Label"), network |-> Cell(t, row, "Network"), connected |-> Cell(t, row, "Connected")]
MediaFromRow(sheet, t, row) ==
    [key |-> ParseInt(Cell(t, row, "DeviceKey")), sheet |-> sheet, connected |-> Cell(t, row, "Connected"),
     backing |-> Cell(t, row, "Backing")]
PartitionFromRow(t, row) ==
    [disks |-> IF Cell(t, row, "DiskKey") = Unknown THEN {} ELSE Cell(t, row, "DiskKey"),
     free |-> ParseInt(Cell(t, row, "FreeMiB")), fs |-> Cell(t, row, "Filesystem")]

\* applyToolsStatus and deriveToolsDetail: old exports wrote the running state into Tools; "not installed"
\* and "not running" imply the details the workbook left empty, the other values imply nothing.
RunningStates == {"guestToolsRunning", "guestToolsNotRunning"}
ToolsFromRow(t, row) ==
    LET tools == Cell(t, row, "Tools")
        moved == tools \in RunningStates
        status == IF moved THEN Unknown ELSE tools
        written == Cell(t, row, "Running")
        state == IF written = Unknown /\ moved THEN tools ELSE written
        version == Cell(t, row, "VersionStatus")
    IN  [status |-> status,
         state |-> IF state = Unknown /\ status \in {"toolsNotInstalled", "toolsNotRunning"} THEN "guestToolsNotRunning" ELSE state,
         version |-> IF version = Unknown /\ status = "toolsNotInstalled" THEN "guestToolsNotInstalled" ELSE version]

\* A snapshot's identity is made from its name and time: the flat export has no managed-object ID.
SnapshotFromRow(t, row, zone) ==
    [name |-> Cell(t, row, "Name"), time |-> SnapshotTime(Cell(t, row, "DateTime"), zone), seq |-> 0]

\* vHost.  Details such as the certificate stay "not read" when the row carries none.
HostFromRow(t, row, ctx) ==
    [kind |-> "host", ctx |-> ctx.name, vcid |-> ctx.vcid, id |-> Cell(t, row, "ObjectID"), name |-> Cell(t, row, "Host"),
     dc |-> Cell(t, row, "Datacenter"), cluster |-> Cell(t, row, "Cluster"), cores |-> ParseInt(Cell(t, row, "Cores")),
     mem |-> ParseInt(Cell(t, row, "MemoryMB")), mhz |-> ParseInt(Cell(t, row, "Speed")),
     maintenance |-> ParseBool(Cell(t, row, "Maintenance")), certificate |-> Cell(t, row, "Certificate"),
     nics |-> <<>>, portgroups |-> <<>>, paths |-> <<>>]

HostNICFromRow(t, row) == [key |-> 0, device |-> Cell(t, row, "Device"), speed |-> Cell(t, row, "Speed")]
\* A mistake: the Rolling Order column is read as failback.
VPortCopied(t, row) ==
    [key |-> 0, name |-> Cell(t, row, "PortGroup"), vlan |-> ParseInt(Cell(t, row, "VLAN")), failback |-> Cell(t, row, "RollingOrder")]
\* Rolling Order is the opposite of failback.
VPortFromRow(t, row) ==
    [key |-> 0, name |-> Cell(t, row, "PortGroup"), vlan |-> ParseInt(Cell(t, row, "VLAN")),
     failback |-> Invert(Cell(t, row, "RollingOrder"))]
MultipathFromRow(t, row) ==
    [key |-> 0, lun |-> Cell(t, row, "Disk"), count |-> ParseInt(Cell(t, row, "PathCount")),
     dead |-> ParseInt(Cell(t, row, "DeadPaths"))]

\* HA settings stay "not read" when Failover Level is blank.
ClusterFromRow(t, row, ctx) ==
    [kind |-> "cluster", ctx |-> ctx.name, vcid |-> ctx.vcid, id |-> Cell(t, row, "ObjectID"), name |-> Cell(t, row, "Name"),
     dc |-> Cell(t, row, "Datacenter"), cpu |-> ParseInt(Cell(t, row, "TotalCpu")), mem |-> ParseInt(Cell(t, row, "TotalMemory")),
     cores |-> ParseInt(Cell(t, row, "NumCpuCores")), ha |-> ParseBool(Cell(t, row, "HAEnabled")),
     failover |-> Cell(t, row, "FailoverLevel")]

\* File inventories and which VMs are on a datastore are never imported.
DatastoreFromRow(t, row, ctx) ==
    [kind |-> "datastore", ctx |-> ctx.name, vcid |-> ctx.vcid, id |-> Cell(t, row, "ObjectID"), name |-> Cell(t, row, "Name"),
     dc |-> Cell(t, row, "Datacenter"), cap |-> ParseInt(Cell(t, row, "CapacityMiB")), free |-> ParseInt(Cell(t, row, "FreeMiB")),
     accessible |-> ParseBool(Cell(t, row, "Accessible")), address |-> Cell(t, row, "Address"), files |-> Unknown]

DVSwitchFromRow(t, row, ctx) ==
    [kind |-> "dvswitch", ctx |-> ctx.name, vcid |-> ctx.vcid, id |-> Cell(t, row, "ObjectID"), name |-> Cell(t, row, "DVS"),
     dc |-> Cell(t, row, "Datacenter"), mtu |-> ParseInt(Cell(t, row, "MTU")), portgroups |-> <<>>]

\* An explicit Key is authoritative, else the Object ID; without an Uplink column the generated name of
\* the uplink group tells (marked here by the model's own NamedUplinks).
DVPortFromRow(t, row, NamedUplinks) ==
    [key |-> 0, name |-> Cell(t, row, "PortGroup"),
     pgkey |-> IF "Key" \in t.cols THEN Cell(t, row, "Key") ELSE Cell(t, row, "ObjectID"),
     vlan |-> Cell(t, row, "VLAN"),
     uplink |-> IF "Uplink" \in t.cols THEN ParseBool(Cell(t, row, "Uplink")) ELSE Cell(t, row, "PortGroup") \in NamedUplinks,
     failback |-> Invert(Cell(t, row, "RollingOrder"))]

-----------------------------------------------------------------------------
\* The sheets that bring contexts into being, each row under its key.
ContextSheets == {"vInfo", "vHost", "vCluster", "vDatastore", "dvSwitch"}
RowKeys(wb) ==
    {[sheet |-> s, i |-> i, key |-> RowContext(wb[s], wb[s].rows[i])] :
        <<s, i>> \in {<<s, i>> \in (ContextSheets \cap DOMAIN wb) \X (1 .. 8) : i \in DOMAIN wb[s].rows}}
\* A vInfo row also needs an identity before it makes its context.
Places(wb) ==
    {p \in RowKeys(wb) : p.key # Unknown
        /\ (p.sheet = "vInfo" => VMKeys(wb["vInfo"], wb["vInfo"].rows[p.i]) # <<>>)}

\* contextFor: the first row of the key in reading order names the endpoint and the vCenter; without a VI
\* SDK UUID the endpoint, or the key, stands in.
SheetRank(s) ==
    CASE s = "vInfo" -> 1 [] s = "vHost" -> 2 [] s = "vCluster" -> 3 [] s = "vDatastore" -> 4 [] OTHER -> 5
FirstPlace(places) ==
    CHOOSE p \in places : \A q \in places :
        SheetRank(p.sheet) < SheetRank(q.sheet) \/ (p.sheet = q.sheet /\ p.i <= q.i)
ContextAt(key, t, row, contextMap) ==
    LET host == Cell(t, row, "Server")
        uuid == Cell(t, row, "UUID")
    IN  [key |-> key, name |-> IF key \in DOMAIN contextMap THEN contextMap[key] ELSE key,
         endpoint |-> [scheme |-> Unknown, host |-> host],
         vcid |-> IF uuid # Unknown THEN uuid ELSE IF host # Unknown THEN host ELSE key,
         scope |-> IF uuid # Unknown THEN <<"vcenter", uuid>> ELSE <<"context", key>>]
ContextFrom(wb, key, p, contextMap) == ContextAt(key, wb[p.sheet], wb[p.sheet].rows[p.i], contextMap)
ContextFor(wb, key, contextMap) ==
    ContextFrom(wb, key, FirstPlace({q \in Places(wb) : q.key = key}), contextMap)

\* The vInfo rows of a context, and the index of the keys they carry.
InfoRows(wb, key) == {p.i : p \in {q \in Places(wb) : q.sheet = "vInfo" /\ q.key = key}}
CarriersOf(wb, key, k) ==
    {i \in InfoRows(wb, key) : k \in ToSet(VMKeys(wb["vInfo"], wb["vInfo"].rows[i]))}

\* The rows that carry the strongest of the keys that any carries.
FirstCarried(carried) == IF carried = <<>> THEN {} ELSE carried[1]
Carriers(wb, key, keys) ==
    FirstCarried(SelectSeq([n \in DOMAIN keys |-> CarriersOf(wb, key, keys[n])], LAMBDA c : c # {}))
OnlyOne(rows) == IF rows = {} \/ (\E i, j \in rows : i # j) THEN 0 ELSE CHOOSE i \in rows : TRUE

\* A mistake: the first of several VMs that carry the key is taken.
FirstOne(rows) == IF rows = {} THEN 0 ELSE CHOOSE i \in rows : \A j \in rows : i <= j
LookupFirst(wb, sheet, row) == FirstOne(Carriers(wb, RowContext(wb[sheet], row), VMKeys(wb[sheet], row)))
\* lookupVM: the strongest key that some vInfo row of the context carries decides; when two carry it, the
\* row is attached to neither.
LookupVM(wb, sheet, row) == OnlyOne(Carriers(wb, RowContext(wb[sheet], row), VMKeys(wb[sheet], row)))

\* attachVMRows.
AttachedSheets == {"vDisk", "vNetwork", "vPartition", "vCD", "vUSB", "vSnapshot", "vTools", "vCPU", "vMemory"}
AttachedRows(wb, sheet, i) ==
    IF sheet \notin DOMAIN wb THEN <<>>
    ELSE SelectSeq(wb[sheet].rows, LAMBDA row : LookupVM(wb, sheet, row) = i)
\* What one row of a worksheet says of its VM or host, and what its rows do.
PartFromRow(sheet, t, row) ==
    CASE sheet = "vDisk" -> DiskFromRow(t, row)
      [] sheet = "vNetwork" -> NICFromRow(t, row)
      [] sheet = "vPartition" -> PartitionFromRow(t, row)
      [] sheet \in {"vCD", "vUSB"} -> MediaFromRow(sheet, t, row)
      [] sheet = "vNIC" -> HostNICFromRow(t, row)
      [] sheet = "vPort" -> VPortFromRow(t, row)
      [] sheet = "vMultiPath" -> MultipathFromRow(t, row)
Parts(wb, sheet, rows) == [n \in DOMAIN rows |-> PartFromRow(sheet, wb[sheet], rows[n])]

\* vCPU and vMemory give a size vInfo has no column for; where both have one, vInfo is kept.
Corroborated(wb, sheet, header, infoHeader, rows, kept) ==
    IF infoHeader \in wb["vInfo"].cols \/ rows = <<>> \/ header \notin wb[sheet].cols THEN kept
    ELSE ParseInt(Cell(wb[sheet], Last(rows), header))

\* A snapshot without a usable date is skipped with a warning.
SnapshotsOf(t, rows, zone) == [n \in DOMAIN rows |-> SnapshotFromRow(t, rows[n], zone)]
Dated(wb, rows) == SelectSeq(rows, LAMBDA row : Cell(wb["vSnapshot"], row, "DateTime") # Unknown)

AttachedVM(wb, vm, rows, zone) ==
    [vm EXCEPT !.disks = Parts(wb, "vDisk", rows["vDisk"]),
               !.nics = Parts(wb, "vNetwork", rows["vNetwork"]),
               !.parts = Parts(wb, "vPartition", rows["vPartition"]),
               !.media = Parts(wb, "vCD", rows["vCD"]) \o Parts(wb, "vUSB", rows["vUSB"]),
               !.snaps = IF rows["vSnapshot"] = <<>> THEN <<>>
                         ELSE SnapshotsOf(wb["vSnapshot"], Dated(wb, rows["vSnapshot"]), zone),
               !.tools = IF rows["vTools"] = <<>> THEN @ ELSE ToolsFromRow(wb["vTools"], Last(rows["vTools"])),
               !.cpu = Corroborated(wb, "vCPU", "CPUs", "CPUs", rows["vCPU"], @),
               !.mem = Corroborated(wb, "vMemory", "SizeMiB", "Memory", rows["vMemory"], @)]
ImportedVM(wb, ctx, i, zone) ==
    AttachedVM(wb, VMFromInfoRow(wb["vInfo"], wb["vInfo"].rows[i], ctx),
               [sheet \in AttachedSheets |-> AttachedRows(wb, sheet, i)], zone)

-----------------------------------------------------------------------------
\* needSheet: an absent worksheet, or one without its critical columns, cannot answer for its kind.
Lacking(wb, sheet) == sheet \notin DOMAIN wb \/ MissingCritical(sheet, wb[sheet]) # {}
KindGaps(wb) ==
    {k \in {"host", "cluster", "datastore"} :
        Lacking(wb, IF k = "host" THEN "vHost" ELSE IF k = "cluster" THEN "vCluster" ELSE "vDatastore")}
    \cup (IF Lacking(wb, "vSnapshot") THEN {"snapshot"} ELSE {})
    \cup (IF Lacking(wb, "dvSwitch") \/ Lacking(wb, "dvPort") THEN {"dvswitch"} ELSE {})
    \cup NeverImported

ResourceSheet(kind) ==
    CASE kind = "host" -> "vHost" [] kind = "cluster" -> "vCluster" [] kind = "datastore" -> "vDatastore" [] OTHER -> "dvSwitch"
RowsIn(wb, sheet, key) ==
    IF sheet \notin DOMAIN wb THEN <<>> ELSE SelectSeq(wb[sheet].rows, LAMBDA row : RowContext(wb[sheet], row) = key)

\* attachResourceRows: a row without an identity, or one that repeats an identity, makes the kind
\* unavailable in its context.
ClaimFails(wb, key, kind) ==
    LET rows == RowsIn(wb, ResourceSheet(kind), key)
        t == wb[ResourceSheet(kind)]
    IN  \E i \in DOMAIN rows :
            \/ Cell(t, rows[i], "ObjectID") = Unknown
            \/ \E j \in DOMAIN rows : i # j /\ Cell(t, rows[i], "ObjectID") = Cell(t, rows[j], "ObjectID")

\* dvPort rows join their switch by name, and by datacenter when the worksheet has that column; none or
\* several candidates make the kind unavailable.
SwitchesNamed(wb, row) ==
    LET t == wb["dvPort"]
        rows == RowsIn(wb, "dvSwitch", RowContext(t, row))
    IN  SelectSeq(rows, LAMBDA sw :
            /\ Cell(wb["dvSwitch"], sw, "DVS") = Cell(t, row, "DVS")
            /\ "Datacenter" \in t.cols => Cell(wb["dvSwitch"], sw, "Datacenter") = Cell(t, row, "Datacenter"))
PortsFail(wb, key) ==
    /\ "dvSwitch" \in DOMAIN wb /\ "dvPort" \in DOMAIN wb
    /\ \E i \in DOMAIN wb["dvPort"].rows :
          /\ RowContext(wb["dvPort"], wb["dvPort"].rows[i]) = key
          /\ Len(SwitchesNamed(wb, wb["dvPort"].rows[i])) # 1

Gaps(wb, key) ==
    KindGaps(wb) \cup {k \in {"host", "cluster", "datastore", "dvswitch"} : ResourceSheet(k) \in DOMAIN wb /\ ClaimFails(wb, key, k)}
                 \cup (IF PortsFail(wb, key) THEN {"dvswitch"} ELSE {})

\* hostScopeKey and the two host indexes: a row of a host worksheet names a host of its vCenter, whichever
\* context the host was listed in (of its context, without a VI SDK UUID), by ID, of which the last row
\* stands, or without one by a name that is unique there once its datacenter and cluster are taken into
\* account.  vMultiPath always joins by name.
HostScope(t, row) ==
    IF Cell(t, row, "UUID") # Unknown THEN <<"vcenter", Cell(t, row, "UUID")>> ELSE <<"context", RowContext(t, row)>>
HostsInScope(wb, scope) ==
    LET t == wb["vHost"]
    IN  {i \in DOMAIN t.rows : /\ RowContext(t, t.rows[i]) # Unknown
                               /\ ContextFor(wb, RowContext(t, t.rows[i]), <<>>).scope = scope}
HostsNamed(t, row, hosts, all) ==
    {i \in hosts : /\ Cell(t, row, "Host") # Unknown /\ Cell(all, all.rows[i], "Host") = Cell(t, row, "Host")
                   /\ \A h \in {"Datacenter", "Cluster"} : Cell(t, row, h) \in {Unknown, Cell(all, all.rows[i], h)}}
HostsWithID(id, hosts, all) == {i \in hosts : Cell(all, all.rows[i], "ObjectID") = id}
LastOne(rows) == IF rows = {} THEN 0 ELSE Max(rows)
\* The vHost row that a row of a host worksheet is attached to, 0 for none.
HostOf(wb, sheet, row) ==
    LET t == wb[sheet]
        hosts == HostsInScope(wb, HostScope(t, row))
        id == IF sheet = "vMultiPath" THEN Unknown ELSE Cell(t, row, "ObjectID")
    IN  IF RowContext(t, row) = Unknown THEN 0
        ELSE IF id # Unknown THEN LastOne(HostsWithID(id, hosts, wb["vHost"]))
        ELSE OnlyOne(HostsNamed(t, row, hosts, wb["vHost"]))
HostSub(wb, sheet, i) ==
    IF sheet \notin DOMAIN wb THEN <<>>
    ELSE Parts(wb, sheet, SelectSeq(wb[sheet].rows, LAMBDA row : HostOf(wb, sheet, row) = i))

ImportedHost(wb, ctx, i) ==
    [HostFromRow(wb["vHost"], wb["vHost"].rows[i], ctx) EXCEPT
        !.nics = HostSub(wb, "vNIC", i), !.portgroups = HostSub(wb, "vPort", i), !.paths = HostSub(wb, "vMultiPath", i)]
ImportedHosts(wb, ctx) ==
    LET own == SetToSortSeq({p.i : p \in {q \in Places(wb) : q.sheet = "vHost" /\ q.key = ctx.key}}, <)
    IN  [n \in DOMAIN own |-> ImportedHost(wb, ctx, own[n])]
ImportedSwitches(wb, ctx, NamedUplinks) ==
    LET rows == RowsIn(wb, "dvSwitch", ctx.key)
    IN  [i \in DOMAIN rows |->
            LET ports == IF "dvPort" \notin DOMAIN wb THEN <<>>
                         ELSE SelectSeq(wb["dvPort"].rows, LAMBDA row :
                                /\ RowContext(wb["dvPort"], row) = ctx.key /\ SwitchesNamed(wb, row) = <<rows[i]>>)
            IN  [DVSwitchFromRow(wb["dvSwitch"], rows[i], ctx) EXCEPT
                    !.portgroups = [n \in DOMAIN ports |-> DVPortFromRow(wb["dvPort"], ports[n], NamedUplinks)]]]

\* The resources of one kind, none of them when the kind is unavailable.
ImportedResources(wb, ctx, kind, NamedUplinks) ==
    LET rows == RowsIn(wb, ResourceSheet(kind), ctx.key)
        t == wb[ResourceSheet(kind)]
    IN  IF kind \in Gaps(wb, ctx.key) THEN <<>>
        ELSE CASE kind = "host" -> ImportedHosts(wb, ctx)
               [] kind = "dvswitch" -> ImportedSwitches(wb, ctx, NamedUplinks)
               [] kind = "cluster" -> [i \in DOMAIN rows |-> ClusterFromRow(t, rows[i], ctx)]
               [] kind = "datastore" -> [i \in DOMAIN rows |-> DatastoreFromRow(t, rows[i], ctx)]

-----------------------------------------------------------------------------
\* schemaVersionFor: a level is claimed only with the evidence it added.
SchemaFor(wb) ==
    IF "vTools" \notin DOMAIN wb \/ "Tools" \notin wb["vTools"].cols THEN 2
    ELSE IF "vPartition" \notin DOMAIN wb \/ "Filesystem" \notin wb["vPartition"].cols THEN 3
    ELSE IF "DiskKey" \notin wb["vPartition"].cols THEN 4 ELSE 5

CountStatus(s) == IF s = <<>> THEN "empty" ELSE "success"

\* What Write records for one context.
WrittenContext(wb, ctx, vms, res) ==
    LET status(k) ==
            IF k \in Gaps(wb, ctx.key) THEN "unavailable"
            ELSE IF k = "snapshot" THEN CountStatus(FlattenSeq([i \in DOMAIN vms |-> vms[i].snaps]))
            ELSE CountStatus(SelectSeq(res, LAMBDA r : r.kind = k))
    IN  [name |-> ctx.name, endpoint |-> ctx.endpoint, vcid |-> ctx.vcid, vm |-> CountStatus(vms), perf |-> FALSE,
         error |-> {},
         coll |-> [k \in ImportKinds \cup NeverImported \cup {"license"} |-> IF k = "license" THEN "not recorded" ELSE status(k)]]

\* Parse refuses a workbook without vInfo and one no context can be read from, and two contexts mapped to
\* one name cannot be stored.
ContextKeys(wb) == {p.key : p \in Places(wb)}
ParseFails(wb, contextMap) ==
    \/ "vInfo" \notin DOMAIN wb
    \/ ContextKeys(wb) = {}
    \/ \E a, b \in ContextKeys(wb) : a # b /\ ContextFor(wb, a, contextMap).name = ContextFor(wb, b, contextMap).name

\* Parse and Write: the imported run.
WrittenPart(wb, ctx, vms, res) == [ctx |-> WrittenContext(wb, ctx, vms, res), vms |-> vms, res |-> res]
ImportedVMs(wb, ctx, rows, zone) == [n \in DOMAIN rows |-> ImportedVM(wb, ctx, rows[n], zone)]
ImportedContext(wb, ctx, zone, NamedUplinks) ==
    LET kinds == <<"host", "cluster", "datastore", "dvswitch">>
    IN  WrittenPart(wb, ctx, ImportedVMs(wb, ctx, SetToSortSeq(InfoRows(wb, ctx.key), <), zone),
                    FlattenSeq([n \in DOMAIN kinds |-> ImportedResources(wb, ctx, kinds[n], NamedUplinks)]))
WrittenRun(wb, id, parts) ==
    [id |-> id, schema |-> SchemaFor(wb),
     contexts |-> [n \in DOMAIN parts |-> parts[n].ctx],
     vms |-> FlattenSeq([n \in DOMAIN parts |-> parts[n].vms]),
     res |-> FlattenSeq([n \in DOMAIN parts |-> parts[n].res])]
ImportedRun(wb, id, contextMap, zone, NamedUplinks) ==
    LET keys == SetToSeq(ContextKeys(wb))
    IN  WrittenRun(wb, id, [n \in DOMAIN keys |->
            ImportedContext(wb, ContextFor(wb, keys[n], contextMap), zone, NamedUplinks)])

\* addSnapshotTimes: each snapshot's time under each identity its VM has.
Identities(vm) == SelectSeq(<<vm.uuid, vm.bios>>, LAMBDA v : v # Unknown)
TimesUnder(vm, identity, name) ==
    FlattenSeq([n \in DOMAIN Identities(vm) |->
        IF Identities(vm)[n] = identity THEN SelectSeq(vm.snaps, LAMBDA s : s.name = name) ELSE <<>>])
SnapTimes(run, identity, name) == FlattenSeq([i \in DOMAIN run.vms |-> TimesUnder(run.vms[i], identity, name)])
\* A mistake: the managed-object ID is looked up as if it were a UUID.
KeysByID(imported) == {<<vm.id, s.name>> : <<vm, s>> \in UNION {{vm} \X ToSet(vm.snaps) : vm \in ToSet(imported.vms)}}
SnapKeys(imported) ==
    UNION {UNION {{<<identity, s.name>> : s \in ToSet(vm.snaps)} : identity \in ToSet(Identities(vm))} : vm \in ToSet(imported.vms)}

\* zoneOffsets: how far apart the snapshots are that both sides record exactly once, none unless each of
\* the distances is a time zone's.
Distances(imported, live) ==
    {LET a == SnapTimes(imported, k[1], k[2])[1].time
         b == SnapTimes(live, k[1], k[2])[1].time
     IN IF a > b THEN a - b ELSE b - a :
        k \in {q \in SnapKeys(imported) :
                 Len(SnapTimes(imported, q[1], q[2])) = 1 /\ Len(SnapTimes(live, q[1], q[2])) = 1}}
MaxZoneOffset == 14
ZoneOffsets(distances) == IF \A d \in distances : d \in 1 .. MaxZoneOffset THEN distances ELSE {}

\* CheckSnapshotTimes, beside the newest live capture.
ZoneWarning(imported, live, zone) == zone = Unknown /\ ZoneOffsets(Distances(imported, live)) # {}
=============================================================================
