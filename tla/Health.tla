-------------------------------- MODULE Health --------------------------------
(***************************************************************************)
(* The health rules and the readiness verdict over one stored run          *)
(* (internal/health).  The run is as in Orphans, with hosts, clusters,     *)
(* switches, and thresholds th.  An optional value the collector did not   *)
(* get is Unknown; booleans that may be missing are "true", "false" or     *)
(* Unknown.                                                                *)
(***************************************************************************)
EXTENDS Orphans

RuleOf(cat, sev, min, needs) == [cat |-> cat, sev |-> sev, min |-> min, needs |-> needs]

MigrationRules ==
    [r \in {"bios-firmware", "custom-cpu-topology", "custom-resource-allocation", "extension-managed-vm",
            "floppy-present", "manual-mac-address", "secure-boot-enabled"} |->
        RuleOf("migration", "info", 13, {"vm"})]
    @@ [r \in {"host-device-passthrough", "rdm-present", "shared-disk", "vtpm-present"} |->
        RuleOf("migration", "warning", 13, {"vm"})]
    @@ [r \in {"cdrom-connected", "usb-connected"} |-> RuleOf("migration", "warning", 6, {"vm"})]
    @@ ("cluster-network-inconsistent" :> RuleOf("migration", "warning", 9, {"host"}))
    @@ ("vm-cluster-rule" :> RuleOf("migration", "info", 34, {"vm"}))

StorageRules ==
    ("datastore-host-coverage" :> RuleOf("availability", "warning", 21, {"host"}))
    @@ ("datastore-inaccessible" :> RuleOf("capacity", "critical", 0, {"datastore"}))
    @@ ("datastore-overcommitted" :> RuleOf("capacity", "warning", 33, {"datastore"}))
    @@ ("datastore-space-low" :> RuleOf("capacity", "warning", 0, {"datastore"}))
    @@ ("datastore-zombie-vmdk" :> RuleOf("capacity", "warning", 0, {"vm", "datastore"}))
    @@ ("storage-drs-space-threshold" :> RuleOf("capacity", "warning", 38, {"datastore"}))
    @@ ("host-path-redundancy" :> RuleOf("availability", "warning", 14, {"host"}))

PlatformRules ==
    ("dvportgroup-promiscuous" :> RuleOf("security", "warning", 10, {"dvswitch"}))
    @@ ("dvswitch-host-coverage" :> RuleOf("availability", "warning", 10, {"host", "dvswitch"}))
    @@ ("portgroup-promiscuous" :> RuleOf("security", "warning", 9, {"host"}))
    @@ ("ha-failover-capacity-low" :> RuleOf("availability", "critical", 0, {"cluster"}))
    @@ ("host-disconnected" :> RuleOf("availability", "critical", 0, {"host"}))
    @@ ("host-in-maintenance" :> RuleOf("hygiene", "info", 0, {"host"}))

GuestRules ==
    ("guest-disk-space-low" :> RuleOf("capacity", "warning", 4, {"vm"}))
    @@ ("snapshot-age" :> RuleOf("hygiene", "warning", 0, {"vm", "snapshot"}))
    @@ ("tools-not-installed" :> RuleOf("hygiene", "warning", 3, {"vm"}))
    @@ ("tools-not-running" :> RuleOf("hygiene", "warning", 0, {"vm"}))
    @@ ("tools-outdated" :> RuleOf("hygiene", "warning", 3, {"vm"}))
    @@ ("vm-inaccessible" :> RuleOf("availability", "critical", 7, {"vm"}))
    @@ ("vm-orphaned" :> RuleOf("availability", "critical", 7, {"vm"}))
    @@ ("vm-network-missing" :> RuleOf("hygiene", "info", 22, {"vm", "network"}))

Rules == MigrationRules @@ StorageRules @@ PlatformRules @@ GuestRules

Problem(rule, sev, kind, o) == [rule |-> rule, sev |-> sev, kind |-> kind, ctx |-> o.ctx, id |-> o.id]

-----------------------------------------------------------------------------
(* Rules about one VM, asked of those that are no template.                *)

BIOSFirmware(vm) == vm.firmware = "bios"
SecureBoot(vm) == vm.secure = "true"
CustomCPUTopology(vm) == vm.cores > 1 /\ vm.auto # "true"

(* An allocation is Unknown or [reservation, limit]; the limit -1 is none. *)
AllocationEvidence(a) ==
    a # Unknown /\ (a.reservation > 0 \/ a.limit \notin {Unknown, -1})

CustomResourceAllocation(vm) ==
    AllocationEvidence(vm.cpuAlloc) \/ AllocationEvidence(vm.memAlloc) \/ vm.locked = "true"

RDMPresent(vm) == \E d \in vm.disks : d.raw \/ d.lun # Unknown

SharedDisk(vm) ==
    \E d \in vm.disks : d.bus \notin {Unknown, "noSharing"} \/ d.sharing \in {"sharingMultiWriter", "multiWriter"}

ManualMACAddress(vm) == \E n \in vm.nics : n.macType = "manual"
HostDevicePassthrough(vm) == vm.pci # {} \/ \E n \in vm.nics : n.adapter = "SR-IOV"
FloppyPresent(vm) == vm.floppies # {}
ExtensionManagedVM(vm) == vm.managed # Unknown
VTPMPresent(vm) == vm.tpms # {}
MediaConnected(devices) == "true" \in devices
VMClusterRules(vm) == vm.rules # Unknown /\ \E r \in vm.rules : r.enabled

InaccessibleVMStates == {"inaccessible", "invalid", "disconnected", "notResponding"}

OutdatedTools == {"guestToolsNeedUpgrade", "guestToolsSupportedOld", "guestToolsTooOld", "guestToolsBlacklisted"}

(* Below pct percent free; a size of zero says nothing.                    *)
FreeBelow(capacity, free, pct) == capacity > 0 /\ pct > 0 /\ free * 100 < pct * capacity

ContextFinish(data, c) ==
    LET at == {x.finished : x \in {r \in ToSet(data.ctx) : r.name = c /\ r.finished # 0}}
    IN  IF at = {} THEN data.finished ELSE Max(at)

SnapshotOld(data, vm, th) ==
    LET finish == ContextFinish(data, vm.ctx) IN
    th.snapshotAge > 0 /\ finish # 0 /\ \E s \in vm.snaps : s.at # 0 /\ finish - s.at >= th.snapshotAge

VMHas(rule, data, vm, th) ==
    CASE rule = "bios-firmware"              -> BIOSFirmware(vm)
      [] rule = "secure-boot-enabled"        -> SecureBoot(vm)
      [] rule = "custom-cpu-topology"        -> CustomCPUTopology(vm)
      [] rule = "custom-resource-allocation" -> CustomResourceAllocation(vm)
      [] rule = "rdm-present"                -> RDMPresent(vm)
      [] rule = "shared-disk"                -> SharedDisk(vm)
      [] rule = "manual-mac-address"         -> ManualMACAddress(vm)
      [] rule = "host-device-passthrough"    -> HostDevicePassthrough(vm)
      [] rule = "floppy-present"             -> FloppyPresent(vm)
      [] rule = "extension-managed-vm"       -> ExtensionManagedVM(vm)
      [] rule = "vtpm-present"               -> VTPMPresent(vm)
      [] rule = "cdrom-connected"            -> MediaConnected(vm.cdroms)
      [] rule = "usb-connected"              -> MediaConnected(vm.usbs)
      [] rule = "vm-cluster-rule"            -> VMClusterRules(vm)
      [] rule = "guest-disk-space-low"       -> \E p \in vm.parts : FreeBelow(p.cap, p.free, th.guestFree)
      [] rule = "snapshot-age"               -> SnapshotOld(data, vm, th)
      [] rule = "tools-not-installed"        -> vm.toolsVersion = "guestToolsNotInstalled"
      [] rule = "tools-outdated"             -> vm.toolsVersion \in OutdatedTools
      [] rule = "tools-not-running"          -> vm.power = "poweredOn" /\ vm.tools \notin {Unknown, "guestToolsRunning"}
      [] rule = "vm-inaccessible"            -> vm.conn \in InaccessibleVMStates
      [] rule = "vm-orphaned"                -> vm.conn = "orphaned"

VMFindings(rule, data, th) ==
    {Problem(rule, Rules[rule].sev, "vm", v) : v \in {x \in data.vms : ~x.template /\ VMHas(rule, data, x, th)}}

(* This rule looks at templates too.                                       *)
NetworkMissing(data) ==
    {Problem("vm-network-missing", "info", "vm", v) : v \in {x \in data.vms : \E n \in x.nics : n.missing}}

-----------------------------------------------------------------------------
(* Rules about hosts, switches, clusters and datastores.                   *)

(* The standard switches of a cluster's hosts, against the host that comes *)
(* first by name among those that have the switch.                         *)
ClusterNetworkInconsistent(data) ==
    LET having(h, n) == {x \in data.hosts : x.ctx = h.ctx /\ x.cluster = h.cluster /\ \E w \in x.vswitches : w.name = n}
        baseline(h, n) == CHOOSE x \in having(h, n) : \A y \in having(h, n) : x.rank <= y.rank
        of(h, n)       == CHOOSE w \in h.vswitches : w.name = n
        differs(h, n)  == LET a == of(h, n) b == of(baseline(h, n), n) IN a.mtu # b.mtu \/ a.uplinks # b.uplinks
    IN  {Problem("cluster-network-inconsistent", "warning", "host", h) :
            h \in {x \in data.hosts : x.cluster # Unknown /\ \E w \in x.vswitches : differs(x, w.name)}}

DVSwitchHostCoverage(data) ==
    {[Problem("dvswitch-host-coverage", "warning", "cluster", w) EXCEPT !.id = h.cluster] :
        <<w, h>> \in {x \in data.switches \X data.hosts :
            x[2].ctx = x[1].ctx /\ x[2].cluster # Unknown /\ x[1].members \cap {x[2].name, x[2].id} = {}}}

(* A datastore that several hosts of a cluster mount, but not all.         *)
DatastoreHostCoverage(data) ==
    LET peers(h) == {x \in data.hosts : x.ctx = h.ctx /\ x.cluster = h.cluster}
        mounted(h, d) == {x \in peers(h) : d \in x.mounts}
    IN  {[Problem("datastore-host-coverage", "warning", "cluster", h) EXCEPT !.id = h.cluster] :
            h \in {x \in data.hosts : x.cluster # Unknown /\ \E d \in UNION {y.mounts : y \in peers(x)} :
                       Cardinality(mounted(x, d)) > 1 /\ mounted(x, d) # peers(x)}}

HostPathRedundancyFailure(p) == p.paths < 2 \/ p.dead > 0 \/ p.disabled > 0

HostPathRedundancy(data) ==
    {Problem("host-path-redundancy", "warning", "host", h) :
        h \in {x \in data.hosts : \E p \in x.multipaths : p.local = "false" /\ HostPathRedundancyFailure(p)}}

EnabledSecurityPolicies(o) == {p \in DOMAIN o.security : o.security[p] = "true"}

PortGroupPromiscuous(data) ==
    {Problem("portgroup-promiscuous", "warning", "host", h) :
        h \in {x \in data.hosts : \E o \in x.vswitches \cup x.portgroups : EnabledSecurityPolicies(o) # {}}}

DVPortGroupPromiscuous(data) ==
    {Problem("dvportgroup-promiscuous", "warning", "dvswitch", w) :
        w \in {x \in data.switches : \E g \in x.portgroups : ~g.uplink /\ EnabledSecurityPolicies(g) # {}}}

HostDisconnected(data) ==
    {Problem("host-disconnected", "critical", "host", h) : h \in {x \in data.hosts : x.conn \notin {Unknown, "connected"}}}

HostInMaintenance(data) ==
    {Problem("host-in-maintenance", "info", "host", h) : h \in {x \in data.hosts : x.maintenance}}

(* HA admission control: [policy, level, current, cpu, cpuReserve, mem,    *)
(* memReserve, admission], Unknown when it was not read or is off.         *)
FailoverKnown(ha) ==
    \/ ha.policy = "hostFailures" /\ ha.level > 0
    \/ ha.policy = "resources" /\ (ha.cpu # 0 \/ ha.mem # 0)

FailoverShort(ha) ==
    /\ FailoverKnown(ha)
    /\ IF ha.policy = "hostFailures" THEN ha.current < ha.level
       ELSE ha.cpu < ha.cpuReserve \/ ha.mem < ha.memReserve

HAClusters(data) == {c \in data.clusters : c.ha # Unknown}

HAFailoverCapacity(data) ==
    {Problem("ha-failover-capacity-low", IF c.ha.admission THEN "critical" ELSE "warning", "cluster", c) :
        c \in {x \in HAClusters(data) : FailoverShort(x.ha)}}

(* Used and uncommitted space together against the capacity.               *)
DatastoreOvercommitted(data) ==
    {Problem("datastore-overcommitted", "warning", "datastore", d) :
        d \in {x \in data.stores : x.uncommitted # Unknown /\ x.cap > 0 /\ x.cap - x.free + x.uncommitted > x.cap}}

DatastoreSpaceLow(data, th) ==
    LET critical(d) == FreeBelow(d.cap, d.free, th.criticalFree) \/ (th.freeBytes > 0 /\ d.free < th.freeBytes)
    IN  {Problem("datastore-space-low", IF critical(d) THEN "critical" ELSE "warning", "datastore", d) :
            d \in {x \in data.stores : critical(x) \/ FreeBelow(x.cap, x.free, th.warnFree)}}

DatastoreInaccessible(data) ==
    {Problem("datastore-inaccessible", "critical", "datastore", d) : d \in {x \in data.stores : ~x.accessible}}

(* Storage DRS: a member past the cluster's threshold, in free space or in *)
(* percent used; zero stands for the default.                              *)
AboveThreshold(drs, cap, free) ==
    IF drs.mode = "freeSpace" THEN free < (IF drs.free > 0 THEN drs.free ELSE 50)
    ELSE cap > 0 /\ (cap - free) * 100 > cap * (IF drs.pct > 0 THEN drs.pct ELSE 80)

StorageDRSFull(data) ==
    LET pods == {<<d.vc, d.pod>> : d \in {x \in data.stores : x.pod # Unknown /\ x.drs # Unknown}}
        in(p) == {d \in data.stores : d.drs # Unknown /\ <<d.vc, d.pod>> = p}
    IN  {[Problem("storage-drs-space-threshold", "warning", "datastorecluster", CHOOSE d \in in(p) : TRUE) EXCEPT !.id = p[2]] :
            p \in {q \in pods : \A d \in in(q) : AboveThreshold(d.drs, d.cap, d.free) \/ ~d.accessible}}

ZombieVMDK(data, th) ==
    {[Problem("datastore-zombie-vmdk", IF e.confidence = "verified-unreferenced" THEN "warning" ELSE "info",
              "datastore", e @@ [id |-> e.store]) EXCEPT !.id = <<e.store, e.file>>] :
        e \in {x \in OrphanEntries(data, th.day) : x.confidence # "unknown-incomplete-coverage"}}

Eval(rule, data, th) ==
    CASE rule = "vm-network-missing"           -> NetworkMissing(data)
      [] rule = "cluster-network-inconsistent" -> ClusterNetworkInconsistent(data)
      [] rule = "dvswitch-host-coverage"       -> DVSwitchHostCoverage(data)
      [] rule = "datastore-host-coverage"      -> DatastoreHostCoverage(data)
      [] rule = "host-path-redundancy"         -> HostPathRedundancy(data)
      [] rule = "portgroup-promiscuous"        -> PortGroupPromiscuous(data)
      [] rule = "dvportgroup-promiscuous"      -> DVPortGroupPromiscuous(data)
      [] rule = "host-disconnected"            -> HostDisconnected(data)
      [] rule = "host-in-maintenance"          -> HostInMaintenance(data)
      [] rule = "ha-failover-capacity-low"     -> HAFailoverCapacity(data)
      [] rule = "datastore-overcommitted"      -> DatastoreOvercommitted(data)
      [] rule = "datastore-space-low"          -> DatastoreSpaceLow(data, th)
      [] rule = "datastore-inaccessible"       -> DatastoreInaccessible(data)
      [] rule = "storage-drs-space-threshold"  -> StorageDRSFull(data)
      [] rule = "datastore-zombie-vmdk"        -> ZombieVMDK(data, th)
      [] OTHER                                 -> VMFindings(rule, data, th)

-----------------------------------------------------------------------------
(* What a rule could not see.                                              *)

NoFirmware(vm) == ~vm.cfg \/ vm.firmware \notin {"bios", "efi"}
NoSecureBoot(vm) == NoFirmware(vm) \/ (vm.firmware = "efi" /\ vm.secure = Unknown)
NoResourceAllocation(vm) == ~vm.cfg \/ Unknown \in {vm.cpuAlloc, vm.memAlloc}
NoCPUTopology(vm) == ~vm.cfg \/ vm.cpu <= 0 \/ vm.cores <= 0
NoClusterConfig(vm) == vm.rules = Unknown /\ (vm.cluster # Unknown \/ ~vm.cfg)

NeedConfiguration == {"extension-managed-vm", "floppy-present", "host-device-passthrough", "manual-mac-address",
                      "rdm-present", "shared-disk", "vtpm-present"}

EvidenceRules == NeedConfiguration \cup {"bios-firmware", "secure-boot-enabled", "custom-cpu-topology",
                     "custom-resource-allocation", "vm-cluster-rule", "tools-not-installed", "tools-not-running"}

Missing(rule, vm) ==
    CASE rule \in NeedConfiguration          -> ~vm.cfg
      [] rule = "bios-firmware"              -> NoFirmware(vm)
      [] rule = "secure-boot-enabled"        -> NoSecureBoot(vm)
      [] rule = "custom-cpu-topology"        -> NoCPUTopology(vm)
      [] rule = "custom-resource-allocation" -> NoResourceAllocation(vm)
      [] rule = "vm-cluster-rule"            -> NoClusterConfig(vm)
      [] rule = "tools-not-installed"        -> vm.toolsVersion = Unknown /\ vm.toolsStatus = Unknown
      [] rule = "tools-not-running"          -> vm.tools = Unknown

NoGaps == [unknown |-> FALSE, blind |-> {}, partial |-> {}]

(* resolveVMEvidence: a context none of whose VMs has the evidence is      *)
(* blind; one with some is partly judged.                                  *)
ResolveVMEvidence(rule, data) ==
    LET vms(c)  == {v \in data.vms : v.ctx = c /\ ~v.template}
        lack(c) == {v \in vms(c) : Missing(rule, v)}
        ctxs    == {c \in {v.ctx : v \in data.vms} : lack(c) # {}}
        blind   == {c \in ctxs : lack(c) = vms(c)}
    IN  [unknown |-> blind # {}, blind |-> blind, partial |-> ctxs \ blind]

(* Rules that, having found nothing, say what they could not judge.        *)
ResolveHostPathRedundancy(data) ==
    LET blind == {h.ctx : h \in {x \in data.hosts : \E p \in x.multipaths : p.local = Unknown}}
    IN  IF HostPathRedundancy(data) # {} THEN NoGaps ELSE [unknown |-> blind # {}, blind |-> blind, partial |-> {}]

ResolveHAFailover(data) ==
    LET blind == {c.ctx : c \in {x \in HAClusters(data) : x.ha.policy = "resources" /\ ~FailoverKnown(x.ha)}}
    IN  IF HAFailoverCapacity(data) # {} THEN NoGaps ELSE [unknown |-> blind # {}, blind |-> blind, partial |-> {}]

ResolveZombie(data, th) ==
    LET unsure == {e \in OrphanEntries(data, th.day) : e.confidence = "unknown-incomplete-coverage"}
        gaps   == ScanGaps(data)
    IN  [unknown |-> unsure # {} \/ gaps # {},
         blind |-> UNION {e.blind : e \in unsure} \cup {g.ctx : g \in gaps}, partial |-> {}]

Gaps(rule, data, th) ==
    CASE rule \in EvidenceRules             -> ResolveVMEvidence(rule, data)
      [] rule = "host-path-redundancy"      -> ResolveHostPathRedundancy(data)
      [] rule = "ha-failover-capacity-low"  -> ResolveHAFailover(data)
      [] rule = "datastore-zombie-vmdk"     -> ResolveZombie(data, th)
      [] OTHER                              -> NoGaps

-----------------------------------------------------------------------------
(* Evaluate and Readiness.                                                 *)

Status(result, blind, partial, found) ==
    [result |-> result, blind |-> blind, partial |-> partial, found |-> found]

RuleStatus(rule, data, th, disabled) ==
    LET blind == BlindContexts(data.ctx, Rules[rule].needs)
        gaps  == Gaps(rule, data, th)
        found == Eval(rule, data, th)
    IN  CASE rule \in disabled -> Status("skip", {}, {}, {})
          [] rule \notin disabled /\ data.schema < Rules[rule].min -> Status("unknown", {}, {}, {})
          [] rule = "datastore-zombie-vmdk" /\ rule \notin disabled /\ ~(\E s \in data.stores : Browsed(s)) ->
                Status("unknown", {}, {}, {})
          [] OTHER ->
                Status(IF gaps.unknown \/ Cardinality(blind) >= Len(data.ctx) THEN "unknown"
                       ELSE IF found # {} THEN "fail" ELSE "pass",
                       blind \cup gaps.blind, gaps.partial, found)

Evaluate(data, th, disabled) == [r \in DOMAIN Rules |-> RuleStatus(r, data, th, disabled)]

Blockers(report) == {f \in UNION {report[r].found : r \in DOMAIN MigrationRules} : f.sev \in {"warning", "critical"}}

ReadinessSure(report) ==               \* seeded fault: contexts a rule did not see do not count
    IF Blockers(report) # {} THEN "blocked"
    ELSE IF \E r \in DOMAIN MigrationRules : report[r].result \in {"unknown", "skip"} THEN "unknown" ELSE "ready"

Readiness(report) ==
    LET unresolved == {r \in DOMAIN MigrationRules :
                           report[r].result \in {"unknown", "skip"} \/ report[r].blind # {} \/ report[r].partial # {}}
    IN  IF Blockers(report) # {} THEN "blocked"
        ELSE IF unresolved # {} \/ \E r \in DOMAIN report : report[r].blind # {} THEN "unknown"
        ELSE "ready"
=============================================================================
