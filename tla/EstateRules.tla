----------------------------- MODULE EstateRules -----------------------------
(***************************************************************************)
(* An estate that changes, one capture of it that may see only a part, and *)
(* what the rules then say of it, next to what the terminal interface      *)
(* shows of the same reads.  Two contexts, each its own vCenter with one   *)
(* cluster of one host, share a datastore; each host is on a standard and  *)
(* a distributed switch, and the VMs are wired to one network.             *)
(*                                                                         *)
(* The estate is external; the capture writes what the collector writes    *)
(* for each way a context can end.                                         *)
(***************************************************************************)
EXTENDS NetworkView, Planning

CONSTANTS
    VMs,                \* the VMs, functions give the context of each
    HomeOf,
    Files,              \* disk files on the shared datastore
    FirstFiles,         \* what each VM uses at first
    Changes,            \* the sorts of change the estate may see, for each topic
    MaxChanges,
    Outcomes,           \* how a capture of the two contexts may end
    Wirings,            \* how the first VM may be connected: "distributed", "standard"
    Scenario            \* the target asked about

VARIABLES
    vm,                 \* [VMs -> the VM as it really is]
    topic,              \* what is asked: "rules" or "network"
    wiring, mapped,     \* the network used, and whether the other cluster has it
    down,               \* the NICs without a link, each with its host
    changes,
    outcome, report     \* how the capture ended and what the rules say of it

vars == <<topic, vm, wiring, mapped, down, changes, outcome, report>>

C1 == "c1"
C2 == "c2"
Of(c, first, second) == IF c = C1 THEN first ELSE second
VCenter(c) == Of(c, "vc1", "vc2")
ClusterOf(c) == Of(c, "k1", "k2")
HostOf(c) == Of(c, "h1", "h2")
PortGroupKey(c) == Of(c, "pg1", "pg2")
SwitchUUID(c) == Of(c, "sw1", "sw2")
Day == 2           \* in minutes, the least that tells a day from the minute allowed after a capture
Thresholds == [day |-> Day, guestFree |-> 10, snapshotAge |-> 7, criticalFree |-> 5, warnFree |-> 10, freeBytes |-> 0]

NotYet == [c \in {} |-> "ok"]

Init ==
    /\ \E on \in SUBSET VMs :
          vm = [v \in VMs |-> [here |-> TRUE, power |-> IF v \in on THEN "poweredOn" ELSE "poweredOff",
                               files |-> FirstFiles[v], media |-> FALSE, snap |-> FALSE, feature |-> "none",
                               readable |-> TRUE]]
    /\ topic \in DOMAIN Changes
    /\ wiring \in Wirings
    /\ mapped = TRUE
    /\ down = {}
    /\ changes = 0
    /\ outcome = NotYet
    /\ report = NotYet

-----------------------------------------------------------------------------
(* Changes of the estate.                                                  *)

Changing(sort) ==
    /\ sort \in Changes[topic] /\ outcome = NotYet
    /\ changes < MaxChanges /\ changes' = changes + 1
    /\ UNCHANGED <<topic, outcome, report, wiring>>

Alter(sort, v, with) == Changing(sort) /\ vm[v].here /\ vm' = [vm EXCEPT ![v] = with] /\ UNCHANGED <<mapped, down>>

Attach(v, f) == f \notin vm[v].files /\ Alter("attach", v, [vm[v] EXCEPT !.files = @ \cup {f}])
Detach(v, f) == f \in vm[v].files /\ Alter("detach", v, [vm[v] EXCEPT !.files = @ \ {f}])
Unregister(v) == Alter("unregister", v, [vm[v] EXCEPT !.here = FALSE])
Mount(v) == ~vm[v].media /\ Alter("mount", v, [vm[v] EXCEPT !.media = TRUE])
Snapshot(v) == ~vm[v].snap /\ Alter("snapshot", v, [vm[v] EXCEPT !.snap = TRUE])
Equip(v, feature) == vm[v].feature = "none" /\ Alter("equip", v, [vm[v] EXCEPT !.feature = feature])
HideConfiguration(v) == vm[v].readable /\ Alter("restrict", v, [vm[v] EXCEPT !.readable = FALSE])
Unmap == Changing("unmap") /\ mapped /\ mapped' = FALSE /\ UNCHANGED <<vm, down>>
Unplug(nic) == Changing("unplug") /\ nic \notin down /\ down' = down \cup {nic} /\ UNCHANGED <<vm, mapped>>

-----------------------------------------------------------------------------
(* What a context records.                                                 *)

SharedFile(f) == [dir |-> f, stem |-> f, part |-> "vmdk"]

Disk(f, bus) == [key |-> f, raw |-> FALSE, lun |-> Unknown, uuid |-> f, path |-> <<"shared", SharedFile(f)>>,
                 bus |-> bus, sharing |-> Unknown, cap |-> 10]

RawDisk == [key |-> "raw", raw |-> TRUE, lun |-> "lun1", uuid |-> Unknown, path |-> <<"shared", SharedFile("map")>>,
            bus |-> "noSharing", sharing |-> Unknown, cap |-> 10]

NIC(v) ==
    [network |-> IF wiring = "standard" THEN "vmnet" ELSE "app",
     netId |-> IF wiring = "standard" THEN Unknown ELSE PortGroupKey(HomeOf[v]),
     switchId |-> IF wiring = "standard" THEN Unknown ELSE SwitchUUID(HomeOf[v]),
     macType |-> "assigned", adapter |-> "vmxnet3", missing |-> FALSE]

FullVM(v) ==
    LET t == vm[v]
        c == HomeOf[v]
    IN  [ctx |-> c, vc |-> VCenter(c), id |-> v, name |-> v, iu |-> v, bu |-> v,
         template |-> FALSE, cfg |-> TRUE, power |-> t.power, conn |-> "connected",
         firmware |-> "efi", secure |-> "false", cpu |-> 2, cores |-> 1, auto |-> "true", mem |-> 4,
         cpuAlloc |-> [reservation |-> 0, limit |-> -1], memAlloc |-> [reservation |-> 0, limit |-> -1],
         locked |-> "false",
         disks |-> {Disk(f, IF t.feature = "shared bus" THEN "physicalSharing" ELSE "noSharing") : f \in t.files}
                   \cup (IF t.feature = "raw disk" THEN {RawDisk} ELSE {}),
         stores |-> IF t.files # {} THEN {"shared"} ELSE {}, nics |-> {NIC(v)},
         pci |-> IF t.feature = "pci" THEN {"gpu"} ELSE {}, floppies |-> {},
         tpms |-> IF t.feature = "tpm" THEN {"tpm"} ELSE {},
         cdroms |-> {IF t.media THEN "true" ELSE "false"}, usbs |-> {},
         managed |-> Unknown, rules |-> {}, cluster |-> ClusterOf(c), host |-> HostOf(c),
         tools |-> "guestToolsRunning", toolsVersion |-> "guestToolsCurrent", toolsStatus |-> "toolsOk",
         parts |-> {}, snaps |-> IF t.snap THEN {[at |-> 5]} ELSE {}]

(* An account that may not read the configuration still gets the summary.  *)
VMSeen(v) ==
    IF vm[v].readable THEN FullVM(v)
    ELSE [FullVM(v) EXCEPT !.cfg = FALSE, !.firmware = Unknown, !.secure = Unknown, !.cores = 0, !.auto = Unknown,
              !.cpuAlloc = Unknown, !.memAlloc = Unknown, !.locked = Unknown, !.disks = {}, !.nics = {}, !.pci = {},
              !.tpms = {}, !.cdroms = {}, !.rules = Unknown]

NoSecurity == [p \in Policies |-> "false"]

StoreSeen(c, out) ==
    [ctx |-> c, vc |-> VCenter(c), id |-> Of(c, "ds1", "ds2"), name |-> "shared", local |-> FALSE,
     keys |-> IF out = "no identity" THEN {} ELSE {<<"vmfs", "k1">>}, extents |-> {},
     browse |-> IF out = "denied" THEN "denied" ELSE "success", truncated |-> out = "truncated",
     files |-> IF out = "denied" THEN {} ELSE {[file |-> SharedFile(f), modified |-> 1] : f \in Files},
     cap |-> 100, free |-> 50, uncommitted |-> 0, accessible |-> TRUE, pod |-> Unknown, drs |-> Unknown]

HostSeen(c) ==
    [ctx |-> c, vc |-> VCenter(c), id |-> HostOf(c), name |-> HostOf(c), rank |-> 1, cluster |-> ClusterOf(c),
     vswitches |-> {[name |-> "vSwitch0", mtu |-> 1500, uplinks |-> <<"vmnic0">>, security |-> NoSecurity]},
     portgroups |-> {[name |-> "vmnet", key |-> Of(c, "key1", "key2"), vlan |-> 0, switch |-> "vSwitch0", security |-> NoSecurity]
                     : x \in IF c = C1 \/ mapped THEN {1} ELSE {}},
     mounts |-> {"shared"}, multipaths |-> {}, conn |-> "connected", maintenance |-> FALSE,
     nics |-> [d \in {"vmnic0", "vmnic1", "vmnic2"} |-> IF <<HostOf(c), d>> \in down THEN 0 ELSE 10],
     proxies |-> {[uuid |-> SwitchUUID(c), switch |-> "dvs", mtu |-> 1500,
                   uplinks |-> ("up" :> "vmnic1") @@ ("spare" :> "vmnic2")]},
     vmks |-> {[device |-> "vmk0", pg |-> "vmnet", key |-> Unknown, uuid |-> Unknown, mtu |-> 1500]}]

(* Uplink port groups are there where the network is asked about: no rule  *)
(* reads them.                                                             *)
Uplinked == IF topic = "network" THEN {1} ELSE {}

GroupsSeen(c) ==
    LET group(id, key, name, vlan, uplink, active, standby) ==
            [id |-> id, key |-> key, name |-> name, vlan |-> vlan, segments |-> {}, uplink |-> uplink, teaming |-> Unknown,
             active |-> active, standby |-> standby, security |-> NoSecurity]
    IN  {group(Of(c, "upnet1", "upnet2"), Of(c, "upg1", "upg2"), "uplinks", "trunk 0-4094", TRUE, <<>>, <<>>) : x \in Uplinked}
        \cup IF c = C1 \/ mapped
             THEN {group(Of(c, "net1", "net2"), PortGroupKey(c), "app", "10", FALSE, <<"up">>, <<"spare">>)} ELSE {}

SwitchSeen(c) ==
    [ctx |-> c, vc |-> VCenter(c), id |-> Of(c, "dvs1", "dvs2"), name |-> "dvs", uuid |-> SwitchUUID(c),
     members |-> {HostOf(c)}, mtu |-> 1500, contact |-> Of(c, "admin", "ops"), detail |-> Of(c, "a", "b"),
     portgroups |-> GroupsSeen(c)]

NetSeen(c) ==
    LET net(id, name, type, switch, vlan) ==
            [ctx |-> c, vc |-> VCenter(c), id |-> id, name |-> name, type |-> type, switch |-> switch, vlan |-> vlan,
             accessible |-> TRUE, uplinks |-> name = "uplinks"]
    IN  {net(Of(c, "upnet1", "upnet2"), "uplinks", "portgroup", "dvs", "trunk 0-4094") : x \in Uplinked}
        \cup IF c = C1 \/ mapped
             THEN {net(Of(c, "net1", "net2"), "app", "portgroup", "dvs", "10"), net(Of(c, "std1", "std2"), "vmnet", "standard", Unknown, Unknown)}
             ELSE {}

Kinds == {"vm", "snapshot", "host", "cluster", "datastore", "dvswitch", "resourcepool", "network"}

Lost(out) == CASE out = "unreachable" -> Kinds [] out = "no vm" -> {"vm", "snapshot"}
               [] out = "no datastore" -> {"datastore"} [] out = "no host" -> {"host"} [] out = "no switch" -> {"dvswitch"} [] OTHER -> {}

ContextRow(c, out) ==
    [name |-> c, vc |-> IF out = "unreachable" THEN Unknown ELSE VCenter(c), finished |-> 10,
     coll |-> IF out = "unreachable" THEN NotYet ELSE [k \in Kinds |-> IF k \in Lost(out) THEN "failed" ELSE "success"]]

Captured(outs) ==
    LET has(kind) == {c \in {C1, C2} : kind \notin Lost(outs[c])} IN
    [schema |-> 38, finished |-> 10, ctx |-> <<ContextRow(C1, outs[C1]), ContextRow(C2, outs[C2])>>,
     status |-> IF \A c \in {C1, C2} : Lost(outs[c]) = {} THEN "complete" ELSE "partial",
     vms |-> {VMSeen(v) : v \in {x \in VMs : vm[x].here /\ HomeOf[x] \in has("vm")}},
     hosts |-> {HostSeen(c) : c \in has("host")},
     stores |-> {StoreSeen(c, outs[c]) : c \in has("datastore")},
     clusters |-> {[ctx |-> c, vc |-> VCenter(c), id |-> ClusterOf(c), name |-> ClusterOf(c), ha |-> Unknown] : c \in has("cluster")},
     switches |-> {SwitchSeen(c) : c \in has("dvswitch")}, pools |-> {},
     nets |-> UNION {NetSeen(c) : c \in has("network")}]

(* The inventory and the topology read the terminal interface holds after  *)
(* the same reads; an adapter names its network there by the object's id.  *)
LiveVM(v) ==
    [name |-> v, host |-> HostOf(HomeOf[v]), cluster |-> ClusterOf(HomeOf[v]),
     nics |-> IF ~vm[v].readable THEN {}
              ELSE {[network |-> NIC(v).network,
                     netId |-> IF wiring = "standard" THEN Of(HomeOf[v], "std1", "std2") ELSE Of(HomeOf[v], "net1", "net2")]}]

Live(c, out) ==
    LET has(kind) == kind \notin Lost(out)
        here == {v \in VMs : vm[v].here /\ HomeOf[v] = c /\ has("vm")}
        nets == NetSeen(c)
        on(n) == {v \in VMs : vm[v].here /\ HomeOf[v] = c /\ NIC(v).network = n.name}
    IN  IF out = "unreachable" THEN [inv |-> Unknown, topo |-> Unknown]
        ELSE [inv |-> [nets |-> nets, vms |-> {LiveVM(v) : v \in here}, clusters |-> {ClusterOf(c)}],
              topo |-> [hosts |-> IF has("host") THEN {HostSeen(c)} ELSE {},
                        switches |-> IF has("dvswitch") THEN {SwitchSeen(c)} ELSE {},
                        counts |-> [id \in {n.id : n \in nets} |-> Cardinality(UNION {on(n) : n \in {x \in nets : x.id = id}})]]]

(* The Networks tab with every switch folded and the filter set to each    *)
(* network's name in turn, the hosts' pages, and the VLAN map.             *)
Views(outs) ==
    LET live == [c \in {C1, C2} |-> Live(c, outs[c])]
        read == {c \in {C1, C2} : live[c].inv # Unknown}
        switches == [c \in read |-> BuildNetSwitches(live[c].inv, live[c].topo)]
    IN  [tree |-> [c \in read |-> [n \in ToSet(NetworkNames) |-> NetworkTreeRows(switches[c], n, {"dvs", "vSwitch0"})]],
         host |-> [c \in read |-> {BuildHostNet(h, switches[c]) : h \in live[c].topo.hosts}],
         unread |-> [c \in read |-> UnreadSwitches(live[c].topo, live[c].topo.hosts) \cup UnreadClusters(live[c].inv, live[c].topo)],
         vlans |-> [c \in read |-> VLANColumn(live[c].inv, live[c].topo)],
         notes |-> VLANNotes([c \in read |-> VLANColumn(live[c].inv, live[c].topo)], "10"),
         pair |-> VLANPairResult(live[C1], ClusterOf(C1), live[C2], ClusterOf(C2))]

(* What the commands answer, each from the stored run.                     *)
RuleAnswers(data) ==
    LET g      == Build(data)
        stores == Resolve(g, "datastore", "shared", {})
    IN  [readiness |-> Readiness(Evaluate(data, Thresholds, {})),
         unused    |-> {e.file.dir : e \in {x \in OrphanEntries(data, Day) : x.confidence = "verified-unreferenced"}},
         sizing    |-> EvaluateSizing(data, Scenario),
         free      |-> {v \in VMs : EvaluateDecommission(data, v, {}) = "no-blockers"},
         affected  |-> {[vms |-> {e.from.name : e \in {x \in r.edges : x.from.kind = "vm"}}, confidence |-> r.confidence]
                        : r \in {BlastRadius(g, s, 1) : s \in stores}},
         attached  |-> {e.from.name : e \in {x \in UNION {TopologyOf(g, s).edges : s \in stores} : x.from.kind = "vm"}},
         looked    |-> UNION {{<<x.file.dir, AssessDatastoreFile(data, s, x.file, Day)>> : x \in s.files}
                              : s \in {d \in data.stores : Browsed(d)}}]

NetworkAnswers(data, outs) ==
    LET net == Compare(data, Build(data), ClusterOf(C1), ClusterOf(C2), {})
    IN  [verdict |-> NetworkVerdict(net), missing |-> {x.network : x \in net.gaps}, views |-> Views(outs)]

Capture(outs) ==
    /\ outcome = NotYet
    /\ outcome' = outs
    /\ report' = IF topic = "rules" THEN RuleAnswers(Captured(outs)) ELSE NetworkAnswers(Captured(outs), outs)
    /\ UNCHANGED <<topic, vm, wiring, mapped, down, changes>>

Next ==
    \/ \E v \in VMs, f \in Files : Attach(v, f) \/ Detach(v, f)
    \/ \E v \in VMs : Unregister(v) \/ Mount(v) \/ Snapshot(v) \/ HideConfiguration(v)
    \/ \E v \in VMs, feature \in {"raw disk", "shared bus", "pci", "tpm"} : Equip(v, feature)
    \/ Unmap
    \/ \E c \in {C1, C2}, d \in {"vmnic0", "vmnic1", "vmnic2"} : Unplug(<<HostOf(c), d>>)
    \/ \E outs \in Outcomes : Capture(outs)

Spec == Init /\ [][Next]_vars

-----------------------------------------------------------------------------
Asked == outcome # NotYet /\ topic = "rules"
AskedNetwork == outcome # NotYet /\ topic = "network"
Registered == {v \in VMs : vm[v].here}
Movable(t) == ~t.media /\ t.feature \in {"none", "shared bus"} /\ (t.feature = "shared bus" => t.files = {})

(* "vsfleet analyze readiness" says "ready" only of an estate in which no  *)
(* VM has a raw disk, a shared bus, a passed-through device, a vTPM or     *)
(* connected media, whatever parts of the capture failed or were denied.   *)
ReadyMeansReady ==
    Asked /\ report.readiness = "ready" => \A v \in Registered : Movable(vm[v])

(* A file the orphan report, or the file's own page, calls verified        *)
(* unreferenced is used by no VM with a readable configuration in a        *)
(* context whose datastores, with their identity, the run recorded; and a  *)
(* file the page calls referenced is one that some VM uses.                *)
OrphanSafe ==
    Asked =>
        /\ \A f \in report.unused \cup {x[1] : x \in {y \in report.looked : y[2] = "verified-unreferenced"}} :
            \A v \in Registered : f \in vm[v].files =>
                ~vm[v].readable \/ outcome[HomeOf[v]] \in {"unreachable", "no datastore", "no identity"}
        /\ \A x \in report.looked : x[2] \in {"referenced", "referenced-other-context"} =>
            \E v \in Registered : x[1] \in vm[v].files

(* The documentation's word on the same: a datastore whose identity some   *)
(* context did not get keeps the files that context uses from being called *)
(* verified.                                                               *)
IdentityGapIsSeen ==
    Asked => \A f \in report.unused, v \in Registered :
        f \in vm[v].files => ~vm[v].readable \/ outcome[HomeOf[v]] # "no identity"

(* "analyze sizing" says "fit" only when the powered-on VMs, the disk      *)
(* files they use counted once, really fit the target.                     *)
SizingSafe ==
    Asked /\ report.sizing = "fit" =>
        LET on == {v \in Registered : vm[v].power = "poweredOn"} IN
        /\ 2 * Cardinality(on) <= UsableHosts(Scenario) * Given(Scenario.cores, 0)
        /\ 10 * Cardinality(UNION {vm[v].files : v \in on}) <= Given(Scenario.store, 0)

(* A VM the decommission review has no blockers for is registered, off,    *)
(* has no snapshot, no connected media and no raw disk.                    *)
DecommissionSafe ==
    Asked => \A v \in report.free : vm[v].here /\ vm[v].power = "poweredOff" /\ ~vm[v].snap /\ ~vm[v].media
                                    /\ vm[v].feature # "raw disk"

(* When every answer to "what depends on this datastore" is called         *)
(* complete, together they name every VM with a disk on it, in whichever   *)
(* context; and so does the page of the datastore.                         *)
BlastComplete ==
    Asked /\ report.affected # {} /\ (\A r \in report.affected : r.confidence = "complete") =>
        \A v \in Registered : vm[v].files # {} => v \in report.attached /\ \E r \in report.affected : v \in r.vms

(* The network comparison calls a migration ready only when the network    *)
(* that the source cluster's VMs use exists on the target.                 *)
ReadyNetworkIsThere ==
    AskedNetwork /\ report.verdict = "ready" => mapped \/ \A v \in Registered : HomeOf[v] # C1 \/ ~vm[v].readable

(* What a user acts on is safe whatever the capture could not see: ready,  *)
(* fit, free of blockers and a network that is there are said only where   *)
(* the estate bears it out.                                                *)
AdviceSafe == ReadyMeansReady /\ SizingSafe /\ DecommissionSafe /\ ReadyNetworkIsThere

(* "The two never disagree about what is missing" (vlanmap.go): where the  *)
(* VLAN map compares two clusters and is not blind, and the stored run has *)
(* a verdict, both name the same missing networks and both are blocked or  *)
(* neither is.                                                             *)
MapAgrees ==
    AskedNetwork /\ report.views.pair # Unknown /\ report.verdict # "unknown" /\ outcome[C1] # "no vm" =>
        LET pair == report.views.pair IN
        pair.blind = {} => pair.missing = report.missing /\ (pair.blockers # {} <=> report.verdict = "blocked")

(* The network views against the estate, whatever could not be read: every *)
(* network but the uplinks' is found by its name under a folded switch; a  *)
(* port group shown as good or unused has its active uplink's link on the  *)
(* host, and one not shown as bad has a link; a lost link of a switch is   *)
(* on the switch's row and on the host's page; no NIC is called spare,     *)
(* also where the switch cannot be read; a VM in the VLAN map is counted   *)
(* on its VLAN.                                                            *)
ViewsHonest ==
    AskedNetwork => \A c \in DOMAIN report.views.tree :
        LET views == report.views
            out(d) == <<HostOf(c), d>> \in down
            rows(n) == views.tree[c][n]
            shown  == UNION {UNION {{k : k \in r.children} : r \in rows(n)} : n \in ToSet(NetworkNames)}
            wired  == {"host", "dvswitch"} \cap Lost(outcome[c]) = {}
        IN  /\ {n.id : n \in {x \in NetSeen(c) : ~x.uplinks}} = {k.net : k \in shown} \ {Unknown}
            /\ wired => \A k \in shown : k.name = "app" =>
                  /\ out("vmnic1") => k.status \in {"warn", "bad"}
                  /\ out("vmnic1") /\ out("vmnic2") => k.status = "bad"
            /\ wired => \A r \in rows("app") : r.name = "dvs" => (r.status = "bad" <=> out("vmnic1") \/ out("vmnic2"))
            /\ \A p \in views.host[c] :
                  /\ p.spare = {}
                  /\ wired => \A d \in {"vmnic0", "vmnic1", "vmnic2"} : out(d) <=> <<"bad", d, "no link">> \in p.findings
            /\ wired /\ wiring = "distributed" /\ "vm" \notin Lost(outcome[c]) =>
                  \A v \in Registered : HomeOf[v] = c /\ vm[v].readable /\ (c = C1 \/ mapped) =>
                      "10" \in DOMAIN views.vlans[c] /\ v \in views.vlans[c]["10"].vms

(* The network screens agree with the stored runs' comparison and with the *)
(* estate.                                                                 *)
NetworkViewsTrue == MapAgrees /\ ViewsHonest
=============================================================================
