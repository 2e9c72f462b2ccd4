----------------------------- MODULE MCExchange -----------------------------
(***************************************************************************)
(* Two vCenters whose managed-object IDs overlap; in the first, two VMs of *)
(* one name and one BIOS UUID, and two switches of one name in two         *)
(* datacenters.  In one run the two contexts are of one vCenter, and a     *)
(* context of it never answered.                                           *)
(***************************************************************************)
EXTENDS Exchange

Ctx(name, host, vcid, vm, failed, error) ==
    [name |-> name, endpoint |-> [scheme |-> "https", host |-> host], vcid |-> vcid, vm |-> vm, perf |-> FALSE, error |-> error,
     coll |-> [k \in PersistedKinds \cup {"license"} |->
                 IF k = "license" THEN "not recorded" ELSE IF k = failed THEN "failed" ELSE "success"]]

Path(ds, dir, leaf) == [ds |-> ds, dir |-> dir, leaf |-> leaf]
VMof(ctx, vcid, id, uuid, bios, name, dc, folder, snaps, disks) ==
    [ctx |-> ctx, vcid |-> vcid, id |-> id, uuid |-> uuid, bios |-> bios, name |-> name, dc |-> dc, host |-> "esx1",
     cluster |-> "C1", annotation |-> Unknown, cpu |-> 2, mem |-> 4, used |-> 1, folder |-> folder,
     consolidation |-> Unknown, ha |-> "high", vmx |-> Path("store", id, "vmx"),
     disks |-> disks, nics |-> <<[key |-> 4000, label |-> "nic", network |-> "lan", connected |-> TRUE]>>,
     media |-> <<[key |-> 3, sheet |-> "vCD", connected |-> TRUE, backing |-> Path("store", "iso", "os")]>>,
     parts |-> <<[disks |-> {2000}, free |-> 1, fs |-> "ext4"]>>, snaps |-> snaps,
     tools |-> [status |-> "toolsOk", state |-> "guestToolsRunning", version |-> "guestToolsCurrent"]]
Disk(id) == [key |-> 2000, cap |-> 8, thin |-> TRUE, path |-> Path("store", id, "disk")]
Snap(n, t) == [name |-> n, time |-> t, seq |-> t]

Host(ctx, vcid, dc) ==
    [kind |-> "host", ctx |-> ctx, vcid |-> vcid, id |-> "host-1", name |-> "esx1", dc |-> dc, cluster |-> "C1", cores |-> 8,
     mem |-> 64, mhz |-> 2, maintenance |-> FALSE, certificate |-> "issuer",
     nics |-> <<[key |-> 1, device |-> "vmnic0", speed |-> 10]>>,
     portgroups |-> <<[key |-> 1, name |-> "lan", vlan |-> 7, failback |-> TRUE]>>,
     paths |-> <<[key |-> 1, lun |-> "naa.1", count |-> 2, dead |-> 1]>>]
Cluster(ctx, vcid) ==
    [kind |-> "cluster", ctx |-> ctx, vcid |-> vcid, id |-> "domain-1", name |-> "C1", dc |-> "DC1", cpu |-> 16, mem |-> 64,
     cores |-> 8, ha |-> TRUE, failover |-> 1]
Store(ctx, vcid) ==
    [kind |-> "datastore", ctx |-> ctx, vcid |-> vcid, id |-> "ds-1", name |-> "store", dc |-> "DC1", cap |-> 100, free |-> 40,
     accessible |-> TRUE, address |-> "naa.1", files |-> Unknown]
Switch(ctx, vcid, id, dc, up) ==
    [kind |-> "dvswitch", ctx |-> ctx, vcid |-> vcid, id |-> id, name |-> "dvs", dc |-> dc, mtu |-> 9000,
     portgroups |-> <<[key |-> 1, name |-> "pg", pgkey |-> "pg-" \o dc, vlan |-> "7", uplink |-> FALSE, failback |-> TRUE],
                      [key |-> 2, name |-> up, pgkey |-> "up-" \o dc, vlan |-> "trunk", uplink |-> TRUE, failback |-> FALSE]>>]
VApp(member) ==
    [kind |-> "vapp", ctx |-> "lab1", vcid |-> "u-lab", id |-> "vapp-1", name |-> "shop", dc |-> "DC1", parent |-> "Resources",
     nested |-> FALSE, members |-> {member}]
Pool == [kind |-> "resourcepool", ctx |-> "lab1", vcid |-> "u-lab", id |-> "pool-1", name |-> "Resources", dc |-> "DC1",
         path |-> <<"DC1", "host", "C1", "Resources">>, members |-> {"vm-1", "vm-2"}]

Drop(res, ctx, kind) == SelectSeq(res, LAMBDA r : ~(r.ctx = ctx /\ r.kind = kind))

RunOf(failed, inVApp, snaps, vcid, status) ==
    [id |-> "run-7", schema |-> 10, status |-> status,
     contexts |-> <<Ctx("lab1", "vc-lab", "u-lab", "success", Unknown, {}),
                    Ctx("prod", "vc-prod", vcid, "success", failed, IF failed = Unknown THEN {} ELSE {"dial", "vc-prod", "esx1"})>>,
     vms |-> <<VMof("lab1", "u-lab", "vm-1", "uu1", "bios", "web", "DC1", <<"apps", "DC1">>, snaps, <<Disk("vm-1")>>),
               VMof("lab1", "u-lab", "vm-2", "uu2", "bios", "web", "DC1", <<>>, <<Snap("s2", 30)>>, <<Disk("vm-2")>>),
               VMof("prod", vcid, "vm-1", "uu3", "bios3", "db", "DC1", <<"DC1">>, <<>>, <<Disk("vm-9")>>)>>,
     res |-> Drop(<<Host("lab1", "u-lab", "DC1"), Host("prod", vcid, "DC1"), Cluster("lab1", "u-lab"), Cluster("prod", vcid),
               Store("lab1", "u-lab"), Store("prod", vcid), Switch("lab1", "u-lab", "dvs-1", "DC1", "dvs-DVUplinks-1"),
               Switch("lab1", "u-lab", "dvs-2", "DC2", "dvs-DVUplinks-2"), Switch("prod", vcid, "dvs-1", "DC1", "dvs-DVUplinks-1")>>
               \o (IF inVApp THEN <<VApp("vm-2"), Pool>> ELSE <<Pool>>), "prod", failed)]

MCLiveRuns ==
    {RunOf(Unknown, FALSE, <<Snap("s1", 20), Snap("s1b", 25)>>, "u-prod", "complete"),
     RunOf("host", TRUE, <<Snap("s1", 20)>>, "u-prod", "partial"), RunOf("datastore", FALSE, <<>>, "u-prod", "partial"),
     RunOf(Unknown, TRUE, <<Snap("s2", 20)>>, "u-lab", "partial")}
MCFormats == {{}, {"Context"}, {"VMID", "VMUUID", "SMBIOS"}, {"UUID"}, {"Key", "Uplink"}}
MCContextMaps == {<<>>, [k \in {"lab1"} |-> "prod"], [k \in {"lab1", "vc-lab"} |-> "renamed"]}
MCNamedUplinks == {"dvs-DVUplinks-1", "dvs-DVUplinks-2"}
MCShortNames == {"web"}
=============================================================================
