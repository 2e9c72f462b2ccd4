---------------------------- MODULE MCRetrieval ----------------------------
(* A datacenter with two VM folders, a vApp and a cluster; three VMs, one   *)
(* of them a template; three datastores.                                   *)
EXTENDS Retrieval

Ent(name, kind, parent) == [name |-> name, kind |-> kind, parent |-> parent]

MCTree ==
    [dc |-> Ent("dc", "Datacenter", Unknown), vf |-> Ent("vm", "Folder", "dc"), f1 |-> Ent("f1", "Folder", "vf"),
     f2 |-> Ent("f2", "Folder", "vf"), cl |-> Ent("cl", "Cluster", "dc"), pool |-> Ent("pool", "ResourcePool", "cl"),
     va |-> Ent("va", "VirtualApp", "pool"), h1 |-> Ent("h1", "HostSystem", "cl")]

MCVAppLinks == [va |-> "f2"]
MCVMIds == {"v1", "v2", "v3"}
MCDatacenters == [dc |-> "dc"]
MCStarts == {[v1 |-> "f1", v2 |-> "va", v3 |-> "f2"], [v1 |-> "f1", v2 |-> "f2", v3 |-> "gone"]}
MCHostOf == [v \in MCVMIds |-> "h1"]
MCValued == {"v1", "v2"}
MCAttached == [v1 |-> <<"prod", "gold">>, v2 |-> <<"prod">>, v3 |-> <<>>]

Settings(r, i) == [restart |-> r, isolation |-> i]
MCClusterConfigs ==
    [cl |-> [default |-> Settings("medium", "none"),
             overrides |-> {[vm |-> "v1", restart |-> "high", isolation |-> "clusterIsolationResponse", settings |-> Settings("", "")]},
             groups |-> {[name |-> "g1", vms |-> {"v2"}]},
             rules |-> {[kind |-> "affinity", vms |-> {"v1", "v2"}, group |-> ""], [kind |-> "vm-host", vms |-> {}, group |-> "g1"]}]]

MCVApps == {[id |-> "va", name |-> "va", parent |-> "pool", pools |-> {"va"}, links |-> {}, vms |-> {"v1"}]}

File(path, size, owner) == [path |-> path, folder |-> FALSE, size |-> size, owner |-> owner, disk |-> TRUE]
MCStores ==
    << [name |-> "d1", accessible |-> TRUE, browser |-> TRUE,
        files |-> <<File("a.vmdk", 0, ""), File("a-flat.vmdk", 4, "a.vmdk"), [File("logs", 0, "") EXCEPT !.folder = TRUE, !.disk = FALSE]>>],
       [name |-> "d2", accessible |-> FALSE, browser |-> TRUE, files |-> <<File("b.vmdk", 1, "")>>],
       [name |-> "d3", accessible |-> TRUE, browser |-> TRUE, files |-> <<File("c.vmdk", 1, ""), File("d.vmdk", 1, ""), File("e.vmdk", 1, "")>>] >>

MCRaw(v, c) ==
    CASE v = "v1" -> IF c = "cpu.usage" THEN <<1000, 2000>> ELSE <<512, 600>>
      [] v = "v2" -> IF c = "cpu.usage" THEN <<9000, 9500>> ELSE <<>>
      [] OTHER    -> <<>>

MCIntervals == {[period |-> 10, length |-> 10, level |-> 0], [period |-> 20, length |-> 40, level |-> 2]}

Event(kind, time, task, chain) ==
    [kind |-> kind, time |-> time, task |-> task, chain |-> chain, failed |-> FALSE, error |-> FALSE, severity |-> "info"]
MCEventLog == <<Event("create", 1, "", 0), Event("snapcreate", 2, "t1", 1), Event("migrate", 3, "", 2), Event("other", 4, "", 3)>>

Task(key, kind, time, chain, state) == [key |-> key, kind |-> kind, time |-> time, chain |-> chain, state |-> state]
MCTaskLog == <<Task("t1", "snapcreate", 2, 1, "error"), Task("t2", "task", 3, 9, "success"), Task("t3", "task", 4, 8, "error")>>
=============================================================================
