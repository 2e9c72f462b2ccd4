---------------------------- MODULE MCEstateRules ----------------------------
EXTENDS EstateRules

Homes == ("v1" :> C1) @@ ("v2" :> C2)
Using == ("v1" :> {"f1"}) @@ ("v2" :> {"f2"})
Both(a, b) == (C1 :> a) @@ (C2 :> b)
Endings == {Both("ok", "ok"), Both("ok", "unreachable"), Both("ok", "no vm"), Both("no datastore", "ok"),
            Both("no host", "ok"), Both("truncated", "ok"), Both("ok", "no identity"), Both("denied", "no vm"),
            Both("no vm", "ok"), Both("no switch", "ok")}
EveryChange ==
    ("rules" :> {"attach", "detach", "unregister", "mount", "snapshot", "equip", "restrict"})
    @@ ("network" :> {"unregister", "restrict", "unmap", "unplug"})
Names == <<"app", "uplinks", "vmnet">>
Target == [hosts |-> {2}, cores |-> {4}, ram |-> {8}, store |-> {20}, rdm |-> {10}, cpuRatio |-> {}, memRatio |-> {},
           growth |-> {}, failures |-> {}, clusters |-> {}, off |-> FALSE]
=============================================================================
