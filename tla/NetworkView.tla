---------------------------- MODULE NetworkView ----------------------------
(***************************************************************************)
(* The terminal interface's views of the network (internal/tui): the       *)
(* Networks tab, which groups port groups under their switches and judges  *)
(* them (network.go), a host's Network page (hostnet.go) and the VLAN map  *)
(* with its comparison of two clusters (vlanmap.go).                       *)
(*                                                                         *)
(* All are computed from one vCenter's inventory                           *)
(*     [nets, vms, clusters]                                               *)
(* and its last topology read                                              *)
(*     [hosts, switches, counts]                                           *)
(* (counts: VMs by network id), either of which may be Unknown.  A link is *)
(* its speed, 0 when there is none; texts, keys and order are left out.    *)
(***************************************************************************)
EXTENDS NetworkCompare

First(S) == CHOOSE x \in S : TRUE

(* ParseVLAN(s).String(): 0 and no VLAN are one, 4095 is every VLAN.       *)
ParseVLAN(s) ==
    CASE s \in {Unknown, "0", "none"} -> "none" [] s = "4095" -> "trunk 0-4094" [] OTHER -> s

StandardVLAN(id) == ParseVLAN(ToString(id))

-----------------------------------------------------------------------------
(* The switches of one vCenter.                                            *)

VMCount(topo, n) == IF topo = Unknown \/ n.id \notin DOMAIN topo.counts THEN -1 ELSE topo.counts[n.id]

(* A port group: a network of the inventory, a group of the switch's own   *)
(* record, or both; the other is Unknown.                                  *)
NewPortGroup(n, g, vms) ==
    [net |-> IF n = Unknown THEN Unknown ELSE n.id,
     key |-> IF g = Unknown THEN Unknown ELSE g.key,
     name |-> IF n # Unknown THEN n.name ELSE g.name,
     vlan |-> IF n # Unknown /\ (n.vlan # Unknown \/ g = Unknown) THEN n.vlan ELSE g.vlan,
     accessible |-> n = Unknown \/ n.accessible,
     vms |-> vms, vmks |-> {}, hosts |-> 0, differs |-> FALSE,
     active |-> IF g = Unknown THEN {} ELSE ToSet(g.active),
     standby |-> IF g = Unknown THEN {} ELSE ToSet(g.standby),
     promiscuous |-> g # Unknown /\ g.security["promiscuous"] = "true"]

(* Which NIC is behind an uplink; one the host does not list has no link.  *)
HostNIC(h, device) ==
    IF device = Unknown THEN Unknown
    ELSE [device |-> device, speed |-> IF device \in DOMAIN h.nics THEN h.nics[device] ELSE 0]

Linked(nic) == nic # Unknown /\ nic.speed > 0

ProxySwitchFor(h, d) ==
    {p \in h.proxies : (d.uuid # Unknown /\ p.uuid = d.uuid) \/ (p.uuid = Unknown /\ p.switch = d.name)}

NamedHost(topo, name) == {h \in topo.hosts : h.name = name}

SwitchHost(d, name, topo) ==
    LET h == First(NamedHost(topo, name))
        p == First(ProxySwitchFor(h, d))
        bare == [name |-> name, cluster |-> Unknown, connected |-> FALSE, mtu |-> 0, nics |-> <<>>]
    IN  IF NamedHost(topo, name) = {} THEN bare
        ELSE [bare EXCEPT !.cluster = h.cluster, !.connected = (h.conn = "connected"),
                          !.mtu = IF ProxySwitchFor(h, d) = {} THEN 0 ELSE p.mtu,
                          !.nics = IF ProxySwitchFor(h, d) = {} THEN <<>>
                                   ELSE [u \in DOMAIN p.uplinks |-> HostNIC(h, p.uplinks[u])]]

(* wireDistributed: the hosts of the switch, the uplinks they or its port  *)
(* groups name, the hosts of the same clusters that are not on it, and the *)
(* VMkernel adapters of each port group.                                   *)
WireDistributed(sw, d, topo) ==
    LET hosts    == {SwitchHost(d, name, topo) : name \in d.members}
        clusters == {h.cluster : h \in hosts} \ {Unknown}
        vmks(g)  == {[host |-> h.name, device |-> v.device, mtu |-> v.mtu]
                     : <<h, v>> \in {hv \in UNION {{<<x, y>> : y \in x.vmks} : x \in topo.hosts} :
                                        /\ g.key # Unknown /\ hv[2].key = g.key
                                        /\ Unknown \in {hv[2].uuid, d.uuid} \/ hv[2].uuid = d.uuid}}
    IN  [sw EXCEPT !.hosts = hosts,
                   !.uplinks = UNION ({DOMAIN h.nics : h \in hosts} \cup {g.active \cup g.standby : g \in sw.groups}),
                   !.notJoined = {h.name : h \in {x \in topo.hosts : x.name \notin d.members /\ x.cluster \in clusters}},
                   !.groups = {[g EXCEPT !.vmks = vmks(g)] : g \in @}]

NewSwitch(kind, name) ==
    [kind |-> kind, name |-> name, id |-> Unknown, uuid |-> Unknown, own |-> {}, wired |-> FALSE, catchAll |-> FALSE,
     mtu |-> 0, mtuDiffers |-> FALSE, uplinks |-> {}, hosts |-> {}, notJoined |-> {}, groups |-> {}]

(* The switches that were read, and those only a network names.            *)
DVSwitches(nets, topo) ==
    LET read  == IF topo = Unknown THEN {} ELSE topo.switches
        named == {n.switch : n \in {x \in nets : x.type = "portgroup" /\ x.switch # Unknown}}
    IN  read \cup {[id |-> Unknown, uuid |-> Unknown, name |-> s, members |-> {}, mtu |-> 0, portgroups |-> {}]
                   : s \in named \ {d.name : d \in read}}

(* A network goes to the first switch of the name it gives; uplink port    *)
(* groups are not shown, told by their name when the switch was not read.  *)
Carried(d, all, nets) ==
    {n \in nets : n.type = "portgroup" /\ n.switch = d.name /\ d = First({x \in all : x.name = d.name})}

DistributedSwitch(d, all, nets, topo) ==
    LET hidden == {g.name : g \in {x \in d.portgroups : x.uplink}}
        own    == {g \in d.portgroups : g.name \notin hidden}
        mine   == {n \in Carried(d, all, nets) : n.name \notin hidden /\ ~(d.id = Unknown /\ n.uplinks)}
        group(n) == LET g == {x \in own : x.name = n.name} IN IF g = {} THEN Unknown ELSE First(g)
        sw == [NewSwitch("distributed", d.name) EXCEPT
                  !.id = d.id, !.uuid = d.uuid, !.own = d.portgroups, !.wired = (d.id # Unknown), !.mtu = d.mtu,
                  !.groups = {NewPortGroup(n, group(n), VMCount(topo, n)) : n \in mine}
                             \cup {NewPortGroup(Unknown, g, -1) : g \in {x \in own : x.name \notin {n.name : n \in mine}}}]
    IN  IF d.id = Unknown THEN sw ELSE WireDistributed(sw, d, topo)

(* majorityPair: the value most hosts have, of equals the least.           *)
CountOf(f, v) == Cardinality({x \in DOMAIN f : f[x] = v})
Majority(f) ==
    CHOOSE v \in Range(f) : \A w \in Range(f) : CountOf(f, w) < CountOf(f, v) \/ (CountOf(f, w) = CountOf(f, v) /\ v <= w)
StrictMajority(f) == \A w \in Range(f) \ {Majority(f)} : CountOf(f, w) < CountOf(f, Majority(f))
Differs(f) == Cardinality(Range(f)) > 1

(* buildStandardSwitches: every host's standard switch of one name taken   *)
(* together; a network goes to every such switch with a group of its name, *)
(* of two networks of that name one.                                       *)
StandardSwitch(name, nets, topo) ==
    LET on      == {h \in topo.hosts : \E w \in h.vswitches : w.name = name}
        its(h)  == First({w \in h.vswitches : w.name = name})
        with(p) == {h \in topo.hosts : \E g \in h.portgroups : g.switch = name /\ g.name = p}
        of(h, p) == First({g \in h.portgroups : g.switch = name /\ g.name = p})
        mtus    == [h \in on |-> its(h).mtu]
        group(p) ==
            LET vlans == [h \in with(p) |-> of(h, p).vlan]
                found == {n \in nets : n.type = "standard" /\ n.name = p}
                n     == First(found)
            IN  [net |-> IF found = {} THEN Unknown ELSE n.id, key |-> Unknown, name |-> p,
                 vlan |-> StandardVLAN(Majority(vlans)), accessible |-> found = {} \/ n.accessible,
                 vms |-> IF found = {} THEN -1 ELSE VMCount(topo, n),
                 vmks |-> UNION {{[host |-> h.name, device |-> v.device, mtu |-> v.mtu]
                                  : v \in {x \in h.vmks : x.pg = p /\ x.key = Unknown}} : h \in with(p)},
                 hosts |-> Cardinality(with(p)), differs |-> Differs(vlans), active |-> {}, standby |-> {},
                 promiscuous |-> \E h \in with(p) : of(h, p).security["promiscuous"] = "true"]
    IN  [NewSwitch("standard", name) EXCEPT
            !.wired = TRUE, !.mtu = Majority(mtus), !.mtuDiffers = Differs(mtus),
            !.hosts = {[name |-> h.name, cluster |-> h.cluster, connected |-> h.conn = "connected", mtu |-> its(h).mtu,
                        nics |-> [d \in ToSet(its(h).uplinks) |-> HostNIC(h, d)]] : h \in on},
            !.uplinks = UNION {ToSet(its(h).uplinks) : h \in on},
            !.groups = {group(p) : p \in {g.name : g \in UNION {{x \in h.portgroups : x.switch = name} : h \in topo.hosts}}}]

StandardSwitches(nets, topo) ==
    IF topo = Unknown THEN {}
    ELSE {StandardSwitch(s, nets, topo) : s \in UNION {{w.name : w \in h.vswitches} : h \in topo.hosts}}

(* What no switch was found for: opaque networks and the rest.             *)
CatchAll(kind, left) ==
    IF left = {} THEN {}
    ELSE {[NewSwitch(kind, kind) EXCEPT !.catchAll = TRUE, !.groups = {NewPortGroup(n, Unknown, -1) : n \in left}]}

BuildNetSwitches(inv, topo) ==
    LET nets == IF inv = Unknown THEN {} ELSE inv.nets
        dvss == DVSwitches(nets, topo)
        standard == StandardSwitches(nets, topo)
        used == UNION {Carried(d, dvss, nets) : d \in dvss}
                \cup {n \in nets : n.id \in UNION {{g.net : g \in sw.groups} : sw \in standard}}
        left == nets \ used
    IN  {DistributedSwitch(d, dvss, nets, topo) : d \in dvss} \cup standard
        \cup CatchAll("opaque", {n \in left : n.type = "opaque"}) \cup CatchAll("standard", {n \in left : n.type # "opaque"})

-----------------------------------------------------------------------------
(* judgeSwitch: findings about the switch and about its port groups, and   *)
(* the status of each, "good" with none but "idle" when nothing uses it.   *)

LinkedUplinksAssigned(h, uplinks) ==        \* seeded fault: a NIC without a link counts
    {u \in uplinks \cap DOMAIN h.nics : h.nics[u] # Unknown}

LinkedUplinks(h, uplinks) == {u \in uplinks \cap DOMAIN h.nics : Linked(h.nics[u])}

UplinkFindings(sw, u) ==
    LET on    == {h \in sw.hosts : u \in DOMAIN h.nics}
        bare  == {h \in on : h.nics[u] = Unknown}
        used  == \E g \in sw.groups : u \in g.active \cup g.standby
        speed == [h \in {x \in on : Linked(x.nics[u])} |-> h.nics[u].speed]
    IN  (IF bare # {} /\ (bare # on \/ used) THEN {<<"warn", u, "no NIC">>} ELSE {})
        \cup {<<"bad", h.name, "no link">> : h \in {x \in on \ bare : ~Linked(x.nics[u])}}
        \cup (IF ~Differs(speed) THEN {} ELSE IF ~StrictMajority(speed) THEN {<<"warn", u, "speeds differ">>}
              ELSE {<<"warn", h.name, "odd speed">> : h \in {x \in DOMAIN speed : speed[x] # Majority(speed)}})

SwitchFindings(sw) ==
    {<<"warn", h, "not on this switch">> : h \in sw.notJoined}
    \cup (IF sw.mtuDiffers THEN {<<"warn", sw.name, "MTU differs">>} ELSE {})
    \cup UNION {UplinkFindings(sw, u) : u \in sw.uplinks}

GroupFindings(sw, g) ==
    LET teamed == sw.kind = "distributed" /\ sw.wired
        hosts  == {h \in sw.hosts : teamed /\ g.active \cup g.standby # {} /\ h.connected /\ DOMAIN h.nics # {}}
        idle   == {h \in hosts : LinkedUplinks(h, g.active) = {}}
        none   == {h \in idle : LinkedUplinks(h, g.standby) = {}}
        note(if, status, what) == IF if THEN {<<status, g.name, what>>} ELSE {}
    IN  note(~g.accessible, "bad", "inaccessible")
        \cup note(g.promiscuous, "warn", "promiscuous")
        \cup note(g.differs, "warn", "VLAN differs")
        \cup note(sw.kind = "standard" /\ ~sw.catchAll /\ g.hosts \in 1..(Cardinality(sw.hosts) - 1), "warn", "not on every host")
        \cup note(sw.mtu > 0 /\ \E v \in g.vmks : v.mtu > sw.mtu, "bad", "vmk MTU")
        \cup note(none # {}, "bad", "no working uplink")
        \cup note(idle # none, "warn", "standby only")

Worst(findings) ==
    LET st == {f[1] : f \in findings} IN IF "bad" \in st THEN "bad" ELSE IF "warn" \in st THEN "warn" ELSE "good"

GroupStatus(sw, g) ==
    IF Worst(GroupFindings(sw, g)) = "good" /\ g.vms = 0 /\ g.vmks = {} /\ sw.wired THEN "idle"
    ELSE Worst(GroupFindings(sw, g))

(* switchRowGroup and portGroupRow: the rows of a switch.  An inaccessible *)
(* network is a note of its row only.                                      *)
SwitchRow(sw) ==
    LET all == SwitchFindings(sw) \cup UNION {{f \in GroupFindings(sw, g) : f[3] # "inaccessible"} : g \in sw.groups}
    IN  [name |-> sw.name, kind |-> sw.kind, status |-> IF sw.catchAll THEN "none" ELSE Worst(all), findings |-> all,
         children |-> {[name |-> g.name, net |-> g.net, status |-> GroupStatus(sw, g)] : g \in sw.groups}]

(* networkTreeRows: a filter keeps a switch with the port groups it        *)
(* matches, all of them when the switch matches; while there is one, no    *)
(* switch is folded.  needle is the name asked for, Unknown without one.   *)
NetworkTreeRows(switches, needle, folded) ==
    LET rows == {SwitchRow(sw) : sw \in switches}
        kids(r) == IF needle \in {Unknown, r.name} THEN r.children ELSE {c \in r.children : c.name = needle}
        kept == {[r EXCEPT !.children = kids(r)] : r \in {x \in rows : needle \in {Unknown, x.name} \/ kids(x) # {}}}
    IN  {[r EXCEPT !.children = IF needle = Unknown /\ r.name \in folded THEN {} ELSE @] : r \in kept}

-----------------------------------------------------------------------------
(* A host's Network page.                                                  *)

NotOnSwitch(sw, h) == sw.kind = "distributed" /\ h.cluster # Unknown /\ h.name \in sw.notJoined

(* hostVMKs: the switch a VMkernel adapter of the host sits on.            *)
VMKSwitches(h, v, switches) ==
    IF v.key # Unknown
    THEN {sw \in switches : /\ sw.kind = "distributed" /\ (Unknown \in {v.uuid, sw.uuid} \/ sw.uuid = v.uuid)
                            /\ \E g \in sw.own : g.key = v.key}
    ELSE {sw \in switches : \E g \in h.portgroups : g.name = v.pg /\ g.switch = sw.name}

(* The NICs no switch of the host claims, one the account cannot read      *)
(* among them.                                                             *)
SpareNICs(h, ours, unread) ==
    {d \in DOMAIN h.nics : \A l \in ours \cup unread : l.nic = Unknown \/ l.nic.device # d}

(* judgeHostLinks. *)
HostLinkFindings(sw, links) ==
    UNION {LET speed == [x \in {y \in sw.hosts : l.uplink \in DOMAIN y.nics /\ Linked(y.nics[l.uplink])} |-> x.nics[l.uplink].speed]
           IN  IF l.nic = Unknown THEN {<<"warn", l.uplink, "no NIC">>}
               ELSE IF ~Linked(l.nic) THEN {<<"bad", l.nic.device, "no link">>}
               ELSE IF Differs(speed) /\ StrictMajority(speed) /\ l.nic.speed # Majority(speed)
               THEN {<<"warn", l.nic.device, "odd speed">>} ELSE {}
           : l \in links}

(* buildHostNet and judgeHost.                                             *)
BuildHostNet(h, switches) ==
    LET real     == {sw \in switches : ~sw.catchAll}
        of(sw)   == {x \in sw.hosts : x.name = h.name}
        mine     == {sw \in real : of(sw) # {}}
        links(sw) == {[uplink |-> u, nic |-> First(of(sw)).nics[u]] : u \in DOMAIN First(of(sw)).nics}
        unread   == {p \in h.proxies : p.switch \notin {sw.name : sw \in mine}}
        others   == UNION {{[uplink |-> u, nic |-> HostNIC(h, p.uplinks[u])] : u \in DOMAIN p.uplinks} : p \in unread}
        spare    == SpareNICs(h, UNION {links(sw) : sw \in mine}, others)
    IN  [spare |-> spare,
         findings |-> {<<"warn", sw.name, "not on it">> : sw \in {x \in real \ mine : NotOnSwitch(x, h)}}
                      \cup UNION {HostLinkFindings(sw, links(sw)) : sw \in mine}
                      \cup {<<"warn", p.switch, "not readable">> : p \in unread}
                      \cup {<<"warn", d, "on no switch">> : d \in {x \in spare : h.nics[x] > 0}}
                      \cup {<<"bad", v.device, "vmk MTU">> : v \in {x \in h.vmks :
                               \E sw \in VMKSwitches(h, x, mine) : First(of(sw)).mtu \in 1..(x.mtu - 1)}}]

-----------------------------------------------------------------------------
(* The VLAN map.                                                           *)

UplinkNames(topo) == {g.name : g \in UNION {{x \in d.portgroups : x.uplink} : d \in topo.switches}}
PlainGroups(topo) == UNION {{g \in d.portgroups : ~g.uplink} : d \in topo.switches}

HostGroup(h) == IF h.cluster # Unknown THEN h.cluster ELSE h.name
ClusterHosts(topo, cluster) == {h \in topo.hosts : HostGroup(h) = cluster}

(* blindness: the switches these hosts are on that the account cannot read.*)
UnreadSwitches(topo, hosts) ==
    UNION {{p.switch : p \in {x \in h.proxies : \A d \in topo.switches : x.uuid # d.uuid /\ x.switch # d.name}} : h \in hosts}

UnreadClusters(inv, topo) == {c \in inv.clusters : ClusterHosts(topo, c) = {}}

LiveReachable(topo, hosts) ==
    {[n EXCEPT !.vlan = ParseVLAN(@)]
     : n \in {x \in ToSet(Reachable(hosts, topo.switches)) : x.covered # 0 /\ ~(x.type = "distributed" /\ x.name \in UplinkNames(topo))}}

VMGroup(topo, v) ==
    IF NamedHost(topo, v.host) # {} THEN HostGroup(First(NamedHost(topo, v.host)))
    ELSE IF v.cluster # Unknown THEN v.cluster ELSE v.host

(* networkVLAN: the VLANs of the network of that id, as seen from a host:  *)
(* none when the network is not known, is opaque or carries uplinks.       *)
NetworkVLAN(inv, topo, id, host) ==
    LET nets == {n \in inv.nets : n.id = id}
        n    == First(nets)
        dv   == {g \in PlainGroups(topo) : g.id = id}
        std(hosts) == UNION {{g \in h.portgroups : g.name = n.name} : h \in hosts}
        near == std(NamedHost(topo, host))
    IN  CASE nets = {} \/ n.type = "opaque" -> {}
          [] nets # {} /\ n.type = "portgroup" ->
                IF n.name \in UplinkNames(topo) THEN {} ELSE {ParseVLAN(IF dv # {} THEN First(dv).vlan ELSE n.vlan)}
          [] OTHER -> IF near # {} THEN {StandardVLAN(First(near).vlan)}
                      ELSE IF std(topo.hosts) # {} THEN {StandardVLAN(First(std(topo.hosts)).vlan)} ELSE {}

(* vmkVLAN: the port group and VLAN of a VMkernel adapter.                 *)
VMKGroups(topo, h, v) ==
    IF v.key # Unknown
    THEN LET of(d) == {g \in d.portgroups : ~g.uplink /\ g.key = v.key}
             own   == UNION {of(d) : d \in {x \in topo.switches : x.uuid = v.uuid}}
         IN  {[name |-> g.name, vlan |-> ParseVLAN(g.vlan)] : g \in IF own # {} THEN own ELSE UNION {of(d) : d \in topo.switches}}
    ELSE {[name |-> g.name, vlan |-> StandardVLAN(g.vlan)] : g \in {x \in h.portgroups : x.name = v.pg}}

(* vlanEstate for one vCenter: each VLAN with the clusters that reach it,  *)
(* the VMs and VMkernel adapters on it and the names it goes by.           *)
VLANColumn(inv, topo) ==
    LET at    == {[cluster |-> HostGroup(h), net |-> n] : <<h, n>> \in
                    UNION {{<<x, y>> : y \in LiveReachable(topo, ClusterHosts(topo, HostGroup(x)))} : x \in topo.hosts}}
        uses  == {<<v, id>> : v \in inv.vms, id \in {n.id : n \in inv.nets}}
        on(w) == {p \in uses : p[2] \in {c.netId : c \in p[1].nics} /\ w \in NetworkVLAN(inv, topo, p[2], p[1].host)}
        vmks  == UNION {{<<h, v>> : v \in h.vmks} : h \in topo.hosts}
        seen  == {a.net.vlan : a \in at} \cup UNION {NetworkVLAN(inv, topo, p[2], p[1].host) : p \in {q \in uses : q[2] \in {c.netId : c \in q[1].nics}}}
                 \cup UNION {{g.vlan : g \in VMKGroups(topo, x[1], x[2])} : x \in vmks}
        named(w) == {a.net.name : a \in {b \in at : b.net.vlan = w}} \cup {n.name : n \in {m \in inv.nets : m.id \in {p[2] : p \in on(w)}}}
    IN  [w \in seen |->
            [clusters |-> {a.cluster : a \in {b \in at : b.net.vlan = w}}, vms |-> {p[1].name : p \in on(w)},
             vmks |-> {x \in vmks : \E g \in VMKGroups(topo, x[1], x[2]) : g.vlan = w}, names |-> named(w)]]

(* judgeVLANRow: columns is what each vCenter's map shows.                 *)
VLANNotes(columns, w) ==
    LET present == {c \in DOMAIN columns : w \in DOMAIN columns[c]}
        names   == UNION {columns[c][w].names : c \in present}
        with(n) == {c \in present : n \in columns[c][w].names}
    IN  (IF Cardinality(present) > 1 /\ \A n \in names : with(n) # present THEN {"names differ"}
         ELSE IF Cardinality(names) > 1 THEN {"several names"} ELSE {})
        \cup (IF Cardinality(DOMAIN columns) > 1 /\ Cardinality(present) = 1 THEN {"only here"} ELSE {})

-----------------------------------------------------------------------------
(* The comparison of two clusters, made with the rules of "vsfleet analyze *)
(* readiness network".                                                     *)

ClusterVMsByID(inv, topo, cluster, net) ==     \* seeded fault: looked up by the name the adapter records
    {v.name : v \in {x \in inv.vms : VMGroup(topo, x) = cluster /\ \E c \in x.nics : c.netId = net}}

(* clusterSide: the VMs of a cluster on the networks of one name.          *)
ClusterVMs(inv, topo, cluster, net) ==
    LET name(c) == LET n == {x \in inv.nets : x.id = c.netId} IN IF n = {} THEN c.network ELSE First(n).name
    IN  {v.name : v \in {x \in inv.vms : VMGroup(topo, x) = cluster /\ \E c \in x.nics : name(c) = net}}

SideReady(inv, topo, cluster) == inv # Unknown /\ topo # Unknown /\ ClusterHosts(topo, cluster) # {}

(* vlanPairResult; Unknown while a side cannot be compared.                *)
VLANPairResult(from, source, to, target) ==
    LET nets(x, k) == SetToSortSeq(LiveReachable(x.topo, ClusterHosts(x.topo, k)), LAMBDA a, b : NameRank(a.name) < NameRank(b.name))
        m == MatchNetworks(nets(from, source), nets(to, target))
        lost(n) == ClusterVMs(from.inv, from.topo, source, n.name)
    IN  IF ~SideReady(from.inv, from.topo, source) \/ ~SideReady(to.inv, to.topo, target) THEN Unknown
        ELSE [blind |-> UnreadSwitches(from.topo, ClusterHosts(from.topo, source)) \cup UnreadSwitches(to.topo, ClusterHosts(to.topo, target)),
              missing |-> {n.name : n \in m.sourceOnly},
              blockers |-> {n.name : n \in {x \in m.sourceOnly : lost(x) # {}}}
                           \cup {d.network : d \in {x \in UNION {NetworkDifferences(p) : p \in m.pairs} : x.severity = "blocker"}}]
=============================================================================
