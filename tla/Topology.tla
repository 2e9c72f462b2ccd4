------------------------------ MODULE Topology ------------------------------
(***************************************************************************)
(* The estate-wide graph of one stored run, what may be asked of it, and   *)
(* how sure the answer is (internal/topology).  Objects are observations;  *)
(* those taken to be one thing form a subject.  Relations point from what  *)
(* depends to what it uses.  Identity keys are tuples <<sort, value>>.     *)
(***************************************************************************)
EXTENDS Health

Node(kind, o, keys) ==
    [kind |-> kind, ctx |-> o.ctx, vc |-> o.vc, id |-> o.id, name |-> o.name, vlan |-> Unknown,
     keys |-> keys, local |-> FALSE, pg |-> Unknown, sw |-> Unknown, recon |-> FALSE]

Known(keys) == {k \in keys : k[2] # Unknown}

ResourceNodes(data) ==
    {Node("host", h, {}) : h \in data.hosts}
    \cup {Node("cluster", c, {}) : c \in data.clusters}
    \cup {[Node("datastore", d, IdentityKeys(d)) EXCEPT !.local = d.local] : d \in data.stores}
    \cup {Node("resourcepool", p, {}) : p \in data.pools}
    \cup {[Node("dvswitch", w, Known({<<"dvswitch", w.uuid>>})) EXCEPT !.sw = w.uuid] : w \in data.switches}
    \cup {[Node("network", n, {}) EXCEPT !.vlan = n.vlan] : n \in data.nets}

VMKind(v) == IF v.template THEN "template" ELSE "vm"

VMNodes(data) ==
    {Node(VMKind(v), v, Known({<<"instance-uuid", v.iu>>, <<"bios-uuid", v.bu>>})) : v \in data.vms}

NetworkKeys(pg, sw) == IF Unknown \in {pg, sw} THEN {} ELSE {<<"portgroup", sw, pg>>}

(* Port groups of switches and of hosts are networks of their own; they    *)
(* count as reconstructed when the run has no collection of networks.      *)
PortGroupNode(w, g, legacy) ==
    [Node("network", [ctx |-> w.ctx, vc |-> w.vc, id |-> g.id, name |-> g.name], NetworkKeys(g.key, w.uuid) \cup g.segments)
        EXCEPT !.vlan = g.vlan, !.pg = g.key, !.sw = w.uuid, !.recon = legacy]

HostPortGroupNode(h, g, legacy) ==
    [Node("network", [ctx |-> h.ctx, vc |-> h.vc, id |-> g.key, name |-> g.name], {})
        EXCEPT !.vlan = ToString(g.vlan), !.pg = g.key, !.recon = legacy]

DerivedNetworks(data) ==
    UNION {{PortGroupNode(w, g, data.schema < 12) : g \in w.portgroups} : w \in data.switches}
    \cup UNION {{HostPortGroupNode(h, g, data.schema < 12) : g \in h.portgroups} : h \in data.hosts}

NicLabel(n) == IF n.network = Unknown THEN n.netId ELSE n.network

LegacyVMNetworks(data) ==
    IF data.schema >= 12 THEN {}
    ELSE UNION {{[Node("network", [ctx |-> v.ctx, vc |-> v.vc, id |-> Unknown, name |-> NicLabel(n)],
                       NetworkKeys(n.netId, n.switchId)) EXCEPT !.pg = n.netId, !.sw = n.switchId, !.recon = TRUE]
                 : n \in {x \in v.nics : NicLabel(x) # Unknown}} : v \in {x \in data.vms : ~x.template}}

-----------------------------------------------------------------------------
(* makeSubjects: observations that share an identity key are one; of those *)
(* without keys, the ones of one kind, context, name and VLAN that agree   *)
(* on an ID, or that have none while one is in play.                       *)

(* What relation rel, a set of pairs, reaches from S.                      *)
Closure(S, rel) ==
    LET all == S \cup {p[2] : p \in rel}
        grow[T \in SUBSET all] ==
            LET more == T \cup {p[2] : p \in {q \in rel : q[1] \in T}} IN IF more = T THEN T ELSE grow[more]
    IN  grow[S]

Classes(nodes, rel) == {Closure({n}, rel) : n \in nodes}

WeakKey(n) == <<n.kind, n.ctx, n.name, n.vlan>>

(* A weak join: a has no key and b looks like it; peers are all that do, of   *)
(* which the keyed ones must be one thing.                                 *)
WeakJoin(a, b, peers, roots) ==
    LET ids(S) == {n.id : n \in S}
        keyed  == {n \in peers : n.keys # {}}
    IN  IF b.keys = {}
        THEN a.id = b.id \/ (Unknown \in {a.id, b.id} /\ Cardinality(ids(peers \ keyed) \ {Unknown}) = 1)
        ELSE (\E r \in roots : keyed \subseteq r) /\ a.id \in ids(keyed) \cup {Unknown}

MakeSubjects(nodes) ==
    LET pairs   == {p \in nodes \X nodes : p[1].kind = p[2].kind /\ p[1] # p[2]}
        sameKey == {p \in pairs : p[1].keys \cap p[2].keys # {}}
        roots   == Classes(nodes, sameKey)
        weak    == {p \in pairs : /\ p[1].keys = {} /\ WeakKey(p[1]) = WeakKey(p[2])
                                  /\ WeakJoin(p[1], p[2], {n \in nodes : WeakKey(n) = WeakKey(p[1])}, roots)}
    IN  Classes(nodes, sameKey \cup weak \cup {<<p[2], p[1]>> : p \in weak})

-----------------------------------------------------------------------------
(* Relations: [from, to, rel, conf].  A reference that names nothing leads *)
(* to a made-up node and is open; one that names several subjects is open. *)

Edge(from, to, rel, conf) == [from |-> from, to |-> to, rel |-> rel, conf |-> conf]

Nowhere(from, kind, label) ==
    Node(kind, [ctx |-> from.ctx, vc |-> from.vc, id |-> Unknown, name |-> label], {<<"unresolved", label>>})

Reference(from, kind, label, candidates, rel, conf) ==
    [from |-> from, kind |-> kind, label |-> label, candidates |-> candidates, rel |-> rel, conf |-> conf]

NamedCandidates(nodes, kind, c, name, vlan) ==
    LET same  == {n \in nodes : n.kind = kind /\ n.ctx = c /\ n.name = name}
        exact == {n \in same : n.vlan = vlan}
    IN  IF exact # {} THEN exact ELSE same

NamedReference(nodes, from, kind, name, rel) ==
    Reference(from, kind, name, NamedCandidates(nodes, kind, from.ctx, name, Unknown), rel, "inferred")

MorefCandidates(nodes, kind, vc, id) == {n \in nodes : n.kind = kind /\ n.vc = vc /\ n.id = id}

(* A NIC names its port group by key, on its switch; else by name.         *)
NicReference(nodes, from, nic) ==
    LET byKey == {n \in nodes : /\ nic.netId # Unknown /\ n.kind = "network" /\ n.ctx = from.ctx
                                /\ n.pg = nic.netId /\ (nic.switchId = Unknown \/ n.sw = nic.switchId)}
    IN  IF byKey # {} THEN Reference(from, "network", NicLabel(nic), byKey, "attached_to", "confirmed")
        ELSE Reference(from, "network", NicLabel(nic),
                       IF nic.network = Unknown THEN {}
                       ELSE NamedCandidates(nodes, "network", from.ctx, nic.network, Unknown),
                       "attached_to", "inferred")

VMReferences(nodes, from, v) ==
    {NamedReference(nodes, from, k, v[k], "runs_on") : k \in {x \in {"host", "cluster"} : v[x] # Unknown}}
    \cup {[NamedReference(nodes, from, "datastore", d.path[1], "stored_on") EXCEPT !.conf = "confirmed"]
          : d \in {x \in v.disks : x.path # Unknown}}
    \cup {NamedReference(nodes, from, "datastore", name, "stored_on") : name \in v.stores}
    \cup {NicReference(nodes, from, n) : n \in v.nics}

HostReferences(nodes, from, h, data) ==
    {NamedReference(nodes, from, "cluster", h.cluster, "member_of") : x \in {h.cluster} \ {Unknown}}
    \cup {Reference(from, "datastore", p.lun,
                    {n \in nodes : n.kind = "datastore" /\ n.ctx = h.ctx
                        /\ \E d \in data.stores : d.ctx = n.ctx /\ d.id = n.id /\ p.lun \in d.extents},
                    "presents", "confirmed")
          : p \in {x \in h.multipaths : x.lun # Unknown}}
    \cup {Reference(from, "network", g.name, NamedCandidates(nodes, "network", h.ctx, g.name, ToString(g.vlan)),
                    "presents", "inferred") : g \in h.portgroups}

PoolReferences(nodes, from, p) ==
    {LET vm == MorefCandidates(nodes, "vm", from.vc, id)
     IN  Reference(from, "vm", id, IF vm # {} THEN vm ELSE MorefCandidates(nodes, "template", from.vc, id),
                   "contains", "confirmed") : id \in p.vms}

NodeOf(nodes, kind, o) == CHOOSE n \in nodes : n.kind = kind /\ n.ctx = o.ctx /\ n.id = o.id /\ n.name = o.name

AllReferences(data, nodes) ==
    UNION {VMReferences(nodes, NodeOf(nodes, VMKind(v), v), v) : v \in data.vms}
    \cup UNION {HostReferences(nodes, NodeOf(nodes, "host", h), h, data) : h \in data.hosts}
    \cup UNION {{NamedReference(nodes, NodeOf(nodes, "dvswitch", w), "host", m, "attached_to") : m \in w.members}
                : w \in data.switches}
    \cup UNION {PoolReferences(nodes, NodeOf(nodes, "resourcepool", p), p) : p \in data.pools}

(* addCandidates and addUnresolvedEdge; the first, in the order of names,  *)
(* of several observations of one subject stands for it.                   *)
Canonical(candidates) == CHOOSE n \in candidates : TRUE

EdgeOf(r, subjects) ==
    CASE r.candidates = {} /\ r.label # Unknown -> {Edge(r.from, Nowhere(r.from, r.kind, r.label), r.rel, "unresolved")}
      [] r.candidates # {} /\ (\E s \in subjects : r.candidates \subseteq s) ->
            {Edge(r.from, Canonical(r.candidates), r.rel, r.conf)}
      [] OTHER -> {}

Unresolved(r, subjects) ==
    r.label # Unknown /\ (r.candidates = {} \/ ~\E s \in subjects : r.candidates \subseteq s)

(* The pass over VM placement: the edge it adds starts at the VM.          *)
PlacementEdges(edges) ==
    {Edge(e.from, e.to, "presents", "inferred") :
        e \in {x \in edges : x.rel = "stored_on" /\ \E h \in edges : h.from = x.from /\ h.rel = "runs_on"}}

(* finalizeEdges keeps the surest of the edges between two nodes.          *)
Strongest(edges) ==
    {e \in edges : e.conf = "confirmed" \/ [e EXCEPT !.conf = "confirmed"] \notin edges}

(* addContainment: each observed object is held by the node of its vCenter *)
(* as its context sees it; the datacenters and folders between the two are *)
(* left out.  These nodes belong to no subject.                            *)
VCenterNode(n) == Node("vcenter", [ctx |-> n.ctx, vc |-> n.vc, id |-> n.vc, name |-> n.ctx], {})
Containment(nodes) == {Edge(VCenterNode(n), n, "contains", "confirmed") : n \in {x \in nodes : x.ctx # Unknown}}

(* addDerivedNetworks: a switch contains its port groups, a host presents  *)
(* its own.                                                                *)
DerivedEdges(data, nodes) ==
    LET legacy == data.schema < 12 IN
    UNION {{Edge(NodeOf(nodes, "dvswitch", w), PortGroupNode(w, g, legacy), "contains", "confirmed") : g \in w.portgroups}
           : w \in data.switches}
    \cup UNION {{Edge(NodeOf(nodes, "host", h), HostPortGroupNode(h, g, legacy), "presents", "inferred") : g \in h.portgroups}
                : h \in data.hosts}

Build(data) ==
    LET observed == ResourceNodes(data) \cup VMNodes(data)
        nodes == observed \cup DerivedNetworks(data) \cup LegacyVMNetworks(data)
        subjects == MakeSubjects(nodes)
        refs  == AllReferences(data, nodes)
        edges == UNION {EdgeOf(r, subjects) : r \in refs}
    IN  [nodes |-> nodes, subjects |-> subjects, schema |-> data.schema, ctx |-> data.ctx,
         edges |-> Strongest(edges \cup PlacementEdges(edges) \cup DerivedEdges(data, nodes) \cup Containment(observed)),
         open |-> {[node |-> r.from, kind |-> r.kind, label |-> r.label] : r \in {x \in refs : Unresolved(x, subjects)}},
         legacy |-> {n.ctx : n \in {x \in nodes : x.recon}}]

-----------------------------------------------------------------------------
(* Queries.                                                                *)

(* By name, ID or identity; a selector of contexts narrows it first.       *)
SubjectMatches(s, query) ==
    \E n \in s : query \in {n.name} \cup ({n.id} \ {Unknown}) \/ \E k \in n.keys : k = <<k[1], query>>

Resolve(g, kind, query, contexts) ==
    {s \in g.subjects : /\ \E n \in s : n.kind = kind
                        /\ SubjectMatches(s, query)
                        /\ contexts = {} \/ \E n \in s : n.ctx \in contexts}

NeedsOf(schema, kind) ==
    (CASE kind \in {"vm", "template"} -> {"vm", "host", "cluster", "datastore", "resourcepool", "dvswitch"}
       [] kind = "datastore"          -> {"datastore", "vm", "host"}
       [] kind \in {"network", "dvswitch"} -> {"vm", "host", "dvswitch"}
       [] kind = "host"               -> {"host", "cluster", "datastore", "dvswitch", "vm"}
       [] kind = "cluster"            -> {"cluster", "host", "vm"}
       [] kind = "resourcepool"       -> {"resourcepool", "vm"})
    \cup (IF schema >= 12 /\ kind \in {"vm", "template", "network", "host", "dvswitch"} THEN {"network"} ELSE {})

KindOf(s) == (CHOOSE n \in s : TRUE).kind

(* The contexts the answer speaks of: those that observed the subject or   *)
(* something that may be it, and those that failed to collect what it      *)
(* needs.                                                                  *)
CheckedBy(g, s) ==
    {n.ctx : n \in s}
    \cup {o.ctx : o \in {x \in g.nodes : \E n \in s : /\ x.kind = n.kind /\ x.name = n.name
                             /\ (n.keys = {} \/ x.keys = {} \/ n.keys \cap x.keys # {})}}
    \cup BlindContexts(g.ctx, NeedsOf(g.schema, KindOf(s)))

Blindness(g, checked, kind) ==
    {[ctx |-> c, reason |-> "predates"] : c \in {x \in checked : g.schema < 12 /\ (x \in g.legacy \/ kind = "network")}}
    \cup {[ctx |-> c, reason |-> "coverage"] : c \in checked \cap BlindContexts(g.ctx, NeedsOf(g.schema, kind))}

VerdictTrusting(g, s, blind, open, checked) ==         \* seeded fault: blind contexts are not weighed
    IF open # {} THEN "partial" ELSE "complete"

Verdict(g, s, blind, open, checked) ==
    LET failed == {b \in blind : b.reason = "coverage"} IN
    IF checked # {} /\ Cardinality(failed) >= Cardinality(checked) THEN "unknown"
    ELSE IF KindOf(s) = "datastore" /\ g.schema >= 11 /\ (\A n \in s : n.keys = {} /\ ~n.local) THEN "unknown"
    ELSE IF \/ blind # {} \/ open # {}
            \/ \E n \in s : n.recon \/ \E e \in g.edges : e.from = n /\ e.to.recon THEN "partial"
    ELSE "complete"

Answer(g, s, edges, open, checked) ==
    LET blind == Blindness(g, checked, KindOf(s)) IN
    [subject |-> s, edges |-> edges, open |-> open, checked |-> checked, blind |-> blind,
     confidence |-> Verdict(g, s, blind, open, checked)]

EdgeContexts(edges) == UNION {{e.from.ctx, e.to.ctx} : e \in edges}

OpenOf(g, nodes) == {o.label : o \in {x \in g.open : x.node \in nodes}}

(* Breadth first, one to five steps, from observation to observation;      *)
(* containment is not followed.                                            *)
MaxDepth == 5

Traverse(g, s, depth, reverse) ==
    LET steps == IF depth <= 0 THEN 1 ELSE IF depth > MaxDepth THEN MaxDepth ELSE depth
        near(e) == IF reverse THEN e.to ELSE e.from
        far(e)  == IF reverse THEN e.from ELSE e.to
        links   == {e \in g.edges : e.rel # "contains"}
        reach[k \in 0..steps] ==
            IF k = 0 THEN s
            ELSE LET last == reach[k - 1] IN last \cup {far(e) : e \in {x \in links : near(x) \in last}}
        inner   == reach[steps - 1]
        edges   == {e \in links : near(e) \in inner}
    IN  Answer(g, s, edges, OpenOf(g, reach[steps]), CheckedBy(g, s) \cup EdgeContexts(edges))

Dependencies(g, s, depth) == Traverse(g, s, depth, FALSE)

BlastRadius(g, s, depth) == Traverse(g, s, depth, TRUE)

(* Where it is kept: of the containers of each node up the chain, the      *)
(* first is followed.                                                      *)
AncestorsOf(g, s) ==
    LET holds == {e \in g.edges : e.rel = "contains"}
        first == {CHOOSE f \in holds : f.to = e.to : e \in holds}
        chain == Closure(s, {<<e.to, e.from>> : e \in first})
    IN  {e \in first : e.to \in chain}

(* The subject's own attachments, and where it is kept.                    *)
TopologyOf(g, s) ==
    LET edges == {e \in g.edges : e.rel # "contains" /\ (e.from \in s \/ e.to \in s)}
    IN  Answer(g, s, edges, OpenOf(g, s), CheckedBy(g, s) \cup EdgeContexts(edges))
        @@ [ancestors |-> AncestorsOf(g, s)]

UnresolvedReferences(g, s, kinds) == {o.label : o \in {x \in g.open : x.node \in s /\ x.kind \in kinds}}
=============================================================================
