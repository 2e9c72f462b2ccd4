--------------------------- MODULE NetworkCompare ---------------------------
(***************************************************************************)
(* Whether the networks of a source cluster have counterparts in a target  *)
(* cluster (internal/network/compare.go).                                  *)
(***************************************************************************)
EXTENDS Topology

CONSTANT NetworkNames       \* the names of networks, a sequence in alphabetical order

Policies == {"promiscuous", "forged", "macChanges"}

-----------------------------------------------------------------------------
(* Reachable: every standard port group of the cluster's hosts, those of   *)
(* one name, VLAN and switch taken together, and every port group of every *)
(* distributed switch of the vCenter.                                      *)

(* A setting on which the hosts disagree, or that one did not report, is   *)
(* no evidence.                                                            *)
Merged(values, none) == IF Cardinality(values) = 1 THEN CHOOSE x \in values : TRUE ELSE none

OwningVSwitch(h, g) == CHOOSE w \in h.vswitches : w.name = g.switch

StandardNetworks(hosts) ==
    LET all   == UNION {{<<h, g>> : g \in h.portgroups} : h \in hosts}
        key(p) == <<p[2].name, ToString(p[2].vlan), p[2].switch>>
        of(k) == {p \in all : key(p) = k}
    IN  {[name |-> k[1], vlan |-> k[2], parent |-> k[3], type |-> "standard",
          mtu |-> Merged({OwningVSwitch(p[1], p[2]).mtu : p \in of(k)}, 0),
          teaming |-> Unknown, standby |-> <<>>, contact |-> Unknown, detail |-> Unknown,
          active |-> Merged({OwningVSwitch(p[1], p[2]).uplinks : p \in of(k)}, <<>>),
          security |-> [x \in Policies |-> Merged({p[2].security[x] : p \in of(k)}, Unknown)],
          covered |-> Cardinality({p[1] : p \in of(k)}), total |-> Cardinality(hosts)]
         : k \in {key(p) : p \in all}}

SwitchHasHost(w, h) == w.members \cap {h.name, h.id} # {}

DistributedNetworks(hosts, switches) ==
    UNION {{[name |-> g.name, vlan |-> g.vlan, parent |-> w.name, type |-> "distributed", mtu |-> w.mtu,
             teaming |-> g.teaming, standby |-> g.standby, contact |-> w.contact, detail |-> w.detail,
             active |-> g.active, security |-> g.security,
             covered |-> Cardinality({h \in hosts : SwitchHasHost(w, h)}), total |-> Cardinality(hosts)]
            : g \in w.portgroups} : w \in switches}

NameRank(n) == CHOOSE i \in DOMAIN NetworkNames : NetworkNames[i] = n

Reachable(hosts, switches) ==
    SetToSortSeq(StandardNetworks(hosts) \cup DistributedNetworks(hosts, switches),
                 LAMBDA a, b : NameRank(a.name) < NameRank(b.name))

ReachableNetworks(data, c) ==
    Reachable({h \in data.hosts : h.ctx = c.ctx /\ h.cluster = c.name}, {w \in data.switches : w.ctx = c.ctx})

-----------------------------------------------------------------------------
(* Each source network takes, in order, a target network not yet taken: of *)
(* its VLAN, one with its name if there is one; else of its name.          *)

FindTarget(s, targets, used) ==
    LET free  == DOMAIN targets \ used
        vlan  == {i \in free : s.vlan # Unknown /\ targets[i].vlan = s.vlan}
        named == {i \in free : targets[i].name = s.name}
    IN  CASE vlan \cap named # {}                  -> [at |-> Min(vlan \cap named), basis |-> "vlan"]
          [] vlan # {} /\ vlan \cap named = {}     -> [at |-> Min(vlan), basis |-> "vlan"]
          [] vlan = {} /\ named # {}               -> [at |-> Min(named), basis |-> "name"]
          [] OTHER                                 -> [at |-> 0, basis |-> Unknown]

MatchNetworks(source, targets) ==
    LET taken[n \in 0..Len(source)] ==
            IF n = 0 THEN <<>>
            ELSE Append(taken[n - 1], FindTarget(source[n], targets, {m.at : m \in ToSet(taken[n - 1])}))
        m == taken[Len(source)]
    IN  [pairs |-> {[source |-> source[i], target |-> targets[m[i].at], basis |-> m[i].basis]
                    : i \in {k \in DOMAIN source : m[k].at # 0}},
         sourceOnly |-> {source[i] : i \in {k \in DOMAIN source : m[k].at = 0}},
         targetOnly |-> {targets[j] : j \in DOMAIN targets \ {x.at : x \in ToSet(m)}}]

SecurityDiff(a, b) == \E p \in Policies : Unknown \notin {a[p], b[p]} /\ a[p] # b[p]

(* The fields in which a pair differs, each with its severity; a field one *)
(* side does not report is not compared.                                   *)
NetworkDifferences(p) ==
    LET s == p.source
        t == p.target
        differs(f, none) == none \notin {s[f], t[f]} /\ s[f] # t[f]
        short(n) == n.covered < n.total
        fields == (IF p.basis = "name" /\ s.vlan # t.vlan THEN {<<"vlan", "blocker">>} ELSE {})
                  \cup (IF differs("mtu", 0) THEN {<<"mtu", "blocker">>} ELSE {})
                  \cup (IF differs("teaming", Unknown) THEN {<<"teaming", "blocker">>} ELSE {})
                  \cup (IF differs("active", <<>>) THEN {<<"active", "advisory">>} ELSE {})
                  \cup (IF differs("standby", <<>>) THEN {<<"standby", "advisory">>} ELSE {})
                  \cup (IF SecurityDiff(s.security, t.security) THEN {<<"security", "blocker">>} ELSE {})
                  \cup (IF s.total > 0 /\ t.total > 0 /\ (short(s) \/ short(t)) THEN {<<"coverage", "blocker">>} ELSE {})
                  \cup (IF differs("contact", Unknown) THEN {<<"contact", "advisory">>} ELSE {})
                  \cup (IF differs("detail", Unknown) THEN {<<"contact_detail", "advisory">>} ELSE {})
    IN  {[network |-> s.name, field |-> f[1], severity |-> f[2]] : f \in fields}

(* The VMs on a network: those the graph attaches to the one network of    *)
(* that name, and whether that is all there is to know.                    *)
AttachedVMs(g, n, c) ==
    LET subjects == Resolve(g, "network", n.name, {c})
        around   == BlastRadius(g, CHOOSE s \in subjects : TRUE, 1)
    IN  IF Cardinality(subjects) # 1 THEN [vms |-> {}, resolved |-> FALSE]
        ELSE [vms |-> {e.from : e \in {x \in around.edges : x.from.kind = "vm"}}, resolved |-> around.open = {}]

NoBlindness(data, selected, needs) == {}        \* seeded fault: every context counts as read

ComparisonBlindness(data, selected, needs) ==
    {c \in BlindContexts(data.ctx, needs) : selected = {} \/ c \in selected}

ClusterReference(s) == CHOOSE n \in s : TRUE

Compare(data, g, source, target, selected) ==
    LET from == Resolve(g, "cluster", source, selected)
        to   == Resolve(g, "cluster", target, selected)
        one  == Cardinality(from) = 1 /\ Cardinality(to) = 1
        a    == ClusterReference(CHOOSE s \in from : TRUE)
        b    == ClusterReference(CHOOSE s \in to : TRUE)
        m    == MatchNetworks(ReachableNetworks(data, a), ReachableNetworks(data, b))
        gap(n) == LET at == AttachedVMs(g, n, a.ctx)
                  IN  [network |-> n.name, vms |-> at.vms, resolved |-> at.resolved,
                       severity |-> IF at.vms # {} THEN "blocker" ELSE "advisory"]
        gaps == {gap(n) : n \in m.sourceOnly}
        diff == UNION {NetworkDifferences(p) : p \in m.pairs}
        needs == {"host", "dvswitch"} \cup (IF gaps # {} THEN {"vm"} ELSE {})
        blind == ComparisonBlindness(data, selected, needs)
        soften(S) == {[x EXCEPT !.severity = IF blind # {} THEN "advisory" ELSE @] : x \in S}
        partial == data.schema < 12 \/ \E x \in gaps : ~x.resolved
    IN  IF ~one THEN [resolved |-> FALSE, gaps |-> {}, differences |-> {}, confidence |-> "unknown",
                      ambiguous |-> Cardinality(from) > 1 \/ Cardinality(to) > 1]
        ELSE [resolved |-> TRUE, ambiguous |-> FALSE, gaps |-> soften(gaps), differences |-> soften(diff),
              confidence |-> IF blind # {} THEN "unknown" ELSE IF partial THEN "partial" ELSE "complete"]

(* Verdict: what stops a migration.                                        *)
NetworkVerdict(c) ==
    LET unknown  == c.confidence = "unknown" \/ c.ambiguous \/ ~c.resolved
        blockers == {x.network : x \in {y \in c.gaps : y.vms # {} /\ y.severity = "blocker"} \cup {y \in c.differences : y.severity = "blocker"}}
    IN  IF unknown THEN "unknown" ELSE IF blockers # {} THEN "blocked" ELSE "ready"
=============================================================================
