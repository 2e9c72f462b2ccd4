----------------------------- MODULE FolderView -----------------------------
(***************************************************************************)
(* The VMs tab browsed by folder (internal/tui/folders.go) and the page of *)
(* a vApp (vapp.go), for one vCenter.  A row is a VM [id, name, dc,        *)
(* folder], folder the names below the datacenter's vm folder; a vApp is   *)
(* [id, name, path, vapps, vms], path from the root, vapps and vms the ids *)
(* of what it holds.  A spot is [dc, path], dc "" where the datacenters    *)
(* are listed.  Order, columns and the totals of CPU, memory and disk are  *)
(* left out, as are a vApp's resource pools.                               *)
(***************************************************************************)
EXTENDS Naturals, FiniteSets, Sequences, SequencesExt

Root == [dc |-> "", path |-> <<>>]

FolderDatacenters(rows) == {r.dc : r \in rows}

(* currentFolder: a spot whose datacenter has left is the top again; one   *)
(* datacenter alone is entered at once.                                    *)
CurrentFolder(spot, rows) ==
    LET dcs == FolderDatacenters(rows) IN
    IF spot # Root /\ spot.dc \in dcs THEN spot
    ELSE IF Cardinality(dcs) = 1 THEN [dc |-> CHOOSE d \in dcs : TRUE, path |-> <<>>] ELSE Root

Holds(spot, r) == spot.dc = "" \/ (r.dc = spot.dc /\ IsPrefix(spot.path, r.folder))

(* folderVApps: the place of a vApp in the tree of VM folders; a path      *)
(* elsewhere has none.                                                     *)
InVMFolders(v) == Len(v.path) > 2 /\ v.path[2] = "vm"
VAppSpot(v) == [dc |-> Head(v.path), path |-> SubSeq(v.path, 3, Len(v.path))]
FolderVApps(vapps) == {v \in vapps : InVMFolders(v)}

VAppAt(spot, vapps) == {v \in FolderVApps(vapps) : VAppSpot(v) = spot}

(* folderRows at a spot: the VMs filed there, and a row for each name that *)
(* comes next in the folder of another or in the place of a vApp, with the *)
(* number of VMs below it.                                                 *)
FolderRows(spot, rows, vapps) ==
    LET n      == Len(spot.path)
        below(x) == x.dc = spot.dc /\ Len(x.path) > n /\ SubSeq(x.path, 1, n) = spot.path
        places == {[dc |-> r.dc, path |-> r.folder] : r \in rows}
        next   == {x.path[n + 1] : x \in {y \in places : below(y)}}
                  \cup {x.path[n + 1] : x \in {VAppSpot(v) : v \in {w \in FolderVApps(vapps) : below(VAppSpot(w)) /\ Len(VAppSpot(w).path) = n + 1}}}
        child(name) == [dc |-> spot.dc, path |-> Append(spot.path, name)]
        row(s) == [spot |-> s, vapp |-> VAppAt(s, vapps), count |-> Cardinality({r \in rows : Holds(s, r)})]
    IN  IF spot.dc = "" THEN [leaves |-> {}, folders |-> {row([dc |-> d, path |-> <<>>]) : d \in FolderDatacenters(rows)}]
        ELSE [leaves |-> {r \in rows : r.dc = spot.dc /\ r.folder = spot.path}, folders |-> {row(child(name)) : name \in next}]

(* The rows of a filter: everything the spot holds, flat.                  *)
FilteredRows(spot, rows, match(_)) == {r \in rows : Holds(spot, r) /\ match(r)}

(* folderUp; at the top, esc has nothing left to undo.                     *)
FolderUpTwice(spot, rows) ==                \* seeded fault: a level is skipped
    IF Len(spot.path) > 1 THEN [spot EXCEPT !.path = Front(Front(@))]
    ELSE IF spot.path # <<>> THEN [spot EXCEPT !.path = <<>>] ELSE Root

FolderUp(spot, rows) ==
    IF spot.path # <<>> THEN [spot EXCEPT !.path = Front(@)]
    ELSE IF Cardinality(FolderDatacenters(rows)) > 1 THEN Root ELSE spot

-----------------------------------------------------------------------------
(* A vApp's page.                                                          *)

(* childVApps: by reference; one that was not read is listed as missing.   *)
ChildVApps(v, vapps) == {[id |-> c, read |-> c \in {x.id : x \in vapps}] : c \in v.vapps}

(* directVMs: by reference; one that was not read is listed as missing.    *)
DirectVMs(v, rows) == {[id |-> m, read |-> m \in {r.id : r \in rows}] : m \in v.vms}

(* vappMembersFrom descends into every child but one that is on the way to *)
(* it already, which is marked as a cycle: the ways down from v.           *)
WaysDown(v, vapps) ==
    LET app(id) == CHOOSE x \in vapps : x.id = id
        open(w) == {c.id : c \in {x \in ChildVApps(app(Last(w)), vapps) : x.read}} \ {w[i] : i \in DOMAIN w}
        ways[n \in 0 .. Cardinality(vapps)] == IF n = 0 THEN {<<v.id>>}
                           ELSE LET before == ways[n - 1]
                                IN  before \cup UNION {{Append(w, c) : c \in open(w)} : w \in {x \in before : Len(x) = n}}
    IN  ways[Cardinality(vapps)]

VAppMembers(v, rows, vapps) ==
    LET app(id) == CHOOSE x \in vapps : x.id = id
        ways == WaysDown(v, vapps)
    IN  [vms    |-> UNION {DirectVMs(app(Last(w)), rows) : w \in ways},
         vapps  |-> UNION {ChildVApps(app(Last(w)), vapps) : w \in ways},
         cycles |-> UNION {{<<w, c.id>> : c \in {x \in ChildVApps(app(Last(w)), vapps) : x.id \in {w[i] : i \in DOMAIN w}}} : w \in ways}]

-----------------------------------------------------------------------------
(* openFolder and openVApp: every spot reached from the first screen by    *)
(* opening rows, a vApp's row opening its page instead.                    *)
Levels(spots, rows, vapps) == {[spot |-> s, level |-> FolderRows(s, rows, vapps)] : s \in spots}
OpenedFrom(levels) == {f.spot : f \in {x \in UNION {l.level.folders : l \in levels} : x.vapp = {}}}

Visited(rows, vapps, depth) ==
    LET walk[n \in 0 .. depth] ==
            IF n = 0 THEN Levels({CurrentFolder(Root, rows)}, rows, vapps)
            ELSE LET before == walk[n - 1] IN before \cup Levels(OpenedFrom(before), rows, vapps)
    IN  walk[depth]

(* The VMs met on that walk, in a folder or on a vApp's page.              *)
MetOnWalk(levels, rows, vapps) ==
    LET pages == UNION {UNION {f.vapp : f \in l.level.folders} : l \in levels}
    IN  {r.id : r \in UNION {l.level.leaves : l \in levels}}
        \cup {m.id : m \in {x \in UNION {VAppMembers(v, rows, vapps).vms : v \in pages} : x.read}}
=============================================================================
