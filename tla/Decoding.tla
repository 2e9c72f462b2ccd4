------------------------------ MODULE Decoding ------------------------------
(***************************************************************************)
(* How internal/vsphere turns what a vCenter answers into inventory: the   *)
(* path index, a VM, its cluster settings, a vApp, metadata, licences,     *)
(* events with the tasks behind them, datastore listings, and the folding  *)
(* of one fetched group into an inventory.                                 *)
(*                                                                         *)
(* An answer to a call is "ok", "denied", "failed" or "unsupported".  A    *)
(* path is the sequence of names from the root, <<>> the empty path.       *)
(***************************************************************************)
EXTENDS Integers, Sequences, SequencesExt, FiniteSets, FiniteSetsExt, Functions, TLC

CONSTANTS Unknown

(* What f gives, and beside it what g gives.                               *)
With(f, g) == [x \in DOMAIN f \cup DOMAIN g |-> IF x \in DOMAIN f THEN f[x] ELSE g[x]]

(* The k lowest of a set of places.                                        *)
FirstOf(S, k) == {i \in S : Cardinality({j \in S : j < i}) < k}

-----------------------------------------------------------------------------
(* index: the entities seen, [name, kind, parent] by reference (parent     *)
(* Unknown at the top), and the inventory folder of a vApp, which the      *)
(* server puts under a resource pool.                                      *)

NewIndex(entities, seed, vappLinks, portgroups) ==
    [by |-> With(entities, seed), folderParent |-> vappLinks, portgroups |-> portgroups]

ResolveRoot(datacenters, wanted, rootFolder) ==
    LET matches == {d \in DOMAIN datacenters : datacenters[d] = wanted} IN
    IF wanted = "" THEN rootFolder
    ELSE IF Cardinality(matches) = 1 THEN CHOOSE d \in matches : TRUE ELSE Unknown

(* Upwards from ref until an entity that is not in the index, or one seen  *)
(* already: at most as many as there are entities.                         *)
Climb(idx, ref, up(_)) ==
    LET chain[n \in 0 .. Cardinality(DOMAIN idx.by)] ==
            IF n = 0 THEN <<>>
            ELSE LET got  == chain[n - 1]
                     next == IF got = <<>> THEN ref ELSE up(Last(got))
                 IN  IF next = Unknown \/ next \notin DOMAIN idx.by \/ Contains(got, next) THEN got ELSE Append(got, next)
    IN  chain[Cardinality(DOMAIN idx.by)]

Ancestors(idx, ref) == Climb(idx, ref, LAMBDA r : idx.by[r].parent)

FolderAncestors(idx, ref) ==
    Climb(idx, ref, LAMBDA r : IF r \in DOMAIN idx.folderParent THEN idx.folderParent[r] ELSE idx.by[r].parent)

PathOf(idx, ref, leaf) ==
    LET chain == FolderAncestors(idx, ref)
        names == [i \in 1 .. Len(chain) |-> IF i = 1 /\ leaf # "" THEN leaf ELSE idx.by[chain[i]].name]
    IN  IF chain # <<>> THEN Reverse(names) ELSE IF leaf = "" THEN <<>> ELSE <<leaf>>

NameOf(idx, ref) == IF ref \in DOMAIN idx.by THEN idx.by[ref].name ELSE ""

(* The nearest ancestor of one of the kinds: the datacenter, the compute   *)
(* resource or the cluster something is under.                             *)
Above(idx, ref, kinds) ==
    LET chain == IF ref = Unknown THEN <<>> ELSE SelectSeq(Ancestors(idx, ref), LAMBDA r : idx.by[r].kind \in kinds)
    IN  IF chain = <<>> THEN "" ELSE idx.by[Head(chain)].name

DatacenterOf(idx, ref) == Above(idx, ref, {"Datacenter"})

ClusterOf(idx, host) ==
    IF host \in DOMAIN idx.by /\ idx.by[host].parent \in DOMAIN idx.by /\ idx.by[idx.by[host].parent].kind = "Cluster"
    THEN NameOf(idx, idx.by[host].parent) ELSE ""

(* The folder as the inventory shows it: what follows the datacenter and   *)
(* its vm, host, datastore or network folder.                              *)
FolderPath(idx, parent, dc) ==
    LET full == IF parent = Unknown THEN <<>> ELSE PathOf(idx, parent, "")
        roots == {<<dc, r>> : r \in {"vm", "host", "datastore", "network"}}
    IN  IF Len(full) >= 2 /\ SubSeq(full, 1, 2) \in roots THEN SubSeq(full, 3, Len(full)) ELSE full

-----------------------------------------------------------------------------
(* A VM as the property collector gives it is [id, name, parent, parentVApp, *)
(* host, config, template, guest]; what was not sent is "" or Unknown.     *)

(* Where the cached index has no place for the VM, its parent does.        *)
LocateVM(idx, m, parent) ==
    LET dc == DatacenterOf(idx, m.id) IN
    IF dc # "" \/ parent = Unknown THEN [dc |-> dc, path |-> PathOf(idx, m.id, m.name)]
    ELSE [dc |-> DatacenterOf(idx, parent), path |-> PathOf(idx, parent, "") \o <<m.name>>]

NewVM(idx, m) ==
    LET parent == IF m.parent = Unknown THEN m.parentVApp ELSE m.parent
        loc    == LocateVM(idx, m, parent)
    IN  [id |-> m.id, name |-> m.name, dc |-> loc.dc, path |-> loc.path, folder |-> FolderPath(idx, parent, loc.dc),
         host |-> NameOf(idx, m.host), cluster |-> ClusterOf(idx, m.host),
         configured |-> m.config, template |-> m.config /\ m.template]

(* The settings a cluster's HA gives one VM: its own where it has them, a   *)
(* value that names the cluster's default standing for none.               *)
OwnOrDefault(own, default, names) == IF own \notin {"", names} THEN own ELSE default

ApplyDASOverride(default, v) ==
    [restart   |-> OwnOrDefault(IF v.settings.restart # "" THEN v.settings.restart ELSE v.restart, default.restart, "clusterRestartPriority"),
     isolation |-> OwnOrDefault(IF v.settings.isolation # "" THEN v.settings.isolation ELSE v.isolation, default.isolation, "clusterIsolationResponse")]

VMGroups(cfg, vm) == {g.name : g \in {x \in cfg.groups : vm \in x.vms}}

VMRules(cfg, vm) ==
    {r \in cfg.rules : IF r.kind \in {"affinity", "anti-affinity"} THEN vm \in r.vms ELSE r.group \in VMGroups(cfg, vm)}

(* None when the VM's host, its cluster or the cluster's answer is unknown. *)
ClusterConfigFor(idx, configs, vm, host) ==
    IF ClusterOf(idx, host) = "" \/ idx.by[host].parent \notin DOMAIN configs THEN Unknown
    ELSE LET cfg  == configs[idx.by[host].parent]
             mine == {v \in cfg.overrides : v.vm = vm}
         IN  [ha    |-> IF mine = {} THEN cfg.default ELSE ApplyDASOverride(cfg.default, CHOOSE v \in mine : TRUE),
              rules |-> VMRules(cfg, vm)]

(* A vApp's children are what its pool holds and what it links to, itself  *)
(* left out; it is placed where its parent is, or where it is itself.      *)
NewVApp(idx, m) ==
    LET children == (m.pools \cup m.links) \ {m.id}
        of(kind) == {c \in children : c \in DOMAIN idx.by /\ idx.by[c].kind = kind}
        place(kinds) == IF Above(idx, m.parent, kinds) # "" THEN Above(idx, m.parent, kinds) ELSE Above(idx, m.id, kinds)
    IN  [id |-> m.id, path |-> PathOf(idx, m.id, m.name), vapps |-> of("VirtualApp"), pools |-> of("ResourcePool"),
         vms |-> m.vms, cluster |-> place({"Cluster"}), compute |-> place({"Cluster", "ComputeResource"})]

-----------------------------------------------------------------------------
(* Metadata: each of the two sources has a status of its own.              *)

ClassifyMetadata(answer) ==
    CASE answer = "ok" -> "available" [] answer = "denied" -> "denied" [] answer = "unsupported" -> "unsupported" [] OTHER -> "unavailable"

(* The custom field definitions are read once, for the first object that   *)
(* has a value, and what came of it, an error too, is kept.                *)
FieldDefinitions(cache, needed, answer) == IF cache = "unread" /\ needed THEN answer ELSE cache

(* On a page on which nothing has a value they are not asked for, and what  *)
(* came of asking earlier is of no account.                                *)
AttributesOf(needed, fields, values) ==
    IF needed /\ fields # "ok" THEN [attrs |-> {}, status |-> ClassifyMetadata(fields)]
    ELSE [attrs |-> values, status |-> "available"]

(* tagDefinition and restTags: the tags in the order attached, up to one    *)
(* whose definition is neither cached nor answered.                        *)
TagsSkipping(tagger, list, def, cache, attached) ==
    IF tagger # "ok" THEN [tags |-> {}, status |-> ClassifyMetadata(tagger)]
    ELSE IF list # "ok" THEN [tags |-> {}, status |-> ClassifyMetadata(list)]
    ELSE [tags |-> {t \in ToSet(attached) : t \in cache \/ def = "ok"}, status |-> "available"]
TagsOf(tagger, list, def, cache, attached) ==
    LET failing == {i \in DOMAIN attached : attached[i] \notin cache /\ def # "ok"} IN
    IF tagger # "ok" THEN [tags |-> {}, status |-> ClassifyMetadata(tagger)]
    ELSE IF list # "ok" THEN [tags |-> {}, status |-> ClassifyMetadata(list)]
    ELSE IF failing # {} THEN [tags |-> ToSet(SubSeq(attached, 1, Min(failing) - 1)), status |-> ClassifyMetadata(def)]
    ELSE [tags |-> ToSet(attached), status |-> "available"]

TagCache(tagger, list, def, cache, attached) ==
    IF tagger = "ok" /\ list = "ok" /\ def = "ok" THEN cache \cup ToSet(attached) ELSE cache

-----------------------------------------------------------------------------
(* Licences: w is [infos, list, assigned, assign], assigned the keys with  *)
(* their entities.  vSphere may answer an account without the privilege    *)
(* with an empty list, and no vCenter is without a licence.                *)
BuildLicenseInventory(w) ==
    LET named == IF w.assign = "ok" THEN {a.key : a \in w.assigned} ELSE {}
        keys  == w.infos \cup named
    IN  IF w.list # "ok" THEN [keys |-> {}, status |-> "unavailable"]
        ELSE [keys |-> keys,
              status |-> IF keys = {} THEN "unavailable" ELSE IF w.infos = {} \/ w.assign # "ok" THEN "partial" ELSE "success"]

-----------------------------------------------------------------------------
(* Events.  One is [kind, time, task, chain, result, explains, minor].     *)

Explains(kind) ==
    CASE kind \in {"drs", "migrate", "relocate"}                            -> "moved"
      [] kind = "rename"                                                    -> "renamed"
      [] kind = "reconfigure"                                               -> "modified"
      [] kind \in {"create", "clone", "deploy", "register", "discover"}     -> "created"
      [] kind = "remove"                                                    -> "removed"
      [] kind = "snapcreate"                                                -> "snapshot created"
      [] kind = "snapremove"                                                -> "snapshot removed"
      [] OTHER                                                              -> ""

TaskKinds == {"task", "snapcreate", "snapremove", "snaprevert"}

(* What a task event is labelled with: its outcome is not known from the   *)
(* event that it was queued, unless it had failed by then.                 *)
ClassifyTask(e) ==
    [time |-> e.time, task |-> e.task, chain |-> e.chain, explains |-> Explains(e.kind),
     minor |-> e.kind = "task" /\ ~e.error, result |-> IF e.error THEN "failed" ELSE ""]

(* An event whose type says Failed explains nothing, and is never minor.   *)
ClassifyEvent(e) ==
    IF e.kind \in TaskKinds THEN ClassifyTask(e)
    ELSE [time |-> e.time, task |-> "", chain |-> e.chain,
          explains |-> IF e.failed THEN "" ELSE Explains(e.kind),
          minor    |-> ~e.failed /\ (e.kind = "other" \/ (e.kind = "ex" /\ e.severity = "info")),
          result   |-> IF e.failed \/ (e.kind = "ex" /\ e.severity = "error") THEN "failed" ELSE "ok"]

ApplyTaskOutcome(ev, t) ==
    CASE t.state = "success" -> [ev EXCEPT !.result = "ok"]
      [] t.state = "error"   -> [ev EXCEPT !.result = "failed", !.minor = FALSE, !.explains = ""]
      [] OTHER               -> ev

(* The task behind an event: by key, else by the event chain, of which     *)
(* there may be several.                                                   *)
TaskOf(ev, tasks) ==
    LET byKey == {t \in tasks : t.key = ev.task}
        byChain == {t \in tasks : ev.chain # 0 /\ t.chain = ev.chain}
    IN  IF ev.task = "" THEN {} ELSE IF byKey # {} THEN byKey ELSE byChain

Behind(ev, tasks) == CHOOSE t \in TaskOf(ev, tasks) : TRUE

(* The events with the outcome of their tasks, and an event for each failed *)
(* task of the time covered that is behind none of them.                   *)
ApplyTaskHistory(events, tasks, since) ==
    LET about == {Behind(e, tasks) : e \in {x \in events : TaskOf(x, tasks) # {}}}
        alone == {t \in tasks \ about : t.state = "error" /\ t.time >= since}
    IN  {IF TaskOf(e, tasks) = {} THEN e ELSE ApplyTaskOutcome(e, Behind(e, tasks)) : e \in events}
        \cup {ApplyTaskOutcome(ClassifyTask([kind |-> t.kind, time |-> t.time, task |-> t.key, chain |-> t.chain, error |-> TRUE]), t) : t \in alone}

-----------------------------------------------------------------------------
(* Datastore listings.  A file on a datastore is [path, folder, size,      *)
(* owner], owner the descriptor a disk extent belongs to ("" for a file of *)
(* its own, "rdm" for a mapping, which has no size of its own).            *)

(* Extents are not listed: their size is added to their descriptor's.      *)
DiskSize(f, files) == f.size + FoldSet(LAMBDA x, acc : x.size + acc, 0, {x \in files : x.owner = f.path})

FoldDiskExtentSizes(files) == {[path |-> f.path, size |-> DiskSize(f, files)] : f \in {x \in files : x.owner = ""}}

(* Everything but folders, in path order, up to the limit.                 *)
InventoryFilesLoose(files, limit) ==
    LET plain == {i \in DOMAIN files : ~files[i].folder} IN
    [files |-> {files[i].path : i \in FirstOf(plain, limit)}, truncated |-> Cardinality(plain) > limit + 1]
InventoryFiles(files, limit) ==
    LET plain == {i \in DOMAIN files : ~files[i].folder} IN
    [files |-> {files[i].path : i \in FirstOf(plain, limit)}, truncated |-> Cardinality(plain) > limit]

(* The entries, folders first, of a directory or of a search.              *)
DatastoreListing(files, limit) ==
    [entries |-> ToSet(SubSeq(files, 1, IF Len(files) > limit THEN limit ELSE Len(files))), truncated |-> Len(files) > limit]

(* What a failed search is recorded as.                                    *)
ClassifyInventoryError(answer) == IF answer = "denied" THEN "denied" ELSE "failed"

=============================================================================
