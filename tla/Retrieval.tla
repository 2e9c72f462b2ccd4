----------------------------- MODULE Retrieval -----------------------------
(***************************************************************************)
(* One connected client reading a vCenter that changes meanwhile, refuses  *)
(* some calls and fails others, under a deadline that may pass at any      *)
(* moment (internal/vsphere: inventory.go, group.go, vm.go, metadata.go,   *)
(* datastore_browse.go, datastore_inventory.go, perf.go, vm_events.go,     *)
(* task_history.go, license.go).  Operations of the client come one after  *)
(* the other and share its caches; the objects an operation makes on the   *)
(* server (a view, a property collector, a task collector) are in open.    *)
(***************************************************************************)
EXTENDS Decoding

CONSTANTS
    Tree,                       \* the entities that are no VMs, as NewIndex takes them
    VMIds, Folders, Gone,       \* VMs; the folders and vApps one can be in, Gone meaning nowhere
    Datacenters, Wanted,        \* the datacenters' names; the one the context is limited to, or ""
    Starts,                     \* the places the VMs may be in at first
    VAppLinks,                  \* the inventory folder of each vApp
    HostOf, ClusterConfigs,     \* the host of each VM; what each cluster says of its VMs
    VApps,                      \* the vApps as the server gives them
    TemplateIds, Attached,      \* the templates; the tags of each VM, in order
    Valued,                     \* the VMs with a value of a custom attribute
    PageSize,
    Stores,                     \* datastores in name order: [name, accessible, browser, files]
    MaxFilesPerDatastore, MaxFilesPerContext, BrowseFileCap, ListEntryCap,
    BatchVMs, MaxVMs, MaxRequests,
    Raw(_, _),                  \* the samples vSphere keeps of a counter of a VM
    Intervals, Window, MaxSamples,
    EventLog, TaskLog, EventLimit, TaskPage, MaxTasks,
    Licences,
    MinSummarySamples, MinCoverage, MinPercentileSamples, LowPeakPercent, HighPeakPercent,
    ReadyContentionPercent, MemPressureMiB, SwapinRateKBps,
    MaxOps, MaxChanges, MaxKept \* bounds: operations, changes on the vCenter, and objects the server does not release

ASSUME RetrievalAssumption ==
    /\ MaxOps \in Nat /\ MaxChanges \in Nat
    /\ IsFiniteSet(VMIds) /\ Starts \subseteq [VMIds -> Folders \cup {Gone}]
    /\ PageSize \in Nat /\ BatchVMs \in Nat /\ MaxVMs \in Nat /\ MaxRequests \in Nat
    /\ MaxFilesPerDatastore \in Nat /\ MaxFilesPerContext \in Nat /\ BrowseFileCap \in Nat
    /\ TaskPage \in Nat \ {0} /\ MaxTasks \in Nat

(* Of the vCenter: a VM is on a host, which is no VM; no two files of a     *)
(* datastore have one path, no two tasks one key.                          *)
ASSUME VCenterAssumption ==
    /\ HostOf \in [VMIds -> DOMAIN Tree] /\ VMIds \cap DOMAIN Tree = {}
    /\ Stores \in Seq(ToSet(Stores)) /\ TaskLog \in Seq(ToSet(TaskLog))
    /\ \A s \in ToSet(Stores) :
          /\ s.files \in Seq(ToSet(s.files)) /\ s.accessible \in BOOLEAN
          /\ \A i, j \in DOMAIN s.files : s.files[i].path = s.files[j].path => i = j
    /\ \A i, j \in DOMAIN TaskLog : TaskLog[i].key # "" /\ (TaskLog[i].key = TaskLog[j].key => i = j)

VARIABLES
    vms,        \* where each VM is
    client,     \* the client's caches: idx, old (the index has outlived IndexTTL), fields, tags
    op,         \* the operation under way
    open,       \* what it holds on the server
    lost,       \* what the server did not release when asked to
    result,     \* what the last operation returned
    ops, changes

vars == <<vms, client, op, open, lost, result, ops, changes>>

Perf == INSTANCE PerfSignal
Tab  == INSTANCE FolderView

Idle == [kind |-> "idle"]
Nothing == [kind |-> "none"]

(* A call is answered, refused, or fails; once the deadline has passed it  *)
(* only fails.                                                             *)
Answers == IF op.expired THEN {"failed"} ELSE {"ok", "denied", "failed"}

(* Of most calls it only matters whether they were answered.               *)
Answered == IF op.expired THEN {"failed"} ELSE {"ok", "failed"}

(* The object an operation makes, told apart from those of the others.     *)
Handle(name) == <<name, ops, IF op.kind = "files" THEN op.i ELSE 0>>

Finish(res) == op' = Idle /\ result' = res

(* A deferred release runs without the operation's cancellation: only the  *)
(* server itself can keep the object.                                      *)
ReleaseUnderDeadline(handles, kept) ==
    LET held == IF op.expired THEN handles ELSE {} IN open' = open \ (handles \ (kept \cup held)) /\ lost' = lost \cup (handles \cap kept)
Keepable == {kept \in SUBSET (open \ lost) : Cardinality(lost \cup kept) <= MaxKept}
Release(handles, kept) == open' = open \ (handles \ kept) /\ lost' = lost \cup (handles \cap kept)

(* The views of single retrievals, by what is read through them.           *)
ViewNames == {"datacenters", "entities", "links", "portgroups", "clusters", "vapps"}
Names == ViewNames \cup {"view", "collector", "history"}

TypeOK ==
    /\ vms \in [VMIds -> Folders \cup {Gone}]
    /\ open \subseteq (Names \X Nat \X Nat) /\ lost \subseteq open
    /\ ops \in 0 .. MaxOps /\ changes \in 0 .. MaxChanges

Init ==
    /\ vms \in Starts
    /\ client = [idx |-> Unknown, old |-> FALSE, fields |-> "unread", tags |-> {}]
    /\ op = Idle /\ open = {} /\ lost = {}
    /\ result = Nothing /\ ops = 0 /\ changes = 0

-----------------------------------------------------------------------------
(* The vCenter.  Of a VM that has been sent already a change is sent too.  *)

Entity(v) == [name |-> v, kind |-> "VirtualMachine", parent |-> vms[v]]

(* The places of v in a sequence of objects.                               *)
Entries(s, v) == {i \in DOMAIN s : s[i].id = v}

(* The updates still to be sent once a change of v is among them.          *)
Announced(q, v, to) ==
    CASE op.pc = "close" -> q
      [] op.pc = "pages" /\ Entries(q, v) # {} /\ to # Gone -> q
      [] op.pc = "pages" /\ Entries(q, v) # {} /\ to = Gone -> RemoveAt(q, CHOOSE i \in Entries(q, v) : TRUE)
      [] OTHER -> Append(q, [id |-> v, how |-> IF vms[v] = Gone THEN "enter" ELSE IF to = Gone THEN "leave" ELSE "modify"])

ChangeVM(v, to) ==
    /\ changes < MaxChanges /\ to # vms[v]
    /\ vms' = [vms EXCEPT ![v] = to] /\ changes' = changes + 1
    /\ op' = IF op.kind = "vms" /\ op.pc \in {"pages", "close"}
             THEN [op EXCEPT !.touched = @ \cup {v}, !.queue = Announced(@, v, to)] ELSE op
    /\ UNCHANGED <<client, open, lost, result, ops>>

Expire ==
    /\ op.kind # "idle" /\ ~op.expired
    /\ op' = [op EXCEPT !.expired = TRUE]
    /\ UNCHANGED <<vms, client, open, lost, result, ops, changes>>

(* IndexTTL passes.                                                        *)
IndexAges ==
    /\ op.kind = "idle" /\ client.idx # Unknown /\ ~client.old
    /\ client' = [client EXCEPT !.old = TRUE]
    /\ UNCHANGED <<vms, op, open, lost, result, ops, changes>>

-----------------------------------------------------------------------------
(* retrieve: a view is made, what it holds is read, the view is released.  *)

Begin(record) ==
    /\ op.kind = "idle" /\ ops < MaxOps /\ ops' = ops + 1
    /\ op' = record /\ result' = Nothing /\ UNCHANGED <<vms, client, open, lost, changes>>

StartVMs ==
    Begin([kind |-> "vms", pc |-> "index", at |-> "", idx |-> Unknown, expired |-> FALSE,
           queue |-> <<>>, out |-> <<>>, failed |-> FALSE, touched |-> {}, configs |-> <<>>])

(* listVApps, against the index.                                           *)
ListVApps == client.idx # Unknown /\ Begin([kind |-> "vapps", pc |-> "make", at |-> "vapps", expired |-> FALSE])

VMsFailed == [kind |-> "vms", failed |-> TRUE, vms |-> <<>>]

(* newIndex, unless the one there is has not outlived IndexTTL: what its    *)
(* retrievals read, in their order, and after them the settings of the     *)
(* clusters.                                                               *)
LoadIndex ==
    /\ op.kind = "vms" /\ op.pc = "index"
    /\ op' = [op EXCEPT !.pc = "make",
                        !.at = CASE client.idx # Unknown /\ ~client.old -> "clusters"
                                 [] (client.idx = Unknown \/ client.old) /\ Wanted # "" -> "datacenters"
                                 [] OTHER -> "entities"]
    /\ UNCHANGED <<vms, client, open, lost, result, ops, changes>>

Following(at) ==
    CASE at = "datacenters" -> "entities" [] at = "entities" -> "links" [] at = "links" -> "portgroups" [] OTHER -> "clusters"

(* Without these there is no index; the other retrievals are best effort.  *)
Needed == {"datacenters", "entities"}

Usable(ans) == ans = "ok" /\ (op.at = "datacenters" => ResolveRoot(Datacenters, Wanted, "root") # Unknown)

(* The index after the retrieval under way.                                *)
Indexed(ans) ==
    CASE op.at = "entities"              -> NewIndex(With([v \in {x \in VMIds : vms[x] # Gone} |-> Entity(v)], Tree), <<>>, <<>>, <<>>)
      [] op.at = "links" /\ ans = "ok" -> NewIndex(op.idx.by, <<>>, VAppLinks, <<>>)
      [] op.at = "portgroups"            -> Unknown
      [] OTHER                           -> op.idx

(* What comes of a retrieval of a VM read, made with a view or without.    *)
Retrieved(ans) ==
    IF op.at \in Needed /\ ~Usable(ans) THEN Finish(VMsFailed) /\ UNCHANGED client
    ELSE /\ op' = [op EXCEPT !.pc = IF op.at = "clusters" THEN "view" ELSE "make", !.at = Following(@), !.idx = Indexed(ans),
                             !.configs = IF op.at = "clusters" /\ ans = "ok" THEN ClusterConfigs ELSE <<>>]
         /\ client' = IF op.at = "portgroups" THEN [client EXCEPT !.old = FALSE, !.idx = op.idx] ELSE client
         /\ UNCHANGED result

VAppsListed(ans) ==
    /\ UNCHANGED client
    /\ Finish([kind |-> "vapps", failed |-> ans # "ok", got |-> IF ans = "ok" THEN {NewVApp(client.idx, a) : a \in VApps} ELSE {}])

Answer(ans) == IF op.kind = "vms" THEN Retrieved(ans) ELSE VAppsListed(ans)

MakeView(ans) ==
    /\ op.kind \in {"vms", "vapps"} /\ op.pc = "make"
    /\ \/ ans = "ok" /\ open' = open \cup {Handle(op.at)} /\ op' = [op EXCEPT !.pc = "retrieve"] /\ UNCHANGED <<client, result>>
       \/ ans # "ok" /\ Answer(ans) /\ UNCHANGED open
    /\ UNCHANGED <<vms, lost, ops, changes>>

ReadView(ans, kept) ==
    /\ op.kind \in {"vms", "vapps"} /\ op.pc = "retrieve" /\ kept \subseteq open \ lost
    /\ Release(open \ lost, kept) /\ Answer(ans)
    /\ UNCHANGED <<vms, ops, changes>>

-----------------------------------------------------------------------------
(* The VM group: pages of updates from a view of its own.                  *)

(* withContainerView, then the collector and its filter: the objects it    *)
(* answers for are those there when the filter is made.                    *)
OpenView(ans) ==
    /\ op.kind = "vms" /\ op.pc = "view"
    /\ \/ ans = "ok" /\ open' = open \cup {Handle("view")} /\ op' = [op EXCEPT !.pc = "collector"] /\ UNCHANGED result
       \/ ans # "ok" /\ Finish(VMsFailed) /\ UNCHANGED open
    /\ UNCHANGED <<vms, client, lost, ops, changes>>

OpenCollector(ans) ==
    /\ op.kind = "vms" /\ op.pc = "collector"
    /\ \/ /\ ans = "ok" /\ open' = open \cup {Handle("collector")}
          /\ op' = [op EXCEPT !.pc = "pages", !.queue = [i \in DOMAIN SetToSeq({v \in VMIds : vms[v] # Gone}) |->
                      [id |-> SetToSeq({v \in VMIds : vms[v] # Gone})[i], how |-> "enter"]]]
       \/ ans # "ok" /\ op' = [op EXCEPT !.pc = "close", !.failed = TRUE] /\ UNCHANGED open
    /\ UNCHANGED <<vms, client, lost, result, ops, changes>>

(* objectContents: an update is decoded by what it holds, whatever it is   *)
(* an update of.                                                           *)
Content(u) ==
    LET vapp == vms[u.id] \in DOMAIN VAppLinks IN
    [id |-> u.id, host |-> IF u.how = "enter" THEN HostOf[u.id] ELSE Unknown,
     name   |-> IF u.how = "enter" THEN u.id ELSE "",
     parent |-> IF u.how = "leave" \/ vapp THEN Unknown ELSE vms[u.id],
     parentVApp |-> IF u.how = "leave" \/ ~vapp THEN Unknown ELSE vms[u.id],
     config |-> u.how = "enter", template |-> u.id \in TemplateIds]

(* Some object of a page has a value of a custom attribute.                *)
HasValue(u) == u.how = "enter" /\ u.id \in Valued
FieldsNeeded(us) == \E i \in DOMAIN us : HasValue(us[i])

(* newVMs: one page decoded, with the metadata of its objects.             *)
NewVMs(us, list, def, fields) ==
    [i \in DOMAIN us |->
        With(NewVM(client.idx, Content(us[i])),
             [meta |-> TagsOf("ok", list, def, client.tags, Attached[us[i].id]),
              settings |-> IF us[i].how = "enter" THEN ClusterConfigFor(client.idx, op.configs, us[i].id, HostOf[us[i].id]) ELSE Unknown,
              attrs |-> AttributesOf(FieldsNeeded(us), fields, IF HasValue(us[i]) THEN {us[i].id} ELSE {})])]

(* The tags the client knows of after a page.                              *)
TagsKnown(us, list, def) == FoldSeq(LAMBDA u, acc : TagCache("ok", list, def, acc, Attached[u.id]), client.tags, us)

PageOf(queue) == SubSeq(queue, 1, IF Len(queue) > PageSize THEN PageSize ELSE Len(queue))

(* The server has more to hand over.                                       *)
TruncatedByFull(rest) == Len(rest) >= PageSize
Truncated(rest) == rest # <<>>

ReadPage(ans, list, def, fieldAns) ==
    LET us     == PageOf(op.queue)
        rest   == SubSeq(op.queue, Len(us) + 1, Len(op.queue))
        fields == FieldDefinitions(client.fields, FieldsNeeded(us), fieldAns)
        page   == NewVMs(us, list, def, fields)
    IN  /\ op.kind = "vms" /\ op.pc = "pages"
        /\ \/ /\ ans = "ok"
              /\ op' = [op EXCEPT !.queue = rest, !.out = @ \o page, !.pc = IF Truncated(rest) THEN "pages" ELSE "close"]
              /\ client' = [client EXCEPT !.fields = fields, !.tags = TagsKnown(us, list, def)]
           \/ /\ ans # "ok" /\ op' = [op EXCEPT !.pc = "close", !.failed = TRUE] /\ UNCHANGED client
        /\ UNCHANGED <<vms, open, lost, result, ops, changes>>

CloseVMs(kept) ==
    LET failed == op.failed
        final  == IF failed THEN <<>> ELSE op.out
    IN  /\ op.kind = "vms" /\ op.pc = "close" /\ kept \subseteq open \ lost
        /\ Release(open \ lost, kept)
        /\ Finish(IF failed THEN VMsFailed
                  ELSE [kind |-> "vms", failed |-> FALSE, vms |-> final, touched |-> op.touched, were |-> vms,
                        links |-> client.idx.folderParent # <<>>])
        /\ UNCHANGED <<vms, client, ops, changes>>

-----------------------------------------------------------------------------
(* inventoryDatastores: one search a datastore, in name order, within a    *)
(* budget of rows and of time; browseDatastoreFiles with its own cap.      *)

StartFiles ==
    Begin([kind |-> "files", pc |-> "next", expired |-> FALSE, i |-> 1, remaining |-> MaxFilesPerContext, got |-> <<>>])

FileResult(status, limit, found) ==
    [status |-> status, limit |-> limit, files |-> found.files, truncated |-> found.truncated]

NoFiles == [files |-> {}, truncated |-> FALSE]

(* Decided without asking: inaccessible, or the time or the rows are gone. *)
PassedOver(s) ==
    CASE ~s.accessible                                            -> "unavailable"
      [] s.accessible /\ (op.expired \/ op.remaining <= 0)        -> "skipped"
      [] s.accessible /\ ~op.expired /\ op.remaining > 0 /\ ~s.browser -> "unavailable"
      [] OTHER                                                    -> ""

SkipDatastore ==
    /\ op.kind = "files" /\ op.pc = "next" /\ op.i <= Len(Stores) /\ PassedOver(Stores[op.i]) # ""
    /\ op' = [op EXCEPT !.i = @ + 1, !.got = Append(@, FileResult(PassedOver(Stores[op.i]), 0, NoFiles))]
    /\ UNCHANGED <<vms, client, open, lost, result, ops, changes>>

(* The search is a task of the server's, waited for with a collector.      *)
StartSearch ==
    /\ op.kind = "files" /\ op.pc = "next" /\ op.i <= Len(Stores) /\ PassedOver(Stores[op.i]) = ""
    /\ op' = [op EXCEPT !.pc = "search"] /\ open' = open \cup {Handle("collector")}
    /\ UNCHANGED <<vms, client, lost, result, ops, changes>>

EndSearch(ans, kept) ==
    LET s     == Stores[op.i]
        limit == IF MaxFilesPerDatastore < op.remaining THEN MaxFilesPerDatastore ELSE op.remaining
        found == InventoryFiles(s.files, limit)
        entry == IF ans = "ok" THEN FileResult("success", limit, found) ELSE FileResult(ClassifyInventoryError(ans), limit, NoFiles)
    IN  /\ op.kind = "files" /\ op.pc = "search" /\ kept \subseteq {Handle("collector")}
        /\ Release({Handle("collector")}, kept)
        /\ op' = [op EXCEPT !.pc = "next", !.i = @ + 1, !.got = Append(@, entry), !.remaining = @ - Cardinality(entry.files)]
        /\ UNCHANGED <<vms, client, result, ops, changes>>

EndFiles ==
    /\ op.kind = "files" /\ op.pc = "next" /\ op.i > Len(Stores)
    /\ Finish([kind |-> "files", got |-> op.got]) /\ UNCHANGED <<vms, client, open, lost, ops, changes>>

(* The disk files of one datastore, for the orphan rules: the cap counts   *)
(* extents as well as the descriptors they are folded into.                *)
BrowseDatastore(s, ans) ==
    IF ~s.accessible THEN [status |-> "denied", files |-> {}, truncated |-> FALSE]
    ELSE IF ~s.browser THEN [status |-> "failed", files |-> {}, truncated |-> FALSE]
    ELSE IF ans # "ok" THEN [status |-> ClassifyInventoryError(ans), files |-> {}, truncated |-> FALSE]
    ELSE LET disks == {i \in DOMAIN s.files : s.files[i].disk} IN
         [status |-> "success", files |-> FoldDiskExtentSizes({s.files[i] : i \in FirstOf(disks, BrowseFileCap)}),
          truncated |-> Cardinality(disks) > BrowseFileCap]

StartBrowse(i) == Begin([kind |-> "browse", pc |-> "ask", expired |-> FALSE, i |-> i])
StartListing(i) == Begin([kind |-> "listing", pc |-> "ask", expired |-> FALSE, i |-> i])

Searched(ans) ==
    IF op.kind = "browse" THEN [kind |-> "browse", store |-> op.i, got |-> BrowseDatastore(Stores[op.i], ans)]
    ELSE [kind |-> "listing", store |-> op.i, failed |-> ans # "ok",
          got |-> IF ans = "ok" THEN DatastoreListing(Stores[op.i].files, ListEntryCap) ELSE [entries |-> {}, truncated |-> FALSE]]

(* waitForBrowserTask: the search is a task, waited for with a collector.  *)
AskBrowser(ans) ==
    LET s == Stores[op.i]
        asked == op.kind = "browse" => s.accessible /\ s.browser
    IN  /\ op.kind \in {"browse", "listing"} /\ op.pc = "ask"
        /\ \/ ans = "ok" /\ asked /\ open' = open \cup {Handle("collector")} /\ op' = [op EXCEPT !.pc = "wait"] /\ UNCHANGED result
           \/ (ans # "ok" \/ ~asked) /\ Finish(Searched(ans)) /\ UNCHANGED open
        /\ UNCHANGED <<vms, client, lost, ops, changes>>

AwaitBrowser(ans, kept) ==
    /\ op.kind \in {"browse", "listing"} /\ op.pc = "wait" /\ kept \subseteq {Handle("collector")}
    /\ Release({Handle("collector")}, kept) /\ Finish(Searched(ans))
    /\ UNCHANGED <<vms, client, ops, changes>>

-----------------------------------------------------------------------------
(* collectPerf: the VMs that are no templates, in batches, as many requests *)
(* as the budget has; a batch that fails is asked for VM by VM.            *)

Targets == SetToSeq(VMIds \ TemplateIds)

Counters == {"cpu.usage", "mem.active"}

(* The finest interval that keeps the whole window.                        *)
ChooseInterval ==
    LET good == {iv \in Intervals : iv.period > 0 /\ iv.length >= Window} IN
    IF good = {} THEN Unknown ELSE CHOOSE iv \in good : \A o \in good : iv.period <= o.period

Expected == Window \div ChooseInterval.period

Offered == {c \in Counters : ChooseInterval.level = 0 \/ (c = "mem.active" => ChooseInterval.level >= 2)}

CanCollect == ChooseInterval # Unknown /\ Expected >= 1 /\ Expected <= MaxSamples /\ Offered # {}

StartPerf(ans) ==
    LET queryable == SubSeq(Targets, 1, IF Len(Targets) > MaxVMs THEN MaxVMs ELSE Len(Targets))
        over      == SubSeq(Targets, Len(queryable) + 1, Len(Targets))
    IN  /\ op.kind = "idle" /\ ops < MaxOps /\ ops' = ops + 1
        /\ \/ /\ ans = "ok" /\ CanCollect /\ result' = Nothing
              /\ op' = [kind |-> "perf", expired |-> FALSE, queue |-> queryable, singles |-> <<>>, requests |-> 0,
                        skipped |-> ToSet(over), errors |-> 0, by |-> <<>>]
           \/ /\ ans # "ok" \/ ~CanCollect
              /\ result' = [kind |-> "perf", status |-> "failed", by |-> <<>>, skipped |-> {}, requests |-> 0] /\ UNCHANGED op
        /\ UNCHANGED <<vms, client, open, lost, changes>>

StopLate == op.expired \/ op.requests > MaxRequests
StopReason == op.expired \/ op.requests >= MaxRequests

(* record: a counter below the interval's level, or one with no samples     *)
(* where others have some, is unavailable; a VM with none at all has not   *)
(* enough of them.                                                         *)
Record(v) ==
    LET any == \E c \in Offered : Raw(v, c) # <<>> IN
    [c \in Counters |-> IF c \notin Offered THEN Perf!Unavailable
                        ELSE IF Raw(v, c) = <<>> THEN (IF any THEN Perf!Unavailable ELSE Perf!NoSamples)
                        ELSE Perf!Summarize(c, Raw(v, c), Expected, ChooseInterval.period, 1)]

FailRecord == [c \in Counters |-> Perf!Unavailable]

RecordAll(batch, f) == With(op.by, [v \in ToSet(batch) |-> f[v]])

StopPerf ==
    /\ op.kind = "perf" /\ StopReason /\ op.queue \o op.singles # <<>>
    /\ op' = [op EXCEPT !.skipped = @ \cup ToSet(op.queue) \cup ToSet(op.singles), !.errors = @ + 1, !.queue = <<>>, !.singles = <<>>]
    /\ UNCHANGED <<vms, client, open, lost, result, ops, changes>>

(* A refusal ends the collection, what is left is not asked for.           *)
QueryBatch(ans) ==
    LET batch == SubSeq(op.queue, 1, IF Len(op.queue) > BatchVMs THEN BatchVMs ELSE Len(op.queue))
        rest  == SubSeq(op.queue, Len(batch) + 1, Len(op.queue))
    IN  /\ op.kind = "perf" /\ op.singles = <<>> /\ op.queue # <<>> /\ ~StopReason
        /\ op' = CASE ans = "ok" ->
                        [op EXCEPT !.requests = @ + 1, !.queue = rest, !.by = RecordAll(batch, [v \in ToSet(batch) |-> Record(v)])]
                   [] ans = "denied" ->
                        [op EXCEPT !.requests = @ + 1, !.queue = <<>>, !.errors = @ + 1, !.skipped = @ \cup ToSet(rest),
                                   !.by = RecordAll(batch, [v \in ToSet(batch) |-> FailRecord])]
                   [] ans = "failed" /\ Len(batch) = 1 ->
                        [op EXCEPT !.requests = @ + 1, !.queue = rest, !.errors = @ + 1, !.by = RecordAll(batch, [v \in ToSet(batch) |-> FailRecord])]
                   [] OTHER -> [op EXCEPT !.requests = @ + 1, !.queue = rest, !.singles = batch]
        /\ UNCHANGED <<vms, client, open, lost, result, ops, changes>>

(* Here a refusal is one VM's error.                                       *)
QuerySingle(ans) ==
    LET v == Head(op.singles) IN
    /\ op.kind = "perf" /\ op.singles # <<>> /\ ~StopReason
    /\ op' = [op EXCEPT !.requests = @ + 1, !.singles = Tail(@), !.errors = IF ans = "ok" THEN @ ELSE @ + 1,
                        !.by = RecordAll(<<v>>, [x \in {v} |-> IF ans = "ok" THEN Record(v) ELSE FailRecord])]
    /\ UNCHANGED <<vms, client, open, lost, result, ops, changes>>

SignalOf(v) == IF v \in op.skipped THEN "insufficient-data" ELSE Perf!Classify(op.by[v], 4)

WindowStatus ==
    LET data == \E v \in DOMAIN op.by : \E c \in Counters : op.by[v][c].n > 0 IN
    IF Targets # <<>> /\ (ToSet(Targets) \subseteq op.skipped \/ (~data /\ op.errors > 0)) THEN "failed"
    ELSE IF op.skipped # {} \/ op.errors > 0 THEN "partial" ELSE "success"

EndPerf ==
    /\ op.kind = "perf" /\ op.queue \o op.singles = <<>>
    /\ Finish([kind |-> "perf", status |-> WindowStatus,
               by |-> [v \in ToSet(Targets) |-> SignalOf(v)], skipped |-> op.skipped, requests |-> op.requests])
    /\ UNCHANGED <<vms, client, open, lost, ops, changes>>

-----------------------------------------------------------------------------
(* VMEvents: the newest events, then the tasks behind them, through a      *)
(* collector released within a time of its own.                            *)

ReadEvents(ans) ==
    LET raw == SubSeq(EventLog, IF Len(EventLog) > EventLimit THEN Len(EventLog) - EventLimit + 1 ELSE 1, Len(EventLog)) IN
    /\ op.kind = "idle" /\ ops < MaxOps /\ ops' = ops + 1
    /\ \/ /\ ans = "ok" /\ result' = Nothing
          /\ op' = [kind |-> "events", pc |-> "create", expired |-> FALSE, error |-> FALSE, read |-> {},
                    events |-> {ClassifyEvent(e) : e \in ToSet(raw)},
                    since |-> IF Len(raw) >= EventLimit THEN Head(raw).time ELSE 0]
       \/ ans # "ok" /\ result' = [kind |-> "events", failed |-> TRUE] /\ UNCHANGED op
    /\ UNCHANGED <<vms, client, open, lost, changes>>

CreateTaskCollector(ans) ==
    /\ op.kind = "events" /\ op.pc = "create"
    /\ \/ ans = "ok" /\ open' = open \cup {Handle("history")} /\ op' = [op EXCEPT !.pc = "read"]
       \/ ans # "ok" /\ op' = [op EXCEPT !.pc = "apply", !.error = TRUE] /\ UNCHANGED open
    /\ UNCHANGED <<vms, client, lost, result, ops, changes>>

(* A page at a time until one brings nothing new, or there are enough;     *)
(* read holds the places in the log of the tasks there are.                *)
TasksSince(time) == {i \in DOMAIN TaskLog : TaskLog[i].time >= time}

ReadTasks(ans) ==
    LET page == FirstOf(TasksSince(op.since) \ op.read, TaskPage)
        all  == op.read \cup page
    IN  /\ op.kind = "events" /\ op.pc = "read"
        /\ op' = IF ans = "ok"
                 THEN [op EXCEPT !.read = all, !.pc = IF page = {} \/ Cardinality(all) >= MaxTasks THEN "release" ELSE "read"]
                 ELSE [op EXCEPT !.pc = "release", !.error = TRUE]
        /\ UNCHANGED <<vms, client, open, lost, result, ops, changes>>

DestroyTaskCollector(kept) ==
    /\ op.kind = "events" /\ op.pc = "release" /\ kept \subseteq {Handle("history")}
    /\ Release({Handle("history")}, kept)
    /\ op' = [op EXCEPT !.pc = "apply", !.error = @ \/ kept # {}]
    /\ UNCHANGED <<vms, client, result, ops, changes>>

ApplyTasks ==
    /\ op.kind = "events" /\ op.pc = "apply"
    /\ IF op.expired THEN Finish([kind |-> "events", failed |-> TRUE])
       ELSE Finish([kind |-> "events", failed |-> FALSE, error |-> op.error, since |-> op.since,
                    events |-> ApplyTaskHistory(op.events, {TaskLog[i] : i \in op.read}, op.since)])
    /\ UNCHANGED <<vms, client, open, lost, ops, changes>>

(* FetchLicenses: an account without the privilege is shown an empty list. *)
FetchLicenses(list, assign, blind) ==
    LET keys == IF blind THEN {} ELSE Licences IN
    /\ op.kind = "idle" /\ ops < MaxOps /\ ops' = ops + 1
    /\ result' = [kind |-> "licences", got |-> BuildLicenseInventory([infos |-> keys, list |-> list, assign |-> assign,
                     assigned |-> {[key |-> k, entity |-> "host-1"] : k \in Licences}])]
    /\ UNCHANGED <<vms, client, op, open, lost, changes>>

-----------------------------------------------------------------------------
Calls == {"ok", "denied", "failed"}

Next ==
    \/ \E v \in VMIds, to \in Folders \cup {Gone} : ChangeVM(v, to)
    \/ Expire \/ IndexAges \/ \E i \in DOMAIN Stores : StartBrowse(i) \/ StartListing(i)
    \/ ListVApps \/ LoadIndex \/ StartVMs \/ StartFiles \/ SkipDatastore \/ StartSearch \/ EndFiles \/ StopPerf \/ EndPerf \/ ApplyTasks
    \/ \E ans \in Calls : StartPerf(ans) \/ ReadEvents(ans)
    \/ \E list, assign \in Calls, blind \in BOOLEAN : FetchLicenses(list, assign, blind)
    \/ op.kind # "idle" /\ \E ans \in Answered :
         \/ MakeView(ans) \/ OpenView(ans) \/ OpenCollector(ans)
         \/ \E kept \in Keepable : ReadView(ans, kept)
         \/ \E list \in Answers, def, fields \in Answered : ReadPage(ans, list, def, fields)
         \/ CreateTaskCollector(ans) \/ ReadTasks(ans)
    \/ op.kind # "idle" /\ \E ans \in Answers :
         \/ QueryBatch(ans) \/ QuerySingle(ans) \/ AskBrowser(ans)
         \/ \E kept \in Keepable : EndSearch(ans, kept) \/ AwaitBrowser(ans, kept)
    \/ \E kept \in Keepable : CloseVMs(kept) \/ DestroyTaskCollector(kept)

Spec == Init /\ [][Next]_vars

-----------------------------------------------------------------------------
(* What a read leaves behind: when no operation is under way, the server    *)
(* holds no view and no collector of this client's that it would have      *)
(* released on being asked, however the operations ended, by an error, a   *)
(* refusal or their deadline among them.                                   *)
NothingLeftOpen == op.kind = "idle" => open = lost

(* Read whole, not from an update that only says what changed.             *)
Complete(e) == e.configured /\ e.name = e.id /\ (e.template <=> e.id \in TemplateIds)

(* The pages of a VM list add up to the estate: a list that did not fail   *)
(* has each VM that stayed where it was during the whole read exactly      *)
(* once, whatever pages it came in and whatever happened to the others,    *)
(* and it has it complete; and none that was never there.                  *)
PagesAddUp ==
    result.kind = "vms" /\ ~result.failed =>
        /\ \A v \in VMIds \ result.touched :
               Cardinality(Entries(result.vms, v)) = (IF result.were[v] = Gone THEN 0 ELSE 1)
        /\ \A i \in DOMAIN result.vms :
               LET e == result.vms[i] IN
               /\ e.id \in result.touched \/ result.were[e.id] # Gone
               /\ e.id \notin result.touched => Complete(e)

(* A VM has its own tags and attributes, and the settings its cluster      *)
(* gives it.  A status "available" means all of the tags there are.        *)
Described(e, touched) ==
    /\ e.meta.status = "available" => e.meta.tags = ToSet(Attached[e.id])
    /\ e.id \notin touched =>
          /\ e.attrs.status = "available" => e.attrs.attrs = {e.id} \cap Valued
          /\ e.settings # Unknown =>
                \A r \in e.settings.rules : e.id \in r.vms \/ r.group \in VMGroups(ClusterConfigs[Tree[HostOf[e.id]].parent], e.id)

VMsTold == result.kind = "vms" /\ ~result.failed => \A i \in DOMAIN result.vms : Described(result.vms[i], result.touched)

PlainPaths(s) == {f.path : f \in {x \in ToSet(s.files) : ~x.folder}}

StoreTold(g, s) ==
    /\ g.status = "success" /\ ~g.truncated => g.files = PlainPaths(s)
    /\ g.status # "success" => g.files = {}
    /\ g.truncated => Cardinality(g.files) = g.limit

(* The rows of a file inventory, over all of its datastores.               *)
Rows(got) == UNION {{i} \X got[i].files : i \in DOMAIN got}

(* A complete file inventory has every file, an incomplete one says so, and *)
(* the rows of all of them fit the budget.                                 *)
FilesTold ==
    /\ result.kind = "files" =>
          (\A i \in DOMAIN Stores : StoreTold(result.got[i], Stores[i])) /\ Cardinality(Rows(result.got)) <= MaxFilesPerContext
    /\ result.kind = "browse" /\ result.got.status = "success" /\ ~result.got.truncated =>
          {f.path : f \in result.got.files} = {f.path : f \in {x \in ToSet(Stores[result.store].files) : x.disk /\ x.owner = ""}}
    /\ result.kind = "listing" /\ ~result.failed /\ ~result.got.truncated => result.got.entries = ToSet(Stores[result.store].files)

(* A history without an error shows every task of its time that failed,    *)
(* and shows it as a failure that explains nothing and is never minor.     *)
EventsTold ==
    result.kind = "events" /\ ~result.failed /\ ~result.error =>
        /\ \A i \in TasksSince(result.since) :
              TaskLog[i].state = "error" /\ Cardinality(TasksSince(result.since)) < MaxTasks =>
                  /\ \E e \in result.events :
                        e.result = "failed" /\ (e.task = TaskLog[i].key \/ (e.chain = TaskLog[i].chain /\ TaskLog[i].chain # 0))
                  /\ \A e \in result.events : e.task = TaskLog[i].key => e.explains = ""
        /\ \A e \in result.events : e.result = "failed" => ~e.minor

LicencesTold == result.kind = "licences" /\ result.got.status = "success" => result.got.keys = Licences

(* A signal that advice is built on is the one all of the VM's samples     *)
(* give, so none comes from a read that failed or was skipped; a window    *)
(* that counts as a success left no VM out; and the requests stay within   *)
(* the budget.                                                             *)
SamplesTold ==
    result.kind = "perf" =>
        /\ result.requests <= MaxRequests
        /\ \A v \in DOMAIN result.by : result.by[v] \in {"sustained-low", "peaks-observed", "in-use", "contention-observed", "cpu-only"} =>
              v \notin result.skipped /\ result.by[v] = Perf!Classify(Record(v), 4)
        /\ result.status = "success" => result.skipped = {} /\ \A v \in ToSet(Targets) : result.by[v] = Perf!Classify(Record(v), 4)

(* What was read is never passed off as more than it is: no refused,       *)
(* failed, skipped or cut off read of tags, files, history, licences or    *)
(* samples looks whole.                                                    *)
ReadsTellTruth == VMsTold /\ FilesTold /\ EventsTold /\ LicencesTold /\ SamplesTold

(* The folder a VM is shown in, from the tree itself.                      *)
TrueFolder(at) ==
    LET full == [by |-> Tree, folderParent |-> VAppLinks] IN FolderPath(full, at, DatacenterOf(full, at))

(* The terminal interface's folder view of what was read.  A VM that was   *)
(* where it is during the whole read has the folder it is in, and is met   *)
(* by opening folders and vApps from the first screen, which it is also    *)
(* where the links of the vApps could not be read; the numbers on a level  *)
(* add up to what is below; and esc leads back from every folder to the    *)
(* one it was opened from.                                                 *)
WalkFindsAll ==
    result.kind = "vms" /\ ~result.failed =>
        LET rows  == {[id |-> e.id, name |-> e.name, dc |-> e.dc, folder |-> e.folder] : e \in ToSet(result.vms)}
            held(a) == [a EXCEPT !.vms = {v \in VMIds : result.were[v] = a.id}]
            vapps == {NewVApp(client.idx, held(a)) : a \in VApps}
            depth == 1 + Max({Len(r.folder) : r \in rows} \cup {0})
            walk  == Tab!Visited(rows, vapps, depth)
        IN  /\ \A e \in {x \in ToSet(result.vms) : x.id \notin result.touched} :
                  result.links \/ result.were[e.id] \notin DOMAIN VAppLinks => e.folder = TrueFolder(result.were[e.id])
            /\ {r.id : r \in rows} \ result.touched \subseteq Tab!MetOnWalk(walk, rows, vapps)
            /\ \A l \in walk :
                  /\ Cardinality(Tab!FilteredRows(l.spot, rows, LAMBDA r : TRUE))
                       = Cardinality(l.level.leaves) + MapThenSumSet(LAMBDA f : f.count, l.level.folders)
                  /\ \A f \in l.level.folders : Tab!FolderUp(f.spot, rows) = l.spot

-----------------------------------------------------------------------------
(* Why nothing is left open.                                               *)

(* The record of an operation, by its kind.                                *)
OpShape ==
    /\ op.kind \in {"idle", "vms", "vapps", "files", "browse", "listing", "perf", "events"}
    /\ op.kind = "vms" =>
          /\ DOMAIN op = {"kind", "pc", "at", "idx", "expired", "queue", "out", "failed", "touched", "configs"}
          /\ op.pc \in {"index", "make", "retrieve", "view", "collector", "pages", "close"}
          /\ op.pc \in {"make", "retrieve"} => op.at \in ViewNames
    /\ op.kind = "vapps" =>
          /\ DOMAIN op = {"kind", "pc", "at", "expired"} /\ op.pc \in {"make", "retrieve"} /\ op.at \in ViewNames
    /\ op.kind \in {"browse", "listing"} =>
          /\ DOMAIN op = {"kind", "pc", "expired", "i"} /\ op.pc \in {"ask", "wait"} /\ op.i \in DOMAIN Stores
    /\ op.kind = "files" => /\ DOMAIN op = {"kind", "pc", "expired", "i", "remaining", "got"}
                           /\ op.pc \in {"next", "search"} /\ op.i \in Nat
    /\ op.kind = "perf" => DOMAIN op = {"kind", "expired", "queue", "singles", "requests", "skipped", "errors", "by"}
    /\ op.kind = "events" =>
          /\ DOMAIN op = {"kind", "pc", "expired", "error", "read", "events", "since"}
          /\ op.pc \in {"create", "read", "release", "apply"}

(* What an operation other than one with a view holds at this point, which *)
(* does not look for what it has to release: beside it only what the       *)
(* server kept is open.                                                    *)
Holds == CASE op.kind = "files" /\ op.pc = "search"              -> {Handle("collector")}
           [] op.kind = "events" /\ op.pc \in {"read", "release"} -> {Handle("history")}
           [] op.kind \in {"browse", "listing"} /\ op.pc = "wait" -> {Handle("collector")}
           [] OTHER                                              -> {}
OpenAccounted == open = lost \cup Holds \/ (op.kind \in {"vms", "vapps"} /\ op.pc \in {"retrieve", "collector", "pages", "close"})

(* What is open is of this operation or an earlier one, and what the       *)
(* server kept is of an earlier object than the next to release.           *)
KeptIsOlder ==
    /\ \A h \in open : h[2] <= ops
    /\ \A h \in lost : /\ op.kind = "files" /\ h[2] = ops => h[3] < op.i
                       /\ (op.kind = "events" /\ op.pc # "apply") \/ op.kind \in {"browse", "listing"} => h[2] < ops

RetrievalInv == TypeOK /\ OpShape /\ OpenAccounted /\ KeptIsOlder

-----------------------------------------------------------------------------
(* Why the pages add up.                                                   *)

QueueTyped ==
    op.kind = "vms" => /\ op.queue \in Seq([id : VMIds, how : {"enter", "leave", "modify"}])
                       /\ op.out \in Seq(ToSet(op.out)) /\ op.touched \subseteq VMIds
                       /\ op.pc \notin {"pages", "close"} => op.out = <<>> /\ op.queue = <<>>

(* A VM that has not moved since the read began is listed or still to be   *)
(* sent, once, if it is there.                                             *)
InOnce(s, v) == \E i \in DOMAIN s : Entries(s, v) = {i}
OnceIn(v, out, queue) ==
    IF vms[v] = Gone THEN Entries(out, v) = {} /\ Entries(queue, v) = {}
    ELSE \/ InOnce(out, v) /\ Entries(queue, v) = {}
         \/ Entries(out, v) = {} /\ InOnce(queue, v)

PagesAccounted ==
    op.kind = "vms" /\ op.pc \in {"pages", "close"} /\ ~op.failed =>
        /\ op.pc = "close" => op.queue = <<>>
        /\ \A v \in VMIds \ op.touched : OnceIn(v, op.out, op.queue)
        /\ \A i \in DOMAIN op.out :
               op.out[i].id \in VMIds /\ (op.out[i].id \notin op.touched => Complete(op.out[i]))
        /\ \A i \in DOMAIN op.queue : op.queue[i].id \notin op.touched => op.queue[i].how = "enter"

PagesInv == RetrievalInv /\ QueueTyped /\ PagesAccounted /\ PagesAddUp

-----------------------------------------------------------------------------
(* Why the samples tell the truth: each VM is still to be asked for, was   *)
(* left out, or has a record, which is that of its samples unless a        *)
(* request failed.                                                         *)
SamplesAccounted ==
    op.kind = "perf" =>
        /\ op.queue \in Seq(VMIds) /\ op.singles \in Seq(VMIds)
        /\ op.requests \in 0 .. MaxRequests /\ op.errors \in Nat
        /\ ToSet(Targets) \subseteq op.skipped \cup DOMAIN op.by \cup ToSet(op.queue) \cup ToSet(op.singles)
        /\ \A v \in DOMAIN op.by : op.by[v] = Record(v) \/ (op.by[v] = FailRecord /\ op.errors > 0)

SamplesInv == RetrievalInv /\ SamplesAccounted /\ SamplesTold

-----------------------------------------------------------------------------
(* Why the other reads tell the truth.                                     *)

HasTree(idx) ==
    /\ DOMAIN Tree \subseteq DOMAIN idx.by /\ DOMAIN idx.by \subseteq VMIds \cup DOMAIN Tree
    /\ \A x \in DOMAIN Tree : idx.by[x] = Tree[x]

(* The VM read has come past its index.                                    *)
HasIndex == op.kind = "vms" /\ op.at = "clusters"

PastIndex == {"view", "collector", "pages", "close"}

(* The index, new or cached, has what the vCenter has that is no VM.       *)
IndexTrue ==
    /\ DOMAIN client = {"idx", "old", "fields", "tags"}
    /\ client.idx # Unknown \/ HasIndex => HasTree(client.idx)
    /\ op.kind = "vms" =>
          /\ op.at \in {"links", "portgroups"} => HasTree(op.idx)
          /\ op.pc # "index" => op.at \in ViewNames \ {"vapps"}
          /\ op.pc \in PastIndex => op.at = "clusters"

(* What the pages have given is described as it should be.                 *)
VMsAccounted ==
    op.kind = "vms" => /\ op.configs \in {<<>>, ClusterConfigs}
                       /\ op.pc \in {"pages", "close"} /\ ~op.failed => \A i \in DOMAIN op.out : Described(op.out[i], op.touched)

(* A datastore is done with when it has its result, and the rows of those  *)
(* with one are what the budget has lost.                                  *)
FilesAccounted ==
    op.kind = "files" =>
        /\ op.i \in 1 .. Len(Stores) + 1 /\ (op.pc = "search" => op.i <= Len(Stores) /\ op.remaining > 0)
        /\ op.got \in Seq(ToSet(op.got)) /\ Len(op.got) = op.i - 1
        /\ \A i \in DOMAIN op.got : StoreTold(op.got[i], Stores[i])
        /\ IsFiniteSet(Rows(op.got))
        /\ op.remaining \in Nat /\ Cardinality(Rows(op.got)) + op.remaining <= MaxFilesPerContext

EventShaped(e) ==
    DOMAIN e = {"time", "task", "chain", "explains", "minor", "result"} /\ (e.result = "failed" => ~e.minor)

(* The tasks are all of those asked for, as many as are wanted, or the     *)
(* history has an error.                                                   *)
EventsAccounted ==
    op.kind = "events" =>
        /\ \A e \in op.events : EventShaped(e)
        /\ op.read \subseteq TasksSince(op.since)
        /\ op.pc \in {"release", "apply"} /\ ~op.error => op.read = TasksSince(op.since) \/ Cardinality(op.read) >= MaxTasks

ReadsInv == PagesInv /\ SamplesInv /\ IndexTrue /\ VMsAccounted /\ FilesAccounted /\ EventsAccounted /\ ReadsTellTruth

=============================================================================
