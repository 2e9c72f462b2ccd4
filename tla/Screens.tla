------------------------------ MODULE Screens ------------------------------
(***************************************************************************)
(* The screens of the terminal interface: which screen has the keyboard,   *)
(* what each screen is about, and the requests the screens send.  Update   *)
(* (internal/tui/model.go) handles one key or one message at a time; every *)
(* request runs outside it and its answer comes back as a message, in any  *)
(* order, also after the screen that asked has been left.                  *)
(*                                                                         *)
(* The inventory and its loading are InventoryLoad's: here an object is a  *)
(* name, and what an answer holds is reduced to what it is an answer to.   *)
(* Scrolling, cursors, sorting and the texts shown are left out, as are    *)
(* Ctrl-C and quit, which end the program.                                 *)
(***************************************************************************)
EXTENDS Integers, FiniteSets

CONSTANTS
    Stores,     \* datastores a user can open
    VMs,        \* virtual machines a user can open
    Ends,       \* the endpoints a connection form can name
    Tours,      \* the sets of parts of the interface that one user visits
    MaxGen,     \* bound on a workspace's request counter
    MaxAsks,    \* bound on requests in flight
    MaxRuns,    \* bound on stored assessments
    None

(* The form and the datastore workspace that are open, and the file whose  *)
(* references are shown.                                                   *)
Forms == [end : Ends, thumb : Ends \cup {None}, testing : BOOLEAN, discovering : BOOLEAN, saving : BOOLEAN]
Details == [gen : Nat, pending : Nat]
Workspaces ==
    [store : Stores, path : {"", "sub"}, gen : Nat, loading : BOOLEAN, shown : Stores \cup {None, "error"},
     query : BOOLEAN, finding : BOOLEAN, found : Stores \cup {None}, prompt : BOOLEAN,
     detail : Details \cup {None}, cached : SUBSET {"refs", "assessment"}, keeps : BOOLEAN]

ASSUME ScreensAssumption ==
    /\ MaxGen \in Nat /\ MaxAsks \in Nat /\ MaxRuns \in Nat
    /\ Tours \subseteq SUBSET {"files", "vms", "forms", "removal", "history", "tables"}
ASSUME NoneAssumption ==
    Ends # {} /\ None \notin VMs \cup Forms \cup Details \cup Workspaces

VARIABLES
    mode,       \* m.mode
    ret,        \* the screens to return to: helpFrom, detailFrom, returnTo, timelineFrom
    row,        \* the object the open detail, vApp or switch screen is about
    typing,     \* m.filtering
    text,       \* whether m.filter holds a text
    menus,      \* the open lists of the table ("sort") and the VLAN map ("pick")
    actions,    \* m.actions: the object whose list of actions is open, or None
    names,      \* the configured contexts
    form,       \* m.form
    ds,         \* m.ds, the datastore workspace
    tl,         \* the timeline's fields
    perf,       \* the charts: vmPerfLive and each VM's entry
    net,        \* the network wiring: "none", "loading" or "read"
    hist,       \* the history's fields
    visits,     \* the parts of the interface this user visits
    asks,       \* requests whose message has not been delivered
    leaving     \* the user only presses Esc from here on

vars == <<mode, ret, row, typing, text, menus, actions, names, form, ds, tl, perf, net, hist, visits, asks, leaving>>
over == <<typing, text, menus, actions>>

Paths == {"", "sub"}
NoTimeline == [subject |-> None, source |-> "changes", shown |-> None,
               keys |-> {}, events |-> None, requested |-> {}, inflight |-> 0]
NoHistory == [pane |-> "changes", scoped |-> FALSE, runs |-> 0, base |-> 0, target |-> 0, handle |-> "t",
              diff |-> None, edit |-> 0, finding |-> FALSE, capturing |-> FALSE]

Visits(area) == area \in visits /\ ~leaving
Bounded(s)   == leaving \/ Cardinality({a \in s : a.kind \notin {"tick", "perf"}}) <= MaxAsks
Go(m)        == mode' = m

(* The keys go to the screen itself: no filter is typed, no list is open   *)
(* that this screen gives its keys to.                                     *)
At(m) == /\ mode = m /\ ~typing
         /\ (m = "browse" => "sort" \notin menus) /\ (m = "vlanMap" => "pick" \notin menus)
         /\ (m \in {"detail", "vappVM", "switchPG", "dsFiles"} => actions = None)

(* Raising a counter that requests carry makes the ones in flight stale:   *)
(* an answer compares its number with the counter's for equality only.     *)
Stale(s, kinds) == {IF a.kind \in kinds THEN [a EXCEPT !.fresh = FALSE] ELSE a : a \in s}

-----------------------------------------------------------------------------
(* Charts of a VM and the network wiring, which follow every key.          *)

ShowsVM(m, r) == m \in {"detail", "vappVM"} /\ r \in VMs
ShowsNet(m)   == m \in {"switch", "switchPG", "vlanMap"}

(* loadVMPerf asks once per VM at a time, again only when forced: no       *)
(* second request replaces one in flight, and the generation an answer     *)
(* carries is always its entry's.  The guest addresses load alike.         *)
LoadVMPerf(v, force) ==
    perf.entry[v] = "none" \/ (force /\ perf.entry[v] = "shown")

(* armVMPerfTick and nextVMPerfTick: a new tick makes the older ones stale.*)
Armed(s) == Stale(s, {"tick"}) \cup {[kind |-> "tick", fresh |-> TRUE]}

(* The charts and requests after v's chart is shown: ensureVMPerf, and     *)
(* applyVMPerfTick when it reads again.                                    *)
Charted(v, force, s) ==
    IF LoadVMPerf(v, force)
    THEN /\ perf' = [perf EXCEPT !.live = TRUE, !.entry[v] = "loading"]
         /\ asks' = Armed(s) \cup {[kind |-> "perf", vm |-> v]}
    ELSE perf' = [perf EXCEPT !.live = TRUE] /\ asks' = Armed(s)

(* Every key ends with resumeVMPerf and ensureNetTopology: a chart whose   *)
(* ticks have stopped starts again, a wiring not yet read is asked for.    *)
(* s holds the requests after the key; force is a reload's.                *)
AfterKey(s, ensure, force) ==
    LET ask == ShowsNet(mode') /\ net # "loading" /\ (net = "none" \/ (force /\ ShowsNet(mode)))
        all == s \cup IF ask THEN {[kind |-> "topology"]} ELSE {} IN
    /\ net' = IF ask THEN "loading" ELSE net
    /\ IF ShowsVM(mode', row') /\ (ensure \/ ~perf.live)
       THEN Charted(row', force, all)
       ELSE perf' = perf /\ asks' = all
    /\ Bounded(asks')

(* A key that changes no workspace, and one that asks for s more.          *)
Key      == AfterKey(asks, FALSE, FALSE) /\ UNCHANGED <<form, ds, tl, hist, names, leaving>>
Shows    == AfterKey(asks, TRUE, FALSE) /\ UNCHANGED <<form, ds, tl, hist, names, leaving>>
Asking(s) == AfterKey(asks \cup s, FALSE, FALSE) /\ UNCHANGED leaving

applyVMPerf(a) ==
    /\ perf' = [perf EXCEPT !.entry[a.vm] = "shown"]
    /\ asks' = asks \ {a}
    /\ UNCHANGED <<mode, ret, row, over, names, form, ds, tl, net, hist>>

applyVMPerfTick(a) ==
    /\ \/ ~a.fresh /\ perf' = perf /\ asks' = asks \ {a}
       \/ a.fresh /\ ~ShowsVM(mode, row) /\ perf' = [perf EXCEPT !.live = FALSE] /\ asks' = asks \ {a}
       \/ a.fresh /\ ShowsVM(mode, row) /\ Charted(row, TRUE, asks \ {a})
    /\ UNCHANGED <<mode, ret, row, over, names, form, ds, tl, net, hist>>

applyNetTopo(a) ==
    /\ net' = "read" /\ asks' = asks \ {a}
    /\ UNCHANGED <<mode, ret, row, over, names, form, ds, tl, perf, hist>>

-----------------------------------------------------------------------------
(* The table and the screens opened from it (handleBrowseKey, open,        *)
(* handleSearchKey), without the keys that only move or sort.              *)

OpenContexts == At("browse") /\ ~leaving /\ Go("contexts") /\ UNCHANGED <<ret, row, over>> /\ Key
OpenVLANMap  == At("browse") /\ Visits("tables") /\ Go("vlanMap")
                /\ menus' = menus \ {"pick"} /\ UNCHANGED <<ret, row, typing, text, actions>> /\ Key
enterSearch  == At("browse") /\ Visits("tables") /\ Go("search") /\ typing' = ~text
                /\ UNCHANGED <<ret, row, text, menus, actions>> /\ Key
StartFilter  == At(mode) /\ mode \in {"browse", "search", "dsFiles", "changes"} /\ Visits("tables")
                /\ typing' = TRUE /\ UNCHANGED <<mode, ret, row, text, menus, actions>> /\ Key
OpenSort     == At("browse") /\ Visits("tables") /\ menus' = menus \cup {"sort"}
                /\ UNCHANGED <<mode, ret, row, typing, text, actions>> /\ Key

(* open: from the search results the table is put where the object is, so  *)
(* that leaving the detail finds it there.                                 *)
Screen(o) == CASE o = "vapp" -> "vapp" [] o = "switch" -> "switch" [] OTHER -> "detail"
Objects   == (IF "files" \in visits THEN Stores ELSE {})
               \cup (IF "vms" \in visits THEN VMs \cup {"vapp"} ELSE {})
               \cup (IF "tables" \in visits THEN {"switch", "host"} ELSE {})

Open ==
    /\ At(mode) /\ mode \in {"browse", "search"} /\ ~leaving
    /\ row' \in Objects
    /\ ret' = [ret EXCEPT !.detail = "browse", !.switch = "browse"]
    /\ Go(Screen(row'))
    /\ UNCHANGED over /\ Shows

(* The keys that end the typing of a filter: tab widens it to a search of  *)
(* every vCenter except where the filter narrows one listing.              *)
handleFilterKey ==
    /\ typing
    /\ \/ typing' = FALSE /\ text' = FALSE /\ mode' = IF mode = "search" THEN "browse" ELSE mode
       \/ ~leaving /\ typing' = FALSE /\ text' \in BOOLEAN /\ mode' = mode
       \/ ~leaving /\ mode = "browse" /\ mode' = "search" /\ text' = text /\ typing' = ~text
    /\ UNCHANGED <<ret, row, menus, actions>> /\ Key

(* The list of actions over a detail; jumpAction and jumpToNamed close     *)
(* every workspace and go back to the table.                               *)
OpenActions == At(mode) /\ mode \in {"detail", "vappVM", "switchPG"} /\ ~leaving
               /\ actions' = row /\ UNCHANGED <<mode, ret, row, typing, text, menus>> /\ Key
RunsAction  == ~typing /\ ~leaving /\ mode \in {"detail", "vappVM", "switchPG"} /\ actions # None
               /\ actions' = None
JumpAction  == RunsAction /\ Go(ret.detail) /\ row' = None /\ ds' = None /\ text' \in BOOLEAN
               /\ UNCHANGED <<ret, typing, menus, form, tl, hist, names>> /\ Asking({})

(* The vApp and switch workspaces and the screens inside them.             *)
OpenMember     == At("vapp") /\ ~leaving /\ row' \in VMs \cup {"inner"}
                  /\ Go(IF row' = "inner" THEN "vapp" ELSE "vappVM")
                  /\ UNCHANGED <<ret, over>> /\ Shows
OpenPortGroup  == At("switch") /\ ~leaving /\ Go("switchPG") /\ UNCHANGED <<ret, row, over>> /\ Key
OpenHostSwitch == At("detail") /\ row = "host" /\ ~leaving
                  /\ Go("switch") /\ ret' = [ret EXCEPT !.switch = "detail"]
                  /\ UNCHANGED <<row, over>> /\ Key
OpenPairPick   == At("vlanMap") /\ ~leaving /\ net = "read" /\ menus' = menus \cup {"pick"}
                  /\ UNCHANGED <<mode, ret, row, typing, text, actions>> /\ Key

(* ? shows the help over any screen that is not an input of its own.       *)
ToggleHelp ==
    /\ ~typing /\ ~leaving /\ mode \notin {"form", "confirm", "runEdit"}
    /\ ~(mode = "dsFind" /\ ds.prompt)
    /\ IF mode = "help" THEN Go(ret.help) /\ ret' = [ret EXCEPT !.help = "browse"]
       ELSE Go("help") /\ ret' = [ret EXCEPT !.help = mode]
    /\ UNCHANGED <<row, over>> /\ Key

(* The chart or the wiring is read again, or the next VM's shown.          *)
StepOrReload ==
    /\ At(mode) /\ ~leaving
    /\ UNCHANGED <<mode, ret, over, form, ds, tl, hist, names, leaving>>
    /\ \/ ShowsVM(mode, row) /\ row' = row /\ AfterKey(asks, TRUE, TRUE)
       \/ ShowsNet(mode) /\ row' = row /\ AfterKey(asks, FALSE, TRUE)
       \/ mode = "detail" /\ row \in VMs /\ row' \in VMs /\ AfterKey(asks, TRUE, FALSE)

-----------------------------------------------------------------------------
(* Contexts and their form.  A form is its endpoint, the endpoint its      *)
(* thumbprint was discovered at, and the requests it waits for.            *)

NewForm(e) == [end |-> e, thumb |-> None, testing |-> FALSE, discovering |-> FALSE, saving |-> FALSE]

(* enterForm from the contexts or the doctor, and addContextAction's form  *)
(* from a detail, which returns to that detail.                            *)
EnterForm ==
    /\ \/ At("contexts") /\ ret' = [ret EXCEPT !.over = "contexts"] /\ actions' = actions
       \/ At("doctor") /\ ret' = [ret EXCEPT !.over = "browse"] /\ actions' = actions
       \/ RunsAction /\ actions \in VMs /\ ret' = [ret EXCEPT !.over = mode]
    /\ Visits("forms") /\ \E e \in Ends : form' = NewForm(e)
    /\ Go("form") /\ UNCHANGED <<row, typing, text, menus, ds, tl, hist, names>> /\ Asking({})

(* handleFormKey: type another endpoint, Test, Discover or Save.           *)
FormKey ==
    /\ mode = "form" /\ ~typing /\ ~leaving /\ form # None
    /\ UNCHANGED <<mode, ret, row, over, ds, tl, hist, names>>
    /\ \/ \E e \in Ends : form' = [form EXCEPT !.end = e] /\ Asking({})
       \/ ~form.testing /\ form' = [form EXCEPT !.testing = TRUE]
          /\ Asking({[kind |-> "test", end |-> form.end]})
       \/ ~form.discovering /\ form' = [form EXCEPT !.discovering = TRUE]
          /\ Asking({[kind |-> "discover", end |-> form.end]})
       \/ ~form.saving /\ form' = [form EXCEPT !.saving = TRUE]
          /\ Asking({[kind |-> "save", end |-> form.end]})

formTestMsg(a) ==
    /\ form' = IF form = None THEN form ELSE [form EXCEPT !.testing = FALSE]
    /\ asks' = asks \ {a}
    /\ UNCHANGED <<mode, ret, row, over, names, ds, tl, perf, net, hist>>

formDiscoverMsg(a) ==
    /\ form' \in IF form = None THEN {form}
                 ELSE {[form EXCEPT !.discovering = FALSE, !.thumb = t] : t \in {form.thumb, a.end}}
    /\ asks' = asks \ {a}
    /\ UNCHANGED <<mode, ret, row, over, names, ds, tl, perf, net, hist>>

StayOver == UNCHANGED <<mode, ret>>
leaveOverlay == mode' = ret.over /\ ret' = [ret EXCEPT !.over = "browse"]

(* applyFormSave: a success closes whatever form is open; a failure leaves *)
(* it open.  The new context is named after its endpoint.                  *)
applyFormSave(a) ==
    /\ asks' = asks \ {a}
    /\ \/ form = None /\ UNCHANGED <<form, names, mode, ret>>
       \/ form # None /\ form' = [form EXCEPT !.saving = FALSE] /\ UNCHANGED <<names, mode, ret>>
       \/ form # None /\ form' = None /\ names' = names \cup {a.end} /\ leaveOverlay
    /\ UNCHANGED <<row, over, ds, tl, perf, net, hist>>

(* The d of the contexts list, and the y of its confirmation: the screen   *)
(* stays until the answer comes, so y can be pressed again.                *)
ConfirmDelete ==
    /\ At("contexts") /\ Visits("removal") /\ Go("confirm") /\ ret' = [ret EXCEPT !.over = "contexts"]
    /\ row' \in names /\ UNCHANGED over /\ Key
ConfirmKey ==
    /\ mode = "confirm" /\ ~typing /\ ~leaving
    /\ UNCHANGED <<mode, ret, row, over, form, ds, tl, hist, names>>
    /\ LET r(n) == [kind |-> "remove", name |-> row, copy |-> n] IN
       Asking({r(IF r(1) \in asks THEN 2 ELSE 1)})

(* applyFormDelete, of a removal that worked or not.                       *)
applyFormDelete(a) ==
    /\ asks' = asks \ {a}
    /\ names' \in {names \ {a.name}, names}
    /\ IF names' = {} THEN mode' = "form" /\ ret' = ret /\ form' = NewForm(CHOOSE e \in Ends : TRUE)
       ELSE leaveOverlay /\ form' = form
    /\ UNCHANGED <<row, over, ds, tl, perf, net, hist>>

Diagnose ==
    /\ At(mode) /\ mode \in {"browse", "contexts"} /\ Visits("forms")
    /\ [kind |-> "diagnosis"] \notin asks /\ Go("doctor")
    /\ UNCHANGED <<ret, row, over, form, ds, tl, hist, names>> /\ Asking({[kind |-> "diagnosis"]})
diagnosisMsg(a) == asks' = asks \ {a}
                   /\ UNCHANGED <<mode, ret, row, over, names, form, ds, tl, perf, net, hist>>

-----------------------------------------------------------------------------
(* The datastore workspace (datastore_files.go).  Its generation starts    *)
(* at 0 with every workspace; a listing and a search answer carry it with  *)
(* the path or the query they are for, the references carry it alone.      *)
(* shown, found and refs hold the datastore and path an answer came from.  *)

NewWorkspace(s) == [store |-> s, path |-> "", gen |-> 0, loading |-> FALSE, shown |-> None,
                    query |-> FALSE, finding |-> FALSE, found |-> None, prompt |-> FALSE,
                    detail |-> None, cached |-> {}, keeps |-> text]

AbandonSilently(w) == [w EXCEPT !.gen = @ + 1]
abandon(w) == [w EXCEPT !.gen = @ + 1, !.loading = FALSE, !.finding = FALSE]

ListDir(w, p) ==
    LET v == [abandon(w) EXCEPT !.path = p, !.shown = None, !.loading = TRUE] IN
    /\ ds' = v /\ (leaving \/ v.gen <= MaxGen)
    /\ Asking({[kind |-> "listing", store |-> v.store, path |-> p, gen |-> v.gen]})
ListDirIfEmpty(w) ==
    IF w.shown # None \/ w.loading THEN ds' = w /\ Asking({}) ELSE ListDir(w, w.path)

(* openDatastoreFiles, for browsing or for a search first.                 *)
OpenFiles ==
    /\ RunsAction /\ actions \in Stores /\ text' = FALSE /\ typing' = FALSE
    /\ UNCHANGED <<ret, row, menus, form, tl, hist, names>>
    /\ \/ Go("dsFiles") /\ ListDir(NewWorkspace(actions), "")
       \/ Go("dsFind") /\ ds' = [NewWorkspace(actions) EXCEPT !.prompt = TRUE] /\ Asking({})

(* handleDatastoreFilesKey: open a folder, open a file, or search.  A      *)
(* vmdk's references and assessment are asked for unless a former answer   *)
(* is kept.                                                                *)
FilesKey ==
    /\ At("dsFiles") /\ ~leaving
    /\ UNCHANGED <<ret, row, typing, menus, actions, form, tl, hist, names>>
    /\ \/ ds.shown \in Stores /\ ds.path = "" /\ text' = FALSE /\ mode' = mode /\ ListDir(ds, "sub")
       \/ ds.shown \in Stores /\ text' = text /\ Go("dsEntry")
          /\ LET w == abandon(ds)
                 n == {[kind |-> k, store |-> w.store, gen |-> w.gen] :
                           k \in {"refs", "assessment"} \ ds.cached} IN
             /\ w.gen <= MaxGen /\ Asking(n)
             /\ ds' = [w EXCEPT !.detail = [gen |-> w.gen, pending |-> Cardinality(n)]]
       \/ text' = text /\ Go("dsFind") /\ ds' = [ds EXCEPT !.prompt = TRUE] /\ Asking({})

(* handleDatastoreFindKey: search, search again, or go to what was found.  *)
FindKey ==
    /\ At("dsFind") /\ ~leaving
    /\ UNCHANGED <<ret, row, typing, menus, actions, form, tl, hist, names>>
    /\ \/ ds.prompt /\ mode' = mode /\ text' = text
          /\ LET w == [abandon(ds) EXCEPT !.query = TRUE, !.found = None, !.finding = TRUE, !.prompt = FALSE] IN
             /\ ds' = w /\ w.gen <= MaxGen
             /\ Asking({[kind |-> "find", store |-> w.store, gen |-> w.gen]})
       \/ ~ds.prompt /\ mode' = mode /\ text' = text /\ ds' = [ds EXCEPT !.prompt = TRUE] /\ Asking({})
       \/ ~ds.prompt /\ ds.found # None /\ Go("dsFiles") /\ text' = FALSE
          /\ \E p \in Paths : ListDir(ds, p)

(* jumpToDatastoreReference.                                               *)
EntryJump ==
    /\ At("dsEntry") /\ ~leaving /\ ds.detail.pending = 0 /\ ds' = None /\ Go("browse") /\ text' = FALSE
    /\ row' = None /\ UNCHANGED <<ret, typing, menus, actions, form, tl, hist, names>> /\ Asking({})

applyDSListing(a) ==
    /\ asks' = asks \ {a}
    /\ ds' \in IF ds = None \/ (ds # None /\ (a.gen # ds.gen \/ a.path # ds.path)) THEN {ds}
               ELSE {[ds EXCEPT !.loading = FALSE, !.shown = s] : s \in {"error", a.store}}
    /\ UNCHANGED <<mode, ret, row, over, names, form, tl, perf, net, hist>>
applyDSFind(a) ==
    /\ asks' = asks \ {a}
    /\ ds' \in IF ds = None \/ (ds # None /\ (a.gen # ds.gen \/ ~ds.query)) THEN {ds}
               ELSE {[ds EXCEPT !.finding = FALSE, !.found = s] : s \in {None, a.store}}
    /\ UNCHANGED <<mode, ret, row, over, names, form, tl, perf, net, hist>>
applyDSDetail(a) ==
    /\ asks' = asks \ {a}
    /\ ds' = IF ds = None \/ (ds # None /\ (ds.detail = None \/ (ds.detail # None /\ a.gen # ds.detail.gen)))
             THEN ds
             ELSE [ds EXCEPT !.cached = @ \cup {a.kind}, !.detail.pending = IF @ > 0 THEN @ - 1 ELSE 0]
    /\ UNCHANGED <<mode, ret, row, over, names, form, tl, perf, net, hist>>

-----------------------------------------------------------------------------
(* The timeline of a VM (timeline.go): the stored changes and the events   *)
(* of every place the VM was seen at.  "here" is the place a live VM is    *)
(* opened from, and connected; "there" is known from the stored changes    *)
(* only, and asked just by a reload.                                       *)

Sources == {"changes", "events", "combined"}

(* loadTimelineEvents for the timeline t, with s in flight.                *)
Jobs(t, explicit) ==
    IF explicit THEN t.keys ELSE (t.keys \cap {"here"}) \ t.requested
LoadEvents(t, explicit, s) ==
    LET jobs == Jobs(t, explicit) IN
    IF jobs = {} \/ (explicit /\ t.inflight > 0) THEN tl' = t /\ asks' = s
    ELSE /\ tl' = [t EXCEPT !.requested = @ \cup jobs, !.inflight = @ + 1]
         /\ asks' = s \cup {[kind |-> "events", subject |-> t.subject, jobs |-> jobs, fresh |-> TRUE]}

(* openTimelineBy, from a VM's detail or from a change; a new timeline     *)
(* makes the answers to the former one stale.                              *)
OpenTimeline ==
    /\ At(mode) /\ ~leaving
    /\ \E v \in VMs, seeded \in BOOLEAN :
        /\ \/ seeded /\ ShowsVM(mode, row) /\ v = row
           \/ ~seeded /\ mode \in {"changes", "changeDetail"} /\ hist.diff # None /\ Visits("vms")
        /\ LET t == [NoTimeline EXCEPT !.subject = v, !.source = tl.source,
                                       !.keys = IF seeded THEN {"here"} ELSE {}]
               s == Stale(asks, {"timeline", "events"})
                      \cup {[kind |-> "timeline", subject |-> v, fresh |-> TRUE]} IN
           IF t.source # "changes" THEN LoadEvents(t, FALSE, s) ELSE tl' = t /\ asks' = s
    /\ ret' = [ret EXCEPT !.timeline = mode] /\ Go("timeline") /\ Bounded(asks')
    /\ UNCHANGED <<row, over, form, ds, perf, net, hist, names, leaving>>

TimelineAnyAnswer(a) ==
    /\ tl' = [tl EXCEPT !.shown = a.subject] /\ asks' = asks \ {a}
    /\ UNCHANGED <<mode, ret, row, over, names, form, ds, perf, net, hist>>
applyHistoryTimeline(a) ==
    /\ IF ~a.fresh THEN tl' = tl /\ asks' = asks \ {a}
       ELSE \E k \in SUBSET {"here", "there"} :
              LET t == [tl EXCEPT !.shown = a.subject, !.keys = @ \cup k] IN
              IF mode = "timeline" /\ tl.source # "changes" THEN LoadEvents(t, FALSE, asks \ {a})
              ELSE tl' = t /\ asks' = asks \ {a}
    /\ UNCHANGED <<mode, ret, row, over, names, form, ds, perf, net, hist>>

applyVMEvents(a) ==
    /\ tl' = IF ~a.fresh THEN tl
             ELSE [tl EXCEPT !.events = a.subject, !.inflight = IF @ > 0 THEN @ - 1 ELSE 0]
    /\ asks' = asks \ {a}
    /\ UNCHANGED <<mode, ret, row, over, names, form, ds, perf, net, hist>>

(* switchTimelineSource, the reload and the detail of an entry.            *)
TimelineKey ==
    /\ At("timeline") /\ ~leaving
    /\ \/ /\ mode' = mode
          /\ \E s \in Sources : IF s = "changes" THEN tl' = [tl EXCEPT !.source = s] /\ asks' = asks
                                ELSE LoadEvents([tl EXCEPT !.source = s], FALSE, asks)
       \/ tl.source # "changes" /\ LoadEvents(tl, TRUE, asks) /\ mode' = mode
       \/ tl.shown # None /\ Go("timelineDetail") /\ UNCHANGED <<tl, asks>>
    /\ Bounded(asks')
    /\ UNCHANGED <<ret, row, over, form, ds, perf, net, hist, names, leaving>>

-----------------------------------------------------------------------------
(* The history (history.go, history_runs.go).  Runs are numbered in the    *)
(* order they were taken; the list shows the newest first.                 *)

Runs == [kind |-> "runs"]
Diff(b, t) == IF hist.runs < 2 \/ b = 0 \/ b = t THEN {} ELSE {[kind |-> "diff", base |-> b, target |-> t]}

enterChanges ==
    /\ At("browse") /\ Visits("history") /\ Go("changes")
    /\ \E sc \in BOOLEAN :
        hist' = [hist EXCEPT !.pane = "changes", !.handle = "t", !.finding = FALSE, !.scoped = sc]
    /\ UNCHANGED <<ret, row, over, form, ds, tl, names>> /\ Asking({Runs})

(* historyRunsMsg and loadDefaultHistoryDiff: the newest run against the   *)
(* one ComparableBefore picks.  For a selection of contexts the comparison *)
(* waits for the coverage.                                                 *)
historyRunsMsg(a) ==
    /\ \/ hist' = hist /\ asks' = asks \ {a}
       \/ \E n \in 0..MaxRuns :
            IF n < 2 THEN hist' = [hist EXCEPT !.runs = n, !.base = 0, !.target = 0, !.diff = None]
                          /\ asks' = (asks \ {a}) \cup {[kind |-> "coverage"]}
            ELSE \E b \in 1..(n - 1) :
                 /\ hist' = [hist EXCEPT !.runs = n, !.base = b, !.target = n,
                                         !.diff = IF hist.scoped THEN None ELSE @]
                 /\ asks' = (asks \ {a}) \cup {[kind |-> "coverage"]}
                              \cup IF hist.scoped THEN {} ELSE {[kind |-> "diff", base |-> b, target |-> n]}
    /\ UNCHANGED <<mode, ret, row, over, names, form, ds, tl, perf, net>>

(* historyCoverageMsg and scopedDefaultSpan: the newest two runs that      *)
(* reached the whole selection, whatever they are.                         *)
historyCoverageMsg(a) ==
    /\ \/ (~hist.scoped \/ hist.runs < 2) /\ hist' = hist /\ asks' = asks \ {a}
       \/ hist.scoped /\ hist.runs >= 2
          /\ \/ hist' = [hist EXCEPT !.diff = None] /\ asks' = asks \ {a}
             \/ \E b, t \in 1..hist.runs :
                  b < t /\ hist' = [hist EXCEPT !.base = b, !.target = t]
                  /\ asks' = (asks \ {a}) \cup Diff(b, t)
    /\ UNCHANGED <<mode, ret, row, over, names, form, ds, tl, perf, net>>

historyDiffMsg(a) ==
    /\ hist' \in {[hist EXCEPT !.diff = d] : d \in {None, <<a.base, a.target>>}}
    /\ asks' = asks \ {a}
    /\ UNCHANGED <<mode, ret, row, over, names, form, ds, tl, perf, net>>

(* setComparisonEnd: the ends change places when the new one is on the     *)
(* wrong side of the other.                                                *)
Index(id) == IF id \in 1..hist.runs THEN hist.runs - id ELSE 0
EndsUnordered(h, role, id) == IF role = "b" THEN [h EXCEPT !.base = id] ELSE [h EXCEPT !.target = id]
Ends2(h, role, id) ==
    LET b == IF role = "b" THEN id ELSE h.base
        t == IF role = "t" THEN id ELSE h.target IN
    IF Index(b) < Index(t) THEN [h EXCEPT !.base = t, !.target = b] ELSE [h EXCEPT !.base = b, !.target = t]
setComparisonEnd(role, id) ==
    /\ id # (IF role = "b" THEN hist.target ELSE hist.base)
    /\ LET h == Ends2(hist, role, id) IN
       hist' = [h EXCEPT !.pane = "changes"] /\ Asking(Diff(h.base, h.target))

(* moveScrubHandle: one run older or newer, never onto the other end.      *)
moveScrubHandle ==
    /\ hist.runs >= 2
    /\ \E step \in {-1, 1} :
        LET active == IF hist.handle = "b" THEN hist.base ELSE hist.target
            other  == IF hist.handle = "b" THEN hist.target ELSE hist.base
            i      == active + step
            h      == IF hist.handle = "b" THEN [hist EXCEPT !.base = i] ELSE [hist EXCEPT !.target = i] IN
        i \in 1..hist.runs /\ i # other /\ hist' = h /\ Asking(Diff(h.base, h.target))

(* handleChangesKey and the panes' own keys.                               *)
ChangesKey ==
    /\ At("changes") /\ ~leaving /\ UNCHANGED <<ret, row, over, form, ds, tl, names>>
    /\ \/ mode' = mode /\ Asking({})
          /\ \E p \in {"changes", "trends", "runs", "health"} : hist' = [hist EXCEPT !.pane = p]
       \/ mode' = mode /\ ~hist.capturing
          /\ hist' = [hist EXCEPT !.capturing = TRUE] /\ Asking({[kind |-> "capture"]})
       \/ hist.pane = "health" /\ mode' = mode /\ hist' = [hist EXCEPT !.finding = TRUE] /\ Asking({})
       \/ hist.pane = "runs" /\ hist.runs > 0
          /\ \/ mode' = mode /\ \E id \in 1..hist.runs, role \in {"b", "t"} : setComparisonEnd(role, id)
             \/ mode' = mode /\ \E id \in 2..hist.runs :
                  hist' = [hist EXCEPT !.base = id - 1, !.target = id, !.pane = "changes"]
                  /\ Asking(Diff(id - 1, id))
             \/ Go("runEdit") /\ \E id \in 1..hist.runs : hist' = [hist EXCEPT !.edit = id] /\ Asking({})
             \/ mode' = mode /\ hist' = hist /\ Asking({[kind |-> "updated"]})
       \/ hist.pane = "changes"
          /\ \/ mode' = mode /\ moveScrubHandle
             \/ mode' = mode /\ \E c \in {"b", "t"} : hist' = [hist EXCEPT !.handle = c] /\ Asking({})
             \/ mode' = mode /\ \E b \in 1..(hist.target - 1) :
                  hist' = [hist EXCEPT !.base = b] /\ Asking(Diff(b, hist.target))
             \/ hist.runs > 0 /\ Go("pickRun") /\ hist' = hist /\ Asking({})
             \/ hist.diff # None /\ Go("changeDetail") /\ hist' = hist /\ Asking({})

(* handleHistoryRunsKey's enter, and the enter of handleHistoryRunEditKey. *)
PickRun ==
    /\ At("pickRun") /\ ~leaving /\ Go("changes") /\ UNCHANGED <<ret, row, over, form, ds, tl, names>>
    /\ \E id \in 1..hist.runs : setComparisonEnd(hist.handle, id)
SaveRunEdit ==
    /\ At("runEdit") /\ ~leaving /\ hist.edit # 0
    /\ UNCHANGED <<mode, ret, row, over, form, ds, tl, hist, names>> /\ Asking({[kind |-> "updated"]})

historyRunUpdatedMsg(a) ==
    /\ \/ UNCHANGED <<mode, hist>>
       \/ Go("changes") /\ hist' = [hist EXCEPT !.edit = 0]
    /\ asks' = asks \ {a}
    /\ UNCHANGED <<ret, row, over, names, form, ds, tl, perf, net>>

historyCaptureMsg(a) ==
    /\ \/ hist' = [hist EXCEPT !.capturing = FALSE] /\ asks' = asks \ {a}
       \/ hist' = [hist EXCEPT !.capturing = FALSE] /\ asks' = (asks \ {a}) \cup {Runs}
    /\ UNCHANGED <<mode, ret, row, over, names, form, ds, tl, perf, net>>

-----------------------------------------------------------------------------
(* Esc, on every screen.  A screen that waits for its request first gives  *)
(* the request up.                                                         *)

BackToStuck == CASE mode \in {"contexts", "doctor", "vlanMap", "search"} -> "browse"
                 [] mode = "detail" -> ret.detail
                 [] mode = "vapp" -> IF row = "inner" THEN "vapp" ELSE "browse"
                 [] mode = "switch" -> ret.switch
                 [] mode = "help" -> ret.help
                 [] mode \in {"changeDetail", "runEdit"} -> "changes"
                 [] OTHER -> mode
BackTo ==
    CASE mode \in {"contexts", "doctor", "vlanMap", "search"} -> "browse"
      [] mode \in {"changeDetail", "pickRun", "runEdit"}      -> "changes"
      [] mode = "detail"         -> ret.detail
      [] mode = "vapp"           -> IF row = "inner" THEN "vapp" ELSE "browse"
      [] mode = "vappVM"         -> "vapp"
      [] mode = "switch"         -> ret.switch
      [] mode = "switchPG"       -> "switch"
      [] mode = "timeline"       -> ret.timeline
      [] mode = "timelineDetail" -> "timeline"
      [] mode = "help"           -> ret.help
      [] OTHER                   -> mode

(* What a screen was about, and where it returned to, are forgotten when   *)
(* it is left: both are set again before they are read again.              *)
EscScreen ==
    /\ At(mode) /\ mode \notin {"browse", "form", "confirm", "changes", "dsFiles", "dsEntry", "dsFind"}
    /\ Go(BackTo) /\ row' = IF BackTo \in {"browse", "changes"} THEN None
                            ELSE IF mode \in {"vapp", "vappVM"} THEN "vapp" ELSE row
    /\ hist' = IF mode = "runEdit" THEN [hist EXCEPT !.edit = 0] ELSE hist
    /\ ret' = CASE mode = "help" -> [ret EXCEPT !.help = "browse"]
                [] mode = "timeline" -> [ret EXCEPT !.timeline = "browse"]
                [] OTHER -> ret
    /\ UNCHANGED <<over, form, ds, tl, names, leaving>> /\ AfterKey(asks, FALSE, FALSE)

EscList ==
    /\ ~typing
    /\ \/ mode = "browse" /\ "sort" \in menus /\ menus' = menus \ {"sort"} /\ UNCHANGED <<text, actions>>
       \/ mode = "vlanMap" /\ "pick" \in menus /\ menus' = menus \ {"pick"} /\ UNCHANGED <<text, actions>>
       \/ mode \in {"detail", "vappVM", "switchPG", "dsFiles"} /\ actions # None
          /\ actions' = None /\ UNCHANGED <<text, menus>>
       \/ At("browse") /\ text /\ text' = FALSE /\ UNCHANGED <<menus, actions>>
    /\ UNCHANGED <<mode, ret, row, typing>> /\ Key

EscChanges ==
    /\ At("changes") /\ UNCHANGED <<ret, row, typing, menus, actions, form, ds, tl, names>>
    /\ \/ hist.pane = "health" /\ hist.finding /\ hist' = [hist EXCEPT !.finding = FALSE]
          /\ UNCHANGED <<mode, text>>
       \/ hist.pane = "health" /\ ~hist.finding /\ text /\ text' = FALSE /\ UNCHANGED <<mode, hist>>
       \/ (hist.pane = "health" => ~hist.finding /\ ~text)
          /\ Go("browse") /\ hist' = [hist EXCEPT !.pane = "changes"] /\ text' = text
    /\ Asking({})

EscForm ==
    /\ mode \in {"form", "confirm"} /\ ~typing
    /\ IF mode = "form" /\ names = {}
       THEN form' = NewForm(CHOOSE e \in Ends : TRUE) /\ UNCHANGED <<mode, ret>>
       ELSE leaveOverlay /\ form' = IF mode = "form" THEN None ELSE form
    /\ UNCHANGED <<row, over, ds, tl, hist, names>> /\ Asking({})

(* leaveDatastoreDir, and the Esc of a file and of the search.             *)
EscFiles ==
    /\ At(mode) /\ UNCHANGED <<ret, row, typing, menus, actions, form, tl, hist, names>>
    /\ \/ mode = "dsFiles" /\ ds.loading /\ ds' = abandon(ds) /\ UNCHANGED <<mode, text>> /\ Asking({})
       \/ mode = "dsFiles" /\ ~ds.loading /\ ds.path = ""
          /\ ds' = None /\ text' = ds.keeps /\ Go("detail") /\ Asking({})
       \/ mode = "dsFiles" /\ ~ds.loading /\ ds.path # "" /\ text' = FALSE /\ mode' = mode /\ ListDir(ds, "")
       \/ mode = "dsEntry" /\ ds' = [abandon(ds) EXCEPT !.detail = None] /\ Go("dsFiles")
          /\ text' = text /\ Asking({})
       \/ mode = "dsFind" /\ ds.prompt /\ ds.query /\ ds' = [ds EXCEPT !.prompt = FALSE]
          /\ UNCHANGED <<mode, text>> /\ Asking({})
       \/ mode = "dsFind" /\ ds.finding /\ ~ds.prompt /\ ds' = abandon(ds) /\ UNCHANGED <<mode, text>> /\ Asking({})
       \/ mode = "dsFind" /\ (IF ds.prompt THEN ~ds.query ELSE ~ds.finding) /\ Go("dsFiles") /\ text' = text
          /\ ListDirIfEmpty([ds EXCEPT !.prompt = FALSE])

Esc == EscScreen \/ EscList \/ EscChanges \/ EscForm \/ EscFiles \/ (leaving /\ handleFilterKey)

-----------------------------------------------------------------------------
(* Update hands every message to what applies it.                          *)
Deliver(a) ==
    /\ leaving' = leaving
    /\ \/ a.kind = "perf" /\ applyVMPerf(a)
       \/ a.kind = "tick" /\ applyVMPerfTick(a)
       \/ a.kind = "topology" /\ applyNetTopo(a)
       \/ a.kind = "test" /\ formTestMsg(a)
       \/ a.kind = "discover" /\ formDiscoverMsg(a)
       \/ a.kind = "save" /\ applyFormSave(a)
       \/ a.kind = "remove" /\ applyFormDelete(a)
       \/ a.kind = "diagnosis" /\ diagnosisMsg(a)
       \/ a.kind = "listing" /\ applyDSListing(a)
       \/ a.kind = "find" /\ applyDSFind(a)
       \/ a.kind \in {"refs", "assessment"} /\ applyDSDetail(a)
       \/ a.kind = "timeline" /\ applyHistoryTimeline(a)
       \/ a.kind = "events" /\ applyVMEvents(a)
       \/ a.kind = "runs" /\ historyRunsMsg(a)
       \/ a.kind = "coverage" /\ historyCoverageMsg(a)
       \/ a.kind = "diff" /\ historyDiffMsg(a)
       \/ a.kind = "updated" /\ historyRunUpdatedMsg(a)
       \/ a.kind = "capture" /\ historyCaptureMsg(a)

(* The user gives up whatever was being done and only presses Esc.         *)
Leave == ~leaving /\ leaving' = TRUE
         /\ UNCHANGED <<mode, ret, row, over, names, form, ds, tl, perf, net, hist, asks>>

Init ==
    /\ mode = "browse" /\ row = None /\ typing = FALSE /\ text = FALSE /\ menus = {} /\ actions = None
    /\ ret = [help |-> "browse", detail |-> "browse", over |-> "browse", timeline |-> "browse", switch |-> "browse"]
    /\ names = Ends /\ form = None /\ ds = None /\ tl = NoTimeline /\ hist = NoHistory
    /\ perf = [live |-> FALSE, entry |-> [v \in VMs |-> "none"]] /\ net = "none"
    /\ asks = {} /\ leaving = FALSE
    /\ visits \in Tours

Step ==
    \/ OpenContexts \/ OpenVLANMap \/ enterSearch \/ StartFilter \/ OpenSort \/ Open \/ handleFilterKey
    \/ OpenActions \/ JumpAction \/ OpenMember \/ OpenPortGroup \/ OpenHostSwitch \/ OpenPairPick
    \/ ToggleHelp \/ StepOrReload
    \/ EnterForm \/ FormKey \/ ConfirmDelete \/ ConfirmKey \/ Diagnose
    \/ OpenFiles \/ FilesKey \/ FindKey \/ EntryJump
    \/ OpenTimeline \/ TimelineKey
    \/ enterChanges \/ ChangesKey \/ PickRun \/ SaveRunEdit
    \/ Esc \/ Leave
    \/ \E a \in asks : Deliver(a)

Next == Step /\ visits' = visits

Spec == Init /\ [][Next]_vars /\ WF_vars(leaving /\ Esc /\ visits' = visits)

-----------------------------------------------------------------------------
(* Properties.                                                             *)

(* Every screen has what it is about, also after an answer has taken the   *)
(* user away from another one: a form screen has its form, a datastore     *)
(* screen its workspace, an edited run its number, and help never returns  *)
(* to itself or to a screen without its subject (handleKey's modes).       *)
HasSubject(m) ==
    /\ m = "form" => form # None
    /\ m \in {"dsFiles", "dsFind", "dsEntry"} => ds # None
    /\ m = "dsEntry" => ds.detail # None
    /\ m = "runEdit" => hist.edit # 0
    /\ m \in {"timeline", "timelineDetail"} => tl.subject # None
ScreenHasSubject == /\ HasSubject(mode)
                    /\ mode = "help" => ret.help # "help" /\ HasSubject(ret.help)

(* Nothing that says it is waiting waits for an answer that will not come: *)
(* each loading, testing, saving or capturing mark, and a live chart, has  *)
(* a request in flight that ends it, and the timeline counts its requests  *)
(* exactly (abandon, the generations and applyVMPerfTick's chain).         *)
InFlight(kind) == {a \in asks : a.kind = kind}
NothingHangs ==
    /\ ds # None =>
        /\ ds.loading => \E a \in InFlight("listing") : a.gen = ds.gen /\ a.path = ds.path
        /\ ds.finding => \E a \in InFlight("find") : a.gen = ds.gen
        /\ ds.detail # None /\ ds.detail.pending > 0 =>
              \E a \in InFlight("refs") \cup InFlight("assessment") : a.gen = ds.detail.gen
    /\ form # None => /\ form.testing => InFlight("test") # {}
                      /\ form.discovering => InFlight("discover") # {}
                      /\ form.saving => InFlight("save") # {}
    /\ hist.capturing => InFlight("capture") # {}
    /\ perf.live => \E a \in InFlight("tick") : a.fresh
    /\ \A v \in VMs : perf.entry[v] = "loading" => [kind |-> "perf", vm |-> v] \in asks
    /\ net = "loading" => InFlight("topology") # {}
    /\ tl.inflight = Cardinality({a \in InFlight("events") : a.fresh})

(* The timeline on the screen, and the events beside it, are those of the  *)
(* VM it was opened for, whatever was opened before (tlGen).               *)
TimelineIsOfSubject == {tl.shown, tl.events} \subseteq {None, tl.subject}

(* The baseline of a comparison is an older run than its target, however   *)
(* the ends were moved, picked, clipped or reset by a late answer.         *)
BaselineIsOlder == hist.runs >= 2 => hist.base < hist.target

(* What is on the screen belongs together: a screen with its subject, a    *)
(* timeline with its VM, a comparison with its ends in order, whichever    *)
(* answers came late.                                                      *)
ShownBelongs == ScreenHasSubject /\ TimelineIsOfSubject /\ BaselineIsOlder

(* A user who only presses Esc comes back to the table, or to the form     *)
(* when no context is left, whatever was open and whichever answers still  *)
(* arrive.                                                                 *)
EscGetsHome == leaving ~> (mode = "browse" \/ (mode = "form" /\ names = {}))

(* A listing, or a search result, is of the datastore whose name is over   *)
(* it: "A reply carrying an older one is dropped" (dsWorkspace.generation).*)
ListingIsOfStore == ds # None => /\ ds.shown \in {None, "error", ds.store}
                                 /\ ds.found \in {None, ds.store}

-----------------------------------------------------------------------------
(* Why they hold: what every step keeps, by the part of the model that it  *)
(* is about.                                                               *)

(* Requests in flight, by what they carry.                                 *)
Asks ==
    [kind : {"topology", "diagnosis", "runs", "coverage", "updated", "capture"}]
    \cup [kind : {"tick"}, fresh : BOOLEAN] \cup [kind : {"perf"}, vm : VMs]
    \cup [kind : {"test", "discover", "save"}, end : Ends]
    \cup [kind : {"remove"}, name : Ends, copy : {1, 2}]
    \cup [kind : {"listing"}, store : Stores, path : Paths, gen : Nat]
    \cup [kind : {"find", "refs", "assessment"}, store : Stores, gen : Nat]
    \cup [kind : {"timeline"}, subject : VMs, fresh : BOOLEAN]
    \cup [kind : {"events"}, subject : VMs, jobs : SUBSET {"here", "there"}, fresh : BOOLEAN]
    \cup [kind : {"diff"}, base : Nat, target : Nat]

Modes == {"browse", "contexts", "vlanMap", "search", "detail", "vapp", "vappVM", "switch", "switchPG", "help",
          "form", "confirm", "doctor", "dsFiles", "dsFind", "dsEntry", "timeline", "timelineDetail",
          "changes", "changeDetail", "pickRun", "runEdit"}
Returns == [help : Modes \ {"help", "form", "confirm", "runEdit"}, detail : {"browse"},
            over : {"browse", "contexts", "detail", "vappVM", "switchPG"},
            timeline : {"browse", "detail", "vappVM", "changes", "changeDetail"}, switch : {"browse", "detail"}]
Timelines == [subject : VMs \cup {None}, source : Sources, shown : VMs \cup {None},
              keys : SUBSET {"here", "there"}, events : VMs \cup {None},
              requested : SUBSET {"here", "there"}, inflight : Nat]
Histories == [pane : {"changes", "trends", "runs", "health"}, scoped : BOOLEAN, runs : Nat, base : Nat,
              target : Nat, handle : {"b", "t"}, diff : (Nat \X Nat) \cup {None}, edit : Nat,
              finding : BOOLEAN, capturing : BOOLEAN]

Perfs == [live : BOOLEAN, entry : [VMs -> {"none", "loading", "shown"}]]

AsksOK  == asks \in SUBSET Asks /\ IsFiniteSet(asks)
ModesOK == /\ mode \in Modes /\ ret \in Returns /\ (mode = "confirm" => row \in Ends)
           /\ typing \in BOOLEAN /\ text \in BOOLEAN /\ names \in SUBSET Ends
TypeOK ==
    /\ AsksOK /\ ModesOK
    /\ form \in Forms \cup {None} /\ ds \in Workspaces \cup {None}
    /\ tl \in Timelines /\ hist \in Histories
    /\ perf \in Perfs /\ net \in {"none", "loading", "read"}

(* A file's page has at least as many answers in flight as it waits for.   *)
Answers(s, g) == {a \in s : a.kind \in {"refs", "assessment"} /\ a.gen = g}
WorkspaceWaits(s, w) ==
    /\ w.loading => \E a \in s : a.kind = "listing" /\ a.gen = w.gen /\ a.path = w.path
    /\ w.finding => w.query /\ \E a \in s : a.kind = "find" /\ a.gen = w.gen
    /\ w.detail # None => w.detail.pending <= Cardinality(Answers(s, w.detail.gen))
FilesWait == ds # None => WorkspaceWaits(asks, ds)
FormWaits ==
    form # None => /\ form.testing => InFlight("test") # {}
                   /\ form.discovering => InFlight("discover") # {}
                   /\ form.saving => InFlight("save") # {}
ChartsWait ==
    /\ perf.live => \E a \in InFlight("tick") : a.fresh
    /\ \A v \in VMs : perf.entry[v] = "loading" => [kind |-> "perf", vm |-> v] \in asks
NetWaits == net = "loading" => InFlight("topology") # {}

(* The answers a timeline still takes are for its VM; it never asks twice  *)
(* for the same place unless told to.                                      *)
Fresh(s) == {a \in s : a.kind = "events" /\ a.fresh}
TimelineWaits(s, t) ==
    /\ t.inflight = Cardinality(Fresh(s))
    /\ \A a \in s : a.kind \in {"timeline", "events"} /\ a.fresh => a.subject = t.subject
    /\ \A a \in Fresh(s) : a.jobs # {} /\ a.jobs \subseteq t.requested
    /\ {t.shown, t.events} \subseteq {None, t.subject}
TimelineCounts == TimelineWaits(asks, tl)
HistoryWaits ==
    /\ hist.capturing => InFlight("capture") # {}
    /\ hist.runs >= 2 => hist.base \in 1..hist.runs /\ hist.target \in 1..hist.runs /\ hist.base < hist.target

ScreensInv ==
    /\ TypeOK /\ ScreenHasSubject /\ FilesWait /\ FormWaits /\ ChartsWait /\ NetWaits
    /\ TimelineCounts /\ HistoryWaits
=============================================================================
