--------------------------- MODULE ScreensProofs ---------------------------
(***************************************************************************)
(* For any number of datastores, VMs, contexts, runs and requests in       *)
(* flight, and for every tour of the interface: what is on the screen      *)
(* belongs together, and nothing waits for an answer that will not come.   *)
(* The invariant, ScreensInv of Screens, has one part per kind of request; *)
(* a key keeps the parts it does not touch because it only adds requests,  *)
(* an answer because it takes away its own.                                *)
(***************************************************************************)
EXTENDS Screens, FiniteSetTheorems, TLAPS

-----------------------------------------------------------------------------
(* Requests.                                                               *)

LEMMA AskFields ==
  ASSUME NEW a \in Asks
  PROVE  /\ a.kind = "perf" => a.vm \in VMs
         /\ a.kind = "tick" => a.fresh \in BOOLEAN
         /\ a.kind \in {"test", "discover", "save"} => a.end \in Ends
         /\ a.kind = "remove" => a.name \in Ends
         /\ a.kind = "listing" => a.path \in Paths
         /\ a.kind \in {"listing", "find", "refs", "assessment"} => a.store \in Stores /\ a.gen \in Nat
         /\ a.kind \in {"timeline", "events"} => a.subject \in VMs /\ a.fresh \in BOOLEAN
         /\ a.kind = "events" => a.jobs \in SUBSET {"here", "there"}
         /\ a.kind = "diff" => a.base \in Nat /\ a.target \in Nat
  BY DEF Asks

LEMMA AskMade ==
  /\ \A k \in {"topology", "diagnosis", "runs", "coverage", "updated", "capture"} : [kind |-> k] \in Asks
  /\ \A f \in BOOLEAN : [kind |-> "tick", fresh |-> f] \in Asks
  /\ \A v \in VMs : [kind |-> "perf", vm |-> v] \in Asks
  /\ \A k \in {"test", "discover", "save"}, e \in Ends : [kind |-> k, end |-> e] \in Asks
  /\ \A n \in Ends, c \in {1, 2} : [kind |-> "remove", name |-> n, copy |-> c] \in Asks
  /\ \A s \in Stores, p \in Paths, g \in Nat : [kind |-> "listing", store |-> s, path |-> p, gen |-> g] \in Asks
  /\ \A k \in {"find", "refs", "assessment"}, s \in Stores, g \in Nat : [kind |-> k, store |-> s, gen |-> g] \in Asks
  /\ \A v \in VMs, f \in BOOLEAN : [kind |-> "timeline", subject |-> v, fresh |-> f] \in Asks
  /\ \A v \in VMs, j \in SUBSET {"here", "there"}, f \in BOOLEAN :
        [kind |-> "events", subject |-> v, jobs |-> j, fresh |-> f] \in Asks
  /\ \A b, t \in Nat : [kind |-> "diff", base |-> b, target |-> t] \in Asks
  BY DEF Asks

(* An older answer keeps what it is an answer to.                          *)
LEMMA StaleOne ==
  ASSUME NEW a \in Asks, a.kind \in {"tick", "timeline", "events"}
  PROVE  /\ [a EXCEPT !.fresh = FALSE] \in Asks
         /\ [a EXCEPT !.fresh = FALSE].kind = a.kind
         /\ ~[a EXCEPT !.fresh = FALSE].fresh
  BY DEF Asks

LEMMA StaleFacts ==
  ASSUME NEW s \in SUBSET Asks, IsFiniteSet(s),
         NEW K \in SUBSET {"tick", "timeline", "events"}
  PROVE  /\ Stale(s, K) \in SUBSET Asks /\ IsFiniteSet(Stale(s, K))
         /\ \A a \in s : a.kind \notin K => a \in Stale(s, K)
         /\ \A a \in Stale(s, K) : a.kind \notin K => a \in s
         /\ \A a \in Stale(s, K) : a.kind \in K => ~a.fresh
<1> DEFINE f == [a \in s |-> IF a.kind \in K THEN [a EXCEPT !.fresh = FALSE] ELSE a]
<1>1. ASSUME NEW a \in s, a.kind \in K
      PROVE  f[a] \in Asks /\ f[a].kind = a.kind /\ ~f[a].fresh
  BY <1>1, StaleOne
<1>2. ASSUME NEW a \in s, a.kind \notin K
      PROVE  f[a] = a
  BY <1>2
<1>3. Stale(s, K) = {f[a] : a \in s}
  BY DEF Stale
<1>4. f \in Surjection(s, Stale(s, K))
  BY <1>3 DEF Surjection
<1>5. IsFiniteSet(Stale(s, K))
  BY <1>4, FS_Surjection, Zenon
<1> HIDE DEF f
<1> QED BY <1>1, <1>2, <1>3, <1>5

(* A chart that is shown keeps its tick, and asks at most once for its VM. *)
ChartsAsked(s) == \A v \in VMs : perf.entry[v] = "loading" => [kind |-> "perf", vm |-> v] \in s

LEMMA ArmedFacts ==
  ASSUME NEW s \in SUBSET Asks, IsFiniteSet(s)
  PROVE  /\ Armed(s) \in SUBSET Asks /\ IsFiniteSet(Armed(s))
         /\ \E a \in Armed(s) : a.kind = "tick" /\ a.fresh
         /\ \A a \in s : a.kind # "tick" => a \in Armed(s)
         /\ \A a \in Armed(s) : a.kind # "tick" => a \in s
<1> DEFINE tick == [kind |-> "tick", fresh |-> TRUE]
<1>1. tick \in Asks /\ tick.kind = "tick" /\ tick.fresh
  BY AskMade
<1>2. /\ Stale(s, {"tick"}) \in SUBSET Asks /\ IsFiniteSet(Stale(s, {"tick"}))
      /\ \A a \in s : a.kind # "tick" => a \in Stale(s, {"tick"})
      /\ \A a \in Stale(s, {"tick"}) : a.kind # "tick" => a \in s
  BY StaleFacts
<1>3. Armed(s) = Stale(s, {"tick"}) \cup {tick}
  BY DEF Armed
<1> HIDE DEF tick
<1>4. IsFiniteSet(Armed(s))
  <2>1. IsFiniteSet(Stale(s, {"tick"}) \cup {tick})
    BY <1>2, FS_AddElement
  <2> QED BY <1>3, <2>1
<1> QED BY <1>1, <1>2, <1>3, <1>4

LEMMA ChartedEffect ==
  ASSUME NEW s \in SUBSET Asks, IsFiniteSet(s), perf \in Perfs, ChartsAsked(s),
         NEW v \in VMs, NEW force, Charted(v, force, s)
  PROVE  /\ AsksOK' /\ perf' \in Perfs /\ ChartsWait'
         /\ \A a \in s : a.kind # "tick" => a \in asks'
         /\ \A a \in asks' : a.kind \notin {"tick", "perf"} => a \in s
<1> DEFINE p == [kind |-> "perf", vm |-> v]
<1>1. p \in Asks /\ p.kind = "perf"
  BY AskMade
<1>2. /\ Armed(s) \in SUBSET Asks /\ IsFiniteSet(Armed(s))
      /\ \E a \in Armed(s) : a.kind = "tick" /\ a.fresh
      /\ \A a \in s : a.kind # "tick" => a \in Armed(s)
      /\ \A a \in Armed(s) : a.kind # "tick" => a \in s
  BY ArmedFacts
<1>3. \A u \in VMs : perf.entry[u] = "loading" => [kind |-> "perf", vm |-> u] \in Armed(s)
  BY <1>2 DEF ChartsAsked
<1>4. CASE LoadVMPerf(v, force)
  <2>1. /\ perf' = [perf EXCEPT !.live = TRUE, !.entry[v] = "loading"]
        /\ asks' = Armed(s) \cup {p}
    BY <1>4 DEF Charted
  <2>2. AsksOK'
    <3>1. IsFiniteSet(Armed(s) \cup {p})
      BY <1>2, FS_AddElement
    <3> HIDE DEF p
    <3> QED BY <1>1, <1>2, <2>1, <3>1 DEF AsksOK
  <2>3. /\ perf' \in Perfs
        /\ \A u \in VMs : u # v => perf'.entry[u] = perf.entry[u]
    BY <2>1 DEF Perfs
  <2>4. \A u \in VMs : perf'.entry[u] = "loading" => [kind |-> "perf", vm |-> u] \in asks'
    BY <1>3, <2>1, <2>3
  <2>5. \E a \in InFlight("tick")' : a.fresh
    <3> HIDE DEF p
    <3> QED BY <1>2, <2>1 DEF InFlight
  <2>6. ChartsWait'
    BY <2>4, <2>5 DEF ChartsWait
  <2> HIDE DEF p
  <2> QED BY <1>1, <1>2, <2>1, <2>2, <2>3, <2>6
<1>5. CASE ~LoadVMPerf(v, force)
  <2>1. perf' = [perf EXCEPT !.live = TRUE] /\ asks' = Armed(s)
    BY <1>5 DEF Charted
  <2>2. AsksOK'
    BY <1>2, <2>1 DEF AsksOK
  <2>3. perf' \in Perfs /\ perf'.entry = perf.entry
    BY <2>1 DEF Perfs
  <2>4. \E a \in InFlight("tick")' : a.fresh
    BY <1>2, <2>1 DEF InFlight
  <2>5. ChartsWait'
    BY <1>3, <2>1, <2>3, <2>4 DEF ChartsWait
  <2> QED BY <1>2, <2>1, <2>2, <2>3, <2>5
<1> QED BY <1>4, <1>5

(* What a key leaves in flight: everything that was, what it asks for, and *)
(* besides only what the charts and the wiring need.                       *)
Volatile == {"tick", "perf", "topology"}
Leaves(s) == /\ \A a \in s : a.kind # "tick" => a \in asks'
             /\ \A a \in asks' : a.kind \notin Volatile => a \in s
RequestsOK == /\ AsksOK /\ perf \in Perfs /\ net \in {"none", "loading", "read"}
              /\ ChartsWait /\ NetWaits

LEMMA AfterKeyEffect ==
  ASSUME RequestsOK, NEW n \in SUBSET Asks, IsFiniteSet(n),
         NEW ensure, NEW force, AfterKey(asks \cup n, ensure, force)
  PROVE  RequestsOK' /\ Leaves(asks \cup n)
<1> DEFINE ask == ShowsNet(mode') /\ net # "loading" /\ (net = "none" \/ (force /\ ShowsNet(mode)))
           topo == [kind |-> "topology"]
           all == (asks \cup n) \cup IF ask THEN {topo} ELSE {}
<1>1. topo \in Asks /\ topo.kind = "topology"
  BY AskMade
<1>2. IsFiniteSet(asks \cup n) /\ asks \cup n \in SUBSET Asks
  BY FS_Union DEF RequestsOK, AsksOK
<1>3. IsFiniteSet(all) /\ all \in SUBSET Asks
  <2>1. IsFiniteSet((asks \cup n) \cup {topo})
    BY <1>2, FS_AddElement
  <2> HIDE DEF ask, topo
  <2> QED BY <1>1, <1>2, <2>1
<1>4. /\ net' = IF ask THEN "loading" ELSE net
      /\ IF ShowsVM(mode', row') /\ (ensure \/ ~perf.live)
         THEN Charted(row', force, all)
         ELSE perf' = perf /\ asks' = all
  BY DEF AfterKey
<1>5. /\ \A a \in asks \cup n : a \in all
      /\ \A a \in all : a.kind # "topology" => a \in asks \cup n
      /\ ask => topo \in all
  <2> HIDE DEF ask, topo
  <2> QED BY <1>1
<1>6. ChartsAsked(all)
  BY <1>5 DEF RequestsOK, ChartsWait, ChartsAsked
<1> HIDE DEF ask, topo, all
<1>7. /\ AsksOK' /\ perf' \in Perfs /\ ChartsWait'
      /\ \A a \in all : a.kind # "tick" => a \in asks'
      /\ \A a \in asks' : a.kind \notin {"tick", "perf"} => a \in all
  <2>1. CASE ShowsVM(mode', row') /\ (ensure \/ ~perf.live)
    <3>1. row' \in VMs /\ Charted(row', force, all)
      BY <1>4, <2>1 DEF ShowsVM
    <3> QED BY <1>3, <1>6, <3>1, ChartedEffect DEF RequestsOK
  <2>2. CASE ~(ShowsVM(mode', row') /\ (ensure \/ ~perf.live))
    <3>1. perf' = perf /\ asks' = all
      BY <1>4, <2>2
    <3>2. AsksOK' /\ perf' \in Perfs
      BY <1>3, <3>1 DEF AsksOK, RequestsOK
    <3>3. ChartsWait'
      <4>1. perf.live => \E a \in InFlight("tick")' : a.fresh
        BY <1>5, <3>1 DEF RequestsOK, ChartsWait, InFlight
      <4> QED BY <1>6, <3>1, <4>1 DEF ChartsWait, ChartsAsked
    <3> QED BY <3>1, <3>2, <3>3
  <2> QED BY <2>1, <2>2
<1>8. net' \in {"none", "loading", "read"}
  BY <1>4 DEF RequestsOK
<1>9. NetWaits'
  <2>1. CASE ask
    BY <1>1, <1>5, <1>7, <2>1 DEF NetWaits, InFlight
  <2>2. CASE ~ask
    <3>1. SUFFICES ASSUME net = "loading" PROVE InFlight("topology")' # {}
      BY <1>4, <2>2 DEF NetWaits
    <3>2. PICK a \in asks : a.kind = "topology"
      BY <3>1 DEF RequestsOK, NetWaits, InFlight
    <3> QED BY <1>5, <1>7, <3>2 DEF InFlight
  <2> QED BY <2>1, <2>2
<1>10. Leaves(asks \cup n)
  BY <1>5, <1>7 DEF Leaves, Volatile
<1> QED BY <1>7, <1>8, <1>9, <1>10 DEF RequestsOK

-----------------------------------------------------------------------------
(* What waits keeps waiting, as long as its requests stay in flight.       *)

FormKinds     == {"test", "discover", "save"}
FilesKinds    == {"listing", "find", "refs", "assessment"}
TimelineKinds == {"timeline", "events"}
Held(K)       == \A a \in asks : a.kind \in K => a \in asks'
NoneNew(K)    == \A a \in asks' : a.kind \in K => a \in asks

LEMMA FormStays ==
  ASSUME FormWaits, form' = form, Held(FormKinds)
  PROVE  FormWaits'
  BY DEF FormWaits, InFlight, Held, FormKinds

(* No fewer answers are on their way when none is taken.                   *)
LEMMA WorkspaceStays ==
  ASSUME NEW s \in SUBSET Asks, IsFiniteSet(s), NEW t \in SUBSET Asks, IsFiniteSet(t),
         \A a \in s : a.kind \in FilesKinds => a \in t,
         NEW w \in Workspaces, WorkspaceWaits(s, w)
  PROVE  WorkspaceWaits(t, w)
<1>1. /\ w.loading => \E a \in t : a.kind = "listing" /\ a.gen = w.gen /\ a.path = w.path
      /\ w.finding => w.query /\ \E a \in t : a.kind = "find" /\ a.gen = w.gen
  BY DEF WorkspaceWaits, FilesKinds
<1>2. ASSUME w.detail # None
      PROVE  w.detail.pending <= Cardinality(Answers(t, w.detail.gen))
  <2> DEFINE g == w.detail.gen
  <2>1. w.detail.pending \in Nat
    BY <1>2 DEF Workspaces, Details
  <2>2. w.detail.pending <= Cardinality(Answers(s, g))
    BY <1>2 DEF WorkspaceWaits
  <2> HIDE DEF g
  <2>3. Answers(s, g) \subseteq Answers(t, g) /\ Answers(s, g) \subseteq s /\ Answers(t, g) \subseteq t
    BY DEF Answers, FilesKinds
  <2>4. IsFiniteSet(Answers(s, g)) /\ IsFiniteSet(Answers(t, g))
    BY <2>3, FS_Subset
  <2>5. /\ Cardinality(Answers(s, g)) \in Nat /\ Cardinality(Answers(t, g)) \in Nat
        /\ Cardinality(Answers(s, g)) <= Cardinality(Answers(t, g))
    BY <2>3, <2>4, FS_Subset, FS_CardinalityType
  <2>6. w.detail.pending <= Cardinality(Answers(t, g))
    BY <2>1, <2>2, <2>5
  <2> QED BY <2>6 DEF g
<1> QED BY <1>1, <1>2 DEF WorkspaceWaits

LEMMA FilesStay ==
  ASSUME AsksOK, AsksOK', ds \in Workspaces \cup {None}, FilesWait, ds' = ds, Held(FilesKinds)
  PROVE  FilesWait'
  BY WorkspaceStays DEF AsksOK, FilesWait, Held

LEMMA TimelineStays ==
  ASSUME TimelineCounts, tl' = tl, Held(TimelineKinds), NoneNew(TimelineKinds)
  PROVE  TimelineCounts'
<1>1. Fresh(asks') = Fresh(asks)
  BY DEF Fresh, Held, NoneNew, TimelineKinds
<1>2. \A a \in asks' : a.kind \in {"timeline", "events"} /\ a.fresh => a.subject = tl.subject
  BY DEF TimelineCounts, TimelineWaits, NoneNew, TimelineKinds
<1>3. TimelineWaits(asks', tl)
  BY <1>1, <1>2 DEF TimelineCounts, TimelineWaits
<1> QED BY <1>3 DEF TimelineCounts

LEMMA HistoryStays ==
  ASSUME HistoryWaits, hist' = hist, Held({"capture"})
  PROVE  HistoryWaits'
  BY DEF HistoryWaits, InFlight, Held

(* A key disturbs only what it changes itself.                             *)
LEMMA InvRequests == ScreensInv => RequestsOK
  BY DEF ScreensInv, TypeOK, RequestsOK

LEMMA KeyKeeps ==
  ASSUME ScreensInv, NEW n \in SUBSET Asks, IsFiniteSet(n), \A a \in n : a.kind \notin TimelineKinds,
         NEW ensure, NEW force, AfterKey(asks \cup n, ensure, force)
  PROVE  /\ RequestsOK' /\ Leaves(asks \cup n)
         /\ form' = form => FormWaits'
         /\ ds' = ds     => FilesWait'
         /\ tl' = tl     => TimelineCounts'
         /\ hist' = hist => HistoryWaits'
<1>1. RequestsOK' /\ Leaves(asks \cup n)
  BY AfterKeyEffect, InvRequests
<1>2. /\ Held(FormKinds) /\ Held(FilesKinds) /\ Held(TimelineKinds) /\ Held({"capture"})
      /\ NoneNew(TimelineKinds)
  BY <1>1 DEF Leaves, Held, NoneNew, FormKinds, FilesKinds, TimelineKinds, Volatile
<1>3. AsksOK /\ AsksOK' /\ ds \in Workspaces \cup {None} /\ FormWaits /\ FilesWait /\ TimelineCounts /\ HistoryWaits
  BY <1>1 DEF ScreensInv, TypeOK, RequestsOK
<1> QED BY <1>1, <1>2, <1>3, FormStays, FilesStay, TimelineStays, HistoryStays

(* An answer disturbs what waited for it, and what its handler changes.    *)
LEMMA AnswerKeeps ==
  ASSUME ScreensInv, NEW a \in asks, NEW n \in SUBSET Asks, IsFiniteSet(n),
         \A x \in n : x.kind \notin TimelineKinds, asks' = (asks \ {a}) \cup n
  PROVE  /\ AsksOK'
         /\ form' = form /\ a.kind \notin FormKinds => FormWaits'
         /\ ds' = ds /\ a.kind \notin FilesKinds => FilesWait'
         /\ tl' = tl /\ a.kind \notin TimelineKinds => TimelineCounts'
         /\ hist' = hist /\ a.kind # "capture" => HistoryWaits'
         /\ perf' = perf /\ a.kind \notin {"tick", "perf"} => ChartsWait'
         /\ net' = net /\ a.kind # "topology" => NetWaits'
<1>1. AsksOK /\ ds \in Workspaces \cup {None} /\ FormWaits /\ FilesWait /\ TimelineCounts /\ HistoryWaits
      /\ ChartsWait /\ NetWaits
  BY DEF ScreensInv, TypeOK
<1>2. AsksOK'
  <2>1. IsFiniteSet(asks \ {a})
    BY <1>1, FS_RemoveElement DEF AsksOK
  <2>2. IsFiniteSet((asks \ {a}) \cup n)
    BY <2>1, FS_Union
  <2> QED BY <1>1, <2>2 DEF AsksOK
<1>3. /\ \A K : a.kind \notin K => Held(K)
      /\ NoneNew(TimelineKinds)
  BY DEF Held, NoneNew
<1>4. form' = form /\ a.kind \notin FormKinds => FormWaits'
  BY <1>1, <1>3, FormStays
<1>5. ds' = ds /\ a.kind \notin FilesKinds => FilesWait'
  BY <1>1, <1>2, <1>3, FilesStay
<1>6. tl' = tl /\ a.kind \notin TimelineKinds => TimelineCounts'
  BY <1>1, <1>3, TimelineStays
<1>7. hist' = hist /\ a.kind # "capture" => HistoryWaits'
  BY <1>1, <1>3, HistoryStays
<1>8. perf' = perf /\ a.kind \notin {"tick", "perf"} => ChartsWait'
  <2> SUFFICES ASSUME perf' = perf, a.kind \notin {"tick", "perf"} PROVE ChartsWait'
    OBVIOUS
  <2>1. \A x \in InFlight("tick") : x \in InFlight("tick")'
    BY DEF InFlight
  <2>2. \A v \in VMs : [kind |-> "perf", vm |-> v] # a
    OBVIOUS
  <2> QED BY <1>1, <2>1, <2>2 DEF ChartsWait
<1>9. net' = net /\ a.kind # "topology" => NetWaits'
  <2> SUFFICES ASSUME net' = net, a.kind # "topology" PROVE NetWaits'
    OBVIOUS
  <2>1. \A x \in InFlight("topology") : x \in InFlight("topology")'
    BY DEF InFlight
  <2> QED BY <1>1, <2>1 DEF NetWaits
<1> QED BY <1>2, <1>4, <1>5, <1>6, <1>7, <1>8, <1>9

-----------------------------------------------------------------------------
(* The keys that only change the screen.                                   *)

LEMMA SubjectsStay ==
  ASSUME ScreenHasSubject, mode' = mode, ret' = ret,
         form # None => form' # None,
         ds # None => ds' # None,
         ds # None /\ ds.detail # None => ds'.detail # None,
         hist'.edit = hist.edit, tl'.subject = tl.subject
  PROVE  ScreenHasSubject'
<1>1. HasSubject(mode)'
  BY DEF ScreenHasSubject, HasSubject
<1>2. mode = "help" => ret.help # "help" /\ HasSubject(ret.help)'
  BY DEF ScreenHasSubject, HasSubject
<1> QED BY <1>1, <1>2 DEF ScreenHasSubject

LEMMA KeyOnly ==
  ASSUME ScreensInv, NEW ensure, NEW force, AfterKey(asks, ensure, force)
  PROVE  /\ RequestsOK' /\ Leaves(asks)
         /\ form' = form => FormWaits'
         /\ ds' = ds     => FilesWait'
         /\ tl' = tl     => TimelineCounts'
         /\ hist' = hist => HistoryWaits'
<1>1. /\ {} \in SUBSET Asks /\ IsFiniteSet({}) /\ \A a \in {} : a.kind \notin TimelineKinds
      /\ asks \cup {} = asks
  BY FS_EmptySet
<1>2. AfterKey(asks \cup {}, ensure, force)
  BY <1>1
<1> QED BY <1>1, <1>2, KeyKeeps

LEMMA PlainKey ==
  ASSUME ScreensInv, NEW ensure, NEW force, AfterKey(asks, ensure, force),
         UNCHANGED <<form, ds, tl, hist>>, ModesOK', HasSubject(mode'),
         mode' = "help" => ret'.help # "help" /\ HasSubject(ret'.help)
  PROVE  ScreensInv'
<1>1. RequestsOK' /\ FormWaits' /\ FilesWait' /\ TimelineCounts' /\ HistoryWaits'
  BY KeyOnly
<1>2. TypeOK'
  BY <1>1 DEF ScreensInv, TypeOK, RequestsOK
<1>3. ScreenHasSubject'
  BY DEF ScreenHasSubject, HasSubject
<1> QED BY <1>1, <1>2, <1>3 DEF ScreensInv, RequestsOK

(* A screen that needs no subject.                                         *)
Bare == {"browse", "contexts", "vlanMap", "search", "detail", "vapp", "vappVM", "switch", "switchPG",
         "doctor", "changes", "changeDetail", "pickRun"}

LEMMA BareScreens ==
  ASSUME NEW m \in Bare
  PROVE  HasSubject(m) /\ HasSubject(m)' /\ m # "help" /\ m # "confirm" /\ m \in Modes
  BY DEF Bare, HasSubject, Modes

LEMMA InvModes ==
  ASSUME ScreensInv
  PROVE  /\ ModesOK /\ mode \in Modes /\ ret \in Returns /\ HasSubject(mode)
         /\ ret.help \in Modes \ {"help", "form", "confirm", "runEdit"}
         /\ ret.detail = "browse" /\ ret.switch \in {"browse", "detail"}
         /\ ret.over \in {"browse", "contexts", "detail", "vappVM", "switchPG"}
         /\ ret.timeline \in {"browse", "detail", "vappVM", "changes", "changeDetail"}
         /\ mode = "help" => ret.help # "help" /\ HasSubject(ret.help)
  BY DEF ScreensInv, TypeOK, ModesOK, Returns, ScreenHasSubject

(* To a screen without a subject, or staying on the same.                  *)
LEMMA BareKey ==
  ASSUME ScreensInv, NEW ensure, NEW force, AfterKey(asks, ensure, force),
         UNCHANGED <<form, ds, tl, hist, names>>,
         mode' \in Bare \/ (mode' = mode /\ mode # "confirm" /\ ret'.help = ret.help),
         ret' \in Returns, typing' \in BOOLEAN, text' \in BOOLEAN
  PROVE  ScreensInv'
<1>1. CASE mode' \in Bare
  <2>1. HasSubject(mode') /\ mode' # "help" /\ mode' # "confirm" /\ mode' \in Modes
    BY <1>1, BareScreens
  <2>2. ModesOK'
    BY <2>1, InvModes DEF ModesOK
  <2> QED BY <2>1, <2>2, PlainKey
<1>2. CASE mode' = mode /\ mode # "confirm" /\ ret'.help = ret.help
  <2>1. ModesOK'
    BY <1>2, InvModes DEF ModesOK
  <2>2. HasSubject(mode') /\ (mode' = "help" => ret'.help # "help" /\ HasSubject(ret'.help))
    BY <1>2, InvModes
  <2> QED BY <2>1, <2>2, PlainKey
<1> QED BY <1>1, <1>2

LEMMA RetUpdates ==
  ASSUME ret \in Returns
  PROVE  /\ [ret EXCEPT !.detail = "browse", !.switch = "browse"] \in Returns
         /\ [ret EXCEPT !.switch = "detail"] \in Returns
         /\ \A m \in {"browse", "contexts", "detail", "vappVM", "switchPG"} : [ret EXCEPT !.over = m] \in Returns
         /\ \A m \in {"browse", "detail", "vappVM", "changes", "changeDetail"} : [ret EXCEPT !.timeline = m] \in Returns
         /\ \A m \in Modes \ {"help", "form", "confirm", "runEdit"} :
               [ret EXCEPT !.help = m] \in Returns /\ [ret EXCEPT !.help = m].help = m
<1>1. \A m \in Modes \ {"help", "form", "confirm", "runEdit"} :
         [ret EXCEPT !.help = m] \in Returns /\ [ret EXCEPT !.help = m].help = m
  BY DEF Returns
<1>2. \A m \in {"browse", "contexts", "detail", "vappVM", "switchPG"} : [ret EXCEPT !.over = m] \in Returns
  BY DEF Returns
<1>3. \A m \in {"browse", "detail", "vappVM", "changes", "changeDetail"} : [ret EXCEPT !.timeline = m] \in Returns
  BY DEF Returns
<1>4. [ret EXCEPT !.switch = "detail"] \in Returns
  BY DEF Returns
<1>5. [ret EXCEPT !.detail = "browse", !.switch = "browse"] \in Returns
  BY DEF Returns
<1> QED BY <1>1, <1>2, <1>3, <1>4, <1>5

LEMMA TableKeys ==
  ASSUME ScreensInv,
         \/ OpenContexts \/ OpenVLANMap \/ enterSearch \/ StartFilter \/ OpenSort \/ Open
         \/ OpenActions \/ OpenMember \/ OpenPortGroup \/ OpenHostSwitch \/ OpenPairPick
  PROVE  ScreensInv'
<1>1. ModesOK
  BY InvModes
<1>2. CASE OpenContexts \/ OpenVLANMap \/ enterSearch \/ OpenPortGroup
  BY <1>1, <1>2, BareKey DEF OpenContexts, OpenVLANMap, enterSearch, OpenPortGroup, Key, Go, Bare, over, ModesOK
<1>3. CASE StartFilter \/ OpenSort \/ OpenActions \/ OpenPairPick
  BY <1>1, <1>3, BareKey DEF StartFilter, OpenSort, OpenActions, OpenPairPick, At, Key, over, ModesOK
<1>4. CASE Open
  <2>1. mode' \in Bare
    BY <1>4 DEF Open, Go, Screen, Bare
  <2> QED BY <1>1, <1>4, <2>1, BareKey, RetUpdates DEF Open, Shows, over, ModesOK
<1>5. CASE OpenMember
  <2>1. mode' \in Bare
    BY <1>5 DEF OpenMember, Go, Bare
  <2> QED BY <1>1, <1>5, <2>1, BareKey DEF OpenMember, Shows, over, ModesOK
<1>6. CASE OpenHostSwitch
  <2>1. mode' \in Bare
    BY <1>6 DEF OpenHostSwitch, Go, Bare
  <2> QED BY <1>1, <1>6, <2>1, BareKey, RetUpdates DEF OpenHostSwitch, Key, over, ModesOK
<1> QED BY <1>2, <1>3, <1>4, <1>5, <1>6

LEMMA ScreenKeys ==
  ASSUME ScreensInv,
         \/ handleFilterKey \/ ToggleHelp \/ StepOrReload \/ ConfirmDelete \/ EscList
  PROVE  ScreensInv'
<1>1. ModesOK
  BY InvModes
<1>2. CASE handleFilterKey
  <2>1. /\ UNCHANGED <<ret, row, form, ds, tl, hist, names>> /\ AfterKey(asks, FALSE, FALSE)
        /\ mode' \in Bare \/ mode' = mode
        /\ typing' \in BOOLEAN /\ text' \in BOOLEAN
    BY <1>1, <1>2 DEF handleFilterKey, Key, Bare, ModesOK
  <2>2. HasSubject(mode') /\ (mode' = "help" => ret'.help # "help" /\ HasSubject(ret'.help))
    BY <2>1, InvModes, BareScreens
  <2>3. ModesOK'
    BY <1>1, <2>1, BareScreens DEF ModesOK
  <2> QED BY <2>1, <2>2, <2>3, PlainKey
<1>3. CASE ToggleHelp
  <2>1. UNCHANGED <<row, typing, text, form, ds, tl, hist, names>> /\ AfterKey(asks, FALSE, FALSE)
    BY <1>3 DEF ToggleHelp, Key, over
  <2>2. CASE mode = "help"
    <3>1. mode' = ret.help /\ ret' = [ret EXCEPT !.help = "browse"]
      BY <1>3, <2>2 DEF ToggleHelp, Go
    <3>2. ret' \in Returns
      BY <3>1, InvModes, RetUpdates DEF Modes
    <3>3. /\ mode' \in Modes /\ mode' \notin {"help", "confirm"} /\ HasSubject(mode')
      BY <2>2, <3>1, InvModes
    <3>4. ModesOK'
      BY <1>1, <2>1, <3>2, <3>3 DEF ModesOK
    <3> QED BY <2>1, <3>3, <3>4, PlainKey
  <2>3. CASE mode # "help"
    <3>1. mode' = "help" /\ ret' = [ret EXCEPT !.help = mode] /\ mode \in Modes \ {"help", "form", "confirm", "runEdit"}
      BY <1>3, <2>3, InvModes DEF ToggleHelp, Go
    <3>2. ret' \in Returns /\ ret'.help = mode
      BY <3>1, InvModes, RetUpdates
    <3>3. ModesOK'
      BY <1>1, <2>1, <3>1, <3>2 DEF ModesOK, Modes
    <3>4. HasSubject(mode') /\ ret'.help # "help" /\ HasSubject(ret'.help)
      BY <2>3, <3>1, <3>2, InvModes DEF HasSubject
    <3> QED BY <2>1, <3>3, <3>4, PlainKey
  <2> QED BY <2>2, <2>3
<1>4. CASE StepOrReload
  <2>1. /\ UNCHANGED <<mode, ret, typing, text, form, ds, tl, hist, names>> /\ mode \notin {"confirm", "help"}
        /\ \E e, f \in BOOLEAN : AfterKey(asks, e, f)
    BY <1>4 DEF StepOrReload, over, ShowsVM, ShowsNet
  <2>2. ModesOK'
    BY <1>1, <2>1 DEF ModesOK
  <2> QED BY <2>1, <2>2, InvModes, PlainKey
<1>5. CASE ConfirmDelete
  <2>1. /\ UNCHANGED <<typing, text, form, ds, tl, hist, names>> /\ AfterKey(asks, FALSE, FALSE)
        /\ mode' = "confirm" /\ row' \in names /\ ret' = [ret EXCEPT !.over = "contexts"]
    BY <1>5 DEF ConfirmDelete, Go, Key, over
  <2>2. ret' \in Returns
    BY <2>1, InvModes, RetUpdates
  <2>3. ModesOK' /\ HasSubject(mode')
    BY <1>1, <2>1, <2>2 DEF ModesOK, Modes, HasSubject
  <2> QED BY <2>1, <2>3, PlainKey
<1>6. CASE EscList
  <2>1. /\ UNCHANGED <<mode, ret, row, typing, form, ds, tl, hist, names>> /\ AfterKey(asks, FALSE, FALSE)
        /\ text' \in BOOLEAN
    BY <1>1, <1>6 DEF EscList, Key, ModesOK
  <2>2. ModesOK'
    BY <1>1, <2>1 DEF ModesOK
  <2> QED BY <2>1, <2>2, InvModes, PlainKey
<1> QED BY <1>2, <1>3, <1>4, <1>5, <1>6

-----------------------------------------------------------------------------
(* The keys that change a part of the model.                               *)

LEMMA AskingKeeps ==
  ASSUME ScreensInv, NEW n \in SUBSET Asks, IsFiniteSet(n), \A a \in n : a.kind \notin TimelineKinds,
         Asking(n)
  PROVE  /\ RequestsOK' /\ Leaves(asks \cup n)
         /\ form' = form => FormWaits'
         /\ ds' = ds     => FilesWait'
         /\ tl' = tl     => TimelineCounts'
         /\ hist' = hist => HistoryWaits'
  BY KeyKeeps DEF Asking

LEMMA NothingAsked ==
  ASSUME ScreensInv, Asking({})
  PROVE  /\ RequestsOK' /\ Leaves(asks)
         /\ form' = form => FormWaits'
         /\ ds' = ds     => FilesWait'
         /\ tl' = tl     => TimelineCounts'
         /\ hist' = hist => HistoryWaits'
<1>1. AfterKey(asks \cup {}, FALSE, FALSE) /\ asks \cup {} = asks
  BY DEF Asking
<1>2. AfterKey(asks, FALSE, FALSE)
  BY <1>1
<1> QED BY <1>2, KeyOnly

LEMMA OneAsked ==
  ASSUME ScreensInv, NEW a \in Asks, a.kind \notin TimelineKinds \cup {"tick"}, Asking({a})
  PROVE  /\ RequestsOK' /\ Leaves(asks \cup {a}) /\ a \in asks'
         /\ form' = form => FormWaits'
         /\ ds' = ds     => FilesWait'
         /\ tl' = tl     => TimelineCounts'
         /\ hist' = hist => HistoryWaits'
<1>1. {a} \in SUBSET Asks /\ IsFiniteSet({a}) /\ \A x \in {a} : x.kind \notin TimelineKinds
  BY FS_Singleton
<1>2. /\ RequestsOK' /\ Leaves(asks \cup {a})
      /\ form' = form => FormWaits'
      /\ ds' = ds     => FilesWait'
      /\ tl' = tl     => TimelineCounts'
      /\ hist' = hist => HistoryWaits'
  BY <1>1, AskingKeeps
<1> QED BY <1>2 DEF Leaves

(* The history, when its runs and the ends of the comparison stay.         *)
LEMMA EndsStay ==
  ASSUME HistoryWaits, NEW n, asks \subseteq n, Leaves(n),
         hist'.capturing = hist.capturing, hist'.runs = hist.runs,
         hist'.base = hist.base, hist'.target = hist.target
  PROVE  HistoryWaits'
<1>1. \A a \in InFlight("capture") : a \in InFlight("capture")'
  BY DEF Leaves, InFlight
<1> QED BY <1>1 DEF HistoryWaits

(* The keys that leave the screen they are on.                             *)
LEMMA LeavingKeys ==
  ASSUME ScreensInv, JumpAction \/ EscScreen
  PROVE  ScreensInv'
<1>1. ModesOK
  BY InvModes
<1>2. CASE JumpAction
  <2>1. /\ UNCHANGED <<ret, typing, form, tl, hist, names>> /\ Asking({})
        /\ mode' = "browse" /\ ds' = None /\ text' \in BOOLEAN
    BY <1>2, InvModes DEF JumpAction, Go
  <2>2. RequestsOK' /\ FormWaits' /\ TimelineCounts' /\ HistoryWaits'
    BY <2>1, NothingAsked
  <2>3. FilesWait' /\ ScreenHasSubject'
    BY <2>1 DEF FilesWait, ScreenHasSubject, HasSubject
  <2>4. ModesOK'
    BY <1>1, <2>1 DEF ModesOK, Modes
  <2>5. TypeOK'
    BY <2>1, <2>2, <2>4 DEF ScreensInv, TypeOK, RequestsOK
  <2> QED BY <2>2, <2>3, <2>5 DEF ScreensInv, RequestsOK
<1>3. CASE EscScreen
  <2>1. /\ UNCHANGED <<typing, text, form, ds, tl, names>> /\ AfterKey(asks, FALSE, FALSE)
        /\ mode' = BackTo /\ mode \notin {"browse", "form", "confirm", "changes", "dsFiles", "dsEntry", "dsFind"}
        /\ hist' = IF mode = "runEdit" THEN [hist EXCEPT !.edit = 0] ELSE hist
        /\ ret' = CASE mode = "help" -> [ret EXCEPT !.help = "browse"]
                    [] mode = "timeline" -> [ret EXCEPT !.timeline = "browse"]
                    [] OTHER -> ret
    BY <1>3 DEF EscScreen, Go, over
  <2>2. ret' \in Returns
    BY <2>1, InvModes, RetUpdates DEF Modes
  <2>3. \/ mode' \in Bare
        \/ mode = "help" /\ mode' = ret.help
        \/ mode = "timelineDetail" /\ mode' = "timeline"
    BY <2>1, InvModes DEF BackTo, Bare, Modes
  <2>4. mode' \in Modes /\ mode' \notin {"help", "confirm"} /\ HasSubject(mode')
    BY <2>3, InvModes, BareScreens DEF HasSubject, Modes
  <2>5. ModesOK'
    BY <1>1, <2>1, <2>2, <2>4 DEF ModesOK
  <2>6. CASE mode # "runEdit"
    BY <2>1, <2>4, <2>5, <2>6, PlainKey
  <2>7. CASE mode = "runEdit"
    <3>1. hist' = [hist EXCEPT !.edit = 0] /\ mode' = "changes" /\ hist \in Histories
      BY <2>1, <2>7 DEF BackTo, ScreensInv, TypeOK
    <3>2. /\ hist' \in Histories /\ hist'.capturing = hist.capturing /\ hist'.runs = hist.runs
          /\ hist'.base = hist.base /\ hist'.target = hist.target
      BY <3>1 DEF Histories
    <3>3. RequestsOK' /\ Leaves(asks) /\ FormWaits' /\ FilesWait' /\ TimelineCounts'
      BY <2>1, KeyOnly
    <3>4. HistoryWaits'
      BY <3>2, <3>3, EndsStay DEF ScreensInv
    <3>5. ScreenHasSubject'
      BY <3>1 DEF ScreenHasSubject, HasSubject
    <3>6. TypeOK'
      BY <2>1, <2>5, <3>2, <3>3 DEF ScreensInv, TypeOK, RequestsOK
    <3> QED BY <3>3, <3>4, <3>5, <3>6 DEF ScreensInv, RequestsOK
  <2> QED BY <2>6, <2>7
<1> QED BY <1>2, <1>3

(* The keys that only ask.                                                 *)
LEMMA AskingKeys ==
  ASSUME ScreensInv, ConfirmKey \/ Diagnose \/ SaveRunEdit
  PROVE  ScreensInv'
<1>1. ModesOK
  BY InvModes
<1>2. \E a \in Asks : a.kind \notin TimelineKinds \cup {"tick"} /\ Asking({a})
  <2>1. CASE ConfirmKey
    <3>1. PICK c \in {1, 2} : Asking({[kind |-> "remove", name |-> row, copy |-> c]})
      BY <2>1 DEF ConfirmKey
    <3>2. row \in Ends
      BY <1>1, <2>1 DEF ConfirmKey, ModesOK
    <3>3. [kind |-> "remove", name |-> row, copy |-> c] \in Asks
      BY <3>2, AskMade
    <3> QED BY <3>1, <3>3 DEF TimelineKinds
  <2>2. CASE Diagnose
    BY <2>2, AskMade DEF Diagnose, TimelineKinds
  <2>3. CASE SaveRunEdit
    BY <2>3, AskMade DEF SaveRunEdit, TimelineKinds
  <2> QED BY <2>1, <2>2, <2>3
<1>3. /\ UNCHANGED <<ret, row, typing, text, form, ds, tl, hist, names>>
      /\ mode' = "doctor" \/ (mode' = mode /\ mode \in {"confirm", "runEdit"})
  BY DEF ConfirmKey, Diagnose, SaveRunEdit, At, Go, over
<1>4. ModesOK'
  BY <1>1, <1>3 DEF ModesOK, Modes
<1>5. ScreenHasSubject'
  BY <1>3, InvModes DEF ScreenHasSubject, HasSubject
<1>6. RequestsOK' /\ FormWaits' /\ FilesWait' /\ TimelineCounts' /\ HistoryWaits'
  BY <1>2, <1>3, OneAsked
<1>7. TypeOK'
  BY <1>3, <1>4, <1>6 DEF ScreensInv, TypeOK, RequestsOK
<1> QED BY <1>5, <1>6, <1>7 DEF ScreensInv, RequestsOK

-----------------------------------------------------------------------------
(* The form.                                                               *)

LEMMA NewFormFacts ==
  ASSUME NEW e \in Ends
  PROVE  /\ NewForm(e) \in Forms /\ NewForm(e) # None
         /\ ~NewForm(e).testing /\ ~NewForm(e).discovering /\ ~NewForm(e).saving
<1>1. NewForm(e) \in Forms /\ ~NewForm(e).testing /\ ~NewForm(e).discovering /\ ~NewForm(e).saving
  BY DEF NewForm, Forms
<1> QED BY <1>1, NoneAssumption

LEMMA FormUpdates ==
  ASSUME NEW f \in Forms
  PROVE  /\ f # None
         /\ \A e \in Ends : [f EXCEPT !.end = e] \in Forms /\ [f EXCEPT !.end = e].testing = f.testing
              /\ [f EXCEPT !.end = e].discovering = f.discovering /\ [f EXCEPT !.end = e].saving = f.saving
         /\ \A b \in BOOLEAN : [f EXCEPT !.testing = b] \in Forms /\ [f EXCEPT !.testing = b].testing = b
              /\ [f EXCEPT !.testing = b].discovering = f.discovering /\ [f EXCEPT !.testing = b].saving = f.saving
         /\ \A b \in BOOLEAN, t \in Ends \cup {None} :
              /\ [f EXCEPT !.discovering = b, !.thumb = t] \in Forms
              /\ [f EXCEPT !.discovering = b, !.thumb = t].testing = f.testing
              /\ [f EXCEPT !.discovering = b, !.thumb = t].discovering = b
              /\ [f EXCEPT !.discovering = b, !.thumb = t].saving = f.saving
         /\ \A b \in BOOLEAN : [f EXCEPT !.discovering = b] \in Forms /\ [f EXCEPT !.discovering = b].testing = f.testing
              /\ [f EXCEPT !.discovering = b].discovering = b /\ [f EXCEPT !.discovering = b].saving = f.saving
         /\ \A b \in BOOLEAN : [f EXCEPT !.saving = b] \in Forms /\ [f EXCEPT !.saving = b].testing = f.testing
              /\ [f EXCEPT !.saving = b].discovering = f.discovering /\ [f EXCEPT !.saving = b].saving = b
<1>1. f # None
  BY NoneAssumption
<1>2. \A e \in Ends : [f EXCEPT !.end = e] \in Forms /\ [f EXCEPT !.end = e].testing = f.testing
        /\ [f EXCEPT !.end = e].discovering = f.discovering /\ [f EXCEPT !.end = e].saving = f.saving
  BY DEF Forms
<1>3. \A b \in BOOLEAN : [f EXCEPT !.testing = b] \in Forms /\ [f EXCEPT !.testing = b].testing = b
        /\ [f EXCEPT !.testing = b].discovering = f.discovering /\ [f EXCEPT !.testing = b].saving = f.saving
  BY DEF Forms
<1>4. \A b \in BOOLEAN, t \in Ends \cup {None} :
        /\ [f EXCEPT !.discovering = b, !.thumb = t] \in Forms
        /\ [f EXCEPT !.discovering = b, !.thumb = t].testing = f.testing
        /\ [f EXCEPT !.discovering = b, !.thumb = t].discovering = b
        /\ [f EXCEPT !.discovering = b, !.thumb = t].saving = f.saving
  BY DEF Forms
<1>5. \A b \in BOOLEAN : [f EXCEPT !.discovering = b] \in Forms /\ [f EXCEPT !.discovering = b].testing = f.testing
        /\ [f EXCEPT !.discovering = b].discovering = b /\ [f EXCEPT !.discovering = b].saving = f.saving
  BY DEF Forms
<1>6. \A b \in BOOLEAN : [f EXCEPT !.saving = b] \in Forms /\ [f EXCEPT !.saving = b].testing = f.testing
        /\ [f EXCEPT !.saving = b].discovering = f.discovering /\ [f EXCEPT !.saving = b].saving = b
  BY DEF Forms
<1> QED BY <1>1, <1>2, <1>3, <1>4, <1>5, <1>6

LEMMA FormKeyHolds ==
  ASSUME ScreensInv, FormKey
  PROVE  ScreensInv'
<1>1. /\ UNCHANGED <<mode, ret, row, typing, text, ds, tl, hist, names>>
      /\ mode = "form" /\ form # None /\ form \in Forms
  BY DEF FormKey, over, ScreensInv, TypeOK
<1>2. /\ form' \in Forms /\ RequestsOK' /\ FormWaits' /\ FilesWait' /\ TimelineCounts' /\ HistoryWaits'
  <2>1. CASE \E e \in Ends : form' = [form EXCEPT !.end = e] /\ Asking({})
    <3>1. PICK e \in Ends : form' = [form EXCEPT !.end = e] /\ Asking({})
      BY <2>1
    <3>2. RequestsOK' /\ Leaves(asks) /\ FilesWait' /\ TimelineCounts' /\ HistoryWaits'
      BY <1>1, <3>1, NothingAsked
    <3>3. /\ form' \in Forms /\ form'.testing = form.testing /\ form'.discovering = form.discovering
          /\ form'.saving = form.saving
      BY <1>1, <3>1 DEF Forms
    <3>4. FormWaits'
      BY <1>1, <3>2, <3>3 DEF ScreensInv, FormWaits, InFlight, Leaves
    <3> QED BY <3>2, <3>3, <3>4
  <2>2. CASE \E k \in FormKinds : /\ Asking({[kind |-> k, end |-> form.end]})
                                  /\ form' = CASE k = "test"     -> [form EXCEPT !.testing = TRUE]
                                               [] k = "discover" -> [form EXCEPT !.discovering = TRUE]
                                               [] OTHER          -> [form EXCEPT !.saving = TRUE]
    <3>1. PICK k \in FormKinds : /\ Asking({[kind |-> k, end |-> form.end]})
                                 /\ form' = CASE k = "test"     -> [form EXCEPT !.testing = TRUE]
                                              [] k = "discover" -> [form EXCEPT !.discovering = TRUE]
                                              [] OTHER          -> [form EXCEPT !.saving = TRUE]
      BY <2>2
    <3> DEFINE a == [kind |-> k, end |-> form.end]
    <3>2. a \in Asks /\ a.kind = k /\ a.kind \notin TimelineKinds \cup {"tick"}
      <4>1. form.end \in Ends
        BY <1>1 DEF Forms
      <4> QED BY <4>1, AskMade DEF FormKinds, TimelineKinds
    <3>3. RequestsOK' /\ Leaves(asks \cup {a}) /\ a \in asks' /\ FilesWait' /\ TimelineCounts' /\ HistoryWaits'
      BY <1>1, <3>1, <3>2, OneAsked
    <3>4. /\ form' \in Forms
          /\ form'.testing => form.testing \/ k = "test"
          /\ form'.discovering => form.discovering \/ k = "discover"
          /\ form'.saving => form.saving \/ k = "save"
      BY <1>1, <3>1, FormUpdates DEF FormKinds
    <3>5. /\ InFlight(k)' # {}
          /\ \A j \in FormKinds : InFlight(j) # {} => InFlight(j)' # {}
      BY <3>2, <3>3 DEF InFlight, Leaves, FormKinds
    <3>6. FormWaits'
      BY <1>1, <3>4, <3>5 DEF ScreensInv, FormWaits, FormKinds
    <3> QED BY <3>3, <3>4, <3>6
  <2> QED BY <2>1, <2>2 DEF FormKey, FormKinds
<1>3. ModesOK'
  BY <1>1 DEF ScreensInv, TypeOK, ModesOK
<1>4. ScreenHasSubject'
  BY <1>1, <1>2, FormUpdates DEF ScreenHasSubject, HasSubject
<1>5. TypeOK'
  BY <1>1, <1>2, <1>3 DEF ScreensInv, TypeOK, RequestsOK
<1> QED BY <1>2, <1>4, <1>5 DEF ScreensInv, RequestsOK

LEMMA EnterFormHolds ==
  ASSUME ScreensInv, EnterForm
  PROVE  ScreensInv'
<1>1. /\ UNCHANGED <<typing, text, ds, tl, hist, names>> /\ Asking({}) /\ mode' = "form"
      /\ \E e \in Ends : form' = NewForm(e)
  BY DEF EnterForm, Go
<1>2. ret' \in Returns
  <2>1. \E m \in {"browse", "contexts", "detail", "vappVM", "switchPG"} : ret' = [ret EXCEPT !.over = m]
    BY DEF EnterForm, RunsAction
  <2> QED BY <2>1, InvModes, RetUpdates
<1>3. ModesOK'
  BY <1>1, <1>2, InvModes DEF ModesOK, Modes
<1>4. form' \in Forms /\ form' # None /\ FormWaits'
  BY <1>1, NewFormFacts DEF FormWaits
<1>5. RequestsOK' /\ FilesWait' /\ TimelineCounts' /\ HistoryWaits'
  BY <1>1, NothingAsked
<1>6. ScreenHasSubject'
  BY <1>1, <1>4 DEF ScreenHasSubject, HasSubject
<1>7. TypeOK'
  BY <1>1, <1>3, <1>4, <1>5 DEF ScreensInv, TypeOK, RequestsOK
<1> QED BY <1>4, <1>5, <1>6, <1>7 DEF ScreensInv, RequestsOK

LEMMA EscFormHolds ==
  ASSUME ScreensInv, EscForm
  PROVE  ScreensInv'
<1>1. /\ UNCHANGED <<row, typing, text, ds, tl, hist, names>> /\ Asking({})
      /\ \/ mode = "form" /\ form' = NewForm(CHOOSE e \in Ends : TRUE) /\ UNCHANGED <<mode, ret>>
         \/ leaveOverlay /\ form' \in {form, None}
  BY DEF EscForm, over
<1>2. RequestsOK' /\ Leaves(asks) /\ FilesWait' /\ TimelineCounts' /\ HistoryWaits' /\ (form' = form => FormWaits')
  BY <1>1, NothingAsked
<1>3. ret' \in Returns /\ (mode' \in Bare \/ (mode' = "form" /\ ret' = ret /\ form' \in Forms /\ form' # None /\ FormWaits'))
  <2>1. CASE leaveOverlay
    BY <2>1, InvModes, RetUpdates DEF leaveOverlay, Bare
  <2>2. CASE ~leaveOverlay
    <3>1. (CHOOSE e \in Ends : TRUE) \in Ends
      BY NoneAssumption
    <3> QED BY <1>1, <2>2, <3>1, InvModes, NewFormFacts DEF FormWaits
  <2> QED BY <2>1, <2>2
<1>4. ModesOK'
  BY <1>1, <1>3, InvModes, BareScreens DEF ModesOK, Modes
<1>5. form' \in Forms \cup {None} /\ FormWaits'
  BY <1>1, <1>2, <1>3, InvModes, BareScreens DEF ScreensInv, TypeOK, FormWaits, HasSubject, leaveOverlay, Bare
<1>6. ScreenHasSubject'
  BY <1>1, <1>3, BareScreens DEF ScreenHasSubject, HasSubject
<1>7. TypeOK'
  BY <1>1, <1>2, <1>4, <1>5 DEF ScreensInv, TypeOK, RequestsOK
<1> QED BY <1>2, <1>5, <1>6, <1>7 DEF ScreensInv, RequestsOK

LEMMA AnswerOnly ==
  ASSUME ScreensInv, NEW a \in asks, asks' = asks \ {a}
  PROVE  /\ AsksOK'
         /\ form' = form /\ a.kind \notin FormKinds => FormWaits'
         /\ ds' = ds /\ a.kind \notin FilesKinds => FilesWait'
         /\ tl' = tl /\ a.kind \notin TimelineKinds => TimelineCounts'
         /\ hist' = hist /\ a.kind # "capture" => HistoryWaits'
         /\ perf' = perf /\ a.kind \notin {"tick", "perf"} => ChartsWait'
         /\ net' = net /\ a.kind # "topology" => NetWaits'
<1>1. {} \in SUBSET Asks /\ IsFiniteSet({}) /\ (\A x \in {} : x.kind \notin TimelineKinds) /\ asks' = (asks \ {a}) \cup {}
  BY FS_EmptySet
<1> QED BY <1>1, AnswerKeeps

(* The answers to a form, that of a removal included.                      *)
FormAnswer(a) == \/ a.kind = "test" /\ formTestMsg(a)
                 \/ a.kind = "discover" /\ formDiscoverMsg(a)
                 \/ a.kind = "save" /\ applyFormSave(a)
                 \/ a.kind = "remove" /\ applyFormDelete(a)

LEMMA FormAnswers ==
  ASSUME ScreensInv, NEW a \in asks, FormAnswer(a)
  PROVE  ScreensInv'
<1>1. /\ UNCHANGED <<row, typing, text, ds, tl, perf, net, hist>> /\ asks' = asks \ {a}
      /\ a.kind \in {"test", "discover", "save", "remove"} /\ a \in Asks
  BY DEF FormAnswer, formTestMsg, formDiscoverMsg, applyFormSave, applyFormDelete, over, ScreensInv, TypeOK, AsksOK
<1>2. AsksOK' /\ FilesWait' /\ TimelineCounts' /\ HistoryWaits' /\ ChartsWait' /\ NetWaits'
  BY <1>1, AnswerOnly DEF FilesKinds, TimelineKinds
<1>3. \A k \in FormKinds \ {a.kind} : InFlight(k) # {} => InFlight(k)' # {}
  BY <1>1 DEF InFlight
<1>4. /\ form' \in Forms \cup {None} /\ FormWaits'
      /\ names' \in SUBSET Ends
      /\ \/ UNCHANGED <<mode, ret>> /\ (form # None => form' # None)
         \/ mode' = "form" /\ ret' = ret /\ form' # None
         \/ leaveOverlay
  <2>1. CASE a.kind = "test" /\ formTestMsg(a)
    <3>1. UNCHANGED <<mode, ret, names>> /\ form' = IF form = None THEN form ELSE [form EXCEPT !.testing = FALSE]
      BY <2>1 DEF formTestMsg
    <3>2. form # None => form \in Forms /\ form' = [form EXCEPT !.testing = FALSE]
      BY <3>1 DEF ScreensInv, TypeOK
    <3>3. form # None => /\ form' \in Forms /\ ~form'.testing /\ form'.discovering = form.discovering
                         /\ form'.saving = form.saving
      BY <3>2 DEF Forms
    <3>4. FormWaits'
      BY <1>3, <2>1, <3>1, <3>3 DEF ScreensInv, FormWaits, FormKinds
    <3> QED BY <3>1, <3>3, <3>4, FormUpdates, InvModes DEF ModesOK
  <2>2. CASE a.kind = "discover" /\ formDiscoverMsg(a)
    <3>1. /\ UNCHANGED <<mode, ret, names>> /\ (form = None => form' = None)
          /\ form # None => \E t \in {form.thumb, a.end} : form' = [form EXCEPT !.discovering = FALSE, !.thumb = t]
      BY <2>2 DEF formDiscoverMsg
    <3>2. a.end \in Ends /\ (form # None => form \in Forms)
      BY <1>1, <2>2, AskFields DEF ScreensInv, TypeOK
    <3>3. form # None => /\ form' \in Forms /\ ~form'.discovering /\ form'.testing = form.testing
                         /\ form'.saving = form.saving
      BY <3>1, <3>2 DEF Forms
    <3>4. FormWaits'
      BY <1>3, <2>2, <3>1, <3>3 DEF ScreensInv, FormWaits, FormKinds
    <3> QED BY <3>1, <3>3, <3>4, FormUpdates, InvModes DEF ModesOK
  <2>3. CASE a.kind = "save" /\ applyFormSave(a)
    <3>1. CASE UNCHANGED <<form, names, mode, ret>> /\ form = None
      BY <3>1, InvModes DEF ModesOK, FormWaits
    <3>2. CASE form # None /\ form' = [form EXCEPT !.saving = FALSE] /\ UNCHANGED <<names, mode, ret>>
      <4>1. form \in Forms
        BY <3>2 DEF ScreensInv, TypeOK
      <4>2. /\ form' \in Forms /\ ~form'.saving /\ form'.testing = form.testing
            /\ form'.discovering = form.discovering
        BY <3>2, <4>1 DEF Forms
      <4>3. FormWaits'
        BY <1>3, <2>3, <3>2, <4>2 DEF ScreensInv, FormWaits, FormKinds
      <4> QED BY <3>2, <4>2, <4>3, FormUpdates, InvModes DEF ModesOK
    <3>3. CASE form # None /\ form' = None /\ names' = names \cup {a.end} /\ leaveOverlay
      <4>1. a.end \in Ends
        BY <1>1, <2>3, AskFields
      <4> QED BY <3>3, <4>1, InvModes DEF ModesOK, FormWaits
    <3> QED BY <2>3, <3>1, <3>2, <3>3 DEF applyFormSave
  <2>4. CASE a.kind = "remove" /\ applyFormDelete(a)
    <3>1. names' \in SUBSET Ends
      BY <2>4, InvModes DEF applyFormDelete, ModesOK
    <3>2. CASE mode' = "form" /\ ret' = ret /\ form' = NewForm(CHOOSE e \in Ends : TRUE)
      <4>1. (CHOOSE e \in Ends : TRUE) \in Ends
        BY NoneAssumption
      <4> QED BY <3>1, <3>2, <4>1, NewFormFacts DEF FormWaits
    <3>3. CASE leaveOverlay /\ form' = form
      BY <1>1, <2>4, <3>1, <3>3, AnswerOnly DEF ScreensInv, TypeOK, FormKinds
    <3> QED BY <2>4, <3>2, <3>3 DEF applyFormDelete
  <2> QED BY <2>1, <2>2, <2>3, <2>4 DEF FormAnswer
<1>5. CASE leaveOverlay
  <2>1. mode' \in Bare /\ ret' \in Returns
    BY <1>5, InvModes, RetUpdates DEF leaveOverlay, Bare
  <2>2. ModesOK' /\ ScreenHasSubject'
    BY <1>1, <1>4, <2>1, InvModes, BareScreens DEF ModesOK, ScreenHasSubject
  <2>3. TypeOK'
    BY <1>1, <1>2, <1>4, <2>2 DEF ScreensInv, TypeOK
  <2> QED BY <1>2, <1>4, <2>2, <2>3 DEF ScreensInv
<1>6. CASE mode' = "form" /\ ret' = ret /\ form' # None
  <2>1. ModesOK' /\ ScreenHasSubject'
    BY <1>1, <1>4, <1>6, InvModes DEF ModesOK, Modes, ScreenHasSubject, HasSubject
  <2>2. TypeOK'
    BY <1>1, <1>2, <1>4, <2>1 DEF ScreensInv, TypeOK
  <2> QED BY <1>2, <1>4, <2>1, <2>2 DEF ScreensInv
<1>7. CASE UNCHANGED <<mode, ret>> /\ (form # None => form' # None)
  <2>1. ModesOK' /\ ScreenHasSubject'
    BY <1>1, <1>4, <1>7, InvModes, SubjectsStay DEF ModesOK, ScreensInv
  <2>2. TypeOK'
    BY <1>1, <1>2, <1>4, <2>1 DEF ScreensInv, TypeOK
  <2> QED BY <1>2, <1>4, <2>1, <2>2 DEF ScreensInv
<1> QED BY <1>4, <1>5, <1>6, <1>7

-----------------------------------------------------------------------------
(* The datastore workspace.                                                *)

(* What a step may make of a workspace, apart from its requests.           *)
LEMMA WorkspaceUpdates ==
  ASSUME NEW w \in Workspaces
  PROVE  /\ w # None
         /\ \A g \in Nat : [w EXCEPT !.gen = g, !.loading = FALSE, !.finding = FALSE] \in Workspaces
         /\ \A p \in Paths : [w EXCEPT !.path = p, !.shown = None, !.loading = TRUE] \in Workspaces
         /\ [w EXCEPT !.query = TRUE, !.found = None, !.finding = TRUE, !.prompt = FALSE] \in Workspaces
         /\ \A b \in BOOLEAN : [w EXCEPT !.prompt = b] \in Workspaces
         /\ \A d \in Details \cup {None} : [w EXCEPT !.detail = d] \in Workspaces
<1>1. w # None
  BY NoneAssumption
<1>2. \A g \in Nat : [w EXCEPT !.gen = g, !.loading = FALSE, !.finding = FALSE] \in Workspaces
  BY DEF Workspaces
<1>3. \A p \in Paths : [w EXCEPT !.path = p, !.shown = None, !.loading = TRUE] \in Workspaces
  BY DEF Workspaces, Paths
<1>4. [w EXCEPT !.query = TRUE, !.found = None, !.finding = TRUE, !.prompt = FALSE] \in Workspaces
  BY DEF Workspaces
<1>5. \A b \in BOOLEAN : [w EXCEPT !.prompt = b] \in Workspaces
  BY DEF Workspaces
<1>6. \A d \in Details \cup {None} : [w EXCEPT !.detail = d] \in Workspaces
  BY DEF Workspaces
<1> QED BY <1>1, <1>2, <1>3, <1>4, <1>5, <1>6

LEMMA Abandoned ==
  ASSUME NEW w \in Workspaces
  PROVE  /\ abandon(w) \in Workspaces /\ abandon(w).gen \in Nat
         /\ ~abandon(w).loading /\ ~abandon(w).finding
         /\ abandon(w).detail = w.detail /\ abandon(w).store \in Stores
<1>1. w.gen \in Nat
  BY DEF Workspaces
<1>2. w.gen + 1 \in Nat
  BY <1>1
<1>3. abandon(w) = [w EXCEPT !.gen = w.gen + 1, !.loading = FALSE, !.finding = FALSE]
  BY DEF abandon
<1>4. abandon(w) \in Workspaces
  BY <1>2, <1>3, WorkspaceUpdates
<1>5. ~abandon(w).loading /\ ~abandon(w).finding /\ abandon(w).detail = w.detail
  BY <1>3 DEF Workspaces
<1>6. abandon(w).gen \in Nat /\ abandon(w).store \in Stores
  BY <1>4 DEF Workspaces
<1> QED BY <1>4, <1>5, <1>6

LEMMA NewWorkspaceFacts ==
  ASSUME NEW s \in Stores, text \in BOOLEAN
  PROVE  /\ NewWorkspace(s) \in Workspaces
         /\ ~NewWorkspace(s).loading /\ ~NewWorkspace(s).finding /\ NewWorkspace(s).detail = None
<1>1. NewWorkspace(s) \in Workspaces
  BY DEF NewWorkspace, Workspaces
<1>2. ~NewWorkspace(s).loading /\ ~NewWorkspace(s).finding /\ NewWorkspace(s).detail = None
  BY DEF NewWorkspace
<1> QED BY <1>1, <1>2

LEMMA ListDirEffect ==
  ASSUME ScreensInv, NEW w \in Workspaces, WorkspaceWaits(asks, w) \/ w.detail = None, NEW p \in Paths, ListDir(w, p)
  PROVE  /\ ds' \in Workspaces /\ ds'.detail = w.detail /\ RequestsOK' /\ FilesWait'
         /\ form' = form => FormWaits'
         /\ tl' = tl     => TimelineCounts'
         /\ hist' = hist => HistoryWaits'
<1> DEFINE v == [abandon(w) EXCEPT !.path = p, !.shown = None, !.loading = TRUE]
           a == [kind |-> "listing", store |-> v.store, path |-> p, gen |-> v.gen]
<1>1. ds' = v /\ Asking({a})
  BY DEF ListDir
<1>2. v \in Workspaces
  BY Abandoned, WorkspaceUpdates
<1>3. v.loading /\ ~v.finding /\ v.detail = w.detail /\ v.path = p
  BY Abandoned DEF Workspaces
<1>4. v.store \in Stores /\ v.gen \in Nat
  BY <1>2 DEF Workspaces
<1>5. a \in Asks
  BY <1>4, AskMade
<1>6. a.kind = "listing" /\ a.path = p /\ a.gen = v.gen
  OBVIOUS
<1> HIDE DEF a, v
<1>7. /\ RequestsOK' /\ Leaves(asks \cup {a}) /\ a \in asks'
      /\ form' = form => FormWaits'
      /\ tl' = tl     => TimelineCounts'
      /\ hist' = hist => HistoryWaits'
  BY <1>1, <1>5, <1>6, OneAsked DEF TimelineKinds
<1>8. WorkspaceWaits(asks', v)
  <2>1. asks \in SUBSET Asks /\ IsFiniteSet(asks) /\ asks' \in SUBSET Asks /\ IsFiniteSet(asks')
        /\ \A x \in asks : x.kind \in FilesKinds => x \in asks'
    BY <1>7 DEF ScreensInv, TypeOK, AsksOK, RequestsOK, Leaves, FilesKinds
  <2>2. v.detail # None => v.detail.pending <= Cardinality(Answers(asks', v.detail.gen))
    BY <1>3, <2>1, WorkspaceStays DEF WorkspaceWaits
  <2> QED BY <1>3, <1>6, <1>7, <2>2 DEF WorkspaceWaits
<1> QED BY <1>1, <1>2, <1>3, <1>7, <1>8 DEF FilesWait

(* A workspace that asks for nothing.                                      *)
LEMMA WorkspaceOnly ==
  ASSUME ScreensInv, Asking({}), NEW w, ds' = w, w # None => w \in Workspaces /\ WorkspaceWaits(asks, w)
  PROVE  /\ RequestsOK' /\ FilesWait'
         /\ form' = form => FormWaits'
         /\ tl' = tl     => TimelineCounts'
         /\ hist' = hist => HistoryWaits'
<1>1. /\ RequestsOK' /\ Leaves(asks)
      /\ form' = form => FormWaits'
      /\ tl' = tl     => TimelineCounts'
      /\ hist' = hist => HistoryWaits'
  BY NothingAsked
<1>2. asks \in SUBSET Asks /\ IsFiniteSet(asks) /\ asks' \in SUBSET Asks /\ IsFiniteSet(asks')
      /\ \A x \in asks : x.kind \in FilesKinds => x \in asks'
  BY <1>1 DEF ScreensInv, TypeOK, AsksOK, RequestsOK, Leaves, FilesKinds
<1>3. FilesWait'
  BY <1>2, WorkspaceStays DEF FilesWait
<1> QED BY <1>1, <1>3

(* What is left to show of a step on the files.                            *)
LEMMA FilesStep ==
  ASSUME ScreensInv, UNCHANGED <<form, tl, hist>>, ModesOK', RequestsOK', FilesWait',
         form' = form => FormWaits', tl' = tl => TimelineCounts', hist' = hist => HistoryWaits',
         ds' \in Workspaces \cup {None}, HasSubject(mode)', mode' # "help"
  PROVE  ScreensInv'
<1>1. TypeOK'
  BY DEF ScreensInv, TypeOK, RequestsOK
<1>2. ScreenHasSubject'
  BY DEF ScreenHasSubject
<1> QED BY <1>1, <1>2 DEF ScreensInv, RequestsOK

LEMMA InvFiles ==
  ASSUME ScreensInv
  PROVE  /\ ds # None => ds \in Workspaces /\ WorkspaceWaits(asks, ds)
         /\ mode \in {"dsFiles", "dsFind", "dsEntry"} => ds # None
         /\ mode = "dsEntry" => ds.detail # None
  BY DEF ScreensInv, TypeOK, FilesWait, ScreenHasSubject, HasSubject

LEMMA OpenFilesHolds ==
  ASSUME ScreensInv, OpenFiles
  PROVE  ScreensInv'
<1>1. /\ UNCHANGED <<ret, row, form, tl, hist, names>> /\ actions \in Stores /\ typing' \in BOOLEAN /\ text' \in BOOLEAN
      /\ mode' \in {"dsFiles", "dsFind"}
  BY DEF OpenFiles, Go
<1>2. ModesOK'
  BY <1>1, InvModes DEF ModesOK, Modes
<1> DEFINE w == NewWorkspace(actions)
<1>3. w \in Workspaces /\ ~w.loading /\ ~w.finding /\ w.detail = None
  BY <1>1, InvModes, NewWorkspaceFacts DEF ModesOK
<1>4. /\ ds' \in Workspaces /\ RequestsOK' /\ FilesWait' /\ (form' = form => FormWaits')
      /\ (tl' = tl => TimelineCounts') /\ (hist' = hist => HistoryWaits')
  <2>1. CASE ListDir(w, "")
    <3> HIDE DEF w
    <3> QED BY <1>3, <2>1, ListDirEffect DEF Paths
  <2>2. CASE ds' = [w EXCEPT !.prompt = TRUE] /\ Asking({})
    <3> DEFINE v == [w EXCEPT !.prompt = TRUE]
    <3> HIDE DEF w
    <3>1. v \in Workspaces
      BY <1>3, WorkspaceUpdates
    <3>2. ~v.loading /\ ~v.finding /\ v.detail = None
      BY <1>3 DEF Workspaces
    <3> HIDE DEF v
    <3>3. WorkspaceWaits(asks, v)
      BY <3>2 DEF WorkspaceWaits
    <3>4. ds' = v
      BY <2>2 DEF v
    <3> QED BY <2>2, <3>1, <3>3, <3>4, WorkspaceOnly
  <2> QED BY <2>1, <2>2 DEF OpenFiles
<1>5. HasSubject(mode)' /\ mode' # "help"
  BY <1>1, <1>4, WorkspaceUpdates DEF HasSubject
<1> QED BY <1>1, <1>2, <1>4, <1>5, FilesStep

(* A file is opened: its page waits for as many answers as are asked for.  *)
LEMMA OpenEntry ==
  ASSUME ScreensInv, ds # None,
         NEW S \in SUBSET {"refs", "assessment"},
         Asking({[kind |-> k, store |-> abandon(ds).store, gen |-> abandon(ds).gen] : k \in S}),
         ds' = [abandon(ds) EXCEPT !.detail =
                  [gen |-> abandon(ds).gen,
                   pending |-> Cardinality({[kind |-> k, store |-> abandon(ds).store, gen |-> abandon(ds).gen] : k \in S})]]
  PROVE  /\ ds' \in Workspaces /\ ds'.detail # None /\ RequestsOK' /\ FilesWait'
         /\ (form' = form => FormWaits') /\ (tl' = tl => TimelineCounts') /\ (hist' = hist => HistoryWaits')
<1> DEFINE w == abandon(ds)
           r(k) == [kind |-> k, store |-> w.store, gen |-> w.gen]
           n == {r(k) : k \in S}
           d == [gen |-> w.gen, pending |-> Cardinality(n)]
           v == [w EXCEPT !.detail = d]
<1>1. w \in Workspaces /\ w.gen \in Nat /\ ~w.loading /\ ~w.finding /\ w.store \in Stores
  BY InvFiles, Abandoned
<1>2. r("refs") \in Asks /\ r("assessment") \in Asks
  BY <1>1, AskMade
<1>3. n \subseteq {r("refs"), r("assessment")} /\ \A a \in n : a.kind \in {"refs", "assessment"} /\ a.gen = w.gen
  OBVIOUS
<1>4. Asking(n) /\ ds' = v
  OBVIOUS
<1> HIDE DEF w, r
<1>5. n \in SUBSET Asks /\ IsFiniteSet(n) /\ Cardinality(n) \in Nat
  <2>1. IsFiniteSet({r("refs")})
    BY FS_Singleton
  <2>2. IsFiniteSet({r("refs")} \cup {r("assessment")})
    BY <2>1, FS_AddElement
  <2>3. n \subseteq {r("refs")} \cup {r("assessment")}
    BY <1>3
  <2> HIDE DEF n
  <2> QED BY <1>2, <2>2, <2>3, FS_Subset, FS_CardinalityType
<1> HIDE DEF n
<1>6. /\ RequestsOK' /\ Leaves(asks \cup n)
      /\ (form' = form => FormWaits') /\ (tl' = tl => TimelineCounts') /\ (hist' = hist => HistoryWaits')
  BY <1>3, <1>4, <1>5, AskingKeeps DEF TimelineKinds
<1>7. d \in Details /\ d.gen = w.gen /\ d.pending = Cardinality(n)
  BY <1>1, <1>5 DEF Details
<1>8. d # None
  BY <1>7, NoneAssumption
<1> HIDE DEF d
<1>9. v \in Workspaces /\ v.detail = d /\ ~v.loading /\ ~v.finding
  <2>1. v \in Workspaces
    BY <1>1, <1>7, WorkspaceUpdates
  <2>2. v.detail = d /\ ~v.loading /\ ~v.finding
    BY <1>1 DEF Workspaces
  <2> QED BY <2>1, <2>2
<1>10. Cardinality(n) <= Cardinality(Answers(asks', w.gen))
  <2>1. n \subseteq Answers(asks', w.gen) /\ Answers(asks', w.gen) \subseteq asks'
    BY <1>3, <1>6 DEF Answers, Leaves
  <2>2. IsFiniteSet(Answers(asks', w.gen))
    BY <1>6, <2>1, FS_Subset DEF RequestsOK, AsksOK
  <2> QED BY <2>1, <2>2, FS_Subset
<1> HIDE DEF v
<1>11. WorkspaceWaits(asks', v)
  BY <1>7, <1>9, <1>10 DEF WorkspaceWaits
<1>12. FilesWait'
  BY <1>4, <1>11 DEF FilesWait
<1> QED BY <1>4, <1>6, <1>8, <1>9, <1>12

(* Whether a search is shown does not change what is waited for.           *)
LEMMA PromptWaits ==
  ASSUME NEW w \in Workspaces, NEW s, WorkspaceWaits(s, w), NEW b \in BOOLEAN
  PROVE  WorkspaceWaits(s, [w EXCEPT !.prompt = b])
<1> DEFINE v == [w EXCEPT !.prompt = b]
<1>1. /\ v.loading = w.loading /\ v.finding = w.finding /\ v.query = w.query
      /\ v.detail = w.detail /\ v.gen = w.gen /\ v.path = w.path
  BY DEF Workspaces
<1> HIDE DEF v
<1>2. WorkspaceWaits(s, v)
  BY <1>1 DEF WorkspaceWaits
<1> QED BY <1>2 DEF v

LEMMA FilesKeyHolds ==
  ASSUME ScreensInv, FilesKey
  PROVE  ScreensInv'
<1>1. /\ UNCHANGED <<ret, row, typing, form, tl, hist, names>> /\ mode = "dsFiles" /\ text' \in BOOLEAN
      /\ mode' \in {"dsFiles", "dsEntry", "dsFind"}
  BY InvModes DEF FilesKey, Go, At, ModesOK
<1>2. ModesOK'
  BY <1>1, InvModes DEF ModesOK, Modes
<1>3. ds # None /\ ds \in Workspaces /\ WorkspaceWaits(asks, ds)
  BY <1>1, InvFiles
<1>4. /\ ds' \in Workspaces /\ RequestsOK' /\ FilesWait' /\ (form' = form => FormWaits')
      /\ (tl' = tl => TimelineCounts') /\ (hist' = hist => HistoryWaits')
      /\ mode' = "dsEntry" => ds'.detail # None
  <2>1. CASE mode' = mode /\ ListDir(ds, "sub")
    BY <1>1, <1>3, <2>1, ListDirEffect DEF Paths
  <2>2. CASE /\ Go("dsEntry")
             /\ LET w == abandon(ds)
                    n == {[kind |-> k, store |-> w.store, gen |-> w.gen] : k \in {"refs", "assessment"} \ ds.cached} IN
                /\ Asking(n)
                /\ ds' = [w EXCEPT !.detail = [gen |-> w.gen, pending |-> Cardinality(n)]]
    <3>1. {"refs", "assessment"} \ ds.cached \in SUBSET {"refs", "assessment"}
      OBVIOUS
    <3> QED BY <1>3, <2>2, <3>1, OpenEntry, Zenon
  <2>3. CASE Go("dsFind") /\ ds' = [ds EXCEPT !.prompt = TRUE] /\ Asking({})
    <3> DEFINE v == [ds EXCEPT !.prompt = TRUE]
    <3>1. v \in Workspaces /\ WorkspaceWaits(asks, v)
      BY <1>3, PromptWaits, WorkspaceUpdates
    <3>2. ds' = v /\ Asking({}) /\ mode' # "dsEntry"
      BY <2>3 DEF Go
    <3> HIDE DEF v
    <3> QED BY <3>1, <3>2, WorkspaceOnly
  <2> QED BY <2>1, <2>2, <2>3 DEF FilesKey
<1>5. HasSubject(mode)' /\ mode' # "help"
  BY <1>1, <1>4, WorkspaceUpdates DEF HasSubject
<1> QED BY <1>1, <1>2, <1>4, <1>5, FilesStep

LEMMA FindKeyHolds ==
  ASSUME ScreensInv, FindKey
  PROVE  ScreensInv'
<1>1. /\ UNCHANGED <<ret, row, typing, form, tl, hist, names>> /\ mode = "dsFind" /\ text' \in BOOLEAN
      /\ mode' \in {"dsFind", "dsFiles"}
  BY InvModes DEF FindKey, Go, At, ModesOK
<1>2. ModesOK'
  BY <1>1, InvModes DEF ModesOK, Modes
<1>3. ds # None /\ ds \in Workspaces /\ WorkspaceWaits(asks, ds)
  BY <1>1, InvFiles
<1>4. /\ ds' \in Workspaces /\ RequestsOK' /\ FilesWait' /\ (form' = form => FormWaits')
      /\ (tl' = tl => TimelineCounts') /\ (hist' = hist => HistoryWaits')
  <2>1. CASE LET w == [abandon(ds) EXCEPT !.query = TRUE, !.found = None, !.finding = TRUE, !.prompt = FALSE] IN
             ds' = w /\ Asking({[kind |-> "find", store |-> w.store, gen |-> w.gen]})
    <3> DEFINE u == abandon(ds)
               w == [u EXCEPT !.query = TRUE, !.found = None, !.finding = TRUE, !.prompt = FALSE]
               a == [kind |-> "find", store |-> w.store, gen |-> w.gen]
    <3>1. ds' = w /\ Asking({a})
      BY <2>1
    <3>2. u \in Workspaces /\ ~u.loading /\ u.detail = ds.detail
      BY <1>3, Abandoned
    <3> HIDE DEF u
    <3>3. w \in Workspaces
      BY <3>2, WorkspaceUpdates
    <3>4. ~w.loading /\ w.query /\ w.detail = ds.detail
      BY <3>2 DEF Workspaces
    <3>5. w.store \in Stores /\ w.gen \in Nat
      BY <3>3 DEF Workspaces
    <3>6. a \in Asks /\ a.kind = "find" /\ a.gen = w.gen
      BY <3>5, AskMade
    <3> HIDE DEF w, a
    <3>7. /\ RequestsOK' /\ Leaves(asks \cup {a}) /\ a \in asks' /\ (form' = form => FormWaits')
          /\ (tl' = tl => TimelineCounts') /\ (hist' = hist => HistoryWaits')
      BY <3>1, <3>6, OneAsked DEF TimelineKinds
    <3>8. asks \in SUBSET Asks /\ IsFiniteSet(asks) /\ asks' \in SUBSET Asks /\ IsFiniteSet(asks')
          /\ \A x \in asks : x.kind \in FilesKinds => x \in asks'
      BY <3>7 DEF ScreensInv, TypeOK, AsksOK, RequestsOK, Leaves, FilesKinds
    <3>9. WorkspaceWaits(asks', ds)
      BY <1>3, <3>8, WorkspaceStays
    <3>10. WorkspaceWaits(asks', w)
      BY <3>4, <3>6, <3>7, <3>9 DEF WorkspaceWaits
    <3> QED BY <3>1, <3>3, <3>7, <3>10 DEF FilesWait
  <2>2. CASE ds' = [ds EXCEPT !.prompt = TRUE] /\ Asking({})
    <3> DEFINE v == [ds EXCEPT !.prompt = TRUE]
    <3>1. v \in Workspaces /\ WorkspaceWaits(asks, v)
      BY <1>3, PromptWaits, WorkspaceUpdates
    <3>2. ds' = v
      BY <2>2
    <3> HIDE DEF v
    <3> QED BY <2>2, <3>1, <3>2, WorkspaceOnly
  <2>3. CASE \E p \in Paths : ListDir(ds, p)
    BY <1>3, <2>3, ListDirEffect
  <2> QED BY <2>1, <2>2, <2>3 DEF FindKey
<1>5. HasSubject(mode)' /\ mode' # "help"
  BY <1>1, <1>4, WorkspaceUpdates DEF HasSubject
<1> QED BY <1>1, <1>2, <1>4, <1>5, FilesStep

LEMMA EntryJumpHolds ==
  ASSUME ScreensInv, EntryJump
  PROVE  ScreensInv'
<1>1. /\ UNCHANGED <<ret, typing, form, tl, hist, names>> /\ text' \in BOOLEAN /\ mode' = "browse" /\ ds' = None
      /\ Asking({})
  BY DEF EntryJump, Go
<1>2. ModesOK'
  BY <1>1, InvModes DEF ModesOK, Modes
<1>3. /\ RequestsOK' /\ FilesWait' /\ (form' = form => FormWaits')
      /\ (tl' = tl => TimelineCounts') /\ (hist' = hist => HistoryWaits')
  BY <1>1, WorkspaceOnly
<1>4. HasSubject(mode)' /\ mode' # "help"
  BY <1>1 DEF HasSubject
<1> QED BY <1>1, <1>2, <1>3, <1>4, FilesStep

(* A workspace that has given up its listing and its search.               *)
LEMMA AbandonedWaits ==
  ASSUME NEW w \in Workspaces, NEW s, WorkspaceWaits(s, w)
  PROVE  /\ WorkspaceWaits(s, abandon(w))
         /\ [abandon(w) EXCEPT !.detail = None] \in Workspaces
         /\ WorkspaceWaits(s, [abandon(w) EXCEPT !.detail = None])
<1> DEFINE u == abandon(w)
           v == [u EXCEPT !.detail = None]
<1>1. u \in Workspaces /\ ~u.loading /\ ~u.finding /\ u.detail = w.detail
  BY Abandoned
<1> HIDE DEF u
<1>2. v \in Workspaces
  BY <1>1, WorkspaceUpdates
<1>3. ~v.loading /\ ~v.finding /\ v.detail = None
  BY <1>1 DEF Workspaces
<1> HIDE DEF v
<1>4. WorkspaceWaits(s, u) /\ WorkspaceWaits(s, v)
  BY <1>1, <1>3 DEF WorkspaceWaits
<1> QED BY <1>2, <1>4 DEF u, v

LEMMA EscFilesHolds ==
  ASSUME ScreensInv, EscFiles
  PROVE  ScreensInv'
<1>1. /\ UNCHANGED <<ret, row, typing, form, tl, hist, names>> /\ mode \in {"dsFiles", "dsEntry", "dsFind"}
  BY DEF EscFiles
<1>2. ds # None /\ ds \in Workspaces /\ WorkspaceWaits(asks, ds)
  BY <1>1, InvFiles
<1>3. ds.keeps \in BOOLEAN
  BY <1>2 DEF Workspaces
<1>4. text' \in BOOLEAN
  BY <1>3, InvModes DEF EscFiles, ModesOK
<1>5. mode' \in {"detail", "dsFiles", "dsFind"}
  BY <1>1 DEF EscFiles, Go
<1>6. ModesOK'
  BY <1>1, <1>4, <1>5, InvModes DEF ModesOK, Modes
<1>7. /\ ds' \in Workspaces \/ (ds' = None /\ mode' = "detail")
      /\ RequestsOK' /\ FilesWait' /\ (form' = form => FormWaits')
      /\ (tl' = tl => TimelineCounts') /\ (hist' = hist => HistoryWaits')
  <2>1. CASE ds' = abandon(ds) /\ Asking({})
    <3>1. abandon(ds) \in Workspaces /\ WorkspaceWaits(asks, abandon(ds))
      BY <1>2, Abandoned, AbandonedWaits
    <3> QED BY <2>1, <3>1, WorkspaceOnly
  <2>2. CASE ds' = None /\ Go("detail") /\ Asking({})
    BY <2>2, WorkspaceOnly DEF Go
  <2>3. CASE ListDir(ds, "")
    BY <1>2, <2>3, ListDirEffect DEF Paths
  <2>4. CASE ds' = [abandon(ds) EXCEPT !.detail = None] /\ Asking({})
    BY <1>2, <2>4, AbandonedWaits, WorkspaceOnly
  <2>5. CASE ds' = [ds EXCEPT !.prompt = FALSE] /\ Asking({})
    BY <1>2, <2>5, PromptWaits, WorkspaceUpdates, WorkspaceOnly
  <2>6. CASE ListDirIfEmpty([ds EXCEPT !.prompt = FALSE])
    <3> DEFINE w == [ds EXCEPT !.prompt = FALSE]
    <3>1. w \in Workspaces /\ WorkspaceWaits(asks, w)
      BY <1>2, PromptWaits, WorkspaceUpdates
    <3>2. ListDirIfEmpty(w)
      BY <2>6
    <3> HIDE DEF w
    <3>3. w.path \in Paths
      BY <3>1 DEF Workspaces, Paths
    <3>4. (ds' = w /\ Asking({})) \/ ListDir(w, w.path)
      BY <3>2 DEF ListDirIfEmpty
    <3> QED BY <3>1, <3>3, <3>4, WorkspaceOnly, ListDirEffect
  <2> QED BY <2>1, <2>2, <2>3, <2>4, <2>5, <2>6 DEF EscFiles
<1>8. HasSubject(mode)' /\ mode' # "help"
  BY <1>5, <1>7, WorkspaceUpdates DEF HasSubject
<1> QED BY <1>1, <1>6, <1>7, <1>8, FilesStep

(* An answer that a workspace does not wait for leaves it waiting.         *)
LEMMA OtherAnswer ==
  ASSUME AsksOK, NEW a \in asks, NEW w \in Workspaces, WorkspaceWaits(asks, w),
         ~(a.kind = "listing" /\ a.gen = w.gen /\ a.path = w.path),
         ~(a.kind = "find" /\ a.gen = w.gen),
         w.detail # None => ~(a.kind \in {"refs", "assessment"} /\ a.gen = w.detail.gen)
  PROVE  WorkspaceWaits(asks \ {a}, w)
<1>1. w.detail # None => Answers(asks \ {a}, w.detail.gen) = Answers(asks, w.detail.gen)
  BY DEF Answers
<1> QED BY <1>1 DEF WorkspaceWaits

LEMMA ListingAnswer ==
  ASSUME ScreensInv, NEW a \in asks, a.kind = "listing", ds # None,
         ds' \in IF a.gen # ds.gen \/ a.path # ds.path THEN {ds}
                 ELSE {[ds EXCEPT !.loading = FALSE, !.shown = s] : s \in {"error", a.store}}
  PROVE  ds' \in Workspaces /\ WorkspaceWaits(asks \ {a}, ds') /\ ds'.detail = ds.detail
<1>1. ds \in Workspaces /\ WorkspaceWaits(asks, ds) /\ AsksOK
  BY InvFiles DEF ScreensInv, TypeOK
<1>2. CASE a.gen # ds.gen \/ a.path # ds.path
  BY <1>1, <1>2, OtherAnswer
<1>3. CASE ~(a.gen # ds.gen \/ a.path # ds.path)
  <2>1. a.store \in Stores
    BY <1>1, AskFields DEF AsksOK
  <2>2. PICK s \in {"error", a.store} : ds' = [ds EXCEPT !.loading = FALSE, !.shown = s]
    BY <1>3
  <2>3. /\ ds' \in Workspaces /\ ~ds'.loading /\ ds'.finding = ds.finding /\ ds'.query = ds.query /\ ds'.gen = ds.gen
        /\ ds'.detail = ds.detail
    BY <1>1, <2>1, <2>2 DEF Workspaces
  <2>4. ds.detail # None => Answers(asks \ {a}, ds.detail.gen) = Answers(asks, ds.detail.gen)
    BY DEF Answers
  <2> QED BY <1>1, <2>3, <2>4 DEF WorkspaceWaits
<1> QED BY <1>2, <1>3

LEMMA FindAnswer ==
  ASSUME ScreensInv, NEW a \in asks, a.kind = "find", ds # None,
         ds' \in IF a.gen # ds.gen \/ ~ds.query THEN {ds}
                 ELSE {[ds EXCEPT !.finding = FALSE, !.found = s] : s \in {None, a.store}}
  PROVE  ds' \in Workspaces /\ WorkspaceWaits(asks \ {a}, ds') /\ ds'.detail = ds.detail
<1>1. ds \in Workspaces /\ WorkspaceWaits(asks, ds) /\ AsksOK
  BY InvFiles DEF ScreensInv, TypeOK
<1>2. ds.detail # None => Answers(asks \ {a}, ds.detail.gen) = Answers(asks, ds.detail.gen)
  BY DEF Answers
<1>3. CASE a.gen # ds.gen \/ ~ds.query
  BY <1>1, <1>2, <1>3 DEF WorkspaceWaits
<1>4. CASE ~(a.gen # ds.gen \/ ~ds.query)
  <2>1. a.store \in Stores
    BY <1>1, AskFields DEF AsksOK
  <2>2. PICK s \in {None, a.store} : ds' = [ds EXCEPT !.finding = FALSE, !.found = s]
    BY <1>4
  <2>3. /\ ds' \in Workspaces /\ ~ds'.finding /\ ds'.loading = ds.loading /\ ds'.gen = ds.gen /\ ds'.path = ds.path
        /\ ds'.detail = ds.detail
    BY <1>1, <2>1, <2>2 DEF Workspaces
  <2> QED BY <1>1, <1>2, <2>3 DEF WorkspaceWaits
<1> QED BY <1>3, <1>4

LEMMA CachedUpdate ==
  ASSUME NEW w \in Workspaces, NEW c \in SUBSET {"refs", "assessment"}, NEW d \in Details
  PROVE  [w EXCEPT !.cached = c, !.detail = d] \in Workspaces
  BY DEF Workspaces

LEMMA DetailAnswer ==
  ASSUME ScreensInv, NEW a \in asks, a.kind \in {"refs", "assessment"}, ds # None,
         ds' = IF ds.detail = None \/ (ds.detail # None /\ a.gen # ds.detail.gen) THEN ds
               ELSE [ds EXCEPT !.cached = @ \cup {a.kind}, !.detail.pending = IF @ > 0 THEN @ - 1 ELSE 0]
  PROVE  ds' \in Workspaces /\ WorkspaceWaits(asks \ {a}, ds') /\ (ds.detail # None => ds'.detail # None)
<1>1. ds \in Workspaces /\ WorkspaceWaits(asks, ds) /\ AsksOK
  BY InvFiles DEF ScreensInv, TypeOK
<1>2. CASE ds.detail = None \/ a.gen # ds.detail.gen
  BY <1>1, <1>2, OtherAnswer
<1>3. CASE ds.detail # None /\ a.gen = ds.detail.gen
  <2> DEFINE p == ds.detail.pending
             q == IF p > 0 THEN p - 1 ELSE 0
             g == ds.detail.gen
             d == [ds.detail EXCEPT !.pending = q]
  <2>1. ds.detail \in Details /\ p \in Nat
    BY <1>1, <1>3 DEF Workspaces, Details
  <2>2. q \in Nat
    BY <2>1
  <2>3. ds' = [ds EXCEPT !.cached = ds.cached \cup {a.kind}, !.detail = d]
    BY <1>1, <1>3 DEF Workspaces
  <2>4. Cardinality(Answers(asks \ {a}, g)) = Cardinality(Answers(asks, g)) - 1
        /\ Cardinality(Answers(asks, g)) \in Nat
    <3>1. Answers(asks \ {a}, g) = Answers(asks, g) \ {a} /\ a \in Answers(asks, g) /\ Answers(asks, g) \subseteq asks
      BY <1>3 DEF Answers
    <3>2. IsFiniteSet(Answers(asks, g))
      BY <1>1, <3>1, FS_Subset DEF AsksOK
    <3> HIDE DEF g
    <3> QED BY <3>1, <3>2, FS_RemoveElement, FS_CardinalityType
  <2>5. p <= Cardinality(Answers(asks, g)) /\ Cardinality(Answers(asks, g)) # 0
    <3>1. a \in Answers(asks, g) /\ Answers(asks, g) \subseteq asks
      BY <1>3 DEF Answers
    <3>2. IsFiniteSet(Answers(asks, g))
      BY <1>1, <3>1, FS_Subset DEF AsksOK
    <3>3. Cardinality(Answers(asks, g)) # 0
      BY <3>1, <3>2, FS_EmptySet
    <3> QED BY <1>1, <1>3, <3>3 DEF WorkspaceWaits
  <2> HIDE DEF p, g
  <2>6. q <= Cardinality(Answers(asks \ {a}, g))
    BY <2>1, <2>4, <2>5
  <2> HIDE DEF q
  <2>7. d \in Details /\ d.pending = q /\ d.gen = g
    BY <2>1, <2>2 DEF Details, g
  <2>8. d # None
    BY <2>7, NoneAssumption
  <2> HIDE DEF d
  <2>9. /\ ds' \in Workspaces /\ ds'.detail = d /\ ds'.loading = ds.loading /\ ds'.finding = ds.finding
        /\ ds'.gen = ds.gen /\ ds'.path = ds.path /\ ds'.query = ds.query
    <3>1. ds.cached \cup {a.kind} \in SUBSET {"refs", "assessment"}
      BY <1>1 DEF Workspaces
    <3> DEFINE v == [ds EXCEPT !.cached = ds.cached \cup {a.kind}, !.detail = d]
    <3>2. v \in Workspaces /\ v.detail = d
      <4>1. v \in Workspaces
        BY <1>1, <2>7, <3>1, CachedUpdate
      <4>2. v.detail = d
        BY ONLY <1>1 DEF Workspaces
      <4> QED BY <4>1, <4>2
    <3>3. /\ ds'.loading = ds.loading /\ ds'.finding = ds.finding
          /\ ds'.gen = ds.gen /\ ds'.path = ds.path /\ ds'.query = ds.query
      BY ONLY <1>1, <2>3 DEF Workspaces
    <3>4. ds' = v
      BY <2>3
    <3> HIDE DEF v
    <3> QED BY <3>2, <3>3, <3>4
  <2>10. WorkspaceWaits(asks \ {a}, ds')
    BY <1>1, <2>6, <2>7, <2>9 DEF WorkspaceWaits
  <2> QED BY <2>8, <2>9, <2>10
<1> QED BY <1>2, <1>3

FilesAnswer(a) == \/ a.kind = "listing" /\ applyDSListing(a)
                  \/ a.kind = "find" /\ applyDSFind(a)
                  \/ a.kind \in {"refs", "assessment"} /\ applyDSDetail(a)

LEMMA FilesAnswers ==
  ASSUME ScreensInv, NEW a \in asks, FilesAnswer(a)
  PROVE  ScreensInv'
<1>1. /\ UNCHANGED <<mode, ret, row, typing, text, names, form, tl, perf, net, hist>> /\ asks' = asks \ {a}
      /\ a.kind \in FilesKinds
  BY DEF FilesAnswer, applyDSListing, applyDSFind, applyDSDetail, over, FilesKinds
<1>2. AsksOK' /\ FormWaits' /\ TimelineCounts' /\ HistoryWaits' /\ ChartsWait' /\ NetWaits'
  BY <1>1, AnswerOnly DEF FilesKinds, FormKinds, TimelineKinds
<1>3. /\ ds = None => ds' = None
      /\ ds # None => ds' \in Workspaces /\ WorkspaceWaits(asks \ {a}, ds') /\ (ds.detail # None => ds'.detail # None)
  <2>1. CASE ds = None
    BY <2>1 DEF FilesAnswer, applyDSListing, applyDSFind, applyDSDetail
  <2>2. CASE ds # None /\ a.kind = "listing"
    <3>1. ds' \in IF a.gen # ds.gen \/ a.path # ds.path THEN {ds}
                  ELSE {[ds EXCEPT !.loading = FALSE, !.shown = s] : s \in {"error", a.store}}
      BY <2>2 DEF FilesAnswer, applyDSListing
    <3> QED BY <2>2, <3>1, ListingAnswer
  <2>3. CASE ds # None /\ a.kind = "find"
    <3>1. ds' \in IF a.gen # ds.gen \/ ~ds.query THEN {ds}
                  ELSE {[ds EXCEPT !.finding = FALSE, !.found = s] : s \in {None, a.store}}
      BY <2>3 DEF FilesAnswer, applyDSFind
    <3> QED BY <2>3, <3>1, FindAnswer
  <2>4. CASE ds # None /\ a.kind \in {"refs", "assessment"}
    <3>1. ds' = IF ds.detail = None \/ (ds.detail # None /\ a.gen # ds.detail.gen) THEN ds
                ELSE [ds EXCEPT !.cached = @ \cup {a.kind}, !.detail.pending = IF @ > 0 THEN @ - 1 ELSE 0]
      BY <2>4 DEF FilesAnswer, applyDSDetail
    <3> QED BY <2>4, <3>1, DetailAnswer
  <2> QED BY <1>1, <2>1, <2>2, <2>3, <2>4 DEF FilesKinds
<1>4. ds' \in Workspaces \cup {None} /\ FilesWait'
  BY <1>1, <1>3 DEF FilesWait
<1>5. ScreenHasSubject'
  <2>1. ds # None => ds' # None
    BY <1>3, WorkspaceUpdates
  <2> QED BY <1>1, <1>3, <2>1, SubjectsStay DEF ScreensInv
<1>6. TypeOK'
  BY <1>1, <1>2, <1>4 DEF ScreensInv, TypeOK, ModesOK
<1> QED BY <1>2, <1>4, <1>5, <1>6 DEF ScreensInv

-----------------------------------------------------------------------------
(* The timeline.                                                           *)

LEMMA OthersHeld ==
  ASSUME ScreensInv, AsksOK', \A a \in asks : a.kind \notin TimelineKinds => a \in asks',
         UNCHANGED <<form, ds, perf, net, hist>>
  PROVE  FormWaits' /\ FilesWait' /\ HistoryWaits' /\ ChartsWait' /\ NetWaits'
<1>1. AsksOK /\ ds \in Workspaces \cup {None} /\ FormWaits /\ FilesWait /\ HistoryWaits /\ ChartsWait /\ NetWaits
  BY DEF ScreensInv, TypeOK
<1>2. Held(FormKinds) /\ Held(FilesKinds) /\ Held({"capture"})
  BY DEF Held, FormKinds, FilesKinds, TimelineKinds
<1>3. FormWaits' /\ FilesWait' /\ HistoryWaits'
  BY <1>1, <1>2, FormStays, FilesStay, HistoryStays
<1>4. \A k \in {"tick", "topology"} : InFlight(k) \subseteq InFlight(k)'
  BY DEF InFlight, TimelineKinds
<1>5. \A v \in VMs : [kind |-> "perf", vm |-> v] \in asks => [kind |-> "perf", vm |-> v] \in asks'
  BY DEF TimelineKinds
<1>6. ChartsWait'
  BY <1>1, <1>4, <1>5 DEF ChartsWait
<1>7. NetWaits'
  BY <1>1, <1>4 DEF NetWaits
<1> QED BY <1>3, <1>6, <1>7

LEMMA TimelineAsked ==
  ASSUME NEW t \in Timelines, NEW jobs \in SUBSET {"here", "there"}, NEW n \in Nat
  PROVE  [t EXCEPT !.requested = t.requested \cup jobs, !.inflight = n] \in Timelines
  BY DEF Timelines

(* The events are asked for once more, and once more counted; no request   *)
(* in flight is the one that is sent.                                      *)
LEMMA LoadEventsEffect ==
  ASSUME NEW s \in SUBSET Asks, IsFiniteSet(s), NEW t \in Timelines, t.subject \in VMs,
         TimelineWaits(s, t), NEW explicit \in BOOLEAN, LoadEvents(t, explicit, s)
  PROVE  /\ tl' \in Timelines /\ tl'.subject = t.subject
         /\ asks' \in SUBSET Asks /\ IsFiniteSet(asks') /\ s \subseteq asks'
         /\ TimelineWaits(asks', tl')
<1> DEFINE jobs == Jobs(t, explicit)
           e == [kind |-> "events", subject |-> t.subject, jobs |-> jobs, fresh |-> TRUE]
<1>1. CASE jobs = {} \/ (explicit /\ t.inflight > 0)
  BY <1>1 DEF LoadEvents
<1>2. CASE ~(jobs = {} \/ (explicit /\ t.inflight > 0))
  <2>1. /\ tl' = [t EXCEPT !.requested = @ \cup jobs, !.inflight = @ + 1]
        /\ asks' = s \cup {e}
    BY <1>2 DEF LoadEvents
  <2>2. t.keys \in SUBSET {"here", "there"} /\ t.inflight \in Nat
    BY DEF Timelines
  <2>3. jobs \in SUBSET {"here", "there"} /\ jobs # {}
    BY <1>2, <2>2 DEF Jobs
  <2>4. t.inflight = Cardinality(Fresh(s)) /\ Fresh(s) \subseteq s /\ IsFiniteSet(Fresh(s))
    BY FS_Subset DEF TimelineWaits, Fresh
  <2>5. ASSUME e \in s PROVE FALSE
    <3>1. e \in Fresh(s) /\ e.jobs = jobs
      BY <2>5 DEF Fresh
    <3>2. jobs \subseteq t.requested
      BY <3>1 DEF TimelineWaits
    <3>3. CASE explicit
      <4>1. ~(t.inflight > 0)
        BY <1>2, <3>3
      <4>2. t.inflight = 0
        BY ONLY <2>2, <4>1
      <4> QED BY <2>4, <3>1, <4>2, FS_EmptySet
    <3>4. CASE ~explicit
      BY <2>3, <3>2, <3>4 DEF Jobs
    <3> QED BY <3>3, <3>4
  <2>6. e \in Asks /\ e.kind = "events" /\ e.fresh /\ e.jobs = jobs /\ e.subject = t.subject
    BY <2>3, AskMade
  <2>7. jobs = jobs /\ t.inflight + 1 \in Nat
    BY <2>2
  <2> HIDE DEF e
  <2>8. asks' \in SUBSET Asks /\ IsFiniteSet(asks') /\ s \subseteq asks'
    <3>1. IsFiniteSet(s \cup {e})
      BY FS_AddElement
    <3> QED BY <2>1, <2>6, <3>1
  <2>9. Cardinality(Fresh(asks')) = Cardinality(Fresh(s)) + 1
    <3>1. Fresh(asks') = Fresh(s) \cup {e} /\ e \notin Fresh(s)
      BY <2>1, <2>4, <2>5, <2>6 DEF Fresh
    <3> QED BY <2>4, <3>1, FS_AddElement
  <2> HIDE DEF jobs
  <2>10. /\ tl' \in Timelines /\ tl'.inflight = t.inflight + 1 /\ tl'.requested = t.requested \cup jobs
         /\ tl'.subject = t.subject /\ tl'.shown = t.shown /\ tl'.events = t.events
    <3> DEFINE m == t.inflight + 1
               v == [t EXCEPT !.requested = t.requested \cup jobs, !.inflight = m]
    <3>2. tl' = v /\ m \in Nat
      BY <2>1, <2>7
    <3> HIDE DEF m
    <3>1. /\ v \in Timelines /\ v.inflight = m /\ v.requested = t.requested \cup jobs
          /\ v.subject = t.subject /\ v.shown = t.shown /\ v.events = t.events
      <4>1. v \in Timelines
        BY ONLY <2>3, <3>2, t \in Timelines, TimelineAsked
      <4>2. v.inflight = m /\ v.requested = t.requested \cup jobs
        BY ONLY t \in Timelines DEF Timelines
      <4>3. v.subject = t.subject /\ v.shown = t.shown /\ v.events = t.events
        BY ONLY t \in Timelines DEF Timelines
      <4> QED BY <4>1, <4>2, <4>3
    <3> HIDE DEF v
    <3> QED BY <3>1, <3>2 DEF m
  <2>11. TimelineWaits(asks', tl')
    <3>1. tl'.inflight = Cardinality(Fresh(asks'))
      BY <2>4, <2>9, <2>10
    <3>2. \A a \in asks' : a.kind \in {"timeline", "events"} /\ a.fresh => a.subject = tl'.subject
      BY <2>1, <2>6, <2>10 DEF TimelineWaits
    <3>3. \A a \in Fresh(asks') : a.jobs # {} /\ a.jobs \subseteq tl'.requested
      BY <2>1, <2>3, <2>6, <2>10 DEF TimelineWaits, Fresh
    <3>4. {tl'.shown, tl'.events} \subseteq {None, tl'.subject}
      BY <2>10 DEF TimelineWaits
    <3> QED BY <3>1, <3>2, <3>3, <3>4 DEF TimelineWaits
  <2> QED BY <2>8, <2>10, <2>11
<1> QED BY <1>1, <1>2

(* What is left to show of a step on the timeline.                         *)
LEMMA TimelineStep ==
  ASSUME ScreensInv, ModesOK', AsksOK', \A a \in asks : a.kind \notin TimelineKinds => a \in asks',
         UNCHANGED <<form, ds, perf, net, hist>>, tl' \in Timelines, TimelineWaits(asks', tl'),
         ScreenHasSubject'
  PROVE  ScreensInv'
<1>1. FormWaits' /\ FilesWait' /\ HistoryWaits' /\ ChartsWait' /\ NetWaits'
  BY OthersHeld
<1>2. TypeOK'
  BY DEF ScreensInv, TypeOK
<1>3. TimelineCounts'
  BY DEF TimelineCounts
<1> QED BY <1>1, <1>2, <1>3 DEF ScreensInv

LEMMA InvTimeline ==
  ASSUME ScreensInv
  PROVE  /\ tl \in Timelines /\ TimelineWaits(asks, tl) /\ AsksOK /\ tl.source \in Sources
         /\ mode \in {"timeline", "timelineDetail"} => tl.subject \in VMs
<1>1. tl \in Timelines /\ TimelineWaits(asks, tl) /\ AsksOK
  BY DEF ScreensInv, TypeOK, TimelineCounts
<1>2. tl.source \in Sources /\ tl.subject \in VMs \cup {None}
  BY <1>1 DEF Timelines
<1>3. mode \in {"timeline", "timelineDetail"} => tl.subject # None
  BY InvModes DEF HasSubject
<1> QED BY <1>1, <1>2, <1>3

LEMMA SourceChosen ==
  ASSUME NEW t \in Timelines, NEW s, TimelineWaits(s, t), NEW src \in Sources
  PROVE  /\ [t EXCEPT !.source = src] \in Timelines /\ [t EXCEPT !.source = src].subject = t.subject
         /\ TimelineWaits(s, [t EXCEPT !.source = src])
<1> DEFINE v == [t EXCEPT !.source = src]
<1>1. v \in Timelines
  BY DEF Timelines
<1>2. /\ v.subject = t.subject /\ v.shown = t.shown /\ v.events = t.events
      /\ v.requested = t.requested /\ v.inflight = t.inflight
  BY DEF Timelines
<1> HIDE DEF v
<1>3. TimelineWaits(s, v)
  BY <1>2 DEF TimelineWaits
<1> QED BY <1>1, <1>2, <1>3 DEF v

LEMMA OpenTimelineHolds ==
  ASSUME ScreensInv, OpenTimeline
  PROVE  ScreensInv'
<1>1. PICK v \in VMs, seeded \in BOOLEAN :
        /\ \/ seeded /\ ShowsVM(mode, row) /\ v = row
           \/ ~seeded /\ mode \in {"changes", "changeDetail"} /\ hist.diff # None /\ Visits("vms")
        /\ LET t == [NoTimeline EXCEPT !.subject = v, !.source = tl.source,
                                       !.keys = IF seeded THEN {"here"} ELSE {}]
               s == Stale(asks, {"timeline", "events"})
                      \cup {[kind |-> "timeline", subject |-> v, fresh |-> TRUE]} IN
           IF t.source # "changes" THEN LoadEvents(t, FALSE, s) ELSE tl' = t /\ asks' = s
  BY DEF OpenTimeline
<1> DEFINE t == [NoTimeline EXCEPT !.subject = v, !.source = tl.source, !.keys = IF seeded THEN {"here"} ELSE {}]
           o == Stale(asks, {"timeline", "events"})
           r == [kind |-> "timeline", subject |-> v, fresh |-> TRUE]
           s == o \cup {r}
<1>2. IF t.source # "changes" THEN LoadEvents(t, FALSE, s) ELSE tl' = t /\ asks' = s
  BY <1>1
<1>3. /\ UNCHANGED <<row, typing, text, form, ds, perf, net, hist, names>>
      /\ ret' = [ret EXCEPT !.timeline = mode] /\ mode' = "timeline"
      /\ mode \in {"detail", "vappVM", "changes", "changeDetail"}
  BY <1>1 DEF OpenTimeline, Go, over, ShowsVM
<1>4. ModesOK'
  <2>1. ret' \in Returns
    BY <1>3, InvModes, RetUpdates
  <2> QED BY <1>3, <2>1, InvModes DEF ModesOK, Modes
<1>5. /\ o \in SUBSET Asks /\ IsFiniteSet(o)
      /\ \A a \in asks : a.kind \notin TimelineKinds => a \in o
      /\ \A a \in o : a.kind \in TimelineKinds => ~a.fresh
  BY InvTimeline, StaleFacts DEF AsksOK, TimelineKinds
<1>6. t \in Timelines /\ t.subject = v
  BY InvTimeline DEF NoTimeline, Timelines, Sources
<1>7. t.shown = None /\ t.events = None /\ t.inflight = 0
  BY DEF NoTimeline
<1>8. r \in Asks /\ r.kind = "timeline" /\ r.subject = v
  BY AskMade
<1> HIDE DEF t, o, r
<1>9. s \in SUBSET Asks /\ IsFiniteSet(s)
  BY <1>5, <1>8, FS_AddElement
<1>10. TimelineWaits(s, t)
  <2>1. Fresh(s) = {}
    BY <1>5, <1>8 DEF Fresh, TimelineKinds
  <2>2. Cardinality(Fresh(s)) = 0
    BY <2>1, FS_EmptySet
  <2>3. \A a \in s : a.kind \in {"timeline", "events"} /\ a.fresh => a.subject = t.subject
    BY <1>5, <1>6, <1>8 DEF TimelineKinds
  <2> QED BY <1>7, <2>1, <2>2, <2>3 DEF TimelineWaits
<1>11. tl' \in Timelines /\ tl'.subject = v /\ AsksOK' /\ s \subseteq asks' /\ TimelineWaits(asks', tl')
  <2>1. CASE LoadEvents(t, FALSE, s)
    <3> HIDE DEF s
    <3> QED BY <1>6, <1>9, <1>10, <2>1, LoadEventsEffect DEF AsksOK
  <2>2. CASE tl' = t /\ asks' = s
    BY <1>6, <1>9, <1>10, <2>2 DEF AsksOK
  <2> QED BY <1>2, <2>1, <2>2
<1>12. ScreenHasSubject'
  BY <1>3, <1>11, NoneAssumption DEF ScreenHasSubject, HasSubject
<1>13. \A a \in asks : a.kind \notin TimelineKinds => a \in asks'
  BY <1>5, <1>11
<1> QED BY <1>3, <1>4, <1>11, <1>12, <1>13, TimelineStep

LEMMA TimelineKeyHolds ==
  ASSUME ScreensInv, TimelineKey
  PROVE  ScreensInv'
<1>1. /\ UNCHANGED <<ret, row, typing, text, form, ds, perf, net, hist, names>> /\ mode = "timeline"
      /\ mode' \in {"timeline", "timelineDetail"}
  BY DEF TimelineKey, At, Go, over
<1>2. tl \in Timelines /\ TimelineWaits(asks, tl) /\ AsksOK /\ tl.subject \in VMs
  BY <1>1, InvTimeline
<1>3. /\ tl' \in Timelines /\ tl'.subject = tl.subject /\ AsksOK' /\ asks \subseteq asks'
      /\ TimelineWaits(asks', tl')
  <2>1. CASE \E s \in Sources : IF s = "changes" THEN tl' = [tl EXCEPT !.source = s] /\ asks' = asks
                                ELSE LoadEvents([tl EXCEPT !.source = s], FALSE, asks)
    <3>1. PICK s \in Sources : IF s = "changes" THEN tl' = [tl EXCEPT !.source = s] /\ asks' = asks
                               ELSE LoadEvents([tl EXCEPT !.source = s], FALSE, asks)
      BY <2>1
    <3> DEFINE t == [tl EXCEPT !.source = s]
    <3>2. t \in Timelines /\ t.subject = tl.subject /\ TimelineWaits(asks, t)
      BY <1>2, SourceChosen
    <3>3. (tl' = t /\ asks' = asks) \/ LoadEvents(t, FALSE, asks)
      BY <3>1
    <3> HIDE DEF t
    <3> QED BY <1>2, <3>2, <3>3, LoadEventsEffect DEF AsksOK
  <2>2. CASE LoadEvents(tl, TRUE, asks)
    BY <1>2, <2>2, LoadEventsEffect DEF AsksOK
  <2>3. CASE UNCHANGED <<tl, asks>>
    BY <1>2, <2>3 DEF AsksOK
  <2> QED BY <2>1, <2>2, <2>3 DEF TimelineKey
<1>4. ModesOK'
  BY <1>1, InvModes DEF ModesOK, Modes
<1>5. ScreenHasSubject'
  BY <1>1, <1>2, <1>3, NoneAssumption DEF ScreenHasSubject, HasSubject
<1> QED BY <1>1, <1>3, <1>4, <1>5, TimelineStep

(* What is shown is the answer's; what is known of the places grows.       *)
LEMMA TimelineShown ==
  ASSUME NEW t \in Timelines, NEW s, TimelineWaits(s, t), NEW k \in SUBSET {"here", "there"}, t.subject \in VMs
  PROVE  /\ [t EXCEPT !.shown = t.subject, !.keys = t.keys \cup k] \in Timelines
         /\ [t EXCEPT !.shown = t.subject, !.keys = t.keys \cup k].subject = t.subject
         /\ TimelineWaits(s, [t EXCEPT !.shown = t.subject, !.keys = t.keys \cup k])
<1> DEFINE v == [t EXCEPT !.shown = t.subject, !.keys = t.keys \cup k]
<1>1. v \in Timelines
  BY DEF Timelines
<1>2. /\ v.subject = t.subject /\ v.shown = t.subject /\ v.events = t.events
      /\ v.requested = t.requested /\ v.inflight = t.inflight
  BY DEF Timelines
<1> HIDE DEF v
<1>3. TimelineWaits(s, v)
  BY <1>2 DEF TimelineWaits
<1> QED BY <1>1, <1>2, <1>3 DEF v

LEMMA TimelineAnswer ==
  ASSUME ScreensInv, NEW a \in asks, a.kind = "timeline", applyHistoryTimeline(a)
  PROVE  ScreensInv'
<1>1. UNCHANGED <<mode, ret, row, typing, text, names, form, ds, perf, net, hist>>
  BY DEF applyHistoryTimeline, over
<1>2. tl \in Timelines /\ TimelineWaits(asks, tl) /\ asks \in SUBSET Asks /\ IsFiniteSet(asks)
  BY InvTimeline DEF AsksOK
<1> DEFINE rest == asks \ {a}
<1>3. rest \in SUBSET Asks /\ IsFiniteSet(rest)
  BY <1>2, FS_RemoveElement
<1>4. TimelineWaits(rest, tl)
  <2>1. Fresh(rest) = Fresh(asks)
    BY DEF Fresh
  <2> QED BY <1>2, <2>1 DEF TimelineWaits
<1>5. /\ tl' \in Timelines /\ tl'.subject = tl.subject /\ AsksOK' /\ rest \subseteq asks'
      /\ TimelineWaits(asks', tl')
  <2>1. CASE ~a.fresh
    <3>1. tl' = tl /\ asks' = rest
      BY <2>1 DEF applyHistoryTimeline
    <3> QED BY <1>2, <1>3, <1>4, <3>1 DEF AsksOK
  <2>2. CASE a.fresh
    <3>1. a.subject = tl.subject /\ tl.subject \in VMs
      BY <1>2, <2>2, AskFields DEF TimelineWaits
    <3>2. PICK k \in SUBSET {"here", "there"} :
            LET t == [tl EXCEPT !.shown = a.subject, !.keys = @ \cup k] IN
            LoadEvents(t, FALSE, rest) \/ (tl' = t /\ asks' = rest)
      BY <2>2 DEF applyHistoryTimeline
    <3> DEFINE t == [tl EXCEPT !.shown = tl.subject, !.keys = tl.keys \cup k]
    <3>3. LoadEvents(t, FALSE, rest) \/ (tl' = t /\ asks' = rest)
      BY <3>1, <3>2
    <3>4. t \in Timelines /\ t.subject = tl.subject /\ TimelineWaits(rest, t)
      BY <1>2, <1>4, <3>1, TimelineShown
    <3> HIDE DEF t, rest
    <3> QED BY <1>3, <3>1, <3>3, <3>4, LoadEventsEffect DEF AsksOK
  <2> QED BY <2>1, <2>2
<1>6. ModesOK'
  BY <1>1, InvModes DEF ModesOK
<1>7. ScreenHasSubject'
  BY <1>1, <1>5, SubjectsStay DEF ScreensInv
<1>8. \A x \in asks : x.kind \notin TimelineKinds => x \in asks'
  BY <1>5 DEF TimelineKinds
<1> QED BY <1>1, <1>5, <1>6, <1>7, <1>8, TimelineStep

LEMMA EventsAnswer ==
  ASSUME ScreensInv, NEW a \in asks, a.kind = "events", applyVMEvents(a)
  PROVE  ScreensInv'
<1>1. UNCHANGED <<mode, ret, row, typing, text, names, form, ds, perf, net, hist>> /\ asks' = asks \ {a}
  BY DEF applyVMEvents, over
<1>2. tl \in Timelines /\ TimelineWaits(asks, tl) /\ asks \in SUBSET Asks /\ IsFiniteSet(asks)
  BY InvTimeline DEF AsksOK
<1>3. AsksOK'
  BY <1>1, <1>2, FS_RemoveElement DEF AsksOK
<1>4. tl' \in Timelines /\ tl'.subject = tl.subject /\ TimelineWaits(asks', tl')
  <2>1. CASE ~a.fresh
    <3>1. tl' = tl /\ Fresh(asks') = Fresh(asks)
      BY <1>1, <2>1 DEF applyVMEvents, Fresh
    <3> QED BY <1>1, <1>2, <3>1 DEF TimelineWaits
  <2>2. CASE a.fresh
    <3>1. a.subject = tl.subject /\ tl.subject \in VMs
      BY <1>2, <2>2, AskFields DEF TimelineWaits
    <3>2. tl.inflight \in Nat /\ tl.inflight = Cardinality(Fresh(asks))
      BY <1>2 DEF Timelines, TimelineWaits
    <3> DEFINE n == IF tl.inflight > 0 THEN tl.inflight - 1 ELSE 0
    <3>3. tl' = [tl EXCEPT !.events = tl.subject, !.inflight = n]
      BY <2>2, <3>1 DEF applyVMEvents
    <3>4. n \in Nat /\ n = Cardinality(Fresh(asks'))
      <4>1. Fresh(asks') = Fresh(asks) \ {a} /\ a \in Fresh(asks) /\ Fresh(asks) \subseteq asks
        BY <1>1, <2>2 DEF Fresh
      <4>2. IsFiniteSet(Fresh(asks))
        BY <1>2, <4>1, FS_Subset
      <4>3. Cardinality(Fresh(asks')) = Cardinality(Fresh(asks)) - 1
        BY <4>1, <4>2, FS_RemoveElement
      <4>4. Cardinality(Fresh(asks)) # 0
        BY <4>1, <4>2, FS_EmptySet
      <4> QED BY ONLY <3>2, <4>3, <4>4
    <3> HIDE DEF n
    <3>5. tl' \in Timelines
      BY ONLY <1>2, <3>1, <3>3, <3>4 DEF Timelines
    <3>6. /\ tl'.inflight = n /\ tl'.events = tl.subject /\ tl'.subject = tl.subject /\ tl'.shown = tl.shown
          /\ tl'.requested = tl.requested
      BY ONLY <1>2, <3>3 DEF Timelines
    <3>7. Fresh(asks') \subseteq Fresh(asks)
      BY <1>1 DEF Fresh
    <3> QED BY <1>1, <1>2, <3>4, <3>5, <3>6, <3>7 DEF TimelineWaits
  <2> QED BY <2>1, <2>2
<1>5. ModesOK'
  BY <1>1, InvModes DEF ModesOK
<1>6. ScreenHasSubject'
  BY <1>1, <1>4, SubjectsStay DEF ScreensInv
<1>7. \A x \in asks : x.kind \notin TimelineKinds => x \in asks'
  BY <1>1 DEF TimelineKinds
<1> QED BY <1>1, <1>3, <1>4, <1>5, <1>6, <1>7, TimelineStep

-----------------------------------------------------------------------------
(* The charts and the wiring.                                              *)

LEMMA ChartAnswers ==
  ASSUME ScreensInv, NEW a \in asks,
         \/ a.kind = "perf" /\ applyVMPerf(a)
         \/ a.kind = "tick" /\ applyVMPerfTick(a)
         \/ a.kind = "topology" /\ applyNetTopo(a)
         \/ a.kind = "diagnosis" /\ diagnosisMsg(a)
  PROVE  ScreensInv'
<1>1. UNCHANGED <<mode, ret, row, typing, text, names, form, ds, tl, hist>>
  BY DEF applyVMPerf, applyVMPerfTick, applyNetTopo, diagnosisMsg, over
<1>2. /\ AsksOK /\ ds \in Workspaces \cup {None} /\ FormWaits /\ FilesWait /\ HistoryWaits /\ ChartsWait /\ NetWaits
      /\ TimelineCounts /\ perf \in Perfs /\ net \in {"none", "loading", "read"} /\ a \in Asks
  BY DEF ScreensInv, TypeOK, AsksOK
<1> DEFINE rest == asks \ {a}
<1>3. rest \in SUBSET Asks /\ IsFiniteSet(rest)
  BY <1>2, FS_RemoveElement DEF AsksOK
<1>4. /\ AsksOK' /\ perf' \in Perfs /\ net' \in {"none", "loading", "read"} /\ ChartsWait' /\ NetWaits'
      /\ \A x \in rest : x.kind # "tick" => x \in asks'
      /\ \A x \in asks' : x.kind \notin {"tick", "perf"} => x \in rest
  <2>1. CASE a.kind = "perf" /\ applyVMPerf(a)
    <3>1. a.vm \in VMs /\ perf' = [perf EXCEPT !.entry[a.vm] = "shown"] /\ net' = net /\ asks' = rest
      BY <1>2, <2>1, AskFields DEF applyVMPerf
    <3>2. /\ perf' \in Perfs /\ perf'.live = perf.live
          /\ \A v \in VMs : perf'.entry[v] = IF v = a.vm THEN "shown" ELSE perf.entry[v]
      BY <1>2, <3>1 DEF Perfs
    <3>3. AsksOK' /\ NetWaits'
      BY <2>1, <3>1, AnswerOnly
    <3>5. perf.live => \E x \in InFlight("tick")' : x.fresh
      BY <1>2, <2>1, <3>1 DEF InFlight, ChartsWait
    <3>6. \A v \in VMs : perf'.entry[v] = "loading" => [kind |-> "perf", vm |-> v] \in asks'
      <4>1. SUFFICES ASSUME NEW v \in VMs, perf'.entry[v] = "loading" PROVE [kind |-> "perf", vm |-> v] \in asks'
        OBVIOUS
      <4>2. v # a.vm /\ [kind |-> "perf", vm |-> v] \in asks
        BY <1>2, <3>2, <4>1 DEF ChartsWait
      <4>3. [kind |-> "perf", vm |-> v].vm = v
        OBVIOUS
      <4> QED BY <3>1, <4>2, <4>3
    <3>7. ChartsWait'
      BY <3>2, <3>5, <3>6 DEF ChartsWait
    <3> QED BY <1>2, <3>1, <3>2, <3>3, <3>7
  <2>2. CASE a.kind = "tick" /\ applyVMPerfTick(a)
    <3>1. net' = net
      BY <2>2 DEF applyVMPerfTick
    <3>2. AsksOK' /\ perf' \in Perfs /\ ChartsWait'
          /\ (\A x \in rest : x.kind # "tick" => x \in asks')
          /\ \A x \in asks' : x.kind \notin {"tick", "perf"} => x \in rest
      <4>1. CASE ~a.fresh
        <5>1. perf' = perf /\ asks' = rest
          BY <2>2, <4>1 DEF applyVMPerfTick
        <5>2. perf.live => \E x \in InFlight("tick")' : x.fresh
          BY <1>2, <4>1, <5>1 DEF InFlight, ChartsWait
        <5>3. \A v \in VMs : perf.entry[v] = "loading" => [kind |-> "perf", vm |-> v] \in asks'
          <6>1. \A v \in VMs : [kind |-> "perf", vm |-> v] # a
            BY <2>2
          <6> QED BY <1>2, <5>1, <6>1 DEF ChartsWait
        <5> QED BY <1>2, <1>3, <5>1, <5>2, <5>3 DEF ChartsWait, AsksOK
      <4>2. CASE a.fresh /\ ~ShowsVM(mode, row)
        <5>1. perf' = [perf EXCEPT !.live = FALSE] /\ asks' = rest
          BY <2>2, <4>2 DEF applyVMPerfTick
        <5>2. perf' \in Perfs /\ ~perf'.live /\ perf'.entry = perf.entry
          BY <1>2, <5>1 DEF Perfs
        <5>3. \A v \in VMs : perf.entry[v] = "loading" => [kind |-> "perf", vm |-> v] \in asks'
          <6>1. \A v \in VMs : [kind |-> "perf", vm |-> v] # a
            BY <2>2
          <6> QED BY <1>2, <5>1, <6>1 DEF ChartsWait
        <5> QED BY <1>3, <5>1, <5>2, <5>3 DEF ChartsWait, AsksOK
      <4>3. CASE a.fresh /\ ShowsVM(mode, row)
        <5>1. row \in VMs /\ Charted(row, TRUE, rest)
          BY <2>2, <4>3 DEF applyVMPerfTick, ShowsVM
        <5>2. ChartsAsked(rest)
          <6>1. \A v \in VMs : [kind |-> "perf", vm |-> v] # a
            BY <2>2
          <6> QED BY <1>2, <6>1 DEF ChartsWait, ChartsAsked
        <5> HIDE DEF rest
        <5> QED BY <1>2, <1>3, <5>1, <5>2, ChartedEffect
      <4> QED BY <4>1, <4>2, <4>3
    <3>3. NetWaits'
      <4>1. \A x \in InFlight("topology") : x \in InFlight("topology")'
        BY <2>2, <3>2 DEF InFlight
      <4> QED BY <1>2, <3>1, <4>1 DEF NetWaits
    <3> QED BY <1>2, <3>1, <3>2, <3>3
  <2>3. CASE a.kind = "topology" /\ applyNetTopo(a)
    <3>1. net' = "read" /\ asks' = rest /\ perf' = perf
      BY <2>3 DEF applyNetTopo
    <3>2. AsksOK' /\ ChartsWait'
      BY <2>3, <3>1, AnswerOnly
    <3> QED BY <1>2, <3>1, <3>2 DEF NetWaits
  <2>4. CASE a.kind = "diagnosis" /\ diagnosisMsg(a)
    <3>1. net' = net /\ asks' = rest /\ perf' = perf
      BY <2>4 DEF diagnosisMsg
    <3>2. AsksOK' /\ ChartsWait' /\ NetWaits'
      BY <2>4, <3>1, AnswerOnly
    <3> QED BY <1>2, <3>1, <3>2
  <2> QED BY <2>1, <2>2, <2>3, <2>4
<1>5. /\ Held(FormKinds) /\ Held(FilesKinds) /\ Held(TimelineKinds) /\ Held({"capture"})
      /\ NoneNew(TimelineKinds)
  BY <1>4 DEF Held, NoneNew, FormKinds, FilesKinds, TimelineKinds
<1>6. FormWaits' /\ FilesWait' /\ TimelineCounts' /\ HistoryWaits'
  BY <1>1, <1>2, <1>4, <1>5, FormStays, FilesStay, TimelineStays, HistoryStays
<1>7. ScreenHasSubject'
  BY <1>1, SubjectsStay DEF ScreensInv
<1>8. TypeOK'
  BY <1>1, <1>4 DEF ScreensInv, TypeOK, ModesOK
<1> QED BY <1>4, <1>6, <1>7, <1>8 DEF ScreensInv

-----------------------------------------------------------------------------
(* The history: the ends of a comparison, whoever moves them.              *)

Panes == {"changes", "trends", "runs", "health"}
EndsOK(h) == h.runs >= 2 => h.base \in 1..h.runs /\ h.target \in 1..h.runs /\ h.base < h.target

(* What changes beside the ends of the comparison.                         *)
Marked(v, h)  == v \in Histories /\ v.runs = h.runs /\ v.base = h.base /\ v.target = h.target
Compared(v, h, n, b, t) == /\ v \in Histories /\ v.runs = n /\ v.base = b /\ v.target = t
                           /\ v.capturing = h.capturing /\ v.edit = h.edit

LEMMA HistoryMarks ==
  ASSUME NEW h \in Histories
  PROVE  /\ Marked(h, h)
         /\ \A p \in Panes : Marked([h EXCEPT !.pane = p], h) /\ [h EXCEPT !.pane = p].capturing = h.capturing
         /\ \A f \in BOOLEAN : /\ Marked([h EXCEPT !.finding = f], h)
                                /\ [h EXCEPT !.finding = f].capturing = h.capturing
         /\ \A c \in BOOLEAN : /\ Marked([h EXCEPT !.capturing = c], h)
                                /\ [h EXCEPT !.capturing = c].capturing = c
                                /\ [h EXCEPT !.capturing = c].edit = h.edit
         /\ \A c \in {"b", "t"} : /\ Marked([h EXCEPT !.handle = c], h)
                                   /\ [h EXCEPT !.handle = c].capturing = h.capturing
         /\ \A e \in Nat : /\ Marked([h EXCEPT !.edit = e], h) /\ [h EXCEPT !.edit = e].edit = e
                            /\ [h EXCEPT !.edit = e].capturing = h.capturing
         /\ \A d \in (Nat \X Nat) \cup {None} :
               /\ Marked([h EXCEPT !.diff = d], h) /\ [h EXCEPT !.diff = d].edit = h.edit
               /\ [h EXCEPT !.diff = d].capturing = h.capturing
<1>1. Marked(h, h)
  BY DEF Marked
<1>2. \A p \in Panes : Marked([h EXCEPT !.pane = p], h) /\ [h EXCEPT !.pane = p].capturing = h.capturing
  BY DEF Marked, Histories, Panes
<1>3. \A f \in BOOLEAN : /\ Marked([h EXCEPT !.finding = f], h)
                         /\ [h EXCEPT !.finding = f].capturing = h.capturing
  BY DEF Marked, Histories
<1>4. \A c \in BOOLEAN : /\ Marked([h EXCEPT !.capturing = c], h)
                         /\ [h EXCEPT !.capturing = c].capturing = c
                         /\ [h EXCEPT !.capturing = c].edit = h.edit
  BY DEF Marked, Histories
<1>5. \A c \in {"b", "t"} : /\ Marked([h EXCEPT !.handle = c], h)
                            /\ [h EXCEPT !.handle = c].capturing = h.capturing
  BY DEF Marked, Histories
<1>6. \A e \in Nat : /\ Marked([h EXCEPT !.edit = e], h) /\ [h EXCEPT !.edit = e].edit = e
                     /\ [h EXCEPT !.edit = e].capturing = h.capturing
  BY DEF Marked, Histories
<1>7. \A d \in (Nat \X Nat) \cup {None} :
         /\ Marked([h EXCEPT !.diff = d], h) /\ [h EXCEPT !.diff = d].edit = h.edit
         /\ [h EXCEPT !.diff = d].capturing = h.capturing
  BY DEF Marked, Histories
<1> QED BY <1>1, <1>2, <1>3, <1>4, <1>5, <1>6, <1>7

(* A comparison of other runs.                                             *)
LEMMA HistoryEnds ==
  ASSUME NEW h \in Histories, NEW n \in Nat, NEW b \in Nat, NEW t \in Nat,
         NEW d \in (Nat \X Nat) \cup {None}
  PROVE  /\ Compared([h EXCEPT !.base = b, !.target = t], h, h.runs, b, t)
         /\ Compared([h EXCEPT !.base = b, !.target = t, !.pane = "changes"], h, h.runs, b, t)
         /\ Compared([h EXCEPT !.base = b], h, h.runs, b, h.target)
         /\ Compared([h EXCEPT !.target = t], h, h.runs, h.base, t)
         /\ Compared([h EXCEPT !.runs = n, !.base = b, !.target = t, !.diff = d], h, n, b, t)
<1>1. Compared([h EXCEPT !.base = b, !.target = t], h, h.runs, b, t)
  BY DEF Compared, Histories
<1>2. Compared([h EXCEPT !.base = b, !.target = t, !.pane = "changes"], h, h.runs, b, t)
  BY DEF Compared, Histories
<1>3. Compared([h EXCEPT !.base = b], h, h.runs, b, h.target)
  BY DEF Compared, Histories
<1>4. Compared([h EXCEPT !.target = t], h, h.runs, h.base, t)
  BY DEF Compared, Histories
<1>5. Compared([h EXCEPT !.runs = n, !.base = b, !.target = t, !.diff = d], h, n, b, t)
  BY DEF Compared, Histories
<1> QED BY <1>1, <1>2, <1>3, <1>4, <1>5

LEMMA HistoryFields ==
  ASSUME NEW h \in Histories
  PROVE  /\ h.pane \in Panes /\ h.scoped \in BOOLEAN /\ h.runs \in Nat /\ h.base \in Nat /\ h.target \in Nat
         /\ h.handle \in {"b", "t"} /\ h.diff \in (Nat \X Nat) \cup {None} /\ h.edit \in Nat
         /\ h.finding \in BOOLEAN /\ h.capturing \in BOOLEAN
  BY DEF Histories, Panes

LEMMA InvHistory ==
  ASSUME ScreensInv
  PROVE  hist \in Histories /\ EndsOK(hist)
  BY DEF ScreensInv, TypeOK, HistoryWaits, EndsOK

(* At most one request more, and none that a VM's timeline waits for.      *)
Small(n) == n = {} \/ \E a \in Asks : a.kind \in {"runs", "diff", "capture", "updated"} /\ n = {a}

LEMMA HistoryKey ==
  ASSUME ScreensInv, UNCHANGED <<ret, row, typing, form, ds, tl, names>>, text' \in BOOLEAN,
         mode' \in Bare \/ (mode' = "runEdit" /\ hist'.edit # 0),
         hist' \in Histories, EndsOK(hist'),
         NEW n, Small(n), Asking(n), hist'.capturing => hist.capturing \/ \E a \in n : a.kind = "capture"
  PROVE  ScreensInv'
<1>1. n \in SUBSET Asks /\ IsFiniteSet(n) /\ \A a \in n : a.kind \notin TimelineKinds
  <2>1. CASE n = {}
    BY <2>1, FS_EmptySet
  <2>2. ASSUME NEW a \in Asks, a.kind \in {"runs", "diff", "capture", "updated"}, n = {a}
        PROVE  n \in SUBSET Asks /\ IsFiniteSet(n) /\ \A x \in n : x.kind \notin TimelineKinds
    BY <2>2, FS_Singleton DEF TimelineKinds
  <2> QED BY <2>1, <2>2 DEF Small
<1>2. RequestsOK' /\ Leaves(asks \cup n) /\ FormWaits' /\ FilesWait' /\ TimelineCounts'
  BY <1>1, AskingKeeps
<1>3. HistoryWaits'
  <2>1. hist'.capturing => InFlight("capture")' # {}
    <3>1. SUFFICES ASSUME hist'.capturing PROVE InFlight("capture")' # {}
      OBVIOUS
    <3>2. \E a \in asks \cup n : a.kind = "capture"
      BY <3>1 DEF ScreensInv, HistoryWaits, InFlight
    <3> QED BY <1>2, <3>2 DEF Leaves, InFlight
  <2> QED BY <2>1 DEF HistoryWaits, EndsOK
<1>4. ModesOK' /\ ScreenHasSubject'
  <2>1. CASE mode' \in Bare
    BY <2>1, InvModes, BareScreens DEF ModesOK, ScreenHasSubject, HasSubject, Bare
  <2>2. CASE mode' = "runEdit" /\ hist'.edit # 0
    BY <2>2, InvModes DEF ModesOK, Modes, ScreenHasSubject, HasSubject
  <2> QED BY <2>1, <2>2
<1>5. TypeOK'
  BY <1>2, <1>4 DEF ScreensInv, TypeOK, RequestsOK
<1> QED BY <1>2, <1>3, <1>4, <1>5 DEF ScreensInv, RequestsOK

(* An answer moves the ends and asks for what follows, and may take the    *)
(* user from an edited run back to the history.                            *)
LEMMA HistoryAnswer ==
  ASSUME ScreensInv, NEW a \in asks, a.kind \in {"runs", "coverage", "diff", "updated", "capture"},
         NEW n \in SUBSET Asks, IsFiniteSet(n), \A x \in n : x.kind \notin TimelineKinds,
         asks' = (asks \ {a}) \cup n,
         UNCHANGED <<ret, row, typing, text, names, form, ds, tl, perf, net>>,
         (mode' = mode /\ hist'.edit = hist.edit) \/ mode' = "changes",
         hist' \in Histories, EndsOK(hist'), hist'.capturing => hist.capturing /\ a.kind # "capture"
  PROVE  ScreensInv'
<1>1. AsksOK' /\ FormWaits' /\ FilesWait' /\ TimelineCounts' /\ ChartsWait' /\ NetWaits'
  BY AnswerKeeps DEF FormKinds, FilesKinds, TimelineKinds
<1>2. HistoryWaits'
  <2>1. hist'.capturing => InFlight("capture")' # {}
    BY DEF ScreensInv, HistoryWaits, InFlight
  <2> QED BY <2>1 DEF HistoryWaits, EndsOK
<1>3. ModesOK'
  BY InvModes DEF ModesOK, Modes
<1>4. ScreenHasSubject'
  <2>1. CASE mode' = mode /\ hist'.edit = hist.edit
    BY <2>1, SubjectsStay DEF ScreensInv
  <2>2. CASE mode' = "changes"
    BY <2>2 DEF ScreenHasSubject, HasSubject
  <2> QED BY <2>1, <2>2
<1>5. TypeOK'
  BY <1>1, <1>3 DEF ScreensInv, TypeOK
<1> QED BY <1>1, <1>2, <1>3, <1>4, <1>5 DEF ScreensInv

LEMMA DiffAsked ==
  ASSUME NEW b \in Nat, NEW t \in Nat
  PROVE  /\ Small(Diff(b, t)) /\ Diff(b, t) \in SUBSET Asks /\ IsFiniteSet(Diff(b, t))
         /\ \A x \in Diff(b, t) : x.kind \notin TimelineKinds
<1>1. CASE Diff(b, t) = {}
  BY <1>1, FS_EmptySet DEF Small
<1>2. CASE Diff(b, t) = {[kind |-> "diff", base |-> b, target |-> t]}
  <2> DEFINE a == [kind |-> "diff", base |-> b, target |-> t]
  <2>1. a \in Asks /\ a.kind = "diff" /\ Diff(b, t) = {a}
    BY <1>2, AskMade
  <2> HIDE DEF a
  <2>2. Small(Diff(b, t)) /\ (\A x \in Diff(b, t) : x.kind \notin TimelineKinds)
    BY <2>1 DEF Small, TimelineKinds
  <2> QED BY <2>1, <2>2, FS_Singleton
<1> QED BY <1>1, <1>2 DEF Diff

(* What a key makes of the history, and the request it sends.              *)
HistoryMoves == /\ hist' \in Histories /\ EndsOK(hist') /\ hist'.capturing = hist.capturing
                /\ \E n : Small(n) /\ Asking(n)

LEMMA EndsMarked ==
  ASSUME NEW h \in Histories, EndsOK(h), NEW v, Marked(v, h)
  PROVE  v \in Histories /\ EndsOK(v)
  BY DEF Marked, EndsOK

LEMMA EndsCompared ==
  ASSUME NEW h \in Histories, NEW n \in Nat, NEW b \in Nat, NEW t \in Nat, NEW v, Compared(v, h, n, b, t),
         n >= 2 => b \in 1..n /\ t \in 1..n /\ b < t
  PROVE  v \in Histories /\ EndsOK(v) /\ v.capturing = h.capturing /\ v.edit = h.edit
  BY DEF Compared, EndsOK

(* The end that is chosen takes its place, on its own side of the other.   *)
LEMMA EndChosen ==
  ASSUME ScreensInv, NEW role \in {"b", "t"}, NEW id \in 1..hist.runs, setComparisonEnd(role, id)
  PROVE  HistoryMoves
<1>1. hist \in Histories /\ EndsOK(hist) /\ hist.runs \in Nat /\ hist.base \in Nat /\ hist.target \in Nat /\ id \in Nat
  BY InvHistory, HistoryFields
<1> DEFINE b == IF role = "b" THEN id ELSE hist.base
           t == IF role = "t" THEN id ELSE hist.target
           lo == IF Index(b) < Index(t) THEN t ELSE b
           hi == IF Index(b) < Index(t) THEN b ELSE t
<1>2. Ends2(hist, role, id) = [hist EXCEPT !.base = lo, !.target = hi]
  BY DEF Ends2
<1>3. b \in Nat /\ t \in Nat /\ (hist.runs >= 2 => b \in 1..hist.runs /\ t \in 1..hist.runs /\ b # t)
  BY <1>1 DEF setComparisonEnd, EndsOK
<1>4. hist.runs >= 2 => Index(b) = hist.runs - b /\ Index(t) = hist.runs - t
  BY <1>3 DEF Index
<1>5. lo \in Nat /\ hi \in Nat /\ (hist.runs >= 2 => lo \in 1..hist.runs /\ hi \in 1..hist.runs /\ lo < hi)
  <2> HIDE DEF b, t
  <2> QED BY <1>1, <1>3, <1>4
<1> DEFINE h == [hist EXCEPT !.base = lo, !.target = hi]
<1> HIDE DEF b, t, lo, hi
<1>6. Compared(h, hist, hist.runs, lo, hi)
  BY <1>1, <1>5, HistoryEnds
<1>7. h \in Histories /\ EndsOK(h) /\ h.capturing = hist.capturing /\ h.base = lo /\ h.target = hi
  BY <1>1, <1>5, <1>6, EndsCompared DEF Compared
<1>8. hist' = [h EXCEPT !.pane = "changes"] /\ Asking(Diff(h.base, h.target))
  BY <1>2 DEF setComparisonEnd
<1> HIDE DEF h
<1>9. Marked(hist', h) /\ hist'.capturing = h.capturing
  BY <1>7, <1>8, HistoryMarks DEF Panes
<1>10. Small(Diff(h.base, h.target))
  BY <1>5, <1>7, DiffAsked
<1> QED BY <1>7, <1>8, <1>9, <1>10, EndsMarked DEF HistoryMoves

(* One run older or newer: never past the other end.                       *)
LEMMA HandleMoved ==
  ASSUME ScreensInv, moveScrubHandle
  PROVE  HistoryMoves
<1>1. /\ hist \in Histories /\ hist.runs \in Nat /\ hist.base \in Nat /\ hist.target \in Nat
      /\ hist.base \in 1..hist.runs /\ hist.target \in 1..hist.runs /\ hist.base < hist.target
  BY InvHistory, HistoryFields DEF moveScrubHandle, EndsOK
<1>2. PICK step \in {-1, 1} :
        LET active == IF hist.handle = "b" THEN hist.base ELSE hist.target
            other  == IF hist.handle = "b" THEN hist.target ELSE hist.base
            i      == active + step
            h      == IF hist.handle = "b" THEN [hist EXCEPT !.base = i] ELSE [hist EXCEPT !.target = i] IN
        i \in 1..hist.runs /\ i # other /\ hist' = h /\ Asking(Diff(h.base, h.target))
  BY DEF moveScrubHandle
<1>3. CASE hist.handle = "b"
  <2> DEFINE i == hist.base + step
  <2>1. i \in 1..hist.runs /\ i # hist.target /\ hist' = [hist EXCEPT !.base = i]
        /\ Asking(Diff(hist'.base, hist'.target))
    BY <1>2, <1>3
  <2>2. i \in Nat /\ i < hist.target
    BY <1>1, <2>1
  <2> HIDE DEF i
  <2>3. Compared(hist', hist, hist.runs, i, hist.target)
    BY <1>1, <2>1, <2>2, HistoryEnds
  <2>4. hist' \in Histories /\ EndsOK(hist') /\ hist'.capturing = hist.capturing
    BY <1>1, <2>1, <2>2, <2>3, EndsCompared
  <2>5. Small(Diff(hist'.base, hist'.target))
    BY <1>1, <2>2, <2>3, DiffAsked DEF Compared
  <2> QED BY <2>1, <2>4, <2>5 DEF HistoryMoves
<1>4. CASE hist.handle # "b"
  <2> DEFINE i == hist.target + step
  <2>1. i \in 1..hist.runs /\ i # hist.base /\ hist' = [hist EXCEPT !.target = i]
        /\ Asking(Diff(hist'.base, hist'.target))
    BY <1>2, <1>4
  <2>2. i \in Nat /\ hist.base < i
    BY <1>1, <2>1
  <2> HIDE DEF i
  <2>3. Compared(hist', hist, hist.runs, hist.base, i)
    BY <1>1, <2>1, <2>2, HistoryEnds
  <2>4. hist' \in Histories /\ EndsOK(hist') /\ hist'.capturing = hist.capturing
    BY <1>1, <2>1, <2>2, <2>3, EndsCompared
  <2>5. Small(Diff(hist'.base, hist'.target))
    BY <1>1, <2>2, <2>3, DiffAsked DEF Compared
  <2> QED BY <2>1, <2>4, <2>5 DEF HistoryMoves
<1> QED BY <1>3, <1>4

(* A key that moves nothing and asks nothing.                              *)
LEMMA MarkedKey ==
  ASSUME ScreensInv, Marked(hist', hist), hist'.capturing = hist.capturing, Asking({})
  PROVE  HistoryMoves
  BY InvHistory, EndsMarked DEF HistoryMoves, Small

LEMMA HistoryMoved ==
  ASSUME ScreensInv, HistoryMoves, UNCHANGED <<ret, row, typing, form, ds, tl, names>>, text' \in BOOLEAN,
         mode' \in Bare \/ (mode' = "runEdit" /\ hist'.edit # 0)
  PROVE  ScreensInv'
  BY HistoryKey DEF HistoryMoves

LEMMA EnterChangesHolds ==
  ASSUME ScreensInv, enterChanges
  PROVE  ScreensInv'
<1>1. UNCHANGED <<ret, row, typing, text, form, ds, tl, names>> /\ mode' = "changes" /\ Asking({Runs})
  BY DEF enterChanges, Go, over
<1>2. PICK sc \in BOOLEAN : hist' = [hist EXCEPT !.pane = "changes", !.handle = "t", !.finding = FALSE, !.scoped = sc]
  BY DEF enterChanges
<1>3. hist \in Histories /\ EndsOK(hist)
  BY InvHistory
<1>4. Marked(hist', hist) /\ hist'.capturing = hist.capturing
  BY ONLY <1>2, <1>3 DEF Marked, Histories
<1>5. hist' \in Histories /\ EndsOK(hist')
  BY <1>3, <1>4, EndsMarked
<1>6. Small({Runs})
  BY AskMade DEF Small, Runs
<1>7. text' \in BOOLEAN
  BY <1>1, InvModes DEF ModesOK
<1> QED BY <1>1, <1>4, <1>5, <1>6, <1>7, HistoryKey DEF Bare

(* The keys of the history's panes.                                        *)
LEMMA ChangesKeyHolds ==
  ASSUME ScreensInv, ChangesKey
  PROVE  ScreensInv'
<1>1. UNCHANGED <<ret, row, typing, text, form, ds, tl, names>> /\ mode = "changes" /\ text' \in BOOLEAN
  BY InvModes DEF ChangesKey, At, over, ModesOK
<1>2. hist \in Histories /\ EndsOK(hist) /\ hist.runs \in Nat /\ hist.target \in Nat /\ hist.edit \in Nat
  BY InvHistory, HistoryFields
<1>3. CASE mode' = mode /\ Asking({}) /\ \E p \in Panes : hist' = [hist EXCEPT !.pane = p]
  <2>1. PICK p \in Panes : hist' = [hist EXCEPT !.pane = p]
    BY <1>3
  <2>2. Marked(hist', hist) /\ hist'.capturing = hist.capturing
    BY ONLY <1>2, <2>1, HistoryMarks
  <2>3. HistoryMoves
    BY <1>3, <2>2, MarkedKey
  <2> QED BY <1>1, <1>3, <2>3, HistoryMoved DEF Bare
<1>4. CASE mode' = mode /\ hist' = [hist EXCEPT !.capturing = TRUE] /\ Asking({[kind |-> "capture"]})
  <2> DEFINE a == [kind |-> "capture"]
  <2>1. a \in Asks /\ a.kind = "capture" /\ Asking({a})
    BY <1>4, AskMade
  <2> HIDE DEF a
  <2>2. Small({a}) /\ \E x \in {a} : x.kind = "capture"
    BY <2>1 DEF Small
  <2>3. hist' \in Histories /\ EndsOK(hist')
    BY <1>2, <1>4, HistoryMarks, EndsMarked
  <2> QED BY <1>1, <1>4, <2>1, <2>2, <2>3, HistoryKey DEF Bare
<1>5. CASE mode' = mode /\ hist' = [hist EXCEPT !.finding = TRUE] /\ Asking({})
  <2>1. HistoryMoves
    BY <1>2, <1>5, HistoryMarks, MarkedKey
  <2> QED BY <1>1, <1>5, <2>1, HistoryMoved DEF Bare
<1>6. CASE mode' = mode /\ \E id \in 1..hist.runs, role \in {"b", "t"} : setComparisonEnd(role, id)
  BY <1>1, <1>6, EndChosen, HistoryMoved DEF Bare
<1>7. CASE mode' = mode /\ \E id \in 2..hist.runs :
             hist' = [hist EXCEPT !.base = id - 1, !.target = id, !.pane = "changes"] /\ Asking(Diff(id - 1, id))
  <2>1. PICK id \in 2..hist.runs :
          hist' = [hist EXCEPT !.base = id - 1, !.target = id, !.pane = "changes"] /\ Asking(Diff(id - 1, id))
    BY <1>7
  <2> DEFINE b == id - 1
  <2>2. id \in Nat /\ b \in Nat /\ b \in 1..hist.runs /\ id \in 1..hist.runs /\ b < id
    BY <1>2
  <2>3. hist' = [hist EXCEPT !.base = b, !.target = id, !.pane = "changes"] /\ Asking(Diff(b, id))
    BY <2>1
  <2> HIDE DEF b
  <2>4. Compared(hist', hist, hist.runs, b, id)
    BY <1>2, <2>2, <2>3, HistoryEnds
  <2>5. hist' \in Histories /\ EndsOK(hist') /\ hist'.capturing = hist.capturing
    BY <1>2, <2>2, <2>4, EndsCompared
  <2>6. HistoryMoves
    BY <2>2, <2>3, <2>5, DiffAsked DEF HistoryMoves
  <2> QED BY <1>1, <1>7, <2>6, HistoryMoved DEF Bare
<1>8. CASE Go("runEdit") /\ \E id \in 1..hist.runs : hist' = [hist EXCEPT !.edit = id] /\ Asking({})
  <2>1. PICK id \in 1..hist.runs : hist' = [hist EXCEPT !.edit = id] /\ Asking({})
    BY <1>8
  <2>2. id \in Nat /\ id # 0
    BY <1>2
  <2>3. Marked(hist', hist) /\ hist'.capturing = hist.capturing /\ hist'.edit # 0
    BY ONLY <1>2, <2>1, <2>2 DEF Marked, Histories
  <2>4. HistoryMoves
    BY <2>1, <2>3, MarkedKey
  <2> QED BY <1>1, <1>8, <2>3, <2>4, HistoryMoved DEF Go
<1>9. CASE mode' = mode /\ hist' = hist /\ Asking({[kind |-> "updated"]})
  <2>1. Small({[kind |-> "updated"]})
    BY AskMade DEF Small
  <2> QED BY <1>1, <1>2, <1>9, <2>1, HistoryKey DEF Bare
<1>10. CASE mode' = mode /\ moveScrubHandle
  BY <1>1, <1>10, HandleMoved, HistoryMoved DEF Bare
<1>11. CASE mode' = mode /\ \E c \in {"b", "t"} : hist' = [hist EXCEPT !.handle = c] /\ Asking({})
  <2>1. PICK c \in {"b", "t"} : hist' = [hist EXCEPT !.handle = c]
    BY <1>11
  <2>2. Marked(hist', hist) /\ hist'.capturing = hist.capturing
    BY ONLY <1>2, <2>1, HistoryMarks
  <2>3. HistoryMoves
    BY <1>11, <2>2, MarkedKey
  <2> QED BY <1>1, <1>11, <2>3, HistoryMoved DEF Bare
<1>12. CASE mode' = mode /\ \E b \in 1..(hist.target - 1) : hist' = [hist EXCEPT !.base = b] /\ Asking(Diff(b, hist.target))
  <2>1. PICK b \in 1..(hist.target - 1) : hist' = [hist EXCEPT !.base = b] /\ Asking(Diff(b, hist.target))
    BY <1>12
  <2>2. b \in Nat /\ (hist.runs >= 2 => b \in 1..hist.runs /\ hist.target \in 1..hist.runs /\ b < hist.target)
    BY <1>2 DEF EndsOK
  <2>3. Compared(hist', hist, hist.runs, b, hist.target)
    BY <1>2, <2>1, <2>2, HistoryEnds
  <2>4. hist' \in Histories /\ EndsOK(hist') /\ hist'.capturing = hist.capturing
    BY <1>2, <2>2, <2>3, EndsCompared
  <2>5. HistoryMoves
    BY <1>2, <2>1, <2>2, <2>4, DiffAsked DEF HistoryMoves
  <2> QED BY <1>1, <1>12, <2>5, HistoryMoved DEF Bare
<1>13. CASE mode' \in {"pickRun", "changeDetail"} /\ hist' = hist /\ Asking({})
  <2>1. HistoryMoves
    BY <1>2, <1>13, HistoryMarks, MarkedKey
  <2> QED BY <1>1, <1>13, <2>1, HistoryMoved DEF Bare
<1> QED BY <1>3, <1>4, <1>5, <1>6, <1>7, <1>8, <1>9, <1>10, <1>11, <1>12, <1>13 DEF ChangesKey, Panes, Go

LEMMA PickRunHolds ==
  ASSUME ScreensInv, PickRun
  PROVE  ScreensInv'
<1>1. UNCHANGED <<ret, row, typing, text, form, ds, tl, names>> /\ mode' = "changes" /\ text' \in BOOLEAN
  BY InvModes DEF PickRun, Go, over, ModesOK
<1>2. hist.handle \in {"b", "t"}
  BY InvHistory, HistoryFields
<1>3. HistoryMoves
  BY <1>2, EndChosen DEF PickRun
<1> QED BY <1>1, <1>3, HistoryMoved DEF Bare

LEMMA EscChangesHolds ==
  ASSUME ScreensInv, EscChanges
  PROVE  ScreensInv'
<1>1. UNCHANGED <<ret, row, typing, form, ds, tl, names>> /\ mode = "changes" /\ Asking({})
  BY DEF EscChanges, At
<1>2. hist \in Histories /\ text \in BOOLEAN
  BY InvHistory, InvModes DEF ModesOK
<1>3. /\ hist' = hist \/ hist' = [hist EXCEPT !.finding = FALSE] \/ hist' = [hist EXCEPT !.pane = "changes"]
      /\ mode' \in {"changes", "browse"} /\ text' \in BOOLEAN
  BY <1>1, <1>2 DEF EscChanges, Go
<1>5. Marked(hist', hist) /\ hist'.capturing = hist.capturing
  BY ONLY <1>2, <1>3 DEF Marked, Histories
<1>4. HistoryMoves
  BY <1>1, <1>5, MarkedKey
<1> QED BY <1>1, <1>3, <1>4, HistoryMoved DEF Bare

(* What an answer makes of the history, and the requests that follow it.   *)
HistoryFollows(s) ==
    \E n : /\ n \in SUBSET Asks /\ IsFiniteSet(n) /\ (\A x \in n : x.kind \notin TimelineKinds)
          /\ asks' = s \cup n
          /\ hist' \in Histories /\ EndsOK(hist') /\ hist'.capturing = hist.capturing /\ hist'.edit = hist.edit

LEMMA RunsAnswer ==
  ASSUME ScreensInv, NEW a \in asks, a.kind = "runs", historyRunsMsg(a)
  PROVE  ScreensInv'
<1>1. UNCHANGED <<mode, ret, row, typing, text, names, form, ds, tl, perf, net>>
  BY DEF historyRunsMsg, over
<1>2. /\ hist \in Histories /\ EndsOK(hist) /\ hist.diff \in (Nat \X Nat) \cup {None} /\ MaxRuns \in Nat
      /\ asks \in SUBSET Asks
  BY InvHistory, HistoryFields, ScreensAssumption DEF ScreensInv, TypeOK, AsksOK
<1> DEFINE c == [kind |-> "coverage"]
<1>3. c \in Asks /\ c.kind = "coverage" /\ IsFiniteSet({c})
  BY AskMade, FS_Singleton
<1>4. HistoryFollows(asks \ {a})
  <2>1. CASE hist' = hist /\ asks' = asks \ {a}
    <3>1. asks' = (asks \ {a}) \cup {}
      BY <2>1
    <3>2. {} \in SUBSET Asks /\ IsFiniteSet({}) /\ \A x \in {} : x.kind \notin TimelineKinds
      BY FS_EmptySet
    <3> QED BY <1>2, <2>1, <3>1, <3>2 DEF HistoryFollows
  <2>2. ASSUME NEW n \in 0..MaxRuns, n < 2,
               hist' = [hist EXCEPT !.runs = n, !.base = 0, !.target = 0, !.diff = None],
               asks' = (asks \ {a}) \cup {c}
        PROVE  HistoryFollows(asks \ {a})
    <3>1. n \in Nat /\ ~(n >= 2)
      BY <1>2, <2>2
    <3>2. Compared(hist', hist, n, 0, 0)
      BY <1>2, <2>2, <3>1, HistoryEnds
    <3>3. hist' \in Histories /\ EndsOK(hist') /\ hist'.capturing = hist.capturing /\ hist'.edit = hist.edit
      BY <1>2, <3>1, <3>2, EndsCompared
    <3> HIDE DEF c
    <3> QED BY <1>3, <2>2, <3>3 DEF TimelineKinds, HistoryFollows
  <2>3. ASSUME NEW n \in 0..MaxRuns, ~(n < 2), NEW b \in 1..(n - 1),
               hist' = [hist EXCEPT !.runs = n, !.base = b, !.target = n, !.diff = IF hist.scoped THEN None ELSE @],
               asks' = (asks \ {a}) \cup {c} \cup
                         IF hist.scoped THEN {} ELSE {[kind |-> "diff", base |-> b, target |-> n]}
        PROVE  HistoryFollows(asks \ {a})
    <3>1. n \in Nat /\ b \in Nat /\ b \in 1..n /\ n \in 1..n /\ b < n
      BY <1>2, <2>3
    <3> DEFINE d == IF hist.scoped THEN None ELSE hist.diff
               q == [kind |-> "diff", base |-> b, target |-> n]
    <3>2. d \in (Nat \X Nat) \cup {None} /\ hist' = [hist EXCEPT !.runs = n, !.base = b, !.target = n, !.diff = d]
      BY <1>2, <2>3
    <3>3. q \in Asks /\ q.kind = "diff" /\ IsFiniteSet({c, q})
      <4>1. q \in Asks /\ q.kind = "diff"
        BY <3>1, AskMade
      <4> HIDE DEF c, q
      <4>2. IsFiniteSet({q} \cup {c}) /\ {q} \cup {c} = {c, q}
        BY <1>3, FS_Singleton, FS_Union
      <4> QED BY <4>1, <4>2
    <3>4. asks' = (asks \ {a}) \cup {c} \/ asks' = (asks \ {a}) \cup {c, q}
      BY <2>3
    <3> HIDE DEF c, d, q
    <3>5. Compared(hist', hist, n, b, n)
      BY <1>2, <3>1, <3>2, HistoryEnds
    <3>6. hist' \in Histories /\ EndsOK(hist') /\ hist'.capturing = hist.capturing /\ hist'.edit = hist.edit
      BY <1>2, <3>1, <3>5, EndsCompared
    <3>7. /\ {c} \in SUBSET Asks /\ {c, q} \in SUBSET Asks
          /\ \A x \in {c, q} : x.kind \notin TimelineKinds
      BY <1>3, <3>3 DEF TimelineKinds
    <3>8. IsFiniteSet({c, q}) /\ IsFiniteSet({c})
      BY <1>3, <3>3
    <3>9. CASE asks' = (asks \ {a}) \cup {c}
      BY <3>6, <3>7, <3>8, <3>9 DEF HistoryFollows
    <3>10. CASE asks' = (asks \ {a}) \cup {c, q}
      BY <3>6, <3>7, <3>8, <3>10 DEF HistoryFollows
    <3> QED BY <3>4, <3>9, <3>10
  <2> QED BY <2>1, <2>2, <2>3 DEF historyRunsMsg
<1> HIDE DEF c
<1> QED BY <1>1, <1>4, HistoryAnswer DEF HistoryFollows

LEMMA CoverageAnswer ==
  ASSUME ScreensInv, NEW a \in asks, a.kind = "coverage", historyCoverageMsg(a)
  PROVE  ScreensInv'
<1>1. UNCHANGED <<mode, ret, row, typing, text, names, form, ds, tl, perf, net>>
  BY DEF historyCoverageMsg, over
<1>2. hist \in Histories /\ EndsOK(hist) /\ hist.runs \in Nat
  BY InvHistory, HistoryFields
<1>3. {} \in SUBSET Asks /\ IsFiniteSet({}) /\ \A x \in {} : x.kind \notin TimelineKinds
  BY FS_EmptySet
<1>4. HistoryFollows(asks \ {a})
  <2>1. CASE hist' \in {hist, [hist EXCEPT !.diff = None]} /\ asks' = asks \ {a}
    <3>1. asks' = (asks \ {a}) \cup {}
      BY <2>1
    <3>2. Marked(hist', hist) /\ hist'.capturing = hist.capturing /\ hist'.edit = hist.edit
      BY ONLY <1>2, <2>1 DEF Marked, Histories
    <3> QED BY <1>2, <1>3, <3>1, <3>2, EndsMarked DEF HistoryFollows
  <2>2. ASSUME NEW b \in 1..hist.runs, NEW t \in 1..hist.runs, b < t, hist.runs >= 2,
               hist' = [hist EXCEPT !.base = b, !.target = t], asks' = (asks \ {a}) \cup Diff(b, t)
        PROVE  HistoryFollows(asks \ {a})
    <3>1. b \in Nat /\ t \in Nat
      BY <1>2
    <3>2. Compared(hist', hist, hist.runs, b, t)
      BY <1>2, <2>2, <3>1, HistoryEnds
    <3>3. hist' \in Histories /\ EndsOK(hist') /\ hist'.capturing = hist.capturing /\ hist'.edit = hist.edit
      BY <1>2, <2>2, <3>1, <3>2, EndsCompared
    <3> QED BY <2>2, <3>1, <3>3, DiffAsked DEF HistoryFollows
  <2> QED BY <2>1, <2>2 DEF historyCoverageMsg
<1> QED BY <1>1, <1>4, HistoryAnswer DEF HistoryFollows

LEMMA OtherHistoryAnswers ==
  ASSUME ScreensInv, NEW a \in asks,
         \/ a.kind = "diff" /\ historyDiffMsg(a)
         \/ a.kind = "updated" /\ historyRunUpdatedMsg(a)
         \/ a.kind = "capture" /\ historyCaptureMsg(a)
  PROVE  ScreensInv'
<1>1. UNCHANGED <<ret, row, typing, text, names, form, ds, tl, perf, net>>
  BY DEF historyDiffMsg, historyRunUpdatedMsg, historyCaptureMsg, over
<1>2. hist \in Histories /\ EndsOK(hist) /\ a \in Asks
  BY InvHistory DEF ScreensInv, TypeOK, AsksOK
<1>3. {} \in SUBSET Asks /\ IsFiniteSet({}) /\ \A x \in {} : x.kind \notin TimelineKinds
  BY FS_EmptySet
<1>4. CASE a.kind = "diff" /\ historyDiffMsg(a)
  <2>1. mode' = mode /\ asks' = (asks \ {a}) \cup {}
    BY <1>4 DEF historyDiffMsg
  <2>2. PICK d \in {None, <<a.base, a.target>>} : hist' = [hist EXCEPT !.diff = d]
    BY <1>4 DEF historyDiffMsg
  <2>3. d \in (Nat \X Nat) \cup {None}
    BY <1>2, <1>4, AskFields
  <2>4. Marked(hist', hist) /\ hist'.capturing = hist.capturing /\ hist'.edit = hist.edit
    BY ONLY <1>2, <2>2, <2>3 DEF Marked, Histories
  <2> QED BY <1>1, <1>2, <1>3, <1>4, <2>1, <2>4, EndsMarked, HistoryAnswer
<1>5. CASE a.kind = "updated" /\ historyRunUpdatedMsg(a)
  <2>1. asks' = (asks \ {a}) \cup {} /\ ((mode' = mode /\ hist' = hist) \/ (mode' = "changes" /\ hist' = [hist EXCEPT !.edit = 0]))
    BY <1>5 DEF historyRunUpdatedMsg, Go
  <2>2. Marked(hist', hist) /\ hist'.capturing = hist.capturing
    BY ONLY <1>2, <2>1 DEF Marked, Histories
  <2> QED BY <1>1, <1>2, <1>3, <1>5, <2>1, <2>2, EndsMarked, HistoryAnswer
<1>6. CASE a.kind = "capture" /\ historyCaptureMsg(a)
  <2>1. mode' = mode /\ hist' = [hist EXCEPT !.capturing = FALSE]
        /\ (asks' = (asks \ {a}) \cup {} \/ asks' = (asks \ {a}) \cup {Runs})
    BY <1>6 DEF historyCaptureMsg
  <2>2. Marked(hist', hist) /\ ~hist'.capturing /\ hist'.edit = hist.edit
    BY ONLY <1>2, <2>1 DEF Marked, Histories
  <2>3. {Runs} \in SUBSET Asks /\ IsFiniteSet({Runs}) /\ \A x \in {Runs} : x.kind \notin TimelineKinds
    <3>1. Runs \in Asks /\ Runs.kind = "runs"
      BY AskMade DEF Runs
    <3> QED BY <3>1, FS_Singleton DEF TimelineKinds
  <2> QED BY <1>1, <1>2, <1>3, <1>6, <2>1, <2>2, <2>3, EndsMarked, HistoryAnswer
<1> QED BY <1>4, <1>5, <1>6

-----------------------------------------------------------------------------
(* Every step.                                                             *)

LEMMA DeliverHolds ==
  ASSUME ScreensInv, NEW a \in asks, Deliver(a)
  PROVE  ScreensInv'
<1>1. CASE FormAnswer(a)
  BY <1>1, FormAnswers
<1>2. CASE FilesAnswer(a)
  BY <1>2, FilesAnswers
<1>3. CASE a.kind = "timeline" /\ applyHistoryTimeline(a)
  BY <1>3, TimelineAnswer
<1>4. CASE a.kind = "events" /\ applyVMEvents(a)
  BY <1>4, EventsAnswer
<1>5. CASE \/ a.kind = "perf" /\ applyVMPerf(a)
           \/ a.kind = "tick" /\ applyVMPerfTick(a)
           \/ a.kind = "topology" /\ applyNetTopo(a)
           \/ a.kind = "diagnosis" /\ diagnosisMsg(a)
  BY <1>5, ChartAnswers
<1>6. CASE a.kind = "runs" /\ historyRunsMsg(a)
  BY <1>6, RunsAnswer
<1>7. CASE a.kind = "coverage" /\ historyCoverageMsg(a)
  BY <1>7, CoverageAnswer
<1>8. CASE \/ a.kind = "diff" /\ historyDiffMsg(a)
           \/ a.kind = "updated" /\ historyRunUpdatedMsg(a)
           \/ a.kind = "capture" /\ historyCaptureMsg(a)
  BY <1>8, OtherHistoryAnswers
<1> QED BY <1>1, <1>2, <1>3, <1>4, <1>5, <1>6, <1>7, <1>8 DEF Deliver, FormAnswer, FilesAnswer

LEMMA Unchanged ==
  ASSUME ScreensInv, UNCHANGED <<mode, ret, row, over, names, form, ds, tl, perf, net, hist, asks>>
  PROVE  ScreensInv'
<1>1. AsksOK' /\ ModesOK'
  BY DEF ScreensInv, TypeOK, AsksOK, ModesOK, over
<1>2. ScreenHasSubject'
  BY DEF ScreensInv, ScreenHasSubject, HasSubject
<1>3. FilesWait' /\ FormWaits' /\ ChartsWait' /\ NetWaits' /\ TimelineCounts' /\ HistoryWaits'
  BY DEF ScreensInv, FilesWait, FormWaits, ChartsWait, NetWaits, TimelineCounts, HistoryWaits, InFlight
<1> QED BY <1>1, <1>2, <1>3 DEF ScreensInv, TypeOK

LEMMA StepHolds ==
  ASSUME ScreensInv, [Next]_vars
  PROVE  ScreensInv'
<1>1. CASE \/ OpenContexts \/ OpenVLANMap \/ enterSearch \/ StartFilter \/ OpenSort \/ Open
           \/ OpenActions \/ OpenMember \/ OpenPortGroup \/ OpenHostSwitch \/ OpenPairPick
  BY <1>1, TableKeys
<1>2. CASE \/ handleFilterKey \/ ToggleHelp \/ StepOrReload \/ ConfirmDelete \/ EscList
  BY <1>2, ScreenKeys
<1>3. CASE JumpAction \/ EscScreen
  BY <1>3, LeavingKeys
<1>4. CASE ConfirmKey \/ Diagnose \/ SaveRunEdit
  BY <1>4, AskingKeys
<1>5. CASE EnterForm \/ FormKey \/ EscForm
  BY <1>5, EnterFormHolds, FormKeyHolds, EscFormHolds
<1>6. CASE OpenFiles \/ FilesKey \/ FindKey \/ EntryJump \/ EscFiles
  BY <1>6, OpenFilesHolds, FilesKeyHolds, FindKeyHolds, EntryJumpHolds, EscFilesHolds
<1>7. CASE OpenTimeline \/ TimelineKey
  BY <1>7, OpenTimelineHolds, TimelineKeyHolds
<1>8. CASE enterChanges \/ ChangesKey \/ PickRun \/ EscChanges
  BY <1>8, EnterChangesHolds, ChangesKeyHolds, PickRunHolds, EscChangesHolds
<1>9. CASE Leave
  BY <1>9, Unchanged DEF Leave
<1>10. CASE \E a \in asks : Deliver(a)
  BY <1>10, DeliverHolds
<1>11. CASE UNCHANGED vars
  BY <1>11, Unchanged DEF vars, over
<1> QED BY <1>1, <1>2, <1>3, <1>4, <1>5, <1>6, <1>7, <1>8, <1>9, <1>10, <1>11 DEF Next, Step, Esc

LEMMA InitHolds == Init => ScreensInv
<1> SUFFICES ASSUME Init PROVE ScreensInv
  OBVIOUS
<1>1. asks = {} /\ IsFiniteSet(asks) /\ Cardinality(asks) = 0
  BY FS_EmptySet DEF Init
<1>2. ModesOK
  <2>1. ret \in Returns
    BY DEF Init, Returns, Modes
  <2> QED BY <2>1 DEF Init, ModesOK, Modes
<1>3. tl \in Timelines /\ TimelineCounts
  <2>1. tl = NoTimeline /\ NoTimeline \in Timelines
    BY DEF Init, NoTimeline, Timelines, Sources
  <2>2. Fresh(asks) = {}
    BY <1>1 DEF Fresh
  <2>3. NoTimeline.inflight = 0 /\ NoTimeline.shown = None /\ NoTimeline.events = None
    BY DEF NoTimeline
  <2> QED BY <1>1, <2>1, <2>2, <2>3 DEF TimelineCounts, TimelineWaits
<1>4. hist \in Histories /\ HistoryWaits
  BY DEF Init, NoHistory, Histories, HistoryWaits
<1>5. perf \in Perfs /\ ChartsWait
  BY DEF Init, Perfs, ChartsWait
<1>6. TypeOK
  BY <1>1, <1>2, <1>3, <1>4, <1>5 DEF Init, TypeOK, AsksOK
<1>7. ScreenHasSubject /\ FilesWait /\ FormWaits /\ NetWaits
  BY DEF Init, ScreenHasSubject, HasSubject, FilesWait, FormWaits, NetWaits
<1> QED BY <1>3, <1>4, <1>5, <1>6, <1>7 DEF ScreensInv

(* Every mark of waiting has its request, every screen its subject, and    *)
(* the ends of a comparison their order, after every key and every answer. *)
THEOREM ScreensInvariant == Spec => []ScreensInv
<1>1. ScreensInv /\ [Next]_vars => ScreensInv'
  BY StepHolds
<1> QED BY InitHolds, <1>1, PTL DEF Spec

-----------------------------------------------------------------------------
(* What the invariant is for.                                              *)

(* Whatever answer comes late, the screen has its subject, the timeline is *)
(* its VM's and the baseline of the comparison is the older of its runs.   *)
THEOREM ShownBelongsHolds == Spec => []ShownBelongs
<1>1. ScreensInv => ShownBelongs
  <2> SUFFICES ASSUME ScreensInv PROVE ShownBelongs
    OBVIOUS
  <2>1. ScreenHasSubject
    BY DEF ScreensInv
  <2>2. TimelineIsOfSubject
    BY InvTimeline DEF TimelineWaits, TimelineIsOfSubject
  <2>3. BaselineIsOlder
    BY InvHistory DEF EndsOK, BaselineIsOlder
  <2> QED BY <2>1, <2>2, <2>3 DEF ShownBelongs
<1> QED BY <1>1, ScreensInvariant, PTL

(* Every mark that says the interface is waiting has a request in flight   *)
(* whose answer clears it, and the timeline counts exactly the requests    *)
(* whose answers it still takes.                                           *)
THEOREM NothingHangsHolds == Spec => []NothingHangs
<1>1. ScreensInv => NothingHangs
  <2> SUFFICES ASSUME ScreensInv PROVE NothingHangs
    OBVIOUS
  <2>1. ASSUME ds # None
        PROVE  /\ ds.loading => \E a \in InFlight("listing") : a.gen = ds.gen /\ a.path = ds.path
               /\ ds.finding => \E a \in InFlight("find") : a.gen = ds.gen
               /\ ds.detail # None /\ ds.detail.pending > 0 =>
                     \E a \in InFlight("refs") \cup InFlight("assessment") : a.gen = ds.detail.gen
    <3>1. ds \in Workspaces /\ WorkspaceWaits(asks, ds)
      BY <2>1 DEF ScreensInv, TypeOK, FilesWait
    <3>2. ASSUME ds.detail # None, ds.detail.pending > 0
          PROVE  \E a \in InFlight("refs") \cup InFlight("assessment") : a.gen = ds.detail.gen
      <4>1. ds.detail.pending \in Nat
        BY <3>1, <3>2 DEF Workspaces, Details
      <4>2. ds.detail.pending <= Cardinality(Answers(asks, ds.detail.gen))
        BY <3>1, <3>2 DEF WorkspaceWaits
      <4>3. Answers(asks, ds.detail.gen) # {}
        <5>1. SUFFICES ASSUME Answers(asks, ds.detail.gen) = {} PROVE FALSE
          OBVIOUS
        <5>2. Cardinality(Answers(asks, ds.detail.gen)) = 0
          BY <5>1, FS_EmptySet
        <5> QED BY <3>2, <4>1, <4>2, <5>2
      <4> QED BY <4>3 DEF Answers, InFlight
    <3> QED BY <3>1, <3>2 DEF WorkspaceWaits, InFlight
  <2>2. tl.inflight = Cardinality({a \in InFlight("events") : a.fresh})
    <3>1. {a \in InFlight("events") : a.fresh} = Fresh(asks)
      BY DEF InFlight, Fresh
    <3> QED BY <3>1, InvTimeline DEF TimelineWaits
  <2>3. FormWaits /\ ChartsWait /\ NetWaits /\ HistoryWaits
    BY DEF ScreensInv
  <2> QED BY <2>1, <2>2, <2>3 DEF NothingHangs, FormWaits, ChartsWait, NetWaits, HistoryWaits
<1> QED BY <1>1, ScreensInvariant, PTL
=============================================================================
