------------------------------ MODULE Timeline ------------------------------
(***************************************************************************)
(* The stored history of one VM (timeline.go, and the queries of store.go  *)
(* it uses) and the vCenter events that explain it (event_match.go).       *)
(*                                                                         *)
(* An entry of the history is [run, ctx, vm]; a run, a context row and an  *)
(* observation are as in RunDiff, and runs are given newest first.  A      *)
(* history event is [kind, run, fields, host], fields a set of             *)
(* <<field, before, after>> and host where the observation it comes with   *)
(* saw the VM.  A vCenter event is [id, t, ctx, kind, failed, fields, set, *)
(* from, to, name]: set gives the value of a field the event says it set,  *)
(* name the name it gave.                                                  *)
(***************************************************************************)
EXTENDS Integers, FiniteSets, Sequences, SequencesExt, FiniteSetsExt

CONSTANT Unknown        \* a value nobody recorded

Diff == INSTANCE RunDiff

-----------------------------------------------------------------------------
(* Lineage: which observations are of the same VM.                         *)

LineageKey(o) ==
    CASE o.vm.iu # Unknown -> <<"i", o.vm.iu>>
      [] o.vm.iu = Unknown /\ o.vm.bu # Unknown -> <<"b", o.vm.bu>>
      [] OTHER -> <<"m", o.vm.vc, o.vm.id>>

SameLineage(a, b) ==
    \/ a.vm.vc = b.vm.vc /\ a.vm.id = b.vm.id
    \/ a.vm.iu # Unknown /\ a.vm.iu = b.vm.iu
    \/ a.vm.bu # Unknown /\ a.vm.bu = b.vm.bu
    \/ LineageKey(a) = LineageKey(b)

(* queryVMHistory: the stored observations of the selected contexts.       *)
Entries(runs, selectors) ==
    LET ofRow(r, c) == [i \in DOMAIN c.vms |-> [run |-> r, ctx |-> c, vm |-> c.vms[i]]]
        ofRun(r)    == LET rows == Diff!FilterContexts(r.ctx, selectors)
                       IN  FlattenSeq([i \in DOMAIN rows |-> ofRow(r, rows[i])])
    IN  FlattenSeq([i \in DOMAIN runs |-> ofRun(runs[i])])

HistoryForContexts(runs, query, selectors) ==
    SelectSeq(Entries(runs, selectors), LAMBDA e : query \in {e.vm.name, e.vm.id, e.vm.iu, e.vm.bu})

(* A query is ambiguous when it finds two lineages, or one identifier on   *)
(* two VMs of one vCenter in one run.                                      *)
Ambiguous(seed) ==
    \E a, b \in ToSet(seed) :
        \/ LineageKey(a) # LineageKey(b)
        \/ /\ LineageKey(a)[1] # "m"
           /\ a.run.id = b.run.id /\ a.vm.vc = b.vm.vc /\ a.vm.id # b.vm.id

(* Did the run read the VMs of the vCenter the VM was seen in?             *)
CollectedVCenter(run, e, selectors) ==
    /\ run.status \in {"complete", "partial"}
    /\ \E c \in ToSet(Diff!FilterContexts(run.ctx, selectors)) :
        /\ Diff!Successful(Diff!StatusOf(c, "vm"))
        /\ IF Unknown \in {c.vc, e.vm.vc} THEN c.name = e.ctx.name ELSE c.vc = e.vm.vc

PlacementChanges(a, b) ==
    (IF a.vc # b.vc THEN Diff!Change("vcenter", a.vc, b.vc) ELSE {})
    \cup {<<p, a.place[p], b.place[p]>> :
            p \in {q \in Diff!Placements : Diff!PlacementDiffers(a.place[q], b.place[q])}}

(* e is the entry whose observation comes with the event.                  *)
HistoryEvent(kind, run, e, fields) == [kind |-> kind, run |-> run, fields |-> fields, host |-> e.vm.place["host"]]

(* What changed from one entry to the next; before has what it could not   *)
(* see filled in.  newer gives the position of a run among those that      *)
(* count, newest first.                                                    *)
StepEvents(before, after, newer, runtime, unchanged) ==
    LET fields == Diff!ChangedFields(before.vm, after.vm, runtime)
        rest   == {f \in fields : f[1] # "name"}
        same   == before.vm.name = after.vm.name
        one(c, kind, changes) == IF c THEN <<HistoryEvent(kind, after.run, after, changes)>> ELSE <<>>
        snaps  == SetToSeq(Diff!CompareSnapshots(before.vm.snaps, after.vm.snaps))
    IN  one(newer[after.run.id] < newer[before.run.id] - 1, "appeared", {})
        \o one(~same, "renamed", Diff!Change("name", before.vm.name, after.vm.name))
        \o one(Diff!Moved(before.vm, after.vm), "moved", PlacementChanges(before.vm, after.vm))
        \o one(rest # {}, "modified", rest)
        \o [i \in DOMAIN snaps |-> HistoryEvent("snapshot-" \o snaps[i][1], after.run, after, {})]
        \o one(unchanged /\ rest = {} /\ same, "observed", {})

(* A VM gone by the next run that counts, if that run read its vCenter.    *)
VanishedEvents(entries, runs, selectors) ==
    LET seen    == {e.run.id : e \in ToSet(entries)}
        last(r) == CHOOSE e \in ToSet(entries) : e.run.id = r.id
        gone(i) == /\ i > 1 /\ runs[i].id \in seen /\ runs[i - 1].id \notin seen
                   /\ CollectedVCenter(runs[i - 1], last(runs[i]), selectors)
        at      == SetToSortSeq({i \in DOMAIN runs : gone(i)}, LAMBDA a, b : a > b)
    IN  [k \in DOMAIN at |-> HistoryEvent("vanished", runs[at[k] - 1], last(runs[at[k]]), {})]

(* TimelineForContexts.  A VM a live capture has seen is followed through  *)
(* live captures only.                                                     *)
TimelineForContexts(allRuns, query, selectors, runtime, unchanged) ==
    LET seed    == HistoryForContexts(allRuns, query, selectors)
        found   == SelectSeq(Entries(Reverse(allRuns), selectors), LAMBDA e : SameLineage(seed[Len(seed)], e))
        live    == \E e \in ToSet(found) : ~e.run.imported
        entries == SelectSeq(found, LAMBDA e : ~(live /\ e.run.imported))
        runs    == SelectSeq(Diff!RunsRecording(allRuns, selectors, FALSE), LAMBDA r : ~(live /\ r.imported))
        newer   == [id \in {r.id : r \in ToSet(runs)} |-> CHOOSE i \in DOMAIN runs : runs[i].id = id]
        walk[n \in 1..Len(entries)] ==
            IF n = 1
            THEN [known  |-> Diff!Learn(Diff!NothingKnown, entries[1].vm),
                  events |-> <<HistoryEvent("first_seen", entries[1].run, entries[1], {})>>]
            ELSE LET prev   == walk[n - 1]
                     before == [entries[n - 1] EXCEPT !.vm = Diff!Fill(prev.known, @)]
                 IN  [known  |-> Diff!Learn(prev.known, entries[n].vm),
                      events |-> prev.events \o StepEvents(before, entries[n], newer, runtime, unchanged)]
        events == walk[Len(entries)].events \o VanishedEvents(entries, runs, selectors)
    IN  IF seed = <<>> \/ Ambiguous(seed) THEN <<>>
        ELSE SortSeq(events, LAMBDA a, b : a.run.at < b.run.at)

-----------------------------------------------------------------------------
(* Explaining it.  Runs here are [id, at, end, offset], oldest first;      *)
(* offset gives the clock difference the run measured, where it did.       *)

OnRunClock(e, r) == IF e.ctx \in DOMAIN r.offset THEN e.t - r.offset[e.ctx] ELSE e.t

ToleranceAt(e, r) == IF e.ctx \in DOMAIN r.offset THEN 0 ELSE 5

RunEnd(r) == IF r.end > r.at THEN r.end ELSE r.at

(* sort.Search over 0..n-1, and one more: the first position, counted from *)
(* one, whose run started at or after the event.                           *)
FirstRunAfter(e, runs) ==
    LET search[i \in 0..Len(runs), j \in 0..Len(runs)] ==
            IF i >= j THEN i
            ELSE LET h == (i + j) \div 2 IN
                 IF OnRunClock(e, runs[h + 1]) <= runs[h + 1].at THEN search[i, h] ELSE search[h + 1, j]
    IN  search[0, Len(runs)] + 1

(* An event logged while a run was collecting may or may not be in it.     *)
During(e, runs) ==
    LET i == FirstRunAfter(e, runs) IN
    IF i > 1 /\ OnRunClock(e, runs[i - 1]) <= RunEnd(runs[i - 1]) THEN i - 1 ELSE 0

ExplainedBy(kind) ==
    CASE kind \in {"first_seen", "appeared"} -> "created"
      [] kind = "vanished" -> "removed"
      [] kind \in {"moved", "renamed", "modified", "snapshot-created", "snapshot-removed"} -> kind
      [] OTHER -> Unknown

FieldAfter(change, name) ==
    LET f == {x \in change.fields : x[1] = name} IN
    IF f = {} THEN Unknown ELSE (CHOOSE x \in f : TRUE)[3]

FieldBefore(change, name) ==
    LET f == {x \in change.fields : x[1] = name} IN
    IF f = {} THEN Unknown ELSE (CHOOSE x \in f : TRUE)[2]

IsNameReconfiguration(e) == e.kind = "modified" /\ e.fields = {"name"}

(* The last migration between the hosts the runs recorded; else the last   *)
(* that ended on the recorded host: for a move that did not change the     *)
(* host, the one the later run saw the VM on.                              *)
PickMigration(change, events, candidates) ==
    LET before == FieldBefore(change, "host")
        after  == IF FieldAfter(change, "host") # Unknown THEN FieldAfter(change, "host") ELSE change.host
        exact  == {i \in candidates : before # Unknown /\ events[i].from = before /\ events[i].to = after}
        ended  == {i \in candidates : events[i].to \in {Unknown, after}}
    IN  IF exact # {} THEN {Max(exact)} ELSE IF ended # {} THEN {Max(ended)} ELSE {}

(* vCenter logs a rename twice, as a rename and as a reconfiguration.      *)
PickRenames(change, events, candidates) ==
    LET after  == FieldAfter(change, "name")
        fits(i) == Unknown \in {events[i].name, after} \/ events[i].name = after
        again  == {i \in candidates : IsNameReconfiguration(events[i]) /\ (after = Unknown \/ events[i].name = after)}
        rename == {i \in candidates : ~IsNameReconfiguration(events[i]) /\ fits(i)}
    IN  again \cup IF rename = {} THEN {} ELSE {Max(rename)}

ReconfigurableFields(change) ==
    {IF f[1] \in {"cpu", "memory", "name"} THEN f[1] ELSE "devices" : f \in change.fields}

(* Of the events that set a field to the value the run recorded, the last  *)
(* in the gap is the cause; one logged while the run was collecting only   *)
(* when none in the gap is.                                                *)
PickReconfigurations(change, events, candidates, gap) ==
    LET changed == ReconfigurableFields(change)
        sets(f) == {i \in candidates : f \in events[i].fields /\ f \in DOMAIN events[i].set
                                       /\ events[i].set[f] = FieldAfter(change, f)}
        inGap(f) == {i \in sets(f) : i <= gap}
        cause(f) == IF inGap(f) # {} THEN {Max(inGap(f))}
                    ELSE IF sets(f) # {} THEN {Max(sets(f))} ELSE {}
        explains(i) == \/ events[i].fields = {}
                       \/ \E f \in events[i].fields \cap changed :
                            f \notin DOMAIN events[i].set \/ i \in cause(f)
    IN  IF changed = {} THEN {} ELSE {i \in candidates : explains(i)}

ExplainersReused(change, events, used, gap) ==   \* seeded fault: an event used already explains again
    LET want == ExplainedBy(change.kind)
        candidates == {i \in DOMAIN events : ~events[i].failed /\ events[i].kind = want}
    IN  IF want = Unknown \/ candidates = {} THEN {} ELSE {Min(candidates)}

Explainers(change, events, used, gap) ==
    LET want == ExplainedBy(change.kind)
        candidates == {i \in DOMAIN events \ used :
            /\ ~events[i].failed
            /\ \/ events[i].kind = want
               \/ change.kind = "renamed" /\ IsNameReconfiguration(events[i])}
    IN  IF want = Unknown \/ candidates = {} THEN {}
        ELSE CASE change.kind = "moved"    -> PickMigration(change, events, candidates)
               [] change.kind = "renamed"  -> PickRenames(change, events, candidates)
               [] change.kind = "modified" -> PickReconfigurations(change, events, candidates, gap)
               [] OTHER                    -> {Min(candidates)}

(* The changes of a span take their events in turn: for each change the    *)
(* positions it takes.                                                     *)
ExplainSpan(changes, events, gap) ==
    LET take[n \in 0..Len(changes)] ==
            IF n = 0 THEN <<>>
            ELSE Append(take[n - 1], Explainers(changes[n], events, UNION ToSet(take[n - 1]), gap))
    IN  take[Len(changes)]

(* Span after span; what a run's own events do not explain there is        *)
(* carried to the next.  spans[s] = [events: per change, left].            *)
Free(offered, taken, lo, hi) ==
    LET idx == SetToSortSeq((lo..hi) \ UNION ToSet(taken), <)
    IN  [k \in DOMAIN idx |-> offered[idx[k]]]

SpanAfter(before, settled, offered, taken) ==
    [spans   |-> Append(before.spans,
                        [events |-> [c \in DOMAIN taken |-> {offered[i] : i \in taken[c]}],
                         left   |-> Free(offered, taken, 1, settled)]),
     carried |-> Free(offered, taken, settled + 1, Len(offered))]

PlaceSpan(before, changes, settled, own) ==
    SpanAfter(before, Len(settled), settled \o own, ExplainSpan(changes, settled \o own, Len(settled)))

PlaceEvents(changes, events, runs) ==
    LET between(s) == SelectSeq(events, LAMBDA e : During(e, runs) = 0 /\ FirstRunAfter(e, runs) = s)
        during(s)  == SelectSeq(events, LAMBDA e : During(e, runs) = s)
        pass[s \in 0..Len(runs) + 1] ==
            IF s = 0 THEN [spans |-> <<>>, carried |-> <<>>]
            ELSE PlaceSpan(pass[s - 1], changes[s], pass[s - 1].carried \o between(s),
                           IF s <= Len(runs) THEN during(s) ELSE <<>>)
    IN  pass[Len(runs) + 1].spans

(* Across the edge of a run: a change nothing of its kind explains takes   *)
(* what clock skew may have put on the other side.                         *)
NearEdge(s, spans, runs) ==
    LET before(e) == LET r == runs[s - 1] IN
                     OnRunClock(e, r) >= r.at - ToleranceAt(e, r) /\ OnRunClock(e, r) < r.at
        after(e)  == LET r == runs[s] IN
                     OnRunClock(e, r) > RunEnd(r) /\ OnRunClock(e, r) <= RunEnd(r) + ToleranceAt(e, r)
    IN  (IF s > 1 THEN SelectSeq(spans[s - 1].left, before) ELSE <<>>)
        \o (IF s <= Len(runs) THEN SelectSeq(spans[s + 1].left, after) ELSE <<>>)

TakeAcross(change, had, pool) ==
    LET want == ExplainedBy(change.kind)
    IN  IF want = Unknown \/ (\E e \in had : e.kind = want) THEN {}
        ELSE {pool[i] : i \in Explainers(change, pool, {}, Len(pool))}

RepairedSpans(changes, spans, all, across) ==
    LET taken(s, c) == across[CHOOSE n \in DOMAIN all : all[n] = <<s, c>>]
    IN  [s \in DOMAIN spans |->
            [events |-> [c \in DOMAIN changes[s] |-> spans[s].events[c] \cup taken(s, c)],
             left   |-> SelectSeq(spans[s].left, LAMBDA e : e \notin UNION ToSet(across))]]

RepairBoundaries(changes, spans, runs) ==
    LET all == FlattenSeq([s \in DOMAIN spans |-> [c \in DOMAIN changes[s] |-> <<s, c>>]])
        fix[n \in 0..Len(all)] ==          \* per change, the events taken across an edge
            IF n = 0 THEN <<>>
            ELSE Append(fix[n - 1],
                        TakeAcross(changes[all[n][1]][all[n][2]], spans[all[n][1]].events[all[n][2]],
                                   SelectSeq(NearEdge(all[n][1], spans, runs),
                                             LAMBDA e : e \notin UNION ToSet(fix[n - 1]))))
    IN  RepairedSpans(changes, spans, all, fix[Len(all)])

(* ExplainTimeline: the changes of each span with the events that account  *)
(* for them, and the events that account for none.                         *)
ExplainRuns(changes, events, runs) ==
    RepairBoundaries(changes, PlaceEvents(changes, events, runs), runs)

ChangesPerSpan(history, runs) ==
    [s \in 1..Len(runs) + 1 |-> IF s > Len(runs) THEN <<>>
                                ELSE SelectSeq(history, LAMBDA h : h.kind # "observed" /\ h.run = runs[s])]

ExplainTimeline(history, events) ==
    LET runs == SetToSortSeq({h.run : h \in ToSet(history)}, LAMBDA a, b : a.at < b.at)
    IN  ExplainRuns(ChangesPerSpan(history, runs), SortSeq(events, LAMBDA a, b : a.t < b.t), runs)
=============================================================================
