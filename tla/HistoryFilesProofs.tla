------------------------- MODULE HistoryFilesProofs -------------------------
(***************************************************************************)
(* Proofs about the history as a file, for any number of processes, files  *)
(* and captured runs, and whatever versions are found.                     *)
(*                                                                         *)
(* The invariant says of every file that its version claims no step that   *)
(* is not there (Sound); of every migration that what is missing is still  *)
(* planned (MigrationCovers); and of every restore that, as long as it has *)
(* its lease, it has kept the runs of the database it takes away           *)
(* (WorksAlone).  A step disturbs only the files it writes: OtherKeeps     *)
(* says what the other processes ask of it, StepKeeps puts that together   *)
(* with what the process itself must re-establish, and one lemma per       *)
(* action supplies both.                                                   *)
(***************************************************************************)
EXTENDS HistoryFiles, TLAPS

(* The order of the steps, spelled out.                                    *)
LEMMA RankFacts ==
    /\ Rank["legacy"] = 0 /\ Rank["runs"] = 1 /\ Rank["labels"] = 2 /\ Rank["v3"] = 3 /\ Rank["v4"] = 4
    /\ Rank["v5"] = 5 /\ Rank["v6"] = 6 /\ Rank["v7"] = 7 /\ Rank["v8"] = 8 /\ Rank["v9"] = 9
  BY DEF Rank

(* What each version claims.                                               *)
LEMMA SchemaFacts ==
    ASSUME NEW v \in 0..(Current + 1)
    PROVE  /\ v = 0 => SchemaOf(v) = {}
           /\ v = 1 => SchemaOf(v) = {"runs"}
           /\ v = 2 => SchemaOf(v) = {"runs", "labels"}
           /\ v = 3 => SchemaOf(v) = {"runs", "labels", "v3"}
           /\ v = 4 => SchemaOf(v) = {"runs", "labels", "v3", "v4"}
           /\ v = 6 => SchemaOf(v) = {"runs", "labels", "v3", "v4", "v5", "v6"}
           /\ v = 7 => SchemaOf(v) = Steps \ {"v8", "v9"}
           /\ v = 8 => SchemaOf(v) = Steps \ {"v9"}
           /\ v >= 9 => SchemaOf(v) = Steps
  BY DEF SchemaOf, Since, Steps, Current

(* The next step of a plan: no earlier one is planned.                     *)
LEMMA NextIsLeast ==
    ASSUME NEW plan \in SUBSET (Steps \cup {"legacy"}), NEW s \in plan, \A t \in plan : Rank[s] <= Rank[t]
    PROVE  /\ s # "legacy" => "legacy" \notin plan
           /\ s \notin {"legacy", "runs"} => "runs" \notin plan
           /\ s \in Steps \ {"runs", "labels"} => "labels" \notin plan
           /\ s \in {"v4", "v5", "v6", "v7", "v8", "v9"} => "v3" \notin plan
           /\ s \in {"v5", "v6", "v7", "v8", "v9"} => "v4" \notin plan
           /\ s \in {"v6", "v7", "v8", "v9"} => "v5" \notin plan
           /\ s \in {"v7", "v8", "v9"} => "v6" \notin plan
           /\ s \in {"v8", "v9"} => "v7" \notin plan
           /\ s \in {"v9"} => "v8" \notin plan
  <1>1. \A t \in plan : Rank[s] <= Rank[t]
    OBVIOUS
  <1>2. s \in {"legacy", "runs", "labels", "v3", "v4", "v5", "v6", "v7", "v8", "v9"}
    BY DEF Steps
  <1>3. s # "legacy" => "legacy" \notin plan
    BY <1>1, <1>2, RankFacts DEF Steps
  <1>4. s \notin {"legacy", "runs"} => "runs" \notin plan
    BY <1>1, <1>2, RankFacts DEF Steps
  <1>5. s \in Steps \ {"runs", "labels"} => "labels" \notin plan
    BY <1>1, <1>2, RankFacts DEF Steps
  <1>6. s \in {"v4", "v5", "v6", "v7", "v8", "v9"} => "v3" \notin plan
    BY <1>1, <1>2, RankFacts DEF Steps
  <1>7. s \in {"v5", "v6", "v7", "v8", "v9"} => "v4" \notin plan
    BY <1>1, <1>2, RankFacts DEF Steps
  <1>8. s \in {"v6", "v7", "v8", "v9"} => "v5" \notin plan
    BY <1>1, <1>2, RankFacts DEF Steps
  <1>9. s \in {"v7", "v8", "v9"} => "v6" \notin plan
    BY <1>1, <1>2, RankFacts DEF Steps
  <1>10. s \in {"v8", "v9"} => "v7" \notin plan
    BY <1>1, <1>2, RankFacts DEF Steps
  <1>11. s \in {"v9"} => "v8" \notin plan
    BY <1>1, <1>2, RankFacts DEF Steps
  <1> QED
    BY <1>3, <1>4, <1>5, <1>6, <1>7, <1>8, <1>9, <1>10, <1>11

(* What a sound database of a version has.                                 *)
LEMMA SoundSchema ==
    ASSUME NEW c \in Content, Sound(c)
    PROVE  /\ c.version \in 0..10 /\ c.version # 5 /\ c.schema \subseteq Steps
           /\ c.version >= 1 => "runs" \in c.schema
           /\ c.version >= 2 => "labels" \in c.schema
           /\ c.version >= 3 => "v3" \in c.schema
           /\ c.version >= 4 => "v4" \in c.schema
           /\ c.version >= 5 => "v5" \in c.schema /\ "v6" \in c.schema
           /\ c.version >= 7 => "v7" \in c.schema
           /\ c.version >= 8 => "v8" \in c.schema
           /\ c.version >= 9 => "v9" \in c.schema
           /\ c.version = 0 => c.schema = {}
           /\ c.version = 1 => c.schema = {"runs"}
  <1>1. c.version \in 0..(Current + 1) /\ c.version # 5 /\ c.schema \subseteq Steps
    BY DEF Content, Sound
  <1>2. \A s \in Steps : Since[s] <= c.version => s \in c.schema
    BY DEF Sound, SchemaOf
  <1> QED
    BY <1>1, <1>2 DEF Current, Steps, Since, Sound

(* migrate plans every step its version does not claim.                    *)
LEMMA PlanCovers ==
    ASSUME NEW c \in Content, Sound(c), c.version <= Current
    PROVE  /\ Steps \subseteq c.schema \cup Covers(Plan(c.version))
           /\ Plan(c.version) \in SUBSET (Steps \cup {"legacy"})
  BY SoundSchema DEF Plan, Covers, Current, Steps

(* migrateLegacy, once reached, plans what legacy stood for.               *)
LEMMA LegacyCovers ==
    ASSUME NEW c \in Content, Sound(c), NEW plan \in SUBSET (Steps \cup {"legacy"}),
           Steps \subseteq c.schema \cup Covers(plan)
    PROVE  /\ Steps \subseteq c.schema \cup Covers(LegacyPlan(c.version) \cup (plan \ {"legacy"}))
           /\ LegacyPlan(c.version) \cup (plan \ {"legacy"}) \in SUBSET (Steps \cup {"legacy"})
  <1> DEFINE l == LegacyPlan(c.version)
  <1>1. /\ l \subseteq {"runs", "labels", "v3", "v4", "v5"}
        /\ {"runs", "labels", "v3", "v4", "v5"} \subseteq c.schema \cup Covers(l)
    BY SoundSchema DEF LegacyPlan, Covers
  <1>2. Covers(l) \cup Covers(plan \ {"legacy"}) \subseteq Covers(l \cup (plan \ {"legacy"}))
    BY DEF Covers
  <1>3. Covers(plan) \subseteq Covers(plan \ {"legacy"}) \cup {"runs", "labels", "v3", "v4", "v5"}
    BY DEF Covers
  <1> QED
    BY <1>1, <1>2, <1>3 DEF Steps

(* The fields of what a file holds.                                        *)
LEMMA ContentFields ==
    ASSUME NEW c \in Content
    PROVE  /\ c = [version |-> c.version, schema |-> c.schema, runs |-> c.runs, held |-> c.held]
           /\ c.version \in 0..(Current + 1) /\ c.schema \in SUBSET Steps
           /\ c.runs \in SUBSET Runs /\ c.held \in BOOLEAN
  BY DEF Content

(* What a step that adds to the schema leaves.                             *)
LEMMA AddsFields ==
    ASSUME NEW c \in Content, NEW x \in SUBSET Steps, NEW v \in 0..(Current + 1)
    PROVE  LET d == Adds(c, x, v) IN
           /\ d \in Content /\ d.version = v
           /\ d.schema = c.schema \cup x /\ d.runs = c.runs /\ d.held = c.held
  <1>1. Adds(c, x, v) \in Content
    BY DEF Adds, Content
  <1>2. /\ Adds(c, x, v).version = v /\ Adds(c, x, v).schema = c.schema \cup x
        /\ Adds(c, x, v).runs = c.runs /\ Adds(c, x, v).held = c.held
    BY DEF Adds, Content
  <1> QED
    BY <1>1, <1>2

(* A step that records a version whose steps are all there.                *)
LEMMA Raised ==
    ASSUME NEW c \in Content, NEW x \in SUBSET Steps, NEW v \in {2, 3, 4, 6, 7, 8, 9},
           SchemaOf(v) \subseteq c.schema \cup x
    PROVE  LET d == Adds(c, x, v) IN
           /\ d \in Content /\ Sound(d) /\ d.version <= Current
           /\ d.schema = c.schema \cup x /\ d.runs = c.runs /\ d.held = c.held
  BY AddsFields DEF Sound, Current

(* A step that keeps the version.                                          *)
LEMMA Kept ==
    ASSUME NEW c \in Content, Sound(c), c.version >= 2, c.version <= Current, NEW x \in SUBSET Steps
    PROVE  LET d == Adds(c, x, c.version) IN
           /\ d \in Content /\ Sound(d) /\ d.version <= Current
           /\ d.schema = c.schema \cup x /\ d.runs = c.runs /\ d.held = c.held
  <1>1. c.version \in {2, 3, 4, 6, 7, 8, 9}
    BY ContentFields DEF Sound, Current
  <1>2. SchemaOf(c.version) \subseteq c.schema \cup x
    BY DEF Sound
  <1> QED
    BY <1>1, <1>2, Raised

(* A migration step, on a database whose missing steps are all planned:    *)
(* the database stays sound, and what is missing after it is still planned.*)
LEMMA StepEffect ==
    ASSUME NEW c \in Content, Sound(c), c.version <= Current,
           NEW plan \in SUBSET (Steps \cup {"legacy"}), NEW s \in Steps, s \in plan,
           \A t \in plan : Rank[s] <= Rank[t], Steps \subseteq c.schema \cup Covers(plan),
           NEW seen \in 0..(Current + 1), seen >= 4 => "v4" \in c.schema, seen > 4 => "v5" \in c.schema
    PROVE  LET d == AfterStep(c, s, seen) IN
           /\ d \in Content /\ Sound(d) /\ d.version <= Current
           /\ c.schema \subseteq d.schema /\ d.runs = c.runs /\ d.held = c.held
           /\ Steps \subseteq d.schema \cup Covers(plan \ {s})
  <1> DEFINE d == AfterStep(c, s, seen)
             Good == /\ d \in Content /\ Sound(d) /\ d.version <= Current
                     /\ c.schema \subseteq d.schema /\ d.runs = c.runs /\ d.held = c.held
                     /\ {s} \subseteq d.schema /\ (s = "runs" => "labels" \in d.schema) /\ (s = "labels" => "runs" \in d.schema)
  <1>1. /\ s \notin {"runs", "labels"} => {"runs", "labels"} \subseteq c.schema /\ c.version >= 2
        /\ s \in {"v4", "v5", "v6", "v7", "v8", "v9"} => "v3" \in c.schema
        /\ s \in {"v5", "v6", "v7", "v8", "v9"} => "v4" \in c.schema
        /\ s \in {"v6", "v7", "v8", "v9"} => "v5" \in c.schema
        /\ s \in {"v7", "v8", "v9"} => "v6" \in c.schema
        /\ s \in {"v8", "v9"} => "v7" \in c.schema
        /\ s = "v9" => "v8" \in c.schema
    <2>1. \A t \in Steps : t \notin c.schema => t \in Covers(plan)
      OBVIOUS
    <2>2. s # "legacy" /\ "legacy" \notin plan
      BY NextIsLeast DEF Steps
    <2>3. s \notin {"runs", "labels"} => {"runs", "labels"} \subseteq c.schema
      BY <2>1, <2>2, NextIsLeast DEF Covers, Steps
    <2>4. s \notin {"runs", "labels"} => c.version >= 2
      BY <2>3, SoundSchema
    <2>5. \A t \in {"v3", "v4", "v5", "v6", "v7", "v8"} : t \notin plan => t \in c.schema
      BY <2>1, <2>2 DEF Covers, Steps
    <2> QED
      BY <2>3, <2>4, <2>5, NextIsLeast
  <1>2. Good
    <2>1. CASE s \in {"runs", "labels"}
      <3>1. d = Adds(c, {"runs", "labels"}, 2)
        BY <2>1 DEF AfterStep, CreateTables
      <3>2. SchemaOf(2) \subseteq c.schema \cup {"runs", "labels"}
        BY SchemaFacts DEF Current
      <3>3. {"runs", "labels"} \in SUBSET Steps
        BY DEF Steps
      <3> QED
        BY <2>1, <3>1, <3>2, <3>3, Raised
    <2>2. CASE s = "v3"
      <3>1. d = Adds(c, {"v3"}, IF seen >= 3 THEN c.version ELSE 3)
        BY <2>2 DEF AfterStep, MigrateV3
      <3>2. SchemaOf(3) \subseteq c.schema \cup {"v3"}
        BY <1>1, <2>2, SchemaFacts DEF Current
      <3>3. {"v3"} \in SUBSET Steps
        BY DEF Steps
      <3>4. CASE seen >= 3
        <4>1. c.version >= 2
          BY <1>1, <2>2
        <4>2. d = Adds(c, {"v3"}, c.version)
          BY <3>1, <3>4
        <4>3. /\ d \in Content /\ Sound(d) /\ d.version <= Current
              /\ d.schema = c.schema \cup {"v3"} /\ d.runs = c.runs /\ d.held = c.held
          <5> HIDE DEF d, Good
          <5> QED
            BY <3>3, <4>1, <4>2, Kept
        <4> QED
          BY <2>2, <4>3
      <3>5. CASE ~(seen >= 3)
        BY <2>2, <3>1, <3>2, <3>3, <3>5, Raised
      <3> QED
        BY <3>4, <3>5
    <2>3. CASE s = "v4"
      <3>1. d = IF seen >= 4 THEN c ELSE Adds(c, {"v4"}, 4)
        BY <2>3 DEF AfterStep, MigrateV4
      <3>2. SchemaOf(4) \subseteq c.schema \cup {"v4"}
        BY <1>1, <2>3, SchemaFacts DEF Current
      <3>3. {"v4"} \in SUBSET Steps
        BY DEF Steps
      <3>4. CASE seen >= 4
        BY <2>3, <3>1, <3>4
      <3>5. CASE ~(seen >= 4)
        BY <2>3, <3>1, <3>2, <3>3, <3>5, Raised
      <3> QED
        BY <3>4, <3>5
    <2>4. CASE s = "v5"
      <3>1. d = IF seen > 4 THEN c ELSE Adds(c, {"v5"}, c.version)
        BY <2>4 DEF AfterStep, MigrateV5
      <3>3. {"v5"} \in SUBSET Steps
        BY DEF Steps
      <3>4. CASE seen > 4
        BY <2>4, <3>1, <3>4
      <3>5. CASE ~(seen > 4)
        <4>1. c.version >= 2
          BY <1>1, <2>4
        <4>2. d = Adds(c, {"v5"}, c.version)
          BY <3>1, <3>5
        <4>3. /\ d \in Content /\ Sound(d) /\ d.version <= Current
              /\ d.schema = c.schema \cup {"v5"} /\ d.runs = c.runs /\ d.held = c.held
          <5> HIDE DEF d, Good
          <5> QED
            BY <3>3, <4>1, <4>2, Kept
        <4> QED
          BY <2>4, <4>3
      <3> QED
        BY <3>4, <3>5
    <2>5. CASE s = "v6"
      <3>1. d = Adds(c, {"v6"}, 6)
        BY <2>5 DEF AfterStep, MigrateV6
      <3>2. SchemaOf(6) \subseteq c.schema \cup {"v6"}
        BY <1>1, <2>5, SchemaFacts DEF Current, Steps
      <3>3. {"v6"} \in SUBSET Steps
        BY DEF Steps
      <3> QED
        BY <2>5, <3>1, <3>2, <3>3, Raised
    <2>6. CASE s = "v7"
      <3>1. d = Adds(c, {"v7"}, 7)
        BY <2>6 DEF AfterStep, MigrateV7
      <3>2. SchemaOf(7) \subseteq c.schema \cup {"v7"}
        BY <1>1, <2>6, SchemaFacts DEF Current, Steps
      <3>3. {"v7"} \in SUBSET Steps
        BY DEF Steps
      <3> QED
        BY <2>6, <3>1, <3>2, <3>3, Raised
    <2>7. CASE s = "v8"
      <3>1. d = Adds(c, {"v8"}, 8)
        BY <2>7 DEF AfterStep, MigrateV8
      <3>2. SchemaOf(8) \subseteq c.schema \cup {"v8"}
        BY <1>1, <2>7, SchemaFacts DEF Current, Steps
      <3>3. {"v8"} \in SUBSET Steps
        BY DEF Steps
      <3> QED
        BY <2>7, <3>1, <3>2, <3>3, Raised
    <2>8. CASE s = "v9"
      <3>1. d = Adds(c, {"v9"}, 9)
        BY <2>8 DEF AfterStep, MigrateV9
      <3>2. SchemaOf(9) \subseteq c.schema \cup {"v9"}
        BY <1>1, <2>8, SchemaFacts DEF Current, Steps
      <3>3. {"v9"} \in SUBSET Steps
        BY DEF Steps
      <3> QED
        BY <2>8, <3>1, <3>2, <3>3, Raised
    <2> QED
      BY <2>1, <2>2, <2>3, <2>4, <2>5, <2>6, <2>7, <2>8 DEF Steps
  <1>3. Steps \subseteq d.schema \cup Covers(plan \ {s})
    <2>1. Covers(plan) \subseteq Covers(plan \ {s}) \cup {s} \cup (IF s \in {"runs", "labels"} THEN {"runs", "labels"} ELSE {})
      BY DEF Covers, Steps
    <2> HIDE DEF d
    <2> QED
      BY <1>2, <2>1
  <1> QED
    BY <1>2, <1>3
-----------------------------------------------------------------------------

(* What a step leaves to a process that has the lease after it: it had it  *)
(* before, and the history is what it was, is empty, or is put there by    *)
(* one that had lost its lease.                                            *)
LeavesTo(q) ==
    lease' = q =>
        /\ lease = q
        /\ path' # None /\ ~stray' =>
               \/ path' = path /\ ~stray /\ content'[path].runs = content[path].runs
               \/ content'[path'].runs = {}

(* What a process asks of the steps of the others.                         *)
LEMMA OtherKeeps ==
    ASSUME HistoryInv, NEW q \in Procs, pc'[q] = pc[q], proc'[q] = proc[q],
           path' \in Files \cup {None}, content' \in [Files -> Content], safety \subseteq safety',
           proc[q].file # None =>
               /\ content'[proc[q].file].version <= Current
               /\ content[proc[q].file].schema \subseteq content'[proc[q].file].schema,
           LeavesTo(q)
    PROVE  MigrationCovers(q)' /\ CopiesChecked(q)' /\ RestoreSteps(q)' /\ WorksAlone(q)'
  <1>1. pc'[q] = pc[q] /\ proc'[q] = proc[q] /\ proc[q] \in Locals
    BY DEF HistoryInv, TypeOK
  <1>2. MigrationCovers(q) /\ CopiesChecked(q) /\ RestoreSteps(q) /\ WorksAlone(q)
    BY DEF HistoryInv
  <1>3. MigrationCovers(q)'
    <2>1. proc[q].file # None => content'[proc[q].file].schema \subseteq Steps
      BY <1>1 DEF Locals, Content
    <2>2. file(q)' = proc[q].file /\ db(q)' = content'[proc[q].file] /\ file(q) = proc[q].file /\ db(q) = content[proc[q].file]
      BY <1>1 DEF db, file
    <2>3. proc[q].file # None => db(q)'.version <= Current /\ db(q).schema \subseteq db(q)'.schema /\ db(q)'.schema \subseteq Steps
      BY <2>1, <2>2
    <2>4. pc[q] \in Migrating \cup Opens => proc[q].file # None
      BY <1>2, <2>2 DEF MigrationCovers
    <2>5. pc'[q] \in Migrating => Steps \subseteq db(q)'.schema \cup Covers(proc'[q].plan)
      BY <1>1, <1>2, <2>3, <2>4 DEF MigrationCovers
    <2>6. pc'[q] \in Opens => db(q)'.schema = Steps
      BY <1>1, <1>2, <2>3, <2>4 DEF MigrationCovers
    <2>7. pc'[q] = "commit" => /\ proc'[q].seen >= 4 => "v4" \in db(q)'.schema
                               /\ proc'[q].seen > 4 => "v5" \in db(q)'.schema
      BY <1>1, <1>2, <2>3, <2>4 DEF MigrationCovers, Migrating
    <2> QED
      BY <1>1, <2>2, <2>3, <2>4, <2>5, <2>6, <2>7 DEF MigrationCovers
  <1>4. CopiesChecked(q)'
    BY <1>1, <1>2 DEF CopiesChecked
  <1>5. RestoreSteps(q)'
    BY <1>1, <1>2 DEF RestoreSteps
  <1>6. WorksAlone(q)'
    <2> SUFFICES ASSUME lease' = q, path' # None, ~stray'
                 PROVE  /\ pc'[q] \in {"copy", "remove"} /\ path' = proc'[q].from
                            => content'[path'].runs \subseteq proc'[q].kept.runs
                        /\ pc'[q] = "rename" => content'[path'].runs = {}
      BY DEF WorksAlone
    <2>1. CASE path' = path /\ ~stray /\ content'[path].runs = content[path].runs
      BY <1>1, <1>2, <2>1 DEF WorksAlone, LeavesTo
    <2>2. CASE content'[path'].runs = {}
      BY <2>2
    <2> QED
      BY <2>1, <2>2 DEF LeavesTo
  <1> QED
    BY <1>3, <1>4, <1>5, <1>6

(* A step of p: the shared state stays sound, the others get what they     *)
(* ask for, and p's own part holds again.                                  *)
LEMMA StepKeeps ==
    ASSUME HistoryInv, NEW p \in Procs, NEW l \in Labels, NEW o \in Locals,
           pc' = [pc EXCEPT ![p] = l], proc' = [proc EXCEPT ![p] = o],
           path' \in Files \cup {None}, stray' \in BOOLEAN, content' \in [Files -> Content], backup' \in Content \cup {None},
           safety' \in SUBSET Content, lease' \in Procs \cup {None}, copying' \in BOOLEAN, events' \in Nat,
           FilesSound', CopiesSound', safety \subseteq safety',
           \A q \in Procs \ {p} : proc[q].file # None =>
               /\ content'[proc[q].file].version <= Current
               /\ content[proc[q].file].schema \subseteq content'[proc[q].file].schema,
           \A q \in Procs \ {p} : LeavesTo(q),
           MigrationCovers(p)', CopiesChecked(p)', RestoreSteps(p)', WorksAlone(p)'
    PROVE  HistoryInv'
  <1>1. TypeOK'
    BY DEF TypeOK, HistoryInv
  <1>2. ASSUME NEW q \in Procs \ {p}
        PROVE  MigrationCovers(q)' /\ CopiesChecked(q)' /\ RestoreSteps(q)' /\ WorksAlone(q)'
    <2>1. pc'[q] = pc[q] /\ proc'[q] = proc[q]
      BY DEF HistoryInv, TypeOK
    <2> QED
      BY <2>1, OtherKeeps
  <1> QED
    BY <1>1, <1>2 DEF HistoryInv

(* A step that changes nothing but the locals of p.                        *)
LEMMA LocalStepKeeps ==
    ASSUME HistoryInv, NEW p \in Procs, NEW l \in Labels, NEW o \in Locals,
           pc' = [pc EXCEPT ![p] = l], proc' = [proc EXCEPT ![p] = o],
           UNCHANGED <<path, stray, content, backup, safety, lease>>, copying' \in BOOLEAN, events' \in Nat,
           MigrationCovers(p)', CopiesChecked(p)', RestoreSteps(p)', WorksAlone(p)'
    PROVE  HistoryInv'
  <1>1. /\ path \in Files \cup {None} /\ content \in [Files -> Content]
        /\ backup \in Content \cup {None} /\ safety \in SUBSET Content /\ lease \in Procs \cup {None}
    BY DEF HistoryInv, TypeOK
  <1>2. FilesSound' /\ CopiesSound'
    BY DEF HistoryInv, FilesSound, CopiesSound
  <1>3. \A q \in Procs : proc[q].file # None => content[proc[q].file].version <= Current
    BY DEF HistoryInv, MigrationCovers, db, file
  <1>4. stray' \in BOOLEAN /\ \A q \in Procs : LeavesTo(q)
    BY DEF HistoryInv, TypeOK, LeavesTo
  <1> QED
    BY <1>1, <1>2, <1>3, <1>4, StepKeeps

(* The types of the state and of the locals of a process.                  *)
LEMMA Typed ==
    ASSUME HistoryInv, NEW p \in Procs
    PROVE  /\ path \in Files \cup {None} /\ stray \in BOOLEAN /\ content \in [Files -> Content]
           /\ backup \in Content \cup {None} /\ safety \in SUBSET Content /\ lease \in Procs \cup {None}
           /\ pc \in [Procs -> Labels] /\ proc \in [Procs -> Locals] /\ pc[p] \in Labels /\ proc[p] \in Locals
           /\ proc[p].file \in Files \cup {None} /\ proc[p].plan \in SUBSET (Steps \cup {"legacy"})
           /\ proc[p].seen \in 0..(Current + 1) /\ proc[p].kept \in Content \cup {None}
           /\ proc[p].from \in Files \cup {None} /\ proc[p].copy \in Content \cup {None}
           /\ None \notin Files /\ None \notin Procs /\ None \notin Content
  BY FilesAssumption DEF HistoryInv, TypeOK, Locals

(* An open database is at this build's version or below, and sound.        *)
LEMMA OpenSound ==
    ASSUME HistoryInv, NEW p \in Procs, proc[p].file # None
    PROVE  /\ proc[p].file \in Files /\ file(p) = proc[p].file /\ db(p) = content[proc[p].file]
           /\ db(p) \in Content /\ Sound(db(p)) /\ db(p).version <= Current
  BY Typed DEF HistoryInv, FilesSound, MigrationCovers, file, db

(* What a copy holds: all but the lease, perhaps.                          *)
LEMMA CopiesOfFields ==
    ASSUME NEW c \in Content, NEW d \in CopiesOf(c)
    PROVE  /\ d \in Content /\ d.version = c.version /\ d.schema = c.schema /\ d.runs = c.runs
           /\ Sound(c) => Sound(d)
  <1>1. CASE d = c
    BY <1>1
  <1>2. CASE d = [c EXCEPT !.held = FALSE]
    <2>1. d \in Content
      BY <1>2 DEF Content
    <2>2. d.version = c.version /\ d.schema = c.schema /\ d.runs = c.runs
      BY <1>2 DEF Content
    <2> QED
      BY <2>1, <2>2 DEF Sound
  <1> QED
    BY <1>1, <1>2 DEF CopiesOf

(* A process that closes its database, fails to open it or crashes.        *)
LEMMA EndKeeps ==
    ASSUME HistoryInv, NEW p \in Procs, pc' = [pc EXCEPT ![p] = "closed"],
           proc' = [proc EXCEPT ![p] = NoLocals], UNCHANGED <<path, stray, content, backup, safety, lease>>, copying' \in BOOLEAN, events' \in Nat
    PROVE  HistoryInv'
  <1>1. NoLocals \in Locals /\ "closed" \in Labels
    BY DEF NoLocals, Locals, Current, Labels
  <1>2. pc'[p] = "closed" /\ proc'[p] = NoLocals
    BY Typed
  <1>3. NoLocals.file = None /\ NoLocals.kept = None /\ NoLocals.copy = None /\ NoLocals.from = None
    BY DEF NoLocals
  <1>4. MigrationCovers(p)' /\ CopiesChecked(p)' /\ RestoreSteps(p)' /\ WorksAlone(p)'
    BY <1>2, <1>3 DEF MigrationCovers, CopiesChecked, RestoreSteps, WorksAlone, Migrating, Opens, file
  <1> QED
    BY <1>1, <1>4, LocalStepKeeps

(* open returns: nothing is planned, so nothing is missing.                *)
LEMMA OpenedKeeps ==
    ASSUME HistoryInv, NEW p \in Procs, Opened(p), copying' \in BOOLEAN, events' \in Nat
    PROVE  HistoryInv'
  <1>1. /\ pc[p] = "migrate" /\ proc[p].plan = {} /\ proc[p].kept = None
        /\ pc' = [pc EXCEPT ![p] = "open"] /\ proc' = [proc EXCEPT ![p] = proc[p]]
        /\ UNCHANGED <<path, stray, content, backup, safety, lease>>
    BY DEF Opened, At, Goto
  <1>2. pc'[p] = "open" /\ proc'[p] = proc[p]
    BY <1>1, Typed
  <1>3. MigrationCovers(p) /\ CopiesChecked(p) /\ RestoreSteps(p) /\ WorksAlone(p)
    BY DEF HistoryInv
  <1>4. proc[p].file # None /\ db(p).schema = Steps
    BY <1>1, <1>3, OpenSound, ContentFields DEF MigrationCovers, Covers, Migrating, file
  <1>5. db(p)' = db(p) /\ file(p)' = file(p)
    BY <1>1, <1>2 DEF db, file
  <1>6. MigrationCovers(p)'
    BY <1>2, <1>3, <1>4, <1>5 DEF MigrationCovers, Migrating, file
  <1>7. CopiesChecked(p)' /\ RestoreSteps(p)' /\ WorksAlone(p)'
    BY <1>1, <1>2, <1>3 DEF CopiesChecked, RestoreSteps, WorksAlone, Migrating
  <1>8. "open" \in Labels
    BY DEF Labels, Opens
  <1> QED
    BY <1>1, <1>6, <1>7, <1>8, Typed, LocalStepKeeps

(* What a step sees to be there is there when it commits.                  *)
LEMMA StepReadsKeeps ==
    ASSUME HistoryInv, NEW p \in Procs, StepReads(p), copying' \in BOOLEAN, events' \in Nat
    PROVE  HistoryInv'
  <1>1. PICK s \in {"legacy", "v3", "v4", "v5", "v8", "v9"} :
            /\ pc[p] = "migrate" /\ IsNext(s, p)
            /\ IF s = "legacy"
               THEN Goto(p, "migrate", [proc[p] EXCEPT !.plan = LegacyPlan(db(p).version) \cup (@ \ {s})])
               ELSE Goto(p, "commit", [proc[p] EXCEPT !.seen =
                        IF s \notin {"v8", "v9"} THEN db(p).version ELSE IF s \in db(p).schema THEN 1 ELSE 0])
            /\ UNCHANGED <<path, stray, content, backup, safety, lease>>
    BY DEF StepReads, At
  <1>2. MigrationCovers(p) /\ CopiesChecked(p) /\ RestoreSteps(p) /\ WorksAlone(p) /\ proc[p].file # None
    BY <1>1 DEF HistoryInv, MigrationCovers, Migrating, file
  <1>3. Steps \subseteq db(p).schema \cup Covers(proc[p].plan)
    BY <1>1, <1>2 DEF MigrationCovers, Migrating
  <1>4. CASE s = "legacy"
    <2>1. PICK o : /\ o = [proc[p] EXCEPT !.plan = LegacyPlan(db(p).version) \cup (proc[p].plan \ {s})]
                   /\ pc' = [pc EXCEPT ![p] = "migrate"] /\ proc' = [proc EXCEPT ![p] = o]
      BY <1>1, <1>4 DEF Goto
    <2>2. /\ Steps \subseteq db(p).schema \cup Covers(LegacyPlan(db(p).version) \cup (proc[p].plan \ {s}))
          /\ LegacyPlan(db(p).version) \cup (proc[p].plan \ {s}) \in SUBSET (Steps \cup {"legacy"})
      BY <1>2, <1>3, <1>4, OpenSound, Typed, LegacyCovers
    <2>3. o \in Locals /\ "migrate" \in Labels
      BY <2>1, <2>2, Typed DEF Locals, Labels, Migrating
    <2>4. /\ o.plan = LegacyPlan(db(p).version) \cup (proc[p].plan \ {s}) /\ o.file = proc[p].file
          /\ o.kept = proc[p].kept /\ o.from = proc[p].from /\ o.copy = proc[p].copy /\ o.seen = proc[p].seen
      BY <2>1, Typed DEF Locals
    <2>5. pc'[p] = "migrate" /\ proc'[p] = o
      BY <2>1, Typed
    <2>6. file(p)' = proc[p].file /\ db(p)' = db(p) /\ db(p).version <= Current
      BY <1>1, <1>2, <2>4, <2>5, OpenSound DEF file, db
    <2>7. MigrationCovers(p)'
      BY <1>2, <2>2, <2>4, <2>5, <2>6 DEF MigrationCovers, Opens
    <2>8. CopiesChecked(p)' /\ RestoreSteps(p)' /\ WorksAlone(p)'
      BY <1>1, <1>2, <2>4, <2>5, <2>6 DEF CopiesChecked, RestoreSteps, WorksAlone, Migrating, file
    <2> QED
      BY <1>1, <2>1, <2>3, <2>7, <2>8, LocalStepKeeps
  <1>5. CASE s # "legacy"
    <2> DEFINE n == IF s \notin {"v8", "v9"} THEN db(p).version ELSE IF s \in db(p).schema THEN 1 ELSE 0
    <2>1. PICK o : /\ o = [proc[p] EXCEPT !.seen = n]
                   /\ pc' = [pc EXCEPT ![p] = "commit"] /\ proc' = [proc EXCEPT ![p] = o]
      BY <1>1, <1>5 DEF Goto
    <2>2. /\ n \in 0..(Current + 1)
          /\ n >= 4 => "v4" \in db(p).schema
          /\ n > 4 => "v5" \in db(p).schema
      BY <1>2, OpenSound, SoundSchema DEF Current
    <2> HIDE DEF n
    <2>3. o \in Locals /\ "commit" \in Labels
      BY <2>1, <2>2, Typed DEF Locals, Labels, Migrating
    <2>4. /\ o.plan = proc[p].plan /\ o.file = proc[p].file
          /\ o.kept = proc[p].kept /\ o.from = proc[p].from /\ o.copy = proc[p].copy /\ o.seen = n
      BY <2>1, Typed DEF Locals
    <2>5. pc'[p] = "commit" /\ proc'[p] = o
      BY <2>1, Typed
    <2>6. file(p)' = proc[p].file /\ db(p)' = db(p) /\ db(p).version <= Current
      BY <1>1, <1>2, <2>4, <2>5, OpenSound DEF file, db
    <2>7. MigrationCovers(p)'
      BY <1>2, <1>3, <2>2, <2>4, <2>5, <2>6 DEF MigrationCovers, Opens
    <2>8. CopiesChecked(p)' /\ RestoreSteps(p)' /\ WorksAlone(p)'
      BY <1>1, <1>2, <2>4, <2>5, <2>6 DEF CopiesChecked, RestoreSteps, WorksAlone, Migrating, file
    <2> QED
      BY <1>1, <2>1, <2>3, <2>7, <2>8, LocalStepKeeps
  <1> QED
    BY <1>4, <1>5

(* Backup: the copy is made and checked.                                   *)
LEMMA VacuumKeeps ==
    ASSUME HistoryInv, NEW p \in Procs, Vacuum(p), copying' \in BOOLEAN, events' \in Nat
    PROVE  HistoryInv'
  <1>0. PICK c \in CopiesOf(db(p)) :
            /\ pc[p] = "vacuum" /\ Verified(db(p)) /\ Goto(p, "publish", [proc[p] EXCEPT !.copy = c])
            /\ UNCHANGED <<path, stray, content, backup, safety, lease>>
    BY DEF Vacuum, At
  <1>1. PICK o : /\ o = [proc[p] EXCEPT !.copy = c]
                 /\ pc' = [pc EXCEPT ![p] = "publish"] /\ proc' = [proc EXCEPT ![p] = o]
    BY <1>0 DEF Goto
  <1>2. /\ MigrationCovers(p) /\ CopiesChecked(p) /\ RestoreSteps(p) /\ WorksAlone(p)
        /\ proc[p].file # None /\ db(p).schema = Steps
    BY <1>0 DEF HistoryInv, MigrationCovers, Opens, file
  <1>3. c \in Content /\ Sound(c) /\ Verified(c)
    <2>1. db(p) \in Content /\ Sound(db(p))
      BY <1>2, OpenSound
    <2> QED
      BY <1>0, <2>1, CopiesOfFields DEF Verified
  <1>4. o \in Locals /\ "publish" \in Labels
    BY <1>1, <1>3, Typed DEF Locals, Labels, Opens
  <1>5. /\ o.file = proc[p].file /\ o.kept = proc[p].kept /\ o.from = proc[p].from /\ o.copy = c
    BY <1>1, Typed DEF Locals
  <1>6. pc'[p] = "publish" /\ proc'[p] = o
    BY <1>1, Typed
  <1>7. file(p)' = file(p) /\ file(p) # None /\ db(p)' = db(p) /\ db(p).version <= Current
    BY <1>0, <1>2, <1>5, <1>6, OpenSound DEF file, db
  <1>8. MigrationCovers(p)'
    BY <1>2, <1>6, <1>7 DEF MigrationCovers, Opens, Migrating
  <1>9. CopiesChecked(p)'
    BY <1>0, <1>2, <1>3, <1>5, <1>6 DEF CopiesChecked
  <1>10. RestoreSteps(p)' /\ WorksAlone(p)'
    BY <1>0, <1>2, <1>3, <1>5, <1>6, Typed DEF RestoreSteps, WorksAlone, Migrating
  <1> QED
    BY <1>0, <1>1, <1>4, <1>8, <1>9, <1>10, LocalStepKeeps

(* Restore: the source is copied and checked, the database closed.         *)
LEMMA CopySourceKeeps ==
    ASSUME HistoryInv, NEW p \in Procs, CopySource(p), copying' \in BOOLEAN, events' \in Nat
    PROVE  HistoryInv'
  <1>1. PICK o : /\ o = [proc[p] EXCEPT !.copy = backup, !.file = None]
                 /\ pc[p] = "copy" /\ backup # None /\ Verified(backup)
                 /\ pc' = [pc EXCEPT ![p] = "remove"] /\ proc' = [proc EXCEPT ![p] = o]
                 /\ UNCHANGED <<path, stray, content, backup, safety, lease>>
    BY DEF CopySource, At, Goto
  <1>2. MigrationCovers(p) /\ CopiesChecked(p) /\ RestoreSteps(p) /\ WorksAlone(p)
    BY DEF HistoryInv
  <1>3. Sound(backup) /\ backup \in Content
    BY <1>1, Typed DEF HistoryInv, CopiesSound
  <1>4. o \in Locals /\ "remove" \in Labels
    BY <1>1, Typed DEF Locals, Labels
  <1>5. /\ o.file = None /\ o.kept = proc[p].kept /\ o.from = proc[p].from /\ o.copy = backup
    BY <1>1, Typed DEF Locals
  <1>6. pc'[p] = "remove" /\ proc'[p] = o
    BY <1>1, Typed
  <1>7. file(p)' = None
    BY <1>5, <1>6 DEF file
  <1>8. MigrationCovers(p)'
    BY <1>6, <1>7 DEF MigrationCovers, Opens, Migrating
  <1>9. CopiesChecked(p)'
    BY <1>1, <1>2, <1>3, <1>5, <1>6 DEF CopiesChecked
  <1>10. RestoreSteps(p)' /\ WorksAlone(p)'
    BY <1>1, <1>2, <1>5, <1>6 DEF RestoreSteps, WorksAlone, Migrating
  <1> QED
    BY <1>1, <1>4, <1>8, <1>9, <1>10, LocalStepKeeps

(* Files nobody uses may be overwritten.                                   *)
LEMMA PlaceFree ==
    ASSUME HistoryInv, NEW f \in Free, NEW c \in Content, Sound(c), content' = [content EXCEPT ![f] = c]
    PROVE  /\ f \in Files /\ f # path /\ content' \in [Files -> Content] /\ content'[f] = c /\ FilesSound'
           /\ \A q \in Procs : proc[q].file # None =>
                  /\ content'[proc[q].file].version <= Current
                  /\ content[proc[q].file].schema \subseteq content'[proc[q].file].schema
           /\ path # None => content'[path] = content[path]
  <1>1. f \in Files /\ f # path /\ \A q \in Procs : f # proc[q].file
    BY DEF Free
  <1>2. content \in [Files -> Content] /\ path \in Files \cup {None}
    BY DEF HistoryInv, TypeOK
  <1>3. \A g \in Files : content'[g] = IF g = f THEN c ELSE content[g]
    BY <1>1, <1>2
  <1>4. FilesSound'
    BY <1>3 DEF HistoryInv, FilesSound
  <1>5. ASSUME NEW q \in Procs, proc[q].file # None
        PROVE  /\ content'[proc[q].file].version <= Current
               /\ content[proc[q].file].schema \subseteq content'[proc[q].file].schema
    BY <1>1, <1>3, <1>5, OpenSound
  <1> QED
    BY <1>1, <1>2, <1>3, <1>4, <1>5

(* open: a new file is empty, an old one is planned by its version.        *)
LEMMA OpenKeeps ==
    ASSUME HistoryInv, NEW p \in Procs, Open(p), copying' \in BOOLEAN, events' \in Nat
    PROVE  HistoryInv'
  <1>1. PICK o : /\ o = [NoLocals EXCEPT !.file = path', !.plan = Plan(content'[path'].version)]
                 /\ pc' = [pc EXCEPT ![p] = "migrate"] /\ proc' = [proc EXCEPT ![p] = o]
                 /\ UNCHANGED <<backup, safety, lease>> /\ content'[path'].version <= Current
                 /\ \/ path # None /\ UNCHANGED <<path, stray, content>>
                    \/ path = None /\ \E f \in Free :
                           path' = f /\ stray' = FALSE /\ content' = [content EXCEPT ![f] = Empty]
    BY DEF Open, OpenPath, Goto
  <1>2. Empty \in Content /\ Sound(Empty) /\ Empty.runs = {}
    <2>1. SchemaOf(0) = {}
      BY SchemaFacts DEF Current
    <2> QED
      BY <2>1 DEF Empty, Content, Sound, Current
  <1>3. /\ path' \in Files /\ stray' \in BOOLEAN /\ content' \in [Files -> Content] /\ FilesSound'
        /\ \A q \in Procs : proc[q].file # None =>
                  /\ content'[proc[q].file].version <= Current
                  /\ content[proc[q].file].schema \subseteq content'[proc[q].file].schema
        /\ \/ path' = path /\ stray' = stray /\ content'[path].runs = content[path].runs
           \/ content'[path'].runs = {}
    <2>1. CASE path # None /\ UNCHANGED <<path, stray, content>>
      BY <2>1, Typed, OpenSound DEF HistoryInv, FilesSound
    <2>2. CASE path = None /\ \E f \in Free :
                   path' = f /\ stray' = FALSE /\ content' = [content EXCEPT ![f] = Empty]
      <3>1. PICK f \in Free : path' = f /\ stray' = FALSE /\ content' = [content EXCEPT ![f] = Empty]
        BY <2>2
      <3> QED
        BY <1>2, <2>2, <3>1, PlaceFree, Typed
    <2> QED
      BY <1>1, <2>1, <2>2
  <1>4. content'[path'] \in Content /\ Sound(content'[path'])
    BY <1>3 DEF FilesSound
  <1>5. PICK v \in 0..(Current + 1) : v = content'[path'].version
    BY <1>4 DEF Content
  <1>6. Plan(v) \in SUBSET (Steps \cup {"legacy"}) /\ Steps \subseteq content'[path'].schema \cup Covers(Plan(v))
    BY <1>1, <1>4, <1>5, PlanCovers
  <1>7. /\ o \in Locals /\ o.file = path' /\ o.plan = Plan(v) /\ o.kept = None /\ o.from = None /\ o.copy = None
    <2>1. NoLocals \in Locals /\ NoLocals.kept = None /\ NoLocals.from = None /\ NoLocals.copy = None
      BY DEF NoLocals, Locals, Current
    <2>2. o = [NoLocals EXCEPT !.file = path', !.plan = Plan(v)] /\ path' \in Files \cup {None}
      BY <1>1, <1>3, <1>5
    <2>3. o \in Locals
      BY <1>6, <2>1, <2>2 DEF Locals
    <2>4. /\ o.file = path' /\ o.plan = Plan(v)
          /\ o.kept = NoLocals.kept /\ o.from = NoLocals.from /\ o.copy = NoLocals.copy
      BY <2>1, <2>2 DEF Locals
    <2> QED
      BY <2>1, <2>3, <2>4
  <1>8. pc'[p] = "migrate" /\ proc'[p] = o /\ "migrate" \in Labels
    BY <1>1, Typed DEF Labels, Migrating
  <1>9. file(p)' = path' /\ db(p)' = content'[path'] /\ path' # None
    BY <1>3, <1>7, <1>8, Typed DEF file, db
  <1>10. MigrationCovers(p)'
    BY <1>1, <1>6, <1>7, <1>8, <1>9 DEF MigrationCovers, Opens
  <1>11. CopiesChecked(p)' /\ RestoreSteps(p)' /\ WorksAlone(p)'
    BY <1>7, <1>8 DEF CopiesChecked, RestoreSteps, WorksAlone
  <1>12. CopiesSound' /\ \A q \in Procs : LeavesTo(q)
    BY <1>1, <1>3 DEF HistoryInv, CopiesSound, LeavesTo
  <1> QED
    BY <1>1, <1>3, <1>7, <1>8, <1>10, <1>11, <1>12, Typed, StepKeeps

(* A migration step commits.                                               *)
LEMMA StepCommitsKeeps ==
    ASSUME HistoryInv, NEW p \in Procs, StepCommits(p), copying' \in BOOLEAN, events' \in Nat
    PROVE  HistoryInv'
  <1>1. PICK s \in Steps :
            /\ pc[p] = "commit" \/ (pc[p] = "migrate" /\ s \in {"runs", "labels", "v6", "v7"})
            /\ IsNext(s, p)
            /\ content' = [content EXCEPT ![file(p)] = AfterStep(content[file(p)], s, proc[p].seen)]
            /\ Goto(p, "migrate", [proc[p] EXCEPT !.plan = @ \ {s}, !.seen = 0])
            /\ UNCHANGED <<path, stray, backup, safety, lease>>
    BY DEF StepCommits, At
  <1>2. MigrationCovers(p) /\ CopiesChecked(p) /\ RestoreSteps(p) /\ WorksAlone(p)
    BY DEF HistoryInv
  <1>3. file(p) = proc[p].file /\ file(p) \in Files /\ db(p) = content[file(p)]
        /\ db(p) \in Content /\ Sound(db(p)) /\ db(p).version <= Current
    BY <1>1, <1>2, OpenSound DEF MigrationCovers, Migrating, file
  <1>4. Steps \subseteq db(p).schema \cup Covers(proc[p].plan) /\ s \in proc[p].plan
        /\ \A t \in proc[p].plan : Rank[s] <= Rank[t]
    BY <1>1, <1>2 DEF MigrationCovers, Migrating, IsNext
  <1> DEFINE d == AfterStep(db(p), s, proc[p].seen)
  <1>5. /\ d \in Content /\ Sound(d) /\ d.version <= Current
        /\ db(p).schema \subseteq d.schema /\ d.runs = db(p).runs /\ d.held = db(p).held
        /\ Steps \subseteq d.schema \cup Covers(proc[p].plan \ {s})
    <2>1. CASE pc[p] = "commit"
      <3>1. proc[p].seen >= 4 => "v4" \in db(p).schema
        BY <1>2, <2>1 DEF MigrationCovers
      <3>2. proc[p].seen > 4 => "v5" \in db(p).schema
        BY <1>2, <2>1 DEF MigrationCovers
      <3> QED
        BY <1>3, <1>4, <3>1, <3>2, Typed, StepEffect
    <2>2. CASE s \in {"runs", "labels", "v6", "v7"}
      <3>1. PICK z \in 0..(Current + 1) : z = 0
        BY DEF Current
      <3>2. d = AfterStep(db(p), s, z)
        BY <2>2 DEF AfterStep
      <3>3. ~(z >= 4) /\ ~(z > 4)
        BY <3>1
      <3> HIDE DEF d
      <3>4. proc[p].plan \in SUBSET (Steps \cup {"legacy"})
        BY Typed
      <3> QED
        BY <1>3, <1>4, <3>2, <3>3, <3>4, StepEffect
    <2> QED
      BY <1>1, <2>1, <2>2
  <1>6. content' = [content EXCEPT ![file(p)] = d]
    BY <1>1, <1>3
  <1> HIDE DEF d
  <1>7. content' \in [Files -> Content] /\ FilesSound' /\ \A f \in Files : content'[f] = IF f = file(p) THEN d ELSE content[f]
    BY <1>3, <1>5, <1>6, Typed DEF FilesSound, HistoryInv
  <1>8. \A q \in Procs : proc[q].file # None =>
           /\ content'[proc[q].file].version <= Current
           /\ content[proc[q].file].schema \subseteq content'[proc[q].file].schema
    BY <1>3, <1>5, <1>7, OpenSound
  <1>9. stray' \in BOOLEAN /\ (path # None => content'[path].runs = content[path].runs) /\ \A q \in Procs : LeavesTo(q)
    BY <1>1, <1>3, <1>5, <1>7, Typed DEF LeavesTo
  <1>10. PICK o : /\ o = [proc[p] EXCEPT !.plan = @ \ {s}, !.seen = 0]
                  /\ pc' = [pc EXCEPT ![p] = "migrate"] /\ proc' = [proc EXCEPT ![p] = o]
    BY <1>1 DEF Goto
  <1>11. /\ o \in Locals /\ o.file = file(p) /\ o.plan = proc[p].plan \ {s} /\ o.seen = 0
         /\ o.kept = proc[p].kept /\ o.from = proc[p].from /\ o.copy = proc[p].copy
    <2>1. proc[p] \in Locals /\ proc[p].plan \ {s} \in SUBSET (Steps \cup {"legacy"}) /\ 0 \in 0..(Current + 1)
      BY Typed DEF Current
    <2>2. o \in Locals
      BY <1>10, <2>1 DEF Locals
    <2>3. /\ o.file = proc[p].file /\ o.plan = proc[p].plan \ {s} /\ o.seen = 0
          /\ o.kept = proc[p].kept /\ o.from = proc[p].from /\ o.copy = proc[p].copy
      BY <1>10, <2>1 DEF Locals
    <2> QED
      BY <1>3, <2>2, <2>3
  <1>12. pc'[p] = "migrate" /\ proc'[p] = o /\ "migrate" \in Labels
    BY <1>10, Typed DEF Labels, Migrating
  <1>13. file(p)' = file(p) /\ db(p)' = d /\ file(p) # None
    BY <1>3, <1>7, <1>11, <1>12, Typed DEF file, db
  <1>14. MigrationCovers(p)'
    BY <1>5, <1>11, <1>12, <1>13 DEF MigrationCovers, Opens
  <1>15. CopiesChecked(p)' /\ RestoreSteps(p)' /\ WorksAlone(p)'
    BY <1>1, <1>2, <1>11, <1>12 DEF CopiesChecked, RestoreSteps, WorksAlone, Migrating
  <1>16. CopiesSound'
    BY <1>1 DEF HistoryInv, CopiesSound
  <1> QED
    BY <1>1, <1>7, <1>8, <1>9, <1>10, <1>11, <1>12, <1>14, <1>15, <1>16, Typed, StepKeeps
(* A change of rows alone leaves every version and schema as it is.        *)
LEMMA RowsOnly ==
    ASSUME HistoryInv, NEW f \in Files, NEW d \in Content, d.version = content[f].version, d.schema = content[f].schema,
           content' = [content EXCEPT ![f] = d]
    PROVE  /\ content' \in [Files -> Content] /\ FilesSound'
           /\ \A g \in Files : content'[g] = IF g = f THEN d ELSE content[g]
           /\ \A q \in Procs : proc[q].file # None =>
                  /\ content'[proc[q].file].version <= Current
                  /\ content[proc[q].file].schema \subseteq content'[proc[q].file].schema
  <1>1. content \in [Files -> Content] /\ \A g \in Files : content'[g] = IF g = f THEN d ELSE content[g]
    BY DEF HistoryInv, TypeOK
  <1>2. content' \in [Files -> Content]
    BY <1>1
  <1>3. FilesSound'
    BY <1>1 DEF HistoryInv, FilesSound, Sound
  <1>4. ASSUME NEW q \in Procs, proc[q].file # None
        PROVE  /\ content'[proc[q].file].version <= Current
               /\ content[proc[q].file].schema \subseteq content'[proc[q].file].schema
    BY <1>1, <1>4, OpenSound
  <1> QED
    BY <1>1, <1>2, <1>3, <1>4

(* Only the lease changes.                                                 *)
LEMMA HeldFields ==
    ASSUME NEW c \in Content, NEW h \in BOOLEAN
    PROVE  LET d == [c EXCEPT !.held = h] IN
           d \in Content /\ d.version = c.version /\ d.schema = c.schema /\ d.runs = c.runs
  BY DEF Content

(* A capture, a backup or a restore takes the lease.                       *)
LEMMA AcquireKeeps ==
    ASSUME HistoryInv, NEW p \in Procs, NEW l \in {"capture", "vacuum", "safety"},
           Acquire(p, l), UNCHANGED <<path, stray, backup, safety>>, copying' \in BOOLEAN, events' \in Nat
    PROVE  HistoryInv'
  <1>1. /\ pc[p] = "open" /\ lease = None /\ lease' = p
        /\ content' = [content EXCEPT ![file(p)] = [content[file(p)] EXCEPT !.held = TRUE]]
        /\ pc' = [pc EXCEPT ![p] = l] /\ proc' = [proc EXCEPT ![p] = proc[p]]
    BY DEF Acquire, At, Goto
  <1>2. MigrationCovers(p) /\ CopiesChecked(p) /\ RestoreSteps(p) /\ WorksAlone(p)
    BY DEF HistoryInv
  <1>3. /\ proc[p].file # None /\ file(p) = proc[p].file /\ file(p) \in Files /\ db(p) = content[file(p)]
        /\ db(p) \in Content /\ db(p).version <= Current /\ db(p).schema = Steps
    BY <1>1, <1>2, OpenSound DEF MigrationCovers, Opens, file
  <1>4. PICK d \in Content : /\ d.version = db(p).version /\ d.schema = db(p).schema /\ d.runs = db(p).runs
                             /\ content' = [content EXCEPT ![file(p)] = d]
    BY <1>1, <1>3, HeldFields
  <1>5. /\ content' \in [Files -> Content] /\ FilesSound'
        /\ \A g \in Files : content'[g] = IF g = file(p) THEN d ELSE content[g]
        /\ \A q \in Procs : proc[q].file # None =>
                  /\ content'[proc[q].file].version <= Current
                  /\ content[proc[q].file].schema \subseteq content'[proc[q].file].schema
    BY <1>3, <1>4, RowsOnly
  <1>6. l \in Labels /\ pc'[p] = l /\ proc'[p] = proc[p]
    BY <1>1, Typed DEF Labels, Opens
  <1>7. file(p)' = file(p) /\ db(p)' = d /\ file(p) # None
    BY <1>3, <1>5, <1>6, Typed DEF file, db
  <1>8. MigrationCovers(p)'
    BY <1>3, <1>4, <1>6, <1>7 DEF MigrationCovers, Opens, Migrating
  <1>9. proc[p].kept = None
    BY <1>1, <1>2 DEF RestoreSteps, Migrating
  <1>10. CopiesChecked(p)' /\ RestoreSteps(p)' /\ WorksAlone(p)'
    BY <1>1, <1>2, <1>6, <1>9 DEF CopiesChecked, RestoreSteps, WorksAlone, Migrating
  <1>11. CopiesSound' /\ lease' \in Procs \cup {None} /\ \A q \in Procs \ {p} : LeavesTo(q)
    BY <1>1, Typed DEF HistoryInv, CopiesSound, LeavesTo
  <1> QED
    BY <1>1, <1>5, <1>6, <1>8, <1>10, <1>11, Typed, StepKeeps

(* The end of what held the lease, or had lost it: the process is back     *)
(* with its database.                                                      *)
LEMMA LetGoKeeps ==
    ASSUME HistoryInv, NEW p \in Procs, pc[p] \in Opens, NEW o \in Locals,
           o.file = proc[p].file, o.kept = None, o.copy # None => o.copy = proc[p].copy,
           NEW d \in Content, d.version = db(p).version, d.schema = db(p).schema,
           lease # p => d.runs = db(p).runs,
           content' = [content EXCEPT ![proc[p].file] = d], lease' = IF lease = p THEN None ELSE lease,
           pc' = [pc EXCEPT ![p] = "open"], proc' = [proc EXCEPT ![p] = o],
           path' = path, stray' = stray, safety' = safety,
           backup' \in Content \cup {None}, CopiesSound', copying' \in BOOLEAN, events' \in Nat
    PROVE  HistoryInv'
  <1>1. MigrationCovers(p) /\ CopiesChecked(p)
    BY DEF HistoryInv
  <1>2. lease' \in Procs \cup {None} /\ stray' \in BOOLEAN
    BY Typed
  <1>3. /\ proc[p].file # None /\ file(p) = proc[p].file /\ proc[p].file \in Files /\ db(p) = content[proc[p].file]
        /\ db(p).version <= Current /\ db(p).schema = Steps
    BY <1>1, OpenSound DEF MigrationCovers, file
  <1>4. /\ content' \in [Files -> Content] /\ FilesSound'
        /\ \A f \in Files : content'[f] = IF f = proc[p].file THEN d ELSE content[f]
        /\ \A q \in Procs : proc[q].file # None =>
                  /\ content'[proc[q].file].version <= Current
                  /\ content[proc[q].file].schema \subseteq content'[proc[q].file].schema
    BY <1>3, RowsOnly
  <1>5. "open" \in Labels /\ pc'[p] = "open" /\ proc'[p] = o
    BY Typed DEF Labels, Opens
  <1>6. file(p)' = proc[p].file /\ db(p)' = d
    BY <1>3, <1>4, <1>5 DEF file, db
  <1>7. MigrationCovers(p)'
    BY <1>3, <1>5, <1>6 DEF MigrationCovers, Opens, Migrating
  <1>8. CopiesChecked(p)' /\ RestoreSteps(p)' /\ WorksAlone(p)'
    BY <1>1, <1>5 DEF CopiesChecked, RestoreSteps, WorksAlone, Migrating
  <1>9. ASSUME NEW q \in Procs \ {p} PROVE LeavesTo(q)
    <2>1. CASE lease = p
      BY <2>1, FilesAssumption DEF LeavesTo
    <2>2. CASE lease # p
      <3>1. path # None => content'[path].runs = content[path].runs
        BY <1>3, <1>4, <2>2, Typed
      <3> QED
        BY <2>2, <3>1 DEF LeavesTo
    <2> QED
      BY <2>1, <2>2
  <1> QED
    BY <1>2, <1>4, <1>5, <1>7, <1>8, <1>9, Typed, StepKeeps

(* A lease that was lost leaves its row to whoever has it now.             *)
LEMMA ReleaseRowFields ==
    ASSUME HistoryInv, NEW p \in Procs, file(p) \in Files, ReleaseRow(p)
    PROVE  \E d \in Content : /\ d.version = db(p).version /\ d.schema = db(p).schema /\ d.runs = db(p).runs
                              /\ content' = [content EXCEPT ![file(p)] = d]
  <1>1. content \in [Files -> Content] /\ db(p) \in Content /\ db(p) = content[file(p)]
    BY Typed DEF db, file
  <1>2. CASE lease = p
    <2>1. content' = [content EXCEPT ![file(p)] = [content[file(p)] EXCEPT !.held = FALSE]]
      BY <1>2 DEF ReleaseRow
    <2> QED
      BY <1>1, <2>1, HeldFields
  <1>3. CASE lease # p
    <2>1. content' = [content EXCEPT ![file(p)] = db(p)]
      BY <1>1, <1>3 DEF ReleaseRow
    <2> QED
      BY <1>1, <2>1
  <1> QED
    BY <1>2, <1>3

(* A capture has stored its run.                                           *)
LEMMA EndCaptureKeeps ==
    ASSUME HistoryInv, NEW p \in Procs, EndCapture(p), copying' \in BOOLEAN, events' \in Nat
    PROVE  HistoryInv'
  <1>1. PICK r \in Runs :
            /\ pc[p] = "capture" /\ lease = p /\ lease' = IF lease = p THEN None ELSE lease
            /\ content' = [content EXCEPT ![file(p)] = [content[file(p)] EXCEPT !.runs = content[file(p)].runs \cup {r}, !.held = FALSE]]
            /\ pc' = [pc EXCEPT ![p] = "open"] /\ proc' = [proc EXCEPT ![p] = proc[p]]
            /\ UNCHANGED <<path, stray, backup, safety>>
    BY DEF EndCapture, At, Goto, Release
  <1>2. /\ proc[p].file # None /\ file(p) = proc[p].file /\ db(p) = content[file(p)] /\ db(p) \in Content
    BY <1>1, OpenSound DEF HistoryInv, MigrationCovers, Opens, file
  <1>3. PICK d \in Content : /\ d.version = db(p).version /\ d.schema = db(p).schema
                             /\ content' = [content EXCEPT ![proc[p].file] = d]
    <2> DEFINE e == [db(p) EXCEPT !.runs = db(p).runs \cup {r}, !.held = FALSE]
    <2>1. e \in Content /\ e.version = db(p).version /\ e.schema = db(p).schema
      BY <1>2 DEF Content
    <2>2. content' = [content EXCEPT ![proc[p].file] = e]
      BY <1>1, <1>2
    <2> QED
      BY <2>1, <2>2
  <1>4. proc[p].kept = None /\ pc[p] \in Opens
    BY <1>1 DEF HistoryInv, RestoreSteps, Migrating, Opens
  <1>5. CopiesSound'
    BY <1>1 DEF HistoryInv, CopiesSound
  <1> QED
    BY <1>1, <1>3, <1>4, <1>5, Typed, LetGoKeeps

(* Backup: the copy is renamed into place.                                 *)
LEMMA PublishKeeps ==
    ASSUME HistoryInv, NEW p \in Procs, Publish(p), copying' \in BOOLEAN, events' \in Nat
    PROVE  HistoryInv'
  <1>1. PICK o : /\ o = [proc[p] EXCEPT !.copy = None]
                 /\ pc[p] = "publish" /\ backup' = proc[p].copy /\ lease' = IF lease = p THEN None ELSE lease
                 /\ ReleaseRow(p)
                 /\ pc' = [pc EXCEPT ![p] = "open"] /\ proc' = [proc EXCEPT ![p] = o]
                 /\ UNCHANGED <<path, stray, safety>>
    BY DEF Publish, At, Goto, Release
  <1>2. MigrationCovers(p) /\ CopiesChecked(p) /\ RestoreSteps(p) /\ WorksAlone(p)
    BY DEF HistoryInv
  <1>3. /\ proc[p].file # None /\ file(p) = proc[p].file /\ file(p) \in Files
    BY <1>1, <1>2, OpenSound DEF MigrationCovers, Opens, file
  <1>4. PICK d \in Content : /\ d.version = db(p).version /\ d.schema = db(p).schema /\ d.runs = db(p).runs
                             /\ content' = [content EXCEPT ![proc[p].file] = d]
    BY <1>1, <1>3, ReleaseRowFields
  <1>5. proc[p].kept = None /\ proc[p].copy # None /\ pc[p] \in Opens
    BY <1>1, <1>2 DEF RestoreSteps, Migrating, Opens
  <1>6. o \in Locals /\ o.file = proc[p].file /\ o.kept = None /\ o.copy = None
    BY <1>1, <1>5, Typed DEF Locals
  <1>7. CopiesSound' /\ backup' \in Content \cup {None}
    BY <1>1, <1>2, <1>5, Typed DEF HistoryInv, CopiesSound, CopiesChecked
  <1> QED
    BY <1>1, <1>4, <1>5, <1>6, <1>7, LetGoKeeps

(* A backup or a restore fails before the database is closed.              *)
LEMMA GiveUpKeeps ==
    ASSUME HistoryInv, NEW p \in Procs, GiveUp(p), copying' \in BOOLEAN, events' \in Nat
    PROVE  HistoryInv'
  <1>1. PICK o : /\ o = [proc[p] EXCEPT !.kept = None, !.from = None, !.copy = None]
                 /\ pc[p] \in {"capture", "vacuum", "publish", "safety", "copy"}
                 /\ lease' = (IF lease = p THEN None ELSE lease) /\ ReleaseRow(p)
                 /\ pc' = [pc EXCEPT ![p] = "open"] /\ proc' = [proc EXCEPT ![p] = o]
                 /\ UNCHANGED <<path, stray, backup, safety>>
    BY DEF GiveUp, Goto, Release
  <1>2. /\ proc[p].file # None /\ file(p) = proc[p].file /\ file(p) \in Files
    BY <1>1, OpenSound DEF HistoryInv, MigrationCovers, Opens, file
  <1>3. PICK d \in Content : /\ d.version = db(p).version /\ d.schema = db(p).schema /\ d.runs = db(p).runs
                             /\ content' = [content EXCEPT ![proc[p].file] = d]
    BY <1>1, <1>2, ReleaseRowFields
  <1>4. pc[p] \in Opens
    BY <1>1 DEF Opens
  <1>5. o \in Locals /\ o.file = proc[p].file /\ o.kept = None /\ o.from = None /\ o.copy = None
    BY <1>1, Typed DEF Locals
  <1>6. CopiesSound'
    BY <1>1 DEF HistoryInv, CopiesSound
  <1> QED
    BY <1>1, <1>3, <1>4, <1>5, <1>6, Typed, LetGoKeeps

(* Restore: the database is copied first.                                  *)
LEMMA SafetyCopyKeeps ==
    ASSUME HistoryInv, NEW p \in Procs, SafetyCopy(p), copying' \in BOOLEAN, events' \in Nat
    PROVE  HistoryInv'
  <1>0. PICK c \in CopiesOf(db(p)) :
            /\ pc[p] = "safety" /\ Verified(db(p)) /\ safety' = safety \cup {c}
            /\ Goto(p, "copy", [proc[p] EXCEPT !.kept = c, !.from = file(p)])
            /\ UNCHANGED <<path, stray, content, backup, lease>>
    BY DEF SafetyCopy, At
  <1>1. PICK o : /\ o = [proc[p] EXCEPT !.kept = c, !.from = file(p)]
                 /\ pc' = [pc EXCEPT ![p] = "copy"] /\ proc' = [proc EXCEPT ![p] = o]
    BY <1>0 DEF Goto
  <1>2. MigrationCovers(p) /\ CopiesChecked(p) /\ RestoreSteps(p)
    BY DEF HistoryInv
  <1>3. /\ proc[p].file # None /\ file(p) = proc[p].file /\ file(p) \in Files /\ db(p) = content[file(p)]
        /\ db(p) \in Content /\ Sound(db(p)) /\ db(p).version <= Current /\ db(p).schema = Steps
    BY <1>0, <1>2, OpenSound DEF MigrationCovers, Opens, file
  <1>4. c \in Content /\ Whole(c) /\ c.runs = db(p).runs
    BY <1>0, <1>3, CopiesOfFields DEF Whole, Verified
  <1>5. CopiesSound' /\ safety' \in SUBSET Content
    BY <1>0, <1>4, Typed DEF HistoryInv, CopiesSound
  <1>6. o \in Locals /\ "copy" \in Labels
    <2>1. proc[p] \in Locals /\ file(p) \in Files \cup {None} /\ c \in Content \cup {None}
      BY <1>3, <1>4, Typed
    <2>2. o = [proc[p] EXCEPT !.kept = c, !.from = file(p)]
      BY <1>1
    <2> QED
      BY <2>1, <2>2 DEF Locals, Labels, Opens
  <1>7. /\ o.file = proc[p].file /\ o.kept = c /\ o.from = file(p) /\ o.copy = proc[p].copy
    BY <1>1, Typed DEF Locals
  <1>8. pc'[p] = "copy" /\ proc'[p] = o
    BY <1>1, Typed
  <1>9. file(p)' = file(p) /\ db(p)' = db(p) /\ file(p) # None
    BY <1>0, <1>3, <1>7, <1>8 DEF file, db
  <1>10. MigrationCovers(p)'
    BY <1>3, <1>8, <1>9 DEF MigrationCovers, Opens, Migrating
  <1>11. CopiesChecked(p)'
    BY <1>0, <1>2, <1>7, <1>8 DEF CopiesChecked
  <1>12. RestoreSteps(p)' /\ WorksAlone(p)'
    <2>1. proc'[p].kept # None /\ proc'[p].from # None
      BY <1>3, <1>4, <1>7, <1>8, Typed
    <2>2. path' = proc'[p].from => content'[path'].runs \subseteq proc'[p].kept.runs
      BY <1>0, <1>3, <1>4, <1>7, <1>8
    <2> QED
      BY <1>8, <2>1, <2>2 DEF RestoreSteps, WorksAlone
  <1>13. \A q \in Procs : proc[q].file # None => content[proc[q].file].version <= Current
    BY OpenSound
  <1>14. FilesSound' /\ stray' \in BOOLEAN /\ \A q \in Procs : LeavesTo(q)
    BY <1>0, Typed DEF HistoryInv, FilesSound, LeavesTo
  <1> QED
    BY <1>0, <1>1, <1>5, <1>6, <1>10, <1>11, <1>12, <1>13, <1>14, Typed, StepKeeps

(* Backup --force: the former backup is removed.                           *)
LEMMA RemoveBackupKeeps ==
    ASSUME HistoryInv, NEW p \in Procs, RemoveBackup(p), copying' \in BOOLEAN, events' \in Nat
    PROVE  HistoryInv'
  <1>1. /\ pc[p] = "publish" /\ backup' = None
        /\ UNCHANGED <<path, stray, content, safety, lease, pc, proc>>
    BY DEF RemoveBackup, At
  <1>2. MigrationCovers(p) /\ CopiesChecked(p) /\ RestoreSteps(p)
    BY DEF HistoryInv
  <1>3. FilesSound' /\ CopiesSound' /\ stray' \in BOOLEAN /\ \A q \in Procs : LeavesTo(q)
    BY <1>1, Typed DEF HistoryInv, FilesSound, CopiesSound, LeavesTo
  <1>4. MigrationCovers(p)' /\ CopiesChecked(p)' /\ RestoreSteps(p)' /\ WorksAlone(p)'
    BY <1>1, <1>2 DEF MigrationCovers, CopiesChecked, RestoreSteps, WorksAlone, file, db, Migrating
  <1>5. pc' = [pc EXCEPT ![p] = pc[p]] /\ proc' = [proc EXCEPT ![p] = proc[p]]
    BY <1>1, Typed
  <1>6. \A q \in Procs : proc[q].file # None => content[proc[q].file].version <= Current
    BY OpenSound
  <1> QED
    BY <1>1, <1>3, <1>4, <1>5, <1>6, Typed, StepKeeps

(* Restore: the live database is removed.                                  *)
LEMMA RemoveLiveKeeps ==
    ASSUME HistoryInv, NEW p \in Procs, RemoveLive(p), copying' \in BOOLEAN, events' \in Nat
    PROVE  HistoryInv'
  <1>1. PICK o : /\ o = [proc[p] EXCEPT !.from = None]
                 /\ pc[p] = "remove" /\ path' = None /\ stray' = FALSE
                 /\ pc' = [pc EXCEPT ![p] = "rename"] /\ proc' = [proc EXCEPT ![p] = o]
                 /\ UNCHANGED <<content, backup, safety, lease>>
    BY DEF RemoveLive, At, Goto
  <1>2. MigrationCovers(p) /\ CopiesChecked(p) /\ RestoreSteps(p) /\ WorksAlone(p)
    BY DEF HistoryInv
  <1>3. o \in Locals /\ "rename" \in Labels
    BY <1>1, Typed DEF Locals, Labels
  <1>4. /\ o.file = proc[p].file /\ o.kept = proc[p].kept /\ o.from = None /\ o.copy = proc[p].copy
    BY <1>1, Typed DEF Locals
  <1>5. pc'[p] = "rename" /\ proc'[p] = o
    BY <1>1, Typed
  <1>6. file(p)' = file(p) /\ db(p)' = db(p)
    BY <1>1, <1>4, <1>5 DEF file, db
  <1>7. MigrationCovers(p)'
    BY <1>2, <1>5, <1>6 DEF MigrationCovers, Opens, Migrating
  <1>8. CopiesChecked(p)' /\ RestoreSteps(p)' /\ WorksAlone(p)'
    BY <1>1, <1>2, <1>4, <1>5 DEF CopiesChecked, RestoreSteps, WorksAlone
  <1>9. FilesSound' /\ CopiesSound' /\ stray' \in BOOLEAN /\ \A q \in Procs : LeavesTo(q)
    BY <1>1 DEF HistoryInv, FilesSound, CopiesSound, LeavesTo
  <1>10. \A q \in Procs : proc[q].file # None => content[proc[q].file].version <= Current
    BY OpenSound
  <1> QED
    BY <1>1, <1>3, <1>7, <1>8, <1>9, <1>10, Typed, StepKeeps

(* A checked copy appears at the path, and its migration is planned.       *)
LEMMA PlaceKeeps ==
    ASSUME HistoryInv, NEW p \in Procs, NEW c \in Content, Sound(c), c.version <= Current, Place(p, c),
           UNCHANGED <<backup, safety, lease>>, copying' \in BOOLEAN, events' \in Nat
    PROVE  HistoryInv'
  <1>0. PICK f \in Free :
            /\ path' = f /\ stray' = (lease # p) /\ content' = [content EXCEPT ![f] = c]
            /\ Goto(p, "migrate", [proc[p] EXCEPT !.file = f, !.plan = Plan(c.version), !.copy = None])
    BY DEF Place
  <1>1. PICK o :
            /\ o = [proc[p] EXCEPT !.file = f, !.plan = Plan(c.version), !.copy = None]
            /\ path' = f /\ stray' = (lease # p) /\ content' = [content EXCEPT ![f] = c]
            /\ pc' = [pc EXCEPT ![p] = "migrate"] /\ proc' = [proc EXCEPT ![p] = o]
    BY <1>0 DEF Goto
  <1>2. CopiesChecked(p)
    BY DEF HistoryInv
  <1>3. /\ f \in Files /\ content' \in [Files -> Content] /\ content'[f] = c /\ FilesSound'
        /\ \A q \in Procs : proc[q].file # None =>
                  /\ content'[proc[q].file].version <= Current
                  /\ content[proc[q].file].schema \subseteq content'[proc[q].file].schema
    BY <1>1, PlaceFree
  <1>4. Steps \subseteq c.schema \cup Covers(Plan(c.version)) /\ Plan(c.version) \in SUBSET (Steps \cup {"legacy"})
    BY PlanCovers
  <1>5. o \in Locals /\ "migrate" \in Labels
    <2>1. proc[p] \in Locals /\ f \in Files \cup {None} /\ None \in Content \cup {None}
      BY <1>3, Typed
    <2>2. o = [proc[p] EXCEPT !.file = f, !.plan = Plan(c.version), !.copy = None]
      BY <1>1
    <2> QED
      BY <1>4, <2>1, <2>2 DEF Locals, Labels, Migrating
  <1>6. /\ o.file = f /\ o.kept = proc[p].kept /\ o.copy = None /\ o.plan = Plan(c.version)
    BY <1>1, Typed DEF Locals
  <1>7. pc'[p] = "migrate" /\ proc'[p] = o
    BY <1>1, Typed
  <1>8. file(p)' = f /\ db(p)' = c /\ f # None
    BY <1>3, <1>6, <1>7, Typed DEF file, db
  <1>9. MigrationCovers(p)'
    BY <1>4, <1>6, <1>7, <1>8 DEF MigrationCovers, Opens
  <1>10. stray' \in BOOLEAN /\ \A q \in Procs \ {p} : LeavesTo(q)
    BY <1>1 DEF LeavesTo
  <1>11. CopiesChecked(p)' /\ RestoreSteps(p)' /\ WorksAlone(p)'
    BY <1>1, <1>2, <1>6, <1>7 DEF CopiesChecked, RestoreSteps, WorksAlone, Migrating
  <1>12. CopiesSound'
    BY DEF HistoryInv, CopiesSound
  <1> QED
    BY <1>1, <1>3, <1>5, <1>9, <1>10, <1>11, <1>12, Typed, StepKeeps

(* Restore: the copy of the source is renamed into place.                  *)
LEMMA RenameKeeps ==
    ASSUME HistoryInv, NEW p \in Procs, Rename(p), copying' \in BOOLEAN, events' \in Nat
    PROVE  HistoryInv'
  <1>1. pc[p] = "rename" /\ Place(p, proc[p].copy) /\ UNCHANGED <<backup, safety, lease>>
    BY DEF Rename, At
  <1>2. CopiesChecked(p) /\ proc[p].copy # None
    BY <1>1 DEF HistoryInv, RestoreSteps
  <1>3. proc[p].copy \in Content /\ Sound(proc[p].copy) /\ proc[p].copy.version <= Current
    BY <1>2, Typed DEF CopiesChecked, Verified, Current
  <1> QED
    BY <1>1, <1>3, PlaceKeeps

(* Restore: the safety copy is put back.                                   *)
LEMMA PutBackKeeps ==
    ASSUME HistoryInv, NEW p \in Procs, PutBack(p), copying' \in BOOLEAN, events' \in Nat
    PROVE  HistoryInv'
  <1>1. /\ pc[p] = "rename" \/ (pc[p] \in Migrating /\ proc[p].kept # None)
        /\ Place(p, proc[p].kept) /\ UNCHANGED <<backup, safety, lease>>
    BY DEF PutBack, At, Migrating
  <1>2. proc[p].kept # None /\ Whole(proc[p].kept)
    BY <1>1 DEF CopiesChecked, RestoreSteps, HistoryInv, CopiesSound
  <1>3. proc[p].kept \in Content /\ Sound(proc[p].kept) /\ proc[p].kept.version <= Current
    BY <1>2, Typed DEF Whole, Verified, Current
  <1> QED
    BY <1>1, <1>3, PlaceKeeps

(* Restore: the new database is open.                                      *)
LEMMA RestoredKeeps ==
    ASSUME HistoryInv, NEW p \in Procs, Restored(p), copying' \in BOOLEAN, events' \in Nat
    PROVE  HistoryInv'
  <1>1. PICK o : /\ o = [proc[p] EXCEPT !.kept = None, !.from = None]
                 /\ pc[p] = "migrate" /\ proc[p].plan = {} /\ proc[p].kept # None
                 /\ lease' = IF lease = p THEN None ELSE lease
                 /\ pc' = [pc EXCEPT ![p] = "open"] /\ proc' = [proc EXCEPT ![p] = o]
                 /\ UNCHANGED <<path, stray, content, backup, safety>>
    BY DEF Restored, At, Goto, Release
  <1>2. MigrationCovers(p) /\ CopiesChecked(p) /\ RestoreSteps(p) /\ WorksAlone(p)
    BY DEF HistoryInv
  <1>3. lease' \in Procs \cup {None} /\ stray' \in BOOLEAN /\ \A q \in Procs : LeavesTo(q)
    BY <1>1, Typed DEF LeavesTo
  <1>4. file(p) = proc[p].file /\ file(p) # None /\ db(p).schema = Steps /\ db(p).version <= Current
    <2>1. file(p) = proc[p].file /\ file(p) # None /\ Steps \subseteq db(p).schema
      BY <1>1, <1>2 DEF MigrationCovers, Covers, Migrating, file
    <2>2. db(p) \in Content /\ db(p).version <= Current
      BY <2>1, OpenSound
    <2>3. db(p).schema \in SUBSET Steps
      BY <2>2 DEF Content
    <2> QED
      BY <2>1, <2>2, <2>3
  <1>5. o \in Locals /\ "open" \in Labels
    BY <1>1, Typed DEF Locals, Labels, Opens
  <1>6. /\ o.file = proc[p].file /\ o.kept = None /\ o.from = None /\ o.copy = proc[p].copy
    BY <1>1, Typed DEF Locals
  <1>7. pc'[p] = "open" /\ proc'[p] = o
    BY <1>1, Typed
  <1>8. file(p)' = file(p) /\ db(p)' = db(p)
    BY <1>1, <1>4, <1>6, <1>7 DEF file, db
  <1>9. MigrationCovers(p)'
    BY <1>4, <1>7, <1>8 DEF MigrationCovers, Opens, Migrating
  <1>10. CopiesChecked(p)' /\ RestoreSteps(p)' /\ WorksAlone(p)'
    BY <1>1, <1>2, <1>6, <1>7 DEF CopiesChecked, RestoreSteps, WorksAlone, Migrating
  <1>11. FilesSound' /\ CopiesSound'
    BY <1>1 DEF HistoryInv, FilesSound, CopiesSound
  <1>12. \A q \in Procs : proc[q].file # None => content[proc[q].file].version <= Current
    BY OpenSound
  <1> QED
    BY <1>1, <1>3, <1>5, <1>9, <1>10, <1>11, <1>12, Typed, StepKeeps

(* A step that changes rows and takes a lease away, and nothing else.      *)
LEMMA LeaseLost ==
    ASSUME HistoryInv, UNCHANGED <<path, stray, backup, safety, pc, proc>>, lease' \in {lease, None},
           copying' \in BOOLEAN, events' \in Nat,
           content' = content \/ \E f \in Files : content' = [content EXCEPT ![f].held = FALSE]
    PROVE  HistoryInv'
  <1>1. /\ content' \in [Files -> Content] /\ FilesSound'
        /\ \A g \in Files : content'[g].runs = content[g].runs
        /\ \A q \in Procs : proc[q].file # None =>
                  /\ content'[proc[q].file].version <= Current
                  /\ content[proc[q].file].schema \subseteq content'[proc[q].file].schema
    <2>1. CASE content' = content
      BY <2>1, OpenSound DEF HistoryInv, TypeOK, FilesSound
    <2>2. CASE \E f \in Files : content' = [content EXCEPT ![f].held = FALSE]
      <3>1. PICK f \in Files : content' = [content EXCEPT ![f] = [content[f] EXCEPT !.held = FALSE]]
        BY <2>2
      <3>2. content[f] \in Content
        BY DEF HistoryInv, TypeOK
      <3>3. PICK d \in Content : /\ d.version = content[f].version /\ d.schema = content[f].schema
                                 /\ d.runs = content[f].runs /\ content' = [content EXCEPT ![f] = d]
        BY <3>1, <3>2, HeldFields
      <3> QED
        BY <3>3, RowsOnly
    <2> QED
      BY <2>1, <2>2
  <1>2. TypeOK' /\ CopiesSound'
    BY <1>1 DEF HistoryInv, TypeOK, CopiesSound
  <1>3. ASSUME NEW q \in Procs PROVE MigrationCovers(q)' /\ CopiesChecked(q)' /\ RestoreSteps(q)' /\ WorksAlone(q)'
    <2>1. path \in Files \cup {None} /\ LeavesTo(q)
      BY <1>1, FilesAssumption DEF HistoryInv, TypeOK, LeavesTo
    <2> QED
      BY <1>1, <2>1, OtherKeeps
  <1> QED
    BY <1>1, <1>2, <1>3 DEF HistoryInv

(* A lease runs out, under the feet of its process too.                    *)
LEMMA LapseKeeps ==
    ASSUME HistoryInv, NEW p \in Procs, Lapse(p), copying' \in BOOLEAN, events' \in Nat
    PROVE  HistoryInv'
  <1>1. /\ UNCHANGED <<path, stray, backup, safety, pc, proc>> /\ lease' \in {lease, None}
        /\ content' = content \/ (file(p) # None /\ content' = [content EXCEPT ![file(p)].held = FALSE])
    BY DEF Lapse, Release, ReleaseRow
  <1>2. file(p) # None => file(p) \in Files
    BY Typed DEF file
  <1> QED
    BY <1>1, <1>2, LeaseLost

(* So do those nobody answers for.                                         *)
LEMMA ExpireKeeps ==
    ASSUME HistoryInv, Expire, copying' \in BOOLEAN, events' \in Nat
    PROVE  HistoryInv'
  BY LeaseLost DEF Expire

(* What older builds left is sound.                                        *)
LEMMA FoundSound ==
    ASSUME NEW v \in (0..(Current + 1)) \ {5}, NEW c \in Found(v)
    PROVE  c \in Content /\ Sound(c)
  <1> DEFINE S == {SchemaOf(v)} \cup (IF v = 4 THEN {SchemaOf(v) \cup {"v5"}} ELSE {})
             R == IF v = 0 THEN {{}} ELSE SUBSET Runs
  <1>1. /\ c = [version |-> v, schema |-> c.schema, runs |-> c.runs, held |-> FALSE]
        /\ c.schema = SchemaOf(v) \/ (v = 4 /\ c.schema = SchemaOf(v) \cup {"v5"})
        /\ c.runs \in SUBSET Runs
    <2>1. c \in [version : {v}, schema : S, runs : R, held : {FALSE}]
      BY DEF Found
    <2>2. R \subseteq SUBSET Runs
      OBVIOUS
    <2>3. \A s \in S : s = SchemaOf(v) \/ (v = 4 /\ s = SchemaOf(v) \cup {"v5"})
      OBVIOUS
    <2> HIDE DEF S, R
    <2>4. /\ c = [version |-> c.version, schema |-> c.schema, runs |-> c.runs, held |-> c.held]
          /\ c.version = v /\ c.schema \in S /\ c.runs \in R /\ c.held = FALSE
      BY <2>1
    <2> QED
      BY <2>2, <2>3, <2>4
  <1>2. c.schema \in SUBSET Steps
    BY <1>1 DEF SchemaOf, Steps
  <1>3. c \in Content /\ c.version = v
    <2> HIDE DEF S, R
    <2>1. v \in 0..(Current + 1)
      OBVIOUS
    <2>2. [version |-> v, schema |-> c.schema, runs |-> c.runs, held |-> FALSE] \in Content
      BY <2>1, <1>1, <1>2 DEF Content
    <2>3. c.version = v
      BY <1>1
    <2> QED
      BY <2>2, <2>3, <1>1
  <1>4. SchemaOf(v) \subseteq c.schema
    BY <1>1
  <1>5. (v = 0 => c.schema = {}) /\ (v = 1 => c.schema = {"runs"})
    BY <1>1, SchemaFacts
  <1> QED
    BY <1>3, <1>4, <1>5 DEF Sound

(* The invariant holds at the start.                                       *)
LEMMA InitHolds == Init => HistoryInv
  <1> SUFFICES ASSUME Init PROVE HistoryInv
    OBVIOUS
  <1>1. None \notin Files /\ None \notin Procs /\ None \notin Content
    BY FilesAssumption
  <1>2. NoLocals \in Locals /\ NoLocals.file = None /\ NoLocals.kept = None /\ NoLocals.copy = None /\ NoLocals.from = None
    BY DEF NoLocals, Locals, Current
  <1>3. backup = None \/ (backup \in Content /\ Sound(backup))
    <2>1. ASSUME NEW v \in OldBackups, backup \in Found(v) PROVE backup \in Content /\ Sound(backup)
      BY <2>1, FoundSound, FilesAssumption
    <2> QED
      BY <2>1 DEF Init
  <1>4. path \in Files \cup {None} /\ content \in [Files -> Content] /\ FilesSound
    <2>1. PICK f \in Files, v \in Oldest \cup {Current} :
            /\ path = IF v = 0 THEN None ELSE f
            /\ content \in {[g \in Files |-> IF g = f /\ v > 0 THEN c ELSE Empty] : c \in Found(v)}
      BY DEF Init
    <2>2. PICK c \in Found(v) : content = [g \in Files |-> IF g = f /\ v > 0 THEN c ELSE Empty]
      BY <2>1
    <2>3. v \in (0..(Current + 1)) \ {5}
      BY FilesAssumption DEF Current
    <2>4. c \in Content /\ Sound(c)
      BY <2>3, FoundSound
    <2>5. Empty \in Content /\ Sound(Empty)
      <3>1. SchemaOf(0) = {}
        BY SchemaFacts DEF Current
      <3> QED
        BY <3>1 DEF Empty, Content, Sound, Current
    <2> QED
      BY <2>1, <2>2, <2>4, <2>5 DEF FilesSound
  <1>5. /\ stray = FALSE /\ safety = {} /\ lease = None /\ events = 0 /\ copying \in BOOLEAN
        /\ pc = [p \in Procs |-> "closed"] /\ proc = [p \in Procs |-> NoLocals]
    BY DEF Init
  <1>6. TypeOK
    BY <1>2, <1>3, <1>4, <1>5 DEF TypeOK, Labels
  <1>7. CopiesSound
    BY <1>3, <1>5 DEF CopiesSound
  <1>8. ASSUME NEW p \in Procs PROVE MigrationCovers(p) /\ CopiesChecked(p) /\ RestoreSteps(p) /\ WorksAlone(p)
    <2>1. pc[p] = "closed" /\ proc[p] = NoLocals
      BY <1>5
    <2> QED
      BY <1>2, <2>1 DEF MigrationCovers, CopiesChecked, RestoreSteps, WorksAlone, Migrating, Opens, file
  <1> QED
    BY <1>4, <1>6, <1>7, <1>8 DEF HistoryInv

(* Every step keeps the invariant.                                         *)
LEMMA NextHolds ==
    ASSUME HistoryInv, [Next]_vars PROVE HistoryInv'
  <1>1. CASE UNCHANGED vars
    <2>1. TypeOK' /\ FilesSound' /\ CopiesSound'
      BY <1>1 DEF HistoryInv, vars, TypeOK, FilesSound, CopiesSound
    <2>2. ASSUME NEW p \in Procs PROVE MigrationCovers(p)' /\ CopiesChecked(p)' /\ RestoreSteps(p)' /\ WorksAlone(p)'
      BY <1>1 DEF HistoryInv, vars, MigrationCovers, CopiesChecked, RestoreSteps, WorksAlone, file, db, IsNext
    <2> QED
      BY <2>1, <2>2 DEF HistoryInv
  <1>2. ASSUME Next PROVE HistoryInv'
    <2>1. copying' \in BOOLEAN /\ events' \in Nat
      BY <1>2 DEF Next, HistoryInv, TypeOK
    <2>2. ASSUME Expire PROVE HistoryInv'
      BY <2>1, <2>2, ExpireKeeps
    <2>3. ASSUME NEW p \in Procs,
                 \/ Open(p) \/ StepReads(p) \/ StepCommits(p) \/ Opened(p) \/ OpenFails(p) \/ Close(p) \/ Crash(p)
          PROVE  HistoryInv'
      <3>1. ASSUME OpenFails(p) \/ Close(p) \/ Crash(p) PROVE HistoryInv'
        BY <2>1, <3>1, EndKeeps DEF OpenFails, Close, Crash, Goto
      <3> QED
        BY <2>1, <2>3, <3>1, OpenKeeps, StepReadsKeeps, StepCommitsKeeps, OpenedKeeps
    <2>4. ASSUME NEW p \in Procs,
                 \/ BeginCapture(p) \/ EndCapture(p) \/ BeginBackup(p) \/ Vacuum(p) \/ RemoveBackup(p) \/ Publish(p)
          PROVE  HistoryInv'
      <3>1. ASSUME BeginCapture(p) \/ BeginBackup(p) PROVE HistoryInv'
        BY <2>1, <3>1, AcquireKeeps DEF BeginCapture, BeginBackup
      <3> QED
        BY <2>1, <2>4, <3>1, EndCaptureKeeps, VacuumKeeps, RemoveBackupKeeps, PublishKeeps
    <2>5. ASSUME NEW p \in Procs,
                 \/ BeginRestore(p) \/ SafetyCopy(p) \/ CopySource(p) \/ RemoveLive(p) \/ Rename(p)
                 \/ PutBack(p) \/ Restored(p) \/ GiveUp(p)
          PROVE  HistoryInv'
      <3>1. ASSUME BeginRestore(p) PROVE HistoryInv'
        BY <2>1, <3>1, AcquireKeeps DEF BeginRestore
      <3> QED
        BY <2>1, <2>5, <3>1, SafetyCopyKeeps, CopySourceKeeps, RemoveLiveKeeps, RenameKeeps, PutBackKeeps,
           RestoredKeeps, GiveUpKeeps
    <2>6. ASSUME NEW p \in Procs, Lapse(p) PROVE HistoryInv'
      BY <2>1, <2>6, LapseKeeps
    <2> QED
      BY <1>2, <2>2, <2>3, <2>4, <2>5, <2>6 DEF Next, Step, Event
  <1> QED
    BY <1>1, <1>2

(* For any number of processes, files and runs, whatever version the       *)
(* database is found at and however processes interleave and crash.        *)
THEOREM HistoryInvariant == Spec => []HistoryInv
  <1>1. Init => HistoryInv
    BY InitHolds
  <1>2. HistoryInv /\ [Next]_vars => HistoryInv'
    BY NextHolds
  <1> QED
    BY <1>1, <1>2, PTL DEF Spec

(* migrate: every store that open returned has all tables and columns, and *)
(* the history can always be migrated on.                                  *)
THEOREM SchemaWholeHolds == Spec => []SchemaWhole
  <1>1. ASSUME HistoryInv PROVE SchemaWhole
    <2>1. OpenedWhole
      BY <1>1 DEF HistoryInv, MigrationCovers, Opens, OpenedWhole
    <2>2. MigratesOn
      BY <1>1, FilesAssumption DEF HistoryInv, TypeOK, FilesSound, Sound, MigratesOn
    <2> QED
      BY <2>1, <2>2 DEF SchemaWhole
  <1> QED
    BY <1>1, HistoryInvariant, PTL

(* Backup and Restore: every copy kept is whole and checked.               *)
THEOREM CopiesUsableHolds == Spec => []CopiesUsable
  <1>1. ASSUME HistoryInv PROVE CopiesUsable
    BY <1>1 DEF HistoryInv, CopiesSound, Whole, CopiesUsable
  <1> QED
    BY <1>1, HistoryInvariant, PTL

-----------------------------------------------------------------------------
(* What a step does to the runs of the history.                            *)

(* No migration step touches the runs.                                     *)
LEMMA AfterStepRuns ==
    ASSUME NEW c \in Content, NEW s \in Steps, NEW seen
    PROVE  AfterStep(c, s, seen).runs = c.runs
  <1>1. \A x \in SUBSET Steps, v \in 0..(Current + 1) : Adds(c, x, v).runs = c.runs
    BY AddsFields
  <1>2. c.version \in 0..(Current + 1) /\ {2, 3, 4, 6, 7, 8, 9} \subseteq 0..(Current + 1)
    BY ContentFields DEF Current
  <1>3. {"runs", "labels"} \in SUBSET Steps /\ \A t \in Steps : {t} \in SUBSET Steps
    BY DEF Steps
  <1>4. CASE s \in {"runs", "labels"}
    BY <1>1, <1>2, <1>3, <1>4 DEF AfterStep, CreateTables
  <1>5. CASE s = "v3"
    BY <1>1, <1>2, <1>3, <1>5 DEF AfterStep, MigrateV3
  <1>6. CASE s = "v4"
    BY <1>1, <1>2, <1>3, <1>6 DEF AfterStep, MigrateV4
  <1>7. CASE s = "v5"
    BY <1>1, <1>2, <1>3, <1>7 DEF AfterStep, MigrateV5
  <1>8. CASE s \in {"v6", "v7", "v8", "v9"}
    BY <1>1, <1>2, <1>3, <1>8 DEF AfterStep, MigrateV6, MigrateV7, MigrateV8, MigrateV9
  <1> QED
    BY <1>4, <1>5, <1>6, <1>7, <1>8 DEF Steps

(* The file at the path is the same and keeps its runs; and the actions   *)
(* that may replace it.                                                    *)
HistoryStays == path' = path /\ content[path].runs \subseteq content'[path].runs
Replaces(p) == RemoveLive(p) \/ Rename(p) \/ PutBack(p)

(* A file that keeps its runs keeps those of the history.                  *)
LEMMA FileRowsStay ==
    ASSUME HistoryInv, NEW f \in Files, NEW d, content[f].runs \subseteq d.runs, path \in Files,
           content' = [content EXCEPT ![f] = d], path' = path
    PROVE  HistoryStays
  BY DEF HistoryInv, TypeOK, HistoryStays

(* Only a restore takes the file at the path away or replaces it.          *)
LEMMA OnlyRestoresReplace ==
    ASSUME HistoryInv, [Next]_vars, path # None, ~ \E p \in Procs : Replaces(p)
    PROVE  HistoryStays
  <1> USE DEF HistoryStays
  <1>1. path \in Files /\ content \in [Files -> Content]
    BY DEF HistoryInv, TypeOK
  <1>2. CASE path' = path /\ content' = content
    BY <1>2
  <1>3. ASSUME Expire PROVE HistoryStays
    <2>1. CASE content' = content
      BY <1>3, <2>1 DEF Expire
    <2>2. CASE \E f \in Files : content' = [content EXCEPT ![f].held = FALSE]
      <3>1. PICK f \in Files : content' = [content EXCEPT ![f] = [content[f] EXCEPT !.held = FALSE]]
        BY <2>2
      <3>2. [content[f] EXCEPT !.held = FALSE].runs = content[f].runs
        BY <1>1, HeldFields
      <3> QED
        BY <1>1, <1>3, <3>1, <3>2, FileRowsStay DEF Expire
    <2> QED
      BY <1>3, <2>1, <2>2 DEF Expire
  <1>4. ASSUME NEW p \in Procs, Open(p) PROVE HistoryStays
    BY <1>2, <1>4 DEF Open, OpenPath
  <1>5. ASSUME NEW p \in Procs, StepCommits(p) PROVE HistoryStays
    <2>1. PICK s \in Steps : /\ pc[p] \in Migrating
                            /\ content' = [content EXCEPT ![file(p)] = AfterStep(content[file(p)], s, proc[p].seen)]
                            /\ path' = path
      BY <1>5 DEF StepCommits, At, Migrating
    <2>2. file(p) \in Files
      BY <2>1, OpenSound DEF HistoryInv, MigrationCovers, file
    <2> QED
      BY <1>1, <2>1, <2>2, AfterStepRuns, FileRowsStay
  <1>6. ASSUME NEW p \in Procs, BeginCapture(p) \/ BeginBackup(p) \/ BeginRestore(p) PROVE HistoryStays
    <2>1. /\ pc[p] \in Opens /\ path' = path
          /\ content' = [content EXCEPT ![file(p)] = [content[file(p)] EXCEPT !.held = TRUE]]
      BY <1>6 DEF BeginCapture, BeginBackup, BeginRestore, Acquire, At, Opens
    <2>2. file(p) \in Files
      BY <2>1, OpenSound DEF HistoryInv, MigrationCovers, file
    <2>3. [content[file(p)] EXCEPT !.held = TRUE].runs = content[file(p)].runs
      BY <1>1, <2>2, HeldFields
    <2> QED
      BY <1>1, <2>1, <2>2, <2>3, FileRowsStay
  <1>7. ASSUME NEW p \in Procs, Publish(p) \/ GiveUp(p) \/ Lapse(p) PROVE HistoryStays
    <2>1. path' = path /\ (content' = content \/ (file(p) # None /\ ReleaseRow(p)))
      BY <1>7, OpenSound DEF HistoryInv, MigrationCovers, Publish, GiveUp, Lapse, At, Opens
    <2>2. CASE file(p) # None /\ ReleaseRow(p)
      <3>1. file(p) \in Files /\ db(p) = content[file(p)]
        BY <2>2, Typed DEF file, db
      <3>2. PICK d \in Content : d.runs = content[file(p)].runs /\ content' = [content EXCEPT ![file(p)] = d]
        BY <2>2, <3>1, ReleaseRowFields
      <3> QED
        BY <1>1, <2>1, <3>1, <3>2, FileRowsStay
    <2> QED
      BY <2>1, <2>2
  <1>8. ASSUME NEW p \in Procs, EndCapture(p) PROVE HistoryStays
    <2>1. PICK r \in Runs :
            /\ pc[p] \in Opens /\ path' = path
            /\ content' = [content EXCEPT ![file(p)] = [content[file(p)] EXCEPT !.runs = content[file(p)].runs \cup {r}, !.held = FALSE]]
      BY <1>8 DEF EndCapture, At, Opens
    <2>2. file(p) \in Files
      BY <2>1, OpenSound DEF HistoryInv, MigrationCovers, file
    <2>3. content[file(p)].runs \subseteq
            [content[file(p)] EXCEPT !.runs = content[file(p)].runs \cup {r}, !.held = FALSE].runs
      BY <1>1, <2>2 DEF Content
    <2> QED
      BY <1>1, <2>1, <2>2, <2>3, FileRowsStay
  <1>9. ASSUME NEW p \in Procs,
               \/ StepReads(p) \/ Opened(p) \/ OpenFails(p) \/ Close(p) \/ Crash(p) \/ Vacuum(p) \/ RemoveBackup(p)
               \/ SafetyCopy(p) \/ CopySource(p) \/ Restored(p)
        PROVE  HistoryStays
    BY <1>2, <1>9 DEF StepReads, Opened, OpenFails, Close, Crash, Vacuum, RemoveBackup, SafetyCopy, CopySource, Restored
  <1>10. CASE UNCHANGED vars
    BY <1>2, <1>10 DEF vars
  <1>11. CASE Next
    BY <1>3, <1>4, <1>5, <1>6, <1>7, <1>8, <1>9, <1>11 DEF Next, Step, Event, Replaces
  <1> QED
    BY <1>10, <1>11

(* Restore: a captured run is in the history or in a copy of it, at every  *)
(* step, whichever process crashes where, as long as no restore outlives   *)
(* its lease.                                                              *)
THEOREM RestoreKeepsHolds == Spec => RestoreKeeps
  <1> DEFINE Keeps == \A r \in Runs :
         /\ path # None /\ r \in content[path].runs /\ ~stray
         /\ \A p \in Procs : proc[p].from \in {None, path} /\ ~Overran(p) /\ ~Restoring(p)
         => \/ path' # None /\ r \in content'[path'].runs
            \/ \E c \in safety' \cup ({backup'} \ {None}) : r \in c.runs
  <1>1. ASSUME HistoryInv, [Next]_vars PROVE Keeps
    <2> SUFFICES ASSUME NEW r \in Runs, path # None, r \in content[path].runs, ~stray,
                        \A p \in Procs : proc[p].from \in {None, path} /\ ~Overran(p) /\ ~Restoring(p)
                 PROVE  \/ path' # None /\ r \in content'[path'].runs
                        \/ \E c \in safety' \cup ({backup'} \ {None}) : r \in c.runs
      OBVIOUS
    <2>1. CASE ~ \E p \in Procs : Replaces(p)
      BY <1>1, <2>1, OnlyRestoresReplace DEF HistoryStays
    <2>2. ASSUME NEW p \in Procs, Replaces(p)
          PROVE  \E c \in safety' : r \in c.runs
      <3>1. CopiesChecked(p) /\ RestoreSteps(p) /\ WorksAlone(p)
        BY <1>1 DEF HistoryInv
      <3>2. safety' = safety /\ pc[p] \in {"remove", "rename"}
        BY <2>2 DEF Replaces, RemoveLive, Rename, PutBack, At, Restoring
      <3>3. proc[p].kept # None /\ lease = p
        BY <3>1, <3>2 DEF RestoreSteps, Overran
      <3>4. pc[p] # "rename"
        BY <3>1, <3>3 DEF WorksAlone
      <3>5. path = proc[p].from
        BY <3>1, <3>2, <3>4 DEF RestoreSteps
      <3>6. proc[p].kept \in safety /\ r \in proc[p].kept.runs
        BY <3>1, <3>2, <3>3, <3>4, <3>5 DEF CopiesChecked, WorksAlone
      <3> QED
        BY <3>2, <3>6
    <2> QED
      BY <2>1, <2>2
  <1>2. HistoryInv /\ [Next]_vars => [Keeps]_vars
    BY <1>1
  <1> QED
    BY <1>2, HistoryInvariant, PTL DEF Spec, RestoreKeeps
=============================================================================
