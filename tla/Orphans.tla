------------------------------- MODULE Orphans -------------------------------
(***************************************************************************)
(* Which of the disk files found on datastores no VM uses                  *)
(* (internal/health/orphans.go).                                           *)
(*                                                                         *)
(* data is one stored run: [schema, finished, ctx, vms, stores, ...], ctx  *)
(* the context rows, the rest sets of observations, each with the context  *)
(* (ctx) that made it.  A file is [dir, stem, part]: part "vmdk" for the   *)
(* descriptor, "snap" for that of a snapshot (stem-000001), "flat" for     *)
(* what lies beside a descriptor.  A disk's path is <<datastore name,      *)
(* file>>, Unknown when it is no datastore path.                           *)
(***************************************************************************)
EXTENDS RunDiff, TLC

IdentityKeys(d) == IF d.local THEN {} ELSE d.keys

VmdkFamily(f) == <<f.dir, f.stem>>

SnapshotStem(f) == IF f.part = "flat" THEN <<f.dir, f.stem, "flat">> ELSE <<f.dir, f.stem>>

SidecarVMDK(f) == f.part = "flat"

Browsed(d) == d.browse = "success"

StoresOf(data, c, name) == {d \in data.stores : d.ctx = c /\ d.name = name}

(* Every VM and template disk that is a file: where its context says the   *)
(* datastore is.  It is blind when no datastore of that name was recorded  *)
(* with an identity.                                                       *)
References(data) ==
    UNION {{LET matching == StoresOf(data, v.ctx, d.path[1])
                keys     == UNION {IdentityKeys(s) : s \in matching}
            IN  [ctx |-> v.ctx, vm |-> v.id, name |-> d.path[1], file |-> d.path[2],
                 keys |-> keys, blind |-> keys = {}]
            : d \in {x \in v.disks : x.path # Unknown}} : v \in data.vms}

ReferencesForStore(refs, s) ==
    IF IdentityKeys(s) # {} THEN {r \in refs : r.keys \cap IdentityKeys(s) # {}}
    ELSE {r \in refs : r.ctx = s.ctx /\ r.name = s.name}

MatchingReferences(refs, s, f) ==
    {r \in ReferencesForStore(refs, s) : r.file = f \/ SnapshotStem(r.file) = SnapshotStem(f)}

FolderHasReference(refs, s, f) == \E r \in ReferencesForStore(refs, s) : r.file.dir = f.dir

(* Written in the day before the capture, or in the minute after it.  The  *)
(* clock counts minutes.                                                   *)
RecentDisk(f, finished, day) ==
    f.modified # 0 /\ finished # 0 /\ f.modified > finished - day /\ f.modified <= finished + 1

ContextSharesStore(data, c, s) ==
    \E d \in data.stores : d.ctx = c /\ IdentityKeys(d) \cap IdentityKeys(s) # {}

ContextHasDatastoreName(data, c, name) == StoresOf(data, c, name) # {}

ContextCoverageFailure(c) ==
    ~Successful(StatusOf(c, "vm")) \/ ("datastore" \in DOMAIN c.coll /\ ~Successful(c.coll["datastore"]))

CheckedContexts(data, s) ==
    {s.ctx} \cup {c.name : c \in {x \in ToSet(data.ctx) : ContextHasDatastoreName(data, x.name, s.name)}}

(* blindnessFor: contexts that use the datastore, as far as the run knows, *)
(* and were not fully read.                                                *)
BlindToDisk(data, refs, s, f) ==
    (IF s.truncated THEN {s.ctx} ELSE {})
    \cup {c.name : c \in {x \in ToSet(data.ctx) :
            (x.name = s.ctx \/ ContextSharesStore(data, x.name, s)) /\ ContextCoverageFailure(x)}}
    \cup (IF ~s.local /\ IdentityKeys(s) = {} THEN {s.ctx} ELSE {})
    \cup {r.ctx : r \in {x \in refs : x.blind /\ x.ctx = s.ctx /\ x.name = s.name /\ x.file = f}}

BlindnessOwnOnly(data, refs, s, f) ==       \* seeded fault: only the datastore's own context counts
    BlindToDisk([data EXCEPT !.ctx = SelectSeq(@, LAMBDA c : c.name = s.ctx)], refs, s, f)

BlindnessFor(data, refs, s, f) ==
    IF data.schema < 11 THEN {} ELSE BlindToDisk(data, refs, s, f)

(* The verdict on one browsed file; Unknown: its own context uses it.      *)
OrphanConfidence(data, refs, s, f, day) ==
    LET matching == MatchingReferences(refs, s, f.file) IN
    CASE \E r \in matching : r.ctx = s.ctx                -> Unknown
      [] ~(\E r \in matching : r.ctx = s.ctx)
            /\ BlindnessFor(data, refs, s, f.file) # {}   -> "unknown-incomplete-coverage"
      [] OTHER ->
            IF matching # {} THEN "referenced-other-context"
            ELSE IF data.schema < 11 \/ FolderHasReference(refs, s, f.file)
                    \/ RecentDisk(f, data.finished, day) THEN "suspected-unreferenced"
            ELSE "verified-unreferenced"

OrphanEntries(data, day) ==
    LET refs == References(data) IN
    {e \in UNION {{[ctx |-> s.ctx, store |-> s.id, file |-> f.file,
                    confidence |-> OrphanConfidence(data, refs, s, f, day),
                    refs |-> MatchingReferences(refs, s, f.file),
                    checked |-> CheckedContexts(data, s),
                    blind |-> BlindnessFor(data, refs, s, f.file)]
                   : f \in {x \in s.files : ~SidecarVMDK(x.file)}}
                  : s \in {x \in data.stores : Browsed(x)}} : e.confidence # Unknown}

(* orphanCoverage: the datastores that were not fully listed, and why.     *)
ScanGaps(data) ==
    {[ctx |-> s.ctx, store |-> s.id,
      status |-> CASE s.browse = "success" -> "truncated"
                   [] s.browse = "denied"  -> "denied"
                   [] s.browse = "failed"  -> "failed"
                   [] OTHER                -> "not-browsed"]
     : s \in {x \in data.stores : ~Browsed(x) \/ x.truncated}}

(* What the file browser says of one file of a datastore it is looking at: *)
(* the file must have been listed by the capture, on the one datastore     *)
(* that matches.                                                           *)
SameStoredDatastore(data, s, c, name) ==
    \/ c = s.ctx /\ name = s.name
    \/ \E d \in StoresOf(data, c, name) : IdentityKeys(d) \cap IdentityKeys(s) # {}

AssessDatastoreFile(data, current, f, day) ==
    LET stores == {d \in data.stores : /\ d.ctx = current.ctx
                       /\ \/ d.id = current.id \/ d.name = current.name
                          \/ IdentityKeys(d) \cap IdentityKeys(current) # {}}
        s      == CHOOSE d \in stores : TRUE
        users  == {v \in data.vms : \E d \in v.disks :
                       /\ d.path # Unknown /\ VmdkFamily(d.path[2]) = VmdkFamily(f)
                       /\ SameStoredDatastore(data, s, v.ctx, d.path[1])}
        known  == {e \in OrphanEntries(data, day) :
                       e.ctx = s.ctx /\ e.store = s.id /\ VmdkFamily(e.file) = VmdkFamily(f)}
        unsure == "unknown-incomplete-coverage"
    IN  IF Cardinality(stores) # 1 THEN unsure
        ELSE IF ~Browsed(s) \/ ~\E x \in s.files : VmdkFamily(x.file) = VmdkFamily(f) THEN unsure
        ELSE IF \E v \in users : v.ctx = s.ctx THEN "referenced"
        ELSE IF users # {} THEN "referenced-other-context"
        ELSE IF known # {} THEN (CHOOSE e \in known : TRUE).confidence ELSE unsure
=============================================================================
