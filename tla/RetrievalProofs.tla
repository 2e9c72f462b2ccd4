-------------------------- MODULE RetrievalProofs --------------------------
(***************************************************************************)
(* For any estate, any pages, limits and budgets, and calls that fail, are *)
(* refused or run into the deadline at any moment:                         *)
(*   - when no operation is under way, the client holds on the server only *)
(*     what the server did not release when it was asked to;               *)
(*   - the pages of a VM list add up to the estate, whatever changes on    *)
(*     the vCenter while they are read;                                    *)
(*   - no read of VMs, files, history, licences or samples is passed off   *)
(*     as more than it is.                                                 *)
(* Each part has an inductive invariant of its own over the one of the     *)
(* first part; what the steps of another part leave alone is stated once,  *)
(* by kind of step.                                                        *)
(***************************************************************************)
EXTENDS Retrieval, TLAPS, SequenceTheorems, FiniteSetTheorems

LEMMA InvFacts ==
  ASSUME RetrievalInv
  PROVE  /\ open \subseteq Names \X Nat \X Nat /\ lost \subseteq open
         /\ ops \in Nat /\ ops \in 0 .. MaxOps /\ changes \in 0 .. MaxChanges /\ MaxOps \in Nat /\ MaxChanges \in Nat
         /\ vms \in [VMIds -> Folders \cup {Gone}]
         /\ OpShape /\ OpenAccounted /\ KeptIsOlder
  BY RetrievalAssumption DEF RetrievalInv, TypeOK, Names

LEMMA HandleFacts ==
  ASSUME RetrievalInv, NEW name \in Names
  PROVE  Handle(name) \in Names \X Nat \X Nat /\ Handle(name)[2] = ops
         /\ Handle(name)[3] = IF op.kind = "files" THEN op.i ELSE 0
  BY InvFacts DEF Handle, OpShape

(* An operation that ends holds nothing, and neither does one that begins. *)
LEMMA Ended ==
  ASSUME RetrievalInv, op' = Idle, open' = lost', lost' \subseteq open, UNCHANGED <<vms, ops, changes>>
  PROVE  RetrievalInv'
<1>1. op'.kind = "idle"
  BY DEF Idle
<1>2. TypeOK'
  BY InvFacts DEF TypeOK, Names
<1>3. OpShape' /\ OpenAccounted' /\ KeptIsOlder'
  BY <1>1, InvFacts DEF OpShape, OpenAccounted, Holds, KeptIsOlder
<1> QED BY <1>2, <1>3 DEF RetrievalInv

LEMMA Begun ==
  ASSUME RetrievalInv, op.kind = "idle", ops < MaxOps, ops' = ops + 1, UNCHANGED <<vms, open, lost, changes>>,
         OpShape', op'.kind = "files" => op'.pc = "next",
         op'.kind \in {"vms", "vapps"} => op'.pc \in {"index", "make"},
         op'.kind \in {"browse", "listing"} => op'.pc = "ask",
         op'.kind = "events" => op'.pc = "create"
  PROVE  RetrievalInv'
<1>1. open = lost
  BY InvFacts DEF OpenAccounted, Holds
<1>2. ops \in Nat /\ ops' \in 0 .. MaxOps
  BY InvFacts
<1>3. TypeOK'
  BY <1>2, InvFacts DEF TypeOK, Names
<1>4. OpenAccounted'
  BY <1>1 DEF OpenAccounted, Holds
<1>5. KeptIsOlder'
  <2>1. \A h \in lost : h[2] \in Nat /\ h[2] <= ops
    BY <1>1, InvFacts DEF KeptIsOlder
  <2>2. \A h \in lost : h[2] < ops' /\ h[2] <= ops'
    BY <1>2, <2>1
  <2> QED BY <1>1, <1>2, <2>1, <2>2 DEF KeptIsOlder
<1> QED BY <1>3, <1>4, <1>5 DEF RetrievalInv

(* A step of an operation that changes neither what it holds nor where it  *)
(* is.                                                                     *)
LEMMA Went ==
  ASSUME RetrievalInv, UNCHANGED <<open, lost, ops>>, OpShape', op'.kind = op.kind,
         op.kind \in {"vms", "vapps", "files", "browse", "listing", "events"} => op'.pc = op.pc,
         op.kind = "files" => op'.i = op.i,
         vms' \in [VMIds -> Folders \cup {Gone}], changes' \in 0 .. MaxChanges
  PROVE  RetrievalInv'
<1>1. TypeOK'
  BY InvFacts DEF TypeOK, Names
<1>2. Holds' = Holds
  BY DEF Holds, Handle
<1>3. OpenAccounted' /\ KeptIsOlder'
  BY <1>2, InvFacts DEF OpenAccounted, KeptIsOlder
<1> QED BY <1>1, <1>3 DEF RetrievalInv

-----------------------------------------------------------------------------

LEMMA EnvironmentHolds ==
  ASSUME RetrievalInv, (\E v \in VMIds, to \in Folders \cup {Gone} : ChangeVM(v, to)) \/ Expire \/ IndexAges
  PROVE  RetrievalInv'
<1>1. CASE \E v \in VMIds, to \in Folders \cup {Gone} : ChangeVM(v, to)
  <2>1. PICK v \in VMIds, to \in Folders \cup {Gone} : ChangeVM(v, to)
    BY <1>1
  <2>2. vms' \in [VMIds -> Folders \cup {Gone}] /\ changes' \in 0 .. MaxChanges /\ UNCHANGED <<open, lost, ops>>
    <3>1. vms' = [vms EXCEPT ![v] = to] /\ changes < MaxChanges /\ changes' = changes + 1 /\ UNCHANGED <<open, lost, ops>>
      BY <2>1 DEF ChangeVM
    <3>2. changes' \in 0 .. MaxChanges
      BY <3>1, InvFacts
    <3> QED BY <3>1, <3>2, InvFacts
  <2>3. OpShape' /\ op'.kind = op.kind /\ (op.kind \in {"vms", "vapps", "files", "browse", "listing", "events"} => op'.pc = op.pc)
        /\ (op.kind = "files" => op'.i = op.i)
    BY <2>1, InvFacts DEF ChangeVM, OpShape
  <2> QED BY <2>2, <2>3, Went
<1>2. CASE Expire
  <2>1. UNCHANGED <<vms, open, lost, ops, changes>>
    BY <1>2 DEF Expire
  <2>2. OpShape' /\ op'.kind = op.kind /\ (op.kind \in {"vms", "vapps", "files", "browse", "listing", "events"} => op'.pc = op.pc)
        /\ (op.kind = "files" => op'.i = op.i)
    BY <1>2, InvFacts DEF Expire, OpShape
  <2> QED BY <2>1, <2>2, InvFacts, Went
<1>3. CASE IndexAges
  BY <1>3, InvFacts, Went DEF IndexAges, OpShape
<1> QED BY <1>1, <1>2, <1>3

(* The reads of a single call, and the operations that begin.              *)
LEMMA BeginningsHold ==
  ASSUME RetrievalInv,
         \/ ListVApps \/ StartVMs \/ StartFiles
         \/ \E i \in DOMAIN Stores : StartBrowse(i) \/ StartListing(i)
         \/ \E ans \in Calls : StartPerf(ans) \/ ReadEvents(ans)
         \/ \E list, assign \in Calls, blind \in BOOLEAN : FetchLicenses(list, assign, blind)
  PROVE  RetrievalInv'
<1>1. op.kind = "idle" /\ ops < MaxOps /\ ops' = ops + 1 /\ UNCHANGED <<vms, open, lost, changes>>
  BY DEF ListVApps, StartVMs, StartFiles, StartBrowse, StartListing, Begin, StartPerf, ReadEvents, FetchLicenses
<1>2. CASE op' = op
  BY <1>1, <1>2, InvFacts, Begun DEF OpShape
<1>3. CASE StartVMs
  <2>1. op' = [kind |-> "vms", pc |-> "index", at |-> "", idx |-> Unknown, expired |-> FALSE,
               queue |-> <<>>, out |-> <<>>, failed |-> FALSE, touched |-> {}, configs |-> <<>>]
    BY <1>3 DEF StartVMs, Begin
  <2>2. OpShape' /\ op'.kind = "vms" /\ op'.pc = "index"
    BY <2>1 DEF OpShape
  <2> QED BY <1>1, <2>2, Begun
<1>9. CASE StartFiles
  <2>1. op' = [kind |-> "files", pc |-> "next", expired |-> FALSE, i |-> 1, remaining |-> MaxFilesPerContext, got |-> <<>>]
    BY <1>9 DEF StartFiles, Begin
  <2>2. OpShape' /\ op'.kind = "files" /\ op'.pc = "next"
    BY <2>1 DEF OpShape
  <2> QED BY <1>1, <2>2, Begun
<1>4. CASE ListVApps
  BY <1>1, <1>4, Begun DEF ListVApps, Begin, OpShape, ViewNames
<1>5. ASSUME NEW i \in DOMAIN Stores, StartBrowse(i) \/ StartListing(i)
      PROVE  RetrievalInv'
  BY <1>1, <1>5, Begun DEF StartBrowse, StartListing, Begin, OpShape
<1>6. ASSUME NEW ans \in Calls, StartPerf(ans), op' # op
      PROVE  RetrievalInv'
  <2>1. op'.kind = "perf" /\ OpShape'
    BY <1>6 DEF StartPerf, OpShape
  <2> QED BY <1>1, <2>1, Begun
<1>7. ASSUME NEW ans \in Calls, ReadEvents(ans), op' # op
      PROVE  RetrievalInv'
  <2>1. op'.kind = "events" /\ op'.pc = "create" /\ OpShape'
    BY <1>7 DEF ReadEvents, OpShape
  <2> QED BY <1>1, <2>1, Begun
<1>8. \/ op' = op \/ ListVApps \/ StartVMs \/ StartFiles
      \/ \E i \in DOMAIN Stores : StartBrowse(i) \/ StartListing(i)
      \/ \E ans \in Calls : StartPerf(ans) \/ ReadEvents(ans)
  BY DEF FetchLicenses
<1> QED BY <1>2, <1>3, <1>4, <1>5, <1>6, <1>7, <1>8, <1>9

-----------------------------------------------------------------------------
(* Reads through views: the view of a retrieval is there until its answer, *)
(* the view and the collector of the pages until the end.                  *)

Late == {"retrieve", "collector", "pages", "close"}

LEMMA VMsWent ==
  ASSUME RetrievalInv, op'.kind \in {"vms", "vapps"}, OpShape', UNCHANGED <<vms, lost, ops, changes>>,
         open' = open \/ \E name \in Names : open' = open \cup {Handle(name)},
         op'.pc \in Late \/ (open' = open /\ open = lost)
  PROVE  RetrievalInv'
<1>1. open' \subseteq Names \X Nat \X Nat /\ open \subseteq open'
  BY InvFacts, HandleFacts
<1>2. TypeOK'
  BY <1>1, InvFacts DEF TypeOK
<1>3. OpenAccounted'
  BY DEF OpenAccounted, Holds, Late
<1>4. KeptIsOlder'
  BY InvFacts, HandleFacts DEF KeptIsOlder
<1> QED BY <1>2, <1>3, <1>4 DEF RetrievalInv

(* All that an operation held is released, or the server keeps it.         *)
LEMMA ViewGone ==
  ASSUME RetrievalInv, NEW kept, kept \subseteq open \ lost, Release(open \ lost, kept)
  PROVE  open' = lost' /\ lost' \subseteq open
  BY InvFacts DEF Release

LEMMA VMsReleased ==
  ASSUME RetrievalInv, op'.kind = "vms", OpShape', UNCHANGED <<vms, ops, changes>>, open' = lost', lost' \subseteq open
  PROVE  RetrievalInv'
<1>1. TypeOK'
  BY InvFacts DEF TypeOK
<1>2. OpenAccounted' /\ KeptIsOlder'
  BY InvFacts DEF OpenAccounted, Holds, KeptIsOlder
<1> QED BY <1>1, <1>2 DEF RetrievalInv

(* What an answer to a retrieval makes of a VM read: it fails, or goes on  *)
(* to the next.                                                            *)
GoesOn(ans) ==
    /\ result' = result /\ op'.kind = "vms" /\ DOMAIN op' = DOMAIN op
    /\ op'.pc = (IF op.at = "clusters" THEN "view" ELSE "make") /\ op'.at = Following(op.at) /\ op'.idx = Indexed(ans)
    /\ op'.queue = op.queue /\ op'.out = op.out /\ op'.touched = op.touched /\ op'.configs \in {<<>>, ClusterConfigs}
    /\ client' = IF op.at = "portgroups" THEN [client EXCEPT !.old = FALSE, !.idx = op.idx] ELSE client

LEMMA RetrievedGives ==
  ASSUME OpShape, op.kind = "vms", NEW ans, Retrieved(ans)
  PROVE  (op' = Idle /\ result' = VMsFailed /\ client' = client) \/ GoesOn(ans)
<1>1. CASE op.at \in Needed /\ ~Usable(ans)
  BY <1>1 DEF Retrieved, Finish
<1>2. CASE ~(op.at \in Needed /\ ~Usable(ans))
  <2> DEFINE pc  == IF op.at = "clusters" THEN "view" ELSE "make"
             cfg == IF op.at = "clusters" /\ ans = "ok" THEN ClusterConfigs ELSE <<>>
             new == Indexed(ans)
             at  == Following(op.at)
  <2>1. /\ op' = [op EXCEPT !.pc = pc, !.at = at, !.idx = new, !.configs = cfg] /\ result' = result
        /\ client' = IF op.at = "portgroups" THEN [client EXCEPT !.old = FALSE, !.idx = op.idx] ELSE client
    BY <1>2 DEF Retrieved
  <2>2. cfg \in {<<>>, ClusterConfigs}
    OBVIOUS
  <2> HIDE DEF pc, cfg, new, at
  <2>3. op'.kind = "vms" /\ DOMAIN op' = DOMAIN op /\ op'.pc = pc /\ op'.at = at /\ op'.idx = new
        /\ op'.queue = op.queue /\ op'.out = op.out /\ op'.touched = op.touched /\ op'.configs = cfg
    BY <2>1 DEF OpShape
  <2> QED BY <2>1, <2>2, <2>3 DEF GoesOn, new, at, pc
<1> QED BY <1>1, <1>2

LEMMA Answering ==
  ASSUME OpShape, op.kind \in {"vms", "vapps"}, NEW ans, Answer(ans)
  PROVE  op' = Idle \/ (op'.kind = "vms" /\ op.kind = "vms" /\ op'.pc \in {"make", "view"} /\ OpShape')
<1>1. CASE op.kind = "vapps"
  BY <1>1 DEF Answer, VAppsListed, Finish
<1>2. CASE op.kind = "vms"
  <2>1. Retrieved(ans)
    BY <1>2 DEF Answer
  <2>2. op' = Idle \/ GoesOn(ans)
    BY <1>2, <2>1, RetrievedGives
  <2>3. CASE GoesOn(ans)
    <3>1. Following(op.at) \in ViewNames
      BY DEF Following, ViewNames
    <3>2. op'.kind = "vms" /\ DOMAIN op' = DOMAIN op /\ op'.pc \in {"make", "view"} /\ op'.at \in ViewNames
      BY <2>3, <3>1 DEF GoesOn
    <3>3. OpShape'
      BY <1>2, <3>2 DEF OpShape
    <3> QED BY <1>2, <3>2, <3>3
  <2> QED BY <2>2, <2>3
<1> QED BY <1>1, <1>2

LEMMA ViewsKeep ==
  ASSUME RetrievalInv, \E ans \in Answered : MakeView(ans) \/ \E kept \in Keepable : ReadView(ans, kept)
  PROVE  RetrievalInv'
<1>1. op.kind \in {"vms", "vapps"} /\ op.pc \in {"make", "retrieve"} /\ UNCHANGED <<vms, ops, changes>> /\ OpShape
  BY InvFacts DEF MakeView, ReadView
<1>2. ASSUME NEW ans \in Answered, MakeView(ans)
      PROVE  RetrievalInv'
  <2>1. op.pc = "make" /\ lost' = lost
    BY <1>2 DEF MakeView
  <2>2. open = lost
    BY <1>1, <2>1, InvFacts DEF OpenAccounted, Holds
  <2>3. CASE open' = open \cup {Handle(op.at)} /\ op' = [op EXCEPT !.pc = "retrieve"]
    <3>1. op.at \in ViewNames /\ op.at \in Names
      BY <1>1 DEF OpShape, Names
    <3>2. op'.kind = op.kind /\ op'.pc = "retrieve" /\ op'.at = op.at /\ DOMAIN op' = DOMAIN op
      BY <1>1, <2>3 DEF OpShape
    <3>3. OpShape'
      BY <1>1, <3>1, <3>2 DEF OpShape
    <3> QED BY <1>1, <2>1, <2>3, <3>1, <3>2, <3>3, VMsWent DEF Late
  <2>4. CASE Answer(ans) /\ open' = open
    <3>1. CASE op' = Idle
      BY <1>1, <2>1, <2>2, <2>4, <3>1, InvFacts, Ended
    <3>2. CASE op'.kind = "vms" /\ op'.pc \in {"make", "view"} /\ OpShape'
      BY <1>1, <2>1, <2>2, <2>4, <3>2, VMsWent
    <3> QED BY <1>1, <2>4, <3>1, <3>2, Answering
  <2> QED BY <1>2, <2>3, <2>4 DEF MakeView
<1>3. ASSUME NEW ans \in Answered, NEW kept \in Keepable, ReadView(ans, kept)
      PROVE  RetrievalInv'
  <2>1. Answer(ans) /\ open' = lost' /\ lost' \subseteq open
    BY <1>3, ViewGone DEF ReadView
  <2>2. CASE op' = Idle
    BY <1>1, <2>1, <2>2, Ended
  <2>3. CASE op'.kind = "vms" /\ OpShape'
    BY <1>1, <2>1, <2>3, VMsReleased
  <2> QED BY <1>1, <2>1, <2>2, <2>3, Answering
<1> QED BY <1>2, <1>3

LEMMA VMsKeep ==
  ASSUME RetrievalInv, NEW ans, NEW list, NEW def, NEW fields,
         LoadIndex \/ OpenView(ans) \/ OpenCollector(ans) \/ ReadPage(ans, list, def, fields)
  PROVE  RetrievalInv'
<1>1. op.kind = "vms" /\ UNCHANGED <<vms, lost, ops, changes>> /\ OpShape
  BY InvFacts DEF LoadIndex, OpenView, OpenCollector, ReadPage
<1>2. op.pc \notin Late => open = lost
  BY <1>1, InvFacts DEF OpenAccounted, Holds, Late
<1>3. CASE LoadIndex
  <2>1. PICK at \in ViewNames : op' = [op EXCEPT !.pc = "make", !.at = at]
    BY <1>3 DEF LoadIndex, ViewNames
  <2>2. op'.kind = "vms" /\ op'.pc = "make" /\ op'.at = at /\ DOMAIN op' = DOMAIN op
    BY <1>1, <2>1 DEF OpShape
  <2>3. OpShape' /\ open' = open /\ op.pc = "index"
    BY <1>1, <1>3, <2>2 DEF OpShape, LoadIndex
  <2> QED BY <1>1, <1>2, <2>2, <2>3, VMsWent DEF Late
<1>4. CASE OpenView(ans)
  <2>1. op.pc = "view" /\ open = lost
    BY <1>2, <1>4 DEF OpenView, Late
  <2>2. CASE op' = Idle /\ open' = open
    BY <1>1, <2>1, <2>2, InvFacts, Ended
  <2>3. CASE op' = [op EXCEPT !.pc = "collector"] /\ open' = open \cup {Handle("view")}
    <3>1. op'.kind = "vms" /\ OpShape' /\ op'.pc \in Late
      BY <1>1, <2>3 DEF OpShape, Late
    <3> QED BY <1>1, <2>3, <3>1, VMsWent DEF Names
  <2> QED BY <1>4, <2>2, <2>3 DEF OpenView, Finish
<1>5. CASE OpenCollector(ans)
  <2>1. op'.kind = "vms" /\ OpShape' /\ op'.pc \in Late
    BY <1>1, <1>5 DEF OpenCollector, OpShape, Late
  <2>2. open' = open \/ open' = open \cup {Handle("collector")}
    BY <1>5 DEF OpenCollector
  <2> QED BY <1>1, <2>1, <2>2, VMsWent DEF Names
<1>6. CASE ReadPage(ans, list, def, fields)
  <2>1. op'.kind = "vms" /\ OpShape' /\ op'.pc \in Late /\ open' = open
    BY <1>1, <1>6 DEF ReadPage, OpShape, Late
  <2> QED BY <1>1, <2>1, VMsWent
<1> QED BY <1>3, <1>4, <1>5, <1>6

(* Whatever the server keeps of the view and the collector is all that is  *)
(* left.                                                                   *)
LEMMA CloseVMsHolds ==
  ASSUME RetrievalInv, NEW kept, CloseVMs(kept)
  PROVE  RetrievalInv'
<1>1. op' = Idle /\ UNCHANGED <<vms, ops, changes>> /\ kept \subseteq open \ lost /\ Release(open \ lost, kept)
  BY DEF CloseVMs, Finish
<1> QED BY <1>1, ViewGone, Ended

-----------------------------------------------------------------------------
(* A step that opens or releases the one object an operation has.          *)

(* The release of h is asked for, and the server may keep it.              *)
LEMMA Released ==
  ASSUME NEW old, NEW h, h \notin old, NEW kept \in SUBSET {h}, open = old \cup {h}, lost = old, Release({h}, kept)
  PROVE  open' = lost' /\ (lost' = old \/ lost' = old \cup {h})
  BY DEF Release

LEMMA FilesKeep ==
  ASSUME RetrievalInv,
         \/ SkipDatastore \/ StartSearch \/ EndFiles
         \/ \E ans \in Answers, kept \in Keepable : EndSearch(ans, kept)
  PROVE  RetrievalInv'
<1>1. /\ op.kind = "files" /\ UNCHANGED <<vms, ops, changes>> /\ OpShape /\ op.i \in Nat
      /\ op.kind # "vms" /\ open = lost \cup Holds
  BY InvFacts DEF SkipDatastore, StartSearch, EndFiles, EndSearch, OpShape, OpenAccounted
<1>2. \A h \in lost : h[3] \in Nat /\ (h[2] = ops => h[3] < op.i)
  BY <1>1, InvFacts DEF KeptIsOlder
<1>3. CASE EndFiles
  <2>1. op' = Idle /\ open' = open /\ lost' = lost /\ open = lost
    BY <1>1, <1>3 DEF EndFiles, Finish, Holds
  <2> QED BY <1>1, <2>1, InvFacts, Ended
<1>4. CASE SkipDatastore
  <2>1. op' = [op EXCEPT !.i = op.i + 1, !.got = Append(op.got, FileResult(PassedOver(Stores[op.i]), 0, NoFiles))]
        /\ op.pc = "next" /\ UNCHANGED <<open, lost>>
    BY <1>4 DEF SkipDatastore
  <2>2. op'.kind = "files" /\ op'.pc = "next" /\ op'.i = op.i + 1 /\ OpShape'
    BY <1>1, <2>1 DEF OpShape
  <2>3. open = lost
    BY <1>1, <2>1 DEF Holds
  <2>4. KeptIsOlder'
    BY <1>1, <1>2, <2>1, <2>2, InvFacts DEF KeptIsOlder
  <2>5. TypeOK' /\ OpenAccounted'
    BY <1>1, <2>1, <2>2, <2>3, InvFacts DEF TypeOK, Names, OpenAccounted, Holds
  <2> QED BY <2>2, <2>4, <2>5 DEF RetrievalInv
<1>5. CASE StartSearch
  <2>1. op' = [op EXCEPT !.pc = "search"] /\ op.pc = "next" /\ lost' = lost /\ open' = open \cup {Handle("collector")}
    BY <1>5 DEF StartSearch
  <2>2. op'.kind = "files" /\ op'.pc = "search" /\ op'.i = op.i /\ OpShape'
    BY <1>1, <2>1 DEF OpShape
  <2>3. open = lost
    BY <1>1, <2>1 DEF Holds
  <2>4. Handle("collector") \in Names \X Nat \X Nat /\ Handle("collector")[2] = ops
    BY HandleFacts DEF Names
  <2>5. Holds' = {Handle("collector")}
    BY <1>1, <2>2 DEF Holds, Handle
  <2>6. KeptIsOlder'
    BY <1>1, <2>1, <2>2, <2>4, InvFacts DEF KeptIsOlder
  <2>7. TypeOK' /\ OpenAccounted'
    BY <1>1, <2>1, <2>3, <2>4, <2>5, InvFacts DEF TypeOK, Names, OpenAccounted
  <2> QED BY <2>2, <2>6, <2>7 DEF RetrievalInv
<1>6. ASSUME NEW ans \in Answers, NEW kept \in Keepable, EndSearch(ans, kept)
      PROVE  RetrievalInv'
  <2> DEFINE h == Handle("collector")
  <2>1. op.pc = "search" /\ kept \subseteq {h} /\ Release({h}, kept)
    BY <1>6 DEF EndSearch
  <2>2. op'.kind = "files" /\ op'.pc = "next" /\ op'.i = op.i + 1 /\ OpShape'
    <3>1. PICK got, left : op' = [op EXCEPT !.pc = "next", !.i = op.i + 1, !.got = got, !.remaining = left]
      BY <1>6 DEF EndSearch
    <3>2. op.i + 1 \in Nat /\ DOMAIN op = {"kind", "pc", "expired", "i", "remaining", "got"}
      BY <1>1 DEF OpShape
    <3>3. op'.kind = "files" /\ op'.pc = "next" /\ op'.i = op.i + 1 /\ DOMAIN op' = DOMAIN op
      BY ONLY <1>1, <3>1, <3>2
    <3> QED BY <3>2, <3>3 DEF OpShape
  <2>3. h \in Names \X Nat \X Nat /\ h[2] = ops /\ h[3] = op.i
    BY <1>1, HandleFacts DEF Names
  <2>4. open = lost \cup {h}
    BY <1>1, <2>1 DEF Holds
  <2> HIDE DEF h
  <2>5. h \notin lost
    BY <1>1, <1>2, <2>3
  <2>6. open' = lost' /\ (lost' = lost \/ lost' = lost \cup {h})
    BY <2>1, <2>4, <2>5, Released
  <2>7. TypeOK'
    BY <1>1, <2>4, <2>6, InvFacts DEF TypeOK, Names
  <2>8. OpenAccounted'
    BY <2>2, <2>6 DEF OpenAccounted, Holds
  <2>9. \A x \in lost' : x[3] \in Nat /\ (x[2] = ops => x[3] < op.i + 1)
    BY <1>1, <1>2, <2>3, <2>6
  <2>10. KeptIsOlder'
    BY <1>1, <2>2, <2>4, <2>6, <2>9, InvFacts DEF KeptIsOlder
  <2> QED BY <2>2, <2>7, <2>8, <2>10 DEF RetrievalInv
<1> QED BY <1>3, <1>4, <1>5, <1>6

(* The search for an operator, or for the orphan rules.                    *)
LEMMA BrowseKeeps ==
  ASSUME RetrievalInv, \E ans \in Answers : AskBrowser(ans) \/ \E kept \in Keepable : AwaitBrowser(ans, kept)
  PROVE  RetrievalInv'
<1>1. /\ op.kind \in {"browse", "listing"} /\ UNCHANGED <<vms, ops, changes>> /\ OpShape
      /\ open = lost \cup Holds /\ ops \in Nat
  BY InvFacts DEF AskBrowser, AwaitBrowser, OpenAccounted
<1>2. (\A x \in open : x[2] <= ops) /\ (\A x \in lost : x[2] < ops)
  BY <1>1, InvFacts DEF KeptIsOlder
<1> DEFINE h == Handle("collector")
<1>3. h \in Names \X Nat \X Nat /\ h[2] = ops
  BY HandleFacts DEF Names
<1>4. ASSUME NEW ans \in Answers, AskBrowser(ans)
      PROVE  RetrievalInv'
  <2>1. op.pc = "ask" /\ lost' = lost /\ open = lost
    BY <1>1, <1>4 DEF AskBrowser, Holds
  <2>2. CASE op' = Idle /\ open' = open
    BY <1>1, <2>1, <2>2, InvFacts, Ended
  <2>3. CASE open' = open \cup {h} /\ op' = [op EXCEPT !.pc = "wait"]
    <3>1. op'.kind = op.kind /\ op'.pc = "wait" /\ OpShape'
      BY <1>1, <2>3 DEF OpShape
    <3>2. Holds' = {h}
      BY <1>1, <3>1 DEF Holds, Handle
    <3> HIDE DEF h
    <3>3. TypeOK' /\ OpenAccounted'
      BY <1>1, <1>3, <2>1, <2>3, <3>2, InvFacts DEF TypeOK, OpenAccounted
    <3>4. KeptIsOlder'
      BY <1>1, <1>2, <1>3, <2>1, <2>3, <3>1 DEF KeptIsOlder
    <3> QED BY <3>1, <3>3, <3>4 DEF RetrievalInv
  <2> QED BY <1>4, <2>2, <2>3 DEF AskBrowser, Finish
<1>5. ASSUME NEW ans \in Answers, NEW kept \in Keepable, AwaitBrowser(ans, kept)
      PROVE  RetrievalInv'
  <2>1. op.pc = "wait" /\ kept \subseteq {h} /\ Release({h}, kept) /\ op' = Idle
    BY <1>5 DEF AwaitBrowser, Finish
  <2>2. open = lost \cup {h}
    BY <1>1, <2>1 DEF Holds
  <2> HIDE DEF h
  <2>3. h \notin lost
    BY <1>1, <1>2, <1>3
  <2>4. open' = lost' /\ lost' \subseteq open
    BY <2>1, <2>2, <2>3, Released
  <2> QED BY <1>1, <2>1, <2>4, Ended
<1> QED BY <1>4, <1>5

(* The performance samples need nothing on the server.                     *)
LEMMA PerfKeeps ==
  ASSUME RetrievalInv, StopPerf \/ EndPerf \/ \E ans \in Answers : QueryBatch(ans) \/ QuerySingle(ans)
  PROVE  RetrievalInv'
<1>1. op.kind = "perf" /\ UNCHANGED <<vms, open, lost, ops, changes>> /\ OpShape
  BY InvFacts DEF StopPerf, EndPerf, QueryBatch, QuerySingle
<1>2. open = lost
  BY <1>1, InvFacts DEF OpenAccounted, Holds
<1>3. CASE EndPerf
  BY <1>1, <1>2, <1>3, InvFacts, Ended DEF EndPerf, Finish
<1>4. CASE StopPerf \/ \E ans \in Answers : QueryBatch(ans) \/ QuerySingle(ans)
  <2>1. op'.kind = "perf" /\ DOMAIN op' = DOMAIN op
    <3>1. CASE StopPerf
      BY <1>1, <3>1 DEF StopPerf, OpShape
    <3>2. ASSUME NEW ans \in Answers, QueryBatch(ans)
          PROVE  op'.kind = "perf" /\ DOMAIN op' = DOMAIN op
      BY <1>1, <3>2 DEF QueryBatch, OpShape
    <3>3. ASSUME NEW ans \in Answers, QuerySingle(ans)
          PROVE  op'.kind = "perf" /\ DOMAIN op' = DOMAIN op
      BY <1>1, <3>3 DEF QuerySingle, OpShape
    <3> QED BY <1>4, <3>1, <3>2, <3>3
  <2>2. OpShape'
    BY <1>1, <2>1 DEF OpShape
  <2> QED BY <1>1, <2>1, <2>2, InvFacts, Went
<1> QED BY <1>3, <1>4

(* The events: the task collector is released before they are put together.*)
LEMMA EventsKeep ==
  ASSUME RetrievalInv,
         \/ ApplyTasks \/ \E ans \in Answered : CreateTaskCollector(ans) \/ ReadTasks(ans)
         \/ \E kept \in Keepable : DestroyTaskCollector(kept)
  PROVE  RetrievalInv'
<1>1. /\ op.kind = "events" /\ UNCHANGED <<vms, ops, changes>> /\ OpShape /\ ops \in Nat
      /\ op.kind # "vms" /\ open = lost \cup Holds
  BY InvFacts DEF ApplyTasks, CreateTaskCollector, ReadTasks, DestroyTaskCollector, OpShape, OpenAccounted
<1>2. \A x \in open : x[2] <= ops
  BY InvFacts DEF KeptIsOlder
<1>3. op.pc # "apply" => \A x \in lost : x[2] < ops
  BY <1>1, InvFacts DEF KeptIsOlder
<1> DEFINE h == Handle("history")
<1>4. h \in Names \X Nat \X Nat /\ h[2] = ops
  BY HandleFacts DEF Names
<1>5. op'.kind = "events" => h' = h
  BY <1>1 DEF Handle
<1>6. CASE ApplyTasks
  <2>1. op' = Idle /\ open' = open /\ lost' = lost /\ open = lost
    BY <1>1, <1>6 DEF ApplyTasks, Finish, Holds
  <2> QED BY <1>1, <2>1, InvFacts, Ended
<1>7. ASSUME NEW ans \in Answered, CreateTaskCollector(ans)
      PROVE  RetrievalInv'
  <2>1. op'.kind = "events" /\ OpShape' /\ lost' = lost /\ op.pc = "create"
        /\ ((op'.pc = "read" /\ open' = open \cup {h}) \/ (op'.pc = "apply" /\ open' = open))
    BY <1>1, <1>7 DEF CreateTaskCollector, OpShape
  <2>2. open = lost
    BY <1>1, <2>1 DEF Holds
  <2>3. Holds' = IF op'.pc = "read" THEN {h} ELSE {}
    BY <1>5, <2>1 DEF Holds
  <2> HIDE DEF h
  <2>4. TypeOK' /\ OpenAccounted'
    BY <1>1, <1>4, <2>1, <2>2, <2>3, InvFacts DEF TypeOK, Names, OpenAccounted
  <2>5. KeptIsOlder'
    BY <1>1, <1>2, <1>3, <1>4, <2>1 DEF KeptIsOlder
  <2> QED BY <2>1, <2>4, <2>5 DEF RetrievalInv
<1>8. ASSUME NEW ans \in Answered, ReadTasks(ans)
      PROVE  RetrievalInv'
  <2>1. op'.kind = "events" /\ OpShape' /\ UNCHANGED <<open, lost>> /\ op.pc = "read" /\ op'.pc \in {"read", "release"}
    BY <1>1, <1>8 DEF ReadTasks, OpShape
  <2>2. Holds' = Holds
    BY <1>1, <1>5, <2>1 DEF Holds
  <2> HIDE DEF h
  <2>3. TypeOK' /\ OpenAccounted'
    BY <1>1, <2>1, <2>2, InvFacts DEF TypeOK, Names, OpenAccounted
  <2>4. KeptIsOlder'
    BY <1>1, <1>2, <1>3, <2>1 DEF KeptIsOlder
  <2> QED BY <2>1, <2>3, <2>4 DEF RetrievalInv
<1>9. ASSUME NEW kept \in Keepable, DestroyTaskCollector(kept)
      PROVE  RetrievalInv'
  <2>1. op.pc = "release" /\ kept \subseteq {h} /\ Release({h}, kept)
    BY <1>9 DEF DestroyTaskCollector
  <2>2. op'.kind = "events" /\ op'.pc = "apply" /\ OpShape'
    BY <1>1, <1>9 DEF DestroyTaskCollector, OpShape
  <2>3. open = lost \cup {h}
    BY <1>1, <2>1 DEF Holds
  <2> HIDE DEF h
  <2>4. h \notin lost
    BY <1>1, <1>3, <1>4, <2>1
  <2>5. open' = lost' /\ lost' \subseteq open
    BY <2>1, <2>3, <2>4, Released
  <2>6. TypeOK' /\ OpenAccounted'
    BY <1>1, <2>2, <2>5, InvFacts DEF TypeOK, Names, OpenAccounted, Holds
  <2>7. KeptIsOlder'
    BY <1>1, <1>2, <2>2, <2>5 DEF KeptIsOlder
  <2> QED BY <2>2, <2>6, <2>7 DEF RetrievalInv
<1> QED BY <1>6, <1>7, <1>8, <1>9

-----------------------------------------------------------------------------
(* Every step.                                                             *)

LEMMA StepHolds ==
  ASSUME RetrievalInv, [Next]_vars
  PROVE  RetrievalInv'
<1>1. CASE (\E v \in VMIds, to \in Folders \cup {Gone} : ChangeVM(v, to)) \/ Expire \/ IndexAges
  BY <1>1, EnvironmentHolds
<1>2. CASE \/ ListVApps \/ StartVMs \/ StartFiles
           \/ \E i \in DOMAIN Stores : StartBrowse(i) \/ StartListing(i)
           \/ \E ans \in Calls : StartPerf(ans) \/ ReadEvents(ans)
           \/ \E list, assign \in Calls, blind \in BOOLEAN : FetchLicenses(list, assign, blind)
  BY <1>2, BeginningsHold
<1>3. CASE LoadIndex \/ \E ans \in Answered : \/ OpenView(ans) \/ OpenCollector(ans)
                                               \/ \E list \in Answers, def, fields \in Answered : ReadPage(ans, list, def, fields)
  BY <1>3, VMsKeep
<1>9. CASE \E ans \in Answered : MakeView(ans) \/ \E kept \in Keepable : ReadView(ans, kept)
  BY <1>9, ViewsKeep
<1>10. CASE \E ans \in Answers : AskBrowser(ans) \/ \E kept \in Keepable : AwaitBrowser(ans, kept)
  BY <1>10, BrowseKeeps
<1>4. CASE \E kept \in Keepable : CloseVMs(kept)
  BY <1>4, CloseVMsHolds
<1>5. CASE \/ SkipDatastore \/ StartSearch \/ EndFiles
           \/ \E ans \in Answers, kept \in Keepable : EndSearch(ans, kept)
  BY <1>5, FilesKeep
<1>6. CASE StopPerf \/ EndPerf \/ \E ans \in Answers : QueryBatch(ans) \/ QuerySingle(ans)
  BY <1>6, PerfKeeps
<1>7. CASE \/ ApplyTasks \/ \E ans \in Answered : CreateTaskCollector(ans) \/ ReadTasks(ans)
           \/ \E kept \in Keepable : DestroyTaskCollector(kept)
  BY <1>7, EventsKeep
<1>8. CASE UNCHANGED vars
  BY <1>8 DEF vars, RetrievalInv, TypeOK, OpShape, OpenAccounted, Holds, Handle, KeptIsOlder
<1> QED BY <1>1, <1>2, <1>3, <1>4, <1>5, <1>6, <1>7, <1>8, <1>9, <1>10 DEF Next

LEMMA InitHolds == Init => RetrievalInv
<1> SUFFICES ASSUME Init PROVE RetrievalInv
  OBVIOUS
<1>1. op.kind = "idle" /\ open = {} /\ lost = {} /\ ops = 0 /\ changes = 0
  BY DEF Init, Idle
<1>2. TypeOK
  BY <1>1, RetrievalAssumption DEF Init, TypeOK
<1> QED BY <1>1, <1>2 DEF RetrievalInv, OpShape, OpenAccounted, Holds, KeptIsOlder

(* At every step of every read, what is open on the server is what the     *)
(* operation has yet to release and what the server would not give back.   *)
THEOREM RetrievalInvariant == Spec => []RetrievalInv
<1>1. RetrievalInv /\ [Next]_vars => RetrievalInv'
  BY StepHolds
<1> QED BY InitHolds, <1>1, PTL DEF Spec

(* An operation that has ended, however it ended, has released its view    *)
(* and its collectors.                                                     *)
THEOREM NothingLeftOpenHolds == Spec => []NothingLeftOpen
<1>1. RetrievalInv => NothingLeftOpen
  BY InvFacts DEF NothingLeftOpen, OpenAccounted, Holds
<1> QED BY <1>1, RetrievalInvariant, PTL

-----------------------------------------------------------------------------
(* The steps by what they are about, and what the others leave alone.      *)

FileStep ==
    \/ StartFiles \/ SkipDatastore \/ StartSearch \/ EndFiles
    \/ \E ans \in Answers, kept \in Keepable : EndSearch(ans, kept)
    \/ \E i \in DOMAIN Stores : StartBrowse(i) \/ StartListing(i)
    \/ \E ans \in Answers : AskBrowser(ans) \/ \E kept \in Keepable : AwaitBrowser(ans, kept)

EventStep ==
    \/ ApplyTasks \/ (\E ans \in Calls : ReadEvents(ans))
    \/ \E ans \in Answered : CreateTaskCollector(ans) \/ ReadTasks(ans)
    \/ \E kept \in Keepable : DestroyTaskCollector(kept)

PerfStep ==
    \/ StopPerf \/ EndPerf \/ (\E ans \in Calls : StartPerf(ans))
    \/ \E ans \in Answers : QueryBatch(ans) \/ QuerySingle(ans)

ViewStep == \E ans \in Answered : MakeView(ans) \/ \E kept \in Keepable : ReadView(ans, kept)

VMStep ==
    \/ StartVMs \/ LoadIndex \/ (op.kind = "vms" /\ ViewStep)
    \/ \E ans \in Answered :
         \/ OpenView(ans) \/ OpenCollector(ans)
         \/ \E list \in Answers, def, fields \in Answered : ReadPage(ans, list, def, fields)
    \/ \E kept \in Keepable : CloseVMs(kept)

LicenceStep == \E list, assign \in Calls, blind \in BOOLEAN : FetchLicenses(list, assign, blind)

ChangeStep == \E v \in VMIds, to \in Folders \cup {Gone} : ChangeVM(v, to)

OtherStep == Expire \/ IndexAges \/ ListVApps \/ (op.kind = "vapps" /\ ViewStep) \/ UNCHANGED vars

LEMMA StepKinds ==
  ASSUME [Next]_vars
  PROVE  FileStep \/ EventStep \/ PerfStep \/ VMStep \/ LicenceStep \/ ChangeStep \/ OtherStep
<1>1. ViewStep => op.kind \in {"vms", "vapps"}
  BY DEF ViewStep, MakeView, ReadView
<1> QED BY <1>1 DEF Next, FileStep, EventStep, PerfStep, ViewStep, VMStep, LicenceStep, ChangeStep, OtherStep

(* What a step leaves of an operation of some kind.                        *)
SameBut(kind, fields) == op'.kind # kind \/ (op.kind = kind /\ DOMAIN op' = DOMAIN op /\ \A f \in DOMAIN op \ fields : op'[f] = op[f])

LEMMA NoneLeft ==
  ASSUME NEW kind, op'.kind # kind \/ op' = op
  PROVE  SameBut(kind, {"expired"})
  BY DEF SameBut

LEMMA FileStepLeaves ==
  ASSUME RetrievalInv, FileStep
  PROVE  /\ op'.kind \in {"idle", "files", "browse", "listing"}
         /\ result' = result \/ result'.kind \in {"none", "files", "browse", "listing"}
         /\ vms' = vms /\ client' = client
<1>1. OpShape
  BY InvFacts
<1>2. CASE StartFiles
  BY <1>2 DEF StartFiles, Begin, Nothing
<1>3. CASE SkipDatastore \/ StartSearch
  <2>1. op.kind = "files" /\ result' = result /\ op'.kind = op.kind /\ vms' = vms /\ client' = client
    BY <1>1, <1>3 DEF SkipDatastore, StartSearch, OpShape
  <2> QED BY <2>1
<1>4. CASE EndFiles
  BY <1>4 DEF EndFiles, Finish, Idle
<1>5. ASSUME NEW ans, NEW kept, EndSearch(ans, kept)
      PROVE  op'.kind = "files" /\ result' = result /\ vms' = vms /\ client' = client
  BY <1>1, <1>5 DEF EndSearch, OpShape
<1>6. ASSUME NEW i, StartBrowse(i) \/ StartListing(i)
      PROVE  op'.kind \in {"browse", "listing"} /\ result'.kind = "none" /\ vms' = vms /\ client' = client
  BY <1>6 DEF StartBrowse, StartListing, Begin, Nothing
<1>7. ASSUME NEW ans, NEW kept, AskBrowser(ans) \/ AwaitBrowser(ans, kept)
      PROVE  /\ op'.kind \in {"idle", "browse", "listing"} /\ vms' = vms /\ client' = client
             /\ result' = result \/ result'.kind \in {"browse", "listing"}
  <2>1. op.kind \in {"browse", "listing"} /\ vms' = vms /\ client' = client
    BY <1>7 DEF AskBrowser, AwaitBrowser
  <2>2. CASE op' = [op EXCEPT !.pc = "wait"] /\ result' = result
    BY <1>1, <2>1, <2>2 DEF OpShape
  <2>3. CASE op' = Idle /\ result' = Searched(ans)
    BY <2>1, <2>3 DEF Idle, Searched
  <2> QED BY <1>7, <2>1, <2>2, <2>3 DEF AskBrowser, AwaitBrowser, Finish
<1> QED BY <1>2, <1>3, <1>4, <1>5, <1>6, <1>7 DEF FileStep

LEMMA EventStepLeaves ==
  ASSUME RetrievalInv, EventStep
  PROVE  /\ op' = op \/ op'.kind \in {"idle", "events"}
         /\ result' = result \/ result'.kind \in {"none", "events"}
         /\ vms' = vms /\ client' = client
<1>1. OpShape
  BY InvFacts
<1>2. CASE ApplyTasks
  BY <1>2 DEF ApplyTasks, Finish, Idle
<1>3. ASSUME NEW ans, ReadEvents(ans)
      PROVE  (op' = op \/ op'.kind = "events") /\ result'.kind \in {"none", "events"} /\ vms' = vms /\ client' = client
  BY <1>3 DEF ReadEvents, Nothing
<1>4. ASSUME NEW ans, CreateTaskCollector(ans) \/ ReadTasks(ans)
      PROVE  op'.kind = "events" /\ result' = result /\ vms' = vms /\ client' = client
  BY <1>1, <1>4 DEF CreateTaskCollector, ReadTasks, OpShape
<1>5. ASSUME NEW kept, DestroyTaskCollector(kept)
      PROVE  op'.kind = "events" /\ result' = result /\ vms' = vms /\ client' = client
  BY <1>1, <1>5 DEF DestroyTaskCollector, OpShape
<1> QED BY <1>2, <1>3, <1>4, <1>5 DEF EventStep

LEMMA PerfStepLeaves ==
  ASSUME RetrievalInv, PerfStep
  PROVE  /\ op' = op \/ op'.kind \in {"idle", "perf"}
         /\ result' = result \/ result'.kind \in {"none", "perf"}
         /\ vms' = vms /\ client' = client
<1>1. OpShape
  BY InvFacts
<1>2. CASE EndPerf
  BY <1>2 DEF EndPerf, Finish, Idle
<1>3. CASE StopPerf
  BY <1>1, <1>3 DEF StopPerf, OpShape
<1>4. ASSUME NEW ans, StartPerf(ans)
      PROVE  /\ op' = op \/ op'.kind = "perf"
             /\ result'.kind \in {"none", "perf"} /\ vms' = vms /\ client' = client
  BY <1>4 DEF StartPerf, Nothing
<1>5. ASSUME NEW ans, QueryBatch(ans) \/ QuerySingle(ans)
      PROVE  op'.kind = "perf" /\ result' = result /\ vms' = vms /\ client' = client
  BY <1>1, <1>5 DEF QueryBatch, QuerySingle, OpShape
<1> QED BY <1>2, <1>3, <1>4, <1>5 DEF PerfStep

(* A step of a VM read with a view makes it or is its answer.              *)
ViewMade == op.pc = "make" /\ op' = [op EXCEPT !.pc = "retrieve"] /\ UNCHANGED <<client, result>>

LEMMA ViewSteps ==
  ASSUME op.kind = "vms", ViewStep
  PROVE  /\ vms' = vms /\ op.pc \in {"make", "retrieve"}
         /\ \E ans : ViewMade \/ Retrieved(ans)
<1>1. PICK ans : MakeView(ans) \/ \E kept : ReadView(ans, kept)
  BY DEF ViewStep
<1>2. vms' = vms /\ op.pc \in {"make", "retrieve"}
  BY <1>1 DEF MakeView, ReadView
<1>3. ViewMade \/ Retrieved(ans)
  BY <1>1 DEF MakeView, ReadView, Answer, ViewMade
<1> QED BY <1>2, <1>3

LEMMA VMStepLeaves ==
  ASSUME RetrievalInv, VMStep
  PROVE  /\ op'.kind \in {"idle", "vms"}
         /\ result' = result \/ result'.kind \in {"none", "vms"}
         /\ vms' = vms
<1>1. OpShape
  BY InvFacts
<1>2. CASE StartVMs
  BY <1>2 DEF StartVMs, Begin, Nothing
<1>3. CASE LoadIndex
  BY <1>1, <1>3 DEF LoadIndex, OpenView, OpShape
<1>7. CASE op.kind = "vms" /\ ViewStep
  <2>1. PICK ans : ViewMade \/ Retrieved(ans)
    BY <1>7, ViewSteps
  <2>2. vms' = vms
    BY <1>7, ViewSteps
  <2>3. CASE ViewMade
    BY <1>1, <1>7, <2>2, <2>3 DEF ViewMade, OpShape
  <2>4. CASE Retrieved(ans)
    BY <1>1, <1>7, <2>2, <2>4, RetrievedGives DEF Idle, VMsFailed, GoesOn
  <2> QED BY <2>1, <2>3, <2>4
<1>8. ASSUME NEW ans, OpenView(ans)
      PROVE  op'.kind \in {"idle", "vms"} /\ (result' = result \/ result'.kind = "vms") /\ vms' = vms
  <2>1. op.kind = "vms" /\ vms' = vms
    BY <1>8 DEF OpenView
  <2>2. CASE op' = Idle /\ result' = VMsFailed
    BY <2>1, <2>2 DEF Idle, VMsFailed
  <2>3. CASE result' = result /\ op' = [op EXCEPT !.pc = "collector"]
    BY <1>1, <2>1, <2>3 DEF OpShape
  <2> QED BY <1>8, <2>2, <2>3 DEF OpenView, Finish
<1>4. ASSUME NEW ans, OpenCollector(ans)
      PROVE  op'.kind = "vms" /\ result' = result /\ vms' = vms
  BY <1>1, <1>4 DEF OpenCollector, OpShape
<1>5. ASSUME NEW ans, NEW list, NEW def, NEW fields, ReadPage(ans, list, def, fields)
      PROVE  op'.kind = "vms" /\ result' = result /\ vms' = vms
  BY <1>1, <1>5 DEF ReadPage, OpShape
<1>6. ASSUME NEW kept, CloseVMs(kept)
      PROVE  op'.kind = "idle" /\ result'.kind = "vms" /\ vms' = vms
  BY <1>6 DEF CloseVMs, Finish, VMsFailed, Idle
<1> QED BY <1>2, <1>3, <1>4, <1>5, <1>6, <1>7, <1>8 DEF VMStep

LEMMA LicenceStepLeaves ==
  ASSUME LicenceStep
  PROVE  op' = op /\ result'.kind = "licences" /\ vms' = vms /\ client' = client
  BY DEF LicenceStep, FetchLicenses

LEMMA ChangeStepLeaves ==
  ASSUME RetrievalInv, ChangeStep
  PROVE  /\ op' = op \/ (op.kind = "vms" /\ op'.kind = "vms")
         /\ result' = result /\ client' = client
<1>1. PICK v, to : ChangeVM(v, to)
  BY DEF ChangeStep
<1> QED BY <1>1, InvFacts DEF ChangeVM, OpShape

LEMMA OtherStepLeaves ==
  ASSUME RetrievalInv, OtherStep
  PROVE  /\ \A kind \in {"files", "events", "perf", "vms"} : SameBut(kind, {"expired"})
         /\ result' = result \/ result'.kind \in {"none", "vapps"}
         /\ vms' = vms
<1>1. CASE Expire
  <2>1. op' = [op EXCEPT !.expired = TRUE] /\ result' = result /\ vms' = vms
    BY <1>1 DEF Expire
  <2>2. "expired" \in DOMAIN op /\ op'.kind = op.kind /\ DOMAIN op' = DOMAIN op
        /\ \A f \in DOMAIN op \ {"expired"} : op'[f] = op[f]
    BY <1>1, <2>1, InvFacts DEF OpShape, Expire
  <2> QED BY <2>1, <2>2 DEF SameBut
<1>2. CASE IndexAges
  BY <1>2, NoneLeft DEF IndexAges
<1>3. CASE ListVApps
  <2>1. op'.kind = "vapps" /\ result'.kind = "none" /\ vms' = vms
    BY <1>3 DEF ListVApps, Begin, Nothing
  <2> QED BY <2>1, NoneLeft
<1>4. CASE op.kind = "vapps" /\ ViewStep
  <2>1. PICK ans : MakeView(ans) \/ \E kept : ReadView(ans, kept)
    BY <1>4 DEF ViewStep
  <2>2. CASE op' = [op EXCEPT !.pc = "retrieve"] /\ result' = result /\ vms' = vms
    <3>1. op'.kind = "vapps"
      BY <1>4, <2>2, InvFacts DEF OpShape
    <3> QED BY <2>2, <3>1, NoneLeft
  <2>3. CASE VAppsListed(ans) /\ vms' = vms
    <3>1. op'.kind = "idle" /\ result'.kind = "vapps"
      BY <2>3 DEF VAppsListed, Finish, Idle
    <3> QED BY <2>3, <3>1, NoneLeft
  <2> QED BY <1>4, <2>1, <2>2, <2>3 DEF MakeView, ReadView, Answer
<1>5. CASE UNCHANGED vars
  BY <1>5, NoneLeft DEF vars
<1> QED BY <1>1, <1>2, <1>3, <1>4, <1>5 DEF OtherStep

(* What the steps that are about something else leave of the operation.    *)
LEMMA Elsewhere ==
  ASSUME RetrievalInv, [Next]_vars
  PROVE  /\ \/ FileStep
            \/ SameBut("files", {"expired"}) /\ (result' = result \/ result'.kind \notin {"files", "browse", "listing"})
         /\ \/ EventStep
            \/ SameBut("events", {"expired"}) /\ (result' = result \/ result'.kind # "events")
         /\ \/ PerfStep
            \/ SameBut("perf", {"expired"}) /\ (result' = result \/ result'.kind # "perf")
         /\ \/ VMStep \/ ChangeStep
            \/ SameBut("vms", {"expired"}) /\ (result' = result \/ result'.kind # "vms") /\ vms' = vms
         /\ \/ LicenceStep
            \/ result' = result \/ result'.kind # "licences"
<1>1. CASE FileStep
  BY <1>1, FileStepLeaves, NoneLeft
<1>2. CASE EventStep
  BY <1>2, EventStepLeaves, NoneLeft
<1>3. CASE PerfStep
  BY <1>3, PerfStepLeaves, NoneLeft
<1>4. CASE VMStep
  BY <1>4, VMStepLeaves, NoneLeft
<1>5. CASE LicenceStep
  BY <1>5, LicenceStepLeaves, NoneLeft
<1>6. CASE ChangeStep
  BY <1>6, ChangeStepLeaves, NoneLeft
<1>7. CASE OtherStep
  BY <1>7, OtherStepLeaves
<1> QED BY <1>1, <1>2, <1>3, <1>4, <1>5, <1>6, <1>7, StepKinds

-----------------------------------------------------------------------------
(* Where a VM is in the pages: what moves from the queue to the list.      *)

LEMMA SetToSeqFacts ==
  ASSUME NEW S, IsFiniteSet(S)
  PROVE  /\ SetToSeq(S) \in Seq(S)
         /\ \A v \in S : \E i \in DOMAIN SetToSeq(S) : SetToSeq(S)[i] = v
         /\ \A i, j \in DOMAIN SetToSeq(S) : SetToSeq(S)[i] = SetToSeq(S)[j] => i = j
<1> DEFINE n == Cardinality(S)
           f == SetToSeq(S)
<1>1. n \in Nat /\ ExistsBijection(1 .. n, S)
  BY FS_CardinalityType
<1>2. \E g \in [1 .. n -> S] : IsInjective(g)
  BY <1>1, Zenon DEF ExistsBijection, Bijection, Injection
<1>3. f \in [1 .. n -> S] /\ IsInjective(f)
  BY <1>2, Zenon DEF SetToSeq
<1>4. f \in Injection(1 .. n, S)
  BY <1>3, Zenon DEF Injection
<1>5. Cardinality(1 .. n) = n
  BY <1>1, FS_Interval
<1>6. f \in Surjection(1 .. n, S)
  BY <1>1, <1>4, <1>5, FS_Injection
<1>7. f \in Seq(S)
  BY <1>1, <1>3
<1>8. \A v \in S : \E i \in 1 .. n : f[i] = v
  BY <1>6, Zenon DEF Surjection
<1>9. DOMAIN f = 1 .. n
  BY <1>3
<1> HIDE DEF f, n
<1>10. \A i, j \in DOMAIN f : f[i] = f[j] => i = j
  BY <1>3, Zenon DEF IsInjective
<1> QED BY <1>7, <1>8, <1>9, <1>10 DEF f

LEMMA EntriesOfPage ==
  ASSUME NEW T, NEW q \in Seq(T), NEW U, NEW out \in Seq(U), NEW W, NEW page \in Seq(W),
         Len(page) <= Len(q), \A i \in 1 .. Len(page) : page[i].id = q[i].id,
         NEW v, OnceIn(v, out, q)
  PROVE  OnceIn(v, out \o page, SubSeq(q, Len(page) + 1, Len(q)))
<1> DEFINE k    == Len(page)
           rest == SubSeq(q, k + 1, Len(q))
           all  == out \o page
<1>1. k \in Nat /\ Len(q) \in Nat /\ Len(out) \in Nat /\ DOMAIN q = 1 .. Len(q) /\ DOMAIN out = 1 .. Len(out)
  BY LenProperties
<1>2. /\ rest \in Seq(T) /\ Len(rest) = Len(q) - k
      /\ \A i \in 1 .. (Len(q) - k) : rest[i] = q[k + i]
  <2>1. \A i \in (k + 1) .. Len(q) : q[i] \in T
    BY <1>1, ElementOfSeq
  <2> QED BY <1>1, <2>1, SubSeqProperties
<1>3. /\ all \in Seq(U \cup W) /\ Len(all) = Len(out) + k
      /\ \A i \in 1 .. Len(out) + k : all[i] = IF i <= Len(out) THEN out[i] ELSE page[i - Len(out)]
  <2>1. out \in Seq(U \cup W) /\ page \in Seq(U \cup W)
    BY SeqMonotonic
  <2> QED BY <2>1, ConcatProperties
<1>4. DOMAIN rest = 1 .. (Len(q) - k) /\ DOMAIN all = 1 .. (Len(out) + k)
  BY <1>2, <1>3, LenProperties
<1> HIDE DEF rest, all
<1>5. \A i \in DOMAIN rest : rest[i].id = v <=> k + i \in Entries(q, v)
  BY <1>1, <1>2, <1>4 DEF Entries
<1>6. \A i \in DOMAIN all : all[i].id = v <=>
         IF i <= Len(out) THEN i \in Entries(out, v) ELSE i - Len(out) \in Entries(q, v)
  <2> SUFFICES ASSUME NEW i \in DOMAIN all
               PROVE  all[i].id = v <=> IF i <= Len(out) THEN i \in Entries(out, v) ELSE i - Len(out) \in Entries(q, v)
    OBVIOUS
  <2>1. i \in 1 .. (Len(out) + k)
    BY <1>4
  <2>2. CASE i <= Len(out)
    <3>1. all[i] = out[i] /\ i \in DOMAIN out
      BY <1>1, <1>3, <2>1, <2>2
    <3> QED BY <2>2, <3>1 DEF Entries
  <2>3. CASE ~(i <= Len(out))
    <3> DEFINE j == i - Len(out)
    <3>1. all[i] = page[j] /\ j \in 1 .. k /\ j \in DOMAIN q
      BY <1>1, <1>3, <2>1, <2>3
    <3>2. page[j].id = q[j].id
      BY <3>1
    <3> HIDE DEF j
    <3>3. all[i].id = v <=> j \in Entries(q, v)
      BY <3>1, <3>2 DEF Entries
    <3> QED BY <2>3, <3>3 DEF j
  <2> QED BY <2>2, <2>3
<1>7. CASE vms[v] = Gone
  BY <1>1, <1>4, <1>5, <1>6, <1>7 DEF OnceIn, InOnce, Entries, rest, all
<1>8. CASE vms[v] # Gone /\ Entries(out, v) # {}
  <2>1. PICK i \in DOMAIN out : Entries(out, v) = {i} /\ Entries(q, v) = {}
    BY <1>8 DEF OnceIn, InOnce
  <2>2. Entries(rest, v) = {}
    BY <1>5, <2>1 DEF Entries
  <2>3. i \in DOMAIN all
    BY <1>1, <1>4
  <2>4. \A x \in DOMAIN all : all[x].id = v <=> x = i
    BY <1>1, <1>4, <1>6, <2>1
  <2>5. Entries(all, v) = {i}
    BY <2>3, <2>4 DEF Entries
  <2> QED BY <1>8, <2>2, <2>3, <2>5 DEF OnceIn, InOnce, rest, all
<1>9. CASE vms[v] # Gone /\ Entries(out, v) = {}
  <2>1. PICK i \in DOMAIN q : Entries(q, v) = {i}
    BY <1>9 DEF OnceIn, InOnce
  <2>2. CASE i <= k
    <3>1. Entries(rest, v) = {}
      BY <1>1, <1>4, <1>5, <2>1, <2>2 DEF Entries
    <3>2. Len(out) + i \in DOMAIN all
      BY <1>1, <1>4, <2>2
    <3>3. \A x \in DOMAIN all : all[x].id = v <=> x = Len(out) + i
      BY <1>1, <1>4, <1>6, <1>9, <2>1, <2>2
    <3>4. Entries(all, v) = {Len(out) + i}
      BY <3>2, <3>3 DEF Entries
    <3> QED BY <1>9, <3>1, <3>2, <3>4 DEF OnceIn, InOnce, rest, all
  <2>3. CASE i > k
    <3>1. Entries(all, v) = {}
      BY <1>1, <1>4, <1>6, <1>9, <2>1, <2>3 DEF Entries
    <3>2. Entries(rest, v) = {i - k} /\ i - k \in DOMAIN rest
      BY <1>1, <1>4, <1>5, <2>1, <2>3 DEF Entries
    <3> QED BY <1>9, <3>1, <3>2 DEF OnceIn, InOnce, rest, all
  <2> QED BY <1>1, <2>1, <2>2, <2>3
<1> QED BY <1>7, <1>8, <1>9

(* An update of another VM is added or taken out.                          *)
LEMMA EntriesAppend ==
  ASSUME NEW T, NEW q \in Seq(T), NEW u \in T, NEW v
  PROVE  /\ Append(q, u) \in Seq(T)
         /\ u.id # v => Entries(Append(q, u), v) = Entries(q, v)
         /\ \A i \in DOMAIN Append(q, u) : Append(q, u)[i] = u \/ \E j \in DOMAIN q : Append(q, u)[i] = q[j]
<1>1. /\ Append(q, u) \in Seq(T) /\ Len(Append(q, u)) = Len(q) + 1
      /\ \A i \in 1 .. Len(q) : Append(q, u)[i] = q[i]
      /\ Append(q, u)[Len(q) + 1] = u
  BY AppendProperties
<1>2. Len(q) \in Nat /\ DOMAIN q = 1 .. Len(q) /\ DOMAIN Append(q, u) = 1 .. (Len(q) + 1)
  BY <1>1, LenProperties
<1> QED BY <1>1, <1>2 DEF Entries

LEMMA EntriesRemove ==
  ASSUME NEW T, NEW q \in Seq(T), NEW c \in DOMAIN q, NEW v
  PROVE  /\ RemoveAt(q, c) \in Seq(T)
         /\ Entries(q, v) = {} => Entries(RemoveAt(q, c), v) = {}
         /\ q[c].id # v /\ InOnce(q, v) => InOnce(RemoveAt(q, c), v)
         /\ \A i \in DOMAIN RemoveAt(q, c) : \E j \in DOMAIN q : RemoveAt(q, c)[i] = q[j]
<1> DEFINE a == SubSeq(q, 1, c - 1)
           b == SubSeq(q, c + 1, Len(q))
           r == RemoveAt(q, c)
<1>1. Len(q) \in Nat /\ DOMAIN q = 1 .. Len(q) /\ c \in 1 .. Len(q)
  BY LenProperties
<1>2. a \in Seq(T) /\ Len(a) = c - 1 /\ \A i \in 1 .. (c - 1) : a[i] = q[i]
  <2>1. \A i \in 1 .. (c - 1) : q[i] \in T
    BY <1>1, ElementOfSeq
  <2> QED BY <1>1, <2>1, SubSeqProperties
<1>3. b \in Seq(T) /\ Len(b) = Len(q) - c /\ \A i \in 1 .. (Len(q) - c) : b[i] = q[c + i]
  <2>1. \A i \in (c + 1) .. Len(q) : q[i] \in T
    BY <1>1, ElementOfSeq
  <2> QED BY <1>1, <2>1, SubSeqProperties
<1>4. r = a \o b
  BY DEF RemoveAt
<1> HIDE DEF a, b, r
<1>5. /\ r \in Seq(T) /\ Len(r) = Len(q) - 1
      /\ \A i \in 1 .. (Len(q) - 1) : r[i] = IF i <= c - 1 THEN q[i] ELSE q[i + 1]
  <2>1. /\ r \in Seq(T) /\ Len(r) = Len(a) + Len(b)
        /\ \A i \in 1 .. Len(a) + Len(b) : r[i] = IF i <= Len(a) THEN a[i] ELSE b[i - Len(a)]
    BY <1>2, <1>3, <1>4, ConcatProperties
  <2>2. \A i \in 1 .. (Len(q) - 1) : i <= c - 1 => r[i] = q[i]
    BY <1>1, <1>2, <1>3, <2>1
  <2>3. ASSUME NEW i \in 1 .. (Len(q) - 1), ~(i <= c - 1)
        PROVE  r[i] = q[i + 1]
    <3>1. r[i] = b[i - (c - 1)] /\ i - (c - 1) \in 1 .. (Len(q) - c)
      BY <1>1, <1>2, <1>3, <2>1, <2>3
    <3>2. b[i - (c - 1)] = q[c + (i - (c - 1))] /\ c + (i - (c - 1)) = i + 1
      BY <1>1, <1>3, <3>1
    <3> QED BY <3>1, <3>2
  <2> QED BY <1>1, <1>2, <1>3, <2>1, <2>2, <2>3
<1>6. DOMAIN r = 1 .. (Len(q) - 1)
  BY <1>5, LenProperties
<1>7. Entries(q, v) = {} => Entries(r, v) = {}
  BY <1>1, <1>5, <1>6 DEF Entries
<1>8. ASSUME q[c].id # v, InOnce(q, v)
      PROVE  \E j \in DOMAIN r : Entries(r, v) = {j}
  <2> PICK i \in DOMAIN q : Entries(q, v) = {i}
    BY <1>8 DEF InOnce
  <2>1. i # c /\ q[i].id = v
    BY <1>8, Zenon DEF Entries
  <2>2. CASE i < c
    <3>1. i \in DOMAIN r
      BY <1>1, <1>6, <2>1, <2>2
    <3>2. \A x \in DOMAIN q : q[x].id = v <=> x = i
      BY <1>8 DEF Entries
    <3>3. \A x \in DOMAIN r : r[x].id = v <=> x = i
      <4> SUFFICES ASSUME NEW x \in DOMAIN r PROVE r[x].id = v <=> x = i
        OBVIOUS
      <4>1. CASE x <= c - 1
        <5>1. r[x] = q[x] /\ x \in DOMAIN q
          BY <1>1, <1>5, <1>6, <4>1
        <5>2. r[x].id = v <=> x = i
          BY <5>1, <3>2
        <5> QED BY <1>1, <2>1, <2>2, <4>1, <5>2
      <4>2. CASE ~(x <= c - 1)
        <5>1. r[x] = q[x + 1] /\ x + 1 \in DOMAIN q
          BY <1>1, <1>5, <1>6, <4>2
        <5>2. r[x].id = v <=> x + 1 = i
          BY <5>1, <3>2
        <5> QED BY <1>1, <1>6, <2>1, <2>2, <4>2, <5>2
      <4> QED BY <4>1, <4>2
    <3>4. Entries(r, v) = {i}
      BY <3>1, <3>3 DEF Entries
    <3> QED BY <3>1, <3>4
  <2>3. CASE i > c
    <3>1. i - 1 \in DOMAIN r
      BY <1>1, <1>6, <2>1, <2>3
    <3>2. \A x \in DOMAIN q : q[x].id = v <=> x = i
      BY <1>8 DEF Entries
    <3>3. \A x \in DOMAIN r : r[x].id = v <=> x = i - 1
      <4> SUFFICES ASSUME NEW x \in DOMAIN r PROVE r[x].id = v <=> x = i - 1
        OBVIOUS
      <4>1. CASE x <= c - 1
        <5>1. r[x] = q[x] /\ x \in DOMAIN q
          BY <1>1, <1>5, <1>6, <4>1
        <5>2. r[x].id = v <=> x = i
          BY <5>1, <3>2
        <5> QED BY <1>1, <2>1, <2>3, <4>1, <5>2
      <4>2. CASE ~(x <= c - 1)
        <5>1. r[x] = q[x + 1] /\ x + 1 \in DOMAIN q
          BY <1>1, <1>5, <1>6, <4>2
        <5>2. r[x].id = v <=> x + 1 = i
          BY <5>1, <3>2
        <5> QED BY <1>1, <1>6, <2>1, <2>3, <4>2, <5>2
      <4> QED BY <4>1, <4>2
    <3>4. Entries(r, v) = {i - 1}
      BY <3>1, <3>3 DEF Entries
    <3> QED BY <3>1, <3>4
  <2> QED BY <1>1, <2>1, <2>2, <2>3
<1>9. \A i \in DOMAIN r : \E j \in DOMAIN q : r[i] = q[j]
  <2> SUFFICES ASSUME NEW i \in DOMAIN r PROVE \E j \in DOMAIN q : r[i] = q[j]
    OBVIOUS
  <2>1. CASE i <= c - 1
    BY <1>1, <1>5, <1>6, <2>1
  <2>2. CASE ~(i <= c - 1)
    <3>1. i + 1 \in DOMAIN q /\ r[i] = q[i + 1]
      BY <1>1, <1>5, <1>6, <2>2
    <3> QED BY <3>1
  <2> QED BY <2>1, <2>2
<1> QED BY <1>5, <1>7, <1>8, <1>9 DEF r, InOnce

-----------------------------------------------------------------------------
(* What does not touch the pages.                                          *)

LEMMA PagesFacts ==
  ASSUME PagesInv
  PROVE  RetrievalInv /\ OpShape /\ QueueTyped /\ PagesAccounted /\ PagesAddUp
  BY InvFacts DEF PagesInv

(* The result of another operation, or of one that failed.                 *)
LEMMA OtherResult ==
  ASSUME PagesInv, result' = result \/ result'.kind # "vms" \/ result'.failed
  PROVE  PagesAddUp'
  BY PagesFacts DEF PagesAddUp, Complete, Entries

(* An operation that is not, or not yet, reading pages.                    *)
LEMMA NoPages ==
  ASSUME op'.kind = "vms" => op'.queue = <<>> /\ op'.out = <<>> /\ op'.touched \subseteq VMIds
                             /\ op'.pc \notin {"pages", "close"}
  PROVE  QueueTyped' /\ PagesAccounted'
<1>1. op'.kind = "vms" => op'.queue \in Seq([id : VMIds, how : {"enter", "leave", "modify"}]) /\ op'.out \in Seq(ToSet(op'.out))
  BY EmptySeq, Zenon
<1> QED BY <1>1 DEF QueueTyped, PagesAccounted

(* The pages as they were.                                                 *)
LEMMA PagesStay ==
  ASSUME PagesInv, vms' = vms, op'.kind = op.kind,
         op.kind = "vms" => /\ op'.queue = op.queue /\ op'.out = op.out /\ op'.touched = op.touched
                            /\ op'.pc \notin {"pages", "close"} => op.pc \notin {"pages", "close"}
                            /\ \/ op'.pc = op.pc /\ op'.failed = op.failed
                               \/ op'.pc \notin {"pages", "close"} \/ op'.failed
  PROVE  QueueTyped' /\ PagesAccounted'
<1>1. CASE op.kind # "vms"
  BY <1>1 DEF QueueTyped, PagesAccounted
<1>2. CASE op.kind = "vms"
  <2>1. QueueTyped'
    BY <1>2, PagesFacts DEF QueueTyped
  <2>2. \A v \in VMIds : OnceIn(v, op.out, op.queue)' <=> OnceIn(v, op.out, op.queue)
    BY <1>2 DEF OnceIn, InOnce, Entries
  <2>3. CASE op'.pc = op.pc /\ op'.failed = op.failed
    <3> SUFFICES ASSUME op.pc \in {"pages", "close"}, ~op.failed
                 PROVE  PagesAccounted'
      BY <2>1, <2>3, Zenon DEF PagesAccounted
    <3>1. /\ op.pc = "close" => op.queue = <<>>
          /\ \A v \in VMIds \ op.touched : OnceIn(v, op.out, op.queue)
          /\ \A i \in DOMAIN op.out :
               op.out[i].id \in VMIds /\ (op.out[i].id \notin op.touched => Complete(op.out[i]))
          /\ \A i \in DOMAIN op.queue : op.queue[i].id \notin op.touched => op.queue[i].how = "enter"
      BY <1>2, PagesFacts DEF PagesAccounted
    <3>2. \A v \in VMIds \ op'.touched : OnceIn(v, op.out, op.queue)'
      BY <1>2, <2>2, <3>1
    <3>3. \A i \in DOMAIN op'.out :
             op'.out[i].id \in VMIds /\ (op'.out[i].id \notin op'.touched => Complete(op'.out[i]))
      BY <1>2, <3>1
    <3> QED BY <1>2, <2>3, <3>1, <3>2, <3>3 DEF PagesAccounted, Complete
  <2>4. CASE op'.pc \notin {"pages", "close"} \/ op'.failed
    <3>1. CASE op'.failed
      BY <2>1, <3>1, Zenon DEF PagesAccounted
    <3>2. CASE op'.pc \notin {"pages", "close"}
      BY <2>1, <3>2, Zenon DEF PagesAccounted
    <3> QED BY <2>4, <3>1, <3>2
  <2> QED BY <1>2, <2>1, <2>3, <2>4
<1> QED BY <1>1, <1>2

(* The steps of the other operations.                                      *)
LEMMA OthersKeepPages ==
  ASSUME PagesInv, vms' = vms, SameBut("vms", {"expired"}), result' = result \/ result'.kind # "vms"
  PROVE  QueueTyped' /\ PagesAccounted' /\ PagesAddUp'
<1>1. CASE op'.kind # "vms"
  BY <1>1, NoPages, OtherResult
<1>2. CASE op'.kind = "vms"
  <2>1. op.kind = "vms" /\ op'.queue = op.queue /\ op'.out = op.out /\ op'.touched = op.touched
        /\ op'.pc = op.pc /\ op'.failed = op.failed
    BY <1>2, PagesFacts DEF SameBut, OpShape
  <2> QED BY <1>2, <2>1, PagesStay, OtherResult
<1> QED BY <1>1, <1>2

LEMMA StartVMsKeepsPages ==
  ASSUME PagesInv, StartVMs
  PROVE  QueueTyped' /\ PagesAccounted' /\ PagesAddUp'
<1>1. op'.queue = <<>> /\ op'.out = <<>> /\ op'.touched = {} /\ op'.pc = "index" /\ result'.kind = "none"
  BY DEF StartVMs, Begin, Nothing
<1> QED BY <1>1, NoPages, OtherResult

-----------------------------------------------------------------------------
(* A VM that changes is no longer one that stayed; the others are where    *)
(* they were in the pages.                                                 *)
Updates == [id : VMIds, how : {"enter", "leave", "modify"}]

LEMMA AnnouncedKeeps ==
  ASSUME NEW q \in Seq(Updates), NEW v \in VMIds, NEW to
  PROVE  /\ Announced(q, v, to) \in Seq(Updates)
         /\ op.pc = "close" => Announced(q, v, to) = q
         /\ \A u \in VMIds \ {v} : \A out : OnceIn(u, out, q) => OnceIn(u, out, Announced(q, v, to))
         /\ \A i \in DOMAIN Announced(q, v, to) :
               Announced(q, v, to)[i].id = v \/ \E j \in DOMAIN q : Announced(q, v, to)[i] = q[j]
<1>1. CASE Announced(q, v, to) = q
  BY <1>1
<1>2. CASE op.pc = "pages" /\ Entries(q, v) # {} /\ to = Gone
  <2> DEFINE c == CHOOSE i \in Entries(q, v) : TRUE
  <2>1. c \in DOMAIN q /\ q[c].id = v
    <3>1. c \in Entries(q, v)
      BY <1>2
    <3> QED BY <3>1, Zenon DEF Entries
  <2>2. Announced(q, v, to) = RemoveAt(q, c)
    BY <1>2 DEF Announced
  <2> HIDE DEF c
  <2>3. \A u \in VMIds \ {v} : \A out : OnceIn(u, out, q) => OnceIn(u, out, RemoveAt(q, c))
    <3> SUFFICES ASSUME NEW u \in VMIds \ {v}, NEW out, OnceIn(u, out, q)
                 PROVE  OnceIn(u, out, RemoveAt(q, c))
      OBVIOUS
    <3>1. (Entries(q, u) = {} => Entries(RemoveAt(q, c), u) = {}) /\ (InOnce(q, u) => InOnce(RemoveAt(q, c), u))
      BY <2>1, EntriesRemove
    <3> QED BY <3>1, Zenon DEF OnceIn, InOnce
  <2>4. /\ RemoveAt(q, c) \in Seq(Updates)
        /\ \A i \in DOMAIN RemoveAt(q, c) : \E j \in DOMAIN q : RemoveAt(q, c)[i] = q[j]
    <3>1. \A w : /\ RemoveAt(q, c) \in Seq(Updates)
                 /\ \A i \in DOMAIN RemoveAt(q, c) : \E j \in DOMAIN q : RemoveAt(q, c)[i] = q[j]
      <4> TAKE w
      <4> QED BY <2>1, EntriesRemove
    <3> QED BY <3>1
  <2> QED BY <1>2, <2>2, <2>3, <2>4
<1>3. CASE op.pc # "close" /\ ~(op.pc = "pages" /\ Entries(q, v) # {})
  <2> DEFINE e == [id |-> v, how |-> IF vms[v] = Gone THEN "enter" ELSE IF to = Gone THEN "leave" ELSE "modify"]
  <2>1. e \in Updates /\ e.id = v
    BY DEF Updates
  <2>2. Announced(q, v, to) = Append(q, e)
    BY <1>3 DEF Announced
  <2> HIDE DEF e
  <2>3. \A u \in VMIds \ {v} : \A out : OnceIn(u, out, q) => OnceIn(u, out, Append(q, e))
    <3> SUFFICES ASSUME NEW u \in VMIds \ {v}, NEW out, OnceIn(u, out, q)
                 PROVE  OnceIn(u, out, Append(q, e))
      OBVIOUS
    <3>1. Entries(Append(q, e), u) = Entries(q, u)
      BY <2>1, EntriesAppend
    <3>2. DOMAIN q \subseteq DOMAIN Append(q, e)
      BY <2>1, AppendProperties, LenProperties
    <3> QED BY <3>1, <3>2, Zenon DEF OnceIn, InOnce
  <2>4. /\ Append(q, e) \in Seq(Updates)
        /\ \A i \in DOMAIN Append(q, e) : Append(q, e)[i] = e \/ \E j \in DOMAIN q : Append(q, e)[i] = q[j]
    BY <2>1, EntriesAppend
  <2> QED BY <1>3, <2>1, <2>2, <2>3, <2>4
<1>4. Announced(q, v, to) = q \/ (op.pc = "pages" /\ Entries(q, v) # {} /\ to = Gone)
      \/ (op.pc # "close" /\ ~(op.pc = "pages" /\ Entries(q, v) # {}))
  BY DEF Announced
<1> QED BY <1>1, <1>2, <1>3, <1>4

LEMMA ChangeVMKeepsPages ==
  ASSUME PagesInv, NEW v \in VMIds, NEW to \in Folders \cup {Gone}, ChangeVM(v, to)
  PROVE  QueueTyped' /\ PagesAccounted' /\ PagesAddUp'
<1>1. PagesAddUp'
  BY OtherResult DEF ChangeVM
<1>2. CASE op.kind # "vms" \/ op.pc \notin {"pages", "close"}
  <2>1. op' = op
    BY <1>2 DEF ChangeVM
  <2>2. QueueTyped'
    BY <2>1, PagesFacts DEF QueueTyped
  <2>3. PagesAccounted'
    BY <1>2, <2>1 DEF PagesAccounted
  <2> QED BY <1>1, <2>2, <2>3
<1>3. CASE op.kind = "vms" /\ op.pc \in {"pages", "close"}
  <2> DEFINE q == Announced(op.queue, v, to)
  <2>1. op' = [op EXCEPT !.touched = @ \cup {v}, !.queue = q] /\ vms' = [vms EXCEPT ![v] = to]
    BY <1>3 DEF ChangeVM
  <2>2. op'.kind = "vms" /\ op'.queue = q /\ op'.out = op.out /\ op'.touched = op.touched \cup {v}
        /\ op'.pc = op.pc /\ op'.failed = op.failed
    BY <1>3, <2>1, PagesFacts DEF OpShape
  <2>3. op.queue \in Seq(Updates) /\ op.out \in Seq(ToSet(op.out)) /\ op.touched \subseteq VMIds
    BY <1>3, PagesFacts DEF QueueTyped, Updates
  <2> HIDE DEF q
  <2>4. /\ q \in Seq(Updates) /\ (op.pc = "close" => q = op.queue)
        /\ \A u \in VMIds \ {v} : \A out : OnceIn(u, out, op.queue) => OnceIn(u, out, q)
        /\ \A i \in DOMAIN q : q[i].id = v \/ \E j \in DOMAIN op.queue : q[i] = op.queue[j]
    BY <2>3, AnnouncedKeeps DEF q
  <2>5. QueueTyped'
    BY <1>3, <2>2, <2>3, <2>4 DEF QueueTyped, Updates
  <2>6. ASSUME ~op.failed
        PROVE  PagesAccounted'
    <3>1. /\ op.pc = "close" => op.queue = <<>>
          /\ \A u \in VMIds \ op.touched : OnceIn(u, op.out, op.queue)
          /\ \A i \in DOMAIN op.out :
               op.out[i].id \in VMIds /\ (op.out[i].id \notin op.touched => Complete(op.out[i]))
          /\ \A i \in DOMAIN op.queue : op.queue[i].id \notin op.touched => op.queue[i].how = "enter"
      BY <1>3, <2>6, PagesFacts DEF PagesAccounted
    <3>2. ASSUME NEW u \in VMIds \ op'.touched
          PROVE  OnceIn(u, op.out, op.queue)'
      <4>1. u \in VMIds \ op.touched /\ u # v
        BY <2>2
      <4>2. OnceIn(u, op.out, q)
        BY <2>4, <3>1, <4>1
      <4>3. vms'[u] = vms[u]
        BY <2>1, <4>1, PagesFacts, InvFacts
      <4> QED BY <2>2, <4>2, <4>3 DEF OnceIn, InOnce, Entries
    <3>3. \A i \in DOMAIN op'.out :
             op'.out[i].id \in VMIds /\ (op'.out[i].id \notin op'.touched => Complete(op'.out[i]))
      BY <2>2, <3>1
    <3>4. \A i \in DOMAIN op'.queue : op'.queue[i].id \notin op'.touched => op'.queue[i].how = "enter"
      <4> SUFFICES ASSUME NEW i \in DOMAIN q, q[i].id \notin op.touched \cup {v}
                   PROVE  q[i].how = "enter"
        BY <2>2
      <4>1. PICK j \in DOMAIN op.queue : q[i] = op.queue[j]
        BY <2>4
      <4> QED BY <3>1, <4>1
    <3> QED BY <2>2, <2>4, <3>1, <3>2, <3>3, <3>4 DEF PagesAccounted, Complete
  <2>7. CASE op.failed
    <3>1. op'.failed
      BY <2>2, <2>7
    <3> QED BY <1>1, <2>5, <3>1, Zenon DEF PagesAccounted
  <2> QED BY <1>1, <2>5, <2>6, <2>7
<1> QED BY <1>2, <1>3

-----------------------------------------------------------------------------
(* The read.                                                               *)

LEMMA OpenCollectorKeepsPages ==
  ASSUME PagesInv, NEW ans, OpenCollector(ans)
  PROVE  QueueTyped' /\ PagesAccounted' /\ PagesAddUp'
<1>1. PagesAddUp'
  BY OtherResult DEF OpenCollector
<1>2. op.kind = "vms" /\ op.pc = "collector" /\ vms' = vms /\ OpShape /\ QueueTyped
  BY PagesFacts DEF OpenCollector
<1>3. CASE op' = [op EXCEPT !.pc = "close", !.failed = TRUE]
  <2>1. op'.kind = op.kind /\ op'.queue = op.queue /\ op'.out = op.out /\ op'.touched = op.touched /\ op'.failed
    BY <1>2, <1>3 DEF OpShape
  <2> QED BY <1>1, <1>2, <2>1, PagesStay
<1>4. CASE op' # [op EXCEPT !.pc = "close", !.failed = TRUE]
  <2> DEFINE here == {v \in VMIds : vms[v] # Gone}
             s    == SetToSeq(here)
             q    == [i \in DOMAIN s |-> [id |-> s[i], how |-> "enter"]]
  <2>1. op' = [op EXCEPT !.pc = "pages", !.queue = q]
    BY <1>4 DEF OpenCollector
  <2>2. op'.kind = "vms" /\ op'.queue = q /\ op'.out = op.out /\ op'.touched = op.touched
        /\ op'.pc = "pages" /\ op'.failed = op.failed
    BY <1>2, <2>1 DEF OpShape
  <2>3. IsFiniteSet(here)
    BY RetrievalAssumption, FS_Subset
  <2>4. /\ s \in Seq(here)
        /\ \A v \in here : \E i \in DOMAIN s : s[i] = v
        /\ \A i, j \in DOMAIN s : s[i] = s[j] => i = j
    BY <2>3, SetToSeqFacts
  <2> HIDE DEF s, here
  <2>5. /\ Len(s) \in Nat /\ DOMAIN s = 1 .. Len(s)
        /\ \A i \in DOMAIN s : s[i] \in VMIds /\ vms[s[i]] # Gone
    <3>1. \A i \in 1 .. Len(s) : s[i] \in here
      BY <2>4, ElementOfSeq
    <3> QED BY <2>4, <3>1, LenProperties DEF here
  <2>6. /\ q \in Seq(Updates) /\ DOMAIN q = DOMAIN s
        /\ \A i \in DOMAIN s : q[i].id = s[i] /\ q[i].how = "enter"
    <3>1. \A i \in 1 .. Len(s) : [id |-> s[i], how |-> "enter"] \in Updates
      BY <2>5 DEF Updates
    <3>2. q = [i \in 1 .. Len(s) |-> [id |-> s[i], how |-> "enter"]]
      BY <2>5
    <3>3. q \in Seq(Updates)
      BY <2>5, <3>1, <3>2
    <3> QED BY <2>5, <3>2, <3>3
  <2> HIDE DEF q
  <2>7. op.out = <<>>
    BY <1>2 DEF QueueTyped
  <2>8. QueueTyped'
    BY <1>2, <2>2, <2>6 DEF QueueTyped, Updates
  <2>9. \A v \in VMIds : Entries(op.out, v) = {}
    BY <2>7 DEF Entries
  <2>10. ASSUME NEW v \in VMIds
         PROVE  OnceIn(v, op.out, op.queue)'
    <3>1. CASE vms[v] = Gone
      <4>1. Entries(q, v) = {}
        BY <2>5, <2>6, <3>1 DEF Entries
      <4> QED BY <1>2, <2>2, <2>9, <3>1, <4>1 DEF OnceIn, InOnce, Entries
    <3>2. CASE vms[v] # Gone
      <4>1. PICK i \in DOMAIN s : s[i] = v
        BY <2>4, <3>2 DEF here
      <4>2. \A j \in DOMAIN s : q[j].id = v <=> j = i
        BY <2>4, <2>6, <4>1
      <4>3. Entries(q, v) = {i} /\ i \in DOMAIN q
        BY <2>6, <4>1, <4>2 DEF Entries
      <4>4. vms'[v] # Gone /\ Entries(op'.out, v) = {} /\ Entries(op'.queue, v) = {i} /\ i \in DOMAIN op'.queue
        BY <1>2, <2>2, <2>9, <3>2, <4>3
      <4> QED BY <4>4, Zenon DEF OnceIn, InOnce, Entries
    <3> QED BY <3>1, <3>2
  <2>11. PagesAccounted'
    BY <2>2, <2>6, <2>7, <2>10 DEF PagesAccounted
  <2> QED BY <1>1, <2>8, <2>11
<1> QED BY <1>3, <1>4

(* What a page says of a VM: its id, and all of it if the update has it.   *)
LEMMA PageEntries ==
  ASSUME NEW us, NEW list, NEW def, NEW fields
  PROVE  /\ DOMAIN NewVMs(us, list, def, fields) = DOMAIN us
         /\ \A i \in DOMAIN us : /\ NewVMs(us, list, def, fields)[i].id = us[i].id
                                 /\ us[i].how = "enter" => Complete(NewVMs(us, list, def, fields)[i])
<1> SUFFICES ASSUME NEW i \in DOMAIN us
             PROVE  /\ NewVMs(us, list, def, fields)[i].id = us[i].id
                    /\ us[i].how = "enter" => Complete(NewVMs(us, list, def, fields)[i])
  BY DEF NewVMs
<1> DEFINE c == Content(us[i])
           n == NewVM(client.idx, c)
           e == NewVMs(us, list, def, fields)[i]
<1>1. c.id = us[i].id /\ (us[i].how = "enter" => c.name = c.id /\ c.config) /\ c.template = (us[i].id \in TemplateIds)
  BY DEF Content
<1>2. /\ {"id", "name", "configured", "template"} \subseteq DOMAIN n
      /\ n.id = c.id /\ n.name = c.name /\ n.configured = c.config /\ n.template = (c.config /\ c.template)
  BY DEF NewVM
<1>3. \A x \in DOMAIN n : e[x] = n[x]
  BY DEF NewVMs, With
<1> HIDE DEF c, n, e
<1>4. e.id = n.id /\ e.name = n.name /\ e.configured = n.configured /\ e.template = n.template
  BY <1>2, <1>3
<1>5. ASSUME us[i].how = "enter"
      PROVE  Complete(e)
  <2>1. c.name = c.id /\ c.config /\ c.template = (c.id \in TemplateIds)
    BY <1>1, <1>5
  <2>2. e.configured /\ e.name = e.id
    BY <1>2, <1>4, <2>1
  <2>3. e.template = (c.config /\ c.template) /\ e.id = c.id
    BY <1>2, <1>4
  <2>4. e.template <=> e.id \in TemplateIds
    <3>1. c.template <=> c.id \in TemplateIds
      BY <2>1, Zenon
    <3>2. e.template <=> c.config /\ c.template
      BY <2>3, Zenon
    <3> QED BY <2>1, <2>3, <3>1, <3>2
  <2> QED BY <2>2, <2>4 DEF Complete
<1> QED BY <1>1, <1>2, <1>4, <1>5 DEF e

(* A page is taken off the front of the queue, decoded place by place, and *)
(* added to what there is.                                                 *)
LEMMA PageTaken ==
  ASSUME NEW q \in Seq(Updates)
  PROVE  LET us == PageOf(q) IN us \in Seq(Updates) /\ Len(us) <= Len(q) /\ \A i \in 1 .. Len(us) : us[i] = q[i]
<1> DEFINE us == PageOf(q)
           n  == IF Len(q) > PageSize THEN PageSize ELSE Len(q)
<1>1. n \in 0 .. Len(q)
  BY RetrievalAssumption, LenProperties
<1>2. \A i \in 1 .. n : q[i] \in Updates
  BY <1>1, ElementOfSeq, LenProperties
<1>3. us = SubSeq(q, 1, n)
  BY DEF PageOf
<1> HIDE DEF n, us
<1>4. us \in Seq(Updates) /\ Len(us) = n /\ \A i \in 1 .. n : us[i] = q[i]
  BY <1>1, <1>2, <1>3, SubSeqProperties, LenProperties
<1>5. us \in Seq(Updates) /\ Len(us) <= Len(q) /\ \A i \in 1 .. Len(us) : us[i] = q[i]
  BY <1>1, <1>4, LenProperties
<1> QED BY <1>5 DEF us

LEMMA PageMade ==
  ASSUME NEW us \in Seq(Updates), NEW list, NEW def, NEW fields
  PROVE  LET page == NewVMs(us, list, def, fields) IN page \in Seq(ToSet(page)) /\ Len(page) = Len(us)
<1> DEFINE page == NewVMs(us, list, def, fields)
<1>1. Len(us) \in Nat /\ DOMAIN us = 1 .. Len(us)
  BY LenProperties
<1>2. page = [i \in 1 .. Len(us) |-> page[i]]
  BY <1>1 DEF NewVMs
<1> HIDE DEF page
<1>3. page \in Seq(ToSet(page)) /\ Len(page) = Len(us)
  BY <1>1, <1>2 DEF ToSet
<1> QED BY <1>3 DEF page

LEMMA PageAdded ==
  ASSUME NEW out, out \in Seq(ToSet(out)), NEW page, page \in Seq(ToSet(page))
  PROVE  /\ out \o page \in Seq(ToSet(out) \cup ToSet(page)) /\ Len(out \o page) = Len(out) + Len(page)
         /\ \A i \in 1 .. (Len(out) + Len(page)) :
               (out \o page)[i] = IF i <= Len(out) THEN out[i] ELSE page[i - Len(out)]
<1>1. out \in Seq(ToSet(out) \cup ToSet(page)) /\ page \in Seq(ToSet(out) \cup ToSet(page))
  BY SeqMonotonic
<1> QED BY <1>1, ConcatProperties

LEMMA ReadPageKeepsPages ==
  ASSUME PagesInv, NEW ans, NEW list, NEW def, NEW fieldAns, ReadPage(ans, list, def, fieldAns)
  PROVE  QueueTyped' /\ PagesAccounted' /\ PagesAddUp'
<1>1. PagesAddUp'
  BY OtherResult DEF ReadPage
<1>2. op.kind = "vms" /\ op.pc = "pages" /\ vms' = vms /\ OpShape /\ QueueTyped
  BY PagesFacts DEF ReadPage
<1>3. CASE op' = [op EXCEPT !.pc = "close", !.failed = TRUE]
  <2>1. op'.kind = op.kind /\ op'.queue = op.queue /\ op'.out = op.out /\ op'.touched = op.touched
        /\ op'.pc = "close" /\ op'.failed
    BY <1>2, <1>3 DEF OpShape
  <2> QED BY <1>1, <1>2, <2>1, PagesStay
<1>4. CASE op' # [op EXCEPT !.pc = "close", !.failed = TRUE]
  <2> DEFINE q    == op.queue
             us   == PageOf(q)
             rest == SubSeq(q, Len(us) + 1, Len(q))
             page == NewVMs(us, list, def, FieldDefinitions(client.fields, FieldsNeeded(us), fieldAns))
  <2>1. op' = [op EXCEPT !.queue = rest, !.out = @ \o page, !.pc = IF rest = <<>> THEN "close" ELSE "pages"]
    BY <1>4 DEF ReadPage, Truncated
  <2>2. op'.kind = "vms" /\ op'.queue = rest /\ op'.out = op.out \o page /\ op'.touched = op.touched
        /\ op'.pc = (IF rest = <<>> THEN "close" ELSE "pages") /\ op'.failed = op.failed
    BY <1>2, <2>1 DEF OpShape
  <2>3. q \in Seq(Updates) /\ op.out \in Seq(ToSet(op.out)) /\ op.touched \subseteq VMIds
    BY <1>2 DEF QueueTyped, Updates
  <2>4. us \in Seq(Updates) /\ Len(us) <= Len(q) /\ \A i \in 1 .. Len(us) : us[i] = q[i]
    BY <2>3, PageTaken
  <2>5. /\ page \in Seq(ToSet(page)) /\ Len(page) = Len(us)
        /\ \A i \in 1 .. Len(us) : page[i].id = us[i].id /\ (us[i].how = "enter" => Complete(page[i]))
    <3>1. DOMAIN us = 1 .. Len(us)
      BY <2>4, LenProperties
    <3> HIDE DEF us
    <3> QED BY <2>4, <3>1, PageMade, PageEntries
  <2> HIDE DEF us, page
  <2>6. /\ rest \in Seq(Updates) /\ Len(rest) = Len(q) - Len(us)
        /\ \A i \in 1 .. (Len(q) - Len(us)) : rest[i] = q[Len(us) + i]
    <3>1. Len(us) \in Nat /\ Len(q) \in Nat /\ \A i \in (Len(us) + 1) .. Len(q) : q[i] \in Updates
      BY <2>3, <2>4, ElementOfSeq, LenProperties
    <3> QED BY <2>4, <3>1, SubSeqProperties
  <2> HIDE DEF rest
  <2>7. /\ op'.out \in Seq(ToSet(op.out) \cup ToSet(page)) /\ Len(op'.out) = Len(op.out) + Len(us)
        /\ \A i \in 1 .. (Len(op.out) + Len(us)) :
              op'.out[i] = IF i <= Len(op.out) THEN op.out[i] ELSE page[i - Len(op.out)]
    <3>1. /\ op.out \o page \in Seq(ToSet(op.out) \cup ToSet(page)) /\ Len(op.out \o page) = Len(op.out) + Len(page)
          /\ \A i \in 1 .. (Len(op.out) + Len(page)) :
                (op.out \o page)[i] = IF i <= Len(op.out) THEN op.out[i] ELSE page[i - Len(op.out)]
      BY <2>3, <2>5, PageAdded
    <3> QED BY <2>2, <2>5, <3>1
  <2>8. op'.out \in Seq(ToSet(op'.out))
    BY <2>7 DEF ToSet
  <2>9. QueueTyped'
    BY <2>2, <2>3, <2>6, <2>8 DEF QueueTyped, Updates
  <2>10. CASE op.failed
    <3>1. op'.failed
      BY <2>2, <2>10
    <3> QED BY <1>1, <2>9, <3>1, Zenon DEF PagesAccounted
  <2>11. ASSUME ~op.failed
         PROVE  PagesAccounted'
    <3>1. /\ \A v \in VMIds \ op.touched : OnceIn(v, op.out, q)
          /\ \A i \in DOMAIN op.out :
               op.out[i].id \in VMIds /\ (op.out[i].id \notin op.touched => Complete(op.out[i]))
          /\ \A i \in DOMAIN q : q[i].id \notin op.touched => q[i].how = "enter"
      BY <1>2, <2>11, PagesFacts DEF PagesAccounted
    <3>2. \A v \in VMIds \ op.touched : OnceIn(v, op.out \o page, rest)
      BY <2>3, <2>4, <2>5, <3>1, EntriesOfPage DEF rest
    <3>3. \A v \in VMIds \ op'.touched : OnceIn(v, op.out, op.queue)'
      <4>1. ASSUME NEW v PROVE OnceIn(v, op'.out, op'.queue) = OnceIn(v, op.out, op.queue)'
        BY <1>2, Zenon DEF OnceIn, InOnce, Entries
      <4>2. \A v \in VMIds \ op'.touched : OnceIn(v, op'.out, op'.queue)
        BY <2>2, <3>2
      <4> QED BY <4>1, <4>2
    <3>4. \A i \in DOMAIN op'.out :
             op'.out[i].id \in VMIds /\ (op'.out[i].id \notin op'.touched => Complete(op'.out[i]))
      <4> SUFFICES ASSUME NEW i \in DOMAIN op'.out
                   PROVE  op'.out[i].id \in VMIds /\ (op'.out[i].id \notin op.touched => Complete(op'.out[i]))
        BY <2>2
      <4>1. Len(op.out) \in Nat /\ Len(us) \in Nat /\ DOMAIN op.out = 1 .. Len(op.out) /\ DOMAIN q = 1 .. Len(q)
            /\ i \in 1 .. (Len(op.out) + Len(us)) /\ Len(q) \in Nat
        BY <2>3, <2>4, <2>7, LenProperties
      <4>2. CASE i <= Len(op.out)
        <5>1. i \in DOMAIN op.out /\ op'.out[i] = op.out[i]
          BY <2>7, <4>1, <4>2
        <5> QED BY <3>1, <5>1
      <4>3. CASE ~(i <= Len(op.out))
        <5> DEFINE j == i - Len(op.out)
        <5>1. j \in 1 .. Len(us) /\ op'.out[i] = page[j]
          BY <2>7, <4>1, <4>3
        <5> HIDE DEF j
        <5>2. us[j] = q[j] /\ j \in DOMAIN q
          BY <2>4, <4>1, <5>1
        <5>3. q[j].id \in VMIds /\ (q[j].id \notin op.touched => q[j].how = "enter")
          <6>1. q[j] \in Updates
            BY <2>3, <4>1, <5>2, ElementOfSeq
          <6> QED BY <3>1, <5>2, <6>1 DEF Updates
        <5>4. page[j].id = us[j].id /\ (us[j].how = "enter" => Complete(page[j]))
          BY <2>5, <5>1
        <5> QED BY <5>1, <5>2, <5>3, <5>4
      <4> QED BY <4>2, <4>3
    <3>5. \A i \in DOMAIN op'.queue : op'.queue[i].id \notin op'.touched => op'.queue[i].how = "enter"
      <4> SUFFICES ASSUME NEW i \in DOMAIN rest, rest[i].id \notin op.touched
                   PROVE  rest[i].how = "enter"
        BY <2>2
      <4>1. Len(us) \in Nat /\ Len(q) \in Nat /\ DOMAIN q = 1 .. Len(q) /\ i \in 1 .. (Len(q) - Len(us))
        BY <2>3, <2>4, <2>6, LenProperties
      <4>2. rest[i] = q[Len(us) + i] /\ Len(us) + i \in DOMAIN q
        BY <2>6, <4>1
      <4> QED BY <3>1, <4>2
    <3> QED BY <2>2, <3>3, <3>4, <3>5 DEF PagesAccounted, Complete
  <2> QED BY <1>1, <2>9, <2>10, <2>11
<1> QED BY <1>3, <1>4

LEMMA CloseVMsKeepsPages ==
  ASSUME PagesInv, NEW kept, CloseVMs(kept)
  PROVE  QueueTyped' /\ PagesAccounted' /\ PagesAddUp'
<1>1. op' = Idle /\ op.kind = "vms" /\ op.pc = "close"
  BY DEF CloseVMs, Finish
<1>2. QueueTyped' /\ PagesAccounted'
  BY <1>1, NoPages DEF Idle
<1>3. CASE op.failed
  <2>1. result' = VMsFailed
    BY <1>3 DEF CloseVMs, Finish
  <2> QED BY <1>2, <2>1, OtherResult DEF VMsFailed
<1>4. CASE ~op.failed
  <2>1. /\ result'.kind = "vms" /\ result'.vms = op.out /\ result'.touched = op.touched /\ result'.were = vms
    BY <1>4 DEF CloseVMs, Finish
  <2>2. /\ op.queue = <<>>
        /\ \A v \in VMIds \ op.touched : OnceIn(v, op.out, op.queue)
        /\ \A i \in DOMAIN op.out :
               op.out[i].id \in VMIds /\ (op.out[i].id \notin op.touched => Complete(op.out[i]))
    BY <1>1, <1>4, PagesFacts DEF PagesAccounted
  <2>3. ASSUME NEW v \in VMIds \ op.touched
        PROVE  Cardinality(Entries(op.out, v)) = IF vms[v] = Gone THEN 0 ELSE 1
    <3>1. ~InOnce(op.queue, v)
      BY <2>2 DEF InOnce
    <3>2. CASE vms[v] = Gone
      <4>1. Entries(op.out, v) = {}
        BY <2>2, <3>2 DEF OnceIn
      <4> QED BY <3>2, <4>1, FS_EmptySet
    <3>3. CASE vms[v] # Gone
      <4>1. PICK i : Entries(op.out, v) = {i}
        BY <2>2, <3>1, <3>3 DEF OnceIn, InOnce
      <4> QED BY <3>3, <4>1, FS_Singleton
    <3> QED BY <3>2, <3>3
  <2>4. ASSUME NEW i \in DOMAIN op.out
        PROVE  op.out[i].id \in op.touched \/ vms[op.out[i].id] # Gone
    <3> SUFFICES ASSUME op.out[i].id \notin op.touched, vms[op.out[i].id] = Gone PROVE FALSE
      OBVIOUS
    <3>1. Entries(op.out, op.out[i].id) = {}
      BY <2>2 DEF OnceIn
    <3> QED BY <3>1 DEF Entries
  <2>5. PagesAddUp'
    <3>1. \A v \in VMIds \ result'.touched :
             Cardinality(Entries(result'.vms, v)) = (IF result'.were[v] = Gone THEN 0 ELSE 1)
      BY <2>1, <2>3
    <3>2. \A i \in DOMAIN result'.vms :
              /\ result'.vms[i].id \in result'.touched \/ result'.were[result'.vms[i].id] # Gone
              /\ result'.vms[i].id \notin result'.touched => Complete(result'.vms[i])
      BY <2>1, <2>2, <2>4
    <3> QED BY <3>1, <3>2, Zenon DEF PagesAddUp, Entries, Complete
  <2> QED BY <1>2, <2>5
<1> QED BY <1>3, <1>4

LEMMA BeforePages ==
  ASSUME PagesInv, NEW ans, LoadIndex \/ (op.kind = "vms" /\ ViewStep) \/ OpenView(ans)
  PROVE  QueueTyped' /\ PagesAccounted' /\ PagesAddUp'
<1>1. op.kind = "vms" /\ op.pc \in {"index", "make", "retrieve", "view"} /\ OpShape /\ vms' = vms
  BY PagesFacts, ViewSteps DEF LoadIndex, OpenView
<1>2. CASE op' = Idle /\ result' = VMsFailed
  BY <1>2, NoPages, OtherResult DEF Idle, VMsFailed
<1>3. CASE /\ result' = result /\ op'.kind = "vms" /\ op'.pc \notin {"pages", "close"}
           /\ op'.queue = op.queue /\ op'.out = op.out /\ op'.touched = op.touched
  BY <1>1, <1>3, PagesStay, OtherResult
<1>4. CASE LoadIndex
  <2>1. \E at : op' = [op EXCEPT !.pc = "make", !.at = at] /\ result' = result
    BY <1>4 DEF LoadIndex
  <2> QED BY <1>1, <1>3, <2>1 DEF OpShape
<1>5. CASE op.kind = "vms" /\ ViewStep
  <2>1. PICK a : ViewMade \/ Retrieved(a)
    BY <1>5, ViewSteps
  <2>2. CASE ViewMade
    BY <1>1, <1>3, <2>2 DEF ViewMade, OpShape
  <2>3. CASE Retrieved(a)
    <3>1. (op' = Idle /\ result' = VMsFailed) \/ GoesOn(a)
      BY <1>1, <2>3, RetrievedGives
    <3> QED BY <1>2, <1>3, <3>1 DEF GoesOn
  <2> QED BY <2>1, <2>2, <2>3
<1>6. CASE OpenView(ans)
  <2>1. CASE result' = result /\ op' = [op EXCEPT !.pc = "collector"]
    BY <1>1, <1>3, <2>1 DEF OpShape
  <2> QED BY <1>2, <1>6, <2>1 DEF OpenView, Finish
<1> QED BY <1>4, <1>5, <1>6

LEMMA PagesStep ==
  ASSUME PagesInv, [Next]_vars
  PROVE  PagesInv'
<1>1. RetrievalInv'
  BY PagesFacts, StepHolds
<1>2. CASE ChangeStep
  BY <1>1, <1>2, ChangeVMKeepsPages DEF PagesInv, ChangeStep
<1>3. CASE VMStep
  <2>1. QueueTyped' /\ PagesAccounted' /\ PagesAddUp'
    BY <1>3, StartVMsKeepsPages, BeforePages, OpenCollectorKeepsPages, ReadPageKeepsPages, CloseVMsKeepsPages DEF VMStep
  <2> QED BY <1>1, <2>1 DEF PagesInv
<1>4. CASE SameBut("vms", {"expired"}) /\ (result' = result \/ result'.kind # "vms") /\ vms' = vms
  BY <1>1, <1>4, OthersKeepPages DEF PagesInv
<1> QED BY <1>2, <1>3, <1>4, PagesFacts, Elsewhere

(* Every page a read has yet to decode or has decoded accounts, once, for  *)
(* each VM that has stayed where it was, and the list it ends with has     *)
(* each such VM once and whole.                                            *)
THEOREM PagesInvariant == Spec => []PagesInv
<1>1. Init => PagesInv
  <2> SUFFICES ASSUME Init PROVE PagesInv
    OBVIOUS
  <2>1. op.kind = "idle" /\ result.kind = "none"
    BY DEF Init, Idle, Nothing
  <2> QED BY <2>1, InitHolds DEF PagesInv, QueueTyped, PagesAccounted, PagesAddUp
<1>2. PagesInv /\ [Next]_vars => PagesInv'
  BY PagesStep
<1> QED BY <1>1, <1>2, PTL DEF Spec

(* listVMsWith: a VM list that did not fail misses no VM and lists none    *)
(* twice, whatever changed on the vCenter between its pages.               *)
THEOREM PagesAddUpHolds == Spec => []PagesAddUp
<1>1. PagesInv => PagesAddUp
  BY DEF PagesInv
<1> QED BY <1>1, PagesInvariant, PTL

-----------------------------------------------------------------------------
(* The samples: who is still to be asked for.                              *)

(* The first k of a sequence, and the others.                              *)
LEMMA FrontAndRest ==
  ASSUME NEW T, NEW q \in Seq(T), NEW k \in 0 .. Len(q)
  PROVE  /\ SubSeq(q, 1, k) \in Seq(T) /\ Len(SubSeq(q, 1, k)) = k
         /\ \A i \in 1 .. k : SubSeq(q, 1, k)[i] = q[i]
         /\ SubSeq(q, k + 1, Len(q)) \in Seq(T) /\ Len(SubSeq(q, k + 1, Len(q))) = Len(q) - k
         /\ \A i \in 1 .. (Len(q) - k) : SubSeq(q, k + 1, Len(q))[i] = q[k + i]
<1>1. Len(q) \in Nat /\ k \in Int /\ k + 1 \in Int /\ \A i \in 1 .. Len(q) : q[i] \in T
  BY LenProperties, ElementOfSeq
<1>2. /\ SubSeq(q, 1, k) \in Seq(T) /\ Len(SubSeq(q, 1, k)) = (IF 1 <= k THEN k - 1 + 1 ELSE 0)
      /\ \A i \in 1 .. (k - 1 + 1) : SubSeq(q, 1, k)[i] = q[1 + i - 1]
  BY <1>1, SubSeqProperties
<1>3. /\ SubSeq(q, k + 1, Len(q)) \in Seq(T)
      /\ Len(SubSeq(q, k + 1, Len(q))) = (IF k + 1 <= Len(q) THEN Len(q) - (k + 1) + 1 ELSE 0)
      /\ \A i \in 1 .. (Len(q) - (k + 1) + 1) : SubSeq(q, k + 1, Len(q))[i] = q[k + 1 + i - 1]
  BY <1>1, SubSeqProperties
<1> QED BY <1>1, <1>2, <1>3

LEMMA Split ==
  ASSUME NEW T, NEW q \in Seq(T), NEW k \in 0 .. Len(q)
  PROVE  ToSet(q) = ToSet(SubSeq(q, 1, k)) \cup ToSet(SubSeq(q, k + 1, Len(q)))
<1> DEFINE front == SubSeq(q, 1, k)
           rest  == SubSeq(q, k + 1, Len(q))
<1>1. /\ front \in Seq(T) /\ Len(front) = k /\ \A i \in 1 .. k : front[i] = q[i]
      /\ rest \in Seq(T) /\ Len(rest) = Len(q) - k /\ \A i \in 1 .. (Len(q) - k) : rest[i] = q[k + i]
  BY FrontAndRest
<1> HIDE DEF front, rest
<1>2. /\ Len(q) \in Nat /\ DOMAIN q = 1 .. Len(q)
      /\ DOMAIN front = 1 .. k /\ DOMAIN rest = 1 .. (Len(q) - k)
  BY <1>1, LenProperties
<1>3. ASSUME NEW i \in 1 .. Len(q)
      PROVE  q[i] \in ToSet(front) \cup ToSet(rest)
  <2>1. CASE i <= k
    <3>1. i \in 1 .. k
      BY <1>2, <2>1
    <3> QED BY <1>1, <1>2, <3>1 DEF ToSet
  <2>2. CASE i > k
    <3>1. i - k \in 1 .. (Len(q) - k) /\ k + (i - k) = i
      BY <1>2, <2>2
    <3>2. rest[i - k] = q[i]
      BY <1>1, <3>1
    <3> QED BY <1>2, <3>1, <3>2 DEF ToSet
  <2> QED BY <1>2, <2>1, <2>2
<1>4. ASSUME NEW i \in 1 .. k
      PROVE  front[i] \in ToSet(q)
  <2>1. i \in 1 .. Len(q) /\ front[i] = q[i]
    BY <1>1, <1>2
  <2> QED BY <1>2, <2>1 DEF ToSet
<1>5. ASSUME NEW i \in 1 .. (Len(q) - k)
      PROVE  rest[i] \in ToSet(q)
  <2>1. k + i \in 1 .. Len(q)
    BY <1>2
  <2> QED BY <1>1, <1>2, <2>1 DEF ToSet
<1>6. ToSet(q) \subseteq ToSet(front) \cup ToSet(rest)
  BY <1>2, <1>3 DEF ToSet
<1>7. ToSet(front) \subseteq ToSet(q)
  BY <1>2, <1>4 DEF ToSet
<1>8. ToSet(rest) \subseteq ToSet(q)
  BY <1>2, <1>5 DEF ToSet
<1>9. ToSet(q) = ToSet(front) \cup ToSet(rest)
  BY <1>6, <1>7, <1>8
<1> QED BY <1>9 DEF front, rest

(* A batch off the front of a queue, as long as may be.                    *)
LEMMA Batched ==
  ASSUME NEW T, NEW q \in Seq(T), NEW N \in Nat
  PROVE  LET batch == SubSeq(q, 1, IF Len(q) > N THEN N ELSE Len(q))
             rest  == SubSeq(q, Len(batch) + 1, Len(q))
         IN  batch \in Seq(T) /\ rest \in Seq(T) /\ ToSet(q) = ToSet(batch) \cup ToSet(rest)
<1> DEFINE k == IF Len(q) > N THEN N ELSE Len(q)
           batch == SubSeq(q, 1, k)
           rest  == SubSeq(q, Len(batch) + 1, Len(q))
<1>1. k \in 0 .. Len(q)
  BY LenProperties
<1> HIDE DEF k
<1>2. batch \in Seq(T) /\ Len(batch) = k
  BY <1>1, FrontAndRest
<1>3. rest = SubSeq(q, k + 1, Len(q))
  BY <1>2
<1>4. rest \in Seq(T) /\ ToSet(q) = ToSet(batch) \cup ToSet(rest)
  BY <1>1, <1>3, FrontAndRest, Split
<1> QED BY <1>2, <1>4 DEF k

(* No advice comes of a VM whose request failed.                           *)
LEMMA FailedSaysNothing == Perf!Classify(FailRecord, 4) = "unavailable"
<1>1. \A m : Perf!StatusIn(FailRecord, m) = "unavailable"
  BY DEF Perf!StatusIn, FailRecord, Perf!Unavailable
<1>2. ~Perf!Contention(FailRecord)
  BY <1>1 DEF Perf!Contention, Perf!Reached
<1> QED BY <1>1, <1>2 DEF Perf!Classify

LEMMA TargetsTyped == Targets \in Seq(VMIds)
<1>1. IsFiniteSet(VMIds \ TemplateIds)
  BY RetrievalAssumption, FS_Difference
<1>2. Targets \in Seq(VMIds \ TemplateIds)
  BY <1>1, SetToSeqFacts DEF Targets
<1> QED BY <1>2

LEMMA SamplesFacts ==
  ASSUME SamplesInv
  PROVE  RetrievalInv /\ OpShape /\ SamplesAccounted /\ SamplesTold
  BY DEF SamplesInv, RetrievalInv

LEMMA NoSamplesRead ==
  ASSUME op'.kind # "perf" PROVE SamplesAccounted'
  BY DEF SamplesAccounted

LEMMA OtherThanSamples ==
  ASSUME SamplesInv, result'.kind # "perf" \/ result' = result
  PROVE  SamplesTold'
<1>1. CASE result'.kind # "perf"
  BY <1>1 DEF SamplesTold
<1>2. CASE result' = result
  BY <1>2, SamplesFacts DEF SamplesTold
<1> QED BY <1>1, <1>2

(* The samples as they were.                                               *)
LEMMA SamplesStay ==
  ASSUME SamplesInv, op'.kind = op.kind,
         op.kind = "perf" => /\ op'.queue = op.queue /\ op'.singles = op.singles /\ op'.requests = op.requests
                             /\ op'.errors = op.errors /\ op'.skipped = op.skipped /\ op'.by = op.by
  PROVE  SamplesAccounted'
<1>1. CASE op.kind # "perf"
  BY <1>1, NoSamplesRead
<1>2. CASE op.kind = "perf"
  BY <1>2, SamplesFacts DEF SamplesAccounted
<1> QED BY <1>1, <1>2

(* What was recorded stays, what was not is recorded now.                  *)
LEMMA Recorded ==
  ASSUME NEW batch, NEW f
  PROVE  /\ DOMAIN RecordAll(batch, f) = DOMAIN op.by \cup ToSet(batch)
         /\ \A v \in DOMAIN op.by : RecordAll(batch, f)[v] = op.by[v]
         /\ \A v \in ToSet(batch) : v \in DOMAIN op.by \/ RecordAll(batch, f)[v] = f[v]
  BY DEF RecordAll, With

LEMMA StopPerfKeepsSamples ==
  ASSUME SamplesInv, StopPerf
  PROVE  SamplesAccounted' /\ SamplesTold'
<1>1. op.kind = "perf" /\ OpShape /\ SamplesAccounted /\ result' = result
  BY SamplesFacts DEF StopPerf
<1>2. /\ op'.kind = "perf" /\ op'.queue = <<>> /\ op'.singles = <<>> /\ op'.requests = op.requests
      /\ op'.errors = op.errors + 1 /\ op'.by = op.by
      /\ op'.skipped = op.skipped \cup ToSet(op.queue) \cup ToSet(op.singles)
  BY <1>1 DEF StopPerf, OpShape
<1>3. <<>> \in Seq(VMIds)
  BY EmptySeq
<1>4. op'.errors \in Nat /\ op'.errors > 0
  BY <1>1, <1>2 DEF SamplesAccounted
<1>5. ToSet(Targets) \subseteq op'.skipped \cup DOMAIN op'.by
  BY <1>1, <1>2 DEF SamplesAccounted
<1>6. \A v \in DOMAIN op.by : op.by[v] = Record(v) \/ op.by[v] = FailRecord
  BY <1>1 DEF SamplesAccounted
<1>7. op.requests \in 0 .. MaxRequests
  BY <1>1 DEF SamplesAccounted
<1> QED BY <1>1, <1>2, <1>3, <1>4, <1>5, <1>6, <1>7, OtherThanSamples DEF SamplesAccounted

LEMMA QueryBatchKeepsSamples ==
  ASSUME SamplesInv, NEW ans \in Answers, QueryBatch(ans)
  PROVE  SamplesAccounted' /\ SamplesTold'
<1> DEFINE batch == SubSeq(op.queue, 1, IF Len(op.queue) > BatchVMs THEN BatchVMs ELSE Len(op.queue))
           rest  == SubSeq(op.queue, Len(batch) + 1, Len(op.queue))
<1>1. op.kind = "perf" /\ OpShape /\ SamplesAccounted /\ result' = result /\ ~StopReason
  BY SamplesFacts DEF QueryBatch
<1>2. /\ op.queue \in Seq(VMIds) /\ op.singles = <<>> /\ op.requests \in 0 .. MaxRequests /\ op.errors \in Nat
      /\ ToSet(Targets) \subseteq op.skipped \cup DOMAIN op.by \cup ToSet(op.queue)
      /\ \A v \in DOMAIN op.by : op.by[v] = Record(v) \/ (op.by[v] = FailRecord /\ op.errors > 0)
  <2>1. op.singles = <<>>
    BY DEF QueryBatch
  <2>2. ToSet(op.singles) = {}
    BY <2>1 DEF ToSet
  <2> QED BY <1>1, <2>1, <2>2 DEF SamplesAccounted
<1>3. batch \in Seq(VMIds) /\ rest \in Seq(VMIds) /\ ToSet(op.queue) = ToSet(batch) \cup ToSet(rest)
  <2>1. BatchVMs \in Nat /\ op.queue \in Seq(VMIds)
    BY <1>2, RetrievalAssumption
  <2> QED BY <2>1, Batched
<1>4. op.requests + 1 \in 0 .. MaxRequests
  BY <1>1, <1>2, RetrievalAssumption DEF StopReason
<1>5. /\ op'.kind = "perf" /\ op'.requests = op.requests + 1
      /\ \/ /\ op'.queue = rest /\ op'.singles = <<>> /\ op'.errors = op.errors /\ op'.skipped = op.skipped
            /\ op'.by = RecordAll(batch, [v \in ToSet(batch) |-> Record(v)])
         \/ /\ op'.queue = <<>> /\ op'.singles = <<>> /\ op'.errors = op.errors + 1 /\ op'.skipped = op.skipped \cup ToSet(rest)
            /\ op'.by = RecordAll(batch, [v \in ToSet(batch) |-> FailRecord])
         \/ /\ op'.queue = rest /\ op'.singles = <<>> /\ op'.errors = op.errors + 1 /\ op'.skipped = op.skipped
            /\ op'.by = RecordAll(batch, [v \in ToSet(batch) |-> FailRecord])
         \/ /\ op'.queue = rest /\ op'.singles = batch /\ op'.errors = op.errors /\ op'.skipped = op.skipped /\ op'.by = op.by
  <2> HIDE DEF batch, rest
  <2>1. op' = CASE ans = "ok" ->
                        [op EXCEPT !.requests = @ + 1, !.queue = rest, !.by = RecordAll(batch, [v \in ToSet(batch) |-> Record(v)])]
                   [] ans = "denied" ->
                        [op EXCEPT !.requests = @ + 1, !.queue = <<>>, !.errors = @ + 1, !.skipped = @ \cup ToSet(rest),
                                   !.by = RecordAll(batch, [v \in ToSet(batch) |-> FailRecord])]
                   [] ans = "failed" /\ Len(batch) = 1 ->
                        [op EXCEPT !.requests = @ + 1, !.queue = rest, !.errors = @ + 1, !.by = RecordAll(batch, [v \in ToSet(batch) |-> FailRecord])]
                   [] OTHER -> [op EXCEPT !.requests = @ + 1, !.queue = rest, !.singles = batch]
    BY DEF QueryBatch, batch, rest
  <2>2. DOMAIN op = {"kind", "expired", "queue", "singles", "requests", "skipped", "errors", "by"}
    BY <1>1 DEF OpShape
  <2>3. op.singles = <<>>
    BY <1>2
  <2> QED BY <1>1, <2>1, <2>2, <2>3
<1> HIDE DEF batch, rest
<1>6. ToSet(<<>>) = {} /\ <<>> \in Seq(VMIds)
  BY EmptySeq DEF ToSet
<1>7. /\ op'.queue \in Seq(VMIds) /\ op'.singles \in Seq(VMIds) /\ op'.errors \in Nat
  <2>1. op'.queue \in {rest, <<>>} /\ op'.singles \in {batch, <<>>} /\ op'.errors \in {op.errors, op.errors + 1}
    BY <1>5, Zenon
  <2>2. op'.queue \in Seq(VMIds)
    BY <1>3, <1>6, <2>1, Zenon
  <2>3. op'.singles \in Seq(VMIds)
    BY <1>3, <1>6, <2>1, Zenon
  <2>4. op'.errors \in Nat
    BY <1>2, <2>1
  <2> QED BY <2>2, <2>3, <2>4
<1>8. /\ ToSet(Targets) \subseteq op'.skipped \cup DOMAIN op'.by \cup ToSet(op'.queue) \cup ToSet(op'.singles)
      /\ \A v \in DOMAIN op'.by : op'.by[v] = Record(v) \/ (op'.by[v] = FailRecord /\ op'.errors > 0)
  <2>1. CASE op'.by = RecordAll(batch, [v \in ToSet(batch) |-> Record(v)]) /\ op'.errors = op.errors /\ op'.queue = rest /\ op'.skipped = op.skipped
    <3> DEFINE f == [v \in ToSet(batch) |-> Record(v)]
    <3>1. op'.by = RecordAll(batch, f) /\ \A v \in ToSet(batch) : f[v] = Record(v)
      BY <2>1
    <3> HIDE DEF f
    <3>2. /\ DOMAIN op'.by = DOMAIN op.by \cup ToSet(batch)
          /\ \A v \in DOMAIN op'.by : op'.by[v] = Record(v) \/ (op'.by[v] = FailRecord /\ op.errors > 0)
      <4>1. /\ DOMAIN RecordAll(batch, f) = DOMAIN op.by \cup ToSet(batch)
            /\ \A v \in DOMAIN op.by : RecordAll(batch, f)[v] = op.by[v]
            /\ \A v \in ToSet(batch) : v \in DOMAIN op.by \/ RecordAll(batch, f)[v] = f[v]
        BY Recorded
      <4> QED BY <1>2, <3>1, <4>1
    <3> QED BY <1>2, <1>3, <2>1, <3>2
  <2>2. CASE /\ op'.by = RecordAll(batch, [v \in ToSet(batch) |-> FailRecord]) /\ op'.errors = op.errors + 1
             /\ ToSet(rest) \cup op.skipped \subseteq op'.skipped \cup ToSet(op'.queue)
    <3>1. op'.errors \in Nat /\ op'.errors > 0 /\ op.errors <= op'.errors
      BY <1>2, <2>2
    <3> DEFINE f == [v \in ToSet(batch) |-> FailRecord]
    <3>2. op'.by = RecordAll(batch, f) /\ \A v \in ToSet(batch) : f[v] = FailRecord
      BY <2>2
    <3> HIDE DEF f
    <3>3. /\ DOMAIN op'.by = DOMAIN op.by \cup ToSet(batch)
          /\ \A v \in DOMAIN op'.by : op'.by[v] = Record(v) \/ (op'.by[v] = FailRecord /\ op'.errors > 0)
      <4>1. /\ DOMAIN RecordAll(batch, f) = DOMAIN op.by \cup ToSet(batch)
            /\ \A v \in DOMAIN op.by : RecordAll(batch, f)[v] = op.by[v]
            /\ \A v \in ToSet(batch) : v \in DOMAIN op.by \/ RecordAll(batch, f)[v] = f[v]
        BY Recorded
      <4> QED BY <1>2, <3>1, <3>2, <4>1
    <3> QED BY <1>2, <1>3, <2>2, <3>3
  <2>3. CASE op'.queue = rest /\ op'.singles = batch /\ op'.errors = op.errors /\ op'.skipped = op.skipped /\ op'.by = op.by
    BY <1>2, <1>3, <2>3
  <2> QED BY <1>5, <1>6, <2>1, <2>2, <2>3
<1>9. SamplesAccounted'
  BY <1>4, <1>5, <1>7, <1>8 DEF SamplesAccounted
<1> QED BY <1>1, <1>9, OtherThanSamples

LEMMA QuerySingleKeepsSamples ==
  ASSUME SamplesInv, NEW ans \in Answers, QuerySingle(ans)
  PROVE  SamplesAccounted' /\ SamplesTold'
<1> DEFINE v == Head(op.singles)
           f == [x \in {v} |-> IF ans = "ok" THEN Record(v) ELSE FailRecord]
<1>1. op.kind = "perf" /\ OpShape /\ SamplesAccounted /\ result' = result /\ ~StopReason /\ op.singles # <<>>
  BY SamplesFacts DEF QuerySingle
<1>2. /\ op.queue \in Seq(VMIds) /\ op.singles \in Seq(VMIds) /\ op.requests \in 0 .. MaxRequests /\ op.errors \in Nat
      /\ ToSet(Targets) \subseteq op.skipped \cup DOMAIN op.by \cup ToSet(op.queue) \cup ToSet(op.singles)
      /\ \A x \in DOMAIN op.by : op.by[x] = Record(x) \/ (op.by[x] = FailRecord /\ op.errors > 0)
  BY <1>1 DEF SamplesAccounted
<1>3. Tail(op.singles) \in Seq(VMIds) /\ ToSet(op.singles) \subseteq {v} \cup ToSet(Tail(op.singles))
  <2>1. /\ Len(op.singles) \in Nat /\ Len(op.singles) >= 1 /\ DOMAIN op.singles = 1 .. Len(op.singles)
        /\ Tail(op.singles) \in Seq(VMIds) /\ Len(Tail(op.singles)) = Len(op.singles) - 1
        /\ \A i \in 1 .. Len(Tail(op.singles)) : Tail(op.singles)[i] = op.singles[i + 1]
        /\ op.singles[1] = v
    BY <1>1, <1>2, HeadTailProperties, LenProperties
  <2>2. DOMAIN Tail(op.singles) = 1 .. (Len(op.singles) - 1)
    BY <2>1, LenProperties
  <2>3. ASSUME NEW i \in 1 .. Len(op.singles)
        PROVE  op.singles[i] \in {v} \cup ToSet(Tail(op.singles))
    <3>1. CASE i = 1
      BY <2>1, <3>1
    <3>2. CASE i > 1
      <4>1. i - 1 \in 1 .. (Len(op.singles) - 1) /\ Tail(op.singles)[i - 1] = op.singles[i]
        BY <2>1, <3>2
      <4> QED BY <2>2, <4>1 DEF ToSet
    <3> QED BY <2>1, <3>1, <3>2
  <2> HIDE DEF v
  <2> QED BY <2>1, <2>3 DEF ToSet
<1>4. op.requests + 1 \in 0 .. MaxRequests
  BY <1>1, <1>2, RetrievalAssumption DEF StopReason
<1>5. /\ op'.kind = "perf" /\ op'.requests = op.requests + 1 /\ op'.queue = op.queue /\ op'.singles = Tail(op.singles)
      /\ op'.skipped = op.skipped /\ op'.errors = (IF ans = "ok" THEN op.errors ELSE op.errors + 1)
      /\ op'.by = RecordAll(<<v>>, f)
  <2> HIDE DEF v, f
  <2>1. op' = [op EXCEPT !.requests = @ + 1, !.singles = Tail(@), !.errors = IF ans = "ok" THEN @ ELSE @ + 1,
                         !.by = RecordAll(<<v>>, f)]
    BY DEF QuerySingle, v, f
  <2>2. DOMAIN op = {"kind", "expired", "queue", "singles", "requests", "skipped", "errors", "by"}
    BY <1>1 DEF OpShape
  <2> QED BY <1>1, <2>1, <2>2
<1>6. ToSet(<<v>>) = {v} /\ f[v] = (IF ans = "ok" THEN Record(v) ELSE FailRecord)
  BY DEF ToSet
<1> HIDE DEF v, f
<1>7. op'.errors \in Nat /\ op.errors <= op'.errors /\ (ans # "ok" => op'.errors > 0)
  BY <1>2, <1>5
<1>8. /\ DOMAIN op'.by = DOMAIN op.by \cup {v}
      /\ \A x \in DOMAIN op'.by : op'.by[x] = Record(x) \/ (op'.by[x] = FailRecord /\ op'.errors > 0)
  <2>1. \A x \in ToSet(<<v>>) : f[x] = Record(x) \/ (f[x] = FailRecord /\ op'.errors > 0)
    BY <1>6, <1>7
  <2>2. /\ DOMAIN RecordAll(<<v>>, f) = DOMAIN op.by \cup {v}
        /\ \A x \in DOMAIN op.by : RecordAll(<<v>>, f)[x] = op.by[x]
        /\ v \in DOMAIN op.by \/ RecordAll(<<v>>, f)[v] = f[v]
    <3>1. /\ DOMAIN RecordAll(<<v>>, f) = DOMAIN op.by \cup ToSet(<<v>>)
          /\ \A x \in DOMAIN op.by : RecordAll(<<v>>, f)[x] = op.by[x]
          /\ \A x \in ToSet(<<v>>) : x \in DOMAIN op.by \/ RecordAll(<<v>>, f)[x] = f[x]
      BY Recorded
    <3>2. ToSet(<<v>>) = {v}
      BY <1>6
    <3> QED BY <3>1, <3>2
  <2>3. f[v] = Record(v) \/ (f[v] = FailRecord /\ op'.errors > 0)
    BY <1>6, <2>1
  <2>4. \A x \in DOMAIN op.by : op.by[x] = Record(x) \/ (op.by[x] = FailRecord /\ op'.errors > 0)
    BY <1>2, <1>7
  <2> QED BY <1>5, <2>2, <2>3, <2>4
<1>9. SamplesAccounted'
  BY <1>2, <1>3, <1>4, <1>5, <1>7, <1>8 DEF SamplesAccounted
<1> QED BY <1>1, <1>9, OtherThanSamples

(* The window ends when nobody is still to be asked for.                   *)
LEMMA EndPerfKeepsSamples ==
  ASSUME SamplesInv, EndPerf
  PROVE  SamplesAccounted' /\ SamplesTold'
<1>1. op.kind = "perf" /\ SamplesAccounted /\ op' = Idle /\ op.queue \o op.singles = <<>>
      /\ result' = [kind |-> "perf", status |-> WindowStatus,
                    by |-> [v \in ToSet(Targets) |-> SignalOf(v)], skipped |-> op.skipped, requests |-> op.requests]
  BY SamplesFacts DEF EndPerf, Finish
<1>2. /\ op.queue \in Seq(VMIds) /\ op.singles \in Seq(VMIds) /\ op.requests \in 0 .. MaxRequests /\ op.errors \in Nat
      /\ ToSet(Targets) \subseteq op.skipped \cup DOMAIN op.by \cup ToSet(op.queue) \cup ToSet(op.singles)
      /\ \A v \in DOMAIN op.by : op.by[v] = Record(v) \/ (op.by[v] = FailRecord /\ op.errors > 0)
  BY <1>1 DEF SamplesAccounted
<1>3. ToSet(op.queue) = {} /\ ToSet(op.singles) = {}
  <2>1. Len(op.queue) \in Nat /\ Len(op.singles) \in Nat /\ Len(op.queue) + Len(op.singles) = 0
    <3>1. Len(op.queue) \in Nat /\ Len(op.singles) \in Nat
      BY <1>2, LenProperties
    <3>2. Len(op.queue \o op.singles) = Len(op.queue) + Len(op.singles)
      BY <1>2, ConcatProperties
    <3> QED BY <1>1, <3>1, <3>2
  <2>2. DOMAIN op.queue = 1 .. Len(op.queue) /\ DOMAIN op.singles = 1 .. Len(op.singles)
    BY <1>2, LenProperties
  <2>3. Len(op.queue) = 0 /\ Len(op.singles) = 0
    <3> DEFINE m == Len(op.queue)
               n == Len(op.singles)
    <3>1. m \in Nat /\ n \in Nat /\ m + n = 0
      BY <2>1
    <3> HIDE DEF m, n
    <3>2. m = 0 /\ n = 0
      BY <3>1
    <3> QED BY <3>2 DEF m, n
  <2>4. DOMAIN op.queue = {} /\ DOMAIN op.singles = {}
    BY <2>2, <2>3
  <2> QED BY <2>4 DEF ToSet
<1>4. \A v \in ToSet(Targets) : v \in op.skipped \/ v \in DOMAIN op.by
  BY <1>2, <1>3
<1>5. ASSUME NEW v \in ToSet(Targets), v \notin op.skipped
      PROVE  \/ SignalOf(v) = Perf!Classify(Record(v), 4)
             \/ SignalOf(v) = "unavailable" /\ op.errors > 0
  BY <1>2, <1>4, <1>5, FailedSaysNothing DEF SignalOf
<1>6. \A v \in ToSet(Targets) : v \in op.skipped => SignalOf(v) = "insufficient-data"
  BY DEF SignalOf
<1>7. WindowStatus = "success" => op.skipped = {} /\ ~(op.errors > 0)
  BY DEF WindowStatus
<1>8. /\ result'.kind = "perf" /\ result'.status = WindowStatus /\ result'.skipped = op.skipped /\ result'.requests = op.requests
      /\ DOMAIN result'.by = ToSet(Targets) /\ \A v \in ToSet(Targets) : result'.by[v] = SignalOf(v)
  BY <1>1
<1>9. SamplesTold'
  <2>1. result'.requests <= MaxRequests
    BY <1>2, <1>8, RetrievalAssumption
  <2>2. \A v \in DOMAIN result'.by : result'.by[v] \in {"sustained-low", "peaks-observed", "in-use", "contention-observed", "cpu-only"} =>
              v \notin result'.skipped /\ result'.by[v] = Perf!Classify(Record(v), 4)
    BY <1>5, <1>6, <1>8
  <2>3. result'.status = "success" => result'.skipped = {} /\ \A v \in ToSet(Targets) : result'.by[v] = Perf!Classify(Record(v), 4)
    BY <1>5, <1>7, <1>8
  <2> QED BY <2>1, <2>2, <2>3 DEF SamplesTold
<1> QED BY <1>1, <1>9, NoSamplesRead DEF Idle

LEMMA StartPerfKeepsSamples ==
  ASSUME SamplesInv, NEW ans, StartPerf(ans)
  PROVE  SamplesAccounted' /\ SamplesTold'
<1> DEFINE queryable == SubSeq(Targets, 1, IF Len(Targets) > MaxVMs THEN MaxVMs ELSE Len(Targets))
           over      == SubSeq(Targets, Len(queryable) + 1, Len(Targets))
<1>1. queryable \in Seq(VMIds) /\ ToSet(Targets) = ToSet(queryable) \cup ToSet(over)
  <2>1. MaxVMs \in Nat /\ Targets \in Seq(VMIds)
    BY TargetsTyped, RetrievalAssumption
  <2> QED BY <2>1, Batched
<1> HIDE DEF queryable, over
<1>2. CASE /\ op' = [kind |-> "perf", expired |-> FALSE, queue |-> queryable, singles |-> <<>>, requests |-> 0,
                     skipped |-> ToSet(over), errors |-> 0, by |-> <<>>]
           /\ result' = Nothing
  <2>1. <<>> \in Seq(VMIds) /\ ToSet(<<>>) = {} /\ DOMAIN <<>> = {}
    BY EmptySeq DEF ToSet
  <2>2. SamplesAccounted'
    BY <1>1, <1>2, <2>1, RetrievalAssumption DEF SamplesAccounted
  <2> QED BY <1>2, <2>2, OtherThanSamples DEF Nothing
<1>3. CASE op' = op /\ op.kind = "idle" /\ result' = [kind |-> "perf", status |-> "failed", by |-> <<>>, skipped |-> {}, requests |-> 0]
  <2>1. SamplesTold'
    BY <1>3, RetrievalAssumption DEF SamplesTold
  <2> QED BY <1>3, <2>1, NoSamplesRead
<1> QED BY <1>2, <1>3 DEF StartPerf, queryable, over

(* The steps of the other operations.                                      *)
LEMMA OthersKeepSamples ==
  ASSUME SamplesInv, SameBut("perf", {"expired"}), result' = result \/ result'.kind # "perf"
  PROVE  SamplesAccounted' /\ SamplesTold'
<1>1. CASE op'.kind # "perf"
  BY <1>1, NoSamplesRead, OtherThanSamples
<1>2. CASE op'.kind = "perf"
  <2>1. op.kind = "perf" /\ op'.queue = op.queue /\ op'.singles = op.singles /\ op'.requests = op.requests
        /\ op'.errors = op.errors /\ op'.skipped = op.skipped /\ op'.by = op.by
    BY <1>2, SamplesFacts DEF SameBut, OpShape
  <2> QED BY <1>2, <2>1, SamplesStay, OtherThanSamples
<1> QED BY <1>1, <1>2

LEMMA SamplesStep ==
  ASSUME SamplesInv, [Next]_vars
  PROVE  SamplesInv'
<1>1. RetrievalInv'
  BY SamplesFacts, StepHolds
<1>2. CASE PerfStep
  <2>1. SamplesAccounted' /\ SamplesTold'
    BY <1>2, StartPerfKeepsSamples, StopPerfKeepsSamples, QueryBatchKeepsSamples, QuerySingleKeepsSamples, EndPerfKeepsSamples
       DEF PerfStep
  <2> QED BY <1>1, <2>1 DEF SamplesInv
<1>3. CASE SameBut("perf", {"expired"}) /\ (result' = result \/ result'.kind # "perf")
  BY <1>1, <1>3, OthersKeepSamples DEF SamplesInv
<1> QED BY <1>2, <1>3, SamplesFacts, Elsewhere

(* Each VM of a window still to be asked for is in a queue, each of the    *)
(* others was left out or has a record, and a record made of nothing has   *)
(* left an error behind.                                                   *)
THEOREM SamplesInvariant == Spec => []SamplesInv
<1>1. Init => SamplesInv
  <2> SUFFICES ASSUME Init PROVE SamplesInv
    OBVIOUS
  <2>1. op.kind = "idle" /\ result.kind = "none"
    BY DEF Init, Idle, Nothing
  <2> QED BY <2>1, InitHolds DEF SamplesInv, SamplesAccounted, SamplesTold
<1>2. SamplesInv /\ [Next]_vars => SamplesInv'
  BY SamplesStep
<1> QED BY <1>1, <1>2, PTL DEF Spec

(* collectPerf: advice is built only on what all of the VM's samples say,  *)
(* a window that counts as a success left no VM out, and the requests stay *)
(* within the budget, whatever was refused, failed or came too late.       *)
THEOREM SamplesToldHolds == Spec => []SamplesTold
<1>1. SamplesInv => SamplesTold
  BY DEF SamplesInv
<1> QED BY <1>1, SamplesInvariant, PTL

-----------------------------------------------------------------------------
(* The lowest of a set of places.                                          *)

LEMMA Least ==
  ASSUME NEW S \in SUBSET Nat, S # {}
  PROVE  \E n \in S : \A m \in S : n <= m
<1>1. PICK n \in S : \A m \in S : ~(<<m, n>> \in OpToRel(<, Nat))
  BY NatLessThanWellFounded, WFMin, Zenon
<1>2. S \subseteq Nat /\ n \in Nat
  OBVIOUS
<1>3. \A m \in S : ~(m < n)
  BY <1>1, <1>2 DEF OpToRel
<1>4. \A m \in S : n <= m
  BY <1>2, <1>3
<1> QED BY <1>4

(* All of them are among the first k when there are no more than k.        *)
LEMMA FirstOfAll ==
  ASSUME NEW S \in SUBSET Nat, IsFiniteSet(S), NEW k \in Nat, Cardinality(S) <= k
  PROVE  FirstOf(S, k) = S
<1> SUFFICES ASSUME NEW i \in S
             PROVE  Cardinality({j \in S : j < i}) < k
  BY DEF FirstOf
<1> DEFINE L == {j \in S : j < i}
<1>1. L \in SUBSET S /\ i \notin L /\ L # S
  OBVIOUS
<1> HIDE DEF L
<1>2. Cardinality(L) \in Nat /\ Cardinality(S) \in Nat /\ Cardinality(L) <= Cardinality(S) /\ Cardinality(L) # Cardinality(S)
  <2>1. IsFiniteSet(L) /\ Cardinality(L) <= Cardinality(S) /\ (Cardinality(S) = Cardinality(L) => S = L)
    BY <1>1, FS_Subset
  <2> QED BY <1>1, <2>1, FS_CardinalityType
<1>3. Cardinality(L) < k
  BY <1>2
<1> QED BY <1>3 DEF L

LEMMA FirstOfSome ==
  ASSUME NEW S \in SUBSET Nat, S # {}, NEW k \in Nat \ {0}
  PROVE  FirstOf(S, k) # {}
<1>1. PICK n \in S : \A m \in S : n <= m
  BY Least
<1>2. {j \in S : j < n} = {}
  <2>1. S \subseteq Nat /\ n \in Nat
    OBVIOUS
  <2>2. \A j \in S : ~(j < n)
    BY <1>1, <2>1
  <2> QED BY <2>2
<1>3. Cardinality({j \in S : j < n}) = 0
  BY <1>2, FS_EmptySet
<1> QED BY <1>3 DEF FirstOf

(* There are k of the first k, when there are as many.                     *)
LEMMA OneMore ==
  ASSUME NEW S \in SUBSET Nat, IsFiniteSet(S), NEW k \in Nat, k + 1 <= Cardinality(S), Cardinality(FirstOf(S, k)) = k
  PROVE  Cardinality(FirstOf(S, k + 1)) = k + 1
<1> DEFINE F == FirstOf(S, k)
           Below(i) == {j \in S : j < i}
<1>1. F \in SUBSET S /\ IsFiniteSet(F) /\ \A i \in S : i \in F <=> Cardinality(Below(i)) < k
  <2>1. F \in SUBSET S /\ \A i \in S : i \in F <=> Cardinality(Below(i)) < k
    BY DEF FirstOf
  <2> QED BY <2>1, FS_Subset
<1>2. \A i \in S : IsFiniteSet(Below(i)) /\ Cardinality(Below(i)) \in Nat
  BY FS_Subset, FS_CardinalityType
<1> HIDE DEF F
<1>3. Cardinality(F) = k /\ Cardinality(S) \in Nat
  BY FS_CardinalityType DEF F
<1>4. S \ F # {}
  <2> SUFFICES ASSUME S \ F = {} PROVE FALSE
    OBVIOUS
  <2>1. S = F
    BY <1>1
  <2>2. Cardinality(S) = k
    BY <1>3, <2>1
  <2> QED BY <1>3, <2>2
<1>a. S \subseteq Nat
  OBVIOUS
<1>5. PICK m \in S \ F : \A x \in S \ F : m <= x
  BY <1>1, <1>4, Least
<1>6. ~(Cardinality(Below(m)) < k)
  BY <1>1, <1>5
<1>7. \A j \in F : j < m
  <2> SUFFICES ASSUME NEW j \in F, ~(j < m) PROVE FALSE
    OBVIOUS
  <2>1. Below(m) \in SUBSET Below(j)
    <3>1. m \in Nat /\ j \in Nat /\ m <= j
      BY <1>1, <1>5, <1>a
    <3>2. \A x \in S : x < m => x < j
      BY <1>a, <3>1
    <3> QED BY <3>2
  <2>2. Cardinality(Below(m)) <= Cardinality(Below(j))
    BY <1>1, <1>2, <2>1, FS_Subset
  <2> QED BY <1>1, <1>2, <1>5, <1>6, <2>2
<1>8. Below(m) = F
  <2>1. \A j \in S : j < m => j \in F
    BY <1>5, <1>a
  <2>2. \A j \in F : j \in S /\ j < m
    BY <1>1, <1>7
  <2> QED BY <2>1, <2>2
<1>9. FirstOf(S, k + 1) = F \cup {m}
  <2>1. ASSUME NEW i \in S, i > m
        PROVE  ~(Cardinality(Below(i)) < k + 1)
    <3>1. F \cup {m} \in SUBSET Below(i)
      BY <1>1, <1>5, <1>7, <2>1
    <3>2. Cardinality(F \cup {m}) <= Cardinality(Below(i))
      BY <1>2, <3>1, FS_Subset
    <3>3. Cardinality(F \cup {m}) = k + 1
      BY <1>1, <1>3, <1>5, FS_AddElement
    <3> QED BY <1>2, <3>2, <3>3
  <2>2. \A i \in F : Cardinality(Below(i)) < k + 1
    BY <1>1, <1>2
  <2>3. Cardinality(Below(m)) < k + 1
    BY <1>3, <1>8
  <2>4. \A i \in S : Cardinality(Below(i)) < k + 1 <=> i \in F \cup {m}
    <3> SUFFICES ASSUME NEW i \in S PROVE Cardinality(Below(i)) < k + 1 <=> i \in F \cup {m}
      OBVIOUS
    <3>1. CASE i \in F \cup {m}
      BY <2>2, <2>3, <3>1
    <3>2. CASE i \notin F \cup {m}
      <4>1. i > m
        BY <1>1, <1>5, <3>2
      <4> QED BY <2>1, <3>2, <4>1
    <3> QED BY <3>1, <3>2
  <2> QED BY <1>1, <1>5, <2>4 DEF FirstOf
<1>10. Cardinality(F \cup {m}) = k + 1
  <2>1. IsFiniteSet(F) /\ m \notin F
    BY <1>1, <1>5
  <2>2. Cardinality(F \cup {m}) = Cardinality(F) + 1
    BY <2>1, FS_AddElement
  <2> QED BY <1>3, <2>2
<1> QED BY <1>9, <1>10

LEMMA FirstOfCount ==
  ASSUME NEW S \in SUBSET Nat, IsFiniteSet(S), NEW k \in Nat, k <= Cardinality(S)
  PROVE  Cardinality(FirstOf(S, k)) = k
<1> DEFINE Bad == {n \in Nat : n <= Cardinality(S) /\ Cardinality(FirstOf(S, n)) # n}
<1>1. SUFFICES ASSUME Bad # {} PROVE FALSE
  OBVIOUS
<1>2. PICK n \in Bad : \A m \in Bad : n <= m
  BY <1>1, Least
<1>3. n # 0
  <2>1. FirstOf(S, 0) = {}
    <3>1. \A i \in S : Cardinality({j \in S : j < i}) \in Nat
      BY FS_Subset, FS_CardinalityType
    <3>2. \A i \in S : ~(Cardinality({j \in S : j < i}) < 0)
      BY <3>1
    <3> QED BY <3>2 DEF FirstOf
  <2> QED BY <2>1, FS_EmptySet
<1>4. n - 1 \in Nat /\ n - 1 <= Cardinality(S) /\ (n - 1) + 1 = n
  BY <1>2, <1>3, FS_CardinalityType
<1>5. Cardinality(FirstOf(S, n - 1)) = n - 1
  BY <1>2, <1>4
<1> QED BY <1>2, <1>4, <1>5, OneMore

LEMMA FirstOfFacts ==
  ASSUME NEW S \in SUBSET Nat, IsFiniteSet(S), NEW k \in Nat
  PROVE  /\ FirstOf(S, k) \in SUBSET S /\ IsFiniteSet(FirstOf(S, k))
         /\ Cardinality(FirstOf(S, k)) = IF k <= Cardinality(S) THEN k ELSE Cardinality(S)
         /\ Cardinality(S) <= k => FirstOf(S, k) = S
<1>1. FirstOf(S, k) \in SUBSET S
  BY DEF FirstOf
<1> QED BY <1>1, FS_Subset, FS_CardinalityType, FirstOfAll, FirstOfCount

-----------------------------------------------------------------------------
(* The files of a datastore.                                               *)

LEMMA Places ==
  ASSUME NEW T, NEW s \in Seq(T)
  PROVE  DOMAIN s \in SUBSET Nat /\ IsFiniteSet(DOMAIN s) /\ Cardinality(DOMAIN s) = Len(s) /\ DOMAIN s = 1 .. Len(s)
<1>1. DOMAIN s = 1 .. Len(s) /\ Len(s) \in Nat
  BY LenProperties
<1>2. IsFiniteSet(1 .. Len(s)) /\ Cardinality(1 .. Len(s)) = Len(s)
  BY <1>1, FS_Interval
<1> QED BY <1>1, <1>2

(* Names told apart by their places are as many.                           *)
LEMMA AsMany ==
  ASSUME NEW f, NEW S, IsFiniteSet(S), \A i, j \in S : f[i] = f[j] => i = j
  PROVE  LET T == {f[i] : i \in S} IN IsFiniteSet(T) /\ Cardinality(T) = Cardinality(S)
<1> DEFINE T == {f[i] : i \in S}
           g == [i \in S |-> f[i]]
<1>1. g \in [S -> T] /\ (\A i, j \in S : g[i] = g[j] => i = j) /\ \A t \in T : \E i \in S : g[i] = t
  OBVIOUS
<1>2. g \in Bijection(S, T)
  BY <1>1, Zenon DEF Bijection, Injection, Surjection, IsInjective
<1>3. ExistsBijection(S, T)
  BY <1>2 DEF ExistsBijection
<1> QED BY <1>3, FS_Bijection

LEMMA InventoryFilesTold ==
  ASSUME NEW s \in ToSet(Stores), NEW limit \in Nat
  PROVE  LET found == InventoryFiles(s.files, limit) IN
         /\ IsFiniteSet(found.files) /\ Cardinality(found.files) <= limit
         /\ ~found.truncated => found.files = PlainPaths(s)
         /\ found.truncated => Cardinality(found.files) = limit
<1> DEFINE files == s.files
           plain == {i \in DOMAIN files : ~files[i].folder}
           F     == FirstOf(plain, limit)
           found == InventoryFiles(files, limit)
<1>1. files \in Seq(ToSet(files)) /\ \A i, j \in DOMAIN files : files[i].path = files[j].path => i = j
  BY VCenterAssumption
<1>2. plain \in SUBSET Nat /\ IsFiniteSet(plain)
  <2>1. DOMAIN files \in SUBSET Nat /\ IsFiniteSet(DOMAIN files)
    BY <1>1, Places
  <2>2. plain \in SUBSET DOMAIN files
    OBVIOUS
  <2> QED BY <2>1, <2>2, FS_Subset
<1>3. found.files = {files[i].path : i \in F} /\ (found.truncated <=> Cardinality(plain) > limit)
  BY DEF InventoryFiles
<1>4. {f.path : f \in {x \in ToSet(files) : ~x.folder}} = {files[i].path : i \in plain}
  BY DEF ToSet
<1> HIDE DEF files, found, plain, F
<1>5. plain \in SUBSET DOMAIN files
  BY DEF plain
<1>6. /\ F \in SUBSET plain /\ IsFiniteSet(F)
      /\ Cardinality(F) = IF limit <= Cardinality(plain) THEN limit ELSE Cardinality(plain)
      /\ Cardinality(plain) <= limit => F = plain
  BY <1>2, FirstOfFacts DEF F
<1>7. Cardinality(plain) \in Nat
  BY <1>2, FS_CardinalityType
<1>8. IsFiniteSet(found.files) /\ Cardinality(found.files) = Cardinality(F)
  <2> DEFINE path == [i \in DOMAIN files |-> files[i].path]
  <2>1. {path[i] : i \in F} = found.files
    BY <1>3, <1>5, <1>6
  <2>2. \A i, j \in F : path[i] = path[j] => i = j
    BY <1>1, <1>5, <1>6
  <2> HIDE DEF path
  <2> QED BY <1>6, <2>1, <2>2, AsMany
<1>9. ~found.truncated => found.files = PlainPaths(s)
  <2> SUFFICES ASSUME ~found.truncated PROVE found.files = PlainPaths(s)
    OBVIOUS
  <2>1. F = plain
    BY <1>3, <1>6, <1>7
  <2> QED BY <1>3, <1>4, <2>1 DEF PlainPaths, files
<1>10. Cardinality(found.files) <= limit /\ (found.truncated => Cardinality(found.files) = limit)
  BY <1>3, <1>6, <1>7, <1>8
<1> QED BY <1>8, <1>9, <1>10 DEF found, files

(* The folding of the extents leaves out no file of its own.               *)
LEMMA PathsOfFolded ==
  ASSUME NEW X
  PROVE  {f.path : f \in FoldDiskExtentSizes(X)} = {f.path : f \in {x \in X : x.owner = ""}}
<1> DEFINE Y == {x \in X : x.owner = ""}
           Z == FoldDiskExtentSizes(X)
<1>1. Z = {[path |-> f.path, size |-> DiskSize(f, X)] : f \in Y}
  BY DEF FoldDiskExtentSizes
<1> HIDE DEF Y, Z
<1>2. ASSUME NEW g \in Z
      PROVE  \E f \in Y : g.path = f.path
  <2>1. PICK f \in Y : g = [path |-> f.path, size |-> DiskSize(f, X)]
    BY <1>1, Zenon
  <2> QED BY <2>1
<1>3. ASSUME NEW f \in Y
      PROVE  \E g \in Z : g.path = f.path
  <2>1. [path |-> f.path, size |-> DiskSize(f, X)] \in Z
    BY <1>1, Zenon
  <2> QED BY <2>1
<1>4. {f.path : f \in Z} = {f.path : f \in Y}
  BY <1>2, <1>3
<1> QED BY <1>4 DEF Y, Z

LEMMA BrowseTold ==
  ASSUME NEW s \in ToSet(Stores), NEW ans
  PROVE  LET got == BrowseDatastore(s, ans) IN
         got.status = "success" /\ ~got.truncated =>
            {f.path : f \in got.files} = {f.path : f \in {x \in ToSet(s.files) : x.disk /\ x.owner = ""}}
<1> DEFINE files == s.files
           disks == {i \in DOMAIN files : files[i].disk}
           F     == FirstOf(disks, BrowseFileCap)
           got   == BrowseDatastore(s, ans)
<1> SUFFICES ASSUME got.status = "success", ~got.truncated
             PROVE  {f.path : f \in got.files} = {f.path : f \in {x \in ToSet(files) : x.disk /\ x.owner = ""}}
  OBVIOUS
<1>1. got = [status |-> "success", files |-> FoldDiskExtentSizes({files[i] : i \in F}), truncated |-> Cardinality(disks) > BrowseFileCap]
  BY DEF BrowseDatastore, ClassifyInventoryError
<1>2. disks \in SUBSET Nat /\ IsFiniteSet(disks)
  <2>1. files \in Seq(ToSet(files))
    BY VCenterAssumption
  <2>2. DOMAIN files \in SUBSET Nat /\ IsFiniteSet(DOMAIN files)
    BY <2>1, Places
  <2>3. disks \in SUBSET DOMAIN files
    OBVIOUS
  <2> QED BY <2>2, <2>3, FS_Subset
<1> HIDE DEF F, got
<1>3. got.files = FoldDiskExtentSizes({files[i] : i \in F}) /\ ~(Cardinality(disks) > BrowseFileCap)
  BY <1>1
<1>4. F = disks
  <2> HIDE DEF disks
  <2>1. Cardinality(disks) \in Nat /\ BrowseFileCap \in Nat
    BY <1>2, FS_CardinalityType, RetrievalAssumption
  <2>2. Cardinality(disks) <= BrowseFileCap
    BY <1>3, <2>1
  <2> QED BY <1>2, <2>1, <2>2, FirstOfAll DEF F
<1>5. {files[i] : i \in F} = {x \in ToSet(files) : x.disk}
  BY <1>4 DEF ToSet
<1> HIDE DEF files
<1>6. \A X : {f.path : f \in FoldDiskExtentSizes(X)} = {f.path : f \in {x \in X : x.owner = ""}}
  BY PathsOfFolded
<1>7. {f.path : f \in got.files} = {f.path : f \in {y \in {x \in ToSet(files) : x.disk} : y.owner = ""}}
  BY <1>3, <1>5, <1>6
<1>8. {y \in {x \in ToSet(files) : x.disk} : y.owner = ""} = {x \in ToSet(files) : x.disk /\ x.owner = ""}
  OBVIOUS
<1> QED BY <1>7, <1>8

LEMMA ListingTold ==
  ASSUME NEW s \in ToSet(Stores)
  PROVE  LET got == DatastoreListing(s.files, ListEntryCap) IN ~got.truncated => got.entries = ToSet(s.files)
<1>1. s.files \in Seq(ToSet(s.files))
  BY VCenterAssumption
<1>2. SubSeq(s.files, 1, Len(s.files)) = s.files
  BY <1>1, SubSeqFull
<1> QED BY <1>2 DEF DatastoreListing

(* One more datastore, one more set of rows.                               *)
LEMMA RowsAdded ==
  ASSUME NEW T, NEW got \in Seq(T), NEW g, IsFiniteSet(g.files), IsFiniteSet(Rows(got))
  PROVE  /\ IsFiniteSet(Rows(Append(got, g)))
         /\ Cardinality(Rows(Append(got, g))) = Cardinality(Rows(got)) + Cardinality(g.files)
<1> DEFINE n == Len(got) + 1
           new == {n} \X g.files
<1>1. /\ Len(got) \in Nat /\ DOMAIN got = 1 .. Len(got) /\ DOMAIN Append(got, g) = 1 .. n
      /\ Append(got, g)[n] = g /\ \A i \in 1 .. Len(got) : Append(got, g)[i] = got[i]
  BY LenProperties, AppendProperties
<1>2. DOMAIN Append(got, g) = DOMAIN got \cup {n}
  BY <1>1
<1>3. Rows(Append(got, g)) = Rows(got) \cup new
  BY <1>1, <1>2 DEF Rows
<1>4. Rows(got) \cap new = {}
  <2>1. \A r \in Rows(got) : r[1] \in DOMAIN got
    BY DEF Rows
  <2>2. n \notin DOMAIN got
    BY <1>1
  <2> QED BY <2>1, <2>2
<1> HIDE DEF new, n
<1>5. IsFiniteSet(new) /\ Cardinality(new) = Cardinality(g.files)
  <2>1. IsFiniteSet({n}) /\ Cardinality({n}) = 1
    BY FS_Singleton
  <2>2. IsFiniteSet(new) /\ Cardinality(new) = 1 * Cardinality(g.files)
    BY <2>1, FS_Product DEF new
  <2> QED BY <2>2, FS_CardinalityType
<1>6. /\ IsFiniteSet(Rows(got) \cup new)
      /\ Cardinality(Rows(got) \cup new) = Cardinality(Rows(got)) + Cardinality(new) - 0
  BY <1>4, <1>5, FS_Union, FS_EmptySet
<1> QED BY <1>3, <1>5, <1>6, FS_CardinalityType

-----------------------------------------------------------------------------
(* The files: what the budget has lost is what there are rows of.          *)

FilesInv == RetrievalInv /\ FilesAccounted /\ FilesTold

LEMMA FilesFacts ==
  ASSUME FilesInv
  PROVE  RetrievalInv /\ OpShape /\ FilesAccounted /\ FilesTold
  BY InvFacts DEF FilesInv

LEMMA FilesStay ==
  ASSUME FilesInv, SameBut("files", {"expired"})
  PROVE  FilesAccounted'
<1>1. CASE op'.kind # "files"
  BY <1>1 DEF FilesAccounted
<1>2. CASE op'.kind = "files"
  <2>1. op.kind = "files" /\ op'.i = op.i /\ op'.pc = op.pc /\ op'.got = op.got /\ op'.remaining = op.remaining
    BY <1>2, FilesFacts DEF SameBut, OpShape
  <2> QED BY <1>2, <2>1, FilesFacts DEF FilesAccounted, Rows
<1> QED BY <1>1, <1>2

LEMMA OtherThanFiles ==
  ASSUME FilesInv, result' = result \/ result'.kind \notin {"files", "browse", "listing"}
  PROVE  FilesTold'
<1>1. CASE result'.kind \notin {"files", "browse", "listing"}
  BY <1>1 DEF FilesTold
<1>2. CASE result' = result
  BY <1>2, FilesFacts DEF FilesTold, Rows
<1> QED BY <1>1, <1>2

LEMMA StoresTyped ==
  /\ Len(Stores) \in Nat /\ DOMAIN Stores = 1 .. Len(Stores)
  /\ \A i \in DOMAIN Stores : Stores[i] \in ToSet(Stores)
<1>1. Len(Stores) \in Nat /\ DOMAIN Stores = 1 .. Len(Stores)
  BY VCenterAssumption, LenProperties
<1> QED BY <1>1 DEF ToSet

(* The datastore at hand has its result, and the next is at hand.          *)
LEMMA OneStoreMore ==
  ASSUME FilesInv, op.kind = "files", op.i <= Len(Stores), NEW g, NEW n,
         op'.kind = "files", op'.pc = "next", op'.i = op.i + 1, op'.got = Append(op.got, g), op'.remaining = n,
         StoreTold(g, Stores[op.i]), IsFiniteSet(g.files), n = op.remaining - Cardinality(g.files), n >= 0
  PROVE  FilesAccounted'
<1>1. /\ op.i \in 1 .. Len(Stores) + 1 /\ op.got \in Seq(ToSet(op.got)) /\ Len(op.got) = op.i - 1
      /\ \A i \in DOMAIN op.got : StoreTold(op.got[i], Stores[i])
      /\ IsFiniteSet(Rows(op.got)) /\ op.remaining \in Nat /\ Cardinality(Rows(op.got)) + op.remaining <= MaxFilesPerContext
  BY FilesFacts DEF FilesAccounted
<1>2. Len(Stores) \in Nat /\ MaxFilesPerContext \in Nat
  BY StoresTyped, RetrievalAssumption
<1>3. op'.i \in 1 .. Len(Stores) + 1
  BY <1>1, <1>2
<1>4. op.got \in Seq(ToSet(op.got) \cup {g})
  <2>1. ToSet(op.got) \subseteq ToSet(op.got) \cup {g}
    OBVIOUS
  <2> QED BY <1>1, <2>1
<1>5. /\ op'.got \in Seq(ToSet(op.got) \cup {g}) /\ Len(op'.got) = op'.i - 1
      /\ op'.got[op.i] = g /\ \A i \in 1 .. Len(op.got) : op'.got[i] = op.got[i]
  BY <1>1, <1>4, AppendProperties
<1>6. DOMAIN op.got = 1 .. (op.i - 1) /\ DOMAIN op'.got = 1 .. op.i
  BY <1>1, <1>5, LenProperties
<1>7. op'.got \in Seq(ToSet(op'.got))
  <2>1. \A i \in 1 .. Len(op'.got) : op'.got[i] \in ToSet(op'.got)
    BY <1>5, LenProperties DEF ToSet
  <2> QED BY <1>5, <2>1, IsASeq, LenProperties
<1>8. \A i \in DOMAIN op'.got : StoreTold(op'.got[i], Stores[i])
  BY <1>1, <1>5, <1>6
<1>9. IsFiniteSet(Rows(op'.got)) /\ Cardinality(Rows(op'.got)) = Cardinality(Rows(op.got)) + Cardinality(g.files)
  BY <1>1, RowsAdded
<1>10. Cardinality(Rows(op.got)) \in Nat /\ Cardinality(g.files) \in Nat
  BY <1>1, FS_CardinalityType
<1>11. n \in Nat /\ Cardinality(Rows(op'.got)) + n <= MaxFilesPerContext
  BY <1>1, <1>2, <1>9, <1>10
<1> QED BY <1>3, <1>5, <1>7, <1>8, <1>9, <1>11 DEF FilesAccounted, Rows, StoreTold

(* What a search answers is what the datastore has, or says that it is not. *)
LEMMA SearchTold ==
  ASSUME op.kind \in {"browse", "listing"}, op.i \in DOMAIN Stores, NEW ans, result' = Searched(ans)
  PROVE  FilesTold'
<1>1. Stores[op.i] \in ToSet(Stores)
  BY StoresTyped
<1>2. CASE op.kind = "browse"
  <2> DEFINE got == BrowseDatastore(Stores[op.i], ans)
  <2>1. result'.kind = "browse" /\ result'.store = op.i /\ result'.got = got
    BY <1>2 DEF Searched
  <2>3. got.status = "success" /\ ~got.truncated =>
          {f.path : f \in got.files} = {f.path : f \in {x \in ToSet(Stores[op.i].files) : x.disk /\ x.owner = ""}}
    BY <1>1, BrowseTold
  <2> HIDE DEF got
  <2>2. result'.got.status = "success" /\ ~result'.got.truncated =>
          {f.path : f \in result'.got.files} = {f.path : f \in {x \in ToSet(Stores[result'.store].files) : x.disk /\ x.owner = ""}}
    BY <2>1, <2>3
  <2> QED BY <2>1, <2>2 DEF FilesTold
<1>3. CASE op.kind = "listing"
  <2>1. /\ result'.kind = "listing" /\ result'.store = op.i /\ (result'.failed <=> ans # "ok")
        /\ ans = "ok" => result'.got = DatastoreListing(Stores[op.i].files, ListEntryCap)
    BY <1>3 DEF Searched
  <2>2. ~result'.failed /\ ~result'.got.truncated => result'.got.entries = ToSet(Stores[result'.store].files)
    BY <1>1, <2>1, ListingTold
  <2> QED BY <2>1, <2>2 DEF FilesTold
<1> QED BY <1>2, <1>3

LEMMA FileStepsKeep ==
  ASSUME FilesInv, FileStep
  PROVE  FilesAccounted' /\ FilesTold'
<1>1. OpShape /\ FilesAccounted
  BY FilesFacts
<1>2. CASE StartFiles
  <2>1. /\ op'.kind = "files" /\ op'.pc = "next" /\ op'.i = 1 /\ op'.remaining = MaxFilesPerContext /\ op'.got = <<>>
        /\ result'.kind = "none"
    BY <1>2 DEF StartFiles, Begin, Nothing
  <2>2. op'.got \in Seq(ToSet(op'.got)) /\ Len(op'.got) = 0 /\ DOMAIN op'.got = {}
    BY <2>1, EmptySeq
  <2>3. Rows(op'.got) = {}
    BY <2>2 DEF Rows
  <2>4. IsFiniteSet(Rows(op'.got)) /\ Cardinality(Rows(op'.got)) = 0
    BY <2>3, FS_EmptySet
  <2>5. op'.i \in 1 .. Len(Stores) + 1 /\ Len(op'.got) = op'.i - 1 /\ MaxFilesPerContext \in Nat
    BY <2>1, <2>2, StoresTyped, RetrievalAssumption
  <2>6. Cardinality(Rows(op'.got)) + op'.remaining <= MaxFilesPerContext /\ op'.remaining \in Nat
    BY <2>1, <2>4, <2>5
  <2>7. FilesAccounted'
    BY <2>1, <2>2, <2>4, <2>5, <2>6 DEF FilesAccounted, Rows
  <2> QED BY <2>1, <2>7, OtherThanFiles
<1>3. CASE SkipDatastore
  <2> DEFINE s == Stores[op.i]
             g == FileResult(PassedOver(s), 0, NoFiles)
  <2>1. /\ op.kind = "files" /\ op.i <= Len(Stores) /\ result' = result /\ PassedOver(s) # ""
        /\ op' = [op EXCEPT !.i = @ + 1, !.got = Append(@, g)] /\ op.pc = "next"
    BY <1>3 DEF SkipDatastore
  <2>2. /\ op'.kind = "files" /\ op'.pc = "next" /\ op'.i = op.i + 1 /\ op'.got = Append(op.got, g)
        /\ op'.remaining = op.remaining
    BY <1>1, <2>1 DEF OpShape
  <2>3. g.files = {} /\ ~g.truncated /\ g.status # "success"
    BY DEF FileResult, NoFiles, PassedOver
  <2>4. StoreTold(g, s) /\ IsFiniteSet(g.files) /\ Cardinality(g.files) = 0
    BY <2>3, FS_EmptySet DEF StoreTold
  <2> HIDE DEF g
  <2>8. op.remaining \in Nat
    BY <1>1, <2>1 DEF FilesAccounted
  <2>5. op.remaining = op.remaining - Cardinality(g.files) /\ op.remaining >= 0
    BY <2>4, <2>8
  <2>6. FilesAccounted'
    BY <2>1, <2>2, <2>4, <2>5, OneStoreMore
  <2> QED BY <2>1, <2>6, OtherThanFiles
<1>4. CASE StartSearch
  <2>1. /\ op.kind = "files" /\ op.i <= Len(Stores) /\ result' = result /\ PassedOver(Stores[op.i]) = ""
        /\ op' = [op EXCEPT !.pc = "search"]
    BY <1>4 DEF StartSearch
  <2>2. op'.kind = "files" /\ op'.pc = "search" /\ op'.i = op.i /\ op'.got = op.got /\ op'.remaining = op.remaining
    BY <1>1, <2>1 DEF OpShape
  <2>3. op.remaining > 0
    <3>1. op.remaining \in Nat
      BY <1>1, <2>1 DEF FilesAccounted
    <3>6. op.i \in 1 .. Len(Stores) + 1
      BY <1>1, <2>1 DEF FilesAccounted
    <3>2. op.i \in 1 .. Len(Stores)
      <4>1. op.i <= Len(Stores) /\ Len(Stores) \in Nat
        BY <2>1, StoresTyped
      <4> QED BY <3>6, <4>1
    <3>3. Stores[op.i] \in ToSet(Stores)
      BY <3>2, StoresTyped
    <3>4. Stores[op.i].accessible \in BOOLEAN
      BY <3>3, VCenterAssumption
    <3>5. op.remaining <= 0 => PassedOver(Stores[op.i]) # ""
      <4> SUFFICES ASSUME op.remaining <= 0 PROVE PassedOver(Stores[op.i]) # ""
        OBVIOUS
      <4>1. ~(op.remaining > 0)
        BY <3>1
      <4>2. CASE ~Stores[op.i].accessible
        <5>1. PassedOver(Stores[op.i]) = "unavailable"
          BY <4>2 DEF PassedOver
        <5> QED BY <5>1
      <4>3. CASE Stores[op.i].accessible
        <5>1. PassedOver(Stores[op.i]) = "skipped"
          BY <4>1, <4>3 DEF PassedOver
        <5> QED BY <5>1
      <4> QED BY <3>4, <4>2, <4>3
    <3>7. PassedOver(Stores[op.i]) = ""
      BY <2>1
    <3>8. ~(op.remaining <= 0)
      BY <3>5, <3>7
    <3> QED BY <3>1, <3>8
  <2>4. FilesAccounted'
    BY <1>1, <2>1, <2>2, <2>3 DEF FilesAccounted, Rows
  <2> QED BY <2>1, <2>4, OtherThanFiles
<1>5. ASSUME NEW ans, NEW kept, EndSearch(ans, kept)
      PROVE  FilesAccounted' /\ FilesTold'
  <2> DEFINE s     == Stores[op.i]
             limit == IF MaxFilesPerDatastore < op.remaining THEN MaxFilesPerDatastore ELSE op.remaining
             found == InventoryFiles(s.files, limit)
             g     == IF ans = "ok" THEN FileResult("success", limit, found) ELSE FileResult(ClassifyInventoryError(ans), limit, NoFiles)
  <2>1. /\ op.kind = "files" /\ op.pc = "search" /\ result' = result
        /\ op' = [op EXCEPT !.pc = "next", !.i = @ + 1, !.got = Append(@, g), !.remaining = @ - Cardinality(g.files)]
    BY <1>5 DEF EndSearch
  <2>2. op.i \in 1 .. Len(Stores) /\ op.remaining \in Nat /\ op.i <= Len(Stores)
    BY <1>1, <2>1, StoresTyped DEF FilesAccounted
  <2>3. /\ op'.kind = "files" /\ op'.pc = "next" /\ op'.i = op.i + 1 /\ op'.got = Append(op.got, g)
        /\ op'.remaining = op.remaining - Cardinality(g.files)
    BY <1>1, <2>1 DEF OpShape
  <2>4. limit \in Nat /\ limit <= op.remaining
    BY <2>2, RetrievalAssumption
  <2>5. s \in ToSet(Stores)
    BY <2>2, StoresTyped
  <2> HIDE DEF limit, s
  <2>6. /\ IsFiniteSet(found.files) /\ Cardinality(found.files) <= limit
        /\ ~found.truncated => found.files = PlainPaths(s)
        /\ found.truncated => Cardinality(found.files) = limit
    BY <2>4, <2>5, InventoryFilesTold
  <2> HIDE DEF found
  <2>7. StoreTold(g, s) /\ IsFiniteSet(g.files) /\ Cardinality(g.files) <= limit
    <3>1. CASE ans = "ok"
      <4>1. g.status = "success" /\ g.limit = limit /\ g.files = found.files /\ g.truncated = found.truncated
        BY <3>1 DEF FileResult
      <4> QED BY <2>6, <4>1 DEF StoreTold
    <3>2. CASE ans # "ok"
      <4>1. g.status # "success" /\ g.files = {} /\ ~g.truncated
        BY <3>2 DEF FileResult, ClassifyInventoryError, NoFiles
      <4>2. IsFiniteSet({}) /\ Cardinality({}) = 0
        BY FS_EmptySet
      <4> QED BY <2>4, <4>1, <4>2 DEF StoreTold
    <3> QED BY <3>1, <3>2
  <2> HIDE DEF g
  <2>8. op.remaining - Cardinality(g.files) >= 0
    BY <2>2, <2>4, <2>7, FS_CardinalityType
  <2>9. FilesAccounted'
    BY <2>1, <2>2, <2>3, <2>7, <2>8, OneStoreMore DEF s
  <2> QED BY <2>1, <2>9, OtherThanFiles
<1>6. CASE EndFiles
  <2>1. op.kind = "files" /\ op.i > Len(Stores) /\ op' = Idle /\ result' = [kind |-> "files", got |-> op.got]
    BY <1>6 DEF EndFiles, Finish
  <2>2. /\ op.i \in 1 .. Len(Stores) + 1 /\ op.got \in Seq(ToSet(op.got)) /\ Len(op.got) = op.i - 1
        /\ \A i \in DOMAIN op.got : StoreTold(op.got[i], Stores[i])
        /\ IsFiniteSet(Rows(op.got)) /\ op.remaining \in Nat /\ Cardinality(Rows(op.got)) + op.remaining <= MaxFilesPerContext
    BY <1>1, <2>1 DEF FilesAccounted
  <2>3. op.i = Len(Stores) + 1
    BY <2>1, <2>2, StoresTyped
  <2>4. DOMAIN op.got = DOMAIN Stores
    BY <2>2, <2>3, StoresTyped, LenProperties
  <2>5. Cardinality(Rows(op.got)) <= MaxFilesPerContext
    BY <2>2, FS_CardinalityType, RetrievalAssumption
  <2>6. result'.kind = "files" /\ result'.got = op.got
    BY <2>1
  <2>7. FilesTold'
    BY <2>2, <2>4, <2>5, <2>6 DEF FilesTold, Rows, StoreTold
  <2> QED BY <2>1, <2>7 DEF FilesAccounted, Idle
<1>7. ASSUME NEW i \in DOMAIN Stores, StartBrowse(i) \/ StartListing(i)
      PROVE  FilesAccounted' /\ FilesTold'
  <2>1. op'.kind # "files" /\ result'.kind = "none"
    BY <1>7 DEF StartBrowse, StartListing, Begin, Nothing
  <2> QED BY <2>1, OtherThanFiles DEF FilesAccounted
<1>8. ASSUME NEW ans, NEW kept, AskBrowser(ans) \/ AwaitBrowser(ans, kept)
      PROVE  FilesAccounted' /\ FilesTold'
  <2>1. op.kind \in {"browse", "listing"} /\ op.i \in DOMAIN Stores
    BY <1>1, <1>8 DEF AskBrowser, AwaitBrowser, OpShape
  <2>2. CASE op' = [op EXCEPT !.pc = "wait"] /\ result' = result
    <3>1. op'.kind # "files"
      BY <1>1, <2>1, <2>2 DEF OpShape
    <3> QED BY <2>2, <3>1, OtherThanFiles DEF FilesAccounted
  <2>3. CASE op' = Idle /\ result' = Searched(ans)
    <3>1. FilesTold'
      BY <2>1, <2>3, SearchTold
    <3> QED BY <2>3, <3>1 DEF FilesAccounted, Idle
  <2> QED BY <1>8, <2>2, <2>3 DEF AskBrowser, AwaitBrowser, Finish
<1> QED BY <1>2, <1>3, <1>4, <1>5, <1>6, <1>7, <1>8 DEF FileStep

(* A datastore that is done with is told of truly, and what the inventory  *)
(* may still take and what it has make no more than the budget.            *)
THEOREM FilesInvariant == Spec => []FilesInv
<1>1. Init => FilesInv
  <2> SUFFICES ASSUME Init PROVE FilesInv
    OBVIOUS
  <2>1. op.kind = "idle" /\ result.kind = "none"
    BY DEF Init, Idle, Nothing
  <2> QED BY <2>1, InitHolds DEF FilesInv, FilesAccounted, FilesTold
<1>2. FilesInv /\ [Next]_vars => FilesInv'
  <2> SUFFICES ASSUME FilesInv, [Next]_vars PROVE FilesInv'
    OBVIOUS
  <2>1. RetrievalInv'
    BY FilesFacts, StepHolds
  <2>2. FilesAccounted' /\ FilesTold'
    BY FilesFacts, Elsewhere, FileStepsKeep, FilesStay, OtherThanFiles
  <2> QED BY <2>1, <2>2 DEF FilesInv
<1> QED BY <1>1, <1>2, PTL DEF Spec

-----------------------------------------------------------------------------
(* The history: every task of its time is read, and shown as it ended.     *)

EventsInv == RetrievalInv /\ EventsAccounted /\ EventsTold

LEMMA EventsFacts ==
  ASSUME EventsInv
  PROVE  RetrievalInv /\ OpShape /\ EventsAccounted /\ EventsTold
  BY InvFacts DEF EventsInv

LEMMA EventsStay ==
  ASSUME EventsInv, SameBut("events", {"expired"})
  PROVE  EventsAccounted'
<1>1. CASE op'.kind # "events"
  BY <1>1 DEF EventsAccounted
<1>2. CASE op'.kind = "events"
  <2>1. /\ op.kind = "events" /\ op'.pc = op.pc /\ op'.error = op.error /\ op'.read = op.read
        /\ op'.events = op.events /\ op'.since = op.since
    BY <1>2, EventsFacts DEF SameBut, OpShape
  <2> QED BY <1>2, <2>1, EventsFacts DEF EventsAccounted
<1> QED BY <1>1, <1>2

LEMMA OtherThanEvents ==
  ASSUME EventsInv, result' = result \/ result'.kind # "events"
  PROVE  EventsTold'
<1>1. CASE result'.kind # "events"
  BY <1>1 DEF EventsTold
<1>2. CASE result' = result
  BY <1>2, EventsFacts DEF EventsTold
<1> QED BY <1>1, <1>2

LEMMA TasksTyped ==
  ASSUME NEW time
  PROVE  TasksSince(time) \in SUBSET Nat /\ TasksSince(time) \in SUBSET DOMAIN TaskLog /\ IsFiniteSet(TasksSince(time))
<1>1. DOMAIN TaskLog \in SUBSET Nat /\ IsFiniteSet(DOMAIN TaskLog)
  BY VCenterAssumption, Places
<1>2. TasksSince(time) \in SUBSET DOMAIN TaskLog
  BY DEF TasksSince
<1> QED BY <1>1, <1>2, FS_Subset

LEMMA ClassifiedShaped ==
  ASSUME NEW e
  PROVE  EventShaped(ClassifyEvent(e))
<1>1. CASE e.kind \in TaskKinds
  <2>1. ClassifyEvent(e) = [time |-> e.time, task |-> e.task, chain |-> e.chain, explains |-> Explains(e.kind),
                            minor |-> e.kind = "task" /\ ~e.error, result |-> IF e.error THEN "failed" ELSE ""]
    BY <1>1 DEF ClassifyEvent, ClassifyTask
  <2>2. EventShaped([time |-> e.time, task |-> e.task, chain |-> e.chain, explains |-> Explains(e.kind),
                     minor |-> e.kind = "task" /\ ~e.error, result |-> IF e.error THEN "failed" ELSE ""])
    BY DEF EventShaped
  <2> QED BY <2>1, <2>2
<1>2. CASE e.kind \notin TaskKinds
  <2> DEFINE minor  == ~e.failed /\ (e.kind = "other" \/ (e.kind = "ex" /\ e.severity = "info"))
             res    == IF e.failed \/ (e.kind = "ex" /\ e.severity = "error") THEN "failed" ELSE "ok"
             why    == IF e.failed THEN "" ELSE Explains(e.kind)
  <2>1. ClassifyEvent(e) = [time |-> e.time, task |-> "", chain |-> e.chain, explains |-> why, minor |-> minor, result |-> res]
    BY <1>2 DEF ClassifyEvent
  <2>2. res = "failed" => ~minor
    OBVIOUS
  <2> HIDE DEF minor, res, why
  <2>3. EventShaped([time |-> e.time, task |-> "", chain |-> e.chain, explains |-> why, minor |-> minor, result |-> res])
    BY <2>2 DEF EventShaped
  <2> QED BY <2>1, <2>3
<1> QED BY <1>1, <1>2

(* What the outcome of its task makes of an event.                         *)
LEMMA OutcomeOf ==
  ASSUME NEW ev, EventShaped(ev), NEW t
  PROVE  LET e == ApplyTaskOutcome(ev, t) IN
         /\ e.task = ev.task /\ e.chain = ev.chain /\ EventShaped(e)
         /\ t.state = "error" => e.result = "failed" /\ e.explains = ""
<1>1. CASE t.state = "success"
  BY <1>1 DEF ApplyTaskOutcome, EventShaped
<1>2. CASE t.state = "error"
  BY <1>2 DEF ApplyTaskOutcome, EventShaped
<1>3. CASE t.state # "success" /\ t.state # "error"
  BY <1>3 DEF ApplyTaskOutcome
<1> QED BY <1>1, <1>2, <1>3

(* The event that is made for a task.                                      *)
EventOf(t) == ClassifyTask([kind |-> t.kind, time |-> t.time, task |-> t.key, chain |-> t.chain, error |-> TRUE])

LEMMA MadeFor ==
  ASSUME NEW t
  PROVE  EventShaped(EventOf(t)) /\ EventOf(t).task = t.key
<1>1. EventOf(t) = [time |-> t.time, task |-> t.key, chain |-> t.chain, explains |-> Explains(t.kind), minor |-> FALSE, result |-> "failed"]
  BY DEF EventOf, ClassifyTask
<1> QED BY <1>1 DEF EventShaped

LEMMA TaskBehind ==
  ASSUME NEW ev, NEW tasks, TaskOf(ev, tasks) # {}
  PROVE  LET t == Behind(ev, tasks) IN
         /\ t \in tasks /\ (t.key = ev.task \/ (t.chain = ev.chain /\ ev.chain # 0))
         /\ \A u \in tasks : u.key = ev.task => t.key = ev.task
<1>1. Behind(ev, tasks) \in TaskOf(ev, tasks)
  BY DEF Behind
<1> QED BY <1>1 DEF TaskOf

(* Every failed task of the time covered is among the events, as a failure. *)
ShownIn(told, tasks, since) ==
    /\ \A e \in told : e.result = "failed" => ~e.minor
    /\ \A t \in tasks : t.state = "error" /\ t.time >= since =>
          /\ \E e \in told : e.result = "failed" /\ (e.task = t.key \/ (e.chain = t.chain /\ t.chain # 0))
          /\ \A e \in told : e.task = t.key => e.explains = ""

LEMMA HistoryTold ==
  ASSUME NEW events, NEW tasks, NEW since, \A e \in events : EventShaped(e),
         \A t, u \in tasks : t.key # "" /\ (t.key = u.key => t = u)
  PROVE  ShownIn(ApplyTaskHistory(events, tasks, since), tasks, since)
<1> DEFINE about   == {Behind(e, tasks) : e \in {x \in events : TaskOf(x, tasks) # {}}}
           alone   == {t \in tasks \ about : t.state = "error" /\ t.time >= since}
           shown(e) == IF TaskOf(e, tasks) = {} THEN e ELSE ApplyTaskOutcome(e, Behind(e, tasks))
           made(t)  == ApplyTaskOutcome(EventOf(t), t)
           told    == ApplyTaskHistory(events, tasks, since)
<1>1. told = {shown(e) : e \in events} \cup {made(t) : t \in alone}
  BY DEF ApplyTaskHistory, EventOf
<1>2. \A t \in about : \E x \in events : TaskOf(x, tasks) # {} /\ t = Behind(x, tasks)
  OBVIOUS
<1>3. \A t \in alone : t \in tasks /\ t.state = "error"
  OBVIOUS
<1>4. \A t \in tasks : t \notin about /\ t.state = "error" /\ t.time >= since => t \in alone
  OBVIOUS
<1>5. ASSUME NEW t \in alone
      PROVE  made(t).task = t.key /\ made(t).result = "failed" /\ made(t).explains = "" /\ EventShaped(made(t))
  <2>1. t.state = "error" /\ EventShaped(EventOf(t)) /\ EventOf(t).task = t.key
    BY <1>3, MadeFor
  <2> HIDE DEF alone
  <2>2. /\ ApplyTaskOutcome(EventOf(t), t).task = EventOf(t).task
        /\ ApplyTaskOutcome(EventOf(t), t).result = "failed" /\ ApplyTaskOutcome(EventOf(t), t).explains = ""
        /\ EventShaped(ApplyTaskOutcome(EventOf(t), t))
    BY <2>1, OutcomeOf
  <2> QED BY <2>1, <2>2
<1>6. ASSUME NEW x \in events
      PROVE  EventShaped(shown(x)) /\ shown(x).task = x.task /\ shown(x).chain = x.chain
  BY OutcomeOf
<1>7. ASSUME NEW x \in events, TaskOf(x, tasks) # {}, Behind(x, tasks).state = "error"
      PROVE  shown(x).result = "failed" /\ shown(x).explains = ""
  BY <1>7, OutcomeOf
<1> HIDE DEF about, alone, shown, made, told
<1>8. \A e \in told : (\E x \in events : e = shown(x)) \/ \E t \in alone : e = made(t)
  BY <1>1
<1>9. \A e \in told : e.result = "failed" => ~e.minor
  <2>1. \A e \in told : EventShaped(e)
    BY <1>5, <1>6, <1>8
  <2> QED BY <2>1 DEF EventShaped
<1>10. ASSUME NEW t \in tasks, t.state = "error", t.time >= since
       PROVE  \E e \in told : e.result = "failed" /\ (e.task = t.key \/ (e.chain = t.chain /\ t.chain # 0))
  <2>1. CASE t \in about
    <3>1. PICK x \in events : TaskOf(x, tasks) # {} /\ t = Behind(x, tasks)
      BY <1>2, <2>1
    <3>2. shown(x).result = "failed" /\ shown(x).task = x.task /\ shown(x).chain = x.chain
      BY <1>6, <1>7, <1>10, <3>1
    <3>3. t.key = x.task \/ (t.chain = x.chain /\ x.chain # 0)
      BY <3>1, TaskBehind
    <3>4. shown(x) \in told
      BY <1>1
    <3> QED BY <3>2, <3>3, <3>4
  <2>2. CASE t \notin about
    <3>1. t \in alone
      BY <1>4, <1>10, <2>2
    <3>2. made(t) \in told
      BY <1>1, <3>1
    <3> QED BY <1>5, <3>1, <3>2
  <2> QED BY <2>1, <2>2
<1>11. ASSUME NEW t \in tasks, t.state = "error", NEW e \in told, e.task = t.key
       PROVE  e.explains = ""
  <2>1. CASE \E u \in alone : e = made(u)
    BY <1>5, <2>1
  <2>2. ASSUME NEW x \in events, e = shown(x)
        PROVE  e.explains = ""
    <3>1. x.task = t.key /\ x.task # ""
      BY <1>6, <1>11, <2>2
    <3>2. TaskOf(x, tasks) # {}
      BY <3>1 DEF TaskOf
    <3>3. Behind(x, tasks) \in tasks /\ Behind(x, tasks).key = t.key
      BY <3>1, <3>2, TaskBehind
    <3>4. Behind(x, tasks) = t
      BY <3>3
    <3> QED BY <1>7, <1>11, <2>2, <3>2, <3>4
  <2> QED BY <1>8, <2>1, <2>2
<1> QED BY <1>9, <1>10, <1>11 DEF told, ShownIn

(* What is done with when there is no error is all there was, or as much   *)
(* as is wanted.                                                           *)
LEMMA EventStepsKeep ==
  ASSUME EventsInv, EventStep
  PROVE  EventsAccounted' /\ EventsTold'
<1>1. OpShape /\ EventsAccounted
  BY EventsFacts
<1>2. ASSUME NEW ans, ReadEvents(ans)
      PROVE  EventsAccounted' /\ EventsTold'
  <2> DEFINE raw == SubSeq(EventLog, IF Len(EventLog) > EventLimit THEN Len(EventLog) - EventLimit + 1 ELSE 1, Len(EventLog))
  <2>1. CASE op' = op /\ result' = [kind |-> "events", failed |-> TRUE]
    <3>1. EventsTold'
      BY <2>1 DEF EventsTold
    <3> QED BY <2>1, <3>1, EventsStay, NoneLeft
  <2>2. ASSUME NEW since,
               op' = [kind |-> "events", pc |-> "create", expired |-> FALSE, error |-> FALSE, read |-> {},
                      events |-> {ClassifyEvent(e) : e \in ToSet(raw)}, since |-> since],
               result' = Nothing
        PROVE  EventsAccounted' /\ EventsTold'
    <3> HIDE DEF raw
    <3>1. op'.events = {ClassifyEvent(e) : e \in ToSet(raw)} /\ op'.pc = "create" /\ op'.read = {}
      BY <2>2
    <3>2. \A e \in op'.events : EventShaped(e)
      BY <3>1, ClassifiedShaped
    <3>3. result'.kind # "events"
      BY <2>2 DEF Nothing
    <3>4. EventsAccounted'
      BY <3>1, <3>2 DEF EventsAccounted, EventShaped
    <3> QED BY <3>3, <3>4, OtherThanEvents
  <2> QED BY <1>2, <2>1, <2>2 DEF ReadEvents
<1>3. ASSUME NEW ans, CreateTaskCollector(ans)
      PROVE  EventsAccounted' /\ EventsTold'
  <2>1. op.kind = "events" /\ result' = result
        /\ (op' = [op EXCEPT !.pc = "read"] \/ op' = [op EXCEPT !.pc = "apply", !.error = TRUE])
    BY <1>3 DEF CreateTaskCollector
  <2>2. /\ op'.events = op.events /\ op'.read = op.read /\ op'.since = op.since
        /\ op'.pc = "read" \/ op'.error
    BY <1>1, <2>1 DEF OpShape
  <2>3. EventsAccounted'
    BY <1>1, <2>1, <2>2 DEF EventsAccounted
  <2> QED BY <2>1, <2>3, OtherThanEvents
<1>4. ASSUME NEW ans, ReadTasks(ans)
      PROVE  EventsAccounted' /\ EventsTold'
  <2> DEFINE left == TasksSince(op.since) \ op.read
             page == FirstOf(left, TaskPage)
             all  == op.read \cup page
  <2>1. /\ op.kind = "events" /\ result' = result
        /\ op' = IF ans = "ok"
                 THEN [op EXCEPT !.read = all, !.pc = IF page = {} \/ Cardinality(all) >= MaxTasks THEN "release" ELSE "read"]
                 ELSE [op EXCEPT !.pc = "release", !.error = TRUE]
    BY <1>4 DEF ReadTasks
  <2>2. op.read \subseteq TasksSince(op.since) /\ \A e \in op.events : EventShaped(e)
    BY <1>1, <2>1 DEF EventsAccounted
  <2>3. left \in SUBSET Nat /\ page \subseteq left
    BY TasksTyped DEF FirstOf
  <2>4. page = {} => left = {}
    BY <2>3, RetrievalAssumption, FirstOfSome
  <2>5. all \subseteq TasksSince(op.since) /\ (page = {} => all = TasksSince(op.since))
    BY <2>2, <2>3, <2>4
  <2> HIDE DEF left, page, all
  <2>6. CASE ans = "ok"
    <3>1. /\ op'.events = op.events /\ op'.since = op.since /\ op'.read = all
          /\ op'.pc = IF page = {} \/ Cardinality(all) >= MaxTasks THEN "release" ELSE "read"
      BY <1>1, <2>1, <2>6 DEF OpShape
    <3>2. op'.pc \in {"release", "apply"} => page = {} \/ Cardinality(all) >= MaxTasks
      BY <3>1
    <3>3. EventsAccounted'
      BY <2>2, <2>5, <3>1, <3>2 DEF EventsAccounted, EventShaped, TasksSince
    <3> QED BY <2>1, <3>3, OtherThanEvents
  <2>7. CASE ans # "ok"
    <3>1. op'.events = op.events /\ op'.since = op.since /\ op'.read = op.read /\ op'.error
      BY <1>1, <2>1, <2>7 DEF OpShape
    <3>2. EventsAccounted'
      BY <2>2, <3>1 DEF EventsAccounted, EventShaped, TasksSince
    <3> QED BY <2>1, <3>2, OtherThanEvents
  <2> QED BY <2>6, <2>7
<1>5. ASSUME NEW kept, DestroyTaskCollector(kept)
      PROVE  EventsAccounted' /\ EventsTold'
  <2>1. op.kind = "events" /\ op.pc = "release" /\ result' = result
        /\ op' = [op EXCEPT !.pc = "apply", !.error = @ \/ kept # {}]
    BY <1>5 DEF DestroyTaskCollector
  <2>2. /\ op'.events = op.events /\ op'.read = op.read /\ op'.since = op.since
        /\ op'.error <=> (op.error \/ kept # {})
    BY <1>1, <2>1 DEF OpShape
  <2>3. EventsAccounted'
    BY <1>1, <2>1, <2>2 DEF EventsAccounted
  <2> QED BY <2>1, <2>3, OtherThanEvents
<1>6. CASE ApplyTasks
  <2> DEFINE tasks == {TaskLog[i] : i \in op.read}
             told  == ApplyTaskHistory(op.events, tasks, op.since)
  <2>1. op.kind = "events" /\ op.pc = "apply" /\ op' = Idle
        /\ IF op.expired THEN result' = [kind |-> "events", failed |-> TRUE]
           ELSE result' = [kind |-> "events", failed |-> FALSE, error |-> op.error, since |-> op.since, events |-> told]
    BY <1>6 DEF ApplyTasks, Finish
  <2>2. EventsAccounted'
    BY <2>1 DEF EventsAccounted, Idle
  <2>3. CASE op.expired
    <3>1. result'.failed
      BY <2>1, <2>3
    <3> QED BY <2>2, <3>1 DEF EventsTold
  <2>4. CASE ~op.expired
    <3>1. result'.kind = "events" /\ (result'.error <=> op.error) /\ result'.since = op.since /\ result'.events = told
      BY <2>1, <2>4
    <3>2. /\ \A e \in op.events : EventShaped(e)
          /\ op.read \subseteq TasksSince(op.since)
          /\ ~op.error => op.read = TasksSince(op.since) \/ Cardinality(op.read) >= MaxTasks
      BY <1>1, <2>1 DEF EventsAccounted
    <3>3. \A t, u \in tasks : t.key # "" /\ (t.key = u.key => t = u)
      BY <3>2, TasksTyped, VCenterAssumption
    <3>4. ASSUME ~op.error, NEW i \in TasksSince(op.since), Cardinality(TasksSince(op.since)) < MaxTasks
          PROVE  TaskLog[i] \in tasks /\ TaskLog[i].time >= op.since
      <4>1. IsFiniteSet(TasksSince(op.since))
        BY TasksTyped
      <4>2. /\ Cardinality(op.read) \in Nat /\ Cardinality(TasksSince(op.since)) \in Nat
            /\ Cardinality(op.read) <= Cardinality(TasksSince(op.since))
        BY <3>2, <4>1, FS_Subset, FS_CardinalityType
      <4>3. ~(Cardinality(op.read) >= MaxTasks)
        BY <3>4, <4>2, RetrievalAssumption
      <4>4. op.read = TasksSince(op.since)
        BY <3>2, <3>4, <4>3
      <4> QED BY <4>4 DEF TasksSince
    <3> HIDE DEF tasks
    <3>5. ShownIn(told, tasks, op.since)
      BY <3>2, <3>3, HistoryTold
    <3> HIDE DEF told
    <3>6. EventsTold'
      <4>1. ASSUME ~op.error
            PROVE  /\ \A i \in TasksSince(op.since) :
                        TaskLog[i].state = "error" /\ Cardinality(TasksSince(op.since)) < MaxTasks =>
                           /\ \E e \in told : e.result = "failed" /\ (e.task = TaskLog[i].key \/ (e.chain = TaskLog[i].chain /\ TaskLog[i].chain # 0))
                           /\ \A e \in told : e.task = TaskLog[i].key => e.explains = ""
                   /\ \A e \in told : e.result = "failed" => ~e.minor
        BY <3>4, <3>5, <4>1 DEF ShownIn
      <4> QED BY <3>1, <4>1 DEF EventsTold, TasksSince
    <3> QED BY <2>2, <3>6
  <2> QED BY <2>3, <2>4
<1> QED BY <1>2, <1>3, <1>4, <1>5, <1>6 DEF EventStep

(* The tasks read of a history are all there are of its time, as many as   *)
(* are wanted, or it has an error, and a history that is done with says    *)
(* nothing milder of a task that failed.                                   *)
THEOREM EventsInvariant == Spec => []EventsInv
<1>1. Init => EventsInv
  <2> SUFFICES ASSUME Init PROVE EventsInv
    OBVIOUS
  <2>1. op.kind = "idle" /\ result.kind = "none"
    BY DEF Init, Idle, Nothing
  <2> QED BY <2>1, InitHolds DEF EventsInv, EventsAccounted, EventsTold
<1>2. EventsInv /\ [Next]_vars => EventsInv'
  <2> SUFFICES ASSUME EventsInv, [Next]_vars PROVE EventsInv'
    OBVIOUS
  <2>1. RetrievalInv'
    BY EventsFacts, StepHolds
  <2>2. EventsAccounted' /\ EventsTold'
    BY EventsFacts, Elsewhere, EventStepsKeep, EventsStay, OtherThanEvents
  <2> QED BY <2>1, <2>2 DEF EventsInv
<1> QED BY <1>1, <1>2, PTL DEF Spec

-----------------------------------------------------------------------------
(* Licences: no state of the operation's is needed.                        *)

LEMMA LicencesDecoded ==
  ASSUME NEW list, NEW assign, NEW blind \in BOOLEAN,
         LET got == BuildLicenseInventory([infos |-> IF blind THEN {} ELSE Licences, list |-> list, assign |-> assign,
                                           assigned |-> {[key |-> k, entity |-> "host-1"] : k \in Licences}]) IN got.status = "success"
  PROVE  LET got == BuildLicenseInventory([infos |-> IF blind THEN {} ELSE Licences, list |-> list, assign |-> assign,
                                           assigned |-> {[key |-> k, entity |-> "host-1"] : k \in Licences}]) IN got.keys = Licences
<1> DEFINE all == {[key |-> k, entity |-> "host-1"] : k \in Licences}
<1>1. {a.key : a \in all} = Licences
  <2>1. \A k \in Licences : [key |-> k, entity |-> "host-1"] \in all /\ [key |-> k, entity |-> "host-1"].key = k
    OBVIOUS
  <2>2. \A a \in all : a.key \in Licences
    OBVIOUS
  <2> QED BY <2>1, <2>2
<1> HIDE DEF all
<1> QED BY <1>1 DEF BuildLicenseInventory, all

LEMMA LicenceStepsKeep ==
  ASSUME LicenceStep
  PROVE  LicencesTold'
<1>1. PICK list, assign \in Calls, blind \in BOOLEAN : FetchLicenses(list, assign, blind)
  BY DEF LicenceStep
<1> QED BY <1>1, LicencesDecoded DEF FetchLicenses, LicencesTold

(* FetchLicenses: a list that counts as a success has every licence, also  *)
(* for an account that is shown an empty one.                              *)
THEOREM LicencesToldHolds == Spec => []LicencesTold
<1> DEFINE I == RetrievalInv /\ LicencesTold
<1>1. Init => I
  BY InitHolds DEF Init, Nothing, LicencesTold
<1>2. I /\ [Next]_vars => I'
  <2> SUFFICES ASSUME I, [Next]_vars PROVE I'
    OBVIOUS
  <2>1. RetrievalInv'
    BY InvFacts, StepHolds
  <2>2. CASE LicenceStep
    BY <2>1, <2>2, LicenceStepsKeep
  <2>3. CASE result' = result \/ result'.kind # "licences"
    BY <2>1, <2>3 DEF LicencesTold
  <2> QED BY <2>2, <2>3, Elsewhere
<1> QED BY <1>1, <1>2, PTL DEF Spec

-----------------------------------------------------------------------------
(* The VMs: what the pages have given is described as it should be.        *)

VMsInv == PagesInv /\ IndexTrue /\ VMsAccounted /\ VMsTold

LEMMA VMsFacts ==
  ASSUME VMsInv
  PROVE  PagesInv /\ RetrievalInv /\ OpShape /\ QueueTyped /\ PagesAccounted /\ IndexTrue /\ VMsAccounted /\ VMsTold
  BY PagesFacts DEF VMsInv

LEMMA TagsToldOf ==
  ASSUME NEW list, NEW def, NEW cache, NEW attached
  PROVE  LET got == TagsOf("ok", list, def, cache, attached) IN got.status = "available" => got.tags = ToSet(attached)
<1>1. \A answer : answer # "ok" => ClassifyMetadata(answer) # "available"
  BY DEF ClassifyMetadata
<1> DEFINE failing == {i \in DOMAIN attached : attached[i] \notin cache /\ def # "ok"}
<1>2. failing # {} => def # "ok"
  OBVIOUS
<1> HIDE DEF failing
<1>3. CASE list # "ok"
  BY <1>1, <1>3 DEF TagsOf
<1>4. CASE list = "ok" /\ failing # {}
  BY <1>1, <1>2, <1>4 DEF TagsOf, failing
<1>5. CASE list = "ok" /\ failing = {}
  BY <1>5 DEF TagsOf, failing
<1> QED BY <1>3, <1>4, <1>5

LEMMA AttributesToldOf ==
  ASSUME NEW needed, NEW fields, NEW values
  PROVE  LET got == AttributesOf(needed, fields, values) IN got.status = "available" => got.attrs = values
<1>1. \A answer : answer # "ok" => ClassifyMetadata(answer) # "available"
  BY DEF ClassifyMetadata
<1> QED BY <1>1 DEF AttributesOf

(* The rules of a VM are its own or those of a group it is in.             *)
LEMMA SettingsToldOf ==
  ASSUME NEW idx, NEW configs \in {<<>>, ClusterConfigs}, NEW v, NEW host, idx.by[host] = Tree[host],
         ClusterConfigFor(idx, configs, v, host) # Unknown
  PROVE  \A r \in ClusterConfigFor(idx, configs, v, host).rules : v \in r.vms \/ r.group \in VMGroups(ClusterConfigs[Tree[host].parent], v)
<1> DEFINE cfg == configs[idx.by[host].parent]
<1>1. idx.by[host].parent \in DOMAIN configs /\ ClusterConfigFor(idx, configs, v, host).rules = VMRules(cfg, v)
  BY DEF ClusterConfigFor
<1>2. configs = ClusterConfigs
  <2>1. DOMAIN <<>> = {}
    OBVIOUS
  <2> QED BY <1>1, <2>1
<1>3. cfg = ClusterConfigs[Tree[host].parent]
  BY <1>2
<1> HIDE DEF cfg
<1>4. \A r \in VMRules(cfg, v) : v \in r.vms \/ r.group \in VMGroups(cfg, v)
  BY DEF VMRules
<1> QED BY <1>1, <1>3, <1>4

LEMMA TouchedMore ==
  ASSUME NEW e, NEW touched, NEW more, touched \subseteq more, Described(e, touched)
  PROVE  Described(e, more)
  BY DEF Described

(* A VM that was decoded from an update that has all of it, or has been    *)
(* touched.                                                                *)
LEMMA PageDescribed ==
  ASSUME NEW us, NEW list, NEW def, NEW fields, NEW i \in DOMAIN us, NEW touched,
         us[i].id \in VMIds, us[i].id \notin touched => us[i].how = "enter",
         op.configs \in {<<>>, ClusterConfigs}, \A x \in DOMAIN Tree : client.idx.by[x] = Tree[x]
  PROVE  Described(NewVMs(us, list, def, fields)[i], touched)
<1> DEFINE v == us[i].id
           n == NewVM(client.idx, Content(us[i]))
           e == NewVMs(us, list, def, fields)[i]
           meta     == TagsOf("ok", list, def, client.tags, Attached[v])
           settings == IF us[i].how = "enter" THEN ClusterConfigFor(client.idx, op.configs, v, HostOf[v]) ELSE Unknown
           attrs    == AttributesOf(FieldsNeeded(us), fields, IF HasValue(us[i]) THEN {v} ELSE {})
<1>1. e = With(n, [meta |-> meta, settings |-> settings, attrs |-> attrs])
  BY DEF NewVMs
<1>2. "meta" \notin DOMAIN n /\ "settings" \notin DOMAIN n /\ "attrs" \notin DOMAIN n
  BY DEF NewVM
<1>3. e.id = v
  BY PageEntries
<1> HIDE DEF e, n, meta, settings, attrs
<1>4. e.meta = meta /\ e.settings = settings /\ e.attrs = attrs
  BY <1>1, <1>2 DEF With
<1>5. meta.status = "available" => meta.tags = ToSet(Attached[v])
  BY TagsToldOf DEF meta
<1>6. ASSUME v \notin touched
      PROVE  /\ attrs.status = "available" => attrs.attrs = {v} \cap Valued
             /\ settings # Unknown =>
                   \A r \in settings.rules : v \in r.vms \/ r.group \in VMGroups(ClusterConfigs[Tree[HostOf[v]].parent], v)
  <2>1. us[i].how = "enter"
    BY <1>6
  <2>2. (IF HasValue(us[i]) THEN {v} ELSE {}) = {v} \cap Valued
    BY <2>1 DEF HasValue, v
  <2>3. attrs.status = "available" => attrs.attrs = {v} \cap Valued
    BY <2>2, AttributesToldOf DEF attrs
  <2>4. settings = ClusterConfigFor(client.idx, op.configs, v, HostOf[v])
    BY <2>1 DEF settings
  <2>5. client.idx.by[HostOf[v]] = Tree[HostOf[v]]
    <3>1. HostOf[v] \in DOMAIN Tree
      BY VCenterAssumption
    <3> QED BY <3>1
  <2>6. settings # Unknown =>
           \A r \in settings.rules : v \in r.vms \/ r.group \in VMGroups(ClusterConfigs[Tree[HostOf[v]].parent], v)
    BY <2>4, <2>5, SettingsToldOf
  <2> QED BY <2>3, <2>6
<1> HIDE DEF v
<1> QED BY <1>3, <1>4, <1>5, <1>6 DEF Described, e

-----------------------------------------------------------------------------
(* The index.                                                              *)

LEMMA NewIndexTrue ==
  ASSUME NEW there
  PROVE  HasTree(NewIndex(With([v \in {x \in VMIds : there[x] # Gone} |-> Entity(v)], Tree), <<>>, <<>>, <<>>))
<1> DEFINE f  == [v \in {x \in VMIds : there[x] # Gone} |-> Entity(v)]
           g  == With(f, Tree)
           n  == NewIndex(g, <<>>, <<>>, <<>>)
<1>1. n.by = With(g, <<>>)
  BY DEF NewIndex
<1>2. DOMAIN f \subseteq VMIds /\ VMIds \cap DOMAIN Tree = {}
  BY VCenterAssumption
<1> HIDE DEF f
<1>3. DOMAIN g = DOMAIN f \cup DOMAIN Tree /\ \A x \in DOMAIN Tree : g[x] = Tree[x]
  BY <1>2 DEF With
<1>4. DOMAIN <<>> = {}
  OBVIOUS
<1> HIDE DEF g
<1>5. DOMAIN n.by = DOMAIN g /\ \A x \in DOMAIN g : n.by[x] = g[x]
  BY <1>1, <1>4 DEF With
<1> HIDE DEF n
<1>6. HasTree(n)
  BY <1>2, <1>3, <1>5 DEF HasTree
<1> QED BY <1>6 DEF n, g, f

(* The links of the vApps change nothing of it.                            *)
LEMMA LinkedIndexTrue ==
  ASSUME NEW idx, HasTree(idx), NEW links
  PROVE  HasTree(NewIndex(idx.by, <<>>, links, <<>>))
<1> DEFINE n == NewIndex(idx.by, <<>>, links, <<>>)
<1>1. n.by = With(idx.by, <<>>) /\ DOMAIN <<>> = {}
  BY DEF NewIndex
<1> HIDE DEF n
<1>2. DOMAIN n.by = DOMAIN idx.by /\ \A x \in DOMAIN idx.by : n.by[x] = idx.by[x]
  BY <1>1 DEF With
<1>3. HasTree(n)
  BY <1>2 DEF HasTree
<1> QED BY <1>3 DEF n

LEMMA IndexStays ==
  ASSUME IndexTrue, DOMAIN client' = DOMAIN client, client'.idx = client.idx,
         op'.kind = "vms" =>
            \/ op'.pc = "index" /\ op'.at = ""
            \/ /\ op.kind = "vms" /\ op'.at = op.at /\ op'.idx = op.idx
               /\ op'.pc # "index" => op.pc # "index"
               /\ op'.pc \in PastIndex => op.pc \in PastIndex
  PROVE  IndexTrue'
  BY DEF IndexTrue, HasIndex, HasTree, PastIndex

(* What the steps that read no VMs leave.                                  *)
LEMMA ClientLeft ==
  ASSUME IndexTrue, RetrievalInv, [Next]_vars
  PROVE  VMStep \/ (DOMAIN client' = DOMAIN client /\ client'.idx = client.idx)
<1>0. client' = client => DOMAIN client' = DOMAIN client /\ client'.idx = client.idx
  OBVIOUS
<1>1. CASE FileStep \/ EventStep \/ PerfStep \/ LicenceStep \/ ChangeStep
  BY <1>0, <1>1, FileStepLeaves, EventStepLeaves, PerfStepLeaves, LicenceStepLeaves, ChangeStepLeaves
<1>4. CASE IndexAges
  <2>1. client' = [client EXCEPT !.old = TRUE] /\ DOMAIN client = {"idx", "old", "fields", "tags"}
    BY <1>4 DEF IndexAges, IndexTrue
  <2> QED BY <2>1
<1>5. CASE Expire \/ ListVApps \/ UNCHANGED vars
  BY <1>0, <1>5 DEF Expire, ListVApps, Begin, vars
<1>6. CASE op.kind = "vapps" /\ ViewStep
  <2>1. client' = client
    BY <1>6 DEF ViewStep, MakeView, ReadView, Answer, VAppsListed
  <2> QED BY <1>0, <2>1
<1> QED BY <1>1, <1>4, <1>5, <1>6, StepKinds DEF OtherStep

(* Nothing of a read of VMs changes but what it has touched and its queue. *)
LEMMA VMsStay ==
  ASSUME VMsInv, DOMAIN client' = DOMAIN client, client'.idx = client.idx, SameBut("vms", {"expired", "queue", "touched"}),
         op'.kind = "vms" => op.touched \subseteq op'.touched
  PROVE  IndexTrue' /\ VMsAccounted'
<1>1. CASE op'.kind # "vms"
  BY <1>1, IndexStays, VMsFacts DEF VMsAccounted
<1>2. CASE op'.kind = "vms"
  <2>1. op.kind = "vms" /\ op'.pc = op.pc /\ op'.out = op.out /\ op'.failed = op.failed /\ op'.configs = op.configs
        /\ op'.at = op.at /\ op'.idx = op.idx
    BY <1>2, VMsFacts DEF SameBut, OpShape
  <2>2. \A e : Described(e, op.touched) => Described(e, op'.touched)
    BY <1>2, TouchedMore
  <2>3. VMsAccounted'
    <3>1. op.configs \in {<<>>, ClusterConfigs} /\ (op.pc \in {"pages", "close"} /\ ~op.failed => \A i \in DOMAIN op.out : Described(op.out[i], op.touched))
      BY <2>1, VMsFacts DEF VMsAccounted
    <3>2. op'.pc \in {"pages", "close"} /\ ~op'.failed => \A i \in DOMAIN op'.out : Described(op'.out[i], op'.touched)
      BY <2>1, <2>2, <3>1
    <3> QED BY <2>1, <3>1, <3>2 DEF VMsAccounted, Described
  <2> QED BY <2>1, <2>3, IndexStays, VMsFacts
<1> QED BY <1>1, <1>2

LEMMA OtherThanVMs ==
  ASSUME VMsInv, result' = result \/ result'.kind # "vms" \/ result'.failed
  PROVE  VMsTold'
<1>1. CASE result'.kind # "vms" \/ result'.failed
  BY <1>1 DEF VMsTold
<1>2. CASE result' = result
  BY <1>2, VMsFacts DEF VMsTold, Described
<1> QED BY <1>1, <1>2

-----------------------------------------------------------------------------
(* The steps of a read of VMs.                                             *)

LEMMA RetrievedVMs ==
  ASSUME VMsInv, op.kind = "vms", op.pc # "index", NEW ans, Retrieved(ans)
  PROVE  IndexTrue' /\ VMsAccounted' /\ VMsTold'
<1>1. OpShape /\ IndexTrue
  BY VMsFacts
<1>2. CASE op' = Idle /\ result' = VMsFailed /\ client' = client
  BY <1>1, <1>2, IndexStays, OtherThanVMs DEF VMsAccounted, Idle, VMsFailed
<1>3. CASE GoesOn(ans)
  <2>1. VMsAccounted' /\ VMsTold'
    BY <1>3, OtherThanVMs DEF GoesOn, VMsAccounted
  <2>2. /\ op'.kind = "vms" /\ op'.at = Following(op.at) /\ op'.idx = Indexed(ans)
        /\ op'.pc = IF op.at = "clusters" THEN "view" ELSE "make"
    BY <1>3 DEF GoesOn
  <2>3. CASE op.at = "portgroups"
    <3>1. client' = [client EXCEPT !.old = FALSE, !.idx = op.idx] /\ HasTree(op.idx)
      BY <1>1, <1>3, <2>3 DEF GoesOn, IndexTrue
    <3>2. DOMAIN client' = {"idx", "old", "fields", "tags"} /\ client'.idx = op.idx /\ HasTree(client'.idx)
      BY <1>1, <3>1 DEF IndexTrue
    <3>3. op'.at = "clusters"
      BY <2>2, <2>3 DEF Following
    <3> QED BY <2>1, <3>2, <3>3 DEF IndexTrue, HasIndex, HasTree, PastIndex, ViewNames
  <2>4. CASE op.at = "entities"
    <3>1. op'.at = "links" /\ client' = client
      BY <1>3, <2>2, <2>4 DEF GoesOn, Following
    <3>2. HasTree(op'.idx)
      BY <2>2, <2>4, NewIndexTrue DEF Indexed
    <3> QED BY <1>1, <2>1, <2>2, <2>4, <3>1, <3>2 DEF IndexTrue, HasIndex, HasTree, PastIndex, ViewNames
  <2>5. CASE op.at = "links"
    <3>1. op'.at = "portgroups" /\ client' = client /\ HasTree(op.idx)
      BY <1>1, <1>3, <2>2, <2>5 DEF GoesOn, Following, IndexTrue
    <3>2. op'.idx = op.idx \/ op'.idx = NewIndex(op.idx.by, <<>>, VAppLinks, <<>>)
      BY <2>2, <2>5 DEF Indexed
    <3>3. HasTree(op'.idx)
      BY <3>1, <3>2, LinkedIndexTrue
    <3> QED BY <1>1, <2>1, <2>2, <2>5, <3>1, <3>3 DEF IndexTrue, HasIndex, HasTree, PastIndex, ViewNames
  <2>6. CASE op.at \notin {"portgroups", "entities", "links"}
    <3>1. client' = client /\ op'.at = IF op.at = "datacenters" THEN "entities" ELSE "clusters"
      BY <1>3, <2>2, <2>6 DEF GoesOn, Following
    <3>2. CASE op.at = "datacenters"
      BY <1>1, <2>1, <2>2, <3>1, <3>2 DEF IndexTrue, HasIndex, HasTree, PastIndex, ViewNames
    <3>3. CASE op.at = "clusters"
      BY <1>1, <2>1, <2>2, <3>1, <3>3 DEF IndexTrue, HasIndex, HasTree, PastIndex, ViewNames
    <3>4. op.at \in ViewNames \ {"vapps"}
      BY <1>1 DEF IndexTrue
    <3> QED BY <2>6, <3>2, <3>3, <3>4 DEF ViewNames
  <2> QED BY <2>3, <2>4, <2>5, <2>6
<1> QED BY <1>1, <1>2, <1>3, RetrievedGives

LEMMA BeforePagesVMs ==
  ASSUME VMsInv, NEW ans, StartVMs \/ LoadIndex \/ (op.kind = "vms" /\ ViewStep) \/ OpenView(ans)
  PROVE  IndexTrue' /\ VMsAccounted' /\ VMsTold'
<1>0. IndexTrue /\ OpShape /\ VMsAccounted
  BY VMsFacts
<1>1. CASE StartVMs
  <2>1. op'.kind = "vms" /\ op'.pc = "index" /\ op'.at = "" /\ op'.configs = <<>> /\ client' = client /\ result'.kind = "none"
    BY <1>1 DEF StartVMs, Begin, Nothing
  <2> QED BY <1>0, <2>1, IndexStays, OtherThanVMs DEF VMsAccounted
<1>2. CASE LoadIndex
  <2> DEFINE at == CASE client.idx # Unknown /\ ~client.old -> "clusters"
                     [] (client.idx = Unknown \/ client.old) /\ Wanted # "" -> "datacenters"
                     [] OTHER -> "entities"
  <2>0. op' = [op EXCEPT !.pc = "make", !.at = at]
    BY <1>2 DEF LoadIndex
  <2>1. at \in {"clusters", "datacenters", "entities"} /\ (at = "clusters" => client.idx # Unknown)
    OBVIOUS
  <2> HIDE DEF at
  <2>2. op.kind = "vms" /\ result' = result /\ client' = client
    BY <1>2 DEF LoadIndex
  <2>3. op'.kind = "vms" /\ op'.pc = "make" /\ op'.at = at /\ op'.configs = op.configs
    BY <1>0, <2>0, <2>2 DEF OpShape
  <2>4. IndexTrue'
    BY <1>0, <2>1, <2>2, <2>3 DEF IndexTrue, HasIndex, HasTree, PastIndex, ViewNames
  <2>5. VMsAccounted'
    BY <1>0, <2>2, <2>3 DEF VMsAccounted
  <2> QED BY <2>2, <2>4, <2>5, OtherThanVMs
<1>3. CASE op.kind = "vms" /\ ViewStep
  <2>0. op.pc # "index"
    BY <1>3, ViewSteps
  <2>1. PICK a : ViewMade \/ Retrieved(a)
    BY <1>3, ViewSteps
  <2>2. CASE ViewMade
    <3>1. op'.kind = "vms" /\ op'.pc = "retrieve" /\ op'.at = op.at /\ op'.idx = op.idx /\ op'.configs = op.configs
          /\ client' = client /\ result' = result
      BY <1>0, <1>3, <2>2 DEF ViewMade, OpShape
    <3>2. VMsAccounted'
      BY <1>0, <1>3, <3>1 DEF VMsAccounted
    <3> QED BY <1>0, <1>3, <2>0, <3>1, <3>2, IndexStays, OtherThanVMs DEF PastIndex
  <2> QED BY <1>3, <2>0, <2>1, <2>2, RetrievedVMs
<1>4. CASE OpenView(ans)
  <2>1. op.kind = "vms" /\ op.pc = "view" /\ client' = client
    BY <1>4 DEF OpenView
  <2>2. CASE op' = Idle /\ result' = VMsFailed
    BY <1>0, <2>1, <2>2, IndexStays, OtherThanVMs DEF VMsAccounted, Idle, VMsFailed
  <2>3. CASE op' = [op EXCEPT !.pc = "collector"] /\ result' = result
    <3>1. op'.kind = "vms" /\ op'.pc = "collector" /\ op'.configs = op.configs /\ op'.at = op.at /\ op'.idx = op.idx
      BY <1>0, <2>1, <2>3 DEF OpShape
    <3>2. VMsAccounted'
      BY <1>0, <2>1, <3>1 DEF VMsAccounted
    <3> QED BY <1>0, <2>1, <2>3, <3>1, <3>2, IndexStays, OtherThanVMs DEF PastIndex
  <2> QED BY <1>4, <2>2, <2>3 DEF OpenView, Finish
<1> QED BY <1>1, <1>2, <1>3, <1>4

LEMMA OpenCollectorVMs ==
  ASSUME VMsInv, NEW ans, OpenCollector(ans)
  PROVE  IndexTrue' /\ VMsAccounted' /\ VMsTold'
<1>1. op.kind = "vms" /\ op.pc = "collector" /\ result' = result /\ client' = client /\ IndexTrue /\ OpShape /\ VMsAccounted
  BY VMsFacts DEF OpenCollector
<1>2. op.out = <<>>
  BY <1>1, VMsFacts DEF QueueTyped
<1>3. op'.kind = "vms" /\ op'.out = op.out /\ op'.configs = op.configs /\ op'.at = op.at /\ op'.idx = op.idx
  BY <1>1 DEF OpenCollector, OpShape
<1>4. DOMAIN op'.out = {}
  BY <1>2, <1>3
<1>5. VMsAccounted'
  BY <1>1, <1>3, <1>4 DEF VMsAccounted
<1> QED BY <1>1, <1>3, <1>5, IndexStays, OtherThanVMs DEF PastIndex

LEMMA ReadPageVMs ==
  ASSUME VMsInv, NEW ans, NEW list, NEW def, NEW fieldAns, ReadPage(ans, list, def, fieldAns)
  PROVE  IndexTrue' /\ VMsAccounted' /\ VMsTold'
<1> DEFINE q    == op.queue
           us   == PageOf(q)
           rest == SubSeq(q, Len(us) + 1, Len(q))
           fields == FieldDefinitions(client.fields, FieldsNeeded(us), fieldAns)
           page == NewVMs(us, list, def, fields)
<1>1. op.kind = "vms" /\ op.pc = "pages" /\ result' = result
  BY DEF ReadPage
<1>2. OpShape /\ QueueTyped /\ PagesAccounted /\ IndexTrue /\ VMsAccounted
  BY VMsFacts
<1>3. \/ op' = [op EXCEPT !.queue = rest, !.out = @ \o page, !.pc = IF rest = <<>> THEN "close" ELSE "pages"]
      \/ op' = [op EXCEPT !.pc = "close", !.failed = TRUE]
  BY DEF ReadPage, Truncated
<1>4. client' = client \/ \E tags : client' = [client EXCEPT !.fields = fields, !.tags = tags]
  BY DEF ReadPage
<1> HIDE DEF rest, page, fields
<1>5. DOMAIN client' = DOMAIN client /\ client'.idx = client.idx
  BY <1>2, <1>4 DEF IndexTrue
<1>6. op'.kind = "vms" /\ op'.configs = op.configs /\ op'.touched = op.touched /\ op'.at = op.at /\ op'.idx = op.idx
      /\ (op'.failed \/ (op'.out = op.out \o page /\ op'.failed = op.failed))
  BY <1>1, <1>2, <1>3 DEF OpShape
<1>7. IndexTrue'
  BY <1>1, <1>2, <1>5, <1>6, IndexStays DEF PastIndex
<1>8. op.configs \in {<<>>, ClusterConfigs}
  BY <1>1, <1>2 DEF VMsAccounted
<1>9. ASSUME ~op'.failed
      PROVE  \A i \in DOMAIN op'.out : Described(op'.out[i], op'.touched)
  <2>1. op'.out = op.out \o page /\ ~op.failed
    BY <1>6, <1>9
  <2>2. q \in Seq(Updates) /\ op.out \in Seq(ToSet(op.out))
    BY <1>1, <1>2 DEF QueueTyped, Updates
  <2>3. us \in Seq(Updates) /\ Len(us) <= Len(q) /\ \A i \in 1 .. Len(us) : us[i] = q[i]
    BY <2>2, PageTaken
  <2>4. \A i \in DOMAIN op.out : Described(op.out[i], op.touched)
    BY <1>1, <1>2, <2>1 DEF VMsAccounted
  <2>5. \A i \in DOMAIN q : q[i].id \notin op.touched => q[i].how = "enter"
    BY <1>1, <1>2, <2>1 DEF PagesAccounted
  <2> HIDE DEF us
  <2>6. Len(us) \in Nat /\ Len(q) \in Nat /\ DOMAIN us = 1 .. Len(us) /\ DOMAIN q = 1 .. Len(q)
    BY <2>2, <2>3, LenProperties
  <2>7. page \in Seq(ToSet(page)) /\ Len(page) = Len(us)
    BY <2>3, PageMade DEF page
  <2>8. \A i \in DOMAIN us : Described(page[i], op.touched)
    <3> SUFFICES ASSUME NEW i \in DOMAIN us PROVE Described(page[i], op.touched)
      OBVIOUS
    <3>1. us[i] = q[i] /\ i \in DOMAIN q
      BY <2>3, <2>6
    <3>2. us[i].id \in VMIds
      <4>1. us[i] \in Updates
        BY <2>3, ElementOfSeq, <2>6
      <4> QED BY <4>1 DEF Updates
    <3>3. us[i].id \notin op.touched => us[i].how = "enter"
      BY <2>5, <3>1
    <3>4. \A x \in DOMAIN Tree : client.idx.by[x] = Tree[x]
      BY <1>1, <1>2 DEF IndexTrue, HasIndex, HasTree, PastIndex
    <3> QED BY <1>8, <3>2, <3>3, <3>4, PageDescribed DEF page
  <2>9. /\ op.out \o page \in Seq(ToSet(op.out) \cup ToSet(page)) /\ Len(op.out \o page) = Len(op.out) + Len(page)
        /\ \A i \in 1 .. (Len(op.out) + Len(page)) :
              (op.out \o page)[i] = IF i <= Len(op.out) THEN op.out[i] ELSE page[i - Len(op.out)]
    BY <2>2, <2>7, PageAdded
  <2>10. Len(op.out) \in Nat /\ DOMAIN op.out = 1 .. Len(op.out) /\ DOMAIN op'.out = 1 .. (Len(op.out) + Len(us))
    BY <2>1, <2>2, <2>7, <2>9, LenProperties
  <2> SUFFICES ASSUME NEW i \in DOMAIN op'.out PROVE Described(op'.out[i], op.touched)
    BY <1>6
  <2>11. CASE i <= Len(op.out)
    BY <2>1, <2>4, <2>7, <2>9, <2>10, <2>11
  <2>12. CASE ~(i <= Len(op.out))
    <3>1. i - Len(op.out) \in DOMAIN us /\ op'.out[i] = page[i - Len(op.out)]
      BY <2>1, <2>6, <2>7, <2>9, <2>10, <2>12
    <3> QED BY <2>8, <3>1
  <2> QED BY <2>11, <2>12
<1>10. VMsAccounted'
  <2> DEFINE told == \A i \in DOMAIN op'.out : Described(op'.out[i], op'.touched)
  <2>1. op'.failed \/ told
    BY <1>9
  <2>2. op'.kind = "vms" /\ op'.configs \in {<<>>, ClusterConfigs}
    BY <1>6, <1>8
  <2> QED BY <2>1, <2>2, Zenon DEF VMsAccounted, Described
<1> QED BY <1>1, <1>7, <1>10, OtherThanVMs

LEMMA CloseVMsTold ==
  ASSUME VMsInv, NEW kept, CloseVMs(kept)
  PROVE  IndexTrue' /\ VMsAccounted' /\ VMsTold'
<1>1. op' = Idle /\ client' = client /\ op.kind = "vms" /\ op.pc = "close" /\ IndexTrue /\ VMsAccounted
  BY VMsFacts DEF CloseVMs, Finish
<1>2. IndexTrue' /\ VMsAccounted'
  BY <1>1, IndexStays DEF VMsAccounted, Idle
<1>3. CASE op.failed
  <2>1. result' = VMsFailed
    BY <1>3 DEF CloseVMs, Finish
  <2> QED BY <1>2, <2>1, OtherThanVMs DEF VMsFailed
<1>4. CASE ~op.failed
  <2>1. result'.kind = "vms" /\ result'.vms = op.out /\ result'.touched = op.touched
    BY <1>4 DEF CloseVMs, Finish
  <2>2. \A i \in DOMAIN op.out : Described(op.out[i], op.touched)
    BY <1>1, <1>4 DEF VMsAccounted
  <2>3. \A i \in DOMAIN result'.vms : Described(result'.vms[i], result'.touched)
    BY <2>1, <2>2
  <2>4. VMsTold'
    BY <2>3, Zenon DEF VMsTold, Described
  <2> QED BY <1>2, <2>4
<1> QED BY <1>3, <1>4

LEMMA VMStepsKeep ==
  ASSUME VMsInv, [Next]_vars
  PROVE  IndexTrue' /\ VMsAccounted' /\ VMsTold'
<1>0. IndexTrue /\ RetrievalInv
  BY VMsFacts
<1>1. CASE VMStep
  BY <1>1, BeforePagesVMs, OpenCollectorVMs, ReadPageVMs, CloseVMsTold DEF VMStep
<1>2. CASE ChangeStep
  <2>1. PICK v \in VMIds, to \in Folders \cup {Gone} : ChangeVM(v, to)
    BY <1>2 DEF ChangeStep
  <2>2. DOMAIN client' = DOMAIN client /\ client'.idx = client.idx /\ result' = result
    BY <2>1 DEF ChangeVM
  <2>3. CASE op' = op
    <3>1. SameBut("vms", {"expired", "queue", "touched"}) /\ op.touched \subseteq op'.touched
      BY <2>3 DEF SameBut
    <3> QED BY <2>2, <3>1, VMsStay, OtherThanVMs
  <2>4. CASE op.kind = "vms" /\ op' = [op EXCEPT !.touched = @ \cup {v}, !.queue = Announced(@, v, to)]
    <3>1. SameBut("vms", {"expired", "queue", "touched"}) /\ op.touched \subseteq op'.touched
      BY <2>4, VMsFacts DEF SameBut, OpShape
    <3> QED BY <2>2, <3>1, VMsStay, OtherThanVMs
  <2> QED BY <2>1, <2>3, <2>4 DEF ChangeVM
<1>3. CASE ~VMStep /\ ~ChangeStep
  <2>1. DOMAIN client' = DOMAIN client /\ client'.idx = client.idx
    BY <1>0, <1>3, ClientLeft
  <2>2. SameBut("vms", {"expired"}) /\ (result' = result \/ result'.kind # "vms")
    BY <1>0, <1>3, Elsewhere
  <2>3. SameBut("vms", {"expired", "queue", "touched"})
    BY <2>2 DEF SameBut
  <2>4. op'.kind = "vms" => op.touched \subseteq op'.touched
    <3> SUFFICES ASSUME op'.kind = "vms" PROVE op'.touched = op.touched
      OBVIOUS
    <3>1. op.kind = "vms" /\ "touched" \in DOMAIN op
      BY <2>2, VMsFacts DEF SameBut, OpShape
    <3> QED BY <2>2, <3>1 DEF SameBut
  <2> QED BY <2>1, <2>2, <2>3, <2>4, VMsStay, OtherThanVMs
<1> QED BY <1>1, <1>2, <1>3

(* The index a VM is decoded with has the vCenter's entities, and what the *)
(* pages have given of a VM is its own: all of its tags or a status that   *)
(* says otherwise, its attributes, its cluster's rules for it.             *)
THEOREM VMsInvariant == Spec => []VMsInv
<1>1. Init => VMsInv
  <2> SUFFICES ASSUME Init PROVE VMsInv
    OBVIOUS
  <2>1. op.kind = "idle" /\ result.kind = "none" /\ DOMAIN client = {"idx", "old", "fields", "tags"} /\ client.idx = Unknown
    BY DEF Init, Idle, Nothing
  <2>2. PagesInv
    BY <2>1, InitHolds DEF PagesInv, QueueTyped, PagesAccounted, PagesAddUp
  <2>3. IndexTrue /\ VMsAccounted /\ VMsTold
    BY <2>1 DEF IndexTrue, HasIndex, VMsAccounted, VMsTold
  <2> QED BY <2>2, <2>3 DEF VMsInv
<1>2. VMsInv /\ [Next]_vars => VMsInv'
  BY PagesStep, VMsFacts, VMStepsKeep DEF VMsInv
<1> QED BY <1>1, <1>2, PTL DEF Spec

-----------------------------------------------------------------------------

(* What was read is never passed off as more than it is: no refused,       *)
(* failed, skipped or cut off read of VMs, files, history, licences or     *)
(* samples looks whole.                                                    *)
THEOREM ReadsTellTruthHolds == Spec => []ReadsTellTruth
<1>1. VMsInv /\ FilesInv /\ EventsInv /\ LicencesTold /\ SamplesTold => ReadsTellTruth
  BY DEF VMsInv, FilesInv, EventsInv, ReadsTellTruth
<1> QED BY <1>1, VMsInvariant, FilesInvariant, EventsInvariant, LicencesToldHolds, SamplesToldHolds, PTL

=============================================================================
