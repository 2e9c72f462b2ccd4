------------------------ MODULE InventoryLoadProofs ------------------------
(***************************************************************************)
(* What is proved of InventoryLoad for every value of its constants, a     *)
(* name saved again while its old loads still run (QuickReadd) included.   *)
(***************************************************************************)
EXTENDS InventoryLoad, FiniteSetTheorems, TLAPS

(* A contextState whose rows are all of the vCenter it points at.          *)
Good(s) ==
    /\ s \in ContextStates
    /\ \A g \in Groups : s.inv[g] # None => s.inv[g].conn = s.cc.conn

(* The inductive invariant.  It says nothing of the messages in flight:    *)
(* whatever they carry, Matches keeps out those of another vCenter.        *)
IsEdit(e) == DOMAIN e = {"what", "cc", "res"} /\ e.cc \in Configs

FreshInv ==
    /\ st # None => Good(st)
    /\ conf \in Configs \cup {None}
    /\ nextId \in Nat
    /\ \A e \in edits : IsEdit(e)

LEMMA NoneIsNotGood == ~Good(None)
BY NoneAssumption DEF Good

-----------------------------------------------------------------------------
(* A step that leaves the configuration and the rows of s alone.           *)
LEMMA SameRows ==
    ASSUME NEW s, Good(s), NEW t \in ContextStates, t.cc = s.cc, t.inv = s.inv
    PROVE  Good(t)
BY DEF Good

(* A context starts with no rows (newContextState).                        *)
LEMMA NewIsGood ==
    ASSUME NEW cc \in Configs
    PROVE  Good(newContextState(cc))
BY DEF Good, ContextStates, newContextState

(* The number of messages outstanding, changed with a flag or two.         *)
LEMMA Recounted ==
    ASSUME NEW s \in ContextStates, NEW x \in Int
    PROVE  /\ [s EXCEPT !.outstanding = x] \in ContextStates
           /\ [s EXCEPT !.outstanding = x, !.err = TRUE] \in ContextStates
           /\ [s EXCEPT !.outstanding = x, !.hasInv = TRUE] \in ContextStates
           /\ [s EXCEPT !.outstanding = x, !.awaitingPriority = FALSE] \in ContextStates
           /\ [s EXCEPT !.awaitingPriority = FALSE, !.outstanding = x] \in ContextStates
           /\ [s EXCEPT !.err = FALSE, !.outstanding = x, !.awaitingPriority = TRUE] \in ContextStates
<1>1. [s EXCEPT !.outstanding = x] \in ContextStates
  BY DEF ContextStates
<1>2. [s EXCEPT !.outstanding = x, !.err = TRUE] \in ContextStates
  BY DEF ContextStates
<1>3. [s EXCEPT !.outstanding = x, !.hasInv = TRUE] \in ContextStates
  BY DEF ContextStates
<1>4. [s EXCEPT !.outstanding = x, !.awaitingPriority = FALSE] \in ContextStates
  BY DEF ContextStates
<1>5. [s EXCEPT !.awaitingPriority = FALSE, !.outstanding = x] \in ContextStates
  BY DEF ContextStates
<1>6. [s EXCEPT !.err = FALSE, !.outstanding = x, !.awaitingPriority = TRUE] \in ContextStates
  BY DEF ContextStates
<1> QED BY <1>1, <1>2, <1>3, <1>4, <1>5, <1>6

(* Beginning a load (beginLoad) touches neither rows nor configuration.    *)
LEMMA LoadingFields ==
    ASSUME NEW s \in ContextStates, NEW n \in Nat,
           NEW a \in BOOLEAN, NEW p \in BOOLEAN, NEW l \in BOOLEAN
    PROVE  [s EXCEPT !.loading = TRUE, !.gen = n, !.attempted = TRUE, !.allow = a,
                     !.prompted = p, !.loggedOut = l, !.outstanding = 1,
                     !.awaitingPriority = FALSE] \in ContextStates
<1> DEFINE t == [s EXCEPT !.loading = TRUE, !.gen = n, !.attempted = TRUE, !.allow = a]
           u == [t EXCEPT !.prompted = p, !.loggedOut = l]
<1>1. t \in ContextStates
  BY DEF ContextStates
<1> HIDE DEF t
<1>2. u \in ContextStates
  BY <1>1 DEF ContextStates
<1> HIDE DEF u
<1>3. [u EXCEPT !.outstanding = 1, !.awaitingPriority = FALSE] \in ContextStates
  <2> DEFINE x == 1
  <2>1. x \in Int
    OBVIOUS
  <2> HIDE DEF x
  <2>2. [u EXCEPT !.outstanding = x, !.awaitingPriority = FALSE] \in ContextStates
    BY <1>2, <2>1, Recounted
  <2> QED BY <2>2 DEF x
<1> QED BY <1>3 DEF t, u

LEMMA LoadingIsGood ==
    ASSUME NEW s, Good(s), NEW by
    PROVE  Good(Loading(s, by))
<1>1. Loading(s, by) \in ContextStates
  <2> DEFINE p == s.prompted /\ by = "timer"
             l == s.loggedOut /\ by = "timer"
             a == (by = "key")
             n == s.gen + 1
  <2>1. s \in ContextStates /\ n \in Nat
    BY DEF Good, ContextStates
  <2>2. p \in BOOLEAN /\ l \in BOOLEAN /\ a \in BOOLEAN
    OBVIOUS
  <2>3. Loading(s, by) = [s EXCEPT !.loading = TRUE, !.gen = n, !.attempted = TRUE, !.allow = a,
                                   !.prompted = p, !.loggedOut = l, !.outstanding = 1,
                                   !.awaitingPriority = FALSE]
    BY DEF Loading
  <2> HIDE DEF p, l, a, n
  <2>4. [s EXCEPT !.loading = TRUE, !.gen = n, !.attempted = TRUE, !.allow = a,
                  !.prompted = p, !.loggedOut = l, !.outstanding = 1,
                  !.awaitingPriority = FALSE] \in ContextStates
    BY <2>1, <2>2, LoadingFields
  <2> QED BY <2>3, <2>4
<1>2. Loading(s, by).cc = s.cc /\ Loading(s, by).inv = s.inv
  BY DEF Good, ContextStates, Loading
<1> QED BY <1>1, <1>2, SameRows

(* beginLoad as an action, whatever asks for it.                           *)
LEMMA BeginLoadIsGood ==
    ASSUME NEW s, Good(s), NEW force, NEW by, NEW others,
           beginLoad(s, force, by, others)
    PROVE  Good(st')
BY LoadingIsGood DEF beginLoad

(* An edit keeps rows only if they are of the vCenter the context points   *)
(* at afterwards (reset and syncContexts).                                 *)
LEMMA SyncedIsGood ==
    ASSUME FreshInv, conf # None
    PROVE  Good(Synced)
<1>1. CASE st = None
  BY <1>1, NewIsGood DEF Synced, FreshInv
<1>2. CASE st # None /\ st.cc.conn # conf.conn
  <2> DEFINE i == [g \in Groups |-> None]
             n == st.gen + 1
             t == [st EXCEPT !.inv = i, !.hasInv = FALSE, !.loaded = {}, !.err = FALSE,
                             !.attempted = FALSE, !.prompted = FALSE, !.allow = FALSE,
                             !.gen = n, !.cc = conf]
  <2>1. Synced = t
    BY <1>2 DEF Synced, Reset, FreshInv, Good, ContextStates
  <2>2. st \in ContextStates /\ n \in Nat /\ conf \in Configs
    BY <1>2 DEF FreshInv, Good, ContextStates, Synced
  <2>3. i \in [Groups -> [conn: Conns, gen: Nat] \cup {None}] /\ \A g \in Groups : i[g] = None
    OBVIOUS
  <2> HIDE DEF i, n
  <2>4. t \in ContextStates /\ t.inv = i
    BY <2>2, <2>3 DEF ContextStates
  <2> QED BY <2>1, <2>3, <2>4 DEF Good
<1>3. CASE st # None /\ st.cc.conn = conf.conn
  <2>1. Synced = [st EXCEPT !.cc = conf] /\ conf \in Configs
    BY <1>3 DEF Synced, FreshInv
  <2> QED BY <1>3, <2>1 DEF FreshInv, Good, ContextStates
<1> QED BY <1>1, <1>2, <1>3

(* syncContexts drops only a name the backend no longer has.               *)
LEMMA SyncedIsSome ==
    ASSUME FreshInv
    PROVE  Synced = None <=> conf = None
BY SyncedIsGood, NoneIsNotGood DEF Synced

(* dropStraggler throws the message's rows away.                           *)
LEMMA DropStragglerIsGood ==
    ASSUME Good(st), NEW c, DropStraggler(c)
    PROVE  Good(st')
<1>1. CASE st' = Loading(st, "key")
  BY <1>1, LoadingIsGood
<1>2. CASE st' = [st EXCEPT !.outstanding = @ - 1]
  BY <1>2 DEF Good, ContextStates
<1> QED BY <1>1, <1>2 DEF DropStraggler

(* finishLoad keeps the rows.                                              *)
LEMMA FinishIsGood ==
    ASSUME NEW s, Good(s)
    PROVE  Good(FinishLoad(s))
BY DEF Good, ContextStates, FinishLoad

(* The result of a fetch that matches is of the vCenter st points at.      *)
LEMMA GroupResultsAreGood ==
    ASSUME Good(st), NEW c, c.what \in Groups, Matches(c), NEW s \in GroupResults(c)
    PROVE  Good(s)
<1> DEFINE failed == [st EXCEPT !.outstanding = @ - 1, !.hasInv = TRUE]
<1>1. Good(failed)
  <2>1. st \in ContextStates
    BY DEF Good
  <2>2. failed \in ContextStates
    <3>1. st.outstanding - 1 \in Int
      BY <2>1 DEF ContextStates
    <3> QED BY <2>1, <3>1, Recounted
  <2>3. failed.cc = st.cc /\ failed.inv = st.inv
    BY <2>1 DEF ContextStates
  <2> QED BY <2>2, <2>3, SameRows
<1>2. failed.cc = c.cc
  BY DEF Good, ContextStates, Matches
<1>4. c.gen = failed.gen
  BY DEF Good, ContextStates, Matches
<1>3. CASE s = [failed EXCEPT !.inv[c.what] = Read(c), !.loaded = @ \cup {c.what}]
  <2> HIDE DEF failed
  <2>1. failed \in ContextStates /\ Read(c) \in [conn: Conns, gen: Nat] /\ Read(c).conn = failed.cc.conn
    BY <1>1, <1>2, <1>4 DEF Good, ContextStates, Configs, Read
  <2>2. /\ s \in ContextStates /\ s.cc = failed.cc
        /\ s.inv = [failed.inv EXCEPT ![c.what] = Read(c)]
    BY <1>3, <2>1 DEF ContextStates
  <2> QED BY <1>1, <2>1, <2>2 DEF Good, ContextStates
<1> QED BY <1>1, <1>3 DEF GroupResults

-----------------------------------------------------------------------------
(* The fan-out: every group but the one that was read first.               *)
LEMMA FanOutSize ==
    ASSUME NEW g
    PROVE  /\ Cardinality(Groups \ {g}) \in Nat
           /\ g \in Groups => /\ Cardinality(Groups \ {g}) = Cardinality(Groups) - 1
                             /\ Cardinality(Groups \ {g}) > 0
<1>1. IsFiniteSet(Groups) /\ Cardinality(Groups) > 1 /\ Cardinality(Groups) \in Nat
  BY GroupsAssumption, FS_CardinalityType
<1>2. IsFiniteSet(Groups \ {g})
  BY <1>1, FS_Subset
<1> QED BY <1>1, <1>2, FS_RemoveElement, FS_CardinalityType

(* applyBeginInventory keeps the rows, or throws the message away.         *)
LEMMA BeginLandsIsGood ==
    ASSUME Good(st), st # None, NEW c, BeginLands(c)
    PROVE  Good(st')
<1>1. CASE st # None /\ DropStraggler(c)
  BY <1>1, DropStragglerIsGood
<1>2. CASE st # None /\ st' = FinishLoad([st EXCEPT !.outstanding = @ - 1, !.err = TRUE])
  <2> DEFINE t == [st EXCEPT !.outstanding = @ - 1, !.err = TRUE]
  <2>0. Good(st) /\ st \in ContextStates
    BY <1>2 DEF Good
  <2>1. t \in ContextStates
    <3>1. st.outstanding - 1 \in Int
      BY <2>0 DEF ContextStates
    <3> QED BY <2>0, <3>1, Recounted
  <2>2. t.cc = st.cc /\ t.inv = st.inv
    BY <2>0 DEF ContextStates
  <2>3. Good(t)
    BY <2>0, <2>1, <2>2, SameRows
  <2> QED BY <1>2, <2>3, FinishIsGood
<1>3. CASE st # None /\ st' = [st EXCEPT !.err = FALSE, !.outstanding = 1, !.awaitingPriority = TRUE]
  <2>0. Good(st) /\ st \in ContextStates
    BY <1>3 DEF Good
  <2>1. st' \in ContextStates
    <3> DEFINE x == 1
    <3>1. x \in Int /\ st' = [st EXCEPT !.err = FALSE, !.outstanding = x, !.awaitingPriority = TRUE]
      BY <1>3
    <3> HIDE DEF x
    <3> QED BY <2>0, <3>1, Recounted
  <2>2. st'.cc = st.cc /\ st'.inv = st.inv
    BY <1>3, <2>0 DEF ContextStates
  <2> QED BY <2>0, <2>1, <2>2, SameRows
<1> QED BY <1>1, <1>2, <1>3 DEF BeginLands

(* applyGroup: the rows that matches brings are of the right vCenter.      *)
LEMMA GroupLandsIsGood ==
    ASSUME Good(st), st # None, NEW c, GroupLands(c)
    PROVE  Good(st')
<1>1. CASE st # None /\ DropStraggler(c)
  BY <1>1, DropStragglerIsGood
<1>2. ASSUME st # None, Matches(c), NEW s \in GroupResults(c),
             st' = [s EXCEPT !.awaitingPriority = FALSE, !.outstanding = Cardinality(FanOut(c))]
      PROVE  Good(st')
  <2>1. Good(s) /\ s \in ContextStates
    BY <1>2, GroupResultsAreGood DEF Good, GroupLands
  <2>2. Cardinality(FanOut(c)) \in Nat
    BY FanOutSize DEF FanOut
  <2>3. st' \in ContextStates
    <3> DEFINE x == Cardinality(FanOut(c))
    <3>1. x \in Int /\ st' = [s EXCEPT !.awaitingPriority = FALSE, !.outstanding = x]
      BY <1>2, <2>2
    <3> HIDE DEF x
    <3>2. [s EXCEPT !.awaitingPriority = FALSE, !.outstanding = x] \in ContextStates
      BY <2>1, <3>1, Recounted
    <3> QED BY <3>1, <3>2
  <2>4. st'.cc = s.cc /\ st'.inv = s.inv
    BY <1>2, <2>1 DEF ContextStates
  <2> QED BY <2>1, <2>3, <2>4, SameRows
<1>3. ASSUME st # None, Matches(c), NEW s \in GroupResults(c),
             st' = IF s.outstanding > 0 THEN s ELSE FinishLoad(s)
      PROVE  Good(st')
  <2>1. Good(s)
    BY <1>3, GroupResultsAreGood DEF GroupLands
  <2> QED BY <1>3, <2>1, FinishIsGood
<1> QED BY <1>1, <1>2, <1>3 DEF GroupLands

(* applyGroupPage.                                                         *)
LEMMA PageLandsIsGood ==
    ASSUME Good(st), st # None, NEW p, PageLands(p)
    PROVE  Good(st')
<1>1. CASE st # None /\ Matches(p) /\ st' = [st EXCEPT !.hasInv = TRUE, !.inv[p.what] = Read(p)]
  <2>0. /\ Good(st) /\ st \in ContextStates
        /\ Read(p) \in [conn: Conns, gen: Nat] /\ Read(p).conn = st.cc.conn
    BY <1>1 DEF Good, ContextStates, Configs, Matches, Read
  <2>1. /\ st' \in ContextStates /\ st'.cc = st.cc
        /\ st'.inv = [st.inv EXCEPT ![p.what] = Read(p)]
    BY <1>1, <2>0 DEF ContextStates
  <2> QED BY <2>0, <2>1 DEF Good, ContextStates
<1> QED BY <1>1 DEF PageLands

(* Every step keeps the rows those of the vCenter the context points at.   *)
LEMMA FreshStep ==
    ASSUME FreshInv, [Next]_vars
    PROVE  FreshInv'
<1> DEFINE Edited == /\ conf' \in Configs \cup {None} /\ nextId' \in Nat
                     /\ \A e \in edits' : IsEdit(e)
<1> SUFFICES /\ st' # None => Good(st')
             /\ Edited
  BY DEF FreshInv
<1>00. Edited
  <2>0. UNCHANGED <<conf, nextId, edits>> => Edited
    BY DEF FreshInv
  <2>1. CASE FormSave
    <3>1. PICK conn \in Conns :
             edits' = edits \cup {[what |-> "save", cc |-> [id |-> nextId, conn |-> conn], res |-> "running"]}
      BY <2>1 DEF FormSave
    <3>2. nextId' = nextId + 1 /\ conf' = conf
      BY <2>1 DEF FormSave
    <3> QED BY <3>1, <3>2 DEF FreshInv, Configs, IsEdit
  <2>2. CASE Delete
    <3>1. /\ edits' = edits \cup {[what |-> "remove", cc |-> [id |-> nextId, conn |-> st.cc.conn], res |-> "running"]}
          /\ nextId' = nextId + 1 /\ conf' = conf /\ st # None
      BY <2>2 DEF Delete
    <3>2. st.cc.conn \in Conns
      BY <3>1 DEF FreshInv, Good, ContextStates, Configs
    <3> QED BY <3>1, <3>2 DEF FreshInv, Configs, IsEdit
  <2>3. ASSUME NEW e \in edits, NEW res, Done(e, res) PROVE \A d \in edits' : IsEdit(d)
    <3>1. edits' = (edits \ {e}) \cup {[e EXCEPT !.res = res]}
      BY <2>3 DEF Done
    <3>2. IsEdit([e EXCEPT !.res = res])
      BY DEF FreshInv, IsEdit
    <3> QED BY <3>1, <3>2 DEF FreshInv
  <2>4. ASSUME NEW e \in edits, SaveContext(e) PROVE Edited
    <3>1. /\ \E res : Done(e, res)
          /\ conf' = conf \/ conf' = e.cc
          /\ nextId' = nextId
      BY <2>4 DEF SaveContext
    <3> QED BY <2>3, <3>1 DEF FreshInv, IsEdit
  <2>5. ASSUME NEW e \in edits, RemoveContext(e) PROVE Edited
    <3>1. /\ \E res : Done(e, res)
          /\ conf' = None
          /\ nextId' = nextId
      BY <2>5 DEF RemoveContext
    <3> QED BY <2>3, <3>1 DEF FreshInv
  <2>6. ASSUME NEW e \in edits, ApplyFormSave(e) \/ ApplyFormDelete(e) PROVE Edited
    BY <2>6 DEF ApplyFormSave, ApplyFormDelete, FreshInv
  <2>7. ASSUME UNCHANGED editVars PROVE Edited
    BY <2>0, <2>7 DEF editVars
  <2>8. CASE Select \/ Reload \/ RefreshTick \/ LogoutKey \/ AnswerPrompt
    BY <2>7, <2>8 DEF Select, Reload, RefreshTick, LogoutKey, AnswerPrompt
  <2>9. CASE OpenForm \/ FormCancel
    BY <2>0, <2>9 DEF OpenForm, FormCancel
  <2>10. ASSUME NEW c \in cmds, CommandStep(c) \/ AskPassword(c) PROVE Edited
    BY <2>7, <2>10, Zenon DEF CommandStep, BeginRuns, PromptTimesOut, BeginLands, GroupLands, AskPassword
  <2>11. ASSUME NEW p \in streams, PageLands(p) \/ StreamEnds(p) PROVE Edited
    BY <2>7, <2>11, Zenon DEF PageLands, StreamEnds
  <2>12. ASSUME NEW l \in logouts, LogoutRuns(l) \/ applyLogout(l) PROVE Edited
    BY <2>7, <2>12, Zenon DEF LogoutRuns, applyLogout
  <2>13. CASE UNCHANGED vars
    BY <2>0, <2>13 DEF vars
  <2> QED
    BY <2>1, <2>2, <2>4, <2>5, <2>6, <2>8, <2>9, <2>10, <2>11, <2>12, <2>13, Zenon DEF Next, EditStep
<1> HIDE DEF Edited
<1> SUFFICES ASSUME st' # None PROVE Good(st')
  BY <1>00
<1>0. ASSUME st' = st PROVE Good(st')
  BY <1>0 DEF FreshInv
<1>1. CASE Select \/ Reload
  BY <1>1, BeginLoadIsGood DEF Select, Reload, ensureSelectedLoaded, FreshInv
<1>2. CASE RefreshTick
  BY <1>2, BeginLoadIsGood DEF RefreshTick, FreshInv
<1>3. ASSUME NEW l \in logouts, applyLogout(l) PROVE Good(st')
  <2>1. CASE st' = [st EXCEPT !.loggedOut = TRUE, !.err = FALSE] /\ st # None
    BY <2>1 DEF FreshInv, Good, ContextStates
  <2> QED BY <1>0, <1>3, <2>1 DEF applyLogout
<1>4. ASSUME NEW c \in cmds, AskPassword(c) PROVE Good(st')
  <2>1. CASE st' = [st EXCEPT !.prompted = TRUE] /\ st # None
    BY <2>1 DEF FreshInv, Good, ContextStates
  <2> QED BY <1>0, <1>4, <2>1 DEF AskPassword
<1>5. ASSUME NEW c \in cmds, BeginLands(c) PROVE Good(st')
  <2>1. CASE st = None
    BY <1>0, <1>5, <2>1, Zenon DEF BeginLands
  <2> QED BY <1>5, <2>1, BeginLandsIsGood DEF FreshInv
<1>6. ASSUME NEW c \in cmds, GroupLands(c) PROVE Good(st')
  <2>1. CASE st = None
    BY <1>0, <1>6, <2>1, Zenon DEF GroupLands
  <2> QED BY <1>6, <2>1, GroupLandsIsGood DEF FreshInv
<1>7. ASSUME NEW p \in streams, PageLands(p) PROVE Good(st')
  <2>1. CASE st = None
    BY <1>0, <1>7, <2>1, Zenon DEF PageLands
  <2> QED BY <1>7, <2>1, PageLandsIsGood DEF FreshInv
<1>8. ASSUME NEW e \in edits, ApplyFormSave(e) PROVE Good(st')
  <2>1. CASE Synced # None /\ ensureSelectedLoaded(Synced, TRUE, cmds)
    BY <2>1, SyncedIsGood, SyncedIsSome, BeginLoadIsGood DEF ensureSelectedLoaded
  <2> QED BY <1>0, <1>8, <2>1 DEF ApplyFormSave
<1>9. ASSUME NEW e \in edits, ApplyFormDelete(e) PROVE Good(st')
  BY <1>9, SyncedIsGood, SyncedIsSome DEF ApplyFormDelete
<1>10. CASE LogoutKey \/ AnswerPrompt \/ OpenForm \/ FormCancel \/ FormSave \/ Delete
  BY <1>0, <1>10 DEF LogoutKey, AnswerPrompt, OpenForm, FormCancel, FormSave, Delete, loadVars
<1>11. ASSUME NEW c \in cmds, BeginRuns(c) \/ PromptTimesOut(c) PROVE Good(st')
  BY <1>0, <1>11 DEF BeginRuns, PromptTimesOut
<1>12. ASSUME NEW p \in streams, StreamEnds(p) PROVE Good(st')
  BY <1>0, <1>12 DEF StreamEnds
<1>13. ASSUME NEW l \in logouts, LogoutRuns(l) PROVE Good(st')
  BY <1>0, <1>13 DEF LogoutRuns, loadVars
<1>14. ASSUME NEW e \in edits, SaveContext(e) \/ RemoveContext(e) PROVE Good(st')
  BY <1>0, <1>14 DEF SaveContext, RemoveContext, loadVars
<1>15. CASE UNCHANGED vars
  BY <1>0, <1>15 DEF vars
<1> QED
  BY <1>1, <1>2, <1>3, <1>4, <1>5, <1>6, <1>7, <1>8, <1>9, <1>10, <1>11, <1>12, <1>13, <1>14, <1>15
  DEF Next, CommandStep, EditStep

LEMMA InitIsFresh == Init => FreshInv
<1> DEFINE s == newContextState([id |-> 1, conn |-> CHOOSE c \in Conns : TRUE])
<1>1. [id |-> 1, conn |-> CHOOSE c \in Conns : TRUE] \in Configs
  BY ConnsAssumption DEF Configs
<1>2. Good(s) /\ s.cc \in Configs
  BY <1>1, NewIsGood DEF Good, ContextStates
<1>3. Init => conf = s.cc /\ st = Loading(s, "startup") /\ edits = {} /\ nextId = 2
  BY DEF Init
<1> HIDE DEF s
<1> QED BY <1>2, <1>3, LoadingIsGood DEF FreshInv

(* No row on screen is of a vCenter the context no longer points at,       *)
(* however many edits, removals and loads overlap and however late their   *)
(* messages are: what syncContexts, applyGroup and applyGroupPage rely on. *)
THEOREM NoStaleDataHolds == Spec => []NoStaleData
<1>1. Init => FreshInv
  BY InitIsFresh
<1>2. FreshInv /\ [Next]_vars => FreshInv'
  BY FreshStep
<1>3. FreshInv => NoStaleData
  BY DEF FreshInv, Good, NoStaleData
<1> QED BY <1>1, <1>2, <1>3, PTL DEF Spec

-----------------------------------------------------------------------------
(* How much is in flight: OneLoad and OutstandingExact, of a state s of    *)
(* the context and the commands C.                                         *)
CommandFields == {"what", "cc", "gen", "by", "res"}

OneLoadIn(C) ==
    /\ IsFiniteSet(C)
    /\ \A c \in C : DOMAIN c = CommandFields /\ c.what \in {"begin"} \cup Groups
    /\ \A c, d \in C : c # d => c.what # d.what /\ c.what # "begin"

Counted(s, C) ==
    /\ OneLoadIn(C)
    /\ s # None =>
        /\ s.outstanding \in Nat
        /\ s.loading => s.outstanding = Cardinality(C) /\ s.outstanding > 0
        /\ ~s.loading => C = {}
        /\ s.loading /\ s.awaitingPriority => s.outstanding = 1
        /\ s.loading /\ s.allow => \A c \in C : c.what = "begin" => c.by = "key"

CountInv ==
    /\ Counted(st, cmds)
    /\ (conf # None /\ st = None) => cmds = {}
    /\ OnlyKeysPrompt

LEMMA CountInvIs == CountInv <=> OneLoad /\ LoadsAccounted
BY DEF CountInv, Counted, OneLoadIn, CommandFields, OneLoad, LoadsAccounted, OutstandingExact

(* What does not touch the bookkeeping.                                    *)
LEMMA SameCount ==
    ASSUME NEW s, NEW t, NEW C, Counted(s, C), s # None,
           t.outstanding = s.outstanding, t.loading = s.loading,
           t.awaitingPriority = s.awaitingPriority, t.allow => s.allow
    PROVE  Counted(t, C)
BY DEF Counted

(* With no commands in flight.                                             *)
LEMMA NoneInFlight ==
    ASSUME NEW s, s # None => s.outstanding \in Nat /\ ~s.loading
    PROVE  Counted(s, {})
BY FS_EmptySet DEF Counted, OneLoadIn

(* One command in flight.                                                  *)
LEMMA OneInFlight ==
    ASSUME NEW s, NEW c, DOMAIN c = CommandFields, c.what \in {"begin"} \cup Groups,
           s.outstanding = 1, s.loading, s.allow /\ c.what = "begin" => c.by = "key"
    PROVE  Counted(s, {c})
<1>1. IsFiniteSet({c}) /\ Cardinality({c}) = 1
  BY FS_Singleton
<1> QED BY <1>1 DEF Counted, OneLoadIn

LEMMA CommandIs ==
    ASSUME NEW s, NEW what, NEW by
    PROVE  /\ DOMAIN Command(s, what, by) = CommandFields
           /\ Command(s, what, by).what = what /\ Command(s, what, by).by = by
BY DEF Command, CommandFields

LEMMA LoadingIs ==
    ASSUME NEW s, Good(s), NEW by
    PROVE  LET t == Loading(s, by)
           IN  /\ t.loading = TRUE /\ t.outstanding = 1 /\ t.awaitingPriority = FALSE
               /\ t.allow = (by = "key")
BY DEF Loading, Good, ContextStates

(* beginLoad, when nothing is in flight.                                   *)
LEMMA LoadingCounts ==
    ASSUME NEW s, Good(s), NEW by
    PROVE  Counted(Loading(s, by), {Command(Loading(s, by), "begin", by)})
<1> DEFINE t == Loading(s, by)
           c == Command(t, "begin", by)
<1>1. DOMAIN c = CommandFields /\ c.what = "begin" /\ c.by = by
  BY CommandIs
<1>2. t.loading = TRUE /\ t.outstanding = 1 /\ t.allow = (by = "key")
  BY LoadingIs
<1> HIDE DEF t, c
<1>3. Counted(t, {c})
  BY <1>1, <1>2, OneInFlight
<1> QED BY <1>3 DEF t, c

LEMMA BeginLoadCounts ==
    ASSUME NEW s, Good(s), s # None, Counted(s, cmds), NEW force, NEW by,
           beginLoad(s, force, by, cmds)
    PROVE  Counted(st', cmds')
<1>1. CASE Starts(s, force) /\ st' = Loading(s, by)
           /\ cmds' = cmds \cup {Command(Loading(s, by), "begin", by)}
  <2>1. cmds = {}
    BY <1>1 DEF Starts, Counted
  <2>2. cmds' = {Command(Loading(s, by), "begin", by)}
    BY <1>1, <2>1
  <2> QED BY <1>1, <2>2, LoadingCounts
<1>2. CASE st' = s /\ cmds' = cmds
  BY <1>2
<1> QED BY <1>1, <1>2 DEF beginLoad

(* A command that ends stays in flight until it has been heard from.       *)
LEMMA EndedCounts ==
    ASSUME NEW s, Counted(s, cmds), NEW c \in cmds, NEW res
    PROVE  Counted(s, Ended(c, res))
<1> DEFINE e == [c EXCEPT !.res = res]
<1>1. DOMAIN e = CommandFields /\ e.what = c.what /\ e.by = c.by
  BY DEF Counted, OneLoadIn, CommandFields
<1> HIDE DEF e
<1>2. \A d \in cmds \ {c} : d.what # c.what /\ d.what # "begin" /\ c.what # "begin"
  BY DEF Counted, OneLoadIn
<1>3. e \notin cmds \ {c}
  BY <1>1, <1>2
<1>4. IsFiniteSet(cmds \ {c}) /\ Cardinality(cmds \ {c}) = Cardinality(cmds) - 1
  BY FS_RemoveElement DEF Counted, OneLoadIn
<1>5. /\ IsFiniteSet((cmds \ {c}) \cup {e})
      /\ Cardinality((cmds \ {c}) \cup {e}) = Cardinality(cmds \ {c}) + 1
  BY <1>3, <1>4, FS_AddElement
<1>6. Cardinality(cmds) \in Nat
  BY FS_CardinalityType DEF Counted, OneLoadIn
<1>7. Cardinality((cmds \ {c}) \cup {e}) = Cardinality(cmds)
  BY <1>4, <1>5, <1>6
<1>8. OneLoadIn((cmds \ {c}) \cup {e})
  BY <1>1, <1>2, <1>5 DEF Counted, OneLoadIn
<1>9. s # None => s.loading
  BY DEF Counted
<1> QED BY <1>1, <1>7, <1>8, <1>9 DEF Counted, Ended, e

(* A message that has been heard from.                                     *)
LEMMA HeardFrom ==
    ASSUME OneLoadIn(cmds), NEW c \in cmds
    PROVE  /\ OneLoadIn(cmds \ {c})
           /\ Cardinality(cmds \ {c}) = Cardinality(cmds) - 1
           /\ Cardinality(cmds) \in Nat /\ Cardinality(cmds) > 0
           /\ Cardinality(cmds) <= 1 => cmds \ {c} = {}
           /\ c.what = "begin" => cmds \ {c} = {}
<1>1. IsFiniteSet(cmds \ {c}) /\ Cardinality(cmds \ {c}) = Cardinality(cmds) - 1
  BY FS_RemoveElement DEF OneLoadIn
<1>2. Cardinality(cmds) \in Nat /\ Cardinality(cmds \ {c}) \in Nat
  BY <1>1, FS_CardinalityType DEF OneLoadIn
<1>3. Cardinality(cmds) <= 1 => cmds \ {c} = {}
  BY <1>1, <1>2, FS_EmptySet
<1> QED BY <1>1, <1>2, <1>3 DEF OneLoadIn

LEMMA DropStragglerCounts ==
    ASSUME Good(st), st # None, Counted(st, cmds), NEW c \in cmds, DropStraggler(c)
    PROVE  Counted(st', cmds')
<1>1. st.loading /\ st.outstanding = Cardinality(cmds) /\ OneLoadIn(cmds)
  BY DEF Counted
<1>2. CASE st.outstanding > 1 /\ st' = [st EXCEPT !.outstanding = @ - 1] /\ cmds' = cmds \ {c}
  <2>1. /\ st'.outstanding = st.outstanding - 1 /\ st'.loading = st.loading
        /\ st'.awaitingPriority = st.awaitingPriority /\ st'.allow = st.allow
    BY <1>2 DEF Good, ContextStates
  <2> QED BY <1>1, <1>2, <2>1, HeardFrom DEF Counted
<1>3. CASE /\ st.outstanding <= 1
           /\ st' = Loading(st, "key")
           /\ cmds' = (cmds \ {c}) \cup {Command(Loading(st, "key"), "begin", "key")}
  <2>1. cmds' = {Command(Loading(st, "key"), "begin", "key")}
    BY <1>1, <1>3, HeardFrom
  <2> QED BY <1>3, <2>1, LoadingCounts
<1> QED BY <1>2, <1>3 DEF DropStraggler

(* applyBeginInventory.                                                    *)
LEMMA BeginLandsCounts ==
    ASSUME Good(st), st # None, Counted(st, cmds), NEW c \in cmds, BeginLands(c)
    PROVE  Counted(st', cmds')
<1>1. c.what = "begin" /\ cmds \ {c} = {}
  BY HeardFrom DEF BeginLands, Counted
<1>2. st.loading /\ st.outstanding = 1
  BY <1>1, HeardFrom, FS_EmptySet DEF Counted, OneLoadIn
<1>3. CASE DropStraggler(c)
  BY <1>3, DropStragglerCounts
<1>4. CASE st' = FinishLoad([st EXCEPT !.outstanding = @ - 1, !.err = TRUE]) /\ cmds' = cmds \ {c}
  <2>1. st'.loading = FALSE /\ st'.outstanding = 0
    BY <1>2, <1>4 DEF Good, ContextStates, FinishLoad
  <2>2. cmds' = {}
    BY <1>1, <1>4
  <2>3. st'.outstanding \in Nat /\ ~st'.loading
    BY <2>1
  <2>4. Counted(st', {})
    BY <2>3, NoneInFlight
  <2> QED BY <2>2, <2>4
<1>5. ASSUME st' = [st EXCEPT !.err = FALSE, !.outstanding = 1, !.awaitingPriority = TRUE],
             NEW g \in Groups, cmds' = (cmds \ {c}) \cup Fetches({g})
      PROVE  Counted(st', cmds')
  <2> DEFINE f == Command(st, g, "fetch")
  <2>1. cmds' = {f}
    BY <1>1, <1>5 DEF Fetches
  <2>2. DOMAIN f = CommandFields /\ f.what = g /\ g # "begin"
    BY CommandIs, GroupsAssumption
  <2>3. st'.outstanding = 1 /\ st'.loading
    BY <1>2, <1>5 DEF Good, ContextStates
  <2> HIDE DEF f
  <2> QED BY <2>1, <2>2, <2>3, OneInFlight
<1> QED BY <1>3, <1>4, <1>5 DEF BeginLands

(* The fetches of the other groups.                                        *)
LEMMA FetchesCount ==
    ASSUME NEW gs \in SUBSET Groups
    PROVE  /\ OneLoadIn(Fetches(gs)) /\ Cardinality(Fetches(gs)) = Cardinality(gs)
           /\ \A c \in Fetches(gs) : c.what # "begin"
<1> DEFINE f == [g \in gs |-> Command(st, g, "fetch")]
<1>1. \A g \in gs : f[g].what = g /\ DOMAIN f[g] = CommandFields
  BY CommandIs
<1>2. Fetches(gs) = {f[g] : g \in gs}
  BY DEF Fetches
<1> HIDE DEF f
<1>3. f \in Bijection(gs, Fetches(gs))
  <2>1. f \in [gs -> Fetches(gs)]
    BY <1>2 DEF f, Fetches
  <2>2. \A a, b \in gs : f[a] = f[b] => a = b
    BY <1>1
  <2>3. \A c \in Fetches(gs) : \E g \in gs : f[g] = c
    BY <1>2
  <2> QED BY <2>1, <2>2, <2>3 DEF Bijection, Injection, Surjection, IsInjective
<1>4. IsFiniteSet(gs)
  BY GroupsAssumption, FS_Subset
<1>5. IsFiniteSet(Fetches(gs)) /\ Cardinality(Fetches(gs)) = Cardinality(gs)
  BY <1>3, <1>4, FS_Bijection DEF ExistsBijection
<1>6. \A c \in Fetches(gs) : DOMAIN c = CommandFields /\ c.what \in Groups /\ c.what # "begin"
  BY <1>1, <1>2, GroupsAssumption
<1>7. \A c, d \in Fetches(gs) : c # d => c.what # d.what
  BY <1>1, <1>2
<1> QED BY <1>5, <1>6, <1>7 DEF OneLoadIn

(* applyGroup.                                                             *)
LEMMA GroupLandsCounts ==
    ASSUME Good(st), st # None, Counted(st, cmds), NEW c \in cmds, GroupLands(c)
    PROVE  Counted(st', cmds')
<1>1. /\ st.loading /\ st.outstanding = Cardinality(cmds) /\ OneLoadIn(cmds)
      /\ Cardinality(cmds) \in Nat /\ Cardinality(cmds) > 0
  BY HeardFrom DEF Counted
<1>2. st.awaitingPriority \/ st.outstanding <= 1 => cmds \ {c} = {}
  <2>1. st.awaitingPriority => Cardinality(cmds) <= 1
    BY <1>1 DEF Counted
  <2> QED BY <1>1, <2>1, HeardFrom
<1>3. CASE DropStraggler(c)
  BY <1>3, DropStragglerCounts
<1>4. ASSUME NEW s \in GroupResults(c)
      PROVE  /\ s.loading = st.loading /\ s.outstanding = st.outstanding - 1
             /\ s.awaitingPriority = st.awaitingPriority /\ s.allow = st.allow
             /\ {"loading", "outstanding", "awaitingPriority", "allow"} \subseteq DOMAIN s
  BY DEF GroupResults, Good, ContextStates
<1>5. ASSUME NEW s \in GroupResults(c), st.awaitingPriority,
             st' = [s EXCEPT !.awaitingPriority = FALSE, !.outstanding = Cardinality(FanOut(c))],
             cmds' = (cmds \ {c}) \cup Fetches(FanOut(c))
      PROVE  Counted(st', cmds')
  <2>1. c.what \in Groups /\ FanOut(c) \in SUBSET Groups
    BY DEF GroupLands, FanOut
  <2>2. Cardinality(FanOut(c)) \in Nat /\ Cardinality(FanOut(c)) > 0
    BY <2>1, FanOutSize DEF FanOut
  <2>3. /\ st'.loading /\ st'.awaitingPriority = FALSE /\ st'.outstanding = Cardinality(FanOut(c))
    BY <1>1, <1>4, <1>5
  <2>4. cmds' = Fetches(FanOut(c))
    BY <1>2, <1>5
  <2> QED BY <2>1, <2>2, <2>3, <2>4, FetchesCount DEF Counted
<1>6. ASSUME NEW s \in GroupResults(c), ~st.awaitingPriority, s.outstanding > 0
      PROVE  Counted(s, cmds \ {c})
  <2>1. /\ OneLoadIn(cmds \ {c}) /\ Cardinality(cmds \ {c}) = Cardinality(cmds) - 1
    BY <1>1, HeardFrom
  <2>2. /\ s.loading /\ s.outstanding = Cardinality(cmds) - 1
        /\ ~s.awaitingPriority /\ s.allow = st.allow
    BY <1>1, <1>4, <1>6
  <2> QED BY <1>1, <1>6, <2>1, <2>2 DEF Counted
<1>7. ASSUME NEW s \in GroupResults(c), ~(s.outstanding > 0)
      PROVE  Counted(FinishLoad(s), cmds \ {c})
  <2>1. s.outstanding = Cardinality(cmds) - 1
    BY <1>1, <1>4
  <2>2. s.outstanding \in Nat /\ cmds \ {c} = {}
    BY <1>1, <1>2, <1>7, <2>1
  <2>3. FinishLoad(s).loading = FALSE /\ FinishLoad(s).outstanding = s.outstanding
    BY <1>4 DEF FinishLoad
  <2> QED BY <2>2, <2>3, NoneInFlight
<1>8. ASSUME NEW s \in GroupResults(c), ~st.awaitingPriority, cmds' = cmds \ {c},
             st' = IF s.outstanding > 0 THEN s ELSE FinishLoad(s)
      PROVE  Counted(st', cmds')
  BY <1>6, <1>7, <1>8
<1> QED BY <1>3, <1>5, <1>8 DEF GroupLands

(* syncContexts keeps the books of the load in flight.                     *)
LEMMA SyncedCounts ==
    ASSUME FreshInv, CountInv, Synced # None
    PROVE  Counted(Synced, cmds)
<1>1. CASE st = None
  <2>1. conf # None /\ Synced = newContextState(conf) /\ cmds = {}
    BY <1>1 DEF Synced, CountInv
  <2>2. Synced.outstanding = 0 /\ Synced.loading = FALSE
    BY <2>1 DEF newContextState
  <2> QED BY <2>1, <2>2, NoneInFlight
<1>2. CASE st # None
  <2>1. /\ Synced.outstanding = st.outstanding /\ Synced.loading = st.loading
        /\ Synced.awaitingPriority = st.awaitingPriority /\ (Synced.allow => st.allow)
    BY <1>2 DEF Synced, Reset, FreshInv, Good, ContextStates
  <2> QED BY <1>2, <2>1, SameCount DEF CountInv
<1> QED BY <1>1, <1>2

LEMMA CountStep ==
    ASSUME ~QuickReadd, FreshInv, CountInv, [Next]_vars
    PROVE  CountInv'
<1> DEFINE Books == Counted(st', cmds') /\ ((conf' # None /\ st' = None) => cmds' = {})
           Asked == prompt' # None => prompt'.by = "key"
<1> SUFFICES Books /\ Asked
  BY DEF CountInv, OnlyKeysPrompt, Counted, OneLoadIn, CommandFields
<1>0. /\ Counted(st, cmds) /\ (conf # None /\ st = None => cmds = {})
      /\ (prompt # None => prompt.by = "key") /\ (st # None => Good(st))
  BY DEF CountInv, OnlyKeysPrompt, FreshInv
<1>a. ASSUME UNCHANGED <<st, cmds>>, conf' = conf PROVE Books
  BY <1>0, <1>a
<1>b. ASSUME UNCHANGED prompt PROVE Asked
  BY <1>0, <1>b
<1>c. ASSUME NEW c \in cmds, st = None, st' = st, cmds' = cmds \ {c}, conf' = conf PROVE Books
  BY <1>0, <1>c, HeardFrom DEF Counted
<1>d. ASSUME st # None, st' # None, Counted(st', cmds') PROVE Books
  BY <1>d
<1>e. ASSUME NEW c \in cmds, NEW res, cmds' = Ended(c, res), st' = st, conf' = conf PROVE Books
  BY <1>0, <1>e, EndedCounts

<1>1. CASE Select \/ Reload
  <2>1. st # None /\ UNCHANGED <<conf, prompt>> /\ \E f \in BOOLEAN : ensureSelectedLoaded(st, f, cmds)
    BY <1>1 DEF Select, Reload, editVars
  <2>2. \E f : beginLoad(st, f, "key", cmds)
    BY <2>1 DEF ensureSelectedLoaded
  <2>3. Counted(st', cmds') /\ Good(st')
    BY <1>0, <2>1, <2>2, BeginLoadCounts, BeginLoadIsGood
  <2>4. Books
    BY <1>d, <2>1, <2>3, NoneIsNotGood
  <2> QED BY <1>b, <2>1, <2>4
<1>2. CASE RefreshTick
  <2>1. st # None /\ UNCHANGED <<conf, prompt>> /\ beginLoad(st, TRUE, "timer", cmds)
    BY <1>2 DEF RefreshTick, editVars
  <2>2. Counted(st', cmds') /\ Good(st')
    BY <1>0, <2>1, BeginLoadCounts, BeginLoadIsGood
  <2>3. Books
    BY <1>d, <2>1, <2>2, NoneIsNotGood
  <2> QED BY <1>b, <2>1, <2>3
<1>3. ASSUME NEW l \in logouts, applyLogout(l) PROVE Books /\ Asked
  <2>1. UNCHANGED <<cmds, conf, prompt>>
    BY <1>3 DEF applyLogout, editVars
  <2>2. CASE st' = st
    BY <1>a, <1>b, <2>1, <2>2
  <2>3. CASE st # None /\ st' = [st EXCEPT !.loggedOut = TRUE, !.err = FALSE]
    <3>1. /\ st'.outstanding = st.outstanding /\ st'.loading = st.loading
          /\ st'.awaitingPriority = st.awaitingPriority /\ st'.allow = st.allow
          /\ st' \in ContextStates
      BY <1>0, <2>3 DEF Good, ContextStates
    <3>2. st' # None
      BY <3>1, NoneAssumption
    <3>3. Counted(st', cmds)
      BY <1>0, <2>3, <3>1, SameCount
    <3> QED BY <1>b, <1>d, <2>1, <2>3, <3>2, <3>3
  <2> QED BY <1>3, <2>2, <2>3 DEF applyLogout
<1>4. ASSUME NEW c \in cmds, AskPassword(c) PROVE Books /\ Asked
  <2>1. conf' = conf /\ c.what = "begin"
    BY <1>4 DEF AskPassword, editVars
  <2>2. CASE st # None /\ st.loading
    <3>1. st' = [st EXCEPT !.prompted = TRUE]
      BY <1>4, <2>2 DEF AskPassword
    <3>2. /\ st'.outstanding = st.outstanding /\ st'.loading = st.loading
          /\ st'.awaitingPriority = st.awaitingPriority /\ st'.allow = st.allow
          /\ st' \in ContextStates
      BY <1>0, <2>2, <3>1 DEF Good, ContextStates
    <3>3. st' # None
      BY <3>2, NoneAssumption
    <3>4. CASE st.allow /\ prompt' = c /\ cmds' = cmds
      <4>1. c.by = "key"
        BY <1>0, <2>1, <2>2, <3>4 DEF Counted
      <4>2. Counted(st', cmds')
        BY <1>0, <2>2, <3>2, <3>4, SameCount
      <4> QED BY <1>d, <2>2, <3>3, <3>4, <4>1, <4>2
    <3>5. CASE prompt' = None /\ cmds' = Ended(c, "error")
      <4>1. Counted(st, cmds')
        BY <1>0, <3>5, EndedCounts
      <4>2. Counted(st', cmds')
        BY <2>2, <3>2, <4>1, SameCount
      <4> QED BY <1>d, <2>2, <3>3, <3>5, <4>2
    <3> QED BY <1>4, <2>2, <3>4, <3>5 DEF AskPassword
  <2>3. CASE ~(st # None /\ st.loading)
    <3>1. st' = st /\ prompt' = None /\ cmds' = Ended(c, "error")
      BY <1>4, <2>3, Zenon DEF AskPassword
    <3> QED BY <1>e, <2>1, <3>1
  <2> QED BY <2>2, <2>3
<1>5. ASSUME NEW c \in cmds, BeginLands(c) PROVE Books /\ Asked
  <2>1. conf' = conf /\ prompt' = prompt
    BY <1>5 DEF BeginLands, editVars
  <2>2. CASE st = None
    <3>1. st' = st /\ cmds' = cmds \ {c}
      BY <1>5, <2>2, Zenon DEF BeginLands
    <3> QED BY <1>b, <1>c, <2>1, <2>2, <3>1
  <2>3. CASE st # None
    <3>1. Counted(st', cmds')
      BY <1>0, <1>5, <2>3, BeginLandsCounts
    <3>2. st' # None
      BY <1>0, <1>5, <2>3, BeginLandsIsGood, NoneIsNotGood
    <3> QED BY <1>b, <1>d, <2>1, <2>3, <3>1, <3>2
  <2> QED BY <2>2, <2>3
<1>6. ASSUME NEW c \in cmds, GroupLands(c) PROVE Books /\ Asked
  <2>1. conf' = conf /\ prompt' = prompt
    BY <1>6 DEF GroupLands, editVars
  <2>2. CASE st = None
    <3>1. st' = st /\ cmds' = cmds \ {c}
      BY <1>6, <2>2, Zenon DEF GroupLands
    <3> QED BY <1>b, <1>c, <2>1, <2>2, <3>1
  <2>3. CASE st # None
    <3>1. Counted(st', cmds')
      BY <1>0, <1>6, <2>3, GroupLandsCounts
    <3>2. st' # None
      BY <1>0, <1>6, <2>3, GroupLandsIsGood, NoneIsNotGood
    <3> QED BY <1>b, <1>d, <2>1, <2>3, <3>1, <3>2
  <2> QED BY <2>2, <2>3
<1>7. ASSUME NEW p \in streams, PageLands(p) PROVE Books /\ Asked
  <2>1. conf' = conf /\ prompt' = prompt /\ cmds' = cmds
    BY <1>7 DEF PageLands, editVars
  <2>2. CASE st' = st
    BY <1>a, <1>b, <2>1, <2>2
  <2>3. CASE st # None /\ st' = [st EXCEPT !.hasInv = TRUE, !.inv[p.what] = Read(p)]
    <3>1. /\ st'.outstanding = st.outstanding /\ st'.loading = st.loading
          /\ st'.awaitingPriority = st.awaitingPriority /\ st'.allow = st.allow
      BY <1>0, <2>3 DEF Good, ContextStates
    <3>2. st' # None
      BY <1>0, <1>7, <2>3, PageLandsIsGood, NoneIsNotGood
    <3>3. Counted(st', cmds)
      BY <1>0, <2>3, <3>1, SameCount
    <3> QED BY <1>b, <1>d, <2>1, <2>3, <3>2, <3>3
  <2> QED BY <1>7, <2>2, <2>3 DEF PageLands
<1>8. ASSUME NEW c \in cmds, BeginRuns(c) PROVE Books /\ Asked
  <2>1. st' = st /\ prompt' = prompt /\ conf' = conf /\ \E res : cmds' = Ended(c, res)
    BY <1>8 DEF BeginRuns, editVars
  <2> QED BY <1>b, <1>e, <2>1
<1>9. ASSUME NEW c \in cmds, PromptTimesOut(c) PROVE Books /\ Asked
  <2>1. st' = st /\ prompt' = prompt /\ conf' = conf /\ cmds' = Ended(c, "error")
    BY <1>9 DEF PromptTimesOut, editVars
  <2> QED BY <1>b, <1>e, <2>1
<1>10. CASE AnswerPrompt
  <2>1. st' = st /\ prompt' = None /\ conf' = conf
    BY <1>10 DEF AnswerPrompt, editVars
  <2>2. CASE cmds' = cmds
    BY <1>a, <2>1, <2>2
  <2>3. CASE prompt \in cmds /\ cmds' = Ended(prompt, "error")
    BY <1>e, <2>1, <2>3
  <2> QED BY <1>10, <2>1, <2>2, <2>3 DEF AnswerPrompt
<1>11. ASSUME NEW e \in edits, ApplyFormSave(e) PROVE Books /\ Asked
  <2>1. conf' = conf /\ prompt' = prompt
    BY <1>11 DEF ApplyFormSave
  <2>2. CASE UNCHANGED <<st, cmds>>
    BY <1>a, <1>b, <2>1, <2>2
  <2>3. CASE Synced = None /\ st' = None /\ cmds' = cmds
    <3>1. conf = None
      BY <2>3, SyncedIsSome
    <3>2. Counted(None, cmds)
      BY <1>0 DEF Counted
    <3> QED BY <1>b, <2>1, <2>3, <3>1, <3>2
  <2>4. CASE Synced # None /\ ensureSelectedLoaded(Synced, TRUE, cmds)
    <3>1. Counted(Synced, cmds) /\ Good(Synced)
      BY <2>4, SyncedCounts, SyncedIsGood, SyncedIsSome
    <3>2. \E f : beginLoad(Synced, f, "key", cmds)
      BY <2>4 DEF ensureSelectedLoaded
    <3>3. Counted(st', cmds') /\ Good(st')
      BY <2>4, <3>1, <3>2, BeginLoadCounts, BeginLoadIsGood
    <3>4. Books
      BY <3>3, NoneIsNotGood
    <3> QED BY <1>b, <2>1, <3>4
  <2> QED BY <1>11, <2>2, <2>3, <2>4 DEF ApplyFormSave
<1>12. ASSUME NEW e \in edits, ApplyFormDelete(e) PROVE Books /\ Asked
  <2>1. conf' = conf /\ prompt' = prompt /\ st' = Synced /\ cmds' = cmds
    BY <1>12 DEF ApplyFormDelete
  <2>2. CASE Synced = None
    <3>1. conf = None
      BY <2>2, SyncedIsSome
    <3>2. Counted(None, cmds)
      BY <1>0 DEF Counted
    <3> QED BY <1>b, <2>1, <2>2, <3>1, <3>2
  <2>3. CASE Synced # None
    BY <1>b, <2>1, <2>3, SyncedCounts
  <2> QED BY <2>2, <2>3
<1>13. ASSUME NEW e \in edits, SaveContext(e) PROVE Books /\ Asked
  <2>1. UNCHANGED <<st, cmds, prompt>>
    BY <1>13 DEF SaveContext, loadVars
  <2>2. conf = None => cmds = {}
    BY <1>13 DEF SaveContext
  <2> QED BY <1>0, <1>b, <2>1, <2>2
<1>14. ASSUME NEW e \in edits, RemoveContext(e) PROVE Books /\ Asked
  <2>1. UNCHANGED <<st, cmds, prompt>> /\ conf' = None
    BY <1>14 DEF RemoveContext, loadVars
  <2> QED BY <1>0, <1>b, <2>1
<1>15. CASE LogoutKey \/ OpenForm \/ FormCancel \/ FormSave \/ Delete
  <2>1. UNCHANGED <<st, cmds, conf, prompt>>
    BY <1>15 DEF LogoutKey, OpenForm, FormCancel, FormSave, Delete, loadVars, editVars
  <2> QED BY <1>a, <1>b, <2>1
<1>16. ASSUME NEW p \in streams, StreamEnds(p) PROVE Books /\ Asked
  <2>1. UNCHANGED <<st, cmds, conf, prompt>>
    BY <1>16 DEF StreamEnds, editVars
  <2> QED BY <1>a, <1>b, <2>1
<1>17. ASSUME NEW l \in logouts, LogoutRuns(l) PROVE Books /\ Asked
  <2>1. UNCHANGED <<st, cmds, conf, prompt>>
    BY <1>17 DEF LogoutRuns, loadVars, editVars
  <2> QED BY <1>a, <1>b, <2>1
<1>18. CASE UNCHANGED vars
  BY <1>a, <1>b, <1>18 DEF vars
<1> HIDE DEF Books, Asked
<1> QED
  BY <1>1, <1>2, <1>3, <1>4, <1>5, <1>6, <1>7, <1>8, <1>9, <1>10, <1>11, <1>12, <1>13, <1>14,
     <1>15, <1>16, <1>17, <1>18, Zenon
  DEF Next, CommandStep, EditStep

(* The context's own count of what is in flight is exact, and no load the  *)
(* operator did not begin opens the password overlay, as long as a removed *)
(* name is not saved again while its commands still run (beginLoad,        *)
(* dropStraggler, finishLoad, the credRequestMsg case of Update).          *)
THEOREM LoadsAccountedHolds ==
    ASSUME ~QuickReadd
    PROVE  Spec => []LoadsAccounted
<1>1. Init => FreshInv
  BY InitIsFresh
<1>2. Init => CountInv
  <2> DEFINE s == newContextState([id |-> 1, conn |-> CHOOSE c \in Conns : TRUE])
  <2>1. [id |-> 1, conn |-> CHOOSE c \in Conns : TRUE] \in Configs
    BY ConnsAssumption DEF Configs
  <2>2. Good(s)
    BY <2>1, NewIsGood
  <2>3. Init => /\ st = Loading(s, "startup") /\ prompt = None
                /\ cmds = {Command(Loading(s, "startup"), "begin", "startup")}
    BY DEF Init
  <2> HIDE DEF s
  <2>4. Good(Loading(s, "startup")) /\ Loading(s, "startup") # None
    BY <2>2, LoadingIsGood, NoneIsNotGood
  <2>5. Init => Counted(st, cmds) /\ st # None
    BY <2>2, <2>3, <2>4, LoadingCounts
  <2> QED BY <2>3, <2>5 DEF CountInv, OnlyKeysPrompt
<1>3. FreshInv /\ CountInv /\ [Next]_vars => FreshInv' /\ CountInv'
  BY FreshStep, CountStep
<1>4. CountInv => LoadsAccounted
  BY CountInvIs
<1> QED BY <1>1, <1>2, <1>3, <1>4, PTL DEF Spec

-----------------------------------------------------------------------------
(* Generations.  No row is younger than the load its context is in, and a  *)
(* step from s to t replaces no row by an older one.                       *)
Older(s) == \A g \in Groups : s.inv[g] # None => s.inv[g].gen <= s.gen

Forward(s, t) ==
    \A g \in Groups :
        (s.inv[g] # None /\ t.inv[g] # None) => s.inv[g].gen <= t.inv[g].gen

AgesInv == st # None => Older(st)

LEMMA KeptRows ==
    ASSUME NEW s, Good(s), Older(s), NEW t, Good(t), t.inv = s.inv, t.gen \in {s.gen, s.gen + 1}
    PROVE  Older(t) /\ Forward(s, t)
<1>1. \A g \in Groups : s.inv[g] # None => s.inv[g].gen \in Nat
  BY DEF Good, ContextStates
<1>2. s.gen \in Nat
  BY DEF Good, ContextStates
<1> QED BY <1>1, <1>2 DEF Older, Forward

LEMMA NoRows ==
    ASSUME NEW t, \A g \in Groups : t.inv[g] = None
    PROVE  Older(t) /\ \A s : Forward(s, t)
BY DEF Older, Forward

(* A row of the load the context is in.                                    *)
LEMMA NewRow ==
    ASSUME NEW s, Good(s), Older(s), NEW t, NEW g0, NEW r, r.gen = s.gen, t.gen = s.gen,
           t.inv = [s.inv EXCEPT ![g0] = r]
    PROVE  Older(t) /\ Forward(s, t)
<1>1. s.inv \in [Groups -> [conn: Conns, gen: Nat] \cup {None}] /\ s.gen \in Nat
  BY DEF Good, ContextStates
<1>2. ASSUME NEW g \in Groups PROVE t.inv[g] = s.inv[g] \/ t.inv[g] = r
  BY <1>1
<1> QED BY <1>1, <1>2 DEF Older, Forward

LEMMA BeginLoadGoesOn ==
    ASSUME NEW s, Good(s), Older(s), NEW force, NEW by, NEW others, beginLoad(s, force, by, others)
    PROVE  Older(st') /\ Forward(s, st')
<1>1. CASE st' = s
  BY <1>1, KeptRows
<1>2. CASE st' = Loading(s, by)
  <2>1. st'.inv = s.inv /\ st'.gen = s.gen + 1
    BY <1>2 DEF Loading, Good, ContextStates
  <2>2. Good(st')
    BY <1>2, LoadingIsGood
  <2> QED BY <2>1, <2>2, KeptRows
<1> QED BY <1>1, <1>2 DEF beginLoad

LEMMA DropStragglerGoesOn ==
    ASSUME Good(st), Older(st), NEW c, DropStraggler(c)
    PROVE  Older(st') /\ Forward(st, st')
<1>0. Good(st')
  BY DropStragglerIsGood
<1>1. CASE st' = Loading(st, "key")
  <2>1. st'.inv = st.inv /\ st'.gen = st.gen + 1
    BY <1>1 DEF Loading, Good, ContextStates
  <2> QED BY <1>0, <2>1, KeptRows
<1>2. CASE st' = [st EXCEPT !.outstanding = @ - 1]
  <2>1. st'.inv = st.inv /\ st'.gen = st.gen
    BY <1>2 DEF Good, ContextStates
  <2> QED BY <1>0, <2>1, KeptRows
<1> QED BY <1>1, <1>2 DEF DropStraggler

LEMMA SyncedGoesOn ==
    ASSUME FreshInv, AgesInv, conf # None
    PROVE  Older(Synced) /\ (st # None => Forward(st, Synced))
<1>0. Good(Synced)
  BY SyncedIsGood
<1>1. CASE st = None
  <2>1. \A g \in Groups : Synced.inv[g] = None
    BY <1>1 DEF Synced, newContextState
  <2> QED BY <1>1, <2>1, NoRows
<1>2. CASE st # None /\ st.cc.conn # conf.conn
  <2>1. \A g \in Groups : Synced.inv[g] = None
    BY <1>2 DEF Synced, Reset, FreshInv, Good, ContextStates
  <2> QED BY <2>1, NoRows
<1>3. CASE st # None /\ st.cc.conn = conf.conn
  <2>1. Synced.inv = st.inv /\ Synced.gen = st.gen
    BY <1>3 DEF Synced, FreshInv, Good, ContextStates
  <2> QED BY <1>0, <1>3, <2>1, KeptRows DEF FreshInv, AgesInv
<1> QED BY <1>1, <1>2, <1>3

(* What a group's result leaves of the rows.                               *)
LEMMA GroupResultsGoOn ==
    ASSUME Good(st), Older(st), NEW c, c.what \in Groups, Matches(c), NEW s \in GroupResults(c)
    PROVE  s.gen = st.gen /\ Older(s) /\ Forward(st, s)
<1> DEFINE failed == [st EXCEPT !.outstanding = @ - 1, !.hasInv = TRUE]
<1>1. failed.inv = st.inv /\ failed.gen = st.gen
  BY DEF Good, ContextStates
<1>2. CASE s = failed
  <2>1. Good(s)
    BY GroupResultsAreGood
  <2> QED BY <1>1, <1>2, <2>1, KeptRows
<1>3. CASE s = [failed EXCEPT !.inv[c.what] = Read(c), !.loaded = @ \cup {c.what}]
  <2>1. {"inv", "gen"} \subseteq DOMAIN failed
    BY DEF Good, ContextStates
  <2> HIDE DEF failed
  <2>2. s.inv = [st.inv EXCEPT ![c.what] = Read(c)] /\ s.gen = st.gen
    BY <1>1, <1>3, <2>1
  <2>3. Read(c).gen = st.gen
    BY DEF Read, Matches
  <2> QED BY <2>2, <2>3, NewRow
<1> QED BY <1>2, <1>3 DEF GroupResults

LEMMA AgesStep ==
    ASSUME FreshInv, AgesInv, [Next]_vars, st' # None
    PROVE  Older(st') /\ (st # None => Forward(st, st'))
<1> DEFINE Goal == Older(st') /\ (st # None => Forward(st, st'))
<1>0. /\ st # None => Good(st) /\ Older(st)
      /\ Good(st')
  BY FreshStep DEF FreshInv, AgesInv
<1>a. ASSUME st # None, st'.inv = st.inv, st'.gen = st.gen PROVE Goal
  BY <1>0, <1>a, KeptRows
<1>b. ASSUME st' = st PROVE Goal
  BY <1>0, <1>a, <1>b
<1>1. ASSUME Select \/ Reload \/ RefreshTick PROVE Goal
  BY <1>0, <1>1, BeginLoadGoesOn DEF Select, Reload, RefreshTick, ensureSelectedLoaded
<1>2. ASSUME NEW l \in logouts, applyLogout(l) PROVE Goal
  <2>1. CASE st' = [st EXCEPT !.loggedOut = TRUE, !.err = FALSE] /\ st # None
    <3>1. st'.inv = st.inv /\ st'.gen = st.gen
      BY <1>0, <2>1 DEF Good, ContextStates
    <3> QED BY <1>a, <2>1, <3>1
  <2> QED BY <1>b, <1>2, <2>1 DEF applyLogout
<1>3. ASSUME NEW c \in cmds, AskPassword(c) PROVE Goal
  <2>1. CASE st' = [st EXCEPT !.prompted = TRUE] /\ st # None
    <3>1. st'.inv = st.inv /\ st'.gen = st.gen
      BY <1>0, <2>1 DEF Good, ContextStates
    <3> QED BY <1>a, <2>1, <3>1
  <2> QED BY <1>b, <1>3, <2>1 DEF AskPassword
<1>4. ASSUME NEW c \in cmds, BeginLands(c) PROVE Goal
  <2>1. CASE st # None /\ DropStraggler(c)
    BY <1>0, <2>1, DropStragglerGoesOn
  <2>2. CASE st # None /\ st' = FinishLoad([st EXCEPT !.outstanding = @ - 1, !.err = TRUE])
    <3>1. st'.inv = st.inv /\ st'.gen = st.gen
      BY <1>0, <2>2 DEF Good, ContextStates, FinishLoad
    <3> QED BY <1>a, <2>2, <3>1
  <2>3. CASE st # None /\ st' = [st EXCEPT !.err = FALSE, !.outstanding = 1, !.awaitingPriority = TRUE]
    <3>1. st'.inv = st.inv /\ st'.gen = st.gen
      BY <1>0, <2>3 DEF Good, ContextStates
    <3> QED BY <1>a, <2>3, <3>1
  <2> QED BY <1>b, <1>4, <2>1, <2>2, <2>3 DEF BeginLands
<1>5. ASSUME NEW c \in cmds, GroupLands(c) PROVE Goal
  <2>1. CASE st # None /\ DropStraggler(c)
    BY <1>0, <2>1, DropStragglerGoesOn
  <2>2. ASSUME st # None, Matches(c), NEW s \in GroupResults(c), st'.inv = s.inv, st'.gen = s.gen
        PROVE  Goal
    <3>1. s.gen = st.gen /\ Older(s) /\ Forward(st, s)
      BY <1>0, <1>5, <2>2, GroupResultsGoOn DEF GroupLands
    <3> QED BY <2>2, <3>1 DEF Older, Forward
  <2>3. ASSUME st # None, Matches(c), NEW s \in GroupResults(c),
               \/ st' = [s EXCEPT !.awaitingPriority = FALSE, !.outstanding = Cardinality(FanOut(c))]
               \/ st' = IF s.outstanding > 0 THEN s ELSE FinishLoad(s)
        PROVE  Goal
    <3>1. s \in ContextStates
      BY <1>0, <1>5, <2>3, GroupResultsAreGood DEF Good, GroupLands
    <3>2. st'.inv = s.inv /\ st'.gen = s.gen
      BY <2>3, <3>1 DEF ContextStates, FinishLoad
    <3> QED BY <2>2, <2>3, <3>2
  <2> QED BY <1>b, <1>5, <2>1, <2>3 DEF GroupLands
<1>6. ASSUME NEW p \in streams, PageLands(p) PROVE Goal
  <2>1. CASE st # None /\ Matches(p) /\ st' = [st EXCEPT !.hasInv = TRUE, !.inv[p.what] = Read(p)]
    <3>1. st'.inv = [st.inv EXCEPT ![p.what] = Read(p)] /\ st'.gen = st.gen
      BY <1>0, <2>1 DEF Good, ContextStates
    <3>2. Read(p).gen = st.gen
      BY <2>1 DEF Read, Matches
    <3>3. Good(st) /\ Older(st) /\ st # None
      BY <1>0, <2>1
    <3>4. Older(st') /\ Forward(st, st')
      BY <3>1, <3>2, <3>3, NewRow
    <3> QED BY <3>4
  <2> QED BY <1>b, <1>6, <2>1 DEF PageLands
<1>7. ASSUME NEW e \in edits, ApplyFormSave(e) PROVE Goal
  <2>1. CASE Synced # None /\ ensureSelectedLoaded(Synced, TRUE, cmds)
    <3>1. Good(Synced) /\ Older(Synced) /\ (st # None => Forward(st, Synced))
      BY <2>1, SyncedIsGood, SyncedIsSome, SyncedGoesOn
    <3>2. \E f : beginLoad(Synced, f, "key", cmds)
      BY <2>1 DEF ensureSelectedLoaded
    <3>3. Older(st')
      BY <3>1, <3>2, BeginLoadGoesOn
    <3>4. st'.inv = Synced.inv
      BY <3>1, <3>2 DEF beginLoad, Loading, Good, ContextStates
    <3> QED BY <3>1, <3>3, <3>4 DEF Forward
  <2> QED BY <1>b, <1>7, <2>1 DEF ApplyFormSave
<1>8. ASSUME NEW e \in edits, ApplyFormDelete(e) PROVE Goal
  BY <1>8, SyncedIsSome, SyncedGoesOn DEF ApplyFormDelete
<1>9. ASSUME LogoutKey \/ AnswerPrompt \/ OpenForm \/ FormCancel \/ FormSave \/ Delete PROVE Goal
  BY <1>b, <1>9 DEF LogoutKey, AnswerPrompt, OpenForm, FormCancel, FormSave, Delete, loadVars
<1>10. ASSUME NEW c \in cmds, BeginRuns(c) \/ PromptTimesOut(c) PROVE Goal
  BY <1>b, <1>10 DEF BeginRuns, PromptTimesOut
<1>11. ASSUME NEW p \in streams, StreamEnds(p) PROVE Goal
  BY <1>b, <1>11 DEF StreamEnds
<1>12. ASSUME NEW l \in logouts, LogoutRuns(l) PROVE Goal
  BY <1>b, <1>12 DEF LogoutRuns, loadVars
<1>13. ASSUME NEW e \in edits, SaveContext(e) \/ RemoveContext(e) PROVE Goal
  BY <1>b, <1>13 DEF SaveContext, RemoveContext, loadVars
<1>14. ASSUME UNCHANGED vars PROVE Goal
  BY <1>b, <1>14 DEF vars
<1> HIDE DEF Goal
<1>15. ASSUME NEW c \in cmds, CommandStep(c) \/ AskPassword(c) PROVE Goal
  BY <1>3, <1>4, <1>5, <1>10, <1>15, Zenon DEF CommandStep
<1>16. ASSUME NEW e \in edits, EditStep(e) PROVE Goal
  BY <1>7, <1>8, <1>13, <1>16, Zenon DEF EditStep
<1>17. ASSUME Next PROVE Goal
  BY <1>1, <1>2, <1>6, <1>9, <1>11, <1>12, <1>15, <1>16, <1>17, Zenon DEF Next
<1>18. Goal
  BY <1>14, <1>17
<1> QED BY <1>18 DEF Goal

(* A row that is on screen is replaced only by one of the same load or of  *)
(* a later one, however late its page arrives: the safety half of          *)
(* LoadsProgress, with names saved again while their loads run             *)
(* (applyGroupPage, applyGroup, beginLoad).                                *)
THEOREM NeverBackwardsHolds == Spec => NeverBackwards
<1> DEFINE Rows == \A g \in Groups :
                      (st # None /\ st' # None /\ st.inv[g] # None /\ st'.inv[g] # None)
                         => st.inv[g].gen <= st'.inv[g].gen
<1>1. Init => FreshInv /\ AgesInv
  <2>1. Init => \A g \in Groups : st.inv[g] = None
    <3> DEFINE s == newContextState([id |-> 1, conn |-> CHOOSE c \in Conns : TRUE])
    <3>1. [id |-> 1, conn |-> CHOOSE c \in Conns : TRUE] \in Configs
      BY ConnsAssumption DEF Configs
    <3>2. Good(s) /\ \A g \in Groups : s.inv[g] = None
      BY <3>1, NewIsGood DEF newContextState
    <3>3. Init => st = Loading(s, "startup")
      BY DEF Init
    <3> HIDE DEF s
    <3>4. Loading(s, "startup").inv = s.inv
      BY <3>2 DEF Loading, Good, ContextStates
    <3> QED BY <3>2, <3>3, <3>4
  <2> QED BY <2>1, InitIsFresh, NoRows DEF AgesInv
<1>2. FreshInv /\ AgesInv /\ [Next]_vars => FreshInv' /\ AgesInv'
  BY FreshStep, AgesStep DEF AgesInv
<1>3. FreshInv /\ AgesInv /\ [Next]_vars => [Rows]_vars
  BY AgesStep DEF Forward
<1> QED BY <1>1, <1>2, <1>3, PTL DEF Spec, NeverBackwards
=============================================================================
