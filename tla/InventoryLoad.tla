--------------------------- MODULE InventoryLoad ---------------------------
(***************************************************************************)
(* How the terminal interface reads one vCenter (internal/tui).            *)
(*                                                                         *)
(* Update handles one message at a time; everything slow is a command that *)
(* runs beside it and comes back as a message.  A load is the command that *)
(* connects, then one fetch of the group on screen, then the other groups  *)
(* at once, each with a stream of pages.  Meanwhile the operator edits,    *)
(* removes, logs out and reloads, and a timer refreshes.                   *)
(*                                                                         *)
(* One context name is modelled.  Its *config.Context pointers are told    *)
(* apart by id; two of them with the same conn are SameConnection.         *)
(***************************************************************************)
EXTENDS Integers, FiniteSets

CONSTANTS
    Conns,      \* connection settings a context can be given
    Groups,     \* vsphere.AllGroups
    Paged,      \* those whose fetch shows pages before it ends (the VMs)
    MaxActs,    \* bound on the keys that start something and the refresh ticks
    QuickReadd, \* whether a removed name is saved again while its loads still run
    None

ASSUME GroupsAssumption ==
    /\ IsFiniteSet(Groups) /\ Cardinality(Groups) > 1 /\ "begin" \notin Groups
    /\ Paged \subseteq Groups
ASSUME ConnsAssumption == Conns # {}
ASSUME BoundsAssumption == MaxActs \in Nat /\ QuickReadd \in BOOLEAN

VARIABLES
    conf,       \* the backend's configuration of the name, None when removed
    st,         \* the contextState of the name, None when there is none
    cmds,       \* load commands running, or ended with their message undelivered
    streams,    \* page streams still being listened to
    prompt,     \* the begin command whose password overlay is open, or None
    mode,       \* the screen that has the keyboard
    form,       \* m.form: "none", "open" or "saving"
    edits,      \* save and remove commands, running or undelivered
    logouts,    \* logout commands, running or undelivered
    live,       \* the settings the session manager is logged in with, or None
    nextId, acts

vars == <<conf, st, cmds, streams, prompt, mode, form, edits, logouts, live, nextId, acts>>
loadVars == <<st, cmds, streams>>
editVars == <<conf, mode, form, edits, nextId>>

Ids      == 1..(MaxActs + 1)
Contexts == [id: Ids, conn: Conns]
Origins  == {"startup", "key", "timer"}
Results  == {"running", "ok", "error"}

-----------------------------------------------------------------------------
(* contextState.                                                           *)

Configs == [id: Nat, conn: Conns]

ContextStates ==
    [cc: Configs, loading: BOOLEAN, outstanding: Int, awaitingPriority: BOOLEAN,
     gen: Nat, attempted: BOOLEAN, prompted: BOOLEAN, allow: BOOLEAN,
     loggedOut: BOOLEAN, err: BOOLEAN, hasInv: BOOLEAN,
     inv: [Groups -> [conn: Conns, gen: Nat] \cup {None}], loaded: SUBSET Groups]

ASSUME NoneAssumption == None \notin ContextStates

newContextState(cc) ==
    [cc |-> cc, loading |-> FALSE, outstanding |-> 0, awaitingPriority |-> FALSE,
     gen |-> 0, attempted |-> FALSE, prompted |-> FALSE, allow |-> FALSE,
     loggedOut |-> FALSE, err |-> FALSE, hasInv |-> FALSE,
     inv |-> [g \in Groups |-> None], loaded |-> {}]

(* What an edit that changes the connection does; loading and outstanding  *)
(* stay, for the load in flight to drain.                                  *)
ResetEverything(s) == newContextState(s.cc)   \* seeded fault: forgets the load in flight

ResetKeepingInventory(s) ==   \* seeded fault: the old vCenter's rows stay
    [s EXCEPT !.err = FALSE, !.attempted = FALSE, !.prompted = FALSE, !.allow = FALSE, !.gen = @ + 1]

Reset(s) ==
    [s EXCEPT !.inv = [g \in Groups |-> None], !.hasInv = FALSE, !.loaded = {},
              !.err = FALSE, !.attempted = FALSE, !.prompted = FALSE,
              !.allow = FALSE, !.gen = @ + 1]

Starts(s, force) == ~s.loading /\ (force \/ ~(s.hasInv \/ s.err))

(* beginLoad once its guards are passed; a timer's load is the quiet one,  *)
(* and only a key allows a password overlay.                               *)
LoadingAllowingPrompts(s, by) ==   \* seeded fault: the permission of an earlier load stays
    [s EXCEPT !.loading = TRUE, !.gen = @ + 1, !.attempted = TRUE,
              !.allow = @ \/ by = "key",
              !.prompted = @ /\ by = "timer", !.loggedOut = @ /\ by = "timer",
              !.outstanding = 1, !.awaitingPriority = FALSE]

Loading(s, by) ==
    [s EXCEPT !.loading = TRUE, !.gen = @ + 1, !.attempted = TRUE,
              !.allow = (by = "key"),
              !.prompted = @ /\ by = "timer", !.loggedOut = @ /\ by = "timer",
              !.outstanding = 1, !.awaitingPriority = FALSE]

Command(s, what, by) == [what |-> what, cc |-> s.cc, gen |-> s.gen, by |-> by, res |-> "running"]

(* beginLoad on state s, with the commands in others still in flight.      *)
beginLoad(s, force, by, others) ==
    \/ /\ Starts(s, force)
       /\ st' = Loading(s, by)
       /\ cmds' = others \cup {Command(Loading(s, by), "begin", by)}
    \/ /\ ~Starts(s, force)
       /\ st' = s /\ cmds' = others

(* ensureSelectedLoaded: choosing a context that waits for a password or   *)
(* was logged out reads it again.                                          *)
ensureSelectedLoaded(s, force, others) ==
    beginLoad(s, force \/ ((s.prompted \/ s.loggedOut) /\ ~s.loading), "key", others)

Act == acts < MaxActs /\ acts' = acts + 1

Init ==
    /\ LET s == newContextState([id |-> 1, conn |-> CHOOSE c \in Conns : TRUE])
       IN  /\ conf = s.cc
           /\ st = Loading(s, "startup")
           /\ cmds = {Command(Loading(s, "startup"), "begin", "startup")}
    /\ streams = {} /\ prompt = None /\ mode = "browse" /\ form = "none"
    /\ edits = {} /\ logouts = {} /\ live = None /\ nextId = 2 /\ acts = 0

-----------------------------------------------------------------------------
(* Keys on the browse and contexts screens, and the refresh timer.  An     *)
(* open password overlay takes every key.                                  *)

Key == mode = "browse" /\ prompt = None /\ Act

(* useContext; enterScope does the same, except to a context that waits    *)
(* for a password.                                                         *)
Select ==
    /\ Key /\ st # None
    /\ ensureSelectedLoaded(st, FALSE, cmds)
    /\ UNCHANGED <<streams, prompt, logouts, live, editVars>>

Reload ==
    /\ Key /\ st # None
    /\ ensureSelectedLoaded(st, TRUE, cmds)
    /\ UNCHANGED <<streams, prompt, logouts, live, editVars>>

(* refreshStale.  refreshDue compares ages, which the model leaves open.   *)
RefreshTick ==
    /\ Act /\ st # None
    /\ st.attempted /\ ~st.prompted /\ ~st.loggedOut
    /\ beginLoad(st, TRUE, "timer", cmds)
    /\ UNCHANGED <<streams, prompt, logouts, live, editVars>>

LogoutKey ==
    /\ Key /\ st # None /\ ~st.loading /\ ~st.loggedOut
    /\ logouts' = logouts \cup {[cc |-> st.cc, done |-> FALSE]}
    /\ UNCHANGED <<loadVars, prompt, live, editVars>>

(* Manager.Logout: the session is gone even when the vCenter did not       *)
(* confirm it.                                                             *)
LogoutRuns(l) ==
    /\ ~l.done
    /\ live' = None
    /\ logouts' = (logouts \ {l}) \cup {[l EXCEPT !.done = TRUE]}
    /\ UNCHANGED <<loadVars, prompt, acts, editVars>>

applyLogout(l) ==
    /\ l.done
    /\ logouts' = logouts \ {l}
    /\ st' = IF st # None /\ st.cc = l.cc
             THEN [st EXCEPT !.loggedOut = TRUE, !.err = FALSE] ELSE st
    /\ UNCHANGED <<cmds, streams, prompt, live, acts, editVars>>

-----------------------------------------------------------------------------
(* A load's commands, and the messages they end in.                        *)

Ended(c, res) == (cmds \ {c}) \cup {[c EXCEPT !.res = res]}

(* BeginInventory: Manager.Login, then the index; either can fail, the     *)
(* second after the login.                                                 *)
BeginRuns(c) ==
    /\ c.what = "begin" /\ c.res = "running" /\ prompt # c
    /\ \/ live' = c.cc.conn /\ \E res \in {"ok", "error"} : cmds' = Ended(c, res)
       \/ live' = live /\ cmds' = Ended(c, "error")
    /\ UNCHANGED <<st, streams, prompt, logouts, acts, editVars>>

(* PromptCoordinator.Get gives up when the login's timeout passes; the     *)
(* overlay stays until it is answered.                                     *)
PromptTimesOut(c) ==
    /\ prompt = c /\ c \in cmds
    /\ cmds' = Ended(c, "error")
    /\ UNCHANGED <<st, streams, prompt, logouts, live, acts, editVars>>

(* PromptCoordinator.Get and the credRequestMsg case of Update: requests   *)
(* come one at a time, and one that no operator action is behind is put    *)
(* off, which ends the command.  A login can ask twice (vCenter, proxy).   *)
AskPassword(c) ==
    LET owned == st # None /\ st.loading
    IN  /\ c.what = "begin" /\ c.res = "running" /\ prompt = None
        /\ st' = IF owned THEN [st EXCEPT !.prompted = TRUE] ELSE st
        /\ \/ owned /\ st.allow /\ prompt' = c /\ cmds' = cmds
           \/ ~(owned /\ st.allow) /\ prompt' = None /\ cmds' = Ended(c, "error")
        /\ UNCHANGED <<streams, logouts, live, acts, editVars>>

(* handleCredPromptKey: a password, or esc.                                *)
AnswerPrompt ==
    /\ prompt # None
    /\ prompt' = None
    /\ \/ cmds' = cmds
       \/ prompt \in cmds /\ cmds' = Ended(prompt, "error")
    /\ UNCHANGED <<st, streams, logouts, live, acts, editVars>>

(* A message is of the load st is in: its generation, its configuration.   *)
MatchesContext(c) == st.cc = c.cc   \* seeded fault: only the configuration is compared

Matches(c) == st.gen = c.gen /\ st.cc = c.cc

(* dropStraggler: a superseded load counts down too, and the last of its   *)
(* messages starts the load the edit was owed.                             *)
DropStragglerSilently(c) ==   \* seeded fault: the edit's own load is never started
    st' = [st EXCEPT !.outstanding = @ - 1, !.loading = (st.outstanding > 1),
                     !.awaitingPriority = @ /\ st.outstanding > 1]
    /\ cmds' = cmds \ {c}

DropStraggler(c) ==
    \/ /\ st.outstanding > 1
       /\ st' = [st EXCEPT !.outstanding = @ - 1] /\ cmds' = cmds \ {c}
    \/ /\ st.outstanding <= 1
       /\ st' = Loading(st, "key")
       /\ cmds' = (cmds \ {c}) \cup {Command(Loading(st, "key"), "begin", "key")}

(* finishLoad; a password that was asked for and led to a connection is no *)
(* longer waited for.                                                      *)
FinishLoad(s) == [s EXCEPT !.loading = FALSE, !.prompted = @ /\ s.err]

Fetches(gs) == {Command(st, g, "fetch") : g \in gs}

(* applyBeginInventory.                                                    *)
BeginLands(c) ==
    /\ c.what = "begin" /\ c.res # "running"
    /\ \/ st = None /\ st' = st /\ cmds' = cmds \ {c} /\ streams' = streams
       \/ st # None /\ ~Matches(c) /\ DropStraggler(c) /\ streams' = streams
       \/ /\ st # None /\ Matches(c) /\ c.res # "ok"
          /\ st' = FinishLoad([st EXCEPT !.outstanding = @ - 1, !.err = TRUE])
          /\ cmds' = cmds \ {c} /\ streams' = streams
       \/ /\ st # None /\ Matches(c) /\ c.res = "ok"
          /\ st' = [st EXCEPT !.err = FALSE, !.outstanding = 1, !.awaitingPriority = TRUE]
          /\ \E priority \in Groups :
                /\ cmds' = (cmds \ {c}) \cup Fetches({priority})
                /\ streams' = streams \cup Fetches({priority} \cap Paged)
    /\ UNCHANGED <<prompt, logouts, live, acts, editVars>>

Read(c) == [conn |-> c.cc.conn, gen |-> c.gen]

(* Inventory.ApplyGroup and applyGroupState: a group that failed, or never *)
(* got a slot of the limiter, keeps what it had.                           *)
GroupResults(c) ==
    LET s == [st EXCEPT !.outstanding = @ - 1, !.hasInv = TRUE]
    IN  {s, [s EXCEPT !.inv[c.what] = Read(c), !.loaded = @ \cup {c.what}]}

FanOut(c) == Groups \ {c.what}

(* fetchGroupCmd and applyGroup: what a fetch returns shows only when its  *)
(* message lands, so the two are one step.                                 *)
GroupLands(c) ==
    /\ c.what \in Groups
    /\ \/ st = None /\ st' = st /\ cmds' = cmds \ {c} /\ streams' = streams
       \/ st # None /\ ~Matches(c) /\ DropStraggler(c) /\ streams' = streams
       \/ /\ st # None /\ Matches(c) /\ st.awaitingPriority
          /\ \E s \in GroupResults(c) :
                st' = [s EXCEPT !.awaitingPriority = FALSE, !.outstanding = Cardinality(FanOut(c))]
          /\ cmds' = (cmds \ {c}) \cup Fetches(FanOut(c))
          /\ streams' = streams \cup Fetches(FanOut(c) \cap Paged)
       \/ /\ st # None /\ Matches(c) /\ ~st.awaitingPriority
          /\ \E s \in GroupResults(c) : st' = IF s.outstanding > 0 THEN s ELSE FinishLoad(s)
          /\ cmds' = cmds \ {c} /\ streams' = streams
    /\ UNCHANGED <<prompt, logouts, live, acts, editVars>>

(* applyGroupPage: pages are buffered, so one can still be delivered after *)
(* its group's own result, even during a later load.  A group that is not  *)
(* paged sends its whole result as a page just before the result itself.   *)
PageLands(p) ==
    /\ \/ st # None /\ Matches(p) /\ streams' = streams
          /\ st' = IF p.what \in st.loaded THEN st
                   ELSE [st EXCEPT !.hasInv = TRUE, !.inv[p.what] = Read(p)]
       \/ (st # None => ~Matches(p)) /\ streams' = streams \ {p} /\ st' = st
    /\ UNCHANGED <<cmds, prompt, logouts, live, acts, editVars>>

(* listenForPage: the channel is closed when its fetch ends, and drained.  *)
StreamEnds(p) ==
    /\ p \notin cmds
    /\ streams' = streams \ {p}
    /\ UNCHANGED <<st, cmds, prompt, logouts, live, acts, editVars>>

-----------------------------------------------------------------------------
(* The form and the removal of a context.                                  *)

(* enterForm, formCancel (esc, also while a save is running), formSave.    *)
OpenForm ==
    /\ Key
    /\ mode' = "form" /\ form' = "open"
    /\ UNCHANGED <<loadVars, conf, prompt, edits, logouts, live, nextId>>

FormCancel ==
    /\ mode = "form" /\ prompt = None
    /\ mode' = "browse" /\ form' = "none"
    /\ UNCHANGED <<loadVars, conf, prompt, edits, logouts, live, nextId, acts>>

(* An edit names its command; the configuration it saves is a new object.  *)
FormSave ==
    /\ mode = "form" /\ form = "open" /\ prompt = None /\ Act
    /\ form' = "saving"
    /\ \E conn \in Conns :
          edits' = edits \cup {[what |-> "save", cc |-> [id |-> nextId, conn |-> conn], res |-> "running"]}
    /\ nextId' = nextId + 1
    /\ UNCHANGED <<loadVars, conf, prompt, mode, logouts, live>>

(* handleConfirmDeleteKey: the confirmation can be left with esc while the *)
(* removal runs, so it does not hold the keyboard.                         *)
Delete ==
    /\ Key /\ st # None
    /\ edits' = edits \cup {[what |-> "remove", cc |-> [id |-> nextId, conn |-> st.cc.conn], res |-> "running"]}
    /\ nextId' = nextId + 1
    /\ UNCHANGED <<loadVars, conf, prompt, mode, form, logouts, live>>

Done(e, res) == edits' = (edits \ {e}) \cup {[e EXCEPT !.res = res]}

(* SaveContext: the test fails, or the file cannot be written once the     *)
(* configuration in memory has changed, or all is done and the session of  *)
(* the edited name is forgotten.                                           *)
SaveContext(e) ==
    /\ e.what = "save" /\ e.res = "running"
    /\ (conf = None /\ ~QuickReadd) => cmds = {} /\ streams = {}
    /\ \/ Done(e, "error") /\ conf' \in {conf, e.cc} /\ live' = live
       \/ Done(e, "ok") /\ conf' = e.cc /\ live' = None
    /\ UNCHANGED <<loadVars, prompt, mode, form, logouts, nextId, acts>>

(* RemoveContext: not found, or gone from the configuration in memory when  *)
(* the file cannot be written, or removed and its session forgotten, where *)
(* deleting the stored password may still fail.                            *)
RemoveContext(e) ==
    /\ e.what = "remove" /\ e.res = "running"
    /\ \/ Done(e, "error") /\ live' = live
       \/ conf # None /\ (Done(e, "ok") \/ Done(e, "error")) /\ live' = None
    /\ conf' = None
    /\ UNCHANGED <<loadVars, prompt, mode, form, logouts, nextId, acts>>

(* syncContexts: the name's state follows the configuration.               *)
Synced ==
    IF conf = None THEN None
    ELSE IF st = None THEN newContextState(conf)
    ELSE [(IF st.cc.conn # conf.conn THEN Reset(st) ELSE st) EXCEPT !.cc = conf]

(* applyFormSave: with the form closed meanwhile, nothing happens.         *)
ApplyFormSave(e) ==
    /\ e.what = "save" /\ e.res # "running"
    /\ edits' = edits \ {e}
    /\ \/ form = "none" /\ UNCHANGED <<st, cmds, mode, form>>
       \/ form # "none" /\ e.res = "error" /\ form' = "open" /\ UNCHANGED <<st, cmds, mode>>
       \/ /\ form # "none" /\ e.res = "ok"
          /\ form' = "none" /\ mode' = "browse"
          /\ \/ Synced = None /\ st' = None /\ cmds' = cmds
             \/ Synced # None /\ ensureSelectedLoaded(Synced, TRUE, cmds)
    /\ UNCHANGED <<conf, streams, prompt, logouts, live, nextId, acts>>

(* applyFormDelete; other contexts are configured, so the screen is left.  *)
ApplyFormDelete(e) ==
    /\ e.what = "remove" /\ e.res # "running"
    /\ edits' = edits \ {e}
    /\ st' = Synced /\ mode' = "browse"
    /\ UNCHANGED <<conf, cmds, streams, prompt, form, logouts, live, nextId, acts>>

-----------------------------------------------------------------------------
(* What ends by itself: commands, and the delivery of their messages.      *)
CommandStep(c)  == BeginRuns(c) \/ PromptTimesOut(c) \/ BeginLands(c) \/ GroupLands(c)
EditStep(e)     == SaveContext(e) \/ RemoveContext(e) \/ ApplyFormSave(e) \/ ApplyFormDelete(e)

Next ==
    \/ Select \/ Reload \/ RefreshTick \/ LogoutKey \/ AnswerPrompt
    \/ OpenForm \/ FormCancel \/ FormSave \/ Delete
    \/ \E c \in cmds : CommandStep(c) \/ AskPassword(c)
    \/ \E p \in streams : PageLands(p) \/ StreamEnds(p)
    \/ \E l \in logouts : LogoutRuns(l) \/ applyLogout(l)
    \/ \E e \in edits : EditStep(e)

(* Every login and fetch is bounded (the manager's timeout, the stream     *)
(* watchdog), and Bubble Tea delivers every message.                       *)
Fairness == WF_vars(\E c \in cmds : CommandStep(c))

Spec == Init /\ [][Next]_vars /\ Fairness

-----------------------------------------------------------------------------
Gens == 0..(1 + 2 * MaxActs)

CommandType ==
    [what: {"begin"} \cup Groups, cc: Contexts, gen: Gens,
     by: Origins \cup {"fetch"}, res: Results]

(* Types; a load never waits for more messages than it can have sent.      *)
TypeOK ==
    /\ conf \in Contexts \cup {None}
    /\ st # None =>
        /\ st.cc \in Contexts /\ st.gen \in Gens /\ st.loaded \subseteq Groups
        /\ st.outstanding \in Nat /\ (st.outstanding <= 1 \/ st.outstanding < Cardinality(Groups))
        /\ {st.loading, st.awaitingPriority, st.attempted, st.prompted,
            st.allow, st.loggedOut, st.err, st.hasInv} \subseteq BOOLEAN
        /\ st.inv \in [Groups -> [conn: Conns, gen: Gens] \cup {None}]
        /\ st.awaitingPriority => st.outstanding = 1
    /\ cmds \subseteq CommandType /\ streams \subseteq CommandType
    /\ prompt = None \/ prompt \in CommandType
    /\ mode \in {"browse", "form"} /\ form \in {"none", "open", "saving"}
    /\ edits \subseteq [what: {"save", "remove"}, cc: Contexts, res: Results]
    /\ logouts \subseteq [cc: Contexts, done: BOOLEAN]
    /\ live \in Conns \cup {None} /\ nextId \in Nat /\ acts \in 0..MaxActs

(* contextState.outstanding counts the messages truly in flight, through   *)
(* edits, prompts and time-outs: a load ends, and the next may begin,      *)
(* exactly when the last command of the one before has been heard from.    *)
OutstandingExact ==
    st # None => /\ st.loading => st.outstanding = Cardinality(cmds) /\ st.outstanding > 0
                 /\ ~st.loading => cmds = {}

(* No row on screen came from a vCenter the context no longer points at,   *)
(* however late the message that carried it (syncContexts, applyGroup,     *)
(* applyGroupPage).                                                        *)
NoStaleData ==
    st # None => \A g \in Groups : st.inv[g] # None => st.inv[g].conn = st.cc.conn

(* A page of an earlier load never replaces what a later load has shown    *)
(* (the generation check of applyGroupPage).                               *)
NeverBackwards ==
    [][\A g \in Groups :
          (st # None /\ st' # None /\ st.inv[g] # None /\ st'.inv[g] # None)
             => st.inv[g].gen <= st'.inv[g].gen]_vars

(* Only a load begun by the operator opens the password overlay: not the   *)
(* start-up load, not a timer's, whatever was allowed before.              *)
OnlyKeysPrompt == prompt # None => prompt.by = "key"

(* A context being loaded, at whatever configuration it has, ends with an  *)
(* inventory or an error, unless it is edited again or removed: the load   *)
(* an edit is owed is not lost when another was in flight.                 *)
LoadsEnd ==
    \A i \in Ids :
        (st # None /\ st.loading /\ st.cc.id = i) ~>
            (\/ st = None
             \/ st.cc.id # i
             \/ ~st.loading /\ (st.hasInv \/ st.err))

(* What a context says of its own loading is true: how much is in flight,  *)
(* and who may be asked for a password.                                    *)
LoadsAccounted == OutstandingExact /\ OnlyKeysPrompt

(* Why it is: all the commands in flight are of one load, told apart by    *)
(* what they fetch, and the one that connects is alone; a name that was    *)
(* removed has heard from its commands before it is saved again.           *)
OneLoad ==
    /\ IsFiniteSet(cmds)
    /\ \A c \in cmds : DOMAIN c = {"what", "cc", "gen", "by", "res"} /\ c.what \in {"begin"} \cup Groups
    /\ \A c, d \in cmds : c # d => c.what # d.what /\ c.what # "begin"
    /\ (conf # None /\ st = None) => cmds = {}
    /\ st # None =>
        /\ st.outstanding \in Nat
        /\ st.loading /\ st.awaitingPriority => st.outstanding = 1
        /\ st.loading /\ st.allow => \A c \in cmds : c.what = "begin" => c.by = "key"

(* Loads go forward and end.                                               *)
LoadsProgress == NeverBackwards /\ LoadsEnd

(* When everything asked for has been done, a context shown as logged out  *)
(* has no session: "A load in flight would log straight back in when it    *)
(* lands, so it has to finish first" (logout).                             *)
LogoutHolds ==
    (st # None /\ st.loggedOut /\ cmds = {} /\ logouts = {}) => live = None

(* Once a successful save has been delivered, the interface shows the      *)
(* configuration the backend has: "the context list is rebuilt from the    *)
(* backend" (applyFormSave).                                               *)
SavedIsShown ==
    [][(\E e \in edits \ edits' : e.what = "save" /\ e.res = "ok")
          => (IF st' = None THEN conf = None ELSE st'.cc = conf)]_vars
=============================================================================
