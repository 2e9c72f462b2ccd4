--------------------------- MODULE SessionManager ---------------------------
(***************************************************************************)
(* The session manager of vsfleet (internal/session/manager.go): one       *)
(* Session object per configured context name, each holding at most one    *)
(* logged-in vSphere client, used by concurrent callers.                   *)
(*                                                                         *)
(* A caller runs one manager operation at a time.  Every section of code   *)
(* that runs under Manager.mu or Session.mu is one action; everything the  *)
(* code does without a lock (dialling, pinging, querying, logging out of   *)
(* the server) is a separate action, so other callers may interleave.      *)
(*                                                                         *)
(* Session and client identities are recycled once nothing refers to them, *)
(* as the garbage collector does, so operations are not bounded in number. *)
(***************************************************************************)
EXTENDS Naturals, FiniteSets

CONSTANTS
    Procs,      \* concurrent callers of the manager
    Names,      \* context names
    Configs,    \* connection settings a name can be given (endpoint, route, user)
    Sessions,   \* identities of *Session objects
    Clients,    \* identities of *vsphere.Client objects
    None        \* the nil pointer

ASSUME NoneAssumption ==
    /\ None \notin Procs \cup Names \cup Configs
    /\ None \notin Sessions \cup Clients

VARIABLES
    sessions,   \* Manager.sessions: name -> Session or None
    context,    \* Session.Context: the settings the session describes
    state,      \* Session.state
    client,     \* Session.client
    loggedOut,  \* Session.loggedOut
    endpoint,   \* client -> the settings it was logged in with
    login,      \* client -> "open" from its login until its Close returns
    closing,    \* clients a background goroutine is logging out of
    failed,     \* history: clients somebody saw fail a ping or a query
    pc,         \* caller -> where it is in its operation
    op          \* caller -> the locals of its operation

sessionVars == <<context, state, client, loggedOut>>
clientVars  == <<endpoint, login, closing, failed>>
vars        == <<sessions, sessionVars, clientVars, pc, op>>

(* What a caller asks for.  "login" is Manager.Login, the explicit one;    *)
(* "query" is Manager.Connect as its callers use it: liveQuery connects,   *)
(* takes the client, asks, and retries once when the session was lost.     *)
Kinds  == {"login", "query", "logout", "forget"}
States == {"disconnected", "connecting", "connected", "failed"}
PCs    == {"idle", "enter", "dial", "land", "take", "use", "dropFind",
           "drop", "again", "logout", "clear", "closing"}

OpType == [kind: Kinds, name: Names \cup {None}, cfg: Configs \cup {None},
           sess: Sessions \cup {None}, client: Clients \cup {None},
           again: BOOLEAN, todo: SUBSET Sessions]

NoOp == [kind |-> "query", name |-> None, cfg |-> None, sess |-> None,
         client |-> None, again |-> FALSE, todo |-> {}]

Init ==
    /\ sessions  = [n \in Names |-> None]
    /\ context   = [s \in Sessions |-> None]
    /\ state     = [s \in Sessions |-> "disconnected"]
    /\ client    = [s \in Sessions |-> None]
    /\ loggedOut = [s \in Sessions |-> FALSE]
    /\ endpoint  = [c \in Clients |-> None]
    /\ login     = [c \in Clients |-> "closed"]
    /\ closing   = {}
    /\ failed    = {}
    /\ pc        = [p \in Procs |-> "idle"]
    /\ op        = [p \in Procs |-> NoOp]

-----------------------------------------------------------------------------
(* Identities nothing refers to.                                           *)

UsedSessions == {sessions[n] : n \in Names} \cup {op[p].sess : p \in Procs}
                    \cup UNION {op[p].todo : p \in Procs}

FreeSessions == Sessions \ UsedSessions

UsedClients == {client[s] : s \in Sessions} \cup {op[p].client : p \in Procs}
                    \cup closing

FreeClients == {c \in Clients \ UsedClients : login[c] # "open"}

(* The caller moves to l with locals o; it returns by going to "idle".     *)
Goto(p, l, o) == pc' = [pc EXCEPT ![p] = l] /\ op' = [op EXCEPT ![p] = o]
Return(p)     == Goto(p, "idle", NoOp)

(* Manager.session: under Manager.mu, the Session known by this name, or a *)
(* new one describing the caller's settings.                               *)
Lookup(p, o, l) ==
    \/ /\ sessions[o.name] # None
       /\ Goto(p, l, [o EXCEPT !.sess = sessions[o.name]])
       /\ UNCHANGED <<sessions, sessionVars>>
    \/ /\ sessions[o.name] = None
       /\ \E s \in FreeSessions :
            /\ sessions'  = [sessions EXCEPT ![o.name] = s]
            /\ context'   = [context EXCEPT ![s] = o.cfg]
            /\ state'     = [state EXCEPT ![s] = "disconnected"]
            /\ client'    = [client EXCEPT ![s] = None]
            /\ loggedOut' = [loggedOut EXCEPT ![s] = FALSE]
            /\ Goto(p, l, [o EXCEPT !.sess = s])

(* The common tail of Drop, Logout, Forget and Close: the session lets go  *)
(* of its client.                                                          *)
Detach(s) ==
    /\ client' = [client EXCEPT ![s] = None]
    /\ state'  = [state EXCEPT ![s] = "disconnected"]

-----------------------------------------------------------------------------
(* connect, shared by Connect, Login and liveQuery.                        *)

BeginConnect(p, kind, n, g) ==
    /\ pc[p] = "idle"
    /\ Lookup(p, [NoOp EXCEPT !.kind = kind, !.name = n, !.cfg = g], "enter")
    /\ UNCHANGED clientVars

(* Seeded fault: a background Connect counts as the operator's login.      *)
ExplicitAlways(p) == op[p].kind \in Kinds

Explicit(p) == op[p].kind = "login"

(* A context the operator logged out of refuses a Connect that nobody      *)
(* explicitly asked for.                                                   *)
EnterRefused(p) ==
    LET s == op[p].sess IN
    /\ pc[p] = "enter"
    /\ loggedOut[s] /\ ~Explicit(p)
    /\ Return(p)
    /\ UNCHANGED <<sessions, sessionVars, clientVars>>

(* Session.adopt: the session describes the caller's settings from here    *)
(* on; when they differ, the client of the old ones is orphaned.           *)
NeverStale(p) == op[p].sess = None   \* seeded fault: an edit goes unnoticed
Stale(p) == context[op[p].sess] # op[p].cfg

(* What an accepted Enter does to the client of an edited context: the     *)
(* session lets go of it and a goroutine logs out of the old vCenter.      *)
AdoptWithoutClose(p) ==    \* seeded fault: nobody logs out of the old vCenter
    /\ loggedOut' = [loggedOut EXCEPT ![op[p].sess] = FALSE]
    /\ context'   = [context EXCEPT ![op[p].sess] = op[p].cfg]
    /\ UNCHANGED closing

AdoptClosingHeld(p) ==     \* seeded fault: the client is closed even when kept
    /\ loggedOut' = [loggedOut EXCEPT ![op[p].sess] = FALSE]
    /\ context'   = [context EXCEPT ![op[p].sess] = op[p].cfg]
    /\ closing'   = closing \cup ({client[op[p].sess]} \ {None})

Adopt(p) ==
    LET s == op[p].sess IN
    /\ loggedOut' = [loggedOut EXCEPT ![s] = FALSE]
    /\ context'   = [context EXCEPT ![s] = op[p].cfg]
    /\ closing'   = IF Stale(p) THEN closing \cup ({client[s]} \ {None})
                                ELSE closing

(* A live connection to the same vCenter is reused.  Login goes on to      *)
(* check it, the first time round; a query goes on to use it.              *)
EnterReuse(p) ==
    LET s == op[p].sess IN
    /\ pc[p] = "enter"
    /\ ~loggedOut[s] \/ Explicit(p)
    /\ ~Stale(p) /\ state[s] = "connected" /\ client[s] # None
    /\ Adopt(p)
    /\ IF op[p].kind = "query" \/ (op[p].kind = "login" /\ ~op[p].again)
       THEN Goto(p, "take", op[p])
       ELSE Return(p)
    /\ UNCHANGED <<sessions, state, client, endpoint, login, failed>>

(* Otherwise the session starts connecting, and the lock is released.      *)
EnterDial(p) ==
    LET s == op[p].sess IN
    /\ pc[p] = "enter"
    /\ ~loggedOut[s] \/ Explicit(p)
    /\ Stale(p) \/ state[s] # "connected" \/ client[s] = None
    /\ Adopt(p)
    /\ client' = [client EXCEPT ![s] = IF Stale(p) THEN None ELSE @]
    /\ state'  = [state EXCEPT ![s] = "connecting"]
    /\ Goto(p, "dial", op[p])
    /\ UNCHANGED <<sessions, endpoint, login, failed>>

(* vsphere.Connect, bounded by the connect timeout: a login at the vCenter *)
(* the caller's settings name, or an error.                                *)
DialSucceeds(p) ==
    /\ pc[p] = "dial"
    /\ \E c \in FreeClients :
        /\ endpoint' = [endpoint EXCEPT ![c] = op[p].cfg]
        /\ login'    = [login EXCEPT ![c] = "open"]
        /\ Goto(p, "land", [op[p] EXCEPT !.client = c])
    /\ UNCHANGED <<sessions, sessionVars, closing, failed>>

DialFails(p) ==
    /\ pc[p] = "dial"
    /\ Goto(p, "land", [op[p] EXCEPT !.client = None])
    /\ UNCHANGED <<sessions, sessionVars, clientVars>>

(* Seeded fault: a landing that ignores the logout.                        *)
LandIgnoringLogout(p) ==
    /\ pc[p] = "land" /\ loggedOut[op[p].sess]
    /\ client' = [client EXCEPT ![op[p].sess] = op[p].client]
    /\ Return(p)
    /\ UNCHANGED <<sessions, context, state, loggedOut, clientVars>>

(* The operator logged out while this login was in flight: the logout is   *)
(* the later request, so it wins and the new login is closed again.        *)
LandLoggedOut(p) ==
    /\ pc[p] = "land" /\ loggedOut[op[p].sess]
    /\ closing' = closing \cup ({op[p].client} \ {None})
    /\ Return(p)
    /\ UNCHANGED <<sessions, sessionVars, endpoint, login, failed>>

LandFailed(p) ==
    LET s == op[p].sess IN
    /\ pc[p] = "land" /\ ~loggedOut[s] /\ op[p].client = None
    /\ state'  = [state EXCEPT ![s] = "failed"]
    /\ client' = [client EXCEPT ![s] = None]
    /\ Return(p)
    /\ UNCHANGED <<sessions, context, loggedOut, clientVars>>

LandConnected(p) ==
    LET s == op[p].sess IN
    /\ pc[p] = "land" /\ ~loggedOut[s] /\ op[p].client # None
    /\ state'  = [state EXCEPT ![s] = "connected"]
    /\ client' = [client EXCEPT ![s] = op[p].client]
    /\ IF op[p].kind = "query"
       THEN Goto(p, "take", [op[p] EXCEPT !.client = None])
       ELSE Return(p)
    /\ UNCHANGED <<sessions, context, loggedOut, clientVars>>

-----------------------------------------------------------------------------
(* What Login and liveQuery do with the session connect returned.          *)

(* Session.Client under Session.mu; a session without a client ends the    *)
(* operation.                                                              *)
TakeClient(p) ==
    LET c == client[op[p].sess] IN
    /\ pc[p] = "take"
    /\ IF c = None THEN Return(p)
                   ELSE Goto(p, "use", [op[p] EXCEPT !.client = c])
    /\ UNCHANGED <<sessions, sessionVars, clientVars>>

(* The ping of Login, or the question of liveQuery, is answered or fails.  *)
(* A vCenter ends a session whenever it likes and nothing tells the        *)
(* client, and any call can meet an error: both outcomes are possible at   *)
(* every use.                                                              *)
UseAnswered(p) ==
    /\ pc[p] = "use"
    /\ Return(p)
    /\ UNCHANGED <<sessions, sessionVars, clientVars>>

Suspect(p) ==
    failed' = failed \cup {c \in Clients : c = op[p].client /\ login[c] = "open"}

(* A failed ping makes Login replace the connection.  A question refused   *)
(* because vCenter no longer knows the session does so once.               *)
UseLost(p) ==
    /\ pc[p] = "use"
    /\ Suspect(p)
    /\ IF op[p].again THEN Return(p) ELSE Goto(p, "dropFind", op[p])
    /\ UNCHANGED <<sessions, sessionVars, endpoint, login, closing>>

(* Drop, in its two critical sections: find the session by name, then let  *)
(* go of the client only if it is still the one that failed.               *)
DropFindForever(p) ==      \* seeded fault: a forgotten name is looked up again
    LET s == sessions[op[p].name] IN
    /\ pc[p] = "dropFind"
    /\ IF s = None THEN Goto(p, "dropFind", op[p])
                   ELSE Goto(p, "drop", [op[p] EXCEPT !.sess = s])
    /\ UNCHANGED <<sessions, sessionVars, clientVars>>

DropFind(p) ==
    LET s == sessions[op[p].name] IN
    /\ pc[p] = "dropFind"
    /\ IF s = None THEN Goto(p, "again", [op[p] EXCEPT !.sess = None])
                   ELSE Goto(p, "drop", [op[p] EXCEPT !.sess = s])
    /\ UNCHANGED <<sessions, sessionVars, clientVars>>

(* Seeded fault: Drop without its checks, of a nil client included.        *)
DropUnchecked(p) ==
    LET s == op[p].sess IN
    /\ pc[p] = "drop"
    /\ closing' = closing \cup {client[s]}
    /\ Detach(s)
    /\ Goto(p, "again", [op[p] EXCEPT !.sess = None])
    /\ UNCHANGED <<sessions, context, loggedOut, endpoint, login, failed>>

Drop(p) ==
    LET s == op[p].sess IN
    /\ pc[p] = "drop"
    /\ IF client[s] = op[p].client
       THEN Detach(s) /\ closing' = closing \cup {op[p].client}
       ELSE UNCHANGED <<client, state, closing>>
    /\ Goto(p, "again", [op[p] EXCEPT !.sess = None])
    /\ UNCHANGED <<sessions, context, loggedOut, endpoint, login, failed>>

(* Login and liveQuery connect a second, last time.                        *)
Reconnect(p) ==
    /\ pc[p] = "again"
    /\ Lookup(p, [op[p] EXCEPT !.again = TRUE, !.client = None], "enter")
    /\ UNCHANGED clientVars

-----------------------------------------------------------------------------
(* Logout, Forget and Close.                                               *)

BeginLogout(p, n, g) ==
    /\ pc[p] = "idle"
    /\ Lookup(p, [NoOp EXCEPT !.kind = "logout", !.name = n, !.cfg = g], "logout")
    /\ UNCHANGED clientVars

Logout(p) ==
    LET s == op[p].sess IN
    /\ pc[p] = "logout"
    /\ loggedOut' = [loggedOut EXCEPT ![s] = TRUE]
    /\ Detach(s)
    /\ IF client[s] = None THEN Return(p)
       ELSE Goto(p, "closing", [NoOp EXCEPT !.kind = "logout", !.client = client[s]])
    /\ UNCHANGED <<sessions, context, clientVars>>

(* Forget takes one name out of the map, Close all of them; each session   *)
(* taken is then emptied under its own lock and its client logged out of.  *)
BeginForget(p, ns) ==
    LET taken == {sessions[n] : n \in ns} \ {None} IN
    /\ pc[p] = "idle"
    /\ taken # {}
    /\ sessions' = [n \in Names |-> IF n \in ns THEN None ELSE sessions[n]]
    /\ Goto(p, "clear", [NoOp EXCEPT !.kind = "forget", !.todo = taken])
    /\ UNCHANGED <<sessionVars, clientVars>>

ClearOne(p) ==
    \E s \in op[p].todo :
        LET rest == [op[p] EXCEPT !.todo = @ \ {s}] IN
        /\ pc[p] = "clear"
        /\ Detach(s)
        /\ IF client[s] # None THEN Goto(p, "closing", [rest EXCEPT !.client = client[s]])
           ELSE IF rest.todo # {} THEN Goto(p, "clear", rest)
           ELSE Return(p)
        /\ UNCHANGED <<sessions, context, loggedOut, clientVars>>

(* Client.Close returns, successfully or not: nobody asks again, and what  *)
(* was known of the client no longer matters.                              *)
Closed(c) ==
    /\ login'    = [login EXCEPT ![c] = "closed"]
    /\ endpoint' = [endpoint EXCEPT ![c] = None]
    /\ failed'   = failed \ {c}

CloseReturns(p) ==
    /\ pc[p] = "closing"
    /\ Closed(op[p].client)
    /\ IF op[p].todo # {} THEN Goto(p, "clear", [op[p] EXCEPT !.client = None])
                          ELSE Return(p)
    /\ UNCHANGED <<sessions, sessionVars, closing>>

(* A background goroutine of connect or Drop finishes its Close.           *)
BackgroundClose(c) ==
    /\ c \in closing
    /\ closing' = closing \ {c}
    /\ Closed(c)
    /\ UNCHANGED <<sessions, sessionVars, pc, op>>

-----------------------------------------------------------------------------
Enter(p) == EnterRefused(p) \/ EnterReuse(p) \/ EnterDial(p)
Dial(p)  == DialSucceeds(p) \/ DialFails(p)
Land(p)  == LandLoggedOut(p) \/ LandFailed(p) \/ LandConnected(p)
Use(p)   == UseAnswered(p) \/ UseLost(p)

(* The steps of an operation that has begun.                               *)
Continue(p) ==
    \/ Enter(p) \/ Dial(p) \/ Land(p) \/ TakeClient(p) \/ Use(p)
    \/ DropFind(p) \/ Drop(p) \/ Reconnect(p)
    \/ Logout(p) \/ ClearOne(p) \/ CloseReturns(p)

Begin(p) ==
    \/ \E k \in {"login", "query"}, n \in Names, g \in Configs :
            BeginConnect(p, k, n, g)
    \/ \E n \in Names, g \in Configs : BeginLogout(p, n, g)
    \/ \E ns \in {{n} : n \in Names} \cup {Names} : BeginForget(p, ns)

Next ==
    \/ \E p \in Procs : Begin(p) \/ Continue(p)
    \/ \E c \in Clients : BackgroundClose(c)

(* Goroutines are scheduled, and every network call is bounded by a        *)
(* timeout; nothing obliges anybody to begin an operation.                 *)
Fairness ==
    /\ \A p \in Procs : WF_vars(Continue(p))
    /\ \A c \in Clients : WF_vars(BackgroundClose(c))

Spec == Init /\ [][Next]_vars /\ Fairness

-----------------------------------------------------------------------------
(* Properties.                                                             *)

(* Every variable has its type.                                            *)
TypeOK ==
    /\ sessions  \in [Names -> Sessions \cup {None}]
    /\ context   \in [Sessions -> Configs \cup {None}]
    /\ state     \in [Sessions -> States]
    /\ client    \in [Sessions -> Clients \cup {None}]
    /\ loggedOut \in [Sessions -> BOOLEAN]
    /\ endpoint  \in [Clients -> Configs \cup {None}]
    /\ login     \in [Clients -> {"open", "closed"}]
    /\ closing \subseteq Clients /\ failed \subseteq Clients
    /\ pc \in [Procs -> PCs] /\ op \in [Procs -> OpType]

(* The operator's logout wins over every login in flight when it was asked *)
(* for: as long as a session remembers the logout it has no client and     *)
(* does not claim to be connecting, connected or failed (Logout and the    *)
(* re-check after vsphere.Connect in connect).                             *)
LogoutWins ==
    \A s \in Sessions :
        loggedOut[s] => client[s] = None /\ state[s] = "disconnected"

(* A session says it is connected exactly when it has a client to hand     *)
(* out, whatever interleaving of landings, drops and logouts led here      *)
(* (what Snapshot renders and Live returns under one lock).                *)
ConnectedHasClient ==
    \A s \in Sessions : state[s] = "connected" <=> client[s] # None

(* The caller is responsible for a client: it has just logged in with it,  *)
(* or it is logging out of it.                                             *)
Owns(p) == pc[p] \in {"land", "closing"} /\ op[p].client # None

(* No client has two owners: no session hands out a client that another    *)
(* session or caller owns, that is being logged out of, or that was        *)
(* already closed (every Close in the manager follows a detach under       *)
(* Session.mu).                                                            *)
SessionsOwnAlone ==
    \A s \in Sessions : client[s] # None =>
        /\ login[client[s]] = "open" /\ client[s] \notin closing
        /\ \A r \in Sessions \ {s} : client[r] # client[s]
        /\ \A p \in Procs : Owns(p) => op[p].client # client[s]

CallersOwnAlone ==
    \A p \in Procs : Owns(p) =>
        /\ login[op[p].client] = "open" /\ op[p].client \notin closing
        /\ \A q \in Procs \ {p} : Owns(q) => op[q].client # op[p].client

OneOwner == SessionsOwnAlone /\ CallersOwnAlone

(* The locals an operation needs at each point are there.                  *)
OpShape ==
    \A p \in Procs :
        /\ pc[p] \in {"enter", "dial", "land", "take", "use", "dropFind", "drop", "again"}
                => op[p].name \in Names
        /\ pc[p] \in {"enter", "dial", "land", "take", "drop", "logout"}
                => op[p].sess \in Sessions
        /\ pc[p] \in {"use", "dropFind", "drop", "closing"}
                => op[p].client \in Clients

(* The inductive invariant behind LogoutWins, ConnectedHasClient, OneOwner.*)
SessionInv == TypeOK /\ OpShape /\ LogoutWins /\ ConnectedHasClient /\ OneOwner

(* A caller asks for a client to be dropped only when it saw it fail.      *)
SuspectsFailed ==
    \A p \in Procs : pc[p] \in {"dropFind", "drop"} =>
        op[p].client \in failed \/ login[op[p].client] = "closed"

(* Two requests that both saw a dead session must not tear down the fresh  *)
(* one the first of them made: Drop only ever takes away a client that     *)
(* somebody saw fail.                                                      *)
DropSparesReplacement ==
    [][\A p \in Procs, s \in Sessions :
        (/\ pc[p] = "drop" /\ pc'[p] # "drop"
         /\ client[s] # None /\ client'[s] # client[s])
            => client[s] \in failed]_vars

(* Nothing running in the background undoes a logout: a session in use     *)
(* stops being logged out only in the step of an explicit Login.           *)
OnlyLoginUndoesLogout ==
    [][\A s \in UsedSessions \ {None} :
        (loggedOut[s] /\ ~loggedOut'[s])
            => \E p \in Procs : /\ op[p].kind = "login" /\ op[p].sess = s
                                /\ pc[p] = "enter" /\ pc'[p] # "enter"]_vars

(* Every operation of every caller returns: a Login or a query retries at  *)
(* most once, and no caller can be kept waiting by the others.             *)
OperationsReturn == \A p \in Procs : (pc[p] # "idle") ~> (pc[p] = "idle")

(* Somebody will find the session again: a name maps to it, or a Forget    *)
(* still running has it on its list.                                       *)
Reached(s) ==
    \/ \E n \in Names : sessions[n] = s
    \/ \E p \in Procs : s \in op[p].todo

(* Somebody answers for a login: a session that is reached holds it, its   *)
(* caller is about to publish or close it, or a goroutine is closing it.   *)
Kept(c) ==
    \/ \E s \in Sessions : Reached(s) /\ client[s] = c
    \/ \E p \in Procs : Owns(p) /\ op[p].client = c
    \/ c \in closing

Leaked(c) == login[c] = "open" /\ ~Kept(c)

(* The client a name's session hands out was logged in with the settings   *)
(* the session describes: what Live compares before lending it, and what a *)
(* reuse relies on.                                                        *)
Foreign(s) == client[s] # None /\ endpoint[client[s]] # context[s]

(* The caller's dial lands on its session.                                 *)
Lands(p, s) == pc[p] = "land" /\ pc'[p] # "land" /\ op[p].sess = s

LostAtLanding(c) ==
    \E p \in Procs, s \in Sessions :
        Lands(p, s) /\ (client[s] = c \/ (op[p].client = c /\ ~Reached(s)))

(* A login is lost, left open at the vCenter with nobody to close it, only *)
(* where a second dial's landing overwrites it or where it lands on a      *)
(* session nobody finds any more; and a session comes to hold a login of   *)
(* other settings than its own only where the context was edited during    *)
(* the dial.  No edit, retry, Drop, Logout, Forget or Close does either,   *)
(* whoever runs beside it (connect, adopt, Drop, Logout, Forget, Close).   *)
LoginsAccounted ==
    [][/\ \A c \in Clients : (~Leaked(c) /\ Leaked(c)') => LostAtLanding(c)
       /\ \A s \in Sessions : (~Foreign(s) /\ Foreign(s)') =>
              \E p \in Procs : Lands(p, s) /\ context[s] # op[p].cfg]_vars

(* Without the exceptions, which the landings break: every open login is   *)
(* held, on its way or being closed; and the client of a session is of the *)
(* settings it describes, what the comment on Connect is about.            *)
NoLoginLost        == \A c \in Clients : ~Leaked(c)
HeldMatchesContext == \A s \in Sessions : ~Foreign(s)

(* Behind LoginsAccounted: only a Forget has a list of sessions, and what  *)
(* a caller lands with is a login of the settings it dialled.              *)
LandingInv ==
    \A p \in Procs :
        /\ pc[p] \notin {"clear", "closing"} => op[p].todo = {}
        /\ pc[p] = "land" /\ op[p].client # None => endpoint[op[p].client] = op[p].cfg
=============================================================================
