------------------------ MODULE SessionManagerProofs ------------------------
(***************************************************************************)
(* For any number of callers, names, settings, sessions and clients: the   *)
(* operator's logout wins and only a Login undoes it, a session is         *)
(* connected exactly when it has a client, no client has two owners, and   *)
(* Drop spares a client nobody saw fail, and every login is accounted for  *)
(* but where a dial lands on what changed while it was out.                *)
(***************************************************************************)
EXTENDS SessionManager, TLAPS

(* The locals of an operation that has just begun are well formed, and so  *)
(* are those an operation changes on its way.                              *)
LEMMA NoOpType == NoOp \in OpType
  BY DEF NoOp, OpType, Kinds

LEMMA OpUpdate ==
  ASSUME NEW o \in OpType, NEW s \in Sessions \cup {None},
         NEW c \in Clients \cup {None}, NEW b \in BOOLEAN,
         NEW todo \in SUBSET Sessions
  PROVE  /\ [o EXCEPT !.sess = s] \in OpType /\ [o EXCEPT !.sess = s].sess = s
         /\ [o EXCEPT !.sess = s].name = o.name /\ [o EXCEPT !.sess = s].client = o.client
         /\ [o EXCEPT !.client = c] \in OpType /\ [o EXCEPT !.client = c].client = c
         /\ [o EXCEPT !.client = c].name = o.name /\ [o EXCEPT !.client = c].sess = o.sess
         /\ [o EXCEPT !.again = b, !.client = c] \in OpType
         /\ [o EXCEPT !.again = b, !.client = c].name = o.name
         /\ [o EXCEPT !.again = b, !.client = c].client = c
         /\ [o EXCEPT !.todo = todo] \in OpType /\ [o EXCEPT !.todo = todo].todo = todo
  BY DEF OpType

(* What Goto does to the caller and to the others.                         *)
LEMMA GotoFacts ==
  ASSUME TypeOK, NEW p \in Procs, NEW l \in PCs, NEW o \in OpType, Goto(p, l, o)
  PROVE  /\ pc' \in [Procs -> PCs] /\ op' \in [Procs -> OpType]
         /\ pc'[p] = l /\ op'[p] = o
         /\ \A q \in Procs \ {p} : pc'[q] = pc[q] /\ op'[q] = op[q]
  BY DEF TypeOK, Goto

(* The invariant holds initially.                                          *)
LEMMA SessionInvInit == Init => SessionInv
  BY NoOpType, NoneAssumption
  DEF Init, SessionInv, TypeOK, OpShape, LogoutWins, ConnectedHasClient, OneOwner,
      SessionsOwnAlone, CallersOwnAlone, Owns, PCs, States

(* What Lookup leaves: the caller refers to a Session; a session is as it  *)
(* was, or new: with no client, not logged out and not connected.          *)
LookedUp(p, l, o) ==
    /\ pc' \in [Procs -> PCs] /\ op' \in [Procs -> OpType]
    /\ pc'[p] = l /\ op'[p].name = o.name /\ op'[p].client = o.client
    /\ op'[p].sess \in Sessions
    /\ \A q \in Procs \ {p} : pc'[q] = pc[q] /\ op'[q] = op[q]
    /\ sessions' \in [Names -> Sessions \cup {None}]
    /\ context' \in [Sessions -> Configs \cup {None}]
    /\ state' \in [Sessions -> States]
    /\ client' \in [Sessions -> Clients \cup {None}]
    /\ loggedOut' \in [Sessions -> BOOLEAN]
    /\ \A s \in Sessions :
         \/ client'[s] = client[s] /\ state'[s] = state[s] /\ loggedOut'[s] = loggedOut[s]
         \/ client'[s] = None /\ state'[s] = "disconnected" /\ ~loggedOut'[s]

LEMMA LookupFacts ==
  ASSUME TypeOK, NEW p \in Procs, NEW l \in PCs, NEW o \in OpType,
         o.name \in Names, Lookup(p, o, l)
  PROVE  LookedUp(p, l, o)
<1>1. CASE sessions[o.name] # None /\ Goto(p, l, [o EXCEPT !.sess = sessions[o.name]])
           /\ UNCHANGED <<sessions, sessionVars>>
  <2>1. sessions[o.name] \in Sessions
    BY <1>1 DEF TypeOK
  <2>2. [o EXCEPT !.sess = sessions[o.name]] \in OpType
    BY <2>1, OpUpdate
  <2>3. /\ [o EXCEPT !.sess = sessions[o.name]].sess \in Sessions
        /\ [o EXCEPT !.sess = sessions[o.name]].name = o.name
        /\ [o EXCEPT !.sess = sessions[o.name]].client = o.client
    BY <2>1 DEF OpType
  <2>4. /\ pc' \in [Procs -> PCs] /\ op' \in [Procs -> OpType]
        /\ pc'[p] = l /\ op'[p] = [o EXCEPT !.sess = sessions[o.name]]
        /\ \A q \in Procs \ {p} : pc'[q] = pc[q] /\ op'[q] = op[q]
    BY <1>1, <2>2, GotoFacts
  <2> QED BY <1>1, <2>3, <2>4 DEF LookedUp, TypeOK, sessionVars
<1>2. ASSUME NEW s \in FreeSessions,
             sessions'  = [sessions EXCEPT ![o.name] = s],
             context'   = [context EXCEPT ![s] = o.cfg],
             state'     = [state EXCEPT ![s] = "disconnected"],
             client'    = [client EXCEPT ![s] = None],
             loggedOut' = [loggedOut EXCEPT ![s] = FALSE],
             Goto(p, l, [o EXCEPT !.sess = s])
      PROVE  LookedUp(p, l, o)
  <2>1. s \in Sessions /\ o.cfg \in Configs \cup {None}
    BY <1>2 DEF FreeSessions, OpType
  <2>2. [o EXCEPT !.sess = s] \in OpType
    BY <2>1, OpUpdate
  <2>3. /\ [o EXCEPT !.sess = s].sess = s
        /\ [o EXCEPT !.sess = s].name = o.name
        /\ [o EXCEPT !.sess = s].client = o.client
    BY <2>1 DEF OpType
  <2>4. /\ pc' \in [Procs -> PCs] /\ op' \in [Procs -> OpType]
        /\ pc'[p] = l /\ op'[p] = [o EXCEPT !.sess = s]
        /\ \A q \in Procs \ {p} : pc'[q] = pc[q] /\ op'[q] = op[q]
    BY <1>2, <2>2, GotoFacts
  <2>5. /\ sessions' \in [Names -> Sessions \cup {None}]
        /\ context' \in [Sessions -> Configs \cup {None}]
        /\ state' \in [Sessions -> States]
        /\ client' \in [Sessions -> Clients \cup {None}]
        /\ loggedOut' \in [Sessions -> BOOLEAN]
    BY <1>2, <2>1 DEF TypeOK, States
  <2>6. \A r \in Sessions :
         \/ client'[r] = client[r] /\ state'[r] = state[r] /\ loggedOut'[r] = loggedOut[r]
         \/ client'[r] = None /\ state'[r] = "disconnected" /\ ~loggedOut'[r]
    BY <1>2, <2>1 DEF TypeOK
  <2> QED BY <2>1, <2>3, <2>4, <2>5, <2>6 DEF LookedUp
<1> QED BY <1>1, <1>2 DEF Lookup

(* The locals o are what an operation needs at l.                          *)
Shape(l, o) ==
    /\ l \in {"enter", "dial", "land", "take", "use", "dropFind", "drop", "again"}
            => o.name \in Names
    /\ l \in {"enter", "dial", "land", "take", "drop", "logout"} => o.sess \in Sessions
    /\ l \in {"use", "dropFind", "drop", "closing"} => o.client \in Clients

(* Types and locals after a step in which one caller moves.                *)
LEMMA TypesStep ==
  ASSUME SessionInv, NEW p \in Procs, NEW l \in PCs, NEW o \in OpType,
         Goto(p, l, o), Shape(l, o),
         sessions' \in [Names -> Sessions \cup {None}],
         context' \in [Sessions -> Configs \cup {None}],
         state' \in [Sessions -> States],
         client' \in [Sessions -> Clients \cup {None}],
         loggedOut' \in [Sessions -> BOOLEAN],
         endpoint' \in [Clients -> Configs \cup {None}],
         login' \in [Clients -> {"open", "closed"}],
         closing' \subseteq Clients, failed' \subseteq Clients
  PROVE  TypeOK' /\ OpShape'
<1>1. /\ pc' \in [Procs -> PCs] /\ op' \in [Procs -> OpType]
      /\ pc'[p] = l /\ op'[p] = o
      /\ \A q \in Procs \ {p} : pc'[q] = pc[q] /\ op'[q] = op[q]
  BY GotoFacts DEF SessionInv
<1>2. TypeOK'
  BY <1>1 DEF TypeOK
<1>3. OpShape'
  BY <1>1 DEF OpShape, Shape, SessionInv
<1> QED BY <1>2, <1>3

(* A step in which a caller only moves, taking no client into its hands.   *)
LEMMA MoveStep ==
  ASSUME SessionInv, NEW p \in Procs, NEW l \in PCs, NEW o \in OpType,
         Goto(p, l, o), Shape(l, o), l \in {"land", "closing"} => o.client = None,
         UNCHANGED <<sessions, sessionVars, endpoint, login, closing>>,
         failed' \subseteq Clients
  PROVE  SessionInv'
<1>1. TypeOK' /\ OpShape'
  BY TypesStep DEF SessionInv, TypeOK, sessionVars
<1>2. LogoutWins' /\ ConnectedHasClient'
  BY DEF SessionInv, LogoutWins, ConnectedHasClient, sessionVars
<1>3. /\ pc'[p] = l /\ op'[p] = o
      /\ \A q \in Procs \ {p} : pc'[q] = pc[q] /\ op'[q] = op[q]
  BY GotoFacts DEF SessionInv
<1>4. \A q \in Procs : Owns(q)' => Owns(q) /\ op'[q].client = op[q].client
  BY <1>3 DEF Owns
<1>5. OneOwner'
  BY <1>4 DEF SessionInv, OneOwner, SessionsOwnAlone, CallersOwnAlone, sessionVars
<1> QED BY <1>1, <1>2, <1>5 DEF SessionInv

(* A step in which a session lets go of its client and the caller takes it *)
(* into its hands, hands it to a goroutine, or there was none.             *)
LEMMA DetachStep ==
  ASSUME SessionInv, NEW p \in Procs, NEW l \in PCs, NEW o \in OpType, NEW s \in Sessions,
         Goto(p, l, o), Shape(l, o), pc[p] \notin {"land", "closing"},
         sessions' \in [Names -> Sessions \cup {None}],
         context' \in [Sessions -> Configs \cup {None}],
         client' = [client EXCEPT ![s] = None],
         state' \in [Sessions -> States],
         \A r \in Sessions \ {s} : state'[r] = state[r],
         state'[s] # "connected",
         loggedOut' \in [Sessions -> BOOLEAN],
         \A r \in Sessions \ {s} : loggedOut'[r] = loggedOut[r],
         loggedOut'[s] => state'[s] = "disconnected",
         UNCHANGED <<endpoint, login, failed>>,
         \/ /\ l \in {"land", "closing"} => o.client = None
            /\ closing' \in {closing, closing \cup ({client[s]} \ {None})}
         \/ o.client = client[s] /\ closing' = closing
  PROVE  SessionInv'
<1>0. closing' \subseteq Clients /\ client' \in [Sessions -> Clients \cup {None}]
  BY DEF SessionInv, TypeOK
<1>1. TypeOK' /\ OpShape'
  BY <1>0, TypesStep DEF SessionInv, TypeOK
<1>2. client'[s] = None /\ \A r \in Sessions \ {s} : client'[r] = client[r]
  BY DEF SessionInv, TypeOK
<1>3. LogoutWins' /\ ConnectedHasClient'
  BY <1>2 DEF SessionInv, LogoutWins, ConnectedHasClient
<1>4. /\ pc'[p] = l /\ op'[p] = o
      /\ \A q \in Procs \ {p} : pc'[q] = pc[q] /\ op'[q] = op[q]
  BY GotoFacts DEF SessionInv
<1>5. \A q \in Procs \ {p} : Owns(q)' => Owns(q) /\ op'[q].client = op[q].client
  BY <1>4 DEF Owns
<1>6. Owns(p)' => op'[p].client = client[s] /\ client[s] # None /\ closing' = closing
  BY <1>4 DEF Owns
<1>7. SessionsOwnAlone'
  BY <1>2, <1>5, <1>6 DEF SessionInv, OneOwner, SessionsOwnAlone
<1>8. CallersOwnAlone'
  BY <1>2, <1>5, <1>6 DEF SessionInv, OneOwner, SessionsOwnAlone, CallersOwnAlone
<1> QED BY <1>1, <1>3, <1>7, <1>8 DEF SessionInv, OneOwner

(* Beginning or repeating an operation: Lookup.                            *)
LEMMA LookupStep ==
  ASSUME SessionInv, NEW p \in Procs, NEW l \in {"enter", "logout"}, NEW o \in OpType,
         o.name \in Names, o.client = None, Lookup(p, o, l), UNCHANGED clientVars
  PROVE  SessionInv'
<1>1. LookedUp(p, l, o)
  BY LookupFacts DEF SessionInv, PCs
<1>2. TypeOK'
  BY <1>1 DEF SessionInv, TypeOK, LookedUp, clientVars
<1>3. OpShape'
  BY <1>1 DEF SessionInv, OpShape, LookedUp
<1>4. LogoutWins' /\ ConnectedHasClient'
  BY <1>1 DEF SessionInv, LogoutWins, ConnectedHasClient, LookedUp
<1>5. \A q \in Procs : Owns(q)' => Owns(q) /\ op'[q].client = op[q].client
  BY <1>1 DEF Owns, LookedUp
<1>6. \A s \in Sessions : client'[s] # None => client'[s] = client[s]
  BY <1>1 DEF LookedUp
<1>7. OneOwner'
  BY <1>5, <1>6 DEF SessionInv, OneOwner, SessionsOwnAlone, CallersOwnAlone, clientVars
<1> QED BY <1>2, <1>3, <1>4, <1>7 DEF SessionInv

LEMMA BeginStep ==
  ASSUME SessionInv, NEW p \in Procs, Begin(p)
  PROVE  SessionInv'
<1>1. ASSUME NEW k \in {"login", "query"}, NEW n \in Names, NEW g \in Configs,
             BeginConnect(p, k, n, g)
      PROVE  SessionInv'
  <2>1. /\ [NoOp EXCEPT !.kind = k, !.name = n, !.cfg = g] \in OpType
        /\ [NoOp EXCEPT !.kind = k, !.name = n, !.cfg = g].name = n
        /\ [NoOp EXCEPT !.kind = k, !.name = n, !.cfg = g].client = None
    BY DEF NoOp, OpType, Kinds
  <2> QED BY <1>1, <2>1, LookupStep DEF BeginConnect
<1>2. ASSUME NEW n \in Names, NEW g \in Configs, BeginLogout(p, n, g)
      PROVE  SessionInv'
  <2>1. /\ [NoOp EXCEPT !.kind = "logout", !.name = n, !.cfg = g] \in OpType
        /\ [NoOp EXCEPT !.kind = "logout", !.name = n, !.cfg = g].name = n
        /\ [NoOp EXCEPT !.kind = "logout", !.name = n, !.cfg = g].client = None
    BY DEF NoOp, OpType, Kinds
  <2> QED BY <1>2, <2>1, LookupStep DEF BeginLogout
<1>3. ASSUME NEW ns \in {{n} : n \in Names} \cup {Names}, BeginForget(p, ns)
      PROVE  SessionInv'
  <2> DEFINE taken == {sessions[n] : n \in ns} \ {None}
  <2> DEFINE o == [NoOp EXCEPT !.kind = "forget", !.todo = taken]
  <2>1. ns \subseteq Names
    OBVIOUS
  <2>2. taken \subseteq Sessions
    BY <2>1 DEF SessionInv, TypeOK
  <2>3. o \in OpType
    BY <2>2 DEF NoOp, OpType, Kinds
  <2>4. Goto(p, "clear", o) /\ UNCHANGED <<sessionVars, clientVars>>
    BY <1>3 DEF BeginForget
  <2>5. Shape("clear", o) /\ "clear" \in PCs
    BY DEF Shape, PCs
  <2>6. sessions' \in [Names -> Sessions \cup {None}]
    BY <1>3 DEF BeginForget, SessionInv, TypeOK
  <2> HIDE DEF o
  <2>7. TypeOK' /\ OpShape'
    BY <2>3, <2>4, <2>5, <2>6, TypesStep DEF SessionInv, TypeOK, sessionVars, clientVars
  <2>8. LogoutWins' /\ ConnectedHasClient'
    BY <2>4 DEF SessionInv, LogoutWins, ConnectedHasClient, sessionVars
  <2>9. \A q \in Procs : Owns(q)' => Owns(q) /\ op'[q].client = op[q].client
    BY <2>3, <2>4, <2>5, GotoFacts DEF Owns, SessionInv
  <2>10. OneOwner'
    BY <2>4, <2>9 DEF SessionInv, OneOwner, SessionsOwnAlone, CallersOwnAlone,
                     sessionVars, clientVars
  <2> QED BY <2>7, <2>8, <2>10 DEF SessionInv
<1> QED BY <1>1, <1>2, <1>3 DEF Begin

(* The first critical section of connect.                                  *)
LEMMA EnterStep ==
  ASSUME SessionInv, NEW p \in Procs, Enter(p)
  PROVE  SessionInv'
<1> DEFINE s == op[p].sess
<1>0. /\ pc[p] = "enter" /\ op[p] \in OpType
      /\ s \in Sessions /\ op[p].name \in Names
      /\ op[p].cfg \in Configs \cup {None}
  BY DEF Enter, EnterRefused, EnterReuse, EnterDial, SessionInv, TypeOK, OpShape, OpType
<1>1. CASE EnterRefused(p)
  BY <1>1, NoOpType, MoveStep
  DEF EnterRefused, Return, Shape, PCs, clientVars, SessionInv, TypeOK
<1>2. CASE EnterReuse(p)
  <2>1. context' = context /\ closing' = closing
    BY <1>0, <1>2 DEF EnterReuse, Adopt, Stale, SessionInv, TypeOK
  <2>2. loggedOut[s] = FALSE
    BY <1>0, <1>2 DEF EnterReuse, SessionInv, TypeOK, LogoutWins
  <2>3. loggedOut' = loggedOut
    BY <1>0, <1>2, <2>2 DEF EnterReuse, Adopt, SessionInv, TypeOK
  <2>4. UNCHANGED <<sessions, sessionVars, endpoint, login, closing>> /\ failed' \subseteq Clients
    BY <1>2, <2>1, <2>3 DEF EnterReuse, sessionVars, SessionInv, TypeOK
  <2>5. CASE Goto(p, "take", op[p])
    BY <1>0, <2>4, <2>5, MoveStep DEF Shape, PCs
  <2>6. CASE Return(p)
    BY <2>4, <2>6, NoOpType, MoveStep DEF Return, Shape, PCs
  <2> QED BY <1>2, <2>5, <2>6 DEF EnterReuse
<1>3. CASE EnterDial(p)
  <2>1. client' = [client EXCEPT ![s] = None]
    BY <1>0, <1>3 DEF EnterDial, SessionInv, TypeOK, ConnectedHasClient
  <2>2. closing' \in {closing, closing \cup ({client[s]} \ {None})}
    BY <1>3 DEF EnterDial, Adopt
  <2>3. /\ context' \in [Sessions -> Configs \cup {None}]
        /\ state' \in [Sessions -> States] /\ state'[s] # "connected"
        /\ \A r \in Sessions \ {s} : state'[r] = state[r]
    BY <1>0, <1>3 DEF EnterDial, Adopt, SessionInv, TypeOK, States
  <2>4. /\ loggedOut' \in [Sessions -> BOOLEAN] /\ loggedOut'[s] = FALSE
        /\ \A r \in Sessions \ {s} : loggedOut'[r] = loggedOut[r]
    BY <1>0, <1>3 DEF EnterDial, Adopt, SessionInv, TypeOK
  <2>5. Goto(p, "dial", op[p]) /\ UNCHANGED <<sessions, endpoint, login, failed>>
    BY <1>3 DEF EnterDial
  <2>6. Shape("dial", op[p]) /\ "dial" \in PCs
    BY <1>0 DEF Shape, PCs
  <2>7. sessions' \in [Names -> Sessions \cup {None}]
    BY <2>5 DEF SessionInv, TypeOK
  <2> QED BY <1>0, <2>1, <2>2, <2>3, <2>4, <2>5, <2>6, <2>7, DetachStep
<1> QED BY <1>1, <1>2, <1>3 DEF Enter

(* vsphere.Connect returns: a fresh client is in the caller's hands only.  *)
LEMMA DialStep ==
  ASSUME SessionInv, NEW p \in Procs, Dial(p)
  PROVE  SessionInv'
<1>0. /\ pc[p] = "dial" /\ op[p] \in OpType /\ op[p].sess \in Sessions
      /\ op[p].name \in Names /\ op[p].cfg \in Configs \cup {None}
  BY DEF Dial, DialSucceeds, DialFails, SessionInv, TypeOK, OpShape, OpType
<1>1. CASE DialFails(p)
  <2>1. /\ [op[p] EXCEPT !.client = None] \in OpType
        /\ [op[p] EXCEPT !.client = None].client = None
        /\ [op[p] EXCEPT !.client = None].sess = op[p].sess
        /\ [op[p] EXCEPT !.client = None].name = op[p].name
    BY <1>0 DEF OpType
  <2>2. Shape("land", [op[p] EXCEPT !.client = None]) /\ "land" \in PCs
    BY <1>0, <2>1 DEF Shape, PCs
  <2> QED BY <1>1, <2>1, <2>2, MoveStep DEF DialFails, clientVars, SessionInv, TypeOK
<1>2. ASSUME NEW c \in FreeClients,
             endpoint' = [endpoint EXCEPT ![c] = op[p].cfg],
             login' = [login EXCEPT ![c] = "open"],
             Goto(p, "land", [op[p] EXCEPT !.client = c]),
             UNCHANGED <<sessions, sessionVars, closing, failed>>
      PROVE  SessionInv'
  <2> DEFINE o == [op[p] EXCEPT !.client = c]
  <2>1. /\ c \in Clients /\ c \notin closing
        /\ \A s \in Sessions : client[s] # c
        /\ \A q \in Procs : op[q].client # c
    BY <1>2 DEF FreeClients, UsedClients
  <2>2. o \in OpType /\ o.client = c /\ o.sess = op[p].sess /\ o.name = op[p].name
    BY <1>0, <2>1 DEF OpType
  <2>3. Shape("land", o) /\ "land" \in PCs
    BY <1>0, <2>2 DEF Shape, PCs
  <2>4. /\ endpoint' \in [Clients -> Configs \cup {None}]
        /\ login' \in [Clients -> {"open", "closed"}]
        /\ login'[c] = "open" /\ \A d \in Clients \ {c} : login'[d] = login[d]
    BY <1>0, <1>2, <2>1 DEF SessionInv, TypeOK
  <2>5. Goto(p, "land", o)
    BY <1>2
  <2> HIDE DEF o
  <2>6. TypeOK' /\ OpShape'
    BY <1>2, <2>2, <2>3, <2>4, <2>5, TypesStep DEF SessionInv, TypeOK, sessionVars
  <2>7. LogoutWins' /\ ConnectedHasClient'
    BY <1>2 DEF SessionInv, LogoutWins, ConnectedHasClient, sessionVars
  <2>8. /\ op'[p].client = c
        /\ \A q \in Procs \ {p} : Owns(q)' => Owns(q) /\ op'[q].client = op[q].client
    BY <2>2, <2>3, <2>5, GotoFacts DEF Owns, SessionInv
  <2>9. SessionsOwnAlone'
    BY <1>2, <2>1, <2>4, <2>8 DEF SessionInv, TypeOK, OneOwner, SessionsOwnAlone, sessionVars
  <2>10. CallersOwnAlone'
    <3>1. ASSUME NEW q \in Procs \ {p}, Owns(q)'
          PROVE  /\ login'[op'[q].client] = "open" /\ op'[q].client \notin closing'
                 /\ op'[q].client # c
                 /\ \A r \in Procs \ {q} : Owns(r)' => op'[r].client # op'[q].client
      <4>1. /\ Owns(q) /\ op'[q].client = op[q].client /\ op[q].client # c
            /\ op[q].client \in Clients
        BY <2>1, <2>8, <3>1 DEF Owns, SessionInv, TypeOK, OpType
      <4> QED BY <1>2, <2>4, <2>8, <4>1 DEF SessionInv, OneOwner, CallersOwnAlone
    <3> QED BY <1>2, <2>1, <2>4, <2>8, <3>1 DEF CallersOwnAlone
  <2> QED BY <2>6, <2>7, <2>9, <2>10 DEF SessionInv, OneOwner
<1> QED BY <1>1, <1>2 DEF Dial, DialSucceeds

(* The second critical section of connect.                                 *)
LEMMA LandStep ==
  ASSUME SessionInv, NEW p \in Procs, Land(p)
  PROVE  SessionInv'
<1> DEFINE s == op[p].sess
<1>0. /\ pc[p] = "land" /\ op[p] \in OpType /\ s \in Sessions /\ op[p].name \in Names
      /\ op[p].client \in Clients \cup {None}
  BY DEF Land, LandLoggedOut, LandFailed, LandConnected, SessionInv, TypeOK, OpShape, OpType
<1>1. CASE LandLoggedOut(p)
  <2>1. Goto(p, "idle", NoOp) /\ UNCHANGED <<sessions, sessionVars, endpoint, login, failed>>
    BY <1>1 DEF LandLoggedOut, Return
  <2>2. closing' = closing \cup ({op[p].client} \ {None}) /\ closing' \subseteq Clients
    BY <1>0, <1>1 DEF LandLoggedOut, SessionInv, TypeOK
  <2>3. TypeOK' /\ OpShape'
    BY <2>1, <2>2, NoOpType, TypesStep DEF SessionInv, TypeOK, sessionVars, Shape, PCs
  <2>4. LogoutWins' /\ ConnectedHasClient'
    BY <2>1 DEF SessionInv, LogoutWins, ConnectedHasClient, sessionVars
  <2>5. /\ ~Owns(p)'
        /\ \A q \in Procs \ {p} : Owns(q)' => Owns(q) /\ op'[q].client = op[q].client
    BY <2>1, NoOpType, GotoFacts DEF Owns, SessionInv, PCs
  <2>6. op[p].client # None => Owns(p)
    BY <1>0 DEF Owns
  <2>7. SessionsOwnAlone'
    BY <2>1, <2>2, <2>5, <2>6 DEF SessionInv, OneOwner, SessionsOwnAlone, sessionVars
  <2>8. CallersOwnAlone'
    BY <2>1, <2>2, <2>5, <2>6 DEF SessionInv, OneOwner, CallersOwnAlone
  <2> QED BY <2>3, <2>4, <2>7, <2>8 DEF SessionInv, OneOwner
<1>2. CASE LandFailed(p)
  <2>1. /\ Goto(p, "idle", NoOp) /\ UNCHANGED <<sessions, context, loggedOut, clientVars>>
        /\ client' = [client EXCEPT ![s] = None] /\ state' = [state EXCEPT ![s] = "failed"]
        /\ ~loggedOut[s]
    BY <1>2 DEF LandFailed, Return
  <2>2. client' \in [Sessions -> Clients \cup {None}] /\ state' \in [Sessions -> States]
    BY <1>0, <2>1 DEF SessionInv, TypeOK, States
  <2>3. TypeOK' /\ OpShape'
    BY <2>1, <2>2, NoOpType, TypesStep DEF SessionInv, TypeOK, clientVars, Shape, PCs
  <2>4. LogoutWins' /\ ConnectedHasClient'
    BY <1>0, <2>1 DEF SessionInv, TypeOK, LogoutWins, ConnectedHasClient
  <2>5. \A q \in Procs : Owns(q)' => Owns(q) /\ op'[q].client = op[q].client
    BY <2>1, NoOpType, GotoFacts DEF Owns, SessionInv, PCs
  <2>6. \A r \in Sessions : client'[r] # None => client'[r] = client[r]
    BY <1>0, <2>1 DEF SessionInv, TypeOK
  <2>7. OneOwner'
    BY <2>1, <2>5, <2>6 DEF SessionInv, OneOwner, SessionsOwnAlone, CallersOwnAlone, clientVars
  <2> QED BY <2>3, <2>4, <2>7 DEF SessionInv
<1>3. CASE LandConnected(p)
  <2>1. /\ UNCHANGED <<sessions, context, loggedOut, clientVars>>
        /\ client' = [client EXCEPT ![s] = op[p].client]
        /\ state' = [state EXCEPT ![s] = "connected"]
        /\ ~loggedOut[s] /\ op[p].client # None
    BY <1>3 DEF LandConnected
  <2>2. PICK l \in {"take", "idle"}, o \in OpType : Goto(p, l, o) /\ Shape(l, o)
    <3>1. CASE Return(p)
      BY <3>1, NoOpType DEF Return, Shape
    <3>2. CASE Goto(p, "take", [op[p] EXCEPT !.client = None])
      <4>1. /\ [op[p] EXCEPT !.client = None] \in OpType
            /\ [op[p] EXCEPT !.client = None].sess = s
            /\ [op[p] EXCEPT !.client = None].name = op[p].name
        BY <1>0 DEF OpType
      <4> QED BY <1>0, <3>2, <4>1 DEF Shape
    <3> QED BY <1>3, <3>1, <3>2 DEF LandConnected
  <2>3. client' \in [Sessions -> Clients \cup {None}] /\ state' \in [Sessions -> States]
    BY <1>0, <2>1 DEF SessionInv, TypeOK, States
  <2>4. l \in PCs
    BY DEF PCs
  <2>5. TypeOK' /\ OpShape'
    BY <2>1, <2>2, <2>3, <2>4, TypesStep DEF SessionInv, TypeOK, clientVars
  <2>6. LogoutWins' /\ ConnectedHasClient'
    BY <1>0, <2>1 DEF SessionInv, TypeOK, LogoutWins, ConnectedHasClient
  <2>7. /\ Owns(p) /\ ~Owns(p)'
        /\ \A q \in Procs \ {p} : Owns(q)' => Owns(q) /\ op'[q].client = op[q].client
    BY <1>0, <2>1, <2>2, <2>4, GotoFacts DEF Owns, SessionInv
  <2>8. client'[s] = op[p].client /\ \A r \in Sessions \ {s} : client'[r] = client[r]
    BY <1>0, <2>1 DEF SessionInv, TypeOK
  <2>9. SessionsOwnAlone'
    BY <2>1, <2>7, <2>8
    DEF SessionInv, OneOwner, SessionsOwnAlone, CallersOwnAlone, clientVars
  <2>10. CallersOwnAlone'
    BY <2>1, <2>7 DEF SessionInv, OneOwner, CallersOwnAlone, clientVars
  <2> QED BY <2>5, <2>6, <2>9, <2>10 DEF SessionInv, OneOwner
<1> QED BY <1>1, <1>2, <1>3 DEF Land

(* Using the client, and asking for it to be dropped.                      *)
LEMMA UseStep ==
  ASSUME SessionInv, NEW p \in Procs,
         TakeClient(p) \/ Use(p) \/ DropFind(p) \/ Reconnect(p)
  PROVE  SessionInv'
<1>0. op[p] \in OpType /\ (pc[p] = "take" => op[p].sess \in Sessions /\ op[p].name \in Names)
      /\ (pc[p] \in {"use", "dropFind", "again"} => op[p].name \in Names)
      /\ (pc[p] \in {"use", "dropFind"} => op[p].client \in Clients)
  BY DEF SessionInv, TypeOK, OpShape
<1>1. CASE TakeClient(p)
  <2> DEFINE c == client[op[p].sess]
  <2>0. c \in Clients \cup {None}
    BY <1>0, <1>1 DEF TakeClient, SessionInv, TypeOK
  <2>1. CASE c = None
    BY <1>1, <2>1, NoOpType, MoveStep
    DEF TakeClient, Return, Shape, PCs, clientVars, SessionInv, TypeOK
  <2>2. CASE c # None
    <3>1. /\ [op[p] EXCEPT !.client = c] \in OpType
          /\ [op[p] EXCEPT !.client = c].client = c
          /\ [op[p] EXCEPT !.client = c].name = op[p].name
      BY <1>0, <2>0 DEF OpType
    <3>2. Shape("use", [op[p] EXCEPT !.client = c]) /\ "use" \in PCs
      BY <1>0, <1>1, <2>0, <2>2, <3>1 DEF Shape, PCs, TakeClient
    <3> QED BY <1>1, <2>2, <3>1, <3>2, MoveStep
            DEF TakeClient, clientVars, SessionInv, TypeOK
  <2> QED BY <2>1, <2>2
<1>2. CASE UseAnswered(p)
  BY <1>2, NoOpType, MoveStep
  DEF UseAnswered, Return, Shape, PCs, clientVars, SessionInv, TypeOK
<1>3. CASE UseLost(p)
  <2>1. failed' \subseteq Clients
    BY <1>3 DEF UseLost, Suspect, SessionInv, TypeOK
  <2>2. CASE op[p].again
    BY <1>3, <2>1, <2>2, NoOpType, MoveStep DEF UseLost, Return, Shape, PCs
  <2>3. CASE ~op[p].again
    <3>1. Shape("dropFind", op[p]) /\ "dropFind" \in PCs
      BY <1>0, <1>3 DEF Shape, PCs, UseLost
    <3> QED BY <1>0, <1>3, <2>1, <2>3, <3>1, MoveStep DEF UseLost
  <2> QED BY <2>2, <2>3
<1>4. CASE DropFind(p)
  <2> DEFINE s == sessions[op[p].name]
  <2>0. s \in Sessions \cup {None} /\ op[p].client \in Clients /\ op[p].name \in Names
    BY <1>0, <1>4 DEF DropFind, SessionInv, TypeOK
  <2>1. /\ \A r \in Sessions \cup {None} :
             /\ [op[p] EXCEPT !.sess = r] \in OpType
             /\ [op[p] EXCEPT !.sess = r].sess = r
             /\ [op[p] EXCEPT !.sess = r].client = op[p].client
             /\ [op[p] EXCEPT !.sess = r].name = op[p].name
    BY <1>0 DEF OpType
  <2>2. CASE s = None
    <3>1. Shape("again", [op[p] EXCEPT !.sess = None]) /\ "again" \in PCs
      BY <2>0, <2>1 DEF Shape, PCs
    <3> QED BY <1>4, <2>1, <2>2, <3>1, MoveStep DEF DropFind, clientVars, SessionInv, TypeOK
  <2>3. CASE s # None
    <3>1. Shape("drop", [op[p] EXCEPT !.sess = s]) /\ "drop" \in PCs
      BY <2>0, <2>1, <2>3 DEF Shape, PCs
    <3> QED BY <1>4, <2>0, <2>1, <2>3, <3>1, MoveStep
            DEF DropFind, clientVars, SessionInv, TypeOK
  <2> QED BY <2>2, <2>3
<1>5. CASE Reconnect(p)
  <2>1. /\ [op[p] EXCEPT !.again = TRUE, !.client = None] \in OpType
        /\ [op[p] EXCEPT !.again = TRUE, !.client = None].client = None
        /\ [op[p] EXCEPT !.again = TRUE, !.client = None].name = op[p].name
    BY <1>0 DEF OpType
  <2> QED BY <1>0, <1>5, <2>1, LookupStep DEF Reconnect
<1> QED BY <1>1, <1>2, <1>3, <1>4, <1>5 DEF Use

(* Drop detaches the client that failed, or does nothing.                  *)
LEMMA DropStep ==
  ASSUME SessionInv, NEW p \in Procs, Drop(p)
  PROVE  SessionInv'
<1> DEFINE s == op[p].sess
<1> DEFINE o == [op[p] EXCEPT !.sess = None]
<1>0. /\ pc[p] = "drop" /\ op[p] \in OpType /\ s \in Sessions /\ op[p].name \in Names
      /\ op[p].client \in Clients
  BY DEF Drop, SessionInv, TypeOK, OpShape
<1>1. o \in OpType /\ o.name = op[p].name
  BY <1>0 DEF OpType
<1>2. Shape("again", o) /\ "again" \in PCs
  BY <1>0, <1>1 DEF Shape, PCs
<1>3. /\ Goto(p, "again", o)
      /\ UNCHANGED <<sessions, context, loggedOut, endpoint, login, failed>>
  BY DEF Drop
<1>4. CASE client[s] = op[p].client
  <2>1. /\ client' = [client EXCEPT ![s] = None]
        /\ state' = [state EXCEPT ![s] = "disconnected"]
        /\ closing' = closing \cup {op[p].client}
    BY <1>4 DEF Drop, Detach
  <2>2. closing' = closing \cup ({client[s]} \ {None})
    BY <1>0, <1>4, <2>1, NoneAssumption
  <2>3. /\ state' \in [Sessions -> States] /\ state'[s] = "disconnected"
        /\ \A r \in Sessions \ {s} : state'[r] = state[r]
    BY <1>0, <2>1 DEF SessionInv, TypeOK, States
  <2> HIDE DEF o
  <2> QED BY <1>0, <1>1, <1>2, <1>3, <2>1, <2>2, <2>3, DetachStep DEF SessionInv, TypeOK
<1>5. CASE client[s] # op[p].client
  <2>1. UNCHANGED <<client, state, closing>>
    BY <1>5 DEF Drop
  <2> HIDE DEF o
  <2> QED BY <1>1, <1>2, <1>3, <2>1, MoveStep DEF sessionVars, SessionInv, TypeOK
<1> QED BY <1>4, <1>5

(* Logout, and the clearing loop of Forget and Close.                      *)
LEMMA ClearStep ==
  ASSUME SessionInv, NEW p \in Procs, Logout(p) \/ ClearOne(p)
  PROVE  SessionInv'
<1>1. CASE Logout(p)
  <2> DEFINE s == op[p].sess
  <2>0. pc[p] = "logout" /\ s \in Sessions /\ client[s] \in Clients \cup {None}
    BY <1>1 DEF Logout, SessionInv, TypeOK, OpShape
  <2>1. /\ client' = [client EXCEPT ![s] = None]
        /\ state' = [state EXCEPT ![s] = "disconnected"]
        /\ loggedOut' = [loggedOut EXCEPT ![s] = TRUE]
        /\ UNCHANGED <<sessions, context, clientVars>>
    BY <1>1 DEF Logout, Detach
  <2>2. /\ state' \in [Sessions -> States] /\ state'[s] = "disconnected"
        /\ \A r \in Sessions \ {s} : state'[r] = state[r]
        /\ loggedOut' \in [Sessions -> BOOLEAN]
        /\ \A r \in Sessions \ {s} : loggedOut'[r] = loggedOut[r]
    BY <2>0, <2>1 DEF SessionInv, TypeOK, States
  <2>3. PICK l \in {"idle", "closing"}, o \in OpType :
           Goto(p, l, o) /\ Shape(l, o) /\ (l = "closing" => o.client = client[s])
    <3>1. CASE client[s] = None
      BY <1>1, <3>1, NoOpType DEF Logout, Return, Shape
    <3>2. CASE client[s] # None
      <4>1. /\ [NoOp EXCEPT !.kind = "logout", !.client = client[s]] \in OpType
            /\ [NoOp EXCEPT !.kind = "logout", !.client = client[s]].client = client[s]
        BY <2>0 DEF NoOp, OpType, Kinds
      <4> QED BY <1>1, <2>0, <3>2, <4>1 DEF Logout, Shape
    <3> QED BY <3>1, <3>2
  <2>4. l \in PCs
    BY DEF PCs
  <2> QED BY <2>0, <2>1, <2>2, <2>3, <2>4, DetachStep DEF clientVars, SessionInv, TypeOK
<1>2. CASE ClearOne(p)
  <2>1. PICK s \in op[p].todo :
           LET rest == [op[p] EXCEPT !.todo = @ \ {s}] IN
           /\ pc[p] = "clear"
           /\ Detach(s)
           /\ IF client[s] # None THEN Goto(p, "closing", [rest EXCEPT !.client = client[s]])
              ELSE IF rest.todo # {} THEN Goto(p, "clear", rest)
              ELSE Return(p)
           /\ UNCHANGED <<sessions, context, loggedOut, clientVars>>
    BY <1>2 DEF ClearOne
  <2> DEFINE rest == [op[p] EXCEPT !.todo = @ \ {s}]
  <2>2. s \in Sessions /\ client[s] \in Clients \cup {None} /\ op[p] \in OpType
    BY <2>1 DEF SessionInv, TypeOK, OpType
  <2>3. /\ client' = [client EXCEPT ![s] = None]
        /\ state' = [state EXCEPT ![s] = "disconnected"]
    BY <2>1 DEF Detach
  <2>4. /\ state' \in [Sessions -> States] /\ state'[s] = "disconnected"
        /\ \A r \in Sessions \ {s} : state'[r] = state[r]
    BY <2>2, <2>3 DEF SessionInv, TypeOK, States
  <2>5. PICK l \in {"idle", "clear", "closing"}, o \in OpType :
           Goto(p, l, o) /\ Shape(l, o) /\ (l = "closing" => o.client = client[s])
    <3>0. rest \in OpType
      BY <2>2 DEF OpType
    <3>1. CASE client[s] # None
      <4>1. /\ [rest EXCEPT !.client = client[s]] \in OpType
            /\ [rest EXCEPT !.client = client[s]].client = client[s]
        BY <2>2, <3>0 DEF OpType
      <4> QED BY <2>1, <2>2, <3>1, <4>1 DEF Shape
    <3>2. CASE client[s] = None /\ rest.todo # {}
      BY <2>1, <3>0, <3>2 DEF Shape
    <3>3. CASE client[s] = None /\ rest.todo = {}
      BY <2>1, <3>3, NoOpType DEF Shape, Return
    <3> QED BY <3>1, <3>2, <3>3
  <2>6. l \in PCs /\ pc[p] = "clear"
    BY <2>1 DEF PCs
  <2> QED BY <2>1, <2>2, <2>3, <2>4, <2>5, <2>6, DetachStep DEF clientVars, SessionInv, TypeOK
<1> QED BY <1>1, <1>2

(* A Close that returns: its client had no other owner.                    *)
LEMMA CloseReturnsStep ==
  ASSUME SessionInv, NEW p \in Procs, CloseReturns(p)
  PROVE  SessionInv'
<1> DEFINE c == op[p].client
<1>0. pc[p] = "closing" /\ op[p] \in OpType /\ c \in Clients /\ c # None /\ Owns(p)
  BY NoneAssumption DEF CloseReturns, SessionInv, TypeOK, OpShape, Owns
<1>1. /\ Closed(c) /\ UNCHANGED <<sessions, sessionVars, closing>>
  BY DEF CloseReturns
<1>2. PICK l \in {"idle", "clear"}, o \in OpType : Goto(p, l, o) /\ Shape(l, o)
  <2>1. [op[p] EXCEPT !.client = None] \in OpType
    BY <1>0 DEF OpType
  <2> QED BY <2>1, NoOpType DEF CloseReturns, Return, Shape
<1>3. l \in PCs
  BY DEF PCs
<1>4. /\ endpoint' \in [Clients -> Configs \cup {None}]
      /\ login' \in [Clients -> {"open", "closed"}] /\ failed' \subseteq Clients
      /\ \A d \in Clients \ {c} : login'[d] = login[d]
  BY <1>0, <1>1 DEF Closed, SessionInv, TypeOK
<1>5. TypeOK' /\ OpShape'
  BY <1>1, <1>2, <1>3, <1>4, TypesStep DEF SessionInv, TypeOK, sessionVars
<1>6. LogoutWins' /\ ConnectedHasClient'
  BY <1>1 DEF SessionInv, LogoutWins, ConnectedHasClient, sessionVars
<1>7. /\ ~Owns(p)'
      /\ \A q \in Procs \ {p} : Owns(q)' => Owns(q) /\ op'[q].client = op[q].client
  BY <1>2, <1>3, GotoFacts DEF Owns, SessionInv
<1>8. SessionsOwnAlone'
  BY <1>0, <1>1, <1>4, <1>7 DEF SessionInv, TypeOK, OneOwner, SessionsOwnAlone, sessionVars
<1>9. CallersOwnAlone'
  <2>1. ASSUME NEW q \in Procs \ {p}, Owns(q)'
        PROVE  Owns(q) /\ op'[q].client = op[q].client /\ op[q].client \in Clients \ {c}
    BY <1>0, <1>7, <2>1 DEF SessionInv, TypeOK, OpType, OneOwner, CallersOwnAlone, Owns
  <2> QED BY <1>1, <1>4, <1>7, <2>1 DEF SessionInv, OneOwner, CallersOwnAlone
<1> QED BY <1>5, <1>6, <1>8, <1>9 DEF SessionInv, OneOwner

LEMMA BackgroundCloseStep ==
  ASSUME SessionInv, NEW c \in Clients, BackgroundClose(c)
  PROVE  SessionInv'
<1>1. /\ c \in closing /\ closing' = closing \ {c} /\ Closed(c)
      /\ UNCHANGED <<sessions, sessionVars, pc, op>>
  BY DEF BackgroundClose
<1>2. /\ endpoint' \in [Clients -> Configs \cup {None}]
      /\ login' \in [Clients -> {"open", "closed"}] /\ failed' \subseteq Clients
      /\ \A d \in Clients \ {c} : login'[d] = login[d]
  BY <1>1 DEF Closed, SessionInv, TypeOK
<1>3. TypeOK' /\ OpShape' /\ LogoutWins' /\ ConnectedHasClient'
  BY <1>1, <1>2 DEF SessionInv, TypeOK, OpShape, LogoutWins, ConnectedHasClient, sessionVars
<1>4. SessionsOwnAlone'
  BY <1>1, <1>2 DEF SessionInv, TypeOK, OneOwner, SessionsOwnAlone, Owns, sessionVars
<1>5. CallersOwnAlone'
  BY <1>1, <1>2 DEF SessionInv, TypeOK, OpType, OneOwner, CallersOwnAlone, Owns
<1> QED BY <1>3, <1>4, <1>5 DEF SessionInv, OneOwner

(* The inductive invariant holds in every reachable state.                 *)
THEOREM SessionInvariant == Spec => []SessionInv
<1>1. ASSUME SessionInv, [Next]_vars PROVE SessionInv'
  <2>1. ASSUME NEW p \in Procs, Begin(p) \/ Continue(p) PROVE SessionInv'
    BY <1>1, <2>1, BeginStep, EnterStep, DialStep, LandStep, UseStep, DropStep,
       ClearStep, CloseReturnsStep DEF Continue
  <2>2. ASSUME NEW c \in Clients, BackgroundClose(c) PROVE SessionInv'
    BY <1>1, <2>2, BackgroundCloseStep
  <2>3. CASE UNCHANGED vars
    BY <1>1, <2>3 DEF vars, sessionVars, clientVars, SessionInv, TypeOK, OpShape, LogoutWins,
       ConnectedHasClient, OneOwner, SessionsOwnAlone, CallersOwnAlone, Owns
  <2> QED BY <1>1, <2>1, <2>2, <2>3 DEF Next
<1> QED BY <1>1, SessionInvInit, PTL DEF Spec

(* A logout the operator asked for is never undone by a login that was in  *)
(* flight: the session stays without a client until an explicit Login.     *)
THEOREM LogoutWinsHolds == Spec => []LogoutWins
<1>1. SessionInv => LogoutWins
  BY DEF SessionInv
<1> QED BY <1>1, SessionInvariant, PTL

(* The status a session shows and the client it hands out never disagree.  *)
THEOREM ConnectedHasClientHolds == Spec => []ConnectedHasClient
<1>1. SessionInv => ConnectedHasClient
  BY DEF SessionInv
<1> QED BY <1>1, SessionInvariant, PTL

(* No client is handed out by two sessions, or by a session while it is    *)
(* being logged out of or after it was closed.                             *)
THEOREM OneOwnerHolds == Spec => []OneOwner
<1>1. SessionInv => OneOwner
  BY DEF SessionInv
<1> QED BY <1>1, SessionInvariant, PTL

-----------------------------------------------------------------------------
(* Who moves, and to where.                                                *)
MovesElsewhere(p) == \E l, o : l \notin {"dropFind", "drop"} /\ Goto(p, l, o)

LEMMA EveryStepMoves ==
  ASSUME NEW p \in Procs, Begin(p) \/ Continue(p)
  PROVE  \/ MovesElsewhere(p)
         \/ UseLost(p) /\ Goto(p, "dropFind", op[p])
         \/ DropFind(p) /\ Goto(p, "drop", [op[p] EXCEPT !.sess = sessions[op[p].name]])
<1>1. Begin(p) => MovesElsewhere(p)
  <2>1. ASSUME NEW k, NEW n, NEW g, BeginConnect(p, k, n, g) PROVE MovesElsewhere(p)
    BY <2>1 DEF BeginConnect, Lookup, MovesElsewhere
  <2>2. ASSUME NEW n, NEW g, BeginLogout(p, n, g) PROVE MovesElsewhere(p)
    BY <2>2 DEF BeginLogout, Lookup, MovesElsewhere
  <2>3. ASSUME NEW ns, BeginForget(p, ns) PROVE MovesElsewhere(p)
    BY <2>3 DEF BeginForget, MovesElsewhere
  <2> QED BY <2>1, <2>2, <2>3 DEF Begin
<1>2. Enter(p) \/ Dial(p) \/ Land(p) => MovesElsewhere(p)
  BY DEF Enter, EnterRefused, EnterReuse, EnterDial, Dial, DialSucceeds, DialFails,
         Land, LandLoggedOut, LandFailed, LandConnected, Return, MovesElsewhere
<1>3. TakeClient(p) \/ UseAnswered(p) \/ Drop(p) \/ Reconnect(p) => MovesElsewhere(p)
  BY DEF TakeClient, UseAnswered, Drop, Reconnect, Lookup, Return, MovesElsewhere
<1>4. Logout(p) \/ ClearOne(p) \/ CloseReturns(p) => MovesElsewhere(p)
  BY DEF Logout, ClearOne, CloseReturns, Return, MovesElsewhere
<1>5. UseLost(p) => MovesElsewhere(p) \/ Goto(p, "dropFind", op[p])
  BY DEF UseLost, Return, MovesElsewhere
<1>6. DropFind(p) => \/ MovesElsewhere(p)
                    \/ Goto(p, "drop", [op[p] EXCEPT !.sess = sessions[op[p].name]])
  BY DEF DropFind, MovesElsewhere
<1> QED BY <1>1, <1>2, <1>3, <1>4, <1>5, <1>6 DEF Continue, Use

LEMMA OthersStay ==
  ASSUME TypeOK, NEW p \in Procs, Begin(p) \/ Continue(p)
  PROVE  \A q \in Procs \ {p} : pc'[q] = pc[q] /\ op'[q] = op[q]
BY EveryStepMoves DEF MovesElsewhere, Goto, TypeOK

(* What is known of the clients changes only where one is logged in, seen  *)
(* to fail, or closed.                                                     *)
LEMMA ClientsKept ==
  ASSUME NEW p \in Procs, Begin(p) \/ Continue(p), ~DialSucceeds(p), ~CloseReturns(p), ~UseLost(p)
  PROVE  UNCHANGED <<failed, login, endpoint>>
<1>1. Begin(p) => UNCHANGED <<failed, login, endpoint>>
  BY DEF Begin, BeginConnect, BeginLogout, BeginForget, clientVars
<1>2. Enter(p) \/ DialFails(p) \/ Land(p) => UNCHANGED <<failed, login, endpoint>>
  BY DEF Enter, EnterRefused, EnterReuse, EnterDial, DialFails,
         Land, LandLoggedOut, LandFailed, LandConnected, clientVars
<1>3. TakeClient(p) \/ UseAnswered(p) \/ DropFind(p) \/ Drop(p) \/ Reconnect(p)
         => UNCHANGED <<failed, login, endpoint>>
  BY DEF TakeClient, UseAnswered, DropFind, Drop, Reconnect, clientVars
<1>4. Logout(p) \/ ClearOne(p) => UNCHANGED <<failed, login, endpoint>>
  BY DEF Logout, ClearOne, clientVars
<1> QED BY <1>1, <1>2, <1>3, <1>4 DEF Continue, Dial, Use

-----------------------------------------------------------------------------
(* A caller arrives at a drop with a client it has just seen fail.         *)
LEMMA SuspectsStay ==
  ASSUME SessionInv, SuspectsFailed, [Next]_vars
  PROVE  SuspectsFailed'
<1> SUFFICES ASSUME NEW p \in Procs, pc'[p] \in {"dropFind", "drop"}
             PROVE  op'[p].client \in failed' \/ login'[op'[p].client] = "closed"
  BY DEF SuspectsFailed
<1>1. /\ pc \in [Procs -> PCs] /\ op \in [Procs -> OpType] /\ failed \subseteq Clients
      /\ login \in [Clients -> {"open", "closed"}]
  BY DEF SessionInv, TypeOK
<1>2. ASSUME op'[p].client = op[p].client, pc[p] \in {"dropFind", "drop"},
             UNCHANGED <<failed, login>>
      PROVE  op'[p].client \in failed' \/ login'[op'[p].client] = "closed"
  BY <1>2 DEF SuspectsFailed
<1>3. ASSUME NEW c \in Clients, Closed(c), op'[p] = op[p], pc'[p] = pc[p]
      PROVE  op'[p].client \in failed' \/ login'[op'[p].client] = "closed"
  BY <1>1, <1>3 DEF Closed, SuspectsFailed
<1>4. CASE UNCHANGED vars
  BY <1>2, <1>4 DEF vars, clientVars
<1>5. ASSUME NEW c \in Clients, BackgroundClose(c)
      PROVE  op'[p].client \in failed' \/ login'[op'[p].client] = "closed"
  BY <1>3, <1>5 DEF BackgroundClose
<1>6. ASSUME NEW q \in Procs, q # p, Begin(q) \/ Continue(q)
      PROVE  op'[p].client \in failed' \/ login'[op'[p].client] = "closed"
  <2>1. op'[p] = op[p] /\ pc'[p] = pc[p]
    BY <1>1, <1>6, OthersStay DEF SessionInv
  <2>2. CASE DialSucceeds(q)
    <3>1. PICK c \in FreeClients : login' = [login EXCEPT ![c] = "open"] /\ failed' = failed
      BY <2>2 DEF DialSucceeds
    <3>2. c # op[p].client
      BY DEF FreeClients, UsedClients
    <3> QED BY <1>1, <2>1, <3>1, <3>2 DEF SuspectsFailed
  <2>3. CASE CloseReturns(q)
    <3>1. op[q].client \in Clients
      BY <2>3 DEF CloseReturns, SessionInv, OpShape
    <3> QED BY <1>3, <2>1, <2>3, <3>1 DEF CloseReturns
  <2>4. CASE UseLost(q)
    BY <2>1, <2>4 DEF UseLost, Suspect, SuspectsFailed
  <2>5. CASE ~DialSucceeds(q) /\ ~CloseReturns(q) /\ ~UseLost(q)
    <3>1. UNCHANGED <<failed, login>>
      BY <1>6, <2>5, ClientsKept
    <3> QED BY <1>2, <2>1, <3>1
  <2> QED BY <2>2, <2>3, <2>4, <2>5
<1>7. ASSUME Begin(p) \/ Continue(p)
      PROVE  op'[p].client \in failed' \/ login'[op'[p].client] = "closed"
  <2>1. ~MovesElsewhere(p)
    BY <1>1 DEF MovesElsewhere, Goto
  <2>2. CASE UseLost(p) /\ Goto(p, "dropFind", op[p])
    <3>1. op'[p] = op[p] /\ Suspect(p) /\ login' = login /\ op[p].client \in Clients
      BY <1>1, <2>2 DEF UseLost, Goto, SessionInv, OpShape
    <3> QED BY <1>1, <3>1 DEF Suspect
  <2>3. CASE DropFind(p) /\ Goto(p, "drop", [op[p] EXCEPT !.sess = sessions[op[p].name]])
    <3>1. op'[p].client = op[p].client /\ pc[p] = "dropFind"
      BY <1>1, <2>3 DEF DropFind, Goto, OpType
    <3> QED BY <1>2, <2>3, <3>1 DEF DropFind, clientVars
  <2> QED BY <1>7, <2>1, <2>2, <2>3, EveryStepMoves
<1> QED BY <1>4, <1>5, <1>6, <1>7 DEF Next

(* A Drop takes away only a client somebody saw fail: two requests that    *)
(* both saw a dead session leave alone the fresh one the first of them     *)
(* made (the comparison under Session.mu in Drop).                         *)
THEOREM DropSparesReplacementHolds == Spec => DropSparesReplacement
<1> DEFINE Spares == \A p \in Procs, s \in Sessions :
              (/\ pc[p] = "drop" /\ pc'[p] # "drop"
               /\ client[s] # None /\ client'[s] # client[s])
                  => client[s] \in failed
<1>1. ASSUME SessionInv, SuspectsFailed, [Next]_vars
      PROVE  Spares
  <2> SUFFICES ASSUME NEW p \in Procs, NEW s \in Sessions, pc[p] = "drop", pc'[p] # "drop",
                      client[s] # None, client'[s] # client[s]
               PROVE  client[s] \in failed
    OBVIOUS
  <2>1. Begin(p) \/ Continue(p)
    <3>1. CASE UNCHANGED vars
      BY <3>1 DEF vars
    <3>2. ASSUME NEW c \in Clients, BackgroundClose(c)
          PROVE  FALSE
      BY <3>2 DEF BackgroundClose
    <3>3. ASSUME NEW q \in Procs, q # p, Begin(q) \/ Continue(q)
          PROVE  FALSE
      BY <1>1, <3>3, OthersStay DEF SessionInv
    <3> QED BY <1>1, <3>1, <3>2, <3>3 DEF Next
  <2>2. Drop(p)
    BY <2>1 DEF Begin, BeginConnect, BeginLogout, BeginForget, Continue, Enter, EnterRefused,
      EnterReuse, EnterDial, Dial, DialSucceeds, DialFails, Land, LandLoggedOut, LandFailed,
      LandConnected, TakeClient, Use, UseAnswered, UseLost, DropFind, Reconnect, Logout,
      ClearOne, CloseReturns
  <2>3. client[s] = op[p].client
    BY <1>1, <2>2 DEF Drop, Detach, SessionInv, TypeOK
  <2>4. login[client[s]] = "open"
    BY <1>1 DEF SessionInv, OneOwner, SessionsOwnAlone
  <2> QED BY <1>1, <2>3, <2>4 DEF SuspectsFailed
<1>2. ASSUME SessionInv, SuspectsFailed, [Next]_vars
      PROVE  [Spares]_vars
  BY <1>1, <1>2
<1>3. Init => SuspectsFailed
  BY DEF Init, SuspectsFailed
<1> QED BY <1>2, <1>3, SuspectsStay, SessionInvariant, PTL DEF Spec, DropSparesReplacement

(* Of everything that runs in the background nothing undoes a logout: a    *)
(* session in use is logged out until an explicit Login enters (connect).  *)
THEOREM OnlyLoginUndoesLogoutHolds == Spec => OnlyLoginUndoesLogout
<1> DEFINE Only == \A s \in UsedSessions \ {None} :
              (loggedOut[s] /\ ~loggedOut'[s])
                  => \E p \in Procs : /\ op[p].kind = "login" /\ op[p].sess = s
                                      /\ pc[p] = "enter" /\ pc'[p] # "enter"
<1>1. ASSUME SessionInv, Next
      PROVE  Only
  <2> SUFFICES ASSUME NEW s \in UsedSessions \ {None}, loggedOut[s], ~loggedOut'[s]
               PROVE  \E p \in Procs : /\ op[p].kind = "login" /\ op[p].sess = s
                                       /\ pc[p] = "enter" /\ pc'[p] # "enter"
    OBVIOUS
  <2>1. s \in Sessions
    BY <1>1 DEF SessionInv, TypeOK, UsedSessions, OpType
  <2>2. ASSUME NEW p \in Procs, NEW o, NEW l, Lookup(p, o, l)
        PROVE  FALSE
    <3>1. loggedOut' # loggedOut
      OBVIOUS
    <3>2. PICK r \in FreeSessions : loggedOut' = [loggedOut EXCEPT ![r] = FALSE]
      BY <2>2, <3>1 DEF Lookup, sessionVars
    <3>3. r # s
      BY DEF FreeSessions
    <3> QED BY <1>1, <2>1, <3>2, <3>3 DEF SessionInv, TypeOK
  <2>3. ASSUME NEW p \in Procs, Begin(p)
        PROVE  FALSE
    BY <2>2, <2>3 DEF Begin, BeginConnect, BeginLogout, BeginForget, sessionVars
  <2>4. ASSUME NEW p \in Procs, EnterReuse(p) \/ EnterDial(p)
        PROVE  \E q \in Procs : /\ op[q].kind = "login" /\ op[q].sess = s
                                /\ pc[q] = "enter" /\ pc'[q] # "enter"
    <3>1. loggedOut' = [loggedOut EXCEPT ![op[p].sess] = FALSE] /\ pc[p] = "enter"
      BY <2>4 DEF EnterReuse, EnterDial, Adopt
    <3>2. s = op[p].sess
      BY <1>1, <2>1, <3>1 DEF SessionInv, TypeOK
    <3>3. op[p].kind = "login"
      BY <2>4, <3>2 DEF EnterReuse, EnterDial, Explicit
    <3>4. pc'[p] # "enter"
      BY <1>1, <2>4 DEF EnterReuse, EnterDial, Goto, Return, SessionInv, TypeOK
    <3> QED BY <3>1, <3>2, <3>3, <3>4
  <2>5. ASSUME NEW p \in Procs, Logout(p)
        PROVE  FALSE
    BY <1>1, <2>1, <2>5 DEF Logout, SessionInv, TypeOK
  <2>6. ASSUME NEW p \in Procs, Continue(p), ~EnterReuse(p), ~EnterDial(p), ~Logout(p)
        PROVE  FALSE
    <3>1. ~Reconnect(p)
      BY <2>2 DEF Reconnect
    <3>2. loggedOut' = loggedOut
      BY <2>6, <3>1 DEF Continue, Enter, EnterRefused, Dial, DialSucceeds, DialFails,
         Land, LandLoggedOut, LandFailed, LandConnected, TakeClient, Use, UseAnswered, UseLost,
         DropFind, Drop, ClearOne, CloseReturns, sessionVars
    <3> QED BY <3>2
  <2>7. ASSUME NEW c \in Clients, BackgroundClose(c)
        PROVE  FALSE
    BY <2>7 DEF BackgroundClose, sessionVars
  <2> QED BY <1>1, <2>3, <2>4, <2>5, <2>6, <2>7 DEF Next
<1>2. ASSUME SessionInv, [Next]_vars
      PROVE  [Only]_vars
  BY <1>1, <1>2
<1> QED BY <1>2, SessionInvariant, PTL DEF Spec, OnlyLoginUndoesLogout

-----------------------------------------------------------------------------
(* What a caller's step does to its own place and locals.                  *)
LEMMA OwnMove ==
  ASSUME SessionInv, LandingInv, NEW p \in Procs, Begin(p) \/ Continue(p)
  PROVE  /\ pc'[p] \notin {"clear", "closing"} => op'[p].todo = {}
         /\ ~Dial(p) => pc'[p] # "land"
<1> DEFINE Fine == /\ pc'[p] \notin {"clear", "closing"} => op'[p].todo = {}
                   /\ ~Dial(p) => pc'[p] # "land"
<1>1. /\ pc \in [Procs -> PCs] /\ op \in [Procs -> OpType] /\ op[p] \in OpType
      /\ pc[p] \notin {"clear", "closing"} => op[p].todo = {}
  BY DEF SessionInv, TypeOK, LandingInv
<1>2. ASSUME NEW l, NEW o, Goto(p, l, o), l \in {"clear", "closing"} \/ o.todo = {}, l # "land" \/ Dial(p)
      PROVE  Fine
  BY <1>1, <1>2 DEF Goto
<1>3. NoOp.todo = {}
  BY DEF NoOp
<1>4. ASSUME NEW o \in OpType, o.todo = {}, NEW l \in {"enter", "logout"}, Lookup(p, o, l)
      PROVE  Fine
  <2>1. \A s : [o EXCEPT !.sess = s].todo = {}
    BY <1>4 DEF OpType
  <2> QED BY <1>2, <1>4, <2>1 DEF Lookup
<1>5. ASSUME NEW o \in OpType, o.todo = {}
      PROVE  /\ \A x, b : [o EXCEPT !.again = b, !.client = x].todo = {}
             /\ \A x : [o EXCEPT !.client = x].todo = {} /\ [o EXCEPT !.sess = x].todo = {}
  BY <1>5 DEF OpType
<1>6. CASE Begin(p)
  <2>1. ASSUME NEW k \in {"login", "query"}, NEW n \in Names, NEW g \in Configs, BeginConnect(p, k, n, g)
        PROVE  Fine
    <3>1. [NoOp EXCEPT !.kind = k, !.name = n, !.cfg = g] \in OpType
          /\ [NoOp EXCEPT !.kind = k, !.name = n, !.cfg = g].todo = {}
      BY <2>1 DEF NoOp, OpType, Kinds
    <3> QED BY <1>4, <2>1, <3>1 DEF BeginConnect
  <2>2. ASSUME NEW n \in Names, NEW g \in Configs, BeginLogout(p, n, g)
        PROVE  Fine
    <3>1. [NoOp EXCEPT !.kind = "logout", !.name = n, !.cfg = g] \in OpType
          /\ [NoOp EXCEPT !.kind = "logout", !.name = n, !.cfg = g].todo = {}
      BY DEF NoOp, OpType, Kinds
    <3> QED BY <1>4, <2>2, <3>1 DEF BeginLogout
  <2>3. ASSUME NEW ns, BeginForget(p, ns) PROVE Fine
    BY <1>2, <2>3 DEF BeginForget
  <2> QED BY <1>6, <2>1, <2>2, <2>3 DEF Begin
<1>7. CASE Enter(p)
  BY <1>1, <1>2, <1>3, <1>7 DEF Enter, EnterRefused, EnterReuse, EnterDial, Return
<1>8. CASE Dial(p)
  <2>1. PICK x : Goto(p, "land", [op[p] EXCEPT !.client = x])
    BY <1>8 DEF Dial, DialSucceeds, DialFails
  <2>2. pc[p] = "dial"
    BY <1>8 DEF Dial, DialSucceeds, DialFails
  <2>3. [op[p] EXCEPT !.client = x].todo = {}
    BY <1>1, <1>5, <2>2
  <2> QED BY <1>2, <1>8, <2>1, <2>3
<1>9. CASE Land(p)
  <2>1. pc[p] = "land" /\ (Return(p) \/ Goto(p, "take", [op[p] EXCEPT !.client = None]))
    BY <1>9 DEF Land, LandLoggedOut, LandFailed, LandConnected
  <2>2. [op[p] EXCEPT !.client = None].todo = {}
    BY <1>1, <1>5, <2>1
  <2>3. Return(p) => Fine
    BY <1>2, <1>3 DEF Return
  <2>4. ASSUME NEW o, o.todo = {}, Goto(p, "take", o) PROVE Fine
    BY <1>2, <2>4
  <2> QED BY <2>1, <2>2, <2>3, <2>4
<1>10. CASE TakeClient(p)
  <2>1. pc[p] = "take" /\ (Return(p) \/ \E x : Goto(p, "use", [op[p] EXCEPT !.client = x]))
    BY <1>10 DEF TakeClient
  <2>2. \A x : [op[p] EXCEPT !.client = x].todo = {}
    BY <1>1, <1>5, <2>1
  <2>3. Return(p) => Fine
    BY <1>2, <1>3 DEF Return
  <2>4. ASSUME NEW o, o.todo = {}, Goto(p, "use", o) PROVE Fine
    BY <1>2, <2>4
  <2> QED BY <2>1, <2>2, <2>3, <2>4
<1>11. CASE Use(p)
  BY <1>1, <1>2, <1>3, <1>11 DEF Use, UseAnswered, UseLost, Return
<1>12. CASE DropFind(p) \/ Drop(p)
  <2>1. /\ pc[p] \in {"dropFind", "drop"}
        /\ \E l \in {"drop", "again"} : \E x : Goto(p, l, [op[p] EXCEPT !.sess = x])
    BY <1>12 DEF DropFind, Drop
  <2>2. \A x : [op[p] EXCEPT !.sess = x].todo = {}
    BY <1>1, <1>5, <2>1
  <2> QED BY <1>2, <2>1, <2>2
<1>13. CASE Reconnect(p)
  <2>1. pc[p] = "again" /\ Lookup(p, [op[p] EXCEPT !.again = TRUE, !.client = None], "enter")
    BY <1>13 DEF Reconnect
  <2>2. /\ [op[p] EXCEPT !.again = TRUE, !.client = None] \in OpType
        /\ [op[p] EXCEPT !.again = TRUE, !.client = None].todo = {}
    BY <1>1, <2>1 DEF OpType
  <2> QED BY <1>4, <2>1, <2>2
<1>14. CASE Logout(p)
  BY <1>2, <1>3, <1>14 DEF Logout, Return
<1>15. CASE ClearOne(p)
  <2>1. \E l, o : Goto(p, l, o) /\ l # "land" /\ (l \in {"clear", "closing"} \/ o.todo = {})
    BY <1>3, <1>15 DEF ClearOne, Return
  <2> QED BY <1>2, <2>1
<1>16. CASE CloseReturns(p)
  BY <1>2, <1>3, <1>16 DEF CloseReturns, Return
<1> QED BY <1>6, <1>7, <1>8, <1>9, <1>10, <1>11, <1>12, <1>13, <1>14, <1>15, <1>16 DEF Continue

(* Nobody closes a login that a caller is about to publish, and no new one *)
(* takes its place.                                                        *)
LEMMA LandingStays ==
  ASSUME SessionInv, LandingInv, [Next]_vars
  PROVE  LandingInv'
<1>1. /\ pc \in [Procs -> PCs] /\ op \in [Procs -> OpType] /\ None \notin Clients
      /\ endpoint \in [Clients -> Configs \cup {None}] /\ closing \subseteq Clients
  BY NoneAssumption DEF SessionInv, TypeOK
<1>2. CASE UNCHANGED vars
  BY <1>2 DEF LandingInv, vars, clientVars
<1>3. ASSUME NEW c \in Clients, BackgroundClose(c) PROVE LandingInv'
  <2>1. \A p \in Procs : pc[p] = "land" /\ op[p].client # None => op[p].client # c /\ op[p].client \in Clients
    BY <1>1, <1>3 DEF BackgroundClose, SessionInv, OneOwner, CallersOwnAlone, Owns, OpType
  <2> QED BY <1>1, <1>3, <2>1 DEF BackgroundClose, Closed, LandingInv
<1>4. ASSUME NEW p \in Procs, Begin(p) \/ Continue(p) PROVE LandingInv'
  <2>1. \A q \in Procs \ {p} : pc'[q] = pc[q] /\ op'[q] = op[q]
    BY <1>4, OthersStay DEF SessionInv
  <2>2. /\ pc'[p] \notin {"clear", "closing"} => op'[p].todo = {}
        /\ ~Dial(p) => pc'[p] # "land"
    BY <1>4, OwnMove
  <2>3. ASSUME NEW q \in Procs, q # p, pc[q] = "land", op[q].client # None
        PROVE  endpoint'[op[q].client] = endpoint[op[q].client]
    <3>1. op[q].client \in Clients
      BY <1>1, <2>3 DEF OpType
    <3>2. CASE DialSucceeds(p)
      <4>1. PICK c \in FreeClients : endpoint' = [endpoint EXCEPT ![c] = op[p].cfg]
        BY <3>2 DEF DialSucceeds
      <4>2. c # op[q].client
        BY <2>3 DEF FreeClients, UsedClients
      <4> QED BY <1>1, <3>1, <4>1, <4>2
    <3>3. CASE CloseReturns(p)
      <4>1. pc[p] = "closing" /\ endpoint' = [endpoint EXCEPT ![op[p].client] = None]
        BY <3>3 DEF CloseReturns, Closed
      <4>2. Owns(p) /\ Owns(q)
        BY <1>1, <2>3, <4>1 DEF Owns, SessionInv, OpShape
      <4>3. op[p].client # op[q].client
        BY <2>3, <4>2 DEF SessionInv, OneOwner, CallersOwnAlone
      <4> QED BY <1>1, <3>1, <4>1, <4>3
    <3>4. CASE UseLost(p)
      BY <3>4 DEF UseLost
    <3> QED BY <1>4, <3>2, <3>3, <3>4, ClientsKept
  <2>4. ASSUME Dial(p), op'[p].client # None
        PROVE  endpoint'[op'[p].client] = op'[p].cfg
    <3>1. CASE DialFails(p)
      BY <1>1, <2>4, <3>1 DEF DialFails, Goto, OpType
    <3>2. CASE DialSucceeds(p)
      <4>1. PICK c \in FreeClients : /\ endpoint' = [endpoint EXCEPT ![c] = op[p].cfg]
                                     /\ Goto(p, "land", [op[p] EXCEPT !.client = c])
        BY <3>2 DEF DialSucceeds
      <4>2. op'[p] = [op[p] EXCEPT !.client = c] /\ op[p] \in OpType /\ c \in Clients
        BY <1>1, <4>1 DEF Goto, FreeClients
      <4>3. op'[p].client = c /\ op'[p].cfg = op[p].cfg
        BY <4>2 DEF OpType
      <4> QED BY <1>1, <4>1, <4>2, <4>3
    <3> QED BY <2>4, <3>1, <3>2 DEF Dial
  <2> QED BY <2>1, <2>2, <2>3, <2>4 DEF LandingInv
<1> QED BY <1>2, <1>3, <1>4 DEF Next

-----------------------------------------------------------------------------
(* A login stays accounted for as long as the sessions that are reached    *)
(* stay reached and either keep their client or pass it to a Close, and    *)
(* the caller that moves passes on the one it owns.                        *)
Passed(p, c) == c \in closing' \/ (Owns(p)' /\ op'[p].client = c)

LEMMA KeptOn ==
  ASSUME NEW p \in Procs, NEW c \in Clients, Kept(c),
         \A q \in Procs \ {p} : pc'[q] = pc[q] /\ op'[q] = op[q],
         Owns(p) /\ op[p].client = c => Passed(p, c),
         c \in closing => c \in closing',
         \A s \in Sessions : Reached(s) /\ client[s] = c
                                => Passed(p, c) \/ (Reached(s)' /\ client'[s] = c)
  PROVE  Kept(c)'
<1>1. CASE \E s \in Sessions : Reached(s) /\ client[s] = c
  BY <1>1 DEF Kept, Passed
<1>2. CASE \E q \in Procs : Owns(q) /\ op[q].client = c
  <2>1. PICK q \in Procs : Owns(q) /\ op[q].client = c
    BY <1>2
  <2>2. CASE q = p
    BY <2>1, <2>2 DEF Kept, Passed
  <2>3. CASE q # p
    <3>1. Owns(q)' /\ op'[q].client = c
      BY <2>1, <2>3 DEF Owns
    <3> QED BY <3>1 DEF Kept
  <2> QED BY <2>2, <2>3
<1>3. CASE c \in closing
  BY <1>3 DEF Kept
<1> QED BY <1>1, <1>2, <1>3 DEF Kept

(* A session stays reached while neither the map nor the lists change.     *)
LEMMA ReachedOn ==
  ASSUME NEW p \in Procs, sessions' = sessions, op[p].todo = {} \/ op'[p].todo = op[p].todo,
         \A q \in Procs \ {p} : op'[q] = op[q]
  PROVE  \A s \in Sessions : Reached(s) => Reached(s)'
<1> SUFFICES ASSUME NEW s \in Sessions, Reached(s) PROVE Reached(s)'
  OBVIOUS
<1>1. CASE \E n \in Names : sessions[n] = s
  BY <1>1 DEF Reached
<1>2. CASE \E q \in Procs : s \in op[q].todo
  <2>1. PICK q \in Procs : s \in op[q].todo
    BY <1>2
  <2>2. s \in op'[q].todo
    BY <2>1
  <2> QED BY <2>2 DEF Reached
<1> QED BY <1>1, <1>2 DEF Reached

(* Looking a name up reaches as much as before, and takes no client away.  *)
LEMMA LookupReaches ==
  ASSUME SessionInv, NEW p \in Procs, NEW o, NEW l, Lookup(p, o, l), op[p].todo = {},
         \A q \in Procs \ {p} : op'[q] = op[q]
  PROVE  \A s \in Sessions : Reached(s) => Reached(s)' /\ client'[s] = client[s]
<1>1. CASE sessions' = sessions /\ UNCHANGED sessionVars
  BY <1>1, ReachedOn DEF sessionVars
<1>2. CASE \E s \in FreeSessions : /\ sessions[o.name] = None
                                  /\ sessions' = [sessions EXCEPT ![o.name] = s]
                                  /\ client' = [client EXCEPT ![s] = None]
  <2>1. PICK s \in FreeSessions : /\ sessions[o.name] = None
                                  /\ sessions' = [sessions EXCEPT ![o.name] = s]
                                  /\ client' = [client EXCEPT ![s] = None]
    BY <1>2
  <2>2. /\ sessions \in [Names -> Sessions \cup {None}] /\ client \in [Sessions -> Clients \cup {None}]
        /\ None \notin Sessions
    BY NoneAssumption DEF SessionInv, TypeOK
  <2>3. ASSUME NEW r \in Sessions, Reached(r) PROVE Reached(r)' /\ client'[r] = client[r]
    <3>1. r # s
      BY <2>3 DEF Reached, FreeSessions, UsedSessions
    <3>2. client'[r] = client[r]
      BY <2>1, <2>2, <3>1
    <3>3. CASE \E n \in Names : sessions[n] = r
      <4>1. PICK n \in Names : sessions[n] = r
        BY <3>3
      <4>2. sessions'[n] = r
        BY <2>1, <2>2, <4>1
      <4> QED BY <3>2, <4>2 DEF Reached
    <3>4. CASE \E q \in Procs : r \in op[q].todo
      <4>1. PICK q \in Procs : r \in op[q].todo /\ q # p
        BY <3>4
      <4>2. r \in op'[q].todo
        BY <4>1
      <4> QED BY <3>2, <4>2 DEF Reached
    <3> QED BY <2>3, <3>3, <3>4 DEF Reached
  <2> QED BY <2>3
<1> QED BY <1>1, <1>2 DEF Lookup

(* A caller's step loses a login only where a dial lands.                  *)
LEMMA StepKeeps ==
  ASSUME SessionInv, LandingInv, NEW p \in Procs, Begin(p) \/ Continue(p),
         NEW c \in Clients, Kept(c), login'[c] = "open"
  PROVE  Kept(c)' \/ LostAtLanding(c)
<1> DEFINE s == op[p].sess
<1>1. /\ pc \in [Procs -> PCs] /\ op \in [Procs -> OpType] /\ op[p] \in OpType
      /\ client \in [Sessions -> Clients \cup {None}] /\ c # None
      /\ sessions \in [Names -> Sessions \cup {None}] /\ None \notin Sessions
      /\ closing \subseteq Clients /\ login \in [Clients -> {"open", "closed"}]
      /\ pc[p] \notin {"clear", "closing"} => op[p].todo = {}
  BY NoneAssumption DEF SessionInv, TypeOK, LandingInv
<1>2. \A q \in Procs \ {p} : pc'[q] = pc[q] /\ op'[q] = op[q]
  BY OthersStay DEF SessionInv
<1>3. ASSUME pc[p] \notin {"land", "closing", "clear"}, UNCHANGED <<sessions, client>>, closing \subseteq closing'
      PROVE  Kept(c)'
  <2>1. ~Owns(p) /\ op[p].todo = {}
    BY <1>1, <1>3 DEF Owns
  <2>2. \A r \in Sessions : Reached(r) => Reached(r)'
    BY <1>2, <1>3, <2>1, ReachedOn
  <2> QED BY <1>2, <1>3, <2>1, <2>2, KeptOn
<1>4. ASSUME NEW o, NEW l, Lookup(p, o, l), pc[p] \in {"idle", "again"}, closing' = closing
      PROVE  Kept(c)'
  <2>1. ~Owns(p) /\ op[p].todo = {}
    BY <1>1, <1>4 DEF Owns
  <2>2. \A r \in Sessions : Reached(r) => Reached(r)' /\ client'[r] = client[r]
    BY <1>2, <1>4, <2>1, LookupReaches
  <2> QED BY <1>2, <1>4, <2>1, <2>2, KeptOn
<1>5. CASE Begin(p)
  <2>1. ASSUME NEW k, NEW n, NEW g, BeginConnect(p, k, n, g) PROVE Kept(c)'
    BY <1>4, <2>1 DEF BeginConnect, clientVars
  <2>2. ASSUME NEW n, NEW g, BeginLogout(p, n, g) PROVE Kept(c)'
    BY <1>4, <2>2 DEF BeginLogout, clientVars
  <2>3. ASSUME NEW ns, BeginForget(p, ns) PROVE Kept(c)'
    <3>1. /\ pc[p] = "idle" /\ client' = client /\ closing' = closing
          /\ sessions' = [n \in Names |-> IF n \in ns THEN None ELSE sessions[n]]
          /\ op'[p] = [NoOp EXCEPT !.kind = "forget", !.todo = {sessions[n] : n \in ns} \ {None}]
      BY <1>1, <2>3 DEF BeginForget, sessionVars, clientVars, Goto
    <3>2. op'[p].todo = {sessions[n] : n \in ns} \ {None}
      BY <3>1 DEF NoOp
    <3>3. ASSUME NEW r \in Sessions, Reached(r) PROVE Reached(r)'
      <4>1. CASE \E n \in Names : sessions[n] = r
        <5>1. PICK n \in Names : sessions[n] = r
          BY <4>1
        <5>2. CASE n \in ns
          <6>1. r \in op'[p].todo
            BY <1>1, <3>2, <5>1, <5>2
          <6> QED BY <6>1 DEF Reached
        <5>3. CASE n \notin ns
          <6>1. sessions'[n] = r
            BY <3>1, <5>1, <5>3
          <6> QED BY <6>1 DEF Reached
        <5> QED BY <5>2, <5>3
      <4>2. CASE \E q \in Procs : r \in op[q].todo
        <5>1. PICK q \in Procs : r \in op[q].todo /\ q # p
          BY <1>1, <3>1, <4>2
        <5>2. r \in op'[q].todo
          BY <1>2, <5>1
        <5> QED BY <5>2 DEF Reached
      <4> QED BY <3>3, <4>1, <4>2 DEF Reached
    <3>4. ~Owns(p)
      BY <3>1 DEF Owns
    <3> QED BY <1>2, <3>1, <3>3, <3>4, KeptOn
  <2> QED BY <1>5, <2>1, <2>2, <2>3 DEF Begin
<1>6. CASE EnterRefused(p) \/ EnterReuse(p)
  <2>1. pc[p] = "enter" /\ UNCHANGED <<sessions, client>> /\ closing \subseteq closing'
    BY <1>6 DEF EnterRefused, EnterReuse, Adopt, sessionVars, clientVars
  <2> QED BY <1>3, <2>1
<1>7. CASE EnterDial(p)
  <2>1. /\ pc[p] = "enter" /\ sessions' = sessions /\ s \in Sessions
        /\ closing' = IF Stale(p) THEN closing \cup ({client[s]} \ {None}) ELSE closing
        /\ client' = [client EXCEPT ![s] = IF Stale(p) THEN None ELSE @]
    BY <1>7 DEF EnterDial, Adopt, SessionInv, OpShape
  <2>2. ~Owns(p) /\ op[p].todo = {}
    BY <1>1, <2>1 DEF Owns
  <2>3. \A r \in Sessions : Reached(r) => Reached(r)'
    BY <1>2, <2>1, <2>2, ReachedOn
  <2>4. \A r \in Sessions : client[r] = c => c \in closing' \/ client'[r] = c
    BY <1>1, <2>1
  <2> QED BY <1>2, <2>1, <2>2, <2>3, <2>4, KeptOn DEF Passed
<1>8. CASE Dial(p) \/ TakeClient(p) \/ Use(p) \/ DropFind(p)
  <2>1. pc[p] \notin {"land", "closing", "clear"} /\ UNCHANGED <<sessions, client, closing>>
    BY <1>8 DEF Dial, DialSucceeds, DialFails, TakeClient, Use, UseAnswered, UseLost, DropFind,
       sessionVars, clientVars
  <2> QED BY <1>3, <2>1
<1>9. CASE Land(p)
  <2>1. pc[p] = "land" /\ s \in Sessions /\ op[p].todo = {} /\ sessions' = sessions
    BY <1>1, <1>9 DEF Land, LandLoggedOut, LandFailed, LandConnected, SessionInv, OpShape
  <2>2. Lands(p, s)
    BY <1>1, <1>9, <2>1 DEF Land, LandLoggedOut, LandFailed, LandConnected, Return, Goto, Lands
  <2>3. \A r \in Sessions : Reached(r) => Reached(r)'
    BY <1>2, <2>1, ReachedOn
  <2>4. CASE LandLoggedOut(p)
    <3>1. client' = client /\ closing' = closing \cup ({op[p].client} \ {None})
      BY <2>4 DEF LandLoggedOut, sessionVars
    <3> QED BY <1>1, <1>2, <2>3, <3>1, KeptOn DEF Passed
  <2>5. CASE LandFailed(p) /\ client[s] # c
    <3>1. client' = [client EXCEPT ![s] = None] /\ closing' = closing /\ op[p].client = None
      BY <2>5 DEF LandFailed, clientVars
    <3>2. ~Owns(p) /\ \A r \in Sessions : client[r] = c => client'[r] = c
      BY <1>1, <2>5, <3>1 DEF Owns
    <3> QED BY <1>2, <2>3, <3>1, <3>2, KeptOn
  <2>6. CASE LandConnected(p) /\ client[s] # c /\ op[p].client # c
    <3>1. client' = [client EXCEPT ![s] = op[p].client] /\ closing' = closing
      BY <2>6 DEF LandConnected, clientVars
    <3>2. \A r \in Sessions : client[r] = c => client'[r] = c
      BY <1>1, <2>6, <3>1
    <3> QED BY <1>2, <2>3, <2>6, <3>1, <3>2, KeptOn
  <2>7. CASE LandConnected(p) /\ op[p].client = c /\ Reached(s)
    <3>1. client'[s] = c
      BY <1>1, <2>1, <2>7 DEF LandConnected
    <3> QED BY <2>1, <2>3, <2>7, <3>1 DEF Kept
  <2>8. CASE client[s] = c \/ (op[p].client = c /\ ~Reached(s))
    BY <2>1, <2>2, <2>8 DEF LostAtLanding
  <2> QED BY <1>9, <2>4, <2>5, <2>6, <2>7, <2>8 DEF Land
<1>10. CASE Drop(p)
  <2>1. /\ pc[p] = "drop" /\ sessions' = sessions /\ s \in Sessions
        /\ IF client[s] = op[p].client
           THEN client' = [client EXCEPT ![s] = None] /\ closing' = closing \cup {op[p].client}
           ELSE client' = client /\ closing' = closing
    BY <1>10 DEF Drop, Detach, SessionInv, OpShape
  <2>2. ~Owns(p) /\ op[p].todo = {}
    BY <1>1, <2>1 DEF Owns
  <2>3. \A r \in Sessions : Reached(r) => Reached(r)'
    BY <1>2, <2>1, <2>2, ReachedOn
  <2>4. \A r \in Sessions : client[r] = c => c \in closing' \/ client'[r] = c
    BY <1>1, <2>1
  <2>5. c \in closing => c \in closing'
    BY <2>1
  <2> QED BY <1>2, <2>1, <2>2, <2>3, <2>4, <2>5, KeptOn DEF Passed
<1>11. CASE Reconnect(p)
  BY <1>4, <1>11 DEF Reconnect, clientVars
<1>12. CASE Logout(p)
  <2>1. /\ pc[p] = "logout" /\ sessions' = sessions /\ s \in Sessions /\ closing' = closing
        /\ client' = [client EXCEPT ![s] = None]
        /\ client[s] # None => Goto(p, "closing", [NoOp EXCEPT !.kind = "logout", !.client = client[s]])
    BY <1>12 DEF Logout, Detach, clientVars, SessionInv, OpShape
  <2>2. ~Owns(p) /\ op[p].todo = {}
    BY <1>1, <2>1 DEF Owns
  <2>3. \A r \in Sessions : Reached(r) => Reached(r)'
    BY <1>2, <2>1, <2>2, ReachedOn
  <2>4. client[s] = c => Passed(p, c)
    <3>1. ASSUME client[s] = c PROVE pc'[p] = "closing" /\ op'[p].client = c
      BY <1>1, <2>1, <3>1 DEF Goto, NoOp
    <3> QED BY <1>1, <3>1 DEF Passed, Owns
  <2>5. \A r \in Sessions : r # s => client'[r] = client[r]
    BY <1>1, <2>1
  <2> QED BY <1>2, <2>1, <2>2, <2>3, <2>4, <2>5, KeptOn
<1>13. CASE ClearOne(p)
  <2>1. PICK r \in op[p].todo :
          LET rest == [op[p] EXCEPT !.todo = @ \ {r}] IN
          /\ pc[p] = "clear" /\ Detach(r) /\ sessions' = sessions /\ closing' = closing
          /\ IF client[r] # None THEN Goto(p, "closing", [rest EXCEPT !.client = client[r]])
             ELSE IF rest.todo # {} THEN Goto(p, "clear", rest) ELSE Return(p)
    BY <1>13 DEF ClearOne, clientVars
  <2>2. r \in Sessions /\ client[r] \in Clients \cup {None} /\ client' = [client EXCEPT ![r] = None]
    BY <1>1, <2>1 DEF Detach, OpType
  <2>3. /\ client[r] # None => pc'[p] = "closing" /\ op'[p].client = client[r]
        /\ op'[p].todo = op[p].todo \ {r}
    <3>1. PICK rest : rest = [op[p] EXCEPT !.todo = @ \ {r}]
      OBVIOUS
    <3>2. rest \in OpType /\ rest.todo = op[p].todo \ {r}
      BY <1>1, <3>1 DEF OpType
    <3>3. /\ [rest EXCEPT !.client = client[r]].todo = rest.todo
          /\ [rest EXCEPT !.client = client[r]].client = client[r]
      BY <2>2, <3>2 DEF OpType
    <3>4. NoOp.todo = {}
      BY DEF NoOp
    <3> QED BY <1>1, <2>1, <3>1, <3>2, <3>3, <3>4 DEF Goto, Return
  <2>4. client[r] = c => Passed(p, c)
    BY <1>1, <2>3 DEF Passed, Owns
  <2>5. ASSUME NEW q \in Sessions, Reached(q), q # r PROVE Reached(q)' /\ client'[q] = client[q]
    <3>1. client'[q] = client[q]
      BY <1>1, <2>2, <2>5
    <3>2. CASE \E n \in Names : sessions[n] = q
      BY <2>1, <3>1, <3>2 DEF Reached
    <3>3. CASE \E v \in Procs : q \in op[v].todo
      <4>1. PICK v \in Procs : q \in op[v].todo
        BY <3>3
      <4>2. q \in op'[v].todo
        BY <1>2, <2>3, <2>5, <4>1
      <4> QED BY <3>1, <4>2 DEF Reached
    <3> QED BY <2>5, <3>2, <3>3 DEF Reached
  <2>6. ~Owns(p)
    BY <2>1 DEF Owns
  <2> QED BY <1>2, <2>1, <2>4, <2>5, <2>6, KeptOn
<1>14. CASE CloseReturns(p)
  <2>1. /\ pc[p] = "closing" /\ UNCHANGED <<sessions, client, closing>>
        /\ login' = [login EXCEPT ![op[p].client] = "closed"]
        /\ \/ op[p].todo # {} /\ Goto(p, "clear", [op[p] EXCEPT !.client = None])
           \/ op[p].todo = {} /\ Return(p)
    BY <1>14 DEF CloseReturns, Closed, sessionVars
  <2>2. op[p].client # c
    BY <1>1, <2>1
  <2>3. op'[p].todo = op[p].todo
    <3>1. [op[p] EXCEPT !.client = None].todo = op[p].todo /\ NoOp.todo = {}
      BY <1>1 DEF OpType, NoOp
    <3> QED BY <1>1, <2>1, <3>1 DEF Goto, Return
  <2>4. \A r \in Sessions : Reached(r) => Reached(r)'
    BY <1>2, <2>1, <2>3, ReachedOn
  <2> QED BY <1>2, <2>1, <2>2, <2>4, KeptOn
<1> QED BY <1>5, <1>6, <1>7, <1>8, <1>9, <1>10, <1>11, <1>12, <1>13, <1>14 DEF Continue, Enter

(* A session comes to hold a login of other settings only where a dial     *)
(* lands on a context that was edited meanwhile.                           *)
LEMMA StepOwnSettings ==
  ASSUME SessionInv, LandingInv, NEW p \in Procs, Begin(p) \/ Continue(p),
         NEW s \in Sessions, ~Foreign(s), Foreign(s)'
  PROVE  Lands(p, s) /\ context[s] # op[p].cfg
<1>1. /\ client \in [Sessions -> Clients \cup {None}] /\ context \in [Sessions -> Configs \cup {None}]
      /\ endpoint \in [Clients -> Configs \cup {None}] /\ None \notin Clients
      /\ pc \in [Procs -> PCs] /\ op \in [Procs -> OpType]
  BY NoneAssumption DEF SessionInv, TypeOK
<1>2. ~(client'[s] = client[s] /\ context'[s] = context[s] /\ UNCHANGED endpoint)
  BY DEF Foreign
<1>3. client'[s] # None
  BY DEF Foreign
<1>4. ASSUME NEW o, NEW l, Lookup(p, o, l), UNCHANGED endpoint PROVE FALSE
  <2>1. CASE UNCHANGED sessionVars
    BY <1>2, <1>4, <2>1 DEF sessionVars
  <2>2. CASE \E r \in FreeSessions : context' = [context EXCEPT ![r] = o.cfg] /\ client' = [client EXCEPT ![r] = None]
    BY <1>1, <1>2, <1>3, <1>4, <2>2
  <2> QED BY <1>4, <2>1, <2>2 DEF Lookup
<1>5. CASE Begin(p)
  BY <1>2, <1>4, <1>5 DEF Begin, BeginConnect, BeginLogout, BeginForget, sessionVars, clientVars
<1>6. CASE EnterRefused(p) \/ EnterReuse(p)
  <2>1. EnterReuse(p) => context' = [context EXCEPT ![op[p].sess] = context[op[p].sess]]
    BY DEF EnterReuse, Adopt, Stale
  <2>2. client' = client /\ context'[s] = context[s] /\ UNCHANGED endpoint
    BY <1>1, <1>6, <2>1 DEF EnterRefused, EnterReuse, sessionVars, clientVars
  <2> QED BY <1>2, <2>2
<1>7. CASE EnterDial(p)
  <2>1. /\ context' = [context EXCEPT ![op[p].sess] = op[p].cfg] /\ UNCHANGED endpoint
        /\ client' = [client EXCEPT ![op[p].sess] = IF Stale(p) THEN None ELSE @]
    BY <1>7 DEF EnterDial, Adopt
  <2>2. s = op[p].sess /\ Stale(p) => client'[s] = None
    BY <1>1, <2>1
  <2>3. s # op[p].sess \/ ~Stale(p) => client'[s] = client[s] /\ context'[s] = context[s]
    BY <1>1, <2>1 DEF Stale
  <2> QED BY <1>2, <1>3, <2>1, <2>2, <2>3
<1>8. CASE Dial(p)
  <2>1. client' = client /\ context' = context
    BY <1>8 DEF Dial, DialSucceeds, DialFails, sessionVars
  <2>2. DialFails(p) => UNCHANGED endpoint
    BY DEF DialFails, clientVars
  <2>3. CASE DialSucceeds(p)
    <3>1. PICK c \in FreeClients : endpoint' = [endpoint EXCEPT ![c] = op[p].cfg]
      BY <2>3 DEF DialSucceeds
    <3>2. c # client[s]
      BY DEF FreeClients, UsedClients
    <3>3. client[s] \in Clients
      BY <1>1, <1>3, <2>1
    <3>4. endpoint'[client[s]] = endpoint[client[s]]
      BY <1>1, <3>1, <3>2, <3>3
    <3> QED BY <2>1, <3>4 DEF Foreign
  <2> QED BY <1>2, <1>8, <2>1, <2>2, <2>3 DEF Dial
<1>9. CASE Land(p)
  <2>1. /\ pc[p] = "land" /\ op[p].sess \in Sessions /\ context' = context /\ UNCHANGED endpoint
        /\ client' = client \/ client' = [client EXCEPT ![op[p].sess] = op[p].client]
    BY <1>9 DEF Land, LandLoggedOut, LandFailed, LandConnected, SessionInv, OpShape, sessionVars, clientVars
  <2>2. s = op[p].sess /\ client'[s] = op[p].client
    BY <1>1, <1>2, <2>1
  <2>3. endpoint[op[p].client] = op[p].cfg
    BY <1>3, <2>1, <2>2 DEF LandingInv
  <2>4. Lands(p, s)
    BY <1>1, <1>9, <2>1, <2>2 DEF Land, LandLoggedOut, LandFailed, LandConnected, Return, Goto, Lands
  <2> QED BY <2>1, <2>2, <2>3, <2>4 DEF Foreign
<1>10. CASE TakeClient(p) \/ Use(p) \/ DropFind(p)
  BY <1>2, <1>10 DEF TakeClient, Use, UseAnswered, UseLost, DropFind, sessionVars, clientVars
<1>11. ASSUME NEW r, Detach(r), UNCHANGED <<context, endpoint>> PROVE FALSE
  BY <1>1, <1>2, <1>3, <1>11 DEF Detach
<1>12. CASE Drop(p)
  <2>1. client' = client => FALSE
    BY <1>2, <1>12 DEF Drop
  <2> QED BY <1>11, <1>12, <2>1 DEF Drop
<1>13. CASE Reconnect(p)
  BY <1>4, <1>13 DEF Reconnect, clientVars
<1>14. CASE Logout(p) \/ ClearOne(p)
  BY <1>11, <1>14 DEF Logout, ClearOne, clientVars
<1>15. CASE CloseReturns(p)
  <2>1. /\ pc[p] = "closing" /\ client' = client /\ context' = context
        /\ endpoint' = [endpoint EXCEPT ![op[p].client] = None] /\ op[p].client \in Clients
    BY <1>15 DEF CloseReturns, Closed, sessionVars, SessionInv, OpShape
  <2>2. client[s] # op[p].client
    BY <1>1, <1>3, <2>1 DEF SessionInv, OneOwner, SessionsOwnAlone, Owns
  <2>3. endpoint'[client[s]] = endpoint[client[s]]
    BY <1>1, <1>3, <2>1, <2>2
  <2> QED BY <2>1, <2>3 DEF Foreign
<1> QED BY <1>5, <1>6, <1>7, <1>8, <1>9, <1>10, <1>12, <1>13, <1>14, <1>15 DEF Continue, Enter

(* Whoever logs in, queries, edits, drops, logs out and forgets beside     *)
(* each other: a login is lost only where a dial lands on another one or   *)
(* on a session nobody finds any more, and a session comes to hold a login *)
(* of other settings only where a dial lands after an edit (connect, adopt,*)
(* Drop, Logout, Forget, Close).                                           *)
THEOREM LoginsAccountedHolds == Spec => LoginsAccounted
<1> DEFINE Accounts ==
      /\ \A c \in Clients : (~Leaked(c) /\ Leaked(c)') => LostAtLanding(c)
      /\ \A s \in Sessions :
            (~Foreign(s) /\ Foreign(s)') => \E p \in Procs : Lands(p, s) /\ context[s] # op[p].cfg
<1>1. ASSUME SessionInv, LandingInv, Next PROVE Accounts
  <2>1. ASSUME NEW p \in Procs, Begin(p) \/ Continue(p) PROVE Accounts
    <3>1. ASSUME NEW c \in Clients, ~Leaked(c), Leaked(c)' PROVE LostAtLanding(c)
      <4>1. login'[c] = "open" /\ ~Kept(c)'
        BY <3>1 DEF Leaked
      <4>2. CASE login[c] = "open"
        <5>1. Kept(c)
          BY <3>1, <4>2 DEF Leaked
        <5> QED BY <1>1, <2>1, <4>1, <5>1, StepKeeps
      <4>3. CASE login[c] # "open"
        <5>1. DialSucceeds(p)
          <6>1. ~CloseReturns(p)
            BY <1>1, <4>1, <4>3 DEF CloseReturns, Closed, SessionInv, TypeOK
          <6>2. ~UseLost(p)
            BY <4>1, <4>3 DEF UseLost
          <6> QED BY <2>1, <4>1, <4>3, <6>1, <6>2, ClientsKept
        <5>2. PICK d \in FreeClients : /\ login' = [login EXCEPT ![d] = "open"]
                                       /\ Goto(p, "land", [op[p] EXCEPT !.client = d])
          BY <5>1 DEF DialSucceeds
        <5>3. d = c
          BY <1>1, <4>1, <4>3, <5>2 DEF SessionInv, TypeOK
        <5>4. pc'[p] = "land" /\ op'[p].client = c
          BY <1>1, <5>2, <5>3 DEF Goto, OpType, SessionInv, TypeOK
        <5>5. Kept(c)'
          BY <5>4, NoneAssumption DEF Kept, Owns
        <5> QED BY <4>1, <5>5
      <4> QED BY <4>2, <4>3
    <3>2. ASSUME NEW s \in Sessions, ~Foreign(s), Foreign(s)' PROVE Lands(p, s) /\ context[s] # op[p].cfg
      BY <1>1, <2>1, <3>2, StepOwnSettings
    <3> QED BY <3>1, <3>2
  <2>2. ASSUME NEW b \in Clients, BackgroundClose(b) PROVE Accounts
    <3>1. /\ b \in closing /\ closing' = closing \ {b} /\ UNCHANGED <<sessions, client, context, pc, op>>
          /\ login' = [login EXCEPT ![b] = "closed"] /\ endpoint' = [endpoint EXCEPT ![b] = None]
          /\ login \in [Clients -> {"open", "closed"}] /\ endpoint \in [Clients -> Configs \cup {None}]
          /\ client \in [Sessions -> Clients \cup {None}]
      BY <1>1, <2>2 DEF BackgroundClose, Closed, sessionVars, SessionInv, TypeOK
    <3>2. ASSUME NEW c \in Clients, ~Leaked(c), Leaked(c)' PROVE FALSE
      <4>1. login'[c] = "open" /\ c # b /\ login[c] = "open"
        BY <3>1, <3>2 DEF Leaked
      <4>2. Kept(c)
        BY <3>2, <4>1 DEF Leaked
      <4>3. Kept(c)'
        BY <3>1, <4>1, <4>2 DEF Kept, Reached, Owns
      <4> QED BY <3>2, <4>3 DEF Leaked
    <3>3. ASSUME NEW s \in Sessions, ~Foreign(s), Foreign(s)' PROVE FALSE
      <4>1. client[s] \in Clients /\ client[s] # b
        BY <1>1, <3>1, <3>3, NoneAssumption DEF Foreign, SessionInv, OneOwner, SessionsOwnAlone
      <4>2. endpoint'[client[s]] = endpoint[client[s]]
        BY <3>1, <4>1
      <4> QED BY <3>1, <3>3, <4>2 DEF Foreign
    <3> QED BY <3>2, <3>3
  <2> QED BY <1>1, <2>1, <2>2 DEF Next
<1>2. ASSUME UNCHANGED vars PROVE Accounts
  BY <1>2 DEF vars, sessionVars, clientVars, Leaked, Kept, Reached, Owns, Foreign
<1>3. ASSUME SessionInv, LandingInv, [Next]_vars PROVE [Accounts]_vars
  BY <1>1, <1>2, <1>3
<1>4. Init => LandingInv
  BY DEF Init, LandingInv, NoOp
<1>5. ASSUME SessionInv, LandingInv, [Next]_vars PROVE LandingInv'
  BY <1>5, LandingStays
<1> QED BY <1>3, <1>4, <1>5, SessionInvariant, PTL DEF Spec, LoginsAccounted
=============================================================================
