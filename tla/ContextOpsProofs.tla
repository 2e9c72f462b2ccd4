-------------------------- MODULE ContextOpsProofs --------------------------
(***************************************************************************)
(* What is proved of ContextOps for every set of names, passwords and      *)
(* actors and every number of operations: the configuration file loads     *)
(* whatever overlaps; a command that runs alone leaves a context that      *)
(* answers with the password that was typed, and deletes no password that  *)
(* a context still uses.                                                   *)
(***************************************************************************)
EXTENDS ContextOps, TLAPS

(* References and contexts.                                                *)
LEMMA KeyringRef ==
    ASSUME NEW r \in Refs, r.scheme = "keyring"
    PROVE  r.key \in Keys /\ r = Keyring(r.key)
BY DEF Refs, Ref, Unset, Prompt, Source, Keyring

LEMMA KeyedRef ==
    ASSUME NEW k \in Keys
    PROVE  Keyring(k) \in Refs
BY DEF Refs

LEMMA PlainRefs == Unset \in Refs /\ Prompt \in Refs /\ Source \in Refs
BY DEF Refs

LEMMA NamedKeys ==
    ASSUME NEW n \in Names
    PROVE  OwnKey(n) \in Keys /\ ProxyKey(n) \in Keys /\ SharedKey \in Keys
BY DEF Keys

(* What is saved is a context (Build).                                     *)
LEMMA BuildIs ==
    ASSUME NEW o, IsOp(o), o.name \in Names
    PROVE  Build(o) \in Contexts
<1>1. o.cred \in Refs /\ o.pcred \in Refs
  BY DEF IsOp
<1>2. Keyring(OwnKey(o.name)) \in Refs /\ Keyring(ProxyKey(o.name)) \in Refs
  BY NamedKeys, KeyedRef
<1>3. Build(o).cred \in Refs /\ Build(o).pcred \in Refs
  BY <1>1, <1>2, PlainRefs DEF Build
<1> QED BY <1>3 DEF Build, Contexts

LEMMA ConfigRefs ==
    ASSUME NEW c, ValidConfig(c), NEW n \in DOMAIN c.ctx
    PROVE  n \in Names /\ c.ctx[n] \in Contexts /\ c.ctx[n].cred \in Refs /\ c.ctx[n].pcred \in Refs
BY DEF ValidConfig, Contexts

(* An operation's record, and a change of one of its fields.               *)
LEMMA NoOpIs == IsOp(NoOp)
BY PlainRefs DEF IsOp, NoOp

LEMMA OpChanges ==
    ASSUME NEW o, IsOp(o), NEW x
    PROVE  /\ IsOp([o EXCEPT !.pw = x]) /\ IsOp([o EXCEPT !.tmp = x]) /\ IsOp([o EXCEPT !.held = x])
           /\ x \in Refs => /\ IsOp([o EXCEPT !.cred = x]) /\ IsOp([o EXCEPT !.pcred = x])
                            /\ IsOp([o EXCEPT !.replaced = x])
<1>1. /\ DOMAIN o = {"kind", "name", "cred", "pcred", "proxied", "pw", "replace", "drop",
                     "replaced", "with", "tmp", "held"}
      /\ o.cred \in Refs /\ o.pcred \in Refs /\ o.replaced \in Refs
  BY DEF IsOp, NoOp
<1>2. DOMAIN NoOp = DOMAIN o
  BY DEF IsOp
<1> QED BY <1>1, <1>2 DEF IsOp

LEMMA OpKeeps ==
    ASSUME NEW o, IsOp(o), NEW x
    PROVE  /\ [o EXCEPT !.pw = x].name = o.name /\ [o EXCEPT !.pw = x].kind = o.kind
           /\ [o EXCEPT !.tmp = x].name = o.name /\ [o EXCEPT !.tmp = x].kind = o.kind
           /\ [o EXCEPT !.held = x].name = o.name /\ [o EXCEPT !.held = x].kind = o.kind
           /\ [o EXCEPT !.pcred = x].name = o.name /\ [o EXCEPT !.pcred = x].kind = o.kind
           /\ [o EXCEPT !.replaced = x].name = o.name /\ [o EXCEPT !.replaced = x].kind = o.kind
BY DEF IsOp, NoOp

LEMMA CopiesApart ==
    ASSUME NEW a \in Cli, NEW b \in Actors, a # b
    PROVE  Copy(b) # a /\ Copy(a) = a
BY ActorsAssumption DEF Copy, Actors

LEMMA CopyIs == \A a \in Actors : Copy(a) \in Copies
BY DEF Copy, Copies, Actors

-----------------------------------------------------------------------------
(* Types: the beginning and the end of an operation.                       *)
LEMMA BeginTypes ==
    ASSUME TypeOK, NEW a \in Actors, NEW l, NEW o, IsOp(o), o.name \in Names, Begin(a, l, o),
           \/ l = "store"
           \/ l = "use" /\ a \in Cli /\ o.kind = "use" /\ o.name \in DOMAIN file.ctx
           \/ l = "remove" /\ o.kind = "remove"
    PROVE  TypeOK'
<1>1. /\ file' = file /\ keyring' = keyring
      /\ pc' = [pc EXCEPT ![a] = l] /\ op' = [op EXCEPT ![a] = o]
      /\ mem' = IF a \in Cli THEN [mem EXCEPT ![a] = file] ELSE mem
  BY DEF Begin, Goto
<1>2. ValidConfig(file') /\ ValidConfig(mem'["tui"])
  BY <1>1, ActorsAssumption DEF TypeOK, ValidConfig
<1>3. pc' \in [Actors -> Locations]
  BY <1>1 DEF TypeOK, Locations
<1>4. /\ DOMAIN mem' = Copies /\ DOMAIN keyring' = Keys /\ DOMAIN op' = Actors
      /\ \A b \in Actors : IsOp(op'[b])
  BY <1>1 DEF TypeOK
<1>5. op'[a] = o /\ pc'[a] = l /\ \A b \in Actors \ {a} : op'[b] = op[b] /\ pc'[b] = pc[b]
  BY <1>1 DEF TypeOK
<1>6. mem'[Copy(a)] = IF a \in Cli THEN file ELSE mem["tui"]
  <2>1. CASE a \in Cli
    <3>1. Copy(a) = a /\ a \in Copies
      BY <2>1, ActorsAssumption DEF Copy, Copies
    <3> QED BY <1>1, <2>1, <3>1 DEF TypeOK
  <2>2. CASE a \notin Cli
    BY <1>1, <2>2 DEF Copy, Actors
  <2> QED BY <2>1, <2>2
<1>7. \A b \in Actors \ {a} : mem'[Copy(b)] = mem[Copy(b)]
  BY <1>1, CopyIs, CopiesApart DEF TypeOK
<1>8. ASSUME NEW b \in Actors
      PROVE  /\ pc'[b] # "idle" => ValidConfig(mem'[Copy(b)]) /\ op'[b].name \in Names
             /\ pc'[b] = "rename" => ValidConfig(op'[b].tmp)
             /\ pc'[b] = "use" => b \in Cli /\ op'[b].kind = "use" /\ op'[b].name \in DOMAIN mem'[b].ctx
             /\ pc'[b] = "remove" => op'[b].kind = "remove"
  <2>1. CASE b = a
    <3>1. ValidConfig(mem'[Copy(a)])
      BY <1>6 DEF TypeOK
    <3>2. a \in Cli => mem'[a] = file
      BY <1>6, ActorsAssumption DEF Copy
    <3> QED BY <1>5, <2>1, <3>1, <3>2
  <2>2. CASE b # a
    <3>1. b \in Cli => mem'[b] = mem[b]
      BY <1>1, <2>2 DEF TypeOK, Copies
    <3> QED BY <1>5, <1>7, <2>2, <3>1 DEF TypeOK
  <2> QED BY <2>1, <2>2
<1> QED BY <1>2, <1>3, <1>4, <1>8 DEF TypeOK

(* A step of an operation that goes on.                                    *)
LEMMA StepTypes ==
    ASSUME TypeOK, NEW a \in Actors, pc[a] # "idle",
           NEW l \in Locations \ {"idle", "use", "remove"}, pc' = [pc EXCEPT ![a] = l],
           DOMAIN op' = Actors, IsOp(op'[a]), op'[a].name = op[a].name,
           \A b \in Actors \ {a} : op'[b] = op[b],
           DOMAIN mem' = Copies, ValidConfig(mem'[Copy(a)]),
           \A c \in Copies \ {Copy(a)} : mem'[c] = mem[c],
           ValidConfig(file'), DOMAIN keyring' = Keys,
           l = "rename" => ValidConfig(op'[a].tmp)
    PROVE  TypeOK'
<1>1. pc' \in [Actors -> Locations]
  BY DEF TypeOK
<1>2. \A b \in Actors : IsOp(op'[b])
  BY DEF TypeOK
<1>3. pc'[a] = l /\ \A b \in Actors \ {a} : pc'[b] = pc[b]
  BY DEF TypeOK
<1>4. \A c \in Copies : c # Copy(a) => mem'[c] = mem[c]
  OBVIOUS
<1>5. \A b \in Actors : ValidConfig(mem[Copy(b)]) => ValidConfig(mem'[Copy(b)])
  BY <1>4, CopyIs
<1>6. ValidConfig(mem'["tui"])
  <2>1. "tui" \in Copies
    BY DEF Copies
  <2> QED BY <1>4, <2>1 DEF TypeOK
<1>7. ASSUME NEW b \in Actors
      PROVE  /\ pc'[b] # "idle" => ValidConfig(mem'[Copy(b)]) /\ op'[b].name \in Names
             /\ pc'[b] = "rename" => ValidConfig(op'[b].tmp)
             /\ pc'[b] = "use" => b \in Cli /\ op'[b].kind = "use" /\ op'[b].name \in DOMAIN mem'[b].ctx
             /\ pc'[b] = "remove" => op'[b].kind = "remove"
  <2>1. CASE b = a
    <3>1. l # "use" /\ l # "remove"
      OBVIOUS
    <3>2. op[a].name \in Names
      BY DEF TypeOK
    <3> QED BY <1>3, <2>1, <3>1, <3>2
  <2>2. CASE b # a
    <3>1. pc'[b] = "use" => mem'[b] = mem[b]
      <4>1. pc'[b] = "use" => b \in Cli
        BY <1>3, <2>2 DEF TypeOK
      <4>2. b \in Cli => Copy(a) # b
        BY <2>2, CopiesApart
      <4>3. b \in Cli => b \in Copies
        BY DEF Copies
      <4> QED BY <1>4, <4>1, <4>2, <4>3
    <3> QED BY <1>3, <1>5, <2>2, <3>1 DEF TypeOK
  <2> QED BY <2>1, <2>2
<1> QED BY <1>1, <1>2, <1>6, <1>7 DEF TypeOK

LEMMA EndTypes ==
    ASSUME TypeOK, NEW a \in Actors, End(a), ValidConfig(file'), DOMAIN keyring' = Keys
    PROVE  TypeOK'
<1>1. /\ pc' = [pc EXCEPT ![a] = "idle"] /\ op' = [op EXCEPT ![a] = NoOp]
      /\ mem' = IF a \in Cli THEN [mem EXCEPT ![a] = None] ELSE mem
  BY DEF End, Goto
<1>2. pc' \in [Actors -> Locations]
  BY <1>1 DEF TypeOK, Locations
<1>3. DOMAIN mem' = Copies /\ DOMAIN op' = Actors /\ \A b \in Actors : IsOp(op'[b])
  BY <1>1, NoOpIs DEF TypeOK
<1>4. pc'[a] = "idle" /\ \A b \in Actors \ {a} : op'[b] = op[b] /\ pc'[b] = pc[b]
  BY <1>1 DEF TypeOK
<1>5. mem'["tui"] = mem["tui"]
  BY <1>1, ActorsAssumption DEF TypeOK
<1>6. \A b \in Actors \ {a} : mem'[Copy(b)] = mem[Copy(b)]
  BY <1>1, CopyIs, CopiesApart DEF TypeOK
<1>7. \A b \in Cli \ {a} : mem'[b] = mem[b]
  BY <1>1 DEF TypeOK, Copies
<1> QED BY <1>2, <1>3, <1>4, <1>5, <1>6, <1>7 DEF TypeOK

(* A kill sets back the actors of one process and their copy.              *)
LEMMA KillTypes ==
    ASSUME TypeOK, NEW a \in Actors, Kill(a)
    PROVE  TypeOK'
<1> DEFINE dead == IF a \in Tui THEN Tui ELSE {a}
<1>1. /\ pc' = [b \in Actors |-> IF b \in dead THEN "idle" ELSE pc[b]]
      /\ op' = [b \in Actors |-> IF b \in dead THEN NoOp ELSE op[b]]
      /\ mem' = [mem EXCEPT ![Copy(a)] = IF a \in Tui THEN file ELSE None]
      /\ file' = file /\ keyring' = keyring
  BY DEF Kill
<1>2. \A b \in Actors \ dead : Copy(b) # Copy(a)
  BY ActorsAssumption DEF Copy, Actors
<1>3. \A b \in Cli \ dead : b # Copy(a)
  BY ActorsAssumption DEF Copy, Actors
<1> HIDE DEF dead
<1>4. pc' \in [Actors -> Locations]
  BY <1>1 DEF TypeOK, Locations
<1>5. DOMAIN mem' = Copies /\ DOMAIN op' = Actors /\ \A b \in Actors : IsOp(op'[b])
  BY <1>1, NoOpIs DEF TypeOK
<1>6. ValidConfig(mem'["tui"]) /\ ValidConfig(file')
  BY <1>1, ActorsAssumption DEF TypeOK, Copy, Copies, Actors
<1>7. \A b \in Actors \ dead : pc'[b] = pc[b] /\ op'[b] = op[b] /\ mem'[Copy(b)] = mem[Copy(b)]
  BY <1>1, <1>2, CopyIs DEF TypeOK
<1>8. \A b \in Cli \ dead : mem'[b] = mem[b]
  BY <1>1, <1>3 DEF TypeOK, Copies
<1>9. \A b \in Actors \cap dead : pc'[b] = "idle"
  BY <1>1
<1>10. ASSUME NEW b \in Actors
       PROVE  /\ pc'[b] # "idle" => ValidConfig(mem'[Copy(b)]) /\ op'[b].name \in Names
              /\ pc'[b] = "rename" => ValidConfig(op'[b].tmp)
              /\ pc'[b] = "use" => b \in Cli /\ op'[b].kind = "use" /\ op'[b].name \in DOMAIN mem'[b].ctx
              /\ pc'[b] = "remove" => op'[b].kind = "remove"
  BY <1>7, <1>8, <1>9 DEF TypeOK
<1>11. DOMAIN keyring' = Keys
  BY <1>1 DEF TypeOK
<1> QED BY <1>4, <1>5, <1>6, <1>10, <1>11 DEF TypeOK

-----------------------------------------------------------------------------
(* What begins an operation hands it a well-formed record.                 *)
LEMMA SetContextTypes ==
    ASSUME TypeOK, NEW a \in Actors, SetContext(a)
    PROVE  TypeOK'
<1>1. PICK n \in Names, wizard \in BOOLEAN, proxied \in BOOLEAN,
           flag \in {Unset, Source, Keyring(SharedKey)}, pflag \in {Unset, Keyring(SharedKey)} :
        Begin(a, "store", SetInput(n, wizard, proxied, flag, pflag))
  BY DEF SetContext
<1> DEFINE edits == ~wizard /\ n \in DOMAIN file.ctx
           cr == IF flag = Unset /\ edits THEN file.ctx[n].cred ELSE flag
           pr == IF pflag = Unset /\ edits THEN file.ctx[n].pcred ELSE pflag
           d  == edits /\ flag # Unset
           o  == [NoOp EXCEPT !.kind = "save", !.name = n, !.proxied = proxied, !.cred = cr,
                              !.pcred = pr, !.replace = edits, !.drop = d]
<1>2. Begin(a, "store", o)
  BY <1>1 DEF SetInput
<1>3. cr \in Refs /\ pr \in Refs
  BY PlainRefs, NamedKeys, KeyedRef, ConfigRefs DEF TypeOK
<1> HIDE DEF edits, cr, pr, d
<1>4. IsOp(o) /\ o.name \in Names
  BY <1>3, PlainRefs DEF IsOp, NoOp
<1> QED BY <1>2, <1>4, BeginTypes

LEMMA FormSaveTypes ==
    ASSUME TypeOK, NEW a \in Actors, FormSave(a)
    PROVE  TypeOK'
<1>1. PICK n \in Names, proxied \in BOOLEAN, scheme \in {"keyring", "prompt", "source"} :
        LET old   == mem["tui"].ctx
            edits == n \in DOMAIN old
            kept  == edits /\ old[n].cred.scheme = scheme
        IN  /\ a \in Tui
            /\ scheme = "source" => edits
            /\ Begin(a, "store",
                 [NoOp EXCEPT !.kind = "save", !.name = n, !.proxied = proxied,
                    !.cred = IF kept THEN old[n].cred
                             ELSE IF scheme = "keyring" THEN Keyring(OwnKey(n))
                             ELSE Ref(scheme, None),
                    !.replace = edits, !.drop = edits])
  BY DEF FormSave
<1> DEFINE old   == mem["tui"].ctx
           edits == n \in DOMAIN old
           kept  == edits /\ old[n].cred.scheme = scheme
           cr == IF kept THEN old[n].cred ELSE IF scheme = "keyring" THEN Keyring(OwnKey(n))
                 ELSE Ref(scheme, None)
           o  == [NoOp EXCEPT !.kind = "save", !.name = n, !.proxied = proxied, !.cred = cr,
                              !.replace = edits, !.drop = edits]
<1>2. Begin(a, "store", o)
  BY <1>1
<1>3. cr \in Refs
  <2>1. scheme # "keyring" => Ref(scheme, None) \in Refs
    BY PlainRefs DEF Prompt, Source
  <2>2. Keyring(OwnKey(n)) \in Refs
    BY NamedKeys, KeyedRef
  <2>3. kept => old[n].cred \in Refs
    BY ConfigRefs DEF TypeOK
  <2> QED BY <2>1, <2>2, <2>3
<1> HIDE DEF edits, cr, old, kept
<1>4. IsOp(o) /\ o.name \in Names
  BY <1>3, PlainRefs DEF IsOp, NoOp
<1> QED BY <1>2, <1>4, BeginTypes

LEMMA OtherBeginsTypes ==
    ASSUME TypeOK, NEW a \in Actors, UseContext(a) \/ DeleteContext(a)
    PROVE  TypeOK'
<1>0. ValidConfig(Loaded(a))
  BY DEF Loaded, TypeOK
<1>1. ASSUME NEW n \in DOMAIN Loaded(a).ctx, a \in Cli,
             Begin(a, "use", [NoOp EXCEPT !.kind = "use", !.name = n])
      PROVE  TypeOK'
  <2> DEFINE o == [NoOp EXCEPT !.kind = "use", !.name = n]
  <2>1. IsOp(o) /\ o.name = n /\ o.kind = "use"
    BY PlainRefs DEF IsOp, NoOp
  <2>2. n \in Names /\ n \in DOMAIN file.ctx
    BY <1>0, <1>1, ConfigRefs DEF Loaded
  <2> HIDE DEF o
  <2> QED BY <1>1, <2>1, <2>2, BeginTypes DEF o
<1>2. ASSUME NEW n \in DOMAIN Loaded(a).ctx, NEW with \in BOOLEAN,
             Begin(a, "remove", [NoOp EXCEPT !.kind = "remove", !.name = n, !.with = with])
      PROVE  TypeOK'
  <2> DEFINE o == [NoOp EXCEPT !.kind = "remove", !.name = n, !.with = with]
  <2>1. IsOp(o) /\ o.name = n /\ o.kind = "remove"
    BY PlainRefs DEF IsOp, NoOp
  <2>2. n \in Names
    BY <1>0, ConfigRefs
  <2> HIDE DEF o
  <2> QED BY <1>2, <2>1, <2>2, BeginTypes DEF o
<1> QED BY <1>1, <1>2 DEF UseContext, DeleteContext

(* The keyring keeps its keys.                                             *)
LEMMA StoreTypes ==
    ASSUME TypeOK, NEW a \in Actors, StorePassword(a) \/ StoreProxyPassword(a)
    PROVE  TypeOK'
<1>0. IsOp(op[a]) /\ pc[a] # "idle" /\ ValidConfig(mem[Copy(a)]) /\ ValidConfig(file') /\ mem' = mem
  BY DEF TypeOK, StorePassword, StoreProxyPassword
<1>1. DOMAIN keyring' = Keys
  BY DEF TypeOK, StorePassword, StoreProxyPassword
<1>2. ASSUME NEW l \in {"storeProxy", "add"}, pc' = [pc EXCEPT ![a] = l],
             DOMAIN op' = Actors, \A b \in Actors \ {a} : op'[b] = op[b],
             IsOp(op'[a]), op'[a].name = op[a].name
      PROVE  TypeOK'
  <2>1. DOMAIN mem' = Copies /\ ValidConfig(mem'[Copy(a)]) /\ \A c \in Copies \ {Copy(a)} : mem'[c] = mem[c]
    BY <1>0 DEF TypeOK
  <2> QED BY <1>0, <1>1, <1>2, <2>1, StepTypes DEF Locations
<1>3. ASSUME NEW o, op' = [op EXCEPT ![a] = o]
      PROVE  DOMAIN op' = Actors /\ op'[a] = o /\ \A b \in Actors \ {a} : op'[b] = op[b]
  BY <1>3 DEF TypeOK
<1>4. CASE StorePassword(a)
  <2>1. PICK pw : \/ op' = [op EXCEPT ![a].pw = pw]
                  \/ op' = [op EXCEPT ![a].pw = pw, ![a].cred = Prompt]
    BY <1>4 DEF StorePassword
  <2>2. pc' = [pc EXCEPT ![a] = "storeProxy"]
    BY <1>4 DEF StorePassword, Goto
  <2>3. CASE op' = [op EXCEPT ![a].pw = pw]
    <3>1. op' = [op EXCEPT ![a] = [op[a] EXCEPT !.pw = pw]]
      BY <2>3 DEF TypeOK
    <3>2. IsOp([op[a] EXCEPT !.pw = pw]) /\ [op[a] EXCEPT !.pw = pw].name = op[a].name
      BY <1>0, OpChanges, OpKeeps
    <3> QED BY <1>2, <1>3, <2>2, <3>1, <3>2
  <2>4. CASE op' = [op EXCEPT ![a].pw = pw, ![a].cred = Prompt]
    <3> DEFINE o == [op[a] EXCEPT !.pw = pw, !.cred = Prompt]
    <3>1. op' = [op EXCEPT ![a] = o]
      BY <2>4 DEF TypeOK
    <3>2. IsOp(o) /\ o.name = op[a].name
      BY <1>0, PlainRefs DEF IsOp, NoOp
    <3> HIDE DEF o
    <3> QED BY <1>2, <1>3, <2>2, <3>1, <3>2
  <2> QED BY <2>1, <2>3, <2>4
<1>5. CASE StoreProxyPassword(a)
  <2>1. op' = op \/ op' = [op EXCEPT ![a].pcred = Prompt]
    BY <1>5 DEF StoreProxyPassword
  <2>2. pc' = [pc EXCEPT ![a] = "add"]
    BY <1>5 DEF StoreProxyPassword, Goto
  <2>3. CASE op' = op
    BY <1>0, <1>2, <2>2, <2>3 DEF TypeOK
  <2>4. CASE op' = [op EXCEPT ![a].pcred = Prompt]
    <3> DEFINE o == [op[a] EXCEPT !.pcred = Prompt]
    <3>1. op' = [op EXCEPT ![a] = o]
      BY <2>4 DEF TypeOK
    <3>2. IsOp(o) /\ o.name = op[a].name
      BY <1>0, OpChanges, OpKeeps, PlainRefs
    <3> HIDE DEF o
    <3> QED BY <1>2, <1>3, <2>2, <3>1, <3>2
  <2> QED BY <2>1, <2>3, <2>4
<1> QED BY <1>4, <1>5

-----------------------------------------------------------------------------
(* config.Add, UseContext and Remove make a valid configuration of one.    *)
Added(m, o, cur) ==
    [cur |-> cur, ctx |-> [n \in DOMAIN m.ctx \cup {o.name} |-> IF n = o.name THEN Build(o) ELSE m.ctx[n]]]

LEMMA AddedIsValid ==
    ASSUME NEW m, ValidConfig(m), NEW o, IsOp(o), o.name \in Names,
           NEW cur, cur = o.name \/ cur = m.cur
    PROVE  ValidConfig(Added(m, o, cur))
<1> DEFINE c == [n \in DOMAIN m.ctx \cup {o.name} |-> IF n = o.name THEN Build(o) ELSE m.ctx[n]]
<1>1. /\ DOMAIN m.ctx \subseteq Names /\ \A n \in DOMAIN m.ctx : m.ctx[n] \in Contexts
      /\ m.cur # None => m.cur \in DOMAIN m.ctx
  BY DEF ValidConfig
<1>2. Build(o) \in Contexts
  BY BuildIs
<1>3. DOMAIN c = DOMAIN m.ctx \cup {o.name} /\ \A n \in DOMAIN c : c[n] \in Contexts
  BY <1>1, <1>2
<1>4. Added(m, o, cur) = [cur |-> cur, ctx |-> c]
  BY DEF Added
<1> HIDE DEF c
<1> QED BY <1>1, <1>3, <1>4 DEF ValidConfig

LEMMA RemovedIsValid ==
    ASSUME NEW m, ValidConfig(m), NEW n
    PROVE  ValidConfig([cur |-> IF m.cur = n THEN None ELSE m.cur,
                        ctx |-> [x \in DOMAIN m.ctx \ {n} |-> m.ctx[x]]])
BY DEF ValidConfig

LEMMA UsedIsValid ==
    ASSUME NEW m, ValidConfig(m), NEW n \in DOMAIN m.ctx
    PROVE  ValidConfig([m EXCEPT !.cur = n])
BY DEF ValidConfig

LEMMA AddContextTypes ==
    ASSUME TypeOK, NEW a \in Actors, AddContext(a)
    PROVE  TypeOK'
<1>0. /\ IsOp(op[a]) /\ op[a].name \in Names /\ pc[a] # "idle" /\ ValidConfig(mem[Copy(a)])
      /\ ValidConfig(file') /\ DOMAIN keyring' = Keys
  BY DEF TypeOK, AddContext
<1> DEFINE m == mem[Copy(a)]
<1>1. CASE End(a)
  BY <1>0, <1>1, EndTypes
<1>2. ASSUME NEW setCurrent \in BOOLEAN, NEW r,
             mem' = [mem EXCEPT ![Copy(a)] =
                       Added(m, op[a], IF setCurrent \/ m.cur = None THEN op[a].name ELSE m.cur)],
             r = (IF op[a].drop /\ op[a].name \in DOMAIN m.ctx THEN m.ctx[op[a].name].cred ELSE Unset),
             op' = [op EXCEPT ![a].replaced = r],
             Goto(a, "temp")
      PROVE  TypeOK'
  <2> DEFINE cur == IF setCurrent \/ m.cur = None THEN op[a].name ELSE m.cur
             o   == [op[a] EXCEPT !.replaced = r]
  <2>1. ValidConfig(Added(m, op[a], cur))
    <3>1. cur = op[a].name \/ cur = m.cur
      OBVIOUS
    <3> HIDE DEF cur, m
    <3> QED BY <1>0, <3>1, AddedIsValid DEF m
  <2>2. r \in Refs
    <3>1. op[a].name \in DOMAIN m.ctx => m.ctx[op[a].name].cred \in Refs
      BY <1>0, ConfigRefs
    <3> QED BY <1>2, <3>1, PlainRefs
  <2>3. IsOp(o) /\ o.name = op[a].name
    BY <1>0, <2>2, OpChanges, OpKeeps
  <2>4. op' = [op EXCEPT ![a] = o]
    BY <1>2 DEF TypeOK
  <2> HIDE DEF cur, o
  <2>5. DOMAIN op' = Actors /\ op'[a] = o /\ \A b \in Actors \ {a} : op'[b] = op[b]
    BY <2>4 DEF TypeOK
  <2>6. /\ DOMAIN mem' = Copies /\ mem'[Copy(a)] = Added(m, op[a], cur)
        /\ \A c \in Copies \ {Copy(a)} : mem'[c] = mem[c]
    BY <1>2, CopyIs DEF TypeOK, cur
  <2>7. pc' = [pc EXCEPT ![a] = "temp"]
    BY <1>2 DEF Goto
  <2> HIDE DEF m
  <2> QED BY <1>0, <2>1, <2>3, <2>5, <2>6, <2>7, StepTypes DEF Locations
<1> QED BY <1>1, <1>2 DEF AddContext, Added

LEMMA UseCurrentTypes ==
    ASSUME TypeOK, NEW a \in Actors, UseCurrent(a)
    PROVE  TypeOK'
<1>0. /\ IsOp(op[a]) /\ pc[a] = "use" /\ ValidConfig(mem[Copy(a)])
      /\ a \in Cli /\ op[a].name \in DOMAIN mem[a].ctx
      /\ ValidConfig(file') /\ DOMAIN keyring' = Keys /\ op' = op
  BY DEF TypeOK, UseCurrent
<1>1. Copy(a) = a /\ a \in Copies
  BY <1>0, ActorsAssumption DEF Copy, Copies
<1>2. /\ DOMAIN mem' = Copies /\ mem'[a] = [mem[a] EXCEPT !.cur = op[a].name]
      /\ \A c \in Copies \ {a} : mem'[c] = mem[c]
  BY <1>1 DEF TypeOK, UseCurrent
<1>3. ValidConfig(mem'[a])
  BY <1>0, <1>1, <1>2, UsedIsValid
<1>4. pc' = [pc EXCEPT ![a] = "temp"]
  BY DEF UseCurrent, Goto
<1>5. DOMAIN op' = Actors
  BY <1>0 DEF TypeOK
<1> QED BY <1>0, <1>1, <1>2, <1>3, <1>4, <1>5, StepTypes DEF Locations

LEMMA RemoveContextTypes ==
    ASSUME TypeOK, NEW a \in Actors, RemoveContext(a)
    PROVE  TypeOK'
<1>0. /\ IsOp(op[a]) /\ pc[a] # "idle" /\ ValidConfig(mem[Copy(a)])
      /\ ValidConfig(file') /\ DOMAIN keyring' = Keys
  BY DEF TypeOK, RemoveContext
<1>1. CASE End(a)
  BY <1>0, <1>1, EndTypes
<1>2. CASE ~End(a)
  <2> DEFINE m == mem[Copy(a)]
             n == op[a].name
             t == [cur |-> IF m.cur = n THEN None ELSE m.cur, ctx |-> [x \in DOMAIN m.ctx \ {n} |-> m.ctx[x]]]
             h == m.ctx[n]
             o == [op[a] EXCEPT !.held = h]
  <2>1. mem' = [mem EXCEPT ![Copy(a)] = t] /\ op' = [op EXCEPT ![a].held = h] /\ pc' = [pc EXCEPT ![a] = "temp"]
    BY <1>2 DEF RemoveContext, Goto
  <2>2. ValidConfig(t)
    BY <1>0, RemovedIsValid
  <2>3. IsOp(o) /\ o.name = op[a].name
    BY <1>0, OpChanges, OpKeeps
  <2>4. op' = [op EXCEPT ![a] = o]
    BY <2>1 DEF TypeOK
  <2> HIDE DEF t, o, h
  <2>5. DOMAIN op' = Actors /\ op'[a] = o /\ \A b \in Actors \ {a} : op'[b] = op[b]
    BY <2>4 DEF TypeOK
  <2>6. /\ DOMAIN mem' = Copies /\ mem'[Copy(a)] = t
        /\ \A c \in Copies \ {Copy(a)} : mem'[c] = mem[c]
    BY <2>1, CopyIs DEF TypeOK
  <2> QED BY <1>0, <2>1, <2>2, <2>3, <2>5, <2>6, StepTypes DEF Locations
<1> QED BY <1>1, <1>2

(* config.Save renames only what it validated.                             *)
LEMMA WriteTypes ==
    ASSUME TypeOK, NEW a \in Actors, WriteTemp(a) \/ Rename(a) \/ Cleanup(a)
    PROVE  TypeOK'
<1>0. IsOp(op[a]) /\ pc[a] # "idle" /\ ValidConfig(mem[Copy(a)]) /\ DOMAIN keyring' = Keys
  BY DEF TypeOK, WriteTemp, Rename, Cleanup
<1>1. CASE End(a) /\ file' = file
  BY <1>0, <1>1, EndTypes DEF TypeOK
<1>2. CASE WriteTemp(a) /\ ~End(a)
  <2> DEFINE m == mem[Copy(a)]
             o == [op[a] EXCEPT !.tmp = m]
  <2>1. /\ ValidConfig(m) /\ op' = [op EXCEPT ![a].tmp = m]
        /\ pc' = [pc EXCEPT ![a] = "rename"] /\ mem' = mem /\ file' = file
    BY <1>2 DEF WriteTemp, Goto
  <2>2. op' = [op EXCEPT ![a] = o]
    BY <2>1 DEF TypeOK
  <2>3. IsOp(o) /\ o.name = op[a].name
    BY <1>0, OpChanges, OpKeeps
  <2>4. o.tmp = m
    BY <1>0 DEF IsOp, NoOp
  <2> HIDE DEF o
  <2>5. DOMAIN op' = Actors /\ op'[a] = o /\ \A b \in Actors \ {a} : op'[b] = op[b]
    BY <2>2 DEF TypeOK
  <2>6. ValidConfig(file') /\ DOMAIN mem' = Copies /\ mem'[Copy(a)] = m
        /\ \A c \in Copies \ {Copy(a)} : mem'[c] = mem[c]
    BY <2>1 DEF TypeOK
  <2> QED BY <1>0, <2>1, <2>3, <2>4, <2>5, <2>6, StepTypes DEF Locations
<1>3. CASE /\ pc[a] = "rename" /\ file' = op[a].tmp /\ Goto(a, "cleanup")
           /\ UNCHANGED <<mem, op>>
  <2>1. /\ file' = op[a].tmp /\ pc[a] = "rename" /\ pc' = [pc EXCEPT ![a] = "cleanup"]
        /\ mem' = mem /\ op' = op
    BY <1>3 DEF Goto
  <2>2. ValidConfig(file') /\ DOMAIN mem' = Copies /\ DOMAIN op' = Actors
    BY <2>1 DEF TypeOK
  <2> QED BY <1>0, <2>1, <2>2, StepTypes DEF Locations
<1>4. CASE WriteTemp(a)
  <2>1. file' = file
    BY <1>4 DEF WriteTemp
  <2> QED BY <1>1, <1>2, <1>4, <2>1
<1>5. CASE Rename(a)
  BY <1>1, <1>3, <1>5 DEF Rename
<1>6. CASE Cleanup(a)
  BY <1>1, <1>6 DEF Cleanup
<1> QED BY <1>4, <1>5, <1>6

LEMMA InitTypes == Init => TypeOK
<1> SUFFICES ASSUME Init PROVE TypeOK
  OBVIOUS
<1>1. PICK S \in SUBSET Names : \E ctx \in [S -> Earlier], cur \in S \cup {None} : file = [cur |-> cur, ctx |-> ctx]
  BY DEF Init
<1>2. PICK ctx \in [S -> Earlier], cur \in S \cup {None} : file = [cur |-> cur, ctx |-> ctx]
  BY <1>1
<1>3. Earlier \subseteq Contexts
  <2>1. Keyring(SharedKey) \in Refs /\ Unset \in Refs /\ Prompt \in Refs
    BY PlainRefs, KeyedRef DEF Keys
  <2> QED BY <2>1 DEF Earlier, Contexts
<1>4. ValidConfig(file)
  BY <1>2, <1>3 DEF ValidConfig
<1> QED BY <1>4, NoOpIs DEF Init, TypeOK, Locations, Copies

LEMMA TypeStep ==
    ASSUME TypeOK, [Next]_vars
    PROVE  TypeOK'
<1>1. CASE UNCHANGED vars
  BY <1>1 DEF TypeOK, vars
<1>2. ASSUME NEW a \in Actors, Saving(a)
      PROVE  TypeOK'
  BY <1>2, StoreTypes, AddContextTypes, UseCurrentTypes, RemoveContextTypes, WriteTypes DEF Saving
<1>3. ASSUME NEW a \in Actors, SetContext(a) \/ FormSave(a) \/ UseContext(a) \/ DeleteContext(a) \/ Kill(a)
      PROVE  TypeOK'
  BY <1>3, SetContextTypes, FormSaveTypes, OtherBeginsTypes, KillTypes
<1> QED BY <1>1, <1>2, <1>3 DEF Next

(* At any moment, whatever commands and processes overlap and wherever     *)
(* they are killed, config.Load accepts the file (config.Save validates,   *)
(* writes beside the file and renames).                                    *)
THEOREM FileLoadsHolds == Spec => []FileLoads
<1>1. TypeOK => FileLoads
  BY DEF TypeOK, FileLoads
<1> QED BY <1>1, InitTypes, TypeStep, PTL DEF Spec

-----------------------------------------------------------------------------
(* What an input is saved as does not depend on the operation's locals.    *)
LEMMA BuildSame ==
    ASSUME NEW o, IsOp(o), NEW f \in {"pw", "tmp", "replaced", "held"}, NEW x
    PROVE  LET p == [o EXCEPT ![f] = x]
           IN  /\ Build(p) = Build(o) /\ p.kind = o.kind /\ p.name = o.name
               /\ p[f] = x /\ (f # "pw" => p.pw = o.pw)
BY DEF IsOp, NoOp, Build

LEMMA BuildSchemes ==
    ASSUME NEW o, IsOp(o), o.name \in Names
    PROVE  /\ Build(o).cred \in Refs /\ Build(o).pcred \in Refs
           /\ Build(o).cred.scheme \in {"keyring", "prompt", "source"}
<1>1. Build(o).cred \in Refs /\ Build(o).pcred \in Refs
  BY BuildIs DEF Contexts
<1>2. Build(o).cred # Unset
  BY DEF Build, Unset, Ref, Keyring
<1> QED BY <1>1, <1>2 DEF Refs, Unset, Prompt, Source, Keyring, Ref

(* The steps of a command that runs alone.                                 *)
Mine(a) ==
    /\ Kept(a)
    /\ pc[a] = "rename" => op[a].tmp = mem[Copy(a)]
    /\ pc[a] = "cleanup" => file = mem[Copy(a)]

LEMMA AloneStep ==
    ASSUME TypeOK, Alone, NEW a \in Actors, pc[a] # "idle",
           NEW l, pc' = [pc EXCEPT ![a] = l], overlapped' = overlapped,
           ~overlapped => Mine(a)'
    PROVE  Alone'
<1> SUFFICES ASSUME ~overlapped' PROVE /\ \A b, c \in Actors : pc'[b] # "idle" /\ pc'[c] # "idle" => b = c
                                      /\ \A b \in Actors : Mine(b)'
  BY DEF Alone, Mine
<1>1. \A b \in Actors \ {a} : pc[b] = "idle" /\ pc'[b] = "idle"
  BY DEF Alone, TypeOK
<1>2. ASSUME NEW b \in Actors \ {a} PROVE Mine(b)'
  BY <1>1 DEF Mine, Kept
<1> QED BY <1>1, <1>2

LEMMA IdleAlone ==
    ASSUME ~overlapped' => \A b \in Actors : pc'[b] \in {"idle", "store", "use", "remove"},
           ~overlapped' => \A b, c \in Actors : pc'[b] # "idle" /\ pc'[c] # "idle" => b = c
    PROVE  Alone'
BY DEF Alone, Kept

LEMMA BeginAlone ==
    ASSUME TypeOK, NEW a \in Actors, NEW l \in {"store", "use", "remove"}, NEW o, Begin(a, l, o)
    PROVE  Alone'
<1>1. ~overlapped' => \A b \in Actors \ {a} : pc[b] = "idle"
  BY DEF Begin, Busy
<1>2. pc' = [pc EXCEPT ![a] = l]
  BY DEF Begin, Goto
<1> QED BY <1>1, <1>2, IdleAlone DEF TypeOK

LEMMA EndAlone ==
    ASSUME TypeOK, Alone, NEW a \in Actors, pc[a] # "idle", End(a)
    PROVE  Alone'
<1>1. overlapped' = overlapped /\ pc' = [pc EXCEPT ![a] = "idle"]
  BY DEF End, Goto
<1>2. ~overlapped' => \A b \in Actors : pc'[b] = "idle"
  BY <1>1 DEF Alone, TypeOK
<1> QED BY <1>2, IdleAlone

LEMMA KillAlone ==
    ASSUME TypeOK, Alone, NEW a \in Actors, Kill(a)
    PROVE  Alone'
<1> DEFINE dead == IF a \in Tui THEN Tui ELSE {a}
<1>1. /\ overlapped' = overlapped /\ pc[a] # "idle"
      /\ pc' = [b \in Actors |-> IF b \in dead THEN "idle" ELSE pc[b]]
  BY DEF Kill
<1>2. a \in dead
  OBVIOUS
<1> HIDE DEF dead
<1>3. ~overlapped' => \A b \in Actors : pc'[b] = "idle"
  BY <1>1, <1>2 DEF Alone, TypeOK
<1> QED BY <1>3, IdleAlone

(* A password typed for a reference that has no keyring entry is asked for *)
(* again; one that has is stored, or the reference becomes a prompt.       *)
LEMMA StorePasswordAlone ==
    ASSUME TypeOK, Alone, NEW a \in Actors, StorePassword(a)
    PROVE  Alone'
<1> DEFINE ref == Build(op[a]).cred
<1>1. /\ pc[a] # "idle" /\ pc' = [pc EXCEPT ![a] = "storeProxy"] /\ overlapped' = overlapped
      /\ IsOp(op[a]) /\ op[a].name \in Names
  BY DEF StorePassword, Goto, TypeOK
<1>2. pc'[a] = "storeProxy"
  BY <1>1 DEF TypeOK
<1>3. ref \in Refs /\ ref.scheme \in {"keyring", "prompt", "source"}
  BY <1>1, BuildSchemes
<1>4. PICK pw \in Typed(a, ref) :
        IF pw # None /\ ref.scheme = "keyring"
        THEN \/ /\ keyring' = [keyring EXCEPT ![ref.key] = pw]
                /\ op' = [op EXCEPT ![a].pw = pw]
             \/ /\ op' = [op EXCEPT ![a].pw = pw, ![a].cred = Prompt]
                /\ UNCHANGED keyring
        ELSE op' = [op EXCEPT ![a].pw = pw] /\ UNCHANGED keyring
  BY DEF StorePassword
<1>5. ASSUME op' = [op EXCEPT ![a].pw = pw],
             pw # None /\ ref.scheme = "keyring" => keyring' = [keyring EXCEPT ![ref.key] = pw]
      PROVE  Alone'
  <2>1. op'[a] = [op[a] EXCEPT !["pw"] = pw]
    BY <1>5 DEF TypeOK
  <2>2. Build(op'[a]) = Build(op[a]) /\ op'[a].pw = pw
    BY <1>1, <2>1, BuildSame
  <2>3. ASSUME pw # None PROVE Stored(a)'
    <3>1. CASE ref.scheme = "keyring"
      <4>1. ref.key \in Keys
        BY <1>3, <3>1, KeyringRef
      <4>2. keyring'[ref.key] = pw
        BY <1>5, <2>3, <3>1, <4>1 DEF TypeOK
      <4> QED BY <2>2, <3>1, <4>2 DEF Stored
    <3>2. CASE ref.scheme = "prompt"
      BY <2>2, <3>2 DEF Stored
    <3>3. ref.scheme # "source"
      BY <2>3 DEF Typed
    <3> QED BY <1>3, <3>1, <3>2, <3>3
  <2>4. Kept(a)'
    BY <1>2, <2>2, <2>3 DEF Kept
  <2> QED BY <1>1, <1>2, <2>4, AloneStep DEF Mine
<1>6. CASE op' = [op EXCEPT ![a].pw = pw, ![a].cred = Prompt]
  <2>1. op'[a].cred = Prompt
    BY <1>1, <1>6 DEF TypeOK, IsOp, NoOp
  <2>2. Build(op'[a]).cred.scheme = "prompt"
    BY <2>1 DEF Build, Prompt, Unset, Ref
  <2>3. Kept(a)'
    BY <1>2, <2>2 DEF Kept, Stored
  <2> QED BY <1>1, <1>2, <2>3, AloneStep DEF Mine
<1> HIDE DEF ref
<1> QED BY <1>4, <1>5, <1>6

(* The proxy's password goes to another entry, unless the two references   *)
(* are one.                                                                *)
LEMMA StoreProxyPasswordAlone ==
    ASSUME TypeOK, Alone, NEW a \in Actors, StoreProxyPassword(a)
    PROVE  Alone'
<1> DEFINE cred == Build(op[a]).cred
           ref == Build(op[a]).pcred
<1>1. /\ pc[a] = "storeProxy" /\ pc' = [pc EXCEPT ![a] = "add"] /\ overlapped' = overlapped
      /\ IsOp(op[a]) /\ op[a].name \in Names
  BY DEF StoreProxyPassword, Goto, TypeOK
<1>2. pc'[a] = "add" /\ pc[a] # "idle"
  BY <1>1 DEF TypeOK
<1>3. cred \in Refs /\ ref \in Refs
  BY <1>1, BuildSchemes
<1>4. \/ UNCHANGED <<keyring, op>>
      \/ \E pw : ref.scheme = "keyring" /\ keyring' = [keyring EXCEPT ![ref.key] = pw] /\ UNCHANGED op
      \/ op' = [op EXCEPT ![a].pcred = Prompt] /\ UNCHANGED keyring
  BY DEF StoreProxyPassword
<1>5. ASSUME ~overlapped, op[a].kind = "save", op[a].pw # None PROVE Stored(a)
  BY <1>1, <1>5 DEF Alone, Kept
<1>6. CASE UNCHANGED <<keyring, op>>
  <2>1. ~overlapped => Kept(a)'
    BY <1>2, <1>5, <1>6 DEF Kept, Stored
  <2> QED BY <1>1, <1>2, <2>1, AloneStep DEF Mine
<1>7. ASSUME NEW pw, ref.scheme = "keyring", keyring' = [keyring EXCEPT ![ref.key] = pw], UNCHANGED op
      PROVE  Alone'
  <2>1. cred # ref /\ cred.scheme = "keyring" => keyring'[cred.key] = keyring[cred.key]
    BY <1>3, <1>7, KeyringRef DEF TypeOK
  <2>2. ~overlapped => Kept(a)'
    BY <1>2, <1>5, <1>7, <2>1 DEF Kept, Stored
  <2> QED BY <1>1, <1>2, <2>2, AloneStep DEF Mine
<1>8. CASE op' = [op EXCEPT ![a].pcred = Prompt] /\ UNCHANGED keyring
  <2>1. op'[a] = [op[a] EXCEPT !.pcred = Prompt]
    BY <1>8 DEF TypeOK
  <2>2. Build(op'[a]).cred = cred /\ op'[a].pw = op[a].pw /\ op'[a].kind = op[a].kind
    BY <1>1, <2>1 DEF IsOp, NoOp, Build
  <2>3. ~overlapped => Kept(a)'
    BY <1>2, <1>5, <1>8, <2>2 DEF Kept, Stored
  <2> QED BY <1>1, <1>2, <2>3, AloneStep DEF Mine
<1> HIDE DEF cred, ref
<1> QED BY <1>4, <1>6, <1>7, <1>8

LEMMA AddContextAlone ==
    ASSUME TypeOK, Alone, NEW a \in Actors, AddContext(a)
    PROVE  Alone'
<1> DEFINE m == mem[Copy(a)]
<1>1. pc[a] = "add" /\ pc[a] # "idle" /\ IsOp(op[a]) /\ op[a].name \in Names /\ Copy(a) \in Copies
  BY CopyIs DEF AddContext, TypeOK
<1>2. CASE End(a)
  BY <1>1, <1>2, EndAlone
<1>3. ASSUME NEW cur, NEW r,
             mem' = [mem EXCEPT ![Copy(a)] = Added(m, op[a], cur)],
             op' = [op EXCEPT ![a].replaced = r],
             Goto(a, "temp"), UNCHANGED <<overlapped, keyring>>
      PROVE  Alone'
  <2>1. pc' = [pc EXCEPT ![a] = "temp"] /\ pc'[a] = "temp" /\ overlapped' = overlapped /\ keyring' = keyring
    BY <1>3 DEF Goto, TypeOK
  <2>2. op'[a] = [op[a] EXCEPT !["replaced"] = r]
    BY <1>3 DEF TypeOK
  <2>3. /\ Build(op'[a]) = Build(op[a]) /\ op'[a].kind = op[a].kind
        /\ op'[a].name = op[a].name /\ op'[a].pw = op[a].pw
    BY <1>1, <2>2, BuildSame
  <2>4. mem'[Copy(a)] = Added(m, op[a], cur)
    BY <1>1, <1>3 DEF TypeOK
  <2>5. op[a].name \in DOMAIN mem'[Copy(a)].ctx /\ mem'[Copy(a)].ctx[op[a].name] = Build(op[a])
    BY <2>4 DEF Added
  <2>6. Stored(a) => Stored(a)'
    BY <2>1, <2>3 DEF Stored
  <2>7. ~overlapped => Kept(a)
    BY DEF Alone
  <2>8. ~overlapped => Kept(a)'
    BY <1>1, <2>1, <2>3, <2>5, <2>6, <2>7 DEF Kept
  <2> QED BY <1>1, <2>1, <2>8, AloneStep DEF Mine
<1> QED BY <1>2, <1>3 DEF AddContext, Added

(* use-context and delete-context have no password to keep.                *)
LEMMA UseRemoveAlone ==
    ASSUME TypeOK, Alone, NEW a \in Actors, UseCurrent(a) \/ RemoveContext(a)
    PROVE  Alone'
<1>1. pc[a] # "idle" /\ IsOp(op[a]) /\ op[a].kind # "save"
  BY DEF UseCurrent, RemoveContext, TypeOK
<1>2. CASE End(a)
  BY <1>1, <1>2, EndAlone
<1>3. CASE ~End(a)
  <2>1. pc' = [pc EXCEPT ![a] = "temp"] /\ overlapped' = overlapped
    BY <1>3 DEF UseCurrent, RemoveContext, Goto
  <2>2. op' = op \/ \E h : op' = [op EXCEPT ![a].held = h]
    BY <1>3 DEF UseCurrent, RemoveContext
  <2>3. op'[a].kind = op[a].kind
    BY <1>1, <2>2 DEF TypeOK, IsOp, NoOp
  <2>4. pc'[a] = "temp"
    BY <2>1 DEF TypeOK
  <2> QED BY <1>1, <2>1, <2>3, <2>4, AloneStep DEF Mine, Kept
<1> QED BY <1>2, <1>3

(* What reaches the file is the copy in memory.                            *)
LEMMA WriteAlone ==
    ASSUME TypeOK, Alone, NEW a \in Actors, WriteTemp(a) \/ Rename(a) \/ Cleanup(a)
    PROVE  Alone'
<1>1. pc[a] # "idle" /\ IsOp(op[a]) /\ (~overlapped => Mine(a))
  BY DEF WriteTemp, Rename, Cleanup, TypeOK, Alone, Mine
<1>2. CASE End(a)
  BY <1>1, <1>2, EndAlone
<1>3. CASE WriteTemp(a) /\ ~End(a)
  <2> DEFINE m == mem[Copy(a)]
  <2>1. /\ pc[a] = "temp" /\ pc' = [pc EXCEPT ![a] = "rename"] /\ op' = [op EXCEPT ![a].tmp = m]
        /\ mem' = mem /\ overlapped' = overlapped /\ keyring' = keyring
    BY <1>3 DEF WriteTemp, Goto
  <2>2. pc'[a] = "rename" /\ op'[a] = [op[a] EXCEPT !["tmp"] = m]
    BY <2>1 DEF TypeOK
  <2> HIDE DEF m
  <2>3. /\ Build(op'[a]) = Build(op[a]) /\ op'[a].kind = op[a].kind /\ op'[a].tmp = m
        /\ op'[a].name = op[a].name /\ op'[a].pw = op[a].pw
    BY <1>1, <2>2, BuildSame
  <2>4. Stored(a) => Stored(a)'
    BY <2>1, <2>3 DEF Stored
  <2>5. ~overlapped => Kept(a)'
    BY <1>1, <2>1, <2>2, <2>3, <2>4 DEF Kept, Mine
  <2> QED BY <1>1, <2>1, <2>2, <2>3, <2>5, AloneStep DEF Mine, m
<1>4. CASE Rename(a) /\ ~End(a)
  <2>1. /\ pc[a] = "rename" /\ pc' = [pc EXCEPT ![a] = "cleanup"] /\ file' = op[a].tmp
        /\ mem' = mem /\ op' = op /\ overlapped' = overlapped /\ keyring' = keyring
    BY <1>4 DEF Rename, Goto
  <2>2. pc'[a] = "cleanup"
    BY <2>1 DEF TypeOK
  <2>3. ~overlapped => Kept(a)'
    BY <1>1, <2>1, <2>2 DEF Kept, Mine, Stored
  <2> QED BY <1>1, <2>1, <2>2, <2>3, AloneStep DEF Mine
<1> QED BY <1>2, <1>3, <1>4 DEF Cleanup

LEMMA BeginsAlone ==
    ASSUME TypeOK, NEW a \in Actors, SetContext(a) \/ FormSave(a) \/ UseContext(a) \/ DeleteContext(a)
    PROVE  Alone'
<1>1. \E l \in {"store", "use", "remove"} : \E o : Begin(a, l, o)
  <2>1. CASE SetContext(a)
    BY <2>1 DEF SetContext
  <2>2. CASE FormSave(a)
    BY <2>2 DEF FormSave
  <2>3. CASE UseContext(a)
    BY <2>3 DEF UseContext
  <2>4. CASE DeleteContext(a)
    BY <2>4 DEF DeleteContext
  <2> QED BY <2>1, <2>2, <2>3, <2>4
<1> QED BY <1>1, BeginAlone

LEMMA InitAlone == Init => Alone
BY DEF Init, Alone, Kept, Actors

LEMMA AloneInduction ==
    ASSUME TypeOK, Alone, [Next]_vars
    PROVE  Alone'
<1>1. CASE UNCHANGED vars
  BY <1>1 DEF Alone, Kept, Stored, vars
<1>2. ASSUME NEW a \in Actors, Saving(a)
      PROVE  Alone'
  BY <1>2, StorePasswordAlone, StoreProxyPasswordAlone, AddContextAlone, UseRemoveAlone, WriteAlone
     DEF Saving
<1>3. ASSUME NEW a \in Actors, SetContext(a) \/ FormSave(a) \/ UseContext(a) \/ DeleteContext(a) \/ Kill(a)
      PROVE  Alone'
  BY <1>3, BeginsAlone, KillAlone
<1> QED BY <1>1, <1>2, <1>3 DEF Next

LEMMA AloneInvariant == Spec => [](TypeOK /\ Alone)
<1>1. Init => TypeOK /\ Alone
  BY InitTypes, InitAlone
<1>2. TypeOK /\ Alone /\ [Next]_vars => (TypeOK /\ Alone)'
  BY TypeStep, AloneInduction
<1> QED BY <1>1, <1>2, PTL DEF Spec

(* Once a command that typed a password and ran alone has renamed its file *)
(* into place, the context in the file resolves that password or asks for  *)
(* it (contextops.Save downgrades a context whose keyring write failed).   *)
THEOREM SavedAnswersHolds == Spec => []SavedAnswers
<1>1. ASSUME TypeOK, Alone PROVE SavedAnswers
  <2> SUFFICES ASSUME NEW a \in Actors, ~overlapped, Saved(a), op[a].pw # None,
                      file.ctx[op[a].name].cred # file.ctx[op[a].name].pcred
               PROVE  LET c == file.ctx[op[a].name] IN
                      /\ Resolve(c.cred) \subseteq {"ask", op[a].pw}
                      /\ c.cred.scheme = "keyring" => keyring[c.cred.key] = op[a].pw
    BY DEF SavedAnswers
  <2>1. file = mem[Copy(a)] /\ Kept(a)
    BY <1>1 DEF Alone, Saved
  <2>2. file.ctx[op[a].name] = Build(op[a])
    BY <2>1 DEF Kept, Saved
  <2>3. Stored(a)
    BY <2>1, <2>2 DEF Kept, Saved
  <2> QED BY <2>2, <2>3 DEF Stored, Resolve
<1> QED BY <1>1, AloneInvariant, PTL

LEMMA KeyringSteps ==
    ASSUME Next, keyring' # keyring
    PROVE  \E b \in Actors : StorePassword(b) \/ StoreProxyPassword(b) \/ Cleanup(b)
<1>1. ASSUME NEW b \in Actors, SetContext(b) \/ FormSave(b) \/ UseContext(b) \/ DeleteContext(b)
      PROVE  keyring' = keyring
  <2>1. SetContext(b) => \E l, o : Begin(b, l, o)
    BY DEF SetContext
  <2>2. FormSave(b) => \E l, o : Begin(b, l, o)
    BY DEF FormSave
  <2>3. UseContext(b) => \E l, o : Begin(b, l, o)
    BY DEF UseContext
  <2>4. DeleteContext(b) => \E l, o : Begin(b, l, o)
    BY DEF DeleteContext
  <2>5. \A l, o : Begin(b, l, o) => keyring' = keyring
    BY DEF Begin
  <2> QED BY <1>1, <2>1, <2>2, <2>3, <2>4, <2>5
<1>2. ASSUME NEW b \in Actors, Kill(b) \/ AddContext(b) \/ UseCurrent(b) \/ RemoveContext(b)
      PROVE  keyring' = keyring
  BY <1>2 DEF Kill, AddContext, UseCurrent, RemoveContext
<1>3. ASSUME NEW b \in Actors, WriteTemp(b) \/ Rename(b)
      PROVE  keyring' = keyring
  BY <1>3 DEF WriteTemp, Rename
<1> QED BY <1>1, <1>2, <1>3 DEF Next, Saving

(* The cleanup that follows an edit spares every keyring entry a context   *)
(* of the file still resolves through (refInUse before credentials.Delete).*)
THEOREM DropSparesUsedHolds == Spec => DropSparesUsed
<1> DEFINE Spares(a, k) ==
              /\ Saved(a) /\ pc'[a] = "idle" /\ ~overlapped
              /\ keyring[k] # None /\ keyring'[k] = None
              => \A n \in DOMAIN file.ctx : Keyring(k) \notin {file.ctx[n].cred, file.ctx[n].pcred}
<1>1. ASSUME TypeOK, Alone, Next, NEW a \in Actors, NEW k \in Keys
      PROVE  Spares(a, k)
  <2> SUFFICES ASSUME Saved(a), ~overlapped, keyring[k] # None, keyring'[k] = None,
                      NEW n \in DOMAIN file.ctx
               PROVE  Keyring(k) # file.ctx[n].cred /\ Keyring(k) # file.ctx[n].pcred
    OBVIOUS
  <2>1. keyring' # keyring
    OBVIOUS
  <2>2. PICK b \in Actors : StorePassword(b) \/ StoreProxyPassword(b) \/ Cleanup(b)
    BY <1>1, <2>1, KeyringSteps
  <2>3. pc[b] \in {"store", "storeProxy", "cleanup"}
    BY <2>2 DEF StorePassword, StoreProxyPassword, Cleanup
  <2>4. b = a
    BY <1>1, <2>3 DEF Alone, Saved
  <2>5. Cleanup(a)
    BY <2>2, <2>4 DEF Saved, StorePassword, StoreProxyPassword
  <2> DEFINE r == op[a].replaced
             dead == {x \in {r} : ~RefInUse(mem[Copy(a)], x)}
             keys == {x.key : x \in {y \in dead : y.scheme = "keyring"}}
  <2>6. PICK gone \in SUBSET keys : keyring' = [x \in Keys |-> IF x \in gone THEN None ELSE keyring[x]]
    BY <2>5 DEF Cleanup, Saved
  <2>7. k \in keys
    BY <2>6
  <2>8. ~RefInUse(mem[Copy(a)], r) /\ r.scheme = "keyring" /\ r.key = k
    BY <2>7
  <2>9. r = Keyring(k)
    BY <1>1, <2>8, KeyringRef DEF TypeOK, IsOp
  <2>10. file = mem[Copy(a)]
    BY <1>1 DEF Alone, Saved
  <2> QED BY <2>8, <2>9, <2>10 DEF RefInUse
<1>2. ASSUME TypeOK, Alone, [Next]_vars
      PROVE  [\A a \in Actors, k \in Keys : Spares(a, k)]_vars
  BY <1>1, <1>2
<1> QED BY <1>2, AloneInvariant, PTL DEF Spec, DropSparesUsed

=============================================================================
