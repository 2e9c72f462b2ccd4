----------------------------- MODULE ContextOps -----------------------------
(***************************************************************************)
(* Contexts, the configuration file and the keyring: what "config          *)
(* set-context", "use-context", "delete-context" and the form of the       *)
(* terminal interface do to them (internal/contextops, config,             *)
(* credentials, cli/context.go, cli/config.go, tui/form.go).               *)
(*                                                                         *)
(* A command line process reads the file, changes its copy and writes it   *)
(* back; the terminal interface reads it once and keeps its copy.  Every   *)
(* call on the keyring and every file operation may fail, and a process    *)
(* may be killed between any two of them.  A context is reduced to where   *)
(* its password and its proxy's password come from.                        *)
(***************************************************************************)
EXTENDS Naturals

CONSTANTS
    Names,      \* context names
    Passwords,  \* what an operator may type
    Tui,        \* commands of the terminal interface; they share one copy
    Cli,        \* command line processes, each with its own copy
    MaxOps,     \* bound on the operations begun
    None        \* no context, password, key or copy

ASSUME ActorsAssumption == Tui \cap Cli = {} /\ "tui" \notin Cli

VARIABLES
    file,       \* config.toml: [cur, ctx], ctx a function from some names
    mem,        \* copy -> the configuration in memory, or None
    keyring,    \* key -> the password stored under it, or None
    pc,         \* actor -> where it is in its operation
    op,         \* actor -> the operation's input and locals
    ops,        \* operations begun
    overlapped  \* history: two operations were once in progress together

vars == <<file, mem, keyring, pc, op, ops, overlapped>>

Actors    == Tui \cup Cli
Copies    == Cli \cup {"tui"}
Copy(a)   == IF a \in Tui THEN "tui" ELSE a

OwnKey(n)   == <<"own", n>>
ProxyKey(n) == <<"proxy", n>>
SharedKey   == <<"shared", None>>      \* a key named explicitly, by any context
Keys        == {OwnKey(n) : n \in Names} \cup {ProxyKey(n) : n \in Names} \cup {SharedKey}

(* A reference says where a password comes from.  "source" stands for env, *)
(* file and exec, which resolve without a terminal.                        *)
Ref(s, k) == [scheme |-> s, key |-> k]
Unset     == Ref("unset", None)
Prompt    == Ref("prompt", None)
Source    == Ref("source", None)
Keyring(k) == Ref("keyring", k)
Refs      == {Unset, Prompt, Source} \cup {Keyring(k) : k \in Keys}

Contexts  == [cred: Refs, pcred: Refs]
ValidConfig(c) ==
    /\ DOMAIN c = {"cur", "ctx"}
    /\ DOMAIN c.ctx \subseteq Names
    /\ \A n \in DOMAIN c.ctx : c.ctx[n] \in Contexts
    /\ c.cur # None => c.cur \in DOMAIN c.ctx

NoOp == [kind |-> "none", name |-> None, cred |-> Unset, pcred |-> Unset,
         proxied |-> FALSE, pw |-> None, replace |-> FALSE, drop |-> FALSE,
         replaced |-> Unset, with |-> FALSE, tmp |-> None, held |-> None]

(* The file as earlier commands or an editor left it: contexts that share  *)
(* a keyring key, for themselves or for their proxy, or have one of their  *)
(* own.  The keyring holds what was stored under the shared key.           *)
Earlier == [cred: {Keyring(SharedKey)}, pcred: {Unset}]
           \cup [cred: {Prompt}, pcred: {Keyring(SharedKey)}]

Init ==
    /\ \E S \in SUBSET Names : \E ctx \in [S -> Earlier], cur \in S \cup {None} :
        file = [cur |-> cur, ctx |-> ctx]
    /\ mem = [c \in Copies |-> IF c = "tui" THEN file ELSE None]
    /\ keyring = [k \in Keys |-> IF k = SharedKey THEN "earlier" ELSE None]
    /\ pc = [a \in Actors |-> "idle"]
    /\ op = [a \in Actors |-> NoOp]
    /\ ops = 0
    /\ overlapped = FALSE

-----------------------------------------------------------------------------
(* Resolving a reference: the password, or "ask" when the operator is      *)
(* asked, or "fail".  A keyring that is locked or empty falls back to the  *)
(* prompt; env, file and exec never do.                                    *)
Resolve(ref) ==
    CASE ref.scheme = "keyring" -> {"ask"} \cup ({keyring[ref.key]} \ {None})
      [] ref.scheme = "source"  -> {"source", "fail"}
      [] OTHER                  -> {"ask"}

RefInUseOwn(c, ref) == \E n \in DOMAIN c.ctx : c.ctx[n].cred = ref  \* seeded fault

(* refInUse: some context resolves its own or its proxy's password there.  *)
RefInUse(c, ref) == \E n \in DOMAIN c.ctx : c.ctx[n].cred = ref \/ c.ctx[n].pcred = ref

(* Build: what an input is saved as.                                       *)
Build(i) ==
    [cred  |-> IF i.cred = Unset THEN Keyring(OwnKey(i.name)) ELSE i.cred,
     pcred |-> IF ~i.proxied THEN Unset
               ELSE IF i.pcred = Unset THEN Keyring(ProxyKey(i.name)) ELSE i.pcred]

-----------------------------------------------------------------------------
Goto(a, l) == pc' = [pc EXCEPT ![a] = l]

Busy(a) == \E b \in Actors \ {a} : pc[b] # "idle"

(* An operation starts: a command line process loads the file first.       *)
Begin(a, l, o) ==
    /\ pc[a] = "idle"
    /\ ops < MaxOps
    /\ ops' = ops + 1
    /\ op' = [op EXCEPT ![a] = o]
    /\ mem' = IF a \in Cli THEN [mem EXCEPT ![a] = file] ELSE mem
    /\ overlapped' = (overlapped \/ Busy(a))
    /\ Goto(a, l)
    /\ UNCHANGED <<file, keyring>>

(* It ends, well or not; a command line process exits.                     *)
End(a) ==
    /\ Goto(a, "idle")
    /\ op' = [op EXCEPT ![a] = NoOp]
    /\ mem' = IF a \in Cli THEN [mem EXCEPT ![a] = None] ELSE mem
    /\ UNCHANGED <<ops, overlapped>>

Loaded(a) == IF a \in Cli THEN file ELSE mem["tui"]

(* runSetContext: a name given on the command line edits the context if    *)
(* there is one, keeping the references no flag changes; a name typed into *)
(* the wizard is always a new context.                                     *)
SetInput(n, wizard, proxied, flag, pflag) ==
    LET old   == file.ctx
        edits == ~wizard /\ n \in DOMAIN old
    IN  [NoOp EXCEPT !.kind = "save", !.name = n, !.proxied = proxied,
           !.cred  = IF flag = Unset /\ edits THEN old[n].cred ELSE flag,
           !.pcred = IF pflag = Unset /\ edits THEN old[n].pcred ELSE pflag,
           !.replace = edits, !.drop = edits /\ flag # Unset]

SetContext(a) ==
    \E n \in Names, wizard, proxied \in BOOLEAN,
       flag \in {Unset, Source, Keyring(SharedKey)},
       pflag \in {Unset, Keyring(SharedKey)} :
        /\ a \in Cli
        /\ pflag # Unset => proxied
        /\ Begin(a, "store", SetInput(n, wizard, proxied, flag, pflag))

(* The form: a new context, or an edit that keeps the reference when its   *)
(* scheme is left alone.  The proxy's own reference is not part of it.     *)
FormSave(a) ==
    \E n \in Names, proxied \in BOOLEAN, scheme \in {"keyring", "prompt", "source"} :
        LET old   == mem["tui"].ctx
            edits == n \in DOMAIN old
            kept  == edits /\ old[n].cred.scheme = scheme
        IN  /\ a \in Tui
            /\ scheme = "source" => edits
            /\ Begin(a, "store",
                 [NoOp EXCEPT !.kind = "save", !.name = n, !.proxied = proxied,
                    !.cred = IF kept THEN old[n].cred
                             ELSE IF scheme = "keyring" THEN Keyring(OwnKey(n))
                             ELSE Ref(scheme, None),
                    !.replace = edits, !.drop = edits])

UseContext(a) ==
    \E n \in DOMAIN Loaded(a).ctx :
        a \in Cli /\ Begin(a, "use", [NoOp EXCEPT !.kind = "use", !.name = n])

DeleteContext(a) ==
    \E n \in DOMAIN Loaded(a).ctx, with \in BOOLEAN :
        Begin(a, "remove", [NoOp EXCEPT !.kind = "remove", !.name = n, !.with = with])

-----------------------------------------------------------------------------
(* contextops.Save.  A save that begins passed its connection test, was    *)
(* forced or skipped it; one that fails the test ends before it changes    *)
(* anything.  The copy of a command line process is read before the test.  *)

(* What the operator typed: nothing where env, file or exec resolve the    *)
(* password (a password given for them is refused), and in the form        *)
(* nothing but a keyring password.                                         *)
Typed(a, ref) ==
    IF ref.scheme = "source" \/ (a \in Tui /\ ref.scheme # "keyring") THEN {None}
    ELSE Passwords \cup {None}

StoreUnchecked(a) ==       \* seeded fault: a failed keyring write is not noticed
    /\ pc[a] = "store"
    /\ LET ref == Build(op[a]).cred IN
       \E pw \in Typed(a, ref) :
        /\ op' = [op EXCEPT ![a].pw = pw]
        /\ \/ pw # None /\ ref.scheme = "keyring" /\ keyring' = [keyring EXCEPT ![ref.key] = pw]
           \/ UNCHANGED keyring
    /\ Goto(a, "storeProxy")
    /\ UNCHANGED <<file, mem, ops, overlapped>>

(* A keyring write that fails downgrades the context to a prompt.          *)
StorePassword(a) ==
    /\ pc[a] = "store"
    /\ LET ref == Build(op[a]).cred IN
       \E pw \in Typed(a, ref) :
        IF pw # None /\ ref.scheme = "keyring"
        THEN \/ /\ keyring' = [keyring EXCEPT ![ref.key] = pw]
                /\ op' = [op EXCEPT ![a].pw = pw]
             \/ /\ op' = [op EXCEPT ![a].pw = pw, ![a].cred = Prompt]
                /\ UNCHANGED keyring
        ELSE op' = [op EXCEPT ![a].pw = pw] /\ UNCHANGED keyring
    /\ Goto(a, "storeProxy")
    /\ UNCHANGED <<file, mem, ops, overlapped>>

StoreProxyPassword(a) ==
    /\ pc[a] = "storeProxy"
    /\ LET ref == Build(op[a]).pcred IN
       \/ UNCHANGED <<keyring, op>>
       \/ \E pw \in Passwords :
            /\ ref.scheme = "keyring"
            /\ \/ keyring' = [keyring EXCEPT ![ref.key] = pw] /\ UNCHANGED op
               \/ op' = [op EXCEPT ![a].pcred = Prompt] /\ UNCHANGED keyring
    /\ Goto(a, "add")
    /\ UNCHANGED <<file, mem, ops, overlapped>>

(* config.Add, which refuses a name that exists unless it replaces it, and *)
(* the current context.                                                    *)
AddContext(a) ==
    /\ pc[a] = "add"
    /\ LET m == mem[Copy(a)]
           o == op[a]
           exists == o.name \in DOMAIN m.ctx
       IN  IF exists /\ ~o.replace THEN End(a)
           ELSE /\ \E setCurrent \in BOOLEAN : mem' = [mem EXCEPT ![Copy(a)] =
                    [cur |-> IF setCurrent \/ m.cur = None THEN o.name ELSE m.cur,
                     ctx |-> [n \in DOMAIN m.ctx \cup {o.name} |->
                                IF n = o.name THEN Build(o) ELSE m.ctx[n]]]]
                /\ op' = [op EXCEPT ![a].replaced =
                    IF o.drop /\ exists THEN m.ctx[o.name].cred ELSE Unset]
                /\ Goto(a, "temp")
                /\ UNCHANGED <<ops, overlapped>>
    /\ UNCHANGED <<file, keyring>>

UseCurrent(a) ==
    /\ pc[a] = "use"
    /\ mem' = [mem EXCEPT ![Copy(a)].cur = op[a].name]
    /\ Goto(a, "temp")
    /\ UNCHANGED <<file, keyring, op, ops, overlapped>>

(* config.Remove: the current context is reset with it.  A name another    *)
(* command removed meanwhile is an error.                                  *)
RemoveContext(a) ==
    /\ pc[a] = "remove"
    /\ LET m == mem[Copy(a)]
           n == op[a].name
       IN  IF n \notin DOMAIN m.ctx THEN End(a)
           ELSE /\ mem' = [mem EXCEPT ![Copy(a)] =
                    [cur |-> IF m.cur = n THEN None ELSE m.cur,
                     ctx |-> [x \in DOMAIN m.ctx \ {n} |-> m.ctx[x]]]]
                /\ op' = [op EXCEPT ![a].held = m.ctx[n]]
                /\ Goto(a, "temp")
                /\ UNCHANGED <<ops, overlapped>>
    /\ UNCHANGED <<file, keyring>>

WriteInPlace(a) ==         \* seeded fault: the file is opened for writing, not replaced
    /\ pc[a] = "temp"
    /\ LET m == mem[Copy(a)] IN
       /\ file' = [cur |-> m.cur, ctx |-> [n \in {} |-> m.ctx[n]]]
       /\ op' = [op EXCEPT ![a].tmp = m]
    /\ Goto(a, "rename")
    /\ UNCHANGED <<mem, keyring, ops, overlapped>>

(* config.Save: validate, write a temporary file, rename it over the old   *)
(* one.  A failure leaves the file as it was and the copy changed.         *)
WriteTemp(a) ==
    /\ pc[a] = "temp"
    /\ LET m == mem[Copy(a)] IN
       \/ /\ ValidConfig(m)
          /\ op' = [op EXCEPT ![a].tmp = m]
          /\ Goto(a, "rename")
          /\ UNCHANGED <<mem, ops, overlapped>>
       \/ End(a)
    /\ UNCHANGED <<file, keyring>>

Rename(a) ==
    /\ pc[a] = "rename"
    /\ \/ /\ file' = op[a].tmp
          /\ Goto(a, "cleanup")
          /\ UNCHANGED <<mem, op, ops, overlapped>>
       \/ End(a) /\ UNCHANGED file
    /\ UNCHANGED keyring

(* After the file: the replaced context's keyring entry, unless a context  *)
(* still uses it; or the passwords of a removed context, when asked for.   *)
(* A delete that fails is a warning.                                       *)
Cleanup(a) ==
    /\ pc[a] = "cleanup"
    /\ LET o    == op[a]
           dead == IF o.kind = "save"
                   THEN {r \in {o.replaced} : ~RefInUse(mem[Copy(a)], r)}
                   ELSE IF o.kind = "remove" /\ o.with THEN {o.held.cred, o.held.pcred}
                   ELSE {}
           keys == {r.key : r \in {x \in dead : x.scheme = "keyring"}}
       IN  \E gone \in SUBSET keys :
             keyring' = [k \in Keys |-> IF k \in gone THEN None ELSE keyring[k]]
    /\ End(a)
    /\ UNCHANGED file

(* The process is killed; killing the interface kills all its commands.    *)
Kill(a) ==
    LET dead == IF a \in Tui THEN Tui ELSE {a} IN
    /\ pc[a] # "idle"
    /\ pc' = [b \in Actors |-> IF b \in dead THEN "idle" ELSE pc[b]]
    /\ op' = [b \in Actors |-> IF b \in dead THEN NoOp ELSE op[b]]
    /\ mem' = [mem EXCEPT ![Copy(a)] = IF a \in Tui THEN file ELSE None]
    /\ UNCHANGED <<file, keyring, ops, overlapped>>

-----------------------------------------------------------------------------
Saving(a) == \/ StorePassword(a) \/ StoreProxyPassword(a)
             \/ AddContext(a) \/ UseCurrent(a) \/ RemoveContext(a)
             \/ WriteTemp(a) \/ Rename(a) \/ Cleanup(a)

Next == \E a \in Actors :
    \/ SetContext(a) \/ FormSave(a) \/ UseContext(a) \/ DeleteContext(a)
    \/ Saving(a) \/ Kill(a)

Spec == Init /\ [][Next]_vars

-----------------------------------------------------------------------------
(* Properties.                                                             *)

Locations == {"idle", "store", "storeProxy", "add", "use", "remove", "temp", "rename", "cleanup"}

IsOp(o) == DOMAIN o = DOMAIN NoOp /\ {o.cred, o.pcred, o.replaced} \subseteq Refs

(* Types: every copy that a command works on is well formed, like the file.*)
TypeOK ==
    /\ ValidConfig(file) /\ ValidConfig(mem["tui"])
    /\ pc \in [Actors -> Locations]
    /\ DOMAIN mem = Copies /\ DOMAIN keyring = Keys /\ DOMAIN op = Actors
    /\ \A a \in Actors : IsOp(op[a])
    /\ \A a \in Actors : pc[a] # "idle" => ValidConfig(mem[Copy(a)]) /\ op[a].name \in Names
    /\ \A a \in Actors : pc[a] = "rename" => ValidConfig(op[a].tmp)
    /\ \A a \in Actors : pc[a] = "use" =>
          a \in Cli /\ op[a].kind = "use" /\ op[a].name \in DOMAIN mem[a].ctx
    /\ \A a \in Actors : pc[a] = "remove" => op[a].kind = "remove"

(* The password typed for a is where its context will look for it, or it   *)
(* will be asked for.                                                      *)
Stored(a) ==
    LET ref == Build(op[a]).cred IN
    \/ ref.scheme = "prompt"
    \/ ref.scheme = "keyring" /\ keyring[ref.key] = op[a].pw

(* How far a command that runs alone has got, from the copy in memory to   *)
(* the file.                                                               *)
Kept(a) ==
    LET new == Build(op[a]) IN
    op[a].kind = "save" =>
        /\ pc[a] = "storeProxy" /\ op[a].pw # None => Stored(a)
        /\ pc[a] \in {"add", "temp", "rename", "cleanup"} /\ op[a].pw # None /\ new.cred # new.pcred
              => Stored(a)
        /\ pc[a] \in {"temp", "rename", "cleanup"} =>
              op[a].name \in DOMAIN mem[Copy(a)].ctx /\ mem[Copy(a)].ctx[op[a].name] = new

Alone ==
    ~overlapped =>
        /\ \A a, b \in Actors : pc[a] # "idle" /\ pc[b] # "idle" => a = b
        /\ \A a \in Actors :
            /\ Kept(a)
            /\ pc[a] = "rename" => op[a].tmp = mem[Copy(a)]
            /\ pc[a] = "cleanup" => file = mem[Copy(a)]

Saved(a) == pc[a] = "cleanup" /\ op[a].kind = "save"

(* config.Load accepts the file at any time: whatever commands overlap and *)
(* wherever they are killed, every context is well formed and the current  *)
(* context exists.                                                         *)
FileLoads == ValidConfig(file)

(* "Leaving cc.Credential as keyring:<name> in that case would save a      *)
(* lie": once a password was typed and the context is in the file, later   *)
(* runs find that password or ask for it; they never use another one.      *)
SavedAnswers ==
    \A a \in Actors :
        LET c == file.ctx[op[a].name] IN
        ~overlapped /\ Saved(a) /\ op[a].pw # None /\ c.cred # c.pcred =>
            /\ Resolve(c.cred) \subseteq {"ask", op[a].pw}
            /\ c.cred.scheme = "keyring" => keyring[c.cred.key] = op[a].pw

(* The cleanup of an edit deletes no entry that a context of the file      *)
(* still resolves a password through, its own or its proxy's (refInUse).   *)
DropSparesUsed ==
    [][\A a \in Actors, k \in Keys :
          /\ Saved(a) /\ pc'[a] = "idle" /\ ~overlapped
          /\ keyring[k] # None /\ keyring'[k] = None
          => \A n \in DOMAIN file.ctx : Keyring(k) \notin {file.ctx[n].cred, file.ctx[n].pcred}]_vars

(* "Opening the form and saving rewrites nothing": saving a form in which  *)
(* nothing was changed leaves the context as it is in the file.            *)
UntouchedEditKeeps ==
    [][\A a \in Tui :
          LET o == op[a] IN
          /\ pc[a] = "rename" /\ pc'[a] = "cleanup" /\ ~overlapped
          /\ o.kind = "save" /\ o.replace /\ o.pw = None
          /\ o.name \in DOMAIN file.ctx
          /\ o.cred = file.ctx[o.name].cred
          /\ o.proxied = (file.ctx[o.name].pcred # Unset)
          => file'.ctx[o.name] = file.ctx[o.name]]_vars
=============================================================================
