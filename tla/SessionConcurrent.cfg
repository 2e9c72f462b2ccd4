\* Two callers of one context name.
SPECIFICATION Spec
CONSTANTS
    Procs = {p1, p2}
    Names = {n1}
    Configs = {g1}
    Sessions = {s1, s2}
    Clients = {c1, c2}
    None = None
INVARIANTS LogoutWins OneOwner
PROPERTIES DropSparesReplacement OnlyLoginUndoesLogout OperationsReturn
