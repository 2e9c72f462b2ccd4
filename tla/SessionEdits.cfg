\* Two callers of two context names whose settings may be edited.
SPECIFICATION Spec
CONSTANTS
    Procs = {p1, p2}
    Names = {n1,n2}
    Configs = {g1, g2}
    Sessions = {s1, s2}
    Clients = {c1, c2}
    None = None
SYMMETRY Renamings
PROPERTY LoginsAccounted
