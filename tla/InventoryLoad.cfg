\* Loads, refreshes, prompts, edits and removals of one context overlap.
SPECIFICATION Spec
CONSTANTS
    Conns = {a, b}
    Groups = {g1, g2, g3}
    Paged = {g1}
    MaxActs = 3
    QuickReadd = FALSE
    None = None
INVARIANTS LoadsAccounted NoStaleData
PROPERTY LoadsProgress
CHECK_DEADLOCK FALSE
