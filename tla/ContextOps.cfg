\* One context edited from the form and the command line, two names.
SPECIFICATION Spec
CONSTANTS
    Names = {a, b}
    Passwords = {x}
    Tui = {f1}
    Cli = {c}
    MaxOps = 2
    None = None
SYMMETRY Symmetry
CHECK_DEADLOCK FALSE
INVARIANTS FileLoads SavedAnswers
PROPERTY DropSparesUsed
