\* Two processes; a database of any version, or a current one and an older backup.
SPECIFICATION Spec
CONSTANTS
    Procs = {p1, p2}
    Files = {f1, f2, f3}
    Runs = {r1}
    Oldest = {0, 1, 2, 3, 4, 6, 7, 8, 9, 10}
    OldBackups = {7}
    MaxEvents = 3
    None = None
SYMMETRY Symmetry
VIEW View
INVARIANTS SchemaWhole CopiesUsable
PROPERTY RestoreKeeps
CHECK_DEADLOCK FALSE
