\* Two processes capture, import, pin, delete and prune runs, open the history and may be killed.
SPECIFICATION Spec
CONSTANTS
    Procs = {p1, p2}
    Tokens = {k1, k2, k3}
    x1 = x1
    x2 = x2
    Workloads <- Overlapping
    Kinds = 2
    Duration = 1
    MaxTime = 1
    MaxRuns = 2
    Age = 0
    KeepLast = 1
    None = None
SYMMETRY Symmetry
INVARIANTS CompleteMeansAll LiveCaptureUntouched
PROPERTY RunsKept
