\* Every part of the interface, one answer outstanding at a time or two.
SPECIFICATION Spec
CONSTANTS
    Stores = {d1, d2}
    VMs = {v1, v2}
    Ends = {e1, e2}
    Tours = {{"files"}, {"vms"}, {"forms"}, {"removal"}, {"history"}, {"tables"}}
    MaxGen = 2
    MaxAsks = 2
    MaxRuns = 3
    None = None
INVARIANTS ShownBelongs NothingHangs
PROPERTY EscGetsHome
CHECK_DEADLOCK FALSE
