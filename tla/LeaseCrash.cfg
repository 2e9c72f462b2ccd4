\* Two processes that may be killed, clock long enough for a lease to expire.
SPECIFICATION Spec
CONSTANTS
    Procs = {p1, p2}
    Tokens = {k1, k2, k3, k4, k5}
    Duration = 2
    MaxTime = 5
    None = None
SYMMETRY Symmetry
INVARIANT GrantIsHonoured
PROPERTIES ImplementsWriterLease ImplementsWriterSlot
