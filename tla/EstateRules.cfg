SPECIFICATION Spec
CONSTANTS
    Unknown = Unknown
    NetworkNames <- Names
    VMs = {"v1", "v2"}
    HomeOf <- Homes
    Files = {"f1", "f2", "f3"}
    FirstFiles <- Using
    Changes <- EveryChange
    MaxChanges = 2
    Outcomes <- Endings
    Wirings = {"distributed"}
    Scenario <- Target
INVARIANTS
    AdviceSafe
    OrphanSafe
    BlastComplete
    NetworkViewsTrue
CHECK_DEADLOCK FALSE
