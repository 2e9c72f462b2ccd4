SPECIFICATION Spec
CONSTANTS
    Unknown = Unknown
    Contexts = {1, 2}
    SeesVMs <- VMsSeen
    SeesStores <- StoresSeen
    MaxRuns = 3
    MaxChanges = 2
    Changes = {"create", "destroy", "reregister", "migrate", "folder", "reconfigure", "rename", "snapshot", "restrict"}
    Outcomes <- Endings
    Skews <- SkewsSeen
INVARIANTS
    DiffTellsTruth
    TimelineUnbroken
    CausesFound
    TrendsTellTruth
CHECK_DEADLOCK FALSE
