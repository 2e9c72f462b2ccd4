SPECIFICATION Spec
CONSTANTS
    Unknown = Unknown
    Gone = "gone"
    Tree <- MCTree
    VMIds <- MCVMIds
    Folders = {"f1", "f2", "va"}
    Datacenters <- MCDatacenters
    Wanted = "dc"
    Starts <- MCStarts
    VAppLinks <- MCVAppLinks
    HostOf <- MCHostOf
    ClusterConfigs <- MCClusterConfigs
    VApps <- MCVApps
    TemplateIds = {"v3"}
    Attached <- MCAttached
    Valued <- MCValued
    PageSize = 2
    Stores <- MCStores
    MaxFilesPerDatastore = 2
    MaxFilesPerContext = 3
    BrowseFileCap = 2
    ListEntryCap = 2
    BatchVMs = 2
    MaxVMs = 3
    MaxRequests = 2
    Raw <- MCRaw
    Intervals <- MCIntervals
    Window = 40
    MaxSamples = 4
    EventLog <- MCEventLog
    TaskLog <- MCTaskLog
    EventLimit = 3
    TaskPage = 2
    MaxTasks = 4
    Licences = {"k1", "k2"}
    MinSummarySamples = 1
    MinCoverage = 50
    MinPercentileSamples = 50
    LowPeakPercent = 30
    HighPeakPercent = 60
    ReadyContentionPercent = 5
    MemPressureMiB = 1
    SwapinRateKBps = 1
    MaxOps = 2
    MaxChanges = 1
    MaxKept = 1
INVARIANTS
    NothingLeftOpen
    PagesAddUp
    ReadsTellTruth
    WalkFindsAll
CHECK_DEADLOCK FALSE
