SPECIFICATION Spec
CONSTANTS
    Unknown = Unknown
    ShortNames <- MCShortNames
    LiveRuns <- MCLiveRuns
    MaxEdits = 1
    Formats <- MCFormats
    ContextMaps <- MCContextMaps
    LocalShift = 5
    NamedUplinks <- MCNamedUplinks
INVARIANTS
    RoundTrip
    ImportHonest
    SharedSafely
