CONSTANTS
    Requests = {r1, r2}
    Resources <- MCResources
    Clustered = {}
    Virtual = {}
    Blacklist = {}
    Watched = {"own", "other"}
    OwnerNamespace = "own"
    OwnerCore = FALSE
    WatchDependentResources = TRUE
    WatchClusterScopedResources = TRUE
    MaxRestarts = 1
SPECIFICATION Spec
INVARIANTS
    RecordedIsWatched
    RecordedBeforeCreated
    WatchesInScope
PROPERTIES
    DependentsWatched
