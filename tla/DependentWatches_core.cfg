CONSTANTS
    Requests = {r1}
    Resources <- MCResources
    Clustered = {}
    Virtual = {}
    Blacklist = {}
    Watched = {"own", "other"}
    OwnerNamespace = "own"
    OwnerCore = TRUE
    WatchDependentResources = TRUE
    WatchClusterScopedResources = TRUE
    MaxRestarts = 1
SPECIFICATION Spec
PROPERTIES DependentsWatched
