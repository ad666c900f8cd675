SPECIFICATION Spec
CONSTANTS
    Pods <- MCPods
    PodInfo <- MCPodInfo
    Taints <- MCTaints
    NodeTaint <- MCNodeTaint
    Params <- MCParams
    MaxOthers = 1
INVARIANTS NobodyLeftUnasked
PROPERTIES OnlyOwnUndone TaskEnds
CHECK_DEADLOCK FALSE
