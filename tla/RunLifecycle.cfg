SPECIFICATION FairSpec
CONSTANTS
    MaxRuns = 3
    MaxFaults = 1
    CmdLine = FALSE
    Playbook = TRUE
INVARIANTS
    OwnInputs
    KubeconfigKept
PROPERTY
    RunEnds
