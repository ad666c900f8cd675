SPECIFICATION Spec
CONSTANTS
    Options <- AllOptions
    Preset = FALSE
    Periods = {"some"}
    Held = {FALSE, TRUE}
    MaxUid = 3
    MaxEdits = 0
    MaxPatches = 0
    MaxLag = 3
    MaxFaults = 1
    MaxCrashes = 1
INVARIANTS
    VerdictsExclusive
    RunProtected
    WorkRemembered
PROPERTIES
    FinalizedFirst
CHECK_DEADLOCK FALSE
