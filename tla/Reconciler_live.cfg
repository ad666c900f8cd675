SPECIFICATION Spec
CONSTANTS
    Options <- AllOptions
    Preset = FALSE
    Periods = {"some", "zero", "bad"}
    Held = {FALSE}
    MaxUid = 1
    MaxEdits = 1
    MaxPatches = 1
    MaxLag = 3
    MaxFaults = 1
    MaxCrashes = 1
PROPERTIES
    DeletionFinalized
    GenerationRun
    SuccessReported
CHECK_DEADLOCK FALSE
