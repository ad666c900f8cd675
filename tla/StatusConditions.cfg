SPECIFICATION ConditionsSpec
CONSTANTS
    RawEntries <- MCRawEntries
    MaxRaw = 3
    MaxSteps = 5
PROPERTIES
    MarksAreVerdicts
    ShortcutHarmless
CHECK_DEADLOCK FALSE
