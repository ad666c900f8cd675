SPECIFICATION Spec
CONSTANTS
    Clients <- MCClients
    NoOne = NoOne
    MaxAttempts = 2
    MaxFaults = 1
INVARIANTS OwnEnvironment AtMostOnce
PROPERTIES NoWorkCutOff ClientsReturn UnlessRobbedStops
CHECK_DEADLOCK FALSE
