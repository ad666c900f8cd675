SPECIFICATION Spec
CONSTANTS
    Scenes <- MCScenes
    MaxOthers = 1
    ContainerTasks <- HostContainerTasks
    NetworkTasks <- HostNetworkTasks
    FirstContainers <- HostContainers
    MaxIds = 5
    MaxMoves = 1
INVARIANT
    CheckForetells
    ChangeReported
    GoalReached
    RepetitionSettles
    ConnectionsSurvive
PROPERTY
    ResultsTrue
CHECK_DEADLOCK FALSE
