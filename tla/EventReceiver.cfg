SPECIFICATION Spec
CONSTANTS
    c1 = c1
    c2 = c2
    Clients = {c1, c2}
    MaxPosts = 2
    EventsCap = 1
INVARIANTS
    NoSendOnClosed
    AcceptedDelivered
PROPERTIES
    ImplementsPipe
    CloseCompletes
    LoopReleased
CHECK_DEADLOCK FALSE
