SPECIFICATION Spec
CONSTANTS
    c1 = c1
    c2 = c2
    Clients = {c1}
    MaxPosts = 1
    EventsCap = 1
PROPERTIES
    StoppedAnswersGone
CHECK_DEADLOCK FALSE
