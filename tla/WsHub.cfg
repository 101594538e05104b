SPECIFICATION FairSpec
CONSTANTS
    c1 = c1
    c2 = c2
    c3 = c3
    Conns = {c1, c3}
    UserOf <- Accounts
    MaxConnections = 1
    QueueMax = 2
    MaxPublished = 3
INVARIANTS
    TypeOK
    SlotsAreTrue
    InOrder
    LossOnlyWhenFull
PROPERTIES
    DoomedHandlersEnd
CHECK_DEADLOCK FALSE
