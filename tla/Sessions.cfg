SPECIFICATION FairSpec
CONSTANTS
    a1 = a1
    a2 = a2
    b = b
    l = l
    f1 = f1
    f2 = f2
    f3 = f3
    o = o
    alice = alice
    bob = bob
    NoCall = NoCall
    Calls = {a1, a2, b, l, f1, f2, f3, o}
    Kind <- KindOf
    EmailOf <- Emails
CONSTRAINT Scenes
INVARIANTS
    TypeOK
    ParentsStayRevoked
    SurvivorsRaced
PROPERTIES
    OnlyItsOwnEnds
    EveryCallEnds
CHECK_DEADLOCK FALSE
