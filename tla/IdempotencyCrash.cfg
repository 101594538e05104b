SPECIFICATION FairSpec
CONSTANTS
    r1 = r1
    r2 = r2
    r3 = r3
    r4 = r4
    Requests = {r1, r2, r3, r4}
    KeyOf <- OneKey
    BodyOf <- Bodies
    Faults = {"crash", "cleanup_lost"}
INVARIANTS
    TypeOK
    AtMostOnce
    OwnerHoldsKey
PROPERTIES
    NoRecordLost
    ImplementsPromise
    NotBlockedForever
CHECK_DEADLOCK FALSE
