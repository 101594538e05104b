SPECIFICATION Spec
CONSTANTS
    r1 = r1
    r2 = r2
    r3 = r3
    r4 = r4
    Requests = {r1, r2}
    KeyOf <- OneKey
    BodyOf <- SameBody
    Faults = {"slow"}
INVARIANTS
    AtMostOnce
CHECK_DEADLOCK FALSE
