SPECIFICATION Spec
CONSTANTS
    a1 = a1
    a2 = a2
    b = b
    l = l
    f1 = f1
    f2 = f2
    f3 = f3
    o = o
    alice = alice
    bob = bob
    NoCall = NoCall
    Calls = {b, f1, f2, f3}
    Kind <- KindOf
    EmailOf <- Emails
INVARIANTS
    ReuseEndsFamily
CHECK_DEADLOCK FALSE
