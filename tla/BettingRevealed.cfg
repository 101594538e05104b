SPECIFICATION Spec
CONSTANTS
    b1 = b1
    b2 = b2
    b3 = b3
    d1 = d1
    d2 = d2
    s1 = s1
    s2 = s2
    NoTxn = NoTxn
    FirstPair = FirstPair
    Bets = {b1}
    Deposits = {d1}
    Rotations = {s1}
    Amount <- AmountsOf
    Payouts <- WinOrLose
PROPERTIES
    NoSpinOnRevealedSeed
CHECK_DEADLOCK FALSE
