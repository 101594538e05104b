SPECIFICATION FairSpec

CONSTANTS
    t1 = t1
    t2 = t2
    r1 = r1
    r2 = r2
    e1 = e1
    e2 = e2
    e3 = e3
    Txns = {t1, t2}
    RowsOf <- PlayAndDeposit
    Relays = {r1, r2}
    BatchSize = 2
    Faults = {"refused", "ack_lost", "crash"}

INVARIANT TypeOK
INVARIANT NeverLost
INVARIANT OneSender
PROPERTY DeliversAtLeastOnce

\* The transactions of the instance run out.
CHECK_DEADLOCK FALSE
