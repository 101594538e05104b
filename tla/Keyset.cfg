SPECIFICATION Spec

CONSTANTS
    t1 = t1
    t2 = t2
    t3 = t3
    e1 = e1
    e2 = e2
    e3 = e3
    e4 = e4
    Txns = {t1, t2, t3}
    RowsOf <- History
    Limits = {1, 2}
    NoCursor = NoCursor
    LastTick = 2

INVARIANT TypeOK
INVARIANT PagesDescend
INVARIANT NothingMissed

\* The transactions and the walk come to an end.
CHECK_DEADLOCK FALSE
