SPECIFICATION FairSpec

CONSTANTS
    m1 = m1
    m2 = m2
    plain1 = plain1
    probe1 = probe1
    k1 = k1
    Nobody = Nobody
    Relay = Relay
    Purge = Purge
    Money = {m1, m2}
    Plain = {plain1}
    Probes = {probe1}
    KeyOf <- OneKey
    Capacity = 3

CONSTRAINT ThreeArrive

INVARIANT TypeOK
INVARIANT PoolAccounted
INVARIANT OneResponse
INVARIANT MoneyAnswersAreTrue
INVARIANT ResourcesOutliveUsers
PROPERTY EveryRequestEnds

\* The requests of the instance run out and the process stops.
CHECK_DEADLOCK FALSE
