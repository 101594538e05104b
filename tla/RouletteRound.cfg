SPECIFICATION Spec

CONSTANTS
    Plays <- AllPlays
    MinBet = 2
    MaxBet = 5
    ChunkSpace = 80
    ChunksPerDigest = 2
    MaxDigests = 2

INVARIANT OutcomeUnbiased
INVARIANT HouseEdge
INVARIANT FiguresAreBlocks

\* A round ends when it is settled or refused.
CHECK_DEADLOCK FALSE
