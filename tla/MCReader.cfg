SPECIFICATION FairSpec
CONSTANTS
    Readers = {r1, r2, r3}
    Chunks = {1, 2}
    Sizes = {0, 1, 3}
    MaxBytes = 3
    MaxSets = 1
INVARIANTS
    TypeOK
    EveryByteOnce
    NobodyWaitsInVain
PROPERTIES
    ReturnsWithData
    ReadsReturn
CHECK_DEADLOCK FALSE
