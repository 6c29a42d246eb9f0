\* A header of two bytes, so that a Read may return half of one; files of no byte,
\* of fewer bytes than a header and of more.
SPECIFICATION FairSpec
CONSTANTS
    Header = 2
    FileSizes = {0, 1, 3}
    PingSize = 2
    Rounds = 3
INVARIANTS
    TypeOK
    Inv
    FramesKept
    OnePingPerRead
PROPERTIES
    EveryEndFinishes
CHECK_DEADLOCK FALSE
