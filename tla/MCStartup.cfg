SPECIFICATION FairSpec
CONSTANTS
    MaxPaths = 3
    Configs <- MCAll
INVARIANTS
    TypeOK
    LoopsCoverStreams
    DialedMeansListened
    LogComesBack
    ProcessSurvives
PROPERTIES
    ComesUp
CHECK_DEADLOCK FALSE
