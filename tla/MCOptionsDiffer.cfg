SPECIFICATION FairSpec
CONSTANTS
    MaxPaths = 2
    Configs <- MCAnyOptions
PROPERTIES
    BothReturn
CHECK_DEADLOCK FALSE
