SPECIFICATION Spec
CONSTANTS
    Ends = {dialer, listener}
    Callers = {g1, g2}
    EndOf <- MCEndOf
    Accepting = {dialer, listener}
    Ids = {i1, i2, i3}
    Loads <- MCLoads
    MayLose = TRUE
    Garbled = Garbled
    None = None
    dialer = dialer
    listener = listener
    g1 = g1
    g2 = g2
SYMMETRY MCSymmetry
INVARIANTS
    TypeOK
    NoEchoStorm
    OpenMeansSeen
    OnlyOpened
CHECK_DEADLOCK FALSE
