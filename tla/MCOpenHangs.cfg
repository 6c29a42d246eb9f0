SPECIFICATION FairSpec
CONSTANTS
    Ends = {dialer, listener}
    Callers = {g1, g2}
    EndOf <- MCEndOf
    Accepting = {listener}
    Ids = {i1}
    Loads <- MCOneOpens
    MayLose = FALSE
    Garbled = Garbled
    None = None
    dialer = dialer
    listener = listener
    g1 = g1
    g2 = g2
PROPERTIES
    CallsReturn
CHECK_DEADLOCK FALSE
