SPECIFICATION FairSpec
CONSTANTS
    Writers = {w1, w2}
    Streams = {s1, s2}
    StreamOf <- MCOwnStream
    Dp = {d1, d2}
    SeqIds = {q1, q2}
    Decisions <- MCDecisions
    Window = 1
    Fallible = {d1}
    Accepted0 = {s1, s2}
    None = None
    SmallWrite = 1
    PartsPerStream = 1
    Lengths = {1, 2}
    s1 = s1
    s2 = s2
    w1 = w1
    w2 = w2
PROPERTIES
    FailureIsolation
CHECK_DEADLOCK FALSE
