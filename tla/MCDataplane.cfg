SPECIFICATION Spec
CONSTANTS
    Writers = {w1, w2}
    Streams = {s1, s2}
    StreamOf <- MCOwnStream
    Dp = {d1, d2}
    SeqIds = {q1, q2}
    Decisions <- MCDecisions
    Window = 2
    Fallible = {}
    Accepted0 = {s1, s2}
    None = None
    SmallWrite = 3
    PartsPerStream = 2
    Lengths = {1, 4}
    s1 = s1
    s2 = s2
    w1 = w1
    w2 = w2
SYMMETRY MCSymmetry
INVARIANTS
    TypeOK
    WholeSequences
    AtMostOnce
    HeldCompletionLive
    ReturnMeansSent
    NoOrphanCompletion
    Framed
    InOrderOnPath
CHECK_DEADLOCK FALSE
