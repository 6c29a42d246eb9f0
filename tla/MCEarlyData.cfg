SPECIFICATION Spec
CONSTANTS
    Writers = {w1}
    Streams = {s1, s2}
    StreamOf <- MCSharedStream
    Dp = {d1, d2}
    SeqIds = {q1, q2}
    Decisions <- MCDecisions
    Window = 2
    Fallible = {}
    Accepted0 = {}
    None = None
    SmallWrite = 1
    PartsPerStream = 1
    Lengths = {1, 2}
    s1 = s1
    s2 = s2
    w1 = w1
    w2 = w2
INVARIANTS
    NoPanic
CHECK_DEADLOCK FALSE
