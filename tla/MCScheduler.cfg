\* Four paths: one more than a selection takes; the id of p0 is 0.  Writes up to beyond
\* the length that is split, so that every remainder of a division by the streams occurs.
CONSTANTS
    Addrs = {r1, r2}
    Ids = {p0, p1, p2, p3}
    ZeroId = p0
    Tickers = {t1, t2}
    Loads <- MCLoads
    None = None
    SmallWrite = 1000
    PartsPerStream = 5
    MinLen = 0
    MaxLen = 1100
    MaxStreams = 8
SYMMETRY Symmetry
SPECIFICATION MCSpec
INVARIANTS
    LatestPackets
    EveryPacketCounted
    PairsAreTwo
    PartsAreTheWrite
    NoEmptyPart
    Balanced
PROPERTY GoodSelection
CHECK_DEADLOCK FALSE
