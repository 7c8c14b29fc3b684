CONSTANTS
    Threads = {t1, t2, t3}
    Items = {a}
    Urgent = {b}
    NoItem = NoItem
    Size = 2
    MaxTokens = 2
    Producers = {p1, p2}
    QUEUE_LENGTH = 2
    Requests = {r1, r2}
    NoRequest = NoRequest
    BufferNum = 4
    BufferSizes = {1, 2, 4}
    MaxSamples = 9
    Handlers = {h1, h2, h3}
    Messages = {m1, m2}
    Null = Null
    Headers <- MCHeaders
    FlagBytes = {0, 64, 48}
    LengthBytes = {0, 16, 33}
    OffsetBytes = {0, 1}
    ForcedCounts = {0, 3}
    Pieces = {1, 2, 40}
    MaxStream = 22
SPECIFICATION RingsSpec
INVARIANTS RingIsExact NoRequestSleeps HandlersReached StreamIsExact
PROPERTIES ImplementsDeque ItemsReachWaiters ReadIsExact
CHECK_DEADLOCK FALSE
