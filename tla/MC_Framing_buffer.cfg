\* A reused server-side object: segments no longer than the buffer, two
\* frames of the peer outstanding, a pool that hands the object to a second
\* connection with whatever the first one left in it.
SPECIFICATION Spec
CONSTANTS
    HeaderLen = 2
    BufferStart = 4
    MaxSegment = 4
    PayloadSizes = {1, 3}
    Garbage = {0, 2, 9}
    ReallocMayFail = FALSE
    Window = 2
    MaxFrames = 3
    MaxConnections = 2
INVARIANTS
    TypeOK
    LagBounded
    BufferSuffices
PROPERTIES
    NoIdleCallback
    ChannelSpec
\* The last connection ends and nothing is left to do.
CHECK_DEADLOCK FALSE
