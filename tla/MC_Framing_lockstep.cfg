\* A peer that waits for each frame to be handled, segments far longer than
\* the buffer and a realloc that may fail.
SPECIFICATION FairSpec
CONSTANTS
    HeaderLen = 2
    BufferStart = 2
    MaxSegment = 6
    PayloadSizes = {1, 4}
    Garbage = {2, 9}
    ReallocMayFail = TRUE
    Window = 1
    MaxFrames = 2
    MaxConnections = 2
PROPERTIES
    FrameArrives
\* The last connection ends and nothing is left to do.
CHECK_DEADLOCK FALSE
