SPECIFICATION Spec
CONSTANTS
    Streams <- MCStreams
    Blob <- MCBlob
    OutputSets <- MCOutputSets
    MaxFrame = 2
    MaxTimeouts = 1
    MIN_INFLIGHT_REQUESTS = 1
    MAX_INFLIGHT_REQUESTS = 2
INVARIANTS
    BuffersAccounted
    CountMatches
    ShuttersInOrder
    KeptAwaitsCapture
PROPERTIES
    DroppedIsError
    ErrorRequestsUnstarted
    CaptureAnswered
    ClientReturns
CHECK_DEADLOCK FALSE
