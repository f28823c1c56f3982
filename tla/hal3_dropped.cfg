SPECIFICATION Spec
CONSTANTS
    Streams <- MCStreams
    Blob <- MCBlob
    OutputSets <- MCOutputSets
    MaxFrame = 2
    MaxTimeouts = 1
    MIN_INFLIGHT_REQUESTS = 1
    MAX_INFLIGHT_REQUESTS = 2
INVARIANTS
    DroppedNeverGood
CHECK_DEADLOCK FALSE
