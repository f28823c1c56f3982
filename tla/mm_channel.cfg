CONSTANTS
    meta = meta
    snapshot = snapshot
    Streams <- MCStreams
    Meta = meta
    CbStreams <- MCCb
    Profiles <- MCProfiles
    MetaInfo <- MCInfo
    max_future_frame_offset = 2
    frame_skip_count = 1
    MaxFrame = 3
    MaxBacklog = 2
SPECIFICATION Spec
INVARIANTS
    BuffersAccounted
    SuperBufsInOrder
    StreamsKeepRunning
    ZslHasOwner
CHECK_DEADLOCK FALSE
