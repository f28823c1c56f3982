SPECIFICATION ClientsSpec
CONSTANTS
    Evts <- MCEvts
    SetStates <- States
    Modes <- MCModes
    HwMayFail = TRUE
    LiveMayFail = TRUE
    PreviewRestart = TRUE
VIEW Core
INVARIANTS
    VideoIffRecording
    ReadyIsPrepared
    StoppedIsStoppedIfCareful
    StreamsFit
    FrameRequestNotLost
