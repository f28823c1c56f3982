CONSTANTS
    c1 = c1
    c2 = c2
    Clients <- MCOne
    CallsOf <- MCRecorder
    LooseApis <- MCNone
    MaxLoose = 0
    MaxBacklog = 1
    DaemonMayDie = TRUE
    RetroOnly = FALSE
    Patient = FALSE
    Evts <- MCNone
    SetStates <- MCNone
    Modes <- MCModes
    HwMayFail = FALSE
    LiveMayFail = FALSE
    PreviewRestart = FALSE
SPECIFICATION ApiSpec
INVARIANTS
    NoneForgotten
CHECK_DEADLOCK FALSE
