CONSTANTS
    c1 = c1
    c2 = c2
    Clients <- MCClients
    CallsOf <- MCFilming
    LooseApis <- MCNone
    MaxLoose = 0
    MaxBacklog = 1
    DaemonMayDie = TRUE
    RetroOnly = FALSE
    Patient = FALSE
    Evts <- MCNone
    SetStates <- MCNone
    Modes <- MCModes
    HwMayFail = FALSE
    LiveMayFail = TRUE
    PreviewRestart = FALSE
SPECIFICATION ApiSpec
INVARIANTS
    ApiTypeOK
    PayloadAlive
    NoneSleepsOnItsResult
    NoneForgottenWhileUp
    SemCountsCommands
    LiveThreadJoined
CHECK_DEADLOCK FALSE
