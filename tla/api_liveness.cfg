CONSTANTS
    c1 = c1
    c2 = c2
    Clients <- MCOne
    CallsOf <- MCPatient
    LooseApis <- MCLoose
    MaxLoose = 1
    MaxBacklog = 1
    DaemonMayDie = FALSE
    RetroOnly = FALSE
    Patient = TRUE
    Evts <- MCNone
    SetStates <- MCNone
    Modes <- MCModes
    HwMayFail = FALSE
    LiveMayFail = FALSE
    PreviewRestart = FALSE
SPECIFICATION FairApiSpec
PROPERTIES
    EveryCallReturns
