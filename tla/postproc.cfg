SPECIFICATION Spec
CONSTANTS
    None = None
    Frames = {1, 2}
    Modes <- MCModes
    MaxBacklog = 2
    MaxJobs = 3
    MaxLeftovers = 0
INVARIANTS
    BuffersAccounted
    OutputMatchesJob
    WorkHasWaker
    DoneIsComplete
PROPERTIES
    CaptureEnds
