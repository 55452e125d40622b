SPECIFICATION FairSpec
CONSTANTS
    MessageSize = 3
    PipeSize = 2
    MaxNoise = 2
    MAILER_TIMEOUT = 4
    MaxDelay = 2
    Grace = 1
    Horizon = 9
INVARIANTS
    OverInTime
    NeverInTheWay
    NoFalseTimeout
    SuccessMeansTaken
PROPERTIES
    SendReturns
CHECK_DEADLOCK FALSE
