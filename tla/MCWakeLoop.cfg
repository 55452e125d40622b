SPECIFICATION FairSpec
CONSTANTS
    MAX_CATCHUP = 2
    MAX_JUMP = 4
    MaxOffset = 3
    Horizon = 5
    MaxShifts = 3
    Offsets <- MCOffsets
INVARIANTS
    WildEveryWake
    WildNotRepeated
    ZonedOnce
PROPERTIES
    FixedInOrder
    WakeCompletes
    SignalsHonoured
CHECK_DEADLOCK FALSE
