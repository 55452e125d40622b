SPECIFICATION Spec
CONSTANTS
    d1 = d1  d2 = d2  d3 = d3
    NoPid = NoPid
    Daemons <- MCDaemons
    MaxUnlinks = 2
SYMMETRY Symmetry
INVARIANTS
    OneMorePerUnlink
    PidFileNamesDaemon
    RebootAtMostOnce
    RebootLostOnlyByDeath
CHECK_DEADLOCK FALSE
