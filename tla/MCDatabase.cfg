SPECIFICATION Spec
CONSTANTS
    c = c
    d = d
    s = s
    System = {c}
    CronD = {d}
    Spool = {s}
    Shapes <- MCShapes
    OverLimit <- MCOverLimit
    permissive = FALSE
    Hosts <- MCHosts
INVARIANTS
    NothingStale
    NothingMissing
    UnloadedForCause
