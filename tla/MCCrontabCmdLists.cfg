SPECIFICATION Spec
CONSTANTS
    p1 = p1  p2 = p2  u1 = u1  u2 = u2
    Root = root
    NoUser = NoUser
    Empty = empty
    Valid = {empty, v1}
    Invalid = {b}
    Procs <- MCProcs
    Users <- MCUsers
    Lines <- MCLines
INVARIANT FailClosed
CHECK_DEADLOCK FALSE
