SPECIFICATION MCSpec
CONSTANTS
    i1 = i1  i2 = i2  c1 = c1  c2 = c2
    Values = {"EST5EDT", "/x"}
    Paths = {"x", "posixrules"}
    zone_path <- MCzone_path
    TZDEFRULES = "posixrules"
    Consulting = {"EST5EDT"}
    Inodes <- MCInodes
    None = none
    Good <- MCGood
    Bad = bad
    Huge = huge
    capacity = 2
    MaxGets = 3
    MaxChanges = 2
    Asked <- MCAsked
    HOUR = 1
    SECSPERDAY = 6
    SPACING = 3
    WINDOW = 2
SYMMETRY Symmetry
INVARIANTS
    FreshZone
    FreshRules
    LeastRecentlyUsedEvicted
    FileTime
    LocalTime
CHECK_DEADLOCK FALSE
