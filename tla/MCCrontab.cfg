SPECIFICATION MCSpec
CONSTANTS
    Files <- MCFiles
    Options <- MCOptions
    Shortcuts <- MCShortcuts
    MAX_GARBAGE = 3
    MAX_COMMAND = 16
    MAX_ENVSTR = 17
    MAX_USER_ENVS = 1
    MAX_USER_ENTRIES = 1
    Low = 1
    High = 3
    HasNames = TRUE
    Numbers = {0, 1, 2, 3, 4, 7, 17, 40}
    MaxTokens = 6
    C_INT = 8
    C_LONG_MAX = 31
    Months = 2
    LastMonth = 9
    DaysIn <- MCDaysIn
    Before <- MCBefore
    WeekDays = 2
    Hours = 2
    Minutes = 2
    FirstDays <- MCFirstDays
    Years = 2
    Specs <- MCSpecs
INVARIANTS
    EnvMeaning
    LinesTrue
    BadLinesCostNothingElse
    CheckedIsLoaded
    ListMeaning
    NextIsFirst
CHECK_DEADLOCK FALSE
