SPECIFICATION MCSpec
CONSTANTS
    j1 = j1  j2 = j2  j3 = j3  j4 = j4  j5 = j5  j6 = j6
    a = a  b1 = b1  b2 = b2
    A = A  B = B
    Jobs <- MCJobs
    Users <- MCUsers
    Names <- MCNames
    job_user <- MCjob_user
    LossyName <- MCLossyName
    MAX_TOTAL = 3
    MAX_PER_USER = 2
    Entries <- MCEntries
    PipeSize = 2
    MAX_OUTPUT = 2
    MaxWritten = 4
INVARIANTS
    Accounting
    CapsRespected
    OutputConserved
    SlotCoversJob
    NoSilentLoss
PROPERTIES
    RunReturns
CHECK_DEADLOCK FALSE
