SPECIFICATION Spec
CONSTANTS
    NoFile = NoFile
    NoName = NoName
    NoJob = 0
    w1 = w1  w2 = w2  u1 = u1  u2 = u2
    Films <- Twins
    Sources <- Twins
    Names <- TwinNames
    Candidates <- TwinOutputs
    Fallback <- TwinFallback
    Jobs <- TwoJobs
    Originals <- TwoRecords
    Workers <- TwoWorkers
    Users <- OneUser
    MaxCrashes = 0
    MayClear = FALSE
    IOMayFail = FALSE
INVARIANTS NoFilmLost
CHECK_DEADLOCK FALSE
