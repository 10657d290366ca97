SPECIFICATION Spec
CONSTANTS
    NoFile = NoFile
    NoName = NoName
    NoJob = 0
    w1 = w1  w2 = w2  u1 = u1  u2 = u2
    Films <- OneFilm
    Sources <- OneFilm
    Names <- LoneNames
    Candidates <- LoneOutputs
    Fallback <- LoneFallback
    Jobs <- TwoJobs
    Originals <- ThreeRecords
    Workers <- OneWorker
    Users <- OneUser
    MaxCrashes = 1
    MayClear = FALSE
    IOMayFail = FALSE
INVARIANTS HeldIsTracked
CHECK_DEADLOCK FALSE
