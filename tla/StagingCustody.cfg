SPECIFICATION Spec
CONSTANTS
    NoFile = NoFile
    NoName = NoName
    NoJob = 0
    w1 = w1  w2 = w2  u1 = u1  u2 = u2
    Films <- OneFilm
    Sources <- OneFilm
    Names <- LoneNames
    Candidates <- LoneOutputs
    Fallback <- LoneFallback
    Jobs <- TwoJobs
    Originals <- ThreeRecords
    Workers <- OneWorker
    Users <- OneUser
    MaxCrashes = 1
    MayClear = TRUE
    IOMayFail = TRUE
INVARIANTS TypeOK
           OriginalSurvives
           RecordTellsWhere
PROPERTIES CustodyKept
CHECK_DEADLOCK FALSE
