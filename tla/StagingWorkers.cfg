SPECIFICATION FairSpec
CONSTANTS
    NoFile = NoFile
    NoName = NoName
    NoJob = 0
    w1 = w1  w2 = w2  u1 = u1  u2 = u2
    Films <- TwoFilms
    Sources <- TwoFilms
    Names <- TwoFilmNames
    Candidates <- TwoFilmOutputs
    Fallback <- TwoFilmFallback
    Jobs <- TwoJobs
    Originals <- TwoRecords
    Workers <- TwoWorkers
    Users <- OneUser
    MaxCrashes = 0
    MayClear = FALSE
    IOMayFail = FALSE
INVARIANTS 
           HeldIsTracked
PROPERTIES CustodyKept
           ExpiredAreSwept
CHECK_DEADLOCK FALSE
