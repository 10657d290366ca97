SPECIFICATION FairSpec
CONSTANTS
    NoPath = NoPath
    sched = sched  post = post  c1 = c1
    Listing <- FilmPaths
    Films <- OneFilm
    Temp <- FilmTemp
    Output <- FilmOutput
    Scheduled <- TheScheduler
    Triggered <- NoRequest
    Clients <- OneClient
    Asked <- OneFilm
    MaxRows = 3
    MaxVersion = 2
    MaxCrashes = 1
INVARIANTS TypeOK OneActiveRow
PROPERTIES  DeservingIsQueued
CHECK_DEADLOCK FALSE
