SPECIFICATION Spec
CONSTANTS
    NoPath = NoPath
    sched = sched  post = post  c1 = c1
    Listing <- FilmPaths
    Films <- OneFilm
    Temp <- FilmTemp
    Output <- FilmOutput
    Scheduled <- TheScheduler
    Triggered <- OneRequest
    Clients <- NoClient
    Asked <- OneFilm
    MaxRows = 2
    MaxVersion = 2
    MaxCrashes = 0
PROPERTIES ClearedStaysOut
CHECK_DEADLOCK FALSE
