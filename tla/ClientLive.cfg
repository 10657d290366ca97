SPECIFICATION LiveSpec
CONSTANTS
    l1 = l1
    Loads <- OneLoad
    Jobs <- TwoFilms
    FirstJobs <- BothWaiting
    FirstViews = {"dashboard"}
    MaxClicks = 1
    MaxFaults = 1
PROPERTIES DashboardFollowsPause
           LogFollowsJob
