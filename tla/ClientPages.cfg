SPECIFICATION ClientSpec
CONSTANTS
    t1 = t1  t2 = t2  w1 = w1  w2 = w2  p1 = p1  p2 = p2
    ReviewTasks <- TwoTasks
    MaxOriginals = 2
    HistoryTasks <- TwoTasks
    PageSize = 1
    MaxJobs = 3
    JobTables <- EndedAndActive
    MaxChanges = 1
    DirTasks <- TwoTasks
    DirPaths <- TwoPaths
    Ages <- TwoAges
    DefaultAge = 7
    FirstDirs <- OneRow
    MaxDirs = 2
    MaxDirSteps = 2
    Jobs <- OneFilm
    Loads <- TwoTasks
    FirstViews = {"queue", "dashboard"}
    FirstJobs <- NotKnown
    MaxClicks = 1
    MaxFaults = 1
    PickTasks <- TwoTasks
    Folders <- Tree
    RootLists <- Lists
    MaxPicks = 3
    NoFolder = NoFolder
    Writers <- TwoWriters
    PageWriter = w1
    MaxPuts = 2
    MaxEdits = 2
    SessionTasks <- TwoTasks
    Passwords <- TwoPasswords
    NoPassword = NoPassword
    MaxTerms = 3
SYMMETRY Alike
VIEW Moving
INVARIANTS ClientTypeOK
           RequestsNameWhatWasSeen
           HiddenTicksAreSpent
           QuietReviewIsTrue
           QuietHistoryIsTrue
           QuietDirectoriesAreTrue
           RunningShownRuns
           StreamEndsWithPage
           
           LinksLeadThere
           LoadingEnds
           TicksAreShown
           
           
           CleanMeansSaved
           QuietSettingsAreTrue
PROPERTIES 
           GoodTokenIsKept
