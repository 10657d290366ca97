SPECIFICATION Spec
CONSTANTS
    NoSlot = NoSlot
    s1 = s1  s2 = s2  c1 = c1  c2 = c2
    JobIds <- OneJob
    Slots <- OneSlot
    Clients <- OneClient
    MaxConcurrency = 1
    Requested <- NoRequests
    Priorities <- OnePriority
    FailThreshold = 1
    Stops <- Graceful
SYMMETRY Interchangeable
PROPERTIES DrainsBeforeExit
