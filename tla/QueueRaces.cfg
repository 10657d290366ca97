SPECIFICATION Spec
CONSTANTS
    NoSlot = NoSlot
    s1 = s1  s2 = s2  c1 = c1  c2 = c2
    JobIds <- OneJob
    Slots <- TwoSlots
    Clients <- TwoClients
    MaxConcurrency = 2
    Requested <- AroundLimit
    Priorities <- TwoPriorities
    FailThreshold = 2
    Stops <- AnyStop
SYMMETRY Interchangeable
INVARIANTS TypeOK
           SlotAccounting
           RunningHasOwner
           
           ErrorOnlyAtThreshold
