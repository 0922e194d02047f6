\* Four callers of two keys in a cache that holds one; any prerequisites of three
\* types; any fit of two entries.
SPECIFICATION TopicSpec
CONSTANTS
    c1 = c1
    c2 = c2
    c3 = c3
    c4 = c4
    k1 = k1
    k2 = k2
    gun = gun
    rack = rack
    drone = drone
    None = None
    Unknown = Unknown
    Nothing = Nothing
    Callers = {c1, c2, c3, c4}
    Keys = {k1, k2}
    MaxEntries = 1
    Lifetime = 1
    MaxTime = 2
    Types = {1, 2, 3}
    Known = {1, 2}
    Levels = {1, 2}
    MaxSlots = 2
    MaxNeeds = 4
    MaxTargets = 2
    MaxDepth = 3
    Items = {gun, rack, drone}
    SlotOf <- SmallSlots
    Named = {gun, drone}
    MaxItems = 2
    MaxQuantity = 2
SYMMETRY Interchangeable
INVARIANTS
    AnswersAreYoung
    SharedWhileItFits
    NextCallerGetsAnAttempt
    PlanAgreesWithClosures
    EveryDemandIsNamed
    NothingVanishes
PROPERTIES
    DnaKeepsTheFit
CHECK_DEADLOCK FALSE
