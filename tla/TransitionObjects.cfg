SPECIFICATION Spec
CONSTANTS
    t1 = t1
    a1 = a1
    a2 = a2
    Targets <- OneTarget
    Actions <- TwoActions
    Lists <- SomeLists
    Depth = 3
    Null = Null
    kInTransition = kInTransition
    kNone = kNone
    kDeferEvent = kDeferEvent
INVARIANTS
    ExecutesAsAsked
