\* The model ends when the owner has destroyed everything.
CHECK_DEADLOCK FALSE
SPECIFICATION Spec
CONSTANTS
    p1 = p1
    o1 = o1
    o2 = o2
    e1 = e1
    e2 = e2
    e3 = e3
    Producers <- OneProducer
    Objects <- TwoObjects
    Worker = Worker
    Owner = Owner
    NoObject = NoObject
    Events <- ThreeEvents
    NoEvent = NoEvent
    NumEntries = 4
    SemMax = 1
    GoesAfter <- LastUse
INVARIANTS
    TypeOK
    NodesSuffice
    NothingDangles
PROPERTIES
    StopTerminates
    EventsReturn
