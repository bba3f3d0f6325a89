\* The model ends when the domain has ended and MaxEvents events were sent.
CHECK_DEADLOCK FALSE
SPECIFICATION Spec
CONSTANTS
    p1 = p1
    o1 = o1
    o2 = o2
    Producers <- OneProducer
    Objects <- TwoObjects
    Worker = Worker
    Owner = Owner
    NoObject = NoObject
    MaxEvents = 3
    SemMax = 1
INVARIANTS
    TypeOK
    ArrivalOrder
    ExactlyOnce
    DrainBeforeExit
PROPERTIES
    StopTerminates
    EveryEventDispatched
