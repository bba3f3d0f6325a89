\* The model ends when the domain has ended.
CHECK_DEADLOCK FALSE
SPECIFICATION Spec
CONSTANTS
    t1 = t1
    t2 = t2
    Senders <- TwoSenders
    Worker = Worker
    Owner = Owner
    kState1 = kState1
    kState2 = kState2
    Go1 = Go1
    Go2 = Go2
    Null = Null
    kInTransition = kInTransition
    kNone = kNone
    kDeferEvent = kDeferEvent
    MaxEvents = 4
INVARIANTS
    CurrentStateIsRecent
PROPERTIES
    Settles
