\* The model ends when MaxMessages messages were sent and dispatched.
CHECK_DEADLOCK FALSE
SPECIFICATION DeferralSpec
CONSTANTS
    Off = Off
    On = On
    Green = Green
    Yellow = Yellow
    Red = Red
    RedYellow = RedYellow
    Y1 = Y1
    Y2 = Y2
    Bare = Bare
    Kid = Kid
    TurnOn = TurnOn
    TurnOff = TurnOff
    GoGreen = GoGreen
    GoYellow = GoYellow
    GoRed = GoRed
    SelfTransition = SelfTransition
    Anything = Anything
    Null = Null
    kInTransition = kInTransition
    kNone = kNone
    kDeferEvent = kDeferEvent
    Up <- ParentUp
    States <- LightStates
    Parent <- LightParent
    Initial <- LightInitial
    HistoryStates <- OnlyOn
    Events <- LightEvents
    Handler <- LightHandler
    StartStates <- OnlyOff
    RecallOnEntry <- OnlyOn
    RecallOnExit <- OnlyOff
    MaxMessages = 6
INVARIANTS
    EachMessageOnce
    HandledInOrder
    DeferredUntilExit
