SPECIFICATION SafeSpec
CONSTANTS
    Off = Off
    On = On
    Green = Green
    Yellow = Yellow
    Red = Red
    RedYellow = RedYellow
    Y1 = Y1
    Y2 = Y2
    Bare = Bare
    Kid = Kid
    TurnOn = TurnOn
    TurnOff = TurnOff
    GoGreen = GoGreen
    GoYellow = GoYellow
    GoRed = GoRed
    SelfTransition = SelfTransition
    Anything = Anything
    Null = Null
    kInTransition = kInTransition
    kNone = kNone
    kDeferEvent = kDeferEvent
    Up <- ParentUp
    States <- TreeStates
    Parent <- TreeParent
    Initial <- TreeInitial
    HistoryStates <- OnAndYellow
    Events <- OneEvent
    Handler <- IntoSubstateHandler
    StartStates <- TreeStart
INVARIANTS
    ParentsActive
