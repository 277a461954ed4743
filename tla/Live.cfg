SPECIFICATION MCSpec
CONSTANTS
    LastEvent = 2
    Kind <- SubscriptionAndOther
    Amount = 1
    Handlers = {h1}
    Workers = {w1}
    MaxAttempts = 2
    Batch = 1
    MaxRestarts = 1
    InOrder = FALSE
    NoKey = NoKey
    Writers = {p1}
    LapseGrace = 1
    DunningGrace = 2
    MaxDay = 6
    LastEventDay = 2
    Never = Never
    Keep = Keep
    Ops <- NoFailures
    Ids = {1, 2}
    Readers = {b1, b2}
    Authors = {x1}
    Forms <- NoForms
    Horizon = 1
    MaxCalls = 1
    MaxLosses = 1
    Home = b1
    PanelLimit = 1
    MaxPresses = 2
    Unset = Unset
    Scenarios = {"events", "membership", "bell", "page"}
PROPERTIES EventuallySettled RowCatchesUp GraceEnds InboxSettles
CHECK_DEADLOCK FALSE
