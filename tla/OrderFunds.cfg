SPECIFICATION MCSpec
CONSTANTS
    Scenarios = {"any", "queue", "shipnotify"}
    Orders = {o1, o2}
    Procs = {p1, p2}
    Charges = {1, 2}
    TopUps = {t1}
    TopUpAmount = 3
    Adjustments = {1}
    MaxAdjustments = 1
    Ops <- Everything
    NoKey = NoKey
    NoProc = NoProc
    NoOrder = NoOrder
    Unread = Unread
SYMMETRY Symmetry
INVARIANTS TypeOK CaptureOnce CaptureImpliesShipped QueueIsBacked FlagIsTrue
PROPERTIES StatusOnlyForward KeepsReservation
