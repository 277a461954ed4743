SPECIFICATION MCSpec
CONSTANTS
    Scenarios = {"any"}
    Orders = {o1}
    Procs = {p1, p2}
    Charges = {1, 2}
    TopUps = {t1}
    TopUpAmount = 2
    Adjustments = {}
    MaxAdjustments = 0
    Ops = {"create", "edit", "cancel", "notify", "deposit"}
    NoKey = NoKey
    NoProc = NoProc
    NoOrder = NoOrder
    Unread = Unread
PROPERTIES ShippedIsFrozen
