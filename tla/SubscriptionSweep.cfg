SPECIFICATION MCSpec
CONSTANTS
    ClaimIds = {c1, c2}
    Clerks = {k1, k2}
    Charges = {1}
    Amounts = {1, 2}
    TopUps = {t1}
    TopUpAmount = 1
    MaxReships = 2
    NoKey = NoKey
    LastEvent = 2
    Kind <- TopUpAndOrder
    Amount = 1
    Handlers = {h1, h2}
    Workers = {w1}
    MaxAttempts = 2
    Batch = 2
    MaxRestarts = 1
    InOrder = FALSE
    Writers = {p1, p2}
    LapseGrace = 0
    DunningGrace = 1
    MaxDay = 2
    LastEventDay = 1
    Never = Never
    Keep = Keep
    Ops <- NoFailures
    Carts <- Destined
    Parcel <- Parcels
    Tariffs <- Rates
    Estimate <- Computed
    Ground = "ground"
    FlatCents = 9
    Pricings <- Fees
    Requests = {r1, r2}
    MaxRatings = 3
    MaxRevisions = 2
    Blank = Blank
    Scenarios = {"membership"}
PROPERTIES SweepOnlyLapsed
CHECK_DEADLOCK FALSE
