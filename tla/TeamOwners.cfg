CONSTANTS
    Callers = {c1, c2, c3}
    Editors = {e1, e2}
    MaxVersion = 2
    None = None
    Admins = {a1, a2}
    Brands = {b1}
    Amounts = {3, 5}
    MaxRows = 3
    LastDay = 4
    Deferral = 2
    Lookback = 3
    SessionLife = 1
    MaxFailures = 1
    Ids = {1, 2}
    Readers = {b1, b2}
    Authors = {x1, x2}
    Forms <- Drafts
    Horizon = 1
    MaxCalls = 3
    MaxLosses = 0
    Unset = Unset
    People = {u, v, w, z}
    Outsiders = {z}
    MaxVisits = 4
    MaxFaults = 1
    Nobody = Nobody
    Calls = {r1, r2}
    MaxSessions = 3
    MaxChanges = 2
    MaxLogins = 2
    NoSession = NoSession
    Users = {i, j}
    LastSlide = 1
    MaxSignIns = 3
    MaxTourPosts = 2
    NoUser = NoUser
    Scenarios = {"owners"}
SPECIFICATION MCSpec
INVARIANTS KeepsOwner
CHECK_DEADLOCK FALSE
