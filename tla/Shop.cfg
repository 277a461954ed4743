CONSTANTS
    Items = {p, q}
    Stores = {s}
    Skus = {k, l}
    Admins = {a}
    Operator = a
    Files <- Sheets
    ChunkSize = 2
    MaxRows = 2
    MaxImports = 3
    MaxClicks = 2
    MaxRequests = 2
    MaxBrandSteps = 2
    Missing = Missing
    Products = {p1, p2}
    OwnSkus = {s1}
    Tabs = {t1, t2}
    MaxIds = 2
    MaxEdits = 3
    None = None
    Screens = {x, y}
    MaxConnections = 2
    MaxFaults = 2
    Nothing = Nothing
    Scenarios = {"requests", "clicks", "import", "shop", "tabs", "screens", "screen"}
SPECIFICATION MCSpec
INVARIANTS TypeOK  
PROPERTIES  HooksAreTrue  BulkReaches ImportIsTrue
SYMMETRY Symmetry
CHECK_DEADLOCK FALSE
