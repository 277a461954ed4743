SPECIFICATION FairSpec
CONSTANTS
    b1 = b1
    b2 = b2
    Brands <- MCBrands
    Procs = {p1, p2, p3}
    Requests <- MCRequests
    NoKey = NoKey
    NoProc = NoProc
    NoRequest = NoRequest
INVARIANTS TypeOK LedgerSound
PROPERTIES ImplementsAccount AppendsFinish
