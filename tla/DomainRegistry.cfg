CONSTANTS
    r1 = r1
    r2 = r2
    Hosts = {h1}
    Names = {"n1"}
    Records <- MCRecords
    Requests <- MCRequests
    Refresher = Refresher
    None = None
    MaxRestarts = 1
SYMMETRY Symmetry
SPECIFICATION Spec
INVARIANTS
    TypeOK
    ActiveHasOrigin
    NothingUnflagged
PROPERTIES
    OnlyRefreshTakesDown
