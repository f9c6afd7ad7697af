CONSTANTS
    r1 = r1
    r2 = r2
    Hosts = {h1}
    Names = {"n1"}
    Records <- MCRecords
    Requests = {r1}
    Refresher = Refresher
    None = None
    MaxRestarts = 1
SPECIFICATION Spec
PROPERTY HiccupHarmless
