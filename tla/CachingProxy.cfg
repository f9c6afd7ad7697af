CONSTANTS
    Keys = {k1}
    Requests = {r1, r2}
    Refreshers = {b1, b2}
    MaxVersion = 2
    None = None
    Second = 10
    Word = 256
    MaxTTL = 50
    Records <- MCRecords
    DefaultTTL = 30
    DefaultSWR = 20
    NodeCap = 100
    Responses <- MCResponses
SPECIFICATION FairSpec
INVARIANTS
    TypeOK
    OneRefreshPerKey
    ClaimsHeld
    NothingPersonal
    LimitsKept
    ModesOrdered
PROPERTIES
    CurrentStays
    OldContentDies
    RefreshEnds
