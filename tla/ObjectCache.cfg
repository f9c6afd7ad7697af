CONSTANTS
    k1 = k1
    k2 = k2
    k3 = k3
    small = small
    big = big
    Keys <- MCKeys
    Objects <- MCObjects
    ShardOf <- MCShardOf
    Size <- MCSize
    NShards = 2
    Callers = {c1, c2}
    Target = 12
    Floor = 10
    None = None
SPECIFICATION FairSpec
INVARIANTS
    TypeOK
    ShardsConsistent
    CountersExact
    ShardBounded
PROPERTIES
    CutsTakeHold
    EvictsLeastRecent
    ImplementsLossyStore
    BudgetRecovers
    PressureRelieved
