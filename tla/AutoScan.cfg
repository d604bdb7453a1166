\* Windows that grow with the chain, two runs over each, and three faults.
SPECIFICATION Spec
CONSTANTS
    seed = seed
    rival = rival
    p1 = p1
    p2 = p2
    Traders <- MCTraders
    Pools <- MCPools
    TraderOf <- MCTraderOf
    PoolOf <- MCPoolOf
    SeedTraders <- MCSeedTraders
    FirstHead = 1
    MaxHead = 6
    StartBlock = 2
    Runs = 2
    MaxFaults = 3
INVARIANTS
    TypeOK
    NothingMissed
    EarlierFindsAreScanned
PROPERTIES
    CaughtUp
    NewestGetsItsSwaps
