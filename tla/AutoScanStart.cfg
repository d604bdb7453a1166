\* The first window of an empty database.
SPECIFICATION Spec
CONSTANTS
    seed = seed
    rival = rival
    p1 = p1
    p2 = p2
    Traders <- MCTraders
    Pools <- MCPools
    TraderOf <- MCTraderOf
    PoolOf <- MCPoolOf
    SeedTraders <- MCSeedTraders
    MaxHead = 6
    FirstHead = 4
    StartBlock = 2
    Runs = 1
    MaxFaults = 0
PROPERTIES
    FirstScanStartsAtStartBlock
