\* A threshold of one.
SPECIFICATION CleanupSpec
CONSTANTS
    seed = seed
    bot = bot
    t1 = t1
    t2 = t2
    Traders <- MCTraders
    Txs <- MCTxs
    TraderOf <- MCTraderOf
    SeedTraders <- MCSeedTraders
    Scans = {api}
    MinTransactions = 1
    MaxScans = 1
    MaxCleanups = 1
PROPERTIES
    InactiveTradersGo
CHECK_DEADLOCK FALSE
