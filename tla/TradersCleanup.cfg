\* Two scans at a time and two cleanups.
SPECIFICATION CleanupSpec
CONSTANTS
    seed = seed
    bot = bot
    t1 = t1
    t2 = t2
    Traders <- MCTraders
    Txs <- MCTxs
    TraderOf <- MCTraderOf
    SeedTraders <- MCSeedTraders
    Scans = {api, cli}
    MinTransactions = 2
    MaxScans = 3
    MaxCleanups = 2
INVARIANTS
    CleanupTypeOK
PROPERTIES
    InactiveTradersGo
    ActiveTradersStay
CHECK_DEADLOCK FALSE
