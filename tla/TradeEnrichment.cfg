\* Two scans, one after the other, and at most two answers that are lost.
CONSTANTS
    poolA = poolA
    poolB = poolB
    poolC = poolC
    poolD = poolD
    poolE = poolE
    poolF = poolF
    miner = miner
    other = other
    None = None
    Tokens = {1, 2, 3, 4, 5}
    WordSize = 64
    Base = 2
    DefaultDecimals = 3
    MaxPrice = 6
    MaxRounds = 2
    Logs <- MCLogs
    Windows <- MCWindows
    PoolFacts <- MCPoolFacts
    TokenFacts <- MCTokenFacts
    Transfers <- MCTransfers
    Miner <- MCMiner
    DefaultV2Fee = 3000
    DecimalLimit = 20
    UsdDigits = 3
    MaxLost = 2
    MaxScans = 2
SPECIFICATION EnrichmentSpec
INVARIANTS
    EnrichmentTypeOK
    SidesAreTrades
    PricesIgnoreOrder
    PricesNeedAnAnchor
    PayloadIsSound
    DuplicatesHaveAReason
CHECK_DEADLOCK FALSE
