SPECIFICATION ScanSpec
CONSTANTS
    eoa = eoa
    bot = bot
    router = router
    poolA = poolA
    poolB = poolB
    None = None
    Chain <- MCChain
    Requests <- MCRequests
    Clients = {"modern", "bare", "filter"}
    ChunkSize = 3
    AddressBatch = 1
    Concurrency = 2
    Retries = 2
    ReceiptBatch = 2
    Settings <- MCSettings
    Pricings <- MCPricings
INVARIANTS
    ScanTypeOK
    NoTransactionMissed
    ReceiptsAskedAgain
    LostReceiptsOnlyReject
    SummaryMatchesTraders
PROPERTIES
    ScanEnds
CHECK_DEADLOCK FALSE
