\* One scanning process, three calls, beside a run of the backfill; any of
\* them may stop half-way; mutations are applied later.
SPECIFICATION BackfillSpec
CONSTANTS
    d = d
    u = u
    seed = seed
    bot = bot
    weth = weth
    usdc = usdc
    p1 = p1
    p2 = p2
    t1 = t1
    t2 = t2
    exact = exact
    long = long
    cut = cut
    Writers = {scan}
    Dexes <- MCDexes
    Traders <- MCTraders
    Tokens <- MCTokens
    Pools <- MCPools
    Txs <- MCTxs
    SwapData <- MCSwapData
    StoredData <- MCStoredData
    Payloads <- Rescans
    SeedTraders <- MCSeedTraders
    MutationsSync = FALSE
    MaxStarts = 3
    Rank <- MCRank
    Hints <- MCHints
    ChunkSize = 1
    MaxBackfills = 1
INVARIANTS
    BackfillTypeOK
    NoDuplicateSwaps
    PrimaryKeysUnique
    NoCandidateSkipped
PROPERTIES
    SnapshotsGoBackOnlyIfStale
    BackfillEnds
CHECK_DEADLOCK FALSE
