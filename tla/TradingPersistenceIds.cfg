\* Two processes compute the next swap id at the same time.
SPECIFICATION Spec
CONSTANTS
    d = d
    u = u
    seed = seed
    bot = bot
    weth = weth
    usdc = usdc
    p1 = p1
    p2 = p2
    t1 = t1
    t2 = t2
    exact = exact
    long = long
    cut = cut
    Writers = {api, cli}
    Dexes <- MCDexes
    Traders <- MCTraders
    Tokens <- MCTokens
    Pools <- MCPools
    Txs <- MCTxs
    SwapData <- MCSwapData
    StoredData <- MCStoredData
    Payloads <- OverlappingPayloads
    SeedTraders <- MCSeedTraders
    MutationsSync = TRUE
    MaxStarts = 2
INVARIANTS
    SwapIdsUnique
SYMMETRY WriterSymmetry
CHECK_DEADLOCK FALSE
