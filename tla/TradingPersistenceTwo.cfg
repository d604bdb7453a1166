\* Two processes, one call each, or one of them two calls; mutations are
\* applied later.
SPECIFICATION Spec
CONSTANTS
    d = d
    u = u
    seed = seed
    bot = bot
    weth = weth
    usdc = usdc
    p1 = p1
    p2 = p2
    t1 = t1
    t2 = t2
    exact = exact
    long = long
    cut = cut
    Writers = {api, cli}
    Dexes <- MCDexes
    Traders <- MCTraders
    Tokens <- MCTokens
    Pools <- MCPools
    Txs <- MCTxs
    SwapData <- MCSwapData
    StoredData <- MCStoredData
    Payloads <- AllPayloads
    SeedTraders <- MCSeedTraders
    MutationsSync = FALSE
    MaxStarts = 2
INVARIANTS
    ReferentialIntegrity
    CommittedIsComplete
PROPERTIES
    ImplementsStore
SYMMETRY WriterSymmetry
CHECK_DEADLOCK FALSE
