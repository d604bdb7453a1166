-------------------------- MODULE MCTradeEnrichment --------------------------
(***************************************************************************)
(* Five tokens in a chain of swaps: 2 is a stablecoin, 1 trades against    *)
(* it, 3 against 1, 4 against 3 (too far for two rounds), and 5 has no     *)
(* decimals.  Words have 64 values, so 62 is -2; the base is 2.            *)
(***************************************************************************)
EXTENDS TradeEnrichment

CONSTANTS poolA, poolB, poolC, poolD, poolE, poolF, miner, other

Log(tx, block, pool, kind, words) ==
    [tx |-> tx, block |-> block, pool |-> pool, kind |-> kind, words |-> words]

MCLogs ==
    <<Log(11, 1, poolA, "v2", <<4, 0, 0, 6>>),              \* sells 1 for 2
      Log(11, 1, poolB, "v3", <<62, 3>>),                   \* sells 3 for 1
      Log(12, 1, poolC, "underlying", <<1, 3, 0, 8>>),      \* sells 2 for 1
      Log(12, 1, poolC, "underlying", <<1, 0, 0, 8>>),      \* nothing of 2 for 1
      Log(12, 1, poolA, "transfer", <<1>>),
      Log(21, 2, poolC, "curve", <<0, 5, 1, 2>>),           \* sells 4 for 3
      Log(21, 2, poolA, "v2", <<1, 5, 2, 1>>),              \* pays both
      Log(21, 2, poolC, "curve", <<63, 1, 0, 1>>),
      Log(21, 2, poolB, "v3", <<2, 59>>),                   \* sells 1 for 3
      Log(31, 3, poolD, "v2", <<0, 2, 4, 0>>),              \* sells 5 for 2
      Log(31, 3, poolE, "v3", <<2, 63>>),                   \* sells 3 for 5
      Log(41, 4, poolD, "v2", <<0, 2, 4, 0>>),
      Log(41, 4, poolE, "v3", <<2, 34>>),                   \* for thirty
      Log(41, 4, poolF, "underlying", <<1, 2, 0, 1>>)>>     \* of a metapool

NoCoins == [s \in Range(Selectors(FALSE)) |-> <<>>]
Pool(factory, fee, first, second, balances) ==
    [factory |-> factory, fee |-> fee, tokens |-> <<first, second>>,
     coins |-> NoCoins, balances |-> balances]

MCPoolFacts ==
    (poolA :> Pool("sushi", None, 1, 2, <<8, 8>>)) @@
    (poolB :> Pool("uniswap", 500, 1, 3, <<4, 40>>)) @@
    (poolC :> [Pool(None, None, None, None, <<0, 0>>) EXCEPT
                 !.coins = [NoCoins EXCEPT !["coins_int128"] = <<4, 3>>,
                                           !["underlying_coins"] = <<1, 2>>]]) @@
    (poolD :> Pool("sushi", None, 2, 5, <<0, 0>>)) @@
    (poolE :> Pool("uniswap", 100, 3, 5, <<1, 1>>)) @@
    (poolF :> [Pool(None, None, None, None, <<0, 0>>) EXCEPT
                 !.coins = [NoCoins EXCEPT !["coins"] = <<4, 1>>]])

MCTokenFacts ==
    <<[decimals |-> 2, symbol |-> TRUE, hint |-> FALSE],
      [decimals |-> 1, symbol |-> TRUE, hint |-> TRUE],
      [decimals |-> 1, symbol |-> FALSE, hint |-> FALSE],
      [decimals |-> None, symbol |-> TRUE, hint |-> FALSE],
      [decimals |-> 0, symbol |-> TRUE, hint |-> FALSE]>>

MCTransfers ==
    (11 :> {[to |-> miner, value |-> 1], [to |-> miner, value |-> 2]}) @@
    (12 :> {[to |-> other, value |-> 1]}) @@
    (21 :> {[to |-> miner, value |-> 4], [to |-> other, value |-> 3]}) @@ (31 :> {}) @@ (41 :> {})
MCMiner == <<miner, other, miner, miner>>

(* the first two overlap, the last has no logs                             *)
MCWindows == {[start |-> 1, end |-> 2], [start |-> 2, end |-> 3], [start |-> 4, end |-> 4],
              [start |-> 5, end |-> 5]}
==============================================================================
