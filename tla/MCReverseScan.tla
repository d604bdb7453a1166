---------------------------- MODULE MCReverseScan ----------------------------
(***************************************************************************)
(* A small chain: a bot and a router that trade on two pools, the creation *)
(* of a pool, a contract that refunds a pool when it is destroyed, and a   *)
(* call that is reverted.                                                  *)
(***************************************************************************)
EXTENDS ReverseScan

CONSTANTS eoa, bot, router, poolA, poolB

Frame(kind, from, to) == [kind |-> kind, from |-> from, to |-> to]
Tx(hash, to, frames, swaps) ==
    [hash |-> hash, from |-> eoa, to |-> to, swaps |-> swaps,
     frames |-> frames \cup {Frame("call", eoa, to)}]
SwapOn(pool, index) == [pool |-> pool, index |-> index]

MCChain ==
    <<<<Tx(11, router, {Frame("create", router, poolB), Frame("suicide", bot, poolA)}, {}),
        Tx(12, bot, {Frame("call", bot, poolA)}, {SwapOn(poolA, 1)})>>,
      <<Tx(21, bot, {Frame("call", router, poolA), Frame("call", router, poolB)},
           {SwapOn(poolA, 2), SwapOn(poolB, 3)})>>,
      <<Tx(31, bot, {Frame("call", bot, poolB), Frame("call", router, poolA)}, {}),
        Tx(32, bot, {Frame("call", router, poolB)}, {SwapOn(poolB, 4)})>>,
      <<Tx(41, bot, {Frame("call", bot, poolB)}, {SwapOn(poolB, 5)})>>>>

MCRequests ==
    {ForwardRequest(1, 4, {bot}, "to"),
     ForwardRequest(1, 2, {bot, router}, "from"),
     SequenceRequest(ForwardRequest(1, 3, {bot}, "to"),
                     ReversePools("mixed", {poolA}, {poolB})),
     DatabaseRequest(3, 4, {poolB}, {[pool |-> poolA, trader |-> bot]})}

(* The settings of the README with smaller amounts and a higher score to   *)
(* pass, without the top-level signal, and without the heuristics.         *)
Weights ==
    [top_level_match_count |-> 2, raw_tx_count |-> 2, raw_pool_count |-> 1,
     matched_swap_count |-> 2, priced_swap_count |-> 1, total_usd_volume |-> 2,
     max_swap_usd |-> 1]
Minima ==
    [top_level_match_count |-> 1, raw_tx_count |-> 2, raw_pool_count |-> 1,
     matched_swap_count |-> 1, priced_swap_count |-> 1, total_usd_volume |-> 2,
     max_swap_usd |-> 1]
Setting(batching, enabled, topLevel) ==
    [batching |-> batching, enabled |-> enabled, topLevel |-> topLevel,
     weight |-> Weights, min |-> Minima, pass |-> 6]
MCSettings ==
    {Setting(TRUE, TRUE, "to"), Setting(FALSE, TRUE, "off"), Setting(TRUE, FALSE, "to")}

Swaps == UNION {tx.swaps : tx \in UNION {Range(MCChain[b]) : b \in DOMAIN MCChain}}
MCPricings ==
    {[s \in Swaps |-> None], [s \in Swaps |-> IF s.pool = poolA THEN 2 ELSE None],
     [s \in Swaps |-> 1]}
==============================================================================
