------------------------ MODULE MCTradingPersistence ------------------------
(***************************************************************************)
(* Small instances of TradingPersistence.  "window1" and "window2" are the *)
(* payloads of two overlapping scans of one chain; "seed" is the trader    *)
(* inserted by hand.                                                       *)
(***************************************************************************)
EXTENDS TradingPersistence

CONSTANTS d, u, seed, bot, weth, usdc, p1, p2, t1, t2, exact, long, cut

MCDexes == {d, u}
MCTraders == {seed, bot}
MCTokens == {weth, usdc}
MCPools == {p1, p2}
MCTxs == {t1, t2}
MCSwapData == {exact, long, cut}
MCSeedTraders == {seed}
(* usd_amount of "long" has more digits than the column keeps. *)
MCStoredData == [x \in MCSwapData |-> IF x = long THEN cut ELSE x]

Sw(tx, pool, tokenSet, data) ==
    [tx |-> tx, pool |-> pool, tokens |-> tokenSet, data |-> data]

(* t1 swaps twice the same amount on p1; one token has a placeholder label *)
Window1 ==
    [dexes |-> {d},
     tokens |-> {[address |-> weth, named |-> FALSE, stable |-> FALSE]},
     pools |-> {[address |-> p1, dex |-> d, snapshot |-> 1]},
     transactions |-> {[hash |-> t1, block |-> 1, trader |-> bot]},
     swaps |-> <<Sw(t1, p1, {weth}, exact), Sw(t1, p1, {weth}, exact)>>]

(* a later scan that covers t1 again and learns the label of its token     *)
Window2 ==
    [dexes |-> {d},
     tokens |-> {[address |-> weth, named |-> TRUE, stable |-> FALSE],
                 [address |-> usdc, named |-> TRUE, stable |-> TRUE]},
     pools |-> {[address |-> p1, dex |-> d, snapshot |-> 3]},
     transactions |-> {[hash |-> t1, block |-> 1, trader |-> bot],
                       [hash |-> t2, block |-> 3, trader |-> seed]},
     swaps |-> <<Sw(t1, p1, {weth}, exact), Sw(t1, p1, {weth}, exact),
                 Sw(t2, p1, {weth, usdc}, exact)>>]

(* a pool whose factory is unknown, no snapshot, a price with a long tail  *)
Window3 ==
    [dexes |-> {d, u},
     tokens |-> {[address |-> weth, named |-> TRUE, stable |-> FALSE],
                 [address |-> usdc, named |-> FALSE, stable |-> FALSE]},
     pools |-> {[address |-> p1, dex |-> d, snapshot |-> NoSnapshot],
                [address |-> p2, dex |-> u, snapshot |-> NoSnapshot]},
     transactions |-> {[hash |-> t2, block |-> 3, trader |-> bot]},
     swaps |-> <<Sw(t2, p1, {weth, usdc}, long), Sw(t2, p2, {weth}, exact)>>]

WriterSymmetry == Permutations(Writers)

OverlappingPayloads == {Window1, Window2}
AllPayloads == {Window1, Window2, Window3}
=============================================================================
