------------------------- MODULE MCDatabaseBackfill -------------------------
(***************************************************************************)
(* Small instances of DatabaseBackfill: three scans of overlapping windows *)
(* and the order of their addresses.                                       *)
(***************************************************************************)
EXTENDS MCTradingPersistence, DatabaseBackfill

(* The label of usdc is never found by a scan; p2 is never valued.         *)
Scan(snapshot, transactionsFound, swapsFound) ==
    [dexes |-> {d},
     tokens |-> {[address |-> weth, named |-> TRUE, stable |-> FALSE],
                 [address |-> usdc, named |-> FALSE, stable |-> FALSE]},
     pools |-> {[address |-> p1, dex |-> d, snapshot |-> snapshot],
                [address |-> p2, dex |-> d, snapshot |-> NoSnapshot]},
     transactions |-> transactionsFound,
     swaps |-> swapsFound]

(* t1 swaps twice the same amount on p1, and on p2, one side of which is   *)
(* unknown, for a price with more digits than the column keeps.            *)
First == [hash |-> t1, block |-> 1, trader |-> bot]
FirstSwaps ==
    <<Sw(t1, p1, {weth, usdc}, exact), Sw(t1, p1, {weth, usdc}, exact),
      Sw(t1, p2, {weth}, long)>>

(* the first block, without and with an answer about p1; then two blocks   *)
Blind == Scan(NoSnapshot, {First}, FirstSwaps)
Early == Scan(1, {First}, FirstSwaps)
Late ==
    Scan(3, {First, [hash |-> t2, block |-> 3, trader |-> bot]},
         Append(FirstSwaps, Sw(t2, p1, {weth, usdc}, exact)))

Rescans == {Blind, Early, Late}

MCRank == (usdc :> 1) @@ (weth :> 2) @@ (p1 :> 3) @@ (p2 :> 4)
MCHints == {usdc}
=============================================================================
