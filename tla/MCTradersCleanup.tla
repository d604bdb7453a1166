-------------------------- MODULE MCTradersCleanup --------------------------
(***************************************************************************)
(* Small instances of TradersCleanup: a seed trader without transactions   *)
(* and a bot with two.                                                   *)
(***************************************************************************)
EXTENDS TradersCleanup

CONSTANTS seed, bot, t1, t2

MCTraders == {seed, bot}
MCTxs == {t1, t2}
MCTraderOf == [x \in MCTxs |-> bot]
MCSeedTraders == {seed}
=============================================================================
