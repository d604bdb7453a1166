----------------------------- MODULE MCAutoScan -----------------------------
(***************************************************************************)
(* Small instances of AutoScan: a seed trader and a rival that is found in *)
(* a pool the seed trader uses, on a chain of six blocks.                  *)
(***************************************************************************)
EXTENDS AutoScan

CONSTANTS seed, rival, p1, p2

MCTraders == {seed, rival}
MCPools == {p1, p2}
MCSeedTraders == {seed}

(* Blocks 3 and 6 have nothing of interest.                                *)
MCTraderOf == [b \in {1, 2, 4, 5} |-> IF b \in {1, 4} THEN seed ELSE rival]
MCPoolOf == [b \in {1, 2, 4, 5} |-> IF b = 5 THEN p2 ELSE p1]
=============================================================================
