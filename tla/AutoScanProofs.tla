--------------------------- MODULE AutoScanProofs ---------------------------
(***************************************************************************)
(* The windows of the scheduler leave no gap, and a later run of a         *)
(* sequence scans for what an earlier one found: for any chain, traders    *)
(* and pools, any number of runs over a window, any number of scans that   *)
(* fail or lose receipts, and any node that lags.                          *)
(***************************************************************************)
EXTENDS AutoScan, TableLemmas

(* Where a sequence has a window, and where it has its traders as well.    *)
Tracking ==
    {"discover", "insertPools", "insertTransactions", "insertSwaps", "readPools",
     "persistCompetitors"}
InWindow == Tracking \cup {"readTraders"}

(* The window begins at or below the highest stored block and ends at or   *)
(* above it, however much of it is stored by now.                          *)
WindowFits ==
    /\ At("resolveEnd") => scan.from = LastPersistedBlock
    /\ scan.pc \in InWindow =>
         /\ scan.from <= LastPersistedBlock /\ LastPersistedBlock <= scan.to
         /\ scan.runsLeft >= 1

(* The traders a run tracks are those of the table: only the last stage of *)
(* a run adds to it.                                                       *)
TradersKnown ==
    /\ \A t \in Traders : since[t] # Unknown <=> t \in traders
    /\ scan.early \subseteq traders
    /\ scan.pc \in Tracking => scan.tracked = traders

(* What was found is what there is in the window, but for lost receipts.   *)
FoundIsComplete ==
    /\ scan.pc \in {"insertPools", "insertTransactions", "insertSwaps"} =>
         scan.found \subseteq Matched /\ Matched \subseteq scan.found \cup lost
    /\ At("insertSwaps") => scan.found \subseteq txs
    /\ At("readPools") => Matched \subseteq swaps \cup lost

AutoInvariant ==
    TypeOK /\ WindowFits /\ TradersKnown /\ FoundIsComplete /\ NothingMissed
-----------------------------------------------------------------------------
(* The highest of some blocks.                                             *)
LEMMA HighestBlock ==
    ASSUME NEW S \in SUBSET Matching, S # {}
    PROVE  Max(S) \in S /\ \A x \in S : x <= Max(S)
  <1> DEFINE Bounds == {b \in Nat : \A x \in S : x <= b}
  <1>1. S \subseteq 1..MaxHead /\ MaxHead \in Nat
    BY ChainAssumption
  <1>2. Bounds \in SUBSET Nat /\ MaxHead \in Bounds
    BY <1>1
  <1>3. PICK m \in Bounds : \A b \in Bounds : m <= b
    BY <1>2, LeastNatural
  <1>4. m \in S
    <2>1. SUFFICES ASSUME m \notin S PROVE FALSE
      OBVIOUS
    <2>2. \A x \in S : x <= m - 1
      BY <1>1, <1>3, <2>1
    <2>3. PICK x \in S : x \in 1..MaxHead
      BY <1>1
    <2>4. m - 1 \in Bounds
      BY <1>2, <2>2, <2>3
    <2>5. QED
      BY <1>2, <1>3, <2>4
  <1>5. \A x \in S : m >= x
    BY <1>1, <1>3
  <1>6. \E y \in S : \A x \in S : y >= x
    BY <1>4, <1>5
  <1>7. Max(S) \in S /\ \A x \in S : Max(S) >= x
    BY <1>6 DEF Max
  <1>8. QED
    BY <1>1, <1>7

(* LastPersistedBlock, as a function of what is stored.                    *)
LastOf(S) == IF S = {} THEN 0 ELSE Max(S)

LEMMA LastBlock ==
    ASSUME NEW S \in SUBSET Matching
    PROVE  /\ LastOf(S) \in Nat
           /\ \A x \in S : x <= LastOf(S)
           /\ LastOf(S) = 0 \/ LastOf(S) \in S
  <1>1. Matching \subseteq Nat
    BY ChainAssumption
  <1>2. CASE S = {}
    BY <1>2 DEF LastOf
  <1>3. CASE S # {}
    BY <1>1, <1>3, HighestBlock DEF LastOf
  <1>4. QED
    BY <1>2, <1>3

(* A step that stores no transaction and adds no trader misses nothing.    *)
LEMMA NothingNewIsMissed ==
    ASSUME NothingMissed, txs' = txs, since' = since, lost \subseteq lost'
    PROVE  NothingMissed'
  BY DEF NothingMissed, LastPersistedBlock
-----------------------------------------------------------------------------
LEMMA AutoInit == Init => AutoInvariant
  <1> SUFFICES ASSUME Init PROVE AutoInvariant
    OBVIOUS
  <1> USE DEF Init
  <1>1. TypeOK
    <2>1. scan \in [pc : {"idle"}, from : {0}, to : {0}, tracked : {{}}, found : {{}},
                    pools : {{}}, runsLeft : {0}, early : {{}}]
      BY DEF Idle
    <2>2. since \in [Traders -> Nat \cup {Unknown}]
      BY SeedAssumption DEF Unknown
    <2>3. QED
      BY <2>1, <2>2, ChainAssumption, SeedAssumption, RunsAssumption, BoundsAssumption
         DEF TypeOK, Idle
  <1>2. WindowFits
    BY DEF WindowFits, At, Idle, InWindow, Tracking
  <1>3. TradersKnown
    BY SeedAssumption DEF TradersKnown, Idle, Tracking, Unknown
  <1>4. FoundIsComplete
    BY DEF FoundIsComplete, At, Idle
  <1>5. NothingMissed
    BY ChainAssumption DEF NothingMissed, LastPersistedBlock
  <1>6. QED
    BY <1>1, <1>2, <1>3, <1>4, <1>5 DEF AutoInvariant
-----------------------------------------------------------------------------
(* One lemma for each action.                                              *)
ScanRecord ==
    [pc : InWindow \cup {"idle", "resolveEnd"},
     from : Nat, to : Nat, tracked : SUBSET Traders, found : SUBSET Matching,
     pools : SUBSET Pools, runsLeft : 0..Runs, early : SUBSET Traders]

LEMMA ScanTyped == TypeOK => scan \in ScanRecord
  BY DEF TypeOK, ScanRecord, InWindow, Tracking

(* The types, once those of the scan and of the tables are known.          *)
LEMMA TypesFollow ==
    ASSUME scan' \in ScanRecord, head' \in FirstHead..MaxHead, traders' \subseteq Traders,
           pools' \subseteq Pools, txs' \subseteq Matching, swaps' \subseteq txs',
           since' \in [Traders -> Nat \cup {Unknown}], lost' \subseteq Matching,
           faults' \in 0..MaxFaults
    PROVE  TypeOK'
  BY DEF TypeOK, ScanRecord, InWindow, Tracking

LEMMA IdleTyped == Idle \in ScanRecord
  BY RunsAssumption DEF Idle, ScanRecord

LEMMA GrowKeeps == AutoInvariant /\ Grow => AutoInvariant'
  <1> SUFFICES ASSUME AutoInvariant, Grow PROVE AutoInvariant'
    OBVIOUS
  <1> USE DEF AutoInvariant, Grow, tables
  <1>1. TypeOK'
    BY ChainAssumption, ScanTyped, TypesFollow DEF TypeOK
  <1>2. WindowFits' /\ TradersKnown'
    BY DEF WindowFits, TradersKnown, At, LastPersistedBlock
  <1>3. FoundIsComplete'
    BY DEF FoundIsComplete, At, Matched, Window
  <1>4. NothingMissed'
    BY NothingNewIsMissed
  <1>5. QED
    BY <1>1, <1>2, <1>3, <1>4

LEMMA GoIdleKeeps ==
    ASSUME AutoInvariant, scan' = Idle, UNCHANGED <<head, tables, since, lost>>,
           faults' \in 0..MaxFaults
    PROVE  AutoInvariant'
  <1> USE DEF AutoInvariant, tables
  <1>1. TypeOK'
    BY IdleTyped, TypesFollow DEF TypeOK
  <1>2. WindowFits'
    BY DEF WindowFits, At, Idle, InWindow, Tracking
  <1>3. TradersKnown'
    BY DEF TradersKnown, Idle, Tracking
  <1>4. FoundIsComplete'
    BY DEF FoundIsComplete, At, Idle
  <1>5. NothingMissed'
    BY NothingNewIsMissed
  <1>6. QED
    BY <1>1, <1>2, <1>3, <1>4, <1>5

LEMMA FailKeeps == AutoInvariant /\ Fail => AutoInvariant'
  BY GoIdleKeeps, BoundsAssumption DEF Fail, Fault, AutoInvariant, TypeOK

LEMMA ResolveStartKeeps == AutoInvariant /\ ResolveStart => AutoInvariant'
  <1> SUFFICES ASSUME AutoInvariant, ResolveStart PROVE AutoInvariant'
    OBVIOUS
  <1> USE DEF AutoInvariant, tables
  <1>1. LastPersistedBlock \in Nat
    BY LastBlock DEF TypeOK, LastPersistedBlock, LastOf
  <1>2. AutoStartBlock = LastPersistedBlock
    BY <1>1 DEF AutoStartBlock, None
  <1>3. /\ scan' = [scan EXCEPT !.pc = "resolveEnd", !.from = LastPersistedBlock]
        /\ UNCHANGED <<head, traders, pools, txs, swaps, since, lost, faults>>
    BY <1>2 DEF ResolveStart
  <1>4. scan \in ScanRecord
    BY ScanTyped
  <1>5. TypeOK'
    <2>1. scan' \in ScanRecord
      BY <1>1, <1>3, <1>4 DEF ScanRecord
    <2>2. QED
      BY <1>3, <2>1, TypesFollow DEF TypeOK
  <1>6. /\ scan'.pc = "resolveEnd" /\ scan'.from = LastPersistedBlock
        /\ scan'.early = scan.early
    BY <1>3, <1>4 DEF ScanRecord
  <1>7. WindowFits'
    BY <1>3, <1>6 DEF WindowFits, At, InWindow, Tracking, LastPersistedBlock
  <1>8. TradersKnown' /\ FoundIsComplete'
    BY <1>3, <1>6 DEF TradersKnown, FoundIsComplete, At, Tracking
  <1>9. NothingMissed'
    BY <1>3, NothingNewIsMissed
  <1>10. QED
    BY <1>5, <1>7, <1>8, <1>9

LEMMA ResolveEndKeeps == AutoInvariant /\ ResolveEnd => AutoInvariant'
  <1> SUFFICES ASSUME AutoInvariant, ResolveEnd PROVE AutoInvariant'
    OBVIOUS
  <1> USE DEF AutoInvariant, tables
  <1>1. PICK end \in {head, head - 1} :
          /\ IF end = head THEN UNCHANGED faults ELSE head > 0 /\ Fault
          /\ IF end < scan.from THEN scan' = Idle ELSE Begin(scan.from, end)
    BY DEF ResolveEnd
  <1>2. /\ At("resolveEnd")
        /\ UNCHANGED <<head, traders, pools, txs, swaps, since, lost>>
    BY DEF ResolveEnd
  <1>3. end \in Nat /\ faults' \in 0..MaxFaults
    BY <1>1, ChainAssumption, BoundsAssumption DEF TypeOK, Fault
  <1>4. CASE end < scan.from
    BY <1>1, <1>2, <1>3, <1>4, GoIdleKeeps
  <1>5. CASE ~(end < scan.from)
    <2>1. scan' = [Idle EXCEPT !.pc = "readTraders", !.from = scan.from, !.to = end,
                               !.runsLeft = Runs]
      BY <1>1, <1>5 DEF Begin
    <2>2. scan \in ScanRecord
      BY ScanTyped
    <2>3. /\ scan'.pc = "readTraders" /\ scan'.from = scan.from /\ scan'.to = end
          /\ scan'.runsLeft = Runs /\ scan'.early = {}
      BY <2>1 DEF Idle
    <2>4. TypeOK'
      <3>1. scan.from \in Nat
        BY <2>2 DEF ScanRecord
      <3>2. scan' \in ScanRecord
        <4>1. scan' = [pc |-> "readTraders", from |-> scan.from, to |-> end,
                       tracked |-> {}, found |-> {}, pools |-> {}, runsLeft |-> Runs,
                       early |-> {}]
          BY <2>1 DEF Idle
        <4>2. Runs \in 0..Runs /\ "readTraders" \in InWindow
          BY RunsAssumption DEF InWindow
        <4>3. QED
          BY <1>3, <3>1, <4>1, <4>2 DEF ScanRecord
      <3>3. QED
        BY <1>2, <1>3, <3>2, TypesFollow DEF TypeOK
    <2>5. WindowFits'
      <3>1. scan.from = LastPersistedBlock /\ LastPersistedBlock' = LastPersistedBlock
        BY <1>2 DEF WindowFits, LastPersistedBlock
      <3>2. scan.from \in Nat /\ scan.from <= end
        BY <1>3, <1>5, <2>2 DEF ScanRecord
      <3>3. QED
        BY <2>3, <3>1, <3>2, RunsAssumption DEF WindowFits, At
    <2>6. TradersKnown' /\ FoundIsComplete'
      BY <1>2, <2>3 DEF TradersKnown, FoundIsComplete, At, Tracking
    <2>7. NothingMissed'
      BY <1>2, NothingNewIsMissed
    <2>8. QED
      BY <2>4, <2>5, <2>6, <2>7
  <1>6. QED
    BY <1>4, <1>5

LEMMA ReadTradersKeeps == AutoInvariant /\ ReadTraders => AutoInvariant'
  <1> SUFFICES ASSUME AutoInvariant, ReadTraders PROVE AutoInvariant'
    OBVIOUS
  <1> USE DEF AutoInvariant, tables
  <1>1. /\ At("readTraders")
        /\ UNCHANGED <<head, traders, pools, txs, swaps, since, lost, faults>>
        /\ faults' \in 0..MaxFaults
    BY DEF ReadTraders, TypeOK
  <1>2. CASE scan' = Idle
    BY <1>1, <1>2, GoIdleKeeps
  <1>3. CASE scan' = [scan EXCEPT !.pc = "discover", !.tracked = traders]
    <2>1. scan \in ScanRecord
      BY ScanTyped
    <2>2. /\ scan'.pc = "discover" /\ scan'.tracked = traders
          /\ scan'.from = scan.from /\ scan'.to = scan.to
          /\ scan'.runsLeft = scan.runsLeft /\ scan'.early = scan.early
      BY <1>3, <2>1 DEF ScanRecord
    <2>3. TypeOK'
      <3>1. traders \subseteq Traders
        BY DEF TypeOK
      <3>2. scan' \in ScanRecord
        BY <1>3, <2>1, <3>1 DEF ScanRecord, InWindow, Tracking
      <3>3. QED
        BY <1>1, <3>2, TypesFollow DEF TypeOK
    <2>4. WindowFits'
      BY <1>1, <2>2 DEF WindowFits, At, InWindow, LastPersistedBlock
    <2>5. TradersKnown'
      BY <1>1, <2>2 DEF TradersKnown
    <2>6. FoundIsComplete'
      BY <2>2 DEF FoundIsComplete, At
    <2>7. NothingMissed'
      BY <1>1, NothingNewIsMissed
    <2>8. QED
      BY <2>3, <2>4, <2>5, <2>6, <2>7
  <1>4. QED
    BY <1>2, <1>3 DEF ReadTraders

(* Whatever is missing is lost, so what is found and what is lost is all   *)
(* there is.                                                               *)
LEMMA DiscoverKeeps == AutoInvariant /\ Discover => AutoInvariant'
  <1> SUFFICES ASSUME AutoInvariant, Discover PROVE AutoInvariant'
    OBVIOUS
  <1> USE DEF AutoInvariant, tables
  <1>1. PICK missing \in SUBSET Matched :
          /\ IF missing = {} THEN UNCHANGED faults ELSE Fault
          /\ lost' = lost \cup missing
          /\ Found(Matched \ missing)
    BY DEF Discover
  <1>2. /\ At("discover")
        /\ UNCHANGED <<head, traders, pools, txs, swaps, since>>
        /\ faults' \in 0..MaxFaults
    BY <1>1, BoundsAssumption DEF Discover, Fault, TypeOK
  <1>3. scan \in ScanRecord
    BY ScanTyped
  <1>4. PICK next \in {"readPools", "insertPools"} :
          /\ Matched \ missing = {} => next = "readPools"
          /\ Matched \ missing # {} => next = "insertPools"
          /\ scan' = [scan EXCEPT !.pc = next, !.found = Matched \ missing]
    BY <1>1 DEF Found
  <1>5. /\ scan'.pc = next /\ scan'.found = Matched \ missing
        /\ scan'.from = scan.from /\ scan'.to = scan.to
        /\ scan'.tracked = scan.tracked
        /\ scan'.runsLeft = scan.runsLeft /\ scan'.early = scan.early
    BY <1>3, <1>4 DEF ScanRecord
  <1>6. Matched' = Matched /\ Matched \subseteq Matching
    BY <1>5 DEF Matched, Window
  <1>7. TypeOK'
    <2>1. scan' \in ScanRecord
      BY <1>3, <1>4, <1>6 DEF ScanRecord, InWindow, Tracking
    <2>2. lost' \subseteq Matching
      BY <1>1, <1>6 DEF TypeOK
    <2>3. QED
      BY <1>2, <2>1, <2>2, TypesFollow DEF TypeOK
  <1>8. WindowFits'
    BY <1>2, <1>5 DEF WindowFits, At, InWindow, Tracking, LastPersistedBlock
  <1>9. TradersKnown'
    BY <1>2, <1>5 DEF TradersKnown, At, Tracking
  <1>10. FoundIsComplete'
    BY <1>1, <1>4, <1>5, <1>6 DEF FoundIsComplete, At
  <1>11. NothingMissed'
    BY <1>1, <1>2, NothingNewIsMissed
  <1>12. QED
    BY <1>7, <1>8, <1>9, <1>10, <1>11

(* A stage between the statements that only moves on, keeps the window,    *)
(* the traders and what was found.                                         *)
MovesOn(from, to) == At(from) /\ scan' = [scan EXCEPT !.pc = to]

LEMMA MovesOnFields ==
    ASSUME AutoInvariant, NEW from, NEW to \in Tracking, MovesOn(from, to)
    PROVE  /\ scan' \in ScanRecord
           /\ scan'.pc = to /\ scan'.found = scan.found
           /\ scan'.from = scan.from /\ scan'.to = scan.to
           /\ scan'.tracked = scan.tracked
           /\ scan'.runsLeft = scan.runsLeft /\ scan'.early = scan.early
           /\ Matched' = Matched
  <1>1. scan \in ScanRecord
    BY ScanTyped DEF AutoInvariant
  <1>2. scan' \in ScanRecord
    BY <1>1 DEF ScanRecord, MovesOn, InWindow
  <1>3. /\ scan'.pc = to /\ scan'.found = scan.found
        /\ scan'.from = scan.from /\ scan'.to = scan.to
        /\ scan'.tracked = scan.tracked
        /\ scan'.runsLeft = scan.runsLeft /\ scan'.early = scan.early
    BY <1>1 DEF ScanRecord, MovesOn
  <1>4. Matched' = Matched
    BY <1>3 DEF Matched, Window
  <1>5. QED
    BY <1>2, <1>3, <1>4

LEMMA InsertPoolsKeeps == AutoInvariant /\ InsertPools => AutoInvariant'
  <1> SUFFICES ASSUME AutoInvariant, InsertPools PROVE AutoInvariant'
    OBVIOUS
  <1> USE DEF AutoInvariant
  <1>1. /\ MovesOn("insertPools", "insertTransactions")
        /\ pools' = pools \cup {PoolOf[b] : b \in scan.found}
        /\ UNCHANGED <<head, traders, txs, swaps, since, lost, faults>>
    BY DEF InsertPools, MovesOn
  <1>2. /\ scan' \in ScanRecord
        /\ scan'.pc = "insertTransactions" /\ scan'.found = scan.found
        /\ scan'.from = scan.from /\ scan'.to = scan.to
        /\ scan'.tracked = scan.tracked
        /\ scan'.runsLeft = scan.runsLeft /\ scan'.early = scan.early
        /\ Matched' = Matched
    BY <1>1, MovesOnFields DEF Tracking
  <1>3. pools' \subseteq Pools
    BY <1>1, ScanTyped, ChainAssumption DEF TypeOK, ScanRecord
  <1>4. TypeOK'
    BY <1>1, <1>2, <1>3, TypesFollow DEF TypeOK
  <1>5. WindowFits' /\ TradersKnown'
    BY <1>1, <1>2
       DEF WindowFits, TradersKnown, MovesOn, At, InWindow, Tracking, LastPersistedBlock
  <1>6. FoundIsComplete'
    BY <1>1, <1>2 DEF FoundIsComplete, MovesOn, At
  <1>7. NothingMissed'
    BY <1>1, NothingNewIsMissed
  <1>8. QED
    BY <1>4, <1>5, <1>6, <1>7

(* The step the windows are for: what is stored now closes the gap between *)
(* the old highest block and the new one, for every trader known by now,   *)
(* as the traders known are those that are tracked.                        *)
LEMMA InsertTransactionsKeeps == AutoInvariant /\ InsertTransactions => AutoInvariant'
  <1> SUFFICES ASSUME AutoInvariant, InsertTransactions PROVE AutoInvariant'
    OBVIOUS
  <1> USE DEF AutoInvariant
  <1>1. /\ MovesOn("insertTransactions", "insertSwaps")
        /\ txs' = txs \cup scan.found
        /\ UNCHANGED <<head, traders, pools, swaps, since, lost, faults>>
    BY DEF InsertTransactions, MovesOn
  <1>2. /\ scan' \in ScanRecord
        /\ scan'.pc = "insertSwaps" /\ scan'.found = scan.found
        /\ scan'.from = scan.from /\ scan'.to = scan.to
        /\ scan'.tracked = scan.tracked
        /\ scan'.runsLeft = scan.runsLeft /\ scan'.early = scan.early
        /\ Matched' = Matched
    BY <1>1, MovesOnFields DEF Tracking
  <1>3. /\ scan.found \subseteq Matched /\ Matched \subseteq scan.found \cup lost
        /\ scan.tracked = traders
        /\ scan.from <= LastPersistedBlock /\ LastPersistedBlock <= scan.to
        /\ scan.runsLeft >= 1
    BY <1>1 DEF FoundIsComplete, TradersKnown, WindowFits, MovesOn, At, InWindow, Tracking
  <1>4. Matched \subseteq Matching /\ \A b \in Matched : b <= scan.to
    BY ChainAssumption DEF Matched, Window
  <1>5. txs' \subseteq Matching /\ txs \subseteq Matching
    BY <1>1, <1>3, <1>4 DEF TypeOK
  <1>6. TypeOK'
    BY <1>1, <1>2, <1>5, TypesFollow DEF TypeOK
  <1>7. /\ LastPersistedBlock = LastOf(txs) /\ LastPersistedBlock' = LastOf(txs')
        /\ LastOf(txs) \in Nat /\ LastOf(txs') \in Nat
        /\ scan.from \in Nat /\ scan.to \in Nat
    BY <1>5, LastBlock, ScanTyped DEF LastPersistedBlock, LastOf, ScanRecord
  <1>8. LastOf(txs) <= LastOf(txs')
    <2>1. CASE LastOf(txs) = 0
      BY <1>7, <2>1
    <2>2. CASE LastOf(txs) \in txs
      BY <1>1, <1>5, <2>2, LastBlock
    <2>3. QED
      BY <1>5, <2>1, <2>2, LastBlock
  <1>9. LastOf(txs') <= scan.to
    <2>1. CASE LastOf(txs') \in txs
      BY <1>3, <1>5, <1>7, <2>1, LastBlock
    <2>2. CASE LastOf(txs') \in scan.found
      BY <1>3, <1>4, <2>2
    <2>3. CASE LastOf(txs') = 0
      BY <1>7, <2>3
    <2>4. QED
      BY <1>1, <1>5, <2>1, <2>2, <2>3, LastBlock
  <1>10. WindowFits'
    BY <1>2, <1>3, <1>7, <1>8, <1>9 DEF WindowFits, At
  <1>11. TradersKnown'
    BY <1>1, <1>2, <1>3 DEF TradersKnown
  <1>12. FoundIsComplete'
    BY <1>1, <1>2, <1>3 DEF FoundIsComplete, At
  <1>13. NothingMissed'
    <2>1. SUFFICES ASSUME NEW b \in Matching, since[TraderOf[b]] # Unknown,
                          since[TraderOf[b]] < b, b <= LastOf(txs')
                   PROVE  b \in txs' \cup lost
      BY <1>1, <1>7 DEF NothingMissed
    <2>2. CASE b <= LastOf(txs)
      BY <1>1, <1>7, <2>1, <2>2 DEF NothingMissed
    <2>3. CASE ~(b <= LastOf(txs))
      <3>1. b \in Nat /\ TraderOf[b] \in Traders
        BY ChainAssumption
      <3>2. b \in Window
        BY <1>3, <1>7, <1>9, <2>1, <2>3, <3>1 DEF Window
      <3>3. TraderOf[b] \in scan.tracked
        BY <1>3, <2>1, <3>1 DEF TradersKnown
      <3>4. b \in Matched
        BY <3>2, <3>3 DEF Matched
      <3>5. QED
        BY <1>1, <1>3, <3>4
    <2>4. QED
      BY <2>2, <2>3
  <1>14. QED
    BY <1>6, <1>10, <1>11, <1>12, <1>13

LEMMA InsertSwapsKeeps == AutoInvariant /\ InsertSwaps => AutoInvariant'
  <1> SUFFICES ASSUME AutoInvariant, InsertSwaps PROVE AutoInvariant'
    OBVIOUS
  <1> USE DEF AutoInvariant
  <1>1. /\ At("insertSwaps")
        /\ scan' = [scan EXCEPT !.pc = "readPools", !.found = {}]
        /\ swaps' = swaps \cup scan.found
        /\ UNCHANGED <<head, traders, pools, txs, since, lost, faults>>
    BY DEF InsertSwaps
  <1>2. scan \in ScanRecord
    BY ScanTyped
  <1>3. /\ scan'.pc = "readPools"
        /\ scan'.from = scan.from /\ scan'.to = scan.to
        /\ scan'.tracked = scan.tracked
        /\ scan'.runsLeft = scan.runsLeft /\ scan'.early = scan.early
    BY <1>1, <1>2 DEF ScanRecord
  <1>4. Matched' = Matched
    BY <1>3 DEF Matched, Window
  <1>5. /\ Matched \subseteq scan.found \cup lost /\ scan.found \subseteq txs
    BY <1>1 DEF FoundIsComplete, At
  <1>6. TypeOK'
    <2>1. scan' \in ScanRecord
      BY <1>1, <1>2 DEF ScanRecord, InWindow, Tracking
    <2>2. swaps' \subseteq txs'
      BY <1>1, <1>5 DEF TypeOK
    <2>3. QED
      BY <1>1, <2>1, <2>2, TypesFollow DEF TypeOK
  <1>7. WindowFits' /\ TradersKnown'
    BY <1>1, <1>3 DEF WindowFits, TradersKnown, At, InWindow, Tracking, LastPersistedBlock
  <1>8. FoundIsComplete'
    BY <1>1, <1>3, <1>4, <1>5 DEF FoundIsComplete, At
  <1>9. NothingMissed'
    BY <1>1, NothingNewIsMissed
  <1>10. QED
    BY <1>6, <1>7, <1>8, <1>9

LEMMA ReadPoolsKeeps == AutoInvariant /\ ReadPools => AutoInvariant'
  <1> SUFFICES ASSUME AutoInvariant, ReadPools PROVE AutoInvariant'
    OBVIOUS
  <1> USE DEF AutoInvariant, tables
  <1>1. /\ At("readPools")
        /\ scan' = [scan EXCEPT !.pc = "persistCompetitors", !.pools = pools]
        /\ UNCHANGED <<head, traders, pools, txs, swaps, since, lost, faults>>
    BY DEF ReadPools
  <1>2. scan \in ScanRecord
    BY ScanTyped
  <1>3. /\ scan'.pc = "persistCompetitors"
        /\ scan'.from = scan.from /\ scan'.to = scan.to
        /\ scan'.tracked = scan.tracked
        /\ scan'.runsLeft = scan.runsLeft /\ scan'.early = scan.early
    BY <1>1, <1>2 DEF ScanRecord
  <1>4. TypeOK'
    <2>1. pools \subseteq Pools
      BY DEF TypeOK
    <2>2. scan' \in ScanRecord
      BY <1>1, <1>2, <2>1 DEF ScanRecord, InWindow, Tracking
    <2>3. QED
      BY <1>1, <2>2, TypesFollow DEF TypeOK
  <1>5. WindowFits' /\ TradersKnown'
    BY <1>1, <1>3 DEF WindowFits, TradersKnown, At, InWindow, Tracking, LastPersistedBlock
  <1>6. FoundIsComplete'
    BY <1>3 DEF FoundIsComplete, At
  <1>7. NothingMissed'
    BY <1>1, NothingNewIsMissed
  <1>8. QED
    BY <1>4, <1>5, <1>6, <1>7

(* A trader that is found now is known from the end of the window on, and  *)
(* nothing above it is stored yet.                                         *)
LEMMA PersistCompetitorsKeeps == AutoInvariant /\ PersistCompetitors => AutoInvariant'
  <1> SUFFICES ASSUME AutoInvariant, PersistCompetitors PROVE AutoInvariant'
    OBVIOUS
  <1> USE DEF AutoInvariant
  <1>1. PICK approved \in SUBSET Competitors :
          /\ traders' = traders \cup approved
          /\ since' = [t \in Traders |->
                         IF t \in approved \ traders THEN scan.to ELSE since[t]]
          /\ scan' = IF scan.runsLeft = 1 THEN Idle
                     ELSE [scan EXCEPT !.pc = "readTraders", !.runsLeft = @ - 1,
                                       !.pools = {}, !.early = @ \cup approved]
    BY DEF PersistCompetitors
  <1>2. /\ At("persistCompetitors")
        /\ UNCHANGED <<head, pools, txs, swaps, lost, faults>>
    BY DEF PersistCompetitors
  <1>3. scan \in ScanRecord
    BY ScanTyped
  <1>4. /\ scan.from <= LastPersistedBlock /\ LastPersistedBlock <= scan.to
        /\ scan.runsLeft >= 1
    BY <1>2 DEF WindowFits, At, InWindow, Tracking
  <1>5. approved \subseteq Traders
    BY ChainAssumption DEF Competitors, Matching
  <1>6. /\ traders' \subseteq Traders /\ since' \in [Traders -> Nat \cup {Unknown}]
        /\ scan.to \in Nat
    BY <1>1, <1>3, <1>5 DEF TypeOK, ScanRecord
  <1>7. \A t \in Traders : since'[t] # Unknown <=> t \in traders'
    BY <1>1, <1>6 DEF TradersKnown, Unknown
  <1>8. NothingMissed'
    <2>1. SUFFICES ASSUME NEW b \in Matching, since'[TraderOf[b]] # Unknown,
                          since'[TraderOf[b]] < b, b <= LastPersistedBlock
                   PROVE  b \in txs \cup lost
      BY <1>2 DEF NothingMissed, LastPersistedBlock
    <2>2. TraderOf[b] \in Traders /\ b \in Nat
      BY ChainAssumption
    <2>3. LastPersistedBlock \in Nat
      BY LastBlock DEF TypeOK, LastPersistedBlock, LastOf
    <2>4. TraderOf[b] \notin approved \ traders
      BY <1>1, <1>4, <1>6, <2>1, <2>2, <2>3
    <2>5. QED
      BY <1>1, <2>1, <2>2, <2>4 DEF NothingMissed
  <1>9. CASE scan.runsLeft = 1
    <2>1. scan' = Idle
      BY <1>1, <1>9
    <2>2. TypeOK'
      BY <1>2, <1>6, <2>1, IdleTyped, TypesFollow DEF TypeOK
    <2>3. WindowFits' /\ TradersKnown' /\ FoundIsComplete'
      BY <1>7, <2>1
         DEF WindowFits, TradersKnown, FoundIsComplete, At, Idle, InWindow, Tracking
    <2>4. QED
      BY <1>8, <2>2, <2>3
  <1>10. CASE scan.runsLeft # 1
    <2>1. scan' = [scan EXCEPT !.pc = "readTraders", !.runsLeft = @ - 1,
                               !.pools = {}, !.early = @ \cup approved]
      BY <1>1, <1>10
    <2>2. /\ scan'.pc = "readTraders"
          /\ scan'.from = scan.from /\ scan'.to = scan.to
          /\ scan'.runsLeft = scan.runsLeft - 1
          /\ scan'.early = scan.early \cup approved
      BY <1>3, <2>1 DEF ScanRecord
    <2>3. scan.runsLeft - 1 \in 1..Runs
      BY <1>3, <1>4, <1>10, RunsAssumption DEF ScanRecord
    <2>4. TypeOK'
      <3>1. /\ scan.runsLeft - 1 \in 0..Runs /\ scan.early \cup approved \in SUBSET Traders
            /\ {} \in SUBSET Pools /\ "readTraders" \in InWindow
        BY <1>3, <1>5, <2>3, RunsAssumption DEF ScanRecord, InWindow
      <3>2. scan' \in ScanRecord
        BY <1>3, <2>1, <3>1 DEF ScanRecord
      <3>3. QED
        BY <1>2, <1>6, <3>2, TypesFollow DEF TypeOK
    <2>5. WindowFits'
      BY <1>2, <1>4, <2>2, <2>3 DEF WindowFits, At, LastPersistedBlock
    <2>6. TradersKnown'
      BY <1>1, <1>7, <2>2 DEF TradersKnown, Tracking
    <2>7. FoundIsComplete'
      BY <2>2 DEF FoundIsComplete, At
    <2>8. QED
      BY <1>8, <2>4, <2>5, <2>6, <2>7
  <1>11. QED
    BY <1>9, <1>10
-----------------------------------------------------------------------------
LEMMA AutoStep == AutoInvariant /\ [Next]_vars => AutoInvariant'
  <1> SUFFICES ASSUME AutoInvariant, [Next]_vars PROVE AutoInvariant'
    OBVIOUS
  <1>1. CASE UNCHANGED vars
    BY <1>1
       DEF AutoInvariant, TypeOK, WindowFits, TradersKnown, FoundIsComplete,
           NothingMissed, At, Matched, Window, LastPersistedBlock, vars, tables
  <1>2. CASE Next
    <2>1. CASE Grow BY <2>1, GrowKeeps
    <2>2. CASE ResolveStart BY <2>2, ResolveStartKeeps
    <2>3. CASE ResolveEnd BY <2>3, ResolveEndKeeps
    <2>4. CASE ReadTraders BY <2>4, ReadTradersKeeps
    <2>5. CASE Discover BY <2>5, DiscoverKeeps
    <2>6. CASE InsertPools BY <2>6, InsertPoolsKeeps
    <2>7. CASE InsertTransactions BY <2>7, InsertTransactionsKeeps
    <2>8. CASE InsertSwaps BY <2>8, InsertSwapsKeeps
    <2>9. CASE ReadPools BY <2>9, ReadPoolsKeeps
    <2>10. CASE PersistCompetitors BY <2>10, PersistCompetitorsKeeps
    <2>11. CASE Fail BY <2>11, FailKeeps
    <2>12. QED
      BY <1>2, <2>1, <2>2, <2>3, <2>4, <2>5, <2>6, <2>7, <2>8, <2>9, <2>10, <2>11
         DEF Next, Step
  <1>3. QED
    BY <1>1, <1>2

(* The invariant the others follow from holds in every state of a scan.    *)
THEOREM AutoInvariance == Spec => []AutoInvariant
  <1>1. QED
    BY AutoInit, AutoStep, PTL DEF Spec

(* The tables hold what they are for, and a scan knows its window, its     *)
(* traders and what it found (the stages of run_scan_sequence).            *)
THEOREM AutoTypes == Spec => []TypeOK
  <1>1. AutoInvariant => TypeOK
    BY DEF AutoInvariant
  <1>2. QED
    BY <1>1, AutoInvariance, PTL

(* The windows of the scheduler leave no gap (resolve_auto_scan_window).   *)
THEOREM NoGap == Spec => []NothingMissed
  <1>1. AutoInvariant => NothingMissed
    BY DEF AutoInvariant
  <1>2. QED
    BY <1>1, AutoInvariance, PTL

(* What one run of a sequence finds the next one scans for                 *)
(* (run_scan_sequence reads the traders again for each run).               *)
THEOREM LaterRunsUseEarlierFinds == Spec => []EarlierFindsAreScanned
  <1>1. AutoInvariant => EarlierFindsAreScanned
    <2>1. SUFFICES ASSUME AutoInvariant, At("readPools"), NEW b \in Matching \cap Window,
                          TraderOf[b] \in scan.early
                   PROVE  b \in swaps \cup lost
      BY DEF EarlierFindsAreScanned
    <2>2. TraderOf[b] \in scan.tracked
      BY <2>1 DEF AutoInvariant, TradersKnown, At, Tracking
    <2>3. b \in Matched
      BY <2>1, <2>2 DEF Matched
    <2>4. QED
      BY <2>1, <2>3 DEF AutoInvariant, FoundIsComplete
  <1>2. QED
    BY <1>1, AutoInvariance, PTL
=============================================================================
