------------------------------ MODULE AutoScan ------------------------------
(***************************************************************************)
(* The scan sequences the scheduler starts (ScanOrchestratorService): the  *)
(* window goes from the highest stored block to the head of the chain, and *)
(* one cron time runs the forward and the reverse scan Runs times over it. *)
(*                                                                         *)
(* Abstractions.  A block has at most one transaction of interest, named   *)
(* by its number; each has one trader and swaps in one pool.  Storing a    *)
(* payload is three statements in the order of TradingPersistence, which   *)
(* has the details.  Which contracts the reverse scan approves is left     *)
(* open; it only finds traders that used a stored pool inside the window.  *)
(* Scans somebody starts from the command line are left out.               *)
(***************************************************************************)
EXTENDS Integers, FiniteSetsExt, Functions

CONSTANTS
    Traders, Pools,
    FirstHead, MaxHead, \* the head of the chain in the beginning; bound
    TraderOf, PoolOf,   \* of the blocks with a transaction of interest
    SeedTraders,        \* traders inserted by hand
    StartBlock,         \* EYWA_START_BLOCK
    Runs,               \* EYWA_SCHEDULER_RUNS
    MaxFaults           \* bound: scans that fail or miss receipts, heads that
                        \* lag

Matching == DOMAIN TraderOf

ASSUME ChainAssumption ==
    /\ FirstHead \in Nat /\ MaxHead \in Nat /\ StartBlock \in Nat
    /\ FirstHead <= MaxHead
    /\ Matching \subseteq 1..MaxHead
    /\ TraderOf \in [Matching -> Traders]
    /\ PoolOf \in [Matching -> Pools]
ASSUME SeedAssumption == SeedTraders \subseteq Traders
ASSUME RunsAssumption == Runs \in Nat \ {0}
ASSUME BoundsAssumption == MaxFaults \in Nat

VARIABLES
    head,               \* the highest block of the chain
    traders, pools, txs, swaps,     \* what the tables hold
    scan,               \* where the worker's scan is, and its locals
    since,              \* auxiliary: end of the window a trader was found in
    lost,               \* auxiliary: transactions whose receipt some scan missed
    faults

tables == <<traders, pools, txs, swaps>>
vars == <<head, tables, scan, since, lost, faults>>

Unknown == -1           \* since[t] of a trader that is not stored

(* tracked: the traders of the ScanRequest; found: the blocks of the       *)
(* payload; pools: those of the ReverseScanRequest; early: auxiliary, the  *)
(* traders found by earlier runs of the sequence.                          *)
Idle == [pc |-> "idle", from |-> 0, to |-> 0, tracked |-> {}, found |-> {},
         pools |-> {}, runsLeft |-> 0, early |-> {}]

Init ==
    /\ head = FirstHead
    /\ traders = SeedTraders
    /\ pools = {} /\ txs = {} /\ swaps = {}
    /\ scan = Idle
    /\ since = [t \in Traders |-> IF t \in SeedTraders THEN 0 ELSE Unknown]
    /\ lost = {} /\ faults = 0

At(label) == scan.pc = label
Fault == faults < MaxFaults /\ faults' = faults + 1
-----------------------------------------------------------------------------
(* The window (resolve_auto_scan_window).                                  *)
None == -1

(* max(block_number) of an empty table is 0 in ClickHouse, not NULL: the   *)
(* column is not Nullable and aggregate_functions_null_for_empty is off.   *)
LastPersistedBlock == IF txs = {} THEN 0 ELSE Max(txs)

(* Fault: the block after the last one.                                    *)
BlockAfterLast == IF txs = {} THEN StartBlock ELSE LastPersistedBlock + 1

AutoStartBlock ==
    IF LastPersistedBlock = None THEN StartBlock ELSE LastPersistedBlock

ResolveStart ==
    /\ At("idle")
    /\ scan' = [scan EXCEPT !.pc = "resolveEnd", !.from = AutoStartBlock]
    /\ UNCHANGED <<head, tables, since, lost, faults>>

Begin(a, b) ==
    scan' = [Idle EXCEPT !.pc = "readTraders", !.from = a, !.to = b, !.runsLeft = Runs]

(* Fault: windows of two blocks.                                           *)
ResolveShortEnd ==
    /\ At("resolveEnd")
    /\ Begin(scan.from, Min({head, scan.from + 1}))
    /\ UNCHANGED <<head, tables, since, lost, faults>>

(* A node that lags behind may answer; a window that ends before it starts *)
(* is an error, and the cron time is lost.                                 *)
ResolveEnd ==
    /\ At("resolveEnd")
    /\ \E end \in {head, head - 1} :
         /\ IF end = head THEN UNCHANGED faults ELSE head > 0 /\ Fault
         /\ IF end < scan.from
            THEN scan' = Idle
            ELSE Begin(scan.from, end)
    /\ UNCHANGED <<head, tables, since, lost>>
-----------------------------------------------------------------------------
(* The forward scan (build_scan_request, run_scan).                        *)
Window == scan.from..scan.to

(* Fault: the traders are read once for all runs.                          *)
ReadTradersOnce ==
    /\ At("readTraders")
    /\ scan' = [scan EXCEPT !.pc = "discover",
                            !.tracked = IF scan.runsLeft = Runs THEN traders ELSE @]
    /\ UNCHANGED <<head, tables, since, lost, faults>>

(* Without a trader to track the scan fails.                               *)
ReadTraders ==
    /\ At("readTraders")
    /\ scan' = IF traders = {} THEN Idle
               ELSE [scan EXCEPT !.pc = "discover", !.tracked = traders]
    /\ UNCHANGED <<head, tables, since, lost, faults>>

(* collect_tx_contexts fails as a whole when a range fails (that is Fail), *)
(* so what it returns is complete.  A receipt that cannot be read, or a    *)
(* batch that stays without an answer, is left out silently.  Without a    *)
(* swap nothing is stored, and the reverse scan follows all the same.      *)
Matched == {b \in Matching \cap Window : TraderOf[b] \in scan.tracked}

Found(new) ==
    scan' = [scan EXCEPT !.pc = IF new = {} THEN "readPools" ELSE "insertPools",
                         !.found = new]

(* Fault: a range that fails is left out instead of failing the scan.      *)
DiscoverWhatAnswers ==
    /\ At("discover")
    /\ \E new \in SUBSET Matched : Found(new)
    /\ UNCHANGED <<head, tables, since, lost, faults>>

Discover ==
    /\ At("discover")
    /\ \E missing \in SUBSET Matched :
         /\ IF missing = {} THEN UNCHANGED faults ELSE Fault
         /\ lost' = lost \cup missing
         /\ Found(Matched \ missing)
    /\ UNCHANGED <<head, tables, since>>

InsertPools ==
    /\ At("insertPools")
    /\ scan' = [scan EXCEPT !.pc = "insertTransactions"]
    /\ pools' = pools \cup {PoolOf[b] : b \in scan.found}
    /\ UNCHANGED <<head, traders, txs, swaps, since, lost, faults>>

InsertTransactions ==
    /\ At("insertTransactions")
    /\ scan' = [scan EXCEPT !.pc = "insertSwaps"]
    /\ txs' = txs \cup scan.found
    /\ UNCHANGED <<head, traders, pools, swaps, since, lost, faults>>

InsertSwaps ==
    /\ At("insertSwaps")
    /\ scan' = [scan EXCEPT !.pc = "readPools", !.found = {}]
    /\ swaps' = swaps \cup scan.found
    /\ UNCHANGED <<head, traders, pools, txs, since, lost, faults>>
-----------------------------------------------------------------------------
(* The reverse scan over the same window, and the next run.                *)
ReadPools ==
    /\ At("readPools")
    /\ scan' = [scan EXCEPT !.pc = "persistCompetitors", !.pools = pools]
    /\ UNCHANGED <<head, tables, since, lost, faults>>

Competitors ==
    {TraderOf[b] : b \in {c \in Matching \cap Window : PoolOf[c] \in scan.pools}}
        \ scan.tracked

(* Fault: one run too many.                                                *)
PersistAndRunAgain ==
    /\ At("persistCompetitors")
    /\ scan' = IF scan.runsLeft < 0 THEN Idle
               ELSE [scan EXCEPT !.pc = "readTraders", !.runsLeft = @ - 1]
    /\ UNCHANGED <<head, tables, since, lost, faults>>

PersistCompetitors ==
    /\ At("persistCompetitors")
    /\ \E approved \in SUBSET Competitors :
         /\ traders' = traders \cup approved
         /\ since' = [t \in Traders |->
                        IF t \in approved \ traders THEN scan.to ELSE since[t]]
         /\ scan' = IF scan.runsLeft = 1 THEN Idle
                    ELSE [scan EXCEPT !.pc = "readTraders", !.runsLeft = @ - 1,
                                      !.pools = {},
                                      !.early = @ \cup approved]
    /\ UNCHANGED <<head, pools, txs, swaps, lost, faults>>
-----------------------------------------------------------------------------
(* An exception of any stage, or the end of the process.                   *)
Fail ==
    /\ ~At("idle") /\ Fault
    /\ scan' = Idle
    /\ UNCHANGED <<head, tables, since, lost>>

Grow ==
    /\ head < MaxHead /\ head' = head + 1
    /\ UNCHANGED <<tables, scan, since, lost, faults>>

Step ==
    \/ ResolveStart \/ ResolveEnd
    \/ ReadTraders \/ Discover
    \/ InsertPools \/ InsertTransactions \/ InsertSwaps
    \/ ReadPools \/ PersistCompetitors

Next == Grow \/ Step \/ Fail

(* The chain grows, the cron times come (CronJobs) and a scan that began   *)
(* goes on.                                                                *)
Fairness == WF_vars(Grow) /\ WF_vars(Step)

Spec == Init /\ [][Next]_vars /\ Fairness
-----------------------------------------------------------------------------
(* The shape of the state.                                                 *)
TypeOK ==
    /\ head \in FirstHead..MaxHead
    /\ traders \subseteq Traders /\ pools \subseteq Pools
    /\ txs \subseteq Matching /\ swaps \subseteq txs
    /\ scan \in
         [pc : {"idle", "resolveEnd", "readTraders", "discover", "insertPools",
                "insertTransactions", "insertSwaps", "readPools",
                "persistCompetitors"},
          from : Nat, to : Nat, tracked : SUBSET Traders, found : SUBSET Matching,
          pools : SUBSET Pools, runsLeft : 0..Runs, early : SUBSET Traders]
    /\ since \in [Traders -> Nat \cup {Unknown}]
    /\ lost \subseteq Matching
    /\ faults \in 0..MaxFaults

(* The scheduler leaves no gap: below the highest stored block every       *)
(* transaction of a trader is stored that is younger than the window in    *)
(* which the trader was found, although the next window is computed from   *)
(* the stored blocks alone, scans fail anywhere and nodes lag; only a lost *)
(* receipt is never asked for again.                                       *)
NothingMissed ==
    \A b \in Matching :
        LET known == since[TraderOf[b]] IN
        known # Unknown /\ known < b /\ b <= LastPersistedBlock
            => b \in txs \cup lost

(* What one run of a sequence finds the next one uses: after the forward   *)
(* scan of a later run every transaction inside the window of a trader     *)
(* found by an earlier one is stored (the point of EYWA_SCHEDULER_RUNS).   *)
EarlierFindsAreScanned ==
    At("readPools") =>
        \A b \in Matching \cap Window :
            TraderOf[b] \in scan.early => b \in swaps \cup lost

(* Every transaction of a seed trader whose receipt is there is stored in  *)
(* the end.                                                                *)
CaughtUp ==
    \A b \in Matching : TraderOf[b] \in SeedTraders => <>(b \in txs \cup lost)

(* A scan that stopped between the transactions and the swaps is repaired  *)
(* by the next one for the newest block, because the window includes the   *)
(* block it starts from.  (For older blocks of that window it is not.)     *)
NewestGetsItsSwaps == <>[](txs # {} => LastPersistedBlock \in swaps \cup lost)

(* README.md: "EYWA_START_BLOCK is the fallback for the first automatic    *)
(* start of the scheduler, if the database has no stored transactions".    *)
FirstScanStartsAtStartBlock ==
    [][At("idle") /\ At("resolveEnd")' /\ txs = {} => scan'.from = StartBlock]_vars
=============================================================================
