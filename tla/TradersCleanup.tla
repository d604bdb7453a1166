--------------------------- MODULE TradersCleanup ---------------------------
(***************************************************************************)
(* The table of traders and everybody who changes it: the DELETE of        *)
(* TradersCleanupService, the forward scans that store transactions and    *)
(* their traders, and the reverse scans that store competitors.            *)
(*                                                                         *)
(* The DELETE is a mutation.  It is applied some time after it was         *)
(* submitted, its subquery reads the tables of that moment, and rows that  *)
(* were inserted after it was submitted are not touched.                   *)
(*                                                                         *)
(* Abstractions.  Labels are left out.  Of persist_payload only the four   *)
(* statements on transactions and traders are here; TradingPersistence has *)
(* them all.  The subquery reads both tables in one moment.                *)
(***************************************************************************)
EXTENDS Integers, SequencesExt, Orders

CONSTANTS
    Traders, Txs,
    TraderOf,           \* [Txs -> Traders], Transaction.trader_address
    SeedTraders,        \* traders inserted by hand
    Scans,              \* processes that scan
    MinTransactions,    \* EYWA_TRADERS_CLEANUP_MIN_TRANSACTIONS
    MaxScans,           \* bound: scans, forward and reverse
    MaxCleanups         \* bound: runs of the cleanup

ASSUME DataAssumption ==
    /\ IsFiniteSet(Traders) /\ IsFiniteSet(Txs)
    /\ TraderOf \in [Txs -> Traders] /\ SeedTraders \subseteq Traders
ASSUME ThresholdAssumption == MinTransactions \in Nat \ {0}     \* PositiveInt
ASSUME CleanupBounds == MaxScans \in Nat /\ MaxCleanups \in Nat

VARIABLES
    traders,            \* rows of traders, in the order of insertion
    transactions,       \* rows of transactions, each a member of Txs
    deletes,            \* pending mutations: rows of traders when submitted
    cleanup,            \* where _execute_cleanup is
    pc, payload, competitors, seenTxs, seenTraders,     \* of each scan
    scans, cleanups

tables == <<traders, transactions, deletes>>
locals == <<pc, payload, competitors, seenTxs, seenTraders>>
cleanupVars == <<tables, cleanup, locals, scans, cleanups>>

CleanupInit ==
    /\ traders = SetToSeq(SeedTraders)
    /\ transactions = <<>> /\ deletes = <<>>
    /\ cleanup = "idle"
    /\ pc = [p \in Scans |-> "idle"]
    /\ payload = [p \in Scans |-> {}]
    /\ competitors = [p \in Scans |-> {}]
    /\ seenTxs = [p \in Scans |-> {}]
    /\ seenTraders = [p \in Scans |-> {}]
    /\ scans = 0 /\ cleanups = 0

Rows(table, key(_), value) == Cardinality({i \in DOMAIN table : key(table[i]) = value})
TraderRows(t) == Rows(traders, LAMBDA x : x, t)
TransactionRows(t) == Rows(transactions, LAMBDA x : TraderOf[x], t)
-----------------------------------------------------------------------------
(* The cleanup (_execute_cleanup, _candidate_select).                      *)

(* count(tx.trader_address) of the group of t.  The columns of the right   *)
(* side of a LEFT JOIN without a match are '' and not NULL                 *)
(* (join_use_nulls is off), and count counts them.                         *)
JoinedRows(t) ==
    IF TransactionRows(t) = 0 THEN TraderRows(t)
    ELSE TraderRows(t) * TransactionRows(t)

(* Faults: an INNER JOIN; HAVING with <=.                                  *)
InnerJoinCandidates ==
    {t \in Range(traders) : TransactionRows(t) > 0 /\ JoinedRows(t) < MinTransactions}
CandidatesUpTo == {t \in Range(traders) : JoinedRows(t) <= MinTransactions}

Candidates == {t \in Range(traders) : JoinedRows(t) < MinTransactions}

CountCandidates ==
    /\ cleanup = "idle" /\ cleanup' = "submit"
    /\ cleanups < MaxCleanups /\ cleanups' = cleanups + 1
    /\ UNCHANGED <<tables, locals, scans>>

SubmitDelete ==
    /\ cleanup = "submit" /\ cleanup' = "idle"
    /\ deletes' = Append(deletes, Len(traders))
    /\ UNCHANGED <<traders, transactions, locals, scans, cleanups>>

FailCleanup ==
    /\ cleanup = "submit" /\ cleanup' = "idle"
    /\ UNCHANGED <<tables, locals, scans, cleanups>>

ApplyDelete ==
    LET upto == Head(deletes)
        kept == {i \in 1..upto : traders[i] \notin Candidates}
        gone == upto - Cardinality(kept)
    IN
    /\ deletes # <<>>
    /\ traders' = RowsAt(traders, kept) \o SubSeq(traders, upto + 1, Len(traders))
    /\ deletes' = [i \in 1..(Len(deletes) - 1) |-> deletes[i + 1] - gone]
    /\ UNCHANGED <<transactions, cleanup, locals, scans, cleanups>>
-----------------------------------------------------------------------------
(* The scans.  A scan needs a tracked trader (build_scan_request); the     *)
(* trader of a transaction it finds is a tracked one or the contract that  *)
(* the transaction was sent to.                                            *)
Advance(p, a, b) == pc[p] = a /\ pc' = [pc EXCEPT ![p] = b]

StartForward(p) ==
    /\ scans < MaxScans /\ scans' = scans + 1
    /\ traders # <<>>
    /\ Advance(p, "idle", "selectTransactions")
    /\ \E new \in SUBSET Txs \ {{}} : payload' = [payload EXCEPT ![p] = new]
    /\ UNCHANGED <<tables, cleanup, competitors, seenTxs, seenTraders, cleanups>>

SelectTransactions(p) ==
    /\ Advance(p, "selectTransactions", "selectTraders")
    /\ seenTxs' = [seenTxs EXCEPT ![p] = payload[p] \cap Range(transactions)]
    /\ UNCHANGED <<tables, cleanup, payload, competitors, seenTraders, scans, cleanups>>

NewTransactions(p) == payload[p] \ seenTxs[p]
TradersOf(set) == {TraderOf[x] : x \in set}

(* Only the traders of new transactions are looked up and inserted.        *)
SelectTraders(p) ==
    /\ Advance(p, "selectTraders", "insertTraders")
    /\ seenTraders' = [seenTraders EXCEPT ![p] =
                         TradersOf(NewTransactions(p)) \cap Range(traders)]
    /\ UNCHANGED <<tables, cleanup, payload, competitors, seenTxs, scans, cleanups>>

(* Fault: the wrong column.                                                *)
InsertHashes(p) ==
    /\ Advance(p, "insertTraders", "insertTransactions")
    /\ traders' = traders \o SetToSeq(NewTransactions(p))
    /\ UNCHANGED <<transactions, deletes, cleanup, payload, competitors,
                   seenTxs, seenTraders, scans, cleanups>>

InsertTraders(p) ==
    /\ Advance(p, "insertTraders", "insertTransactions")
    /\ traders' = traders \o SetToSeq(TradersOf(NewTransactions(p)) \ seenTraders[p])
    /\ UNCHANGED <<transactions, deletes, cleanup, payload, competitors,
                   seenTxs, seenTraders, scans, cleanups>>

InsertTransactions(p) ==
    /\ Advance(p, "insertTransactions", "idle")
    /\ transactions' = transactions \o SetToSeq(NewTransactions(p))
    /\ UNCHANGED <<traders, deletes, cleanup, payload, competitors,
                   seenTxs, seenTraders, scans, cleanups>>

StartReverse(p) ==
    /\ scans < MaxScans /\ scans' = scans + 1
    /\ Advance(p, "idle", "selectCompetitors")
    /\ \E new \in SUBSET Traders \ {{}} : competitors' = [competitors EXCEPT ![p] = new]
    /\ UNCHANGED <<tables, cleanup, payload, seenTxs, seenTraders, cleanups>>

SelectCompetitors(p) ==
    /\ Advance(p, "selectCompetitors", "insertCompetitors")
    /\ seenTraders' = [seenTraders EXCEPT ![p] = competitors[p] \cap Range(traders)]
    /\ UNCHANGED <<tables, cleanup, payload, competitors, seenTxs, scans, cleanups>>

InsertCompetitors(p) ==
    /\ Advance(p, "insertCompetitors", "idle")
    /\ traders' = traders \o SetToSeq(competitors[p] \ seenTraders[p])
    /\ UNCHANGED <<transactions, deletes, cleanup, payload, competitors,
                   seenTxs, seenTraders, scans, cleanups>>

Fail(p) ==
    /\ pc[p] # "idle"
    /\ pc' = [pc EXCEPT ![p] = "idle"]
    /\ UNCHANGED <<tables, cleanup, payload, competitors, seenTxs, seenTraders,
                   scans, cleanups>>

Step(p) ==
    \/ StartForward(p) \/ SelectTransactions(p) \/ SelectTraders(p)
    \/ InsertTraders(p) \/ InsertTransactions(p)
    \/ StartReverse(p) \/ SelectCompetitors(p) \/ InsertCompetitors(p)
    \/ Fail(p)

CleanupNext ==
    \/ CountCandidates \/ SubmitDelete \/ FailCleanup \/ ApplyDelete
    \/ \E p \in Scans : Step(p)

CleanupSpec == CleanupInit /\ [][CleanupNext]_cleanupVars
-----------------------------------------------------------------------------
(* The shape of the state.                                                 *)
Steps == {"idle", "selectTransactions", "selectTraders", "insertTraders",
          "insertTransactions", "selectCompetitors", "insertCompetitors"}

(* A pending mutation never covers more rows than there are, and a later   *)
(* one never fewer than an earlier one.                                    *)
CleanupTypeOK ==
    /\ traders \in Seq(Traders) /\ transactions \in Seq(Txs)
    /\ deletes \in Seq(0..Len(traders))
    /\ \A i, j \in DOMAIN deletes : i < j => deletes[i] <= deletes[j]
    /\ cleanup \in {"idle", "submit"}
    /\ pc \in [Scans -> Steps]
    /\ payload \in [Scans -> SUBSET Txs]
    /\ competitors \in [Scans -> SUBSET Traders]
    /\ seenTxs \in [Scans -> SUBSET Txs]
    /\ seenTraders \in [Scans -> SUBSET Traders]
    /\ scans \in 0..MaxScans /\ cleanups \in 0..MaxCleanups

Tracked(t) == t \in Range(traders)
StoredTransactions(t) == Cardinality({x \in Range(transactions) : TraderOf[x] = t})

(* A trader that has enough transactions is never removed, although the    *)
(* cleanup counted long before the mutation is applied, and however often  *)
(* its row or its transactions were stored.                                *)
ActiveTradersStay ==
    [][\A t \in Traders :
          Tracked(t) /\ StoredTransactions(t) >= MinTransactions => Tracked(t)']_cleanupVars

Unrepeated(t) == TraderRows(t) = 1 /\ TransactionRows(t) = StoredTransactions(t)

(* When a mutation is applied, every trader with too few transactions goes *)
(* that was there when it was submitted, traders without a transaction     *)
(* included ("LEFT JOIN").  A trader that two scans inserted counts twice, *)
(* and so does a transaction.                                              *)
InactiveTradersGo ==
    [][\A t \in Traders :
          Len(deletes') < Len(deletes) /\ Unrepeated(t) /\ StoredTransactions(t) < MinTransactions
             => \A i \in 1..(Len(traders') - (Len(traders) - Head(deletes))) :
                   traders'[i] # t]_cleanupVars
=============================================================================
