----------------------------- MODULE ReverseScan -----------------------------
(***************************************************************************)
(* The stages of a scan after the traces: the request it was made for, the *)
(* receipts (ReceiptCollectionService, batch_resolve), and for a reverse   *)
(* scan the competitors of the pools and the heuristics that approve them  *)
(* (ReverseSearchService, ReverseCandidateScoringService).                 *)
(*                                                                         *)
(* Abstractions.  The enrichment of the swaps gives some amount in USD to  *)
(* each swap or none.  What the node answers is a choice.  Scores are      *)
(* logged, and left out otherwise.                                         *)
(***************************************************************************)
EXTENDS TraceDiscovery, Orders

CONSTANTS
    ReceiptBatch,       \* EYWA_RECEIPT_BATCH_SIZE
    Settings,           \* supports_batch_requests and the settings
                        \* EYWA_REVERSE_HEURISTICS_* to be tried
    Pricings            \* amounts in USD the enrichment may give to the swaps

(* The hashes are ordered; a block has finitely many swaps; a reverse scan *)
(* looks at calls to its pools.                                            *)
ASSUME TransactionsAssumption ==
    \A b \in Blocks : \A i \in DOMAIN Chain[b] :
        /\ Chain[b][i].hash \in Int
        /\ IsFiniteSet(Chain[b][i].frames) /\ IsFiniteSet(Chain[b][i].swaps)
(* Amounts, weights and minima are not negative (NonNegativeInt,           *)
(* NonNegativeDecimal).                                                    *)
Signals == {"top_level_match_count", "raw_tx_count", "raw_pool_count",
            "matched_swap_count", "priced_swap_count", "total_usd_volume",
            "max_swap_usd"}
ASSUME HeuristicsAssumption ==
    /\ \A s \in Settings :
         s.weight \in [Signals -> Nat] /\ s.min \in [Signals -> Nat] /\ s.pass \in Nat
    /\ \A prices \in Pricings : \A b \in Blocks : \A i \in DOMAIN Chain[b] :
         \A s \in Chain[b][i].swaps : prices[s] \in Nat \cup {None}
ASSUME ReverseAssumption ==
    /\ ReceiptBatch \in Nat \ {0}
    /\ \A r \in Requests :
         r.kind \in {"forward", "reverse"} /\ (r.kind = "reverse" => r.role = "to")

VARIABLES
    settings,
    stage,              \* "discovery", "receipts", "done" or "raised"
    toAsk,              \* hashes not yet in a batch
    unresolved,         \* hashes to be asked for one by one
    receipts,           \* hashes whose receipt is known
    silent,             \* auxiliary: hashes that were asked for alone in vain
    usd,                \* amounts in USD of the swaps
    result              \* what the scan returns

stageVars == <<settings, stage, toAsk, unresolved, receipts, silent, usd, result>>
scanVars == <<discoveryVars, stageVars>>
-----------------------------------------------------------------------------
(* The requests.  A forward scan looks for its traders, a reverse scan for *)
(* the pools the forward scan found, those of the database, or both.       *)
ForwardRequest(first, last, traders, role) ==
    [kind |-> "forward", start |-> first, end |-> last, addresses |-> traders,
     role |-> role, excluded |-> {}, excludedBy |-> {}]

(* _resolve_reverse_pool_addresses *)
ReversePools(source, direct, stored) ==
    (IF source \in {"forward", "mixed"} THEN direct ELSE {})
    \cup (IF source \in {"database", "mixed"} THEN stored ELSE {})

(* _build_reverse_scan_request: the traders of the forward scan are known. *)
SequenceRequest(forward, pools) ==
    [forward EXCEPT !.kind = "reverse", !.addresses = pools, !.role = "to",
                    !.excluded = forward.addresses]

(* load_pool_competitors, _build_database_reverse_scan_request: the        *)
(* traders with a stored swap on a pool are known for that pool.           *)
DatabaseRequest(first, last, pools, storedSwaps) ==
    [kind |-> "reverse", start |-> first, end |-> last,
     addresses |-> pools \cup {s.pool : s \in storedSwaps},
     role |-> "to", excluded |-> {}, excludedBy |-> storedSwaps]
-----------------------------------------------------------------------------
(* collect_tx_contexts: the traders each transaction was found for.        *)
TxContexts ==
    [h \in {t.hash : t \in traces} |->
        {a \in request.addresses :
            \E t \in traces : t.hash = h /\ a = (IF request.role = "to" THEN t.to ELSE t.from)}]

(* collect_pool_competition: who is no competitor on a pool.               *)
Excluded(competitor, pool) ==
    \/ competitor = None
    \/ competitor = pool
    \/ competitor \in request.excluded
    \/ [pool |-> pool, trader |-> competitor] \in request.excludedBy

CompetitionMatches ==
    {[pool |-> t.to, competitor |-> t.from, hash |-> t.hash] :
        t \in {u \in traces : ~Excluded(u.from, u.to)}}
Competitors == {match.competitor : match \in CompetitionMatches}
CompetitorsOf(pool) == {match.competitor : match \in {x \in CompetitionMatches : x.pool = pool}}
HashesOf(pool) == {match.hash : match \in {x \in CompetitionMatches : x.pool = pool}}

(* _build_candidate_evidence *)
Evidence(c) == {match \in CompetitionMatches : match.competitor = c}

TransactionOf(hash) ==
    CHOOSE tx \in UNION {Range(Chain[b]) : b \in Blocks} : tx.hash = hash

(* _collect_candidate_events: the swaps on the pools a candidate called,   *)
(* in the transactions it called them in, as far as receipts are known.    *)
CandidateSwaps(c, known) ==
    UNION {{s \in TransactionOf(match.hash).swaps : s.pool = match.pool} :
             match \in {x \in Evidence(c) : x.hash \in known}}

(* Fault: a transaction without a receipt counts as sent by the candidate. *)
TopLevelOrUnknown(c, known) ==
    {h \in {match.hash : match \in Evidence(c)} :
        \/ h \notin known
        \/ (IF settings.topLevel = "to" THEN TransactionOf(h).to
            ELSE TransactionOf(h).from) = c}

(* _count_top_level_matches *)
TopLevelMatches(c, known) ==
    {h \in {match.hash : match \in Evidence(c)} \cap known :
        (IF settings.topLevel = "to" THEN TransactionOf(h).to
         ELSE TransactionOf(h).from) = c}

Amount(s, prices) == IF prices[s] = None THEN 0 ELSE prices[s]

(* _evaluate_candidate *)
Metrics(c, known, prices) ==
    LET swaps == CandidateSwaps(c, known) IN
    [top_level_match_count |->
        IF settings.topLevel = "off" THEN 0 ELSE Cardinality(TopLevelMatches(c, known)),
     raw_tx_count |-> Cardinality({match.hash : match \in Evidence(c)}),
     raw_pool_count |-> Cardinality({match.pool : match \in Evidence(c)}),
     matched_swap_count |-> Cardinality(swaps),
     priced_swap_count |-> Cardinality({s \in swaps : prices[s] # None}),
     total_usd_volume |-> MapThenSumSet(LAMBDA s : Amount(s, prices), swaps),
     max_swap_usd |-> Max({0} \cup {Amount(s, prices) : s \in swaps})]

(* _build_score_breakdown: a component without a weight is disabled.       *)
Enabled(name) ==
    /\ settings.weight[name] > 0
    /\ name = "top_level_match_count" => settings.topLevel # "off"

Score(metrics) ==
    MapThenSumSet(LAMBDA name : settings.weight[name],
                  {name \in Signals :
                      Enabled(name) /\ metrics[name] >= settings.min[name]})

Approved(known, prices) ==
    {c \in Competitors : Score(Metrics(c, known, prices)) >= settings.pass}

(* Fault: the competitors of a pool are not filtered.                      *)
UnfilteredResult(approved) ==
    [pools |-> [p \in request.addresses |->
        [competitors |-> CompetitorsOf(p), rejected |-> 0, hashes |-> HashesOf(p)]],
     discovered |-> Cardinality(Competitors), approved |-> Cardinality(approved),
     rejected |-> Cardinality(Competitors) - Cardinality(approved)]

(* _build_result *)
ReverseResult(approved) ==
    [pools |-> [p \in request.addresses |->
        [competitors |-> CompetitorsOf(p) \cap approved,
         rejected |-> Cardinality(CompetitorsOf(p)) - Cardinality(CompetitorsOf(p) \cap approved),
         hashes |-> HashesOf(p)]],
     discovered |-> Cardinality(Competitors), approved |-> Cardinality(approved),
     rejected |-> Cardinality(Competitors) - Cardinality(approved)]

(* _persist_reverse_competitors *)
Persisted == UNION {result.pools[p].competitors : p \in DOMAIN result.pools}
-----------------------------------------------------------------------------
ScanInit ==
    /\ DiscoveryInit
    /\ settings \in Settings
    /\ stage = "discovery"
    /\ toAsk = <<>> /\ unresolved = {} /\ receipts = {} /\ silent = {}
    /\ usd = <<>>
    /\ result = None

(* What receipts are asked for.                                            *)
Wanted ==
    IF request.kind = "forward" THEN DOMAIN TxContexts
    ELSE {match.hash : match \in CompetitionMatches}

Discovered == stage = "discovery" /\ phase = "traced"

(* run_scan and apply_heuristics return early.                             *)
NothingFound ==
    /\ Discovered /\ Wanted = {}
    /\ stage' = "done"
    /\ result' = IF request.kind = "forward" THEN TxContexts ELSE ReverseResult({})
    /\ UNCHANGED <<discoveryVars, settings, toAsk, unresolved, receipts,
                   silent, usd>>

HeuristicsDisabled ==
    /\ Discovered /\ Wanted # {}
    /\ request.kind = "reverse" /\ ~settings.enabled
    /\ stage' = "done"
    /\ result' = ReverseResult(Competitors)
    /\ UNCHANGED <<discoveryVars, settings, toAsk, unresolved, receipts,
                   silent, usd>>

(* collect_receipts *)
CollectReceipts ==
    /\ Discovered /\ Wanted # {}
    /\ request.kind = "reverse" => settings.enabled
    /\ stage' = "receipts"
    /\ toAsk' = IF settings.batching THEN InOrder(Wanted) ELSE <<>>
    /\ unresolved' = IF settings.batching THEN {} ELSE Wanted
    /\ UNCHANGED <<discoveryVars, settings, receipts, silent, usd, result>>

Collecting == stage = "receipts"
BatchLength == Min({ReceiptBatch, Len(toAsk)})

(* Fault: what a batch did not answer is not asked for again.              *)
GiveUpUnanswered(batch, answered) == UNCHANGED unresolved
Unanswered(batch, answered) == unresolved' = unresolved \cup (batch \ answered)

(* get_transaction_receipts_batch: some of the answers are receipts.       *)
BatchReply ==
    /\ Collecting /\ toAsk # <<>>
    /\ LET batch == Range(SubSeq(toAsk, 1, BatchLength)) IN
       \E answered \in SUBSET batch :
         /\ receipts' = receipts \cup answered
         /\ Unanswered(batch, answered)
    /\ toAsk' = SubSeq(toAsk, BatchLength + 1, Len(toAsk))
    /\ UNCHANGED <<discoveryVars, settings, stage, silent, usd, result>>

(* make_batch_request raises, for any HTTP status that is not transient,   *)
(* or a request alone after an error that get_transaction_receipt does not *)
(* swallow.                                                                *)
ReceiptsRaise ==
    /\ Collecting /\ (toAsk # <<>> \/ unresolved # {})
    /\ stage' = "raised"
    /\ UNCHANGED <<discoveryVars, settings, toAsk, unresolved, receipts,
                   silent, usd, result>>

(* get_transaction_receipt: an RpcError or a ValueError is None.           *)
AskAlone(h) ==
    /\ Collecting /\ toAsk = <<>> /\ h \in unresolved
    /\ unresolved' = unresolved \ {h}
    /\ \/ receipts' = receipts \cup {h} /\ UNCHANGED silent
       \/ silent' = silent \cup {h} /\ UNCHANGED receipts
    /\ UNCHANGED <<discoveryVars, settings, stage, toAsk, usd, result>>

Collected == Collecting /\ toAsk = <<>> /\ unresolved = {}

ForwardReceipts ==
    /\ Collected /\ request.kind = "forward"
    /\ stage' = "done"
    /\ result' = TxContexts
    /\ UNCHANGED <<discoveryVars, settings, toAsk, unresolved, receipts,
                   silent, usd>>

ApplyHeuristics ==
    /\ Collected /\ request.kind = "reverse"
    /\ stage' = "done"
    /\ \E prices \in Pricings : \E approved \in {Approved(receipts, prices)} :
         /\ usd' = prices
         /\ result' = ReverseResult(approved)
    /\ UNCHANGED <<discoveryVars, settings, toAsk, unresolved, receipts, silent>>

StageStep ==
    \/ NothingFound \/ HeuristicsDisabled \/ CollectReceipts
    \/ BatchReply \/ ForwardReceipts \/ ApplyHeuristics
    \/ \E h \in unresolved : AskAlone(h)

ScanNext == (DiscoveryNext /\ UNCHANGED stageVars) \/ StageStep \/ ReceiptsRaise

(* The event loop runs what is ready: the scan, and each of its tasks once *)
(* its request was answered or timed out.                                  *)
ScanSpec ==
    /\ ScanInit /\ [][ScanNext]_scanVars
    /\ WF_scanVars(ScanStep /\ UNCHANGED stageVars)
    /\ \A b \in Blocks : WF_scanVars(TaskStep(b) /\ UNCHANGED stageVars)
    /\ WF_scanVars(StageStep)
-----------------------------------------------------------------------------
(* The state has its type: nothing is found outside the window, a receipt  *)
(* is only known for a transaction that was asked for.                     *)
ScanTypeOK ==
    /\ request \in Requests /\ client \in Clients /\ settings \in Settings
    /\ phase \in {"tracing", "traced", "raised"}
    /\ chunk \in request.start..(request.end + 1)
    /\ task \in [Blocks -> {"none", "waiting", "tracing", "mapping", "returned",
                            "raised", "cancelled"}]
    /\ attempt \in [Blocks -> 0..(Retries - 1)]
    /\ \A b \in Blocks : entries[b] # <<>> => task[b] \in {"mapping", "cancelled"}
    /\ asked \subseteq request.addresses
    /\ failed \subseteq request.start..request.end
    /\ lost \subseteq Sought(Window, request.addresses)
    /\ stage \in {"discovery", "receipts", "done", "raised"}
    /\ receipts \cup silent \cup unresolved \cup Range(toAsk) \subseteq Wanted

(* Every transaction that was found has its receipt in the end, unless it  *)
(* was asked for on its own in vain: what a batch leaves open, for whatever*)
(* reason, gets a second chance ("Items that are missing from batch results*)
(* ... are retried individually", batch_resolve).                          *)
ReceiptsAskedAgain ==
    stage = "done" /\ (request.kind = "reverse" => settings.enabled) =>
        Wanted = receipts \cup silent

(* A receipt that could not be read may cost a competitor its approval but *)
(* never gives one: whoever is approved would be with all the receipts and *)
(* the same prices.                                                        *)
LostReceiptsOnlyReject ==
    stage = "done" /\ request.kind = "reverse" /\ usd # <<>> =>
        Persisted \subseteq Approved(Wanted, usd)

(* The summary is about what is persisted ("only approved competitors are  *)
(* stored in traders; discovered, approved and rejected are shown          *)
(* separately", README, step 9): the addresses over all pools are the      *)
(* approved ones, each called one of its pools in the window, and nobody   *)
(* the request knew for a pool appears there.                              *)
SummaryMatchesTraders ==
    stage = "done" /\ request.kind = "reverse" =>
        /\ Cardinality(Persisted) = result.approved
        /\ result.approved + result.rejected = result.discovered
        /\ \A p \in DOMAIN result.pools : \A c \in result.pools[p].competitors :
             /\ c \notin request.excluded
             /\ [pool |-> p, trader |-> c] \notin request.excludedBy
             /\ \E t \in Sought(Window, request.addresses) :
                  t.from = c /\ t.to = p /\ t.hash \in result.pools[p].hashes

(* A scan ends, by its result or an exception, and leaves no task behind.  *)
ScanEnds ==
    <>[](/\ stage \in {"done", "raised"} \/ phase = "raised"
         /\ Active = {} /\ \A b \in Blocks : task[b] # "waiting")
=============================================================================
