--------------------------- MODULE TradeEnrichment ---------------------------
(***************************************************************************)
(* The stages of run_scan after the receipts: PoolMetadataService asks the *)
(* pools for their factory, fee and tokens, TokenMetadataService reads the *)
(* tokens table and asks for the rest, TradeEnrichmentService infers the   *)
(* prices, PoolTvlService asks for balances, the blocks and the bribes     *)
(* follow, and the payload is built and stored; then the next scan reads   *)
(* what this one stored.  One action is one stage.                         *)
(*                                                                         *)
(* Each call of a stage may stay without an answer: the request fails, or  *)
(* its entry of a batch does.  Where batch_resolve asks again alone, a     *)
(* call is without answer when both attempts are.                          *)
(*                                                                         *)
(* Abstractions.  Logs are those of the receipts of the traders'           *)
(* transactions; each trader is tracked and named by the transaction.  A   *)
(* label is known or not ("named").  The tables are written in one step:   *)
(* TradingPersistence has the statements.                                  *)
(***************************************************************************)
EXTENDS SwapPricing, Orders

CONSTANTS
    Logs,               \* the logs of the chain, in order: [tx, block, pool,
                        \* kind, words]
    Windows,            \* [start, end] of the scans
    PoolFacts,          \* pool -> [factory, fee, tokens, coins, balances]
    TokenFacts,         \* token -> [decimals, symbol, hint]
    Transfers,          \* tx -> what its trace pays: set of [to, value]
    Miner,              \* block -> address
    DefaultV2Fee,       \* EYWA_DEFAULT_V2_FEE_TIER
    DecimalLimit,       \* DB_DECIMAL_38_18_MAX
    UsdDigits,          \* digits after the point the column of usd_amount keeps
    MaxLost,            \* bound: answers that are lost
    MaxScans            \* bound: scans

Pools == DOMAIN PoolFacts

(* Curve: the coins of a pool have no common interface, so four of its     *)
(* functions are tried, those of the kind of exchange first.               *)
Selectors(underlying) ==
    IF underlying
    THEN <<"underlying_coins", "underlying_coins_int128", "coins", "coins_int128">>
    ELSE <<"coins", "coins_int128", "underlying_coins", "underlying_coins_int128">>
Exchanged(kind) ==
    IF kind = "underlying" THEN {"underlying_coins", "underlying_coins_int128"}
    ELSE {"coins", "coins_int128"}

ASSUME EnrichmentAssumption ==
    /\ MaxLost \in Nat /\ MaxScans \in Nat /\ DecimalLimit \in Nat /\ UsdDigits \in Nat
    /\ None \notin Tokens /\ None \notin {"BUY", "SELL"}
(* The logs of the chain; a transaction is in one block.                   *)
ASSUME LogsAssumption ==
    /\ Logs \in Seq([tx : DOMAIN Transfers, block : Nat \ {0}, pool : Pools,
                     kind : STRING, words : Seq(0..(WordSize - 1))])
    /\ \A i, j \in DOMAIN Logs : Logs[i].tx = Logs[j].tx => Logs[i].block = Logs[j].block
    /\ \A tx \in DOMAIN Transfers :
         IsFiniteSet(Transfers[tx]) /\ \A x \in Transfers[tx] : x.value \in Nat
ASSUME FactsAssumption ==
    /\ \A p \in Pools : /\ PoolFacts[p].tokens \in [1..2 -> Tokens \cup {None}]
                        /\ PoolFacts[p].balances \in [1..2 -> Nat]
                        /\ PoolFacts[p].coins \in [Range(Selectors(FALSE)) -> Seq(Tokens)]
    /\ \A t \in Tokens : /\ TokenFacts[t].decimals \in Nat \cup {None}
                         /\ TokenFacts[t].symbol \in BOOLEAN /\ TokenFacts[t].hint \in BOOLEAN

VARIABLES
    batching,           \* supports_batch_requests
    tracing,            \* the node has the methods that trace a transaction
    pc,                 \* the stage that comes next
    window,
    events,             \* swap events of the scan, in their order
    pools,              \* metadata of the pools of the events
    metadata,           \* metadata of the tokens of the events
    prices,             \* token_usd_prices
    snapshots,          \* pool -> [tvl, share] or None
    payload,
    tokens,             \* table: address -> [named, decimals, stable] or None
    rows,               \* table of swaps, in the order of their insertion; the
                        \* log, the scan and what was written are auxiliary
    lost,               \* answers lost so far
    unanswered,         \* auxiliary: pools with a call about their tokens
                        \* that was never answered in this scan
    history             \* auxiliary: the windows of the scans

locals == <<pc, window, events, pools, metadata, prices, snapshots, payload>>
enrichmentVars == <<batching, tracing, locals, tokens, rows, lost, unanswered, history>>
-----------------------------------------------------------------------------
NoPayload == [dexes |-> {}, tokens |-> {}, pools |-> {}, transactions |-> {}, swaps |-> <<>>]

EnrichmentInit ==
    /\ batching \in BOOLEAN /\ tracing \in BOOLEAN
    /\ pc = "idle"
    /\ window \in Windows
    /\ events = <<>> /\ pools = <<>> /\ metadata = <<>>
    /\ prices = NoPrices
    /\ snapshots = <<>>
    /\ payload = NoPayload
    /\ tokens = [t \in Tokens |-> None]
    /\ rows = <<>>
    /\ lost = 0 /\ unanswered = {} /\ history = <<>>

Goto(from, to) == pc = from /\ pc' = to

(* What a scan had worked out ends with its call.                          *)
ForgetLocals ==
    /\ pools' = <<>> /\ metadata' = <<>> /\ snapshots' = <<>>
    /\ prices' = NoPrices /\ payload' = NoPayload /\ unanswered' = {}

(* Sets of calls that may fail within the bound; "attempts" is how often   *)
(* the code asks before it gives one up.                                   *)
Losses(calls, attempts) ==
    {{}} \cup {Range(f) : f \in [1..((MaxLost - lost) \div attempts) -> calls]}
Lose(missing, attempts) == lost' = lost + attempts * Cardinality(missing)
Attempts == IF batching THEN 2 ELSE 1
-----------------------------------------------------------------------------
(* collect_swap_events.  A scan without a swap ends here.                  *)
SwapLogs(w) ==
    InOrder({i \in DOMAIN Logs :
                IsSwap(Logs[i]) /\ w.start <= Logs[i].block /\ Logs[i].block <= w.end})

ParseSwaps ==
    /\ pc \in {"idle", "stored", "raised"} /\ Len(history) < MaxScans
    /\ \E w \in Windows :
         LET found == SwapLogs(w) IN
         /\ window' = w
         /\ events' = [i \in DOMAIN found |-> RawEvent(Logs[found[i]], found[i])]
         /\ pc' = IF found = <<>> THEN "stored" ELSE "pools"
         /\ history' = Append(history, w)
    /\ ForgetLocals
    /\ UNCHANGED <<batching, tracing, tokens, rows, lost>>

EventPools == {events[i].pool : i \in DOMAIN events}
PoolsOfKind(kinds) == {events[i].pool : i \in {j \in DOMAIN events : events[j].kind \in kinds}}

(* resolve_pool_factories, resolve_pool_fee_tiers                          *)
ResolvePools ==
    LET factoryCalls == {"factory"} \X EventPools
        feeCalls == {"fee"} \X PoolsOfKind({"v3"})
    IN
    /\ Goto("pools", IF batching THEN "pairs" ELSE "pairs again")
    /\ \E missing \in Losses(factoryCalls \cup feeCalls, Attempts) :
         /\ pools' = [p \in EventPools |->
              [factory |-> IF <<"factory", p>> \in factoryCalls \ missing
                           THEN PoolFacts[p].factory ELSE None,
               fee |-> IF <<"fee", p>> \in feeCalls \ missing
                       THEN PoolFacts[p].fee ELSE None,
               pair |-> <<None, None>>]]
         /\ Lose(missing, Attempts)
    /\ UNCHANGED <<batching, tracing, window, events, metadata, prices, snapshots,
                   payload, tokens, rows, unanswered, history>>

Answers(p, missing) ==
    [side \in 1..2 |-> IF <<p, side>> \in missing THEN None ELSE PoolFacts[p].tokens[side]]

(* _resolve_pool_tokens_batch: token0 and token1 of each standard pool.    *)
ResolvePairs ==
    /\ Goto("pairs", "pairs again")
    /\ \E missing \in Losses(PoolsOfKind(StandardKinds) \X {1, 2}, 1) :
         /\ pools' = [p \in DOMAIN pools |->
              IF p \in PoolsOfKind(StandardKinds)
              THEN [pools[p] EXCEPT !.pair = Answers(p, missing)] ELSE pools[p]]
         /\ Lose(missing, 1)
    /\ UNCHANGED <<batching, tracing, window, events, metadata, prices, snapshots,
                   payload, tokens, rows, unanswered, history>>

Unresolved ==
    {p \in PoolsOfKind(StandardKinds) : \E side \in 1..2 : pools[p].pair[side] = None}

(* Fault: the pair of the second attempt replaces that of the first.       *)
KeepRetriedPair(current, retried) == retried

(* _merge_token_pairs *)
MergePairs(current, retried) ==
    [side \in 1..2 |-> IF current[side] # None THEN current[side] ELSE retried[side]]

(* _resolve_pool_tokens_individually: both tokens of an incomplete pair    *)
(* are asked for again, and what was known is kept.                        *)
ResolvePairsAgain ==
    /\ Goto("pairs again", "coins")
    /\ \E missing \in Losses(Unresolved \X {1, 2}, 1) :
         /\ pools' = [p \in DOMAIN pools |->
              IF p \in Unresolved
              THEN [pools[p] EXCEPT !.pair = MergePairs(@, Answers(p, missing))]
              ELSE pools[p]]
         /\ unanswered' = {call[1] : call \in
                             {c \in missing : pools[c[1]].pair[c[2]] = None}}
         /\ Lose(missing, 1)
    /\ UNCHANGED <<batching, tracing, window, events, metadata, prices, snapshots,
                   payload, tokens, rows, history>>
-----------------------------------------------------------------------------
(* The first of these functions that answers.                              *)
FirstCoin(pool, index, selectors, missing) ==
    LET coins == PoolFacts[pool].coins
        answered == {n \in DOMAIN selectors :
                        /\ <<pool, selectors[n], index>> \notin missing
                        /\ index + 1 \in DOMAIN coins[selectors[n]]}
    IN  IF answered = {} THEN None ELSE coins[selectors[Min(answered)]][index + 1]

(* Fault: the kind of exchange is not looked at.                           *)
PlainCoinsFirst(pool, index, underlying, missing) ==
    FirstCoin(pool, index, Selectors(FALSE), missing)

(* resolve_curve_coin_address                                              *)
CoinAddress(pool, index, underlying, missing) ==
    FirstCoin(pool, index, Selectors(underlying), missing)

CoinCalls ==
    UNION {{<<p, s, n - 1>> : n \in DOMAIN PoolFacts[p].coins[s]} :
             p \in PoolsOfKind(CurveKinds), s \in Range(Selectors(FALSE))}

(* PoolMetadataService.enrich_events; the cache holds one answer for each  *)
(* coin of a pool, for both kinds of exchange apart.                       *)
ResolveCoins ==
    /\ Goto("coins", "tokens")
    /\ \E missing \in Losses(CoinCalls, 1) :
         LET CoinOf(e, n) == CoinAddress(e.pool, CoinsOf(Logs[e.log])[n],
                                         e.kind = "underlying", missing)
         IN
         /\ events' = [i \in DOMAIN events |->
              IF events[i].kind \in CurveKinds
              THEN [events[i] EXCEPT !.tokenA = CoinOf(events[i], 1),
                                     !.tokenB = CoinOf(events[i], 2)]
              ELSE [events[i] EXCEPT !.tokenA = pools[events[i].pool].pair[1],
                                     !.tokenB = pools[events[i].pool].pair[2]]]
         /\ unanswered' = unanswered \cup {call[1] : call \in missing}
         /\ Lose(missing, 1)
    /\ UNCHANGED <<batching, tracing, window, pools, metadata, prices, snapshots,
                   payload, tokens, rows, history>>
-----------------------------------------------------------------------------
EventTokens == (UNION {{events[i].tokenA, events[i].tokenB} : i \in DOMAIN events}) \ {None}
NewTokens == {t \in EventTokens : tokens[t] = None}
UnnamedTokens == {t \in EventTokens : tokens[t] = None \/ ~tokens[t].named}

(* resolve_token_metadata: a row of the table is taken as it is, except    *)
(* for a label that is missing; the decimals of others are asked for.      *)
Metadata(t, missing) ==
    LET symbol == t \in UnnamedTokens /\ <<"symbol", t>> \notin missing /\ TokenFacts[t].symbol
        decimals == IF <<"decimals", t>> \in missing THEN None ELSE TokenFacts[t].decimals
    IN  IF tokens[t] # None
        THEN [named |-> tokens[t].named \/ symbol, decimals |-> tokens[t].decimals,
              stable |-> tokens[t].stable \/ TokenFacts[t].hint]
        ELSE [named |-> symbol,
              decimals |-> IF decimals = None THEN DefaultDecimals ELSE decimals,
              stable |-> TokenFacts[t].hint]

(* resolve_pricing_context *)
ResolveTokens ==
    LET calls == ({"decimals"} \X NewTokens) \cup ({"symbol"} \X UnnamedTokens) IN
    /\ Goto("tokens", "balances")
    /\ events' = [i \in DOMAIN events |-> Reorder(events[i])]
    /\ \E missing \in Losses(calls, Attempts) :
         /\ metadata' = [t \in EventTokens |-> Metadata(t, missing)]
         /\ prices' = InferPrices(events', metadata')
         /\ Lose(missing, Attempts)
    /\ UNCHANGED <<batching, tracing, window, pools, snapshots, payload, tokens, rows,
                   unanswered, history>>
-----------------------------------------------------------------------------
(* _collect_pool_tokens: standard pools with two known tokens.             *)
ValuedPools ==
    {p \in PoolsOfKind(StandardKinds) : pools[p].pair[1] # None /\ pools[p].pair[2] # None}

Price(t) == IF Stable(t, metadata) THEN <<1, 1>> ELSE prices[t]

(* _resolve_token_value_usd *)
ValueUsd(p, side, missing) ==
    LET t == pools[p].pair[side] IN
    IF <<p, side>> \in missing \/ Price(t) = None THEN None
    ELSE Times(Amount(PoolFacts[p].balances[side], metadata[t].decimals), Price(t))

(* Fault: the sum is not compared with the limit of its column.            *)
SnapshotOfAnySize(p, missing) ==
    LET a == ValueUsd(p, 1, missing)
        b == ValueUsd(p, 2, missing)
    IN  IF a = None \/ b = None THEN None
        ELSE [tvl |-> Plus(a, b),
              share |-> IF Plus(a, b)[1] = 0 THEN <<1, 2>> ELSE Over(a, Plus(a, b))]

(* _build_pool_liquidity_snapshot *)
Snapshot(p, missing) ==
    LET a == ValueUsd(p, 1, missing)
        b == ValueUsd(p, 2, missing)
    IN  IF a = None \/ b = None THEN None
        ELSE IF AtMost(<<DecimalLimit, 1>>, Plus(a, b)) THEN None
        ELSE [tvl |-> Plus(a, b),
              share |-> IF Plus(a, b)[1] = 0 THEN <<1, 2>> ELSE Over(a, Plus(a, b))]

(* resolve_pool_liquidity_snapshots: the balances at the last block of the *)
(* scan, which nobody asks for twice.                                      *)
ResolveSnapshots ==
    /\ Goto("balances", "blocks")
    /\ \E missing \in Losses(ValuedPools \X {1, 2}, 1) :
         /\ snapshots' = [p \in ValuedPools |-> Snapshot(p, missing)]
         /\ Lose(missing, 1)
    /\ UNCHANGED <<batching, tracing, window, events, pools, metadata, prices, payload,
                   tokens, rows, unanswered, history>>
-----------------------------------------------------------------------------
(* get_tx_bribe_wei: what the transaction paid to the miner of its block.  *)
Bribe(tx, block, missing) ==
    IF ~tracing \/ <<"block", block>> \in missing \/ <<"trace", tx>> \in missing THEN 0
    ELSE MapThenSumSet(LAMBDA transfer : transfer.value,
                       {x \in Transfers[tx] : x.to = Miner[block]})

(* build_payload.                                                          *)
Fee(p) ==
    IF pools[p].fee = None /\ p \in PoolsOfKind({"v2"}) THEN DefaultV2Fee ELSE pools[p].fee

(* Fault: the field is left to the default of its schema.                  *)
DecimalsOfTheSchema(decimals) == DefaultDecimals

(* decimals or 18: no decimals count as unknown ones.                      *)
StoredDecimals(decimals) == IF decimals = 0 THEN DefaultDecimals ELSE decimals

SwapWrite(e) ==
    [tx |-> e.tx, pool |-> e.pool, tokenA |-> e.tokenA, tokenB |-> e.tokenB,
     side |-> e.side, usd |-> UsdAmount(e, metadata, prices),
     amountA |-> IF e.amountA > 0 THEN e.amountA ELSE None,
     amountB |-> IF e.amountB > 0 THEN e.amountB ELSE None]

(* Fault: a swap is dropped when one of its tokens is unknown.             *)
EventsOfKnownTokens ==
    RowsAt(events, {i \in DOMAIN events : /\ events[i].side # None
                                          /\ events[i].tokenA # None /\ events[i].tokenB # None})

SidedEvents == RowsAt(events, {i \in DOMAIN events : events[i].side # None})

Payload(missing) ==
    [dexes |-> {pools[p].factory : p \in EventPools},
     tokens |-> {[address |-> t, named |-> metadata[t].named,
                  decimals |-> StoredDecimals(metadata[t].decimals),
                  stable |-> metadata[t].stable] : t \in EventTokens},
     pools |-> {[address |-> p, dex |-> pools[p].factory, fee |-> Fee(p),
                 snapshot |-> IF p \in DOMAIN snapshots THEN snapshots[p] ELSE None] :
                  p \in EventPools},
     transactions |-> {[hash |-> e.tx, block |-> e.block,
                        bribe |-> Bribe(e.tx, e.block, missing)] : e \in Range(events)},
     swaps |-> [i \in DOMAIN SidedEvents |->
                  [log |-> SidedEvents[i].log, swap |-> SwapWrite(SidedEvents[i])]]]

(* TradeEnrichmentService.enrich_events, with the blocks and the traces.   *)
EnrichTrades ==
    LET blockCalls == {"block"} \X {e.block : e \in Range(events)}
        traceCalls == IF tracing THEN {"trace"} \X {e.tx : e \in Range(events)} ELSE {}
    IN
    /\ Goto("blocks", "persist")
    /\ \E blocks \in Losses(blockCalls, Attempts), traces \in Losses(traceCalls, 1) :
         LET cost == Attempts * Cardinality(blocks) + Cardinality(traces) IN
         /\ lost + cost <= MaxLost
         /\ lost' = lost + cost
         /\ payload' = Payload(blocks \cup traces)
    /\ UNCHANGED <<batching, tracing, window, events, pools, metadata, prices, snapshots,
                   tokens, rows, unanswered, history>>
-----------------------------------------------------------------------------
(* The tokens of a payload: new ones are inserted, a label replaces a      *)
(* placeholder, a stablecoin stays one, decimals are never changed.        *)
StoredToken(row, write) ==
    IF row = None
    THEN [named |-> write.named, decimals |-> write.decimals, stable |-> write.stable]
    ELSE [row EXCEPT !.named = @ \/ write.named, !.stable = @ \/ write.stable]

(* Decimal(38, 18): the digits beyond the column's are cut.                *)
StoredUsd(usd) ==
    IF usd = None THEN None
    ELSE Amount((usd[1] * Unit(UsdDigits)) \div usd[2], UsdDigits)
Stored(swap) == [swap EXCEPT !.usd = StoredUsd(swap.usd)]

RowsOf(swap) == Cardinality({i \in DOMAIN rows : rows[i].swap = swap})

(* _build_new_swaps: by counting the rows with the same fingerprint, which *)
(* is that of the swap before its amount is cut.                           *)
NewRows ==
    LET list == payload.swaps
        new == RowsAt(list, {i \in DOMAIN list :
                  Cardinality({j \in 1..i : list[j].swap = list[i].swap}) > RowsOf(list[i].swap)})
    IN  [k \in DOMAIN new |-> [log |-> new[k].log, swap |-> Stored(new[k].swap),
                               written |-> new[k].swap, scan |-> Len(history)]]

(* A value beyond Decimal(38, 18) makes the INSERT of the swaps fail,      *)
(* after the tokens were stored.                                           *)
FitsColumn(swap) == swap.usd = None \/ ~AtMost(<<DecimalLimit, 1>>, swap.usd)

Persist ==
    /\ pc = "persist"
    /\ tokens' = [t \in Tokens |->
         IF t \in EventTokens
         THEN StoredToken(tokens[t], CHOOSE w \in payload.tokens : w.address = t)
         ELSE tokens[t]]
    /\ IF \A i \in DOMAIN NewRows : FitsColumn(NewRows[i].written)
       THEN rows' = rows \o NewRows /\ pc' = "stored"
       ELSE pc' = "raised" /\ UNCHANGED rows
    /\ UNCHANGED <<batching, tracing, window, events, pools, metadata, prices, snapshots,
                   payload, lost, unanswered, history>>

(* A request raises what no service swallows, or the process is stopped:   *)
(* the scan ends before its first statement.                               *)
Raise ==
    /\ pc \notin {"idle", "stored", "raised"}
    /\ pc' = "idle" /\ events' = <<>>
    /\ ForgetLocals
    /\ UNCHANGED <<batching, tracing, window, tokens, rows, lost, history>>

EnrichmentNext ==
    \/ ParseSwaps \/ ResolvePools \/ ResolvePairs \/ ResolvePairsAgain \/ ResolveCoins
    \/ ResolveTokens \/ ResolveSnapshots \/ EnrichTrades \/ Persist
    \/ Raise

EnrichmentSpec == EnrichmentInit /\ [][EnrichmentNext]_enrichmentVars
-----------------------------------------------------------------------------
(* The types of what a scan works out.  A snapshot fits its column, and    *)
(* the share of the first token is between 0 and 1.                        *)
Ratios == Nat \X (Nat \ {0})
EnrichmentTypeOK ==
    /\ pc \in {"idle", "pools", "pairs", "pairs again", "coins", "tokens", "balances",
               "blocks", "persist", "stored", "raised"}
    /\ window \in Windows
    /\ \A i \in DOMAIN events : /\ events[i].side \in {"BUY", "SELL", None}
                                /\ {events[i].tokenA, events[i].tokenB} \subseteq Tokens \cup {None}
    /\ \A t \in Tokens : prices[t] = None \/ prices[t] \in Ratios
    /\ \A p \in DOMAIN snapshots : snapshots[p] # None =>
         /\ ~AtMost(<<DecimalLimit, 1>>, snapshots[p].tvl)
         /\ AtMost(snapshots[p].share, <<1, 1>>)
    /\ lost \in 0..MaxLost

(* What a log says was paid to the pool and taken from it, where it is one *)
(* amount of either token.                                                 *)
Trade(sold, soldAmount, bought, boughtAmount) ==
    [sold |-> sold, soldAmount |-> soldAmount, bought |-> bought, boughtAmount |-> boughtAmount]
CoinsAt(log, n) ==
    LET coins == PoolFacts[log.pool].coins
    IN  {coins[s][n + 1] : s \in {r \in Exchanged(log.kind) : n + 1 \in DOMAIN coins[r]}}
Coin(log, n) == IF CoinsAt(log, n) = {} THEN None ELSE CHOOSE t \in CoinsAt(log, n) : TRUE
TradeOf(log) ==
    LET w == log.words
        t == PoolFacts[log.pool].tokens
    IN
    CASE log.kind = "v2" /\ w[1] > 0 /\ w[4] > 0 /\ w[2] = 0 /\ w[3] = 0 -> Trade(t[1], w[1], t[2], w[4])
      [] log.kind = "v2" /\ w[2] > 0 /\ w[3] > 0 /\ w[1] = 0 /\ w[4] = 0 -> Trade(t[2], w[2], t[1], w[3])
      [] log.kind = "v3" /\ Signed(w[1]) > 0 /\ Signed(w[2]) < 0 ->
            Trade(t[1], Signed(w[1]), t[2], -Signed(w[2]))
      [] log.kind = "v3" /\ Signed(w[2]) > 0 /\ Signed(w[1]) < 0 ->
            Trade(t[2], Signed(w[2]), t[1], -Signed(w[1]))
      [] log.kind \in CurveKinds -> Trade(Coin(log, w[1]), w[2], Coin(log, w[3]), w[4])
      [] OTHER -> None

(* The pool tells the coins of an exchange by a function for its kind; a   *)
(* metapool without one answers with another coin through the others.      *)
CoinsKnown(log) ==
    log.kind \in CurveKinds =>
      \A n \in {log.words[1], log.words[3]} : \E t \in Tokens : CoinsAt(log, n) = {t}

(* From the normalisation on, an event says the same trade as its log,     *)
(* whatever the kind of the pool and the order of its tokens: amounts and  *)
(* direction always, the tokens where the pool can tell them, unless a     *)
(* call for the tokens of the pool was never answered - an answer to one   *)
(* of the two attempts is enough.                                          *)
SidesAreTrades ==
    pc \in {"balances", "blocks", "persist", "stored", "raised"} =>
      \A i \in DOMAIN events :
        LET e == events[i]
            trade == TradeOf(Logs[e.log])
            told == IF e.side = "BUY" THEN Trade(e.tokenA, e.amountA, e.tokenB, e.amountB)
                    ELSE Trade(e.tokenB, e.amountB, e.tokenA, e.amountA)
        IN  trade # None =>
              /\ e.side # None
              /\ told.soldAmount = trade.soldAmount /\ told.boughtAmount = trade.boughtAmount
              /\ e.pool \notin unanswered /\ CoinsKnown(Logs[e.log]) => told = trade

(* The prices do not depend on the order of the events, which is that of   *)
(* the receipts and changes with every answer that comes late.             *)
PricesIgnoreOrder ==
    pc = "balances" => InferPrices(Reverse(events), metadata) = prices

(* Tokens at most k swaps away from a stablecoin.                          *)
Anchored ==
    LET within[k \in 0..MaxRounds] ==
          IF k = 0 THEN {t \in DOMAIN metadata : Stable(t, metadata)}
          ELSE within[k - 1] \cup
               {t \in DOMAIN metadata : \E e \in Range(events), s \in within[k - 1] :
                    {s, t} = {e.tokenA, e.tokenB} /\ e.amountA > 0 /\ e.amountB > 0}
    IN  within[MaxRounds]

(* A token has a price only if a chain of swaps of this scan, no longer    *)
(* than the rounds that are configured, leads to a stablecoin.             *)
PricesNeedAnAnchor ==
    pc = "balances" => \A t \in Tokens : prices[t] # None => t \in Anchored

(* TradingPersistence assumes it of every payload (Built): keys are unique,*)
(* swaps refer to what the payload holds.                                  *)
BuiltPayload(p) ==
    LET addresses == {t.address : t \in p.tokens} IN
    /\ Cardinality(p.tokens) = Cardinality(addresses)
    /\ Cardinality(p.pools) = Cardinality({x.address : x \in p.pools})
    /\ Cardinality(p.transactions) = Cardinality({x.hash : x \in p.transactions})
    /\ \A x \in p.pools : x.dex \in p.dexes
    /\ \A i \in DOMAIN p.swaps :
         LET s == p.swaps[i].swap IN
         /\ s.tx \in {x.hash : x \in p.transactions}
         /\ s.pool \in {x.address : x \in p.pools}
         /\ {s.tokenA, s.tokenB} \ {None} \subseteq addresses

(* No transaction is said to have bribed its miner with more than it paid, *)
(* and with less only where an answer is missing or the node has no traces.*)
BribesArePaid(p) ==
    \A x \in p.transactions :
      LET paid == MapThenSumSet(LAMBDA transfer : transfer.value,
                                {y \in Transfers[x.hash] : y.to = Miner[x.block]})
      IN  x.bribe <= paid /\ (tracing /\ lost = 0 => x.bribe = paid)

(* Whatever calls were not answered, the payload is what persist_payload   *)
(* relies on, holds every swap of the logs, and claims no bribe too much.  *)
PayloadIsSound ==
    pc = "persist" =>
      /\ BuiltPayload(payload)
      /\ BribesArePaid(payload)
      /\ \A n \in Range(SwapLogs(window)) :
           TradeOf(Logs[n]) # None => n \in {payload.swaps[i].log : i \in DOMAIN payload.swaps}

(* A swap has a stablecoin with an amount on one of its sides; a window    *)
(* has a swap of a pool with a token without decimals.                     *)
HasStablecoin(swap) ==
    \/ swap.tokenA # None /\ swap.amountA # None /\ TokenFacts[swap.tokenA].hint
    \/ swap.tokenB # None /\ swap.amountB # None /\ TokenFacts[swap.tokenB].hint
TokensAt(pool) ==
    Range(PoolFacts[pool].tokens)
    \cup UNION {Range(PoolFacts[pool].coins[s]) : s \in Range(Selectors(FALSE))}
Indivisible(w) ==
    \E n \in Range(SwapLogs(w)) : \E t \in TokensAt(Logs[n].pool) \ {None} :
      TokenFacts[t].decimals = 0

(* A swap that is scanned twice is stored twice only for a reason: a call  *)
(* that was not answered, a window with other swaps and no stablecoin with *)
(* an amount on either side, a token with no decimals, which is stored     *)
(* with 18, or an amount in USD with more digits than its column keeps,    *)
(* which is no row's when it is worked out again (_swap_fingerprint).      *)
DuplicatesHaveAReason ==
    \A i, j \in DOMAIN rows :
      (i # j /\ rows[i].log = rows[j].log) =>
        LET first == history[rows[i].scan]
            second == history[rows[j].scan]
            written == rows[i].written
        IN
        \/ lost > 0
        \/ SwapLogs(first) # SwapLogs(second) /\ ~HasStablecoin(written)
        \/ Indivisible(first) \/ Indivisible(second)
        \/ Stored(written) # written
=============================================================================
