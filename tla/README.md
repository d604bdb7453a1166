# Eywa: specifications, model checking and proofs

Eywa watches the contracts of MEV traders. It scans windows of Ethereum blocks
for the transactions of known traders, decodes and prices the swaps in them and
stores dexes, tokens, pools, traders, transactions and swaps in ClickHouse
(*forward scan*). It then looks at the pools it knows for other contracts that
trade in them and adds those to the table of traders (*reverse scan*). An API
process runs this by cron, next to a second cron job that deletes inactive
traders; the same scans can be started from the command line at any time,
against the same tables. This directory holds TLA+ modules that model the
program under `src/app`, TLC configurations that check them on small instances,
and theorems with proofs that `tlapm` checks.

## 1. Inventory

Paths are relative to `src/app`.

| Component | State | Operations | Hard behaviour | Correct when |
| --- | --- | --- | --- | --- |
| Trading persistence (`services/trading_persistence_service.py`, `schemas/persistence.py`) | six tables of ClickHouse; the locals of a call between its statements | `build_payload`, `persist_payload`: 15 statements, each its own commit | no transactions, no unique or foreign keys, asynchronous `ALTER TABLE ... UPDATE`; a stop between two statements; two processes at once | foreign keys hold in every state; a repeated call completes a payload and duplicates nothing, except swaps whose amount the column cuts; a snapshot goes back only by an `UPDATE` decided on a stale one; a call that returned stored everything |
| Scan scheduler (`services/scan_scheduler_service.py`) and traders cleanup (`services/traders_cleanup_service.py`) | event, lock, scheduler thread, worker thread | `start`, `stop`, `_run_loop`, `_execute_*` | runs that outlive their loop iteration and the service; hangs; restart | runs of one job never overlap; stop returns and nothing starts after it; the two jobs are independent |
| Traders cleanup, its SQL | `traders`, `transactions` | one `DELETE` mutation | evaluated when it is applied, while scans read and insert | only inactive traders are deleted |
| Scan orchestrator (`services/scan_orchestrator_service.py`) | none of its own; the highest stored block | automatic window, forward scan, reverse scan, sequence of both | the next window is computed from what the last one managed to store | every block is scanned; a failure loses nothing |
| Trader registry, pool registry | `traders`, `liquidity_pools` | `build_scan_request`, `persist_traders`, `load_pool_competitors` | check, then insert | a competitor that was found is tracked |
| RPC gateway, batching (`services/rpc_gateway_service.py`, `utils/batching.py`, `utils/concurrency.py`) | none | requests, batches, retries | transient errors, partial and reordered answers, halving | an answer goes to its request; a bad request costs only itself |
| Transaction discovery, trace provider, receipts | the tasks of a chunk | chunks of blocks, traces, receipts | tasks run at once and outlive a chunk that failed; partial failure: retry, swallow or raise | no transaction is skipped silently |
| Swap parsing, pool and token metadata | caches of a scan | decode, look up, ask again, default | some calls of a pair fail and are asked for again | a swap says the same trade as its log; a default never replaces what was known |
| Trade enrichment, pool TVL | none | price inference in rounds, snapshots | rounds over swaps in any order | a price does not depend on the order of the swaps and leads to a stablecoin |
| Reverse search and scoring | none | candidates, scores, exclusions | lost receipts change the evidence; the result is filtered after it was counted | known traders are never candidates; a lost receipt approves nobody |
| Database backfill (`services/database_backfill_service.py`) | tables, a cursor, a page | reads rows, asks the chain, updates later | runs beside scans; candidates leave while it pages through them | skips no candidate; replaces a newer snapshot only by an `UPDATE` decided on a stale one |
| Cron expressions (`utils/cron.py`) | none | `matches`, `next_after` | day-of-month or day-of-week; 366 days; a thread that oversleeps, a clock that changes its zone | each matching minute is run once |
| API, command line, configuration, wiring, migrations | none | start the above | two processes on one database | |

How they interact: `main.py` starts and stops the two cron services; the scan
service's worker thread calls the orchestrator; the orchestrator calls registry,
discovery, enrichment and persistence one after the other and hands each the
result of the one before; everything that asks the chain goes through the RPC
gateway. The only state that two activities share is the six tables, and nothing
locks them across statements: the job locks keep runs of one job of one process
apart, not the scan from the cleanup and not the API from the command line.

## 2. Plan

All the modules of the plan are written:

1. `TradingPersistence` with `EntityStore`, the abstract store it refines: every
   other part of the program trusts what these statements leave in the tables.
2. `CronJobs`: who may run at the same time.
3. `AutoScan`: what is scanned, and what a failed scan leaves unscanned.
4. `TradersCleanup`: the one statement that deletes, against the inserts.
5. `RpcBatch`: answers and requests.
6. `TraceDiscovery`, `ReverseScan`: traces, receipts, candidates and approval.
7. `DatabaseBackfill`: what it read when it updates, beside a scan.
8. `SwapPricing`, `TradeEnrichment`: from logs to a payload.
9. `CronTimes`: when a scheduler wakes.

Compositions. `DatabaseBackfill` EXTENDS `TradingPersistence` and runs beside it on
the same tables. `ReverseScan` EXTENDS `TraceDiscovery` and goes on with its traces.
`TradeEnrichment` EXTENDS `SwapPricing` and checks of its payloads what
`TradingPersistence` assumes of them. `TradingPersistence` stands for the three
insert steps of `AutoScan` and the four statements of a forward scan in
`TradersCleanup`. The abstract specification of persistence is `EntityStore`; that of
the alignment, the prices, the approval and the cron times is a definition in the
property itself. `Orders` has what several modules need of Python's lists: the
members of a set in their order (`InOrder`), and the rows of a table at some places
(`RowsAt`).

Every safety property of the runs that pass is also a theorem; what is left to TLC is
named at the end of section 5.

## 3. The modules

### TradingPersistence, EntityStore

`_persist_payload_sync` is a sequence of SQL statements. One action is one
statement, or one loop of `SELECT`s over chunks of keys; `pc[w]` is where writer
`w` is, `payload[w]` its argument, `seen[w]` what it read so far and `todo[w]` the
`UPDATE`s its loop has still to send. A table is a sequence of rows, so that a row
may be there twice and an update knows which rows it covers. `Abort` is an
exception or the death of the process at any statement.

What is assumed of ClickHouse (its engine is `MergeTree` throughout):

- no transactions, so the rollback of `session_scope` undoes nothing;
- neither primary nor foreign keys are enforced;
- an insert of one statement is visible as a whole at once;
- an `UPDATE` is a mutation. By default, and nothing in the repository sets
  `mutations_sync`, it is applied at some moment after the statement returned, in the
  order of submission, to the rows present at submission (`MutationsSync = FALSE`, as in
  the runs about updates; with `TRUE` it is applied before the statement returns, and
  the theorems hold for both). `read` of a pending mutation is auxiliary: the snapshot
  its process had read of the row;
- `Decimal(38, 18)` cuts digits (`StoredData`), and what was read back is stored
  unchanged.

The fingerprint of a swap is made of the amount in USD as it was computed, and compared
with what the column gave back. So a swap whose amount has more than 18 decimals equals
no row, and each call that has it in its payload stores it again. `NoDuplicateSwaps`
says so: of the other swaps (`~CutTo`) the table has no more than one payload has, of
these no more than all calls together.

`Built` says what `build_payload` guarantees and is an assumption on the constant
`Payloads`; `PayloadIsSound` of `TradeEnrichment` checks it of the payloads that are
built there. `EntityStore` is the abstract store: sets of facts that only grow, each
fact after the facts it refers to. The refinement mapping forgets ids, repeated rows,
labels, snapshots and all locals.

`ReferentialIntegrity` is about these statements alone. The cleanup deletes
traders that transactions refer to; see `TradersCleanup`.

### DatabaseBackfill

The command walks through the tokens without a label, then through the pools without
a snapshot. `stage` is its next statement, `cursor` the last address of the last page,
`page`, `metadata` and `updates` are its locals, `stats` the totals it prints. One page
is: select candidates after the cursor, ask the node, select the rows again, send one
`UPDATE` per row that still lacks something. What the node answers is a choice, so any
call may fail; `AbortBackfill` is an exception or Ctrl-C anywhere. All actions of
`TradingPersistence` go on beside it. `waiting` is auxiliary: for each of the two
passes, the candidates it began with that no page has contained yet.

Fairness: weak for the steps of the command; nothing forces a scan to run or the
command to be stopped.

### CronJobs

Both services have the same threads, event and lock, so one module has both,
parameterised by `Jobs`. `Start`, `Stop` and `Join` are the main thread (the
lifespan of the API), `CheckStop`, `WakeUp`, `Acquire`, `Skip` and `Spawn` the
scheduler thread, `EndRun` and `Release` the worker, `Die` an exception in the
scheduler thread. When `wait` returns by timeout is open, so every order of cron
times and of the calls of stop is covered.

`JoinTimesOut` is a join that gives up after its five seconds.
`NothingBeginsAfterStop` and `RunsAgain` hold only while no thread died and no join
gave up, and say so (`faults = 0`).

Fairness: weak, for the scheduler thread, for the release of the lock (it is in a
`finally`), for a join, and for the end of a run unless the job is in `Hanging`.
Threads are scheduled by the operating system and cron times do come; nothing is
assumed of the callers of start and stop.

### CronTimes

`CronExpression` and the side of `_run_loop` that reads the clock. A field is a
sequence of stars, values and ranges with steps; `NextAfter` searches minute by minute
as `next_after` does. The calendar is scaled by constants (minutes in an hour, hours
in a day, days with their month), so that a search covers it all; the thread computes,
sleeps, wakes on time or up to `MaxLate` ticks late, and computes again (`sleeper` is
where it is). A zone is an offset from UTC that may change once; offsets are not
negative, so that the scaled clock starts at zero. The property compares the sleeps
with what crontab means by an expression, not with `matches`.

### AutoScan

The worker of the scheduler goes through the stages of a scan in their order: the
window, the tracked traders, discovery and receipts, pools, transactions, swaps, the
pools of the reverse scan, its competitors, and the next run. `scan` has where it is
and its locals, which are gone when it ends. `Fail` is an exception of any stage or
the end of the process. The head of the chain grows, and a node may answer with one
that lags. `Discover` may miss receipts, because the gateway swallows their errors;
a range of blocks that cannot be read fails the scan.

Which contracts a reverse scan approves is left open, apart from what it can know:
they used a stored pool inside the window. That makes what the scorer does irrelevant
to these properties. Scans from the command line are not in this module: a scan by
hand above the highest stored block makes the scheduler skip what lies between, and
nothing in the repository promises otherwise.

Fairness: weak for the steps of the worker and for the growth of the chain;
`CronJobs` shows that the scheduler's runs come again and again.

### TraceDiscovery, ReverseScan

How the stages that `AutoScan` takes in one step work. `TraceDiscovery` walks through
the window in chunks. A node with the trace namespace is asked with one
`trace_filter` per batch of addresses; the others with one task per block, of which
`Concurrency` hold the semaphore. A task asks (`tracing`), is retried after a
transient error, raises when its retries are used up or the error is none the gateway
swallows, and maps the entries of its block to transactions (`mapping`); a bare
node gives entries without hashes, which are matched by their position among the
block's transactions, for which it has to be asked again. `asyncio.gather` raises with
the first task that failed and leaves the others of the chunk running, beside those of
the chunks that follow: `task` is over all blocks for that reason. `failed`
has the chunks that failed, which raise an exception after the last one; `lost` is
auxiliary: traces the node did not give and the code passed over.

`ReverseScan` builds the requests of forward, sequence and database scans with their
exclusions, asks for receipts in batches and then one by one for what is missing
(`AskAlone`: an `RpcError` or a `ValueError` is no receipt; `ReceiptsRaise` is any other
error, which ends the scan), collects the evidence of each candidate from matches and priced
swaps, scores it, and filters the result. What the node answers is a choice; what the
enrichment gives in USD is one of `Pricings`. Hashes are ordered, because receipts are
asked for in the order of the hashes. Amounts, weights and minima are not negative
(`HeuristicsAssumption`): the settings are `NonNegativeInt` and `NonNegativeDecimal`,
and an amount in USD is a product of what is not negative.

The chain does not change during a scan, and delays between retries are left out.
Fairness: weak for the scan, for each task and for the stages: requests end by an
answer or a timeout.

### SwapPricing, TradeEnrichment

`SwapPricing` has the pure part: the words of the four kinds of events to amounts and
a side, tokens put into one order, prices inferred in rounds as medians, amounts in
USD. Decimals are ratios in lowest terms; a word has `WordSize` values, so that signed
words and their boundary are met with small numbers. The samples of a price are a set
of records, one for each swap and side, so that equal prices count twice; `Nth` is the
element the code takes from the sorted list. Rounds are a recursive function over the
round number.

`TradeEnrichment` has the stages of `run_scan` after the receipts, one action each:
parse, factories and fees, pairs of tokens, pairs again, coins, token metadata and
prices, balances, blocks and bribes, persist. In each stage any set of calls may stay
without an answer, up to `MaxLost` in all; `unanswered` is auxiliary. `Raise` is a
request whose error no service swallows, or the end of the process. The tables are
written in one step and the next scan reads them, which is how a price, a label or a
number of decimals that was stored comes back. A row of swaps has the amount in USD cut
to the `UsdDigits` digits of its column (`Stored`); the fingerprint of a new swap is
that of the amount before it is cut, as in the code. With each row go, besides what is
stored, the log it comes from, the scan that added it and the swap before its amount
was cut (`log`, `scan`, `written`), and `history` has the windows of the scans:
auxiliary all, the code compares the stored values alone. So it cannot tell a swap that is scanned again from another
one with other values, and `DuplicatesHaveAReason` says when that happens: the values
are the same again unless an answer was lost, a price came from other swaps (the
windows differ, and neither side is a known amount of a stablecoin, which would be
its value in USD whatever the prices), the table told other decimals than the
token (`Indivisible`), or the amount has more digits than its column, which happens with
nothing lost and the same window.

`LogsAssumption` and `FactsAssumption` say what logs and pools are: words in their
range, one block for a transaction, two tokens and two balances of a pool, each perhaps
unknown, and what the four functions for coins answer. Nothing is assumed of how these
functions agree. Where they do not tell the token of an index (a metapool that has no
function for its kind of exchange, a coin out of range) the code takes the first answer
it gets. Nothing says which token such a swap should have, so `SidesAreTrades` claims
the tokens only where they are determined (`CoinsKnown`), the amounts and the direction
everywhere.

### TradersCleanup

The table of traders with everybody who changes it. A mutation is pending in
`deletes` as the number of rows that were there when it was submitted; when it is
applied, the subquery reads the tables of that moment. `JoinedRows` is what
`count(tx.trader_address)` is in ClickHouse: the columns of a `LEFT JOIN` without a
match are defaults and not `NULL`, so the count of a trader without transactions is
one for each of its rows. The mutation keeps the other rows in their order (`RowsAt`).
Scans are the `SELECT`s and `INSERT`s on the two tables in their order, forward
(`persist_payload`) and reverse (`persist_traders`).

### RpcBatch

`_make_batch_request_with_resilience` calls itself for the halves of a batch; the
slices still to be asked for are the list `todo`, which is the stack of the
recursion, and `results` is the concatenation of what has returned so far. `Align`
is `align_batch_responses` with its search for a base id. The case at its line 65 is
the one where that search has a single result, so it needs no case of its own.
What a server may answer is `Answers`: all answers in any order, or a subset with
an item without a usable id in front, or with an item twice. It is assumed that a
server does not change ids and that web3 numbers the requests of a call
consecutively from some `firstId`.

Fairness: weak for the progress of the call: every request ends by an answer or its
timeout.

## 4. Runs

Every run ends within three minutes on two cores, with all states explored.

| Run | Instance | Shows |
| --- | --- | --- |
| `persistence_one` | one process, three calls for one window that grows, beside one backfill with pages of one; asynchronous mutations | no duplicate swaps (but those whose amount is cut) or keys, no candidate skipped, a snapshot goes back only by an `UPDATE` decided on a stale one, the backfill ends |
| `persistence_two` | two processes, two calls, asynchronous mutations | foreign keys, what a returned call has stored, refinement of `EntityStore` |
| `persistence_ids` | two processes | violation: equal swap ids |
| `cron_jobs` | a scan that hangs, a cleanup that does not; five calls, two faults | runs never overlap, stop returns, nothing begins after it, the other job goes on |
| `cron_times` | a calendar of seven days, expressions of every shape, a thread up to three ticks late, offsets that stay, rise or fall | each matching minute is run once |
| `auto_scan` | six blocks, two runs over each window, three faults | no gap, catching up, the newest block is repaired, later runs scan for what earlier ones found |
| `auto_scan_start` | empty database | violation: the first scan starts at block 0 |
| `discovery` | four blocks in two chunks, three kinds of nodes, two tasks at a time, two attempts, batches of two receipts; four requests, three settings, three pricings | no transaction missed, receipts asked for again, a lost receipt only rejects, the summary is about what is persisted, the scan ends and leaves no task |
| `enrichment` | fourteen logs of all kinds, five tokens, six pools, two scans of four windows, two rounds, amounts of three binary digits, two lost answers | a swap is the trade of its log, prices ignore the order and need an anchor, payloads are sound, duplicates have a reason |
| `cleanup` | two scanners, three scans, two cleanups | active traders stay, inactive ones go |
| `cleanup_unused` | one scan, one cleanup, threshold 1 | violation: unused traders stay |
| `rpc_batch` | five requests, two attempts, any culprits, failures and answers | nothing is mismatched, every request has its place, only culprits are lost, the call ends |

Why the bounds are enough.

- Persistence: two payloads that share a dex, a token, a pool and a transaction make
  every table's "seen, not inserted" and "not seen, inserted" branch happen; a third
  has a price that is cut, a pool without snapshot and an unknown factory; two
  processes suffice for a read that is stale, and two calls for a repetition after a
  stop. Beside the backfill the calls scan one window that grows (`Rescans`): without
  an answer about a pool, with one, and with a newer one, so that snapshots come in
  every order and two mutations of a row can be pending at once; each payload has a
  swap twice and a swap that is cut. Pages of one address give the backfill two pages in each pass, so the cursor
  passes candidates that stay, that it completes and that a scan completes.
- Cron jobs: five calls are two restarts, one more than an old thread and a new one
  need.
- Cron times: the calendar has a leap day that is further away than the search
  goes, and weekdays that drift against the days; three ticks are more than a
  minute late.
- Scans: the windows are determined by the highest stored block, so six blocks with
  two gaps, three faults and two traders give every relation between a window, a
  failure and a found trader.
- Discovery: chunks of three and one block with two tasks at a time let a task of the
  first chunk wait, run and end while the second is traced, or after the scan raised;
  two transactions in a block tell positions apart; the chain has a creation, a
  destruction, calls that were reverted, and a router that trades on both pools.
- Enrichment: tokens lie at distance zero to three from the stablecoin with two
  rounds; one has no decimals, one none that are known; a pair is asked for twice,
  which two lost answers defeat once; one pool is a metapool that answers with other
  coins. Windows that are equal, that overlap and that are apart follow each other, and one
  has no logs; amounts in USD fit their column or are cut; one
  swap gives none of its stablecoin, so that its value depends on the other swaps.
- Cleanup: one trader without transactions, one that crosses the threshold, and
  repeated rows of both.
- Batches: five requests are halved into unequal halves, and these again.

Deadlock is not checked where calls are bounded and a system that was stopped, or
has used up its calls, really does nothing more.

What does not hold of the code, and is stated by the repository (`findings` of
`PROJECT.json`):

- *Ids of swaps.* Two processes compute `max(id) + 1` and use the same ids.
- *First automatic scan.* `max` over an empty table is 0 in ClickHouse, so the
  scan starts at block 0 instead of `EYWA_START_BLOCK`.
- *Unused traders.* With the threshold 1 the cleanup keeps traders without any
  transaction, which the comment of the query says it deletes.

More that the models show and no line of the repository denies, so they are hazards
and no findings. A cleanup that is applied between the insert of a trader and that of
its transactions removes a trader that is about to be active; transactions of
deleted traders keep a foreign key that points nowhere, which a rescan does not
repair. A swap that is scanned again is stored again when its amount in USD changed:
that is what `DuplicatesHaveAReason` lists, with a token of 0 decimals that is stored
with 18 (`decimals or 18`) as a reason of its own. Nothing has to change, though, for an
amount with more than 18 decimals: the code compares it uncut with the stored one, and
stores the swap once more with every rescan (`NoDuplicateSwaps` excepts such swaps,
`DuplicatesHaveAReason` names them). A stablecoin on one side prevents it
only with an amount: the value of a swap that gives 0 of its stablecoin is that of the
other side, by a price that comes from the other swaps of the window. A scan and the
backfill that both read a pool before either updates it may leave the older of the two
snapshots. As mutations are asynchronous, two calls of one scanning process, one after
the other, may do so too: the second reads the row before the `UPDATE` of the first is
applied.

## 5. Proofs

All theorems are checked by `tlapm` with Z3, Zenon and LS4; nothing is assumed
beyond the named `ASSUME`s of the modules.

| Theorem | Statement | Argument |
| --- | --- | --- |
| `TypeCorrect` (`TradingPersistenceProofs`) | `Spec => []TypeOK` | invariant; one lemma per statement |
| `Integrity` | `Spec => []ReferentialIntegrity` | `IntegrityInvariant` |
| `Refinement` | `Spec => ImplementsStore` | `IntegrityInvariant`; each statement is one action of the store or a stutter |
| `ReturnedIsComplete` | `Spec => []CommittedIsComplete` | `CompletenessInvariant` |
| `OneWriterKeysUnique` | `Spec => []PrimaryKeysUnique`, if `OneWriter` | `OneWriterInvariant` |
| `OneWriterSwapsExact` | `Spec => []NoDuplicateSwaps`, if `OneWriter` | the same; of cut swaps only the bound by all calls |
| `BackfillTypeCorrect` (`DatabaseBackfillProofs`) | `BackfillSpec => []BackfillTypeOK` | invariant; the steps of scans by the lemmas of `TradingPersistenceProofs` |
| `BackfillIntegrity` | `BackfillSpec => []ReferentialIntegrity` | an `UPDATE` of the backfill changes no fact |
| `BackfillRefinement` | `BackfillSpec => ImplementsStore` | the same: a stutter of the store |
| `BackfillKeepsReturned` | `BackfillSpec => []CommittedIsComplete` | `CompletenessInvariant` |
| `BackfillKeysUnique` | `BackfillSpec => []PrimaryKeysUnique`, if `OneWriter` | `OneWriterInvariant` |
| `BackfillSwapsExact` | `BackfillSpec => []NoDuplicateSwaps`, if `OneWriter` | the same |
| `BackfillSnapshots` | `BackfillSpec => SnapshotsGoBackOnlyIfStale` | `SnapshotInvariant` |
| `BackfillSkipsNone` | `BackfillSpec => []NoCandidateSkipped`, if `OneWriter` | `WaitingInvariant` |
| `NoOverlap` (`JobProofs`) | `Spec => []AtMostOneRun` | `CronInvariant` |
| `CronTypes` | `Spec => []TypeOK` | the same |
| `StopIsFinal` | `Spec => NothingBeginsAfterStop` | `StoppedThreadIsGone` |
| `TimesRunOnce` | `ClockSpec => []EveryTimeRunsOnce` | `ClockInvariant` |
| `CleanupTyped` | `CleanupSpec => []CleanupTypeOK` | invariant |
| `ActiveAreKept` | `CleanupSpec => ActiveTradersStay` | the subquery counts at least the stored transactions |
| `InactiveAreRemoved` | `CleanupSpec => InactiveTradersGo`, if `MoreThanOne` | with a single row it counts no more |
| `AutoTypes` (`AutoScanProofs`) | `Spec => []TypeOK` | `AutoInvariance` |
| `NoGap` | `Spec => []NothingMissed` | `AutoInvariance` |
| `LaterRunsUseEarlierFinds` | `Spec => []EarlierFindsAreScanned` | the same |
| `WindowIsComplete` (`ReverseScanProofs`) | `ScanSpec => []NoTransactionMissed` | `DiscoveryInvariant` |
| `ScanTyped` | `ScanSpec => []ScanTypeOK` | `ScanInvariant` |
| `EveryReceiptIsAskedFor` | `ScanSpec => []ReceiptsAskedAgain` | the same |
| `SummaryIsTrue` | `ScanSpec => []SummaryMatchesTraders` | the same |
| `LostReceiptsGiveNothing` | `ScanSpec => []LostReceiptsOnlyReject` | the same; a score only grows with its receipts |
| `NoMixUp` (`RpcBatchProofs`) | `Spec => []NeverMismatched` | `BatchInvariant`, `AlignSound` |
| `EveryRequestHasItsPlace` | `Spec => []Complete` | `BatchInvariant` |
| `BatchTypes` | `Spec => []TypeOK` | the same |
| `CulpritsAreIsolated` | `Spec => []OnlyPoisonIsLost` | `OnlyPoisonSoFar`, `AlignComplete` |
| `EnrichmentTyped` (`TradeEnrichmentProofs`) | `EnrichmentSpec => []EnrichmentTypeOK` | `EnrichmentInvariant` |
| `SidesTellTheTrades` | `EnrichmentSpec => []SidesAreTrades` | the same |
| `PricesHaveNoOrder` | `EnrichmentSpec => []PricesIgnoreOrder` | the same, with a bijection of samples |
| `PricesComeFromStablecoins` | `EnrichmentSpec => []PricesNeedAnAnchor` | the same, round by round |
| `PayloadsAreSound` | `EnrichmentSpec => []PayloadIsSound` | the same |
| `RescansAddNothing` | `EnrichmentSpec => []DuplicatesHaveAReason` | `NothingIsLost`, on top of `EnrichmentInvariant` |

Some of these have a hypothesis on a constant, under which the code can keep its
promise. `OneWriter` says that one process persists at a time: with two, checking for
a key and inserting it are not one step, and keys do repeat (`persistence_two` runs
such processes and does not claim these properties). `MoreThanOne` is a threshold of
at least two; below that the cleanup keeps unused traders, see `cleanup_unused`.

*Integrity.* That the foreign keys hold is not inductive: the insert of the swaps
keeps them only because the pools are there, which was established many statements
ago, perhaps by a `SELECT` that saw the row of another process. `SeenIsThere` says
that what a writer has seen is still there, `WrittenIsThere` that past each insert
everything of the payload that belongs to that table is there. Both survive steps of
others because no statement of these deletes, and of the backfill because its
mutations touch no key. `TableLemmas` has the facts on tables: what appending rows
and updating columns does to their keys.

*What was returned from.* A call that returned has stored each swap of its payload as
often as the payload has it, whoever else wrote meanwhile. `CompletenessInvariant` adds
that the counts a writer has read are at most the rows there are now and equal for
equal swaps (`CountsSeen`), and that the rows hold what the column gives back. The rows
of a swap never get fewer, so old counts stay lower bounds, and the insert adds at
least the difference. With one writer they are exact (`ReadIsFresh`, in
`OneWriterInvariant`): nothing moved between the count and the insert, so the insert
adds no more than the difference either, and what is inserted of each key is what was
not there. For a swap that is cut the count it finds is that of no row; what remains is
that one insert adds it at most as often as its payload has it, and that the inserts are
not more than the calls. The backfill reads and updates between the statements of a scan, but no key,
no swap and no count.

*Snapshots.* Whoever has still to write a snapshot, in the loop of a scan, in the list of
the backfill or as a mutation that is pending, had read one that is at most as new
(`SnapshotInvariant`; the backfill an empty one). So if the row has a newer one when the
mutation is applied, it is not the one that was read.

*Pages.* A candidate that waits is after the cursor as long as its pass goes on
(`WaitingInvariant`). A page has the first candidates after the cursor, which takes that
addresses have different ranks, and the cursor moves to the last of the page; the pass
ends with a page that is empty, so nobody is after the cursor any more. Scans beside it
may complete candidates but, with one writer, never make a candidate of a row that was
none (`CandidatesShrink`).

*Cron jobs.* Runs do not overlap because a worker, or a thread about to start one,
owns the lock (`LockInvariant`), and only `Release` gives it back. Nothing begins
after stop because a service that is off, whose stop has returned and where nothing
went wrong has no scheduler thread (`StoppedThreadIsGone`), and only such a thread
starts a worker.

*Cron times.* `ClockInvariant` says that the planned end of a sleep is what `NextAfter`
gave for its beginning, that it is later than the one before it, that the thread is
awake only from then on, and that a thread that died had no match within the search.
`NextAfterIsFirst` says that no earlier minute matches, and `WantedMatches` that to
match is what crontab means by the expression; so between two ends nothing was wanted.

*Cleanup.* The subquery counts, for a trader, its rows times those of its transactions.
A trader with enough transactions has enough joined rows whatever was stored twice
(`ActiveIsNoCandidate`). A trader with one row and too few transactions has too few
joined rows if the threshold is above one, which the row of a trader without
transactions reaches (`InactiveIsCandidate`). `Applied` says what a mutation leaves:
the rows it keeps in their order, and all rows inserted after it was submitted.

*Scans.* What makes `NothingMissed` inductive is where a window lies
(`WindowFits`: it begins at or below the highest stored block and ends at or above it), who is
scanned for (`TradersKnown`: the request has every trader known before the window),
and that what was found and what was lost is together all of the window that belongs
to them (`FoundIsComplete`). The highest stored block then rises only to a block that
the same insert brings together with everything below it.

*Discovery.* `DiscoveryInvariant` says of the task of each block that what it returned,
or has in hand, is what the chain has there, except what is in `lost` (`TasksSound`:
with a bare node this is the argument about positions); of the chunks that were passed,
that their traces are complete as long as no chunk failed (`TracesSound`); and of the
chunk `trace_filter` is asked for, that it has the traces of the addresses asked for so
far (`FilterSound`). A task that outlives its chunk does no harm because nothing reads
what it returns any more.

*Reverse scan.* `ScanInvariant` adds to this the types of both parts (`DiscoveryTyped`)
and `StageSound`: the receipts that are wanted are, together, those still to be asked
for, those left open by a batch, those that are known and those asked for alone in
vain; and the result is that of some set of approved candidates, computed from the
receipts that are known. That a lost receipt approves nobody is that each signal of a
candidate, hence its score, is at least as large with more receipts: the signals are
cardinalities, sums and maxima over sets that only grow, of numbers that are not
negative. A sum grows with its set because its value does not depend on the order of
the summation, which `TableLemmas` shows by the least size of a set where it would.

*Batches.* `AlignSound`: if the answer has a unique candidate base, that base is the
id of the first request, because this id always is a candidate; so each item lands
at its request. That needs the least and the greatest id to exist, which follows
from the well-foundedness of the naturals. `AlignComplete`: an answer with all
requests has that single candidate, because the least and the greatest id are as far
apart as the batch is long; it has one item per request because an injection between
finite sets of one size is onto. `SlicesContinue` says that the slices to be asked
for begin where the results end and follow each other without a gap; it is what makes
"the k-th result is the answer of the k-th request" inductive, through halving too.

*Enrichment.* `EnrichmentInvariant` says of the stages between logs and payload: an
event is what was read from its log, from the stage of the tokens on with two tokens
found for it, and later put into order (`EventsSound`, with `Resolved` for what a token
can be); a pool has, on each side, the token it has on the chain or none, and both of
them after the second attempt unless a call was never answered (`PairsSound`); the
prices are those of the events (`PricesSound`); a snapshot fits its column
(`SnapshotsSound`); the payload is built of all that (`PayloadSound`). That prices
ignore the order is a bijection: turning the events around renames the samples of each
token and leaves their prices, and a median depends only on how many samples are at
most, or less than, a price. This holds for one round, and for all rounds because the
recursive function over rounds is the only one with its first value and its steps.
`PricesComeFromStablecoins` follows the rounds in the same way: what a round can price
lies one swap further than what the round before could. The median needs that some
sample is in the middle, and ratios in lowest terms that the greatest common divisor
exists; both are facts about finite sets of naturals.

*Scanning again.* `RescansAddNothing` compares rows of two scans, perhaps with many
others between them, and the later scan has read what the earlier ones stored. The
invariant therefore does not compare scans with each other but each of them with what a
scan would find that gets every answer, which is a function of the window alone:
`ExpectedEvent`, `ExpectedMetadata`, `ExpectedPrices`, `ExpectedSwap`. `NothingIsLost`
says that, as long as `lost` is 0, every stage works out just that, and so does every row
of the table of tokens, which is what the next scan starts from. Of a token without
decimals nothing is said but whether it is a stablecoin, because the table gives it 18;
of the prices and amounts of a window that has one (`Indivisible`) nothing at all. The
step from stage to stage needs that prices and amounts use no more of the metadata than
the decimals and the stablecoins of the tokens in question (`Agrees`, `SamePricing`,
`SameUsd`). Of a row the invariant says that what was written is the swap of its log and what is
stored is that with its amount cut, and that the table has each swap of the window of
that scan that the column keeps (`Kept`) as often as the window has logs that become it
(`Twins`). A later scan inserts the k-th copy of a swap only if the table has fewer than
k. Where the windows have the same logs, or a stablecoin makes the value independent of
them, the logs that become the same swap are all in both windows, for they are of one
transaction and so of one block (`TwinsWithin`); so their rows are there already
(`NoSecondRow`). That the rows suffice after an insertion is a count of ranks
(`RowsAfter`, with `RanksAbove`).

Only model-checked are the liveness properties (`StopReturns`, `RunsAgain`, `CaughtUp`,
`NewestGetsItsSwaps`, `Terminates`, `BackfillEnds`, `ScanEnds`) and the violations.
Liveness and `ENABLED` are out of the prover's reach, and so are recursive operators and
inductions over data for an arbitrary predicate. What a recursive function computes is therefore shown by the least
number at which the claim would fail; no module that is proved about declares a
`RECURSIVE` operator.

## 6. Not modelled

Configuration and wiring (they give constants their values and construct objects),
migrations (DDL applied once), deployment and tests. The health endpoint keeps no
state. Of the modelled components: decoding of ABI data and hexadecimal text, the text
of labels, scores and summaries, logging, HTTP, delays between retries; priority fees,
gas and timestamps, which copy what a receipt or a block says; rounding of decimals
to 28 digits; chain reorganisations, which the code does not look for. Three limits of
what is modelled: a `SELECT` over more than a thousand keys is several statements and
is one action here, the subquery of the cleanup reads two tables at one moment, and the
scans of `AutoScan` are those of the scheduler alone.
