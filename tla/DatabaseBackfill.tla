-------------------------- MODULE DatabaseBackfill --------------------------
(***************************************************************************)
(* DatabaseBackfillService.backfill_database: a command that walks through *)
(* the tokens without a label, then through the pools without a liquidity  *)
(* snapshot, page by page, asks the node for what is missing and updates   *)
(* the rows, while the scans of TradingPersistence write the same tables.  *)
(*                                                                         *)
(* Abstractions.  What the node answers is a choice: any call may fail.    *)
(* A pool whose row is incomplete has no snapshot at all, as every writer  *)
(* sets the three columns together.  The amounts of a swap with two tokens *)
(* are known.  A page counts addresses, not rows, and the totals are the   *)
(* sets of the addresses that were counted.                                *)
(***************************************************************************)
EXTENDS TradingPersistence, FiniteSetsExt

CONSTANTS
    Rank,               \* ORDER BY contract_address: the place of an address
    Hints,              \* known_stablecoin_hints
    ChunkSize,          \* DEFAULT_BACKFILL_CHUNK_SIZE
    MaxBackfills        \* bound: number of backfill_database calls

ASSUME RankAssumption ==
    /\ Rank \in [Tokens \cup Pools -> Nat \ {0}]
    /\ \A a, b \in Tokens \cup Pools : Rank[a] = Rank[b] => a = b
ASSUME BackfillAssumption ==
    Hints \subseteq Tokens /\ ChunkSize \in Nat \ {0} /\ MaxBackfills \in Nat

VARIABLES
    stage,              \* the next statement of the backfill
    cursor,             \* rank of the last address of the last page; 0: None
    page,               \* addresses of the page
    metadata,           \* what was resolved for it
    updates,            \* its UPDATEs still to be made
    stats,              \* BackfillStats
    backfills,          \* backfill_database calls so far
    waiting             \* auxiliary, for each pass: candidates when it began,
                        \* that no page contained yet

backfill == <<stage, cursor, page, metadata, updates, stats, backfills, waiting>>
allVars == <<vars, backfill>>
-----------------------------------------------------------------------------
NothingResolved ==
    [labels |-> {}, stables |-> {}, blocks |-> [p \in Pools |-> NoSnapshot]]
NoUpdates == [tokens |-> {}, pools |-> {}]
NoItems == [scanned |-> {}, updated |-> {}, skipped |-> {}, unresolved |-> {}]
NothingWaits == [tokens |-> {}, pools |-> {}]

BackfillInit ==
    /\ Init
    /\ stage = "idle"
    /\ cursor = 0
    /\ page = {}
    /\ metadata = NothingResolved
    /\ updates = NoUpdates
    /\ stats = [tokens |-> NoItems, pools |-> NoItems]
    /\ backfills = 0
    /\ waiting = NothingWaits

(* label IS NULL OR label = '' OR label LIKE 'unknown_token_%'             *)
TokenCandidates == Addresses({row \in Range(tokens) : ~row.named})
PoolCandidates == Addresses({row \in Range(pools) : row.snapshot = NoSnapshot})

(* Fault: the rows come in the opposite order.                             *)
LastPageAfter(candidates, last) ==
    LET rest == {a \in candidates : Rank[a] > last} IN
    {a \in rest : Cardinality({b \in rest : Rank[b] >= Rank[a]}) <= ChunkSize}

(* ORDER BY contract_address LIMIT chunk_size, of the rows after a cursor. *)
PageAfter(candidates, last) ==
    LET rest == {a \in candidates : Rank[a] > last} IN
    {a \in rest : Cardinality({b \in rest : Rank[b] <= Rank[a]}) <= ChunkSize}

(* Fault: the cursor stays where it is.                                    *)
SameCursor(addresses) == cursor
LastOf(addresses) == Max({Rank[a] : a \in addresses})

(* A dict of the rows by address: of several rows with one address, any.   *)
RowsByAddress(rows, addresses) ==
    {read \in [addresses \cap Addresses(rows) -> rows] :
        \A a \in DOMAIN read : read[a].address = a}

Step(from, to) == stage = from /\ stage' = to

(* What an apply adds to the totals once its updates are made.             *)
Count(pass, updated, skipped, unresolved) ==
    stats' = [stats EXCEPT ![pass].updated = @ \cup updated,
                           ![pass].skipped = @ \cup skipped,
                           ![pass].unresolved = @ \cup unresolved]

NextPage(pass, candidates) ==
    LET next == PageAfter(candidates, cursor) IN
    /\ next # {}
    /\ page' = next
    /\ cursor' = LastOf(next)
    /\ stats' = [stats EXCEPT ![pass].scanned = @ \cup next]
    /\ waiting' = [waiting EXCEPT ![pass] = @ \ next]
-----------------------------------------------------------------------------
StartBackfill ==
    /\ stage \in {"idle", "done"}
    /\ backfills < MaxBackfills
    /\ stage' = "tokens"
    /\ cursor' = 0
    /\ stats' = [tokens |-> NoItems, pools |-> NoItems]
    /\ backfills' = backfills + 1
    /\ waiting' = [tokens |-> TokenCandidates, pools |-> {}]
    /\ UNCHANGED <<vars, page, metadata, updates>>

(* _load_token_candidates_batch                                            *)
LoadTokens ==
    /\ Step("tokens", "resolveTokens")
    /\ updates.tokens = {}
    /\ NextPage("tokens", TokenCandidates)
    /\ UNCHANGED <<vars, metadata, updates, backfills>>

(* resolve_token_metadata: the rows first, then the symbols that are still *)
(* missing from the node.                                                  *)
ResolveTokens ==
    /\ Step("resolveTokens", "selectTokens")
    /\ \E read \in RowsByAddress(Range(tokens), page), answered \in SUBSET page :
         LET known == {a \in DOMAIN read : read[a].named} IN
         metadata' = [metadata EXCEPT
                        !.labels = known \cup answered,
                        !.stables = (page \cap Hints)
                                      \cup {a \in DOMAIN read : read[a].stable}]
    /\ UNCHANGED <<vars, cursor, page, updates, stats, backfills, waiting>>

Columns(row) ==
    (IF ~row.named /\ row.address \in metadata.labels THEN {"label"} ELSE {})
    \cup (IF row.address \in metadata.stables /\ ~row.stable THEN {"is_stable"} ELSE {})

(* _apply_token_backfill_batch: the rows are read again.                   *)
SelectTokenRows ==
    /\ Step("selectTokens", "tokens")
    /\ \E read \in RowsByAddress(Range(tokens), page) :
         LET changed == {a \in DOMAIN read : Columns(read[a]) # {}}
             unresolved == {a \in DOMAIN read : Columns(read[a]) = {} /\ ~read[a].named}
         IN
         /\ updates' = [updates EXCEPT !.tokens =
                          {[address |-> a, columns |-> Columns(read[a])] : a \in changed}]
         /\ Count("tokens", changed, page \ (changed \cup unresolved), unresolved)
    /\ UNCHANGED <<vars, cursor, page, metadata, backfills, waiting>>

(* One UPDATE of one or both columns.                                      *)
UpdateToken ==
    /\ Step("tokens", "tokens")
    /\ \E u \in updates.tokens :
         /\ MutateTokens(u.columns, {u.address})
         /\ updates' = [updates EXCEPT !.tokens = @ \ {u}]
    /\ UNCHANGED <<dexes, traders, pools, transactions, swaps, poolMutations,
                   locals, starts, committed>>
    /\ UNCHANGED <<cursor, page, metadata, stats, backfills, waiting>>

TokensFinished ==
    /\ Step("tokens", "pools")
    /\ updates.tokens = {}
    /\ PageAfter(TokenCandidates, cursor) = {}
    /\ cursor' = 0
    /\ page' = {}
    /\ metadata' = NothingResolved
    /\ waiting' = [tokens |-> waiting.tokens \cap TokenCandidates,
                   pools |-> PoolCandidates]
    /\ UNCHANGED <<vars, updates, stats, backfills>>
-----------------------------------------------------------------------------
(* _load_pool_candidates_batch                                             *)
LoadPools ==
    /\ Step("pools", "loadContexts")
    /\ updates.pools = {}
    /\ NextPage("pools", PoolCandidates)
    /\ UNCHANGED <<vars, metadata, updates, backfills>>

(* The blocks of the swaps of a pool that have both tokens.                *)
TradedBlocks(pool) ==
    {t.block : t \in {u \in Range(transactions) :
        \E row \in Range(swaps) :
            /\ row.swap.pool = pool /\ row.swap.tx = u.hash
            /\ Cardinality(row.swap.tokens) = 2}}

(* _load_latest_pool_contexts                                              *)
LoadContexts ==
    /\ Step("loadContexts", "resolvePools")
    /\ metadata' = [metadata EXCEPT !.blocks =
         [p \in Pools |-> IF p \in page /\ TradedBlocks(p) # {}
                          THEN Max(TradedBlocks(p)) ELSE NoSnapshot]]
    /\ UNCHANGED <<vars, cursor, page, updates, stats, backfills, waiting>>

(* The pools a block is known for.                                         *)
Dated == {p \in Pools : metadata.blocks[p] # NoSnapshot}

(* _build_pool_backfill_events, _resolve_pool_snapshots: a pool with a fee *)
(* or with two tokens is supported; a snapshot needs the balance and the   *)
(* price of both tokens at the block of the latest swap.                   *)
ResolvePools ==
    /\ Step("resolvePools", "selectPools")
    /\ \E withFee \in SUBSET Dated, withTokens \in SUBSET Dated, valued \in SUBSET Dated :
         LET complete == {p \in (withFee \cup withTokens) \cap valued : metadata.blocks[p] > 0} IN
         /\ metadata' = [metadata EXCEPT !.blocks =
              [p \in Pools |-> IF p \in complete THEN @[p] ELSE NoSnapshot]]
         /\ Count("pools", {}, {}, page \ complete)
    /\ UNCHANGED <<vars, cursor, page, updates, backfills, waiting>>

(* _row_has_complete_snapshot                                              *)
IncompleteRows(read) == {p \in DOMAIN read : read[p].snapshot = NoSnapshot}

(* _apply_pool_snapshot_batch: the rows are read again ("read" is          *)
(* auxiliary: what was found there).                                       *)
SelectPoolRows ==
    /\ Step("selectPools", "pools")
    /\ \E read \in RowsByAddress(Range(pools), Dated) :
         LET incomplete == IncompleteRows(read) IN
         /\ updates' = [updates EXCEPT !.pools =
              {[address |-> p, snapshot |-> metadata.blocks[p],
                read |-> read[p].snapshot] : p \in incomplete}]
         /\ Count("pools", incomplete, Dated \ incomplete, {})
    /\ UNCHANGED <<vars, cursor, page, metadata, backfills, waiting>>

UpdatePool ==
    /\ Step("pools", "pools")
    /\ \E u \in updates.pools :
         /\ MutatePools(u.address, u.snapshot, u.read)
         /\ updates' = [updates EXCEPT !.pools = @ \ {u}]
    /\ UNCHANGED <<dexes, traders, tokens, transactions, swaps, tokenMutations,
                   locals, starts, committed>>
    /\ UNCHANGED <<cursor, page, metadata, stats, backfills, waiting>>

PoolsFinished ==
    /\ Step("pools", "done")
    /\ updates.pools = {}
    /\ PageAfter(PoolCandidates, cursor) = {}
    /\ page' = {}
    /\ metadata' = NothingResolved
    /\ UNCHANGED <<vars, cursor, updates, stats, backfills, waiting>>

(* A statement or a call raises, or the command is stopped.                *)
AbortBackfill ==
    /\ stage \notin {"idle", "done"}
    /\ stage' = "idle"
    /\ cursor' = 0 /\ page' = {} /\ waiting' = NothingWaits
    /\ metadata' = NothingResolved
    /\ updates' = NoUpdates
    /\ stats' = [tokens |-> NoItems, pools |-> NoItems]
    /\ UNCHANGED <<vars, backfills>>

BackfillStep ==
    \/ LoadTokens \/ ResolveTokens \/ SelectTokenRows \/ UpdateToken \/ TokensFinished
    \/ LoadPools \/ LoadContexts \/ ResolvePools \/ SelectPoolRows \/ UpdatePool
    \/ PoolsFinished

BackfillNext ==
    \/ Next /\ UNCHANGED backfill
    \/ StartBackfill
    \/ BackfillStep
    \/ AbortBackfill

(* Every statement and every call of the node ends, and the command goes   *)
(* on; nothing forces it to be stopped, or a scan to run.                  *)
BackfillSpec == BackfillInit /\ [][BackfillNext]_allVars /\ WF_allVars(BackfillStep)
-----------------------------------------------------------------------------
Stages ==
    {"idle", "tokens", "resolveTokens", "selectTokens", "pools",
     "loadContexts", "resolvePools", "selectPools", "done"}

Items == Tokens \cup Pools
TokenUpdate == [address : Tokens, columns : SUBSET {"label", "is_stable"}]
PoolUpdate == [address : Pools, snapshot : Nat, read : Nat \cup {NoSnapshot}]
Totals ==
    [scanned : SUBSET Items, updated : SUBSET Items,
     skipped : SUBSET Items, unresolved : SUBSET Items]

(* The state has its type: the tables and the scans of TradingPersistence, *)
(* and the locals of the backfill; no statement of it writes anything that *)
(* the tables cannot hold.                                                 *)
BackfillTypeOK ==
    /\ TypeOK
    /\ stage \in Stages
    /\ cursor \in Nat
    /\ page \subseteq Items
    /\ metadata \in [labels : SUBSET Items, stables : SUBSET Items,
                     blocks : [Pools -> Nat \cup {NoSnapshot}]]
    /\ updates \in [tokens : SUBSET TokenUpdate, pools : SUBSET PoolUpdate]
    /\ stats \in [tokens : Totals, pools : Totals]
    /\ backfills \in Nat
    /\ waiting \in [tokens : SUBSET Tokens, pools : SUBSET Pools]

(* The pages skip no candidate: when the command has finished, each token  *)
(* and pool that lacked its label or snapshot when its pass began was in a *)
(* page, or a scan completed it meanwhile, although the candidates change  *)
(* under the cursor (rows completed by the pass itself and by scans leave  *)
(* them, those that stay unresolved remain).  Holds for one scanning       *)
(* process: two may insert one token twice, without a label after it had   *)
(* one.                                                                    *)
NoCandidateSkipped ==
    stage = "done" =>
        /\ waiting.tokens \cap TokenCandidates = {}
        /\ waiting.pools \cap PoolCandidates = {}

(* The snapshot of a pool is replaced by an older one only by an UPDATE    *)
(* that was decided on another snapshot than the row has when the UPDATE   *)
(* is applied (_update_existing_pool_liquidity_snapshot and the backfill   *)
(* compare with what they read statements before).  Another UPDATE of the  *)
(* row was then applied in between: of another process, or, as mutations   *)
(* are asynchronous by default, of an earlier call of the same process.    *)
(* An UPDATE decided on what the row has never takes its snapshot back.    *)
DecidedOnOther(row) ==
    \/ /\ poolMutations # <<>> /\ poolMutations' = Tail(poolMutations)
       /\ Head(poolMutations).address = row.address
       /\ Head(poolMutations).read # row.snapshot
    \/ \E u \in updates.pools \ updates'.pools :
         u.address = row.address /\ u.read # row.snapshot
    \/ \E w \in Writers :
         /\ row.address \in Addresses(todo[w].snapshots \ todo'[w].snapshots)
         /\ seen[w].snapshots[row.address] # row.snapshot

SnapshotsGoBackOnlyIfStale ==
    [][\A i \in DOMAIN pools :
        pools'[i].snapshot < pools[i].snapshot => DecidedOnOther(pools[i])]_allVars

(* A backfill comes to its end, although what it cannot resolve stays a    *)
(* candidate: the cursor passes it.                                        *)
BackfillEnds == []<>(stage \in {"idle", "done"})
=============================================================================
