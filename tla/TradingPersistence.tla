------------------------- MODULE TradingPersistence -------------------------
(***************************************************************************)
(* TradingPersistenceService._persist_payload_sync: processes (the scan    *)
(* worker of the API, the command line scans) that each persist a payload  *)
(* one SQL statement at a time into the same ClickHouse tables.            *)
(*                                                                         *)
(* One action is one statement.  ClickHouse has no transactions: the       *)
(* rollback of session_scope undoes nothing, so an exception or a crash    *)
(* between two statements (Abort) leaves what was written so far.          *)
(* MergeTree enforces neither primary nor foreign keys, so a table is a    *)
(* sequence of rows in the order of their insertion.  An UPDATE is a       *)
(* mutation: unless the server runs with mutations_sync, it is applied     *)
(* later, in the order of submission, to the rows that were there when it  *)
(* was submitted.                                                          *)
(*                                                                         *)
(* Abstractions.  Columns no statement reads back are left out (labels of  *)
(* dexes and traders, fee tiers, decimals, bribes).  A token's label is    *)
(* known or a placeholder ("named").  A complete snapshot of a pool is its *)
(* block number.  Side, amounts and usd_amount of a swap are one value     *)
(* ("data"), and StoredData is what the Decimal(38, 18) column gives back  *)
(* for it.                                                                 *)
(***************************************************************************)
EXTENDS Integers, SequencesExt

CONSTANTS
    Writers,            \* processes that persist payloads
    Dexes, Traders, Tokens, Pools, Txs,     \* addresses and hashes
    SwapData,           \* side, amounts and usd_amount of a swap
    StoredData,         \* [SwapData -> SwapData], what reading a row returns
    Payloads,           \* the payloads the scans build
    SeedTraders,        \* traders inserted by hand (README, step 6)
    MutationsSync,      \* mutations_sync of the ClickHouse server
    MaxStarts           \* bound: number of persist_payload calls

NoSnapshot == -1        \* liquidity_snapshot_block_number IS NULL

TokenWrite == [address : Tokens, named : BOOLEAN, stable : BOOLEAN]
PoolWrite == [address : Pools, dex : Dexes, snapshot : Nat \cup {NoSnapshot}]
TransactionWrite == [hash : Txs, block : Nat, trader : Traders]
SwapWrite == [tx : Txs, pool : Pools, tokens : SUBSET Tokens, data : SwapData]
SwapRow == [id : Nat, swap : SwapWrite]

TradePayload ==
    [dexes : SUBSET Dexes, tokens : SUBSET TokenWrite, pools : SUBSET PoolWrite,
     transactions : SUBSET TransactionWrite, swaps : Seq(SwapWrite)]

Addresses(rows) == {row.address : row \in rows}
Hashes(rows) == {row.hash : row \in rows}

(* What build_payload guarantees: its rows are the values of dicts, it     *)
(* collects the dex, the tokens and the pool of every event, and drops a   *)
(* swap whose transaction it could not build.                              *)
Built(p) ==
    /\ \A x, y \in p.tokens : x.address = y.address => x = y
    /\ \A x, y \in p.pools : x.address = y.address => x = y
    /\ \A x, y \in p.transactions : x.hash = y.hash => x = y
    /\ \A pool \in p.pools : pool.dex \in p.dexes
    /\ \A i \in DOMAIN p.swaps :
         /\ p.swaps[i].tx \in Hashes(p.transactions)
         /\ p.swaps[i].pool \in Addresses(p.pools)
         /\ p.swaps[i].tokens \subseteq Addresses(p.tokens)

Finite(p) ==
    /\ IsFiniteSet(p.dexes) /\ IsFiniteSet(p.tokens)
    /\ IsFiniteSet(p.pools) /\ IsFiniteSet(p.transactions)

ASSUME PayloadsAssumption ==
    \A p \in Payloads : p \in TradePayload /\ Built(p) /\ Finite(p)
ASSUME StoredDataAssumption ==      \* what was read back is stored exactly
    /\ StoredData \in [SwapData -> SwapData]
    /\ \A data \in SwapData : StoredData[StoredData[data]] = StoredData[data]
ASSUME SeedAssumption == SeedTraders \subseteq Traders /\ IsFiniteSet(SeedTraders)
ASSUME BoundAssumption == MutationsSync \in BOOLEAN /\ MaxStarts \in Nat

VARIABLES
    dexes, traders,             \* sequences of factories, of addresses
    tokens, pools, transactions, swaps,     \* sequences of rows
    tokenMutations, poolMutations,          \* submitted, not yet applied
    pc, payload, seen, todo,    \* of each writer: the next statement, its
                                \* argument, what it read, its pending updates
    starts,                     \* persist_payload calls so far
    committed                   \* payloads some call returned from

tables == <<dexes, traders, tokens, pools, transactions, swaps>>
mutations == <<tokenMutations, poolMutations>>
locals == <<pc, payload, seen, todo>>
vars == <<tables, mutations, locals, starts, committed>>
-----------------------------------------------------------------------------
(* The keys present in the tables.                                         *)
DexKeys == Range(dexes)
TraderKeys == Range(traders)
TokenKeys == Addresses(Range(tokens))
PoolKeys == Addresses(Range(pools))
TransactionKeys == Hashes(Range(transactions))
MaxSwapId ==
    IF swaps = <<>> THEN 0
    ELSE Max({row.id : row \in Range(swaps)})

Stored(swap) == [swap EXCEPT !.data = StoredData[swap.data]]

(* The Counter of _select_existing_swap_fingerprints, for one fingerprint. *)
RowsOf(swap) == Cardinality({i \in DOMAIN swaps : swaps[i].swap = swap})

Insert(table, rows) == table \o SetToSeq(rows)
-----------------------------------------------------------------------------
(* Locals of a writer: what its SELECTs returned.                          *)
NothingSeen ==
    [dexes |-> {}, txs |-> {}, traders |-> {}, tokens |-> {}, unnamed |-> {},
     pools |-> {}, snapshots |-> [a \in Pools |-> NoSnapshot],
     swaps |-> <<>>, maxId |-> 0]

NothingToDo == [labels |-> {}, snapshots |-> {}]

Idle == [dexes |-> {}, tokens |-> {}, pools |-> {}, transactions |-> {}, swaps |-> <<>>]

Init ==
    /\ traders = SetToSeq(SeedTraders)
    /\ dexes = <<>> /\ tokens = <<>> /\ pools = <<>>
    /\ transactions = <<>> /\ swaps = <<>>
    /\ tokenMutations = <<>> /\ poolMutations = <<>>
    /\ pc = [w \in Writers |-> "idle"]
    /\ payload = [w \in Writers |-> Idle]
    /\ seen = [w \in Writers |-> NothingSeen]
    /\ todo = [w \in Writers |-> NothingToDo]
    /\ starts = 0
    /\ committed = {}

NewTransactions(w) ==
    {t \in payload[w].transactions : t.hash \notin seen[w].txs}
NewTokens(w) == {t \in payload[w].tokens : t.address \notin seen[w].tokens}
NewPools(w) == {p \in payload[w].pools : p.address \notin seen[w].pools}
(* Fault: a trader that is known stands for all of them.                   *)
NoNewTradersIfOneIsKnown(w) ==
    IF seen[w].traders # {} THEN {} ELSE {t.trader : t \in NewTransactions(w)}
NewTraders(w) == {t.trader : t \in NewTransactions(w)} \ seen[w].traders

(* _update_existing_token_labels: a known label replaces a placeholder.    *)
LabelsToUpdate(w) ==
    {t.address : t \in {u \in payload[w].tokens :
                           u.named /\ u.address \in seen[w].unnamed}}

StableTokens(w) == {t.address : t \in {u \in payload[w].tokens : u.stable}}

(* Fault: an incomplete snapshot counts.                                   *)
IncompleteSnapshotsToUpdate(w) ==
    {p \in payload[w].pools :
        /\ p.address \in seen[w].pools
        /\ p.snapshot >= seen[w].snapshots[p.address]}

(* Fault: a snapshot is not compared with the one that was read.           *)
EverySnapshotToUpdate(w) ==
    {p \in payload[w].pools :
        p.address \in seen[w].pools /\ p.snapshot # NoSnapshot}

(* _update_existing_pool_liquidity_snapshot: only complete snapshots, and  *)
(* none older than the one that was read.                                  *)
SnapshotsToUpdate(w) ==
    {p \in payload[w].pools :
        /\ p.address \in seen[w].pools
        /\ p.snapshot # NoSnapshot
        /\ p.snapshot >= seen[w].snapshots[p.address]}

ValidTransactions(w) == seen[w].txs \cup Hashes(NewTransactions(w))
ValidPools(w) == seen[w].pools \cup Addresses(NewPools(w))

(* Faults: an off-by-one in the count; equal swaps merged into one.        *)
OneSwapTooMany(w) ==
    LET list == payload[w].swaps IN
    {i \in DOMAIN list :
        Cardinality({j \in 1..i : list[j] = list[i]}) >= seen[w].swaps[i]}

EqualSwapsMerged(w) ==
    LET list == payload[w].swaps IN
    {i \in DOMAIN list :
        seen[w].swaps[i] = 0 /\ \A j \in 1..(i - 1) : list[j] # list[i]}

(* _build_new_swaps: the k-th swap of a fingerprint is new when fewer than *)
(* k rows have that fingerprint.                                           *)
NewSwapIndices(w) ==
    LET list == payload[w].swaps IN
    {i \in DOMAIN list :
        /\ list[i].tx \in ValidTransactions(w)
        /\ list[i].pool \in ValidPools(w)
        /\ Cardinality({j \in 1..i : list[j] = list[i]}) > seen[w].swaps[i]}

(* Fault: the ids start at max(Swap.id).                                   *)
RowsFromMaxSwapId(w) ==
    {[id |-> seen[w].maxId + Cardinality({j \in NewSwapIndices(w) : j < i}),
      swap |-> Stored(payload[w].swaps[i])] : i \in NewSwapIndices(w)}

(* ids are handed out in the order of the payload, from max(Swap.id) + 1.  *)
NewSwapRows(w) ==
    {[id |-> seen[w].maxId + Cardinality({j \in NewSwapIndices(w) : j <= i}),
      swap |-> Stored(payload[w].swaps[i])] : i \in NewSwapIndices(w)}
-----------------------------------------------------------------------------
Goto(w, from, to) == pc[w] = from /\ pc' = [pc EXCEPT ![w] = to]
Read(w, reads) == seen' = [seen EXCEPT ![w] = reads]

Start(w) ==
    /\ starts < MaxStarts
    /\ Goto(w, "idle", "selectDexes")
    /\ \E p \in Payloads : payload' = [payload EXCEPT ![w] = p]
    /\ starts' = starts + 1
    /\ UNCHANGED <<tables, mutations, seen, todo, committed>>

SelectDexes(w) ==
    /\ Goto(w, "selectDexes", "insertDexes")
    /\ Read(w, [seen[w] EXCEPT !.dexes = payload[w].dexes \cap DexKeys])
    /\ UNCHANGED <<tables, mutations, payload, todo, starts, committed>>

InsertDexes(w) ==
    /\ Goto(w, "insertDexes", "selectTransactions")
    /\ dexes' = Insert(dexes, payload[w].dexes \ seen[w].dexes)
    /\ UNCHANGED <<traders, tokens, pools, transactions, swaps, mutations,
                   payload, seen, todo, starts, committed>>

SelectTransactions(w) ==
    /\ Goto(w, "selectTransactions", "selectTraders")
    /\ Read(w, [seen[w] EXCEPT !.txs =
                  Hashes(payload[w].transactions) \cap TransactionKeys])
    /\ UNCHANGED <<tables, mutations, payload, todo, starts, committed>>

(* Only the traders of transactions that are not there yet are looked up.  *)
SelectTraders(w) ==
    /\ Goto(w, "selectTraders", "insertTraders")
    /\ Read(w, [seen[w] EXCEPT !.traders =
                  {t.trader : t \in NewTransactions(w)} \cap TraderKeys])
    /\ UNCHANGED <<tables, mutations, payload, todo, starts, committed>>

InsertTraders(w) ==
    /\ Goto(w, "insertTraders", "selectTokens")
    /\ traders' = Insert(traders, NewTraders(w))
    /\ UNCHANGED <<dexes, tokens, pools, transactions, swaps, mutations,
                   payload, seen, todo, starts, committed>>

(* The rows come back as a dict: of several rows with one address, the     *)
(* label of any of them is kept.                                           *)
SelectTokens(w) ==
    LET found == Addresses(payload[w].tokens) \cap TokenKeys
        may(a, named) ==
            \E row \in Range(tokens) : row.address = a /\ row.named = named
    IN
    /\ Goto(w, "selectTokens", "insertTokens")
    /\ \E unnamed \in SUBSET found :
         /\ \A a \in found : may(a, a \notin unnamed)
         /\ Read(w, [seen[w] EXCEPT !.tokens = found, !.unnamed = unnamed])
    /\ UNCHANGED <<tables, mutations, payload, todo, starts, committed>>

InsertTokens(w) ==
    /\ Goto(w, "insertTokens", "updateLabels")
    /\ tokens' = Insert(tokens, NewTokens(w))
    /\ todo' = [todo EXCEPT ![w].labels = LabelsToUpdate(w)]
    /\ UNCHANGED <<dexes, traders, pools, transactions, swaps, mutations,
                   payload, seen, starts, committed>>

ApplyToTokens(table, m) ==
    [i \in DOMAIN table |->
        IF i <= m.upto /\ table[i].address \in m.addresses
        THEN [table[i] EXCEPT !.named = IF "label" \in m.columns THEN TRUE ELSE @,
                              !.stable = IF "is_stable" \in m.columns THEN TRUE ELSE @]
        ELSE table[i]]

MutateTokens(columns, addresses) ==
    LET m == [columns |-> columns, addresses |-> addresses, upto |-> Len(tokens)] IN
    IF MutationsSync
    THEN tokens' = ApplyToTokens(tokens, m) /\ UNCHANGED tokenMutations
    ELSE tokenMutations' = Append(tokenMutations, m) /\ UNCHANGED tokens

(* One UPDATE per token, in the order of the payload.                      *)
UpdateLabel(w) ==
    /\ pc[w] = "updateLabels"
    /\ \E a \in todo[w].labels :
         /\ MutateTokens({"label"}, {a})
         /\ todo' = [todo EXCEPT ![w].labels = @ \ {a}]
    /\ UNCHANGED <<dexes, traders, pools, transactions, swaps, poolMutations,
                   pc, payload, seen, starts, committed>>

UpdateStable(w) ==
    /\ Goto(w, "updateLabels", "selectPools")
    /\ todo[w].labels = {}
    /\ IF StableTokens(w) = {} THEN UNCHANGED <<tokens, tokenMutations>>
       ELSE MutateTokens({"is_stable"}, StableTokens(w))
    /\ UNCHANGED <<dexes, traders, pools, transactions, swaps, poolMutations,
                   payload, seen, todo, starts, committed>>

SelectPools(w) ==
    LET found == Addresses(payload[w].pools) \cap PoolKeys
        snapshotsOf(a) == {row.snapshot : row \in {r \in Range(pools) : r.address = a}}
        readable(a) == IF a \in found THEN snapshotsOf(a) ELSE {NoSnapshot}
    IN
    /\ Goto(w, "selectPools", "insertPools")
    /\ \E snapshots \in [Pools -> UNION {readable(a) : a \in Pools}] :
         /\ \A a \in Pools : snapshots[a] \in readable(a)
         /\ Read(w, [seen[w] EXCEPT !.pools = found, !.snapshots = snapshots])
    /\ UNCHANGED <<tables, mutations, payload, todo, starts, committed>>

InsertPools(w) ==
    /\ Goto(w, "insertPools", "updatePools")
    /\ pools' = Insert(pools, NewPools(w))
    /\ todo' = [todo EXCEPT ![w].snapshots = SnapshotsToUpdate(w)]
    /\ UNCHANGED <<dexes, traders, tokens, transactions, swaps, mutations,
                   payload, seen, starts, committed>>

(* Fault: the snapshot is updated by deleting the row, to insert it later. *)
RowsDeleted(table, m) ==
    SelectSeq(table, LAMBDA row : row.address # m.address)

ApplyToPools(table, m) ==
    [i \in DOMAIN table |->
        IF i <= m.upto /\ table[i].address = m.address
        THEN [table[i] EXCEPT !.snapshot = m.snapshot]
        ELSE table[i]]

(* "read" is auxiliary: the snapshot the process had read of the row.      *)
MutatePools(address, snapshot, read) ==
    LET m == [address |-> address, snapshot |-> snapshot, read |-> read,
              upto |-> Len(pools)]
    IN
    IF MutationsSync
    THEN pools' = ApplyToPools(pools, m) /\ UNCHANGED poolMutations
    ELSE poolMutations' = Append(poolMutations, m) /\ UNCHANGED pools

UpdateSnapshot(w) ==
    /\ pc[w] = "updatePools"
    /\ \E p \in todo[w].snapshots :
         /\ MutatePools(p.address, p.snapshot, seen[w].snapshots[p.address])
         /\ todo' = [todo EXCEPT ![w].snapshots = @ \ {p}]
    /\ UNCHANGED <<dexes, traders, tokens, transactions, swaps, tokenMutations,
                   pc, payload, seen, starts, committed>>

InsertTransactions(w) ==
    /\ Goto(w, "updatePools", "selectSwaps")
    /\ todo[w].snapshots = {}
    /\ transactions' = Insert(transactions, NewTransactions(w))
    /\ UNCHANGED <<dexes, traders, tokens, pools, swaps, mutations,
                   payload, seen, todo, starts, committed>>

(* The count of the fingerprint of each swap of the payload.               *)
SelectSwaps(w) ==
    /\ Goto(w, "selectSwaps", "selectMaxSwapId")
    /\ Read(w, [seen[w] EXCEPT !.swaps =
                  [i \in DOMAIN payload[w].swaps |-> RowsOf(payload[w].swaps[i])]])
    /\ UNCHANGED <<tables, mutations, payload, todo, starts, committed>>

Return(w) ==
    /\ committed' = committed \cup {payload[w]}
    /\ payload' = [payload EXCEPT ![w] = Idle]
    /\ seen' = [seen EXCEPT ![w] = NothingSeen]

ReturnWithoutSwaps(w) ==
    /\ Goto(w, "selectMaxSwapId", "idle")
    /\ NewSwapIndices(w) = {}
    /\ Return(w)
    /\ UNCHANGED <<tables, mutations, todo, starts>>

SelectMaxSwapId(w) ==
    /\ Goto(w, "selectMaxSwapId", "insertSwaps")
    /\ NewSwapIndices(w) # {}
    /\ Read(w, [seen[w] EXCEPT !.maxId = MaxSwapId])
    /\ UNCHANGED <<tables, mutations, payload, todo, starts, committed>>

InsertSwaps(w) ==
    /\ Goto(w, "insertSwaps", "idle")
    /\ swaps' = Insert(swaps, NewSwapRows(w))
    /\ Return(w)
    /\ UNCHANGED <<dexes, traders, tokens, pools, transactions, mutations,
                   todo, starts>>

(* A statement raises, or the process dies, before, between or after any   *)
(* of the statements.                                                      *)
Abort(w) ==
    /\ pc[w] # "idle"
    /\ pc' = [pc EXCEPT ![w] = "idle"]
    /\ payload' = [payload EXCEPT ![w] = Idle]
    /\ seen' = [seen EXCEPT ![w] = NothingSeen]
    /\ todo' = [todo EXCEPT ![w] = NothingToDo]
    /\ UNCHANGED <<tables, mutations, starts, committed>>

(* The server applies the oldest mutation of a table.                      *)
ApplyTokenMutation ==
    /\ tokenMutations # <<>>
    /\ tokens' = ApplyToTokens(tokens, Head(tokenMutations))
    /\ tokenMutations' = Tail(tokenMutations)
    /\ UNCHANGED <<dexes, traders, pools, transactions, swaps, poolMutations,
                   locals, starts, committed>>

ApplyPoolMutation ==
    /\ poolMutations # <<>>
    /\ pools' = ApplyToPools(pools, Head(poolMutations))
    /\ poolMutations' = Tail(poolMutations)
    /\ UNCHANGED <<dexes, traders, tokens, transactions, swaps, tokenMutations,
                   locals, starts, committed>>

Statement(w) ==
    \/ SelectDexes(w) \/ InsertDexes(w)
    \/ SelectTransactions(w) \/ SelectTraders(w) \/ InsertTraders(w)
    \/ SelectTokens(w) \/ InsertTokens(w) \/ UpdateLabel(w) \/ UpdateStable(w)
    \/ SelectPools(w) \/ InsertPools(w) \/ UpdateSnapshot(w)
    \/ InsertTransactions(w)
    \/ SelectSwaps(w) \/ ReturnWithoutSwaps(w)
    \/ SelectMaxSwapId(w) \/ InsertSwaps(w)

Next ==
    \/ \E w \in Writers : Start(w) \/ Statement(w) \/ Abort(w)
    \/ ApplyTokenMutation
    \/ ApplyPoolMutation

Spec == Init /\ [][Next]_vars
-----------------------------------------------------------------------------
(* The shape of the state.                                                 *)
TokenMutation ==
    [columns : SUBSET {"label", "is_stable"}, addresses : SUBSET Tokens, upto : Nat]
PoolMutation ==
    [address : Pools, snapshot : Nat, read : Nat \cup {NoSnapshot}, upto : Nat]

Statements ==
    {"idle", "selectDexes", "insertDexes", "selectTransactions",
     "selectTraders", "insertTraders", "selectTokens", "insertTokens",
     "updateLabels", "selectPools", "insertPools", "updatePools",
     "selectSwaps", "selectMaxSwapId", "insertSwaps"}

Reads ==
    [dexes : SUBSET Dexes, txs : SUBSET Txs, traders : SUBSET Traders,
     tokens : SUBSET Tokens, unnamed : SUBSET Tokens, pools : SUBSET Pools,
     snapshots : [Pools -> Nat \cup {NoSnapshot}], swaps : Seq(Nat), maxId : Nat]

Updates ==
    [labels : SUBSET Tokens,
     snapshots : SUBSET [address : Pools, dex : Dexes, snapshot : Nat]]

(* The state has its type: the six tables, the pending mutations and the   *)
(* locals of every process inside _persist_payload_sync.                   *)
TypeOK ==
    /\ dexes \in Seq(Dexes) /\ traders \in Seq(Traders)
    /\ tokens \in Seq(TokenWrite) /\ pools \in Seq(PoolWrite)
    /\ transactions \in Seq(TransactionWrite) /\ swaps \in Seq(SwapRow)
    /\ tokenMutations \in Seq(TokenMutation)
    /\ poolMutations \in Seq(PoolMutation)
    /\ pc \in [Writers -> Statements]
    /\ payload \in [Writers -> Payloads \cup {Idle}]
    /\ \A w \in Writers : pc[w] # "idle" => payload[w] \in Payloads
    /\ seen \in [Writers -> Reads]
    /\ todo \in [Writers -> Updates]
    /\ starts \in Nat
    /\ committed \subseteq Payloads

(* The foreign keys of the models hold at every moment, although nothing   *)
(* enforces them: whatever processes persist at once and wherever they     *)
(* stop, no reader of the tables finds a pool without its dex, a           *)
(* transaction without its trader, or a swap without its transaction, pool *)
(* or tokens.  (The traders cleanup deletes traders: see TradersCleanup.)  *)
ReferentialIntegrity ==
    /\ \A row \in Range(pools) : row.dex \in DexKeys
    /\ \A row \in Range(transactions) : row.trader \in TraderKeys
    /\ \A row \in Range(swaps) :
         /\ row.swap.tx \in TransactionKeys
         /\ row.swap.pool \in PoolKeys
         /\ row.swap.tokens \subseteq TokenKeys

(* Why the order of the statements is enough: a writer has seen only rows  *)
(* that stay, and past an INSERT the rows it needs are there, whether it   *)
(* or another process inserted them.                                       *)
AfterDexes == Statements \ {"idle", "selectDexes", "insertDexes"}
AfterTraders ==
    AfterDexes \ {"selectTransactions", "selectTraders", "insertTraders"}
AfterTokens == AfterTraders \ {"selectTokens", "insertTokens"}
AfterPools == AfterTokens \ {"updateLabels", "selectPools", "insertPools"}
AfterTransactions == AfterPools \ {"updatePools"}

SeenIsThere(w) ==
    /\ seen[w].dexes \subseteq DexKeys
    /\ seen[w].traders \subseteq TraderKeys
    /\ seen[w].tokens \subseteq TokenKeys
    /\ seen[w].pools \subseteq PoolKeys
    /\ seen[w].txs \subseteq TransactionKeys

WrittenIsThere(w) ==
    /\ pc[w] \in AfterDexes => payload[w].dexes \subseteq DexKeys
    /\ pc[w] \in AfterTraders =>
         \A t \in NewTransactions(w) : t.trader \in TraderKeys
    /\ pc[w] \in AfterTokens => Addresses(payload[w].tokens) \subseteq TokenKeys
    /\ pc[w] \in AfterPools => Addresses(payload[w].pools) \subseteq PoolKeys
    /\ pc[w] \in AfterTransactions =>
         Hashes(payload[w].transactions) \subseteq TransactionKeys

IntegrityInvariant ==
    /\ TypeOK
    /\ ReferentialIntegrity
    /\ \A w \in Writers : SeenIsThere(w) /\ WrittenIsThere(w)

(* A call of persist_payload that returned left every row of its payload   *)
(* in the tables, each swap as often as it is in the payload, however      *)
(* many earlier calls stopped half-way and whoever else was writing.       *)
CommittedIsComplete ==
    \A p \in committed :
        /\ p.dexes \subseteq DexKeys
        /\ Addresses(p.tokens) \subseteq TokenKeys
        /\ Addresses(p.pools) \subseteq PoolKeys
        /\ Hashes(p.transactions) \subseteq TransactionKeys
        /\ \A i \in DOMAIN p.swaps :
             RowsOf(Stored(p.swaps[i]))
                >= Cardinality({j \in DOMAIN p.swaps : p.swaps[j] = p.swaps[i]})

(* A payload's swaps that the Decimal(38, 18) column gives back as this    *)
(* one, and whether one of them is cut to it: usd_amount is written with   *)
(* up to 28 digits, so its fingerprint is then that of no row.             *)
KeptAs(p, swap) == {j \in DOMAIN p.swaps : Stored(p.swaps[j]) = swap}
CutTo(swap) ==
    \E p \in Payloads : \E j \in DOMAIN p.swaps :
        p.swaps[j] # swap /\ Stored(p.swaps[j]) = swap

(* Persisting overlapping windows again, also after a failure half-way,    *)
(* stores a swap no more often than one payload has it, as identical swaps *)
(* of one transaction are counted and not merged (_build_new_swaps).  The  *)
(* exception is a swap whose usd_amount the column cuts: every call stores *)
(* it again, but no call more often than its payload has it.  Holds for    *)
(* one process at a time.                                                  *)
NoDuplicateSwaps ==
    \A i \in DOMAIN swaps :
        LET swap == swaps[i].swap IN
        /\ ~CutTo(swap) =>
             \E p \in Payloads : RowsOf(swap) <= Cardinality(KeptAs(p, swap))
        /\ \E p \in Payloads : RowsOf(swap) <= starts * Cardinality(KeptAs(p, swap))

(* The ids computed from max(Swap.id) + 1 identify the rows, as the        *)
(* primary key of the model says.                                          *)
SwapIdsUnique ==
    \A i, j \in DOMAIN swaps : swaps[i].id = swaps[j].id => i = j

(* No table has two rows with one primary key, although a payload is       *)
(* persisted by reading which rows exist and inserting the others          *)
(* statements later.  Holds for one process at a time.                     *)
PrimaryKeysUnique ==
    /\ Len(dexes) = Cardinality(DexKeys)
    /\ Len(traders) = Cardinality(TraderKeys)
    /\ Len(tokens) = Cardinality(TokenKeys)
    /\ Len(pools) = Cardinality(PoolKeys)
    /\ Len(transactions) = Cardinality(TransactionKeys)
    /\ SwapIdsUnique

(* The tables read as sets of facts refine the store that never loses a    *)
(* fact and never shows a fact before the ones it refers to.               *)
PoolFact(row) == [address |-> row.address, dex |-> row.dex]
TransactionFact(row) == [hash |-> row.hash, trader |-> row.trader]
SwapFact(swap) == [tx |-> swap.tx, pool |-> swap.pool, tokens |-> swap.tokens]

StoredPools == {PoolFact(row) : row \in Range(pools)}
StoredTransactions == {TransactionFact(row) : row \in Range(transactions)}
StoredSwaps == {SwapFact(row.swap) : row \in Range(swaps)}

Store == INSTANCE EntityStore WITH
    PoolFacts <- [address : Pools, dex : Dexes],
    TransactionFacts <- [hash : Txs, trader : Traders],
    SwapFacts <- [tx : Txs, pool : Pools, tokens : SUBSET Tokens],
    dexes <- DexKeys, traders <- TraderKeys, tokens <- TokenKeys,
    pools <- StoredPools, transactions <- StoredTransactions,
    swaps <- StoredSwaps

(* Every statement of _persist_payload_sync adds facts to the store, or    *)
(* leaves it as it is.                                                     *)
ImplementsStore == Store!Spec
=============================================================================
