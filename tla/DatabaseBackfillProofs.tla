----------------------- MODULE DatabaseBackfillProofs -----------------------
(***************************************************************************)
(* Proofs about DatabaseBackfill, for any tables, any order of addresses,  *)
(* any size of the pages and any answers of the node: the backfill writes  *)
(* nothing the tables cannot hold, and leaves to the statements of the     *)
(* scans beside it everything that TradingPersistenceProofs shows of them. *)
(***************************************************************************)
EXTENDS DatabaseBackfill, TradingPersistenceProofs

(* Some of the elements of a sequence of naturals have a greatest one.     *)
LEMMA MaxOfSome ==
    ASSUME NEW s \in Seq(Nat), NEW S \in SUBSET Range(s), S # {}
    PROVE  Max(S) \in S
  <1> DEFINE Bounds == {b \in Nat : \A x \in S : x <= b}
  <1>1. S \subseteq Nat
    BY Fun_RangeProperties, LenProperties
  <1>2. Bounds # {} /\ Bounds \subseteq Nat
    <2>1. PICK b \in Nat : \A i \in DOMAIN s : s[i] <= b
      BY SequenceBounded
    <2>2. b \in Bounds
      BY <2>1 DEF Range
    <2>3. QED
      BY <2>2
  <1>3. PICK m \in Bounds : \A b \in Bounds : m <= b
    BY <1>2, LeastNatural
  <1>4. m \in S
    <2>1. SUFFICES ASSUME m \notin S PROVE FALSE
      OBVIOUS
    <2>2. \A x \in S : x < m
      BY <1>1, <1>3, <2>1
    <2>3. m - 1 \in Nat /\ m \in Nat
      <3>1. PICK x \in S : x \in Nat
        BY <1>1
      <3>2. x < m /\ m \in Nat
        BY <1>2, <2>2
      <3>3. QED
        BY <3>1, <3>2
    <2>4. m - 1 \in Bounds
      BY <1>1, <2>2, <2>3
    <2>5. QED
      BY <1>3, <2>3, <2>4
  <1>5. \A x \in S : m >= x
    BY <1>1, <1>3
  <1>6. QED
    BY <1>4, <1>5 DEF Max

(* The rows of the tables, and the addresses that are candidates.          *)
LEMMA TableRows ==
    ASSUME TypeOK
    PROVE  /\ Range(tokens) \subseteq TokenWrite /\ Range(pools) \subseteq PoolWrite
           /\ Range(transactions) \subseteq TransactionWrite
           /\ TokenCandidates \subseteq Tokens /\ PoolCandidates \subseteq Pools
           /\ Addresses(Range(tokens)) \subseteq Tokens
           /\ Addresses(Range(pools)) \subseteq Pools
  <1>1. /\ Range(tokens) \subseteq TokenWrite /\ Range(pools) \subseteq PoolWrite
        /\ Range(transactions) \subseteq TransactionWrite
    BY Fun_RangeProperties, LenProperties DEF TypeOK
  <1>2. QED
    BY <1>1 DEF TokenCandidates, PoolCandidates, Addresses, TokenWrite, PoolWrite

(* The cursor after a page of one of the tables is the rank of one of its  *)
(* addresses.                                                              *)
LEMMA CursorType ==
    ASSUME NEW table, NEW T, table \in Seq(T), \A row \in T : row.address \in Items,
           NEW next \in SUBSET Addresses(Range(table)), next # {}
    PROVE  LastOf(next) \in Nat /\ \E a \in next : LastOf(next) = Rank[a]
  <1> DEFINE ranks == [i \in DOMAIN table |-> Rank[table[i].address]]
  <1>1. /\ DOMAIN table = 1 .. Len(table) /\ Len(table) \in Nat
        /\ \A i \in DOMAIN table : table[i] \in T
    BY LenProperties
  <1>2. \A i \in DOMAIN table : ranks[i] \in Nat
    BY <1>1, RankAssumption DEF Items
  <1>3. ranks \in Seq(Nat) /\ DOMAIN ranks = DOMAIN table
    <2>1. ranks = [i \in DOMAIN table |-> ranks[i]]
      OBVIOUS
    <2> HIDE DEF ranks
    <2>2. QED
      BY <1>2, <2>1, PointwiseSeq
  <1> DEFINE S == {Rank[a] : a \in next}
  <1>4. S \subseteq Range(ranks)
    BY <1>3 DEF Addresses, Range
  <1>5. S # {}
    OBVIOUS
  <1>6. Max(S) \in S
    <2> HIDE DEF S, ranks
    <2>1. QED
      BY <1>3, <1>4, <1>5, MaxOfSome
  <1>7. S \subseteq Nat
    BY <1>1, <1>3, <1>4, Fun_RangeProperties, LenProperties
  <1>8. QED
    BY <1>6, <1>7 DEF LastOf

(* The block a pool gets its snapshot from is that of a stored transaction.*)
LEMMA TradedBlocksType ==
    ASSUME TypeOK, NEW pool, TradedBlocks(pool) # {}
    PROVE  Max(TradedBlocks(pool)) \in Nat
  <1> DEFINE blocks == [i \in DOMAIN transactions |-> transactions[i].block]
  <1>1. /\ transactions \in Seq(TransactionWrite)
        /\ DOMAIN transactions = 1 .. Len(transactions) /\ Len(transactions) \in Nat
        /\ \A i \in DOMAIN transactions : transactions[i] \in TransactionWrite
    BY LenProperties DEF TypeOK
  <1>2. \A i \in DOMAIN transactions : blocks[i] \in Nat
    BY <1>1 DEF TransactionWrite
  <1>3. blocks \in Seq(Nat) /\ DOMAIN blocks = DOMAIN transactions
    <2>1. blocks = [i \in DOMAIN transactions |-> blocks[i]]
      OBVIOUS
    <2> HIDE DEF blocks
    <2>2. QED
      BY <1>1, <1>2, <2>1, PointwiseSeq
  <1>4. TradedBlocks(pool) \subseteq Range(blocks)
    BY <1>3 DEF TradedBlocks, Range
  <1>5. Range(blocks) \subseteq Nat
    BY <1>3, Fun_RangeProperties, LenProperties
  <1> HIDE DEF blocks
  <1>6. QED
    BY <1>3, <1>4, <1>5, MaxOfSome
-----------------------------------------------------------------------------
(* The locals of the backfill have their types initially, ...              *)
LocalsOK ==
    /\ stage \in Stages
    /\ cursor \in Nat
    /\ page \subseteq Items
    /\ metadata \in [labels : SUBSET Items, stables : SUBSET Items,
                     blocks : [Pools -> Nat \cup {NoSnapshot}]]
    /\ updates \in [tokens : SUBSET TokenUpdate, pools : SUBSET PoolUpdate]
    /\ stats \in [tokens : Totals, pools : Totals]
    /\ backfills \in Nat
    /\ waiting \in [tokens : SUBSET Tokens, pools : SUBSET Pools]

LEMMA BackfillTypes == BackfillTypeOK <=> TypeOK /\ LocalsOK
  BY DEF BackfillTypeOK, LocalsOK

LEMMA NothingTypes ==
    /\ NothingResolved \in [labels : SUBSET Items, stables : SUBSET Items,
                            blocks : [Pools -> Nat \cup {NoSnapshot}]]
    /\ NoUpdates \in [tokens : SUBSET TokenUpdate, pools : SUBSET PoolUpdate]
    /\ NoItems \in Totals
    /\ NothingWaits \in [tokens : SUBSET Tokens, pools : SUBSET Pools]
  BY DEF NothingResolved, NoUpdates, NoItems, NothingWaits, Totals

LEMMA InitBackfillTypeOK == BackfillInit => BackfillTypeOK
  <1>1. BackfillInit => LocalsOK
    BY NothingTypes DEF BackfillInit, LocalsOK, Stages
  <1>2. QED
    BY <1>1, InitTypeOK, BackfillTypes DEF BackfillInit

(* The totals after a page, and after its updates were chosen.             *)
LEMMA CountType ==
    ASSUME stats \in [tokens : Totals, pools : Totals], NEW pass \in {"tokens", "pools"},
           NEW updated \in SUBSET Items, NEW skipped \in SUBSET Items,
           NEW unresolved \in SUBSET Items, Count(pass, updated, skipped, unresolved)
    PROVE  stats' \in [tokens : Totals, pools : Totals]
  <1> DEFINE total == [stats[pass] EXCEPT !.updated = @ \cup updated,
                                          !.skipped = @ \cup skipped,
                                          !.unresolved = @ \cup unresolved]
  <1>1. stats[pass] \in Totals
    OBVIOUS
  <1>2. total \in Totals
    BY <1>1 DEF Totals
  <1>3. stats' = [stats EXCEPT ![pass] = total]
    BY <1>1 DEF Count, Totals
  <1> HIDE DEF total
  <1>4. QED
    BY <1>2, <1>3

LEMMA NextPageType ==
    ASSUME LocalsOK, NEW pass \in {"tokens", "pools"}, NEW table, NEW T,
           table \in Seq(T), \A row \in T : row.address \in Items,
           NEW candidates \in SUBSET Addresses(Range(table)),
           NextPage(pass, candidates)
    PROVE  /\ page' \subseteq Items /\ cursor' \in Nat
           /\ waiting' \in [tokens : SUBSET Tokens, pools : SUBSET Pools]
           /\ stats' \in [tokens : Totals, pools : Totals]
  <1> DEFINE next == PageAfter(candidates, cursor)
             total == [stats[pass] EXCEPT !.scanned = @ \cup next]
  <1>1. next \subseteq candidates /\ next # {}
    BY DEF PageAfter, NextPage
  <1>2. Addresses(Range(table)) \subseteq Items
    BY Fun_RangeProperties, LenProperties DEF Addresses
  <1>3. page' = next /\ cursor' = LastOf(next) /\ waiting' = [waiting EXCEPT ![pass] = @ \ next]
        /\ stats' = [stats EXCEPT ![pass].scanned = @ \cup next]
    BY DEF NextPage
  <1> HIDE DEF next
  <1>4. LastOf(next) \in Nat
    BY <1>1, CursorType
  <1>5. stats[pass] \in Totals /\ stats \in [tokens : Totals, pools : Totals]
    BY DEF LocalsOK
  <1>6. total \in Totals
    BY <1>1, <1>2, <1>5 DEF Totals
  <1>7. stats' = [stats EXCEPT ![pass] = total]
    BY <1>3, <1>5 DEF Totals
  <1>8. stats' \in [tokens : Totals, pools : Totals]
    <2> HIDE DEF total
    <2>1. QED
      BY <1>5, <1>6, <1>7
  <1>9. QED
    BY <1>1, <1>2, <1>3, <1>4, <1>8 DEF LocalsOK

(* Of the steps of a backfill, the two kinds of UPDATEs change the tables. *)
Asking ==
    \/ StartBackfill \/ LoadTokens \/ ResolveTokens \/ SelectTokenRows \/ TokensFinished
    \/ LoadPools \/ LoadContexts \/ ResolvePools \/ SelectPoolRows \/ PoolsFinished
    \/ AbortBackfill

LEMMA AskingChangesNothing == Asking => UNCHANGED vars
  BY DEF Asking, StartBackfill, LoadTokens, ResolveTokens, SelectTokenRows,
         TokensFinished, LoadPools, LoadContexts, ResolvePools, SelectPoolRows,
         PoolsFinished, AbortBackfill

(* ... the steps that ask keep the types, ...                              *)
LEMMA AskingKeepsTypes ==
    ASSUME TypeOK, LocalsOK, Asking
    PROVE  LocalsOK'
  <1> DEFINE Blocks == [Pools -> Nat \cup {NoSnapshot}]
  <1> USE DEF Step, Stages
  <1>1. CASE StartBackfill
    BY <1>1, TableRows, NothingTypes DEF StartBackfill, LocalsOK, Items
  <1>2. CASE LoadTokens
    <2>1. NextPage("tokens", TokenCandidates)
      BY <1>2 DEF LoadTokens
    <2>2. TokenCandidates \subseteq Addresses(Range(tokens)) /\ tokens \in Seq(TokenWrite)
      BY DEF TokenCandidates, Addresses, TypeOK
    <2>3. \A row \in TokenWrite : row.address \in Items
      BY DEF TokenWrite, Items
    <2>4. /\ page' \subseteq Items /\ cursor' \in Nat
          /\ waiting' \in [tokens : SUBSET Tokens, pools : SUBSET Pools]
          /\ stats' \in [tokens : Totals, pools : Totals]
      BY <2>1, <2>2, <2>3, NextPageType
    <2>5. QED
      BY <1>2, <2>4 DEF LoadTokens, LocalsOK
  <1>3. CASE LoadPools
    <2>1. NextPage("pools", PoolCandidates)
      BY <1>3 DEF LoadPools
    <2>2. PoolCandidates \subseteq Addresses(Range(pools)) /\ pools \in Seq(PoolWrite)
      BY DEF PoolCandidates, Addresses, TypeOK
    <2>3. \A row \in PoolWrite : row.address \in Items
      BY DEF PoolWrite, Items
    <2>4. /\ page' \subseteq Items /\ cursor' \in Nat
          /\ waiting' \in [tokens : SUBSET Tokens, pools : SUBSET Pools]
          /\ stats' \in [tokens : Totals, pools : Totals]
      BY <2>1, <2>2, <2>3, NextPageType
    <2>5. QED
      BY <1>3, <2>4 DEF LoadPools, LocalsOK
  <1>4. CASE ResolveTokens
    <2>1. PICK read \in RowsByAddress(Range(tokens), page), answered \in SUBSET page :
            metadata' = [metadata EXCEPT
                !.labels = {a \in DOMAIN read : read[a].named} \cup answered,
                !.stables = (page \cap Hints) \cup {a \in DOMAIN read : read[a].stable}]
      BY <1>4 DEF ResolveTokens
    <2>2. DOMAIN read \subseteq page
      BY DEF RowsByAddress
    <2> DEFINE labels == {a \in DOMAIN read : read[a].named} \cup answered
               stables == (page \cap Hints) \cup {a \in DOMAIN read : read[a].stable}
    <2>3. labels \in SUBSET Items /\ stables \in SUBSET Items
      BY <2>2 DEF LocalsOK
    <2>4. metadata' = [metadata EXCEPT !.labels = labels, !.stables = stables]
      BY <2>1
    <2> HIDE DEF labels, stables
    <2>5. QED
      BY <1>4, <2>3, <2>4 DEF ResolveTokens, LocalsOK
  <1>5. CASE SelectTokenRows
    <2>1. PICK read \in RowsByAddress(Range(tokens), page) :
            LET changed == {a \in DOMAIN read : Columns(read[a]) # {}}
                unresolved == {a \in DOMAIN read : Columns(read[a]) = {} /\ ~read[a].named}
            IN
            /\ updates' = [updates EXCEPT !.tokens =
                 {[address |-> a, columns |-> Columns(read[a])] : a \in changed}]
            /\ Count("tokens", changed, page \ (changed \cup unresolved), unresolved)
      BY <1>5 DEF SelectTokenRows
    <2> DEFINE changed == {a \in DOMAIN read : Columns(read[a]) # {}}
               unresolved == {a \in DOMAIN read : Columns(read[a]) = {} /\ ~read[a].named}
               new == {[address |-> a, columns |-> Columns(read[a])] : a \in changed}
    <2>2. DOMAIN read \subseteq page /\ DOMAIN read \subseteq Tokens
      BY TableRows DEF RowsByAddress
    <2>3. changed \in SUBSET Items /\ unresolved \in SUBSET Items
          /\ page \ (changed \cup unresolved) \in SUBSET Items
      BY <2>2 DEF LocalsOK
    <2>4. new \in SUBSET TokenUpdate
      BY <2>2 DEF TokenUpdate, Columns
    <2>5. Count("tokens", changed, page \ (changed \cup unresolved), unresolved)
          /\ updates' = [updates EXCEPT !.tokens = new]
      BY <2>1
    <2> HIDE DEF changed, unresolved, new
    <2>6. stats' \in [tokens : Totals, pools : Totals]
      BY <2>3, <2>5, CountType DEF LocalsOK
    <2>7. updates' \in [tokens : SUBSET TokenUpdate, pools : SUBSET PoolUpdate]
      BY <2>4, <2>5 DEF LocalsOK
    <2>8. QED
      BY <1>5, <2>6, <2>7 DEF SelectTokenRows, LocalsOK
  <1>6. CASE TokensFinished
    BY <1>6, TableRows, NothingTypes DEF TokensFinished, LocalsOK, Items
  <1>7. CASE LoadContexts
    <2> DEFINE blocks == [p \in Pools |-> IF p \in page /\ TradedBlocks(p) # {}
                                          THEN Max(TradedBlocks(p)) ELSE NoSnapshot]
    <2>1. blocks \in Blocks
      BY TradedBlocksType
    <2>2. metadata' = [metadata EXCEPT !.blocks = blocks]
      BY <1>7 DEF LoadContexts
    <2> HIDE DEF blocks
    <2>3. QED
      BY <1>7, <2>1, <2>2 DEF LoadContexts, LocalsOK
  <1>8. CASE ResolvePools
    <2>1. PICK withFee \in SUBSET Dated, withTokens \in SUBSET Dated, valued \in SUBSET Dated :
            LET complete == {p \in (withFee \cup withTokens) \cap valued :
                                metadata.blocks[p] > 0} IN
            /\ metadata' = [metadata EXCEPT !.blocks =
                 [p \in Pools |-> IF p \in complete THEN @[p] ELSE NoSnapshot]]
            /\ Count("pools", {}, {}, page \ complete)
      BY <1>8 DEF ResolvePools
    <2> DEFINE complete == {p \in (withFee \cup withTokens) \cap valued :
                                metadata.blocks[p] > 0}
               blocks == [p \in Pools |-> IF p \in complete THEN metadata.blocks[p]
                                          ELSE NoSnapshot]
    <2>2. blocks \in Blocks
      BY DEF LocalsOK
    <2>3. metadata' = [metadata EXCEPT !.blocks = blocks]
      BY <2>1 DEF LocalsOK
    <2>4. page \ complete \in SUBSET Items /\ {} \in SUBSET Items
          /\ Count("pools", {}, {}, page \ complete)
      BY <2>1 DEF LocalsOK
    <2> HIDE DEF complete, blocks
    <2>5. stats' \in [tokens : Totals, pools : Totals]
      BY <2>4, CountType DEF LocalsOK
    <2>6. QED
      BY <1>8, <2>2, <2>3, <2>5 DEF ResolvePools, LocalsOK
  <1>9. CASE SelectPoolRows
    <2>1. PICK read \in RowsByAddress(Range(pools), Dated) :
            LET incomplete == IncompleteRows(read) IN
            /\ updates' = [updates EXCEPT !.pools =
                 {[address |-> p, snapshot |-> metadata.blocks[p],
                   read |-> read[p].snapshot] : p \in incomplete}]
            /\ Count("pools", incomplete, Dated \ incomplete, {})
      BY <1>9 DEF SelectPoolRows
    <2> DEFINE incomplete == IncompleteRows(read)
               new == {[address |-> p, snapshot |-> metadata.blocks[p],
                        read |-> read[p].snapshot] : p \in incomplete}
    <2>2. incomplete \subseteq Dated /\ \A p \in incomplete : read[p] \in Range(pools)
      BY DEF RowsByAddress, IncompleteRows
    <2>3. new \in SUBSET PoolUpdate
      <3>1. \A p \in incomplete : /\ p \in Pools /\ metadata.blocks[p] \in Nat
                                  /\ read[p].snapshot \in Nat \cup {NoSnapshot}
        BY <2>2, TableRows DEF Dated, LocalsOK, PoolWrite
      <3>2. QED
        BY <3>1 DEF PoolUpdate
    <2>4. incomplete \in SUBSET Items /\ Dated \ incomplete \in SUBSET Items
          /\ {} \in SUBSET Items
      BY <2>2 DEF Dated, Items
    <2>5. Count("pools", incomplete, Dated \ incomplete, {})
          /\ updates' = [updates EXCEPT !.pools = new]
      BY <2>1
    <2> HIDE DEF incomplete, new
    <2>6. stats' \in [tokens : Totals, pools : Totals]
      BY <2>4, <2>5, CountType DEF LocalsOK
    <2>7. updates' \in [tokens : SUBSET TokenUpdate, pools : SUBSET PoolUpdate]
      BY <2>3, <2>5 DEF LocalsOK
    <2>8. QED
      BY <1>9, <2>6, <2>7 DEF SelectPoolRows, LocalsOK
  <1>10. CASE PoolsFinished
    BY <1>10, NothingTypes DEF PoolsFinished, LocalsOK
  <1>11. CASE AbortBackfill
    BY <1>11, NothingTypes DEF AbortBackfill, LocalsOK
  <1>12. QED
    BY <1>1, <1>2, <1>3, <1>4, <1>5, <1>6, <1>7, <1>8, <1>9, <1>10, <1>11 DEF Asking

(* ... and the UPDATEs keep them too, change no fact of the store and no   *)
(* local of a scan.                                                        *)
RestKept ==
    /\ TypeOK' /\ LocalsOK'
    /\ UNCHANGED Facts /\ UNCHANGED locals /\ SameLengths
    /\ starts' = starts /\ committed' = committed

LEMMA UpdateTokenKeeps ==
    ASSUME TypeOK, LocalsOK, UpdateToken
    PROVE  RestKept
  <1>1. PICK u \in updates.tokens :
          /\ MutateTokens(u.columns, {u.address})
          /\ updates' = [updates EXCEPT !.tokens = @ \ {u}]
    BY DEF UpdateToken
  <1>2. /\ u.columns \in SUBSET {"label", "is_stable"}
        /\ {u.address} \in SUBSET Tokens
    BY DEF LocalsOK, TokenUpdate
  <1>3. /\ tokens' \in Seq(TokenWrite) /\ tokenMutations' \in Seq(TokenMutation)
        /\ TokenKeys' = TokenKeys
    BY <1>1, <1>2, MutateTokensType
  <1>4. TypeOK'
    BY <1>3 DEF UpdateToken, TypeOK, locals
  <1>5. LocalsOK'
    BY <1>1 DEF UpdateToken, Step, Stages, LocalsOK
  <1>6. UNCHANGED Facts
    BY <1>3 DEF UpdateToken, Facts, DexKeys, TraderKeys, StoredPools,
                StoredTransactions, StoredSwaps
  <1>7. Len(tokens') = Len(tokens)
    BY <1>1, <1>2, MutateLengths
  <1>8. QED
    BY <1>4, <1>5, <1>6, <1>7 DEF UpdateToken, RestKept, SameLengths

LEMMA UpdatePoolKeeps ==
    ASSUME TypeOK, LocalsOK, UpdatePool
    PROVE  RestKept
  <1>1. PICK u \in updates.pools :
          /\ MutatePools(u.address, u.snapshot, u.read)
          /\ updates' = [updates EXCEPT !.pools = @ \ {u}]
    BY DEF UpdatePool
  <1>2. /\ u.address \in Pools /\ u.snapshot \in Nat
        /\ u.read \in Nat \cup {NoSnapshot}
    BY DEF LocalsOK, PoolUpdate
  <1>3. /\ pools' \in Seq(PoolWrite) /\ poolMutations' \in Seq(PoolMutation)
        /\ StoredPools' = StoredPools
    BY <1>1, <1>2, MutatePoolsType
  <1>4. TypeOK'
    BY <1>3 DEF UpdatePool, TypeOK, locals
  <1>5. LocalsOK'
    BY <1>1 DEF UpdatePool, Step, Stages, LocalsOK
  <1>6. UNCHANGED Facts
    BY <1>3 DEF UpdatePool, Facts, DexKeys, TraderKeys, TokenKeys,
                StoredTransactions, StoredSwaps
  <1>7. Len(pools') = Len(pools)
    BY <1>1, <1>2, MutateLengths
  <1>8. QED
    BY <1>4, <1>5, <1>6, <1>7 DEF UpdatePool, RestKept, SameLengths

(* So a step of the backfill is an UPDATE that changes no fact, or leaves  *)
(* the tables alone, or is a step of the scans.                            *)
LEMMA StepCases ==
    ASSUME TypeOK, LocalsOK, [BackfillNext]_allVars
    PROVE  \/ [Next]_vars /\ LocalsOK'
           \/ RestKept
  <1>1. CASE UNCHANGED backfill /\ [Next]_vars
    BY <1>1 DEF backfill, LocalsOK
  <1>2. CASE Asking
    BY <1>2, AskingChangesNothing, AskingKeepsTypes
  <1>3. CASE UpdateToken
    BY <1>3, UpdateTokenKeeps
  <1>4. CASE UpdatePool
    BY <1>4, UpdatePoolKeeps
  <1>5. QED
    BY <1>1, <1>2, <1>3, <1>4 DEF BackfillNext, BackfillStep, Asking, allVars

LEMMA NextBackfillTypeOK == BackfillTypeOK /\ [BackfillNext]_allVars => BackfillTypeOK'
  <1> SUFFICES ASSUME TypeOK, LocalsOK, [BackfillNext]_allVars
               PROVE  TypeOK' /\ LocalsOK'
    BY BackfillTypes DEF BackfillTypeOK, LocalsOK
  <1>1. QED
    BY StepCases, NextTypeOK DEF RestKept

(* The tables and all locals keep their types beside a backfill: what it   *)
(* updates a row with is always something its columns can hold.            *)
THEOREM BackfillTypeCorrect == BackfillSpec => []BackfillTypeOK
  <1>1. QED
    BY InitBackfillTypeOK, NextBackfillTypeOK, PTL DEF BackfillSpec

(* The invariant of the scans is kept by the steps of the backfill.        *)
LEMMA NextBackfillIntegrity ==
    ASSUME BackfillTypeOK, IntegrityInvariant, [BackfillNext]_allVars
    PROVE  IntegrityInvariant'
  <1>1. TypeOK /\ LocalsOK /\ ReferentialIntegrity
        /\ \A w \in Writers : SeenIsThere(w) /\ WrittenIsThere(w)
    BY BackfillTypes DEF IntegrityInvariant
  <1>2. CASE [Next]_vars
    BY <1>2, NextIntegrity
  <1>3. CASE TypeOK' /\ UNCHANGED Facts /\ UNCHANGED locals
    <2>1. KeysGrow /\ ReferentialIntegrity'
      BY <1>1, <1>3, FactsStay
    <2>2. \A w \in Writers : SeenIsThere(w)' /\ WrittenIsThere(w)'
      BY <1>1, <1>3, <2>1, OthersKeep DEF locals
    <2>3. QED
      BY <1>3, <2>1, <2>2 DEF IntegrityInvariant
  <1>4. QED
    BY <1>1, <1>2, <1>3, StepCases DEF RestKept

(* The foreign keys hold beside a backfill, too.                           *)
THEOREM BackfillIntegrity == BackfillSpec => []ReferentialIntegrity
  <1>1. IntegrityInvariant => ReferentialIntegrity
    BY DEF IntegrityInvariant
  <1>2. BackfillInit => IntegrityInvariant
    BY InitIntegrity DEF BackfillInit
  <1>3. QED
    BY <1>1, <1>2, InitBackfillTypeOK, NextBackfillTypeOK, NextBackfillIntegrity, PTL
       DEF BackfillSpec

(* A backfill is invisible in the store: no fact comes from it, none goes. *)
LEMMA NextBackfillStore ==
    ASSUME BackfillTypeOK, IntegrityInvariant, IntegrityInvariant',
           [BackfillNext]_allVars
    PROVE  [Store!Next]_(Store!vars)
  <1>1. CASE [Next]_vars
    BY <1>1, NextStore
  <1>2. CASE UNCHANGED Facts
    BY <1>2 DEF Facts, Store!vars
  <1>3. QED
    BY <1>1, <1>2, BackfillTypes, StepCases DEF RestKept

(* Whoever reads the tables beside a backfill sees the store of facts that *)
(* only grows, as without it.                                              *)
THEOREM BackfillRefinement == BackfillSpec => ImplementsStore
  <1>1. BackfillInit => IntegrityInvariant /\ Store!Init
    BY InitIntegrity, InitStore DEF BackfillInit
  <1>2. QED
    BY <1>1, InitBackfillTypeOK, NextBackfillTypeOK, NextBackfillIntegrity,
       NextBackfillStore, PTL DEF BackfillSpec, ImplementsStore, Store!Spec
-----------------------------------------------------------------------------
(* The counts of rows and keys, too, are as without a backfill.            *)
LEMMA NextBackfillCounts ==
    ASSUME BackfillTypeOK, IntegrityInvariant, CompletenessInvariant,
           [BackfillNext]_allVars
    PROVE  CompletenessInvariant'
  <1>1. TypeOK /\ LocalsOK
    BY BackfillTypes
  <1>2. CASE [Next]_vars
    BY <1>2, NextCompleteness
  <1>3. CASE RestKept
    <2>1. TypeOK' /\ KeysGrow /\ swaps' = swaps /\ UNCHANGED locals /\ committed' = committed
      BY <1>3, FactsStay DEF RestKept, SameLengths
    <2>2. QED
      BY <1>1, <2>1, RestCompleteness
  <1>4. QED
    BY <1>1, <1>2, <1>3, StepCases

LEMMA NextBackfillOneWriter ==
    ASSUME OneWriter, BackfillTypeOK, IntegrityInvariant, CompletenessInvariant,
           OneWriterInvariant, [BackfillNext]_allVars
    PROVE  OneWriterInvariant'
  <1>1. TypeOK /\ LocalsOK
    BY BackfillTypes
  <1>2. CASE [Next]_vars
    BY <1>2, NextOneWriter
  <1>3. CASE RestKept
    BY <1>1, <1>3, RestOneWriter DEF RestKept
  <1>4. QED
    BY <1>1, <1>2, <1>3, StepCases

(* What a returned call of persist_payload left is still complete when a   *)
(* backfill runs beside it.                                                *)
THEOREM BackfillKeepsReturned == BackfillSpec => []CommittedIsComplete
  <1>1. BackfillInit => IntegrityInvariant /\ CompletenessInvariant
    BY InitIntegrity, InitCompleteness DEF BackfillInit
  <1>2. CompletenessInvariant => CommittedIsComplete
    BY DEF CompletenessInvariant
  <1>3. QED
    BY <1>1, <1>2, InitBackfillTypeOK, NextBackfillTypeOK, NextBackfillIntegrity,
       NextBackfillCounts, PTL DEF BackfillSpec

LEMMA BackfillOneWriter ==
    ASSUME OneWriter
    PROVE  BackfillSpec => []OneWriterInvariant
  <1>1. BackfillInit => IntegrityInvariant /\ CompletenessInvariant /\ OneWriterInvariant
    BY InitIntegrity, InitCompleteness, InitOneWriter DEF BackfillInit
  <1>2. BackfillTypeOK /\ IntegrityInvariant /\ CompletenessInvariant /\ OneWriterInvariant
          /\ [BackfillNext]_allVars => OneWriterInvariant'
    BY NextBackfillOneWriter
  <1>3. QED
    BY <1>1, <1>2, InitBackfillTypeOK, NextBackfillTypeOK, NextBackfillIntegrity,
       NextBackfillCounts, PTL DEF BackfillSpec

(* One scanning process and a backfill at any moment: no key on two rows.  *)
THEOREM BackfillKeysUnique ==
    ASSUME OneWriter
    PROVE  BackfillSpec => []PrimaryKeysUnique
  <1>1. OneWriterInvariant => PrimaryKeysUnique
    BY DEF OneWriterInvariant
  <1>2. QED
    BY <1>1, BackfillOneWriter, PTL

(* One scanning process and a backfill at any moment: a swap is stored no  *)
(* more often than one payload has it, and one that the column cuts no     *)
(* more often than that for each call.                                     *)
THEOREM BackfillSwapsExact ==
    ASSUME OneWriter
    PROVE  BackfillSpec => []NoDuplicateSwaps
  <1>1. BackfillTypeOK /\ OneWriterInvariant => NoDuplicateSwaps
    BY CountedOnce, BackfillTypes DEF OneWriterInvariant
  <1>2. QED
    BY <1>1, BackfillTypeCorrect, BackfillOneWriter, PTL
-----------------------------------------------------------------------------
(* An UPDATE of a scan is never older than what the scan read, and one of  *)
(* the backfill is for a row that was incomplete when it was read; so none *)
(* that waits at the server is older than what it was decided on.          *)
NotOlder(w) ==
    \A p \in todo[w].snapshots :
        /\ pc[w] = "updatePools"
        /\ p.snapshot >= seen[w].snapshots[p.address]

SnapshotInvariant ==
    /\ \A m \in Range(poolMutations) : m.snapshot >= m.read
    /\ \A w \in Writers : NotOlder(w)
    /\ \A u \in updates.pools : u.read = NoSnapshot

LEMMA InitSnapshots == BackfillInit => SnapshotInvariant
  BY DEF BackfillInit, Init, SnapshotInvariant, NotOlder, NothingToDo, NoUpdates, Range

LEMMA NotOlderKeeps ==
    ASSUME TypeOK, NEW w \in Writers, NotOlder(w), Start(w) \/ Statement(w) \/ Abort(w)
    PROVE  NotOlder(w)'
  <1>1. /\ pc \in [Writers -> Statements] /\ seen \in [Writers -> Reads]
        /\ todo \in [Writers -> Updates] /\ todo[w] \in Updates
    BY DEF TypeOK
  <1>2. CASE InsertPools(w)
    <2>1. todo'[w].snapshots = SnapshotsToUpdate(w) /\ pc'[w] = "updatePools" /\ seen' = seen
      BY <1>1, <1>2 DEF InsertPools, Goto, Updates
    <2>2. QED
      BY <2>1 DEF NotOlder, SnapshotsToUpdate
  <1>3. CASE UpdateSnapshot(w)
    <2>1. PICK p \in todo[w].snapshots : todo' = [todo EXCEPT ![w].snapshots = @ \ {p}]
      BY <1>3 DEF UpdateSnapshot
    <2>2. todo'[w].snapshots = todo[w].snapshots \ {p}
      BY <1>1, <2>1 DEF Updates
    <2>3. pc' = pc /\ seen' = seen
      BY <1>3 DEF UpdateSnapshot
    <2>4. QED
      BY <2>2, <2>3 DEF NotOlder
  <1>4. CASE Abort(w)
    <2>1. todo'[w].snapshots = {}
      BY <1>1, <1>4 DEF Abort, NothingToDo
    <2>2. QED
      BY <2>1 DEF NotOlder
  <1>5. CASE InsertTransactions(w)
    <2>1. todo'[w].snapshots = {}
      BY <1>5 DEF InsertTransactions
    <2>2. QED
      BY <2>1 DEF NotOlder
  <1>6. CASE pc[w] # "updatePools" /\ todo'[w].snapshots = todo[w].snapshots
    BY <1>6 DEF NotOlder
  <1>7. CASE InsertTokens(w) \/ UpdateLabel(w)
    <2>1. pc[w] # "updatePools"
      BY <1>7 DEF InsertTokens, UpdateLabel, Goto
    <2>2. \E labels : todo' = [todo EXCEPT ![w].labels = labels]
      BY <1>7 DEF InsertTokens, UpdateLabel
    <2>3. todo'[w].snapshots = todo[w].snapshots
      BY <1>1, <2>2 DEF Updates
    <2>4. QED
      BY <1>6, <2>1, <2>3
  <1>8. CASE \/ Start(w) \/ SelectDexes(w) \/ InsertDexes(w) \/ SelectTransactions(w)
             \/ SelectTraders(w) \/ InsertTraders(w) \/ SelectTokens(w) \/ UpdateStable(w)
             \/ SelectPools(w) \/ SelectSwaps(w) \/ ReturnWithoutSwaps(w)
             \/ SelectMaxSwapId(w) \/ InsertSwaps(w)
    <2>1. pc[w] # "updatePools" /\ todo' = todo
      BY <1>8 DEF Start, SelectDexes, InsertDexes, SelectTransactions, SelectTraders,
         InsertTraders, SelectTokens, UpdateStable, SelectPools, SelectSwaps,
         ReturnWithoutSwaps, SelectMaxSwapId, InsertSwaps, Goto
    <2>2. QED
      BY <1>6, <2>1
  <1>9. QED
    BY <1>2, <1>3, <1>4, <1>5, <1>7, <1>8 DEF Statement

LEMMA OthersTodo ==
    ASSUME TypeOK, NEW w \in Writers, Start(w) \/ Statement(w) \/ Abort(w),
           NEW v \in Writers, v # w
    PROVE  todo'[v] = todo[v]
  <1>1. todo \in [Writers -> Updates]
    BY DEF TypeOK
  <1>2. QED
    BY <1>1 DEF Start, Statement, Abort,
        SelectDexes, InsertDexes, SelectTransactions, SelectTraders,
        InsertTraders, SelectTokens, InsertTokens, UpdateLabel, UpdateStable,
        SelectPools, InsertPools, UpdateSnapshot, InsertTransactions,
        SelectSwaps, ReturnWithoutSwaps, SelectMaxSwapId, InsertSwaps

(* The tables of pools and their mutations, seen from every step.          *)
PoolStep ==
    \/ UNCHANGED <<pools, poolMutations>>
    \/ \E w \in Writers : InsertPools(w) \/ UpdateSnapshot(w)
    \/ UpdatePool
    \/ ApplyPoolMutation

LEMMA PoolSteps == [BackfillNext]_allVars => PoolStep
  <1> SUFFICES ASSUME [BackfillNext]_allVars PROVE PoolStep
    OBVIOUS
  <1>1. CASE Next
    <2>1. ASSUME NEW w \in Writers, Start(w) \/ Statement(w) \/ Abort(w)
          PROVE  PoolStep
      BY <2>1 DEF PoolStep, Start, Statement, Abort, tables, mutations,
        SelectDexes, InsertDexes, SelectTransactions, SelectTraders,
        InsertTraders, SelectTokens, InsertTokens, UpdateLabel, UpdateStable,
        SelectPools, InsertTransactions,
        SelectSwaps, ReturnWithoutSwaps, SelectMaxSwapId, InsertSwaps
    <2>2. CASE ApplyTokenMutation \/ ApplyPoolMutation
      BY <2>2 DEF PoolStep, ApplyTokenMutation
    <2>3. QED
      BY <1>1, <2>1, <2>2 DEF Next
  <1>2. CASE Asking
    BY <1>2, AskingChangesNothing DEF vars, tables, mutations, PoolStep
  <1>3. CASE UpdateToken
    BY <1>3 DEF UpdateToken, PoolStep
  <1>4. CASE UpdatePool
    BY <1>4 DEF PoolStep
  <1>5. CASE UNCHANGED allVars
    BY <1>5 DEF allVars, vars, tables, mutations, PoolStep
  <1>6. QED
    BY <1>1, <1>2, <1>3, <1>4, <1>5 DEF BackfillNext, BackfillStep, Asking

(* What becomes of the mutations that wait: one more, or one less.         *)
LEMMA Submitted ==
    ASSUME TypeOK, NEW address \in Pools, NEW snapshot \in Nat,
           NEW read \in Nat \cup {NoSnapshot}, MutatePools(address, snapshot, read),
           snapshot >= read, \A m \in Range(poolMutations) : m.snapshot >= m.read
    PROVE  \A m \in Range(poolMutations') : m.snapshot >= m.read
  <1> DEFINE m == [address |-> address, snapshot |-> snapshot, read |-> read,
                   upto |-> Len(pools)]
  <1>1. poolMutations \in Seq(PoolMutation) /\ Len(pools) \in Nat
    BY LenProperties DEF TypeOK
  <1>2. m \in PoolMutation /\ m.snapshot >= m.read
    BY <1>1 DEF PoolMutation
  <1>3. poolMutations' = poolMutations \/ poolMutations' = Append(poolMutations, m)
    BY DEF MutatePools
  <1> HIDE DEF m
  <1>4. Range(Append(poolMutations, m)) \subseteq Range(poolMutations) \cup {m}
    BY <1>1, <1>2, AppendProperties, LenProperties DEF Range
  <1>5. QED
    BY <1>2, <1>3, <1>4

LEMMA MutationsKeep ==
    ASSUME TypeOK, LocalsOK, SnapshotInvariant, PoolStep
    PROVE  \A m \in Range(poolMutations') : m.snapshot >= m.read
  <1>1. ASSUME NEW w \in Writers, UpdateSnapshot(w)
        PROVE  \A m \in Range(poolMutations') : m.snapshot >= m.read
    <2>1. PICK p \in todo[w].snapshots :
              MutatePools(p.address, p.snapshot, seen[w].snapshots[p.address])
      BY <1>1 DEF UpdateSnapshot
    <2>2. todo[w] \in Updates /\ seen[w] \in Reads
      BY DEF TypeOK
    <2>3. p.address \in Pools /\ p.snapshot \in Nat
      BY <2>1, <2>2 DEF Updates
    <2>4. seen[w].snapshots[p.address] \in Nat \cup {NoSnapshot}
      BY <2>2, <2>3 DEF Reads
    <2>5. p.snapshot >= seen[w].snapshots[p.address]
      BY <2>1 DEF SnapshotInvariant, NotOlder
    <2>6. QED
      BY <2>1, <2>3, <2>4, <2>5, Submitted DEF SnapshotInvariant
  <1>2. CASE UpdatePool
    <2>1. PICK u \in updates.pools : MutatePools(u.address, u.snapshot, u.read)
      BY <1>2 DEF UpdatePool
    <2>2. u.address \in Pools /\ u.snapshot \in Nat /\ u.read = NoSnapshot
      BY <2>1 DEF LocalsOK, PoolUpdate, SnapshotInvariant
    <2>3. u.snapshot >= u.read
      BY <2>2 DEF NoSnapshot
    <2>4. QED
      BY <2>1, <2>2, <2>3, Submitted DEF SnapshotInvariant
  <1>3. CASE ApplyPoolMutation
    <2>1. /\ poolMutations \in Seq(PoolMutation) /\ poolMutations # <<>>
          /\ poolMutations' = Tail(poolMutations)
      BY <1>3 DEF ApplyPoolMutation, TypeOK
    <2>2. Range(Tail(poolMutations)) \subseteq Range(poolMutations)
      BY <2>1, HeadTailProperties, LenProperties DEF Range
    <2>3. QED
      BY <2>1, <2>2 DEF SnapshotInvariant
  <1>4. CASE \E w \in Writers : InsertPools(w)
    BY <1>4 DEF InsertPools, mutations, SnapshotInvariant
  <1>5. QED
    BY <1>1, <1>2, <1>3, <1>4 DEF PoolStep, SnapshotInvariant

LEMMA NextSnapshots ==
    ASSUME BackfillTypeOK, SnapshotInvariant, [BackfillNext]_allVars
    PROVE  SnapshotInvariant'
  <1>1. TypeOK /\ LocalsOK
    BY BackfillTypes
  <1>2. \A m \in Range(poolMutations') : m.snapshot >= m.read
    BY <1>1, MutationsKeep, PoolSteps
  <1>3. \A w \in Writers : NotOlder(w)'
    <2>1. CASE UNCHANGED locals
      BY <2>1 DEF locals, SnapshotInvariant, NotOlder
    <2>2. ASSUME NEW v \in Writers, Start(v) \/ Statement(v) \/ Abort(v),
                 NEW w \in Writers
          PROVE  NotOlder(w)'
      <3>1. CASE w = v
        BY <1>1, <2>2, <3>1, NotOlderKeeps DEF SnapshotInvariant
      <3>2. CASE w # v
        BY <1>1, <2>2, <3>2, OnlyOwnLocals, OthersTodo DEF SnapshotInvariant, NotOlder
      <3>3. QED
        BY <3>1, <3>2
    <2>3. CASE [Next]_vars
      BY <2>1, <2>2, <2>3 DEF Next, ApplyTokenMutation, ApplyPoolMutation, vars, locals
    <2>4. QED
      BY <1>1, <2>1, <2>3, StepCases DEF RestKept
  <1>4. \A u \in updates'.pools : u.read = NoSnapshot
    <2>1. updates \in [tokens : SUBSET TokenUpdate, pools : SUBSET PoolUpdate]
      BY <1>1 DEF LocalsOK
    <2>2. CASE SelectPoolRows
      <3>1. PICK read \in RowsByAddress(Range(pools), Dated) :
              updates' = [updates EXCEPT !.pools =
                 {[address |-> p, snapshot |-> metadata.blocks[p],
                   read |-> read[p].snapshot] : p \in IncompleteRows(read)}]
        BY <2>2 DEF SelectPoolRows
      <3>2. updates'.pools = {[address |-> p, snapshot |-> metadata.blocks[p],
                               read |-> read[p].snapshot] : p \in IncompleteRows(read)}
        BY <2>1, <3>1
      <3>3. QED
        BY <3>2 DEF IncompleteRows
    <2>3. CASE UpdatePool
      BY <2>1, <2>3 DEF UpdatePool, SnapshotInvariant
    <2>4. CASE UpdateToken \/ SelectTokenRows
      <3>1. updates'.pools = updates.pools
        BY <2>1, <2>4 DEF UpdateToken, SelectTokenRows
      <3>2. QED
        BY <3>1 DEF SnapshotInvariant
    <2>5. CASE AbortBackfill
      BY <2>5 DEF AbortBackfill, NoUpdates
    <2>6. CASE updates' = updates
      BY <2>6 DEF SnapshotInvariant
    <2>7. QED
      BY <2>2, <2>3, <2>4, <2>5, <2>6 DEF BackfillNext, BackfillStep, StartBackfill,
         LoadTokens, ResolveTokens, TokensFinished, LoadPools, LoadContexts,
         ResolvePools, PoolsFinished, backfill, allVars
  <1>5. QED
    BY <1>2, <1>3, <1>4 DEF SnapshotInvariant

(* A mutation of one pool gives its rows the new snapshot, the others none. *)
LEMMA AppliedSnapshot ==
    ASSUME TypeOK, NEW m, pools' = ApplyToPools(pools, m), NEW i \in DOMAIN pools,
           pools'[i].snapshot # pools[i].snapshot
    PROVE  pools[i].address = m.address /\ pools'[i].snapshot = m.snapshot
  <1>1. pools[i] \in PoolWrite
    BY LenProperties DEF TypeOK
  <1>2. QED
    BY <1>1 DEF ApplyToPools, PoolWrite

LEMMA UpdatedSnapshot ==
    ASSUME TypeOK, NEW address \in Pools, NEW snapshot \in Nat,
           NEW read \in Nat \cup {NoSnapshot},
           MutatePools(address, snapshot, read), NEW i \in DOMAIN pools,
           pools'[i].snapshot # pools[i].snapshot
    PROVE  pools[i].address = address /\ pools'[i].snapshot = snapshot
  <1> DEFINE m == [address |-> address, snapshot |-> snapshot, read |-> read,
                   upto |-> Len(pools)]
  <1>1. pools' = ApplyToPools(pools, m)
    BY DEF MutatePools
  <1>2. QED
    BY <1>1, AppliedSnapshot

LEMMA SnapshotStep ==
    ASSUME BackfillTypeOK, SnapshotInvariant, [BackfillNext]_allVars,
           NEW i \in DOMAIN pools, pools'[i].snapshot < pools[i].snapshot
    PROVE  DecidedOnOther(pools[i])
  <1>1. TypeOK /\ LocalsOK
    BY BackfillTypes
  <1>2. /\ pools \in Seq(PoolWrite) /\ DOMAIN pools = 1 .. Len(pools) /\ Len(pools) \in Nat
        /\ pools[i] \in PoolWrite /\ pools[i].snapshot \in Nat \cup {NoSnapshot}
    <2>1. /\ pools \in Seq(PoolWrite)
          /\ DOMAIN pools = 1 .. Len(pools) /\ Len(pools) \in Nat
          /\ pools[i] \in PoolWrite
      BY <1>1, LenProperties DEF TypeOK
    <2>2. pools[i].snapshot \in Nat \cup {NoSnapshot}
      BY <2>1 DEF PoolWrite
    <2>3. QED
      BY <2>1, <2>2
  <1>3. pools'[i].snapshot # pools[i].snapshot
    <2>1. ASSUME pools'[i].snapshot = pools[i].snapshot PROVE FALSE
      <3>1. pools[i].snapshot < pools[i].snapshot
        BY <2>1
      <3>2. pools[i].snapshot \in Int
        BY <1>2 DEF NoSnapshot
      <3>3. QED
        BY <3>1, <3>2
    <2>2. QED
      BY <2>1
  <1>4. CASE UNCHANGED <<pools, poolMutations>>
    BY <1>3, <1>4
  <1>5. ASSUME NEW w \in Writers, InsertPools(w) PROVE FALSE
    <2>1. NewPools(w) \in SUBSET PoolWrite /\ IsFiniteSet(NewPools(w))
      BY <1>1, NewRowsFinite
    <2> DEFINE t == SetToSeq(NewPools(w))
    <2>2. t \in Seq(PoolWrite)
      BY <2>1, SetToSeqProperties, SeqMonotonic
    <2>3. pools' = pools \o t
      BY <1>5 DEF InsertPools, Insert
    <2> HIDE DEF t
    <2>4. i \in 1 .. (Len(pools) + Len(t)) /\ i <= Len(pools) /\ Len(t) \in Nat
      BY <1>2, <2>2, LenProperties
    <2>5. (pools \o t)[i] = pools[i]
      BY <1>2, <2>2, <2>4, ConcatProperties
    <2>6. QED
      BY <1>3, <2>3, <2>5
  <1>6. ASSUME NEW w \in Writers, UpdateSnapshot(w) PROVE DecidedOnOther(pools[i])
    <2>1. PICK p \in todo[w].snapshots :
              /\ MutatePools(p.address, p.snapshot, seen[w].snapshots[p.address])
              /\ todo' = [todo EXCEPT ![w].snapshots = @ \ {p}]
      BY <1>6 DEF UpdateSnapshot
    <2>2. /\ todo \in [Writers -> Updates] /\ p.address \in Pools /\ p.snapshot \in Nat
          /\ seen[w].snapshots[p.address] \in Nat \cup {NoSnapshot}
      <3>1. todo \in [Writers -> Updates] /\ seen \in [Writers -> Reads]
        BY <1>1 DEF TypeOK
      <3>2. p \in [address : Pools, dex : Dexes, snapshot : Nat]
        BY <3>1 DEF Updates
      <3>3. seen[w].snapshots \in [Pools -> Nat \cup {NoSnapshot}]
        BY <3>1 DEF Reads
      <3>4. QED
        BY <3>1, <3>2, <3>3
    <2>3. pools[i].address = p.address /\ pools'[i].snapshot = p.snapshot
      BY <1>1, <1>3, <2>1, <2>2, UpdatedSnapshot
    <2>4. p \in todo[w].snapshots \ todo'[w].snapshots
      BY <2>1, <2>2 DEF Updates
    <2>5. p.snapshot >= seen[w].snapshots[p.address]
          /\ seen[w].snapshots[p.address] \in Nat \cup {NoSnapshot}
      BY <1>1, <2>2 DEF SnapshotInvariant, NotOlder, TypeOK, Reads
    <2>6. p.snapshot < pools[i].snapshot
      BY <2>3
    <2>7. seen[w].snapshots[p.address] # pools[i].snapshot
      <3>1. p.snapshot \in Int /\ pools[i].snapshot \in Int
        BY <1>2, <2>2 DEF NoSnapshot
      <3>2. ~(p.snapshot >= pools[i].snapshot)
        BY <2>6, <3>1
      <3>3. QED
        BY <2>5, <3>2
    <2>8. pools[i].address \in Addresses(todo[w].snapshots \ todo'[w].snapshots)
      BY <2>3, <2>4 DEF Addresses
    <2>9. QED
      BY <2>3, <2>7, <2>8 DEF DecidedOnOther
  <1>7. CASE UpdatePool
    <2>1. PICK u \in updates.pools :
              /\ MutatePools(u.address, u.snapshot, u.read)
              /\ updates' = [updates EXCEPT !.pools = @ \ {u}]
      BY <1>7 DEF UpdatePool
    <2>2. /\ updates \in [tokens : SUBSET TokenUpdate, pools : SUBSET PoolUpdate]
          /\ u.address \in Pools /\ u.snapshot \in Nat
          /\ u.read \in Nat \cup {NoSnapshot}
      BY <1>1 DEF LocalsOK, PoolUpdate
    <2>3. pools[i].address = u.address /\ pools'[i].snapshot = u.snapshot
      BY <1>1, <1>3, <2>1, <2>2, UpdatedSnapshot
    <2>4. u \in updates.pools \ updates'.pools
      BY <2>1, <2>2
    <2>5. u.snapshot < pools[i].snapshot
      BY <2>3
    <2>6. u.read # pools[i].snapshot
      BY <1>2, <2>2, <2>5 DEF SnapshotInvariant, NoSnapshot
    <2>7. QED
      BY <2>3, <2>4, <2>6 DEF DecidedOnOther
  <1>8. CASE ApplyPoolMutation
    <2> DEFINE m == Head(poolMutations)
    <2>1. /\ poolMutations \in Seq(PoolMutation) /\ poolMutations # <<>>
          /\ poolMutations' = Tail(poolMutations)
          /\ pools' = ApplyToPools(pools, m)
      BY <1>1, <1>8 DEF ApplyPoolMutation, TypeOK
    <2>2. m \in PoolMutation /\ m \in Range(poolMutations)
      BY <2>1, HeadTailProperties, LenProperties DEF Range
    <2>3. m.snapshot >= m.read
      BY <2>2 DEF SnapshotInvariant
    <2> HIDE DEF m
    <2>4. pools[i].address = m.address /\ pools'[i].snapshot = m.snapshot
      BY <1>1, <1>3, <2>1, AppliedSnapshot
    <2>5. m.read # pools[i].snapshot
      BY <1>2, <2>2, <2>3, <2>4 DEF PoolMutation, NoSnapshot
    <2>6. QED
      BY <2>1, <2>4, <2>5 DEF DecidedOnOther, m
  <1>9. QED
    BY <1>4, <1>5, <1>6, <1>7, <1>8, PoolSteps DEF PoolStep

(* Whoever replaces a snapshot by an older one had not read the one it     *)
(* replaces; with synchronous mutations or without.                        *)
THEOREM BackfillSnapshots == BackfillSpec => SnapshotsGoBackOnlyIfStale
  <1>1. BackfillTypeOK /\ SnapshotInvariant /\ [BackfillNext]_allVars => SnapshotInvariant'
    BY NextSnapshots
  <1>2. BackfillTypeOK /\ SnapshotInvariant /\ [BackfillNext]_allVars
          => [\A i \in DOMAIN pools :
                 pools'[i].snapshot < pools[i].snapshot => DecidedOnOther(pools[i])]_allVars
    BY SnapshotStep
  <1>3. QED
    BY <1>1, <1>2, InitBackfillTypeOK, NextBackfillTypeOK, InitSnapshots, PTL
       DEF BackfillSpec, SnapshotsGoBackOnlyIfStale
-----------------------------------------------------------------------------
(* A page is the beginning of the candidates after the cursor in the order *)
(* of their ranks, and empty only when there are none.                     *)
LEMMA PageIsPrefix ==
    ASSUME NEW S \in SUBSET Items, IsFiniteSet(S), NEW last,
           NEW l \in PageAfter(S, last),
           NEW a \in S, Rank[a] > last, a \notin PageAfter(S, last)
    PROVE  Rank[a] > Rank[l]
  <1> DEFINE rest == {x \in S : Rank[x] > last}
             upto(x) == {y \in rest : Rank[y] <= Rank[x]}
  <1>1. /\ IsFiniteSet(rest) /\ a \in rest /\ l \in rest
        /\ \A x \in rest : Rank[x] \in Nat
    BY FS_Subset, RankAssumption DEF PageAfter, Items
  <1>2. IsFiniteSet(upto(l)) /\ IsFiniteSet(upto(a))
    BY <1>1, FS_Subset
  <1>3. Cardinality(upto(l)) <= ChunkSize /\ ~(Cardinality(upto(a)) <= ChunkSize)
    BY <1>1 DEF PageAfter
  <1>4. SUFFICES ASSUME ~(Rank[a] > Rank[l]) PROVE FALSE
    OBVIOUS
  <1>5. Rank[a] <= Rank[l]
    BY <1>1, <1>4
  <1>6. upto(a) \in SUBSET upto(l)
    <2>1. ASSUME NEW y \in rest, Rank[y] <= Rank[a] PROVE Rank[y] <= Rank[l]
      <3>1. Rank[y] \in Nat /\ Rank[a] \in Nat /\ Rank[l] \in Nat
        BY <1>1
      <3> HIDE DEF rest
      <3>2. QED
        BY <1>5, <2>1, <3>1
    <2>2. QED
      BY <2>1
  <1> HIDE DEF upto
  <1>7. Cardinality(upto(a)) <= Cardinality(upto(l))
    BY <1>2, <1>6, FS_Subset
  <1>8. /\ Cardinality(upto(a)) \in Nat /\ Cardinality(upto(l)) \in Nat
        /\ ChunkSize \in Nat
    BY <1>2, FS_CardinalityType, BackfillAssumption
  <1>9. QED
    BY <1>3, <1>7, <1>8

LEMMA PageIsEmpty ==
    ASSUME NEW S \in SUBSET Items, IsFiniteSet(S), NEW last, PageAfter(S, last) = {},
           NEW a \in S
    PROVE  ~(Rank[a] > last)
  <1> DEFINE rest == {x \in S : Rank[x] > last}
             ranks == {Rank[x] : x \in rest}
  <1>1. SUFFICES ASSUME Rank[a] > last PROVE FALSE
    OBVIOUS
  <1>2. \A x \in rest : Rank[x] \in Nat
    BY RankAssumption DEF Items
  <1>3. ranks # {} /\ ranks \subseteq Nat
    BY <1>1, <1>2
  <1>4. PICK m \in ranks : \A x \in ranks : m <= x
    BY <1>3, LeastNatural
  <1>5. PICK f \in rest : Rank[f] = m
    OBVIOUS
  <1>6. {y \in rest : Rank[y] <= Rank[f]} = {f}
    <2>1. ASSUME NEW y \in rest, Rank[y] <= Rank[f] PROVE y = f
      <3>1. Rank[y] \in Nat /\ Rank[f] \in Nat /\ Rank[f] <= Rank[y]
        BY <1>2, <1>4, <1>5
      <3>2. Rank[y] = Rank[f]
        <4> HIDE DEF rest
        <4>1. QED
          BY <2>1, <3>1
      <3>3. y \in Tokens \cup Pools /\ f \in Tokens \cup Pools
        BY DEF Items
      <3>4. QED
        BY <3>2, <3>3, RankAssumption
    <2>2. Rank[f] <= Rank[f]
      <3>1. Rank[f] \in Nat
        BY <1>2
      <3>2. QED
        BY <3>1
    <2>3. QED
      BY <2>1, <2>2
  <1>7. Cardinality({y \in rest : Rank[y] <= Rank[f]}) = 1
    BY <1>6, FS_Singleton
  <1>8. f \in PageAfter(S, last)
    <2>1. 1 <= ChunkSize
      BY BackfillAssumption
    <2>2. QED
      BY <1>7, <2>1 DEF PageAfter
  <1>9. QED
    BY <1>8

LEMMA CandidatesFinite ==
    ASSUME TypeOK
    PROVE  /\ TokenCandidates \in SUBSET Items /\ IsFiniteSet(TokenCandidates)
           /\ PoolCandidates \in SUBSET Items /\ IsFiniteSet(PoolCandidates)
           /\ TokenCandidates \subseteq TokenKeys /\ PoolCandidates \subseteq PoolKeys
  <1>1. /\ TokenCandidates \subseteq TokenKeys /\ PoolCandidates \subseteq PoolKeys
        /\ TokenCandidates \in SUBSET Items /\ PoolCandidates \in SUBSET Items
    BY TableRows DEF TokenCandidates, PoolCandidates, TokenKeys, PoolKeys, Addresses, Items
  <1>2. tokens \in Seq(TokenWrite) /\ pools \in Seq(PoolWrite)
    BY DEF TypeOK
  <1>3. IsFiniteSet(TokenKeys)
    <2> DEFINE key == [row \in TokenWrite |-> row.address]
    <2>1. key \in [TokenWrite -> Tokens]
      BY DEF TokenWrite
    <2>2. KeysOf(tokens, key) = TokenKeys
      BY TableRows DEF KeysOf, TokenKeys, Addresses
    <2> HIDE DEF key
    <2>3. QED
      BY <1>2, <2>1, <2>2, KeysFinite
  <1>4. IsFiniteSet(PoolKeys)
    <2> DEFINE key == [row \in PoolWrite |-> row.address]
    <2>1. key \in [PoolWrite -> Pools]
      BY DEF PoolWrite
    <2>2. KeysOf(pools, key) = PoolKeys
      BY TableRows DEF KeysOf, PoolKeys, Addresses
    <2> HIDE DEF key
    <2>3. QED
      BY <1>2, <2>1, <2>2, KeysFinite
  <1>5. QED
    BY <1>1, <1>3, <1>4, FS_Subset

(* Of the addresses that were there, none becomes a candidate.             *)
CandidatesShrink ==
    /\ TokenCandidates' \cap TokenKeys \subseteq TokenCandidates
    /\ PoolCandidates' \cap PoolKeys \subseteq PoolCandidates

Unnamed(table) == Addresses({row \in Range(table) : ~row.named})
Incomplete(table) == Addresses({row \in Range(table) : row.snapshot = NoSnapshot})

LEMMA ApplyShrinks ==
    /\ \A table \in Seq(TokenWrite), m \in TokenMutation :
         Unnamed(ApplyToTokens(table, m)) \subseteq Unnamed(table)
    /\ \A table \in Seq(PoolWrite), m \in PoolMutation :
         Incomplete(ApplyToPools(table, m)) \subseteq Incomplete(table)
  <1>1. ASSUME NEW table \in Seq(TokenWrite), NEW m \in TokenMutation
        PROVE  Unnamed(ApplyToTokens(table, m)) \subseteq Unnamed(table)
    <2> DEFINE new == ApplyToTokens(table, m)
    <2>1. \A i \in DOMAIN table : table[i] \in TokenWrite
      BY LenProperties
    <2>2. DOMAIN new = DOMAIN table
      BY DEF ApplyToTokens
    <2>3. \A i \in DOMAIN table :
              new[i].address = table[i].address /\ (~new[i].named => ~table[i].named)
      BY <2>1 DEF ApplyToTokens, TokenWrite
    <2> HIDE DEF new
    <2>4. Unnamed(new) \subseteq Unnamed(table)
      BY <2>2, <2>3 DEF Unnamed, Addresses, Range
    <2>5. QED
      BY <2>4 DEF new
  <1>2. ASSUME NEW table \in Seq(PoolWrite), NEW m \in PoolMutation
        PROVE  Incomplete(ApplyToPools(table, m)) \subseteq Incomplete(table)
    <2> DEFINE new == ApplyToPools(table, m)
    <2>1. \A i \in DOMAIN table : table[i] \in PoolWrite
      BY LenProperties
    <2>2. DOMAIN new = DOMAIN table
      BY DEF ApplyToPools
    <2>3. \A i \in DOMAIN table :
              /\ new[i].address = table[i].address
              /\ new[i].snapshot = NoSnapshot => table[i].snapshot = NoSnapshot
      BY <2>1 DEF ApplyToPools, PoolWrite, PoolMutation, NoSnapshot
    <2> HIDE DEF new
    <2>4. Incomplete(new) \subseteq Incomplete(table)
      BY <2>2, <2>3 DEF Incomplete, Addresses, Range
    <2>5. QED
      BY <2>4 DEF new
  <1>3. QED
    BY <1>1, <1>2

LEMMA CandidateTables ==
    TokenCandidates = Unnamed(tokens) /\ PoolCandidates = Incomplete(pools)
  BY DEF TokenCandidates, PoolCandidates, Unnamed, Incomplete

LEMMA NextCandidateTables ==
    TokenCandidates' = Unnamed(tokens') /\ PoolCandidates' = Incomplete(pools')
  BY DEF TokenCandidates, PoolCandidates, Unnamed, Incomplete

LEMMA MutateShrinks ==
    ASSUME TypeOK
    PROVE  /\ \A columns \in SUBSET {"label", "is_stable"}, addresses \in SUBSET Tokens :
                MutateTokens(columns, addresses) => Unnamed(tokens') \subseteq Unnamed(tokens)
           /\ \A address \in Pools, snapshot \in Nat, read \in Nat \cup {NoSnapshot} :
                MutatePools(address, snapshot, read) =>
                    Incomplete(pools') \subseteq Incomplete(pools)
  <1>1. tokens \in Seq(TokenWrite) /\ pools \in Seq(PoolWrite)
        /\ Len(tokens) \in Nat /\ Len(pools) \in Nat
    BY LenProperties DEF TypeOK
  <1>2. ASSUME NEW columns \in SUBSET {"label", "is_stable"}, NEW addresses \in SUBSET Tokens,
               MutateTokens(columns, addresses)
        PROVE  Unnamed(tokens') \subseteq Unnamed(tokens)
    <2> DEFINE m == [columns |-> columns, addresses |-> addresses, upto |-> Len(tokens)]
    <2>1. m \in TokenMutation
      BY <1>1 DEF TokenMutation
    <2>2. tokens' = ApplyToTokens(tokens, m) \/ tokens' = tokens
      BY <1>2 DEF MutateTokens
    <2> HIDE DEF m
    <2>3. QED
      BY <1>1, <2>1, <2>2, ApplyShrinks
  <1>3. ASSUME NEW address \in Pools, NEW snapshot \in Nat,
               NEW read \in Nat \cup {NoSnapshot}, MutatePools(address, snapshot, read)
        PROVE  Incomplete(pools') \subseteq Incomplete(pools)
    <2> DEFINE m == [address |-> address, snapshot |-> snapshot, read |-> read,
                     upto |-> Len(pools)]
    <2>1. m \in PoolMutation
      BY <1>1 DEF PoolMutation
    <2>2. pools' = ApplyToPools(pools, m) \/ pools' = pools
      BY <1>3 DEF MutatePools
    <2> HIDE DEF m
    <2>3. QED
      BY <1>1, <2>1, <2>2, ApplyShrinks
  <1>4. QED
    BY <1>2, <1>3

LEMMA QuietShrinks ==
    ASSUME TypeOK, NEW w \in Writers, Quiet(w)
    PROVE  CandidatesShrink
  <1> USE CandidateTables, NextCandidateTables DEF CandidatesShrink
  <1>1. CASE UNCHANGED tables
    BY <1>1 DEF tables
  <1>2. CASE UpdateLabel(w)
    <2>1. PICK a \in todo[w].labels : MutateTokens({"label"}, {a})
      BY <1>2 DEF UpdateLabel
    <2>2. {a} \in SUBSET Tokens
      BY DEF TypeOK, Updates
    <2>3. Unnamed(tokens') \subseteq Unnamed(tokens)
      BY <2>1, <2>2, MutateShrinks
    <2>4. QED
      BY <1>2, <2>3 DEF UpdateLabel
  <1>3. CASE UpdateStable(w)
    <2>1. StableTokens(w) \in SUBSET Tokens
      BY PayloadProperties DEF StableTokens, TradePayload, TokenWrite
    <2>2. Unnamed(tokens') \subseteq Unnamed(tokens)
      BY <1>3, <2>1, MutateShrinks DEF UpdateStable
    <2>3. QED
      BY <1>3, <2>2 DEF UpdateStable
  <1>4. CASE UpdateSnapshot(w)
    <2>1. PICK p \in todo[w].snapshots :
              MutatePools(p.address, p.snapshot, seen[w].snapshots[p.address])
      BY <1>4 DEF UpdateSnapshot
    <2>2. /\ p.address \in Pools /\ p.snapshot \in Nat
          /\ seen[w].snapshots[p.address] \in Nat \cup {NoSnapshot}
      BY DEF TypeOK, Updates, Reads
    <2>3. Incomplete(pools') \subseteq Incomplete(pools)
      BY <2>1, <2>2, MutateShrinks
    <2>4. QED
      BY <1>4, <2>3 DEF UpdateSnapshot
  <1>5. QED
    BY <1>1, <1>2, <1>3, <1>4
       DEF Quiet, Start, Abort, ReturnWithoutSwaps, SelectDexes,
           SelectTransactions, SelectTraders, SelectTokens, SelectPools,
           SelectSwaps, SelectMaxSwapId

LEMMA MutationShrinks ==
    ASSUME TypeOK, ApplyTokenMutation \/ ApplyPoolMutation
    PROVE  CandidatesShrink
  <1> USE CandidateTables, NextCandidateTables DEF CandidatesShrink
  <1>1. CASE ApplyTokenMutation
    <2>1. Head(tokenMutations) \in TokenMutation
      BY <1>1, HeadTailProperties DEF ApplyTokenMutation, TypeOK
    <2>2. Unnamed(tokens') \subseteq Unnamed(tokens)
      BY <1>1, <2>1, ApplyShrinks DEF ApplyTokenMutation, TypeOK
    <2>3. QED
      BY <1>1, <2>2 DEF ApplyTokenMutation
  <1>2. CASE ApplyPoolMutation
    <2>1. Head(poolMutations) \in PoolMutation
      BY <1>2, HeadTailProperties DEF ApplyPoolMutation, TypeOK
    <2>2. Incomplete(pools') \subseteq Incomplete(pools)
      BY <1>2, <2>1, ApplyShrinks DEF ApplyPoolMutation, TypeOK
    <2>3. QED
      BY <1>2, <2>2 DEF ApplyPoolMutation
  <1>3. QED
    BY <1>1, <1>2

(* A scan that persists alone inserts only addresses that were not there.  *)
LEMMA InsertShrinks ==
    ASSUME TypeOK, NEW w \in Writers, ReadIsFresh(w), InsertTokens(w) \/ InsertPools(w)
    PROVE  CandidatesShrink
  <1>1. CASE InsertTokens(w)
    <2>1. tokens \in Seq(TokenWrite) /\ tokens' = Insert(tokens, NewTokens(w))
          /\ pools' = pools
      BY <1>1 DEF InsertTokens, TypeOK
    <2>2. NewTokens(w) \in SUBSET TokenWrite /\ IsFiniteSet(NewTokens(w))
      BY NewRowsFinite
    <2>3. Range(tokens') = Range(tokens) \cup NewTokens(w)
      BY <2>1, <2>2, InsertProperties
    <2>4. \A t \in NewTokens(w) : t.address \notin TokenKeys
      BY <1>1 DEF ReadIsFresh, InsertTokens, Goto, NewTokens, Addresses
    <2>5. QED
      BY <2>1, <2>3, <2>4 DEF CandidatesShrink, TokenCandidates, PoolCandidates, Addresses
  <1>2. CASE InsertPools(w)
    <2>1. pools \in Seq(PoolWrite) /\ pools' = Insert(pools, NewPools(w))
          /\ tokens' = tokens
      BY <1>2 DEF InsertPools, TypeOK
    <2>2. NewPools(w) \in SUBSET PoolWrite /\ IsFiniteSet(NewPools(w))
      BY NewRowsFinite
    <2>3. Range(pools') = Range(pools) \cup NewPools(w)
      BY <2>1, <2>2, InsertProperties
    <2>4. \A p \in NewPools(w) : p.address \notin PoolKeys
      BY <1>2 DEF ReadIsFresh, InsertPools, Goto, NewPools, Addresses
    <2>5. QED
      BY <2>1, <2>3, <2>4 DEF CandidatesShrink, TokenCandidates, PoolCandidates, Addresses
  <1>3. QED
    BY <1>1, <1>2

LEMMA NextShrinks ==
    ASSUME IntegrityInvariant, OneWriterInvariant, [Next]_vars
    PROVE  CandidatesShrink /\ KeysGrow
  <1>1. TypeOK
    BY DEF IntegrityInvariant
  <1>2. ASSUME NEW w \in Writers, Start(w) \/ Statement(w) \/ Abort(w)
        PROVE  CandidatesShrink /\ KeysGrow
    <2>1. KeysGrow
      BY <1>2, NextGrows
    <2>2. CASE Quiet(w)
      BY <1>1, <2>1, <2>2, QuietShrinks
    <2>3. CASE InsertTokens(w) \/ InsertPools(w)
      BY <1>1, <2>1, <2>3, InsertShrinks DEF OneWriterInvariant
    <2>4. CASE \/ InsertDexes(w) \/ InsertTraders(w) \/ InsertTransactions(w)
               \/ InsertSwaps(w)
      <3>1. tokens' = tokens /\ pools' = pools
        BY <2>4 DEF InsertDexes, InsertTraders, InsertTransactions, InsertSwaps
      <3>2. QED
        BY <2>1, <3>1 DEF CandidatesShrink, TokenCandidates, PoolCandidates
    <2>5. QED
      BY <1>2, <2>2, <2>3, <2>4 DEF Statement, Quiet
  <1>3. CASE ApplyTokenMutation \/ ApplyPoolMutation
    BY <1>1, <1>3, MutationShrinks, MutationFacts, FactsStay
  <1>4. CASE UNCHANGED vars
    <2>1. UNCHANGED Facts
      BY <1>4 DEF vars, tables, Facts, DexKeys, TraderKeys, TokenKeys,
         StoredPools, StoredTransactions, StoredSwaps
    <2>2. CandidatesShrink
      BY <1>4 DEF vars, tables, CandidatesShrink, TokenCandidates, PoolCandidates
    <2>3. QED
      BY <2>1, <2>2, FactsStay
  <1>5. QED
    BY <1>2, <1>3, <1>4 DEF Next

LEMMA UpdatesShrink ==
    ASSUME TypeOK, LocalsOK, UpdateToken \/ UpdatePool
    PROVE  CandidatesShrink /\ KeysGrow
  <1> USE CandidateTables, NextCandidateTables DEF CandidatesShrink
  <1>1. CASE UpdateToken
    <2>1. PICK u \in updates.tokens : MutateTokens(u.columns, {u.address})
      BY <1>1 DEF UpdateToken
    <2>2. /\ u.columns \in SUBSET {"label", "is_stable"}
          /\ {u.address} \in SUBSET Tokens
      BY DEF LocalsOK, TokenUpdate
    <2>3. Unnamed(tokens') \subseteq Unnamed(tokens)
      BY <2>1, <2>2, MutateShrinks
    <2>4. KeysGrow
      BY <1>1, UpdateTokenKeeps, FactsStay DEF RestKept
    <2>5. QED
      BY <1>1, <2>3, <2>4 DEF UpdateToken
  <1>2. CASE UpdatePool
    <2>1. PICK u \in updates.pools : MutatePools(u.address, u.snapshot, u.read)
      BY <1>2 DEF UpdatePool
    <2>2. /\ u.address \in Pools /\ u.snapshot \in Nat
          /\ u.read \in Nat \cup {NoSnapshot}
      BY DEF LocalsOK, PoolUpdate
    <2>3. Incomplete(pools') \subseteq Incomplete(pools)
      BY <2>1, <2>2, MutateShrinks
    <2>4. KeysGrow
      BY <1>2, UpdatePoolKeeps, FactsStay DEF RestKept
    <2>5. QED
      BY <1>2, <2>3, <2>4 DEF UpdatePool
  <1>3. QED
    BY <1>1, <1>2
-----------------------------------------------------------------------------
(* A candidate that still waits is after the cursor; when its pass is over *)
(* there is none.                                                          *)
TokenStages == {"tokens", "resolveTokens", "selectTokens"}
PoolStages == {"pools", "loadContexts", "resolvePools", "selectPools"}

WaitingInvariant ==
    /\ waiting.tokens \subseteq TokenKeys /\ waiting.pools \subseteq PoolKeys
    /\ stage \in TokenStages =>
         \A a \in waiting.tokens \cap TokenCandidates : Rank[a] > cursor
    /\ stage \in PoolStages \cup {"done"} => waiting.tokens \cap TokenCandidates = {}
    /\ stage \in PoolStages =>
         \A a \in waiting.pools \cap PoolCandidates : Rank[a] > cursor
    /\ stage = "done" => waiting.pools \cap PoolCandidates = {}

LEMMA InitWaiting == BackfillInit => WaitingInvariant
  BY DEF BackfillInit, WaitingInvariant, NothingWaits, TokenStages, PoolStages

LEMMA ScanKeepsWaiting ==
    ASSUME WaitingInvariant, CandidatesShrink, KeysGrow,
           stage' = stage, cursor' = cursor, waiting' = waiting
    PROVE  WaitingInvariant'
  BY DEF WaitingInvariant, CandidatesShrink, KeysGrow

(* The cursor passes no candidate without its page.                        *)
LEMMA PageKeepsWaiting ==
    ASSUME TypeOK, LocalsOK, WaitingInvariant, LoadTokens \/ LoadPools
    PROVE  WaitingInvariant'
  <1>1. /\ TokenCandidates \in SUBSET Items /\ IsFiniteSet(TokenCandidates)
        /\ PoolCandidates \in SUBSET Items /\ IsFiniteSet(PoolCandidates)
        /\ TokenCandidates \subseteq TokenKeys /\ PoolCandidates \subseteq PoolKeys
    BY CandidatesFinite
  <1>2. waiting \in [tokens : SUBSET Tokens, pools : SUBSET Pools]
    BY DEF LocalsOK
  <1>3. /\ TokenCandidates' = TokenCandidates /\ PoolCandidates' = PoolCandidates
        /\ TokenKeys' = TokenKeys /\ PoolKeys' = PoolKeys
    BY AskingChangesNothing DEF Asking, vars, tables, TokenCandidates, PoolCandidates,
       TokenKeys, PoolKeys
  <1>4. CASE LoadTokens
    <2> DEFINE next == PageAfter(TokenCandidates, cursor)
    <2>1. /\ stage = "tokens" /\ stage' = "resolveTokens" /\ next # {}
          /\ cursor' = LastOf(next)
          /\ waiting' = [waiting EXCEPT !.tokens = @ \ next]
      BY <1>4 DEF LoadTokens, Step, NextPage
    <2>2. waiting'.tokens = waiting.tokens \ next /\ waiting'.pools = waiting.pools
      BY <1>2, <2>1
    <2>3. next \in SUBSET Addresses(Range(tokens)) /\ tokens \in Seq(TokenWrite)
          /\ \A row \in TokenWrite : row.address \in Items
      BY DEF PageAfter, TokenCandidates, Addresses, TypeOK, TokenWrite, Items
    <2>4. PICK l \in next : LastOf(next) = Rank[l]
      <3> HIDE DEF next
      <3>1. QED
        BY <2>1, <2>3, CursorType
    <2>5. ASSUME NEW a \in (waiting.tokens \ next) \cap TokenCandidates
          PROVE  Rank[a] > cursor'
      <3>1. Rank[a] > cursor
        BY <2>1 DEF WaitingInvariant, TokenStages
      <3>2. Rank[a] > Rank[l]
        BY <1>1, <3>1, PageIsPrefix
      <3>3. QED
        BY <2>1, <2>4, <3>2
    <2> HIDE DEF next
    <2>6. QED
      BY <1>3, <2>1, <2>2, <2>5 DEF WaitingInvariant, TokenStages, PoolStages
  <1>5. CASE LoadPools
    <2> DEFINE next == PageAfter(PoolCandidates, cursor)
    <2>1. /\ stage = "pools" /\ stage' = "loadContexts" /\ next # {}
          /\ cursor' = LastOf(next)
          /\ waiting' = [waiting EXCEPT !.pools = @ \ next]
      BY <1>5 DEF LoadPools, Step, NextPage
    <2>2. waiting'.pools = waiting.pools \ next /\ waiting'.tokens = waiting.tokens
      BY <1>2, <2>1
    <2>3. next \in SUBSET Addresses(Range(pools)) /\ pools \in Seq(PoolWrite)
          /\ \A row \in PoolWrite : row.address \in Items
      BY DEF PageAfter, PoolCandidates, Addresses, TypeOK, PoolWrite, Items
    <2>4. PICK l \in next : LastOf(next) = Rank[l]
      <3> HIDE DEF next
      <3>1. QED
        BY <2>1, <2>3, CursorType
    <2>5. ASSUME NEW a \in (waiting.pools \ next) \cap PoolCandidates
          PROVE  Rank[a] > cursor'
      <3>1. Rank[a] > cursor
        BY <2>1 DEF WaitingInvariant, PoolStages
      <3>2. Rank[a] > Rank[l]
        BY <1>1, <3>1, PageIsPrefix
      <3>3. QED
        BY <2>1, <2>4, <3>2
    <2> HIDE DEF next
    <2>6. QED
      BY <1>3, <2>1, <2>2, <2>5 DEF WaitingInvariant, TokenStages, PoolStages
  <1>6. QED
    BY <1>4, <1>5

LEMMA AskingKeepsWaiting ==
    ASSUME TypeOK, LocalsOK, WaitingInvariant, Asking
    PROVE  WaitingInvariant'
  <1>1. /\ TokenCandidates \in SUBSET Items /\ IsFiniteSet(TokenCandidates)
        /\ PoolCandidates \in SUBSET Items /\ IsFiniteSet(PoolCandidates)
        /\ TokenCandidates \subseteq TokenKeys /\ PoolCandidates \subseteq PoolKeys
        /\ \A a \in Items : Rank[a] > 0
    <2>1. \A a \in Items : Rank[a] \in Nat \ {0}
      BY RankAssumption DEF Items
    <2>2. \A a \in Items : Rank[a] > 0
      BY <2>1
    <2>3. QED
      BY <2>2, CandidatesFinite
  <1>2. /\ TokenCandidates' = TokenCandidates /\ PoolCandidates' = PoolCandidates
        /\ TokenKeys' = TokenKeys /\ PoolKeys' = PoolKeys
    BY AskingChangesNothing DEF vars, tables, TokenCandidates, PoolCandidates,
       TokenKeys, PoolKeys
  <1>3. CASE StartBackfill
    <2>1. /\ stage' = "tokens" /\ cursor' = 0
          /\ waiting'.tokens = TokenCandidates /\ waiting'.pools = {}
      BY <1>3 DEF StartBackfill
    <2>2. QED
      BY <1>1, <1>2, <2>1 DEF WaitingInvariant, TokenStages, PoolStages
  <1>4. CASE TokensFinished
    <2>1. /\ stage = "tokens" /\ stage' = "pools" /\ cursor' = 0
          /\ waiting'.tokens = waiting.tokens \cap TokenCandidates
          /\ waiting'.pools = PoolCandidates
          /\ PageAfter(TokenCandidates, cursor) = {}
      BY <1>4 DEF TokensFinished, Step
    <2>2. waiting.tokens \cap TokenCandidates = {}
      BY <1>1, <2>1, PageIsEmpty DEF WaitingInvariant, TokenStages
    <2>3. QED
      BY <1>1, <1>2, <2>1, <2>2 DEF WaitingInvariant, TokenStages, PoolStages
  <1>5. CASE PoolsFinished
    <2>1. /\ stage = "pools" /\ stage' = "done" /\ waiting' = waiting
          /\ PageAfter(PoolCandidates, cursor) = {}
      BY <1>5 DEF PoolsFinished, Step
    <2>2. waiting.pools \cap PoolCandidates = {}
      BY <1>1, <2>1, PageIsEmpty DEF WaitingInvariant, PoolStages
    <2>3. QED
      BY <1>2, <2>1, <2>2 DEF WaitingInvariant, TokenStages, PoolStages
  <1>6. CASE AbortBackfill
    BY <1>6 DEF AbortBackfill, NothingWaits, WaitingInvariant, TokenStages, PoolStages
  <1>7. CASE ResolveTokens \/ SelectTokenRows
    <2>1. /\ stage \in TokenStages /\ stage' \in TokenStages
          /\ cursor' = cursor /\ waiting' = waiting
      BY <1>7 DEF ResolveTokens, SelectTokenRows, Step, TokenStages
    <2>2. QED
      BY <1>2, <2>1 DEF WaitingInvariant, TokenStages, PoolStages
  <1>8. CASE LoadContexts \/ ResolvePools \/ SelectPoolRows
    <2>1. /\ stage \in PoolStages /\ stage' \in PoolStages
          /\ cursor' = cursor /\ waiting' = waiting
      BY <1>8 DEF LoadContexts, ResolvePools, SelectPoolRows, Step, PoolStages
    <2>2. QED
      BY <1>2, <2>1 DEF WaitingInvariant, TokenStages, PoolStages
  <1>9. QED
    BY <1>3, <1>4, <1>5, <1>6, <1>7, <1>8, PageKeepsWaiting DEF Asking

LEMMA NextWaiting ==
    ASSUME BackfillTypeOK, IntegrityInvariant, OneWriterInvariant, WaitingInvariant,
           [BackfillNext]_allVars
    PROVE  WaitingInvariant'
  <1>1. TypeOK /\ LocalsOK
    BY BackfillTypes
  <1>2. CASE UNCHANGED backfill /\ [Next]_vars
    BY <1>2, NextShrinks, ScanKeepsWaiting DEF backfill
  <1>3. CASE Asking
    BY <1>1, <1>3, AskingKeepsWaiting
  <1>4. CASE UpdateToken \/ UpdatePool
    <2>1. stage' = stage /\ cursor' = cursor /\ waiting' = waiting
      BY <1>4 DEF UpdateToken, UpdatePool, Step
    <2>2. QED
      BY <1>1, <1>4, <2>1, UpdatesShrink, ScanKeepsWaiting
  <1>5. QED
    BY <1>2, <1>3, <1>4 DEF BackfillNext, BackfillStep, Asking, allVars

(* Beside one scanning process, a backfill that has finished has had every *)
(* candidate in one of its pages, or found it completed.                   *)
THEOREM BackfillSkipsNone ==
    ASSUME OneWriter
    PROVE  BackfillSpec => []NoCandidateSkipped
  <1>1. BackfillInit => /\ IntegrityInvariant /\ CompletenessInvariant
                        /\ OneWriterInvariant /\ WaitingInvariant
    BY InitIntegrity, InitCompleteness, InitOneWriter, InitWaiting DEF BackfillInit
  <1>2. WaitingInvariant => NoCandidateSkipped
    BY DEF WaitingInvariant, NoCandidateSkipped
  <1>3. BackfillTypeOK /\ IntegrityInvariant /\ CompletenessInvariant /\ OneWriterInvariant
          /\ [BackfillNext]_allVars => OneWriterInvariant'
    BY NextBackfillOneWriter
  <1>4. QED
    BY <1>1, <1>2, <1>3, InitBackfillTypeOK, NextBackfillTypeOK, NextBackfillIntegrity,
       NextBackfillCounts, NextWaiting, PTL DEF BackfillSpec
=============================================================================
