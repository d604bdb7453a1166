---------------------- MODULE TradingPersistenceProofs ----------------------
(***************************************************************************)
(* Proofs about TradingPersistence, for any processes, any payloads and    *)
(* any interleaving of their statements, failures and mutations.           *)
(***************************************************************************)
EXTENDS TradingPersistence, TableLemmas

(* What a call without a payload, or with one of the payloads, works on.   *)
LEMMA PayloadProperties ==
    ASSUME TypeOK, NEW w \in Writers
    PROVE  payload[w] \in TradePayload /\ Built(payload[w]) /\ Finite(payload[w])
  <1>1. payload[w] \in Payloads \cup {Idle}
    BY DEF TypeOK
  <1>2. CASE payload[w] \in Payloads
    BY <1>2, PayloadsAssumption
  <1>3. CASE payload[w] = Idle
    <2>1. Idle \in TradePayload
      BY DEF Idle, TradePayload
    <2>2. Built(Idle)
      BY DEF Built, Idle
    <2>3. Finite(Idle)
      BY FS_EmptySet DEF Finite, Idle
    <2>4. QED
      BY <1>3, <2>1, <2>2, <2>3
  <1>4. QED
    BY <1>1, <1>2, <1>3

(* An INSERT appends the rows and keeps the others.                        *)
LEMMA InsertProperties ==
    ASSUME NEW T, NEW table \in Seq(T), NEW rows \in SUBSET T, IsFiniteSet(rows)
    PROVE  /\ Insert(table, rows) \in Seq(T)
           /\ Range(Insert(table, rows)) = Range(table) \cup rows
  <1>1. SetToSeq(rows) \in Seq(rows) /\ Range(SetToSeq(rows)) = rows
    BY SetToSeqProperties
  <1>2. SetToSeq(rows) \in Seq(T)
    BY <1>1, SeqMonotonic
  <1>3. QED
    BY <1>1, <1>2, ConcatRange DEF Insert

(* The rows a call inserts are rows of the tables, finitely many of them.  *)
LEMMA NewRowsFinite ==
    ASSUME TypeOK, NEW w \in Writers
    PROVE  /\ IsFiniteSet(payload[w].dexes \ seen[w].dexes)
           /\ NewTokens(w) \in SUBSET TokenWrite /\ IsFiniteSet(NewTokens(w))
           /\ NewPools(w) \in SUBSET PoolWrite /\ IsFiniteSet(NewPools(w))
           /\ NewTransactions(w) \in SUBSET TransactionWrite
           /\ IsFiniteSet(NewTransactions(w))
           /\ NewTraders(w) \in SUBSET Traders /\ IsFiniteSet(NewTraders(w))
  <1>1. payload[w] \in TradePayload /\ Finite(payload[w])
    BY PayloadProperties
  <1>2. IsFiniteSet(payload[w].dexes \ seen[w].dexes)
    BY <1>1, FS_Subset DEF Finite
  <1>3. NewTokens(w) \in SUBSET TokenWrite /\ IsFiniteSet(NewTokens(w))
    BY <1>1, FS_Subset DEF Finite, NewTokens, TradePayload
  <1>4. NewPools(w) \in SUBSET PoolWrite /\ IsFiniteSet(NewPools(w))
    BY <1>1, FS_Subset DEF Finite, NewPools, TradePayload
  <1>5. /\ NewTransactions(w) \in SUBSET TransactionWrite
        /\ IsFiniteSet(NewTransactions(w))
    BY <1>1, FS_Subset DEF Finite, NewTransactions, TradePayload
  <1>6. NewTraders(w) \in SUBSET Traders /\ IsFiniteSet(NewTraders(w))
    <2> DEFINE f == [t \in NewTransactions(w) |-> t.trader]
    <2>1. f \in [NewTransactions(w) -> Traders]
      BY <1>5 DEF TransactionWrite
    <2>2. IsFiniteSet(Range(f)) /\ Range(f) \subseteq Traders
      BY <1>5, <2>1, FiniteImage, Fun_RangeProperties
    <2>3. NewTraders(w) \subseteq Range(f)
      BY DEF NewTraders, Range
    <2>4. QED
      BY <2>2, <2>3, FS_Subset
  <1>7. QED
    BY <1>2, <1>3, <1>4, <1>5, <1>6

(* The next id is a natural number.                                        *)
LEMMA MaxSwapIdType ==
    ASSUME TypeOK
    PROVE  MaxSwapId \in Nat /\ \A row \in Range(swaps) : row.id <= MaxSwapId
  <1> DEFINE ids == [i \in DOMAIN swaps |-> swaps[i].id]
  <1>1. swaps \in Seq(SwapRow) /\ DOMAIN swaps = 1 .. Len(swaps)
        /\ \A i \in DOMAIN swaps : swaps[i] \in SwapRow
    BY LenProperties DEF TypeOK
  <1>2. CASE swaps = <<>>
    <2>1. MaxSwapId = 0 /\ Range(swaps) = {}
      BY <1>2 DEF MaxSwapId, Range
    <2>2. QED
      BY <2>1
  <1>3. CASE swaps # <<>>
    <2>1. \A i \in DOMAIN swaps : ids[i] \in Nat
      BY <1>1 DEF SwapRow
    <2>2. ids \in Seq(Nat) /\ Len(ids) = Len(swaps) /\ DOMAIN ids = DOMAIN swaps
      <3>1. ids = [i \in DOMAIN swaps |-> ids[i]]
        OBVIOUS
      <3> HIDE DEF ids
      <3>2. QED
        BY <1>1, <2>1, <3>1, PointwiseSeq
    <2>3. Range(ids) = {row.id : row \in Range(swaps)}
      BY <2>2 DEF Range
    <2>4. ids # <<>>
      BY <1>1, <1>3, <2>2, EmptySeq
    <2>5. /\ Max(Range(ids)) \in Range(ids)
          /\ \A x \in Range(ids) : Max(Range(ids)) >= x
      BY <2>2, <2>4, MaxOfSequence
    <2>6. MaxSwapId = Max(Range(ids))
      BY <1>3, <2>3 DEF MaxSwapId
    <2>7. Range(ids) \subseteq Nat
      BY <2>2, Fun_RangeProperties, LenProperties
    <2>8. \A row \in Range(swaps) : row.id \in Range(ids)
      BY <2>3
    <2>9. QED
      BY <2>5, <2>6, <2>7, <2>8
  <1>4. QED
    BY <1>2, <1>3

(* The swaps a call inserts are rows of the table.                         *)
LEMMA NewSwapRowsType ==
    ASSUME TypeOK, NEW w \in Writers
    PROVE  NewSwapRows(w) \in SUBSET SwapRow /\ IsFiniteSet(NewSwapRows(w))
  <1> DEFINE list == payload[w].swaps
             I == NewSwapIndices(w)
             row(i) == [id |-> seen[w].maxId + Cardinality({j \in I : j <= i}),
                        swap |-> Stored(list[i])]
             f == [i \in I |-> row(i)]
  <1>1. list \in Seq(SwapWrite)
    BY PayloadProperties DEF TradePayload
  <1>2. Len(list) \in Nat /\ DOMAIN list = 1 .. Len(list)
        /\ \A i \in DOMAIN list : list[i] \in SwapWrite
    BY <1>1, LenProperties
  <1>3. I \in SUBSET (1 .. Len(list)) /\ IsFiniteSet(I)
    <2>1. I \subseteq 1 .. Len(list)
      BY <1>2 DEF NewSwapIndices
    <2>2. IsFiniteSet(1 .. Len(list))
      BY <1>2, FS_Interval
    <2>3. QED
      BY <2>1, <2>2, FS_Subset
  <1>4. \A i \in I : row(i) \in SwapRow
    <2>1. SUFFICES ASSUME NEW i \in I PROVE row(i) \in SwapRow
      OBVIOUS
    <2>2. Cardinality({j \in I : j <= i}) \in Nat
      BY <1>3, FS_Subset, FS_CardinalityType
    <2>3. seen[w].maxId \in Nat
      BY DEF TypeOK, Reads
    <2>4. Stored(list[i]) \in SwapWrite
      BY <1>2, <1>3, StoredDataAssumption DEF Stored, SwapWrite
    <2>5. QED
      BY <2>2, <2>3, <2>4 DEF SwapRow
  <1>5. f \in [I -> SwapRow] /\ NewSwapRows(w) = Range(f)
    BY <1>4 DEF NewSwapRows, Range
  <1> HIDE DEF f, I
  <1>6. IsFiniteSet(Range(f)) /\ Range(f) \subseteq SwapRow
    BY <1>3, <1>5, FiniteImage, Fun_RangeProperties
  <1>7. QED
    BY <1>5, <1>6

(* Applying a mutation changes neither which rows there are nor their key. *)
LEMMA ApplyToTokensProperties ==
    ASSUME NEW table \in Seq(TokenWrite), NEW m \in TokenMutation
    PROVE  /\ ApplyToTokens(table, m) \in Seq(TokenWrite)
           /\ Addresses(Range(ApplyToTokens(table, m))) = Addresses(Range(table))
  <1> DEFINE new == ApplyToTokens(table, m)
  <1>1. \A i \in DOMAIN table : table[i] \in TokenWrite
    BY LenProperties
  <1>2. new = [i \in DOMAIN table |-> new[i]] /\ DOMAIN new = DOMAIN table
    BY DEF ApplyToTokens
  <1>3. \A i \in DOMAIN table :
            new[i] \in TokenWrite /\ new[i].address = table[i].address
    BY <1>1 DEF ApplyToTokens, TokenWrite
  <1> HIDE DEF new
  <1>4. new \in Seq(TokenWrite)
    BY <1>2, <1>3, PointwiseSeq
  <1>5. Addresses(Range(new)) = Addresses(Range(table))
    BY <1>2, <1>3 DEF Addresses, Range
  <1>6. QED
    BY <1>4, <1>5 DEF new

LEMMA ApplyToPoolsProperties ==
    ASSUME NEW table \in Seq(PoolWrite), NEW m \in PoolMutation
    PROVE  /\ ApplyToPools(table, m) \in Seq(PoolWrite)
           /\ Addresses(Range(ApplyToPools(table, m))) = Addresses(Range(table))
           /\ {PoolFact(row) : row \in Range(ApplyToPools(table, m))}
                = {PoolFact(row) : row \in Range(table)}
  <1> DEFINE new == ApplyToPools(table, m)
  <1>1. \A i \in DOMAIN table : table[i] \in PoolWrite
    BY LenProperties
  <1>2. new = [i \in DOMAIN table |-> new[i]] /\ DOMAIN new = DOMAIN table
    BY DEF ApplyToPools
  <1>3. \A i \in DOMAIN table : /\ new[i] \in PoolWrite
                                /\ new[i].address = table[i].address
                                /\ new[i].dex = table[i].dex
    BY <1>1 DEF ApplyToPools, PoolWrite, PoolMutation
  <1> HIDE DEF new
  <1>4. new \in Seq(PoolWrite)
    BY <1>2, <1>3, PointwiseSeq
  <1>5. Addresses(Range(new)) = Addresses(Range(table))
    BY <1>2, <1>3 DEF Addresses, Range
  <1>6. {PoolFact(row) : row \in Range(new)} = {PoolFact(row) : row \in Range(table)}
    BY <1>2, <1>3 DEF PoolFact, Range
  <1>7. QED
    BY <1>4, <1>5, <1>6 DEF new
-----------------------------------------------------------------------------
(* The state has its type initially, ...                                   *)
LEMMA InitTypeOK == Init => TypeOK
  <1> SUFFICES ASSUME Init PROVE TypeOK
    OBVIOUS
  <1>1. traders \in Seq(Traders)
    <2>1. SetToSeq(SeedTraders) \in Seq(SeedTraders)
      BY SeedAssumption, SetToSeqProperties
    <2>2. QED
      BY <2>1, SeedAssumption, SeqMonotonic DEF Init
  <1>2. NothingSeen \in Reads
    BY DEF NothingSeen, Reads, NoSnapshot
  <1>3. /\ dexes \in Seq(Dexes) /\ tokens \in Seq(TokenWrite)
        /\ pools \in Seq(PoolWrite) /\ transactions \in Seq(TransactionWrite)
        /\ swaps \in Seq(SwapRow) /\ tokenMutations \in Seq(TokenMutation)
        /\ poolMutations \in Seq(PoolMutation)
    BY EmptySeq DEF Init
  <1>4. /\ pc \in [Writers -> Statements] /\ payload \in [Writers -> Payloads \cup {Idle}]
        /\ seen \in [Writers -> Reads]
        /\ todo \in [Writers -> Updates]
        /\ starts \in Nat /\ committed \subseteq Payloads
    BY <1>2 DEF Init, Statements, NothingToDo, Updates
  <1>5. \A w \in Writers : pc[w] = "idle"
    BY DEF Init
  <1>6. QED
    BY <1>1, <1>3, <1>4, <1>5 DEF TypeOK

LEMMA NothingSeenType == NothingSeen \in Reads
  BY EmptySeq DEF NothingSeen, Reads, NoSnapshot

(* Submitting a mutation of tokens keeps the types, and every key.         *)
LEMMA MutateTokensType ==
    ASSUME TypeOK, NEW columns \in SUBSET {"label", "is_stable"},
           NEW addresses \in SUBSET Tokens, MutateTokens(columns, addresses)
    PROVE  /\ tokens' \in Seq(TokenWrite)
           /\ tokenMutations' \in Seq(TokenMutation)
           /\ TokenKeys' = TokenKeys
  <1> DEFINE m == [columns |-> columns, addresses |-> addresses, upto |-> Len(tokens)]
  <1>1. tokens \in Seq(TokenWrite) /\ tokenMutations \in Seq(TokenMutation)
        /\ Len(tokens) \in Nat
    BY LenProperties DEF TypeOK
  <1>2. m \in TokenMutation
    BY <1>1 DEF TokenMutation
  <1>3. CASE MutationsSync
    BY <1>1, <1>2, <1>3, ApplyToTokensProperties DEF MutateTokens, TokenKeys
  <1>4. CASE ~MutationsSync
    <2> HIDE DEF m
    <2>1. tokenMutations' = Append(tokenMutations, m) /\ tokens' = tokens
      BY <1>4 DEF MutateTokens, m
    <2>2. QED
      BY <1>1, <1>2, <2>1 DEF TokenKeys
  <1>5. QED
    BY <1>3, <1>4

LEMMA MutatePoolsType ==
    ASSUME TypeOK, NEW address \in Pools, NEW snapshot \in Nat,
           NEW read \in Nat \cup {NoSnapshot}, MutatePools(address, snapshot, read)
    PROVE  /\ pools' \in Seq(PoolWrite)
           /\ poolMutations' \in Seq(PoolMutation)
           /\ PoolKeys' = PoolKeys
           /\ StoredPools' = StoredPools
  <1> DEFINE m == [address |-> address, snapshot |-> snapshot, read |-> read,
                   upto |-> Len(pools)]
  <1>1. pools \in Seq(PoolWrite) /\ poolMutations \in Seq(PoolMutation)
        /\ Len(pools) \in Nat
    BY LenProperties DEF TypeOK
  <1>2. m \in PoolMutation
    BY <1>1 DEF PoolMutation
  <1>3. CASE MutationsSync
    <2> HIDE DEF m
    <2>1. pools' = ApplyToPools(pools, m) /\ poolMutations' = poolMutations
      BY <1>3 DEF MutatePools, m
    <2>2. QED
      BY <1>1, <1>2, <2>1, ApplyToPoolsProperties DEF PoolKeys, StoredPools
  <1>4. CASE ~MutationsSync
    <2> HIDE DEF m
    <2>1. poolMutations' = Append(poolMutations, m) /\ pools' = pools
      BY <1>4 DEF MutatePools, m
    <2>2. QED
      BY <1>1, <1>2, <2>1 DEF PoolKeys, StoredPools
  <1>5. QED
    BY <1>3, <1>4

(* The count of a fingerprint is a number.                                 *)
LEMMA RowsOfType ==
    ASSUME TypeOK, NEW swap
    PROVE  RowsOf(swap) \in Nat
  <1>1. DOMAIN swaps = 1 .. Len(swaps) /\ Len(swaps) \in Nat
    BY LenProperties DEF TypeOK
  <1>2. IsFiniteSet(DOMAIN swaps)
    BY <1>1, FS_Interval
  <1>3. QED
    BY <1>2, FS_Subset, FS_CardinalityType DEF RowsOf

(* Returning clears the locals of the writer.                              *)
LEMMA ReturnTypeOK ==
    ASSUME TypeOK, NEW w \in Writers, pc[w] # "idle",
           pc' = [pc EXCEPT ![w] = "idle"], Return(w)
    PROVE  /\ pc' \in [Writers -> Statements]
           /\ payload' \in [Writers -> Payloads \cup {Idle}]
           /\ \A v \in Writers : pc'[v] # "idle" => payload'[v] \in Payloads
           /\ seen' \in [Writers -> Reads]
           /\ committed' \subseteq Payloads
  <1>1. payload[w] \in Payloads
    BY DEF TypeOK
  <1>2. QED
    BY <1>1, NothingSeenType DEF TypeOK, Return, Statements

(* A SELECT only changes what its writer has read.                         *)
LEMMA ReadTypeOK ==
    ASSUME TypeOK, NEW w \in Writers, NEW r \in Reads, NEW to \in Statements,
           pc[w] # "idle", pc' = [pc EXCEPT ![w] = to], Read(w, r),
           UNCHANGED <<tables, mutations, payload, todo, starts, committed>>
    PROVE  TypeOK'
  <1>1. pc' \in [Writers -> Statements] /\ seen' \in [Writers -> Reads]
    BY DEF TypeOK, Read
  <1>2. \A v \in Writers : pc'[v] # "idle" => payload'[v] \in Payloads
    BY DEF TypeOK
  <1>3. QED
    BY <1>1, <1>2 DEF TypeOK, tables, mutations

(* A writer that goes on to its next statement still has its payload.      *)
LEMMA GotoTypeOK ==
    ASSUME TypeOK, NEW w \in Writers, NEW from \in Statements, NEW to \in Statements,
           from # "idle", Goto(w, from, to), payload' = payload
    PROVE  /\ pc' \in [Writers -> Statements]
           /\ payload' \in [Writers -> Payloads \cup {Idle}]
           /\ \A v \in Writers : pc'[v] # "idle" => payload'[v] \in Payloads
  BY DEF TypeOK, Goto

(* ... and every step keeps it.                                            *)
LEMMA NextTypeOK == TypeOK /\ [Next]_vars => TypeOK'
  <1> SUFFICES ASSUME TypeOK, [Next]_vars PROVE TypeOK'
    OBVIOUS
  <1> USE DEF tables, mutations, locals
  <1>a. seen \in [Writers -> Reads]
    BY DEF TypeOK
  <1>b. todo \in [Writers -> Updates]
    BY DEF TypeOK
  <1>1. ASSUME NEW w \in Writers, Start(w) PROVE TypeOK'
    BY <1>1 DEF Start, TypeOK, Statements, Goto
  <1>2. ASSUME NEW w \in Writers, SelectDexes(w) PROVE TypeOK'
    <2> DEFINE r == [seen[w] EXCEPT !.dexes = payload[w].dexes \cap DexKeys]
    <2>1. payload[w].dexes \subseteq Dexes
      BY PayloadProperties DEF TradePayload
    <2>2. r \in Reads
      BY <1>a, <2>1 DEF Reads
    <2>3. QED
      BY <1>2, <2>2, ReadTypeOK DEF SelectDexes, Statements, Goto
  <1>3. ASSUME NEW w \in Writers, InsertDexes(w) PROVE TypeOK'
    <2>1. dexes' \in Seq(Dexes)
      BY <1>3, PayloadProperties, NewRowsFinite, InsertProperties
         DEF InsertDexes, TypeOK, TradePayload
    <2>2. QED
      BY <1>3, <2>1, GotoTypeOK DEF InsertDexes, TypeOK, Statements
  <1>4. ASSUME NEW w \in Writers, SelectTransactions(w) PROVE TypeOK'
    <2> DEFINE r == [seen[w] EXCEPT !.txs =
                       Hashes(payload[w].transactions) \cap TransactionKeys]
    <2>1. Hashes(payload[w].transactions) \subseteq Txs
      BY PayloadProperties DEF TradePayload, Hashes, TransactionWrite
    <2>2. r \in Reads
      BY <1>a, <2>1 DEF Reads
    <2>3. QED
      BY <1>4, <2>2, ReadTypeOK DEF SelectTransactions, Statements, Goto
  <1>5. ASSUME NEW w \in Writers, SelectTraders(w) PROVE TypeOK'
    <2> DEFINE r == [seen[w] EXCEPT !.traders =
                       {t.trader : t \in NewTransactions(w)} \cap TraderKeys]
    <2>1. {t.trader : t \in NewTransactions(w)} \subseteq Traders
      BY NewRowsFinite DEF TransactionWrite
    <2>2. r \in Reads
      BY <1>a, <2>1 DEF Reads
    <2>3. QED
      BY <1>5, <2>2, ReadTypeOK DEF SelectTraders, Statements, Goto
  <1>6. ASSUME NEW w \in Writers, InsertTraders(w) PROVE TypeOK'
    <2>1. traders' \in Seq(Traders)
      BY <1>6, NewRowsFinite, InsertProperties DEF InsertTraders, TypeOK
    <2>2. QED
      BY <1>6, <2>1, GotoTypeOK DEF InsertTraders, TypeOK, Statements
  <1>7. ASSUME NEW w \in Writers, SelectTokens(w) PROVE TypeOK'
    <2>1. Addresses(payload[w].tokens) \subseteq Tokens
      BY PayloadProperties DEF TradePayload, Addresses, TokenWrite
    <2> DEFINE found == Addresses(payload[w].tokens) \cap TokenKeys
    <2>2. PICK unnamed \in SUBSET found :
              Read(w, [seen[w] EXCEPT !.tokens = found, !.unnamed = unnamed])
      BY <1>7 DEF SelectTokens
    <2>3. [seen[w] EXCEPT !.tokens = found, !.unnamed = unnamed] \in Reads
      <3>1. found \subseteq Tokens /\ unnamed \subseteq Tokens
        BY <2>1
      <3> HIDE DEF found
      <3>2. QED
        BY <1>a, <3>1 DEF Reads
    <2>4. QED
      BY <1>7, <2>2, <2>3, ReadTypeOK DEF SelectTokens, Statements, Goto
  <1>8. ASSUME NEW w \in Writers, InsertTokens(w) PROVE TypeOK'
    <2>1. tokens' \in Seq(TokenWrite)
      BY <1>8, NewRowsFinite, InsertProperties DEF InsertTokens, TypeOK
    <2>2. LabelsToUpdate(w) \subseteq Tokens
      BY PayloadProperties DEF LabelsToUpdate, TradePayload, TokenWrite
    <2>3. todo' \in [Writers -> Updates]
      BY <1>8, <1>b, <2>2 DEF InsertTokens, Updates
    <2>4. QED
      BY <1>8, <2>1, <2>3, GotoTypeOK DEF InsertTokens, TypeOK, Statements
  <1>9. ASSUME NEW w \in Writers, UpdateLabel(w) PROVE TypeOK'
    <2>1. PICK a \in todo[w].labels :
              /\ MutateTokens({"label"}, {a})
              /\ todo' = [todo EXCEPT ![w].labels = @ \ {a}]
      BY <1>9 DEF UpdateLabel
    <2>2. todo' \in [Writers -> Updates]
      BY <1>b, <2>1 DEF Updates
    <2>3. todo[w].labels \subseteq Tokens
      BY <1>b DEF Updates
    <2>4. tokens' \in Seq(TokenWrite) /\ tokenMutations' \in Seq(TokenMutation)
      BY <2>1, <2>3, MutateTokensType
    <2>5. QED
      BY <1>9, <2>2, <2>4 DEF UpdateLabel, TypeOK
  <1>10. ASSUME NEW w \in Writers, UpdateStable(w) PROVE TypeOK'
    <2>1. StableTokens(w) \subseteq Tokens
      BY PayloadProperties DEF StableTokens, TradePayload, TokenWrite
    <2>2. tokens' \in Seq(TokenWrite) /\ tokenMutations' \in Seq(TokenMutation)
      BY <1>10, <2>1, MutateTokensType DEF UpdateStable, TypeOK
    <2>3. QED
      BY <1>10, <2>2, GotoTypeOK DEF UpdateStable, TypeOK, Statements
  <1>11. ASSUME NEW w \in Writers, SelectPools(w) PROVE TypeOK'
    <2> DEFINE found == Addresses(payload[w].pools) \cap PoolKeys
               snapshotsOf(a) ==
                   {row.snapshot : row \in {r \in Range(pools) : r.address = a}}
               readable(a) == IF a \in found THEN snapshotsOf(a) ELSE {NoSnapshot}
    <2>1. PICK snapshots \in [Pools -> UNION {readable(a) : a \in Pools}] :
              Read(w, [seen[w] EXCEPT !.pools = found, !.snapshots = snapshots])
      BY <1>11 DEF SelectPools
    <2>2. \A a \in Pools : readable(a) \subseteq Nat \cup {NoSnapshot}
      <3>1. Range(pools) \subseteq PoolWrite
        BY Fun_RangeProperties, LenProperties DEF TypeOK
      <3>2. QED
        BY <3>1 DEF PoolWrite
    <2>3. found \subseteq Pools
      BY PayloadProperties DEF TradePayload, Addresses, PoolWrite
    <2>4. snapshots \in [Pools -> Nat \cup {NoSnapshot}]
      <3> HIDE DEF readable
      <3>1. QED
        BY <2>1, <2>2
    <2>5. [seen[w] EXCEPT !.pools = found, !.snapshots = snapshots] \in Reads
      <3> HIDE DEF found
      <3>1. QED
        BY <1>a, <2>3, <2>4 DEF Reads
    <2>6. QED
      BY <1>11, <2>1, <2>5, ReadTypeOK DEF SelectPools, Statements, Goto
  <1>12. ASSUME NEW w \in Writers, InsertPools(w) PROVE TypeOK'
    <2>1. pools' \in Seq(PoolWrite)
      BY <1>12, NewRowsFinite, InsertProperties DEF InsertPools, TypeOK
    <2>2. SnapshotsToUpdate(w) \subseteq [address : Pools, dex : Dexes, snapshot : Nat]
      BY PayloadProperties DEF SnapshotsToUpdate, TradePayload, PoolWrite
    <2>3. todo' \in [Writers -> Updates]
      BY <1>12, <1>b, <2>2 DEF InsertPools, Updates
    <2>4. QED
      BY <1>12, <2>1, <2>3, GotoTypeOK DEF InsertPools, TypeOK, Statements
  <1>13. ASSUME NEW w \in Writers, UpdateSnapshot(w) PROVE TypeOK'
    <2>1. PICK p \in todo[w].snapshots :
              /\ MutatePools(p.address, p.snapshot, seen[w].snapshots[p.address])
              /\ todo' = [todo EXCEPT ![w].snapshots = @ \ {p}]
      BY <1>13 DEF UpdateSnapshot
    <2>2. todo' \in [Writers -> Updates]
      BY <1>b, <2>1 DEF Updates
    <2>3. /\ p.address \in Pools /\ p.snapshot \in Nat
          /\ seen[w].snapshots[p.address] \in Nat \cup {NoSnapshot}
      BY <1>b DEF TypeOK, Updates, Reads
    <2>4. pools' \in Seq(PoolWrite) /\ poolMutations' \in Seq(PoolMutation)
      BY <2>1, <2>3, MutatePoolsType
    <2>5. QED
      BY <1>13, <2>2, <2>4 DEF UpdateSnapshot, TypeOK
  <1>14. ASSUME NEW w \in Writers, InsertTransactions(w) PROVE TypeOK'
    <2>1. transactions' \in Seq(TransactionWrite)
      BY <1>14, NewRowsFinite, InsertProperties DEF InsertTransactions, TypeOK
    <2>2. QED
      BY <1>14, <2>1, GotoTypeOK DEF InsertTransactions, TypeOK, Statements
  <1>15. ASSUME NEW w \in Writers, SelectSwaps(w) PROVE TypeOK'
    <2> DEFINE list == payload[w].swaps
               counts == [i \in DOMAIN list |-> RowsOf(list[i])]
    <2>1. \A i \in DOMAIN list : counts[i] \in Nat
      BY RowsOfType
    <2>2. list \in Seq(SwapWrite)
      BY PayloadProperties DEF TradePayload
    <2>3. counts = [i \in DOMAIN list |-> counts[i]]
      OBVIOUS
    <2>4. counts \in Seq(Nat)
      <3> HIDE DEF counts
      <3>1. QED
        BY <2>1, <2>2, <2>3, PointwiseSeq, ZenonT(60)
    <2>5. [seen[w] EXCEPT !.swaps = counts] \in Reads
      <3> HIDE DEF counts
      <3>1. QED
        BY <1>a, <2>4 DEF Reads
    <2>6. QED
      BY <1>15, <2>5, ReadTypeOK DEF SelectSwaps, Statements, Goto
  <1>16. ASSUME NEW w \in Writers, ReturnWithoutSwaps(w) PROVE TypeOK'
    BY <1>16, ReturnTypeOK DEF ReturnWithoutSwaps, TypeOK, Statements, Goto
  <1>17. ASSUME NEW w \in Writers, SelectMaxSwapId(w) PROVE TypeOK'
    <2>1. [seen[w] EXCEPT !.maxId = MaxSwapId] \in Reads
      BY <1>a, MaxSwapIdType DEF Reads
    <2>2. QED
      BY <1>17, <2>1, ReadTypeOK DEF SelectMaxSwapId, Statements, Goto
  <1>18. ASSUME NEW w \in Writers, InsertSwaps(w) PROVE TypeOK'
    <2>1. swaps' \in Seq(SwapRow)
      BY <1>18, NewSwapRowsType, InsertProperties DEF InsertSwaps, TypeOK
    <2>2. QED
      BY <1>18, <2>1, ReturnTypeOK DEF InsertSwaps, TypeOK, Statements, Goto
  <1>19. ASSUME NEW w \in Writers, Abort(w) PROVE TypeOK'
    <2>1. pc' \in [Writers -> Statements]
          /\ payload' \in [Writers -> Payloads \cup {Idle}]
          /\ \A v \in Writers : pc'[v] # "idle" => payload'[v] \in Payloads
      BY <1>19 DEF Abort, TypeOK, Statements
    <2>2. seen' \in [Writers -> Reads]
      BY <1>19, NothingSeenType DEF Abort, TypeOK
    <2>3. todo' \in [Writers -> Updates]
      BY <1>19, <1>b DEF Abort, Updates, NothingToDo
    <2>4. QED
      BY <1>19, <2>1, <2>2, <2>3 DEF Abort, TypeOK
  <1>20. CASE ApplyTokenMutation
    <2>1. Head(tokenMutations) \in TokenMutation
          /\ tokenMutations' \in Seq(TokenMutation)
      BY <1>20, HeadTailProperties DEF ApplyTokenMutation, TypeOK
    <2>2. tokens' \in Seq(TokenWrite)
      BY <1>20, <2>1, ApplyToTokensProperties DEF ApplyTokenMutation, TypeOK
    <2>3. QED
      BY <1>20, <2>1, <2>2 DEF ApplyTokenMutation, TypeOK
  <1>21. CASE ApplyPoolMutation
    <2>1. Head(poolMutations) \in PoolMutation
          /\ poolMutations' \in Seq(PoolMutation)
      BY <1>21, HeadTailProperties DEF ApplyPoolMutation, TypeOK
    <2>2. pools' \in Seq(PoolWrite)
      BY <1>21, <2>1, ApplyToPoolsProperties DEF ApplyPoolMutation, TypeOK
    <2>3. QED
      BY <1>21, <2>1, <2>2 DEF ApplyPoolMutation, TypeOK
  <1>22. CASE UNCHANGED vars
    BY <1>22 DEF vars, TypeOK
  <1>23. QED
    BY <1>1, <1>2, <1>3, <1>4, <1>5, <1>6, <1>7, <1>8, <1>9, <1>10, <1>11,
       <1>12, <1>13, <1>14, <1>15, <1>16, <1>17, <1>18, <1>19, <1>20, <1>21,
       <1>22 DEF Next, Statement

(* The state of the tables and of every process always has its type.       *)
THEOREM TypeCorrect == Spec => []TypeOK
  <1>1. QED
    BY InitTypeOK, NextTypeOK, PTL DEF Spec
-----------------------------------------------------------------------------
(* What a step changes in the store, the tables read as sets of facts.     *)
Facts ==
    <<DexKeys, TraderKeys, TokenKeys, StoredPools, StoredTransactions, StoredSwaps>>

(* The keys of a table are those of its facts, ...                         *)
LEMMA KeysOfFacts ==
    /\ PoolKeys = {f.address : f \in StoredPools}
    /\ TransactionKeys = {f.hash : f \in StoredTransactions}
  <1>1. PoolKeys = {f.address : f \in StoredPools}
    <2>1. \A row \in Range(pools) : PoolFact(row).address = row.address
      BY DEF PoolFact
    <2>2. QED
      BY <2>1 DEF PoolKeys, Addresses, StoredPools
  <1>2. TransactionKeys = {f.hash : f \in StoredTransactions}
    <2>1. \A row \in Range(transactions) : TransactionFact(row).hash = row.hash
      BY DEF TransactionFact
    <2>2. QED
      BY <2>1 DEF TransactionKeys, Hashes, StoredTransactions
  <1>3. QED
    BY <1>1, <1>2

(* ... and the foreign keys are a property of the facts.                   *)
LEMMA IntegrityOfFacts ==
    ReferentialIntegrity <=>
        /\ \A f \in StoredPools : f.dex \in DexKeys
        /\ \A f \in StoredTransactions : f.trader \in TraderKeys
        /\ \A f \in StoredSwaps : /\ f.tx \in TransactionKeys
                                  /\ f.pool \in PoolKeys
                                  /\ f.tokens \subseteq TokenKeys
  <1>1. \A row : /\ PoolFact(row).dex = row.dex
                 /\ TransactionFact(row).trader = row.trader
                 /\ SwapFact(row.swap).tx = row.swap.tx
                 /\ SwapFact(row.swap).pool = row.swap.pool
                 /\ SwapFact(row.swap).tokens = row.swap.tokens
    BY DEF PoolFact, TransactionFact, SwapFact
  <1>2. (\A row \in Range(pools) : row.dex \in DexKeys)
          <=> \A f \in StoredPools : f.dex \in DexKeys
    BY <1>1 DEF StoredPools
  <1>3. (\A row \in Range(transactions) : row.trader \in TraderKeys)
          <=> \A f \in StoredTransactions : f.trader \in TraderKeys
    BY <1>1 DEF StoredTransactions
  <1>4. (\A row \in Range(swaps) : /\ row.swap.tx \in TransactionKeys
                                   /\ row.swap.pool \in PoolKeys
                                   /\ row.swap.tokens \subseteq TokenKeys)
          <=> \A f \in StoredSwaps : /\ f.tx \in TransactionKeys
                                    /\ f.pool \in PoolKeys
                                    /\ f.tokens \subseteq TokenKeys
    BY <1>1 DEF StoredSwaps
  <1>5. QED
    BY <1>2, <1>3, <1>4 DEF ReferentialIntegrity

(* Of the statements of a call, the six INSERTs change the store, ...      *)
LEMMA InsertDexesFacts ==
    ASSUME TypeOK, NEW w \in Writers, InsertDexes(w)
    PROVE  /\ DexKeys' = DexKeys \cup (payload[w].dexes \ seen[w].dexes)
           /\ UNCHANGED <<TraderKeys, TokenKeys, StoredPools, StoredTransactions,
                          StoredSwaps>>
  <1>1. payload[w].dexes \ seen[w].dexes \in SUBSET Dexes
    BY PayloadProperties DEF TradePayload
  <1>2. DexKeys' = DexKeys \cup (payload[w].dexes \ seen[w].dexes)
    <2>1. dexes \in Seq(Dexes) /\ dexes' = Insert(dexes, payload[w].dexes \ seen[w].dexes)
      BY DEF InsertDexes, TypeOK
    <2>2. (payload[w].dexes \ seen[w].dexes) \in SUBSET Dexes /\ IsFiniteSet(payload[w].dexes \ seen[w].dexes)
      BY <1>1, NewRowsFinite
    <2>3. Range(Insert(dexes, payload[w].dexes \ seen[w].dexes))
              = Range(dexes) \cup (payload[w].dexes \ seen[w].dexes)
      BY <2>1, <2>2, InsertProperties
    <2>4. QED
      BY <2>1, <2>3 DEF DexKeys
  <1>3. QED
    BY <1>2 DEF InsertDexes, TraderKeys, TokenKeys, StoredPools,
                StoredTransactions, StoredSwaps

LEMMA InsertTradersFacts ==
    ASSUME TypeOK, NEW w \in Writers, InsertTraders(w)
    PROVE  /\ TraderKeys' = TraderKeys \cup NewTraders(w)
           /\ UNCHANGED <<DexKeys, TokenKeys, StoredPools, StoredTransactions,
                          StoredSwaps>>
  <1>1. TraderKeys' = TraderKeys \cup NewTraders(w)
    <2>1. traders \in Seq(Traders) /\ traders' = Insert(traders, NewTraders(w))
      BY DEF InsertTraders, TypeOK
    <2>2. NewTraders(w) \in SUBSET Traders /\ IsFiniteSet(NewTraders(w))
      BY NewRowsFinite
    <2>3. Range(Insert(traders, NewTraders(w)))
              = Range(traders) \cup NewTraders(w)
      BY <2>1, <2>2, InsertProperties
    <2>4. QED
      BY <2>1, <2>3 DEF TraderKeys
  <1>2. QED
    BY <1>1 DEF InsertTraders, DexKeys, TokenKeys, StoredPools,
                StoredTransactions, StoredSwaps

LEMMA InsertTokensFacts ==
    ASSUME TypeOK, NEW w \in Writers, InsertTokens(w)
    PROVE  /\ TokenKeys' = TokenKeys \cup Addresses(NewTokens(w))
           /\ UNCHANGED <<DexKeys, TraderKeys, StoredPools, StoredTransactions,
                          StoredSwaps>>
  <1>1. Range(tokens') = Range(tokens) \cup NewTokens(w)
    <2>1. tokens \in Seq(TokenWrite) /\ tokens' = Insert(tokens, NewTokens(w))
      BY DEF InsertTokens, TypeOK
    <2>2. NewTokens(w) \in SUBSET TokenWrite /\ IsFiniteSet(NewTokens(w))
      BY NewRowsFinite
    <2>3. Range(Insert(tokens, NewTokens(w)))
              = Range(tokens) \cup NewTokens(w)
      BY <2>1, <2>2, InsertProperties
    <2>4. QED
      BY <2>1, <2>3
  <1>2. TokenKeys' = TokenKeys \cup Addresses(NewTokens(w))
    BY <1>1 DEF TokenKeys, Addresses
  <1>3. QED
    BY <1>2 DEF InsertTokens, DexKeys, TraderKeys, StoredPools,
                StoredTransactions, StoredSwaps

LEMMA InsertPoolsFacts ==
    ASSUME TypeOK, NEW w \in Writers, InsertPools(w)
    PROVE  /\ StoredPools' = StoredPools \cup {PoolFact(row) : row \in NewPools(w)}
           /\ UNCHANGED <<DexKeys, TraderKeys, TokenKeys, StoredTransactions,
                          StoredSwaps>>
  <1>1. Range(pools') = Range(pools) \cup NewPools(w)
    <2>1. pools \in Seq(PoolWrite) /\ pools' = Insert(pools, NewPools(w))
      BY DEF InsertPools, TypeOK
    <2>2. NewPools(w) \in SUBSET PoolWrite /\ IsFiniteSet(NewPools(w))
      BY NewRowsFinite
    <2>3. Range(Insert(pools, NewPools(w)))
              = Range(pools) \cup NewPools(w)
      BY <2>1, <2>2, InsertProperties
    <2>4. QED
      BY <2>1, <2>3
  <1>2. StoredPools' = StoredPools \cup {PoolFact(row) : row \in NewPools(w)}
    BY <1>1 DEF StoredPools
  <1>3. QED
    BY <1>2 DEF InsertPools, DexKeys, TraderKeys, TokenKeys,
                StoredTransactions, StoredSwaps

LEMMA InsertTransactionsFacts ==
    ASSUME TypeOK, NEW w \in Writers, InsertTransactions(w)
    PROVE  /\ StoredTransactions' = StoredTransactions \cup
                  {TransactionFact(row) : row \in NewTransactions(w)}
           /\ UNCHANGED <<DexKeys, TraderKeys, TokenKeys, StoredPools, StoredSwaps>>
  <1>1. Range(transactions') = Range(transactions) \cup NewTransactions(w)
    <2>1. transactions \in Seq(TransactionWrite) /\ transactions' = Insert(transactions, NewTransactions(w))
      BY DEF InsertTransactions, TypeOK
    <2>2. NewTransactions(w) \in SUBSET TransactionWrite /\ IsFiniteSet(NewTransactions(w))
      BY NewRowsFinite
    <2>3. Range(Insert(transactions, NewTransactions(w)))
              = Range(transactions) \cup NewTransactions(w)
      BY <2>1, <2>2, InsertProperties
    <2>4. QED
      BY <2>1, <2>3
  <1>2. StoredTransactions' = StoredTransactions \cup
            {TransactionFact(row) : row \in NewTransactions(w)}
    BY <1>1 DEF StoredTransactions
  <1>3. QED
    BY <1>2 DEF InsertTransactions, DexKeys, TraderKeys, TokenKeys, StoredPools,
                StoredSwaps

LEMMA InsertSwapsFacts ==
    ASSUME TypeOK, NEW w \in Writers, InsertSwaps(w)
    PROVE  /\ StoredSwaps' = StoredSwaps \cup
                  {SwapFact(row.swap) : row \in NewSwapRows(w)}
           /\ UNCHANGED <<DexKeys, TraderKeys, TokenKeys, StoredPools,
                          StoredTransactions>>
  <1>1. Range(swaps') = Range(swaps) \cup NewSwapRows(w)
    <2>1. swaps \in Seq(SwapRow) /\ swaps' = Insert(swaps, NewSwapRows(w))
      BY DEF InsertSwaps, TypeOK
    <2>2. NewSwapRows(w) \in SUBSET SwapRow /\ IsFiniteSet(NewSwapRows(w))
      BY NewSwapRowsType
    <2>3. Range(Insert(swaps, NewSwapRows(w)))
              = Range(swaps) \cup NewSwapRows(w)
      BY <2>1, <2>2, InsertProperties
    <2>4. QED
      BY <2>1, <2>3
  <1>2. StoredSwaps' = StoredSwaps \cup {SwapFact(row.swap) : row \in NewSwapRows(w)}
    BY <1>1 DEF StoredSwaps
  <1>3. QED
    BY <1>2 DEF InsertSwaps, DexKeys, TraderKeys, TokenKeys, StoredPools,
                StoredTransactions

(* ... the others read, or mutate columns that are no keys.                *)
Quiet(w) ==
    \/ Start(w) \/ Abort(w) \/ ReturnWithoutSwaps(w)
    \/ SelectDexes(w) \/ SelectTransactions(w) \/ SelectTraders(w)
    \/ SelectTokens(w) \/ UpdateLabel(w) \/ UpdateStable(w)
    \/ SelectPools(w) \/ UpdateSnapshot(w)
    \/ SelectSwaps(w) \/ SelectMaxSwapId(w)

LEMMA QuietFacts ==
    ASSUME TypeOK, NEW w \in Writers, Quiet(w)
    PROVE  UNCHANGED Facts
  <1> USE DEF Facts, DexKeys, TraderKeys, StoredTransactions, StoredSwaps
  <1>1. CASE UNCHANGED tables
    BY <1>1 DEF tables, TokenKeys, StoredPools
  <1>2. CASE UpdateLabel(w)
    <2>1. PICK a \in todo[w].labels : MutateTokens({"label"}, {a})
      BY <1>2 DEF UpdateLabel
    <2>2. todo[w].labels \subseteq Tokens
      BY DEF TypeOK, Updates
    <2>3. TokenKeys' = TokenKeys
      BY <2>1, <2>2, MutateTokensType
    <2>4. QED
      BY <1>2, <2>3 DEF UpdateLabel, StoredPools
  <1>3. CASE UpdateStable(w)
    <2>1. StableTokens(w) \subseteq Tokens
      BY PayloadProperties DEF StableTokens, TradePayload, TokenWrite
    <2>2. CASE StableTokens(w) = {}
      BY <1>3, <2>2 DEF UpdateStable, TokenKeys, StoredPools
    <2>3. CASE StableTokens(w) # {}
      BY <1>3, <2>1, <2>3, MutateTokensType DEF UpdateStable, StoredPools
    <2>4. QED
      BY <2>2, <2>3
  <1>4. CASE UpdateSnapshot(w)
    <2>1. PICK p \in todo[w].snapshots :
              MutatePools(p.address, p.snapshot, seen[w].snapshots[p.address])
      BY <1>4 DEF UpdateSnapshot
    <2>2. /\ p.address \in Pools /\ p.snapshot \in Nat
          /\ seen[w].snapshots[p.address] \in Nat \cup {NoSnapshot}
      BY DEF TypeOK, Updates, Reads
    <2>3. StoredPools' = StoredPools
      BY <2>1, <2>2, MutatePoolsType
    <2>4. QED
      BY <1>4, <2>3 DEF UpdateSnapshot, TokenKeys
  <1>5. QED
    BY <1>1, <1>2, <1>3, <1>4
       DEF Quiet, Start, Abort, ReturnWithoutSwaps, SelectDexes,
           SelectTransactions, SelectTraders, SelectTokens, SelectPools,
           SelectSwaps, SelectMaxSwapId

(* The server applying a mutation changes no fact either.                  *)
LEMMA MutationFacts ==
    ASSUME TypeOK, ApplyTokenMutation \/ ApplyPoolMutation
    PROVE  UNCHANGED Facts
  <1> USE DEF Facts, DexKeys, TraderKeys, StoredTransactions, StoredSwaps
  <1>1. CASE ApplyTokenMutation
    <2>1. Head(tokenMutations) \in TokenMutation
      BY <1>1, HeadTailProperties DEF ApplyTokenMutation, TypeOK
    <2>2. TokenKeys' = TokenKeys
      BY <1>1, <2>1, ApplyToTokensProperties DEF ApplyTokenMutation, TypeOK, TokenKeys
    <2>3. QED
      BY <1>1, <2>2 DEF ApplyTokenMutation, StoredPools
  <1>2. CASE ApplyPoolMutation
    <2>1. Head(poolMutations) \in PoolMutation
      BY <1>2, HeadTailProperties DEF ApplyPoolMutation, TypeOK
    <2>2. StoredPools' = StoredPools
      BY <1>2, <2>1, ApplyToPoolsProperties DEF ApplyPoolMutation, TypeOK, StoredPools
    <2>3. QED
      BY <1>2, <2>2 DEF ApplyPoolMutation, TokenKeys
  <1>3. QED
    BY <1>1, <1>2
-----------------------------------------------------------------------------
(* No key ever leaves the tables.                                          *)
KeysGrow ==
    /\ DexKeys \subseteq DexKeys' /\ TraderKeys \subseteq TraderKeys'
    /\ TokenKeys \subseteq TokenKeys' /\ PoolKeys \subseteq PoolKeys'
    /\ TransactionKeys \subseteq TransactionKeys'

(* What a writer has seen stays there, and so does what it reads next.     *)
LEMMA SeenKeep ==
    ASSUME NEW w \in Writers, KeysGrow, SeenIsThere(w),
           seen'[w].dexes \subseteq seen[w].dexes \cup DexKeys,
           seen'[w].traders \subseteq seen[w].traders \cup TraderKeys,
           seen'[w].tokens \subseteq seen[w].tokens \cup TokenKeys,
           seen'[w].pools \subseteq seen[w].pools \cup PoolKeys,
           seen'[w].txs \subseteq seen[w].txs \cup TransactionKeys
    PROVE  SeenIsThere(w)'
  BY DEF SeenIsThere, KeysGrow

(* What a writer needs stays there, and so does what it inserts next.      *)
LEMMA WrittenKeep ==
    ASSUME NEW w \in Writers, KeysGrow, WrittenIsThere(w),
           payload'[w] = payload[w],
           pc'[w] \in AfterTraders => seen'[w].txs = seen[w].txs,
           pc'[w] \in AfterDexes =>
               pc[w] \in AfterDexes \/ payload[w].dexes \subseteq DexKeys',
           pc'[w] \in AfterTraders =>
               \/ pc[w] \in AfterTraders
               \/ \A t \in NewTransactions(w) : t.trader \in TraderKeys',
           pc'[w] \in AfterTokens =>
               pc[w] \in AfterTokens \/ Addresses(payload[w].tokens) \subseteq TokenKeys',
           pc'[w] \in AfterPools =>
               pc[w] \in AfterPools \/ Addresses(payload[w].pools) \subseteq PoolKeys',
           pc'[w] \in AfterTransactions =>
               \/ pc[w] \in AfterTransactions
               \/ Hashes(payload[w].transactions) \subseteq TransactionKeys'
    PROVE  WrittenIsThere(w)'
  <1>1. pc'[w] \in AfterTraders => NewTransactions(w)' = NewTransactions(w)
    BY DEF NewTransactions
  <1>2. pc'[w] \in AfterDexes => payload'[w].dexes \subseteq DexKeys'
    BY DEF WrittenIsThere, KeysGrow
  <1>3. pc'[w] \in AfterTraders =>
            \A t \in NewTransactions(w)' : t.trader \in TraderKeys'
    BY <1>1 DEF WrittenIsThere, KeysGrow
  <1>4. pc'[w] \in AfterTokens => Addresses(payload'[w].tokens) \subseteq TokenKeys'
    BY DEF WrittenIsThere, KeysGrow
  <1>5. pc'[w] \in AfterPools => Addresses(payload'[w].pools) \subseteq PoolKeys'
    BY DEF WrittenIsThere, KeysGrow
  <1>6. pc'[w] \in AfterTransactions =>
            Hashes(payload'[w].transactions) \subseteq TransactionKeys'
    BY DEF WrittenIsThere, KeysGrow
  <1>7. QED
    BY <1>2, <1>3, <1>4, <1>5, <1>6 DEF WrittenIsThere

(* Outside a call nothing is seen and nothing is needed.                   *)
LEMMA IdleKeep ==
    ASSUME NEW w \in Writers, pc'[w] \notin AfterDexes,
           KeysGrow, SeenIsThere(w),
           seen'[w] \in {NothingSeen, seen[w]}
    PROVE  SeenIsThere(w)' /\ WrittenIsThere(w)'
  <1>1. SeenIsThere(w)'
    BY SeenKeep DEF NothingSeen
  <1>2. WrittenIsThere(w)'
    BY DEF WrittenIsThere, AfterDexes, AfterTraders, AfterTokens, AfterPools,
           AfterTransactions
  <1>3. QED
    BY <1>1, <1>2

(* The statements of one writer are none of the other writers' locals.     *)
LEMMA OthersKeep ==
    ASSUME NEW v \in Writers, KeysGrow, SeenIsThere(v), WrittenIsThere(v),
           pc'[v] = pc[v], payload'[v] = payload[v], seen'[v] = seen[v]
    PROVE  SeenIsThere(v)' /\ WrittenIsThere(v)'
  <1>1. SeenIsThere(v)'
    BY SeenKeep
  <1>2. WrittenIsThere(v)'
    BY WrittenKeep
  <1>3. QED
    BY <1>1, <1>2

LEMMA OnlyOwnLocals ==
    ASSUME TypeOK, NEW w \in Writers, Start(w) \/ Statement(w) \/ Abort(w),
           NEW v \in Writers, v # w
    PROVE  pc'[v] = pc[v] /\ payload'[v] = payload[v] /\ seen'[v] = seen[v]
  <1>1. /\ pc \in [Writers -> Statements]
        /\ payload \in [Writers -> Payloads \cup {Idle}]
        /\ seen \in [Writers -> Reads]
    BY DEF TypeOK
  <1>2. QED
    BY <1>1 DEF Start, Statement, Abort, Goto, Read, Return,
        SelectDexes, InsertDexes, SelectTransactions, SelectTraders,
        InsertTraders, SelectTokens, InsertTokens, UpdateLabel, UpdateStable,
        SelectPools, InsertPools, UpdateSnapshot, InsertTransactions,
        SelectSwaps, ReturnWithoutSwaps, SelectMaxSwapId, InsertSwaps

(* The keys follow the facts, and the references can be checked on them,   *)
(* in the next state as well.                                              *)
LEMMA NextKeysOfFacts ==
    /\ PoolKeys' = {f.address : f \in StoredPools'}
    /\ TransactionKeys' = {f.hash : f \in StoredTransactions'}
  <1>1. (/\ PoolKeys = {f.address : f \in StoredPools}
         /\ TransactionKeys = {f.hash : f \in StoredTransactions})'
    BY KeysOfFacts, PTL
  <1>2. QED
    BY <1>1

LEMMA NextIntegrityOfFacts ==
    ReferentialIntegrity' <=>
        /\ \A f \in StoredPools' : f.dex \in DexKeys'
        /\ \A f \in StoredTransactions' : f.trader \in TraderKeys'
        /\ \A f \in StoredSwaps' : /\ f.tx \in TransactionKeys'
                                   /\ f.pool \in PoolKeys'
                                   /\ f.tokens \subseteq TokenKeys'
  <1>1. (ReferentialIntegrity <=>
           /\ \A f \in StoredPools : f.dex \in DexKeys
           /\ \A f \in StoredTransactions : f.trader \in TraderKeys
           /\ \A f \in StoredSwaps : /\ f.tx \in TransactionKeys
                                     /\ f.pool \in PoolKeys
                                     /\ f.tokens \subseteq TokenKeys)'
    BY IntegrityOfFacts, PTL
  <1>2. QED
    BY <1>1

(* An INSERT that adds keys without references breaks none.                *)
LEMMA MoreKeys ==
    ASSUME DexKeys \subseteq DexKeys', TraderKeys \subseteq TraderKeys',
           TokenKeys \subseteq TokenKeys',
           UNCHANGED <<StoredPools, StoredTransactions, StoredSwaps>>
    PROVE  KeysGrow /\ (ReferentialIntegrity => ReferentialIntegrity')
  <1>1. /\ StoredPools' = StoredPools /\ StoredTransactions' = StoredTransactions
        /\ StoredSwaps' = StoredSwaps
    OBVIOUS
  <1>2. PoolKeys' = PoolKeys /\ TransactionKeys' = TransactionKeys
    BY <1>1, KeysOfFacts, NextKeysOfFacts
  <1>3. KeysGrow
    BY <1>2 DEF KeysGrow
  <1>4. ReferentialIntegrity => ReferentialIntegrity'
    BY <1>1, <1>2, IntegrityOfFacts, NextIntegrityOfFacts
  <1>5. QED
    BY <1>3, <1>4

(* Facts that stay keep their keys and their references.                   *)
LEMMA FactsStay ==
    ASSUME UNCHANGED Facts
    PROVE  KeysGrow /\ (ReferentialIntegrity => ReferentialIntegrity')
  BY MoreKeys DEF Facts
-----------------------------------------------------------------------------
(* The goal of the lemmas below, for a step of writer w.                   *)
Kept(w) ==
    ReferentialIntegrity' /\ KeysGrow /\ SeenIsThere(w)' /\ WrittenIsThere(w)'

After == {AfterDexes, AfterTraders, AfterTokens, AfterPools, AfterTransactions}

LEMMA QuietKept ==
    ASSUME IntegrityInvariant, NEW w \in Writers, Quiet(w)
    PROVE  Kept(w)
  <1>1. /\ TypeOK /\ ReferentialIntegrity /\ SeenIsThere(w) /\ WrittenIsThere(w)
        /\ pc \in [Writers -> Statements]
        /\ payload \in [Writers -> Payloads \cup {Idle}]
        /\ seen \in [Writers -> Reads]
    BY DEF IntegrityInvariant, TypeOK
  <1>2. KeysGrow /\ ReferentialIntegrity'
    BY <1>1, QuietFacts, FactsStay
  <1>3. CASE Start(w) \/ Abort(w) \/ ReturnWithoutSwaps(w)
    <2>1. pc'[w] \notin AfterDexes
      BY <1>1, <1>3 DEF Start, Abort, ReturnWithoutSwaps, Goto, AfterDexes
    <2>2. seen'[w] \in {NothingSeen, seen[w]}
      BY <1>1, <1>3 DEF Start, Abort, ReturnWithoutSwaps, Return
    <2>3. QED
      BY <1>1, <1>2, <2>1, <2>2, IdleKeep DEF Kept
  <1>4. CASE SelectTransactions(w)
    <2>1. pc'[w] = "selectTraders" /\ pc[w] = "selectTransactions"
          /\ payload'[w] = payload[w]
      BY <1>1, <1>4 DEF SelectTransactions, Goto
    <2>2. seen'[w] = [seen[w] EXCEPT !.txs =
                        Hashes(payload[w].transactions) \cap TransactionKeys]
      BY <1>1, <1>4 DEF SelectTransactions, Read
    <2>3. seen[w] \in Reads
      BY <1>1
    <2>4. SeenIsThere(w)'
      BY <1>1, <1>2, <2>2, <2>3, SeenKeep DEF Reads
    <2>5. WrittenIsThere(w)'
      BY <1>1, <1>2, <2>1, WrittenKeep
         DEF Statements, AfterDexes, AfterTraders, AfterTokens, AfterPools,
             AfterTransactions
    <2>6. QED
      BY <1>2, <2>4, <2>5 DEF Kept
  <1>5. CASE \/ SelectDexes(w) \/ SelectTraders(w) \/ SelectTokens(w)
             \/ UpdateLabel(w) \/ UpdateStable(w)
             \/ SelectPools(w) \/ UpdateSnapshot(w)
             \/ SelectSwaps(w) \/ SelectMaxSwapId(w)
    <2>1. payload'[w] = payload[w]
      BY <1>5 DEF SelectDexes, SelectTraders, SelectTokens, UpdateLabel,
         UpdateStable, SelectPools, UpdateSnapshot, SelectSwaps, SelectMaxSwapId
    <2>2. \A X \in After : pc'[w] \in X <=> pc[w] \in X
      <3>1. \/ pc'[w] = pc[w]
            \/ pc[w] = "selectDexes" /\ pc'[w] = "insertDexes"
            \/ pc[w] = "selectTraders" /\ pc'[w] = "insertTraders"
            \/ pc[w] = "selectTokens" /\ pc'[w] = "insertTokens"
            \/ pc[w] = "updateLabels" /\ pc'[w] = "selectPools"
            \/ pc[w] = "selectPools" /\ pc'[w] = "insertPools"
            \/ pc[w] = "selectSwaps" /\ pc'[w] = "selectMaxSwapId"
            \/ pc[w] = "selectMaxSwapId" /\ pc'[w] = "insertSwaps"
        BY <1>1, <1>5 DEF SelectDexes, SelectTraders, SelectTokens, UpdateLabel,
           UpdateStable, SelectPools, UpdateSnapshot, SelectSwaps,
           SelectMaxSwapId, Goto
      <3>2. QED
        BY <3>1 DEF After, Statements, AfterDexes, AfterTraders, AfterTokens,
           AfterPools, AfterTransactions
    <2>3. seen[w] \in Reads
      BY <1>1
    <2>4. /\ seen'[w].txs = seen[w].txs
          /\ seen'[w].dexes \subseteq seen[w].dexes \cup DexKeys
          /\ seen'[w].traders \subseteq seen[w].traders \cup TraderKeys
          /\ seen'[w].tokens \subseteq seen[w].tokens \cup TokenKeys
          /\ seen'[w].pools \subseteq seen[w].pools \cup PoolKeys
      <3>1. CASE SelectDexes(w)
        BY <1>1, <2>3, <3>1 DEF SelectDexes, Read, Reads
      <3>2. CASE SelectTraders(w)
        BY <1>1, <2>3, <3>2 DEF SelectTraders, Read, Reads
      <3>3. CASE SelectTokens(w)
        BY <1>1, <2>3, <3>3 DEF SelectTokens, Read, Reads
      <3>4. CASE SelectPools(w)
        BY <1>1, <2>3, <3>4 DEF SelectPools, Read, Reads
      <3>5. CASE SelectSwaps(w)
        BY <1>1, <2>3, <3>5 DEF SelectSwaps, Read, Reads
      <3>6. CASE SelectMaxSwapId(w)
        BY <1>1, <2>3, <3>6 DEF SelectMaxSwapId, Read, Reads
      <3>7. CASE UpdateLabel(w) \/ UpdateStable(w) \/ UpdateSnapshot(w)
        BY <3>7 DEF UpdateLabel, UpdateStable, UpdateSnapshot
      <3>8. QED
        BY <1>5, <3>1, <3>2, <3>3, <3>4, <3>5, <3>6, <3>7
    <2>5. SeenIsThere(w)'
      BY <1>1, <1>2, <2>4, SeenKeep
    <2>6. WrittenIsThere(w)'
      BY <1>1, <1>2, <2>1, <2>2, <2>4, WrittenKeep DEF After
    <2>7. QED
      BY <1>2, <2>5, <2>6 DEF Kept
  <1>6. QED
    BY <1>3, <1>4, <1>5 DEF Quiet

LEMMA InsertDexesKept ==
    ASSUME IntegrityInvariant, NEW w \in Writers, InsertDexes(w)
    PROVE  Kept(w)
  <1>1. /\ TypeOK /\ ReferentialIntegrity /\ SeenIsThere(w) /\ WrittenIsThere(w)
        /\ pc \in [Writers -> Statements]
    BY DEF IntegrityInvariant, TypeOK
  <1>2. /\ pc[w] = "insertDexes" /\ pc'[w] = "selectTransactions"
        /\ payload'[w] = payload[w] /\ seen'[w] = seen[w]
    BY <1>1 DEF InsertDexes, Goto
  <1>3. /\ DexKeys' = DexKeys \cup (payload[w].dexes \ seen[w].dexes)
        /\ UNCHANGED <<TraderKeys, TokenKeys, StoredPools, StoredTransactions,
                       StoredSwaps>>
    BY <1>1, InsertDexesFacts
  <1>4. KeysGrow
    BY <1>3, MoreKeys
  <1>5. ReferentialIntegrity'
    BY <1>1, <1>3, MoreKeys
  <1>a. payload[w].dexes \subseteq DexKeys'
    BY <1>1, <1>3 DEF SeenIsThere
  <1>6. SeenIsThere(w)'
    BY <1>1, <1>2, <1>4, SeenKeep
  <1>7. WrittenIsThere(w)'
    BY <1>1, <1>2, <1>4, <1>a, WrittenKeep DEF Statements, AfterDexes, AfterTraders, AfterTokens,
       AfterPools, AfterTransactions
  <1>8. QED
    BY <1>4, <1>5, <1>6, <1>7 DEF Kept

LEMMA InsertTradersKept ==
    ASSUME IntegrityInvariant, NEW w \in Writers, InsertTraders(w)
    PROVE  Kept(w)
  <1>1. /\ TypeOK /\ ReferentialIntegrity /\ SeenIsThere(w) /\ WrittenIsThere(w)
        /\ pc \in [Writers -> Statements]
    BY DEF IntegrityInvariant, TypeOK
  <1>2. /\ pc[w] = "insertTraders" /\ pc'[w] = "selectTokens"
        /\ payload'[w] = payload[w] /\ seen'[w] = seen[w]
    BY <1>1 DEF InsertTraders, Goto
  <1>3. /\ TraderKeys' = TraderKeys \cup NewTraders(w)
        /\ UNCHANGED <<DexKeys, TokenKeys, StoredPools, StoredTransactions,
                       StoredSwaps>>
    BY <1>1, InsertTradersFacts
  <1>4. KeysGrow
    BY <1>3, MoreKeys
  <1>5. ReferentialIntegrity'
    BY <1>1, <1>3, MoreKeys
  <1>a. \A t \in NewTransactions(w) : t.trader \in TraderKeys'
    BY <1>1, <1>3 DEF SeenIsThere, NewTraders
  <1>6. SeenIsThere(w)'
    BY <1>1, <1>2, <1>4, SeenKeep
  <1>7. WrittenIsThere(w)'
    BY <1>1, <1>2, <1>4, <1>a, WrittenKeep DEF Statements, AfterDexes, AfterTraders, AfterTokens,
       AfterPools, AfterTransactions
  <1>8. QED
    BY <1>4, <1>5, <1>6, <1>7 DEF Kept

LEMMA InsertTokensKept ==
    ASSUME IntegrityInvariant, NEW w \in Writers, InsertTokens(w)
    PROVE  Kept(w)
  <1>1. /\ TypeOK /\ ReferentialIntegrity /\ SeenIsThere(w) /\ WrittenIsThere(w)
        /\ pc \in [Writers -> Statements]
    BY DEF IntegrityInvariant, TypeOK
  <1>2. /\ pc[w] = "insertTokens" /\ pc'[w] = "updateLabels"
        /\ payload'[w] = payload[w] /\ seen'[w] = seen[w]
    BY <1>1 DEF InsertTokens, Goto
  <1>3. /\ TokenKeys' = TokenKeys \cup Addresses(NewTokens(w))
        /\ UNCHANGED <<DexKeys, TraderKeys, StoredPools, StoredTransactions,
                       StoredSwaps>>
    BY <1>1, InsertTokensFacts
  <1>4. KeysGrow
    BY <1>3, MoreKeys
  <1>5. ReferentialIntegrity'
    BY <1>1, <1>3, MoreKeys
  <1>a. Addresses(payload[w].tokens) \subseteq TokenKeys'
    BY <1>1, <1>3 DEF SeenIsThere, NewTokens, Addresses
  <1>6. SeenIsThere(w)'
    BY <1>1, <1>2, <1>4, SeenKeep
  <1>7. WrittenIsThere(w)'
    BY <1>1, <1>2, <1>4, <1>a, WrittenKeep DEF Statements, AfterDexes, AfterTraders, AfterTokens,
       AfterPools, AfterTransactions
  <1>8. QED
    BY <1>4, <1>5, <1>6, <1>7 DEF Kept

LEMMA InsertPoolsKept ==
    ASSUME IntegrityInvariant, NEW w \in Writers, InsertPools(w)
    PROVE  Kept(w)
  <1>1. /\ TypeOK /\ ReferentialIntegrity /\ SeenIsThere(w) /\ WrittenIsThere(w)
        /\ pc \in [Writers -> Statements]
    BY DEF IntegrityInvariant, TypeOK
  <1>2. /\ pc[w] = "insertPools" /\ pc'[w] = "updatePools"
        /\ payload'[w] = payload[w] /\ seen'[w] = seen[w]
    BY <1>1 DEF InsertPools, Goto
  <1>3. /\ StoredPools' = StoredPools \cup {PoolFact(row) : row \in NewPools(w)}
        /\ UNCHANGED <<DexKeys, TraderKeys, TokenKeys, StoredTransactions,
                       StoredSwaps>>
    BY <1>1, InsertPoolsFacts
  <1>b. PoolKeys' = PoolKeys \cup Addresses(NewPools(w))
    <2>1. \A row : PoolFact(row).address = row.address
      BY DEF PoolFact
    <2>2. QED
      BY <1>3, <2>1, KeysOfFacts, NextKeysOfFacts DEF Addresses
  <1>c. TransactionKeys' = TransactionKeys
    BY <1>3, KeysOfFacts, NextKeysOfFacts
  <1>4. KeysGrow
    BY <1>3, <1>b, <1>c DEF KeysGrow
  <1>5. ReferentialIntegrity'
    <2>1. payload[w].dexes \subseteq DexKeys
      BY <1>1, <1>2 DEF WrittenIsThere, AfterDexes, Statements
    <2>2. \A row \in NewPools(w) : row.dex \in payload[w].dexes
      BY <1>1, PayloadProperties DEF NewPools, Built
    <2>3. \A row : PoolFact(row).dex = row.dex
      BY DEF PoolFact
    <2>4. \A f \in StoredPools' : f.dex \in DexKeys'
      BY <1>1, <1>3, <2>1, <2>2, <2>3, IntegrityOfFacts
    <2>5. QED
      BY <1>1, <1>3, <1>b, <1>c, <2>4, IntegrityOfFacts, NextIntegrityOfFacts
  <1>a. Addresses(payload[w].pools) \subseteq PoolKeys'
    BY <1>1, <1>b DEF SeenIsThere, NewPools, Addresses
  <1>6. SeenIsThere(w)'
    BY <1>1, <1>2, <1>4, SeenKeep
  <1>7. WrittenIsThere(w)'
    BY <1>1, <1>2, <1>4, <1>a, WrittenKeep DEF Statements, AfterDexes, AfterTraders, AfterTokens,
       AfterPools, AfterTransactions
  <1>8. QED
    BY <1>4, <1>5, <1>6, <1>7 DEF Kept

LEMMA InsertTransactionsKept ==
    ASSUME IntegrityInvariant, NEW w \in Writers, InsertTransactions(w)
    PROVE  Kept(w)
  <1>1. /\ TypeOK /\ ReferentialIntegrity /\ SeenIsThere(w) /\ WrittenIsThere(w)
        /\ pc \in [Writers -> Statements]
    BY DEF IntegrityInvariant, TypeOK
  <1>2. /\ pc[w] = "updatePools" /\ pc'[w] = "selectSwaps"
        /\ payload'[w] = payload[w] /\ seen'[w] = seen[w]
    BY <1>1 DEF InsertTransactions, Goto
  <1>3. /\ StoredTransactions' = StoredTransactions \cup
               {TransactionFact(row) : row \in NewTransactions(w)}
        /\ UNCHANGED <<DexKeys, TraderKeys, TokenKeys, StoredPools, StoredSwaps>>
    BY <1>1, InsertTransactionsFacts
  <1>b. TransactionKeys' = TransactionKeys \cup Hashes(NewTransactions(w))
    <2>1. \A row : TransactionFact(row).hash = row.hash
      BY DEF TransactionFact
    <2>2. QED
      BY <1>3, <2>1, KeysOfFacts, NextKeysOfFacts DEF Hashes
  <1>c. PoolKeys' = PoolKeys
    BY <1>3, KeysOfFacts, NextKeysOfFacts
  <1>4. KeysGrow
    BY <1>3, <1>b, <1>c DEF KeysGrow
  <1>5. ReferentialIntegrity'
    <2>1. \A t \in NewTransactions(w) : t.trader \in TraderKeys
      BY <1>1, <1>2 DEF WrittenIsThere, AfterDexes, AfterTraders, Statements
    <2>2. \A row : TransactionFact(row).trader = row.trader
      BY DEF TransactionFact
    <2>3. \A f \in StoredTransactions' : f.trader \in TraderKeys'
      BY <1>1, <1>3, <2>1, <2>2, IntegrityOfFacts
    <2>4. QED
      BY <1>1, <1>3, <1>b, <1>c, <2>3, IntegrityOfFacts, NextIntegrityOfFacts
  <1>a. Hashes(payload[w].transactions) \subseteq TransactionKeys'
    BY <1>1, <1>b DEF SeenIsThere, NewTransactions, Hashes
  <1>6. SeenIsThere(w)'
    BY <1>1, <1>2, <1>4, SeenKeep
  <1>7. WrittenIsThere(w)'
    BY <1>1, <1>2, <1>4, <1>a, WrittenKeep DEF Statements, AfterDexes, AfterTraders, AfterTokens,
       AfterPools, AfterTransactions
  <1>8. QED
    BY <1>4, <1>5, <1>6, <1>7 DEF Kept

(* The references of the swaps a call inserts are in its payload.          *)
LEMMA NewSwapReferences ==
    ASSUME TypeOK, NEW w \in Writers, NEW row \in NewSwapRows(w)
    PROVE  /\ row.swap.tx \in Hashes(payload[w].transactions)
           /\ row.swap.pool \in Addresses(payload[w].pools)
           /\ row.swap.tokens \subseteq Addresses(payload[w].tokens)
  <1> DEFINE id(i) == seen[w].maxId + Cardinality({j \in NewSwapIndices(w) : j <= i})
  <1>a. PICK i \in NewSwapIndices(w) :
            row = [id |-> id(i), swap |-> Stored(payload[w].swaps[i])]
    BY DEF NewSwapRows
  <1>1. row.swap = Stored(payload[w].swaps[i])
    BY <1>a
  <1>2. i \in DOMAIN payload[w].swaps
    BY DEF NewSwapIndices
  <1>3. payload[w].swaps[i] \in SwapWrite
    BY <1>2, PayloadProperties, LenProperties DEF TradePayload
  <1>4. /\ row.swap.tx = payload[w].swaps[i].tx
        /\ row.swap.pool = payload[w].swaps[i].pool
        /\ row.swap.tokens = payload[w].swaps[i].tokens
    BY <1>1, <1>3 DEF Stored, SwapWrite
  <1>5. QED
    BY <1>2, <1>4, PayloadProperties DEF Built

LEMMA InsertSwapsKept ==
    ASSUME IntegrityInvariant, NEW w \in Writers, InsertSwaps(w)
    PROVE  Kept(w)
  <1>1. /\ TypeOK /\ ReferentialIntegrity /\ SeenIsThere(w) /\ WrittenIsThere(w)
        /\ pc \in [Writers -> Statements] /\ seen \in [Writers -> Reads]
    BY DEF IntegrityInvariant, TypeOK
  <1>2. pc[w] = "insertSwaps" /\ pc'[w] = "idle" /\ seen'[w] = NothingSeen
    BY <1>1 DEF InsertSwaps, Goto, Return
  <1>3. /\ StoredSwaps' = StoredSwaps \cup {SwapFact(row.swap) : row \in NewSwapRows(w)}
        /\ UNCHANGED <<DexKeys, TraderKeys, TokenKeys, StoredPools,
                       StoredTransactions>>
    BY <1>1, InsertSwapsFacts
  <1>4. PoolKeys' = PoolKeys /\ TransactionKeys' = TransactionKeys
    BY <1>3, KeysOfFacts, NextKeysOfFacts
  <1>5. KeysGrow
    BY <1>3, <1>4 DEF KeysGrow
  <1>6. \A row \in NewSwapRows(w) : /\ row.swap.tx \in TransactionKeys
                                   /\ row.swap.pool \in PoolKeys
                                   /\ row.swap.tokens \subseteq TokenKeys
    <2>1. /\ Addresses(payload[w].tokens) \subseteq TokenKeys
          /\ Addresses(payload[w].pools) \subseteq PoolKeys
          /\ Hashes(payload[w].transactions) \subseteq TransactionKeys
      BY <1>1, <1>2 DEF WrittenIsThere, Statements, AfterDexes, AfterTraders,
         AfterTokens, AfterPools, AfterTransactions
    <2>2. QED
      BY <1>1, <2>1, NewSwapReferences
  <1>7. ReferentialIntegrity'
    <2>1. \A row : /\ SwapFact(row.swap).tx = row.swap.tx
                   /\ SwapFact(row.swap).pool = row.swap.pool
                   /\ SwapFact(row.swap).tokens = row.swap.tokens
      BY DEF SwapFact
    <2>2. \A f \in StoredSwaps' : /\ f.tx \in TransactionKeys
                                 /\ f.pool \in PoolKeys
                                 /\ f.tokens \subseteq TokenKeys
      BY <1>1, <1>3, <1>6, <2>1, IntegrityOfFacts
    <2>3. QED
      BY <1>1, <1>3, <1>4, <2>2, IntegrityOfFacts, NextIntegrityOfFacts
  <1>8. pc'[w] \notin AfterDexes
    BY <1>2 DEF AfterDexes
  <1>9. QED
    BY <1>1, <1>2, <1>5, <1>7, <1>8, IdleKeep DEF Kept
-----------------------------------------------------------------------------
LEMMA InitIntegrity == Init => IntegrityInvariant
  <1> SUFFICES ASSUME Init PROVE IntegrityInvariant
    OBVIOUS
  <1>1. /\ Range(pools) = {} /\ Range(transactions) = {} /\ Range(swaps) = {}
    BY DEF Init, Range
  <1>2. ReferentialIntegrity
    BY <1>1 DEF ReferentialIntegrity
  <1>3. \A w \in Writers : SeenIsThere(w) /\ WrittenIsThere(w)
    BY DEF Init, NothingSeen, SeenIsThere, WrittenIsThere, AfterDexes,
       AfterTraders, AfterTokens, AfterPools, AfterTransactions
  <1>4. QED
    BY <1>2, <1>3, InitTypeOK DEF IntegrityInvariant

LEMMA NextIntegrity == IntegrityInvariant /\ [Next]_vars => IntegrityInvariant'
  <1> SUFFICES ASSUME IntegrityInvariant, [Next]_vars PROVE IntegrityInvariant'
    OBVIOUS
  <1>1. TypeOK /\ ReferentialIntegrity
        /\ \A w \in Writers : SeenIsThere(w) /\ WrittenIsThere(w)
    BY DEF IntegrityInvariant
  <1>2. TypeOK'
    BY <1>1, NextTypeOK
  <1>3. ASSUME NEW w \in Writers, Start(w) \/ Statement(w) \/ Abort(w)
        PROVE  IntegrityInvariant'
    <2>1. Kept(w)
      BY <1>3, QuietKept, InsertDexesKept, InsertTradersKept, InsertTokensKept,
         InsertPoolsKept, InsertTransactionsKept, InsertSwapsKept
         DEF Statement, Quiet
    <2>2. ASSUME NEW v \in Writers, v # w
          PROVE  SeenIsThere(v)' /\ WrittenIsThere(v)'
      BY <1>1, <1>3, <2>1, <2>2, OnlyOwnLocals, OthersKeep DEF Kept
    <2>3. QED
      BY <1>2, <2>1, <2>2 DEF IntegrityInvariant, Kept
  <1>4. ASSUME UNCHANGED Facts, UNCHANGED locals
        PROVE  IntegrityInvariant'
    <2>1. KeysGrow /\ ReferentialIntegrity'
      BY <1>1, <1>4, FactsStay
    <2>2. \A w \in Writers : SeenIsThere(w)' /\ WrittenIsThere(w)'
      BY <1>1, <1>4, <2>1, OthersKeep DEF locals
    <2>3. QED
      BY <1>2, <2>1, <2>2 DEF IntegrityInvariant
  <1>5. CASE ApplyTokenMutation \/ ApplyPoolMutation
    <2>1. UNCHANGED locals
      BY <1>5 DEF ApplyTokenMutation, ApplyPoolMutation
    <2>2. QED
      BY <1>1, <1>4, <1>5, <2>1, MutationFacts
  <1>6. CASE UNCHANGED vars
    <2>1. UNCHANGED Facts /\ UNCHANGED locals
      BY <1>6 DEF vars, tables, locals, Facts, DexKeys, TraderKeys, TokenKeys,
         StoredPools, StoredTransactions, StoredSwaps
    <2>2. QED
      BY <1>4, <2>1
  <1>7. QED
    BY <1>3, <1>5, <1>6 DEF Next

(* Whatever the interleaving, and wherever calls stop, the foreign keys    *)
(* that nothing enforces hold.                                             *)
THEOREM Integrity == Spec => []ReferentialIntegrity
  <1>1. IntegrityInvariant => ReferentialIntegrity
    BY DEF IntegrityInvariant
  <1>2. QED
    BY <1>1, InitIntegrity, NextIntegrity, PTL DEF Spec
-----------------------------------------------------------------------------
(* The tables refine the store: initially, ...                             *)
LEMMA InitStore == Init => Store!Init
  <1> SUFFICES ASSUME Init PROVE Store!Init
    OBVIOUS
  <1>1. TraderKeys = SeedTraders
    BY SeedAssumption, SetToSeqProperties DEF Init, TraderKeys
  <1>2. DexKeys = {} /\ TokenKeys = {}
    BY DEF Init, DexKeys, TokenKeys, Addresses, Range
  <1>3. StoredPools = {} /\ StoredTransactions = {} /\ StoredSwaps = {}
    BY DEF Init, StoredPools, StoredTransactions, StoredSwaps, Range
  <1>4. QED
    BY <1>1, <1>2, <1>3 DEF Store!Init

(* The facts have the types the store gives them, in every state.          *)
FactsTyped ==
    /\ DexKeys \subseteq Dexes /\ TraderKeys \subseteq Traders
    /\ TokenKeys \subseteq Tokens
    /\ StoredPools \subseteq [address : Pools, dex : Dexes]
    /\ StoredTransactions \subseteq [hash : Txs, trader : Traders]
    /\ StoredSwaps \subseteq [tx : Txs, pool : Pools, tokens : SUBSET Tokens]

LEMMA FactTypes == TypeOK => FactsTyped
  <1> SUFFICES ASSUME TypeOK PROVE FactsTyped
    OBVIOUS
  <1>1. /\ Range(dexes) \subseteq Dexes /\ Range(traders) \subseteq Traders
        /\ Range(tokens) \subseteq TokenWrite /\ Range(pools) \subseteq PoolWrite
        /\ Range(transactions) \subseteq TransactionWrite
        /\ Range(swaps) \subseteq SwapRow
    BY Fun_RangeProperties, LenProperties DEF TypeOK
  <1>2. DexKeys \subseteq Dexes /\ TraderKeys \subseteq Traders
    BY <1>1 DEF DexKeys, TraderKeys
  <1>3. TokenKeys \subseteq Tokens
    BY <1>1 DEF TokenKeys, Addresses, TokenWrite
  <1>4. StoredPools \subseteq [address : Pools, dex : Dexes]
    BY <1>1 DEF StoredPools, PoolFact, PoolWrite
  <1>5. StoredTransactions \subseteq [hash : Txs, trader : Traders]
    BY <1>1 DEF StoredTransactions, TransactionFact, TransactionWrite
  <1>6. StoredSwaps \subseteq [tx : Txs, pool : Pools, tokens : SUBSET Tokens]
    BY <1>1 DEF StoredSwaps, SwapFact, SwapRow, SwapWrite
  <1>7. QED
    BY <1>2, <1>3, <1>4, <1>5, <1>6 DEF FactsTyped

LEMMA NextFactTypes == TypeOK' => FactsTyped'
  BY FactTypes, PTL

(* ... and each statement adds the facts of one table or none.             *)
LEMMA NextStore ==
    ASSUME IntegrityInvariant, IntegrityInvariant', [Next]_vars
    PROVE  [Store!Next]_(Store!vars)
  <1>1. TypeOK /\ TypeOK'
    BY DEF IntegrityInvariant
  <1>2. ASSUME UNCHANGED Facts PROVE UNCHANGED Store!vars
    BY <1>2 DEF Facts, Store!vars
  <1>3. ASSUME NEW w \in Writers, InsertDexes(w) PROVE Store!AddDexes
    BY <1>1, <1>3, InsertDexesFacts, NextFactTypes
       DEF FactsTyped, Store!AddDexes
  <1>4. ASSUME NEW w \in Writers, InsertTraders(w) PROVE Store!AddTraders
    BY <1>1, <1>4, InsertTradersFacts, NextFactTypes
       DEF FactsTyped, Store!AddTraders
  <1>5. ASSUME NEW w \in Writers, InsertTokens(w) PROVE Store!AddTokens
    BY <1>1, <1>5, InsertTokensFacts, NextFactTypes
       DEF FactsTyped, Store!AddTokens
  <1>6. ASSUME NEW w \in Writers, InsertPools(w) PROVE Store!AddPools
    <2>1. \A f \in StoredPools' : f.dex \in DexKeys'
      BY NextIntegrityOfFacts DEF IntegrityInvariant
    <2>2. QED
      BY <1>1, <1>6, <2>1, InsertPoolsFacts, NextFactTypes
       DEF FactsTyped, Store!AddPools
  <1>7. ASSUME NEW w \in Writers, InsertTransactions(w) PROVE Store!AddTransactions
    <2>1. \A f \in StoredTransactions' : f.trader \in TraderKeys'
      BY NextIntegrityOfFacts DEF IntegrityInvariant
    <2>2. QED
      BY <1>1, <1>7, <2>1, InsertTransactionsFacts, NextFactTypes
         DEF FactsTyped, Store!AddTransactions
  <1>8. ASSUME NEW w \in Writers, InsertSwaps(w) PROVE Store!AddSwaps
    <2>1. /\ StoredSwaps' = StoredSwaps \cup
                {SwapFact(row.swap) : row \in NewSwapRows(w)}
          /\ UNCHANGED <<DexKeys, TraderKeys, TokenKeys, StoredPools,
                         StoredTransactions>>
      BY <1>1, <1>8, InsertSwapsFacts
    <2>2. \A f \in StoredSwaps' : /\ f.tx \in TransactionKeys'
                                 /\ f.pool \in PoolKeys'
                                 /\ f.tokens \subseteq TokenKeys'
      BY NextIntegrityOfFacts DEF IntegrityInvariant
    <2>3. \A f \in StoredSwaps' : /\ \E t \in StoredTransactions : t.hash = f.tx
                                 /\ \E p \in StoredPools : p.address = f.pool
                                 /\ f.tokens \subseteq TokenKeys
      BY <2>1, <2>2, NextKeysOfFacts
    <2>4. QED
      BY <1>1, <2>1, <2>3, NextFactTypes
       DEF FactsTyped, Store!AddSwaps
  <1>9. CASE \E w \in Writers : Quiet(w)
    BY <1>1, <1>2, <1>9, QuietFacts
  <1>10. CASE ApplyTokenMutation \/ ApplyPoolMutation
    BY <1>1, <1>2, <1>10, MutationFacts
  <1>11. CASE UNCHANGED vars
    BY <1>2, <1>11 DEF vars, tables, Facts, DexKeys, TraderKeys, TokenKeys,
       StoredPools, StoredTransactions, StoredSwaps
  <1>12. QED
    BY <1>3, <1>4, <1>5, <1>6, <1>7, <1>8, <1>9, <1>10, <1>11
       DEF Next, Statement, Quiet, Store!Next

(* Readers of the tables see a store that never loses a fact and never     *)
(* shows one before the facts it refers to.                                *)
THEOREM Refinement == Spec => ImplementsStore
  <1>1. QED
    BY InitIntegrity, NextIntegrity, InitStore, NextStore, PTL
       DEF Spec, ImplementsStore, Store!Spec
-----------------------------------------------------------------------------
(* The rows of one swap.                                                   *)
RowsWith(swap) == {row \in SwapRow : row.swap = swap}

LEMMA RowsOfPlaces ==
    ASSUME TypeOK, NEW swap
    PROVE  RowsOf(swap) = Cardinality(Places(swaps, RowsWith(swap)))
  <1>1. \A i \in DOMAIN swaps : swaps[i] \in SwapRow
    BY LenProperties DEF TypeOK
  <1>2. {i \in DOMAIN swaps : swaps[i].swap = swap} = Places(swaps, RowsWith(swap))
    BY <1>1 DEF Places, RowsWith
  <1>3. QED
    BY <1>2 DEF RowsOf

(* What is read back from the column is stored exactly.                    *)
LEMMA StoredTwice ==
    ASSUME NEW swap \in SwapWrite
    PROVE  Stored(swap) \in SwapWrite /\ Stored(Stored(swap)) = Stored(swap)
  <1>1. swap.data \in SwapData /\ StoredData[swap.data] \in SwapData
    BY StoredDataAssumption DEF SwapWrite
  <1>2. StoredData[StoredData[swap.data]] = StoredData[swap.data]
    BY <1>1, StoredDataAssumption
  <1>3. QED
    BY <1>1, <1>2 DEF Stored, SwapWrite

(* The swaps of a call are rows of the payload.                            *)
LEMMA SwapsOfPayload ==
    ASSUME TypeOK, NEW w \in Writers
    PROVE  /\ payload[w].swaps \in Seq(SwapWrite)
           /\ Len(payload[w].swaps) \in Nat
           /\ DOMAIN payload[w].swaps = 1 .. Len(payload[w].swaps)
           /\ IsFiniteSet(1 .. Len(payload[w].swaps))
           /\ \A i \in DOMAIN payload[w].swaps : payload[w].swaps[i] \in SwapWrite
           /\ NewSwapIndices(w) \in SUBSET (1 .. Len(payload[w].swaps))
           /\ IsFiniteSet(NewSwapIndices(w))
  <1>1. payload[w].swaps \in Seq(SwapWrite)
    BY PayloadProperties DEF TradePayload
  <1>2. /\ Len(payload[w].swaps) \in Nat
        /\ DOMAIN payload[w].swaps = 1 .. Len(payload[w].swaps)
        /\ \A i \in DOMAIN payload[w].swaps : payload[w].swaps[i] \in SwapWrite
    BY <1>1, LenProperties
  <1>3. NewSwapIndices(w) \in SUBSET (1 .. Len(payload[w].swaps))
    BY <1>2 DEF NewSwapIndices
  <1>4. IsFiniteSet(1 .. Len(payload[w].swaps))
    BY <1>2, FS_Interval
  <1>5. IsFiniteSet(NewSwapIndices(w))
    BY <1>3, <1>4, FS_Subset
  <1>6. QED
    BY <1>1, <1>2, <1>3, <1>4, <1>5

(* Each new swap of a call becomes a row of its own, because no two get    *)
(* the same id.                                                            *)
LEMMA NewRowsOf ==
    ASSUME TypeOK, NEW w \in Writers, NEW swap
    PROVE  Cardinality(NewSwapRows(w) \cap RowsWith(swap))
             = Cardinality({i \in NewSwapIndices(w) :
                                Stored(payload[w].swaps[i]) = swap})
  <1> DEFINE list == payload[w].swaps
             I == NewSwapIndices(w)
             J == {i \in I : Stored(list[i]) = swap}
             row(i) == [id |-> seen[w].maxId + Cardinality({j \in I : j <= i}),
                        swap |-> Stored(list[i])]
             f == [i \in J |-> row(i)]
  <1>1. I \in SUBSET Nat /\ IsFiniteSet(I) /\ IsFiniteSet(J)
    <2>1. I \in SUBSET (1 .. Len(list)) /\ IsFiniteSet(I) /\ Len(list) \in Nat
      BY SwapsOfPayload
    <2>2. IsFiniteSet(J)
      BY <2>1, FS_Subset
    <2>3. QED
      BY <2>1, <2>2
  <1>2. NewSwapRows(w) \in SUBSET SwapRow
    BY NewSwapRowsType
  <1>3. \A i, k \in I : row(i) = row(k) => i = k
    <2>1. SUFFICES ASSUME NEW i \in I, NEW k \in I, row(i) = row(k)
                   PROVE  i = k
      OBVIOUS
    <2>2. Upto(I, i) = {j \in I : j <= i} /\ Upto(I, k) = {j \in I : j <= k}
      BY DEF Upto
    <2>3. seen[w].maxId + Cardinality(Upto(I, i)) = seen[w].maxId + Cardinality(Upto(I, k))
      BY <2>1, <2>2
    <2>4. IsFiniteSet(Upto(I, i)) /\ IsFiniteSet(Upto(I, k))
      BY <1>1, FS_Subset DEF Upto
    <2>5. Cardinality(Upto(I, i)) \in Nat /\ Cardinality(Upto(I, k)) \in Nat
          /\ seen[w].maxId \in Nat
      BY <2>4, FS_CardinalityType DEF TypeOK, Reads
    <2>6. Cardinality(Upto(I, i)) = Cardinality(Upto(I, k))
      BY <2>3, <2>5
    <2> HIDE DEF I
    <2>7. QED
      BY <1>1, <2>6, RanksDiffer
  <1>4. NewSwapRows(w) = {row(i) : i \in I}
    BY DEF NewSwapRows
  <1>5. \A i : row(i).swap = Stored(list[i])
    OBVIOUS
  <1>6. J \subseteq I /\ \A i \in I : i \in J <=> Stored(list[i]) = swap
    OBVIOUS
  <1> HIDE DEF row, I, list
  <1>7. NewSwapRows(w) \cap RowsWith(swap) = Range(f)
    <2>1. \A i \in I : row(i) \in SwapRow
      BY <1>2, <1>4
    <2>2. Range(f) = {row(i) : i \in J}
      BY DEF Range
    <2>3. ASSUME NEW r \in NewSwapRows(w) \cap RowsWith(swap)
          PROVE  r \in Range(f)
      <3>1. PICK i \in I : r = row(i)
        BY <1>4, <2>3
      <3>2. i \in J
        BY <1>5, <2>3, <3>1 DEF RowsWith
      <3>3. QED
        BY <2>2, <3>1, <3>2
    <2>4. ASSUME NEW i \in J PROVE row(i) \in NewSwapRows(w) \cap RowsWith(swap)
      BY <1>4, <1>5, <1>6, <2>1, <2>4 DEF RowsWith
    <2>5. QED
      BY <2>2, <2>3, <2>4
  <1>8. f \in [J -> NewSwapRows(w)] /\ \A x, y \in J : f[x] = f[y] => x = y
    BY <1>3, <1>4, <1>6
  <1>9. Cardinality(Range(f)) = Cardinality(J)
    <2> HIDE DEF f, J
    <2>1. QED
      BY <1>1, <1>8, InjectiveImage
  <1>10. QED
    BY <1>7, <1>9 DEF I, list

(* So the INSERT raises the count of a swap by its new places.             *)
LEMMA InsertSwapsCounts ==
    ASSUME TypeOK, NEW w \in Writers, InsertSwaps(w), NEW swap
    PROVE  /\ RowsOf(swap)' = RowsOf(swap)
                + Cardinality({i \in NewSwapIndices(w) : Stored(payload[w].swaps[i]) = swap})
           /\ Cardinality({i \in NewSwapIndices(w) : Stored(payload[w].swaps[i]) = swap})
                \in Nat
  <1>1. swaps \in Seq(SwapRow) /\ swaps' = swaps \o SetToSeq(NewSwapRows(w))
    BY DEF TypeOK, InsertSwaps, Insert
  <1>2. NewSwapRows(w) \in SUBSET SwapRow /\ IsFiniteSet(NewSwapRows(w))
    BY NewSwapRowsType
  <1>3. Cardinality(Places(swaps', RowsWith(swap)))
          = Cardinality(Places(swaps, RowsWith(swap)))
              + Cardinality(NewSwapRows(w) \cap RowsWith(swap))
    BY <1>1, <1>2, InsertPlaces
  <1>4. RowsOf(swap) = Cardinality(Places(swaps, RowsWith(swap)))
    BY RowsOfPlaces
  <1>5. RowsOf(swap)' = Cardinality(Places(swaps', RowsWith(swap)))
    <2>1. TypeOK'
      BY NextTypeOK DEF Next, Statement
    <2>2. \A i \in DOMAIN swaps' : swaps'[i] \in SwapRow
      BY <2>1, LenProperties, SMTT(30) DEF TypeOK
    <2>3. {i \in DOMAIN swaps' : swaps'[i].swap = swap} = Places(swaps', RowsWith(swap))
      BY <2>2 DEF Places, RowsWith
    <2>4. QED
      BY <2>3 DEF RowsOf
  <1>6. IsFiniteSet({i \in NewSwapIndices(w) : Stored(payload[w].swaps[i]) = swap})
    BY SwapsOfPayload, FS_Subset
  <1>7. QED
    BY <1>3, <1>4, <1>5, <1>6, NewRowsOf, FS_CardinalityType

(* The places of a payload that hold one swap.                             *)
Same(w, swap) == {j \in DOMAIN payload[w].swaps : payload[w].swaps[j] = swap}

(* Every swap of a payload has its transaction and its pool, so the new    *)
(* ones of a fingerprint are those whose rank exceeds the count that was   *)
(* read.                                                                   *)
LEMMA NewPlaces ==
    ASSUME TypeOK, NEW w \in Writers, NEW swap, NEW c \in Nat,
           \A j \in Same(w, swap) : seen[w].swaps[j] = c
    PROVE  /\ Same(w, swap) \in SUBSET Nat /\ IsFiniteSet(Same(w, swap))
           /\ {i \in NewSwapIndices(w) : payload[w].swaps[i] = swap}
                = {i \in Same(w, swap) : Cardinality(Upto(Same(w, swap), i)) > c}
  <1> DEFINE list == payload[w].swaps
             P == Same(w, swap)
  <1>1. /\ Len(list) \in Nat /\ DOMAIN list = 1 .. Len(list)
        /\ IsFiniteSet(1 .. Len(list))
    BY SwapsOfPayload
  <1>2. P \in SUBSET (1 .. Len(list))
    BY <1>1 DEF Same
  <1>3. IsFiniteSet(P) /\ P \in SUBSET Nat
    <2>1. IsFiniteSet(P)
      BY <1>1, <1>2, FS_Subset
    <2>2. QED
      BY <1>1, <1>2, <2>1
  <1>4. \A i \in DOMAIN list : list[i].tx \in ValidTransactions(w)
                               /\ list[i].pool \in ValidPools(w)
    <2>1. \A i \in DOMAIN list : /\ list[i].tx \in Hashes(payload[w].transactions)
                                 /\ list[i].pool \in Addresses(payload[w].pools)
      BY PayloadProperties DEF Built
    <2>2. Hashes(payload[w].transactions) \subseteq ValidTransactions(w)
      BY DEF ValidTransactions, NewTransactions, Hashes
    <2>3. Addresses(payload[w].pools) \subseteq ValidPools(w)
      BY DEF ValidPools, NewPools, Addresses
    <2>4. QED
      BY <2>1, <2>2, <2>3
  <1>5. ASSUME NEW i \in P
        PROVE  {j \in 1..i : list[j] = list[i]} = Upto(P, i)
    <2>1. i \in 1 .. Len(list) /\ list[i] = swap
      BY <1>1 DEF Same
    <2>2. \A j \in 1..i : j \in 1 .. Len(list)
      BY <1>1, <2>1
    <2>3. \A j \in 1 .. Len(list) : j <= i <=> j \in 1..i
      BY <1>1, <2>1
    <2>4. QED
      BY <1>1, <2>1, <2>2, <2>3 DEF Upto, Same
  <1>6. \A i \in P : i \in NewSwapIndices(w) <=> Cardinality(Upto(P, i)) > c
    <2>1. SUFFICES ASSUME NEW i \in P
                   PROVE  i \in NewSwapIndices(w) <=> Cardinality(Upto(P, i)) > c
      OBVIOUS
    <2>2. i \in DOMAIN list /\ seen[w].swaps[i] = c
      BY DEF Same
    <2>3. i \in NewSwapIndices(w) <=>
             Cardinality({j \in 1..i : list[j] = list[i]}) > seen[w].swaps[i]
      BY <1>4, <2>2 DEF NewSwapIndices
    <2>4. QED
      BY <1>5, <2>2, <2>3
  <1>7. {i \in NewSwapIndices(w) : list[i] = swap} = {i \in P : i \in NewSwapIndices(w)}
    BY DEF Same, NewSwapIndices
  <1>8. QED
    BY <1>3, <1>6, <1>7
-----------------------------------------------------------------------------
(* The counts a writer has read are no more than the rows there are now of *)
(* what the column keeps of the swap, and equal for equal swaps.           *)
Counted == {"selectMaxSwapId", "insertSwaps"}

CountsSeen(w) ==
    pc[w] \in Counted =>
        \A i \in DOMAIN payload[w].swaps :
            /\ seen[w].swaps[i] \in Nat
            /\ seen[w].swaps[i] <= RowsOf(Stored(payload[w].swaps[i]))
            /\ \A k \in DOMAIN payload[w].swaps :
                 payload[w].swaps[k] = payload[w].swaps[i] =>
                     seen[w].swaps[k] = seen[w].swaps[i]

(* The rows hold what the column gives back.                               *)
RowsAreStored == \A row \in Range(swaps) : Stored(row.swap) = row.swap

CompletenessInvariant ==
    /\ RowsAreStored
    /\ \A w \in Writers : CountsSeen(w)
    /\ CommittedIsComplete

(* No row of a swap ever goes.                                             *)
RowsGrow == \A swap : RowsOf(swap) <= RowsOf(swap)'

LEMMA SameRows ==
    ASSUME TypeOK, swaps' = swaps
    PROVE  RowsGrow /\ \A swap : RowsOf(swap)' = RowsOf(swap)
  <1>1. \A swap : RowsOf(swap)' = RowsOf(swap)
    BY DEF RowsOf
  <1>2. \A swap : RowsOf(swap) \in Nat
    BY RowsOfType
  <1>3. QED
    BY <1>1, <1>2 DEF RowsGrow

LEMMA InsertedRowsGrow ==
    ASSUME TypeOK, NEW w \in Writers, InsertSwaps(w)
    PROVE  RowsGrow
  <1>1. SUFFICES ASSUME NEW swap PROVE RowsOf(swap) <= RowsOf(swap)'
    BY DEF RowsGrow
  <1>2. PICK n \in Nat : RowsOf(swap)' = RowsOf(swap) + n
    BY InsertSwapsCounts
  <1>3. RowsOf(swap) \in Nat
    BY RowsOfType
  <1>4. QED
    BY <1>2, <1>3

(* Every step lets the keys and the rows grow.                             *)
SwapsStay(w) ==
    \/ Quiet(w) \/ InsertDexes(w) \/ InsertTraders(w) \/ InsertTokens(w)
    \/ InsertPools(w) \/ InsertTransactions(w)

LEMMA OnlyInsertSwaps ==
    ASSUME NEW w \in Writers, SwapsStay(w)
    PROVE  swaps' = swaps
  BY DEF SwapsStay, Quiet, Start, Abort, ReturnWithoutSwaps, SelectDexes, SelectTransactions,
         SelectTraders, SelectTokens, UpdateLabel, UpdateStable, SelectPools,
         UpdateSnapshot, SelectSwaps, SelectMaxSwapId, InsertDexes, InsertTraders,
         InsertTokens, InsertPools, InsertTransactions, tables

LEMMA NextGrows ==
    ASSUME IntegrityInvariant, NEW w \in Writers, Start(w) \/ Statement(w) \/ Abort(w)
    PROVE  KeysGrow /\ RowsGrow
  <1>1. KeysGrow
    BY QuietKept, InsertDexesKept, InsertTradersKept, InsertTokensKept,
       InsertPoolsKept, InsertTransactionsKept, InsertSwapsKept
       DEF Statement, Quiet, Kept
  <1>2. SwapsStay(w) \/ InsertSwaps(w)
    BY DEF Statement, Quiet, SwapsStay
  <1>3. QED
    BY <1>1, <1>2, OnlyInsertSwaps, SameRows, InsertedRowsGrow DEF IntegrityInvariant

CountsAreNumbers == \A swap : RowsOf(swap) \in Nat

LEMMA NextCountsAreNumbers == TypeOK' => CountsAreNumbers'
  <1>1. TypeOK => CountsAreNumbers
    BY RowsOfType DEF CountsAreNumbers
  <1>2. QED
    BY <1>1, PTL

(* What is complete stays complete.                                        *)
Complete(p) ==
    /\ p.dexes \subseteq DexKeys
    /\ Addresses(p.tokens) \subseteq TokenKeys
    /\ Addresses(p.pools) \subseteq PoolKeys
    /\ Hashes(p.transactions) \subseteq TransactionKeys
    /\ \A i \in DOMAIN p.swaps :
         RowsOf(Stored(p.swaps[i]))
            >= Cardinality({j \in DOMAIN p.swaps : p.swaps[j] = p.swaps[i]})

LEMMA CommittedComplete == CommittedIsComplete <=> \A p \in committed : Complete(p)
  BY DEF CommittedIsComplete, Complete

LEMMA CompleteStays ==
    ASSUME TypeOK, TypeOK', KeysGrow, RowsGrow, NEW p \in Payloads, Complete(p)
    PROVE  Complete(p)'
  <1>1. /\ p.dexes \subseteq DexKeys' /\ Addresses(p.tokens) \subseteq TokenKeys'
        /\ Addresses(p.pools) \subseteq PoolKeys'
        /\ Hashes(p.transactions) \subseteq TransactionKeys'
    BY DEF Complete, KeysGrow
  <1>2. ASSUME NEW i \in DOMAIN p.swaps
        PROVE  RowsOf(Stored(p.swaps[i]))'
                 >= Cardinality({j \in DOMAIN p.swaps : p.swaps[j] = p.swaps[i]})
    <2> DEFINE n == Cardinality({j \in DOMAIN p.swaps : p.swaps[j] = p.swaps[i]})
               x == Stored(p.swaps[i])
    <2>1. RowsOf(x) >= n
      BY DEF Complete
    <2>2. RowsOf(x) <= RowsOf(x)'
      BY DEF RowsGrow
    <2>3. RowsOf(x) \in Nat
      BY RowsOfType
    <2>4. RowsOf(x)' \in Nat
      BY NextCountsAreNumbers DEF CountsAreNumbers
    <2>5. n \in Nat
      <3>1. p.swaps \in Seq(SwapWrite)
        BY PayloadsAssumption DEF TradePayload
      <3>2. {j \in DOMAIN p.swaps : p.swaps[j] = p.swaps[i]}
              = Places(p.swaps, {p.swaps[i]})
        BY DEF Places
      <3>3. QED
        BY <3>1, <3>2, PlacesFinite
    <2> HIDE DEF n, x
    <2>6. RowsOf(x)' >= n
      BY <2>1, <2>2, <2>3, <2>4, <2>5
    <2>7. QED
      BY <2>6 DEF n, x
  <1>3. QED
    BY <1>1, <1>2 DEF Complete

(* Of the places of a swap of the payload, those beyond the count that was *)
(* read are new.                                                           *)
LEMMA NewBeyondCount ==
    ASSUME TypeOK, NEW w \in Writers, CountsSeen(w), pc[w] \in Counted,
           NEW i \in DOMAIN payload[w].swaps
    PROVE  LET new == {j \in NewSwapIndices(w) : payload[w].swaps[j] = payload[w].swaps[i]}
               n == Cardinality(Same(w, payload[w].swaps[i]))
               c == seen[w].swaps[i]
           IN  /\ Cardinality(new) \in Nat /\ n \in Nat /\ c \in Nat
               /\ Cardinality(new) + c >= n
               /\ new # {} => Cardinality(new) + c <= n
  <1> DEFINE x == payload[w].swaps[i]
             c == seen[w].swaps[i]
             P == Same(w, x)
  <1>1. c \in Nat /\ \A j \in P : seen[w].swaps[j] = c
    BY DEF CountsSeen, Same
  <1>2. /\ P \in SUBSET Nat /\ IsFiniteSet(P)
        /\ {j \in NewSwapIndices(w) : payload[w].swaps[j] = x}
             = {j \in P : Cardinality(Upto(P, j)) > c}
    BY <1>1, NewPlaces
  <1> HIDE DEF c, P, x
  <1>3. QED
    BY <1>1, <1>2, RanksAbove DEF c, P, x

(* What a call leaves when it returns.                                     *)
LEMMA WrittenAll ==
    ASSUME NEW w \in Writers, WrittenIsThere(w), pc[w] \in Counted
    PROVE  /\ payload[w].dexes \subseteq DexKeys
           /\ Addresses(payload[w].tokens) \subseteq TokenKeys
           /\ Addresses(payload[w].pools) \subseteq PoolKeys
           /\ Hashes(payload[w].transactions) \subseteq TransactionKeys
  BY DEF Counted, WrittenIsThere, Statements, AfterDexes, AfterTraders, AfterTokens,
         AfterPools, AfterTransactions

LEMMA InsertSwapsCompletes ==
    ASSUME IntegrityInvariant, NEW w \in Writers, CountsSeen(w), InsertSwaps(w),
           NEW p, p = payload[w]
    PROVE  Complete(p)'
  <1>1. TypeOK /\ WrittenIsThere(w) /\ pc[w] \in Counted
    BY DEF IntegrityInvariant, InsertSwaps, Goto, Counted
  <1>2. KeysGrow
    BY NextGrows DEF Statement
  <1>3. /\ p.dexes \subseteq DexKeys' /\ Addresses(p.tokens) \subseteq TokenKeys'
        /\ Addresses(p.pools) \subseteq PoolKeys'
        /\ Hashes(p.transactions) \subseteq TransactionKeys'
    BY <1>1, <1>2, WrittenAll DEF KeysGrow
  <1>4. ASSUME NEW i \in DOMAIN p.swaps
        PROVE  RowsOf(Stored(p.swaps[i]))'
                 >= Cardinality({j \in DOMAIN p.swaps : p.swaps[j] = p.swaps[i]})
    <2> DEFINE x == p.swaps[i]
               c == seen[w].swaps[i]
               new == {j \in NewSwapIndices(w) : p.swaps[j] = x}
               stored == {j \in NewSwapIndices(w) : Stored(p.swaps[j]) = Stored(x)}
               n == Cardinality({j \in DOMAIN p.swaps : p.swaps[j] = x})
    <2>1. /\ Cardinality(new) \in Nat /\ n \in Nat /\ c \in Nat
          /\ Cardinality(new) + c >= n
      BY <1>1, NewBeyondCount DEF Same
    <2>2. RowsOf(Stored(x))' = RowsOf(Stored(x)) + Cardinality(stored)
          /\ Cardinality(stored) \in Nat
      BY <1>1, InsertSwapsCounts
    <2>3. Cardinality(new) <= Cardinality(stored)
      <3>1. IsFiniteSet(stored)
        BY <1>1, SwapsOfPayload, FS_Subset
      <3>2. new \in SUBSET stored
        OBVIOUS
      <3>3. QED
        BY <3>1, <3>2, FS_Subset
    <2>4. c <= RowsOf(Stored(x)) /\ RowsOf(Stored(x)) \in Nat
      BY <1>1, RowsOfType DEF CountsSeen
    <2> HIDE DEF x, c, new, stored, n
    <2>5. RowsOf(Stored(x))' >= n
      BY <2>1, <2>2, <2>3, <2>4
    <2>6. QED
      BY <2>5 DEF x, n
  <1>5. QED
    BY <1>3, <1>4 DEF Complete

LEMMA ReturnWithoutSwapsCompletes ==
    ASSUME IntegrityInvariant, NEW w \in Writers, CountsSeen(w), ReturnWithoutSwaps(w)
    PROVE  Complete(payload[w])
  <1>1. TypeOK /\ WrittenIsThere(w) /\ pc[w] \in Counted
    BY DEF IntegrityInvariant, ReturnWithoutSwaps, Goto, Counted
  <1> DEFINE p == payload[w]
  <1>2. /\ p.dexes \subseteq DexKeys /\ Addresses(p.tokens) \subseteq TokenKeys
        /\ Addresses(p.pools) \subseteq PoolKeys
        /\ Hashes(p.transactions) \subseteq TransactionKeys
    BY <1>1, WrittenAll
  <1>3. ASSUME NEW i \in DOMAIN p.swaps
        PROVE  RowsOf(Stored(p.swaps[i]))
                 >= Cardinality({j \in DOMAIN p.swaps : p.swaps[j] = p.swaps[i]})
    <2> DEFINE x == p.swaps[i]
               c == seen[w].swaps[i]
               new == {j \in NewSwapIndices(w) : p.swaps[j] = x}
               n == Cardinality({j \in DOMAIN p.swaps : p.swaps[j] = x})
    <2>1. /\ n \in Nat /\ c \in Nat
          /\ Cardinality(new) + c >= n
      BY <1>1, NewBeyondCount DEF Same
    <2>2. new = {}
      BY DEF ReturnWithoutSwaps
    <2>3. Cardinality(new) = 0
      BY <2>2, FS_EmptySet
    <2>4. c <= RowsOf(Stored(x)) /\ RowsOf(Stored(x)) \in Nat
      BY <1>1, RowsOfType DEF CountsSeen
    <2> HIDE DEF x, c, new, n
    <2>5. RowsOf(Stored(x)) >= n
      BY <2>1, <2>3, <2>4
    <2>6. QED
      BY <2>5 DEF x, n
  <1>4. QED
    BY <1>2, <1>3 DEF Complete

(* So every step keeps what committed calls left, ...                      *)
LEMMA NextCommitted ==
    ASSUME IntegrityInvariant, CommittedIsComplete, NEW w \in Writers, CountsSeen(w),
           Start(w) \/ Statement(w) \/ Abort(w)
    PROVE  CommittedIsComplete'
  <1>1. TypeOK /\ TypeOK' /\ KeysGrow /\ RowsGrow
    BY NextGrows, NextTypeOK DEF IntegrityInvariant, Next
  <1>2. \A p \in committed : Complete(p)'
    <2>1. SUFFICES ASSUME NEW p \in committed PROVE Complete(p)'
      OBVIOUS
    <2>2. p \in Payloads /\ Complete(p)
      BY <1>1, CommittedComplete DEF TypeOK
    <2>3. QED
      BY <1>1, <2>2, CompleteStays
  <1>3. \A p \in committed' : Complete(p)'
    <2>1. CASE ReturnWithoutSwaps(w)
      <3>1. committed' = committed \cup {payload[w]}
        BY <2>1 DEF ReturnWithoutSwaps, Return
      <3>2. ASSUME NEW p, p = payload[w] PROVE Complete(p)'
        <4>1. p \in Payloads
          BY <1>1, <2>1, <3>2 DEF ReturnWithoutSwaps, Goto, TypeOK
        <4>2. Complete(p)
          BY <2>1, <3>2, ReturnWithoutSwapsCompletes
        <4>3. QED
          BY <1>1, <4>1, <4>2, CompleteStays
      <3>3. QED
        BY <1>2, <3>1, <3>2
    <2>2. CASE InsertSwaps(w)
      <3>1. committed' = committed \cup {payload[w]}
        BY <2>2 DEF InsertSwaps, Return
      <3>2. ASSUME NEW p, p = payload[w] PROVE Complete(p)'
        BY <2>2, <3>2, InsertSwapsCompletes
      <3>3. QED
        BY <1>2, <3>1, <3>2
    <2>3. CASE committed' = committed
      BY <1>2, <2>3
    <2>4. QED
      BY <2>1, <2>2, <2>3 DEF Statement, Start, Abort, SelectDexes, SelectTransactions,
         SelectTraders, SelectTokens, UpdateLabel, UpdateStable, SelectPools,
         UpdateSnapshot, SelectSwaps, SelectMaxSwapId, InsertDexes, InsertTraders,
         InsertTokens, InsertPools, InsertTransactions
  <1>4. (CommittedIsComplete <=> \A p \in committed : Complete(p))'
    BY CommittedComplete, PTL
  <1>5. QED
    BY <1>3, <1>4

(* ... every row an INSERT adds is a stored one, ...                       *)
LEMMA NextStored ==
    ASSUME TypeOK, RowsAreStored, NEW w \in Writers, InsertSwaps(w)
    PROVE  RowsAreStored'
  <1>1. Range(swaps') = Range(swaps) \cup NewSwapRows(w)
    <2>1. swaps \in Seq(SwapRow) /\ swaps' = Insert(swaps, NewSwapRows(w))
      BY DEF InsertSwaps, TypeOK
    <2>2. NewSwapRows(w) \in SUBSET SwapRow /\ IsFiniteSet(NewSwapRows(w))
      BY NewSwapRowsType
    <2>3. Range(Insert(swaps, NewSwapRows(w))) = Range(swaps) \cup NewSwapRows(w)
      BY <2>1, <2>2, InsertProperties
    <2>4. QED
      BY <2>1, <2>3
  <1>2. ASSUME NEW row \in NewSwapRows(w) PROVE Stored(row.swap) = row.swap
    <2>1. PICK i \in NewSwapIndices(w) : row.swap = Stored(payload[w].swaps[i])
      <3> DEFINE id(i) == seen[w].maxId + Cardinality({j \in NewSwapIndices(w) : j <= i})
      <3>1. PICK i \in NewSwapIndices(w) :
                row = [id |-> id(i), swap |-> Stored(payload[w].swaps[i])]
        BY DEF NewSwapRows
      <3>2. QED
        BY <3>1
    <2>2. payload[w].swaps[i] \in SwapWrite
      BY SwapsOfPayload
    <2>3. QED
      BY <2>1, <2>2, StoredTwice
  <1>3. QED
    BY <1>1, <1>2 DEF RowsAreStored

(* ... and the counts that were read stay lower bounds.                    *)
LEMMA CountsKeep ==
    ASSUME TypeOK, TypeOK', RowsGrow, NEW w \in Writers, CountsSeen(w),
           pc'[w] \in Counted =>
               /\ pc[w] \in Counted
               /\ payload'[w] = payload[w] /\ seen'[w].swaps = seen[w].swaps
    PROVE  CountsSeen(w)'
  <1>1. SUFFICES ASSUME pc'[w] \in Counted PROVE CountsSeen(w)'
    BY DEF CountsSeen
  <1>2. /\ pc[w] \in Counted
        /\ payload'[w] = payload[w] /\ seen'[w].swaps = seen[w].swaps
    BY <1>1
  <1>3. ASSUME NEW i \in DOMAIN payload[w].swaps
        PROVE  /\ seen[w].swaps[i] \in Nat
               /\ seen[w].swaps[i] <= RowsOf(Stored(payload[w].swaps[i]))'
               /\ \A k \in DOMAIN payload[w].swaps :
                    payload[w].swaps[k] = payload[w].swaps[i] =>
                        seen[w].swaps[k] = seen[w].swaps[i]
    <2>1. /\ seen[w].swaps[i] \in Nat
          /\ seen[w].swaps[i] <= RowsOf(Stored(payload[w].swaps[i]))
          /\ \A k \in DOMAIN payload[w].swaps :
               payload[w].swaps[k] = payload[w].swaps[i] =>
                   seen[w].swaps[k] = seen[w].swaps[i]
      BY <1>2 DEF CountsSeen
    <2>2. PICK x : x = Stored(payload[w].swaps[i])
      OBVIOUS
    <2>3. RowsOf(x) <= RowsOf(x)' /\ RowsOf(x) \in Nat /\ RowsOf(x)' \in Nat
      BY RowsOfType, NextCountsAreNumbers DEF RowsGrow, CountsAreNumbers
    <2>4. RowsOf(Stored(payload[w].swaps[i]))' = RowsOf(x)'
      BY <1>2, <2>2 DEF RowsOf, Stored
    <2>5. RowsOf(Stored(payload[w].swaps[i])) = RowsOf(x)
      BY <2>2
    <2>6. seen[w].swaps[i] <= RowsOf(x)'
      BY <2>1, <2>3, <2>5
    <2>7. QED
      BY <2>1, <2>4, <2>6
  <1>4. QED
    BY <1>2, <1>3 DEF CountsSeen

(* A swap the column does not give back as it is has no rows at all.       *)
LEMMA RowsOfStored ==
    ASSUME TypeOK, RowsAreStored, NEW swap
    PROVE  RowsOf(swap) <= RowsOf(Stored(swap))
  <1>1. RowsOf(swap) \in Nat /\ RowsOf(Stored(swap)) \in Nat
    BY RowsOfType
  <1>2. CASE Stored(swap) = swap
    BY <1>1, <1>2
  <1>3. CASE Stored(swap) # swap
    <2>1. {i \in DOMAIN swaps : swaps[i].swap = swap} = {}
      BY <1>3 DEF RowsAreStored, Range
    <2>2. RowsOf(swap) = 0
      BY <2>1, FS_EmptySet DEF RowsOf
    <2>3. QED
      BY <1>1, <2>2
  <1>4. QED
    BY <1>2, <1>3

LEMMA SelectSwapsCounts ==
    ASSUME TypeOK, RowsAreStored, NEW w \in Writers, SelectSwaps(w)
    PROVE  CountsSeen(w)'
  <1>1. seen[w] \in Reads /\ seen \in [Writers -> Reads] /\ payload' = payload
        /\ swaps' = swaps
    BY DEF TypeOK, SelectSwaps, tables
  <1>2. seen'[w].swaps = [i \in DOMAIN payload[w].swaps |-> RowsOf(payload[w].swaps[i])]
    BY <1>1 DEF SelectSwaps, Read, Reads
  <1>3. ASSUME NEW i \in DOMAIN payload[w].swaps
        PROVE  /\ seen'[w].swaps[i] \in Nat
               /\ seen'[w].swaps[i] <= RowsOf(Stored(payload[w].swaps[i]))'
               /\ \A k \in DOMAIN payload[w].swaps :
                    payload[w].swaps[k] = payload[w].swaps[i] =>
                        seen'[w].swaps[k] = seen'[w].swaps[i]
    <2>1. seen'[w].swaps[i] = RowsOf(payload[w].swaps[i])
      BY <1>2
    <2>2. RowsOf(payload[w].swaps[i]) \in Nat
      BY RowsOfType
    <2>3. RowsOf(payload[w].swaps[i]) <= RowsOf(Stored(payload[w].swaps[i]))
      BY RowsOfStored
    <2>4. RowsOf(Stored(payload[w].swaps[i]))' = RowsOf(Stored(payload[w].swaps[i]))
      BY <1>1 DEF RowsOf, Stored
    <2>5. \A k \in DOMAIN payload[w].swaps :
             payload[w].swaps[k] = payload[w].swaps[i] =>
                 seen'[w].swaps[k] = seen'[w].swaps[i]
      BY <1>2
    <2>6. QED
      BY <2>1, <2>2, <2>3, <2>4, <2>5
  <1>4. QED
    BY <1>1, <1>3 DEF CountsSeen

LEMMA NextCounts ==
    ASSUME IntegrityInvariant, RowsAreStored, NEW w \in Writers, CountsSeen(w),
           Start(w) \/ Statement(w) \/ Abort(w)
    PROVE  CountsSeen(w)'
  <1>1. /\ TypeOK /\ TypeOK' /\ KeysGrow /\ RowsGrow
        /\ pc \in [Writers -> Statements] /\ seen \in [Writers -> Reads]
    BY NextGrows, NextTypeOK DEF IntegrityInvariant, Next, TypeOK
  <1>2. CASE SelectSwaps(w)
    BY <1>1, <1>2, SelectSwapsCounts
  <1>3. CASE SelectMaxSwapId(w)
    <2>1. pc[w] \in Counted /\ payload' = payload
      BY <1>3 DEF SelectMaxSwapId, Goto, Counted
    <2>2. seen'[w].swaps = seen[w].swaps
      BY <1>1, <1>3 DEF SelectMaxSwapId, Read, Reads
    <2>3. QED
      BY <1>1, <2>1, <2>2, CountsKeep
  <1>4. CASE pc'[w] \notin Counted
    BY <1>4 DEF CountsSeen
  <1>5. QED
    BY <1>1, <1>2, <1>3, <1>4 DEF Statement, Start, Abort, SelectDexes, SelectTransactions,
       SelectTraders, SelectTokens, UpdateLabel, UpdateStable, SelectPools,
       UpdateSnapshot, InsertDexes, InsertTraders, InsertTokens, InsertPools,
       InsertTransactions, ReturnWithoutSwaps, InsertSwaps, Goto, Counted

LEMMA InitCompleteness == Init => CompletenessInvariant
  BY DEF Init, CompletenessInvariant, RowsAreStored, Range, CountsSeen, Counted,
         CommittedIsComplete

(* A step that leaves the swaps, the locals and the returned calls alone   *)
(* leaves them complete.                                                   *)
LEMMA RestCompleteness ==
    ASSUME TypeOK, TypeOK', CompletenessInvariant, KeysGrow,
           swaps' = swaps, UNCHANGED locals, committed' = committed
    PROVE  CompletenessInvariant'
  <1>1. RowsGrow
    BY SameRows
  <1>2. RowsAreStored'
    BY DEF CompletenessInvariant, RowsAreStored
  <1>3. \A w \in Writers : CountsSeen(w)'
    BY <1>1, CountsKeep DEF CompletenessInvariant, locals
  <1>4. CommittedIsComplete'
    <2>1. \A p \in committed : Complete(p)
      BY CommittedComplete DEF CompletenessInvariant
    <2>2. \A p \in committed' : Complete(p)'
      BY <1>1, <2>1, CompleteStays DEF TypeOK
    <2>3. (CommittedIsComplete <=> \A p \in committed : Complete(p))'
      BY CommittedComplete, PTL
    <2>4. QED
      BY <2>2, <2>3
  <1>5. QED
    BY <1>2, <1>3, <1>4 DEF CompletenessInvariant

LEMMA NextCompleteness ==
    ASSUME IntegrityInvariant, CompletenessInvariant, [Next]_vars
    PROVE  CompletenessInvariant'
  <1>1. TypeOK /\ TypeOK'
    BY NextTypeOK DEF IntegrityInvariant
  <1>2. ASSUME NEW w \in Writers, Start(w) \/ Statement(w) \/ Abort(w)
        PROVE  CompletenessInvariant'
    <2>1. KeysGrow /\ RowsGrow
      BY <1>2, NextGrows
    <2>2. RowsAreStored'
      <3>1. SwapsStay(w) \/ InsertSwaps(w)
        BY <1>2 DEF Statement, Quiet, SwapsStay
      <3>2. CASE SwapsStay(w)
        BY <3>2, OnlyInsertSwaps DEF CompletenessInvariant, RowsAreStored
      <3>3. CASE InsertSwaps(w)
        BY <1>1, <3>3, NextStored DEF CompletenessInvariant
      <3>4. QED
        BY <3>1, <3>2, <3>3
    <2>3. CommittedIsComplete'
      BY <1>2, NextCommitted DEF CompletenessInvariant
    <2>4. CountsSeen(w)'
      BY <1>2, NextCounts DEF CompletenessInvariant
    <2>5. ASSUME NEW v \in Writers, v # w PROVE CountsSeen(v)'
      <3>1. pc'[v] = pc[v] /\ payload'[v] = payload[v] /\ seen'[v] = seen[v]
        BY <1>1, <1>2, <2>5, OnlyOwnLocals
      <3>2. QED
        BY <1>1, <2>1, <3>1, CountsKeep DEF CompletenessInvariant
    <2>6. QED
      BY <2>2, <2>3, <2>4, <2>5 DEF CompletenessInvariant
  <1>3. CASE ApplyTokenMutation \/ ApplyPoolMutation
    <2>1. KeysGrow
      BY <1>1, <1>3, MutationFacts, FactsStay
    <2>2. swaps' = swaps /\ UNCHANGED locals /\ committed' = committed
      BY <1>3 DEF ApplyTokenMutation, ApplyPoolMutation
    <2>3. QED
      BY <1>1, <2>1, <2>2, RestCompleteness
  <1>4. CASE UNCHANGED vars
    <2>1. UNCHANGED Facts /\ UNCHANGED locals /\ swaps' = swaps /\ committed' = committed
      BY <1>4 DEF vars, tables, locals, Facts, DexKeys, TraderKeys, TokenKeys,
         StoredPools, StoredTransactions, StoredSwaps
    <2>2. QED
      BY <1>1, <2>1, FactsStay, RestCompleteness
  <1>5. QED
    BY <1>2, <1>3, <1>4 DEF Next

(* A call of persist_payload that returned left every row of its payload   *)
(* in the tables, each swap as often as the payload has it, whatever other *)
(* processes wrote meanwhile and wherever earlier calls stopped.           *)
THEOREM ReturnedIsComplete == Spec => []CommittedIsComplete
  <1>1. CompletenessInvariant => CommittedIsComplete
    BY DEF CompletenessInvariant
  <1>2. QED
    BY <1>1, InitIntegrity, NextIntegrity, InitCompleteness, NextCompleteness, PTL DEF Spec
-----------------------------------------------------------------------------
(* One process persists at a time.  What it read of the keys, the counts   *)
(* and the greatest id is then still true when it inserts.                 *)
OneWriter == \A v, w \in Writers : v = w

BeforeTransactions ==
    {"selectTraders", "insertTraders", "selectTokens", "insertTokens",
     "updateLabels", "selectPools", "insertPools", "updatePools"}

ReadIsFresh(w) ==
    /\ pc[w] = "insertDexes" => payload[w].dexes \cap DexKeys \subseteq seen[w].dexes
    /\ pc[w] \in BeforeTransactions =>
         Hashes(payload[w].transactions) \cap TransactionKeys \subseteq seen[w].txs
    /\ pc[w] = "insertTraders" =>
         {t.trader : t \in NewTransactions(w)} \cap TraderKeys \subseteq seen[w].traders
    /\ pc[w] = "insertTokens" =>
         Addresses(payload[w].tokens) \cap TokenKeys \subseteq seen[w].tokens
    /\ pc[w] = "insertPools" =>
         Addresses(payload[w].pools) \cap PoolKeys \subseteq seen[w].pools
    /\ pc[w] \in Counted =>
         \A i \in DOMAIN payload[w].swaps :
             RowsOf(payload[w].swaps[i]) <= seen[w].swaps[i]
    /\ pc[w] = "insertSwaps" =>
         \A row \in Range(swaps) : row.id <= seen[w].maxId

(* The statements that read change no key and no swap, and what they read  *)
(* is what there is.                                                       *)
Still ==
    /\ UNCHANGED Facts
    /\ swaps' = swaps

LEMMA StillKeys ==
    ASSUME Still
    PROVE  /\ DexKeys' = DexKeys /\ TraderKeys' = TraderKeys /\ TokenKeys' = TokenKeys
           /\ PoolKeys' = PoolKeys /\ TransactionKeys' = TransactionKeys
           /\ swaps' = swaps
  BY KeysOfFacts, NextKeysOfFacts DEF Still, Facts

LEMMA RestFresh ==
    ASSUME Still, NEW w \in Writers, ReadIsFresh(w),
           pc'[w] = pc[w], payload'[w] = payload[w], seen'[w] = seen[w]
    PROVE  ReadIsFresh(w)'
  <1>1. NewTransactions(w)' = NewTransactions(w)
    BY DEF NewTransactions
  <1>2. \A i \in DOMAIN payload[w].swaps :
            RowsOf(payload[w].swaps[i])' = RowsOf(payload[w].swaps[i])
    BY DEF RowsOf, Still
  <1>3. QED
    BY <1>1, <1>2, StillKeys DEF ReadIsFresh

(* Past its SELECT, what a writer read of the transactions stays true.     *)
LEMMA TransactionsFresh ==
    ASSUME NEW w \in Writers, ReadIsFresh(w), TransactionKeys' = TransactionKeys,
           pc'[w] \in BeforeTransactions, pc[w] \in BeforeTransactions,
           payload'[w] = payload[w], seen'[w].txs = seen[w].txs
    PROVE  /\ Hashes(payload'[w].transactions) \cap TransactionKeys' \subseteq seen'[w].txs
           /\ NewTransactions(w)' = NewTransactions(w)
  BY DEF ReadIsFresh, NewTransactions

LEMMA SelectsFresh ==
    ASSUME IntegrityInvariant, NEW w \in Writers, ReadIsFresh(w),
           \/ SelectDexes(w) \/ SelectTransactions(w) \/ SelectTraders(w)
           \/ SelectTokens(w) \/ SelectPools(w)
    PROVE  ReadIsFresh(w)'
  <1> USE DEF BeforeTransactions, Counted
  <1>1. /\ TypeOK /\ pc \in [Writers -> Statements] /\ seen \in [Writers -> Reads]
        /\ seen[w] \in Reads
    BY DEF IntegrityInvariant, TypeOK
  <1>2. payload' = payload /\ UNCHANGED tables
    BY DEF SelectDexes, SelectTransactions, SelectTraders, SelectTokens, SelectPools
  <1>3. DexKeys' = DexKeys /\ TraderKeys' = TraderKeys /\ TokenKeys' = TokenKeys
        /\ PoolKeys' = PoolKeys /\ TransactionKeys' = TransactionKeys
    BY <1>2 DEF tables, DexKeys, TraderKeys, TokenKeys, PoolKeys, TransactionKeys
  <1>4. CASE SelectDexes(w)
    <2>1. pc'[w] = "insertDexes"
      BY <1>1, <1>4 DEF SelectDexes, Goto
    <2>2. seen'[w].dexes = payload[w].dexes \cap DexKeys
      BY <1>1, <1>4 DEF SelectDexes, Read, Reads
    <2>3. QED
      BY <1>2, <1>3, <2>1, <2>2 DEF ReadIsFresh
  <1>5. CASE SelectTransactions(w)
    <2>1. pc'[w] = "selectTraders"
      BY <1>1, <1>5 DEF SelectTransactions, Goto
    <2>2. seen'[w].txs = Hashes(payload[w].transactions) \cap TransactionKeys
      BY <1>1, <1>5 DEF SelectTransactions, Read, Reads
    <2>3. QED
      BY <1>2, <1>3, <2>1, <2>2 DEF ReadIsFresh
  <1>6. CASE SelectTraders(w)
    <2>1. pc[w] = "selectTraders" /\ pc'[w] = "insertTraders"
      BY <1>1, <1>6 DEF SelectTraders, Goto
    <2>2. /\ seen'[w].traders = {t.trader : t \in NewTransactions(w)} \cap TraderKeys
          /\ seen'[w].txs = seen[w].txs
      BY <1>1, <1>6 DEF SelectTraders, Read, Reads
    <2>3. /\ Hashes(payload'[w].transactions) \cap TransactionKeys' \subseteq seen'[w].txs
          /\ NewTransactions(w)' = NewTransactions(w)
      BY <1>2, <1>3, <2>1, <2>2, TransactionsFresh
    <2>4. QED
      BY <1>2, <1>3, <2>1, <2>2, <2>3 DEF ReadIsFresh
  <1>7. CASE SelectTokens(w)
    <2>1. pc[w] = "selectTokens" /\ pc'[w] = "insertTokens"
      BY <1>1, <1>7 DEF SelectTokens, Goto
    <2>2. /\ seen'[w].tokens = Addresses(payload[w].tokens) \cap TokenKeys
          /\ seen'[w].txs = seen[w].txs
      <3> DEFINE found == Addresses(payload[w].tokens) \cap TokenKeys
      <3>1. PICK unnamed \in SUBSET found :
                Read(w, [seen[w] EXCEPT !.tokens = found, !.unnamed = unnamed])
        BY <1>7 DEF SelectTokens
      <3> HIDE DEF found
      <3>2. seen'[w] = [seen[w] EXCEPT !.tokens = found, !.unnamed = unnamed]
        BY <1>1, <3>1 DEF Read
      <3>3. seen'[w].tokens = found /\ seen'[w].txs = seen[w].txs
        BY <1>1, <3>2 DEF Reads
      <3>4. QED
        BY <3>3 DEF found
    <2>3. Hashes(payload'[w].transactions) \cap TransactionKeys' \subseteq seen'[w].txs
      BY <1>2, <1>3, <2>1, <2>2, TransactionsFresh
    <2>4. QED
      BY <1>2, <1>3, <2>1, <2>2, <2>3 DEF ReadIsFresh
  <1>8. CASE SelectPools(w)
    <2>1. pc[w] = "selectPools" /\ pc'[w] = "insertPools"
      BY <1>1, <1>8 DEF SelectPools, Goto
    <2>2. /\ seen'[w].pools = Addresses(payload[w].pools) \cap PoolKeys
          /\ seen'[w].txs = seen[w].txs
      <3> DEFINE found == Addresses(payload[w].pools) \cap PoolKeys
      <3>1. PICK snapshots :
                Read(w, [seen[w] EXCEPT !.pools = found, !.snapshots = snapshots])
        BY <1>8 DEF SelectPools
      <3> HIDE DEF found
      <3>2. seen'[w] = [seen[w] EXCEPT !.pools = found, !.snapshots = snapshots]
        BY <1>1, <3>1 DEF Read
      <3>3. seen'[w].pools = found /\ seen'[w].txs = seen[w].txs
        BY <1>1, <3>2 DEF Reads
      <3>4. QED
        BY <3>3 DEF found
    <2>3. Hashes(payload'[w].transactions) \cap TransactionKeys' \subseteq seen'[w].txs
      BY <1>2, <1>3, <2>1, <2>2, TransactionsFresh
    <2>4. QED
      BY <1>2, <1>3, <2>1, <2>2, <2>3 DEF ReadIsFresh
  <1>9. QED
    BY <1>4, <1>5, <1>6, <1>7, <1>8

LEMMA CountsFresh ==
    ASSUME IntegrityInvariant, NEW w \in Writers, ReadIsFresh(w),
           SelectSwaps(w) \/ SelectMaxSwapId(w)
    PROVE  ReadIsFresh(w)'
  <1> USE DEF BeforeTransactions, Counted
  <1>1. /\ TypeOK /\ pc \in [Writers -> Statements] /\ seen \in [Writers -> Reads]
        /\ seen[w] \in Reads
    BY DEF IntegrityInvariant, TypeOK
  <1>2. payload' = payload /\ swaps' = swaps
    BY DEF SelectSwaps, SelectMaxSwapId, tables
  <1>3. \A i \in DOMAIN payload[w].swaps :
            /\ RowsOf(payload[w].swaps[i])' = RowsOf(payload[w].swaps[i])
            /\ RowsOf(payload[w].swaps[i]) \in Nat
    BY <1>1, <1>2, RowsOfType DEF RowsOf
  <1>4. CASE SelectSwaps(w)
    <2>1. pc'[w] = "selectMaxSwapId"
      BY <1>1, <1>4 DEF SelectSwaps, Goto
    <2>2. seen'[w].swaps = [i \in DOMAIN payload[w].swaps |-> RowsOf(payload[w].swaps[i])]
      BY <1>1, <1>4 DEF SelectSwaps, Read, Reads
    <2>3. \A i \in DOMAIN payload[w].swaps :
              RowsOf(payload[w].swaps[i])' <= seen'[w].swaps[i]
      BY <1>3, <2>2
    <2>4. QED
      BY <1>2, <2>1, <2>3 DEF ReadIsFresh
  <1>5. CASE SelectMaxSwapId(w)
    <2>1. pc[w] = "selectMaxSwapId" /\ pc'[w] = "insertSwaps"
      BY <1>1, <1>5 DEF SelectMaxSwapId, Goto
    <2>2. seen'[w].maxId = MaxSwapId /\ seen'[w].swaps = seen[w].swaps
      BY <1>1, <1>5 DEF SelectMaxSwapId, Read, Reads
    <2>3. \A row \in Range(swaps) : row.id <= MaxSwapId
      BY <1>1, MaxSwapIdType
    <2>4. \A i \in DOMAIN payload[w].swaps :
              RowsOf(payload[w].swaps[i])' <= seen'[w].swaps[i]
      BY <1>3, <2>1, <2>2 DEF ReadIsFresh
    <2>5. QED
      BY <1>2, <2>1, <2>2, <2>3, <2>4 DEF ReadIsFresh
  <1>6. QED
    BY <1>4, <1>5

(* After an INSERT or an UPDATE only what was read of the transactions is  *)
(* still needed; outside a call nothing is.                                *)
LEMMA WritesFresh ==
    ASSUME IntegrityInvariant, NEW w \in Writers, ReadIsFresh(w),
           \/ Start(w) \/ Abort(w) \/ InsertDexes(w) \/ InsertTraders(w) \/ InsertTokens(w)
           \/ UpdateLabel(w) \/ UpdateStable(w) \/ InsertPools(w) \/ UpdateSnapshot(w)
           \/ InsertTransactions(w) \/ ReturnWithoutSwaps(w) \/ InsertSwaps(w)
    PROVE  ReadIsFresh(w)'
  <1> USE DEF BeforeTransactions, Counted
  <1>1. /\ TypeOK /\ pc \in [Writers -> Statements]
    BY DEF IntegrityInvariant, TypeOK
  <1>2. CASE \/ Start(w) \/ Abort(w) \/ InsertDexes(w) \/ InsertTransactions(w)
             \/ ReturnWithoutSwaps(w) \/ InsertSwaps(w)
    <2>1. pc'[w] \in {"idle", "selectDexes", "selectTransactions", "selectSwaps"}
      BY <1>1, <1>2 DEF Start, Abort, InsertDexes, InsertTransactions,
         ReturnWithoutSwaps, InsertSwaps, Goto
    <2>2. QED
      BY <2>1 DEF ReadIsFresh
  <1>3. CASE \/ InsertTraders(w) \/ InsertTokens(w) \/ UpdateLabel(w) \/ UpdateStable(w)
             \/ InsertPools(w) \/ UpdateSnapshot(w)
    <2>1. /\ pc[w] \in BeforeTransactions
          /\ pc'[w] \in {"selectTokens", "updateLabels", "selectPools", "updatePools"}
      BY <1>1, <1>3 DEF InsertTraders, InsertTokens, UpdateLabel, UpdateStable,
         InsertPools, UpdateSnapshot, Goto
    <2>2. payload' = payload /\ seen' = seen /\ transactions' = transactions
      BY <1>3 DEF InsertTraders, InsertTokens, UpdateLabel, UpdateStable,
         InsertPools, UpdateSnapshot
    <2>3. TransactionKeys' = TransactionKeys
      BY <2>2 DEF TransactionKeys
    <2>4. Hashes(payload'[w].transactions) \cap TransactionKeys' \subseteq seen'[w].txs
      BY <2>1, <2>2, <2>3, TransactionsFresh
    <2>5. QED
      BY <2>1, <2>4 DEF ReadIsFresh
  <1>4. QED
    BY <1>2, <1>3

LEMMA NextFresh ==
    ASSUME IntegrityInvariant, NEW w \in Writers, ReadIsFresh(w),
           Start(w) \/ Statement(w) \/ Abort(w)
    PROVE  ReadIsFresh(w)'
  BY SelectsFresh, CountsFresh, WritesFresh DEF Statement
-----------------------------------------------------------------------------
(* The statements that insert nothing leave every table its length, ...    *)
SameLengths ==
    /\ Len(tokens') = Len(tokens) /\ Len(pools') = Len(pools)
    /\ UNCHANGED <<dexes, traders, transactions, swaps>>

LEMMA ApplyLengths ==
    /\ \A table \in Seq(TokenWrite), m \in TokenMutation :
         Len(ApplyToTokens(table, m)) = Len(table)
    /\ \A table \in Seq(PoolWrite), m \in PoolMutation :
         Len(ApplyToPools(table, m)) = Len(table)
  <1>1. ASSUME NEW table \in Seq(TokenWrite), NEW m \in TokenMutation
        PROVE  Len(ApplyToTokens(table, m)) = Len(table)
    <2> DEFINE new == ApplyToTokens(table, m)
    <2>1. new = [i \in DOMAIN table |-> new[i]]
      BY DEF ApplyToTokens
    <2>2. \A i \in DOMAIN table : new[i] \in {new[k] : k \in DOMAIN table}
      OBVIOUS
    <2> HIDE DEF new
    <2>3. Len(new) = Len(table)
      BY <2>1, <2>2, PointwiseSeq
    <2>4. QED
      BY <2>3 DEF new
  <1>2. ASSUME NEW table \in Seq(PoolWrite), NEW m \in PoolMutation
        PROVE  Len(ApplyToPools(table, m)) = Len(table)
    <2> DEFINE new == ApplyToPools(table, m)
    <2>1. new = [i \in DOMAIN table |-> new[i]]
      BY DEF ApplyToPools
    <2>2. \A i \in DOMAIN table : new[i] \in {new[k] : k \in DOMAIN table}
      OBVIOUS
    <2> HIDE DEF new
    <2>3. Len(new) = Len(table)
      BY <2>1, <2>2, PointwiseSeq
    <2>4. QED
      BY <2>3 DEF new
  <1>3. QED
    BY <1>1, <1>2

LEMMA MutateLengths ==
    ASSUME TypeOK
    PROVE  /\ \A columns \in SUBSET {"label", "is_stable"}, addresses \in SUBSET Tokens :
                MutateTokens(columns, addresses) => Len(tokens') = Len(tokens)
           /\ \A address \in Pools, snapshot \in Nat, read \in Nat \cup {NoSnapshot} :
                MutatePools(address, snapshot, read) => Len(pools') = Len(pools)
  <1>1. tokens \in Seq(TokenWrite) /\ pools \in Seq(PoolWrite)
        /\ Len(tokens) \in Nat /\ Len(pools) \in Nat
    BY LenProperties DEF TypeOK
  <1>2. ASSUME NEW columns \in SUBSET {"label", "is_stable"}, NEW addresses \in SUBSET Tokens,
               MutateTokens(columns, addresses)
        PROVE  Len(tokens') = Len(tokens)
    <2> DEFINE m == [columns |-> columns, addresses |-> addresses, upto |-> Len(tokens)]
    <2>1. m \in TokenMutation
      BY <1>1 DEF TokenMutation
    <2>2. tokens' = ApplyToTokens(tokens, m) \/ tokens' = tokens
      BY <1>2 DEF MutateTokens
    <2> HIDE DEF m
    <2>3. QED
      BY <1>1, <2>1, <2>2, ApplyLengths
  <1>3. ASSUME NEW address \in Pools, NEW snapshot \in Nat, NEW read \in Nat \cup {NoSnapshot},
               MutatePools(address, snapshot, read)
        PROVE  Len(pools') = Len(pools)
    <2> DEFINE m == [address |-> address, snapshot |-> snapshot, read |-> read,
                     upto |-> Len(pools)]
    <2>1. m \in PoolMutation
      BY <1>1 DEF PoolMutation
    <2>2. pools' = ApplyToPools(pools, m) \/ pools' = pools
      BY <1>3 DEF MutatePools
    <2> HIDE DEF m
    <2>3. QED
      BY <1>1, <2>1, <2>2, ApplyLengths
  <1>4. QED
    BY <1>2, <1>3

LEMMA QuietLengths ==
    ASSUME TypeOK, NEW w \in Writers, Quiet(w)
    PROVE  SameLengths
  <1> USE DEF SameLengths
  <1>1. CASE UNCHANGED tables
    BY <1>1 DEF tables
  <1>2. CASE UpdateLabel(w)
    <2>1. PICK a \in todo[w].labels : MutateTokens({"label"}, {a})
      BY <1>2 DEF UpdateLabel
    <2>2. todo[w].labels \subseteq Tokens
      BY DEF TypeOK, Updates
    <2>3. Len(tokens') = Len(tokens)
      BY <2>1, <2>2, MutateLengths
    <2>4. QED
      BY <1>2, <2>3 DEF UpdateLabel
  <1>3. CASE UpdateStable(w)
    <2>1. StableTokens(w) \in SUBSET Tokens
      BY PayloadProperties DEF StableTokens, TradePayload, TokenWrite
    <2>2. Len(tokens') = Len(tokens)
      BY <1>3, <2>1, MutateLengths DEF UpdateStable
    <2>3. QED
      BY <1>3, <2>2 DEF UpdateStable
  <1>4. CASE UpdateSnapshot(w)
    <2>1. PICK p \in todo[w].snapshots :
              MutatePools(p.address, p.snapshot, seen[w].snapshots[p.address])
      BY <1>4 DEF UpdateSnapshot
    <2>2. /\ p.address \in Pools /\ p.snapshot \in Nat
          /\ seen[w].snapshots[p.address] \in Nat \cup {NoSnapshot}
      BY DEF TypeOK, Updates, Reads
    <2>3. Len(pools') = Len(pools)
      BY <2>1, <2>2, MutateLengths
    <2>4. QED
      BY <1>4, <2>3 DEF UpdateSnapshot
  <1>5. QED
    BY <1>1, <1>2, <1>3, <1>4
       DEF Quiet, Start, Abort, ReturnWithoutSwaps, SelectDexes,
           SelectTransactions, SelectTraders, SelectTokens, SelectPools,
           SelectSwaps, SelectMaxSwapId

LEMMA MutationLengths ==
    ASSUME TypeOK, ApplyTokenMutation \/ ApplyPoolMutation
    PROVE  SameLengths
  <1> USE DEF SameLengths
  <1>1. CASE ApplyTokenMutation
    <2>1. Head(tokenMutations) \in TokenMutation
      BY <1>1, HeadTailProperties DEF ApplyTokenMutation, TypeOK
    <2>2. Len(tokens') = Len(tokens)
      BY <1>1, <2>1, ApplyLengths DEF ApplyTokenMutation, TypeOK
    <2>3. QED
      BY <1>1, <2>2 DEF ApplyTokenMutation
  <1>2. CASE ApplyPoolMutation
    <2>1. Head(poolMutations) \in PoolMutation
      BY <1>2, HeadTailProperties DEF ApplyPoolMutation, TypeOK
    <2>2. Len(pools') = Len(pools)
      BY <1>2, <2>1, ApplyLengths DEF ApplyPoolMutation, TypeOK
    <2>3. QED
      BY <1>2, <2>2 DEF ApplyPoolMutation
  <1>3. QED
    BY <1>1, <1>2

(* ... and so keep every key on one row.                                   *)
LEMMA UniqueStays ==
    ASSUME PrimaryKeysUnique, SameLengths, UNCHANGED Facts
    PROVE  PrimaryKeysUnique'
  <1>1. /\ DexKeys' = DexKeys /\ TraderKeys' = TraderKeys /\ TokenKeys' = TokenKeys
        /\ PoolKeys' = PoolKeys /\ TransactionKeys' = TransactionKeys
    BY KeysOfFacts, NextKeysOfFacts DEF Facts
  <1>2. SwapIdsUnique'
    BY DEF SameLengths, PrimaryKeysUnique, SwapIdsUnique
  <1>3. QED
    BY <1>1, <1>2 DEF PrimaryKeysUnique, SameLengths

(* An INSERT of what was read as missing, and is.                          *)
LEMMA InsertDexesUnique ==
    ASSUME TypeOK, PrimaryKeysUnique, NEW w \in Writers, ReadIsFresh(w), InsertDexes(w)
    PROVE  Len(dexes') = Cardinality(DexKeys')
  <1> DEFINE rows == payload[w].dexes \ seen[w].dexes
  <1>1. dexes \in Seq(Dexes) /\ dexes' = dexes \o SetToSeq(rows)
    BY DEF TypeOK, InsertDexes, Insert
  <1>2. rows \in SUBSET Dexes /\ IsFiniteSet(rows)
    BY NewRowsFinite, PayloadProperties DEF TradePayload
  <1>3. rows \cap Range(dexes) = {}
    BY DEF ReadIsFresh, InsertDexes, Goto, DexKeys
  <1>4. Len(dexes) = Cardinality(Range(dexes))
    BY DEF PrimaryKeysUnique, DexKeys
  <1> HIDE DEF rows
  <1>5. QED
    BY <1>1, <1>2, <1>3, <1>4, InsertUniqueRows DEF DexKeys

LEMMA InsertTradersUnique ==
    ASSUME TypeOK, PrimaryKeysUnique, NEW w \in Writers, ReadIsFresh(w), InsertTraders(w)
    PROVE  Len(traders') = Cardinality(TraderKeys')
  <1>1. traders \in Seq(Traders) /\ traders' = traders \o SetToSeq(NewTraders(w))
    BY DEF TypeOK, InsertTraders, Insert
  <1>2. NewTraders(w) \in SUBSET Traders /\ IsFiniteSet(NewTraders(w))
    BY NewRowsFinite
  <1>3. NewTraders(w) \cap Range(traders) = {}
    BY DEF ReadIsFresh, InsertTraders, Goto, TraderKeys, NewTraders
  <1>4. Len(traders) = Cardinality(Range(traders))
    BY DEF PrimaryKeysUnique, TraderKeys
  <1>5. QED
    BY <1>1, <1>2, <1>3, <1>4, InsertUniqueRows DEF TraderKeys

LEMMA InsertTokensUnique ==
    ASSUME TypeOK, PrimaryKeysUnique, NEW w \in Writers, ReadIsFresh(w), InsertTokens(w)
    PROVE  Len(tokens') = Cardinality(TokenKeys')
  <1> DEFINE key == [row \in TokenWrite |-> row.address]
             rows == NewTokens(w)
             new == tokens \o SetToSeq(rows)
  <1>1. tokens \in Seq(TokenWrite) /\ tokens' = new
    BY DEF TypeOK, InsertTokens, Insert
  <1>2. rows \in SUBSET TokenWrite /\ IsFiniteSet(rows)
    BY NewRowsFinite
  <1>3. \A table \in Seq(TokenWrite) : KeysOf(table, key) = Addresses(Range(table))
    <2>1. SUFFICES ASSUME NEW table \in Seq(TokenWrite)
                   PROVE  KeysOf(table, key) = Addresses(Range(table))
      OBVIOUS
    <2>2. \A row \in Range(table) : row \in TokenWrite
      BY LenProperties DEF Range
    <2>3. QED
      BY <2>2 DEF KeysOf, Addresses
  <1>4. key \in [TokenWrite -> Tokens]
    BY DEF TokenWrite
  <1>5. \A x, y \in rows : key[x] = key[y] => x = y
    BY <1>2, PayloadProperties DEF NewTokens, Built
  <1>6. \A x \in rows : key[x] \notin KeysOf(tokens, key)
    <2>1. \A x \in rows : x.address \notin TokenKeys
      BY DEF ReadIsFresh, InsertTokens, Goto, NewTokens, Addresses
    <2>2. KeysOf(tokens, key) = TokenKeys
      BY <1>1, <1>3 DEF TokenKeys
    <2>3. QED
      BY <1>2, <2>1, <2>2
  <1>7. NewKeys(rows, tokens, key)
    BY <1>5, <1>6 DEF NewKeys
  <1>8. Len(tokens) = Cardinality(KeysOf(tokens, key))
    BY <1>1, <1>3 DEF PrimaryKeysUnique, TokenKeys
  <1>9. new \in Seq(TokenWrite)
    BY <1>1, <1>2, InsertRows
  <1>10. Len(new) = Cardinality(KeysOf(new, key))
    <2>1. tokens \in Seq(TokenWrite)
      BY <1>1
    <2> HIDE DEF key, rows, new
    <2>2. Len(tokens \o SetToSeq(rows)) = Cardinality(KeysOf(tokens \o SetToSeq(rows), key))
      BY <1>2, <1>4, <1>7, <1>8, <2>1, InsertUniqueKeys, ZenonT(60)
    <2>3. QED
      BY <2>2 DEF new
  <1>11. KeysOf(new, key) = Addresses(Range(new))
    BY <1>3, <1>9
  <1>12. QED
    BY <1>1, <1>10, <1>11 DEF TokenKeys

LEMMA InsertPoolsUnique ==
    ASSUME TypeOK, PrimaryKeysUnique, NEW w \in Writers, ReadIsFresh(w), InsertPools(w)
    PROVE  Len(pools') = Cardinality(PoolKeys')
  <1> DEFINE key == [row \in PoolWrite |-> row.address]
             rows == NewPools(w)
             new == pools \o SetToSeq(rows)
  <1>1. pools \in Seq(PoolWrite) /\ pools' = new
    BY DEF TypeOK, InsertPools, Insert
  <1>2. rows \in SUBSET PoolWrite /\ IsFiniteSet(rows)
    BY NewRowsFinite
  <1>3. \A table \in Seq(PoolWrite) : KeysOf(table, key) = Addresses(Range(table))
    <2>1. SUFFICES ASSUME NEW table \in Seq(PoolWrite)
                   PROVE  KeysOf(table, key) = Addresses(Range(table))
      OBVIOUS
    <2>2. \A row \in Range(table) : row \in PoolWrite
      BY LenProperties DEF Range
    <2>3. QED
      BY <2>2 DEF KeysOf, Addresses
  <1>4. key \in [PoolWrite -> Pools]
    BY DEF PoolWrite
  <1>5. \A x, y \in rows : key[x] = key[y] => x = y
    BY <1>2, PayloadProperties DEF NewPools, Built
  <1>6. \A x \in rows : key[x] \notin KeysOf(pools, key)
    <2>1. \A x \in rows : x.address \notin PoolKeys
      BY DEF ReadIsFresh, InsertPools, Goto, NewPools, Addresses
    <2>2. KeysOf(pools, key) = PoolKeys
      BY <1>1, <1>3 DEF PoolKeys
    <2>3. QED
      BY <1>2, <2>1, <2>2
  <1>7. NewKeys(rows, pools, key)
    BY <1>5, <1>6 DEF NewKeys
  <1>8. Len(pools) = Cardinality(KeysOf(pools, key))
    BY <1>1, <1>3 DEF PrimaryKeysUnique, PoolKeys
  <1>9. new \in Seq(PoolWrite)
    BY <1>1, <1>2, InsertRows
  <1>10. Len(new) = Cardinality(KeysOf(new, key))
    <2>1. pools \in Seq(PoolWrite)
      BY <1>1
    <2> HIDE DEF key, rows, new
    <2>2. Len(pools \o SetToSeq(rows)) = Cardinality(KeysOf(pools \o SetToSeq(rows), key))
      BY <1>2, <1>4, <1>7, <1>8, <2>1, InsertUniqueKeys, ZenonT(60)
    <2>3. QED
      BY <2>2 DEF new
  <1>11. KeysOf(new, key) = Addresses(Range(new))
    BY <1>3, <1>9
  <1>12. QED
    BY <1>1, <1>10, <1>11 DEF PoolKeys

LEMMA InsertTransactionsUnique ==
    ASSUME TypeOK, PrimaryKeysUnique, NEW w \in Writers, ReadIsFresh(w), InsertTransactions(w)
    PROVE  Len(transactions') = Cardinality(TransactionKeys')
  <1> DEFINE key == [row \in TransactionWrite |-> row.hash]
             rows == NewTransactions(w)
             new == transactions \o SetToSeq(rows)
  <1>1. transactions \in Seq(TransactionWrite) /\ transactions' = new
    BY DEF TypeOK, InsertTransactions, Insert
  <1>2. rows \in SUBSET TransactionWrite /\ IsFiniteSet(rows)
    BY NewRowsFinite
  <1>3. \A table \in Seq(TransactionWrite) : KeysOf(table, key) = Hashes(Range(table))
    <2>1. SUFFICES ASSUME NEW table \in Seq(TransactionWrite)
                   PROVE  KeysOf(table, key) = Hashes(Range(table))
      OBVIOUS
    <2>2. \A row \in Range(table) : row \in TransactionWrite
      BY LenProperties DEF Range
    <2>3. QED
      BY <2>2 DEF KeysOf, Hashes
  <1>4. key \in [TransactionWrite -> Txs]
    BY DEF TransactionWrite
  <1>5. \A x, y \in rows : key[x] = key[y] => x = y
    BY <1>2, PayloadProperties DEF NewTransactions, Built
  <1>6. \A x \in rows : key[x] \notin KeysOf(transactions, key)
    <2>1. \A x \in rows : x.hash \notin TransactionKeys
      BY DEF ReadIsFresh, InsertTransactions, Goto, NewTransactions, Hashes,
             BeforeTransactions
    <2>2. KeysOf(transactions, key) = TransactionKeys
      BY <1>1, <1>3 DEF TransactionKeys
    <2>3. QED
      BY <1>2, <2>1, <2>2
  <1>7. NewKeys(rows, transactions, key)
    BY <1>5, <1>6 DEF NewKeys
  <1>8. Len(transactions) = Cardinality(KeysOf(transactions, key))
    BY <1>1, <1>3 DEF PrimaryKeysUnique, TransactionKeys
  <1>9. new \in Seq(TransactionWrite)
    BY <1>1, <1>2, InsertRows
  <1>10. Len(new) = Cardinality(KeysOf(new, key))
    <2>1. transactions \in Seq(TransactionWrite)
      BY <1>1
    <2> HIDE DEF key, rows, new
    <2>2. Len(transactions \o SetToSeq(rows)) = Cardinality(KeysOf(transactions \o SetToSeq(rows), key))
      BY <1>2, <1>4, <1>7, <1>8, <2>1, InsertUniqueKeys, ZenonT(60)
    <2>3. QED
      BY <2>2 DEF new
  <1>11. KeysOf(new, key) = Hashes(Range(new))
    BY <1>3, <1>9
  <1>12. QED
    BY <1>1, <1>10, <1>11 DEF TransactionKeys

(* The ids an INSERT of swaps hands out are above every id of the table,   *)
(* and differ.                                                             *)
LEMMA InsertSwapsIds ==
    ASSUME TypeOK, SwapIdsUnique, NEW w \in Writers, ReadIsFresh(w), InsertSwaps(w)
    PROVE  SwapIdsUnique'
  <1> DEFINE key == [row \in SwapRow |-> row.id]
             I == NewSwapIndices(w)
             rows == NewSwapRows(w)
             new == swaps \o SetToSeq(rows)
             row(i) == [id |-> seen[w].maxId + Cardinality({j \in I : j <= i}),
                        swap |-> Stored(payload[w].swaps[i])]
  <1>1. swaps \in Seq(SwapRow) /\ swaps' = new /\ seen[w].maxId \in Nat
    BY DEF TypeOK, InsertSwaps, Insert, Reads
  <1>2. rows \in SUBSET SwapRow /\ IsFiniteSet(rows)
    BY NewSwapRowsType
  <1>3. key \in [SwapRow -> Nat]
    BY DEF SwapRow
  <1>4. I \in SUBSET Nat /\ IsFiniteSet(I)
    <2>1. I \in SUBSET (1 .. Len(payload[w].swaps)) /\ IsFiniteSet(I)
          /\ Len(payload[w].swaps) \in Nat
      BY SwapsOfPayload
    <2>2. QED
      BY <2>1
  <1>5. /\ \A i, k \in I : Cardinality(Upto(I, i)) = Cardinality(Upto(I, k)) => i = k
        /\ \A i \in I : Cardinality(Upto(I, i)) \in 1 .. Cardinality(I)
        /\ Cardinality(I) \in Nat
    <2> HIDE DEF I
    <2>1. QED
      BY <1>4, RanksDiffer, FS_CardinalityType
  <1>6. rows = {row(i) : i \in I}
    BY DEF NewSwapRows
  <1>7. \A i : row(i).id = seen[w].maxId + Cardinality(Upto(I, i))
    BY DEF Upto
  <1> HIDE DEF I, row
  <1>8. \A x, y \in rows : x.id = y.id => x = y
    <2>1. SUFFICES ASSUME NEW i \in I, NEW k \in I, row(i).id = row(k).id
                   PROVE  i = k
      BY <1>6
    <2>2. seen[w].maxId + Cardinality(Upto(I, i)) = seen[w].maxId + Cardinality(Upto(I, k))
      BY <1>7, <2>1
    <2>3. Cardinality(Upto(I, i)) = Cardinality(Upto(I, k))
      BY <1>1, <1>5, <2>2
    <2>4. QED
      BY <1>5, <2>3
  <1>9. \A x \in rows : x.id > seen[w].maxId
    <2>1. SUFFICES ASSUME NEW i \in I PROVE row(i).id > seen[w].maxId
      BY <1>6
    <2>2. Cardinality(Upto(I, i)) \in Nat /\ Cardinality(Upto(I, i)) >= 1
      BY <1>5
    <2>3. QED
      BY <1>1, <1>7, <2>2
  <1>10. \A y \in Range(swaps) : y \in SwapRow /\ y.id \in Nat /\ y.id <= seen[w].maxId
    <2>1. \A y \in Range(swaps) : y \in SwapRow
      BY <1>1, LenProperties DEF Range
    <2>2. \A y \in Range(swaps) : y.id <= seen[w].maxId
      BY DEF ReadIsFresh, InsertSwaps, Goto
    <2>3. QED
      BY <2>1, <2>2 DEF SwapRow
  <1>11. \A x \in rows, y \in Range(swaps) : x.id # y.id
    <2>1. SUFFICES ASSUME NEW x \in rows, NEW y \in Range(swaps) PROVE x.id # y.id
      OBVIOUS
    <2>2. x.id \in Nat /\ y.id \in Nat /\ x.id > seen[w].maxId /\ y.id <= seen[w].maxId
      BY <1>2, <1>9, <1>10 DEF SwapRow
    <2>3. QED
      BY <1>1, <2>2
  <1>12. NewKeys(rows, swaps, key)
    <2>1. \A x, y \in rows : key[x] = key[y] => x = y
      BY <1>2, <1>8
    <2>2. KeysOf(swaps, key) = {y.id : y \in Range(swaps)}
      BY <1>10 DEF KeysOf
    <2>3. \A x \in rows : key[x] \notin KeysOf(swaps, key)
      BY <1>2, <1>11, <2>2
    <2>4. QED
      BY <2>1, <2>3 DEF NewKeys
  <1>13. \A table \in Seq(SwapRow) : DifferentKeys(table, key) <=>
             \A i, j \in DOMAIN table : table[i].id = table[j].id => i = j
    <2>1. SUFFICES ASSUME NEW table \in Seq(SwapRow)
                   PROVE  DifferentKeys(table, key) <=>
                            \A i, j \in DOMAIN table : table[i].id = table[j].id => i = j
      OBVIOUS
    <2>2. \A i \in DOMAIN table : table[i] \in SwapRow
      BY LenProperties
    <2>3. QED
      BY <2>2 DEF DifferentKeys
  <1>14. DifferentKeys(swaps, key)
    BY <1>1, <1>13 DEF SwapIdsUnique
  <1>15. new \in Seq(SwapRow)
    BY <1>1, <1>2, InsertRows
  <1>16. DifferentKeys(new, key)
    <2>1. swaps \in Seq(SwapRow)
      BY <1>1
    <2> HIDE DEF key, rows, new
    <2>2. DifferentKeys(swaps \o SetToSeq(rows), key)
      BY <1>2, <1>3, <1>12, <1>14, <2>1, InsertDifferentKeys
    <2>3. QED
      BY <2>2 DEF new
  <1>17. \A i, j \in DOMAIN new : new[i].id = new[j].id => i = j
    BY <1>13, <1>15, <1>16
  <1>18. QED
    BY <1>1, <1>17 DEF SwapIdsUnique

(* So every step of a process that persists alone keeps the keys unique.   *)
LEMMA NextUnique ==
    ASSUME TypeOK, PrimaryKeysUnique, NEW w \in Writers, ReadIsFresh(w),
           Start(w) \/ Statement(w) \/ Abort(w)
    PROVE  PrimaryKeysUnique'
  <1>1. CASE Quiet(w)
    BY <1>1, QuietFacts, QuietLengths, UniqueStays
  <1>2. CASE InsertDexes(w)
    <2>1. Len(dexes') = Cardinality(DexKeys')
      BY <1>2, InsertDexesUnique
    <2>2. QED
      BY <1>2, <2>1 DEF InsertDexes, PrimaryKeysUnique, SwapIdsUnique, TraderKeys,
         TokenKeys, PoolKeys, TransactionKeys
  <1>3. CASE InsertTraders(w)
    <2>1. Len(traders') = Cardinality(TraderKeys')
      BY <1>3, InsertTradersUnique
    <2>2. QED
      BY <1>3, <2>1 DEF InsertTraders, PrimaryKeysUnique, SwapIdsUnique, DexKeys,
         TokenKeys, PoolKeys, TransactionKeys
  <1>4. CASE InsertTokens(w)
    <2>1. Len(tokens') = Cardinality(TokenKeys')
      BY <1>4, InsertTokensUnique
    <2>2. QED
      BY <1>4, <2>1 DEF InsertTokens, PrimaryKeysUnique, SwapIdsUnique, DexKeys,
         TraderKeys, PoolKeys, TransactionKeys
  <1>5. CASE InsertPools(w)
    <2>1. Len(pools') = Cardinality(PoolKeys')
      BY <1>5, InsertPoolsUnique
    <2>2. QED
      BY <1>5, <2>1 DEF InsertPools, PrimaryKeysUnique, SwapIdsUnique, DexKeys,
         TraderKeys, TokenKeys, TransactionKeys
  <1>6. CASE InsertTransactions(w)
    <2>1. Len(transactions') = Cardinality(TransactionKeys')
      BY <1>6, InsertTransactionsUnique
    <2>2. QED
      BY <1>6, <2>1 DEF InsertTransactions, PrimaryKeysUnique, SwapIdsUnique, DexKeys,
         TraderKeys, TokenKeys, PoolKeys
  <1>7. CASE InsertSwaps(w)
    <2>1. SwapIdsUnique'
      BY <1>7, InsertSwapsIds DEF PrimaryKeysUnique
    <2>2. QED
      BY <1>7, <2>1 DEF InsertSwaps, PrimaryKeysUnique, DexKeys, TraderKeys, TokenKeys,
         PoolKeys, TransactionKeys
  <1>8. QED
    BY <1>1, <1>2, <1>3, <1>4, <1>5, <1>6, <1>7 DEF Statement, Quiet
-----------------------------------------------------------------------------
(* A payload that has a swap as often as the table, and one whose count,   *)
(* times a number of calls, is no less than the count of the table.        *)
InOnePayload(swap) ==
    \E p \in Payloads : RowsOf(swap) <= Cardinality(KeptAs(p, swap))
InCalls(n, swap) ==
    \E p \in Payloads : RowsOf(swap) <= n * Cardinality(KeptAs(p, swap))

OnceUnlessCut == \A row \in Range(swaps) : ~CutTo(row.swap) => InOnePayload(row.swap)

LEMMA NextOnceUnlessCut ==
    OnceUnlessCut' <=>
        \A row \in Range(swaps') : ~CutTo(row.swap) => InOnePayload(row.swap)'
  BY DEF OnceUnlessCut, CutTo, Stored

LEMMA SameDuplicates ==
    ASSUME OnceUnlessCut, swaps' = swaps
    PROVE  OnceUnlessCut'
  BY DEF OnceUnlessCut, InOnePayload, CutTo, KeptAs, Stored, RowsOf

(* A swap of a payload that is stored as one that none is cut to is that   *)
(* one.                                                                    *)
LEMMA UncutStored ==
    ASSUME NEW swap, ~CutTo(swap), NEW p \in Payloads, NEW j \in DOMAIN p.swaps,
           Stored(p.swaps[j]) = swap
    PROVE  p.swaps[j] = swap
  BY DEF CutTo

(* An INSERT by a process that persists alone fills up what is missing of  *)
(* the count of its payload, and no more.                                  *)
LEMMA InsertSwapsOnce ==
    ASSUME TypeOK, RowsAreStored, OnceUnlessCut, NEW w \in Writers, CountsSeen(w), ReadIsFresh(w),
           InsertSwaps(w)
    PROVE  OnceUnlessCut'
  <1>1. /\ pc[w] \in Counted /\ payload[w] \in Payloads
        /\ \A i \in DOMAIN payload[w].swaps :
             RowsOf(payload[w].swaps[i]) <= seen[w].swaps[i]
    BY DEF InsertSwaps, Goto, Counted, ReadIsFresh, TypeOK
  <1>2. Range(swaps') = Range(swaps) \cup NewSwapRows(w)
        /\ \A row \in Range(swaps) \cup NewSwapRows(w) : row \in SwapRow
    <2>1. swaps \in Seq(SwapRow) /\ swaps' = Insert(swaps, NewSwapRows(w))
      BY DEF InsertSwaps, TypeOK
    <2>2. NewSwapRows(w) \in SUBSET SwapRow /\ IsFiniteSet(NewSwapRows(w))
      BY NewSwapRowsType
    <2>3. Range(Insert(swaps, NewSwapRows(w))) = Range(swaps) \cup NewSwapRows(w)
      BY <2>1, <2>2, InsertProperties
    <2>4. \A row \in Range(swaps) : row \in SwapRow
      BY <2>1, LenProperties DEF Range
    <2>5. QED
      BY <2>1, <2>2, <2>3, <2>4
  <1>3. ASSUME NEW row \in Range(swaps) \cup NewSwapRows(w), NEW swap, swap = row.swap,
               ~CutTo(swap)
        PROVE  InOnePayload(swap)'
    <2> DEFINE list == payload[w].swaps
               stored == {i \in NewSwapIndices(w) : Stored(list[i]) = swap}
    <2>1. swap \in SwapWrite
      BY <1>2, <1>3 DEF SwapRow
    <2>2. \A i \in NewSwapIndices(w) : i \in DOMAIN list /\ list[i] \in SwapWrite
      BY SwapsOfPayload DEF NewSwapIndices
    <2>a. Stored(swap) = swap
      <3>1. CASE row \in Range(swaps)
        BY <1>3, <3>1 DEF RowsAreStored
      <3>2. CASE row \in NewSwapRows(w)
        <4> DEFINE id(i) == seen[w].maxId + Cardinality({j \in NewSwapIndices(w) : j <= i})
        <4>1. PICK i \in NewSwapIndices(w) :
                  row = [id |-> id(i), swap |-> Stored(list[i])]
          BY <3>2 DEF NewSwapRows
        <4>2. QED
          BY <1>3, <2>2, <4>1, StoredTwice
      <3>3. QED
        BY <3>1, <3>2
    <2>b. \A q \in Payloads : KeptAs(q, swap) = {j \in DOMAIN q.swaps : q.swaps[j] = swap}
      BY <1>3, <2>a, UncutStored DEF KeptAs
    <2>3. \A i \in NewSwapIndices(w) : Stored(list[i]) = swap <=> list[i] = swap
      BY <1>1, <1>3, <2>2, <2>a, UncutStored
    <2>4. stored = {i \in NewSwapIndices(w) : list[i] = swap}
      BY <2>3
    <2>5. RowsOf(swap)' = RowsOf(swap) + Cardinality(stored)
          /\ Cardinality(stored) \in Nat
      BY InsertSwapsCounts
    <2>6. RowsOf(swap) \in Nat
      BY RowsOfType
    <2>7. CASE stored = {}
      <3>1. row \notin NewSwapRows(w)
        <4> DEFINE id(i) == seen[w].maxId + Cardinality({j \in NewSwapIndices(w) : j <= i})
        <4>1. SUFFICES ASSUME row \in NewSwapRows(w) PROVE FALSE
          OBVIOUS
        <4>2. PICK i \in NewSwapIndices(w) :
                  row = [id |-> id(i), swap |-> Stored(list[i])]
          BY <4>1 DEF NewSwapRows
        <4>3. QED
          BY <1>3, <2>7, <4>2
      <3>2. InOnePayload(swap)
        BY <1>3, <3>1 DEF OnceUnlessCut
      <3>3. RowsOf(swap)' = RowsOf(swap)
        <4>1. Cardinality(stored) = 0
          BY <2>7, FS_EmptySet
        <4> HIDE DEF stored
        <4>2. QED
          BY <2>5, <2>6, <4>1
      <3>4. QED
        BY <3>2, <3>3 DEF InOnePayload, KeptAs, Stored
    <2>8. CASE stored # {}
      <3>1. PICK i \in DOMAIN list : list[i] = swap
        BY <2>2, <2>4, <2>8
      <3> DEFINE c == seen[w].swaps[i]
                 n == Cardinality(Same(w, swap))
      <3>2. /\ n \in Nat /\ c \in Nat
            /\ Cardinality(stored) + c <= n
        BY <1>1, <2>4, <2>8, <3>1, NewBeyondCount
      <3>3. RowsOf(swap) <= c
        BY <1>1, <3>1
      <3> HIDE DEF c, n, stored
      <3>4. RowsOf(swap)' <= n
        BY <2>5, <2>6, <3>2, <3>3
      <3>5. ASSUME NEW p, p = payload[w] PROVE InOnePayload(swap)'
        <4>1. Same(w, swap) = {j \in DOMAIN p.swaps : p.swaps[j] = swap}
          BY <3>5 DEF Same
        <4>2. RowsOf(swap)' <= Cardinality(KeptAs(p, swap))
          BY <1>1, <2>b, <3>4, <3>5, <4>1 DEF n
        <4>3. QED
          BY <1>1, <3>5, <4>2 DEF InOnePayload, KeptAs, Stored
      <3>6. QED
        BY <3>5
    <2>9. QED
      BY <2>7, <2>8
  <1>4. \A row \in Range(swaps') : ~CutTo(row.swap) => InOnePayload(row.swap)'
    <2>1. SUFFICES ASSUME NEW row \in Range(swaps'), ~CutTo(row.swap)
                   PROVE  InOnePayload(row.swap)'
      OBVIOUS
    <2>2. QED
      BY <1>2, <1>3, <2>1
  <1>5. QED
    BY <1>4, NextOnceUnlessCut
-----------------------------------------------------------------------------
(* The calls that have ended store a swap each at most as often as its     *)
(* payload has it, also one that the column cuts.                          *)
Busy == \E w \in Writers : pc[w] # "idle"
Finished == IF Busy THEN starts - 1 ELSE starts

CallsCounted ==
    /\ Busy => starts >= 1
    /\ \A row \in Range(swaps) : InCalls(Finished, row.swap)

LEMMA FinishedCalls ==
    ASSUME TypeOK, Busy => starts >= 1
    PROVE  Finished \in Nat /\ Finished <= starts
  BY DEF TypeOK, Finished

LEMMA NextCallsCounted ==
    CallsCounted' <=>
        /\ Busy' => starts' >= 1
        /\ \A row \in Range(swaps') : \E p \in Payloads :
             RowsOf(row.swap)' <= Finished' * Cardinality(KeptAs(p, row.swap))
  BY DEF CallsCounted, InCalls, KeptAs, Stored

LEMMA TimesGrows ==
    ASSUME NEW a \in Nat, NEW b \in Nat, NEW c \in Nat, a <= b
    PROVE  /\ a * c <= b * c
           /\ a * c \in Nat /\ b * c \in Nat
           /\ c * a <= c * b
           /\ (b + 1) * c = b * c + c
  OBVIOUS

LEMMA KeptFinite ==
    ASSUME NEW p \in Payloads, NEW swap
    PROVE  IsFiniteSet(KeptAs(p, swap)) /\ Cardinality(KeptAs(p, swap)) \in Nat
  <1>1. p.swaps \in Seq(SwapWrite)
    BY PayloadsAssumption DEF TradePayload
  <1>2. DOMAIN p.swaps = 1 .. Len(p.swaps) /\ Len(p.swaps) \in Nat
    BY <1>1, LenProperties
  <1>3. IsFiniteSet(DOMAIN p.swaps)
    BY <1>2, FS_Interval
  <1>4. KeptAs(p, swap) \subseteq DOMAIN p.swaps
    BY DEF KeptAs
  <1>5. QED
    BY <1>3, <1>4, FS_Subset, FS_CardinalityType

(* A step that inserts no swap and un-finishes no call keeps the counts.   *)
LEMMA CallsKeep ==
    ASSUME TypeOK, TypeOK', CallsCounted, swaps' = swaps, Finished <= Finished',
           Busy' => starts' >= 1, Finished' \in Nat
    PROVE  CallsCounted'
  <1>1. Finished \in Nat
    BY FinishedCalls DEF CallsCounted
  <1>2. ASSUME NEW row \in Range(swaps)
        PROVE  \E p \in Payloads :
                  RowsOf(row.swap)' <= Finished' * Cardinality(KeptAs(p, row.swap))
    <2>1. PICK p \in Payloads :
              RowsOf(row.swap) <= Finished * Cardinality(KeptAs(p, row.swap))
      BY DEF CallsCounted, InCalls
    <2> DEFINE c == Cardinality(KeptAs(p, row.swap))
    <2>2. RowsOf(row.swap)' = RowsOf(row.swap) /\ RowsOf(row.swap) \in Nat
      BY RowsOfType DEF RowsOf
    <2>3. c \in Nat
      BY KeptFinite
    <2> HIDE DEF c
    <2>4. /\ Finished * c <= Finished' * c
          /\ Finished * c \in Nat /\ Finished' * c \in Nat
      BY <1>1, <2>3, TimesGrows
    <2>5. RowsOf(row.swap) <= Finished * c
      BY <2>1 DEF c
    <2>6. RowsOf(row.swap)' <= Finished' * c
      BY <2>2, <2>4, <2>5
    <2>7. QED
      BY <2>6 DEF c
  <1>3. QED
    BY <1>2, NextCallsCounted

(* A call that ends has added no more rows of a swap than its payload has. *)
LEMMA InsertSwapsInCalls ==
    ASSUME OneWriter, TypeOK, TypeOK', CallsCounted, NEW w \in Writers, InsertSwaps(w)
    PROVE  CallsCounted'
  <1>1. /\ payload[w] \in Payloads /\ pc[w] = "insertSwaps" /\ pc'[w] = "idle"
        /\ starts' = starts
    BY DEF InsertSwaps, Goto, TypeOK
  <1>2. Busy /\ ~Busy' /\ Finished' = Finished + 1 /\ Finished \in Nat
    <2>1. Busy /\ ~Busy'
      BY <1>1 DEF Busy, OneWriter
    <2>2. Finished \in Nat
      BY FinishedCalls DEF CallsCounted
    <2>3. starts \in Nat
      BY DEF TypeOK
    <2>4. QED
      BY <1>1, <2>1, <2>2, <2>3 DEF Finished
  <1>3. ASSUME NEW row \in Range(swaps')
        PROVE  \E p \in Payloads :
                  RowsOf(row.swap)' <= Finished' * Cardinality(KeptAs(p, row.swap))
    <2> DEFINE q == payload[w]
               x == row.swap
               new == {i \in NewSwapIndices(w) : Stored(payload[w].swaps[i]) = x}
               k == Cardinality(new)
               n == Cardinality(KeptAs(q, x))
    <2>1. RowsOf(x)' = RowsOf(x) + k /\ k \in Nat
      BY InsertSwapsCounts
    <2>2. RowsOf(x) \in Nat
      BY RowsOfType
    <2>3. k <= n /\ n \in Nat
      <3>1. IsFiniteSet(KeptAs(q, x)) /\ n \in Nat
        BY <1>1, KeptFinite
      <3>2. new \subseteq KeptAs(q, x)
        BY DEF NewSwapIndices, KeptAs
      <3>3. QED
        BY <3>1, <3>2, FS_Subset
    <2> HIDE DEF k, n
    <2>4. CASE RowsOf(x) = 0
      <3>1. RowsOf(x)' <= (Finished + 1) * n
        <4>1. Finished * n \in Nat /\ (Finished + 1) * n = Finished * n + n
          BY <1>2, <2>3, TimesGrows
        <4>2. QED
          BY <2>1, <2>3, <2>4, <4>1
      <3>2. QED
        BY <1>1, <1>2, <3>1 DEF n
    <2>5. CASE RowsOf(x) # 0
      <3>1. PICK i \in DOMAIN swaps : swaps[i].swap = x
        <4>1. ASSUME {i \in DOMAIN swaps : swaps[i].swap = x} = {} PROVE FALSE
          BY <2>5, <4>1, FS_EmptySet DEF RowsOf
        <4>2. QED
          BY <4>1
      <3>2. swaps[i] \in Range(swaps)
        BY DEF Range
      <3>3. PICK p \in Payloads : RowsOf(x) <= Finished * Cardinality(KeptAs(p, x))
        BY <3>1, <3>2 DEF CallsCounted, InCalls
      <3> DEFINE c == Cardinality(KeptAs(p, x))
      <3>4. c \in Nat
        BY KeptFinite
      <3>5. RowsOf(x) <= Finished * c
        BY <3>3
      <3> HIDE DEF c
      <3>6. CASE c <= n
        <4>1. /\ Finished * c <= Finished * n /\ (Finished + 1) * n = Finished * n + n
              /\ Finished * n \in Nat /\ Finished * c \in Nat
          BY <1>2, <2>3, <3>4, <3>6, TimesGrows
        <4>2. RowsOf(x)' <= (Finished + 1) * n
          BY <2>1, <2>2, <2>3, <3>5, <4>1
        <4>3. QED
          BY <1>1, <1>2, <4>2 DEF n
      <3>7. CASE ~(c <= n)
        <4>1. (Finished + 1) * c = Finished * c + c /\ Finished * c \in Nat
          BY <1>2, <3>4, TimesGrows
        <4>2. RowsOf(x)' <= (Finished + 1) * c
          BY <2>1, <2>2, <2>3, <3>4, <3>5, <3>7, <4>1
        <4>3. QED
          BY <1>2, <4>2 DEF c
      <3>8. QED
        BY <3>6, <3>7
    <2>6. QED
      BY <2>4, <2>5
  <1>4. QED
    BY <1>2, <1>3, NextCallsCounted

LEMMA NextInCalls ==
    ASSUME OneWriter, TypeOK, TypeOK', CallsCounted, NEW w \in Writers,
           Start(w) \/ Statement(w) \/ Abort(w)
    PROVE  CallsCounted'
  <1>1. Finished \in Nat /\ starts \in Nat /\ starts' \in Nat
    BY FinishedCalls DEF CallsCounted, TypeOK
  <1>2. (Busy <=> pc[w] # "idle") /\ (Busy' <=> pc'[w] # "idle")
    BY DEF Busy, OneWriter
  <1>3. CASE Start(w)
    <2>1. pc[w] = "idle" /\ pc'[w] = "selectDexes" /\ starts' = starts + 1 /\ swaps' = swaps
      BY <1>3 DEF Start, Goto, tables, TypeOK
    <2>2. Finished' = Finished /\ (Busy' => starts' >= 1)
      BY <1>1, <1>2, <2>1 DEF Finished
    <2>3. QED
      BY <1>1, <2>1, <2>2, CallsKeep
  <1>4. CASE InsertSwaps(w)
    BY <1>4, InsertSwapsInCalls
  <1>5. CASE ~Start(w) /\ ~InsertSwaps(w)
    <2>1. swaps' = swaps
      BY <1>5, OnlyInsertSwaps DEF Statement, Quiet, SwapsStay
    <2>2. pc[w] # "idle" /\ starts' = starts
      BY <1>5 DEF Statement, Abort, Goto,
        SelectDexes, InsertDexes, SelectTransactions, SelectTraders,
        InsertTraders, SelectTokens, InsertTokens, UpdateLabel, UpdateStable,
        SelectPools, InsertPools, UpdateSnapshot, InsertTransactions,
        SelectSwaps, ReturnWithoutSwaps, SelectMaxSwapId
    <2>3. Busy /\ starts >= 1
      BY <1>2, <2>2 DEF CallsCounted
    <2>4. Finished <= Finished' /\ Finished' \in Nat /\ (Busy' => starts' >= 1)
      BY <1>1, <2>2, <2>3 DEF Finished
    <2>5. QED
      BY <2>1, <2>4, CallsKeep
  <1>6. QED
    BY <1>3, <1>4, <1>5

LEMMA CountedOnce ==
    ASSUME TypeOK, OnceUnlessCut, CallsCounted
    PROVE  NoDuplicateSwaps
  <1>1. SUFFICES ASSUME NEW i \in DOMAIN swaps, NEW x, x = swaps[i].swap
                 PROVE  /\ ~CutTo(x) => InOnePayload(x)
                        /\ InCalls(starts, x)
    BY DEF NoDuplicateSwaps, InOnePayload, InCalls
  <1>2. swaps[i] \in Range(swaps)
    BY DEF Range
  <1>3. ~CutTo(x) => InOnePayload(x)
    BY <1>1, <1>2 DEF OnceUnlessCut
  <1>4. PICK p \in Payloads : RowsOf(x) <= Finished * Cardinality(KeptAs(p, x))
    BY <1>1, <1>2 DEF CallsCounted, InCalls
  <1> DEFINE c == Cardinality(KeptAs(p, x))
  <1>5. /\ Finished \in Nat /\ Finished <= starts /\ starts \in Nat /\ c \in Nat
        /\ RowsOf(x) \in Nat /\ RowsOf(x) <= Finished * c
    BY <1>4, FinishedCalls, KeptFinite, RowsOfType DEF CallsCounted, TypeOK
  <1> HIDE DEF c
  <1>6. Finished * c <= starts * c /\ Finished * c \in Nat /\ starts * c \in Nat
    BY <1>5, TimesGrows
  <1>7. RowsOf(x) <= starts * c
    BY <1>5, <1>6
  <1>8. QED
    BY <1>3, <1>7 DEF InCalls, c
-----------------------------------------------------------------------------
(* What holds while one process persists at a time.                        *)
OneWriterInvariant ==
    /\ PrimaryKeysUnique
    /\ OnceUnlessCut
    /\ CallsCounted
    /\ \A w \in Writers : ReadIsFresh(w)

LEMMA InitOneWriter == Init => OneWriterInvariant
  <1> SUFFICES ASSUME Init PROVE OneWriterInvariant
    OBVIOUS
  <1>1. /\ dexes = <<>> /\ tokens = <<>> /\ pools = <<>> /\ transactions = <<>>
        /\ swaps = <<>> /\ traders = SetToSeq(SeedTraders)
    BY DEF Init
  <1>2. Len(<<>>) = 0 /\ Range(<<>>) = {} /\ Cardinality({}) = 0
    BY FS_EmptySet DEF Range
  <1>3. Len(traders) = Cardinality(TraderKeys)
    BY <1>1, SeedAssumption, SetToSeqProperties DEF TraderKeys
  <1>4. /\ DexKeys = {} /\ TokenKeys = {} /\ PoolKeys = {} /\ TransactionKeys = {}
    BY <1>1, <1>2 DEF DexKeys, TokenKeys, PoolKeys, TransactionKeys, Addresses, Hashes
  <1>5. SwapIdsUnique /\ OnceUnlessCut /\ CallsCounted
    BY <1>1, <1>2 DEF SwapIdsUnique, OnceUnlessCut, CallsCounted, Busy, Init
  <1>6. PrimaryKeysUnique
    BY <1>1, <1>2, <1>3, <1>4, <1>5 DEF PrimaryKeysUnique
  <1>7. \A w \in Writers : ReadIsFresh(w)
    BY DEF Init, ReadIsFresh, BeforeTransactions, Counted
  <1>8. QED
    BY <1>5, <1>6, <1>7 DEF OneWriterInvariant

(* A step of nobody's that leaves keys, swaps and locals alone keeps it.   *)
LEMMA RestOneWriter ==
    ASSUME TypeOK, TypeOK', OneWriterInvariant, SameLengths, UNCHANGED Facts,
           UNCHANGED locals, starts' = starts
    PROVE  OneWriterInvariant'
  <1>1. PrimaryKeysUnique'
    BY UniqueStays DEF OneWriterInvariant
  <1>2. OnceUnlessCut' /\ CallsCounted'
    <2>1. swaps' = swaps /\ pc' = pc
      BY DEF SameLengths, locals
    <2>2. Finished' = Finished /\ Busy' = Busy
      BY <2>1 DEF Finished, Busy
    <2>3. Finished \in Nat /\ (Busy => starts >= 1)
      BY FinishedCalls DEF OneWriterInvariant, CallsCounted
    <2>4. Finished <= Finished' /\ Finished' \in Nat /\ (Busy' => starts' >= 1)
      BY <2>2, <2>3
    <2>5. QED
      BY <2>1, <2>4, SameDuplicates, CallsKeep DEF OneWriterInvariant
  <1>3. Still
    BY DEF Still, SameLengths
  <1>4. \A w \in Writers : ReadIsFresh(w)'
    BY <1>3, RestFresh DEF OneWriterInvariant, locals
  <1>5. QED
    BY <1>1, <1>2, <1>4 DEF OneWriterInvariant

LEMMA NextOneWriter ==
    ASSUME OneWriter, IntegrityInvariant, CompletenessInvariant, OneWriterInvariant,
           [Next]_vars
    PROVE  OneWriterInvariant'
  <1>1. TypeOK /\ TypeOK'
    BY NextTypeOK DEF IntegrityInvariant
  <1>2. ASSUME NEW w \in Writers, Start(w) \/ Statement(w) \/ Abort(w)
        PROVE  OneWriterInvariant'
    <2>1. PrimaryKeysUnique'
      BY <1>1, <1>2, NextUnique DEF OneWriterInvariant
    <2>2. OnceUnlessCut'
      <3>1. SwapsStay(w) \/ InsertSwaps(w)
        BY <1>2 DEF Statement, Quiet, SwapsStay
      <3>2. CASE SwapsStay(w)
        BY <3>2, OnlyInsertSwaps, SameDuplicates DEF OneWriterInvariant
      <3>3. CASE InsertSwaps(w)
        BY <1>1, <3>3, InsertSwapsOnce DEF OneWriterInvariant, CompletenessInvariant
      <3>4. QED
        BY <3>1, <3>2, <3>3
    <2>6. CallsCounted'
      BY <1>1, <1>2, NextInCalls DEF OneWriterInvariant
    <2>3. ReadIsFresh(w)'
      BY <1>2, NextFresh DEF OneWriterInvariant
    <2>4. \A v \in Writers : ReadIsFresh(v)'
      <3>1. \A v \in Writers : v = w
        BY DEF OneWriter
      <3>2. QED
        BY <2>3, <3>1
    <2>5. QED
      BY <2>1, <2>2, <2>4, <2>6 DEF OneWriterInvariant
  <1>3. CASE ApplyTokenMutation \/ ApplyPoolMutation
    <2>1. UNCHANGED locals /\ starts' = starts
      BY <1>3 DEF ApplyTokenMutation, ApplyPoolMutation
    <2>2. QED
      BY <1>1, <1>3, <2>1, MutationFacts, MutationLengths, RestOneWriter
  <1>4. CASE UNCHANGED vars
    <2>1. UNCHANGED Facts /\ UNCHANGED locals /\ SameLengths /\ starts' = starts
      BY <1>4 DEF vars, tables, locals, SameLengths, Facts, DexKeys, TraderKeys, TokenKeys,
         StoredPools, StoredTransactions, StoredSwaps
    <2>2. QED
      BY <1>1, <2>1, RestOneWriter
  <1>5. QED
    BY <1>2, <1>3, <1>4 DEF Next

LEMMA OneWriterAlways ==
    ASSUME OneWriter
    PROVE  Spec => []OneWriterInvariant
  <1>1. IntegrityInvariant /\ CompletenessInvariant /\ OneWriterInvariant /\ [Next]_vars
          => OneWriterInvariant'
    BY NextOneWriter
  <1>2. QED
    BY <1>1, InitIntegrity, NextIntegrity, InitCompleteness, NextCompleteness,
       InitOneWriter, PTL DEF Spec

(* With one process, no key is on two rows, however often payloads overlap *)
(* and wherever a call stops.                                              *)
THEOREM OneWriterKeysUnique ==
    ASSUME OneWriter
    PROVE  Spec => []PrimaryKeysUnique
  <1>1. OneWriterInvariant => PrimaryKeysUnique
    BY DEF OneWriterInvariant
  <1>2. QED
    BY <1>1, OneWriterAlways, PTL

(* With one process, a swap that the column keeps as it is is stored no    *)
(* more often than one payload has it: a payload that is stored again      *)
(* after a stop adds what is missing and nothing twice.  A swap that the   *)
(* column cuts is stored again by each call, no more often than the calls  *)
(* have it.                                                                *)
THEOREM OneWriterSwapsExact ==
    ASSUME OneWriter
    PROVE  Spec => []NoDuplicateSwaps
  <1>1. IntegrityInvariant /\ OneWriterInvariant => NoDuplicateSwaps
    BY CountedOnce DEF OneWriterInvariant, IntegrityInvariant
  <1>2. QED
    BY <1>1, InitIntegrity, NextIntegrity, OneWriterAlways, PTL DEF Spec
=============================================================================
