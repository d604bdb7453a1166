------------------------- MODULE ReverseScanProofs -------------------------
(***************************************************************************)
(* Proofs about a scan, for any chain, requests, sizes of chunks and       *)
(* batches, any number of tasks at a time and of retries, and any answers  *)
(* of the node.  First the discovery: a window that was traced without a   *)
(* failed range holds the traces of the chain.  Then the stages after it:  *)
(* every receipt is asked for, a lost one approves nobody, and the summary *)
(* is about who is persisted.                                              *)
(***************************************************************************)
EXTENDS ReverseScan, TableLemmas

(* What the scan is after in one block, and in the chunks it is through    *)
(* with.                                                                   *)
InBlock(b) == Sought({b}, request.addresses)
Passed == {b \in Blocks : request.start <= b /\ b < chunk}

(* What a node that could not trace some transactions of a block passed    *)
(* over.                                                                   *)
OfUntraced(b, untraced) ==
    {t \in InBlock(b) : \E i \in untraced : t.hash = Chain[b][i].hash}
-----------------------------------------------------------------------------
(* The invariant.  A task that returned has the traces of its block, up to *)
(* what is lost; one that still lacks the hashes has the entries of the    *)
(* block; the traces are those of the chunks that are through, unless one  *)
(* failed; with the trace namespace, those of the current chunk for the    *)
(* addresses that were asked for.                                          *)
LocalsTyped ==
    /\ request \in Requests
    /\ chunk \in Nat /\ request.start <= chunk
    /\ chunk <= request.end + 1
    /\ DOMAIN task = Blocks /\ DOMAIN found = Blocks /\ DOMAIN entries = Blocks
    /\ phase = "traced" => chunk > request.end /\ failed = {}

TasksSound ==
    \A b \in Blocks :
        /\ task[b] = "returned" =>
             /\ found[b] \subseteq InBlock(b)
             /\ InBlock(b) \ lost \subseteq found[b]
        /\ task[b] = "mapping" =>
             \E untraced \in SUBSET DOMAIN Chain[b] :
                 /\ entries[b] = Entries(b, untraced)
                 /\ OfUntraced(b, untraced) \subseteq lost

TracesSound ==
    /\ traces \subseteq Sought(Passed, request.addresses)
    /\ failed = {} => Sought(Passed, request.addresses) \ lost \subseteq traces

FilterSound ==
    client = "filter" =>
        /\ \A b \in Blocks : task[b] = "none" /\ (b > chunk => found[b] = {})
        /\ asked \subseteq request.addresses
        /\ chunk \in Blocks /\ chunk <= request.end =>
             /\ found[chunk] \subseteq Sought(ChunkBlocks(chunk), request.addresses)
             /\ Sought(ChunkBlocks(chunk), asked) \ lost \subseteq found[chunk]

DiscoveryInvariant == LocalsTyped /\ TasksSound /\ TracesSound /\ FilterSound
-----------------------------------------------------------------------------
(* What is sought in several blocks is what is sought in each of them, and *)
(* likewise for addresses.                                                 *)
LEMMA SoughtByBlock ==
    ASSUME NEW blocks, NEW addresses, NEW t
    PROVE  t \in Sought(blocks, addresses) <=>
               \E b \in blocks : t \in Sought({b}, addresses)
  BY Zenon DEF Sought

LEMMA SoughtByAddress ==
    ASSUME NEW blocks, NEW some, NEW others
    PROVE  Sought(blocks, some \cup others) = Sought(blocks, some) \cup Sought(blocks, others)
  BY DEF Sought

LEMMA SoughtFromNobody ==
    ASSUME NEW blocks PROVE Sought(blocks, {}) = {}
  BY DEF Sought

LEMMA SoughtFromMore ==
    ASSUME NEW blocks, NEW some, NEW more, some \subseteq more
    PROVE  Sought(blocks, some) \subseteq Sought(blocks, more)
  BY DEF Sought

(* The blocks of a chunk.                                                  *)
LEMMA MinOfTwo ==
    ASSUME NEW a \in Int, NEW b \in Int
    PROVE  /\ Min({a, b}) \in {a, b} /\ Min({a, b}) <= a /\ Min({a, b}) <= b
  BY DEF Min

LEMMA ChunkInWindow ==
    ASSUME LocalsTyped, chunk <= request.end
    PROVE  /\ ChunkEnd(chunk) \in Nat
           /\ chunk <= ChunkEnd(chunk) /\ ChunkEnd(chunk) <= request.end
           /\ chunk \in Blocks /\ ChunkBlocks(chunk) \subseteq Blocks
           /\ \A b \in Blocks : b \in ChunkBlocks(chunk) <=> chunk <= b /\ b <= ChunkEnd(chunk)
  <1>1. /\ request.start \in Nat /\ request.end \in Nat
        /\ request.start..request.end \subseteq Blocks
    BY DiscoveryAssumption DEF LocalsTyped
  <1>2. chunk \in Nat /\ request.start <= chunk /\ chunk <= request.end
    BY DEF LocalsTyped
  <1>3. chunk + ChunkSize - 1 \in Int /\ chunk <= chunk + ChunkSize - 1
    BY <1>2, DiscoveryAssumption
  <1>4. /\ ChunkEnd(chunk) \in {chunk + ChunkSize - 1, request.end}
        /\ ChunkEnd(chunk) <= request.end
    <2> DEFINE last == chunk + ChunkSize - 1
    <2>1. last \in Int /\ request.end \in Int BY <1>1, <1>3
    <2> HIDE DEF last
    <2>2. /\ Min({last, request.end}) \in {last, request.end}
          /\ Min({last, request.end}) <= request.end
      BY <2>1, MinOfTwo, Zenon
    <2> QED BY <2>2 DEF ChunkEnd, last
  <1>5. ChunkEnd(chunk) \in Nat /\ chunk <= ChunkEnd(chunk)
    BY <1>1, <1>2, <1>3, <1>4
  <1>6. Blocks \subseteq Nat BY DiscoveryAssumption
  <1>7. chunk..ChunkEnd(chunk) \subseteq request.start..request.end
    BY <1>1, <1>2, <1>4, <1>5
  <1>8. chunk \in chunk..ChunkEnd(chunk) BY <1>2, <1>5
  <1>9. \A b \in Blocks : b \in ChunkBlocks(chunk) <=> chunk <= b /\ b <= ChunkEnd(chunk)
    BY <1>2, <1>5, <1>6 DEF ChunkBlocks
  <1> QED BY <1>1, <1>4, <1>5, <1>7, <1>8, <1>9 DEF ChunkBlocks

(* The batch of addresses that is asked for next.                          *)
LEMMA NextAddressesRemain ==
    ASSUME LocalsTyped PROVE NextAddresses \subseteq request.addresses
  <1> DEFINE rest == request.addresses \ asked
             n == Cardinality(rest)
             size == Min({AddressBatch, n})
  <1>1. IsFiniteSet(rest)
    BY RequestAssumption, FS_Subset DEF LocalsTyped
  <1>2. n \in Nat /\ ExistsBijection(1..n, rest)
    BY <1>1, FS_CardinalityType
  <1>3. size \in 0..n
    <2>1. n \in Int /\ n >= 0 /\ AddressBatch \in Int /\ AddressBatch >= 0
      BY <1>2, DiscoveryAssumption
    <2> HIDE DEF n
    <2>2. size \in {AddressBatch, n} /\ size <= n
      BY <2>1, MinOfTwo, Zenon
    <2> QED BY <2>1, <2>2
  <1>4. PICK f \in Bijection(1..n, rest) : TRUE
    BY <1>2, Fun_ExistsBij
  <1> HIDE DEF size, n, rest
  <1> DEFINE batch == {f[i] : i \in 1..size}
             g == [i \in 1..size |-> f[i]]
  <1>5. f \in [1..n -> rest] /\ \A i, j \in 1..n : f[i] = f[j] => i = j
    BY <1>4, Fun_IsInj DEF Bijection, Injection, IsInjective
  <1>6. batch \in SUBSET rest
    BY <1>2, <1>3, <1>5
  <1>7. g \in Bijection(1..size, batch)
    BY <1>2, <1>3, <1>5 DEF Bijection, Injection, Surjection, IsInjective
  <1>8. Cardinality(batch) = size
    <2>1. ExistsBijection(1..size, batch) BY <1>7, Fun_ExistsBij
    <2>2. IsFiniteSet(1..size) /\ Cardinality(1..size) = size
      BY <1>2, <1>3, FS_Interval
    <2> QED BY <2>1, <2>2, FS_Bijection
  <1>9. NextAddresses = CHOOSE b \in SUBSET rest : Cardinality(b) = size
    BY DEF NextAddresses, size, n, rest
  <1>10. NextAddresses \in SUBSET rest
    BY <1>6, <1>8, <1>9
  <1> QED BY <1>10 DEF rest
-----------------------------------------------------------------------------
(* The entries of a block, with the hashes the reply gave them or those of *)
(* the block, make only traces of the block; all of them, but for those    *)
(* that were not traced, if no entry is without a hash.                    *)
LEMMA PairsOfBlock ==
    ASSUME NEW b \in Blocks, NEW untraced \in SUBSET DOMAIN Chain[b],
           NEW hashes \in {<<>>, BlockHashes(b)}
    PROVE  LET pairs == Normalize(Entries(b, untraced), hashes) IN
           /\ \A p \in pairs : \E i \in DOMAIN Chain[b] \ untraced :
                /\ p.frames = Chain[b][i].frames /\ p.hash \in {Chain[b][i].hash, None}
           /\ \A i \in DOMAIN Chain[b] \ untraced : \E p \in pairs :
                /\ p.frames = Chain[b][i].frames /\ p.hash \in {Chain[b][i].hash, None}
                /\ hashes # <<>> => p.hash # None
  <1> DEFINE list == Entries(b, untraced)
             hash(i) == IF list[i].hash # None THEN list[i].hash
                        ELSE IF i <= Len(hashes) THEN hashes[i] ELSE None
             pair(i) == [hash |-> hash(i), frames |-> list[i].frames]
  <1>1. /\ DOMAIN Chain[b] = 1..Len(Chain[b]) /\ Len(Chain[b]) \in Nat
        /\ \A i \in DOMAIN Chain[b] : Chain[b][i].hash # None /\ Chain[b][i].frames # NotTraced
    BY ChainAssumption
  <1>2. DOMAIN list = DOMAIN Chain[b]
    BY DEF Entries
  <1>3. \A i \in DOMAIN Chain[b] :
          /\ list[i].hash \in {Chain[b][i].hash, None}
          /\ list[i].frames = IF i \in untraced THEN NotTraced ELSE Chain[b][i].frames
    BY DEF Entries
  <1>4. {j \in DOMAIN list : list[j].frames # NotTraced} = DOMAIN Chain[b] \ untraced
    BY <1>1, <1>2, <1>3
  <1>5. Normalize(list, hashes) = {pair(i) : i \in DOMAIN Chain[b] \ untraced}
    BY <1>4 DEF Normalize
  <1>6. ASSUME NEW i \in DOMAIN Chain[b] \ untraced
        PROVE  /\ hash(i) \in {Chain[b][i].hash, None}
               /\ hashes # <<>> => hash(i) # None
    <2>1. Len(<<>>) = 0 /\ i \in 1..Len(Chain[b]) BY <1>1
    <2>2. CASE hashes = <<>>
      BY <1>3, <2>1, <2>2
    <2>3. CASE hashes = BlockHashes(b)
      <3>1. Len(hashes) = Len(Chain[b]) /\ hashes[i] = Chain[b][i].hash
        BY <1>1, <2>1, <2>3 DEF BlockHashes
      <3> QED BY <1>1, <1>3, <2>1, <3>1
    <2> QED BY <2>2, <2>3
  <1>7. \A i \in DOMAIN Chain[b] \ untraced : list[i].frames = Chain[b][i].frames
    BY <1>3
  <1>8. \A i : pair(i).hash = hash(i) /\ pair(i).frames = list[i].frames
    OBVIOUS
  <1> HIDE DEF list, hash, pair
  <1>9. \A p \in Normalize(list, hashes) : \E i \in DOMAIN Chain[b] \ untraced :
          p.frames = Chain[b][i].frames /\ p.hash \in {Chain[b][i].hash, None}
    BY <1>5, <1>6, <1>7, <1>8
  <1>10. \A i \in DOMAIN Chain[b] \ untraced : \E p \in Normalize(list, hashes) :
          /\ p.frames = Chain[b][i].frames /\ p.hash \in {Chain[b][i].hash, None}
          /\ hashes # <<>> => p.hash # None
    BY <1>5, <1>6, <1>7, <1>8
  <1> QED BY <1>9, <1>10 DEF list

LEMMA TracesOfPairs ==
    ASSUME NEW b \in Blocks, NEW untraced \in SUBSET DOMAIN Chain[b], NEW pairs,
           \A p \in pairs : \E i \in DOMAIN Chain[b] \ untraced :
                p.frames = Chain[b][i].frames /\ p.hash \in {Chain[b][i].hash, None}
    PROVE  MatchingTraces(pairs, request.addresses) \subseteq InBlock(b)
  <1>1. \A i \in DOMAIN Chain[b] : \A frame \in Chain[b][i].frames :
          Trace(Chain[b][i].hash, frame) = Exposed(Chain[b][i].hash, frame)
    BY ChainAssumption DEF Trace, Exposed, ActionFrom, ActionTo
  <1> SUFFICES ASSUME NEW t \in MatchingTraces(pairs, request.addresses)
               PROVE  t \in InBlock(b)
    OBVIOUS
  <1>2. PICK p \in pairs : p.hash # None /\ \E frame \in p.frames :
          t = Trace(p.hash, frame) /\ Matches(t, request.addresses)
    BY DEF MatchingTraces
  <1>3. PICK i \in DOMAIN Chain[b] : p.frames = Chain[b][i].frames /\ p.hash = Chain[b][i].hash
    BY <1>2
  <1>4. PICK frame \in Chain[b][i].frames : t = Exposed(Chain[b][i].hash, frame)
    BY <1>1, <1>2, <1>3
  <1>5. Chain[b][i] \in Range(Chain[b]) BY DEF Range
  <1> QED BY <1>2, <1>4, <1>5 DEF InBlock, Sought, Matches

LEMMA PairsOfTraces ==
    ASSUME NEW b \in Blocks, NEW untraced \in SUBSET DOMAIN Chain[b], NEW pairs,
           \A i \in DOMAIN Chain[b] \ untraced : \E p \in pairs :
                p.frames = Chain[b][i].frames /\ p.hash = Chain[b][i].hash
    PROVE  InBlock(b) \ OfUntraced(b, untraced)
               \subseteq MatchingTraces(pairs, request.addresses)
  <1>1. \A i \in DOMAIN Chain[b] : \A frame \in Chain[b][i].frames :
          Trace(Chain[b][i].hash, frame) = Exposed(Chain[b][i].hash, frame)
    BY ChainAssumption DEF Trace, Exposed, ActionFrom, ActionTo
  <1> SUFFICES ASSUME NEW t \in InBlock(b), t \notin OfUntraced(b, untraced)
               PROVE  t \in MatchingTraces(pairs, request.addresses)
    OBVIOUS
  <1>2. PICK i \in DOMAIN Chain[b] : \E frame \in Chain[b][i].frames :
          t = Exposed(Chain[b][i].hash, frame)
    BY DEF InBlock, Sought, Range
  <1>3. PICK frame \in Chain[b][i].frames : t = Exposed(Chain[b][i].hash, frame)
    BY <1>2
  <1>4. t.hash = Chain[b][i].hash BY <1>3 DEF Exposed
  <1>5. i \notin untraced BY <1>4 DEF OfUntraced
  <1>6. PICK p \in pairs : p.frames = Chain[b][i].frames /\ p.hash = Chain[b][i].hash
    BY <1>5
  <1>7. p.hash # None BY <1>6, ChainAssumption
  <1>8. t = Trace(p.hash, frame) BY <1>1, <1>3, <1>6
  <1>9. Matches(t, request.addresses) BY DEF InBlock, Sought, Matches
  <1> QED BY <1>3, <1>6, <1>7, <1>8, <1>9 DEF MatchingTraces
-----------------------------------------------------------------------------
(* What is found in one step stays true: nothing that was lost is found    *)
(* again, and what is sought does not change.                              *)
LEMMA SameChain ==
    ASSUME request' = request, client' = client
    PROVE  /\ \A b \in Blocks : InBlock(b)' = InBlock(b)
           /\ \A b \in Blocks : \A untraced \in SUBSET DOMAIN Chain[b] :
                /\ Entries(b, untraced)' = Entries(b, untraced)
                /\ OfUntraced(b, untraced)' = OfUntraced(b, untraced)
  BY DEF InBlock, Sought, Entries, OfUntraced

LEMMA InitInvariant == DiscoveryInit => DiscoveryInvariant
  <1> SUFFICES ASSUME DiscoveryInit PROVE DiscoveryInvariant
    OBVIOUS
  <1>1. /\ request \in Requests /\ chunk = request.start /\ asked = {} /\ traces = {}
        /\ failed = {} /\ phase = "tracing"
        /\ task = [b \in Blocks |-> "none"] /\ found = [b \in Blocks |-> {}]
        /\ entries = [b \in Blocks |-> <<>>]
    BY DEF DiscoveryInit
  <1>2. request.start \in Nat /\ request.end \in Nat /\ request.start <= request.end
    BY <1>1, DiscoveryAssumption
  <1>3. LocalsTyped BY <1>1, <1>2 DEF LocalsTyped
  <1>4. TasksSound BY <1>1 DEF TasksSound
  <1>5. TracesSound
    <2>1. \A b \in Blocks : b \in Nat BY DiscoveryAssumption
    <2>2. Passed = {} BY <1>1, <1>2, <2>1 DEF Passed
    <2>3. Sought({}, request.addresses) = {} BY DEF Sought
    <2> QED BY <1>1, <2>2, <2>3 DEF TracesSound
  <1>6. FilterSound
    BY <1>1, SoughtFromNobody DEF FilterSound
  <1> QED BY <1>3, <1>4, <1>5, <1>6 DEF DiscoveryInvariant
-----------------------------------------------------------------------------
(* The steps of a task.                                                    *)
TaskFrame(b) ==
    /\ UNCHANGED <<request, client, phase, chunk, asked, failed, traces>>
    /\ \A a \in Blocks \ {b} :
         task'[a] = task[a] /\ found'[a] = found[a] /\ entries'[a] = entries[a]
    /\ DOMAIN task' = Blocks /\ DOMAIN found' = Blocks /\ DOMAIN entries' = Blocks
    /\ lost \subseteq lost'

(* A task touches only what belongs to its block, and there is none with   *)
(* the trace namespace; so it has only its own block to answer for.        *)
LEMMA TaskKeepsInvariant ==
    ASSUME DiscoveryInvariant, NEW b \in Blocks, TaskFrame(b), task[b] # "none",
           /\ task'[b] = "returned" =>
                found'[b] \subseteq InBlock(b) /\ InBlock(b) \ lost' \subseteq found'[b]
           /\ task'[b] = "mapping" =>
                \E untraced \in SUBSET DOMAIN Chain[b] :
                    /\ entries'[b] = Entries(b, untraced)
                    /\ OfUntraced(b, untraced) \subseteq lost'
    PROVE  DiscoveryInvariant'
  <1>1. /\ UNCHANGED <<request, client, phase, chunk, asked, failed, traces>>
        /\ lost \subseteq lost'
    BY DEF TaskFrame
  <1>2. client # "filter"
    BY DEF DiscoveryInvariant, FilterSound
  <1>3. LocalsTyped'
    BY <1>1 DEF DiscoveryInvariant, LocalsTyped, TaskFrame
  <1>4. FilterSound'
    BY <1>1, <1>2 DEF FilterSound
  <1>5. TracesSound'
    BY <1>1 DEF DiscoveryInvariant, TracesSound, Passed, Sought
  <1>6. TasksSound'
    <2> SUFFICES ASSUME NEW a \in Blocks
                 PROVE  /\ task'[a] = "returned" =>
                             /\ found'[a] \subseteq InBlock(a)
                             /\ InBlock(a) \ lost' \subseteq found'[a]
                        /\ task'[a] = "mapping" =>
                             \E untraced \in SUBSET DOMAIN Chain[a] :
                                 /\ entries'[a] = Entries(a, untraced)
                                 /\ OfUntraced(a, untraced) \subseteq lost'
      BY <1>1, SameChain DEF TasksSound
    <2>1. CASE a = b
      BY <2>1
    <2>2. CASE a # b
      BY <1>1, <2>2 DEF TaskFrame, DiscoveryInvariant, TasksSound
    <2> QED BY <2>1, <2>2
  <1> QED BY <1>3, <1>4, <1>5, <1>6 DEF DiscoveryInvariant

LEMMA TaskStepKeepsInvariant ==
    ASSUME DiscoveryInvariant, NEW b \in Blocks, TaskStep(b)
    PROVE  DiscoveryInvariant'
  <1>1. DOMAIN task = Blocks /\ DOMAIN found = Blocks /\ DOMAIN entries = Blocks
    BY DEF DiscoveryInvariant, LocalsTyped
  <1>2. CASE Acquire(b)
    <2>1. TaskFrame(b) /\ task[b] # "none" /\ task'[b] = "tracing"
      BY <1>1, <1>2 DEF Acquire, TaskFrame
    <2> QED BY <2>1, TaskKeepsInvariant
  <1>3. CASE TraceReply(b)
    <2>1. PICK untraced \in SUBSET DOMAIN Chain[b] :
            LET list == Entries(b, untraced)
                pairs == Normalize(list, <<>>)
            IN
            /\ lost' = lost \cup OfUntraced(b, untraced)
            /\ IF \E p \in pairs : p.hash = None
               THEN /\ task' = [task EXCEPT ![b] = "mapping"]
                    /\ entries' = [entries EXCEPT ![b] = list]
                    /\ UNCHANGED found
               ELSE Returned(b, pairs) /\ UNCHANGED entries
      BY <1>3, Zenon DEF TraceReply, OfUntraced, InBlock
    <2> DEFINE list == Entries(b, untraced)
               pairs == Normalize(list, <<>>)
    <2>2. /\ task[b] = "tracing" /\ lost' = lost \cup OfUntraced(b, untraced)
          /\ UNCHANGED <<request, client, phase, chunk, asked, failed, traces>>
      BY <1>3, <2>1 DEF TraceReply
    <2>3. CASE \E p \in pairs : p.hash = None
      <3>1. /\ task' = [task EXCEPT ![b] = "mapping"]
            /\ entries' = [entries EXCEPT ![b] = list]
            /\ found' = found
        BY <2>1, <2>3
      <3> HIDE DEF list
      <3>2. TaskFrame(b) /\ task'[b] = "mapping" /\ entries'[b] = list
        BY <1>1, <2>2, <3>1 DEF TaskFrame
      <3> QED BY <2>2, <3>2, TaskKeepsInvariant DEF list
    <2>4. CASE ~\E p \in pairs : p.hash = None
      <3>1. /\ task' = [task EXCEPT ![b] = "returned"]
            /\ found' = [found EXCEPT ![b] = MatchingTraces(pairs, request.addresses)]
            /\ entries' = entries
        BY <2>1, <2>4 DEF Returned
      <3>2. /\ \A p \in pairs : \E i \in DOMAIN Chain[b] \ untraced :
                 p.frames = Chain[b][i].frames /\ p.hash \in {Chain[b][i].hash, None}
            /\ \A i \in DOMAIN Chain[b] \ untraced : \E p \in pairs :
                 p.frames = Chain[b][i].frames /\ p.hash \in {Chain[b][i].hash, None}
        BY PairsOfBlock, ZenonT(60)
      <3> HIDE DEF pairs
      <3>3. \A i \in DOMAIN Chain[b] \ untraced : \E p \in pairs :
              p.frames = Chain[b][i].frames /\ p.hash = Chain[b][i].hash
        BY <2>4, <3>2
      <3>4. /\ MatchingTraces(pairs, request.addresses) \subseteq InBlock(b)
            /\ InBlock(b) \ OfUntraced(b, untraced)
                 \subseteq MatchingTraces(pairs, request.addresses)
        BY <3>2, <3>3, TracesOfPairs, PairsOfTraces
      <3>5. TaskFrame(b) /\ task'[b] = "returned"
            /\ found'[b] = MatchingTraces(pairs, request.addresses)
        BY <1>1, <2>2, <3>1 DEF TaskFrame
      <3> QED BY <2>2, <3>4, <3>5, TaskKeepsInvariant
    <2> QED BY <2>3, <2>4
  <1>4. CASE TraceIsNull(b)
    <2>1. /\ task[b] = "tracing" /\ lost' = lost \cup InBlock(b)
          /\ task' = [task EXCEPT ![b] = "returned"]
          /\ found' = [found EXCEPT ![b] = MatchingTraces({}, request.addresses)]
          /\ UNCHANGED <<request, client, phase, chunk, entries, asked, failed, traces>>
      BY <1>4 DEF TraceIsNull, Returned, InBlock
    <2>2. MatchingTraces({}, request.addresses) = {}
      BY DEF MatchingTraces
    <2>3. TaskFrame(b) /\ task'[b] = "returned" /\ found'[b] = {}
      BY <1>1, <2>1, <2>2 DEF TaskFrame
    <2> QED BY <2>1, <2>3, TaskKeepsInvariant
  <1>5. ASSUME MapEntries(b) PROVE DiscoveryInvariant'
    <2>1. PICK untraced \in SUBSET DOMAIN Chain[b] :
            entries[b] = Entries(b, untraced) /\ OfUntraced(b, untraced) \subseteq lost
      BY <1>5 DEF MapEntries, DiscoveryInvariant, TasksSound
    <2> DEFINE pairs == Normalize(entries[b], BlockHashes(b))
    <2>2. /\ task[b] = "mapping" /\ task' = [task EXCEPT ![b] = "returned"]
          /\ found' = [found EXCEPT ![b] = MatchingTraces(pairs, request.addresses)]
          /\ entries' = [entries EXCEPT ![b] = <<>>] /\ lost' = lost
          /\ UNCHANGED <<request, client, phase, chunk, asked, failed, traces>>
      BY <1>5 DEF MapEntries, Returned
    <2>3. /\ \A p \in pairs : \E i \in DOMAIN Chain[b] \ untraced :
               p.frames = Chain[b][i].frames /\ p.hash \in {Chain[b][i].hash, None}
          /\ \A i \in DOMAIN Chain[b] \ untraced : \E p \in pairs :
               /\ p.frames = Chain[b][i].frames /\ p.hash \in {Chain[b][i].hash, None}
               /\ BlockHashes(b) # <<>> => p.hash # None
      <3> DEFINE mapped == Normalize(Entries(b, untraced), BlockHashes(b))
      <3>1. /\ \A p \in mapped : \E i \in DOMAIN Chain[b] \ untraced :
                 p.frames = Chain[b][i].frames /\ p.hash \in {Chain[b][i].hash, None}
            /\ \A i \in DOMAIN Chain[b] \ untraced : \E p \in mapped :
                 /\ p.frames = Chain[b][i].frames /\ p.hash \in {Chain[b][i].hash, None}
                 /\ BlockHashes(b) # <<>> => p.hash # None
        BY PairsOfBlock, Zenon
      <3>2. pairs = mapped BY <2>1
      <3> HIDE DEF pairs, mapped
      <3> QED BY <3>1, <3>2
    <2> HIDE DEF pairs
    <2>4. \A i \in DOMAIN Chain[b] : BlockHashes(b) # <<>>
      <3> SUFFICES ASSUME NEW i \in DOMAIN Chain[b], BlockHashes(b) = <<>> PROVE FALSE
        OBVIOUS
      <3>1. DOMAIN BlockHashes(b) = DOMAIN Chain[b] BY DEF BlockHashes
      <3> QED BY <3>1
    <2>5. \A i \in DOMAIN Chain[b] \ untraced : \E p \in pairs :
            p.frames = Chain[b][i].frames /\ p.hash = Chain[b][i].hash
      BY <2>3, <2>4
    <2>6. /\ MatchingTraces(pairs, request.addresses) \subseteq InBlock(b)
          /\ InBlock(b) \ OfUntraced(b, untraced)
               \subseteq MatchingTraces(pairs, request.addresses)
      BY <2>3, <2>5, TracesOfPairs, PairsOfTraces
    <2>7. TaskFrame(b) /\ task'[b] = "returned"
          /\ found'[b] = MatchingTraces(pairs, request.addresses)
      BY <1>1, <2>2 DEF TaskFrame
    <2> QED BY <2>1, <2>2, <2>6, <2>7, TaskKeepsInvariant
  <1>6. ASSUME DropEntries(b) PROVE DiscoveryInvariant'
    <2>1. PICK untraced \in SUBSET DOMAIN Chain[b] : entries[b] = Entries(b, untraced)
      BY <1>6 DEF DropEntries, DiscoveryInvariant, TasksSound
    <2> DEFINE pairs == Normalize(entries[b], <<>>)
    <2>2. /\ task[b] = "mapping" /\ task' = [task EXCEPT ![b] = "returned"]
          /\ found' = [found EXCEPT ![b] = MatchingTraces(pairs, request.addresses)]
          /\ entries' = [entries EXCEPT ![b] = <<>>] /\ lost' = lost \cup InBlock(b)
          /\ UNCHANGED <<request, client, phase, chunk, asked, failed, traces>>
      BY <1>6 DEF DropEntries, Returned, InBlock
    <2>3. \A p \in pairs : \E i \in DOMAIN Chain[b] \ untraced :
            p.frames = Chain[b][i].frames /\ p.hash \in {Chain[b][i].hash, None}
      <3>1. \A p \in Normalize(Entries(b, untraced), <<>>) :
              \E i \in DOMAIN Chain[b] \ untraced :
                  p.frames = Chain[b][i].frames /\ p.hash \in {Chain[b][i].hash, None}
        BY PairsOfBlock, ZenonT(60)
      <3> QED BY <2>1, <3>1
    <2> HIDE DEF pairs
    <2>4. MatchingTraces(pairs, request.addresses) \subseteq InBlock(b)
      BY <2>3, TracesOfPairs
    <2>5. TaskFrame(b) /\ task'[b] = "returned"
          /\ found'[b] = MatchingTraces(pairs, request.addresses)
      BY <1>1, <2>2 DEF TaskFrame
    <2> QED BY <2>2, <2>4, <2>5, TaskKeepsInvariant
  <1>7. ASSUME RetryTask(b) PROVE DiscoveryInvariant'
    <2>1. /\ UNCHANGED <<request, client, phase, chunk, task, entries, found, asked,
                         failed, traces, lost>>
          /\ task[b] # "none"
      BY <1>7 DEF RetryTask, Active
    <2>2. TaskFrame(b) BY <1>1, <2>1 DEF TaskFrame
    <2> QED BY <2>1, <2>2, TaskKeepsInvariant DEF DiscoveryInvariant, TasksSound
  <1>8. ASSUME TaskRaises(b) PROVE DiscoveryInvariant'
    <2>1. TaskFrame(b) /\ task[b] # "none" /\ task'[b] = "raised"
      BY <1>1, <1>8 DEF TaskRaises, TaskFrame, Active
    <2> QED BY <2>1, TaskKeepsInvariant
  <1> QED BY <1>2, <1>3, <1>4, <1>5, <1>6, <1>7, <1>8 DEF TaskStep
-----------------------------------------------------------------------------
(* The steps of the scan itself.                                           *)
(* Leaving a chunk: its traces are those of its blocks, unless it failed.  *)
LEMMA LeaveKeepsInvariant ==
    ASSUME DiscoveryInvariant, InChunk, NEW newTraces, NEW newFailed,
           LeaveChunk(newTraces, newFailed),
           UNCHANGED <<request, client, phase, task, entries, found, lost>>,
           newTraces \subseteq Sought(ChunkBlocks(chunk), request.addresses),
           newFailed = {} =>
               Sought(ChunkBlocks(chunk), request.addresses) \ lost \subseteq newTraces
    PROVE  DiscoveryInvariant'
  <1>1. /\ traces' = traces \cup newTraces /\ failed' = failed \cup newFailed
        /\ chunk' = ChunkEnd(chunk) + 1 /\ asked' = {}
        /\ phase = "tracing" /\ chunk <= request.end
    BY DEF LeaveChunk, InChunk
  <1>2. LocalsTyped /\ TasksSound /\ TracesSound /\ FilterSound
    BY DEF DiscoveryInvariant
  <1>3. /\ request \in Requests /\ chunk \in Nat /\ request.start <= chunk
        /\ request.start \in Nat /\ request.end \in Nat
    BY <1>2, DiscoveryAssumption DEF LocalsTyped
  <1>4. /\ ChunkEnd(chunk) \in Nat /\ chunk <= ChunkEnd(chunk) /\ ChunkEnd(chunk) <= request.end
        /\ ChunkBlocks(chunk) \subseteq Blocks
        /\ \A b \in Blocks : b \in ChunkBlocks(chunk) <=> chunk <= b /\ b <= ChunkEnd(chunk)
    BY <1>1, <1>2, ChunkInWindow
  <1>5. \A b \in Blocks : b \in Nat BY DiscoveryAssumption
  <1>6. LocalsTyped'
    BY <1>1, <1>2, <1>3, <1>4 DEF LocalsTyped
  <1>7. TasksSound'
    BY <1>2, SameChain DEF TasksSound
  <1>8. Passed' = Passed \cup ChunkBlocks(chunk)
    BY <1>1, <1>3, <1>4, <1>5 DEF Passed
  <1>9. TracesSound'
    <2>2. Sought(Passed, request.addresses)'
            = Sought(Passed \cup ChunkBlocks(chunk), request.addresses)
      BY <1>8 DEF Sought
    <2>3. Sought(Passed \cup ChunkBlocks(chunk), request.addresses)
            = Sought(Passed, request.addresses) \cup Sought(ChunkBlocks(chunk), request.addresses)
      <3> DEFINE both == Sought(Passed \cup ChunkBlocks(chunk), request.addresses)
                 one == Sought(Passed, request.addresses)
                 other == Sought(ChunkBlocks(chunk), request.addresses)
      <3>1. ASSUME NEW t PROVE t \in both <=> t \in one \/ t \in other
        <4>1. t \in one <=> \E b \in Passed : t \in Sought({b}, request.addresses)
          BY SoughtByBlock, Zenon
        <4>2. t \in other <=> \E b \in ChunkBlocks(chunk) : t \in Sought({b}, request.addresses)
          BY SoughtByBlock, Zenon
        <4>3. t \in both <=> \E b \in Passed \cup ChunkBlocks(chunk) :
                                t \in Sought({b}, request.addresses)
          BY SoughtByBlock, Zenon
        <4> HIDE DEF both, one, other
        <4> QED BY <4>1, <4>2, <4>3
      <3> HIDE DEF both, one, other
      <3>2. both = one \cup other BY <3>1
      <3> QED BY <3>2 DEF both, one, other
    <2> QED BY <1>1, <1>2, <2>2, <2>3 DEF TracesSound
  <1>10. FilterSound'
    <2> SUFFICES ASSUME client = "filter" PROVE FilterSound'
      BY DEF FilterSound
    <2>1. \A b \in Blocks : task[b] = "none" /\ (b > chunk => found[b] = {})
      BY <1>2 DEF FilterSound
    <2>2. \A b \in Blocks : task'[b] = "none" /\ (b >= chunk' => found'[b] = {})
      BY <1>1, <1>3, <1>4, <1>5, <2>1
    <2>3. \A blocks : Sought(blocks, asked)' = {}
      BY <1>1 DEF Sought
    <2>4. chunk' \in Nat BY <1>1, <1>4
    <2> QED BY <1>1, <1>5, <2>2, <2>3, <2>4 DEF FilterSound
  <1> QED BY <1>6, <1>7, <1>9, <1>10 DEF DiscoveryInvariant

(* The traces that the tasks of the current chunk returned.                *)
LEMMA ChunkOfTasks ==
    ASSUME DiscoveryInvariant, ChunkTraced
    PROVE  DiscoveryInvariant'
  <1> DEFINE new == UNION {found[b] : b \in ChunkBlocks(chunk)}
  <1>1. /\ InChunk /\ LeaveChunk(new, {})
        /\ \A b \in ChunkBlocks(chunk) : task[b] = "returned"
        /\ UNCHANGED <<request, client, phase, task, entries, found, lost>>
    BY DEF ChunkTraced
  <1>2. ChunkBlocks(chunk) \subseteq Blocks
    BY <1>1, ChunkInWindow DEF InChunk, DiscoveryInvariant
  <1>3. \A b \in ChunkBlocks(chunk) :
          found[b] \subseteq InBlock(b) /\ InBlock(b) \ lost \subseteq found[b]
    BY <1>1, <1>2 DEF DiscoveryInvariant, TasksSound
  <1>4. \A t : t \in Sought(ChunkBlocks(chunk), request.addresses) <=>
                  \E b \in ChunkBlocks(chunk) : t \in InBlock(b)
    BY SoughtByBlock, Zenon DEF InBlock
  <1>5. new \subseteq Sought(ChunkBlocks(chunk), request.addresses)
    BY <1>3, <1>4
  <1>6. Sought(ChunkBlocks(chunk), request.addresses) \ lost \subseteq new
    BY <1>3, <1>4
  <1> HIDE DEF new
  <1> QED BY <1>1, <1>5, <1>6, LeaveKeepsInvariant

(* A reply, or a null, of the trace namespace.                             *)
LEMMA FilterAsked ==
    ASSUME DiscoveryInvariant, FilterCall, NEW new,
           /\ asked' = asked \cup NextAddresses
           /\ found' = [found EXCEPT ![chunk] = @ \cup new]
           /\ new \subseteq Sought(ChunkBlocks(chunk), NextAddresses)
           /\ lost \subseteq lost'
           /\ Sought(ChunkBlocks(chunk), NextAddresses) \ lost' \subseteq new
           /\ UNCHANGED <<request, client, phase, chunk, task, entries, failed, traces>>
    PROVE  DiscoveryInvariant'
  <1>1. LocalsTyped /\ TasksSound /\ TracesSound /\ FilterSound
    BY DEF DiscoveryInvariant
  <1>2. client = "filter" /\ chunk <= request.end
    BY DEF FilterCall, InChunk
  <1>3. chunk \in Blocks /\ DOMAIN found = Blocks
    BY <1>1, <1>2, ChunkInWindow DEF LocalsTyped
  <1>4. NextAddresses \subseteq request.addresses
    BY <1>1, NextAddressesRemain
  <1>5. LocalsTyped'
    BY <1>1, <1>3 DEF LocalsTyped
  <1>6. \A b \in Blocks : task'[b] = "none"
    BY <1>1, <1>2 DEF FilterSound
  <1>7. TasksSound'
    BY <1>6 DEF TasksSound
  <1>8. TracesSound'
    BY <1>1 DEF TracesSound, Passed, Sought
  <1>9. FilterSound'
    <2> DEFINE all == Sought(ChunkBlocks(chunk), request.addresses)
               before == Sought(ChunkBlocks(chunk), asked)
               batch == Sought(ChunkBlocks(chunk), NextAddresses)
    <2>1. found[chunk] \subseteq all /\ before \ lost \subseteq found[chunk]
      BY <1>1, <1>2, <1>3 DEF FilterSound
    <2>2. batch \subseteq all
      BY <1>4, SoughtFromMore
    <2>3. Sought(ChunkBlocks(chunk), asked \cup NextAddresses) = before \cup batch
      BY SoughtByAddress
    <2>4. found'[chunk] = found[chunk] \cup new
      BY <1>3
    <2>5. /\ Sought(ChunkBlocks(chunk), request.addresses)' = all
          /\ Sought(ChunkBlocks(chunk), asked)'
               = Sought(ChunkBlocks(chunk), asked \cup NextAddresses)
      BY DEF Sought, ChunkBlocks, ChunkEnd
    <2> HIDE DEF all, before, batch
    <2>6. found'[chunk] \subseteq all
      BY <2>1, <2>2, <2>4 DEF batch
    <2>7. (before \cup batch) \ lost' \subseteq found'[chunk]
      BY <2>1, <2>4 DEF batch
    <2>8. \A b \in Blocks : b > chunk => found'[b] = {}
      <3> SUFFICES ASSUME NEW b \in Blocks, b > chunk PROVE found'[b] = {}
        OBVIOUS
      <3>1. b # chunk
        BY <1>1, DiscoveryAssumption DEF LocalsTyped
      <3> QED BY <1>1, <1>2, <1>3, <3>1 DEF FilterSound
    <2>9. asked' \subseteq request.addresses
      BY <1>1, <1>2, <1>4 DEF FilterSound
    <2> QED BY <1>6, <2>3, <2>5, <2>6, <2>7, <2>8, <2>9 DEF FilterSound
  <1> QED BY <1>5, <1>7, <1>8, <1>9 DEF DiscoveryInvariant
-----------------------------------------------------------------------------
LEMMA DiscoveryStep == DiscoveryInvariant /\ [DiscoveryNext]_discoveryVars => DiscoveryInvariant'
  <1> SUFFICES ASSUME DiscoveryInvariant, [DiscoveryNext]_discoveryVars
               PROVE  DiscoveryInvariant'
    OBVIOUS
  <1>1. LocalsTyped /\ TasksSound /\ TracesSound /\ FilterSound
    BY DEF DiscoveryInvariant
  <1>2. CASE UNCHANGED discoveryVars
    <2>1. UNCHANGED <<request, client, phase, chunk, task, entries, found, asked,
                      failed, traces, lost>>
      BY <1>2 DEF discoveryVars
    <2>2. LocalsTyped' BY <1>1, <2>1 DEF LocalsTyped
    <2>3. TasksSound' BY <1>1, <2>1, SameChain DEF TasksSound
    <2>4. TracesSound' BY <1>1, <2>1 DEF TracesSound, Passed, Sought
    <2>5. FilterSound' BY <1>1, <2>1 DEF FilterSound, Sought, ChunkBlocks, ChunkEnd
    <2> QED BY <2>2, <2>3, <2>4, <2>5 DEF DiscoveryInvariant
  <1>3. CASE StartChunk
    <2>1. /\ UNCHANGED <<request, client, phase, chunk, entries, found, asked,
                         failed, traces, lost>>
          /\ client # "filter"
          /\ task' = [b \in Blocks |-> IF b \in ChunkBlocks(chunk) THEN "waiting" ELSE task[b]]
      BY <1>3 DEF StartChunk
    <2>2. LocalsTyped' BY <1>1, <2>1 DEF LocalsTyped
    <2>3. \A b \in Blocks : task'[b] \in {"waiting", task[b]} BY <2>1
    <2>4. TasksSound' BY <1>1, <2>1, <2>3, SameChain DEF TasksSound
    <2>5. TracesSound' BY <1>1, <2>1 DEF TracesSound, Passed, Sought
    <2>6. FilterSound' BY <2>1 DEF FilterSound
    <2> QED BY <2>2, <2>4, <2>5, <2>6 DEF DiscoveryInvariant
  <1>4. CASE ChunkTraced BY <1>4, ChunkOfTasks
  <1>5. CASE ChunkFails
    <2>1. /\ InChunk /\ LeaveChunk({}, {chunk})
          /\ UNCHANGED <<request, client, phase, task, entries, found, lost>>
      BY <1>5 DEF ChunkFails
    <2>2. {} \subseteq Sought(ChunkBlocks(chunk), request.addresses) /\ {chunk} # {}
      OBVIOUS
    <2> QED BY <2>1, <2>2, LeaveKeepsInvariant
  <1>13. CASE FilterReply
    <2> DEFINE new == Sought(ChunkBlocks(chunk), NextAddresses)
    <2>1. /\ FilterCall /\ asked' = asked \cup NextAddresses
          /\ found' = [found EXCEPT ![chunk] = @ \cup new]
          /\ lost' = lost
          /\ UNCHANGED <<request, client, phase, chunk, task, entries, failed, traces>>
      BY <1>13 DEF FilterReply
    <2>2. new \subseteq Sought(ChunkBlocks(chunk), NextAddresses)
          /\ Sought(ChunkBlocks(chunk), NextAddresses) \ lost' \subseteq new
      OBVIOUS
    <2> HIDE DEF new
    <2> QED BY <2>1, <2>2, FilterAsked
  <1>6. CASE FilterIsNull
    <2>1. /\ FilterCall /\ asked' = asked \cup NextAddresses
          /\ lost' = lost \cup Sought(ChunkBlocks(chunk), NextAddresses)
          /\ UNCHANGED <<request, client, phase, chunk, task, entries, found, failed, traces>>
      BY <1>6 DEF FilterIsNull
    <2>2. LocalsTyped' BY <1>1, <2>1 DEF LocalsTyped
    <2>3. client = "filter" /\ chunk <= request.end BY <2>1 DEF FilterCall, InChunk
    <2>4. TasksSound' BY <1>1, <2>1, <2>3 DEF TasksSound, FilterSound
    <2>5. TracesSound' BY <1>1, <2>1 DEF TracesSound, Passed, Sought
    <2>6. FilterSound'
      <3>1. NextAddresses \subseteq request.addresses BY <1>1, NextAddressesRemain
      <3>2. asked' \subseteq request.addresses BY <1>1, <2>1, <2>3, <3>1 DEF FilterSound
      <3>3. /\ Sought(ChunkBlocks(chunk), request.addresses)'
                 = Sought(ChunkBlocks(chunk), request.addresses)
            /\ Sought(ChunkBlocks(chunk), asked)'
                 = Sought(ChunkBlocks(chunk), asked \cup NextAddresses)
        BY <2>1 DEF Sought, ChunkBlocks, ChunkEnd
      <3>4. Sought(ChunkBlocks(chunk), asked \cup NextAddresses)
              = Sought(ChunkBlocks(chunk), asked) \cup Sought(ChunkBlocks(chunk), NextAddresses)
        BY SoughtByAddress
      <3>5. /\ found[chunk] \subseteq Sought(ChunkBlocks(chunk), request.addresses)
            /\ Sought(ChunkBlocks(chunk), asked) \ lost \subseteq found[chunk]
            /\ \A b \in Blocks : task[b] = "none" /\ (b > chunk => found[b] = {})
        BY <1>1, <2>3, ChunkInWindow DEF FilterSound
      <3> QED BY <2>1, <3>2, <3>3, <3>4, <3>5 DEF FilterSound
    <2> QED BY <2>2, <2>4, <2>5, <2>6 DEF DiscoveryInvariant
  <1>7. CASE RetryFilter
    <2>1. UNCHANGED <<request, client, phase, chunk, task, entries, found, asked,
                      failed, traces, lost>>
      BY <1>7 DEF RetryFilter
    <2>2. LocalsTyped' BY <1>1, <2>1 DEF LocalsTyped
    <2>3. TasksSound' BY <1>1, <2>1, SameChain DEF TasksSound
    <2>4. TracesSound' BY <1>1, <2>1 DEF TracesSound, Passed, Sought
    <2>5. FilterSound' BY <1>1, <2>1 DEF FilterSound, Sought, ChunkBlocks, ChunkEnd
    <2> QED BY <2>2, <2>3, <2>4, <2>5 DEF DiscoveryInvariant
  <1>8. CASE FilterRaises
    <2>1. /\ InChunk /\ LeaveChunk({}, {chunk})
          /\ UNCHANGED <<request, client, phase, task, entries, found, lost>>
      BY <1>8 DEF FilterRaises, FilterCall
    <2>2. {} \subseteq Sought(ChunkBlocks(chunk), request.addresses) /\ {chunk} # {}
      OBVIOUS
    <2> QED BY <2>1, <2>2, LeaveKeepsInvariant
  <1>9. CASE FilterDone
    <2>1. /\ InChunk /\ LeaveChunk(found[chunk], {})
          /\ client = "filter" /\ asked = request.addresses
          /\ UNCHANGED <<request, client, phase, task, entries, found, lost>>
      BY <1>9 DEF FilterDone
    <2>2. /\ found[chunk] \subseteq Sought(ChunkBlocks(chunk), request.addresses)
          /\ Sought(ChunkBlocks(chunk), request.addresses) \ lost \subseteq found[chunk]
      BY <1>1, <2>1, ChunkInWindow DEF FilterSound, InChunk
    <2> QED BY <2>1, <2>2, LeaveKeepsInvariant
  <1>10. CASE WindowTraced
    <2>1. /\ UNCHANGED <<request, client, chunk, task, entries, found, asked,
                         failed, traces, lost>>
          /\ chunk > request.end /\ phase' = IF failed = {} THEN "traced" ELSE "raised"
      BY <1>10 DEF WindowTraced
    <2>2. LocalsTyped' BY <1>1, <2>1 DEF LocalsTyped
    <2>3. TasksSound' BY <1>1, <2>1, SameChain DEF TasksSound
    <2>4. TracesSound' BY <1>1, <2>1 DEF TracesSound, Passed, Sought
    <2>5. FilterSound' BY <1>1, <2>1 DEF FilterSound, Sought, ChunkBlocks, ChunkEnd
    <2> QED BY <2>2, <2>3, <2>4, <2>5 DEF DiscoveryInvariant
  <1>11. CASE CancelTasks
    <2>1. /\ UNCHANGED <<request, client, phase, chunk, entries, found, asked,
                         failed, traces, lost>>
          /\ task' = [b \in Blocks |-> IF task[b] = "waiting" \/ b \in Active
                                       THEN "cancelled" ELSE task[b]]
      BY <1>11 DEF CancelTasks
    <2>2. LocalsTyped' BY <1>1, <2>1 DEF LocalsTyped
    <2>3. \A b \in Blocks : task'[b] \in {"cancelled", task[b]} BY <2>1
    <2>4. \A b \in Blocks : task[b] = "none" => task'[b] = "none" BY <2>1 DEF Active
    <2>5. TasksSound' BY <1>1, <2>1, <2>3, SameChain DEF TasksSound
    <2>6. TracesSound' BY <1>1, <2>1 DEF TracesSound, Passed, Sought
    <2>7. FilterSound'
      BY <1>1, <2>1, <2>4 DEF FilterSound, Sought, ChunkBlocks, ChunkEnd
    <2> QED BY <2>2, <2>5, <2>6, <2>7 DEF DiscoveryInvariant
  <1>12. ASSUME NEW b \in Blocks, TaskStep(b) PROVE DiscoveryInvariant'
    BY <1>12, TaskStepKeepsInvariant
  <1> QED
    BY <1>2, <1>3, <1>4, <1>5, <1>13, <1>6, <1>7, <1>8, <1>9, <1>10, <1>11, <1>12
    DEF DiscoveryNext, ScanStep, FilterStep

(* The stages after the discovery leave its variables alone.               *)
LEMMA ScanIsDiscovery == [ScanNext]_scanVars => [DiscoveryNext]_discoveryVars
  <1> SUFFICES ASSUME [ScanNext]_scanVars PROVE [DiscoveryNext]_discoveryVars
    OBVIOUS
  <1>1. CASE UNCHANGED scanVars BY <1>1 DEF scanVars
  <1>2. CASE DiscoveryNext BY <1>2
  <1>3. CASE StageStep
    BY <1>3 DEF StageStep, NothingFound, HeuristicsDisabled, CollectReceipts, BatchReply,
                ForwardReceipts, ApplyHeuristics, AskAlone
  <1>4. CASE ReceiptsRaise BY <1>4 DEF ReceiptsRaise
  <1> QED BY <1>1, <1>2, <1>3, <1>4 DEF ScanNext

(* When the window is through, the chunks that are through are the window. *)
LEMMA InvariantSuffices == DiscoveryInvariant => NoTransactionMissed
  <1> SUFFICES ASSUME DiscoveryInvariant, phase = "traced"
               PROVE  /\ traces \subseteq Sought(Window, request.addresses)
                      /\ Sought(Window, request.addresses) \ lost \subseteq traces
    BY DEF NoTransactionMissed
  <1>1. /\ request \in Requests /\ chunk > request.end /\ chunk <= request.end + 1
        /\ failed = {} /\ chunk \in Nat
    BY DEF DiscoveryInvariant, LocalsTyped
  <1>2. Passed = Window
    <2>1. request.end \in Nat /\ \A b \in Blocks : b \in Nat
      BY <1>1, DiscoveryAssumption
    <2>2. \A b \in Blocks : b < chunk <=> b <= request.end
      BY <1>1, <2>1
    <2> QED BY <2>2 DEF Passed, Window
  <1> QED BY <1>1, <1>2 DEF DiscoveryInvariant, TracesSound

(* No transaction of the addresses is missed and none is made up, for any  *)
(* chain, any sizes and any node (collect_tx_contexts,                     *)
(* collect_pool_competition).                                              *)
THEOREM WindowIsComplete == ScanSpec => []NoTransactionMissed
  <1>1. ScanInit => DiscoveryInvariant
    BY InitInvariant DEF ScanInit
  <1>2. DiscoveryInvariant /\ [ScanNext]_scanVars => DiscoveryInvariant'
    BY ScanIsDiscovery, DiscoveryStep
  <1> QED BY <1>1, <1>2, InvariantSuffices, PTL DEF ScanSpec
-----------------------------------------------------------------------------
TaskStates == {"none", "waiting", "tracing", "mapping", "returned", "raised", "cancelled"}

(* No block has a task before its chunk begins.                            *)
Unstarted ==
    \A b \in Blocks :
        b >= chunk /\ (b > ChunkEnd(chunk) \/ task[chunk] = "none") => task[b] = "none"

(* The discovery has its type.  Only blocks of the window have a task, so  *)
(* nothing is lost outside of it.                                          *)
DiscoveryTyped ==
    /\ client \in Clients /\ settings \in Settings
    /\ phase \in {"tracing", "traced", "raised"}
    /\ task \in [Blocks -> TaskStates]
    /\ attempt \in [Blocks -> 0..(Retries - 1)]
    /\ \A b \in Blocks : entries[b] # <<>> => task[b] \in {"mapping", "cancelled"}
    /\ asked \subseteq request.addresses
    /\ failed \subseteq request.start..request.end
    /\ lost \subseteq Sought(Window, request.addresses)
    /\ \A b \in Blocks : task[b] # "none" => b \in Window
    /\ Unstarted

(* What the later stages know of the receipts they want, and what a scan   *)
(* returns.                                                                *)
ReceiptsTyped ==
    /\ toAsk \in Seq(Wanted)
    /\ unresolved \subseteq Wanted /\ receipts \subseteq Wanted /\ silent \subseteq Wanted

AsksForReceipts == request.kind = "reverse" => settings.enabled

(* The result of a scan that could look at the amounts.                    *)
ResultIs(approved) ==
    /\ result = ReverseResult(approved)
    /\ usd # <<>> =>
         \E known, usdOf : /\ known = receipts /\ usdOf = usd /\ usdOf \in Pricings
                           /\ approved = Approved(known, usdOf)

StageSound ==
    /\ stage \in {"discovery", "receipts", "done", "raised"}
    /\ stage # "discovery" => phase = "traced"
    /\ stage = "discovery" => /\ toAsk = <<>> /\ unresolved = {} /\ receipts = {}
                              /\ silent = {} /\ usd = <<>>
    /\ ReceiptsTyped
    /\ stage = "receipts" =>
         /\ AsksForReceipts
         /\ Wanted = Range(toAsk) \cup unresolved \cup receipts \cup silent
    /\ stage = "done" /\ AsksForReceipts => Wanted = receipts \cup silent
    /\ stage = "done" /\ request.kind = "reverse" =>
         \E approved \in SUBSET Competitors : ResultIs(approved)

ScanInvariant == DiscoveryInvariant /\ DiscoveryTyped /\ StageSound
-----------------------------------------------------------------------------
LEMMA InitTyped == ScanInit => DiscoveryTyped /\ StageSound
  <1> SUFFICES ASSUME ScanInit PROVE DiscoveryTyped /\ StageSound
    OBVIOUS
  <1>1. Retries \in Nat /\ Retries # 0 BY DiscoveryAssumption
  <1>2. DiscoveryTyped
    BY <1>1 DEF ScanInit, DiscoveryInit, DiscoveryTyped, TaskStates, Unstarted
  <1>3. StageSound
    BY DEF ScanInit, StageSound, ReceiptsTyped
  <1> QED BY <1>2, <1>3

(* What a block of the window, or the current chunk, holds, the window     *)
(* holds.                                                                  *)
LEMMA BlockInWindow ==
    ASSUME NEW b \in Window
    PROVE  InBlock(b) \subseteq Sought(Window, request.addresses)
  BY SoughtByBlock DEF InBlock

LEMMA ChunkOfWindow ==
    ASSUME LocalsTyped, chunk <= request.end
    PROVE  /\ ChunkBlocks(chunk) \subseteq Window
           /\ \A addresses \in SUBSET request.addresses :
                Sought(ChunkBlocks(chunk), addresses) \subseteq Sought(Window, request.addresses)
  <1>1. /\ request.start \in Nat /\ request.end \in Nat /\ chunk \in Nat
        /\ request.start <= chunk
    BY DiscoveryAssumption DEF LocalsTyped
  <1>2. /\ ChunkEnd(chunk) \in Nat /\ ChunkEnd(chunk) <= request.end
        /\ ChunkBlocks(chunk) \subseteq Blocks
        /\ \A b \in Blocks : b \in ChunkBlocks(chunk) <=> chunk <= b /\ b <= ChunkEnd(chunk)
    BY ChunkInWindow
  <1>3. \A b \in Blocks : b \in Nat BY DiscoveryAssumption
  <1>4. ASSUME NEW b \in ChunkBlocks(chunk) PROVE b \in Window
    <2>1. b \in Blocks /\ b \in Nat /\ chunk <= b /\ b <= ChunkEnd(chunk)
      BY <1>2, <1>3
    <2> QED BY <1>1, <1>2, <2>1 DEF Window
  <1>5. ChunkBlocks(chunk) \subseteq Window BY <1>4
  <1>6. ASSUME NEW addresses \in SUBSET request.addresses,
               NEW t \in Sought(ChunkBlocks(chunk), addresses)
        PROVE  t \in Sought(Window, request.addresses)
    <2>1. t \in Sought(ChunkBlocks(chunk), request.addresses) BY SoughtFromMore
    <2>2. PICK b \in ChunkBlocks(chunk) : t \in Sought({b}, request.addresses)
      BY <2>1, SoughtByBlock
    <2>3. b \in Window BY <1>5
    <2> QED BY <2>2, <2>3, SoughtByBlock
  <1> QED BY <1>5, <1>6

LEMMA SameWindow ==
    ASSUME request' = request
    PROVE  Window' = Window /\ Sought(Window, request.addresses)' = Sought(Window, request.addresses)
  BY DEF Window, Sought

LEMMA NoTaskBefore ==
    ASSUME LocalsTyped, DiscoveryTyped, chunk' = chunk, request' = request,
           \A b \in Blocks : task'[b] = "none" <=> task[b] = "none"
    PROVE  Unstarted'
  <1>1. ChunkEnd(chunk)' = ChunkEnd(chunk) BY DEF ChunkEnd
  <1>2. CASE chunk \in Blocks
    BY <1>1, <1>2 DEF DiscoveryTyped, Unstarted
  <1>3. CASE chunk \notin Blocks
    <2>1. chunk = request.end + 1
      BY <1>3, DiscoveryAssumption DEF LocalsTyped
    <2>2. \A b \in Blocks : b >= chunk => b \notin Window
      BY <2>1, DiscoveryAssumption DEF Window, LocalsTyped
    <2> QED BY <2>2 DEF DiscoveryTyped, Unstarted
  <1> QED BY <1>2, <1>3

(* The steps of one task.                                                  *)
LEMMA TaskKeepsTyped ==
    ASSUME DiscoveryInvariant, DiscoveryTyped, NEW b \in Blocks, TaskStep(b),
           settings' = settings
    PROVE  DiscoveryTyped'
  <1> USE DEF DiscoveryTyped, TaskStates
  <1>11. chunk' = chunk /\ \A a \in Blocks : task'[a] = "none" <=> task[a] = "none"
    BY DEF TaskStep, Acquire, TraceReply, TraceIsNull, MapEntries, DropEntries, RetryTask,
           TaskRaises, Returned, Active
  <1>12. LocalsTyped BY DEF DiscoveryInvariant
  <1>1. /\ request' = request /\ client' = client /\ phase' = phase /\ asked' = asked
        /\ failed' = failed
    BY DEF TaskStep, Acquire, TraceReply, TraceIsNull, MapEntries, DropEntries, RetryTask,
           TaskRaises
  <1>2. b \in Window
    BY DEF TaskStep, Acquire, TraceReply, TraceIsNull, MapEntries, DropEntries, RetryTask,
           TaskRaises, Active
  <1>3. lost' \subseteq lost \cup InBlock(b)
    BY DEF TaskStep, Acquire, TraceReply, TraceIsNull, MapEntries, DropEntries, RetryTask,
           TaskRaises, InBlock
  <1>4. lost' \subseteq Sought(Window, request.addresses)'
    BY <1>1, <1>2, <1>3, BlockInWindow, SameWindow
  <1>5. DOMAIN entries = Blocks BY DEF DiscoveryInvariant, LocalsTyped
  <1>6. Retries \in Nat \ {0} BY DiscoveryAssumption
  <1>7. /\ task' \in [Blocks -> TaskStates]
        /\ \A a \in Blocks \ {b} : task'[a] = task[a] /\ entries'[a] = entries[a]
        /\ entries'[b] # <<>> => task'[b] \in {"mapping", "cancelled"}
    BY <1>5 DEF TaskStep, Acquire, TraceReply, TraceIsNull, MapEntries, DropEntries, RetryTask,
           TaskRaises, Returned, Active
  <1>8. attempt' \in [Blocks -> 0..(Retries - 1)]
    <2> HIDE DEF DiscoveryTyped
    <2>1. \/ attempt' = attempt
          \/ attempt' = [attempt EXCEPT ![b] = 0]
          \/ (attempt[b] < Retries - 1 /\ attempt' = [attempt EXCEPT ![b] = attempt[b] + 1])
      <3>1. CASE Acquire(b) \/ TaskRaises(b) BY <3>1 DEF Acquire, TaskRaises
      <3>2. CASE TraceReply(b) BY <3>2 DEF TraceReply
      <3>3. CASE TraceIsNull(b) BY <3>3 DEF TraceIsNull
      <3>4. CASE MapEntries(b) \/ DropEntries(b) BY <3>4 DEF MapEntries, DropEntries
      <3>5. CASE RetryTask(b) BY <3>5 DEF RetryTask
      <3> QED BY <3>1, <3>2, <3>3, <3>4, <3>5 DEF TaskStep
    <2>2. attempt \in [Blocks -> 0..(Retries - 1)] BY DEF DiscoveryTyped
    <2>3. attempt[b] \in Nat BY <2>2
    <2> QED BY <1>6, <2>1, <2>2, <2>3
  <1>9. \A a \in Blocks : entries'[a] # <<>> => task'[a] \in {"mapping", "cancelled"}
    BY <1>7
  <1>10. \A a \in Blocks : task'[a] # "none" => a \in Window'
    BY <1>1, <1>2, <1>7, SameWindow
  <1>13. Unstarted'
    <2> HIDE DEF DiscoveryTyped
    <2> QED BY <1>1, <1>11, <1>12, NoTaskBefore
  <1> QED BY <1>1, <1>4, <1>7, <1>8, <1>9, <1>10, <1>13

(* The steps of the scan itself.                                           *)
LEMMA DiscoveryKeepsTyped ==
    ASSUME DiscoveryInvariant, DiscoveryTyped, [DiscoveryNext]_discoveryVars,
           settings' = settings
    PROVE  DiscoveryTyped'
  <1>1. Retries \in Nat \ {0} BY DiscoveryAssumption
  <1>2. /\ LocalsTyped /\ chunk \in Nat
        /\ request.start \in Nat /\ request.end \in Nat /\ request.start <= chunk
    BY DiscoveryAssumption DEF DiscoveryInvariant, LocalsTyped
  <1>3. \A b \in Blocks : task[b] \in TaskStates BY DEF DiscoveryTyped
  <1>4. CASE UNCHANGED discoveryVars
    BY <1>2, <1>4, SameWindow, NoTaskBefore DEF DiscoveryTyped, discoveryVars
  <1>5. CASE StartChunk
    <2>1. /\ chunk <= request.end
          /\ task' = [b \in Blocks |-> IF b \in ChunkBlocks(chunk) THEN "waiting" ELSE task[b]]
          /\ UNCHANGED <<request, client, phase, chunk, attempt, entries, found, asked,
                         failed, traces, lost>>
          /\ task[chunk] = "none"
      BY <1>5 DEF StartChunk, InChunk
    <2>2. task' \in [Blocks -> TaskStates]
      BY <1>3, <2>1 DEF TaskStates
    <2>3. \A b \in Blocks : task'[b] # "none" => b \in Window'
      BY <1>2, <2>1, ChunkOfWindow, SameWindow DEF DiscoveryTyped
    <2>4. /\ \A b \in Blocks : b \in ChunkBlocks(chunk) <=> chunk <= b /\ b <= ChunkEnd(chunk)
          /\ chunk \in Blocks /\ chunk <= ChunkEnd(chunk) /\ ChunkEnd(chunk) \in Nat
      BY <1>2, <2>1, ChunkInWindow
    <2>5. \A b \in Blocks : b \in ChunkBlocks(chunk) => task[b] = "none"
      BY <1>2, <2>1, <2>4 DEF DiscoveryTyped, Unstarted
    <2>6. ChunkEnd(chunk)' = ChunkEnd(chunk) BY <2>1 DEF ChunkEnd
    <2>7. task'[chunk] = "waiting" BY <1>2, <2>1, <2>4
    <2>8. \A b \in Blocks : b > ChunkEnd(chunk) => task'[b] = task[b]
      BY <1>2, <2>1, <2>4, DiscoveryAssumption
    <2>9. Unstarted'
      BY <2>1, <2>6, <2>7, <2>8 DEF DiscoveryTyped, Unstarted
    <2> QED
      BY <2>1, <2>2, <2>3, <2>5, <2>9, SameWindow DEF DiscoveryTyped
  <1>6. CASE ChunkTraced \/ ChunkFails \/ FilterRaises \/ FilterDone
    <2>1. /\ chunk <= request.end
          /\ asked' = {} /\ failed' \subseteq failed \cup {chunk}
          /\ UNCHANGED <<request, client, phase, task, attempt, entries, found, lost>>
      BY <1>6 DEF ChunkTraced, ChunkFails, FilterRaises, FilterDone, LeaveChunk, InChunk,
                  FilterCall
    <2>2. chunk \in request.start..request.end BY <1>2, <2>1
    <2>3. chunk' = ChunkEnd(chunk) + 1
      BY <1>6 DEF ChunkTraced, ChunkFails, FilterRaises, FilterDone, LeaveChunk
    <2>4. ChunkEnd(chunk) \in Nat /\ chunk <= ChunkEnd(chunk)
      BY <1>2, <2>1, ChunkInWindow
    <2>5. ASSUME NEW b \in Blocks, b >= chunk'
          PROVE  task'[b] = "none"
      <3>1. b \in Nat /\ chunk \in Nat BY <1>2, DiscoveryAssumption DEF LocalsTyped
      <3>2. b >= chunk /\ b > ChunkEnd(chunk) BY <2>3, <2>4, <2>5, <3>1
      <3>3. task[b] = "none" BY <3>2 DEF DiscoveryTyped, Unstarted
      <3> QED BY <2>1, <3>3
    <2>6. Unstarted' BY <2>5 DEF Unstarted
    <2> QED BY <2>1, <2>2, <2>6, SameWindow DEF DiscoveryTyped
  <1>7. CASE FilterReply \/ FilterIsNull
    <2>1. /\ chunk <= request.end
          /\ asked' = asked \cup NextAddresses
          /\ attempt' = [attempt EXCEPT ![chunk] = 0]
          /\ lost' \subseteq lost \cup Sought(ChunkBlocks(chunk), NextAddresses)
          /\ UNCHANGED <<request, client, phase, chunk, task, entries, failed>>
      BY <1>7 DEF FilterReply, FilterIsNull, FilterCall, InChunk
    <2>2. NextAddresses \subseteq request.addresses BY <1>2, NextAddressesRemain
    <2>3. Sought(ChunkBlocks(chunk), NextAddresses) \subseteq Sought(Window, request.addresses)
      BY <1>2, <2>1, <2>2, ChunkOfWindow
    <2>4. attempt' \in [Blocks -> 0..(Retries - 1)]
      <3>1. attempt \in [Blocks -> 0..(Retries - 1)] BY DEF DiscoveryTyped
      <3>2. 0 \in 0..(Retries - 1) BY <1>1
      <3> QED BY <2>1, <3>1, <3>2
    <2> QED BY <1>2, <2>1, <2>2, <2>3, <2>4, SameWindow, NoTaskBefore DEF DiscoveryTyped
  <1>8. CASE RetryFilter
    <2>1. /\ attempt[chunk] < Retries - 1
          /\ attempt' = [attempt EXCEPT ![chunk] = attempt[chunk] + 1]
          /\ UNCHANGED <<request, client, phase, chunk, task, entries, asked, failed, lost>>
      BY <1>8 DEF RetryFilter
    <2>2. chunk \in Blocks
      BY <1>2, <1>8, ChunkInWindow DEF RetryFilter, FilterCall, InChunk
    <2>3. attempt' \in [Blocks -> 0..(Retries - 1)]
      <3>1. attempt \in [Blocks -> 0..(Retries - 1)] BY DEF DiscoveryTyped
      <3>2. attempt[chunk] \in Nat BY <2>2, <3>1
      <3>3. attempt[chunk] + 1 \in 0..(Retries - 1) BY <1>1, <2>1, <3>2
      <3> QED BY <2>1, <3>1, <3>3
    <2> QED BY <1>2, <2>1, <2>3, SameWindow, NoTaskBefore DEF DiscoveryTyped
  <1>9. CASE WindowTraced
    BY <1>2, <1>9, SameWindow, NoTaskBefore DEF WindowTraced, DiscoveryTyped
  <1>10. CASE CancelTasks
    <2>1. /\ task' = [b \in Blocks |-> IF task[b] = "waiting" \/ b \in Active
                                       THEN "cancelled" ELSE task[b]]
          /\ UNCHANGED <<request, client, phase, chunk, attempt, entries, asked, failed, lost>>
      BY <1>10 DEF CancelTasks
    <2>2. \A b \in Blocks : task'[b] = "none" <=> task[b] = "none" BY <2>1 DEF Active
    <2>3. \A b \in Blocks : task[b] \in {"mapping", "cancelled"} => task'[b] = "cancelled"
      BY <2>1 DEF Active
    <2>4. task' \in [Blocks -> TaskStates] BY <1>3, <2>1 DEF TaskStates
    <2>5. Unstarted' BY <1>2, <2>1, <2>2, NoTaskBefore
    <2> QED BY <2>1, <2>2, <2>3, <2>4, <2>5, SameWindow DEF DiscoveryTyped
  <1>11. CASE \E b \in Blocks : TaskStep(b)
    BY <1>11, TaskKeepsTyped
  <1> QED
    BY <1>4, <1>5, <1>6, <1>7, <1>8, <1>9, <1>10, <1>11
    DEF DiscoveryNext, ScanStep, FilterStep
-----------------------------------------------------------------------------
(* The score is a sum, and the volume of a candidate is one.               *)
Volume(set, usdOf) == MapThenSumSet(LAMBDA s : Amount(s, usdOf), set)
Reached(metrics) ==
    {name \in Signals : Enabled(name) /\ metrics[name] >= settings.min[name]}

ScoreIsTotal(metrics) ==
    \A weight, set : weight = settings.weight /\ set = Reached(metrics) =>
        Score(metrics) = Total(weight, set)

LEMMA ScoreUnfolded ==
    ASSUME NEW metrics PROVE ScoreIsTotal(metrics) /\ ScoreIsTotal(metrics)'
  <1>1. Score(metrics) = Total(settings.weight, Reached(metrics))
    BY Zenon DEF Score, Total, Reached, MapThenSumSet, MapThenFoldSet
  <1>2. ScoreIsTotal(metrics) BY <1>1 DEF ScoreIsTotal
  <1>3. ScoreIsTotal(metrics)' BY <1>2, PTL
  <1> QED BY <1>2, <1>3

MetricsOf(topLevel, hits, swaps, evidence, usdOf) ==
    [top_level_match_count |-> IF topLevel = "off" THEN 0 ELSE Cardinality(hits),
     raw_tx_count |-> Cardinality({match.hash : match \in evidence}),
     raw_pool_count |-> Cardinality({match.pool : match \in evidence}),
     matched_swap_count |-> Cardinality(swaps),
     priced_swap_count |-> Cardinality({s \in swaps : usdOf[s] # None}),
     total_usd_volume |-> Volume(swaps, usdOf),
     max_swap_usd |-> Max({0} \cup {Amount(s, usdOf) : s \in swaps})]

MetricsAre(c, known, usdOf) ==
    \A topLevel, hits, swaps, evidence :
        /\ topLevel = settings.topLevel
        /\ hits = TopLevelMatches(c, known)
        /\ swaps = CandidateSwaps(c, known)
        /\ evidence = Evidence(c)
        => Metrics(c, known, usdOf) = MetricsOf(topLevel, hits, swaps, evidence, usdOf)

LEMMA MetricsUnfolded ==
    ASSUME NEW c, NEW known, NEW usdOf
    PROVE  MetricsAre(c, known, usdOf) /\ MetricsAre(c, known, usdOf)'
  <1>1. Metrics(c, known, usdOf)
          = MetricsOf(settings.topLevel, TopLevelMatches(c, known), CandidateSwaps(c, known),
                      Evidence(c), usdOf)
    BY Zenon DEF Metrics, MetricsOf, Volume, MapThenSumSet, MapThenFoldSet
  <1>2. MetricsAre(c, known, usdOf) BY <1>1 DEF MetricsAre
  <1>3. MetricsAre(c, known, usdOf)' BY <1>2, PTL
  <1> QED BY <1>2, <1>3

(* Who is approved depends on the traces, the request and the settings.    *)
LEMMA SameApproval ==
    ASSUME traces' = traces, request' = request, settings' = settings,
           NEW known, NEW usdOf
    PROVE  Approved(known, usdOf)' = Approved(known, usdOf)
  <1>1. CompetitionMatches' = CompetitionMatches
    BY DEF CompetitionMatches, Excluded
  <1>2. Competitors' = Competitors /\ \A c : Evidence(c)' = Evidence(c)
    BY <1>1 DEF Competitors, Evidence
  <1>3. \A c : /\ CandidateSwaps(c, known)' = CandidateSwaps(c, known)
               /\ TopLevelMatches(c, known)' = TopLevelMatches(c, known)
    BY <1>2 DEF CandidateSwaps, TopLevelMatches
  <1>4. ASSUME NEW c PROVE Metrics(c, known, usdOf)' = Metrics(c, known, usdOf)
    BY <1>2, <1>3, MetricsUnfolded DEF MetricsAre
  <1>5. ASSUME NEW metrics PROVE Score(metrics)' = Score(metrics)
    <2>1. Reached(metrics)' = Reached(metrics) BY DEF Reached, Enabled
    <2> QED BY <2>1, ScoreUnfolded DEF ScoreIsTotal
  <1> QED BY <1>2, <1>4, <1>5 DEF Approved

(* Once the window is traced, neither the traces nor the request change.   *)
LEMMA TracesStay ==
    ASSUME phase = "traced", [DiscoveryNext]_discoveryVars
    PROVE  traces' = traces /\ request' = request /\ phase' = phase
  BY DEF DiscoveryNext, ScanStep, FilterStep, TaskStep, StartChunk, ChunkTraced, ChunkFails,
         FilterReply, FilterIsNull, RetryFilter, FilterRaises, FilterDone, FilterCall, InChunk,
         WindowTraced, CancelTasks, Acquire, TraceReply, TraceIsNull, MapEntries, DropEntries,
         RetryTask, TaskRaises, discoveryVars

LEMMA SameTraces ==
    ASSUME traces' = traces, request' = request
    PROVE  /\ Wanted' = Wanted /\ Competitors' = Competitors
           /\ \A approved : ReverseResult(approved)' = ReverseResult(approved)
  <1>1. CompetitionMatches' = CompetitionMatches
    BY DEF CompetitionMatches, Excluded
  <1>2. TxContexts' = TxContexts BY DEF TxContexts
  <1>3. /\ Competitors' = Competitors
        /\ \A p : CompetitorsOf(p)' = CompetitorsOf(p) /\ HashesOf(p)' = HashesOf(p)
    BY <1>1 DEF Competitors, CompetitorsOf, HashesOf
  <1> QED BY <1>1, <1>2, <1>3 DEF Wanted, ReverseResult

LEMMA SameResult ==
    ASSUME traces' = traces, request' = request, settings' = settings,
           UNCHANGED <<receipts, usd, result>>
    PROVE  \A approved : ResultIs(approved)' <=> ResultIs(approved)
  <1>1. \A approved : ReverseResult(approved)' = ReverseResult(approved) BY SameTraces
  <1>2. \A known, usdOf : Approved(known, usdOf)' = Approved(known, usdOf) BY SameApproval
  <1> QED BY <1>1, <1>2 DEF ResultIs

LEMMA DiscoveryKeepsStage ==
    ASSUME DiscoveryInvariant, StageSound, [DiscoveryNext]_discoveryVars, UNCHANGED stageVars
    PROVE  StageSound'
  <1>1. UNCHANGED <<settings, stage, toAsk, unresolved, receipts, silent, usd, result>>
    BY DEF stageVars
  <1>2. CASE stage = "discovery"
    BY <1>1, <1>2 DEF StageSound, ReceiptsTyped
  <1>3. CASE stage # "discovery"
    <2>1. traces' = traces /\ request' = request /\ phase' = phase
      BY <1>3, TracesStay DEF StageSound
    <2>2. /\ Wanted' = Wanted /\ Competitors' = Competitors
          /\ \A approved : ResultIs(approved)' <=> ResultIs(approved)
      BY <1>1, <2>1, SameTraces, SameResult
    <2>3. AsksForReceipts' = AsksForReceipts BY <1>1, <2>1 DEF AsksForReceipts
    <2> QED BY <1>1, <1>3, <2>1, <2>2, <2>3, Zenon DEF StageSound, ReceiptsTyped
  <1> QED BY <1>2, <1>3
-----------------------------------------------------------------------------
(* A scan finds finitely many traces.                                      *)
LEMMA BlockFinite ==
    ASSUME NEW b \in Blocks, NEW addresses PROVE IsFiniteSet(Sought({b}, addresses))
  <1> DEFINE n == Len(Chain[b])
             of(i) == {Exposed(Chain[b][i].hash, frame) : frame \in Chain[b][i].frames}
             all == [i \in 1..n |-> of(i)]
  <1>1. n \in Nat /\ DOMAIN Chain[b] = 1..n BY ChainAssumption
  <1>2. \A i \in 1..n : IsFiniteSet(of(i))
    <2> SUFFICES ASSUME NEW i \in 1..n PROVE IsFiniteSet(of(i))
      OBVIOUS
    <2> DEFINE exposed == [frame \in Chain[b][i].frames |-> Exposed(Chain[b][i].hash, frame)]
    <2>1. IsFiniteSet(Chain[b][i].frames) BY <1>1, TransactionsAssumption
    <2>2. of(i) = Range(exposed) BY DEF Range
    <2>3. exposed \in [Chain[b][i].frames -> of(i)] OBVIOUS
    <2> HIDE DEF exposed
    <2> QED BY <2>1, <2>2, <2>3, FiniteImage
  <1> HIDE DEF of
  <1>3. IsFiniteSet(Range(all))
    <2>1. all \in [1..n -> Range(all)] BY DEF Range
    <2> HIDE DEF all, n
    <2>2. IsFiniteSet(1..n) BY <1>1, FS_Interval
    <2> QED BY <2>1, <2>2, FiniteImage
  <1>4. IsFiniteSet(UNION Range(all))
    BY <1>2, <1>3, FS_UNION DEF Range
  <1>5. Sought({b}, addresses) \subseteq UNION Range(all)
    <2> SUFFICES ASSUME NEW t \in Sought({b}, addresses) PROVE t \in UNION Range(all)
      OBVIOUS
    <2>1. PICK i \in 1..n : t \in of(i) BY <1>1 DEF Sought, Range, of
    <2>2. all[i] \in Range(all) /\ all[i] = of(i) BY DEF Range
    <2> QED BY <2>1, <2>2
  <1> QED BY <1>4, <1>5, FS_Subset

LEMMA TracesFinite ==
    ASSUME DiscoveryInvariant
    PROVE  IsFiniteSet(traces) /\ \A t \in traces : t.hash \in Int
  <1> DEFINE inside == {b \in Blocks : request.start <= b /\ b < chunk}
             of == [b \in inside |-> Sought({b}, request.addresses)]
  <1>1. /\ request.start \in Nat /\ chunk \in Nat /\ Blocks \subseteq Nat
    BY DiscoveryAssumption DEF DiscoveryInvariant, LocalsTyped
  <1>2. IsFiniteSet(inside)
    BY <1>1, FS_BoundedSetOfNaturals
  <1>3. IsFiniteSet(Range(of))
    <2>1. of \in [inside -> Range(of)] BY DEF Range
    <2> HIDE DEF of, inside
    <2> QED BY <1>2, <2>1, FiniteImage
  <1>4. \A T \in Range(of) : IsFiniteSet(T)
    BY BlockFinite DEF Range
  <1>5. traces \subseteq UNION Range(of)
    <2>1. traces \subseteq Sought(inside, request.addresses)
      BY DEF DiscoveryInvariant, TracesSound, Passed
    <2>2. \A t \in traces : \E b \in inside : t \in of[b]
      BY <2>1, SoughtByBlock
    <2> QED BY <2>2 DEF Range
  <1>6. IsFiniteSet(traces) BY <1>3, <1>4, <1>5, FS_UNION, FS_Subset
  <1>7. ASSUME NEW t \in traces PROVE t.hash \in Int
    <2>1. t \in Sought(inside, request.addresses)
      BY DEF DiscoveryInvariant, TracesSound, Passed
    <2>2. PICK b \in Blocks : \E i \in DOMAIN Chain[b] : t.hash = Chain[b][i].hash
      BY <2>1 DEF Sought, Exposed, Range
    <2> QED BY <2>2, TransactionsAssumption
  <1> QED BY <1>6, <1>7

LEMMA WantedFinite ==
    ASSUME DiscoveryInvariant
    PROVE  IsFiniteSet(Wanted) /\ Wanted \in SUBSET Int
  <1> DEFINE hash == [t \in traces |-> t.hash]
  <1>1. IsFiniteSet(traces) /\ \A t \in traces : t.hash \in Int BY TracesFinite
  <1>2. hash \in [traces -> Int] BY <1>1
  <1>3. IsFiniteSet(Range(hash)) BY <1>1, <1>2, FiniteImage
  <1>4. Wanted \subseteq Range(hash)
    BY DEF Wanted, TxContexts, CompetitionMatches, Range
  <1>5. Range(hash) \subseteq Int BY <1>2 DEF Range
  <1> QED BY <1>3, <1>4, <1>5, FS_Subset
-----------------------------------------------------------------------------
(* A batch and what is left of a sequence.                                 *)
LEMMA SplitSequence ==
    ASSUME NEW S, NEW s \in Seq(S), NEW k \in 0..Len(s)
    PROVE  /\ SubSeq(s, k + 1, Len(s)) \in Seq(S)
           /\ Range(s) = Range(SubSeq(s, 1, k)) \cup Range(SubSeq(s, k + 1, Len(s)))
  <1> DEFINE head == SubSeq(s, 1, k)
             rest == SubSeq(s, k + 1, Len(s))
  <1>1. Len(s) \in Nat /\ DOMAIN s = 1..Len(s) BY LenProperties
  <1>2. /\ DOMAIN head = 1..k /\ \A i \in 1..k : head[i] = s[i]
        /\ DOMAIN rest = 1..(Len(s) - k) /\ \A i \in 1..(Len(s) - k) : rest[i] = s[i + k]
        /\ rest \in Seq(S)
    BY <1>1
  <1> HIDE DEF head, rest
  <1>3. ASSUME NEW i \in 1..Len(s) PROVE s[i] \in Range(head) \cup Range(rest)
    <2>1. CASE i <= k BY <1>1, <1>2, <2>1 DEF Range
    <2>2. CASE i > k
      <3>1. i - k \in 1..(Len(s) - k) /\ (i - k) + k = i BY <1>1, <2>2
      <3> QED BY <1>2, <3>1 DEF Range
    <2> QED BY <1>1, <2>1, <2>2
  <1>4. \A i \in 1..k : head[i] \in Range(s)
    BY <1>1, <1>2, SMTT(30) DEF Range
  <1>5. ASSUME NEW i \in 1..(Len(s) - k) PROVE rest[i] \in Range(s)
    <2>1. i + k \in 1..Len(s) BY <1>1
    <2> QED BY <1>1, <1>2, <2>1 DEF Range
  <1>6. Range(s) \subseteq Range(head) \cup Range(rest) BY <1>1, <1>3 DEF Range
  <1>7. Range(head) \subseteq Range(s) BY <1>2, <1>4 DEF Range
  <1>8. Range(rest) \subseteq Range(s) BY <1>2, <1>5 DEF Range
  <1> QED BY <1>2, <1>6, <1>7, <1>8 DEF head, rest

LEMMA BatchLengthType ==
    ASSUME ReceiptsTyped PROVE BatchLength \in 0..Len(toAsk)
  <1>1. Len(toAsk) \in Nat BY LenProperties DEF ReceiptsTyped
  <1>2. ReceiptBatch \in Nat BY ReverseAssumption
  <1> DEFINE n == Len(toAsk)
  <1> HIDE DEF n
  <1>3. Min({ReceiptBatch, n}) \in {ReceiptBatch, n} /\ Min({ReceiptBatch, n}) <= n
    BY <1>1, <1>2, MinOfTwo DEF n
  <1> QED BY <1>1, <1>2, <1>3 DEF BatchLength, n

LEMMA StageKeepsSound ==
    ASSUME DiscoveryInvariant, StageSound, StageStep \/ ReceiptsRaise
    PROVE  StageSound'
  <1>1. UNCHANGED discoveryVars /\ settings' = settings
    BY DEF StageStep, NothingFound, HeuristicsDisabled, CollectReceipts, BatchReply,
           ForwardReceipts, ApplyHeuristics, AskAlone, ReceiptsRaise
  <1>2. traces' = traces /\ request' = request /\ phase' = phase
    BY <1>1 DEF discoveryVars
  <1>3. /\ Wanted' = Wanted /\ Competitors' = Competitors
        /\ \A approved : ReverseResult(approved)' = ReverseResult(approved)
    BY <1>2, SameTraces
  <1>4. AsksForReceipts' = AsksForReceipts BY <1>1, <1>2 DEF AsksForReceipts
  <1>5. IsFiniteSet(Wanted) /\ Wanted \in SUBSET Int BY WantedFinite
  <1>6. CASE NothingFound
    <2>1. /\ stage = "discovery" /\ phase = "traced" /\ stage' = "done" /\ Wanted = {}
          /\ UNCHANGED <<toAsk, unresolved, receipts, silent, usd>>
          /\ request.kind = "reverse" => result' = ReverseResult({})
      BY <1>6, ReverseAssumption DEF NothingFound, Discovered, DiscoveryInvariant, LocalsTyped
    <2>2. {} \in SUBSET Competitors OBVIOUS
    <2>3. usd' = <<>> BY <2>1 DEF StageSound
    <2>4. request.kind = "reverse" => ResultIs({})' BY <1>3, <2>1, <2>3 DEF ResultIs
    <2> QED BY <2>4, <1>2, <1>3, <1>4, <2>1, <2>2 DEF StageSound, ReceiptsTyped
  <1>7. CASE HeuristicsDisabled
    <2>1. /\ stage = "discovery" /\ phase = "traced" /\ stage' = "done"
          /\ UNCHANGED <<toAsk, unresolved, receipts, silent, usd>>
          /\ ~AsksForReceipts /\ result' = ReverseResult(Competitors)
      BY <1>7 DEF HeuristicsDisabled, Discovered, AsksForReceipts
    <2>2. \E approved \in SUBSET Competitors : ResultIs(approved)'
      <3>1. PICK approved \in SUBSET Competitors : approved = Competitors OBVIOUS
      <3>2. result' = ReverseResult(approved) BY <2>1, <3>1
      <3>3. usd' = <<>> BY <2>1 DEF StageSound
      <3> QED BY <1>3, <3>2, <3>3 DEF ResultIs
    <2> QED BY <2>2, <1>2, <1>3, <1>4, <2>1 DEF StageSound, ReceiptsTyped
  <1>8. CASE CollectReceipts
    <2>1. /\ stage = "discovery" /\ phase = "traced" /\ stage' = "receipts" /\ AsksForReceipts
          /\ \/ toAsk' = InOrder(Wanted) /\ unresolved' = {}
             \/ toAsk' = <<>> /\ unresolved' = Wanted
          /\ UNCHANGED <<receipts, silent, usd, result>>
      BY <1>8 DEF CollectReceipts, Discovered, AsksForReceipts
    <2>2. InOrder(Wanted) \in Seq(Wanted) /\ Range(InOrder(Wanted)) = Wanted
      BY <1>5, InOrderEnumerates
    <2>3. <<>> \in Seq(Wanted) /\ Range(<<>>) = {} BY DEF Range
    <2> QED BY <1>2, <1>3, <1>4, <2>1, <2>2, <2>3 DEF StageSound, ReceiptsTyped
  <1>9. CASE BatchReply
    <2>1. PICK answered \in SUBSET Range(SubSeq(toAsk, 1, BatchLength)) :
            /\ receipts' = receipts \cup answered
            /\ unresolved' = unresolved \cup (Range(SubSeq(toAsk, 1, BatchLength)) \ answered)
      BY <1>9 DEF BatchReply, Unanswered
    <2>2. /\ stage = "receipts" /\ stage' = stage
          /\ toAsk' = SubSeq(toAsk, BatchLength + 1, Len(toAsk))
          /\ UNCHANGED <<silent, usd, result>>
      BY <1>9 DEF BatchReply, Collecting
    <2>3. /\ toAsk' \in Seq(Wanted)
          /\ Range(toAsk) = Range(SubSeq(toAsk, 1, BatchLength)) \cup Range(toAsk')
      BY <2>2, BatchLengthType, SplitSequence DEF StageSound, ReceiptsTyped
    <2> QED BY <1>2, <1>3, <1>4, <2>1, <2>2, <2>3 DEF StageSound, ReceiptsTyped
  <1>10. ASSUME NEW h \in unresolved, AskAlone(h) PROVE StageSound'
    <2>1. /\ stage = "receipts" /\ stage' = stage
          /\ UNCHANGED <<toAsk, usd, result>>
          /\ unresolved' = unresolved \ {h}
          /\ \/ receipts' = receipts \cup {h} /\ silent' = silent
             \/ silent' = silent \cup {h} /\ receipts' = receipts
      BY <1>10 DEF AskAlone, Collecting
    <2> QED BY <1>2, <1>3, <1>4, <2>1 DEF StageSound, ReceiptsTyped
  <1>11. CASE ForwardReceipts
    <2>1. /\ stage = "receipts" /\ stage' = "done" /\ toAsk = <<>> /\ unresolved = {}
          /\ request.kind = "forward"
          /\ UNCHANGED <<toAsk, unresolved, receipts, silent, usd>>
      BY <1>11 DEF ForwardReceipts, Collected, Collecting
    <2>2. Range(<<>>) = {} BY DEF Range
    <2> QED BY <1>2, <1>3, <1>4, <2>1, <2>2 DEF StageSound, ReceiptsTyped
  <1>12. CASE ApplyHeuristics
    <2>1. /\ stage = "receipts" /\ stage' = "done" /\ toAsk = <<>> /\ unresolved = {}
          /\ UNCHANGED <<toAsk, unresolved, receipts, silent>>
      BY <1>12 DEF ApplyHeuristics, Collected, Collecting
    <2>8. PICK prices \in Pricings :
            \E known, approved :
              /\ usd' = prices /\ known = receipts /\ approved = Approved(known, prices)
              /\ result' = ReverseResult(approved)
      BY <1>12 DEF ApplyHeuristics
    <2>2. PICK known, approved :
            /\ usd' = prices /\ known = receipts /\ approved = Approved(known, prices)
            /\ result' = ReverseResult(approved)
      BY <2>8
    <2>3. approved \in SUBSET Competitors BY <2>2 DEF Approved
    <2>5. approved = Approved(known, prices)' BY <1>1, <1>2, <2>2, SameApproval
    <2>6. ResultIs(approved)' BY <1>3, <2>1, <2>2, <2>5 DEF ResultIs
    <2>4. Range(<<>>) = {} BY DEF Range
    <2> QED BY <1>2, <1>3, <1>4, <2>1, <2>3, <2>4, <2>6 DEF StageSound, ReceiptsTyped
  <1>13. CASE ReceiptsRaise
    <2>1. stage = "receipts" /\ stage' = "raised"
          /\ UNCHANGED <<toAsk, unresolved, receipts, silent, usd, result>>
      BY <1>13 DEF ReceiptsRaise, Collecting
    <2> QED BY <1>2, <1>3, <1>4, <2>1 DEF StageSound, ReceiptsTyped
  <1> QED
    BY <1>6, <1>7, <1>8, <1>9, <1>10, <1>11, <1>12, <1>13 DEF StageStep
-----------------------------------------------------------------------------
LEMMA ScanInvariantHolds == ScanSpec => []ScanInvariant
  <1>1. ScanInit => ScanInvariant
    BY InitInvariant, InitTyped DEF ScanInit, ScanInvariant
  <1>2. ScanInvariant /\ [ScanNext]_scanVars => ScanInvariant'
    <2> SUFFICES ASSUME ScanInvariant, [ScanNext]_scanVars PROVE ScanInvariant'
      OBVIOUS
    <2>1. [DiscoveryNext]_discoveryVars BY ScanIsDiscovery
    <2>2. DiscoveryInvariant' BY <2>1, DiscoveryStep DEF ScanInvariant
    <2>3. settings' = settings
      BY DEF ScanNext, StageStep, NothingFound, HeuristicsDisabled, CollectReceipts, BatchReply,
             ForwardReceipts, ApplyHeuristics, AskAlone, ReceiptsRaise, scanVars, stageVars
    <2>4. DiscoveryTyped' BY <2>1, <2>3, DiscoveryKeepsTyped DEF ScanInvariant
    <2>5. StageSound'
      <3>1. CASE StageStep \/ ReceiptsRaise BY <3>1, StageKeepsSound DEF ScanInvariant
      <3>2. CASE UNCHANGED stageVars BY <2>1, <3>2, DiscoveryKeepsStage DEF ScanInvariant
      <3> QED BY <3>1, <3>2 DEF ScanNext, scanVars
    <2> QED BY <2>2, <2>4, <2>5 DEF ScanInvariant
  <1> QED BY <1>1, <1>2, PTL DEF ScanSpec

(* The state of a scan has its type: nothing is found outside the window   *)
(* and no receipt is known that was not asked for, for any chain and any   *)
(* answers of the node.                                                    *)
THEOREM ScanTyped == ScanSpec => []ScanTypeOK
  <1>1. ScanInvariant => ScanTypeOK
    <2> SUFFICES ASSUME ScanInvariant PROVE ScanTypeOK
      OBVIOUS
    <2>1. chunk \in request.start..(request.end + 1)
      <3>1. /\ chunk \in Nat /\ request.start <= chunk /\ chunk <= request.end + 1
            /\ request.start \in Nat /\ request.end \in Nat
        BY DiscoveryAssumption DEF ScanInvariant, DiscoveryInvariant, LocalsTyped
      <3> QED BY <3>1
    <2>2. Range(toAsk) \subseteq Wanted
      BY DEF ScanInvariant, StageSound, ReceiptsTyped, Range
    <2>3. request \in Requests BY DEF ScanInvariant, DiscoveryInvariant, LocalsTyped
    <2>4. receipts \cup silent \cup unresolved \cup Range(toAsk) \subseteq Wanted
      BY <2>2 DEF ScanInvariant, StageSound, ReceiptsTyped
    <2>5. stage \in {"discovery", "receipts", "done", "raised"}
      BY DEF ScanInvariant, StageSound
    <2> QED
      BY <2>1, <2>3, <2>4, <2>5 DEF ScanTypeOK, ScanInvariant, DiscoveryTyped, TaskStates
  <1> QED BY <1>1, ScanInvariantHolds, PTL

(* Every receipt that is wanted is known in the end, or was asked for on   *)
(* its own in vain, however the batches were answered (batch_resolve).     *)
THEOREM EveryReceiptIsAskedFor == ScanSpec => []ReceiptsAskedAgain
  <1>1. ScanInvariant => ReceiptsAskedAgain
    BY DEF ScanInvariant, StageSound, ReceiptsAskedAgain, AsksForReceipts
  <1> QED BY <1>1, ScanInvariantHolds, PTL
-----------------------------------------------------------------------------
LEMMA CompetitorsFinite ==
    ASSUME DiscoveryInvariant PROVE IsFiniteSet(Competitors)
  <1> DEFINE from == [t \in traces |-> t.from]
  <1>1. IsFiniteSet(traces) BY TracesFinite
  <1>2. from \in [traces -> Range(from)] BY DEF Range
  <1>3. Competitors \subseteq Range(from)
    BY DEF Competitors, CompetitionMatches, Range
  <1> HIDE DEF from
  <1> QED BY <1>1, <1>2, <1>3, FiniteImage, FS_Subset

(* A competitor was seen on a pool of the request.                         *)
LEMMA CompetitorsArePoolCallers ==
    ASSUME DiscoveryInvariant, request.kind = "reverse", NEW c \in Competitors
    PROVE  \E p \in request.addresses : c \in CompetitorsOf(p)
  <1>1. PICK t \in traces : c = t.from /\ ~Excluded(t.from, t.to)
    BY DEF Competitors, CompetitionMatches
  <1>2. request.role = "to" BY ReverseAssumption DEF DiscoveryInvariant, LocalsTyped
  <1>3. t \in Sought(Passed, request.addresses)
    BY DEF DiscoveryInvariant, TracesSound
  <1>4. t.to \in request.addresses BY <1>2, <1>3 DEF Sought
  <1>5. c \in CompetitorsOf(t.to)
    <2> DEFINE match == [pool |-> t.to, competitor |-> t.from, hash |-> t.hash]
    <2>1. match \in CompetitionMatches BY <1>1 DEF CompetitionMatches
    <2>2. match.pool = t.to /\ match.competitor = c BY <1>1
    <2> QED BY <2>1, <2>2 DEF CompetitorsOf
  <1> QED BY <1>4, <1>5

LEMMA ResultOfApproved ==
    ASSUME DiscoveryInvariant, request.kind = "reverse",
           NEW approved \in SUBSET Competitors, result = ReverseResult(approved)
    PROVE  Persisted = approved
  <1>1. /\ DOMAIN result.pools = request.addresses
        /\ \A p \in request.addresses :
             result.pools[p].competitors = CompetitorsOf(p) \cap approved
    BY DEF ReverseResult
  <1>2. \A c \in approved : \E p \in request.addresses : c \in CompetitorsOf(p)
    BY CompetitorsArePoolCallers
  <1> QED BY <1>1, <1>2 DEF Persisted

(* The competitors a reverse scan persists are those its summary counts as *)
(* approved, each called one of its pools in the window and was not known  *)
(* for it before (_build_result, _persist_reverse_competitors).            *)
THEOREM SummaryIsTrue == ScanSpec => []SummaryMatchesTraders
  <1>1. ScanInvariant => SummaryMatchesTraders
    <2> SUFFICES ASSUME ScanInvariant, stage = "done", request.kind = "reverse"
                 PROVE  /\ Cardinality(Persisted) = result.approved
                        /\ result.approved + result.rejected = result.discovered
                        /\ \A p \in DOMAIN result.pools :
                             \A c \in result.pools[p].competitors :
                               /\ c \notin request.excluded
                               /\ [pool |-> p, trader |-> c] \notin request.excludedBy
                               /\ \E t \in Sought(Window, request.addresses) :
                                    t.from = c /\ t.to = p /\ t.hash \in result.pools[p].hashes
      BY DEF SummaryMatchesTraders
    <2>1. PICK approved \in SUBSET Competitors : result = ReverseResult(approved)
      BY DEF ScanInvariant, StageSound, ResultIs
    <2>2. /\ result.approved = Cardinality(approved)
          /\ result.discovered = Cardinality(Competitors)
          /\ result.rejected = Cardinality(Competitors) - Cardinality(approved)
          /\ \A p \in DOMAIN result.pools :
               /\ result.pools[p].competitors \subseteq CompetitorsOf(p)
               /\ result.pools[p].hashes = HashesOf(p)
      BY <2>1 DEF ReverseResult
    <2>3. Persisted = approved BY <2>1, ResultOfApproved DEF ScanInvariant
    <2>4. Cardinality(Competitors) \in Nat /\ Cardinality(approved) \in Nat
      BY <2>1, CompetitorsFinite, FS_Subset, FS_CardinalityType DEF ScanInvariant
    <2>5. traces \subseteq Sought(Window, request.addresses)
      <3>1. phase = "traced" BY DEF ScanInvariant, StageSound
      <3> QED BY <3>1, InvariantSuffices DEF ScanInvariant, NoTransactionMissed
    <2>6. ASSUME NEW p \in DOMAIN result.pools, NEW c \in result.pools[p].competitors
          PROVE  /\ c \notin request.excluded
                 /\ [pool |-> p, trader |-> c] \notin request.excludedBy
                 /\ \E t \in Sought(Window, request.addresses) :
                      t.from = c /\ t.to = p /\ t.hash \in result.pools[p].hashes
      <3>1. PICK match \in CompetitionMatches : match.pool = p /\ match.competitor = c
        BY <2>2, <2>6 DEF CompetitorsOf
      <3>2. PICK t \in traces :
              /\ match = [pool |-> t.to, competitor |-> t.from, hash |-> t.hash]
              /\ ~Excluded(t.from, t.to)
        BY DEF CompetitionMatches
      <3>3. t.to = p /\ t.from = c /\ t.hash = match.hash BY <3>1, <3>2
      <3>4. match.hash \in HashesOf(p) BY <3>1 DEF HashesOf
      <3> QED BY <2>2, <2>5, <3>2, <3>3, <3>4 DEF Excluded
    <2> QED BY <2>2, <2>3, <2>4, <2>6
  <1> QED BY <1>1, ScanInvariantHolds, PTL
-----------------------------------------------------------------------------
(* The swaps of a candidate are finitely many, each with an amount or none.*)
LEMMA MatchesFinite ==
    ASSUME DiscoveryInvariant, NEW c
    PROVE  IsFiniteSet(CompetitionMatches) /\ IsFiniteSet(Evidence(c))
  <1> DEFINE match == [t \in traces |-> [pool |-> t.to, competitor |-> t.from, hash |-> t.hash]]
  <1>1. IsFiniteSet(traces) BY TracesFinite
  <1>2. match \in [traces -> Range(match)] BY DEF Range
  <1>3. CompetitionMatches \subseteq Range(match)
    BY DEF CompetitionMatches, Range
  <1> HIDE DEF match
  <1>4. IsFiniteSet(CompetitionMatches)
    BY <1>1, <1>2, <1>3, FiniteImage, FS_Subset
  <1>5. Evidence(c) \subseteq CompetitionMatches BY DEF Evidence
  <1> QED BY <1>4, <1>5, FS_Subset

LEMMA MatchedTransaction ==
    ASSUME DiscoveryInvariant, NEW match \in CompetitionMatches
    PROVE  \E b \in Blocks : \E i \in DOMAIN Chain[b] : TransactionOf(match.hash) = Chain[b][i]
  <1>1. PICK t \in traces : match.hash = t.hash
    BY DEF CompetitionMatches
  <1>2. t \in Sought(Passed, request.addresses) BY DEF DiscoveryInvariant, TracesSound
  <1>3. PICK b \in Blocks : \E i \in DOMAIN Chain[b] : t.hash = Chain[b][i].hash
    BY <1>2 DEF Sought, Exposed, Range, Passed
  <1> DEFINE all == UNION {Range(Chain[a]) : a \in Blocks}
  <1>4. \E tx \in all : tx.hash = match.hash BY <1>1, <1>3 DEF Range
  <1>5. TransactionOf(match.hash) \in all BY <1>4 DEF TransactionOf
  <1> QED BY <1>5 DEF Range

LEMMA SwapsFinite ==
    ASSUME DiscoveryInvariant, NEW c, NEW known, NEW usdOf \in Pricings
    PROVE  /\ IsFiniteSet(CandidateSwaps(c, known))
           /\ \A s \in CandidateSwaps(c, known) : usdOf[s] \in Nat \cup {None}
  <1> DEFINE seen == {x \in Evidence(c) : x.hash \in known}
             of(match) == {s \in TransactionOf(match.hash).swaps : s.pool = match.pool}
             all == [match \in seen |-> of(match)]
  <1>1. seen \subseteq Evidence(c) /\ seen \subseteq CompetitionMatches
    BY DEF Evidence
  <1>2. IsFiniteSet(seen) BY <1>1, MatchesFinite, FS_Subset
  <1>3. ASSUME NEW match \in seen
        PROVE  /\ IsFiniteSet(of(match))
               /\ \A s \in of(match) : usdOf[s] \in Nat \cup {None}
    <2>5. PICK b \in Blocks : \E i \in DOMAIN Chain[b] : TransactionOf(match.hash) = Chain[b][i]
      BY <1>1, MatchedTransaction
    <2>1. PICK i \in DOMAIN Chain[b] : TransactionOf(match.hash) = Chain[b][i]
      BY <2>5
    <2>2. of(match) \subseteq Chain[b][i].swaps BY <2>1
    <2>3. IsFiniteSet(Chain[b][i].swaps) BY TransactionsAssumption
    <2>4. \A s \in Chain[b][i].swaps : usdOf[s] \in Nat \cup {None}
      BY HeuristicsAssumption
    <2> HIDE DEF of
    <2> QED BY <2>2, <2>3, <2>4, FS_Subset
  <1>4. CandidateSwaps(c, known) = UNION Range(all)
    <2>1. CandidateSwaps(c, known) = UNION {of(match) : match \in seen}
      BY Zenon DEF CandidateSwaps
    <2> HIDE DEF seen, of
    <2>2. Range(all) = {of(match) : match \in seen} BY DEF Range
    <2> QED BY <2>1, <2>2
  <1>5. all \in [seen -> Range(all)] BY DEF Range
  <1>6. \A T \in Range(all) : \E match \in seen : T = of(match) BY DEF Range
  <1> HIDE DEF all, seen, of
  <1>7. IsFiniteSet(Range(all)) BY <1>2, <1>5, FiniteImage
  <1>8. IsFiniteSet(UNION Range(all)) BY <1>3, <1>6, <1>7, FS_UNION
  <1> QED BY <1>3, <1>4, <1>6, <1>8

LEMMA SwapsGrow ==
    ASSUME NEW c, NEW more, NEW known \in SUBSET more
    PROVE  /\ CandidateSwaps(c, known) \subseteq CandidateSwaps(c, more)
           /\ TopLevelMatches(c, known) \subseteq TopLevelMatches(c, more)
  BY DEF CandidateSwaps, TopLevelMatches

(* The volume of swaps is a sum of numbers.                                *)
LEMMA VolumeIsTotal ==
    ASSUME NEW set, NEW usdOf, IsFiniteSet(set)
    PROVE  Volume(set, usdOf) = Total([s \in set |-> Amount(s, usdOf)], set)
  <1> DEFINE f == [s \in set |-> Amount(s, usdOf)]
             Adds(g) == g = [s \in SUBSET set |->
                               IF s = {} THEN 0
                               ELSE Amount(Chosen(s), usdOf) + g[s \ {Chosen(s)}]]
  <1>1. Volume(set, usdOf) = (CHOOSE g : Adds(g))[set]
    BY Zenon DEF Volume, Chosen, MapThenSumSet, MapThenFoldSet
  <1>2. \A s \in SUBSET set : s # {} => f[Chosen(s)] = Amount(Chosen(s), usdOf)
    BY ChosenElement
  <1>3. ASSUME NEW g PROVE Adds(g) <=> Sums(g, f, set)
    <2> HIDE DEF f
    <2>1. [s \in SUBSET set |->
             IF s = {} THEN 0 ELSE Amount(Chosen(s), usdOf) + g[s \ {Chosen(s)}]]
          = [s \in SUBSET set |-> IF s = {} THEN 0 ELSE f[Chosen(s)] + g[s \ {Chosen(s)}]]
      BY <1>2
    <2> QED BY <2>1, Zenon DEF Sums
  <1> HIDE DEF Adds, f
  <1>4. \E g : Adds(g) BY <1>3, SumsExist
  <1>5. Adds(CHOOSE g : Adds(g)) BY <1>4
  <1>6. Sums(CHOOSE g : Adds(g), f, set) BY <1>3, <1>5
  <1> QED BY <1>1, <1>6, TotalOfSums DEF f

LEMMA AmountsOfSwaps ==
    ASSUME NEW set, NEW usdOf, \A s \in set : usdOf[s] \in Nat \cup {None}
    PROVE  \A s \in set : Amount(s, usdOf) \in Nat
  BY DEF Amount

LEMMA VolumeGrows ==
    ASSUME NEW more, NEW some \in SUBSET more, NEW usdOf, IsFiniteSet(more),
           \A s \in more : usdOf[s] \in Nat \cup {None}
    PROVE  /\ Volume(some, usdOf) \in Int /\ Volume(more, usdOf) \in Int
           /\ Volume(some, usdOf) <= Volume(more, usdOf)
  <1> DEFINE f == [s \in more |-> Amount(s, usdOf)]
             g == [s \in some |-> Amount(s, usdOf)]
  <1>1. \A s \in more : Amount(s, usdOf) \in Nat BY AmountsOfSwaps
  <1>2. f \in [more -> Int] /\ g \in [some -> Int] /\ \A s \in more : f[s] >= 0
    BY <1>1
  <1>3. IsFiniteSet(some) BY FS_Subset
  <1>4. Volume(more, usdOf) = Total(f, more) /\ Volume(some, usdOf) = Total(g, some)
    BY <1>3, VolumeIsTotal
  <1>5. \A s \in some : f[s] = g[s] OBVIOUS
  <1> HIDE DEF f, g
  <1>6. Total(f, some) = Total(g, some)
    BY <1>3, <1>5, SameTotal
  <1>7. Total(f, some) <= Total(f, more) BY <1>2, TotalGrows
  <1>8. Total(f, some) \in Int /\ Total(f, more) \in Int BY <1>2, <1>3, TotalType
  <1> QED BY <1>4, <1>6, <1>7, <1>8

LEMMA GreatestGrows ==
    ASSUME NEW more, NEW some \in SUBSET more, NEW usdOf, IsFiniteSet(more),
           \A s \in more : usdOf[s] \in Nat \cup {None}
    PROVE  LET greatest(set) == Max({0} \cup {Amount(s, usdOf) : s \in set}) IN
           greatest(some) \in Int /\ greatest(more) \in Int /\ greatest(some) <= greatest(more)
  <1> DEFINE amounts(set) == {0} \cup {Amount(s, usdOf) : s \in set}
             f == [s \in more |-> Amount(s, usdOf)]
  <1>1. \A s \in more : Amount(s, usdOf) \in Nat BY AmountsOfSwaps
  <1>2. f \in [more -> Nat] /\ Range(f) = {Amount(s, usdOf) : s \in more}
    BY <1>1 DEF Range
  <1>3. IsFiniteSet({Amount(s, usdOf) : s \in more})
    <2> HIDE DEF f
    <2>1. IsFiniteSet(Range(f)) BY <1>2, FiniteImage
    <2> QED BY <1>2, <2>1
  <1>4. IsFiniteSet(amounts(more))
    <2>1. IsFiniteSet({0}) BY FS_Singleton
    <2> QED BY <1>3, <2>1, FS_Union
  <1>5. amounts(some) \subseteq amounts(more) OBVIOUS
  <1>6. amounts(more) \subseteq Int /\ 0 \in amounts(some) BY <1>1
  <1> HIDE DEF amounts
  <1>7. IsFiniteSet(amounts(some)) BY <1>4, <1>5, FS_Subset
  <1>8. Max(amounts(some)) \in amounts(some) BY <1>5, <1>6, <1>7, MaxOfFinite
  <1>9. Max(amounts(more)) \in amounts(more) /\ \A x \in amounts(more) : x <= Max(amounts(more))
    BY <1>4, <1>5, <1>6, MaxOfFinite
  <1>10. Max(amounts(some)) \in Int /\ Max(amounts(more)) \in Int
         /\ Max(amounts(some)) <= Max(amounts(more))
    BY <1>5, <1>6, <1>8, <1>9
  <1> QED BY <1>10 DEF amounts

(* What the set a count is of gains, the count gains.                      *)
LEMMA CountGrows ==
    ASSUME NEW more, IsFiniteSet(more), NEW some \in SUBSET more
    PROVE  /\ Cardinality(some) \in Int /\ Cardinality(more) \in Int
           /\ Cardinality(some) <= Cardinality(more)
  <1>1. IsFiniteSet(some) /\ Cardinality(some) <= Cardinality(more) BY FS_Subset
  <1> QED BY <1>1, FS_CardinalityType

(* Every signal of a candidate is at least as strong with more receipts.   *)
LEMMA SignalsGrow ==
    ASSUME DiscoveryInvariant, NEW c, NEW more, NEW known \in SUBSET more,
           NEW usdOf \in Pricings
    PROVE  \A name \in Signals :
             /\ Metrics(c, known, usdOf)[name] \in Int /\ Metrics(c, more, usdOf)[name] \in Int
             /\ Metrics(c, known, usdOf)[name] <= Metrics(c, more, usdOf)[name]
  <1> DEFINE some == CandidateSwaps(c, known)
             all == CandidateSwaps(c, more)
             hits == TopLevelMatches(c, known)
             allHits == TopLevelMatches(c, more)
             evidence == Evidence(c)
             less == MetricsOf(settings.topLevel, hits, some, evidence, usdOf)
             full == MetricsOf(settings.topLevel, allHits, all, evidence, usdOf)
  <1>1. Metrics(c, known, usdOf) = less /\ Metrics(c, more, usdOf) = full
    BY MetricsUnfolded DEF MetricsAre
  <1>2. some \in SUBSET all /\ hits \in SUBSET allHits BY SwapsGrow
  <1>3. IsFiniteSet(all) /\ \A s \in all : usdOf[s] \in Nat \cup {None} BY SwapsFinite
  <1>4. IsFiniteSet(evidence) BY MatchesFinite
  <1>5. IsFiniteSet({match.hash : match \in evidence}) /\ IsFiniteSet({match.pool : match \in evidence})
    <2> HIDE DEF evidence
    <2> DEFINE hash == [match \in evidence |-> match.hash]
               pool == [match \in evidence |-> match.pool]
    <2>1. Range(hash) = {match.hash : match \in evidence}
          /\ Range(pool) = {match.pool : match \in evidence}
      BY DEF Range
    <2>2. hash \in [evidence -> Range(hash)] /\ pool \in [evidence -> Range(pool)] BY DEF Range
    <2> HIDE DEF hash, pool
    <2>3. IsFiniteSet(Range(hash)) /\ IsFiniteSet(Range(pool)) BY <1>4, <2>2, FiniteImage
    <2> QED BY <2>1, <2>3
  <1>6. IsFiniteSet(allHits)
    <2>1. allHits \subseteq {match.hash : match \in evidence} BY DEF TopLevelMatches
    <2> HIDE DEF allHits, evidence
    <2> QED BY <1>5, <2>1, FS_Subset
  <1> HIDE DEF some, all, hits, allHits, evidence
  <1>7. /\ Cardinality(hits) \in Int /\ Cardinality(allHits) \in Int
        /\ Cardinality(hits) <= Cardinality(allHits)
    BY <1>2, <1>6, CountGrows
  <1>8. /\ Cardinality({match.hash : match \in evidence}) \in Int
        /\ Cardinality({match.pool : match \in evidence}) \in Int
    BY <1>5, FS_CardinalityType
  <1>9. /\ Cardinality(some) \in Int /\ Cardinality(all) \in Int
        /\ Cardinality(some) <= Cardinality(all)
    BY <1>2, <1>3, CountGrows
  <1>10. LET priced(set) == {s \in set : usdOf[s] # None} IN
         /\ Cardinality(priced(some)) \in Int /\ Cardinality(priced(all)) \in Int
         /\ Cardinality(priced(some)) <= Cardinality(priced(all))
    <2> DEFINE priced(set) == {s \in set : usdOf[s] # None}
    <2>1. priced(some) \in SUBSET priced(all) /\ priced(all) \in SUBSET all BY <1>2
    <2> HIDE DEF priced
    <2>2. IsFiniteSet(priced(all)) BY <1>3, <2>1, FS_Subset
    <2>3. /\ Cardinality(priced(some)) \in Int /\ Cardinality(priced(all)) \in Int
          /\ Cardinality(priced(some)) <= Cardinality(priced(all))
      BY <2>1, <2>2, CountGrows
    <2> QED BY <2>3 DEF priced
  <1>11. /\ Volume(some, usdOf) \in Int /\ Volume(all, usdOf) \in Int
         /\ Volume(some, usdOf) <= Volume(all, usdOf)
    BY <1>2, <1>3, VolumeGrows
  <1>12. LET greatest(set) == Max({0} \cup {Amount(s, usdOf) : s \in set}) IN
         greatest(some) \in Int /\ greatest(all) \in Int /\ greatest(some) <= greatest(all)
    BY <1>2, <1>3, GreatestGrows, SMTT(30)
  <1>13. ASSUME NEW name \in Signals
         PROVE  less[name] \in Int /\ full[name] \in Int /\ less[name] <= full[name]
    <2>1. CASE name = "top_level_match_count" BY <1>7, <2>1 DEF MetricsOf
    <2>2. CASE name = "raw_tx_count" BY <1>8, <2>2 DEF MetricsOf
    <2>3. CASE name = "raw_pool_count" BY <1>8, <2>3 DEF MetricsOf
    <2>4. CASE name = "matched_swap_count" BY <1>9, <2>4 DEF MetricsOf
    <2>5. CASE name = "priced_swap_count" BY <1>10, <2>5 DEF MetricsOf
    <2>6. CASE name = "total_usd_volume" BY <1>11, <2>6 DEF MetricsOf
    <2>7. CASE name = "max_swap_usd" BY <1>12, <2>7 DEF MetricsOf
    <2> QED BY <2>1, <2>2, <2>3, <2>4, <2>5, <2>6, <2>7 DEF Signals
  <1> HIDE DEF less, full
  <1> QED BY <1>1, <1>13

LEMMA SignalsFinite == IsFiniteSet(Signals)
  <1> DEFINE number == [name \in Signals |->
                 CASE name = "top_level_match_count" -> 1 [] name = "raw_tx_count" -> 2
                   [] name = "raw_pool_count" -> 3 [] name = "matched_swap_count" -> 4
                   [] name = "priced_swap_count" -> 5 [] name = "total_usd_volume" -> 6
                   [] OTHER -> 7]
  <1>1. number \in [Signals -> 1..7] OBVIOUS
  <1>2. \A x, y \in Signals : number[x] = number[y] => x = y BY DEF Signals
  <1>3. IsFiniteSet(1..7)
    <2>1. PICK n \in Int : n = 7 OBVIOUS
    <2>2. IsFiniteSet(1..n) BY FS_Interval
    <2> QED BY <2>1, <2>2
  <1> HIDE DEF number
  <1> QED BY <1>1, <1>2, <1>3, InjectionBound

(* So is the score, and who is approved stays approved.                    *)
LEMMA ApprovalGrows ==
    ASSUME DiscoveryInvariant, settings \in Settings, NEW more, NEW known \in SUBSET more,
           NEW usdOf \in Pricings
    PROVE  Approved(known, usdOf) \subseteq Approved(more, usdOf)
  <1> SUFFICES ASSUME NEW c \in Approved(known, usdOf) PROVE c \in Approved(more, usdOf)
    OBVIOUS
  <1> DEFINE less == Metrics(c, known, usdOf)
             full == Metrics(c, more, usdOf)
  <1>1. /\ settings.weight \in [Signals -> Int] /\ settings.min \in [Signals -> Int]
        /\ \A name \in Signals : settings.weight[name] >= 0
        /\ settings.pass \in Int
    BY HeuristicsAssumption
  <1>2. \A name \in Signals : less[name] \in Int /\ full[name] \in Int /\ less[name] <= full[name]
    BY SignalsGrow
  <1> HIDE DEF less, full
  <1>3. Reached(less) \subseteq Reached(full)
    BY <1>1, <1>2 DEF Reached
  <1>4. Reached(full) \in SUBSET Signals /\ IsFiniteSet(Reached(full))
    <2>1. Reached(full) \in SUBSET Signals BY DEF Reached
    <2> QED BY <2>1, SignalsFinite, FS_Subset
  <1>5. IsFiniteSet(Reached(less)) /\ Reached(less) \in SUBSET Signals BY <1>3, <1>4, FS_Subset
  <1>6. Total(settings.weight, Reached(less)) <= Total(settings.weight, Reached(full))
    BY <1>1, <1>3, <1>4, TotalGrows
  <1>7. /\ Total(settings.weight, Reached(less)) \in Int
        /\ Total(settings.weight, Reached(full)) \in Int
    BY <1>1, <1>4, <1>5, TotalType
  <1>8. /\ Score(less) = Total(settings.weight, Reached(less))
        /\ Score(full) = Total(settings.weight, Reached(full))
    BY ScoreUnfolded DEF ScoreIsTotal
  <1>9. c \in Competitors /\ Score(less) >= settings.pass BY DEF Approved, less
  <1>10. Score(full) >= settings.pass BY <1>1, <1>6, <1>7, <1>8, <1>9
  <1> QED BY <1>9, <1>10 DEF Approved, full

(* A lost receipt may cost a competitor its approval and never gives one,  *)
(* for any weights, minima and amounts (_evaluate_candidate,               *)
(* _build_score_breakdown).                                                *)
THEOREM LostReceiptsGiveNothing == ScanSpec => []LostReceiptsOnlyReject
  <1>1. ScanInvariant => LostReceiptsOnlyReject
    <2> SUFFICES ASSUME ScanInvariant, stage = "done", request.kind = "reverse", usd # <<>>
                 PROVE  Persisted \subseteq Approved(Wanted, usd)
      BY DEF LostReceiptsOnlyReject
    <2>1. PICK approved \in SUBSET Competitors :
            /\ result = ReverseResult(approved)
            /\ usd \in Pricings /\ approved = Approved(receipts, usd)
      BY DEF ScanInvariant, StageSound, ResultIs
    <2>2. Persisted = approved BY <2>1, ResultOfApproved DEF ScanInvariant
    <2>3. receipts \in SUBSET Wanted /\ settings \in Settings
      BY DEF ScanInvariant, StageSound, ReceiptsTyped, DiscoveryTyped
    <2>4. Approved(receipts, usd) \subseteq Approved(Wanted, usd)
      BY <2>1, <2>3, ApprovalGrows DEF ScanInvariant
    <2> QED BY <2>1, <2>2, <2>4
  <1> QED BY <1>1, ScanInvariantHolds, PTL
=============================================================================
