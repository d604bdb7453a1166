--------------------------- MODULE TraceDiscovery ---------------------------
(***************************************************************************)
(* How a scan finds the traces of its addresses: collect_tx_contexts and   *)
(* collect_pool_competition walk through the window chunk by chunk, and    *)
(* TraceProviderService asks the node for each chunk, with one trace_filter*)
(* per batch of addresses, or with one debug_traceBlockByNumber per block, *)
(* several blocks at a time (utils/concurrency.py, async_resolve).         *)
(*                                                                         *)
(* asyncio.gather passes on the first exception and leaves the other tasks *)
(* of the chunk running: they are still there while the next chunks are    *)
(* traced.                                                                 *)
(*                                                                         *)
(* Abstractions.  The chain does not change during a scan.  The call tree  *)
(* of a transaction is the set of its frames.  Delays between retries,     *)
(* progress and normalisation of hexadecimal text are left out.  A request *)
(* that ends in an exception that is not retried (an error object, another *)
(* HTTP status) is one that is refused.                                    *)
(***************************************************************************)
EXTENDS Integers, SequencesExt, FiniteSetsExt

CONSTANTS
    Chain,              \* block -> sequence of [hash, frames]
    Requests,           \* the scan requests to be tried
    Clients,            \* the nodes: "modern", "bare" (no txHash) debug
                        \* namespaces, "filter" (trace namespace)
    ChunkSize,          \* EYWA_CHUNK_SIZE
    AddressBatch,       \* EYWA_TRACE_ADDRESS_BATCH_SIZE
    Concurrency,        \* EYWA_TRACE_BLOCK_CONCURRENCY
    Retries,            \* EYWA_RPC_RETRIES
    None                \* Python's None

Blocks == DOMAIN Chain
NotTraced == None               \* the frames of an entry without a result

ASSUME DiscoveryAssumption ==
    /\ Blocks \subseteq Nat
    /\ \A r \in Requests :
         /\ r.start \in Nat /\ r.end \in Nat /\ r.start <= r.end
         /\ r.start..r.end \subseteq Blocks
    /\ ChunkSize \in Nat \ {0} /\ AddressBatch \in Nat \ {0}
    /\ Concurrency \in Nat \ {0} /\ Retries \in Nat \ {0}
ASSUME RequestAssumption ==
    \A r \in Requests : IsFiniteSet(r.addresses)
ASSUME ChainAssumption ==
    \A b \in Blocks :
        /\ Len(Chain[b]) \in Nat /\ DOMAIN Chain[b] = 1..Len(Chain[b])
        /\ \A i \in DOMAIN Chain[b] :
             /\ Chain[b][i].hash # None /\ Chain[b][i].frames # NotTraced
             /\ \A frame \in Chain[b][i].frames :
                  frame.kind \in {"call", "create", "suicide"}

VARIABLES
    request,            \* of this scan
    client,
    phase,              \* "tracing", "traced" or "raised"
    chunk,              \* first block of the chunk that is traced
    task,               \* what the task of each block is doing
    attempt,            \* failed calls of the request a task waits for
    entries,            \* entries of a block that still lack their hashes
    found,              \* traces a task returned
    asked,              \* addresses of the chunk trace_filter was called for
    failed,             \* first blocks of the chunks that failed
    traces,             \* of the chunks so far
    lost                \* auxiliary: traces the node did not give and the
                        \* code passed over

discoveryVars ==
    <<request, client, phase, chunk, task, attempt, entries, found, asked,
      failed, traces, lost>>
-----------------------------------------------------------------------------
(* What the chain holds.                                                   *)

(* _build_trace: neither a creation nor a self-destruct has an action.to,  *)
(* and the latter no action.from.                                          *)
ActionTo(frame) == IF frame.kind = "call" THEN frame.to ELSE None
ActionFrom(frame) == IF frame.kind = "suicide" THEN None ELSE frame.from
Trace(hash, frame) == [hash |-> hash, from |-> ActionFrom(frame), to |-> ActionTo(frame)]

(* _trace_matches                                                          *)
Matches(trace, addresses) ==
    (IF request.role = "to" THEN trace.to ELSE trace.from) \in addresses

(* flatten_call_frames and the filter, for a set of pairs [hash, frames].  *)
MatchingTraces(pairs, addresses) ==
    UNION {{t \in {Trace(p.hash, frame) : frame \in p.frames} : Matches(t, addresses)} :
             p \in {q \in pairs : q.hash # None}}

(* What a scan is after, in some blocks: the traces as the trace namespace *)
(* shows them (external), of a call, a creation or a self-destruct.        *)
Exposed(hash, frame) ==
    [hash |-> hash,
     from |-> IF frame.kind \in {"call", "create"} THEN frame.from ELSE None,
     to |-> IF frame.kind = "call" THEN frame.to ELSE None]
Sought(blocks, addresses) ==
    {t \in UNION {UNION {{Exposed(tx.hash, frame) : frame \in tx.frames} :
                             tx \in Range(Chain[b])} : b \in blocks} :
        IF request.role = "to" THEN t.to \in addresses ELSE t.from \in addresses}
Window == {b \in Blocks : request.start <= b /\ b <= request.end}

(* The reply of the node to debug_traceBlockByNumber, where the tracer may *)
(* have failed for some transactions.                                      *)
Entries(block, untraced) ==
    [i \in DOMAIN Chain[block] |->
        [hash |-> IF client = "bare" THEN None ELSE Chain[block][i].hash,
         frames |-> IF i \in untraced THEN NotTraced ELSE Chain[block][i].frames]]

(* Fault: the entries without a result are dropped before the rest is      *)
(* paired with the hashes of the block.                                    *)
NormalizeAfterDropping(list, hashes) ==
    LET kept == SelectSeq(list, LAMBDA e : e.frames # NotTraced) IN
    {[hash |-> IF kept[i].hash # None THEN kept[i].hash
               ELSE IF i <= Len(hashes) THEN hashes[i] ELSE None,
      frames |-> kept[i].frames] : i \in DOMAIN kept}

(* normalize_block_trace_entries: entries are positional.                  *)
Normalize(list, hashes) ==
    {[hash |-> IF list[i].hash # None THEN list[i].hash
               ELSE IF i <= Len(hashes) THEN hashes[i] ELSE None,
      frames |-> list[i].frames] :
        i \in {j \in DOMAIN list : list[j].frames # NotTraced}}

BlockHashes(block) == [i \in DOMAIN Chain[block] |-> Chain[block][i].hash]
-----------------------------------------------------------------------------
(* iter_block_chunks *)
ChunkEnd(first) == Min({first + ChunkSize - 1, request.end})
ChunkBlocks(first) == first..ChunkEnd(first)
ChunkOf(block) == request.start + ((block - request.start) \div ChunkSize) * ChunkSize

Active == {b \in Blocks : task[b] \in {"tracing", "mapping"}}

DiscoveryInit ==
    /\ request \in Requests
    /\ client \in Clients
    /\ phase = "tracing"
    /\ chunk = request.start
    /\ task = [b \in Blocks |-> "none"]
    /\ attempt = [b \in Blocks |-> 0]
    /\ entries = [b \in Blocks |-> <<>>]
    /\ found = [b \in Blocks |-> {}]
    /\ asked = {}
    /\ failed = {} /\ traces = {} /\ lost = {}

InChunk == phase = "tracing" /\ chunk <= request.end

(* Fault: the next chunk starts with the last block of this one.           *)
LeaveForItsEnd(newTraces, newFailed) ==
    /\ traces' = traces \cup newTraces
    /\ failed' = failed \cup newFailed
    /\ chunk' = ChunkEnd(chunk)
    /\ asked' = {}

(* The chunk is through: its traces are merged, or its failure is noted.   *)
LeaveChunk(newTraces, newFailed) ==
    /\ traces' = traces \cup newTraces
    /\ failed' = failed \cup newFailed
    /\ chunk' = ChunkEnd(chunk) + 1
    /\ asked' = {}
-----------------------------------------------------------------------------
(* The debug namespace: async_resolve makes a task for each block.         *)
StartChunk ==
    /\ InChunk /\ client # "filter"
    /\ task[chunk] = "none"
    /\ task' = [b \in Blocks |-> IF b \in ChunkBlocks(chunk) THEN "waiting" ELSE task[b]]
    /\ UNCHANGED <<request, client, phase, chunk, attempt, entries, found, asked,
                   failed, traces, lost>>

(* Each call of async_resolve has a semaphore of its own.                  *)
SemaphoreFree(first) ==
    Cardinality(Active \cap ChunkBlocks(first)) < Concurrency

Acquire(b) ==
    /\ task[b] = "waiting"
    /\ SemaphoreFree(ChunkOf(b))
    /\ \A a \in ChunkBlocks(ChunkOf(b)) : task[a] = "waiting" => b <= a
    /\ task' = [task EXCEPT ![b] = "tracing"]
    /\ UNCHANGED <<request, client, phase, chunk, attempt, entries, found, asked,
                   failed, traces, lost>>

Returned(b, pairs) ==
    /\ task' = [task EXCEPT ![b] = "returned"]
    /\ found' = [found EXCEPT ![b] = MatchingTraces(pairs, request.addresses)]

(* debug_trace_block_by_number was answered.  Entries without a hash need  *)
(* the transaction list of the block.                                      *)
TraceReply(b) ==
    /\ task[b] = "tracing"
    /\ attempt' = [attempt EXCEPT ![b] = 0]
    /\ \E untraced \in SUBSET DOMAIN Chain[b] :
         LET list == Entries(b, untraced)
             pairs == Normalize(list, <<>>)
         IN
         /\ lost' = lost \cup {t \in Sought({b}, request.addresses) :
                        \E i \in untraced : t.hash = Chain[b][i].hash}
         /\ IF \E p \in pairs : p.hash = None
            THEN /\ task' = [task EXCEPT ![b] = "mapping"]
                 /\ entries' = [entries EXCEPT ![b] = list]
                 /\ UNCHANGED found
            ELSE Returned(b, pairs) /\ UNCHANGED entries
    /\ UNCHANGED <<request, client, phase, chunk, asked, failed, traces>>

(* The result is null: the block counts as empty.                          *)
TraceIsNull(b) ==
    /\ task[b] = "tracing"
    /\ attempt' = [attempt EXCEPT ![b] = 0]
    /\ Returned(b, {})
    /\ lost' = lost \cup Sought({b}, request.addresses)
    /\ UNCHANGED <<request, client, phase, chunk, entries, asked, failed, traces>>

(* get_block for the hashes of the entries.                                *)
MapEntries(b) ==
    /\ task[b] = "mapping"
    /\ Returned(b, Normalize(entries[b], BlockHashes(b)))
    /\ attempt' = [attempt EXCEPT ![b] = 0]
    /\ entries' = [entries EXCEPT ![b] = <<>>]
    /\ UNCHANGED <<request, client, phase, chunk, asked, failed, traces, lost>>

(* get_block returns None for a null result, a refused request and one     *)
(* whose retries are used up: entries without a hash are dropped.          *)
DropEntries(b) ==
    /\ task[b] = "mapping"
    /\ Returned(b, Normalize(entries[b], <<>>))
    /\ attempt' = [attempt EXCEPT ![b] = 0]
    /\ entries' = [entries EXCEPT ![b] = <<>>]
    /\ lost' = lost \cup Sought({b}, request.addresses)
    /\ UNCHANGED <<request, client, phase, chunk, asked, failed, traces>>

(* Fault: an off-by-one in the count of the attempts.                      *)
RetryOnceMore(b) ==
    /\ b \in Active
    /\ attempt[b] < Retries
    /\ attempt' = [attempt EXCEPT ![b] = @ + 1]
    /\ UNCHANGED <<request, client, phase, chunk, task, entries, found, asked,
                   failed, traces, lost>>

(* make_request: a transient failure is retried.                           *)
RetryTask(b) ==
    /\ b \in Active
    /\ attempt[b] < Retries - 1
    /\ attempt' = [attempt EXCEPT ![b] = @ + 1]
    /\ UNCHANGED <<request, client, phase, chunk, task, entries, found, asked,
                   failed, traces, lost>>

(* The retries are used up, or the request is refused: the task raises; so *)
(* it does after an error that get_block does not swallow (of the client,  *)
(* neither an RpcError nor a ValueError).                                  *)
TaskRaises(b) ==
    /\ b \in Active
    /\ task' = [task EXCEPT ![b] = "raised"]
    /\ entries' = [entries EXCEPT ![b] = <<>>]
    /\ UNCHANGED <<request, client, phase, chunk, attempt, found, asked,
                   failed, traces, lost>>

(* gather: all tasks returned, or one of them raised.                      *)
ChunkTraced ==
    /\ InChunk /\ client # "filter"
    /\ \A b \in ChunkBlocks(chunk) : task[b] = "returned"
    /\ LeaveChunk(UNION {found[b] : b \in ChunkBlocks(chunk)}, {})
    /\ UNCHANGED <<request, client, phase, task, attempt, entries, found, lost>>

ChunkFails ==
    /\ InChunk /\ client # "filter"
    /\ \E b \in ChunkBlocks(chunk) : task[b] = "raised"
    /\ LeaveChunk({}, {chunk})
    /\ UNCHANGED <<request, client, phase, task, attempt, entries, found, lost>>
-----------------------------------------------------------------------------
(* The trace namespace: the addresses of a batch over the whole chunk.     *)
NextAddresses ==
    LET rest == request.addresses \ asked
        size == Min({AddressBatch, Cardinality(rest)})
    IN  CHOOSE batch \in SUBSET rest : Cardinality(batch) = size

FilterCall == InChunk /\ client = "filter" /\ asked # request.addresses

FilterReply ==
    /\ FilterCall
    /\ found' = [found EXCEPT ![chunk] =
                   @ \cup Sought(ChunkBlocks(chunk), NextAddresses)]
    /\ asked' = asked \cup NextAddresses
    /\ attempt' = [attempt EXCEPT ![chunk] = 0]
    /\ UNCHANGED <<request, client, phase, chunk, task, entries, failed, traces, lost>>

(* The result is null, or no list.                                         *)
FilterIsNull ==
    /\ FilterCall
    /\ asked' = asked \cup NextAddresses
    /\ attempt' = [attempt EXCEPT ![chunk] = 0]
    /\ lost' = lost \cup Sought(ChunkBlocks(chunk), NextAddresses)
    /\ UNCHANGED <<request, client, phase, chunk, task, entries, found, failed, traces>>

RetryFilter ==
    /\ FilterCall
    /\ attempt[chunk] < Retries - 1
    /\ attempt' = [attempt EXCEPT ![chunk] = @ + 1]
    /\ UNCHANGED <<request, client, phase, chunk, task, entries, found, asked,
                   failed, traces, lost>>

FilterRaises ==
    /\ FilterCall
    /\ LeaveChunk({}, {chunk})
    /\ UNCHANGED <<request, client, phase, task, attempt, entries, found, lost>>

FilterDone ==
    /\ InChunk /\ client = "filter" /\ asked = request.addresses
    /\ LeaveChunk(found[chunk], {})
    /\ UNCHANGED <<request, client, phase, task, attempt, entries, found, lost>>
-----------------------------------------------------------------------------
(* After the last chunk: a failed range fails the whole scan.              *)
WindowTraced ==
    /\ phase = "tracing" /\ chunk > request.end
    /\ phase' = IF failed = {} THEN "traced" ELSE "raised"
    /\ UNCHANGED <<request, client, chunk, task, attempt, entries, found, asked,
                   failed, traces, lost>>

(* asyncio.run, once the scan has raised, cancels what still runs.         *)
CancelTasks ==
    /\ phase = "raised"
    /\ \E b \in Blocks : task[b] = "waiting" \/ b \in Active
    /\ task' = [b \in Blocks |-> IF task[b] = "waiting" \/ b \in Active
                                 THEN "cancelled" ELSE task[b]]
    /\ UNCHANGED <<request, client, phase, chunk, attempt, entries, found, asked,
                   failed, traces, lost>>

TaskStep(b) ==
    \/ Acquire(b) \/ TraceReply(b) \/ TraceIsNull(b) \/ MapEntries(b) \/ DropEntries(b)
    \/ RetryTask(b) \/ TaskRaises(b)

FilterStep == FilterReply \/ FilterIsNull \/ RetryFilter \/ FilterRaises \/ FilterDone

ScanStep ==
    \/ StartChunk \/ ChunkTraced \/ ChunkFails \/ FilterStep \/ WindowTraced
    \/ CancelTasks

DiscoveryNext == ScanStep \/ \E b \in Blocks : TaskStep(b)
-----------------------------------------------------------------------------
(* No transaction is missed and none is made up: when the window has been  *)
(* traced without a failed range, the traces are those of the chain for    *)
(* the addresses and the role asked for, each with the hash of its own     *)
(* transaction, except what the node passed over in silence (a null        *)
(* result, a transaction it could not trace, a block whose hashes it did   *)
(* not give); whatever the order of the tasks, the retries, the chunks and *)
(* the kind of node.                                                       *)
NoTransactionMissed ==
    phase = "traced" =>
        /\ traces \subseteq Sought(Window, request.addresses)
        /\ Sought(Window, request.addresses) \ lost \subseteq traces
=============================================================================
