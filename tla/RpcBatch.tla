------------------------------ MODULE RpcBatch ------------------------------
(***************************************************************************)
(* RpcGatewayService.make_batch_request: a batch of JSON-RPC requests that *)
(* is sent, retried and, when the retries are used up, halved; and the     *)
(* alignment of answers that come in any order, not all of them, or        *)
(* malformed (utils/batching.py).                                          *)
(*                                                                         *)
(* A request is its position in the batch, and its answer is named by it.  *)
(* Delays between retries are left out.  The server echoes the ids of the  *)
(* requests, as JSON-RPC demands, and web3 numbers the requests of a call  *)
(* consecutively; what else it does is open.                               *)
(***************************************************************************)
EXTENDS Integers, SequencesExt

CONSTANTS
    N,                  \* length of the batch
    Retries,            \* EYWA_RPC_RETRIES
    FirstIds,           \* ids the first request of a call may get
    NoId, NoAnswer      \* no integer id; None

ASSUME BatchAssumption == N \in Nat \ {0} /\ Retries \in Nat \ {0}
ASSUME IdAssumption == FirstIds \subseteq Int
ASSUME NoAnswerAssumption == NoAnswer \notin 1..N /\ NoId \notin Int

VARIABLES
    state,              \* "running", "done" or "failed"
    todo,               \* slices of the batch still to be asked for, in order
    attempt,            \* failed calls for the first of them
    results,            \* answers so far, in the order of the requests
    poison,             \* requests that make every call they are in fail
    honest              \* auxiliary: all answers were complete so far, and
                        \* only calls with a poisonous request failed

vars == <<state, todo, attempt, results, poison, honest>>

Slice == [first : 1..N, last : 0..N]
Size(slice) == slice.last - slice.first + 1
Requests(slice) == slice.first..slice.last
-----------------------------------------------------------------------------
(* align_batch_responses.                                                  *)
Ids(list) == {list[i].id : i \in DOMAIN list}

WellFormed(list) ==
    /\ list # <<>>
    /\ NoId \notin Ids(list)
    /\ \A i, j \in DOMAIN list : list[i].id = list[j].id => i = j

CandidateBases(list, n) ==
    {b \in (Max(Ids(list)) - n + 1)..Min(Ids(list)) :
        \A id \in Ids(list) : b <= id /\ id < b + n}

(* The answer whose id is at the distance k - 1 from the base.             *)
AlignFrom(list, n, base) ==
    [k \in 1..n |->
        IF base + k - 1 \in Ids(list)
        THEN list[CHOOSE i \in DOMAIN list : list[i].id = base + k - 1].answer
        ELSE NoAnswer]

(* Fault: the smallest id is taken for the one of the first request.       *)
AlignFromSmallest(list, n) ==
    IF WellFormed(list) THEN AlignFrom(list, n, Min(Ids(list)))
    ELSE [k \in 1..n |-> NoAnswer]

Align(list, n) ==
    IF WellFormed(list) /\ \E b \in CandidateBases(list, n) : CandidateBases(list, n) = {b}
    THEN AlignFrom(list, n, CHOOSE b \in CandidateBases(list, n) : TRUE)
    ELSE [k \in 1..n |-> NoAnswer]
-----------------------------------------------------------------------------
(* What a server may answer to a slice whose first request has this id.    *)
Answer(slice, firstId, request) ==
    [id |-> firstId + request - slice.first, answer |-> request]

HonestAnswers(slice, firstId, requests) ==
    {[i \in DOMAIN order |-> Answer(slice, firstId, order[i])] :
        order \in SetToSeqs(requests)}

(* All answers or some of them, in any order, with a malformed or a        *)
(* repeated item in front or without.                                      *)
Malformed == [id |-> NoId, answer |-> NoAnswer]
Answers(slice, firstId) ==
    LET some == UNION {HonestAnswers(slice, firstId, set) :
                         set \in SUBSET Requests(slice)}
    IN  some \cup {<<Malformed>> \o list : list \in some}
             \cup {<<list[1]>> \o list : list \in some \ {<<>>}}
-----------------------------------------------------------------------------
Init ==
    /\ state = "running"
    /\ todo = <<[first |-> 1, last |-> N]>>
    /\ attempt = 0
    /\ results = <<>>
    /\ poison \in SUBSET (1..N)
    /\ honest = TRUE

Sending == state = "running" /\ todo # <<>>

(* What is still to be asked for after the first slice was answered.       *)
NextSlice(answers) ==
    /\ results' = results \o answers
    /\ todo' = Tail(todo)
    /\ attempt' = 0

Reply ==
    /\ Sending
    /\ Requests(Head(todo)) \cap poison = {}
    /\ \E firstId \in FirstIds : \E list \in Answers(Head(todo), firstId) :
         /\ NextSlice(Align(list, Size(Head(todo))))
         /\ honest' = (honest /\ list \in HonestAnswers(Head(todo), firstId, Requests(Head(todo))))
    /\ UNCHANGED <<state, poison>>

(* The call fails: a transient HTTP status, a timeout, a lost connection.  *)
CallFails ==
    /\ Sending
    /\ honest' = (honest /\ Requests(Head(todo)) \cap poison # {})

(* Fault: an off-by-one in the count of the attempts.                      *)
RetryOnceMore ==
    /\ CallFails
    /\ attempt < Retries
    /\ attempt' = attempt + 1
    /\ UNCHANGED <<state, todo, results, poison>>

Retry ==
    /\ CallFails
    /\ attempt < Retries - 1
    /\ attempt' = attempt + 1
    /\ UNCHANGED <<state, todo, results, poison>>

(* Faults: the whole slice is given up when the retries are used up; the   *)
(* base of the recursion is missed.                                        *)
GiveUpSlice ==
    /\ CallFails
    /\ attempt = Retries - 1
    /\ NextSlice([k \in 1..Size(Head(todo)) |-> NoAnswer])
    /\ UNCHANGED <<state, poison>>
GiveUpNothing ==
    /\ CallFails
    /\ attempt = Retries - 1 /\ Size(Head(todo)) = 0
    /\ NextSlice(<<NoAnswer>>)
    /\ UNCHANGED <<state, poison>>

(* A request that fails alone has no answer.                               *)
GiveUp ==
    /\ CallFails
    /\ attempt = Retries - 1 /\ Size(Head(todo)) = 1
    /\ NextSlice(<<NoAnswer>>)
    /\ UNCHANGED <<state, poison>>

(* Fault: the halves overlap.                                              *)
OverlappingHalves(slice) ==
    LET middle == slice.first + Size(slice) \div 2 IN
    <<[first |-> slice.first, last |-> middle],
      [first |-> middle, last |-> slice.last]>>

Halves(slice) ==
    LET middle == slice.first + Size(slice) \div 2 IN
    <<[first |-> slice.first, last |-> middle - 1],
      [first |-> middle, last |-> slice.last]>>

Halve ==
    /\ CallFails
    /\ attempt = Retries - 1 /\ Size(Head(todo)) > 1
    /\ todo' = Halves(Head(todo)) \o Tail(todo)
    /\ attempt' = 0
    /\ UNCHANGED <<state, results, poison>>

(* Any other HTTP status, or an answer that is not a list: the exception   *)
(* leaves the whole batch.                                                 *)
Raise ==
    /\ Sending
    /\ state' = "failed" /\ honest' = FALSE
    /\ UNCHANGED <<todo, attempt, results, poison>>

Return ==
    /\ state = "running" /\ todo = <<>>
    /\ state' = "done"
    /\ UNCHANGED <<todo, attempt, results, poison, honest>>

Progress == Reply \/ Retry \/ GiveUp \/ Halve \/ Return

Next == Progress \/ Raise

(* Every call ends, by an answer or by its timeout, and the caller goes on *)
(* with it; nothing forces an exception.                                   *)
Spec == Init /\ [][Next]_vars /\ WF_vars(Progress)
-----------------------------------------------------------------------------
(* The shape of the state.                                                 *)
TypeOK ==
    /\ state \in {"running", "done", "failed"}
    /\ todo \in Seq(Slice)
    /\ attempt \in 0..(Retries - 1)
    /\ results \in Seq(1..N \cup {NoAnswer})
    /\ poison \subseteq 1..N
    /\ honest \in BOOLEAN

(* No request ever gets the answer of another one, in whatever order the   *)
(* answers came, whichever were missing and however the batch was halved   *)
(* ("the caller gets None placeholders instead of potentially mismatched   *)
(* responses", align_batch_responses).                                     *)
NeverMismatched == \A k \in DOMAIN results : results[k] \in {k, NoAnswer}

(* What makes it inductive: the slices to be asked for continue where the  *)
(* results end, without a gap, up to the last request.                     *)
SlicesContinue ==
    /\ todo # <<>> => todo[1].first = Len(results) + 1
    /\ \A i \in 1..(Len(todo) - 1) : todo[i + 1].first = todo[i].last + 1
    /\ todo # <<>> => todo[Len(todo)].last = N
    /\ todo = <<>> => Len(results) = N
    /\ \A i \in DOMAIN todo : todo[i].first <= todo[i].last
    /\ state = "done" => todo = <<>>

(* Every request has its place when the call returns.                      *)
Complete == state = "done" => Len(results) = N

(* If only calls with a poisonous request failed and the answers were      *)
(* complete, every other request is answered: halving isolates the         *)
(* culprits.                                                               *)
OnlyPoisonIsLost ==
    state = "done" /\ honest =>
        \A k \in 1..N : results[k] = IF k \in poison THEN NoAnswer ELSE k

(* The call comes to an end, whatever fails and however often.             *)
Terminates == <>(state # "running")
=============================================================================
