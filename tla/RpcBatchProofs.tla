--------------------------- MODULE RpcBatchProofs ---------------------------
(***************************************************************************)
(* No request ever gets the answer of another one, and every request has   *)
(* its place when the batch returns: for any batch, any number of retries, *)
(* any ids, and servers that reorder, drop, repeat or garble answers.      *)
(***************************************************************************)
EXTENDS RpcBatch, SequenceTheorems, FiniteSetTheorems, WellFoundedInduction, TLAPS

Results == 1..N \cup {NoAnswer}
-----------------------------------------------------------------------------
(* Bounded sets of integers have a least and a greatest member.            *)
LEMMA MinOfNaturals ==
  ASSUME NEW S \in SUBSET Nat, S # {}
  PROVE  \E x \in S : \A y \in S : x <= y
<1>1. PICK x \in S : \A y \in S : <<y, x>> \notin OpToRel(<, Nat)
  BY WFMin, NatLessThanWellFounded, Zenon
<1>2. \A y \in S : ~(y < x) BY <1>1, Zenon DEF OpToRel
<1>3. \A y \in S : x <= y BY <1>2, SMT
<1> QED BY <1>3

LEMMA MinOfBounded ==
  ASSUME NEW S \in SUBSET Int, S # {}, NEW lo \in Int, \A x \in S : lo <= x
  PROVE  Min(S) \in S /\ \A y \in S : Min(S) <= y
<1> DEFINE T == {x - lo : x \in S}
<1>1. T \in SUBSET Nat /\ T # {}
  <2>1. \A x \in S : x - lo \in Nat BY SMT
  <2>2. T \subseteq Nat BY <2>1, Zenon
  <2>3. PICK x \in S : TRUE OBVIOUS
  <2>4. x - lo \in T BY <2>3, Zenon
  <2> QED BY <2>2, <2>4
<1> HIDE DEF T
<1>2. PICK t \in T : \A u \in T : t <= u BY <1>1, MinOfNaturals
<1>3. PICK x \in S : t = x - lo BY <1>2 DEF T
<1>4. \A y \in S : x <= y
  <2> TAKE y \in S
  <2>1. y - lo \in T BY DEF T
  <2>2. x - lo <= y - lo BY <1>2, <1>3, <2>1
  <2> QED BY <2>2
<1> QED BY <1>4 DEF Min

LEMMA MaxOfBounded ==
  ASSUME NEW S \in SUBSET Int, S # {}, NEW hi \in Int, \A x \in S : x <= hi
  PROVE  Max(S) \in S /\ \A y \in S : Max(S) >= y
<1> DEFINE T == {hi - x : x \in S}
<1>1. T \in SUBSET Nat /\ T # {}
  <2>1. \A x \in S : hi - x \in Nat BY SMT
  <2>2. T \subseteq Nat BY <2>1, Zenon
  <2>3. PICK x \in S : TRUE OBVIOUS
  <2>4. hi - x \in T BY <2>3, Zenon
  <2> QED BY <2>2, <2>4
<1> HIDE DEF T
<1>2. PICK t \in T : \A u \in T : t <= u BY <1>1, MinOfNaturals
<1>3. PICK x \in S : t = hi - x BY <1>2 DEF T
<1>4. \A y \in S : x >= y
  <2> TAKE y \in S
  <2>1. hi - y \in T BY DEF T
  <2>2. hi - x <= hi - y BY <1>2, <1>3, <2>1
  <2> QED BY <2>2
<1> QED BY <1>4 DEF Max
-----------------------------------------------------------------------------
(* A non-empty slice of the batch.                                         *)
GoodSlice(slice) == slice \in Slice /\ slice.first <= slice.last

(* An item a server sends: the answer of a request of the slice under the  *)
(* id of that request, or one without a usable id.                         *)
Items(slice, firstId) ==
    {Answer(slice, firstId, r) : r \in Requests(slice)} \cup {Malformed}

LEMMA HonestItems ==
  ASSUME NEW slice, GoodSlice(slice), NEW firstId \in Int,
         NEW requests \in SUBSET Requests(slice),
         NEW list \in HonestAnswers(slice, firstId, requests)
  PROVE  list \in Seq(Items(slice, firstId))
<1>1. slice.first \in Int /\ slice.last \in Int
  BY BatchAssumption DEF GoodSlice, Slice
<1>2. IsFiniteSet(Requests(slice)) BY <1>1, FS_Interval DEF Requests
<1>3. IsFiniteSet(requests) BY <1>2, FS_Subset
<1>4. Cardinality(requests) \in Nat BY <1>3, FS_CardinalityType
<1> DEFINE size == Cardinality(requests)
<1>5. PICK order \in SetToSeqs(requests) :
        list = [i \in DOMAIN order |-> Answer(slice, firstId, order[i])]
  BY DEF HonestAnswers
<1>6. order \in [1..size -> requests] BY <1>5 DEF SetToSeqs
<1>7. list \in [1..size -> Items(slice, firstId)]
  <2>1. \A r \in requests : Answer(slice, firstId, r) \in Items(slice, firstId)
    BY DEF Items
  <2> QED BY <1>5, <1>6, <2>1
<1> QED BY <1>4, <1>7

LEMMA ServerItems ==
  ASSUME NEW slice, GoodSlice(slice), NEW firstId \in Int,
         NEW list \in Answers(slice, firstId)
  PROVE  list \in Seq(Items(slice, firstId))
<1> DEFINE I == Items(slice, firstId)
<1> DEFINE some == UNION {HonestAnswers(slice, firstId, set) :
                            set \in SUBSET Requests(slice)}
<1>1. \A l \in some : l \in Seq(I) BY HonestItems, Zenon
<1>2. HonestAnswers(slice, firstId, Requests(slice)) \subseteq some
  OBVIOUS
<1>3. Malformed \in I BY DEF Items
<1>4. list \in some \/ (\E l \in some : list = <<Malformed>> \o l)
        \/ (\E l \in some \ {<<>>} : list = <<l[1]>> \o l)
  BY <1>2, Zenon DEF Answers
<1> HIDE DEF I, some
<1>5. CASE list \in some BY <1>1, <1>5 DEF I
<1>6. ASSUME NEW l \in some, list = <<Malformed>> \o l PROVE list \in Seq(I)
  <2>1. <<Malformed>> \in Seq(I) /\ l \in Seq(I) BY <1>1, <1>3
  <2> QED BY <1>6, <2>1, ConcatProperties
<1>7. ASSUME NEW l \in some \ {<<>>}, list = <<l[1]>> \o l PROVE list \in Seq(I)
  <2>1. l \in Seq(I) /\ l # <<>> BY <1>1
  <2>2. l[1] \in I BY <2>1
  <2>3. <<l[1]>> \in Seq(I) BY <2>2
  <2> QED BY <1>7, <2>1, <2>3, ConcatProperties
<1> QED BY <1>4, <1>5, <1>6, <1>7 DEF I
-----------------------------------------------------------------------------
(* What align_batch_responses gives a request is its own answer or none.   *)
LEMMA AlignSound ==
  ASSUME NEW slice, GoodSlice(slice), NEW firstId \in Int,
         NEW list \in Answers(slice, firstId)
  PROVE  LET n == Size(slice) IN
         /\ Align(list, n) \in [1..n -> Results]
         /\ \A k \in 1..n : Align(list, n)[k] \in {slice.first + k - 1, NoAnswer}
<1> DEFINE n == Size(slice)
           ids == Ids(list)
<1>1. /\ slice.first \in 1..N /\ slice.last \in 0..N
      /\ slice.first <= slice.last
      /\ n = slice.last - slice.first + 1
      /\ N \in Nat /\ NoId \notin Int
  BY BatchAssumption, NoAnswerAssumption DEF GoodSlice, Slice, Size
<1>2. list \in Seq(Items(slice, firstId)) BY ServerItems
<1>3. \A k \in 1..n : slice.first + k - 1 \in Results
  BY <1>1, SMT DEF Results
<1>4. NoAnswer \in Results BY DEF Results
<1> DEFINE Sound(a) == /\ a \in [1..n -> Results]
                       /\ \A k \in 1..n : a[k] \in {slice.first + k - 1, NoAnswer}
<1>5. Sound([k \in 1..n |-> NoAnswer]) BY <1>4
<1>6. ASSUME WellFormed(list), NEW c \in CandidateBases(list, n),
             CandidateBases(list, n) = {c}
      PROVE  Sound(AlignFrom(list, n, c))
  <2>1. \A i \in DOMAIN list : \E r \in Requests(slice) :
          list[i].id = firstId + r - slice.first /\ list[i].answer = r
    <3> TAKE i \in DOMAIN list
    <3>1. list[i] \in Items(slice, firstId) BY <1>2
    <3>2. list[i].id # NoId BY <1>6 DEF WellFormed, Ids
    <3>3. list[i] # Malformed BY <3>2 DEF Malformed
    <3>4. PICK r \in Requests(slice) : list[i] = Answer(slice, firstId, r)
      BY <3>1, <3>3 DEF Items
    <3> QED BY <3>4 DEF Answer
  <2>2. \A i \in DOMAIN list :
          /\ list[i].id \in Int
          /\ firstId <= list[i].id /\ list[i].id <= firstId + n - 1
          /\ list[i].answer = list[i].id - firstId + slice.first
    <3> TAKE i \in DOMAIN list
    <3>1. PICK r \in Requests(slice) :
            list[i].id = firstId + r - slice.first /\ list[i].answer = r
      BY <2>1
    <3>2. r \in Int /\ slice.first <= r /\ r <= slice.last
      BY <1>1 DEF Requests
    <3> HIDE DEF n
    <3> QED BY <1>1, <3>1, <3>2
  <2>3. ids # {}
    <3>1. list # <<>> BY <1>6 DEF WellFormed
    <3>2. 1 \in DOMAIN list BY <1>2, <3>1
    <3> QED BY <3>2 DEF Ids
  <2>4. ids \in SUBSET Int /\ \A id \in ids : firstId <= id /\ id <= firstId + n - 1
    BY <2>2 DEF Ids
  <2> HIDE DEF n, ids
  <2>5. n \in Nat BY <1>1
  <2>6. Min(ids) \in ids BY <2>3, <2>4, MinOfBounded
  <2>7. Max(ids) \in ids
    <3> DEFINE hi == firstId + n - 1
    <3>1. hi \in Int /\ \A id \in ids : id <= hi BY <2>4, <2>5
    <3> HIDE DEF hi
    <3> QED BY <2>3, <2>4, <3>1, MaxOfBounded
  <2>8. firstId \in (Max(ids) - n + 1)..Min(ids)
    <3> DEFINE least == Min(ids)
               greatest == Max(ids)
    <3>1. least \in Int /\ firstId <= least BY <2>4, <2>6
    <3>2. greatest \in Int /\ greatest <= firstId + n - 1 BY <2>4, <2>7
    <3> HIDE DEF least, greatest
    <3>3. firstId \in (greatest - n + 1)..least BY <2>5, <3>1, <3>2
    <3> QED BY <3>3 DEF least, greatest
  <2>9. \A id \in ids : firstId <= id /\ id < firstId + n
    BY <2>4, <2>5
  <2>10. firstId \in CandidateBases(list, n)
    BY <2>8, <2>9 DEF CandidateBases, ids
  <2>11. c = firstId BY <1>6, <2>10
  <2>12. ASSUME NEW k \in 1..n
         PROVE  AlignFrom(list, n, c)[k] \in {slice.first + k - 1, NoAnswer}
    <3>1. CASE c + k - 1 \in ids
      <4>1. PICK i \in DOMAIN list : list[i].id = c + k - 1
        BY <3>1 DEF ids, Ids
      <4> DEFINE j == CHOOSE i_1 \in DOMAIN list : list[i_1].id = c + k - 1
      <4>2. j \in DOMAIN list /\ list[j].id = c + k - 1 BY <4>1
      <4>3. AlignFrom(list, n, c)[k] = list[j].answer
        BY <3>1, Zenon DEF AlignFrom, ids
      <4> HIDE DEF j
      <4>4. list[j].answer = list[j].id - firstId + slice.first
        BY <2>2, <4>2
      <4>5. list[j].answer = slice.first + k - 1
        BY <1>1, <2>5, <2>11, <4>2, <4>4
      <4> QED BY <4>3, <4>5
    <3>2. CASE c + k - 1 \notin ids BY <3>2 DEF AlignFrom, ids
    <3> QED BY <3>1, <3>2
  <2>13. \A k \in 1..n : AlignFrom(list, n, c)[k] \in Results
    BY <1>3, <1>4, <2>12
  <2>14. AlignFrom(list, n, c) \in [1..n -> Results]
    BY <2>13, Zenon DEF AlignFrom
  <2> QED BY <2>12, <2>14
<1>7. Sound(Align(list, n))
  <2>1. CASE WellFormed(list) /\ \E b \in CandidateBases(list, n) :
                                    CandidateBases(list, n) = {b}
    <3>1. PICK b \in CandidateBases(list, n) : CandidateBases(list, n) = {b}
      BY <2>1
    <3>2. (CHOOSE c \in CandidateBases(list, n) : TRUE) = b BY <3>1
    <3>3. Align(list, n) = AlignFrom(list, n, b)
      BY <2>1, <3>2, Zenon DEF Align
    <3>4. Sound(AlignFrom(list, n, b)) BY <1>6, <2>1, <3>1
    <3> QED BY <3>3, <3>4
  <2>2. CASE ~(WellFormed(list) /\ \E b \in CandidateBases(list, n) :
                                      CandidateBases(list, n) = {b})
    <3>1. Align(list, n) = [k \in 1..n |-> NoAnswer] BY <2>2, Zenon DEF Align
    <3> QED BY <1>5, <3>1
  <2> QED BY <2>1, <2>2
<1> QED BY <1>7
-----------------------------------------------------------------------------
(* The inductive invariant: the answers so far are those of the first      *)
(* requests, and the slices to be asked for are the others, in order.      *)
BatchInvariant == TypeOK /\ NeverMismatched /\ SlicesContinue

LEMMA BatchInit == Init => BatchInvariant
<1> SUFFICES ASSUME Init PROVE BatchInvariant
  OBVIOUS
<1> USE BatchAssumption
<1> DEFINE whole == [first |-> 1, last |-> N]
<1>1. todo = <<whole>> /\ results = <<>> /\ state = "running" BY DEF Init
<1>2. whole \in Slice /\ whole.first = 1 /\ whole.last = N BY DEF Slice
<1> HIDE DEF whole
<1>3. Len(todo) = 1 /\ todo[1] = whole /\ todo # <<>> /\ DOMAIN todo = {1}
  BY <1>1
<1>4. TypeOK
  <2>1. todo \in Seq(Slice) BY <1>1, <1>2
  <2>2. results \in Seq(1..N \cup {NoAnswer}) BY <1>1
  <2> QED BY <1>1, <2>1, <2>2 DEF Init, TypeOK
<1>5. NeverMismatched BY <1>1 DEF NeverMismatched
<1>6. SlicesContinue BY <1>1, <1>2, <1>3 DEF SlicesContinue
<1> QED BY <1>4, <1>5, <1>6 DEF BatchInvariant

(* The first slice, the others, and where they are in the batch.           *)
LEMMA FirstOfSlices ==
  ASSUME BatchInvariant, todo # <<>>
  PROVE  /\ GoodSlice(Head(todo))
         /\ Head(todo).first = Len(results) + 1
         /\ Size(Head(todo)) \in Nat \ {0}
         /\ Head(todo).last = Len(results) + Size(Head(todo))
         /\ Head(todo) = todo[1]
         /\ Tail(todo) \in Seq(Slice) /\ Len(Tail(todo)) = Len(todo) - 1
         /\ \A i \in 1..Len(Tail(todo)) : Tail(todo)[i] = todo[i + 1]
         /\ Len(todo) \in Nat \ {0} /\ Len(results) \in Nat
<1>1. todo \in Seq(Slice) /\ results \in Seq(Results)
  BY DEF BatchInvariant, TypeOK, Results
<1>2. Len(todo) \in Nat \ {0} /\ Len(results) \in Nat /\ 1 \in DOMAIN todo
  BY <1>1
<1>3. Head(todo) = todo[1] /\ todo[1] \in Slice BY <1>1, <1>2
<1>4. todo[1].first <= todo[1].last /\ todo[1].first = Len(results) + 1
  BY <1>2 DEF BatchInvariant, SlicesContinue
<1>5. todo[1].first \in Int /\ todo[1].last \in Int
  BY <1>3, BatchAssumption DEF Slice
<1>6. Size(todo[1]) \in Nat \ {0} /\ todo[1].last = Len(results) + Size(todo[1])
  BY <1>2, <1>4, <1>5 DEF Size
<1>7. /\ Tail(todo) \in Seq(Slice) /\ Len(Tail(todo)) = Len(todo) - 1
      /\ \A i \in 1..Len(Tail(todo)) : Tail(todo)[i] = todo[i + 1]
  BY <1>1, HeadTailProperties
<1> QED BY <1>2, <1>3, <1>4, <1>6, <1>7 DEF GoodSlice

(* Answers for the first slice keep the invariant: they are appended where *)
(* its requests are, and the next slice begins where they end.             *)
LEMMA AnsweredKeepsInvariant ==
  ASSUME BatchInvariant, todo # <<>>, NEW answers, NextSlice(answers),
         LET n == Size(Head(todo)) IN
           /\ answers \in [1..n -> Results]
           /\ \A k \in 1..n : answers[k] \in {Head(todo).first + k - 1, NoAnswer},
         UNCHANGED <<state, poison>>, honest' \in BOOLEAN,
         state = "running"
  PROVE  BatchInvariant'
<1> DEFINE n == Size(Head(todo))
<1>1. /\ Head(todo).first = Len(results) + 1
      /\ Head(todo).last = Len(results) + n
      /\ Head(todo) = todo[1]
      /\ n \in Nat \ {0}
      /\ Tail(todo) \in Seq(Slice) /\ Len(Tail(todo)) = Len(todo) - 1
      /\ \A i \in 1..Len(Tail(todo)) : Tail(todo)[i] = todo[i + 1]
      /\ Len(todo) \in Nat \ {0} /\ Len(results) \in Nat
  BY FirstOfSlices
<1>2. /\ answers \in [1..n -> Results]
      /\ \A k \in 1..n : answers[k] \in {Head(todo).first + k - 1, NoAnswer}
  OBVIOUS
<1> HIDE DEF n
<1>3. answers \in Seq(Results) /\ Len(answers) = n BY <1>1, <1>2
<1>4. results \in Seq(Results) BY DEF BatchInvariant, TypeOK, Results
<1>5. /\ results' \in Seq(Results)
      /\ Len(results') = Len(results) + n
      /\ \A k \in 1..(Len(results) + n) :
           results'[k] = IF k <= Len(results) THEN results[k]
                         ELSE answers[k - Len(results)]
  BY <1>3, <1>4, ConcatProperties DEF NextSlice
<1>6. todo' = Tail(todo) /\ attempt' = 0 BY DEF NextSlice
<1>7. TypeOK'
  <2>1. results' \in Seq(1..N \cup {NoAnswer}) BY <1>5 DEF Results
  <2>2. todo' \in Seq(Slice) BY <1>1, <1>6
  <2>3. attempt' \in 0..(Retries - 1) BY <1>6, BatchAssumption
  <2>4. state' \in {"running", "done", "failed"} /\ poison' \subseteq 1..N
    BY DEF BatchInvariant, TypeOK
  <2> QED BY <2>1, <2>2, <2>3, <2>4 DEF TypeOK
<1>8. NeverMismatched'
  <2>1. DOMAIN results' = 1..(Len(results) + n) BY <1>5
  <2> SUFFICES ASSUME NEW k \in 1..(Len(results) + n)
               PROVE  results'[k] \in {k, NoAnswer}
    BY <2>1 DEF NeverMismatched
  <2>2. CASE k <= Len(results)
    <3>1. k \in DOMAIN results BY <1>1, <1>4, <2>2
    <3>2. results[k] \in {k, NoAnswer}
      BY <3>1 DEF BatchInvariant, NeverMismatched
    <3> QED BY <1>5, <2>2, <3>2
  <2>3. CASE ~(k <= Len(results))
    <3> DEFINE d == k - Len(results)
    <3>1. d \in 1..n /\ Head(todo).first + d - 1 = k BY <1>1, <2>3
    <3>2. results'[k] = answers[d] BY <1>5, <2>3
    <3> HIDE DEF d
    <3>3. answers[d] \in {Head(todo).first + d - 1, NoAnswer} BY <1>2, <3>1
    <3> QED BY <3>1, <3>2, <3>3
  <2> QED BY <2>2, <2>3
<1>9. SlicesContinue'
  <2> DEFINE rest == Tail(todo)
  <2> USE DEF SlicesContinue
  <2>0. Len(todo) \in Nat BY <1>1
  <2>1. \A i \in 1..Len(rest) : rest[i] = todo[i + 1] /\ i + 1 \in 1..Len(todo)
    BY <1>1
  <2>2. \A i \in 1..(Len(todo) - 1) : todo[i + 1].first = todo[i].last + 1
    BY DEF BatchInvariant
  <2>3. todo[Len(todo)].last = N BY DEF BatchInvariant
  <2>4. \A i \in 1..Len(todo) : todo[i].first <= todo[i].last
    <3>1. todo \in Seq(Slice) BY DEF BatchInvariant, TypeOK
    <3> QED BY <3>1 DEF BatchInvariant
  <2>5. Len(rest) = Len(todo) - 1 /\ Len(rest) \in Nat /\ rest \in Seq(Slice)
    BY <1>1
  <2> HIDE DEF rest
  <2>6. rest # <<>> => Len(rest) > 0 BY <2>5
  <2>7. rest # <<>> => rest[1].first = Len(results) + n + 1
    <3> HAVE rest # <<>>
    <3>1. 1 \in 1..Len(rest) /\ 1 \in 1..(Len(todo) - 1) BY <2>5, <2>6
    <3>2. rest[1] = todo[2] /\ todo[2].first = todo[1].last + 1
      BY <2>1, <2>2, <3>1
    <3> QED BY <1>1, <3>2
  <2>8. \A i \in 1..(Len(rest) - 1) : rest[i + 1].first = rest[i].last + 1
    <3> TAKE i \in 1..(Len(rest) - 1)
    <3>1. i \in 1..Len(rest) /\ i + 1 \in 1..Len(rest) BY <2>5
    <3>2. rest[i] = todo[i + 1] /\ rest[i + 1] = todo[(i + 1) + 1]
      BY <2>1, <3>1
    <3>3. i + 1 \in 1..(Len(todo) - 1) BY <2>5
    <3> QED BY <2>2, <3>2, <3>3
  <2>9. rest # <<>> => rest[Len(rest)].last = N
    <3> HAVE rest # <<>>
    <3>1. Len(rest) \in 1..Len(rest) BY <2>5, <2>6
    <3>2. rest[Len(rest)] = todo[Len(rest) + 1] BY <2>1, <3>1
    <3> QED BY <1>1, <2>3, <2>5, <3>2
  <2>10. rest = <<>> => Len(results) + n = N
    <3> HAVE rest = <<>>
    <3>0. Len(rest) = 0 OBVIOUS
    <3>1. Len(todo) = 1 BY <2>0, <2>5, <3>0
    <3> QED BY <1>1, <2>3, <3>1
  <2>11. \A i \in 1..Len(rest) : rest[i].first <= rest[i].last
    BY <2>1, <2>4
  <2>12. DOMAIN rest = 1..Len(rest) BY <2>5
  <2>13. todo' = rest BY <1>6 DEF rest
  <2>14. state' # "done"
    <3>1. state' = state /\ state = "running" OBVIOUS
    <3> QED BY <3>1
  <2> QED BY <1>5, <2>7, <2>8, <2>9, <2>10, <2>11, <2>12, <2>13, <2>14
<1> QED BY <1>7, <1>8, <1>9 DEF BatchInvariant

(* The halves of a slice are two slices that continue each other.          *)
LEMMA HalvesOfSlice ==
  ASSUME NEW slice, GoodSlice(slice), Size(slice) > 1
  PROVE  LET middle == slice.first + Size(slice) \div 2
             left == [first |-> slice.first, last |-> middle - 1]
             right == [first |-> middle, last |-> slice.last]
         IN  /\ Halves(slice) = <<left, right>>
             /\ GoodSlice(left) /\ GoodSlice(right)
             /\ right.first = left.last + 1
<1> DEFINE half == Size(slice) \div 2
           middle == slice.first + half
           left == [first |-> slice.first, last |-> middle - 1]
           right == [first |-> middle, last |-> slice.last]
<1>1. /\ slice.first \in 1..N /\ slice.last \in 0..N /\ N \in Nat
      /\ Size(slice) = slice.last - slice.first + 1
  BY BatchAssumption DEF GoodSlice, Slice, Size
<1>2. half \in Int /\ 1 <= half /\ half < Size(slice)
  BY <1>1, SMT
<1> HIDE DEF half
<1>3. middle \in 1..N /\ middle - 1 \in 0..N
      /\ slice.first <= middle - 1 /\ middle <= slice.last
  BY <1>1, <1>2
<1>4. Halves(slice) = <<left, right>> BY Zenon DEF Halves, half
<1> HIDE DEF middle
<1>5. GoodSlice(left) BY <1>1, <1>3 DEF GoodSlice, Slice
<1>6. GoodSlice(right) BY <1>1, <1>3 DEF GoodSlice, Slice
<1>7. right.first = left.last + 1 BY <1>3
<1> QED BY <1>4, <1>5, <1>6, <1>7 DEF middle, half

(* Halving the first slice keeps the invariant.                            *)
LEMMA HalveKeepsInvariant == BatchInvariant /\ Halve => BatchInvariant'
<1> SUFFICES ASSUME BatchInvariant, Halve PROVE BatchInvariant'
  OBVIOUS
<1>0. todo # <<>> /\ Size(Head(todo)) > 1 BY DEF Halve, CallFails, Sending
<1>1. /\ GoodSlice(Head(todo))
      /\ Head(todo).first = Len(results) + 1
      /\ Head(todo) = todo[1]
      /\ Tail(todo) \in Seq(Slice) /\ Len(Tail(todo)) = Len(todo) - 1
      /\ \A i \in 1..Len(Tail(todo)) : Tail(todo)[i] = todo[i + 1]
      /\ Len(todo) \in Nat \ {0} /\ Len(results) \in Nat
  BY <1>0, FirstOfSlices
<1>2. PICK left, right :
        /\ Halves(Head(todo)) = <<left, right>>
        /\ GoodSlice(left) /\ GoodSlice(right)
        /\ right.first = left.last + 1
        /\ left.first = Head(todo).first /\ right.last = Head(todo).last
  <2> DEFINE first == Head(todo)
             middle == first.first + Size(first) \div 2
             l == [first |-> first.first, last |-> middle - 1]
             r == [first |-> middle, last |-> first.last]
  <2>1. GoodSlice(first) /\ Size(first) > 1 BY <1>0, <1>1
  <2> HIDE DEF first
  <2>2. /\ Halves(first) = <<l, r>>
        /\ GoodSlice(l) /\ GoodSlice(r)
        /\ r.first = l.last + 1
    BY <2>1, HalvesOfSlice
  <2>3. l.first = first.first /\ r.last = first.last OBVIOUS
  <2> HIDE DEF l, r
  <2> QED BY <2>2, <2>3 DEF first
<1> DEFINE rest == Tail(todo)
           L == Len(todo)
<1>3. todo' = <<left, right>> \o rest BY <1>2 DEF Halve
<1>4. <<left, right>> \in Seq(Slice) BY <1>2 DEF GoodSlice
<1> HIDE DEF rest
<1>5. /\ todo' \in Seq(Slice) /\ Len(todo') = L + 1
      /\ todo'[1] = left /\ todo'[2] = right
      /\ \A i \in 3..(L + 1) : todo'[i] = todo[i - 1]
  <2>1. rest \in Seq(Slice) /\ Len(rest) = L - 1
        /\ \A i \in 1..Len(rest) : rest[i] = todo[i + 1]
    BY <1>1 DEF rest
  <2>2. /\ todo' \in Seq(Slice) /\ Len(todo') = 2 + (L - 1)
        /\ \A i \in 1..(2 + (L - 1)) : todo'[i] =
             IF i <= 2 THEN <<left, right>>[i] ELSE rest[i - 2]
    BY <1>3, <1>4, <2>1, ConcatProperties
  <2>3. todo'[1] = left /\ todo'[2] = right BY <1>1, <2>2
  <2>4. ASSUME NEW i \in 3..(L + 1) PROVE todo'[i] = todo[i - 1]
    <3>1. i \in 1..(2 + (L - 1)) /\ ~(i <= 2) /\ i - 2 \in 1..Len(rest)
      BY <1>1, <2>1
    <3>2. todo'[i] = rest[i - 2] BY <2>2, <3>1
    <3>3. rest[i - 2] = todo[(i - 2) + 1] BY <2>1, <3>1
    <3> QED BY <3>2, <3>3
  <2> QED BY <1>1, <2>2, <2>3, <2>4
<1>6. results' = results /\ state' = state /\ poison' = poison
      /\ attempt' = 0 /\ state = "running"
  BY DEF Halve, CallFails, Sending
<1>7. TypeOK'
  <2>1. attempt' \in 0..(Retries - 1) BY <1>6, BatchAssumption
  <2>2. results \in Seq(1..N \cup {NoAnswer}) /\ poison \subseteq 1..N
    BY DEF BatchInvariant, TypeOK
  <2>4. todo' \in Seq(Slice) BY <1>5
  <2>5. state' \in {"running", "done", "failed"} BY <1>6
  <2>6. honest' \in BOOLEAN BY Zenon DEF Halve, CallFails
  <2> QED BY <1>6, <2>1, <2>2, <2>4, <2>5, <2>6 DEF TypeOK
<1>8. NeverMismatched' BY <1>6 DEF BatchInvariant, NeverMismatched
<1>9. SlicesContinue'
  <2> DEFINE new == todo'
  <2>1. /\ \A i \in 1..(L - 1) : todo[i + 1].first = todo[i].last + 1
        /\ todo[L].last = N
    BY <1>0 DEF BatchInvariant, SlicesContinue
  <2>2. \A i \in 1..L : todo[i].first <= todo[i].last
    <3>1. todo \in Seq(Slice) BY DEF BatchInvariant, TypeOK
    <3> QED BY <3>1 DEF BatchInvariant, SlicesContinue
  <2>3. /\ new \in Seq(Slice) /\ Len(new) = L + 1
        /\ new[1] = left /\ new[2] = right
        /\ \A i \in 3..(L + 1) : new[i] = todo[i - 1]
    BY <1>5
  <2>4. L \in Nat \ {0} BY <1>1
  <2> HIDE DEF new, L
  <2>5. new # <<>> /\ DOMAIN new = 1..(L + 1) BY <2>3, <2>4
  <2>6. new[1].first = Len(results) + 1 BY <1>1, <1>2, <2>3
  <2>7. ASSUME NEW i \in 1..L PROVE new[i + 1].first = new[i].last + 1
    <3>1. CASE i = 1 BY <1>2, <2>3, <3>1
    <3>2. CASE i = 2
      <4>1. 3 \in 3..(L + 1) /\ 1 \in 1..(L - 1) BY <2>4, <3>2
      <4>2. new[3] = todo[2] BY <2>3, <4>1
      <4>3. todo[2].first = todo[1].last + 1 BY <2>1, <4>1
      <4> QED BY <1>1, <1>2, <2>3, <3>2, <4>2, <4>3
    <3>3. CASE i > 2
      <4>1. i \in 3..(L + 1) /\ i + 1 \in 3..(L + 1) /\ i - 1 \in 1..(L - 1)
        BY <2>4, <3>3
      <4>2. new[i] = todo[i - 1] /\ new[i + 1] = todo[(i - 1) + 1]
        <5>1. new[i + 1] = todo[(i + 1) - 1] BY <2>3, <4>1
        <5> QED BY <2>3, <4>1, <5>1
      <4> QED BY <2>1, <4>1, <4>2
    <3> QED BY <2>4, <3>1, <3>2, <3>3
  <2>8. new[L + 1].last = N
    <3>1. CASE L = 1 BY <1>1, <1>2, <2>1, <2>3, <3>1
    <3>2. CASE L > 1
      <4>1. L + 1 \in 3..(L + 1) BY <2>4, <3>2
      <4>2. new[L + 1] = todo[L] BY <2>3, <2>4, <4>1
      <4> QED BY <2>1, <4>2
    <3> QED BY <2>4, <3>1, <3>2
  <2>9. ASSUME NEW i \in 1..(L + 1) PROVE new[i].first <= new[i].last
    <3>1. CASE i \in {1, 2} BY <1>2, <2>3, <3>1 DEF GoodSlice
    <3>2. CASE i > 2
      <4>1. i \in 3..(L + 1) /\ i - 1 \in 1..L BY <2>4, <3>2
      <4> QED BY <2>2, <2>3, <4>1
    <3> QED BY <2>4, <3>1, <3>2
  <2>10. state' # "done" BY <1>6
  <2>11. \A i \in 1..((L + 1) - 1) : new[i + 1].first = new[i].last + 1
    BY <2>4, <2>7
  <2>12. todo' = new /\ Len(new) = L + 1 BY <2>3 DEF new
  <2> HIDE DEF SlicesContinue
  <2>13. SlicesContinue' <=>
          /\ new # <<>> => new[1].first = Len(results') + 1
          /\ \A i \in 1..(Len(new) - 1) : new[i + 1].first = new[i].last + 1
          /\ new # <<>> => new[Len(new)].last = N
          /\ new = <<>> => Len(results') = N
          /\ \A i \in DOMAIN new : new[i].first <= new[i].last
          /\ state' = "done" => new = <<>>
    BY Zenon DEF SlicesContinue, new
  <2> QED BY <1>6, <2>5, <2>6, <2>8, <2>9, <2>10, <2>11, <2>12, <2>13
<1> QED BY <1>7, <1>8, <1>9 DEF BatchInvariant

(* Every step keeps the invariant.                                         *)
LEMMA BatchStep == BatchInvariant /\ [Next]_vars => BatchInvariant'
<1> SUFFICES ASSUME BatchInvariant, [Next]_vars PROVE BatchInvariant'
  OBVIOUS
<1>1. ASSUME Reply PROVE BatchInvariant'
  <2>1. state = "running" /\ todo # <<>> /\ UNCHANGED <<state, poison>>
    BY <1>1 DEF Reply, Sending
  <2>2. PICK firstId \in FirstIds : \E list \in Answers(Head(todo), firstId) :
          /\ NextSlice(Align(list, Size(Head(todo))))
          /\ honest' \in BOOLEAN
    BY <1>1, Zenon DEF Reply
  <2>3. PICK list \in Answers(Head(todo), firstId) :
          /\ NextSlice(Align(list, Size(Head(todo))))
          /\ honest' \in BOOLEAN
    BY <2>2
  <2>4. GoodSlice(Head(todo)) BY <2>1, FirstOfSlices
  <2>5. firstId \in Int BY IdAssumption
  <2>6. LET n == Size(Head(todo)) IN
         /\ Align(list, n) \in [1..n -> Results]
         /\ \A k \in 1..n :
              Align(list, n)[k] \in {Head(todo).first + k - 1, NoAnswer}
    BY <2>4, <2>5, AlignSound
  <2> QED BY <2>1, <2>3, <2>6, AnsweredKeepsInvariant
<1>2. ASSUME Retry PROVE BatchInvariant'
  <2>1. attempt' \in 0..(Retries - 1)
    BY <1>2, BatchAssumption DEF Retry, BatchInvariant, TypeOK
  <2>2. honest' \in BOOLEAN BY <1>2, Zenon DEF Retry, CallFails
  <2>3. UNCHANGED <<state, todo, results, poison>> BY <1>2 DEF Retry
  <2>4. TypeOK' BY <2>1, <2>2, <2>3 DEF BatchInvariant, TypeOK
  <2>5. NeverMismatched' BY <2>3 DEF BatchInvariant, NeverMismatched
  <2>6. SlicesContinue' BY <2>3 DEF BatchInvariant, SlicesContinue
  <2> QED BY <2>4, <2>5, <2>6 DEF BatchInvariant
<1>3. ASSUME GiveUp PROVE BatchInvariant'
  <2>1. state = "running" /\ todo # <<>> /\ UNCHANGED <<state, poison>>
        /\ NextSlice(<<NoAnswer>>) /\ Size(Head(todo)) = 1
    BY <1>3 DEF GiveUp, CallFails, Sending
  <2>1a. honest' \in BOOLEAN BY <1>3, Zenon DEF GiveUp, CallFails
  <2>2. LET n == Size(Head(todo)) IN
         /\ <<NoAnswer>> \in [1..n -> Results]
         /\ \A k \in 1..n :
              <<NoAnswer>>[k] \in {Head(todo).first + k - 1, NoAnswer}
    BY <2>1 DEF Results
  <2> QED BY <2>1, <2>1a, <2>2, AnsweredKeepsInvariant
<1>4. ASSUME Halve PROVE BatchInvariant' BY <1>4, HalveKeepsInvariant
<1>5. ASSUME Raise PROVE BatchInvariant'
  <2>1. state' = "failed" /\ honest' = FALSE
    BY <1>5 DEF Raise
  <2>2. UNCHANGED <<todo, attempt, results, poison>> BY <1>5 DEF Raise
  <2>3. TypeOK' BY <2>1, <2>2 DEF BatchInvariant, TypeOK
  <2>4. NeverMismatched' BY <2>2 DEF BatchInvariant, NeverMismatched
  <2>5. SlicesContinue' BY <2>1, <2>2 DEF BatchInvariant, SlicesContinue
  <2> QED BY <2>3, <2>4, <2>5 DEF BatchInvariant
<1>6. ASSUME Return PROVE BatchInvariant'
  <2>1. state' = "done" /\ todo = <<>> BY <1>6 DEF Return
  <2>2. UNCHANGED <<todo, attempt, results, poison, honest>> BY <1>6 DEF Return
  <2>3. TypeOK' BY <2>1, <2>2 DEF BatchInvariant, TypeOK
  <2>4. NeverMismatched' BY <2>2 DEF BatchInvariant, NeverMismatched
  <2>5. SlicesContinue' BY <2>1, <2>2 DEF BatchInvariant, SlicesContinue
  <2> QED BY <2>3, <2>4, <2>5 DEF BatchInvariant
<1>7. CASE UNCHANGED vars
  <2>1. TypeOK' BY <1>7 DEF BatchInvariant, TypeOK, vars
  <2>2. NeverMismatched' BY <1>7 DEF BatchInvariant, NeverMismatched, vars
  <2>3. SlicesContinue' BY <1>7 DEF BatchInvariant, SlicesContinue, vars
  <2> QED BY <2>1, <2>2, <2>3 DEF BatchInvariant
<1> QED BY <1>1, <1>2, <1>3, <1>4, <1>5, <1>6, <1>7 DEF Next, Progress

LEMMA Batch == Spec => []BatchInvariant
<1> QED BY BatchInit, BatchStep, PTL DEF Spec
-----------------------------------------------------------------------------
(* What align_batch_responses and the halving of batches promise together: *)
(* a request gets its own answer or none.                                  *)
THEOREM NoMixUp == Spec => []NeverMismatched
<1>1. BatchInvariant => NeverMismatched BY DEF BatchInvariant
<1> QED BY <1>1, Batch, PTL

(* A batch that returns has one entry for each of its requests.            *)
THEOREM EveryRequestHasItsPlace == Spec => []Complete
<1>1. BatchInvariant => Complete
  BY DEF BatchInvariant, SlicesContinue, Complete
<1> QED BY <1>1, Batch, PTL

(* The state keeps its type.                                               *)
THEOREM BatchTypes == Spec => []TypeOK
<1>1. BatchInvariant => TypeOK BY DEF BatchInvariant
<1> QED BY <1>1, Batch, PTL
-----------------------------------------------------------------------------
(* A complete answer, in whatever order, has one candidate for the first   *)
(* id, and align_batch_responses gives each request its answer.            *)
LEMMA HonestOrder ==
  ASSUME NEW slice, GoodSlice(slice), NEW firstId \in Int,
         NEW list \in HonestAnswers(slice, firstId, Requests(slice))
  PROVE  LET n == Size(slice) IN
         \E order \in [1..n -> Requests(slice)] :
           /\ list = [i \in 1..n |-> Answer(slice, firstId, order[i])]
           /\ \A i, j \in 1..n : order[i] = order[j] => i = j
           /\ \A r \in Requests(slice) : \E i \in 1..n : order[i] = r
<1> DEFINE n == Size(slice)
<1>1. slice.first \in Int /\ slice.last \in Int /\ slice.first <= slice.last
  BY BatchAssumption DEF GoodSlice, Slice
<1>2. IsFiniteSet(Requests(slice)) /\ Cardinality(Requests(slice)) = n
  BY <1>1, FS_Interval DEF Requests, Size
<1>3. n \in Nat BY <1>1 DEF Size
<1>4. PICK order \in SetToSeqs(Requests(slice)) :
        list = [i \in DOMAIN order |-> Answer(slice, firstId, order[i])]
  BY DEF HonestAnswers
<1> HIDE DEF n
<1>5. /\ order \in [1..n -> Requests(slice)]
      /\ \A i, j \in 1..n : order[i] = order[j] => i = j
  BY <1>2, <1>4 DEF SetToSeqs
<1>6. order \in Injection(1..n, Requests(slice))
  BY <1>5 DEF Injection, IsInjective
<1>7. IsFiniteSet(1..n) /\ Cardinality(1..n) = n BY <1>3, FS_Interval
<1>8. order \in Surjection(1..n, Requests(slice))
  BY <1>2, <1>6, <1>7, FS_Injection
<1>9. \A r \in Requests(slice) : \E i \in 1..n : order[i] = r
  BY <1>8 DEF Surjection
<1> QED BY <1>4, <1>5, <1>9 DEF n

LEMMA AlignComplete ==
  ASSUME NEW slice, GoodSlice(slice), NEW firstId \in Int,
         NEW list \in HonestAnswers(slice, firstId, Requests(slice))
  PROVE  \A k \in 1..Size(slice) : Align(list, Size(slice))[k] = slice.first + k - 1
<1> DEFINE n == Size(slice)
           ids == Ids(list)
<1>1. /\ slice.first \in Int /\ slice.last \in Int /\ slice.first <= slice.last
      /\ n = slice.last - slice.first + 1
  BY BatchAssumption DEF GoodSlice, Slice, Size
<1>2. PICK order \in [1..n -> Requests(slice)] :
        /\ list = [i \in 1..n |-> Answer(slice, firstId, order[i])]
        /\ \A i, j \in 1..n : order[i] = order[j] => i = j
        /\ \A r \in Requests(slice) : \E i \in 1..n : order[i] = r
  BY HonestOrder
<1> HIDE DEF n
<1>3. n \in Nat \ {0} BY <1>1
<1>4. DOMAIN list = 1..n /\ list \in Seq(Items(slice, firstId)) /\ Len(list) = n
  <2>1. DOMAIN list = 1..n BY <1>2
  <2>2. list \in Seq(Items(slice, firstId)) BY HonestItems
  <2>3. Len(list) = n BY <1>3, <2>1, <2>2
  <2> QED BY <2>1, <2>2, <2>3
<1>5. \A i \in 1..n : /\ order[i] \in Int
                      /\ slice.first <= order[i] /\ order[i] <= slice.last
                      /\ list[i].id = firstId + order[i] - slice.first
                      /\ list[i].answer = order[i]
  BY <1>1, <1>2 DEF Requests, Answer
<1>6. \A id \in firstId..(firstId + n - 1) : \E i \in 1..n : list[i].id = id
  <2> TAKE id \in firstId..(firstId + n - 1)
  <2> DEFINE r == id - firstId + slice.first
  <2>1. r \in Requests(slice) BY <1>1, <1>3 DEF Requests
  <2>2. PICK i \in 1..n : order[i] = r BY <1>2, <2>1
  <2>3. id \in Int /\ order[i] = id - firstId + slice.first BY <1>3, <2>2
  <2>4. list[i].id = firstId + order[i] - slice.first BY <1>5
  <2>5. list[i].id = id BY <1>1, <2>3, <2>4
  <2> QED BY <2>5
<1>7. ids = firstId..(firstId + n - 1)
  <2>1. ids = {list[i].id : i \in 1..n} BY <1>4 DEF Ids
  <2>2. \A i \in 1..n : list[i].id \in firstId..(firstId + n - 1)
    BY <1>1, <1>3, <1>5, SMTT(30)
  <2> HIDE DEF ids
  <2> QED BY <1>6, <2>1, <2>2
<1>8. WellFormed(list)
  <2>1. list # <<>> BY <1>3, <1>4
  <2>2. NoId \notin Ids(list) BY <1>3, <1>7, NoAnswerAssumption
  <2>3. ASSUME NEW i \in 1..n, NEW j \in 1..n, list[i].id = list[j].id PROVE i = j
    <3>1. order[i] = order[j] BY <1>1, <1>5, <2>3
    <3> QED BY <1>2, <3>1
  <2> QED BY <1>4, <2>1, <2>2, <2>3 DEF WellFormed
<1>9. Min(ids) = firstId /\ Max(ids) = firstId + n - 1
  <2> DEFINE hi == firstId + n - 1
  <2>1. ids = firstId..hi /\ hi \in Int /\ firstId <= hi BY <1>3, <1>7
  <2> HIDE DEF ids, hi
  <2>2a. firstId \in ids /\ hi \in ids BY <2>1
  <2>2b. \A x \in ids : x \in Int BY <2>1
  <2>2. ids \in SUBSET Int /\ ids # {} BY <2>2a, <2>2b
  <2>3. (\A x \in ids : firstId <= x) /\ (\A x \in ids : x <= hi) BY <2>1
  <2>4. Min(ids) \in ids /\ \A y \in ids : Min(ids) <= y
    BY <2>2, <2>3, MinOfBounded
  <2>5. Max(ids) \in ids /\ \A y \in ids : Max(ids) >= y
    BY <2>1, <2>2, <2>3, MaxOfBounded
  <2>6. Min(ids) = firstId
    <3> DEFINE least == Min(ids)
    <3>1. least \in Int /\ least <= firstId /\ firstId <= least
      BY <2>2a, <2>2b, <2>3, <2>4
    <3> HIDE DEF least
    <3>2. least = firstId BY <3>1
    <3> QED BY <3>2 DEF least
  <2>7. Max(ids) = hi
    <3> DEFINE greatest == Max(ids)
    <3>1. greatest \in Int /\ greatest <= hi /\ hi <= greatest
      BY <2>1, <2>2a, <2>2b, <2>3, <2>5
    <3> HIDE DEF greatest
    <3>2. greatest = hi BY <2>1, <3>1
    <3> QED BY <3>2 DEF greatest
  <2> QED BY <2>6, <2>7 DEF hi
<1>10. CandidateBases(list, n) = {firstId}
  <2>1. (Max(ids) - n + 1)..Min(ids) = {firstId}
    <3>1. Max(ids) - n + 1 = firstId BY <1>3, <1>9
    <3> HIDE DEF ids
    <3> QED BY <1>9, <3>1
  <2>2. \A id \in ids : firstId <= id /\ id < firstId + n BY <1>3, <1>7
  <2> QED BY <2>1, <2>2, Zenon DEF CandidateBases
<1>11. Align(list, n) = AlignFrom(list, n, firstId)
  <2>1. (CHOOSE c \in CandidateBases(list, n) : TRUE) = firstId BY <1>10
  <2>2. \E b \in CandidateBases(list, n) : CandidateBases(list, n) = {b}
    BY <1>10
  <2> QED BY <1>8, <2>1, <2>2, Zenon DEF Align
<1>12. ASSUME NEW k \in 1..n PROVE Align(list, n)[k] = slice.first + k - 1
  <2>1. firstId + k - 1 \in ids BY <1>3, <1>7
  <2>2. PICK i \in DOMAIN list : list[i].id = firstId + k - 1
    BY <2>1 DEF Ids
  <2> DEFINE j == CHOOSE i_1 \in DOMAIN list : list[i_1].id = firstId + k - 1
  <2>3. j \in DOMAIN list /\ list[j].id = firstId + k - 1 BY <2>2
  <2>4. Align(list, n)[k] = list[j].answer
    BY <1>11, <2>1, Zenon DEF AlignFrom
  <2> HIDE DEF j
  <2>5. list[j].answer = slice.first + k - 1
    <3>1. /\ order[j] \in Int /\ list[j].answer = order[j]
          /\ list[j].id = firstId + order[j] - slice.first
      BY <1>4, <1>5, <2>3
    <3>2. k \in Int /\ firstId + order[j] - slice.first = firstId + k - 1
      BY <2>3, <3>1
    <3>3. order[j] = slice.first + k - 1 BY <1>1, <3>1, <3>2, SMTT(30)
    <3> QED BY <3>1, <3>3
  <2> QED BY <2>4, <2>5
<1> QED BY <1>12 DEF n
-----------------------------------------------------------------------------
(* Halving isolates the culprits.  The answer each request should have     *)
(* when the server is honest, and the results so far against it.           *)
Due(k) == IF k \in poison THEN NoAnswer ELSE k

OnlyPoisonSoFar == honest => \A k \in DOMAIN results : results[k] = Due(k)

(* Due answers appended to due answers.                                    *)
LEMMA DueAppended ==
  ASSUME BatchInvariant, OnlyPoisonSoFar, honest, todo # <<>>,
         NEW answers \in [1..Size(Head(todo)) -> Results],
         \A k \in 1..Size(Head(todo)) : answers[k] = Due(Head(todo).first + k - 1),
         results' = results \o answers, poison' = poison
  PROVE  \A k \in DOMAIN results' : results'[k] = Due(k)'
<1> DEFINE n == Size(Head(todo))
<1>1. /\ Head(todo).first = Len(results) + 1
      /\ n \in Nat \ {0} /\ Len(results) \in Nat
  BY FirstOfSlices
<1>2. \A k \in 1..n : answers[k] = Due(Head(todo).first + k - 1) OBVIOUS
<1>3. answers \in [1..n -> Results] OBVIOUS
<1> HIDE DEF n
<1>4. answers \in Seq(Results) /\ Len(answers) = n BY <1>1, <1>3
<1>5. results \in Seq(Results) BY DEF BatchInvariant, TypeOK, Results
<1>6. /\ results' \in Seq(Results)
      /\ Len(results') = Len(results) + n
      /\ \A k \in 1..(Len(results) + n) :
           results'[k] = IF k <= Len(results) THEN results[k]
                         ELSE answers[k - Len(results)]
  BY <1>4, <1>5, ConcatProperties
<1>7. \A k : Due(k)' = Due(k) BY DEF Due
<1>8. DOMAIN results' = 1..(Len(results) + n) BY <1>6
<1>9. ASSUME NEW k \in 1..(Len(results) + n) PROVE results'[k] = Due(k)
  <2>1. CASE k <= Len(results)
    <3>1. k \in DOMAIN results BY <1>1, <1>5, <2>1
    <3>2. results[k] = Due(k) BY <3>1, Zenon DEF OnlyPoisonSoFar
    <3> QED BY <1>6, <2>1, <3>2
  <2>2. CASE ~(k <= Len(results))
    <3> DEFINE d == k - Len(results)
    <3>1. d \in 1..n /\ Head(todo).first + d - 1 = k
      <4>1. k \in Int /\ k <= Len(results) + n BY <1>1
      <4>2. d \in 1..n BY <1>1, <2>2, <4>1
      <4>3. (Len(results) + 1) + d - 1 = k BY <1>1, <4>1
      <4> QED BY <1>1, <4>2, <4>3
    <3>2. results'[k] = answers[d] BY <1>6, <2>2
    <3> HIDE DEF d
    <3>3. answers[d] = Due(Head(todo).first + d - 1) BY <1>2, <3>1
    <3> QED BY <3>1, <3>2, <3>3
  <2> QED BY <2>1, <2>2
<1> QED BY <1>7, <1>8, <1>9, Zenon

(* A call without culprits that is answered completely.                    *)
LEMMA ReplyIsDue == BatchInvariant /\ OnlyPoisonSoFar /\ Reply => OnlyPoisonSoFar'
<1> SUFFICES ASSUME BatchInvariant, OnlyPoisonSoFar, Reply, honest'
             PROVE  \A k \in DOMAIN results' : results'[k] = Due(k)'
  BY Zenon DEF OnlyPoisonSoFar
<1> DEFINE slice == Head(todo)
           n == Size(slice)
<1>1. todo # <<>> /\ Requests(slice) \cap poison = {} /\ poison' = poison
  BY Zenon DEF Reply, Sending
<1> DEFINE Answered(firstId, list) ==
        /\ NextSlice(Align(list, n))
        /\ honest' = (honest /\ list \in HonestAnswers(slice, firstId, Requests(slice)))
<1>2a. PICK firstId \in FirstIds : \E list \in Answers(slice, firstId) : Answered(firstId, list)
  BY Zenon DEF Reply
<1>2. PICK list \in Answers(slice, firstId) : Answered(firstId, list)
  BY <1>2a, Zenon
<1>3. honest /\ list \in HonestAnswers(slice, firstId, Requests(slice))
  BY <1>2, Zenon
<1>4. /\ GoodSlice(slice) /\ slice.first = Len(results) + 1
      /\ n \in Nat \ {0} /\ slice.last = Len(results) + n
      /\ Len(results) \in Nat
  BY <1>1, FirstOfSlices
<1> HIDE DEF slice
<1>5. firstId \in Int BY IdAssumption
<1>6. \A k \in 1..n : Align(list, n)[k] = slice.first + k - 1
  BY <1>3, <1>4, <1>5, AlignComplete
<1>7. Align(list, n) \in [1..n -> Results] BY <1>2, <1>4, <1>5, AlignSound DEF Results
<1> HIDE DEF n
<1>8. \A k \in 1..n : Align(list, n)[k] = Due(slice.first + k - 1)
  <2> TAKE k \in 1..n
  <2>1. slice.first + k - 1 \in Requests(slice) BY <1>4 DEF Requests
  <2>2. slice.first + k - 1 \notin poison BY <1>1, <2>1
  <2> QED BY <1>6, <2>2 DEF Due
<1>9. results' = results \o Align(list, n) BY <1>2, Zenon DEF NextSlice
<1> QED BY <1>1, <1>3, <1>7, <1>8, <1>9, DueAppended DEF n, slice

(* A request that fails alone, when only culprits make a call fail.        *)
LEMMA GiveUpIsDue == BatchInvariant /\ OnlyPoisonSoFar /\ GiveUp => OnlyPoisonSoFar'
<1> SUFFICES ASSUME BatchInvariant, OnlyPoisonSoFar, GiveUp, honest'
             PROVE  \A k \in DOMAIN results' : results'[k] = Due(k)'
  BY Zenon DEF OnlyPoisonSoFar
<1> DEFINE slice == Head(todo)
<1>1. /\ todo # <<>> /\ Size(slice) = 1 /\ poison' = poison
      /\ results' = results \o <<NoAnswer>>
  BY Zenon DEF GiveUp, CallFails, Sending, NextSlice
<1>2. honest /\ Requests(slice) \cap poison # {}
  BY Zenon DEF GiveUp, CallFails
<1>3. slice.first = Len(results) + 1 /\ slice.last = Len(results) + 1
      /\ Len(results) \in Nat
  BY <1>1, FirstOfSlices
<1> HIDE DEF slice
<1>4. Requests(slice) = {slice.first} BY <1>3 DEF Requests
<1>5. slice.first \in poison BY <1>2, <1>4
<1>6. <<NoAnswer>> \in [1..1 -> Results] BY DEF Results
<1>7. \A k \in 1..1 : <<NoAnswer>>[k] = Due(slice.first + k - 1)
  BY <1>3, <1>5 DEF Due
<1> QED BY <1>1, <1>2, <1>6, <1>7, DueAppended DEF slice

LEMMA DueStep == BatchInvariant /\ OnlyPoisonSoFar /\ [Next]_vars => OnlyPoisonSoFar'
<1> SUFFICES ASSUME BatchInvariant, OnlyPoisonSoFar, [Next]_vars
             PROVE  OnlyPoisonSoFar'
  OBVIOUS
<1>1. CASE Reply BY <1>1, ReplyIsDue
<1>2. CASE GiveUp BY <1>2, GiveUpIsDue
<1>3. ASSUME UNCHANGED <<results, poison>>, honest' => honest
      PROVE  OnlyPoisonSoFar'
  BY <1>3, Zenon DEF OnlyPoisonSoFar, Due
<1>4. CASE Retry
  BY <1>3, <1>4, Zenon DEF Retry, CallFails
<1>5. CASE Halve
  BY <1>3, <1>5, Zenon DEF Halve, CallFails
<1>6. CASE Raise BY <1>3, <1>6, Zenon DEF Raise
<1>7. CASE Return BY <1>3, <1>7, Zenon DEF Return
<1>8. CASE UNCHANGED vars BY <1>3, <1>8, Zenon DEF vars
<1> QED BY <1>1, <1>2, <1>4, <1>5, <1>6, <1>7, <1>8 DEF Next, Progress

(* Only culprits are lost: when every answer was complete and only calls   *)
(* with a poisonous request failed, each other request has its answer when *)
(* make_batch_request returns.                                             *)
THEOREM CulpritsAreIsolated == Spec => []OnlyPoisonIsLost
<1>1. Init => OnlyPoisonSoFar BY DEF Init, OnlyPoisonSoFar
<1>2. BatchInvariant /\ OnlyPoisonSoFar => OnlyPoisonIsLost
  <2> SUFFICES ASSUME BatchInvariant, OnlyPoisonSoFar, state = "done", honest,
                      NEW k \in 1..N
               PROVE  results[k] = Due(k)
    BY Zenon DEF OnlyPoisonIsLost, Due
  <2>1. Len(results) = N BY DEF BatchInvariant, SlicesContinue
  <2>2. results \in Seq(Results) BY DEF BatchInvariant, TypeOK, Results
  <2>3. k \in DOMAIN results BY <2>1, <2>2
  <2> QED BY <2>3, Zenon DEF OnlyPoisonSoFar
<1> QED BY <1>1, <1>2, Batch, DueStep, PTL DEF Spec
=============================================================================
