---------------------------- MODULE TableLemmas ----------------------------
(***************************************************************************)
(* Facts about tables kept as sequences of rows: inserting a finite set of *)
(* rows, updating rows in place, the greatest id of a table, and how often *)
(* a row is in a table before and after an insertion, and which place it   *)
(* had in the list it was taken from; and about sums over finite sets.     *)
(***************************************************************************)
EXTENDS Integers, SequencesExt, Orders, FiniteSetTheorems, FunctionTheorems,
        SequenceTheorems, TLAPS

(* The image of a finite set under a function is finite.                   *)
LEMMA FiniteImage ==
    ASSUME NEW S, NEW T, NEW f \in [S -> T], IsFiniteSet(S)
    PROVE  IsFiniteSet(Range(f))
  <1>1. f \in Surjection(S, Range(f))
    BY Fun_RangeProperties
  <1>2. QED
    BY <1>1, FS_Surjection

(* SetToSeq enumerates a finite set.                                       *)
LEMMA SetToSeqProperties ==
    ASSUME NEW S, IsFiniteSet(S)
    PROVE  /\ SetToSeq(S) \in Seq(S)
           /\ Range(SetToSeq(S)) = S
           /\ Len(SetToSeq(S)) = Cardinality(S)
  <1> DEFINE n == Cardinality(S)
             s == SetToSeq(S)
  <1>1. n \in Nat /\ ExistsBijection(1..n, S)
    BY FS_CardinalityType
  <1>2. PICK b \in Bijection(1..n, S) : TRUE
    BY <1>1, Fun_ExistsBij
  <1>3. b \in [1..n -> S] /\ IsInjective(b)
    <2>1. b \in [1..n -> S] /\ \A x, y \in 1..n : b[x] = b[y] => x = y
      BY <1>2, Fun_BijectionProperties
    <2>2. DOMAIN b = 1..n
      BY <2>1
    <2>3. QED
      BY <2>1, <2>2 DEF IsInjective
  <1>4. s \in [1..n -> S] /\ IsInjective(s)
    BY <1>3 DEF SetToSeq
  <1>5. s \in Injection(1..n, S)
    BY <1>4, Fun_IsInj DEF IsInjective
  <1>6. IsFiniteSet(1..n) /\ Cardinality(1..n) = n
    BY <1>1, FS_Interval
  <1>7. s \in Surjection(1..n, S)
    BY <1>5, <1>6, FS_Injection
  <1>8. Range(s) = S
    BY <1>7, Fun_SurjectionProperties
  <1>9. s \in Seq(S) /\ Len(s) = n
    BY <1>1, <1>4
  <1>10. QED
    BY <1>8, <1>9

(* The rows of a concatenation.                                            *)
LEMMA ConcatRange ==
    ASSUME NEW T, NEW s \in Seq(T), NEW t \in Seq(T)
    PROVE  /\ s \o t \in Seq(T)
           /\ Range(s \o t) = Range(s) \cup Range(t)
  <1>1. s \o t \in Seq(T) /\ Len(s \o t) = Len(s) + Len(t)
    BY ConcatProperties
  <1>2. \A i \in 1 .. Len(s) + Len(t) :
            (s \o t)[i] = IF i <= Len(s) THEN s[i] ELSE t[i - Len(s)]
    BY ConcatProperties
  <1>3. /\ DOMAIN s = 1 .. Len(s) /\ Len(s) \in Nat
        /\ DOMAIN t = 1 .. Len(t) /\ Len(t) \in Nat
        /\ DOMAIN (s \o t) = 1 .. (Len(s) + Len(t))
    BY <1>1, LenProperties
  <1>4. Range(s \o t) \subseteq Range(s) \cup Range(t)
    <2>1. SUFFICES ASSUME NEW i \in 1 .. (Len(s) + Len(t))
                   PROVE  (s \o t)[i] \in Range(s) \cup Range(t)
      BY <1>3 DEF Range
    <2>2. CASE i <= Len(s)
      BY <1>2, <1>3, <2>2 DEF Range
    <2>3. CASE ~(i <= Len(s))
      <3>1. i - Len(s) \in 1 .. Len(t)
        BY <1>3, <2>3
      <3>2. (s \o t)[i] = t[i - Len(s)]
        BY <1>2, <2>3
      <3>3. QED
        BY <1>3, <3>1, <3>2 DEF Range
    <2>4. QED
      BY <2>2, <2>3
  <1>5. Range(s) \subseteq Range(s \o t)
    <2>1. SUFFICES ASSUME NEW i \in 1 .. Len(s)
                   PROVE  s[i] \in Range(s \o t)
      BY <1>3 DEF Range
    <2>2. i \in 1 .. (Len(s) + Len(t)) /\ (s \o t)[i] = s[i]
      BY <1>2, <1>3
    <2>3. QED
      BY <1>3, <2>2 DEF Range
  <1>6. Range(t) \subseteq Range(s \o t)
    <2>1. SUFFICES ASSUME NEW i \in 1 .. Len(t)
                   PROVE  t[i] \in Range(s \o t)
      BY <1>3 DEF Range
    <2> DEFINE j == i + Len(s)
    <2>2. /\ j \in 1 .. (Len(s) + Len(t))
          /\ ~(j <= Len(s))
          /\ j - Len(s) = i
      BY <1>3
    <2>3. (s \o t)[j] = t[i]
      BY <1>2, <2>2
    <2>4. QED
      BY <1>3, <2>2, <2>3 DEF Range
  <1>7. QED
    BY <1>1, <1>4, <1>5, <1>6

(* A sequence of the same length, row by row in another set.               *)
LEMMA PointwiseSeq ==
    ASSUME NEW T, NEW U, NEW s \in Seq(T), NEW f, f = [i \in DOMAIN s |-> f[i]],
           \A i \in DOMAIN s : f[i] \in U
    PROVE  f \in Seq(U) /\ Len(f) = Len(s) /\ DOMAIN f = DOMAIN s
  <1>1. DOMAIN s = 1 .. Len(s) /\ Len(s) \in Nat
    BY LenProperties
  <1>2. f \in [1 .. Len(s) -> U]
    BY <1>1
  <1>3. QED
    BY <1>1, <1>2

(* The usual order of the naturals, as a relation, is well-founded.        *)
Below == {p \in Nat \X Nat : p[1] < p[2]}

LEMMA BelowWellFounded == IsWellFoundedOn(Below, Nat)
  BY NatLessThanWellFounded DEF OpToRel, Below

(* Every non-empty set of naturals has a least element.                    *)
LEMMA LeastNatural ==
    ASSUME NEW T, T \subseteq Nat, T # {}
    PROVE  \E m \in T : \A x \in T : m <= x
  <1>1. PICK m \in T : \A x \in T : ~(<<x, m>> \in Below)
    BY BelowWellFounded, WFMin
  <1>2. \A x \in T : ~(x < m)
    BY <1>1 DEF Below
  <1>3. QED
    BY <1>2

(* Two naturals have a common bound.                                       *)
LEMMA CommonBound ==
    ASSUME NEW x \in Nat, NEW y \in Nat
    PROVE  \E c \in Nat : x <= c /\ y <= c
  <1>1. CASE x <= y
    BY <1>1
  <1>2. CASE ~(x <= y)
    BY <1>2
  <1>3. QED
    BY <1>1, <1>2

(* A sequence of naturals is bounded.                                      *)
LEMMA SequenceBounded ==
    ASSUME NEW s \in Seq(Nat)
    PROVE  \E b \in Nat : \A i \in DOMAIN s : s[i] <= b
  <1> DEFINE Bad == {k \in 0 .. Len(s) :
                        \A b \in Nat : ~(\A i \in 1..k : s[i] <= b)}
  <1>1. /\ Len(s) \in Nat /\ DOMAIN s = 1 .. Len(s)
        /\ \A i \in 1 .. Len(s) : s[i] \in Nat
    BY LenProperties
  <1>2. Bad = {}
    <2>1. SUFFICES ASSUME Bad # {} PROVE FALSE
      OBVIOUS
    <2>2. Bad \subseteq Nat
      BY <1>1
    <2>3. PICK k \in Bad : \A x \in Bad : k <= x
      BY <2>1, <2>2, LeastNatural
    <2>4. k # 0
      <3>1. 0 \notin Bad
        BY 0 \in Nat
      <3>2. QED
        BY <3>1
    <2>5. k \in 1 .. Len(s) /\ k - 1 \in 0 .. Len(s) /\ k \in Nat
      BY <1>1, <2>4
    <2>6. k - 1 \notin Bad
      <3> HIDE DEF Bad
      <3>1. ASSUME k - 1 \in Bad PROVE FALSE
        <4>1. k <= k - 1
          BY <2>3, <3>1
        <4>2. QED
          BY <2>5, <4>1
      <3>2. QED
        BY <3>1
    <2>7. PICK b \in Nat : \A i \in 1..(k - 1) : s[i] <= b
      BY <2>5, <2>6
    <2>8. PICK c \in Nat : b <= c /\ s[k] <= c
      <3>1. s[k] \in Nat
        BY <1>1, <2>5
      <3>2. QED
        BY <3>1, CommonBound
    <2> HIDE DEF Bad
    <2>9. \A i \in 1..k : s[i] <= c
      <3>1. SUFFICES ASSUME NEW i \in 1..k PROVE s[i] <= c
        OBVIOUS
      <3>2. CASE i = k
        BY <1>1, <2>5, <2>8, <3>2
      <3>3. CASE i # k
        <4>1. i \in 1..(k - 1) /\ i \in 1 .. Len(s)
          BY <1>1, <2>5, <3>3
        <4>2. s[i] <= b /\ s[i] \in Nat
          BY <1>1, <2>7, <4>1
        <4>3. b <= c /\ b \in Nat /\ c \in Nat
          BY <2>8
        <4>4. QED
          BY <4>2, <4>3
      <3>4. QED
        BY <3>2, <3>3
    <2>10. QED
      BY <2>8, <2>9 DEF Bad
  <1>3. Len(s) \notin Bad
    BY <1>2
  <1>4. QED
    BY <1>1, <1>3

(* A non-empty sequence of naturals has a greatest element, which is what  *)
(* Max returns.                                                            *)
LEMMA MaxOfSequence ==
    ASSUME NEW s \in Seq(Nat), s # <<>>
    PROVE  /\ Max(Range(s)) \in Range(s)
           /\ \A x \in Range(s) : Max(Range(s)) >= x
  <1> DEFINE Bounds == {b \in Nat : \A i \in DOMAIN s : s[i] <= b}
  <1>1. /\ Len(s) \in Nat /\ Len(s) > 0 /\ DOMAIN s = 1 .. Len(s)
        /\ \A i \in DOMAIN s : s[i] \in Nat
    BY EmptySeq, LenProperties
  <1>2. Bounds # {} /\ Bounds \subseteq Nat
    BY SequenceBounded
  <1>3. PICK m \in Bounds : \A b \in Bounds : m <= b
    BY <1>2, LeastNatural
  <1>4. \E i \in DOMAIN s : s[i] = m
    <2>1. SUFFICES ASSUME \A i \in DOMAIN s : s[i] # m PROVE FALSE
      OBVIOUS
    <2>2. \A i \in DOMAIN s : s[i] < m
      BY <1>1, <1>3, <2>1
    <2>3. m - 1 \in Nat /\ m \in Nat
      <3>1. 1 \in DOMAIN s
        BY <1>1
      <3>2. s[1] < m /\ s[1] \in Nat /\ m \in Nat
        BY <1>1, <1>2, <2>2, <3>1
      <3>3. QED
        BY <3>2
    <2>4. \A i \in DOMAIN s : s[i] <= m - 1
      BY <1>1, <2>2, <2>3
    <2>5. m - 1 \in Bounds
      BY <2>3, <2>4
    <2>6. QED
      BY <1>3, <2>3, <2>5
  <1>5. m \in Range(s) /\ \A x \in Range(s) : m >= x
    BY <1>1, <1>3, <1>4 DEF Range
  <1>6. QED
    BY <1>5 DEF Max
-----------------------------------------------------------------------------
(* A function that maps no two elements to one has as many values as       *)
(* arguments.                                                              *)
LEMMA InjectiveImage ==
    ASSUME NEW S, NEW T, NEW f \in [S -> T], IsFiniteSet(S),
           \A x, y \in S : f[x] = f[y] => x = y
    PROVE  IsFiniteSet(Range(f)) /\ Cardinality(Range(f)) = Cardinality(S)
  <1>1. f \in Injection(S, T)
    BY Fun_IsInj
  <1>2. f \in Bijection(S, Range(f))
    BY <1>1, Fun_InjMeansBijImage
  <1>3. ExistsBijection(S, Range(f))
    BY <1>2, Fun_ExistsBij
  <1>4. QED
    BY <1>3, FS_Bijection

(* Its values are no more than the set they are in has elements.           *)
LEMMA InjectionBound ==
    ASSUME NEW S, NEW T, NEW f \in [S -> T], IsFiniteSet(T),
           \A x, y \in S : f[x] = f[y] => x = y
    PROVE  IsFiniteSet(S) /\ Cardinality(S) <= Cardinality(T)
  <1>1. f \in Injection(S, T)
    BY Fun_IsInj
  <1>2. QED
    BY <1>1, FS_Injection

(* The elements of two disjoint sets.                                      *)
LEMMA DisjointUnion ==
    ASSUME NEW S, NEW T, IsFiniteSet(S), IsFiniteSet(T), S \cap T = {}
    PROVE  /\ IsFiniteSet(S \cup T)
           /\ Cardinality(S \cup T) = Cardinality(S) + Cardinality(T)
           /\ Cardinality(S) \in Nat /\ Cardinality(T) \in Nat
  <1>1. Cardinality(S) \in Nat /\ Cardinality(T) \in Nat
    BY FS_CardinalityType
  <1>2. IsFiniteSet(S \cup T)
        /\ Cardinality(S \cup T) = Cardinality(S) + Cardinality(T) - Cardinality(S \cap T)
    BY FS_Union
  <1>3. Cardinality(S \cap T) = 0
    BY FS_EmptySet
  <1>4. QED
    BY <1>1, <1>2, <1>3

(* The places of a table whose row is in S.                                *)
Places(table, S) == {i \in DOMAIN table : table[i] \in S}

LEMMA PlacesFinite ==
    ASSUME NEW T, NEW table \in Seq(T), NEW S
    PROVE  /\ IsFiniteSet(Places(table, S))
           /\ Cardinality(Places(table, S)) \in Nat
  <1>1. DOMAIN table = 1 .. Len(table) /\ Len(table) \in Nat
    BY LenProperties
  <1>2. IsFiniteSet(DOMAIN table)
    BY <1>1, FS_Interval
  <1>3. IsFiniteSet(Places(table, S))
    BY <1>2, FS_Subset DEF Places
  <1>4. QED
    BY <1>3, FS_CardinalityType

(* A concatenation has the rows of both tables.                            *)
LEMMA ConcatPlaces ==
    ASSUME NEW T, NEW s \in Seq(T), NEW t \in Seq(T), NEW S
    PROVE  Cardinality(Places(s \o t, S))
             = Cardinality(Places(s, S)) + Cardinality(Places(t, S))
  <1> DEFINE P == Places(t, S)
             shift == [k \in P |-> k + Len(s)]
  <1>1. /\ s \o t \in Seq(T) /\ Len(s \o t) = Len(s) + Len(t)
        /\ \A i \in 1 .. Len(s) + Len(t) :
             (s \o t)[i] = IF i <= Len(s) THEN s[i] ELSE t[i - Len(s)]
    BY ConcatProperties
  <1>2. /\ DOMAIN s = 1 .. Len(s) /\ Len(s) \in Nat
        /\ DOMAIN t = 1 .. Len(t) /\ Len(t) \in Nat
        /\ DOMAIN (s \o t) = 1 .. (Len(s) + Len(t))
    BY <1>1, LenProperties
  <1>3. P \subseteq 1 .. Len(t)
    BY <1>2 DEF Places
  <1>4. shift \in [P -> Nat] /\ \A x, y \in P : shift[x] = shift[y] => x = y
    BY <1>2, <1>3
  <1>5. Places(s \o t, S) = Places(s, S) \cup Range(shift)
    <2>1. ASSUME NEW i \in Places(s \o t, S)
          PROVE  i \in Places(s, S) \cup Range(shift)
      <3>1. i \in 1 .. (Len(s) + Len(t)) /\ (s \o t)[i] \in S
        BY <1>2 DEF Places
      <3>2. CASE i <= Len(s)
        BY <1>1, <1>2, <3>1, <3>2 DEF Places
      <3>3. CASE ~(i <= Len(s))
        <4> DEFINE k == i - Len(s)
        <4>1. k \in 1 .. Len(t) /\ k + Len(s) = i
          BY <1>2, <3>1, <3>3
        <4>2. t[k] \in S
          BY <1>1, <3>1, <3>3
        <4>3. k \in P
          BY <1>2, <4>1, <4>2 DEF Places
        <4> HIDE DEF k
        <4>4. shift[k] = i /\ k \in DOMAIN shift
          BY <4>1, <4>3
        <4>5. QED
          BY <4>4 DEF Range
      <3>4. QED
        BY <3>2, <3>3
    <2>2. ASSUME NEW i \in Places(s, S) PROVE i \in Places(s \o t, S)
      <3>1. i \in 1 .. Len(s) /\ s[i] \in S
        BY <1>2 DEF Places
      <3>2. i \in 1 .. (Len(s) + Len(t)) /\ i <= Len(s)
        BY <1>2, <3>1
      <3>3. QED
        BY <1>1, <1>2, <3>1, <3>2 DEF Places
    <2>3. ASSUME NEW k \in P PROVE shift[k] \in Places(s \o t, S)
      <3>1. k \in 1 .. Len(t) /\ t[k] \in S
        BY <1>2 DEF Places
      <3> DEFINE i == k + Len(s)
      <3>2. i \in 1 .. (Len(s) + Len(t)) /\ ~(i <= Len(s)) /\ i - Len(s) = k
        BY <1>2, <3>1
      <3>3. (s \o t)[i] = t[k]
        BY <1>1, <3>2
      <3>4. QED
        BY <1>2, <3>1, <3>2, <3>3 DEF Places
    <2>4. Range(shift) \subseteq Places(s \o t, S)
      BY <2>3 DEF Range
    <2>5. QED
      BY <2>1, <2>2, <2>4
  <1>6. Places(s, S) \cap Range(shift) = {}
    <2>1. \A i \in Places(s, S) : i <= Len(s) /\ i \in Nat
      BY <1>2 DEF Places
    <2>2. \A i \in Range(shift) : i > Len(s)
      BY <1>2, <1>3 DEF Range
    <2>3. QED
      BY <1>2, <2>1, <2>2
  <1>7. IsFiniteSet(Places(s, S)) /\ IsFiniteSet(P)
    BY PlacesFinite
  <1> HIDE DEF shift, P
  <1>8. IsFiniteSet(Range(shift)) /\ Cardinality(Range(shift)) = Cardinality(P)
    BY <1>4, <1>7, InjectiveImage
  <1>9. QED
    BY <1>5, <1>6, <1>7, <1>8, DisjointUnion DEF P

(* SetToSeq has each element in one place.                                 *)
LEMMA SetToSeqInjective ==
    ASSUME NEW S, IsFiniteSet(S)
    PROVE  \A i, j \in DOMAIN SetToSeq(S) : SetToSeq(S)[i] = SetToSeq(S)[j] => i = j
  <1> DEFINE n == Cardinality(S)
             s == SetToSeq(S)
  <1>1. n \in Nat /\ ExistsBijection(1..n, S)
    BY FS_CardinalityType
  <1>2. PICK b \in Bijection(1..n, S) : TRUE
    BY <1>1, Fun_ExistsBij
  <1>3. b \in [1..n -> S] /\ IsInjective(b)
    <2>1. b \in [1..n -> S] /\ \A x, y \in 1..n : b[x] = b[y] => x = y
      BY <1>2, Fun_BijectionProperties
    <2>2. DOMAIN b = 1..n
      BY <2>1
    <2>3. QED
      BY <2>1, <2>2 DEF IsInjective
  <1>4. s \in [1..n -> S] /\ IsInjective(s)
    BY <1>3 DEF SetToSeq
  <1>5. QED
    BY <1>4 DEF IsInjective

LEMMA SetToSeqPlaces ==
    ASSUME NEW rows, IsFiniteSet(rows), NEW S
    PROVE  Cardinality(Places(SetToSeq(rows), S)) = Cardinality(rows \cap S)
  <1> DEFINE s == SetToSeq(rows)
             P == Places(s, S)
             f == [i \in P |-> s[i]]
  <1>1. s \in Seq(rows) /\ Range(s) = rows
    BY SetToSeqProperties
  <1>2. \A i, j \in DOMAIN s : s[i] = s[j] => i = j
    BY SetToSeqInjective
  <1> HIDE DEF s
  <1>3. IsFiniteSet(P)
    BY <1>1, PlacesFinite
  <1>4. f \in [P -> rows] /\ \A x, y \in P : f[x] = f[y] => x = y
    BY <1>1, <1>2 DEF Places, Range
  <1>5. Range(f) = rows \cap S
    BY <1>1 DEF Places, Range
  <1> HIDE DEF P, f
  <1>6. Cardinality(Range(f)) = Cardinality(P)
    BY <1>3, <1>4, InjectiveImage
  <1>7. QED
    BY <1>5, <1>6 DEF P, s

(* An insertion of a set of rows adds each of them once.                   *)
LEMMA InsertPlaces ==
    ASSUME NEW T, NEW table \in Seq(T), NEW rows \in SUBSET T, IsFiniteSet(rows), NEW S
    PROVE  Cardinality(Places(table \o SetToSeq(rows), S))
             = Cardinality(Places(table, S)) + Cardinality(rows \cap S)
  <1>1. SetToSeq(rows) \in Seq(T)
    <2>1. SetToSeq(rows) \in Seq(rows)
      BY SetToSeqProperties
    <2>2. QED
      BY <2>1, SeqMonotonic
  <1>2. QED
    BY <1>1, ConcatPlaces, SetToSeqPlaces
-----------------------------------------------------------------------------
(* The rank of a place among the places of one set of naturals up to it.   *)
Upto(P, i) == {j \in P : j <= i}

LEMMA UptoGrows ==
    ASSUME NEW P \in SUBSET Nat, IsFiniteSet(P), NEW i \in P, NEW k \in P, i < k
    PROVE  /\ Cardinality(Upto(P, i)) < Cardinality(Upto(P, k))
           /\ Cardinality(Upto(P, i)) \in Nat /\ Cardinality(Upto(P, k)) \in Nat
  <1>1. IsFiniteSet(Upto(P, i)) /\ IsFiniteSet(Upto(P, k))
    BY FS_Subset DEF Upto
  <1>2. Cardinality(Upto(P, i)) \in Nat /\ Cardinality(Upto(P, k)) \in Nat
    BY <1>1, FS_CardinalityType
  <1>3. Upto(P, i) \in SUBSET Upto(P, k)
    <2>1. ASSUME NEW j \in P, j <= i PROVE j <= k
      <3>1. j \in Nat /\ i \in Nat /\ k \in Nat
        OBVIOUS
      <3>2. QED
        BY <2>1, <3>1
    <2>2. QED
      BY <2>1 DEF Upto
  <1>4. Upto(P, i) # Upto(P, k)
    <2>1. k \in Upto(P, k) /\ k \notin Upto(P, i)
      BY DEF Upto
    <2>2. QED
      BY <2>1
  <1>5. /\ Cardinality(Upto(P, i)) <= Cardinality(Upto(P, k))
        /\ Cardinality(Upto(P, k)) # Cardinality(Upto(P, i))
    BY <1>1, <1>3, <1>4, FS_Subset
  <1>6. QED
    BY <1>2, <1>5

(* No two places have one rank, and the ranks are 1 to the number of the   *)
(* places.                                                                 *)
LEMMA RanksDiffer ==
    ASSUME NEW P \in SUBSET Nat, IsFiniteSet(P)
    PROVE  /\ \A i, k \in P :
                Cardinality(Upto(P, i)) = Cardinality(Upto(P, k)) => i = k
           /\ \A i \in P : Cardinality(Upto(P, i)) \in 1 .. Cardinality(P)
  <1>1. ASSUME NEW i \in P, NEW k \in P,
               Cardinality(Upto(P, i)) = Cardinality(Upto(P, k))
        PROVE  i = k
    <2>1. CASE i < k
      BY <1>1, <2>1, UptoGrows
    <2>2. CASE k < i
      BY <1>1, <2>2, UptoGrows
    <2>3. QED
      BY <2>1, <2>2
  <1>2. ASSUME NEW i \in P
        PROVE  Cardinality(Upto(P, i)) \in 1 .. Cardinality(P)
    <2>1. Upto(P, i) \in SUBSET P
      BY DEF Upto
    <2>2. /\ IsFiniteSet(Upto(P, i))
          /\ Cardinality(Upto(P, i)) <= Cardinality(P)
      BY <2>1, FS_Subset
    <2>3. Cardinality(Upto(P, i)) \in Nat /\ Cardinality(P) \in Nat
      BY <2>2, FS_CardinalityType
    <2>4. Cardinality(Upto(P, i)) # 0
      <3>1. i \in Upto(P, i)
        BY DEF Upto
      <3>2. QED
        BY <2>2, <3>1, FS_EmptySet
    <2>5. QED
      BY <2>2, <2>3, <2>4
  <1>3. QED
    BY <1>1, <1>2

(* At most m places have a rank up to m; of n places, at least n - m, and  *)
(* no more than that when there are that many, have a greater one.         *)
LEMMA RanksAbove ==
    ASSUME NEW P \in SUBSET Nat, IsFiniteSet(P), NEW m \in Nat
    PROVE  LET above == {i \in P : Cardinality(Upto(P, i)) > m} IN
           /\ IsFiniteSet(above) /\ Cardinality(above) \in Nat
           /\ Cardinality(P) \in Nat
           /\ Cardinality(above) + m >= Cardinality(P)
           /\ above # {} => Cardinality(above) + m <= Cardinality(P)
  <1> DEFINE n == Cardinality(P)
             rank == [i \in P |-> Cardinality(Upto(P, i))]
             above == {i \in P : rank[i] > m}
             below == {i \in P : rank[i] <= m}
             f == [i \in below |-> rank[i]]
             g == [i \in above |-> rank[i]]
  <1>1. n \in Nat
    BY FS_CardinalityType
  <1>2. /\ \A i, k \in P : rank[i] = rank[k] => i = k
        /\ \A i \in P : rank[i] \in 1 .. n
    BY RanksDiffer
  <1>a. \A i \in P : rank[i] = Cardinality(Upto(P, i))
    OBVIOUS
  <1> HIDE DEF rank
  <1>3. IsFiniteSet(above) /\ IsFiniteSet(below)
    BY FS_Subset
  <1>4. Cardinality(above) \in Nat /\ Cardinality(below) \in Nat
    BY <1>3, FS_CardinalityType
  <1>5. Cardinality(below) <= m
    <2>a. ASSUME NEW i \in below PROVE rank[i] \in 1 .. m /\ i \in P
      <3>1. i \in P /\ rank[i] <= m
        OBVIOUS
      <3>2. rank[i] \in 1 .. n
        BY <1>2, <3>1
      <3> HIDE DEF n, below
      <3>3. QED
        BY <1>1, <3>1, <3>2
    <2>1. f \in [below -> 1 .. m] /\ \A x, y \in below : f[x] = f[y] => x = y
      <3> HIDE DEF below
      <3>1. QED
        BY <1>2, <2>a
    <2>2. IsFiniteSet(1 .. m) /\ Cardinality(1 .. m) = m
      BY FS_Interval
    <2> HIDE DEF f, below
    <2>3. QED
      BY <2>1, <2>2, InjectionBound
  <1>6. above # {} => Cardinality(above) + m <= n
    <2>1. SUFFICES ASSUME above # {} PROVE Cardinality(above) + m <= n
      OBVIOUS
    <2>a. ASSUME NEW i \in above PROVE rank[i] \in (m + 1) .. n /\ i \in P
      <3>1. i \in P /\ rank[i] > m
        OBVIOUS
      <3>2. rank[i] \in 1 .. n
        BY <1>2, <3>1
      <3> HIDE DEF n, above
      <3>3. QED
        BY <1>1, <3>1, <3>2
    <2>2. g \in [above -> (m + 1) .. n] /\ \A x, y \in above : g[x] = g[y] => x = y
      <3> HIDE DEF above
      <3>1. QED
        BY <1>2, <2>a
    <2>3. m + 1 <= n
      <3>1. PICK i \in above : rank[i] \in (m + 1) .. n
        BY <2>1, <2>a
      <3> HIDE DEF n, above
      <3>2. QED
        BY <1>1, <3>1
    <2>4. IsFiniteSet((m + 1) .. n) /\ Cardinality((m + 1) .. n) = n - m
      <3>1. m + 1 \in Int /\ n \in Int /\ ~(m + 1 > n)
        BY <1>1, <2>3
      <3> HIDE DEF n
      <3>2. IsFiniteSet((m + 1) .. n)
            /\ Cardinality((m + 1) .. n) = n - (m + 1) + 1
        BY <3>1, FS_Interval
      <3>3. QED
        BY <3>1, <3>2
    <2>5. Cardinality(above) <= n - m
      <3> HIDE DEF g, above, n
      <3>1. QED
        BY <2>2, <2>4, InjectionBound
    <2> HIDE DEF above, n
    <2>6. QED
      BY <1>1, <1>4, <2>5
  <1>7. Cardinality(above) + Cardinality(below) = n
    <2>a. \A i \in P : (rank[i] > m) <=> ~(rank[i] <= m)
      <3>1. \A i \in P : rank[i] \in 1 .. n
        BY <1>2
      <3> HIDE DEF n
      <3>2. QED
        BY <1>1, <3>1
    <2>1. above \cup below = P /\ above \cap below = {}
      BY <2>a
    <2> HIDE DEF above, below
    <2>2. QED
      BY <1>3, <2>1, DisjointUnion
  <1> HIDE DEF below
  <1>8. Cardinality(above) + m >= n
    <2> HIDE DEF above, n
    <2>1. QED
      BY <1>1, <1>4, <1>5, <1>7
  <1>9. QED
    <2>1. above = {i \in P : Cardinality(Upto(P, i)) > m}
      BY <1>a
    <2>2. QED
      BY <1>1, <1>3, <1>4, <1>6, <1>8, <2>1
-----------------------------------------------------------------------------
(* InOrder enumerates a finite set of numbers.                             *)
LEMMA InOrderEnumerates ==
    ASSUME NEW S \in SUBSET Int, IsFiniteSet(S)
    PROVE  /\ InOrder(S) \in Seq(S) /\ Range(InOrder(S)) = S
           /\ Len(InOrder(S)) = Cardinality(S)
  <1> DEFINE n == Cardinality(S)
             upto(x) == {y \in S : y <= x}
             rank == [x \in S |-> Cardinality(upto(x))]
  <1>1. n \in Nat BY FS_CardinalityType
  <1>2. \A x \in S : upto(x) \subseteq S /\ IsFiniteSet(upto(x))
    <2>1. \A x \in S : upto(x) \in SUBSET S OBVIOUS
    <2> HIDE DEF upto
    <2> QED BY <2>1, FS_Subset
  <1>3. \A x \in S : rank[x] \in 1..n
    <2> SUFFICES ASSUME NEW x \in S PROVE rank[x] \in 1..n
      OBVIOUS
    <2>1. x \in upto(x) OBVIOUS
    <2> HIDE DEF upto
    <2>2. Cardinality(upto(x)) \in Nat BY <1>2, FS_CardinalityType
    <2>3. Cardinality(upto(x)) <= n BY <1>2, FS_Subset
    <2>4. Cardinality(upto(x)) # 0 BY <1>2, <2>1, FS_EmptySet
    <2> QED BY <1>1, <2>2, <2>3, <2>4
  <1>4. \A x, y \in S : x < y => rank[x] < rank[y]
    <2> SUFFICES ASSUME NEW x \in S, NEW y \in S, x < y PROVE rank[x] < rank[y]
      OBVIOUS
    <2>1. x \in Int /\ y \in Int /\ S \subseteq Int OBVIOUS
    <2>2. upto(x) \in SUBSET upto(y) /\ y \in upto(y) /\ y \notin upto(x)
      <3>1. \A z \in S : z <= x => z <= y BY <2>1
      <3>2. y <= y /\ ~(y <= x) BY <2>1
      <3> QED BY <3>1, <3>2
    <2> HIDE DEF upto
    <2>3. Cardinality(upto(x)) <= Cardinality(upto(y))
          /\ Cardinality(upto(x)) # Cardinality(upto(y))
      BY <1>2, <2>2, FS_Subset
    <2>4. Cardinality(upto(x)) \in Nat /\ Cardinality(upto(y)) \in Nat
      BY <1>2, FS_CardinalityType
    <2> QED BY <2>3, <2>4
  <1>5. \A x, y \in S : rank[x] = rank[y] => x = y
    <2>1. \A x, y \in S : x < y \/ y < x \/ x = y OBVIOUS
    <2> HIDE DEF rank
    <2> QED BY <1>1, <1>3, <1>4, <2>1
  <1>6. Range(rank) = 1..n
    <2>1. rank \in [S -> 1..n] BY <1>3
    <2> HIDE DEF rank, n
    <2>2. Cardinality(Range(rank)) = Cardinality(S) BY <1>5, <2>1, InjectiveImage
    <2>3. Range(rank) \in SUBSET (1..n) BY <2>1 DEF Range
    <2>4. IsFiniteSet(1..n) /\ Cardinality(1..n) = n BY <1>1, FS_Interval
    <2>5. Cardinality(Range(rank)) = Cardinality(1..n) BY <2>2, <2>4 DEF n
    <2> QED BY <2>3, <2>4, <2>5, FS_Subset
  <1>7. \A i \in 1..n : \E x \in S : Cardinality(upto(x)) = i
    BY <1>6 DEF Range
  <1>8. InOrder(S) = [i \in 1..n |-> CHOOSE x \in S : Cardinality(upto(x)) = i]
    BY DEF InOrder
  <1> HIDE DEF upto
  <1>9. \A i \in 1..n : InOrder(S)[i] \in S /\ Cardinality(upto(InOrder(S)[i])) = i
    BY <1>7, <1>8
  <1>10. InOrder(S) \in Seq(S) /\ Len(InOrder(S)) = n
    BY <1>1, <1>8, <1>9
  <1>11. ASSUME NEW x \in S PROVE x \in Range(InOrder(S))
    <2>1. rank[x] \in 1..n BY <1>3
    <2>2. InOrder(S)[rank[x]] \in S /\ Cardinality(upto(InOrder(S)[rank[x]])) = rank[x]
      BY <1>9, <2>1
    <2>3. rank[InOrder(S)[rank[x]]] = rank[x] BY <2>2
    <2>4. InOrder(S)[rank[x]] = x BY <1>5, <2>2, <2>3
    <2> QED BY <1>8, <2>1, <2>4 DEF Range
  <1>12. Range(InOrder(S)) \subseteq S
    <2>1. DOMAIN InOrder(S) = 1..n BY <1>8
    <2> QED BY <1>9, <2>1 DEF Range
  <1> QED BY <1>10, <1>11, <1>12

(* The rows at some places of a table are rows of the table, and those     *)
(* places say which.                                                       *)
LEMMA RowsAtPlaces ==
    ASSUME NEW T, NEW table \in Seq(T), NEW places \in SUBSET (DOMAIN table)
    PROVE  /\ RowsAt(table, places) \in Seq(T)
           /\ Len(RowsAt(table, places)) = Cardinality(places)
           /\ Cardinality(places) \in Nat
           /\ \A k \in DOMAIN RowsAt(table, places) :
                \E i \in places : RowsAt(table, places)[k] = table[i]
           /\ \A i \in places : table[i] \in Range(RowsAt(table, places))
  <1>1. DOMAIN table = 1..Len(table) /\ Len(table) \in Nat BY LenProperties
  <1>2. places \in SUBSET Int /\ IsFiniteSet(places)
    <2>1. IsFiniteSet(1..Len(table)) BY <1>1, FS_Interval
    <2> QED BY <1>1, <2>1, FS_Subset
  <1> DEFINE list == InOrder(places)
             n == Cardinality(places)
  <1>3. list \in Seq(places) /\ Range(list) = places /\ Len(list) = n
    BY <1>2, InOrderEnumerates
  <1>4. n \in Nat BY <1>2, FS_CardinalityType
  <1>5. RowsAt(table, places) = [k \in 1..n |-> table[list[k]]]
    BY DEF RowsAt, InOrder
  <1> HIDE DEF list, n
  <1>6. DOMAIN list = 1..n /\ \A k \in 1..n : list[k] \in places
    BY <1>3, LenProperties
  <1>7. \A k \in 1..n : table[list[k]] \in T BY <1>1, <1>6
  <1>8. RowsAt(table, places) \in Seq(T) /\ Len(RowsAt(table, places)) = n
        /\ DOMAIN RowsAt(table, places) = 1..n
    BY <1>4, <1>5, <1>7
  <1>9. \A i \in places : \E k \in 1..n : list[k] = i
    BY <1>3, <1>6 DEF Range
  <1>10. \A i \in places : table[i] \in Range(RowsAt(table, places))
    <2> SUFFICES ASSUME NEW i \in places PROVE table[i] \in Range(RowsAt(table, places))
      OBVIOUS
    <2>1. PICK k \in 1..n : list[k] = i BY <1>9
    <2> QED BY <1>5, <1>8, <2>1 DEF Range
  <1> QED BY <1>4, <1>5, <1>6, <1>8, <1>10 DEF n

(* No element is in two places of the order.                               *)
LEMMA InOrderInjective ==
    ASSUME NEW S \in SUBSET Int, IsFiniteSet(S)
    PROVE  \A i, j \in DOMAIN InOrder(S) : InOrder(S)[i] = InOrder(S)[j] => i = j
  <1> DEFINE n == Cardinality(S)
             list == InOrder(S)
  <1>1. list \in Seq(S) /\ Range(list) = S /\ Len(list) = n BY InOrderEnumerates
  <1>2. n \in Nat BY FS_CardinalityType
  <1> HIDE DEF list
  <1>3. DOMAIN list = 1..n /\ list \in [1..n -> S] BY <1>1, LenProperties
  <1>4. \A x \in S : \E i \in 1..n : list[i] = x BY <1>1, <1>3 DEF Range
  <1>5. list \in Surjection(1..n, S) BY <1>3, <1>4, Fun_IsSurj
  <1>6. IsFiniteSet(1..n) /\ Cardinality(1..n) = n BY <1>2, FS_Interval
  <1>7. list \in Injection(1..n, S) BY <1>5, <1>6, FS_Surjection
  <1>8. \A i, j \in 1..n : list[i] = list[j] => i = j BY <1>7 DEF Injection, IsInjective
  <1> QED BY <1>3, <1>8 DEF list

(* The rows at some places are in the order of the places.                 *)
LEMMA RowsAtOrder ==
    ASSUME NEW T, NEW table \in Seq(T), NEW places \in SUBSET (DOMAIN table)
    PROVE  \E order \in Bijection(DOMAIN RowsAt(table, places), places) :
             \A k \in DOMAIN RowsAt(table, places) :
               RowsAt(table, places)[k] = table[order[k]]
  <1>1. DOMAIN table = 1..Len(table) /\ Len(table) \in Nat BY LenProperties
  <1>2. places \in SUBSET Int /\ IsFiniteSet(places)
    <2>1. IsFiniteSet(1..Len(table)) BY <1>1, FS_Interval
    <2> QED BY <1>1, <2>1, FS_Subset
  <1> DEFINE list == InOrder(places)
             n == Cardinality(places)
  <1>3. list \in Seq(places) /\ Range(list) = places /\ Len(list) = n
    BY <1>2, InOrderEnumerates
  <1>4. \A i, j \in DOMAIN list : list[i] = list[j] => i = j BY <1>2, InOrderInjective
  <1>5. RowsAt(table, places) = [k \in 1..n |-> table[list[k]]]
    BY DEF RowsAt, InOrder
  <1> HIDE DEF list, n
  <1>6. DOMAIN list = 1..n /\ list \in [1..n -> places] BY <1>3, LenProperties
  <1>7. \A x \in places : \E i \in 1..n : list[i] = x BY <1>3, <1>6 DEF Range
  <1>8. list \in Bijection(1..n, places) BY <1>4, <1>6, <1>7, Fun_IsBij
  <1> QED BY <1>5, <1>8

(* A sequence, whatever its rows are.                                      *)
IsList(s) == s \in Seq(Range(s))

LEMMA ListDomain ==
    ASSUME NEW s, IsList(s)
    PROVE  DOMAIN s = 1..Len(s) /\ Len(s) \in Nat
  BY LenProperties DEF IsList

LEMMA ListByPlace ==
    ASSUME NEW n \in Nat, NEW s, s = [k \in 1..n |-> s[k]]
    PROVE  IsList(s) /\ Len(s) = n /\ DOMAIN s = 1..n
  <1>1. DOMAIN s = 1..n BY Zenon
  <1>2. \A k \in 1..n : s[k] \in Range(s) BY <1>1 DEF Range
  <1>3. s \in [1..n -> Range(s)] BY <1>2
  <1>4. s \in Seq(Range(s)) /\ Len(s) = n BY <1>3, SeqDef
  <1> QED BY <1>1, <1>4 DEF IsList

LEMMA EmptyList == IsList(<<>>) /\ Range(<<>>) = {}
  <1>1. DOMAIN <<>> = {} OBVIOUS
  <1>2. Range(<<>>) = {} BY <1>1 DEF Range
  <1> QED BY <1>2, EmptySeq DEF IsList

LEMMA ListConcat ==
    ASSUME NEW s, NEW t, IsList(s), IsList(t)
    PROVE  /\ IsList(s \o t)
           /\ Range(s \o t) = Range(s) \cup Range(t)
           /\ Len(s \o t) = Len(s) + Len(t)
           /\ \A i \in DOMAIN (s \o t) :
                \/ i \in DOMAIN s /\ (s \o t)[i] = s[i]
                \/ i \notin DOMAIN s /\ i - Len(s) \in DOMAIN t /\ (s \o t)[i] = t[i - Len(s)]
           /\ \A S : Cardinality(Places(s \o t, S))
                       = Cardinality(Places(s, S)) + Cardinality(Places(t, S))
  <1> DEFINE T == Range(s) \cup Range(t)
  <1>1. s \in Seq(T) /\ t \in Seq(T) BY SeqMonotonic DEF IsList
  <1> HIDE DEF T
  <1>2. Range(s \o t) = T /\ s \o t \in Seq(T) BY <1>1, ConcatRange DEF T
  <1>3. /\ Len(s \o t) = Len(s) + Len(t)
        /\ \A i \in 1 .. Len(s) + Len(t) :
             (s \o t)[i] = IF i <= Len(s) THEN s[i] ELSE t[i - Len(s)]
    BY <1>1, ConcatProperties
  <1>4. /\ DOMAIN s = 1..Len(s) /\ Len(s) \in Nat /\ DOMAIN t = 1..Len(t) /\ Len(t) \in Nat
    BY ListDomain
  <1>5. DOMAIN (s \o t) = 1..(Len(s) + Len(t)) BY <1>2, <1>3, LenProperties
  <1>6. ASSUME NEW i \in DOMAIN (s \o t)
        PROVE  \/ i \in DOMAIN s /\ (s \o t)[i] = s[i]
               \/ i \notin DOMAIN s /\ i - Len(s) \in DOMAIN t /\ (s \o t)[i] = t[i - Len(s)]
    <2>1. i \in 1..(Len(s) + Len(t)) BY <1>5
    <2>2. (s \o t)[i] = IF i <= Len(s) THEN s[i] ELSE t[i - Len(s)] BY <1>3, <2>1
    <2>3. CASE i <= Len(s) BY <1>4, <2>1, <2>2, <2>3
    <2>4. CASE ~(i <= Len(s)) BY <1>4, <2>1, <2>2, <2>4
    <2> QED BY <2>3, <2>4
  <1>7. \A S : Cardinality(Places(s \o t, S))
                 = Cardinality(Places(s, S)) + Cardinality(Places(t, S))
    BY <1>1, ConcatPlaces
  <1> QED BY <1>2, <1>3, <1>6, <1>7 DEF IsList, T

LEMMA ListAppend ==
    ASSUME NEW s, IsList(s), NEW x
    PROVE  /\ IsList(Append(s, x)) /\ Len(Append(s, x)) = Len(s) + 1
           /\ \A i \in 1..Len(s) : Append(s, x)[i] = s[i]
           /\ Append(s, x)[Len(s) + 1] = x
  <1> DEFINE T == Range(s) \cup {x}
             r == Append(s, x)
  <1>1. s \in Seq(T) BY SeqMonotonic DEF IsList
  <1>2. Len(s) \in Nat BY ListDomain
  <1> HIDE DEF T
  <1>3. x \in T BY DEF T
  <1>4. r \in Seq(T) /\ Len(r) = Len(s) + 1
        /\ (\A i \in 1..Len(s) : r[i] = s[i]) /\ r[Len(s) + 1] = x
    BY <1>1, <1>3, AppendProperties
  <1> HIDE DEF r
  <1>5. r \in [1..(Len(s) + 1) -> T] /\ DOMAIN r = 1..(Len(s) + 1) BY <1>4, LenProperties
  <1>6. r = [k \in 1..(Len(s) + 1) |-> r[k]] BY <1>5
  <1>7. IsList(r) BY <1>2, <1>6, ListByPlace
  <1> QED BY <1>4, <1>7 DEF r
-----------------------------------------------------------------------------
(* The keys of the rows of a table; the table has as many rows as keys     *)
(* when no two rows have one key.                                          *)
KeysOf(table, key) == {key[row] : row \in Range(table)}

(* Rows to insert: no two with one key, none with a key of the table.      *)
NewKeys(rows, table, key) ==
    /\ \A x, y \in rows : key[x] = key[y] => x = y
    /\ \A x \in rows : key[x] \notin KeysOf(table, key)

LEMMA KeysFinite ==
    ASSUME NEW T, NEW K, NEW key \in [T -> K], NEW table \in Seq(T)
    PROVE  IsFiniteSet(KeysOf(table, key)) /\ IsFiniteSet(Range(table))
  <1> DEFINE f == [i \in DOMAIN table |-> key[table[i]]]
  <1>1. /\ DOMAIN table = 1 .. Len(table) /\ Len(table) \in Nat
        /\ \A i \in DOMAIN table : table[i] \in T
    BY LenProperties
  <1>2. IsFiniteSet(DOMAIN table)
    BY <1>1, FS_Interval
  <1>3. table \in [DOMAIN table -> T] /\ f \in [DOMAIN table -> K]
    BY <1>1
  <1>4. Range(f) = KeysOf(table, key)
    BY DEF Range, KeysOf
  <1> HIDE DEF f
  <1>5. IsFiniteSet(Range(table)) /\ IsFiniteSet(Range(f))
    BY <1>2, <1>3, FiniteImage
  <1>6. QED
    BY <1>4, <1>5

(* The rows of a table after an insertion, and how many there are.         *)
LEMMA InsertRows ==
    ASSUME NEW T, NEW table \in Seq(T), NEW rows \in SUBSET T, IsFiniteSet(rows)
    PROVE  /\ table \o SetToSeq(rows) \in Seq(T)
           /\ Range(table \o SetToSeq(rows)) = Range(table) \cup rows
           /\ Len(table \o SetToSeq(rows)) = Len(table) + Cardinality(rows)
  <1> DEFINE t == SetToSeq(rows)
  <1>1. t \in Seq(T) /\ Range(t) = rows /\ Len(t) = Cardinality(rows)
    <2>1. t \in Seq(rows) /\ Range(t) = rows /\ Len(t) = Cardinality(rows)
      BY SetToSeqProperties
    <2> HIDE DEF t
    <2>2. QED
      BY <2>1, SeqMonotonic
  <1> HIDE DEF t
  <1>2. table \o t \in Seq(T) /\ Range(table \o t) = Range(table) \cup Range(t)
    BY <1>1, ConcatRange
  <1>3. Len(table \o t) = Len(table) + Len(t)
    BY <1>1, ConcatProperties
  <1>4. QED
    BY <1>1, <1>2, <1>3 DEF t

(* An insertion of rows with new keys, no two with one, keeps it so.       *)
LEMMA InsertUniqueKeys ==
    ASSUME NEW T, NEW K, NEW key \in [T -> K], NEW table \in Seq(T),
           Len(table) = Cardinality(KeysOf(table, key)),
           NEW rows \in SUBSET T, IsFiniteSet(rows),
           NewKeys(rows, table, key)
    PROVE  Len(table \o SetToSeq(rows))
             = Cardinality(KeysOf(table \o SetToSeq(rows), key))
  <1> DEFINE f == [x \in rows |-> key[x]]
             t == SetToSeq(rows)
  <1>2. Range(table \o t) = Range(table) \cup rows
        /\ Len(table \o t) = Len(table) + Cardinality(rows)
    BY InsertRows
  <1>3. f \in [rows -> K] /\ \A x, y \in rows : f[x] = f[y] => x = y
    BY DEF NewKeys
  <1>4. Range(f) = {key[x] : x \in rows}
    BY DEF Range
  <1>5. KeysOf(table \o t, key) = KeysOf(table, key) \cup Range(f)
    BY <1>2, <1>4 DEF KeysOf
  <1>6. KeysOf(table, key) \cap Range(f) = {}
    BY <1>4 DEF NewKeys
  <1> HIDE DEF f
  <1>7. IsFiniteSet(Range(f)) /\ Cardinality(Range(f)) = Cardinality(rows)
    BY <1>3, InjectiveImage
  <1>8. IsFiniteSet(KeysOf(table, key))
    BY KeysFinite
  <1>9. Cardinality(KeysOf(table, key) \cup Range(f))
          = Cardinality(KeysOf(table, key)) + Cardinality(Range(f))
    BY <1>6, <1>7, <1>8, DisjointUnion
  <1>10. QED
    BY <1>2, <1>5, <1>7, <1>9 DEF t

(* An insertion of rows that are new keeps a table without repetitions.    *)
LEMMA InsertUniqueRows ==
    ASSUME NEW T, NEW table \in Seq(T), Len(table) = Cardinality(Range(table)),
           NEW rows \in SUBSET T, IsFiniteSet(rows), rows \cap Range(table) = {}
    PROVE  Len(table \o SetToSeq(rows)) = Cardinality(Range(table \o SetToSeq(rows)))
  <1> DEFINE t == SetToSeq(rows)
  <1>1. /\ Range(table \o t) = Range(table) \cup rows
        /\ Len(table \o t) = Len(table) + Cardinality(rows)
    BY InsertRows
  <1>2. IsFiniteSet(Range(table))
    <2>1. [x \in T |-> x] \in [T -> T]
      OBVIOUS
    <2>2. QED
      BY <2>1, KeysFinite
  <1>3. Cardinality(Range(table) \cup rows) = Cardinality(Range(table)) + Cardinality(rows)
    BY <1>2, DisjointUnion
  <1>4. QED
    BY <1>1, <1>3

(* The same for keys that are known to be on one row each.                 *)
DifferentKeys(table, key) ==
    \A i, j \in DOMAIN table : key[table[i]] = key[table[j]] => i = j

LEMMA InsertDifferentKeys ==
    ASSUME NEW T, NEW K, NEW key \in [T -> K], NEW table \in Seq(T),
           DifferentKeys(table, key),
           NEW rows \in SUBSET T, IsFiniteSet(rows), NewKeys(rows, table, key)
    PROVE  DifferentKeys(table \o SetToSeq(rows), key)
  <1> DEFINE t == SetToSeq(rows)
             new == table \o t
             n == Len(table)
  <1>1. /\ t \in Seq(rows) /\ Range(t) = rows
        /\ \A i, j \in DOMAIN t : t[i] = t[j] => i = j
    BY SetToSeqProperties, SetToSeqInjective
  <1> HIDE DEF t
  <1>2. t \in Seq(T)
    BY <1>1, SeqMonotonic
  <1>3. /\ n \in Nat /\ DOMAIN table = 1 .. n
        /\ Len(t) \in Nat /\ DOMAIN t = 1 .. Len(t)
        /\ DOMAIN new = 1 .. (n + Len(t))
        /\ \A i \in 1 .. (n + Len(t)) :
              new[i] = IF i <= n THEN table[i] ELSE t[i - n]
    BY <1>2, ConcatProperties, LenProperties
  <1> HIDE DEF n, new
  <1>4. SUFFICES ASSUME NEW i \in DOMAIN new, NEW j \in DOMAIN new,
                        key[new[i]] = key[new[j]]
                 PROVE  i = j
    BY DEF new, t, DifferentKeys
  <1>5. \A k \in DOMAIN new :
            \/ k \in DOMAIN table /\ new[k] = table[k] /\ new[k] \in Range(table)
            \/ k - n \in DOMAIN t /\ new[k] = t[k - n] /\ new[k] \in rows
    <2>1. SUFFICES ASSUME NEW k \in 1 .. (n + Len(t))
          PROVE  \/ k \in DOMAIN table /\ new[k] = table[k] /\ new[k] \in Range(table)
                 \/ k - n \in DOMAIN t /\ new[k] = t[k - n] /\ new[k] \in rows
      BY <1>3
    <2>2. CASE k <= n
      <3>1. k \in 1 .. n /\ new[k] = table[k]
        BY <1>3, <2>2
      <3>2. QED
        BY <1>3, <3>1 DEF Range
    <2>3. CASE ~(k <= n)
      <3>1. k - n \in 1 .. Len(t) /\ new[k] = t[k - n]
        BY <1>3, <2>3
      <3>2. QED
        BY <1>1, <1>3, <3>1 DEF Range
    <2>4. QED
      BY <2>2, <2>3
  <1>6. CASE i \in DOMAIN table /\ j \in DOMAIN table
             /\ new[i] = table[i] /\ new[j] = table[j]
    BY <1>4, <1>6 DEF DifferentKeys
  <1>7. CASE new[i] \in rows /\ new[j] \in rows /\ i - n \in DOMAIN t /\ j - n \in DOMAIN t
             /\ new[i] = t[i - n] /\ new[j] = t[j - n]
    <2>1. new[i] = new[j]
      BY <1>4, <1>7 DEF NewKeys
    <2>2. i - n = j - n
      BY <1>1, <1>7, <2>1
    <2>3. i \in Nat /\ j \in Nat
      BY <1>3
    <2>4. QED
      BY <1>3, <2>2, <2>3
  <1>8. CASE new[i] \in rows /\ new[j] \in Range(table)
    BY <1>4, <1>8 DEF NewKeys, KeysOf
  <1>9. CASE new[j] \in rows /\ new[i] \in Range(table)
    BY <1>4, <1>9 DEF NewKeys, KeysOf
  <1>10. QED
    BY <1>5, <1>6, <1>7, <1>8, <1>9
-----------------------------------------------------------------------------
(* The sum of the values of a function over a finite set.                  *)
Total(f, S) == MapThenSumSet(LAMBDA x : f[x], S)

(* What MapThenSumSet chooses: the sums of all the subsets.                *)
Chosen(s) == CHOOSE x \in s : TRUE
Sums(g, f, S) ==
    g = [s \in SUBSET S |-> IF s = {} THEN 0 ELSE f[Chosen(s)] + g[s \ {Chosen(s)}]]

LEMMA TotalIsChosen ==
    ASSUME NEW f, NEW S PROVE Total(f, S) = (CHOOSE g : Sums(g, f, S))[S]
  BY Zenon DEF Total, Sums, Chosen, MapThenSumSet, MapThenFoldSet

LEMMA ChosenElement ==
    ASSUME NEW s, s # {} PROVE Chosen(s) \in s
  BY DEF Chosen

LEMMA ChosenRemoved ==
    ASSUME NEW s, IsFiniteSet(s), s # {}, NEW x \in s
    PROVE  /\ IsFiniteSet(s \ {x})
           /\ Cardinality(s) \in Nat /\ Cardinality(s \ {x}) \in Nat
           /\ Cardinality(s \ {x}) = Cardinality(s) - 1
  BY FS_RemoveElement, FS_CardinalityType

(* Two functions that sum over subsets agree on what they have in common.  *)
LEMMA SumsAgree ==
    ASSUME NEW f, NEW S, NEW T, NEW g, NEW h, Sums(g, f, S), Sums(h, f, T),
           NEW s \in SUBSET S, s \in SUBSET T, IsFiniteSet(s)
    PROVE  g[s] = h[s]
  <1> DEFINE Wrong == {u \in SUBSET s : g[u] # h[u]}
             Bad == {n \in Nat : \E u \in Wrong : Cardinality(u) = n}
  <1> SUFFICES ASSUME g[s] # h[s] PROVE FALSE
    OBVIOUS
  <1>1. \A u \in SUBSET s : IsFiniteSet(u) /\ Cardinality(u) \in Nat
    BY FS_Subset, FS_CardinalityType
  <1>2. Bad # {} BY <1>1
  <1>3. PICK n \in Bad : \A m \in Bad : n <= m
    <2>1. Bad \subseteq Nat OBVIOUS
    <2> HIDE DEF Bad
    <2> QED BY <1>2, <2>1, LeastNatural
  <1>4. PICK u \in Wrong : Cardinality(u) = n
    BY <1>3
  <1>5. u # {}
    <2>1. g[{}] = 0 /\ h[{}] = 0 BY DEF Sums
    <2> QED BY <1>4, <2>1
  <1> DEFINE c == Chosen(u)
  <1>6. c \in u BY <1>5, ChosenElement
  <1>7. u \in SUBSET S /\ u \in SUBSET T BY <1>4
  <1>8. /\ g[u] = f[c] + g[u \ {c}] /\ h[u] = f[c] + h[u \ {c}]
    BY <1>5, <1>7 DEF Sums
  <1>9. g[u \ {c}] # h[u \ {c}] BY <1>4, <1>8
  <1> HIDE DEF c
  <1>10. u \ {c} \in Wrong BY <1>4, <1>9
  <1>11. /\ Cardinality(u \ {c}) = n - 1 /\ Cardinality(u \ {c}) \in Nat /\ n \in Nat
    BY <1>1, <1>3, <1>4, <1>5, <1>6, ChosenRemoved
  <1>12. n - 1 \in Bad BY <1>10, <1>11
  <1> QED BY <1>3, <1>11, <1>12

(* There is such a function.                                               *)
LEMMA SumsExist ==
    ASSUME NEW f, NEW S, IsFiniteSet(S) PROVE \E g : Sums(g, f, S)
  <1> DEFINE upto(n) == {s \in SUBSET S : Cardinality(s) <= n}
             value(g, s) == IF s = {} THEN 0 ELSE f[Chosen(s)] + g[s \ {Chosen(s)}]
             Partial(g, n) == g = [s \in upto(n) |-> value(g, s)]
             Bad == {n \in Nat : ~\E g : Partial(g, n)}
  <1>1. \A s \in SUBSET S : IsFiniteSet(s) /\ Cardinality(s) \in Nat
    BY FS_Subset, FS_CardinalityType
  <1>2. Bad = {}
    <2> SUFFICES ASSUME Bad # {} PROVE FALSE
      OBVIOUS
    <2>1. PICK n \in Bad : \A m \in Bad : n <= m
      <3>1. Bad \subseteq Nat OBVIOUS
      <3> HIDE DEF Bad
      <3> QED BY <3>1, LeastNatural
    <2>2. n \in Nat OBVIOUS
    <2>3. CASE n = 0
      <3> DEFINE g == [s \in upto(0) |-> 0]
      <3>1. \A s \in upto(0) : s = {} BY <1>1, FS_EmptySet
      <3>2. Partial(g, 0) BY <3>1
      <3> QED BY <2>1, <2>3, <3>2
    <2>4. CASE n # 0
      <3>1. n - 1 \in Nat /\ ~(n <= n - 1) BY <2>2, <2>4
      <3>2. n - 1 \notin Bad BY <2>1, <3>1
      <3>3. PICK g : Partial(g, n - 1) BY <3>1, <3>2
      <3> DEFINE h == [s \in upto(n) |-> value(g, s)]
      <3>4. \A s \in upto(n - 1) : h[s] = g[s]
        <4>1. \A s \in upto(n - 1) : s \in upto(n) BY <1>1, <2>2
        <4>2. \A s \in upto(n - 1) : g[s] = value(g, s) BY <3>3
        <4> QED BY <4>1, <4>2
      <3>5. ASSUME NEW s \in upto(n), s # {} PROVE s \ {Chosen(s)} \in upto(n - 1)
        <4>1. Chosen(s) \in s BY <3>5, ChosenElement
        <4>2. Cardinality(s \ {Chosen(s)}) = Cardinality(s) - 1
          BY <1>1, <3>5, <4>1, ChosenRemoved
        <4>3. Cardinality(s) \in Nat /\ Cardinality(s) <= n BY <1>1
        <4>4. Cardinality(s) - 1 <= n - 1 BY <2>2, <4>3
        <4> QED BY <4>2, <4>4
      <3>6. \A s \in upto(n) : value(g, s) = value(h, s)
        <4> HIDE DEF h, upto
        <4> QED BY <3>4, <3>5
      <3>7. Partial(h, n) BY <3>6
      <3> QED BY <2>1, <3>7
    <2> QED BY <2>3, <2>4
  <1>3. Cardinality(S) \in Nat BY <1>1
  <1>4. PICK g : Partial(g, Cardinality(S)) BY <1>2, <1>3
  <1>5. upto(Cardinality(S)) = SUBSET S BY FS_Subset
  <1> QED BY <1>4, <1>5 DEF Sums

(* The sum over a set, by the element that is chosen.                      *)
LEMMA TotalOfSums ==
    ASSUME NEW f, NEW S, IsFiniteSet(S), NEW g, NEW T, Sums(g, f, T), S \in SUBSET T
    PROVE  Total(f, S) = g[S]
  <1>1. \E h : Sums(h, f, S) BY SumsExist
  <1> DEFINE h == CHOOSE h : Sums(h, f, S)
  <1>2. Sums(h, f, S) BY <1>1
  <1>3. Total(f, S) = h[S] BY TotalIsChosen
  <1> HIDE DEF h
  <1> QED BY <1>2, <1>3, SumsAgree

LEMMA TotalEmpty == ASSUME NEW f PROVE Total(f, {}) = 0
  <1>1. IsFiniteSet({}) BY FS_EmptySet
  <1>2. PICK g : Sums(g, f, {}) BY <1>1, SumsExist
  <1>3. g[{}] = 0 BY <1>2 DEF Sums
  <1> QED BY <1>1, <1>2, <1>3, TotalOfSums

LEMMA TotalByChosen ==
    ASSUME NEW f, NEW S, IsFiniteSet(S), S # {}
    PROVE  Total(f, S) = f[Chosen(S)] + Total(f, S \ {Chosen(S)})
  <1>1. PICK g : Sums(g, f, S) BY SumsExist
  <1>2. g[S] = f[Chosen(S)] + g[S \ {Chosen(S)}] BY <1>1 DEF Sums
  <1>3. IsFiniteSet(S \ {Chosen(S)}) BY FS_Subset
  <1>4. Total(f, S) = g[S] BY <1>1, TotalOfSums
  <1>5. Total(f, S \ {Chosen(S)}) = g[S \ {Chosen(S)}] BY <1>1, <1>3, TotalOfSums
  <1> QED BY <1>2, <1>4, <1>5

(* The least counterexample to a claim about subsets.                      *)
LEMMA SmallestSubset ==
    ASSUME NEW S, IsFiniteSet(S), NEW Wrong, Wrong \subseteq SUBSET S, Wrong # {}
    PROVE  \E s \in Wrong : \A x \in s : s \ {x} \notin Wrong
  <1> DEFINE Sizes == {n \in Nat : \E s \in Wrong : Cardinality(s) = n}
  <1>1. \A s \in SUBSET S : IsFiniteSet(s) /\ Cardinality(s) \in Nat
    BY FS_Subset, FS_CardinalityType
  <1>2. Sizes # {} BY <1>1
  <1>3. PICK n \in Sizes : \A m \in Sizes : n <= m
    <2>1. Sizes \subseteq Nat OBVIOUS
    <2> HIDE DEF Sizes
    <2> QED BY <1>2, <2>1, LeastNatural
  <1>4. PICK s \in Wrong : Cardinality(s) = n BY <1>3
  <1>5. ASSUME NEW x \in s, s \ {x} \in Wrong PROVE FALSE
    <2>1. Cardinality(s \ {x}) = n - 1 /\ Cardinality(s \ {x}) \in Nat /\ n \in Nat
      BY <1>1, <1>3, <1>4, ChosenRemoved
    <2>2. n - 1 \in Sizes BY <1>5, <2>1
    <2> QED BY <1>3, <2>1, <2>2
  <1> QED BY <1>5

LEMMA TotalType ==
    ASSUME NEW D, NEW f \in [D -> Int], NEW S \in SUBSET D, IsFiniteSet(S)
    PROVE  Total(f, S) \in Int
  <1> DEFINE Wrong == {s \in SUBSET S : Total(f, s) \notin Int}
  <1> SUFFICES ASSUME Wrong # {} PROVE FALSE
    OBVIOUS
  <1>1. PICK s \in Wrong : \A x \in s : s \ {x} \notin Wrong
    <2>1. Wrong \subseteq SUBSET S OBVIOUS
    <2> HIDE DEF Wrong
    <2> QED BY <2>1, SmallestSubset
  <1>2. s # {} BY <1>1, TotalEmpty
  <1>3. Chosen(s) \in s BY <1>2, ChosenElement
  <1>4. Total(f, s \ {Chosen(s)}) \in Int BY <1>1, <1>3
  <1>5. IsFiniteSet(s) BY FS_Subset
  <1>6. Total(f, s) = f[Chosen(s)] + Total(f, s \ {Chosen(s)}) BY <1>2, <1>5, TotalByChosen
  <1>7. f[Chosen(s)] \in Int BY <1>3
  <1> QED BY <1>4, <1>6, <1>7

(* The order does not matter.                                              *)
LEMMA TotalRemove ==
    ASSUME NEW D, NEW f \in [D -> Int], NEW S \in SUBSET D, IsFiniteSet(S), NEW x \in S
    PROVE  Total(f, S) = f[x] + Total(f, S \ {x})
  <1> DEFINE Fits(s) == \A y \in s : Total(f, s) = f[y] + Total(f, s \ {y})
             Wrong == {s \in SUBSET S : ~Fits(s)}
  <1> SUFFICES ASSUME Wrong # {} PROVE FALSE
    OBVIOUS
  <1>1. PICK s \in Wrong : \A y \in s : s \ {y} \notin Wrong
    <2>1. Wrong \subseteq SUBSET S OBVIOUS
    <2> HIDE DEF Wrong
    <2> QED BY <2>1, SmallestSubset
  <1>2. PICK y \in s : Total(f, s) # f[y] + Total(f, s \ {y}) BY <1>1
  <1> DEFINE c == Chosen(s)
  <1>3. c \in s BY <1>2, ChosenElement
  <1>4. IsFiniteSet(s) BY FS_Subset
  <1>5. Total(f, s) = f[c] + Total(f, s \ {c}) BY <1>2, <1>4, TotalByChosen
  <1> HIDE DEF c
  <1>6. y # c BY <1>2, <1>5
  <1>7. Fits(s \ {c}) /\ Fits(s \ {y}) BY <1>1, <1>2, <1>3
  <1>8. Total(f, s \ {c}) = f[y] + Total(f, (s \ {c}) \ {y})
    BY <1>2, <1>6, <1>7
  <1>9. Total(f, s \ {y}) = f[c] + Total(f, (s \ {y}) \ {c})
    BY <1>3, <1>6, <1>7
  <1>10. (s \ {c}) \ {y} = (s \ {y}) \ {c} OBVIOUS
  <1>11. Total(f, (s \ {y}) \ {c}) \in Int
    <2>1. (s \ {y}) \ {c} \in SUBSET D /\ IsFiniteSet((s \ {y}) \ {c}) BY <1>4, FS_Subset
    <2> QED BY <2>1, TotalType
  <1>12. f[y] \in Int /\ f[c] \in Int BY <1>3
  <1>13. \A a, b, z \in Int : a + (b + z) = b + (a + z) OBVIOUS
  <1>14. f[c] + (f[y] + Total(f, (s \ {y}) \ {c})) = f[y] + (f[c] + Total(f, (s \ {y}) \ {c}))
    BY <1>11, <1>12, <1>13
  <1>15. Total(f, s) = f[c] + (f[y] + Total(f, (s \ {y}) \ {c})) BY <1>5, <1>8, <1>10
  <1>16. f[y] + Total(f, s \ {y}) = f[y] + (f[c] + Total(f, (s \ {y}) \ {c})) BY <1>9
  <1> QED BY <1>2, <1>14, <1>15, <1>16

(* More elements, none of them negative, do not make the sum smaller.      *)
LEMMA TotalGrows ==
    ASSUME NEW D, NEW f \in [D -> Int], NEW S \in SUBSET D, IsFiniteSet(S),
           \A x \in S : f[x] >= 0, NEW T \in SUBSET S
    PROVE  Total(f, T) <= Total(f, S)
  <1> DEFINE Wrong == {s \in SUBSET S : T \subseteq s /\ ~(Total(f, T) <= Total(f, s))}
  <1> SUFFICES ASSUME Wrong # {} PROVE FALSE
    OBVIOUS
  <1>1. PICK s \in Wrong : \A y \in s : s \ {y} \notin Wrong
    <2>1. Wrong \subseteq SUBSET S OBVIOUS
    <2> HIDE DEF Wrong
    <2> QED BY <2>1, SmallestSubset
  <1>2. \A u \in SUBSET S : Total(f, u) \in Int
    <2>1. \A u \in SUBSET S : IsFiniteSet(u) /\ u \in SUBSET D BY FS_Subset
    <2> QED BY <2>1, TotalType
  <1>3. s # T BY <1>1, <1>2
  <1>4. PICK y \in s : y \notin T BY <1>1, <1>3
  <1>5. Total(f, T) <= Total(f, s \ {y}) BY <1>1, <1>4
  <1>6. Total(f, s) = f[y] + Total(f, s \ {y})
    <2>1. IsFiniteSet(s) /\ s \in SUBSET D BY FS_Subset
    <2> QED BY <2>1, TotalRemove
  <1>7. f[y] \in Int /\ f[y] >= 0 OBVIOUS
  <1>8. /\ Total(f, T) \in Int /\ Total(f, s \ {y}) \in Int
        /\ ~(Total(f, T) <= Total(f, s))
    BY <1>1, <1>2
  <1> QED BY <1>5, <1>6, <1>7, <1>8

(* A finite set of numbers has a greatest one.                             *)
LEMMA MaxOfFinite ==
    ASSUME NEW S \in SUBSET Int, IsFiniteSet(S), S # {}
    PROVE  Max(S) \in S /\ \A x \in S : x <= Max(S)
  <1> DEFINE HasMax(s) == \E m \in s : \A x \in s : x <= m
             Wrong == {s \in SUBSET S : s # {} /\ ~HasMax(s)}
  <1>1. Wrong = {}
    <2> SUFFICES ASSUME Wrong # {} PROVE FALSE
      OBVIOUS
    <2>1. PICK s \in Wrong : \A x \in s : s \ {x} \notin Wrong
      <3>1. Wrong \subseteq SUBSET S OBVIOUS
      <3> HIDE DEF Wrong
      <3> QED BY <3>1, SmallestSubset
    <2>2. PICK x \in s : TRUE BY <2>1
    <2>3. \A y \in s : y \in Int OBVIOUS
    <2>4. CASE s \ {x} = {}
      <3>1. \A y \in s : y <= x BY <2>2, <2>3, <2>4
      <3> QED BY <2>1, <3>1
    <2>5. CASE s \ {x} # {}
      <3>1. PICK m \in s \ {x} : \A y \in s \ {x} : y <= m BY <2>1, <2>5
      <3>2. CASE x <= m
        <4>1. \A y \in s : y <= m BY <3>1, <3>2
        <4> QED BY <2>1, <4>1
      <3>3. CASE ~(x <= m)
        <4>1. \A y \in s : y <= x BY <2>3, <3>1, <3>3
        <4> QED BY <2>1, <4>1
      <3> QED BY <3>2, <3>3
    <2> QED BY <2>4, <2>5
  <1>2. PICK m \in S : \A x \in S : m >= x
    <2>1. HasMax(S) BY <1>1
    <2> QED BY <2>1
  <1> QED BY <1>2 DEF Max

(* A sum depends on the values in the set alone.                           *)
LEMMA SameTotal ==
    ASSUME NEW f, NEW g, NEW S, IsFiniteSet(S), \A x \in S : f[x] = g[x]
    PROVE  Total(f, S) = Total(g, S)
  <1> DEFINE Wrong == {s \in SUBSET S : Total(f, s) # Total(g, s)}
  <1> SUFFICES ASSUME Wrong # {} PROVE FALSE
    OBVIOUS
  <1>1. PICK s \in Wrong : \A x \in s : s \ {x} \notin Wrong
    <2>1. Wrong \subseteq SUBSET S OBVIOUS
    <2> HIDE DEF Wrong
    <2> QED BY <2>1, SmallestSubset
  <1>2. s # {} BY <1>1, TotalEmpty
  <1>3. Chosen(s) \in s BY <1>2, ChosenElement
  <1>4. Total(f, s \ {Chosen(s)}) = Total(g, s \ {Chosen(s)}) BY <1>1, <1>3
  <1>5. IsFiniteSet(s) BY FS_Subset
  <1>6. /\ Total(f, s) = f[Chosen(s)] + Total(f, s \ {Chosen(s)})
        /\ Total(g, s) = g[Chosen(s)] + Total(g, s \ {Chosen(s)})
    BY <1>2, <1>5, TotalByChosen
  <1> QED BY <1>1, <1>3, <1>4, <1>6
=============================================================================
