----------------------- MODULE TradeEnrichmentProofs -----------------------
(***************************************************************************)
(* From logs to a payload, for any logs, tokens, pools, prices, rounds and *)
(* windows, and whatever answers are lost: a swap is the trade of its log, *)
(* the prices do not depend on the order of the events and lead to a       *)
(* stablecoin, a payload is what the persistence relies on, and a swap     *)
(* that is scanned again is not stored again without a reason.             *)
(***************************************************************************)
EXTENDS TradeEnrichment, TableLemmas

(* Ratios.  Their terms are divided by the greatest common divisor.        *)
Positive == (Nat \ {0}) \X (Nat \ {0})

LEMMA LowestTerms ==
    ASSUME NEW n \in Nat, NEW d \in Nat \ {0}
    PROVE  \E g \in Nat \ {0} :
             /\ n = g * Ratio(n, d)[1] /\ d = g * Ratio(n, d)[2]
             /\ Ratio(n, d) \in Ratios
             /\ n > 0 => Ratio(n, d) \in Positive
  <1> DEFINE divisors == {k \in 1..d : d % k = 0 /\ n % k = 0}
             g == Max(divisors)
  <1>1. g \in divisors
    <2>1. divisors \in SUBSET Int OBVIOUS
    <2>2. IsFiniteSet(divisors)
      <3>1. divisors \subseteq 1..d /\ IsFiniteSet(1..d) BY FS_Interval
      <3> QED BY <3>1, FS_Subset
    <2>3. 1 \in divisors OBVIOUS
    <2> HIDE DEF divisors
    <2> QED BY <2>1, <2>2, <2>3, MaxOfFinite
  <1>2. Ratio(n, d) = <<n \div g, d \div g>> BY DEF Ratio
  <1>3. g \in Nat \ {0} /\ d % g = 0 /\ n % g = 0 BY <1>1
  <1> HIDE DEF g
  <1>4. n = g * (n \div g) /\ n \div g \in Nat BY <1>3
  <1>5. d = g * (d \div g) /\ d \div g \in Nat \ {0} BY <1>3
  <1>6. n > 0 => n \div g \in Nat \ {0} BY <1>3, <1>4
  <1> QED BY <1>2, <1>3, <1>4, <1>5, <1>6 DEF Ratios, Positive

LEMMA Products ==
    /\ \A a, b \in Nat : a * b \in Nat /\ a + b \in Nat
    /\ \A a, b \in Nat \ {0} : a * b \in Nat \ {0}
  OBVIOUS

LEMMA RatioTypes ==
    ASSUME NEW p \in Ratios, NEW q \in Ratios
    PROVE  /\ Times(p, q) \in Ratios /\ Plus(p, q) \in Ratios
           /\ q \in Positive => Over(p, q) \in Ratios
           /\ p \in Positive /\ q \in Positive => Times(p, q) \in Positive /\ Over(p, q) \in Positive
  <1>1. p[1] \in Nat /\ p[2] \in Nat \ {0} /\ q[1] \in Nat /\ q[2] \in Nat \ {0} BY DEF Ratios
  <1>2. /\ p[1] * q[1] \in Nat /\ p[2] * q[2] \in Nat \ {0}
        /\ p[1] * q[2] + q[1] * p[2] \in Nat /\ p[1] * q[2] \in Nat
    BY <1>1, Products, Zenon
  <1>3. q \in Positive => p[2] * q[1] \in Nat \ {0} BY <1>1 DEF Positive
  <1>4. p \in Positive /\ q \in Positive => p[1] * q[1] > 0 /\ p[1] * q[2] > 0
    BY <1>1 DEF Positive
  <1>5. /\ Times(p, q) \in Ratios /\ Plus(p, q) \in Ratios
        /\ q \in Positive => Over(p, q) \in Ratios
    BY <1>2, <1>3, LowestTerms DEF Times, Plus, Over
  <1> QED BY <1>2, <1>3, <1>4, <1>5, LowestTerms DEF Times, Over

(* Ratios are ordered.                                                     *)
LEMMA AtMostOrders ==
    /\ \A p, q \in Ratios : AtMost(p, q) \/ AtMost(q, p)
    /\ \A p, q, r \in Ratios : AtMost(p, q) /\ AtMost(q, r) => AtMost(p, r)
  <1>1. ASSUME NEW p \in Ratios, NEW q \in Ratios PROVE AtMost(p, q) \/ AtMost(q, p)
    BY DEF Ratios, AtMost
  <1>2. ASSUME NEW p \in Ratios, NEW q \in Ratios, NEW r \in Ratios,
               AtMost(p, q), AtMost(q, r)
        PROVE  AtMost(p, r)
    <2>1. /\ p[1] \in Nat /\ p[2] \in Nat \ {0} /\ q[1] \in Nat /\ q[2] \in Nat \ {0}
          /\ r[1] \in Nat /\ r[2] \in Nat \ {0}
      BY DEF Ratios
    <2>2. p[1] * q[2] <= q[1] * p[2] /\ q[1] * r[2] <= r[1] * q[2] BY <1>2 DEF AtMost
    <2>3. PICK a \in Nat, b \in Nat, c \in Nat, d \in Nat, e \in Nat, f \in Nat :
            /\ a = p[1] /\ b = p[2] /\ c = q[1] /\ d = q[2] /\ e = r[1] /\ f = r[2]
            /\ b # 0 /\ d # 0 /\ f # 0
      BY <2>1
    <2>4. a * d <= c * b /\ c * f <= e * d BY <2>2, <2>3
    <2>5. a * f <= e * b
      <3>1. (a * d) * f <= (c * b) * f /\ (c * f) * b <= (e * d) * b BY <2>4
      <3>2. (a * f) * d <= (e * b) * d BY <3>1
      <3> QED BY <2>3, <3>2
    <2>6. p[1] * r[2] <= r[1] * p[2] BY <2>3, <2>5
    <2> QED BY <2>6 DEF AtMost
  <1> QED BY <1>1, <1>2

(* A finite set that is ordered by a relation has a last element.          *)
LEMMA LastElement ==
    ASSUME NEW R, NEW S, IsFiniteSet(S), S # {},
           \A x, y \in S : <<x, y>> \in R \/ <<y, x>> \in R,
           \A x, y, z \in S : <<x, y>> \in R /\ <<y, z>> \in R => <<x, z>> \in R
    PROVE  \E m \in S : \A x \in S : <<x, m>> \in R
  <1> DEFINE HasLast(s) == \E m \in s : \A x \in s : <<x, m>> \in R
             Wrong == {s \in SUBSET S : s # {} /\ ~HasLast(s)}
  <1>1. Wrong = {}
    <2> SUFFICES ASSUME Wrong # {} PROVE FALSE
      OBVIOUS
    <2>1. PICK s \in Wrong : \A x \in s : s \ {x} \notin Wrong
      <3>1. Wrong \subseteq SUBSET S OBVIOUS
      <3> HIDE DEF Wrong
      <3> QED BY <3>1, SmallestSubset
    <2>2. PICK x \in s : TRUE BY <2>1
    <2>3. s \subseteq S BY <2>1
    <2>4. CASE s \ {x} = {}
      <3>1. \A y \in s : <<y, x>> \in R BY <2>2, <2>3, <2>4
      <3> QED BY <2>1, <2>2, <3>1
    <2>5. CASE s \ {x} # {}
      <3>1. PICK m \in s \ {x} : \A y \in s \ {x} : <<y, m>> \in R BY <2>1, <2>3, <2>5
      <3>2. CASE <<x, m>> \in R
        <4>1. \A y \in s : <<y, m>> \in R BY <3>1, <3>2
        <4> QED BY <2>1, <3>1, <4>1
      <3>3. CASE <<m, x>> \in R
        <4>1. \A y \in s : <<y, x>> \in R BY <2>2, <2>3, <3>1, <3>3
        <4> QED BY <2>1, <2>2, <4>1
      <3> QED BY <2>3, <3>1, <3>2, <3>3
    <2> QED BY <2>4, <2>5
  <1> QED BY <1>1
-----------------------------------------------------------------------------
(* The largest of some ratios, the middle of some samples.                 *)
Ascending == {pair \in Ratios \X Ratios : AtMost(pair[1], pair[2])}
Descending == {pair \in Ratios \X Ratios : AtMost(pair[2], pair[1])}

LEMMA Extremes ==
    ASSUME NEW S \in SUBSET Ratios, IsFiniteSet(S), S # {}
    PROVE  /\ \E m \in S : \A p \in S : AtMost(p, m)
           /\ \E m \in S : \A p \in S : AtMost(m, p)
  <1>1. /\ \A x, y \in S : <<x, y>> \in Ascending \/ <<y, x>> \in Ascending
        /\ \A x, y \in S : <<x, y>> \in Descending \/ <<y, x>> \in Descending
    BY AtMostOrders DEF Ascending, Descending
  <1>2. /\ \A x, y, z \in S : <<x, y>> \in Ascending /\ <<y, z>> \in Ascending
                                => <<x, z>> \in Ascending
        /\ \A x, y, z \in S : <<x, y>> \in Descending /\ <<y, z>> \in Descending
                                => <<x, z>> \in Descending
    <2>1. \A x, y, z \in S : AtMost(x, y) /\ AtMost(y, z) => AtMost(x, z) BY AtMostOrders
    <2>2. \A x, y \in S : /\ <<x, y>> \in Ascending <=> AtMost(x, y)
                          /\ <<x, y>> \in Descending <=> AtMost(y, x)
      BY DEF Ascending, Descending
    <2> QED BY <2>1, <2>2
  <1>3. PICK m \in S : \A p \in S : <<p, m>> \in Ascending BY <1>1, <1>2, LastElement
  <1>4. PICK l \in S : \A p \in S : <<p, l>> \in Descending BY <1>1, <1>2, LastElement
  <1> QED BY <1>3, <1>4 DEF Ascending, Descending

LEMMA LargestIsThere ==
    ASSUME NEW S \in SUBSET Ratios, IsFiniteSet(S), S # {}
    PROVE  Largest(S) \in S
  BY Extremes DEF Largest

(* The samples that are below a price, and those up to it.                 *)
Cheaper(S, p) == {s \in S : ~AtMost(p, s.price)}
NotAbove(S, p) == {s \in S : AtMost(s.price, p)}
PricesOf(S) == {s.price : s \in S}

LEMMA NthIsThere ==
    ASSUME NEW S, IsFiniteSet(S), PricesOf(S) \subseteq Ratios,
           NEW n \in 1..Cardinality(S)
    PROVE  Nth(S, n) \in PricesOf(S)
  <1>1. IsFiniteSet(PricesOf(S))
    <2> DEFINE price == [s \in S |-> s.price]
    <2>1. price \in [S -> PricesOf(S)] BY DEF PricesOf
    <2>2. Range(price) = PricesOf(S) BY DEF PricesOf, Range
    <2> HIDE DEF price
    <2> QED BY <2>1, <2>2, FiniteImage
  <1>2. \A s \in S : s.price \in PricesOf(S) /\ s.price \in Ratios BY DEF PricesOf
  <1>3. \A p : /\ Cheaper(S, p) \subseteq S /\ NotAbove(S, p) \subseteq S
               /\ Cardinality(Cheaper(S, p)) \in Nat /\ Cardinality(NotAbove(S, p)) \in Nat
    <2>1. \A p : Cheaper(S, p) \in SUBSET S /\ NotAbove(S, p) \in SUBSET S BY DEF Cheaper, NotAbove
    <2> QED BY <2>1, FS_Subset, FS_CardinalityType
  <1>4. Cardinality(S) \in Nat /\ n \in Nat /\ 0 < n /\ n <= Cardinality(S)
    BY FS_CardinalityType
  <1> DEFINE enough == {p \in PricesOf(S) : n <= Cardinality(NotAbove(S, p))}
  <1>5. enough # {}
    <2>1. S # {} BY <1>4, FS_EmptySet
    <2>2. PricesOf(S) # {} BY <2>1 DEF PricesOf
    <2>3. PICK m \in PricesOf(S) : \A p \in PricesOf(S) : AtMost(p, m)
      BY <1>1, <2>2, Extremes
    <2>4. NotAbove(S, m) = S BY <1>2, <2>3 DEF NotAbove
    <2> QED BY <1>4, <2>3, <2>4
  <1>6. enough \subseteq PricesOf(S) /\ enough \in SUBSET Ratios /\ IsFiniteSet(enough)
    BY <1>1, FS_Subset
  <1>7. PICK p \in enough : \A q \in enough : AtMost(p, q)
    <2> HIDE DEF enough
    <2> QED BY <1>5, <1>6, Extremes
  <1>8. Cardinality(Cheaper(S, p)) < n
    <2> DEFINE lower == PricesOf(Cheaper(S, p))
    <2>1. CASE Cheaper(S, p) = {} BY <1>4, <2>1, FS_EmptySet
    <2>2. CASE Cheaper(S, p) # {}
      <3>1. lower # {} BY <2>2 DEF PricesOf
      <3>2. lower \subseteq PricesOf(S) BY <1>3 DEF PricesOf
      <3>3. lower \in SUBSET Ratios /\ IsFiniteSet(lower) BY <1>1, <3>2, FS_Subset
      <3>4. PICK q \in lower : \A r \in lower : AtMost(r, q)
        <4> HIDE DEF lower
        <4> QED BY <3>1, <3>3, Extremes
      <3>5. PICK s \in Cheaper(S, p) : s.price = q BY <3>4 DEF PricesOf
      <3>6. ~AtMost(p, q) BY <3>5 DEF Cheaper
      <3>7. Cheaper(S, p) \subseteq NotAbove(S, q)
        <4>1. \A r \in Cheaper(S, p) : r \in S /\ r.price \in lower BY DEF Cheaper, PricesOf
        <4> QED BY <3>4, <4>1 DEF NotAbove
      <3>8. q \notin enough BY <1>7, <3>6
      <3>9. Cardinality(NotAbove(S, q)) < n BY <1>3, <1>4, <3>2, <3>4, <3>8
      <3>10. Cardinality(Cheaper(S, p)) <= Cardinality(NotAbove(S, q))
        <4>1. IsFiniteSet(NotAbove(S, q)) BY <1>3, FS_Subset
        <4> QED BY <3>7, <4>1, FS_Subset
      <3> QED BY <1>3, <1>4, <3>9, <3>10
    <2> QED BY <2>1, <2>2
  <1>9. p \in PricesOf(S) /\ n <= Cardinality(NotAbove(S, p)) BY <1>7
  <1>10. \E r \in PricesOf(S) : Cardinality(Cheaper(S, r)) < n /\ n <= Cardinality(NotAbove(S, r))
    BY <1>8, <1>9
  <1> QED BY <1>10 DEF Nth, Cheaper, NotAbove, PricesOf

LEMMA MedianType ==
    ASSUME NEW S, IsFiniteSet(S), S # {}, PricesOf(S) \subseteq Ratios
    PROVE  Median(S) \in Ratios
  <1> DEFINE size == Cardinality(S)
             middle == size \div 2
  <1>1. size \in Nat /\ size # 0 BY FS_CardinalityType, FS_EmptySet
  <1>2. middle \in Nat /\ (size % 2 = 1 => middle + 1 \in 1..size)
        /\ (size % 2 # 1 => middle \in 1..size /\ middle + 1 \in 1..size)
    BY <1>1
  <1>3. <<1, 2>> \in Ratios BY DEF Ratios
  <1>4. CASE size % 2 = 1
    <2>1. Median(S) = Nth(S, middle + 1) BY <1>4 DEF Median
    <2>2. Nth(S, middle + 1) \in PricesOf(S) BY <1>2, <1>4, NthIsThere
    <2> QED BY <2>1, <2>2
  <1>5. CASE size % 2 # 1
    <2>1. Median(S) = Times(Plus(Nth(S, middle), Nth(S, middle + 1)), <<1, 2>>)
      BY <1>5 DEF Median
    <2>2. Nth(S, middle) \in Ratios /\ Nth(S, middle + 1) \in Ratios
      BY <1>2, <1>5, NthIsThere
    <2> HIDE DEF middle
    <2>3. Plus(Nth(S, middle), Nth(S, middle + 1)) \in Ratios BY <2>2, RatioTypes
    <2> QED BY <1>3, <2>1, <2>3, RatioTypes
  <1> QED BY <1>4, <1>5
-----------------------------------------------------------------------------
(* Steps that are repeated: there is a function that records them, and it  *)
(* is the only one.                                                        *)
Repeats(f, n, a, step) == f[0] = a /\ \A k \in 1..n : f[k] = step[f[k - 1]]
RepeatsIn(S, f, n, a, step) ==
    f[0] = a /\ \A k \in 1..n : f[k - 1] \in S => f[k] = step[f[k - 1]]

LEMMA IterationExists ==
    ASSUME NEW n \in Nat, NEW S, NEW a \in S, NEW step \in [S -> S]
    PROVE  \E f \in [0..n -> S] : Repeats(f, n, a, step)
  <1> DEFINE Records(f, m) == f[0] = a /\ \A k \in 1..m : f[k] = step[f[k - 1]]
             Bad == {m \in Nat : ~\E f \in [0..m -> S] : Records(f, m)}
  <1> SUFFICES Bad = {}
    BY DEF Repeats
  <1> SUFFICES ASSUME Bad # {} PROVE FALSE
    OBVIOUS
  <1>1. PICK m \in Bad : \A l \in Bad : m <= l
    <2>1. Bad \subseteq Nat OBVIOUS
    <2> HIDE DEF Bad
    <2> QED BY <2>1, LeastNatural
  <1>2. m \in Nat /\ ~\E f \in [0..m -> S] : Records(f, m) BY <1>1
  <1>3. CASE m = 0
    <2> DEFINE f == [k \in 0..m |-> a]
    <2>1. f \in [0..m -> S] /\ Records(f, m) BY <1>3
    <2> QED BY <1>2, <2>1
  <1>4. CASE m # 0
    <2>1. m - 1 \in Nat /\ ~(m <= m - 1) BY <1>2, <1>4
    <2>2. m - 1 \notin Bad BY <1>1, <2>1
    <2>3. PICK f \in [0..(m - 1) -> S] : Records(f, m - 1) BY <2>1, <2>2
    <2> DEFINE g == [k \in 0..m |-> IF k = m THEN step[f[m - 1]] ELSE f[k]]
    <2>4. g \in [0..m -> S]
      <3>1. \A k \in 0..m : k # m => k \in 0..(m - 1) BY <1>2
      <3>2. step[f[m - 1]] \in S BY <2>1
      <3> QED BY <3>1, <3>2
    <2>5. Records(g, m)
      <3>1. g[0] = a BY <1>2, <1>4, <2>3
      <3>2. \A k \in 1..m : g[k] = step[g[k - 1]]
        <4>1. \A k \in 1..m : k # m => k \in 1..(m - 1) BY <1>2
        <4> QED BY <1>2, <2>3, <4>1
      <3> QED BY <3>1, <3>2
    <2> HIDE DEF g, Records
    <2> QED BY <1>2, <2>4, <2>5
  <1> QED BY <1>3, <1>4

LEMMA IterationUnique ==
    ASSUME NEW n \in Nat, NEW S, NEW a \in S, NEW step \in [S -> S],
           NEW f \in [0..n -> S], Repeats(f, n, a, step),
           NEW g, RepeatsIn(S, g, n, a, step)
    PROVE  \A k \in 0..n : g[k] = f[k]
  <1> DEFINE Bad == {k \in 0..n : g[k] # f[k]}
  <1> SUFFICES ASSUME Bad # {} PROVE FALSE
    OBVIOUS
  <1>1. PICK k \in Bad : \A l \in Bad : k <= l
    <2>1. Bad \subseteq Nat OBVIOUS
    <2> HIDE DEF Bad
    <2> QED BY <2>1, LeastNatural
  <1>2. k \in 0..n /\ g[k] # f[k] BY <1>1
  <1>3. k # 0 BY <1>2 DEF Repeats, RepeatsIn
  <1>4. k - 1 \in 0..n /\ k \in 1..n /\ ~(k <= k - 1) BY <1>2, <1>3
  <1>5. g[k - 1] = f[k - 1] BY <1>1, <1>4
  <1>6. f[k - 1] \in S BY <1>4
  <1> QED BY <1>2, <1>4, <1>5, <1>6 DEF Repeats, RepeatsIn

LEMMA UnitType ==
    ASSUME NEW decimals \in Nat
    PROVE  Unit(decimals) \in Nat \ {0}
  <1> DEFINE S == Nat \ {0}
             step == [x \in S |-> Base * x]
             Powers(f) == f = [n \in 0..decimals |-> IF n = 0 THEN 1 ELSE Base * f[n - 1]]
             power == CHOOSE f : Powers(f)
  <1>1. step \in [S -> S]
    <2>1. Base \in Nat \ {0} BY PricingAssumption
    <2>2. \A x \in S : Base * x \in S BY <2>1, Products
    <2> QED BY <2>2
  <1>2. 1 \in S OBVIOUS
  <1> HIDE DEF S
  <1>3. PICK f \in [0..decimals -> S] : Repeats(f, decimals, 1, step)
    <2> HIDE DEF step
    <2> QED BY <1>1, <1>2, IterationExists
  <1>4. Powers(f)
    <2>1. \A n \in 0..decimals : n # 0 => n \in 1..decimals /\ n - 1 \in 0..decimals
      OBVIOUS
    <2>2. \A n \in 0..decimals : f[n] = IF n = 0 THEN 1 ELSE Base * f[n - 1]
      BY <1>3, <2>1 DEF Repeats
    <2> QED BY <2>2
  <1>5. Powers(power) BY <1>4
  <1> HIDE DEF power
  <1>6. RepeatsIn(S, power, decimals, 1, step)
    <2>1. \A k \in 1..decimals : k \in 0..decimals /\ k # 0 OBVIOUS
    <2> QED BY <1>5, <2>1 DEF RepeatsIn
  <1>7. power[decimals] = f[decimals]
    <2>1. decimals \in 0..decimals OBVIOUS
    <2> HIDE DEF step
    <2> QED BY <1>1, <1>2, <1>3, <1>6, <2>1, IterationUnique
  <1>8. Unit(decimals) = power[decimals] BY DEF Unit, power
  <1>9. f[decimals] \in S OBVIOUS
  <1> QED BY <1>7, <1>8, <1>9 DEF S

LEMMA AmountType ==
    ASSUME NEW raw \in Nat, NEW decimals \in Nat
    PROVE  /\ Amount(raw, decimals) \in Ratios
           /\ raw > 0 => Amount(raw, decimals) \in Positive
  <1>1. Unit(decimals) \in Nat \ {0} BY UnitType
  <1> QED BY <1>1, LowestTerms DEF Amount
-----------------------------------------------------------------------------
(* The samples of a round are finitely many, and their prices are ratios.  *)
Row == [named : BOOLEAN, decimals : Nat, stable : BOOLEAN]
PriceMaps == [Tokens -> Ratios \cup {None}]
IsMetadata(known) == DOMAIN known \subseteq Tokens /\ known \in [DOMAIN known -> Row]
Priceable(e, known) ==
    /\ e.tokenA \in DOMAIN known \cup {None} /\ e.tokenB \in DOMAIN known \cup {None}
    /\ e.amountA \in Nat /\ e.amountB \in Nat
AmountOf == [place : {1, 2}, token : Tokens, amount : Positive]
Sample == [event : Nat, place : {1, 2}, price : Ratios]

LEMMA AmountsTyped ==
    ASSUME NEW known, IsMetadata(known), NEW e, Priceable(e, known)
    PROVE  /\ TokenAmounts(e, known) \subseteq AmountOf
           /\ \A x \in TokenAmounts(e, known) : x.token \in DOMAIN known
           /\ IsFiniteSet(TokenAmounts(e, known))
  <1> DEFINE sides == {[place |-> 1, token |-> e.tokenA, raw |-> e.amountA],
                       [place |-> 2, token |-> e.tokenB, raw |-> e.amountB]}
             taken == {x \in sides : x.token # None /\ x.raw > 0}
             said == [s \in taken |->
                        [place |-> s.place, token |-> s.token,
                         amount |-> Amount(s.raw, known[s.token].decimals)]]
  <1>1. TokenAmounts(e, known) = Range(said) BY DEF TokenAmounts, Range
  <1>2. IsFiniteSet(taken)
    <2>1. IsFiniteSet(sides)
      <3>1. ASSUME NEW a, NEW b PROVE IsFiniteSet({a, b})
        <4>1. IsFiniteSet({a} \cup {b}) BY FS_Singleton, FS_Union
        <4>2. {a, b} = {a} \cup {b} OBVIOUS
        <4> QED BY <4>1, <4>2
      <3> QED BY <3>1
    <2>2. taken \subseteq sides OBVIOUS
    <2> HIDE DEF taken, sides
    <2> QED BY <2>1, <2>2, FS_Subset
  <1>3. ASSUME NEW s \in taken
        PROVE  said[s] \in AmountOf /\ said[s].token \in DOMAIN known
    <2>1. s.place \in {1, 2} /\ s.token \in DOMAIN known /\ s.raw \in Nat /\ s.raw > 0
      BY DEF Priceable
    <2>2. known[s.token].decimals \in Nat /\ s.token \in Tokens
      BY <2>1 DEF IsMetadata, Row
    <2>3. Amount(s.raw, known[s.token].decimals) \in Positive BY <2>1, <2>2, AmountType
    <2> QED BY <2>1, <2>2, <2>3 DEF AmountOf
  <1>4. IsFiniteSet(Range(said))
    <2>1. said \in [taken -> AmountOf] BY <1>3
    <2> HIDE DEF said, taken
    <2> QED BY <1>2, <2>1, FiniteImage
  <1>5. \A x \in Range(said) : \E s \in taken : x = said[s] BY DEF Range
  <1> HIDE DEF said, taken
  <1> QED BY <1>1, <1>3, <1>4, <1>5

LEMMA ValuesTyped ==
    ASSUME NEW known, IsMetadata(known), NEW prices1 \in PriceMaps,
           NEW amounts \in SUBSET AmountOf, IsFiniteSet(amounts),
           \A x \in amounts : x.token \in DOMAIN known
    PROVE  /\ Values(amounts, known, prices1) \subseteq Ratios
           /\ IsFiniteSet(Values(amounts, known, prices1))
  <1> DEFINE priced == {x \in amounts : Stable(x.token, known) \/ prices1[x.token] # None}
             value == [s \in priced |-> IF Stable(s.token, known) THEN s.amount
                                        ELSE Times(s.amount, prices1[s.token])]
  <1>1. Values(amounts, known, prices1) = Range(value) BY DEF Values, Range
  <1>2. IsFiniteSet(priced)
    <2>1. priced \subseteq amounts OBVIOUS
    <2> HIDE DEF priced
    <2> QED BY <2>1, FS_Subset
  <1>3. ASSUME NEW s \in priced PROVE value[s] \in Ratios
    <2>1. s.amount \in Ratios /\ s.token \in Tokens BY DEF AmountOf, Positive, Ratios
    <2>2. ~Stable(s.token, known) => prices1[s.token] \in Ratios
      BY <2>1 DEF PriceMaps
    <2>3. ~Stable(s.token, known) => Times(s.amount, prices1[s.token]) \in Ratios
      BY <2>1, <2>2, RatioTypes
    <2> QED BY <2>1, <2>3
  <1>4. value \in [priced -> Ratios] BY <1>3
  <1> HIDE DEF value, priced
  <1>5. IsFiniteSet(Range(value)) BY <1>2, <1>4, FiniteImage
  <1>6. Range(value) \subseteq Ratios BY <1>4 DEF Range
  <1> QED BY <1>1, <1>5, <1>6

LEMMA ImpliedTyped ==
    ASSUME NEW known, IsMetadata(known), NEW prices1 \in PriceMaps, NEW list, NEW t,
           NEW i \in Nat, Priceable(list[i], known)
    PROVE  /\ Implied(t, i, list, known, prices1) \subseteq Sample
           /\ IsFiniteSet(Implied(t, i, list, known, prices1))
  <1> DEFINE amounts == TokenAmounts(list[i], known)
             values == Values(amounts, known, prices1)
             mine == {x \in amounts : x.token = t}
             price == [s \in mine |-> [event |-> i, place |-> s.place,
                                       price |-> Over(Largest(values), s.amount)]]
  <1>1. /\ amounts \in SUBSET AmountOf /\ IsFiniteSet(amounts)
        /\ \A x \in amounts : x.token \in DOMAIN known
    BY AmountsTyped
  <1>2. values \in SUBSET Ratios /\ IsFiniteSet(values)
    <2> HIDE DEF amounts
    <2> QED BY <1>1, ValuesTyped
  <1>3. CASE values = {}
    <2>1. Implied(t, i, list, known, prices1) = {} BY <1>3 DEF Implied
    <2> QED BY <2>1, FS_EmptySet
  <1>4. CASE values # {}
    <2>1. Implied(t, i, list, known, prices1) \subseteq Range(price)
      BY <1>4 DEF Implied, Range
    <2>2. Largest(values) \in Ratios
      <3> HIDE DEF values
      <3> QED BY <1>2, <1>4, LargestIsThere
    <2>3. price \in [mine -> Sample]
      <3> SUFFICES ASSUME NEW s \in mine PROVE price[s] \in Sample
        OBVIOUS
      <3>1. s \in AmountOf BY <1>1
      <3>2. s.place \in {1, 2} /\ s.amount \in Positive /\ s.amount \in Ratios
        BY <3>1 DEF AmountOf, Positive, Ratios
      <3> HIDE DEF values, mine
      <3>3. Over(Largest(values), s.amount) \in Ratios BY <2>2, <3>2, RatioTypes
      <3> QED BY <3>2, <3>3 DEF Sample
    <2>4. IsFiniteSet(mine)
      <3>1. mine \subseteq amounts OBVIOUS
      <3> HIDE DEF mine, amounts
      <3> QED BY <1>1, <3>1, FS_Subset
    <2> HIDE DEF price, mine
    <2>5. IsFiniteSet(Range(price)) BY <2>3, <2>4, FiniteImage
    <2>6. Range(price) \subseteq Sample BY <2>3 DEF Range
    <2> QED BY <2>1, <2>5, <2>6, FS_Subset
  <1> QED BY <1>3, <1>4

LEMMA SamplesTyped ==
    ASSUME NEW known, IsMetadata(known), NEW prices1 \in PriceMaps, NEW t, NEW list,
           DOMAIN list \subseteq Nat, IsFiniteSet(DOMAIN list),
           \A i \in DOMAIN list : Priceable(list[i], known)
    PROVE  /\ Samples(t, list, known, prices1) \subseteq Sample
           /\ IsFiniteSet(Samples(t, list, known, prices1))
           /\ PricesOf(Samples(t, list, known, prices1)) \subseteq Ratios
  <1> DEFINE implied == [i \in DOMAIN list |-> Implied(t, i, list, known, prices1)]
  <1>1. \A i \in DOMAIN list : implied[i] \subseteq Sample /\ IsFiniteSet(implied[i])
    BY ImpliedTyped
  <1>2. Samples(t, list, known, prices1) = UNION Range(implied) BY DEF Samples, Range
  <1>3. implied \in [DOMAIN list -> Range(implied)] BY DEF Range
  <1> HIDE DEF implied
  <1>4. IsFiniteSet(Range(implied)) BY <1>3, FiniteImage
  <1>5. \A s \in Range(implied) : s \subseteq Sample /\ IsFiniteSet(s) BY <1>1, <1>3 DEF Range
  <1>6. IsFiniteSet(UNION Range(implied)) BY <1>4, <1>5, FS_UNION
  <1>7. UNION Range(implied) \subseteq Sample BY <1>5
  <1> QED BY <1>2, <1>6, <1>7 DEF PricesOf, Sample

LEMMA RoundTyped ==
    ASSUME NEW known, IsMetadata(known), NEW prices1 \in PriceMaps, NEW list,
           DOMAIN list \subseteq Nat, IsFiniteSet(DOMAIN list),
           \A i \in DOMAIN list : Priceable(list[i], known)
    PROVE  PriceRound(list, known, prices1) \in PriceMaps
  <1> SUFFICES ASSUME NEW t \in Tokens
               PROVE  PriceRound(list, known, prices1)[t] \in Ratios \cup {None}
    BY DEF PriceRound, PriceMaps
  <1>1. prices1[t] \in Ratios \cup {None} BY DEF PriceMaps
  <1> DEFINE samples == Samples(t, list, known, prices1)
  <1>2. samples # {} => Median(samples) \in Ratios
    <2>1. IsFiniteSet(samples) /\ PricesOf(samples) \subseteq Ratios BY SamplesTyped
    <2> HIDE DEF samples
    <2> QED BY <2>1, MedianType
  <1>3. PriceRound(list, known, prices1)[t] =
          IF prices1[t] # None \/ t \notin DOMAIN known THEN prices1[t]
          ELSE IF Stable(t, known) THEN None
          ELSE IF samples = {} THEN None ELSE Median(samples)
    BY DEF PriceRound
  <1> HIDE DEF samples
  <1> QED BY <1>1, <1>2, <1>3
-----------------------------------------------------------------------------
(* The prices that are inferred are those of the last of the rounds.       *)
IsPriced(list, known) ==
    /\ IsMetadata(known)
    /\ DOMAIN list \subseteq Nat /\ IsFiniteSet(DOMAIN list)
    /\ \A i \in DOMAIN list : Priceable(list[i], known)
RoundsOf(list, known, p) ==
    p[0] = NoPrices /\ \A k \in 1..MaxRounds : p[k] = PriceRound(list, known, p[k - 1])

LEMMA NoPricesType == NoPrices \in PriceMaps
  BY DEF NoPrices, PriceMaps

LEMMA InferPricesRounds ==
    ASSUME NEW list, NEW known, IsPriced(list, known)
    PROVE  \E p \in [0..MaxRounds -> PriceMaps] :
             RoundsOf(list, known, p) /\ InferPrices(list, known) = p[MaxRounds]
  <1> DEFINE step == [q \in PriceMaps |-> PriceRound(list, known, q)]
             Inferred(f) == f = [k \in 0..MaxRounds |->
                                   IF k = 0 THEN NoPrices ELSE PriceRound(list, known, f[k - 1])]
             inferred == CHOOSE f : Inferred(f)
  <1>1. MaxRounds \in Nat BY PricingAssumption
  <1>2. step \in [PriceMaps -> PriceMaps]
    <2>1. \A q \in PriceMaps : PriceRound(list, known, q) \in PriceMaps
      BY RoundTyped DEF IsPriced
    <2> QED BY <2>1
  <1>3. PICK p \in [0..MaxRounds -> PriceMaps] : Repeats(p, MaxRounds, NoPrices, step)
    <2> HIDE DEF step
    <2> QED BY <1>1, <1>2, NoPricesType, IterationExists
  <1>4. RoundsOf(list, known, p)
    <2>1. \A k \in 1..MaxRounds : k - 1 \in 0..MaxRounds BY <1>1
    <2>2. \A k \in 1..MaxRounds : p[k - 1] \in PriceMaps BY <2>1
    <2> QED BY <1>3, <2>2 DEF Repeats, RoundsOf
  <1>5. Inferred(p)
    <2>1. \A k \in 0..MaxRounds : k # 0 => k \in 1..MaxRounds BY <1>1
    <2>2. \A k \in 0..MaxRounds : p[k] = IF k = 0 THEN NoPrices
                                         ELSE PriceRound(list, known, p[k - 1])
      BY <1>4, <2>1 DEF RoundsOf
    <2> QED BY <2>2
  <1>6. Inferred(inferred) BY <1>5
  <1> HIDE DEF inferred
  <1>7. RepeatsIn(PriceMaps, inferred, MaxRounds, NoPrices, step)
    <2>1. \A k \in 1..MaxRounds : k \in 0..MaxRounds /\ k # 0 BY <1>1
    <2>2. 0 \in 0..MaxRounds BY <1>1
    <2>3. /\ inferred[0] = NoPrices
          /\ \A k \in 1..MaxRounds : inferred[k] = PriceRound(list, known, inferred[k - 1])
      BY <1>6, <2>1, <2>2
    <2> QED BY <2>3 DEF RepeatsIn
  <1>8. inferred[MaxRounds] = p[MaxRounds]
    <2>1. MaxRounds \in 0..MaxRounds BY <1>1
    <2> HIDE DEF step
    <2> QED BY <1>1, <1>2, <1>3, <1>7, <2>1, NoPricesType, IterationUnique
  <1>9. InferPrices(list, known) = inferred[MaxRounds] BY DEF InferPrices, inferred
  <1> QED BY <1>4, <1>8, <1>9

LEMMA InferPricesType ==
    ASSUME NEW list, NEW known, IsPriced(list, known)
    PROVE  InferPrices(list, known) \in PriceMaps
  <1>1. PICK p \in [0..MaxRounds -> PriceMaps] : InferPrices(list, known) = p[MaxRounds]
    BY InferPricesRounds
  <1>2. MaxRounds \in 0..MaxRounds BY PricingAssumption
  <1> QED BY <1>1, <1>2

(* Lists and metadata that price alike in every round price alike.         *)
LEMMA SameRounds ==
    ASSUME NEW list, NEW list2, NEW known, NEW known2,
           IsPriced(list, known), IsPriced(list2, known2),
           \A q \in PriceMaps : PriceRound(list, known, q) = PriceRound(list2, known2, q)
    PROVE  InferPrices(list, known) = InferPrices(list2, known2)
  <1>1. PICK p \in [0..MaxRounds -> PriceMaps] :
          RoundsOf(list, known, p) /\ InferPrices(list, known) = p[MaxRounds]
    BY InferPricesRounds
  <1>2. PICK r \in [0..MaxRounds -> PriceMaps] :
          RoundsOf(list2, known2, r) /\ InferPrices(list2, known2) = r[MaxRounds]
    BY InferPricesRounds
  <1>3. MaxRounds \in Nat BY PricingAssumption
  <1> DEFINE Bad == {k \in 0..MaxRounds : p[k] # r[k]}
  <1>4. Bad = {}
    <2> SUFFICES ASSUME Bad # {} PROVE FALSE
      OBVIOUS
    <2>1. PICK k \in Bad : \A l \in Bad : k <= l
      <3>1. Bad \subseteq Nat BY <1>3
      <3> HIDE DEF Bad
      <3> QED BY <3>1, LeastNatural
    <2>2. k \in 0..MaxRounds /\ p[k] # r[k] BY <2>1
    <2>3. k # 0 BY <1>1, <1>2, <2>2 DEF RoundsOf
    <2>4. k - 1 \in 0..MaxRounds /\ k \in 1..MaxRounds /\ ~(k <= k - 1) BY <1>3, <2>2, <2>3
    <2>5. p[k - 1] = r[k - 1] BY <2>1, <2>4
    <2>6. p[k - 1] \in PriceMaps BY <2>4
    <2>7. /\ p[k] = PriceRound(list, known, p[k - 1])
          /\ r[k] = PriceRound(list2, known2, r[k - 1])
      BY <1>1, <1>2, <2>4 DEF RoundsOf
    <2> QED BY <2>2, <2>5, <2>6, <2>7
  <1>5. MaxRounds \in 0..MaxRounds BY <1>3
  <1> QED BY <1>1, <1>2, <1>4, <1>5
-----------------------------------------------------------------------------
(* The median does not tell samples apart that have the same prices, nor   *)
(* the prices lists that have the same events.                             *)
SamePrices(m, S, T) == m \in Bijection(S, T) /\ \A s \in S : m[s].price = s.price

LEMMA SameCount ==
    ASSUME NEW S, NEW T, IsFiniteSet(S), NEW m, SamePrices(m, S, T), NEW X
    PROVE  Cardinality({s \in T : s.price \in X}) = Cardinality({s \in S : s.price \in X})
  <1> DEFINE A == {s \in S : s.price \in X}
             B == {s \in T : s.price \in X}
             f == [s \in A |-> m[s]]
  <1>1. m \in [S -> T] /\ \A s \in S : m[s].price = s.price
    BY DEF SamePrices, Bijection, Injection
  <1>2. \A s, r \in S : m[s] = m[r] => s = r BY DEF SamePrices, Bijection, Injection, IsInjective
  <1>3. \A r \in T : \E s \in S : m[s] = r BY DEF SamePrices, Bijection, Surjection
  <1>4. f \in [A -> B]
    <2>1. \A s \in A : m[s] \in B BY <1>1
    <2> QED BY <2>1
  <1>5. \A s, r \in A : f[s] = f[r] => s = r BY <1>2
  <1>6. Range(f) = B
    <2>1. Range(f) \subseteq B BY <1>4 DEF Range
    <2>2. ASSUME NEW r \in B PROVE r \in Range(f)
      <3>1. PICK s \in S : m[s] = r BY <1>3
      <3>2. s \in A BY <1>1, <3>1
      <3>3. f[s] = r BY <3>1, <3>2
      <3> HIDE DEF f, A
      <3> QED BY <1>4, <3>2, <3>3 DEF Range
    <2> QED BY <2>1, <2>2
  <1>7. IsFiniteSet(A)
    <2>1. A \subseteq S OBVIOUS
    <2> HIDE DEF A
    <2> QED BY <2>1, FS_Subset
  <1> HIDE DEF f, A, B
  <1>8. Cardinality(Range(f)) = Cardinality(A) BY <1>4, <1>5, <1>7, InjectiveImage
  <1>9. Cardinality(B) = Cardinality(A) BY <1>6, <1>8
  <1> QED BY <1>9 DEF A, B

LEMMA SameMedian ==
    ASSUME NEW S, NEW T, IsFiniteSet(S), NEW m, SamePrices(m, S, T)
    PROVE  Median(T) = Median(S)
  <1>1. PricesOf(T) = PricesOf(S)
    <2>1. \A s \in S : m[s] \in T /\ m[s].price = s.price
      BY DEF SamePrices, Bijection, Injection
    <2>2. \A r \in T : \E s \in S : m[s] = r BY DEF SamePrices, Bijection, Surjection
    <2> QED BY <2>1, <2>2 DEF PricesOf
  <1>2. \A p : /\ Cardinality(Cheaper(T, p)) = Cardinality(Cheaper(S, p))
               /\ Cardinality(NotAbove(T, p)) = Cardinality(NotAbove(S, p))
    <2> TAKE p
    <2> DEFINE low == {x \in PricesOf(S) : ~AtMost(p, x)}
               high == {x \in PricesOf(S) : AtMost(x, p)}
    <2>1. /\ Cheaper(T, p) = {s \in T : s.price \in low}
          /\ Cheaper(S, p) = {s \in S : s.price \in low}
          /\ NotAbove(T, p) = {s \in T : s.price \in high}
          /\ NotAbove(S, p) = {s \in S : s.price \in high}
      <3>1. \A s \in T : s.price \in PricesOf(S) BY <1>1, Zenon DEF PricesOf
      <3>2. \A s \in S : s.price \in PricesOf(S) BY DEF PricesOf
      <3> QED BY <3>1, <3>2 DEF Cheaper, NotAbove
    <2> HIDE DEF low, high
    <2>2. \A X : Cardinality({s \in T : s.price \in X}) = Cardinality({s \in S : s.price \in X})
      BY SameCount, ZenonT(60)
    <2> QED BY <2>1, <2>2, Zenon
  <1>3. Cardinality(T) = Cardinality(S)
    <2>1. {s \in T : s.price \in PricesOf(T)} = T /\ {s \in S : s.price \in PricesOf(S)} = S
      BY DEF PricesOf
    <2> QED BY <1>1, <2>1, SameCount
  <1>4. \A n : Nth(T, n) = Nth(S, n)
    <2> TAKE n
    <2> DEFINE Is(U, p) == Cardinality(Cheaper(U, p)) < n /\ n <= Cardinality(NotAbove(U, p))
    <2>1. /\ Nth(T, n) = CHOOSE p \in PricesOf(T) : Is(T, p)
          /\ Nth(S, n) = CHOOSE p \in PricesOf(S) : Is(S, p)
      BY DEF Nth, Cheaper, NotAbove, PricesOf
    <2>2. \A p : Is(T, p) <=> Is(S, p) BY <1>2
    <2> HIDE DEF Is
    <2> QED BY <1>1, <2>1, <2>2
  <1> QED BY <1>3, <1>4, Zenon DEF Median

(* What an event says does not depend on its place among the events.       *)
MovedTo(x, i) == [event |-> i, place |-> x.place, price |-> x.price]

LEMMA ImpliedMoved ==
    ASSUME NEW t, NEW i, NEW j, NEW list, NEW list2, list2[j] = list[i], NEW known, NEW prices1
    PROVE  /\ Implied(t, j, list2, known, prices1)
                = {MovedTo(x, j) : x \in Implied(t, i, list, known, prices1)}
           /\ \A x \in Implied(t, i, list, known, prices1) : x = MovedTo(x, i)
  <1> DEFINE amounts == TokenAmounts(list[i], known)
             values == Values(amounts, known, prices1)
             mine == {x \in amounts : x.token = t}
             says(s, k) == [event |-> k, place |-> s.place, price |-> Over(Largest(values), s.amount)]
             fits(x) == AtMost(x.price, <<MaxPrice, 1>>)
             here == Implied(t, i, list, known, prices1)
             there == Implied(t, j, list2, known, prices1)
  <1>1. here = IF values = {} THEN {} ELSE {x \in {says(s, i) : s \in mine} : fits(x)}
    BY DEF Implied
  <1>2. there = IF values = {} THEN {} ELSE {x \in {says(s, j) : s \in mine} : fits(x)}
    BY DEF Implied
  <1>3. \A s : /\ MovedTo(says(s, i), j) = says(s, j) /\ MovedTo(says(s, i), i) = says(s, i)
               /\ fits(says(s, i)) <=> fits(says(s, j))
    BY DEF MovedTo
  <1> HIDE DEF here, there, says, fits, mine, values
  <1>4. CASE values = {}
    BY <1>1, <1>2, <1>4 DEF here, there
  <1>5. CASE values # {}
    <2>1. \A x : x \in here <=> \E s \in mine : x = says(s, i) /\ fits(x) BY <1>1, <1>5
    <2>2. \A x : x \in there <=> \E s \in mine : x = says(s, j) /\ fits(x) BY <1>2, <1>5
    <2>3. \A x \in here : MovedTo(x, j) \in there /\ x = MovedTo(x, i)
      BY <1>3, <2>1, <2>2
    <2>4. \A y \in there : \E x \in here : y = MovedTo(x, j)
      BY <1>3, <2>1, <2>2
    <2> QED BY <2>3, <2>4 DEF here, there
  <1> QED BY <1>4, <1>5

(* The second list holds the events of the first at other places.          *)
Rearranges(m, list, list2) ==
    /\ m \in Bijection(DOMAIN list, DOMAIN list2)
    /\ \A i \in DOMAIN list : list2[m[i]] = list[i]

LEMMA SamplesMoved ==
    ASSUME NEW t, NEW list, NEW list2, NEW known, NEW prices1,
           NEW m, Rearranges(m, list, list2)
    PROVE  \E f : SamePrices(f, Samples(t, list, known, prices1), Samples(t, list2, known, prices1))
  <1> DEFINE S == Samples(t, list, known, prices1)
             T == Samples(t, list2, known, prices1)
             D == DOMAIN list
             said == [i \in D |-> Implied(t, i, list, known, prices1)]
             f == [x \in S |-> MovedTo(x, m[x.event])]
  <1>1. /\ m \in [D -> DOMAIN list2] /\ \A i \in D : list2[m[i]] = list[i]
        /\ \A i, j \in D : m[i] = m[j] => i = j
        /\ \A k \in DOMAIN list2 : \E i \in D : m[i] = k
    BY DEF Rearranges, Bijection, Injection, IsInjective, Surjection
  <1>2. \A i \in D : /\ Implied(t, m[i], list2, known, prices1) = {MovedTo(x, m[i]) : x \in said[i]}
                     /\ \A x \in said[i] : x = MovedTo(x, i)
    BY <1>1, ImpliedMoved
  <1>3. \A x : x \in S <=> \E i \in D : x \in said[i] BY DEF Samples
  <1>4. \A y : y \in T <=> \E i \in D : y \in {MovedTo(x, m[i]) : x \in said[i]}
    <2>1. \A y : y \in T <=> \E k \in DOMAIN list2 : y \in Implied(t, k, list2, known, prices1)
      BY DEF Samples
    <2> HIDE DEF T, said, D
    <2> QED BY <1>1, <1>2, <2>1
  <1>5. \A x, i : /\ MovedTo(x, i).event = i /\ MovedTo(x, i).price = x.price
                  /\ MovedTo(x, i).place = x.place
    BY DEF MovedTo
  <1>6. \A i \in D : \A x \in said[i] : x.event = i BY <1>2, <1>5
  <1> HIDE DEF S, T, D, said
  <1>7. \A x \in S : x.event \in D /\ x \in said[x.event] /\ x = MovedTo(x, x.event)
    BY <1>2, <1>3, <1>6
  <1>8. \A x \in S : MovedTo(x, m[x.event]) \in T BY <1>4, <1>7
  <1>9. f \in [S -> T] /\ \A x \in S : f[x] = MovedTo(x, m[x.event]) BY <1>8
  <1> HIDE DEF f
  <1>10. ASSUME NEW x \in S, NEW y \in S, f[x] = f[y] PROVE x = y
    <2>1. m[x.event] = m[y.event] /\ x.place = y.place /\ x.price = y.price
      BY <1>5, <1>9, <1>10
    <2>2. x.event = y.event BY <1>1, <1>7, <2>1
    <2>3. MovedTo(x, x.event) = MovedTo(y, y.event) BY <2>1, <2>2 DEF MovedTo
    <2> QED BY <1>7, <2>3
  <1>11. ASSUME NEW y \in T PROVE \E x \in S : f[x] = y
    <2>1. PICK i \in D : \E x \in said[i] : y = MovedTo(x, m[i]) BY <1>4
    <2>2. PICK x \in said[i] : y = MovedTo(x, m[i]) BY <2>1
    <2> QED BY <1>3, <1>6, <1>9, <2>2
  <1>12. f \in Bijection(S, T)
    BY <1>9, <1>10, <1>11 DEF Bijection, Injection, IsInjective, Surjection
  <1>13. \A x \in S : f[x].price = x.price BY <1>5, <1>9
  <1>14. SamePrices(f, S, T) BY <1>12, <1>13 DEF SamePrices
  <1> QED BY <1>14 DEF S, T

LEMMA PricesOfARearrangement ==
    ASSUME NEW list, NEW list2, NEW known, IsPriced(list, known), IsPriced(list2, known),
           NEW m, Rearranges(m, list, list2)
    PROVE  InferPrices(list2, known) = InferPrices(list, known)
  <1>1. ASSUME NEW q \in PriceMaps
        PROVE  PriceRound(list, known, q) = PriceRound(list2, known, q)
    <2> DEFINE S(t) == Samples(t, list, known, q)
               T(t) == Samples(t, list2, known, q)
    <2>1. ASSUME NEW t PROVE (S(t) = {} <=> T(t) = {}) /\ Median(S(t)) = Median(T(t))
      <3>1. PICK f : SamePrices(f, S(t), T(t)) BY SamplesMoved
      <3>2. IsFiniteSet(S(t)) BY SamplesTyped DEF IsPriced
      <3> HIDE DEF S, T
      <3>3. Median(S(t)) = Median(T(t)) BY <3>1, <3>2, SameMedian
      <3>4. S(t) = {} <=> T(t) = {}
        BY <3>1 DEF SamePrices, Bijection, Injection, Surjection
      <3> QED BY <3>3, <3>4
    <2>2. /\ PriceRound(list, known, q) = [t \in Tokens |->
                IF q[t] # None \/ t \notin DOMAIN known THEN q[t]
                ELSE IF Stable(t, known) THEN None
                ELSE IF S(t) = {} THEN None ELSE Median(S(t))]
          /\ PriceRound(list2, known, q) = [t \in Tokens |->
                IF q[t] # None \/ t \notin DOMAIN known THEN q[t]
                ELSE IF Stable(t, known) THEN None
                ELSE IF T(t) = {} THEN None ELSE Median(T(t))]
      BY DEF PriceRound
    <2> HIDE DEF S, T
    <2> QED BY <2>1, <2>2
  <1> QED BY <1>1, SameRounds

LEMMA PricesOfTheReverse ==
    ASSUME NEW E, NEW list \in Seq(E), NEW known, IsPriced(list, known)
    PROVE  InferPrices(Reverse(list), known) = InferPrices(list, known)
  <1> DEFINE n == Len(list)
             m == [i \in 1..n |-> (n - i) + 1]
  <1>1. n \in Nat /\ DOMAIN list = 1..n BY LenProperties
  <1>2. /\ DOMAIN Reverse(list) = 1..n
        /\ \A i \in 1..n : Reverse(list)[i] = list[(n - i) + 1]
    BY <1>1 DEF Reverse
  <1>3. \A i \in 1..n : (n - i) + 1 \in 1..n /\ (n - ((n - i) + 1)) + 1 = i BY <1>1
  <1>4. m \in Bijection(1..n, 1..n)
    <2>1. m \in [1..n -> 1..n] BY <1>3
    <2>2. \A i, j \in 1..n : m[i] = m[j] => i = j BY <1>3
    <2>3. \A k \in 1..n : m[m[k]] = k BY <1>3
    <2> HIDE DEF m, n
    <2> QED BY <2>1, <2>2, <2>3 DEF Bijection, Injection, IsInjective, Surjection
  <1>5. \A i \in 1..n : Reverse(list)[m[i]] = list[i] BY <1>2, <1>3
  <1>6. Rearranges(m, list, Reverse(list))
    <2> HIDE DEF m, n
    <2> QED BY <1>1, <1>2, <1>4, <1>5 DEF Rearranges
  <1>7. IsPriced(Reverse(list), known)
    BY <1>1, <1>2, <1>3 DEF IsPriced
  <1> HIDE DEF m
  <1> QED BY <1>6, <1>7, PricesOfARearrangement
-----------------------------------------------------------------------------
(* Where a price comes from: an event that says something of a token holds *)
(* it and another token that has a price already, or is a stablecoin.      *)
Swapped(e, s, t) == {s, t} = {e.tokenA, e.tokenB} /\ e.amountA > 0 /\ e.amountB > 0

LEMMA SampleNeedsAPrice ==
    ASSUME NEW known, NEW prices1, NEW list, NEW i, NEW t, NEW x,
           x \in Implied(t, i, list, known, prices1)
    PROVE  \E s : /\ Stable(s, known) \/ prices1[s] # None
                  /\ s \in {list[i].tokenA, list[i].tokenB} /\ s # None
                  /\ s = t \/ Swapped(list[i], s, t)
  <1> DEFINE e == list[i]
             amounts == TokenAmounts(e, known)
             values == Values(amounts, known, prices1)
  <1>1. values # {} /\ \E y \in amounts : y.token = t
    <2>1. values # {} BY DEF Implied
    <2>2. x \in {[event |-> i, place |-> s.place, price |-> Over(Largest(values), s.amount)] :
                   s \in {y \in amounts : y.token = t}}
      BY <2>1 DEF Implied
    <2> HIDE DEF amounts, values
    <2> QED BY <2>1, <2>2
  <1>2. PICK z \in amounts : Stable(z.token, known) \/ prices1[z.token] # None
    <2> HIDE DEF amounts
    <2> QED BY <1>1 DEF Values
  <1>3. PICK y \in amounts : y.token = t BY <1>1
  <1>4. \A a \in amounts :
          /\ a.token # None
          /\ \/ a.place = 1 /\ a.token = e.tokenA /\ e.amountA > 0
             \/ a.place = 2 /\ a.token = e.tokenB /\ e.amountB > 0
    BY DEF TokenAmounts
  <1> HIDE DEF amounts, values
  <1>5. z.token = t \/ Swapped(e, z.token, t)
    <2>1. CASE z.place = y.place BY <1>3, <1>4, <2>1
    <2>2. CASE z.place # y.place BY <1>3, <1>4, <2>2 DEF Swapped
    <2> QED BY <2>1, <2>2
  <1>6. z.token \in {e.tokenA, e.tokenB} /\ z.token # None BY <1>4
  <1> QED BY <1>2, <1>5, <1>6

(* The tokens a chain of so many swaps leads to, as Anchored counts them.  *)
Reached(list, known, within) ==
    /\ within[0] = {t \in DOMAIN known : Stable(t, known)}
    /\ \A k \in 1..MaxRounds :
         within[k] = within[k - 1] \cup
           {t \in DOMAIN known : \E e \in Range(list), s \in within[k - 1] : Swapped(e, s, t)}

LEMMA AnchoredReached ==
    \E w \in [0..MaxRounds -> SUBSET DOMAIN metadata] :
       Reached(events, metadata, w) /\ Anchored = w[MaxRounds]
  <1> DEFINE D == DOMAIN metadata
             stable == {t \in D : Stable(t, metadata)}
             next(W) == W \cup {t \in D : \E e \in Range(events), s \in W : Swapped(e, s, t)}
             step == [W \in SUBSET D |-> next(W)]
             Within(f) == f = [k \in 0..MaxRounds |-> IF k = 0 THEN stable ELSE next(f[k - 1])]
             within == CHOOSE f : Within(f)
  <1>1. MaxRounds \in Nat BY PricingAssumption
  <1>2. step \in [SUBSET D -> SUBSET D] /\ stable \in SUBSET D OBVIOUS
  <1>3. \A W \in SUBSET D : step[W] = next(W) OBVIOUS
  <1>4. Anchored = within[MaxRounds] BY DEF Anchored, Swapped
  <1> HIDE DEF D, stable, step, next
  <1>5. PICK w \in [0..MaxRounds -> SUBSET D] : Repeats(w, MaxRounds, stable, step)
    BY <1>1, <1>2, IterationExists
  <1>6. \A k \in 1..MaxRounds : k \in 0..MaxRounds /\ k # 0 /\ k - 1 \in 0..MaxRounds
    BY <1>1
  <1>7. w[0] = stable /\ \A k \in 1..MaxRounds : w[k] = next(w[k - 1])
    BY <1>3, <1>5, <1>6 DEF Repeats
  <1>8. Within(w)
    <2>1. \A k \in 0..MaxRounds : k = 0 \/ k \in 1..MaxRounds BY <1>1
    <2>2. \A k \in 0..MaxRounds : w[k] = IF k = 0 THEN stable ELSE next(w[k - 1])
      BY <1>6, <1>7, <2>1
    <2> QED BY <2>2
  <1>9. Within(within) BY <1>8
  <1>10. Reached(events, metadata, w)
    BY <1>7 DEF Reached, stable, next, D
  <1> HIDE DEF within
  <1>11. RepeatsIn(SUBSET D, within, MaxRounds, stable, step)
    <2>1. within[0] = stable /\ \A k \in 1..MaxRounds : within[k] = next(within[k - 1])
      <3>1. 0 \in 0..MaxRounds BY <1>1
      <3> QED BY <1>6, <1>9, <3>1
    <2> QED BY <1>3, <2>1 DEF RepeatsIn
  <1>12. within[MaxRounds] = w[MaxRounds]
    <2> DEFINE sets == SUBSET D
    <2>1. MaxRounds \in 0..MaxRounds BY <1>1
    <2>2. /\ step \in [sets -> sets] /\ stable \in sets
          /\ w \in [0..MaxRounds -> sets] /\ RepeatsIn(sets, within, MaxRounds, stable, step)
      BY <1>2, <1>5, <1>11
    <2> HIDE DEF sets
    <2> QED BY <1>1, <1>5, <2>1, <2>2, IterationUnique
  <1> QED BY <1>4, <1>10, <1>12 DEF D

LEMMA PricesReachNoFurther ==
    ASSUME IsPriced(events, metadata)
    PROVE  \A t \in Tokens : InferPrices(events, metadata)[t] # None => t \in Anchored
  <1>1. PICK p \in [0..MaxRounds -> PriceMaps] :
          RoundsOf(events, metadata, p) /\ InferPrices(events, metadata) = p[MaxRounds]
    BY InferPricesRounds
  <1>2. PICK w \in [0..MaxRounds -> SUBSET DOMAIN metadata] :
          Reached(events, metadata, w) /\ Anchored = w[MaxRounds]
    BY AnchoredReached
  <1>3. MaxRounds \in Nat BY PricingAssumption
  <1> DEFINE Holds(k) == /\ \A t \in Tokens : p[k][t] # None => t \in w[k]
                         /\ \A t \in DOMAIN metadata : Stable(t, metadata) => t \in w[k]
             Bad == {k \in 0..MaxRounds : ~Holds(k)}
  <1>4. Bad = {}
    <2> SUFFICES ASSUME Bad # {} PROVE FALSE
      OBVIOUS
    <2>1. PICK k \in Bad : \A l \in Bad : k <= l
      <3>1. Bad \subseteq Nat BY <1>3
      <3> HIDE DEF Bad
      <3> QED BY <3>1, LeastNatural
    <2>2. k \in 0..MaxRounds /\ ~Holds(k) BY <2>1
    <2>3. k # 0
      <3>1. p[0] = NoPrices /\ \A t \in Tokens : NoPrices[t] = None
        BY <1>1 DEF RoundsOf, NoPrices
      <3>2. \A t \in DOMAIN metadata : Stable(t, metadata) => t \in w[0] BY <1>2 DEF Reached
      <3>3. Holds(0) BY <3>1, <3>2
      <3> HIDE DEF Holds
      <3> QED BY <2>2, <3>3
    <2>4. k - 1 \in 0..MaxRounds /\ k \in 1..MaxRounds /\ ~(k <= k - 1) BY <1>3, <2>2, <2>3
    <2>5. Holds(k - 1)
      <3> HIDE DEF Holds
      <3> QED BY <2>1, <2>4
    <2> DEFINE q == p[k - 1]
               v == w[k - 1]
    <2>6. /\ p[k] = PriceRound(events, metadata, q)
          /\ v \subseteq w[k]
          /\ \A t \in DOMAIN metadata :
               (\E e \in Range(events), s \in v : Swapped(e, s, t)) => t \in w[k]
      BY <1>1, <1>2, <2>4 DEF RoundsOf, Reached
    <2>7. /\ \A t \in Tokens : q[t] # None => t \in v
          /\ \A t \in DOMAIN metadata : Stable(t, metadata) => t \in v
      BY <2>5
    <2>8. q \in PriceMaps BY <2>4
    <2> HIDE DEF q, v, Holds
    <2>9. ASSUME NEW t \in Tokens, p[k][t] # None PROVE t \in w[k]
      <3>1. CASE q[t] # None BY <2>6, <2>7, <3>1
      <3>2. CASE q[t] = None
        <4>1. t \in DOMAIN metadata /\ Samples(t, events, metadata, q) # {}
          BY <2>6, <2>9, <3>2 DEF PriceRound
        <4>2. PICK i \in DOMAIN events : \E x : x \in Implied(t, i, events, metadata, q)
          BY <4>1 DEF Samples
        <4>3. PICK s : /\ Stable(s, metadata) \/ q[s] # None
                       /\ s \in {events[i].tokenA, events[i].tokenB} /\ s # None
                       /\ s = t \/ Swapped(events[i], s, t)
          BY <4>2, SampleNeedsAPrice
        <4>4. s \in DOMAIN metadata /\ s \in Tokens
          BY <4>3 DEF IsPriced, Priceable, IsMetadata
        <4>5. s \in v BY <2>7, <4>3, <4>4
        <4>6. events[i] \in Range(events) BY DEF Range
        <4> QED BY <2>6, <4>1, <4>3, <4>5, <4>6
      <3> QED BY <3>1, <3>2
    <2>10. \A t \in DOMAIN metadata : Stable(t, metadata) => t \in w[k] BY <2>6, <2>7
    <2>11. Holds(k) BY <2>9, <2>10 DEF Holds
    <2> QED BY <2>2, <2>11
  <1>5. MaxRounds \in 0..MaxRounds BY <1>3
  <1>6. Holds(MaxRounds)
    <2> HIDE DEF Holds
    <2> QED BY <1>4, <1>5
  <1> QED BY <1>1, <1>2, <1>6
-----------------------------------------------------------------------------
(* What the logs of the chain are, and the swaps that are read from them.  *)
Sides == {"BUY", "SELL", None}

LEMMA LogTypes ==
    /\ DOMAIN Logs = 1..Len(Logs) /\ Len(Logs) \in Nat
    /\ \A n \in DOMAIN Logs :
         /\ Logs[n].tx \in DOMAIN Transfers /\ Logs[n].block \in Nat \ {0}
         /\ Logs[n].pool \in Pools /\ Logs[n].words \in Seq(0..(WordSize - 1))
  <1> DEFINE W == Seq(0..(WordSize - 1))
             L == [tx : DOMAIN Transfers, block : Nat \ {0}, pool : Pools, kind : STRING, words : W]
  <1>1. Logs \in Seq(L) BY LogsAssumption
  <1> HIDE DEF L
  <1>2. DOMAIN Logs = 1..Len(Logs) /\ Len(Logs) \in Nat BY <1>1, LenProperties
  <1>3. \A n \in DOMAIN Logs : Logs[n] \in L BY <1>1, <1>2, ElementOfSeq
  <1> HIDE DEF W
  <1>4. \A n \in DOMAIN Logs :
          /\ Logs[n].tx \in DOMAIN Transfers /\ Logs[n].block \in Nat \ {0}
          /\ Logs[n].pool \in Pools /\ Logs[n].words \in W
    BY <1>3 DEF L
  <1> QED BY <1>2, <1>4 DEF W

LEMMA SwapLogsType ==
    ASSUME NEW w
    PROVE  /\ SwapLogs(w) \in Seq(DOMAIN Logs)
           /\ \A n \in Range(SwapLogs(w)) : n \in DOMAIN Logs /\ IsSwap(Logs[n])
           /\ \A i \in DOMAIN SwapLogs(w) :
                SwapLogs(w)[i] \in DOMAIN Logs /\ IsSwap(Logs[SwapLogs(w)[i]])
  <1> DEFINE S == {i \in DOMAIN Logs :
                     IsSwap(Logs[i]) /\ w.start <= Logs[i].block /\ Logs[i].block <= w.end}
  <1>1. S \in SUBSET Int /\ IsFiniteSet(S) /\ S \subseteq DOMAIN Logs
    <2>1. S \subseteq DOMAIN Logs /\ DOMAIN Logs = 1..Len(Logs) /\ Len(Logs) \in Nat BY LogTypes
    <2>2. IsFiniteSet(1..Len(Logs)) BY <2>1, FS_Interval
    <2> HIDE DEF S
    <2> QED BY <2>1, <2>2, FS_Subset
  <1>2. \A n \in S : n \in DOMAIN Logs /\ IsSwap(Logs[n]) OBVIOUS
  <1>3. SwapLogs(w) = InOrder(S) BY DEF SwapLogs
  <1> HIDE DEF S
  <1>4. InOrder(S) \in Seq(S) /\ Range(InOrder(S)) = S BY <1>1, InOrderEnumerates
  <1>5. \A i \in DOMAIN InOrder(S) : InOrder(S)[i] \in S BY <1>4, ElementOfSeq, LenProperties
  <1>6. SwapLogs(w) \in Seq(DOMAIN Logs) BY <1>1, <1>3, <1>4, SeqMonotonic
  <1> QED BY <1>2, <1>3, <1>4, <1>5, <1>6

Read(n) == RawEvent(Logs[n], n)

LEMMA ReadType ==
    ASSUME NEW n \in DOMAIN Logs, IsSwap(Logs[n])
    PROVE  /\ Read(n) = [log |-> n, tx |-> Logs[n].tx, block |-> Logs[n].block,
                         pool |-> Logs[n].pool, kind |-> Logs[n].kind, side |-> Read(n).side,
                         tokenA |-> None, amountA |-> Read(n).amountA,
                         tokenB |-> None, amountB |-> Read(n).amountB]
           /\ Read(n).side \in Sides /\ Read(n).amountA \in Nat /\ Read(n).amountB \in Nat
           /\ Read(n).kind \in CurveKinds \cup StandardKinds
  <1> DEFINE log == Logs[n]
             parsed == CASE log.kind = "v2" -> ParseV2(log.words)
                         [] log.kind = "v3" -> ParseV3(log.words)
                         [] OTHER -> ParseCurve(log.words)
  <1>1. WordSize \in Nat BY PricingAssumption
  <1>2. \A i \in 1..Len(log.words) : log.words[i] \in 0..(WordSize - 1)
    BY LogTypes, ElementOfSeq
  <1>3. log.kind \in CurveKinds \cup StandardKinds BY DEF IsSwap, CurveKinds, StandardKinds
  <1>4. Len(log.words) \in Nat BY LogTypes, LenProperties
  <1> HIDE DEF log
  <1>5. \A i \in 1..Len(log.words) : log.words[i] \in Nat /\ Signed(log.words[i]) \in Int
    BY <1>1, <1>2 DEF Signed
  <1> DEFINE sound(x) == x.side \in Sides /\ x.amountA \in Nat /\ x.amountB \in Nat
  <1>6. /\ log.kind = "v2" => parsed = ParseV2(log.words)
        /\ log.kind = "v3" => parsed = ParseV3(log.words)
        /\ log.kind \in CurveKinds => parsed = ParseCurve(log.words)
    BY DEF CurveKinds
  <1>7. Read(n) = [log |-> n, tx |-> log.tx, block |-> log.block, pool |-> log.pool,
                   kind |-> log.kind, side |-> parsed.side,
                   tokenA |-> None, amountA |-> parsed.amountA,
                   tokenB |-> None, amountB |-> parsed.amountB]
    BY DEF Read, RawEvent, log
  <1> HIDE DEF parsed
  <1>8. ASSUME log.kind = "v2" PROVE sound(parsed)
    <2>1. \A i \in 1..4 : log.words[i] \in Nat
      <3>1. Len(log.words) >= 4 BY <1>8 DEF IsSwap, log
      <3> QED BY <1>4, <1>5, <3>1
    <2>2. /\ Larger(log.words[1], log.words[3]) \in Nat
          /\ Larger(log.words[2], log.words[4]) \in Nat
      BY <2>1 DEF Larger
    <2>3. sound(ParseV2(log.words)) BY <2>2 DEF ParseV2, SideOf, Sides
    <2> QED BY <1>6, <1>8, <2>3, Zenon
  <1>9. ASSUME log.kind = "v3" PROVE sound(parsed)
    <2>1. Signed(log.words[1]) \in Int /\ Signed(log.words[2]) \in Int
      <3>1. Len(log.words) >= 2 BY <1>9 DEF IsSwap, log, CurveKinds
      <3> QED BY <1>4, <1>5, <3>1
    <2>2. /\ Magnitude(Signed(log.words[1])) \in Nat
          /\ Magnitude(Signed(log.words[2])) \in Nat
      BY <2>1 DEF Magnitude
    <2>3. sound(ParseV3(log.words)) BY <2>2 DEF ParseV3, SideOf, Sides
    <2> QED BY <1>6, <1>9, <2>3, Zenon
  <1>10. ASSUME log.kind \in CurveKinds PROVE sound(parsed)
    <2>1. log.words[2] \in Nat /\ log.words[4] \in Nat
      <3>1. Len(log.words) >= 4 BY <1>10 DEF IsSwap, log, CurveKinds
      <3> QED BY <1>4, <1>5, <3>1
    <2>2. sound(ParseCurve(log.words)) BY <2>1 DEF ParseCurve, Sides
    <2> QED BY <1>6, <1>10, <2>2, Zenon
  <1>11. sound(parsed) BY <1>3, <1>8, <1>9, <1>10 DEF StandardKinds
  <1> QED BY <1>3, <1>7, <1>11 DEF log
-----------------------------------------------------------------------------
(* An event tells the trade of its log, before and after its tokens are    *)
(* put into order.                                                         *)
MaybeToken == Tokens \cup {None}
Event == [log : DOMAIN Logs, tx : DOMAIN Transfers, block : Nat \ {0}, pool : Pools,
          kind : CurveKinds \cup StandardKinds, side : Sides,
          tokenA : MaybeToken, amountA : Nat,
          tokenB : MaybeToken, amountB : Nat]
Told(e) == IF e.side = "BUY" THEN Trade(e.tokenA, e.amountA, e.tokenB, e.amountB)
           ELSE Trade(e.tokenB, e.amountB, e.tokenA, e.amountA)
Found(n, a, b) == [Read(n) EXCEPT !.tokenA = a, !.tokenB = b]
OfLog(n, e) ==
    /\ e.log = n /\ e.tx = Logs[n].tx /\ e.block = Logs[n].block
    /\ e.pool = Logs[n].pool /\ e.kind = Logs[n].kind

LEMMA InvertedSide ==
    ASSUME NEW side \in Sides
    PROVE  /\ InvertSide(side) \in Sides
           /\ side = "BUY" => InvertSide(side) = "SELL"
           /\ side = "SELL" => InvertSide(side) = "BUY"
           /\ side = None => InvertSide(side) = None
  BY EnrichmentAssumption DEF InvertSide, Sides

LEMMA ReorderTells ==
    ASSUME NEW e \in Event
    PROVE  /\ Reorder(e) \in Event
           /\ \A n : OfLog(n, e) => OfLog(n, Reorder(e))
           /\ {Reorder(e).tokenA, Reorder(e).tokenB} = {e.tokenA, e.tokenB}
           /\ Reorder(e).side = None <=> e.side = None
           /\ e.side # None => Told(Reorder(e)) = Told(e)
  <1> DEFINE r == [e EXCEPT !.tokenA = e.tokenB, !.tokenB = e.tokenA,
                            !.amountA = e.amountB, !.amountB = e.amountA,
                            !.side = InvertSide(e.side)]
  <1>1. e.side \in Sides BY DEF Event
  <1>2. Reorder(e) = e \/ Reorder(e) = r BY DEF Reorder
  <1>3. CASE Reorder(e) = e BY <1>3
  <1>4. CASE Reorder(e) = r
    <2>1. InvertSide(e.side) \in Sides BY <1>1, InvertedSide
    <2>2. r \in Event BY <2>1 DEF Event
    <2>3. /\ r.log = e.log /\ r.tx = e.tx /\ r.block = e.block
          /\ r.pool = e.pool /\ r.kind = e.kind
          /\ r.tokenA = e.tokenB /\ r.tokenB = e.tokenA
          /\ r.amountA = e.amountB /\ r.amountB = e.amountA
          /\ r.side = InvertSide(e.side)
      BY DEF Event
    <2> HIDE DEF r
    <2>4. r.side = None <=> e.side = None
      BY <1>1, <2>3, InvertedSide, EnrichmentAssumption DEF Sides
    <2>5. e.side # None => Told(r) = Told(e)
      <3>1. CASE e.side = "BUY" BY <2>3, <3>1, <1>1, InvertedSide DEF Told
      <3>2. CASE e.side = "SELL" BY <2>3, <3>2, <1>1, InvertedSide DEF Told
      <3> QED BY <1>1, <3>1, <3>2 DEF Sides
    <2>6. \A n : OfLog(n, e) => OfLog(n, r) BY <2>3 DEF OfLog
    <2> QED BY <1>4, <2>2, <2>3, <2>4, <2>5, <2>6
  <1> QED BY <1>2, <1>3, <1>4

LEMMA FoundType ==
    ASSUME NEW n \in DOMAIN Logs, IsSwap(Logs[n]),
           NEW a \in MaybeToken, NEW b \in MaybeToken
    PROVE  /\ Read(n) \in Event /\ Found(n, a, b) \in Event
           /\ OfLog(n, Read(n)) /\ OfLog(n, Found(n, a, b))
           /\ Found(n, a, b).tokenA = a /\ Found(n, a, b).tokenB = b
           /\ Found(n, a, b).side = Read(n).side
           /\ Found(n, a, b).amountA = Read(n).amountA /\ Found(n, a, b).amountB = Read(n).amountB
  <1> DEFINE e == Read(n)
  <1>1. e = [log |-> n, tx |-> Logs[n].tx, block |-> Logs[n].block,
             pool |-> Logs[n].pool, kind |-> Logs[n].kind, side |-> e.side,
             tokenA |-> None, amountA |-> e.amountA, tokenB |-> None, amountB |-> e.amountB]
    BY ReadType
  <1>2. /\ e.side \in Sides /\ e.amountA \in Nat /\ e.amountB \in Nat
        /\ e.kind \in CurveKinds \cup StandardKinds
    BY ReadType
  <1>3. Logs[n].tx \in DOMAIN Transfers /\ Logs[n].block \in Nat \ {0} /\ Logs[n].pool \in Pools
    BY LogTypes
  <1> HIDE DEF e
  <1>4. /\ e.log = n /\ e.tx = Logs[n].tx /\ e.block = Logs[n].block
        /\ e.pool = Logs[n].pool /\ e.kind = Logs[n].kind
    BY <1>1
  <1>5. e \in Event BY <1>1, <1>2, <1>3, <1>4 DEF Event, MaybeToken
  <1> DEFINE f == [e EXCEPT !.tokenA = a, !.tokenB = b]
  <1>6. /\ f \in Event /\ f.tokenA = a /\ f.tokenB = b /\ f.log = e.log /\ f.pool = e.pool
        /\ f.tx = e.tx /\ f.block = e.block /\ f.kind = e.kind /\ f.side = e.side
        /\ f.amountA = e.amountA /\ f.amountB = e.amountB
    BY <1>5 DEF Event
  <1>7. Found(n, a, b) = f BY DEF Found, e
  <1> HIDE DEF f
  <1>8. OfLog(n, e) /\ OfLog(n, f) BY <1>4, <1>6 DEF OfLog
  <1> QED BY <1>5, <1>6, <1>7, <1>8 DEF e

SideToken(n, side) ==
    IF Logs[n].kind \in CurveKinds THEN Coin(Logs[n], Logs[n].words[2 * side - 1])
    ELSE PoolFacts[Logs[n].pool].tokens[side]

LEMMA ReadParts ==
    ASSUME NEW n
    PROVE  LET w == Logs[n].words
               is(p) == /\ Read(n).side = p.side
                        /\ Read(n).amountA = p.amountA /\ Read(n).amountB = p.amountB
           IN  /\ Logs[n].kind = "v2" => is(ParseV2(w))
               /\ Logs[n].kind = "v3" => is(ParseV3(w))
               /\ Logs[n].kind \in CurveKinds => is(ParseCurve(w))
  <1> DEFINE log == Logs[n]
             parsed == CASE log.kind = "v2" -> ParseV2(log.words)
                         [] log.kind = "v3" -> ParseV3(log.words)
                         [] OTHER -> ParseCurve(log.words)
  <1>1. /\ log.kind = "v2" => parsed = ParseV2(log.words)
        /\ log.kind = "v3" => parsed = ParseV3(log.words)
        /\ log.kind \in CurveKinds => parsed = ParseCurve(log.words)
    BY DEF CurveKinds
  <1>2. /\ Read(n).side = parsed.side
        /\ Read(n).amountA = parsed.amountA /\ Read(n).amountB = parsed.amountB
    BY DEF Read, RawEvent
  <1> HIDE DEF parsed
  <1> QED BY <1>1, <1>2

LEMMA WordTypes ==
    ASSUME NEW n \in DOMAIN Logs, IsSwap(Logs[n])
    PROVE  LET w == Logs[n].words IN
           /\ \A i \in 1..Len(w) : w[i] \in Nat /\ w[i] < WordSize /\ Signed(w[i]) \in Int
           /\ Len(w) \in Nat /\ Len(w) >= 2
           /\ Logs[n].kind # "v3" => Len(w) >= 4
           /\ Logs[n].kind \in CurveKinds => /\ Signed(w[1]) = w[1] /\ w[1] \in Nat
                                             /\ Signed(w[3]) = w[3] /\ w[3] \in Nat
  <1> DEFINE w == Logs[n].words
  <1>1. WordSize \in Nat BY PricingAssumption
  <1>2. Logs[n].words \in Seq(0..(WordSize - 1)) BY LogTypes
  <1>3. Len(w) \in Nat /\ \A i \in 1..Len(w) : w[i] \in 0..(WordSize - 1)
    BY <1>2, LenProperties, ElementOfSeq
  <1>4. \A i \in 1..Len(w) : w[i] \in Nat /\ w[i] < WordSize BY <1>1, <1>3
  <1>5. \A i \in 1..Len(w) : Signed(w[i]) \in Int BY <1>1, <1>4 DEF Signed
  <1>6. Len(w) >= 2 /\ (Logs[n].kind # "v3" => Len(w) >= 4)
    BY <1>3 DEF IsSwap, CurveKinds
  <1>7. Logs[n].kind \in CurveKinds => Signed(w[1]) >= 0 /\ Signed(w[3]) >= 0 /\ Len(w) >= 4
    BY DEF IsSwap, CurveKinds
  <1> HIDE DEF w
  <1>8. \A i \in 1..Len(w) : Signed(w[i]) >= 0 => Signed(w[i]) = w[i]
    BY <1>1, <1>4 DEF Signed
  <1>9. Logs[n].kind \in CurveKinds => 1 \in 1..Len(w) /\ 3 \in 1..Len(w) BY <1>3, <1>7
  <1>10. Logs[n].kind \in CurveKinds => /\ Signed(w[1]) = w[1] /\ w[1] \in Nat
                                        /\ Signed(w[3]) = w[3] /\ w[3] \in Nat
    BY <1>4, <1>7, <1>8, <1>9
  <1> QED BY <1>3, <1>4, <1>5, <1>6, <1>10 DEF w

LEMMA FoundTells ==
    ASSUME NEW n \in DOMAIN Logs, IsSwap(Logs[n]),
           NEW a \in MaybeToken, NEW b \in MaybeToken,
           TradeOf(Logs[n]) # None
    PROVE  LET e == Found(n, a, b)
               trade == TradeOf(Logs[n])
           IN  /\ e.side # None
               /\ Told(e).soldAmount = trade.soldAmount
               /\ Told(e).boughtAmount = trade.boughtAmount
               /\ a = SideToken(n, 1) /\ b = SideToken(n, 2) => Told(e) = trade
  <1> DEFINE e == Found(n, a, b)
             log == Logs[n]
             w == Logs[n].words
             t == PoolFacts[Logs[n].pool].tokens
             bought == log.kind = "v2" /\ w[1] > 0 /\ w[4] > 0 /\ w[2] = 0 /\ w[3] = 0
             sold == log.kind = "v2" /\ w[2] > 0 /\ w[3] > 0 /\ w[1] = 0 /\ w[4] = 0
             bought3 == log.kind = "v3" /\ Signed(w[1]) > 0 /\ Signed(w[2]) < 0
             sold3 == log.kind = "v3" /\ Signed(w[2]) > 0 /\ Signed(w[1]) < 0
             curve == log.kind \in CurveKinds
             trade == TradeOf(log)
             tells(x) == /\ e.side # None
                         /\ Told(e).soldAmount = x.soldAmount
                         /\ Told(e).boughtAmount = x.boughtAmount
                         /\ a = SideToken(n, 1) /\ b = SideToken(n, 2) => Told(e) = x
  <1>1. /\ e.tokenA = a /\ e.tokenB = b /\ e.side = Read(n).side
        /\ e.amountA = Read(n).amountA /\ e.amountB = Read(n).amountB
    <2>1. Found(n, a, b).tokenA = a /\ Found(n, a, b).tokenB = b
      <3>1. Found(n, a, b).tokenA = a BY FoundType
      <3>2. Found(n, a, b).tokenB = b BY FoundType
      <3> QED BY <3>1, <3>2
    <2>2. Found(n, a, b).side = Read(n).side BY FoundType
    <2>3. /\ Found(n, a, b).amountA = Read(n).amountA
          /\ Found(n, a, b).amountB = Read(n).amountB
      BY FoundType
    <2> QED BY <2>1, <2>2, <2>3
  <1>2. /\ \A i \in 1..Len(w) : w[i] \in Nat /\ Signed(w[i]) \in Int
        /\ Len(w) \in Nat /\ Len(w) >= 2 /\ (log.kind # "v3" => Len(w) >= 4)
        /\ curve => Signed(w[1]) = w[1] /\ Signed(w[3]) = w[3]
    BY WordTypes
  <1>3. /\ log.kind # "v3" => /\ w[1] \in Nat /\ w[2] \in Nat /\ w[3] \in Nat /\ w[4] \in Nat
        /\ Signed(w[1]) \in Int /\ Signed(w[2]) \in Int
    <2> HIDE DEF w
    <2>1. 1 \in 1..Len(w) /\ 2 \in 1..Len(w) BY <1>2
    <2>2. log.kind # "v3" => 3 \in 1..Len(w) /\ 4 \in 1..Len(w) BY <1>2
    <2> QED BY <1>2, <2>1, <2>2
  <1>4. bought \/ sold \/ bought3 \/ sold3 \/ curve
    BY DEF TradeOf
  <1>5. /\ bought => trade = Trade(t[1], w[1], t[2], w[4])
        /\ sold => trade = Trade(t[2], w[2], t[1], w[3])
        /\ bought3 => trade = Trade(t[1], Signed(w[1]), t[2], -Signed(w[2]))
        /\ sold3 => trade = Trade(t[2], Signed(w[2]), t[1], -Signed(w[1]))
        /\ curve => trade = Trade(Coin(log, w[1]), w[2], Coin(log, w[3]), w[4])
    BY <1>3, SMTT(30) DEF TradeOf, CurveKinds
  <1>6. \A s, x, u, y : /\ Trade(s, x, u, y).soldAmount = x /\ Trade(s, x, u, y).boughtAmount = y
    BY DEF Trade
  <1>7. /\ log.kind = "v2" => /\ e.side = SideOf(w[1] > 0 /\ w[4] > 0, w[2] > 0 /\ w[3] > 0)
                              /\ e.amountA = Larger(w[1], w[3])
                              /\ e.amountB = Larger(w[2], w[4])
        /\ log.kind = "v3" => /\ e.side = SideOf(Signed(w[1]) > 0 /\ Signed(w[2]) < 0,
                                                Signed(w[2]) > 0 /\ Signed(w[1]) < 0)
                              /\ e.amountA = Magnitude(Signed(w[1]))
                              /\ e.amountB = Magnitude(Signed(w[2]))
        /\ curve => e.side = "BUY" /\ e.amountA = w[2] /\ e.amountB = w[4]
    BY <1>1, ReadParts DEF ParseV2, ParseV3, ParseCurve
  <1>8. None # "BUY" /\ None # "SELL" BY EnrichmentAssumption
  <1>9. /\ ~curve => SideToken(n, 1) = t[1] /\ SideToken(n, 2) = t[2]
        /\ curve => SideToken(n, 1) = Coin(log, w[1]) /\ SideToken(n, 2) = Coin(log, w[3])
    BY DEF SideToken
  <1>10. /\ log.kind = "v2" => ~curve
         /\ log.kind = "v3" => ~curve
    BY DEF CurveKinds
  <1> HIDE DEF e, log, w, t, curve, trade
  <1>11. ASSUME bought PROVE tells(trade)
    <2>1. e.side = "BUY" /\ e.amountA = w[1] /\ e.amountB = w[4]
      <3>1. w[1] \in Nat /\ w[2] \in Nat /\ w[3] \in Nat /\ w[4] \in Nat BY <1>3, <1>11
      <3>2. Larger(w[1], w[3]) = w[1] /\ Larger(w[2], w[4]) = w[4]
        BY <1>11, <3>1 DEF Larger
      <3>3. SideOf(w[1] > 0 /\ w[4] > 0, w[2] > 0 /\ w[3] > 0) = "BUY"
        BY <1>11, <3>1 DEF SideOf
      <3> QED BY <1>7, <1>11, <3>1, <3>2, <3>3
    <2> QED BY <1>1, <1>5, <1>6, <1>8, <1>9, <1>10, <1>11, <2>1 DEF Told
  <1>12. ASSUME sold PROVE tells(trade)
    <2>1. e.side = "SELL" /\ e.amountA = w[3] /\ e.amountB = w[2]
      <3>1. w[1] \in Nat /\ w[2] \in Nat /\ w[3] \in Nat /\ w[4] \in Nat BY <1>3, <1>12
      <3>2. Larger(w[1], w[3]) = w[3] /\ Larger(w[2], w[4]) = w[2]
        BY <1>12, <3>1 DEF Larger
      <3>3. SideOf(w[1] > 0 /\ w[4] > 0, w[2] > 0 /\ w[3] > 0) = "SELL"
        BY <1>12, <3>1 DEF SideOf
      <3> QED BY <1>7, <1>12, <3>1, <3>2, <3>3
    <2> QED BY <1>1, <1>5, <1>6, <1>8, <1>9, <1>10, <1>12, <2>1 DEF Told
  <1>13. ASSUME bought3 PROVE tells(trade)
    <2>1. e.side = "BUY" /\ e.amountA = Signed(w[1]) /\ e.amountB = -Signed(w[2])
      <3>1. Magnitude(Signed(w[1])) = Signed(w[1]) /\ Magnitude(Signed(w[2])) = -Signed(w[2])
        BY <1>3, <1>13 DEF Magnitude
      <3>2. SideOf(Signed(w[1]) > 0 /\ Signed(w[2]) < 0, Signed(w[2]) > 0 /\ Signed(w[1]) < 0)
              = "BUY"
        BY <1>3, <1>13 DEF SideOf
      <3> QED BY <1>3, <1>7, <1>13, <3>1, <3>2
    <2> QED BY <1>1, <1>5, <1>6, <1>8, <1>9, <1>10, <1>13, <2>1 DEF Told
  <1>14. ASSUME sold3 PROVE tells(trade)
    <2>1. e.side = "SELL" /\ e.amountA = -Signed(w[1]) /\ e.amountB = Signed(w[2])
      <3>1. Magnitude(Signed(w[1])) = -Signed(w[1]) /\ Magnitude(Signed(w[2])) = Signed(w[2])
        BY <1>3, <1>14 DEF Magnitude
      <3>2. SideOf(Signed(w[1]) > 0 /\ Signed(w[2]) < 0, Signed(w[2]) > 0 /\ Signed(w[1]) < 0)
              = "SELL"
        BY <1>3, <1>14 DEF SideOf
      <3> QED BY <1>3, <1>7, <1>14, <3>1, <3>2
    <2> QED BY <1>1, <1>5, <1>6, <1>8, <1>9, <1>10, <1>14, <2>1 DEF Told
  <1>15. ASSUME curve PROVE tells(trade)
    BY <1>1, <1>5, <1>6, <1>7, <1>8, <1>9, <1>15 DEF Told
  <1>16. tells(trade) BY <1>4, <1>11, <1>12, <1>13, <1>14, <1>15
  <1> QED BY <1>16 DEF e, trade, log
-----------------------------------------------------------------------------
(* The coins of a pool: the first function that answers knows the coin     *)
(* that was exchanged.                                                     *)
CoinFunctions == {"underlying_coins", "underlying_coins_int128", "coins", "coins_int128"}

LEMMA SelectorTypes ==
    ASSUME NEW u \in BOOLEAN
    PROVE  /\ DOMAIN Selectors(u) = 1..4
           /\ \A m \in 1..4 : Selectors(u)[m] \in CoinFunctions
           /\ Range(Selectors(FALSE)) = CoinFunctions
           /\ \A kind : u = (kind = "underlying") =>
                Exchanged(kind) = {Selectors(u)[1], Selectors(u)[2]}
  <1>1. DOMAIN Selectors(u) = 1..4 /\ \A m \in 1..4 : Selectors(u)[m] \in CoinFunctions
    BY DEF Selectors, CoinFunctions
  <1>2. Range(Selectors(FALSE)) = CoinFunctions
    <2> DEFINE s == <<"coins", "coins_int128", "underlying_coins", "underlying_coins_int128">>
    <2>1. DOMAIN s = 1..4 OBVIOUS
    <2>2. /\ s[1] = "coins" /\ s[2] = "coins_int128"
          /\ s[3] = "underlying_coins" /\ s[4] = "underlying_coins_int128"
      OBVIOUS
    <2>3. \A m \in 1..4 : m = 1 \/ m = 2 \/ m = 3 \/ m = 4 OBVIOUS
    <2>4. Selectors(FALSE) = s BY Zenon DEF Selectors
    <2> HIDE DEF s
    <2>5. Range(s) = CoinFunctions BY <2>1, <2>2, <2>3 DEF Range, CoinFunctions
    <2> QED BY <2>4, <2>5, Zenon
  <1>3. \A kind : u = (kind = "underlying") =>
                Exchanged(kind) = {Selectors(u)[1], Selectors(u)[2]}
    BY DEF Exchanged, Selectors
  <1> QED BY <1>1, <1>2, <1>3

LEMMA CoinTypes ==
    ASSUME NEW p \in Pools, NEW s \in CoinFunctions
    PROVE  /\ PoolFacts[p].coins[s] \in Seq(Tokens)
           /\ DOMAIN PoolFacts[p].coins[s] \subseteq Nat
           /\ \A k \in DOMAIN PoolFacts[p].coins[s] : PoolFacts[p].coins[s][k] \in Tokens
  <1>1. PoolFacts[p].coins \in [CoinFunctions -> Seq(Tokens)]
    BY FactsAssumption, SelectorTypes
  <1>2. PoolFacts[p].coins[s] \in Seq(Tokens) BY <1>1
  <1> QED BY <1>2, ElementOfSeq, LenProperties

LEMMA MinIsThere ==
    ASSUME NEW S \in SUBSET Nat, S # {}
    PROVE  Min(S) \in S /\ \A x \in S : Min(S) <= x
  <1>1. \E m \in S : \A x \in S : m <= x BY LeastNatural
  <1> QED BY <1>1 DEF Min

LEMMA FirstCoinType ==
    ASSUME NEW p \in Pools, NEW index, NEW u \in BOOLEAN, NEW missing
    PROVE  FirstCoin(p, index, Selectors(u), missing) \in MaybeToken
  <1> DEFINE coins == PoolFacts[p].coins
             sel == Selectors(u)
             answered == {m \in DOMAIN sel : /\ <<p, sel[m], index>> \notin missing
                                             /\ index + 1 \in DOMAIN coins[sel[m]]}
  <1>1. FirstCoin(p, index, sel, missing)
          = IF answered = {} THEN None ELSE coins[sel[Min(answered)]][index + 1]
    BY DEF FirstCoin
  <1>2. DOMAIN sel = 1..4 /\ \A m \in 1..4 : sel[m] \in CoinFunctions BY SelectorTypes
  <1>3. CASE answered = {} BY <1>1, <1>3 DEF MaybeToken
  <1>4. CASE answered # {}
    <2>1. answered \in SUBSET Nat BY <1>2
    <2> DEFINE m == Min(answered)
    <2>2. m \in answered
      <3> HIDE DEF answered
      <3> QED BY <1>4, <2>1, MinIsThere
    <2>3. m \in 1..4 /\ index + 1 \in DOMAIN coins[sel[m]] BY <1>2, <2>2
    <2>4. FirstCoin(p, index, sel, missing) = coins[sel[m]][index + 1] BY <1>1, <1>4
    <2> HIDE DEF m, answered
    <2>5. coins[sel[m]][index + 1] \in Tokens BY <1>2, <2>3, CoinTypes
    <2> QED BY <2>4, <2>5 DEF MaybeToken
  <1> QED BY <1>3, <1>4

LEMMA FirstCoinIsExchanged ==
    ASSUME NEW n \in DOMAIN Logs, IsSwap(Logs[n]), Logs[n].kind \in CurveKinds,
           NEW k \in {1, 3}, NEW missing,
           \A c \in missing : c[1] # Logs[n].pool,
           NEW t \in Tokens, CoinsAt(Logs[n], Logs[n].words[k]) = {t}
    PROVE  FirstCoin(Logs[n].pool, Logs[n].words[k], Selectors(Logs[n].kind = "underlying"), missing)
             = Coin(Logs[n], Logs[n].words[k])
  <1> DEFINE p == Logs[n].pool
             kind == Logs[n].kind
             index == Logs[n].words[k]
             coins == PoolFacts[p].coins
             u == kind = "underlying"
             sel == Selectors(u)
             answered == {m \in DOMAIN sel : /\ <<p, sel[m], index>> \notin missing
                                             /\ index + 1 \in DOMAIN coins[sel[m]]}
             known == {s \in Exchanged(kind) : index + 1 \in DOMAIN coins[s]}
  <1>1. p \in Pools BY LogTypes
  <1>2. {coins[s][index + 1] : s \in known} = {t} BY DEF CoinsAt
  <1>3. FirstCoin(p, index, sel, missing)
          = IF answered = {} THEN None ELSE coins[sel[Min(answered)]][index + 1]
    BY DEF FirstCoin
  <1>4. /\ DOMAIN sel = 1..4 /\ \A m \in 1..4 : sel[m] \in CoinFunctions
        /\ Exchanged(kind) = {sel[1], sel[2]}
    <2>1. u \in BOOLEAN OBVIOUS
    <2> HIDE DEF u
    <2>2. DOMAIN sel = 1..4 /\ \A m \in 1..4 : sel[m] \in CoinFunctions BY <2>1, SelectorTypes
    <2>3. Exchanged(kind) = {sel[1], sel[2]}
      <3>1. u = (kind = "underlying") BY DEF u
      <3> QED BY <2>1, <3>1, SelectorTypes
    <2> QED BY <2>2, <2>3
  <1>5. Coin(Logs[n], index) = t BY DEF Coin
  <1>6. \A m : <<p, sel[m], index>> \notin missing
    <2>1. \A m : <<p, sel[m], index>>[1] = p OBVIOUS
    <2> QED BY <2>1
  <1> HIDE DEF p, kind, index, coins, sel, u
  <1>7. PICK s \in known : TRUE BY <1>2
  <1>8. answered \in SUBSET Nat /\ \E m \in {1, 2} : m \in answered
    BY <1>4, <1>6, <1>7
  <1> DEFINE m == Min(answered)
  <1>9. m \in answered /\ m \in {1, 2}
    <2>1. m \in answered /\ \A x \in answered : m <= x
      <3> HIDE DEF answered
      <3> QED BY <1>8, MinIsThere
    <2>2. m \in 1..4 BY <1>4, <2>1
    <2>3. PICK x \in {1, 2} : x \in answered BY <1>8
    <2>4. m <= x /\ x <= 2 BY <2>1, <2>3
    <2> HIDE DEF m
    <2> QED BY <2>1, <2>2, <2>4
  <1>10. sel[m] \in known
    <2> HIDE DEF m
    <2> QED BY <1>4, <1>9
  <1> DEFINE coin == coins[sel[m]][index + 1]
  <1>11. FirstCoin(p, index, sel, missing) = coin BY <1>3, <1>9
  <1> HIDE DEF m, answered
  <1>12. coin = t BY <1>2, <1>10
  <1> QED BY <1>5, <1>11, <1>12 DEF p, index, sel, u, kind
-----------------------------------------------------------------------------
(* What holds between the stages.  Until its tokens are known an event is  *)
(* what was read from its log; then it has the tokens of its pool, or      *)
(* those of the pair that was answered.                                    *)
Parsed == {"pools", "pairs", "pairs again", "coins"}
Ordered == {"balances", "blocks", "persist", "stored", "raised"}

Resolved(n, a, b, known, silent) ==
    /\ a \in MaybeToken /\ b \in MaybeToken
    /\ Logs[n].kind \in StandardKinds =>
         a = known[Logs[n].pool].pair[1] /\ b = known[Logs[n].pool].pair[2]
    /\ Logs[n].pool \notin silent /\ CoinsKnown(Logs[n]) =>
         a = SideToken(n, 1) /\ b = SideToken(n, 2)

EventsSound ==
    /\ events \in Seq(Event)
    /\ pc = "idle" => events = <<>>
    /\ pc # "idle" => DOMAIN events = DOMAIN SwapLogs(window)
    /\ pc \in Parsed => \A i \in DOMAIN events : events[i] = Read(SwapLogs(window)[i])
    /\ pc = "tokens" => \A i \in DOMAIN events : \E a, b \in MaybeToken :
         Resolved(SwapLogs(window)[i], a, b, pools, unanswered)
         /\ events[i] = Found(SwapLogs(window)[i], a, b)
    /\ pc \in Ordered => \A i \in DOMAIN events : \E a, b \in MaybeToken :
         Resolved(SwapLogs(window)[i], a, b, pools, unanswered)
         /\ events[i] = Reorder(Found(SwapLogs(window)[i], a, b))

PairsSound ==
    /\ pc \notin {"idle", "pools"} =>
         /\ DOMAIN pools = EventPools
         /\ \A p \in EventPools :
              /\ pools[p] = [factory |-> pools[p].factory, fee |-> pools[p].fee,
                             pair |-> pools[p].pair]
              /\ \A side \in 1..2 : pools[p].pair[side] \in {None, PoolFacts[p].tokens[side]}
    /\ pc = "coins" => \A p \in PoolsOfKind(StandardKinds) \ unanswered : \A side \in 1..2 :
         pools[p].pair[side] = PoolFacts[p].tokens[side]

TypesSound ==
    /\ pc \in {"idle", "tokens"} \cup Parsed \cup Ordered
    /\ window \in Windows /\ lost \in 0..MaxLost
    /\ batching \in BOOLEAN /\ tracing \in BOOLEAN
    /\ tokens \in [Tokens -> Row \cup {None}]
    /\ prices \in PriceMaps

PricesSound ==
    /\ pc \in {"balances", "blocks", "persist"} => /\ DOMAIN metadata = EventTokens
                                                   /\ IsMetadata(metadata)
    /\ pc = "balances" => prices = InferPrices(events, metadata)

FitsTable(snapshot) ==
    /\ ~AtMost(<<DecimalLimit, 1>>, snapshot.tvl)
    /\ AtMost(snapshot.share, <<1, 1>>)
SnapshotsSound == \A p \in DOMAIN snapshots : snapshots[p] # None => FitsTable(snapshots[p])

TokenWrites(p) ==
    /\ \A w \in p.tokens : /\ w.named \in BOOLEAN /\ w.stable \in BOOLEAN
                           /\ w.decimals \in Nat
    /\ {w.address : w \in p.tokens} = EventTokens
HoldsSwaps(p, w) ==
    \A n \in Range(SwapLogs(w)) :
      TradeOf(Logs[n]) # None => n \in {p.swaps[i].log : i \in DOMAIN p.swaps}
PayloadSound ==
    pc = "persist" =>
      /\ BuiltPayload(payload) /\ BribesArePaid(payload) /\ HoldsSwaps(payload, window)
      /\ TokenWrites(payload)

EnrichmentInvariant ==
    /\ TypesSound /\ EventsSound /\ PairsSound /\ PricesSound /\ SnapshotsSound /\ PayloadSound

(* Which log an event is of, at every stage.                               *)
LEMMA EventFacts ==
    ASSUME EventsSound, TypesSound, NEW i \in DOMAIN events
    PROVE  LET n == SwapLogs(window)[i] IN
           /\ n \in DOMAIN Logs /\ IsSwap(Logs[n])
           /\ events[i] \in Event
           /\ OfLog(n, events[i])
  <1> DEFINE n == SwapLogs(window)[i]
  <1>1. pc # "idle" BY DEF EventsSound
  <1>2. i \in DOMAIN SwapLogs(window) BY <1>1 DEF EventsSound
  <1>3. n \in DOMAIN Logs /\ IsSwap(Logs[n]) BY <1>2, SwapLogsType
  <1>4. events[i] \in Event BY ElementOfSeq, LenProperties DEF EventsSound
  <1>5. None \in MaybeToken BY DEF MaybeToken
  <1>6. ASSUME pc \in Parsed PROVE OfLog(n, events[i])
    <2>1. events[i] = Read(n) BY <1>6 DEF EventsSound
    <2> HIDE DEF n
    <2>2. OfLog(n, Read(n)) BY <1>3, <1>5, FoundType
    <2> QED BY <2>1, <2>2
  <1>7. ASSUME NEW a \in MaybeToken, NEW b \in MaybeToken PROVE OfLog(n, Found(n, a, b))
    <2> HIDE DEF n
    <2> QED BY <1>3, FoundType
  <1>8. ASSUME pc = "tokens" PROVE OfLog(n, events[i])
    <2>1. PICK a \in MaybeToken, b \in MaybeToken : events[i] = Found(n, a, b)
      BY <1>8 DEF EventsSound
    <2> QED BY <1>7, <2>1
  <1>9. ASSUME pc \in Ordered PROVE OfLog(n, events[i])
    <2>1. PICK a \in MaybeToken, b \in MaybeToken : events[i] = Reorder(Found(n, a, b))
      BY <1>9 DEF EventsSound
    <2>2. Found(n, a, b) \in Event
      <3> HIDE DEF n
      <3> QED BY <1>3, FoundType
    <2>3. OfLog(n, Found(n, a, b)) BY <1>7
    <2> HIDE DEF n
    <2>4. OfLog(n, Reorder(Found(n, a, b))) BY <2>2, <2>3, ReorderTells
    <2> QED BY <2>1, <2>4
  <1>10. OfLog(n, events[i]) BY <1>1, <1>6, <1>8, <1>9 DEF TypesSound
  <1> QED BY <1>3, <1>4, <1>10

LEMMA LossesType ==
    ASSUME lost \in 0..MaxLost, NEW calls, NEW attempts \in {1, 2},
           NEW missing \in Losses(calls, attempts)
    PROVE  /\ missing \subseteq calls /\ IsFiniteSet(missing)
           /\ Cardinality(missing) \in Nat
           /\ lost + attempts * Cardinality(missing) \in 0..MaxLost
           /\ lost + attempts * Cardinality(missing) = 0 => missing = {}
  <1> DEFINE m == (MaxLost - lost) \div attempts
  <1>1. MaxLost \in Nat /\ lost \in Nat /\ lost <= MaxLost BY EnrichmentAssumption
  <1>2. m \in Nat /\ attempts * m <= MaxLost - lost
    <2>1. CASE attempts = 1 BY <1>1, <2>1
    <2>2. CASE attempts = 2 BY <1>1, <2>2
    <2> QED BY <2>1, <2>2
  <1>3. missing = {} \/ \E f \in [1..m -> calls] : missing = Range(f) BY DEF Losses
  <1> HIDE DEF m
  <1>4. /\ missing \subseteq calls /\ IsFiniteSet(missing)
        /\ Cardinality(missing) \in Nat /\ Cardinality(missing) <= m
    <2>1. CASE missing = {} BY <1>2, <2>1, FS_EmptySet
    <2>2. CASE \E f \in [1..m -> calls] : missing = Range(f)
      <3>1. PICK f \in [1..m -> calls] : missing = Range(f) BY <2>2
      <3>2. f \in Surjection(1..m, Range(f)) BY Fun_RangeProperties
      <3>3. IsFiniteSet(1..m) /\ Cardinality(1..m) = m BY <1>2, FS_Interval
      <3>4. IsFiniteSet(Range(f)) /\ Cardinality(Range(f)) <= Cardinality(1..m)
        BY <3>2, <3>3, FS_Surjection
      <3>5. Range(f) \subseteq calls BY DEF Range
      <3> QED BY <3>1, <3>3, <3>4, <3>5, FS_CardinalityType
    <2> QED BY <1>3, <2>1, <2>2
  <1>5. lost + attempts * Cardinality(missing) \in 0..MaxLost
    <2>1. CASE attempts = 1 BY <1>1, <1>2, <1>4, <2>1
    <2>2. CASE attempts = 2 BY <1>1, <1>2, <1>4, <2>2
    <2> QED BY <2>1, <2>2
  <1>6. lost + attempts * Cardinality(missing) = 0 => Cardinality(missing) = 0
    <2>1. CASE attempts = 1 BY <1>1, <1>4, <2>1
    <2>2. CASE attempts = 2 BY <1>1, <1>4, <2>2
    <2> QED BY <2>1, <2>2
  <1> QED BY <1>4, <1>5, <1>6, FS_EmptySet
-----------------------------------------------------------------------------
(* The stages keep it, one by one.                                         *)
LEMMA InvariantInit == EnrichmentInit => EnrichmentInvariant
  <1> SUFFICES ASSUME EnrichmentInit PROVE EnrichmentInvariant
    OBVIOUS
  <1> USE DEF EnrichmentInit
  <1>1. TypesSound
    <2>1. tokens \in [Tokens -> Row \cup {None}] OBVIOUS
    <2>2. lost \in 0..MaxLost BY EnrichmentAssumption
    <2> QED BY <2>1, <2>2, NoPricesType DEF TypesSound
  <1>2. EventsSound BY EmptySeq DEF EventsSound, Parsed, Ordered
  <1>3. PairsSound /\ PricesSound /\ PayloadSound BY DEF PairsSound, PricesSound, PayloadSound
  <1>4. SnapshotsSound BY DEF SnapshotsSound
  <1> QED BY <1>1, <1>2, <1>3, <1>4 DEF EnrichmentInvariant

LEMMA ParseSwapsKeeps ==
    ASSUME EnrichmentInvariant, ParseSwaps PROVE EnrichmentInvariant'
  <1>1. PICK w \in Windows :
          /\ window' = w
          /\ events' = [i \in DOMAIN SwapLogs(w) |-> Read(SwapLogs(w)[i])]
          /\ pc' = IF SwapLogs(w) = <<>> THEN "stored" ELSE "pools"
    BY DEF ParseSwaps, Read
  <1>2. /\ pools' = <<>> /\ metadata' = <<>> /\ snapshots' = <<>> /\ prices' = NoPrices
        /\ UNCHANGED <<batching, tracing, tokens, lost>>
    BY DEF ParseSwaps, ForgetLocals
  <1>3. SwapLogs(w) \in Seq(DOMAIN Logs) BY SwapLogsType
  <1>4. DOMAIN SwapLogs(w) = 1..Len(SwapLogs(w)) /\ Len(SwapLogs(w)) \in Nat
    BY <1>3, LenProperties
  <1>5. \A i \in DOMAIN SwapLogs(w) : Read(SwapLogs(w)[i]) \in Event
    <2>1. None \in MaybeToken BY DEF MaybeToken
    <2> QED BY <2>1, SwapLogsType, FoundType
  <1>6. events' \in Seq(Event)
    <2>1. events' \in [1..Len(SwapLogs(w)) -> Event] BY <1>1, <1>4, <1>5
    <2> QED BY <1>4, <2>1, SeqDef
  <1>7. TypesSound'
    BY <1>1, <1>2, NoPricesType DEF EnrichmentInvariant, TypesSound, Parsed, Ordered
  <1>8. EventsSound'
    <2>1. pc' = "stored" => DOMAIN events' = {}
      <3>1. pc' = "stored" => SwapLogs(w) = <<>> BY <1>1
      <3> QED BY <1>1, <3>1
    <2> QED BY <1>1, <1>6, <2>1 DEF EventsSound, Parsed, Ordered
  <1>9. PairsSound'
    <2>1. pc' # "pools" => events' = <<>>
      <3>1. pc' # "pools" => SwapLogs(w) = <<>> BY <1>1
      <3> QED BY <1>1, <3>1
    <2> QED BY <1>1, <1>2, <2>1 DEF PairsSound, EventPools
  <1>10. PricesSound' /\ SnapshotsSound' /\ PayloadSound'
    BY <1>1, <1>2 DEF PricesSound, SnapshotsSound, PayloadSound
  <1> QED BY <1>7, <1>8, <1>9, <1>10 DEF EnrichmentInvariant

(* What an attempt may lose is within the bound.                           *)
LEMMA LostWithin ==
    ASSUME TypesSound, NEW calls, NEW attempts \in {1, 2}, NEW missing \in Losses(calls, attempts),
           Lose(missing, attempts)
    PROVE  lost' \in 0..MaxLost
  BY LossesType DEF TypesSound, Lose

LEMMA AttemptsType == Attempts \in {1, 2}
  BY DEF Attempts

LEMMA ResolvePoolsKeeps ==
    ASSUME EnrichmentInvariant, ResolvePools PROVE EnrichmentInvariant'
  <1> USE DEF EnrichmentInvariant
  <1>1. /\ pc = "pools" /\ pc' \in {"pairs", "pairs again"}
        /\ UNCHANGED <<batching, tracing, window, events, metadata, prices, snapshots,
                       payload, tokens, rows, unanswered, history>>
    BY DEF ResolvePools, Goto
  <1>2. /\ lost' \in 0..MaxLost
        /\ DOMAIN pools' = EventPools
        /\ \A p \in EventPools : \E f, e : pools'[p] = [factory |-> f, fee |-> e, pair |-> <<None, None>>]
    <2> DEFINE calls == ({"factory"} \X EventPools) \cup ({"fee"} \X PoolsOfKind({"v3"}))
    <2>1. PICK missing \in Losses(calls, Attempts) :
            /\ pools' = [p \in EventPools |->
                 [factory |-> IF <<"factory", p>> \in ({"factory"} \X EventPools) \ missing
                              THEN PoolFacts[p].factory ELSE None,
                  fee |-> IF <<"fee", p>> \in ({"fee"} \X PoolsOfKind({"v3"})) \ missing
                          THEN PoolFacts[p].fee ELSE None,
                  pair |-> <<None, None>>]]
            /\ Lose(missing, Attempts)
      BY Zenon DEF ResolvePools
    <2> HIDE DEF calls
    <2>2. lost' \in 0..MaxLost BY <2>1, AttemptsType, LostWithin
    <2>3. DOMAIN pools' = EventPools BY <2>1
    <2>4. ASSUME NEW p \in EventPools
          PROVE  \E f, e : pools'[p] = [factory |-> f, fee |-> e, pair |-> <<None, None>>]
      BY <2>1, Zenon
    <2> QED BY <2>2, <2>3, <2>4
  <1>3. TypesSound' BY <1>1, <1>2 DEF TypesSound, Parsed
  <1>4. EventsSound' BY <1>1 DEF EventsSound, Parsed, Ordered
  <1>5. PairsSound'
    <2>1. EventPools' = EventPools BY <1>1 DEF EventPools
    <2>2. \A p \in EventPools :
            /\ pools'[p] = [factory |-> pools'[p].factory, fee |-> pools'[p].fee,
                            pair |-> pools'[p].pair]
            /\ \A side \in 1..2 : pools'[p].pair[side] = None
      <3> SUFFICES ASSUME NEW p \in EventPools
                   PROVE  /\ pools'[p] = [factory |-> pools'[p].factory, fee |-> pools'[p].fee,
                                          pair |-> pools'[p].pair]
                          /\ \A side \in 1..2 : pools'[p].pair[side] = None
        OBVIOUS
      <3>1. PICK f, e : pools'[p] = [factory |-> f, fee |-> e, pair |-> <<None, None>>]
        BY <1>2
      <3> QED BY <3>1
    <2>3. \A p \in EventPools : \A side \in 1..2 :
            pools'[p].pair[side] \in {None, PoolFacts[p].tokens[side]}
      BY <2>2
    <2>4. pc' # "coins" BY <1>1
    <2> QED BY <1>2, <2>1, <2>2, <2>3, <2>4, Zenon DEF PairsSound
  <1>6. PricesSound' /\ SnapshotsSound' /\ PayloadSound'
    BY <1>1 DEF PricesSound, SnapshotsSound, PayloadSound
  <1> QED BY <1>3, <1>4, <1>5, <1>6

IsPool(x) == x = [factory |-> x.factory, fee |-> x.fee, pair |-> x.pair]

LEMMA AnswerSides ==
    ASSUME NEW p, NEW missing, NEW side \in 1..2
    PROVE  Answers(p, missing)[side]
             = IF <<p, side>> \in missing THEN None ELSE PoolFacts[p].tokens[side]
  BY DEF Answers

LEMMA MergedSides ==
    ASSUME NEW current, NEW retried, NEW side \in 1..2
    PROVE  MergePairs(current, retried)[side]
             = IF current[side] # None THEN current[side] ELSE retried[side]
  BY DEF MergePairs

LEMMA WithPair ==
    ASSUME NEW x, IsPool(x), NEW pair
    PROVE  IsPool([x EXCEPT !.pair = pair]) /\ [x EXCEPT !.pair = pair].pair = pair
  BY DEF IsPool

LEMMA ResolvePairsKeeps ==
    ASSUME EnrichmentInvariant, ResolvePairs PROVE EnrichmentInvariant'
  <1> USE DEF EnrichmentInvariant
  <1>1. /\ pc = "pairs" /\ pc' = "pairs again"
        /\ UNCHANGED <<batching, tracing, window, events, metadata, prices, snapshots,
                       payload, tokens, rows, unanswered, history>>
    BY DEF ResolvePairs, Goto
  <1>2. PICK missing \in Losses(PoolsOfKind(StandardKinds) \X {1, 2}, 1) :
          /\ pools' = [p \in DOMAIN pools |->
               IF p \in PoolsOfKind(StandardKinds)
               THEN [pools[p] EXCEPT !.pair = Answers(p, missing)] ELSE pools[p]]
          /\ Lose(missing, 1)
    BY Zenon DEF ResolvePairs
  <1>3. lost' \in 0..MaxLost BY <1>2, LostWithin
  <1>4. TypesSound' BY <1>1, <1>3 DEF TypesSound, Parsed
  <1>5. EventsSound' BY <1>1 DEF EventsSound, Parsed, Ordered
  <1>6. PairsSound'
    <2>1. EventPools' = EventPools BY <1>1 DEF EventPools
    <2>2. /\ DOMAIN pools = EventPools
          /\ \A p \in EventPools : /\ IsPool(pools[p])
                                   /\ \A side \in 1..2 :
                                        pools[p].pair[side] \in {None, PoolFacts[p].tokens[side]}
      BY <1>1 DEF PairsSound, IsPool
    <2>3. ASSUME NEW p \in EventPools
          PROVE  /\ IsPool(pools'[p])
                 /\ \A side \in 1..2 : pools'[p].pair[side] \in {None, PoolFacts[p].tokens[side]}
      <3>1. pools'[p] = IF p \in PoolsOfKind(StandardKinds)
                        THEN [pools[p] EXCEPT !.pair = Answers(p, missing)] ELSE pools[p]
        BY <1>2, <2>2
      <3>2. CASE p \in PoolsOfKind(StandardKinds)
        <4>1. IsPool(pools'[p]) /\ pools'[p].pair = Answers(p, missing)
          BY <2>2, <3>1, <3>2, WithPair
        <4>2. \A side \in 1..2 : Answers(p, missing)[side] =
                IF <<p, side>> \in missing THEN None ELSE PoolFacts[p].tokens[side]
          BY AnswerSides
        <4>3. \A side \in 1..2 : pools'[p].pair[side] = Answers(p, missing)[side] BY <4>1
        <4> QED BY <4>1, <4>2, <4>3
      <3>3. CASE p \notin PoolsOfKind(StandardKinds) BY <2>2, <3>1, <3>3
      <3> QED BY <3>2, <3>3
    <2>4. DOMAIN pools' = EventPools BY <1>2, <2>2
    <2>5. pc' # "coins" BY <1>1
    <2> QED BY <2>1, <2>3, <2>4, <2>5, Zenon DEF PairsSound, IsPool
  <1>7. PricesSound' /\ SnapshotsSound' /\ PayloadSound'
    BY <1>1 DEF PricesSound, SnapshotsSound, PayloadSound
  <1> QED BY <1>4, <1>5, <1>6, <1>7

LEMMA ResolvePairsAgainKeeps ==
    ASSUME EnrichmentInvariant, ResolvePairsAgain PROVE EnrichmentInvariant'
  <1> USE DEF EnrichmentInvariant
  <1>1. /\ pc = "pairs again" /\ pc' = "coins"
        /\ UNCHANGED <<batching, tracing, window, events, metadata, prices, snapshots,
                       payload, tokens, rows, history>>
    BY DEF ResolvePairsAgain, Goto
  <1>2. PICK missing \in Losses(Unresolved \X {1, 2}, 1) :
          /\ pools' = [p \in DOMAIN pools |->
               IF p \in Unresolved
               THEN [pools[p] EXCEPT !.pair = MergePairs(@, Answers(p, missing))]
               ELSE pools[p]]
          /\ unanswered' = {call[1] : call \in
                              {c \in missing : pools[c[1]].pair[c[2]] = None}}
          /\ Lose(missing, 1)
    BY Zenon DEF ResolvePairsAgain
  <1>3. lost' \in 0..MaxLost BY <1>2, LostWithin
  <1>4. TypesSound' BY <1>1, <1>3 DEF TypesSound, Parsed
  <1>5. EventsSound' BY <1>1 DEF EventsSound, Parsed, Ordered
  <1>6. PairsSound'
    <2>1. /\ EventPools' = EventPools
          /\ PoolsOfKind(StandardKinds)' = PoolsOfKind(StandardKinds)
      BY <1>1 DEF EventPools, PoolsOfKind
    <2>2. /\ DOMAIN pools = EventPools
          /\ \A p \in EventPools : /\ IsPool(pools[p])
                                   /\ \A side \in 1..2 :
                                        pools[p].pair[side] \in {None, PoolFacts[p].tokens[side]}
      BY <1>1 DEF PairsSound, IsPool
    <2>3. \A p, side : <<p, side>> \in missing /\ pools[p].pair[side] = None => p \in unanswered'
      <3>1. ASSUME NEW p, NEW side, <<p, side>> \in missing, pools[p].pair[side] = None
            PROVE  p \in unanswered'
        <4>1. <<p, side>>[1] = p /\ <<p, side>>[2] = side OBVIOUS
        <4>2. <<p, side>> \in {c \in missing : pools[c[1]].pair[c[2]] = None} BY <3>1, <4>1
        <4> QED BY <1>2, <4>1, <4>2
      <3> QED BY <3>1
    <2>4. ASSUME NEW p \in EventPools
          PROVE  /\ IsPool(pools'[p])
                 /\ \A side \in 1..2 :
                      pools'[p].pair[side] =
                        IF p \in Unresolved /\ pools[p].pair[side] = None
                        THEN IF <<p, side>> \in missing THEN None ELSE PoolFacts[p].tokens[side]
                        ELSE pools[p].pair[side]
      <3>1. pools'[p] = IF p \in Unresolved
                        THEN [pools[p] EXCEPT !.pair = MergePairs(pools[p].pair, Answers(p, missing))]
                        ELSE pools[p]
        BY <1>2, <2>2
      <3>2. CASE p \in Unresolved
        <4>1. IsPool(pools'[p]) /\ pools'[p].pair = MergePairs(pools[p].pair, Answers(p, missing))
          BY <2>2, <3>1, <3>2, WithPair
        <4> QED BY <3>2, <4>1, AnswerSides, MergedSides
      <3>3. CASE p \notin Unresolved BY <2>2, <3>1, <3>3
      <3> QED BY <3>2, <3>3
    <2>5. \A p \in EventPools : \A side \in 1..2 :
            pools'[p].pair[side] \in {None, PoolFacts[p].tokens[side]}
      <3> SUFFICES ASSUME NEW p \in EventPools, NEW side \in 1..2
                   PROVE  pools'[p].pair[side] \in {None, PoolFacts[p].tokens[side]}
        OBVIOUS
      <3>1. pools[p].pair[side] \in {None, PoolFacts[p].tokens[side]} BY <2>2
      <3>2. pools'[p].pair[side]
              \in {None, PoolFacts[p].tokens[side], pools[p].pair[side]}
        BY <2>4
      <3> QED BY <3>1, <3>2
    <2>6. ASSUME NEW p \in PoolsOfKind(StandardKinds) \ unanswered', NEW side \in 1..2
          PROVE  pools'[p].pair[side] = PoolFacts[p].tokens[side]
      <3>1. p \in EventPools BY DEF PoolsOfKind, EventPools
      <3>2. pools[p].pair[side] = None => p \in Unresolved BY DEF Unresolved
      <3>3. pools[p].pair[side] \in {None, PoolFacts[p].tokens[side]} BY <2>2, <3>1
      <3>4. pools[p].pair[side] = None => <<p, side>> \notin missing BY <2>3
      <3> QED BY <2>4, <3>1, <3>2, <3>3, <3>4
    <2>7. DOMAIN pools' = EventPools BY <1>2, <2>2
    <2>8. \A p \in EventPools : IsPool(pools'[p]) BY <2>4
    <2> QED BY <2>1, <2>5, <2>6, <2>7, <2>8, Zenon DEF PairsSound, IsPool
  <1>7. PricesSound' /\ SnapshotsSound' /\ PayloadSound'
    BY <1>1 DEF PricesSound, SnapshotsSound, PayloadSound
  <1> QED BY <1>4, <1>5, <1>6, <1>7

(* The two tokens an event gets, and whether they are those of its log.    *)
LEMMA CoinsAnswered ==
    ASSUME NEW n \in DOMAIN Logs, IsSwap(Logs[n]), Logs[n].kind \in CurveKinds,
           NEW missing, NEW side \in 1..2
    PROVE  LET coin == CoinAddress(Logs[n].pool, CoinsOf(Logs[n])[side],
                                   Logs[n].kind = "underlying", missing)
           IN  /\ coin \in MaybeToken
               /\ (\A c \in missing : c[1] # Logs[n].pool) /\ CoinsKnown(Logs[n]) =>
                    coin = SideToken(n, side)
  <1> DEFINE w == Logs[n].words
             index == CoinsOf(Logs[n])[side]
             u == Logs[n].kind = "underlying"
             coin == CoinAddress(Logs[n].pool, index, u, missing)
  <1>1. Logs[n].pool \in Pools BY LogTypes
  <1>2. coin = FirstCoin(Logs[n].pool, index, Selectors(u), missing) BY DEF CoinAddress
  <1>3. coin \in MaybeToken
    <2>1. u \in BOOLEAN OBVIOUS
    <2> HIDE DEF u, index
    <2> QED BY <1>1, <1>2, <2>1, FirstCoinType
  <1>4. Signed(w[1]) = w[1] /\ Signed(w[3]) = w[3] BY WordTypes
  <1>5. /\ side = 1 => index = w[1] /\ SideToken(n, side) = Coin(Logs[n], w[1])
        /\ side = 2 => index = w[3] /\ SideToken(n, side) = Coin(Logs[n], w[3])
    BY <1>4 DEF CoinsOf, SideToken
  <1>6. ASSUME \A c \in missing : c[1] # Logs[n].pool, CoinsKnown(Logs[n])
        PROVE  coin = SideToken(n, side)
    <2>1. /\ FirstCoin(Logs[n].pool, w[1], Selectors(u), missing) = Coin(Logs[n], w[1])
          /\ FirstCoin(Logs[n].pool, w[3], Selectors(u), missing) = Coin(Logs[n], w[3])
      <3>1. \A k \in {1, 3} : \E t \in Tokens : CoinsAt(Logs[n], w[k]) = {t}
        BY <1>6 DEF CoinsKnown
      <3> QED BY <1>6, <3>1, FirstCoinIsExchanged
    <2>2. side = 1 \/ side = 2 OBVIOUS
    <2> HIDE DEF w, u, index, coin
    <2> QED BY <1>2, <1>5, <2>1, <2>2
  <1> QED BY <1>3, <1>6

LEMMA PairKnown ==
    ASSUME PairsSound, EventsSound, TypesSound, pc = "coins", NEW i \in DOMAIN events,
           NEW n, n = SwapLogs(window)[i], Logs[n].kind \in StandardKinds, NEW side \in 1..2
    PROVE  /\ pools[Logs[n].pool].pair[side] \in MaybeToken
           /\ Logs[n].pool \notin unanswered =>
                pools[Logs[n].pool].pair[side] = SideToken(n, side)
  <1> DEFINE p == Logs[n].pool
  <1>1. n \in DOMAIN Logs /\ OfLog(n, events[i]) BY EventFacts
  <1>2. p \in PoolsOfKind(StandardKinds) /\ p \in EventPools
    BY <1>1 DEF OfLog, PoolsOfKind, EventPools
  <1>3. p \in Pools BY <1>1, LogTypes
  <1>4. PoolFacts[p].tokens[side] \in MaybeToken BY <1>3, FactsAssumption DEF MaybeToken
  <1>5. SideToken(n, side) = PoolFacts[p].tokens[side]
    BY DEF SideToken, CurveKinds, StandardKinds
  <1> HIDE DEF p
  <1>6. pools[p].pair[side] \in {None, PoolFacts[p].tokens[side]} BY <1>2 DEF PairsSound
  <1>7. p \notin unanswered => pools[p].pair[side] = PoolFacts[p].tokens[side]
    BY <1>2 DEF PairsSound
  <1> QED BY <1>4, <1>5, <1>6, <1>7 DEF p, MaybeToken

LEMMA ResolveCoinsKeeps ==
    ASSUME EnrichmentInvariant, ResolveCoins PROVE EnrichmentInvariant'
  <1> USE DEF EnrichmentInvariant
  <1>1. /\ pc = "coins" /\ pc' = "tokens"
        /\ UNCHANGED <<batching, tracing, window, pools, metadata, prices, snapshots,
                       payload, tokens, rows, history>>
    BY DEF ResolveCoins, Goto
  <1> DEFINE CoinOf(e, k, missing) ==
               CoinAddress(e.pool, CoinsOf(Logs[e.log])[k], e.kind = "underlying", missing)
             logs == SwapLogs(window)
  <1>2. PICK missing \in Losses(CoinCalls, 1) :
          /\ events' = [i \in DOMAIN events |->
               IF events[i].kind \in CurveKinds
               THEN [events[i] EXCEPT !.tokenA = CoinOf(events[i], 1, missing),
                                      !.tokenB = CoinOf(events[i], 2, missing)]
               ELSE [events[i] EXCEPT !.tokenA = pools[events[i].pool].pair[1],
                                      !.tokenB = pools[events[i].pool].pair[2]]]
          /\ unanswered' = unanswered \cup {call[1] : call \in missing}
          /\ Lose(missing, 1)
    BY Zenon DEF ResolveCoins
  <1>3. lost' \in 0..MaxLost BY <1>2, LostWithin
  <1>4. TypesSound' BY <1>1, <1>3 DEF TypesSound, Parsed
  <1>5. DOMAIN events = DOMAIN logs /\ DOMAIN events' = DOMAIN logs
    BY <1>1, <1>2 DEF EventsSound
  <1>6. ASSUME NEW i \in DOMAIN logs
        PROVE  \E a, b \in MaybeToken : /\ Resolved(logs[i], a, b, pools', unanswered')
                                       /\ events'[i] = Found(logs[i], a, b)
    <2> DEFINE n == logs[i]
    <2>1. n \in DOMAIN Logs /\ IsSwap(Logs[n]) /\ OfLog(n, events[i]) BY <1>5, EventFacts
    <2>2. events[i] = Read(n) BY <1>1, <1>5 DEF EventsSound, Parsed
    <2>3. Logs[n].kind \in CurveKinds \cup StandardKinds
      BY <2>1 DEF IsSwap, CurveKinds, StandardKinds
    <2>4. events'[i] = IF Logs[n].kind \in CurveKinds
                       THEN [Read(n) EXCEPT !.tokenA = CoinOf(events[i], 1, missing),
                                            !.tokenB = CoinOf(events[i], 2, missing)]
                       ELSE [Read(n) EXCEPT !.tokenA = pools[Logs[n].pool].pair[1],
                                            !.tokenB = pools[Logs[n].pool].pair[2]]
      <3>1. events[i].kind = Logs[n].kind /\ events[i].pool = Logs[n].pool BY <2>1 DEF OfLog
      <3> HIDE DEF n, logs, CoinOf
      <3> QED BY <1>2, <1>5, <2>2, <3>1
    <2>5. Logs[n].pool \notin unanswered' =>
            /\ Logs[n].pool \notin unanswered
            /\ \A c \in missing : c[1] # Logs[n].pool
      BY <1>2
    <2>6. CASE Logs[n].kind \in CurveKinds
      <3> DEFINE a == CoinOf(events[i], 1, missing)
                 b == CoinOf(events[i], 2, missing)
      <3>1. /\ a = CoinAddress(Logs[n].pool, CoinsOf(Logs[n])[1], Logs[n].kind = "underlying", missing)
            /\ b = CoinAddress(Logs[n].pool, CoinsOf(Logs[n])[2], Logs[n].kind = "underlying", missing)
        BY <2>1, Zenon DEF OfLog
      <3> HIDE DEF a, b, n
      <3>2. /\ a \in MaybeToken
            /\ (\A c \in missing : c[1] # Logs[n].pool) /\ CoinsKnown(Logs[n]) => a = SideToken(n, 1)
        BY <2>1, <2>6, <3>1, CoinsAnswered
      <3>3. /\ b \in MaybeToken
            /\ (\A c \in missing : c[1] # Logs[n].pool) /\ CoinsKnown(Logs[n]) => b = SideToken(n, 2)
        BY <2>1, <2>6, <3>1, CoinsAnswered
      <3>4. Logs[n].kind \notin StandardKinds BY <2>6 DEF CurveKinds, StandardKinds
      <3>5. Resolved(n, a, b, pools', unanswered') BY <2>5, <3>2, <3>3, <3>4 DEF Resolved
      <3>6. events'[i] = Found(n, a, b) BY <2>4, <2>6 DEF Found, a, b
      <3> QED BY <3>2, <3>3, <3>5, <3>6 DEF n
    <2>7. CASE Logs[n].kind \in StandardKinds
      <3> DEFINE a == pools[Logs[n].pool].pair[1]
                 b == pools[Logs[n].pool].pair[2]
      <3>1. /\ a \in MaybeToken
            /\ Logs[n].pool \notin unanswered => a = SideToken(n, 1)
        BY <1>1, <1>5, <2>7, PairKnown
      <3>2. /\ b \in MaybeToken
            /\ Logs[n].pool \notin unanswered => b = SideToken(n, 2)
        BY <1>1, <1>5, <2>7, PairKnown
      <3>3. Logs[n].kind \notin CurveKinds BY <2>7 DEF CurveKinds, StandardKinds
      <3>4. a = pools'[Logs[n].pool].pair[1] /\ b = pools'[Logs[n].pool].pair[2] BY <1>1
      <3> HIDE DEF n
      <3>5. events'[i] = Found(n, a, b) BY <2>4, <3>3 DEF Found
      <3> HIDE DEF a, b
      <3>6. Resolved(n, a, b, pools', unanswered') BY <2>5, <3>1, <3>2, <3>4 DEF Resolved
      <3> QED BY <3>1, <3>2, <3>5, <3>6 DEF n
    <2> QED BY <2>3, <2>6, <2>7
  <1>7. \A i \in DOMAIN logs : events'[i] \in Event /\ OfLog(logs[i], events'[i])
    <2> SUFFICES ASSUME NEW i \in DOMAIN logs
                 PROVE  events'[i] \in Event /\ OfLog(logs[i], events'[i])
      OBVIOUS
    <2>1. PICK a \in MaybeToken, b \in MaybeToken : events'[i] = Found(logs[i], a, b) BY <1>6
    <2>2. logs[i] \in DOMAIN Logs /\ IsSwap(Logs[logs[i]]) BY SwapLogsType
    <2> QED BY <2>1, <2>2, FoundType
  <1>8. events' \in Seq(Event)
    <2>1. DOMAIN logs = 1..Len(logs) /\ Len(logs) \in Nat BY SwapLogsType, LenProperties
    <2>2. events' = [i \in DOMAIN logs |-> events'[i]] BY <1>2, <1>5
    <2> HIDE DEF logs
    <2>3. events' \in [1..Len(logs) -> Event] BY <1>7, <2>1, <2>2
    <2> QED BY <2>1, <2>3, SeqDef
  <1>9. EventsSound'
    <2>1. SwapLogs(window)' = SwapLogs(window) BY <1>1
    <2>2. \A i \in DOMAIN events' : \E a, b \in MaybeToken :
            /\ Resolved(SwapLogs(window)[i], a, b, pools', unanswered')
            /\ events'[i] = Found(SwapLogs(window)[i], a, b)
      BY <1>5, <1>6
    <2> HIDE DEF logs
    <2>3. DOMAIN events' = DOMAIN SwapLogs(window) BY <1>5 DEF logs
    <2> QED BY <1>1, <1>8, <2>1, <2>2, <2>3 DEF EventsSound, Parsed, Ordered
  <1>10. EventPools' = EventPools
    <2>1. \A i \in DOMAIN logs : events'[i].pool = events[i].pool
      BY <1>5, <1>7, EventFacts DEF OfLog
    <2> HIDE DEF logs
    <2> QED BY <1>5, <2>1 DEF EventPools
  <1>11. PairsSound' BY <1>1, <1>10 DEF PairsSound
  <1>12. PricesSound' /\ SnapshotsSound' /\ PayloadSound'
    BY <1>1 DEF PricesSound, SnapshotsSound, PayloadSound
  <1> QED BY <1>4, <1>9, <1>11, <1>12

PairOf(e) == {e.tokenA, e.tokenB}
PairsOf(list) == {PairOf(list[i]) : i \in DOMAIN list}
Held(list) == (UNION PairsOf(list)) \ {None}

LEMMA HeldTokens ==
    ASSUME NEW list, NEW x
    PROVE  x \in Held(list) <=>
             x # None /\ \E i \in DOMAIN list : x \in {list[i].tokenA, list[i].tokenB}
  <1>1. ASSUME NEW i \in DOMAIN list, x \in PairOf(list[i]) PROVE x \in UNION PairsOf(list)
    <2>1. PairOf(list[i]) \in PairsOf(list) BY DEF PairsOf
    <2> QED BY <1>1, <2>1
  <1>2. ASSUME x \in UNION PairsOf(list) PROVE \E i \in DOMAIN list : x \in PairOf(list[i])
    <2>1. PICK s \in PairsOf(list) : x \in s BY <1>2
    <2>2. PICK i \in DOMAIN list : s = PairOf(list[i]) BY <2>1 DEF PairsOf
    <2> QED BY <2>1, <2>2
  <1>3. x \in UNION PairsOf(list) <=> \E i \in DOMAIN list : x \in PairOf(list[i])
    BY <1>1, <1>2, Zenon
  <1>4. x \in Held(list) <=> x # None /\ x \in UNION PairsOf(list) BY DEF Held
  <1> QED BY <1>3, <1>4 DEF PairOf

LEMMA EventTokensKnown ==
    ASSUME events \in Seq(Event)
    PROVE  /\ EventTokens \subseteq Tokens
           /\ \A i \in DOMAIN events :
                {events[i].tokenA, events[i].tokenB} \subseteq EventTokens \cup {None}
  <1>1. \A i \in DOMAIN events : events[i] \in Event BY ElementOfSeq, LenProperties
  <1>2. \A i \in DOMAIN events :
          events[i].tokenA \in MaybeToken /\ events[i].tokenB \in MaybeToken
    BY <1>1 DEF Event
  <1>3. \A x : x \in EventTokens <=>
                 x # None /\ \E i \in DOMAIN events : x \in {events[i].tokenA, events[i].tokenB}
    <2>1. EventTokens = Held(events) BY DEF EventTokens, Held, PairsOf, PairOf
    <2> QED BY <2>1, HeldTokens
  <1>4. EventTokens \subseteq Tokens BY <1>2, <1>3 DEF MaybeToken
  <1>5. ASSUME NEW i \in DOMAIN events
        PROVE  {events[i].tokenA, events[i].tokenB} \subseteq EventTokens \cup {None}
    BY <1>3
  <1> QED BY <1>4, <1>5

LEMMA MetadataType ==
    ASSUME TypesSound, NEW t \in Tokens, NEW missing
    PROVE  Metadata(t, missing) \in Row
  <1>1. tokens[t] # None => tokens[t] \in Row BY DEF TypesSound
  <1>2. TokenFacts[t].decimals \in Nat \cup {None} BY FactsAssumption
  <1>3. DefaultDecimals \in Nat BY PricingAssumption
  <1> DEFINE symbol == t \in UnnamedTokens /\ <<"symbol", t>> \notin missing /\ TokenFacts[t].symbol
             decimals == IF <<"decimals", t>> \in missing THEN None ELSE TokenFacts[t].decimals
  <1>4. CASE tokens[t] # None
    <2>1. Metadata(t, missing) =
            [named |-> tokens[t].named \/ symbol, decimals |-> tokens[t].decimals,
             stable |-> tokens[t].stable \/ TokenFacts[t].hint]
      BY <1>4 DEF Metadata
    <2>2. /\ (tokens[t].named \/ symbol) \in BOOLEAN
          /\ (tokens[t].stable \/ TokenFacts[t].hint) \in BOOLEAN
      OBVIOUS
    <2>3. tokens[t].decimals \in Nat BY <1>1, <1>4 DEF Row
    <2> HIDE DEF symbol
    <2> QED BY <2>1, <2>2, <2>3 DEF Row
  <1>5. CASE tokens[t] = None
    <2>1. Metadata(t, missing) =
            [named |-> symbol,
             decimals |-> IF decimals = None THEN DefaultDecimals ELSE decimals,
             stable |-> TokenFacts[t].hint]
      BY <1>5 DEF Metadata
    <2>2. symbol \in BOOLEAN /\ TokenFacts[t].hint \in BOOLEAN BY FactsAssumption
    <2>3. decimals \in Nat \cup {None} BY <1>2
    <2> HIDE DEF symbol, decimals
    <2> QED BY <1>3, <2>1, <2>2, <2>3 DEF Row
  <1> QED BY <1>4, <1>5

LEMMA ResolveTokensKeeps ==
    ASSUME EnrichmentInvariant, ResolveTokens PROVE EnrichmentInvariant'
  <1> USE DEF EnrichmentInvariant
  <1>1. /\ pc = "tokens" /\ pc' = "balances"
        /\ UNCHANGED <<batching, tracing, window, pools, snapshots, payload, tokens, rows,
                       unanswered, history>>
        /\ events' = [i \in DOMAIN events |-> Reorder(events[i])]
    BY DEF ResolveTokens, Goto
  <1> DEFINE calls == ({"decimals"} \X NewTokens) \cup ({"symbol"} \X UnnamedTokens)
             logs == SwapLogs(window)
  <1>2. PICK missing \in Losses(calls, Attempts) :
          /\ metadata' = [t \in EventTokens |-> Metadata(t, missing)]
          /\ prices' = InferPrices(events', metadata')
          /\ Lose(missing, Attempts)
    BY Zenon DEF ResolveTokens
  <1>3. lost' \in 0..MaxLost
    <2> HIDE DEF calls
    <2> QED BY <1>2, LostWithin, AttemptsType
  <1>4. events \in Seq(Event) /\ DOMAIN events = DOMAIN logs
    BY <1>1 DEF EventsSound
  <1>5. \A i \in DOMAIN events : events[i] \in Event BY <1>4, ElementOfSeq, LenProperties
  <1>6. \A i \in DOMAIN events :
          /\ events'[i] = Reorder(events[i]) /\ events'[i] \in Event
          /\ {events'[i].tokenA, events'[i].tokenB} = {events[i].tokenA, events[i].tokenB}
          /\ events'[i].pool = events[i].pool
    <2> SUFFICES ASSUME NEW i \in DOMAIN events
                 PROVE  /\ events'[i] = Reorder(events[i]) /\ events'[i] \in Event
                        /\ {events'[i].tokenA, events'[i].tokenB}
                             = {events[i].tokenA, events[i].tokenB}
                        /\ events'[i].pool = events[i].pool
      OBVIOUS
    <2>1. events'[i] = Reorder(events[i]) BY <1>1
    <2>2. events[i] \in Event BY <1>5
    <2>3. OfLog(logs[i], events[i]) BY EventFacts
    <2> HIDE DEF logs
    <2>4. /\ Reorder(events[i]) \in Event /\ OfLog(logs[i], Reorder(events[i]))
          /\ {Reorder(events[i]).tokenA, Reorder(events[i]).tokenB}
                = {events[i].tokenA, events[i].tokenB}
      BY <2>2, <2>3, ReorderTells
    <2> QED BY <2>1, <2>3, <2>4 DEF OfLog
  <1>7. DOMAIN events' = DOMAIN events BY <1>1
  <1>8. EventTokens' = EventTokens /\ EventPools' = EventPools
    <2>1. EventPools' = EventPools BY <1>6, <1>7 DEF EventPools
    <2>2. EventTokens = Held(events) /\ EventTokens' = Held(events') BY DEF EventTokens, Held, PairsOf, PairOf
    <2>3. \A x : x \in Held(events') <=> x \in Held(events)
      BY <1>6, <1>7, HeldTokens
    <2> QED BY <2>1, <2>2, <2>3
  <1>9. events' \in Seq(Event)
    <2>1. DOMAIN events = 1..Len(events) /\ Len(events) \in Nat BY <1>4, LenProperties
    <2>2. events' \in [1..Len(events) -> Event] BY <1>1, <1>6, <2>1
    <2> QED BY <2>1, <2>2, SeqDef
  <1>10. IsMetadata(metadata') /\ DOMAIN metadata' = EventTokens
    <2>1. EventTokens \subseteq Tokens BY <1>4, EventTokensKnown
    <2>2. \A t \in EventTokens : Metadata(t, missing) \in Row BY <2>1, MetadataType
    <2> QED BY <1>2, <2>1, <2>2 DEF IsMetadata
  <1>11. IsPriced(events', metadata')
    <2>1. DOMAIN events' = 1..Len(events) /\ Len(events) \in Nat BY <1>4, <1>7, LenProperties
    <2>2. IsFiniteSet(1..Len(events)) /\ 1..Len(events) \subseteq Nat BY <2>1, FS_Interval
    <2>3. ASSUME NEW i \in DOMAIN events' PROVE Priceable(events'[i], metadata')
      <3>1. events'[i] \in Event /\ i \in DOMAIN events BY <1>6, <1>7
      <3>2. events'[i].amountA \in Nat /\ events'[i].amountB \in Nat BY <3>1 DEF Event
      <3>3. {events[i].tokenA, events[i].tokenB} \subseteq EventTokens \cup {None}
        BY <1>4, <3>1, EventTokensKnown
      <3>4. {events'[i].tokenA, events'[i].tokenB} \subseteq EventTokens \cup {None}
        BY <1>6, <3>1, <3>3
      <3> QED BY <1>10, <3>2, <3>4 DEF Priceable
    <2> QED BY <1>10, <2>1, <2>2, <2>3 DEF IsPriced
  <1>12. prices' \in PriceMaps BY <1>2, <1>11, InferPricesType
  <1>13. TypesSound' BY <1>1, <1>3, <1>12 DEF TypesSound, Ordered
  <1>14. EventsSound'
    <2>1. \A i \in DOMAIN events' : \E a, b \in MaybeToken :
            /\ Resolved(SwapLogs(window)[i], a, b, pools, unanswered)
            /\ events'[i] = Reorder(Found(SwapLogs(window)[i], a, b))
      <3>1. \A i \in DOMAIN events : \E a, b \in MaybeToken :
              /\ Resolved(SwapLogs(window)[i], a, b, pools, unanswered)
              /\ events[i] = Found(SwapLogs(window)[i], a, b)
        BY <1>1 DEF EventsSound
      <3> QED BY <1>6, <1>7, <3>1
    <2> QED BY <1>1, <1>4, <1>7, <1>9, <2>1 DEF EventsSound, Ordered, Parsed
  <1>15. PairsSound' BY <1>1, <1>8 DEF PairsSound
  <1>16. PricesSound' BY <1>1, <1>2, <1>8, <1>10 DEF PricesSound
  <1>17. SnapshotsSound' /\ PayloadSound' BY <1>1 DEF SnapshotsSound, PayloadSound
  <1> QED BY <1>13, <1>14, <1>15, <1>16, <1>17

(* A part of a sum is at most the whole, also after both are reduced.      *)
LEMMA ShareIsAFraction ==
    ASSUME NEW p \in Ratios, NEW q \in Ratios, Plus(p, q)[1] # 0
    PROVE  AtMost(Over(p, Plus(p, q)), <<1, 1>>)
  <1>1. p[1] \in Nat /\ p[2] \in Nat \ {0} /\ q[1] \in Nat /\ q[2] \in Nat \ {0} BY DEF Ratios
  <1> DEFINE s == Plus(p, q)
             r == Over(p, s)
  <1>2. s \in Ratios BY RatioTypes
  <1>3. /\ p[1] * q[2] + q[1] * p[2] \in Nat /\ p[2] * q[2] \in Nat \ {0}
    BY <1>1, Products, Zenon
  <1>4. PICK g \in Nat \ {0} : /\ p[1] * q[2] + q[1] * p[2] = g * s[1]
                               /\ p[2] * q[2] = g * s[2]
    BY <1>3, LowestTerms DEF Plus
  <1>5. s[1] \in Nat \ {0} /\ s[2] \in Nat \ {0} BY <1>2 DEF Ratios
  <1> HIDE DEF s
  <1>6. p[1] * s[2] \in Nat /\ p[2] * s[1] \in Nat \ {0} BY <1>1, <1>5, Products, Zenon
  <1>7. PICK h \in Nat \ {0} : p[1] * s[2] = h * r[1] /\ p[2] * s[1] = h * r[2]
    BY <1>6, LowestTerms DEF Over
  <1>8. r \in Ratios BY <1>6, LowestTerms DEF Over
  <1>9. r[1] \in Nat /\ r[2] \in Nat BY <1>8 DEF Ratios
  <1> HIDE DEF r
  <1>10. p[1] * s[2] <= p[2] * s[1]
    <2>1. PICK a \in Nat, b \in Nat, c \in Nat, d \in Nat, m \in Nat, n \in Nat :
            a = p[1] /\ b = p[2] /\ c = q[1] /\ d = q[2] /\ m = s[1] /\ n = s[2]
      BY <1>1, <1>5
    <2>2. a * d + c * b = g * m /\ b * d = g * n BY <1>4, <2>1
    <2>3. a * (b * d) <= b * (a * d + c * b)
      <3>1. b * (a * d + c * b) = a * (b * d) + b * (c * b) /\ b * (c * b) >= 0 BY <2>1
      <3>2. a * (b * d) \in Nat /\ b * (c * b) \in Nat BY <2>1
      <3> QED BY <3>1, <3>2
    <2>4. a * (g * n) <= b * (g * m) BY <2>2, <2>3
    <2>5. g * (a * n) <= g * (b * m) BY <2>4
    <2>6. a * n <= b * m BY <2>5
    <2> QED BY <2>1, <2>6
  <1>11. h * r[1] <= h * r[2] BY <1>7, <1>10
  <1>12. r[1] <= r[2] BY <1>9, <1>11
  <1>13. r[1] * 1 <= 1 * r[2] BY <1>9, <1>12
  <1> QED BY <1>13 DEF AtMost, r, s

(* The tokens of a standard pool of the scan that are known.               *)
LEMMA PairIsHeld ==
    ASSUME EnrichmentInvariant, pc \in Ordered, NEW p \in PoolsOfKind(StandardKinds),
           NEW side \in 1..2, pools[p].pair[side] # None
    PROVE  pools[p].pair[side] \in EventTokens
  <1> USE DEF EnrichmentInvariant
  <1>1. PICK i \in DOMAIN events : events[i].kind \in StandardKinds /\ events[i].pool = p
    BY DEF PoolsOfKind
  <1> DEFINE n == SwapLogs(window)[i]
  <1>2. n \in DOMAIN Logs /\ IsSwap(Logs[n]) /\ OfLog(n, events[i]) BY EventFacts
  <1>3. PICK a \in MaybeToken, b \in MaybeToken :
          Resolved(n, a, b, pools, unanswered) /\ events[i] = Reorder(Found(n, a, b))
    BY DEF EventsSound
  <1> HIDE DEF n
  <1>4. a = pools[p].pair[1] /\ b = pools[p].pair[2]
    BY <1>1, <1>2, <1>3 DEF Resolved, OfLog
  <1>5. {events[i].tokenA, events[i].tokenB} = {a, b}
    BY <1>2, <1>3, FoundType, ReorderTells
  <1>6. pools[p].pair[side] \in {a, b} BY <1>4
  <1>7. EventTokens = Held(events) BY DEF EventTokens, Held, PairsOf, PairOf
  <1> QED BY <1>5, <1>6, <1>7, HeldTokens

LEMMA ValueType ==
    ASSUME EnrichmentInvariant, pc = "balances", NEW p \in ValuedPools, NEW side \in 1..2,
           NEW missing, ValueUsd(p, side, missing) # None
    PROVE  ValueUsd(p, side, missing) \in Ratios
  <1> DEFINE t == pools[p].pair[side]
  <1>1. p \in PoolsOfKind(StandardKinds) /\ t # None BY DEF ValuedPools
  <1>2. t \in EventTokens BY <1>1, PairIsHeld DEF Ordered
  <1>3. events \in Seq(Event) BY DEF EnrichmentInvariant, EventsSound
  <1>4. t \in Tokens BY <1>2, <1>3, EventTokensKnown
  <1>5. metadata[t] \in Row BY <1>2 DEF EnrichmentInvariant, PricesSound, IsMetadata
  <1>6. p \in Pools
    <2>1. \A i \in DOMAIN events : events[i] \in Event BY <1>3, ElementOfSeq, LenProperties
    <2> QED BY <1>1, <2>1 DEF PoolsOfKind, Event
  <1>7. PoolFacts[p].balances[side] \in Nat BY <1>6, FactsAssumption
  <1>8. Amount(PoolFacts[p].balances[side], metadata[t].decimals) \in Ratios
    BY <1>5, <1>7, AmountType DEF Row
  <1>9. /\ ValueUsd(p, side, missing)
             = Times(Amount(PoolFacts[p].balances[side], metadata[t].decimals), Price(t))
        /\ Price(t) # None
    BY DEF ValueUsd
  <1> HIDE DEF t
  <1>10. Price(t) \in Ratios
    <2>1. <<1, 1>> \in Ratios BY DEF Ratios
    <2>2. prices[t] \in Ratios \cup {None} BY <1>4 DEF EnrichmentInvariant, TypesSound, PriceMaps
    <2> QED BY <1>9, <2>1, <2>2 DEF Price
  <1> QED BY <1>8, <1>9, <1>10, RatioTypes

LEMMA SnapshotFits ==
    ASSUME EnrichmentInvariant, pc = "balances", NEW p \in ValuedPools, NEW missing,
           Snapshot(p, missing) # None
    PROVE  FitsTable(Snapshot(p, missing))
  <1> DEFINE a == ValueUsd(p, 1, missing)
             b == ValueUsd(p, 2, missing)
  <1>1. a # None /\ b # None BY DEF Snapshot
  <1>2. a \in Ratios /\ b \in Ratios BY <1>1, ValueType
  <1>3. /\ ~AtMost(<<DecimalLimit, 1>>, Plus(a, b))
        /\ Snapshot(p, missing) =
             [tvl |-> Plus(a, b),
              share |-> IF Plus(a, b)[1] = 0 THEN <<1, 2>> ELSE Over(a, Plus(a, b))]
    BY DEF Snapshot
  <1> HIDE DEF a, b
  <1>4. AtMost(<<1, 2>>, <<1, 1>>) BY DEF AtMost
  <1>5. AtMost(Snapshot(p, missing).share, <<1, 1>>)
    BY <1>2, <1>3, <1>4, ShareIsAFraction
  <1> QED BY <1>3, <1>5 DEF FitsTable

LEMMA ResolveSnapshotsKeeps ==
    ASSUME EnrichmentInvariant, ResolveSnapshots PROVE EnrichmentInvariant'
  <1>1. /\ pc = "balances" /\ pc' = "blocks"
        /\ UNCHANGED <<batching, tracing, window, events, pools, metadata, prices, payload,
                       tokens, rows, unanswered, history>>
    BY DEF ResolveSnapshots, Goto
  <1>2. PICK missing \in Losses(ValuedPools \X {1, 2}, 1) :
          snapshots' = [p \in ValuedPools |-> Snapshot(p, missing)] /\ Lose(missing, 1)
    BY DEF ResolveSnapshots
  <1> USE DEF EnrichmentInvariant
  <1>3. lost' \in 0..MaxLost BY <1>2, LostWithin
  <1>4. SnapshotsSound'
    <2>1. \A p \in ValuedPools : Snapshot(p, missing) # None => FitsTable(Snapshot(p, missing))
      BY <1>1, SnapshotFits
    <2>2. DOMAIN snapshots' = ValuedPools
          /\ \A p \in ValuedPools : snapshots'[p] = Snapshot(p, missing)
      BY <1>2
    <2>3. \A p \in DOMAIN snapshots' : snapshots'[p] # None => FitsTable(snapshots'[p])
      BY <2>1, <2>2
    <2> QED BY <2>3 DEF SnapshotsSound, FitsTable
  <1>5. TypesSound' BY <1>1, <1>3 DEF TypesSound, Ordered, Parsed
  <1>6. EventsSound' BY <1>1 DEF EventsSound, Ordered, Parsed
  <1>7. EventPools' = EventPools /\ EventTokens' = EventTokens
    BY <1>1 DEF EventPools, EventTokens
  <1>8. PairsSound' BY <1>1, <1>7 DEF PairsSound
  <1>9. PricesSound' BY <1>1, <1>7 DEF PricesSound
  <1>10. PayloadSound' BY <1>1 DEF PayloadSound
  <1> QED BY <1>4, <1>5, <1>6, <1>8, <1>9, <1>10

(* What a set of transfers pays, as a total of the community modules.      *)
Paid(S) == MapThenSumSet(LAMBDA transfer : transfer.value, S)
PaidSums(g, S) ==
    g = [s \in SUBSET S |-> IF s = {} THEN 0 ELSE Chosen(s).value + g[s \ {Chosen(s)}]]

LEMMA PaidIsChosen == ASSUME NEW S PROVE Paid(S) = (CHOOSE g : PaidSums(g, S))[S]
  BY Zenon DEF Paid, PaidSums, Chosen, MapThenSumSet, MapThenFoldSet

LEMMA PaidIsATotal ==
    ASSUME NEW S PROVE Paid(S) = Total([x \in S |-> x.value], S)
  <1> DEFINE f == [x \in S |-> x.value]
  <1>1. ASSUME NEW s \in SUBSET S, s # {} PROVE f[Chosen(s)] = Chosen(s).value
    BY <1>1, ChosenElement
  <1>2. \A g : PaidSums(g, S) <=> Sums(g, f, S)
    <2> SUFFICES ASSUME NEW g PROVE PaidSums(g, S) <=> Sums(g, f, S)
      OBVIOUS
    <2> DEFINE value(s) == IF s = {} THEN 0 ELSE Chosen(s).value + g[s \ {Chosen(s)}]
               total(s) == IF s = {} THEN 0 ELSE f[Chosen(s)] + g[s \ {Chosen(s)}]
    <2>1. \A s \in SUBSET S : value(s) = total(s)
      <3> SUFFICES ASSUME NEW s \in SUBSET S PROVE value(s) = total(s)
        OBVIOUS
      <3>1. s # {} => f[Chosen(s)] = Chosen(s).value BY <1>1
      <3> HIDE DEF f
      <3> QED BY <3>1
    <2>2. PaidSums(g, S) <=> g = [s \in SUBSET S |-> value(s)] BY DEF PaidSums
    <2>3. Sums(g, f, S) <=> g = [s \in SUBSET S |-> total(s)] BY DEF Sums
    <2> HIDE DEF value, total
    <2>4. [s \in SUBSET S |-> value(s)] = [s \in SUBSET S |-> total(s)] BY <2>1
    <2> QED BY <2>2, <2>3, <2>4
  <1> HIDE DEF f
  <1>3. (CHOOSE g : PaidSums(g, S)) = (CHOOSE g : Sums(g, f, S)) BY <1>2
  <1>4. Paid(S) = Total(f, S) BY <1>3, PaidIsChosen, TotalIsChosen
  <1> QED BY <1>4 DEF f

LEMMA PaidIsNatural ==
    ASSUME NEW tx \in DOMAIN Transfers, NEW S \in SUBSET Transfers[tx]
    PROVE  Paid(S) \in Nat
  <1> DEFINE f == [x \in S |-> x.value]
  <1>1. IsFiniteSet(S) /\ \A x \in S : x.value \in Nat BY LogsAssumption, FS_Subset
  <1>2. f \in [S -> Int] /\ \A x \in S : f[x] >= 0 BY <1>1
  <1>3. S \in SUBSET S /\ {} \in SUBSET S OBVIOUS
  <1> HIDE DEF f
  <1>4. Total(f, S) \in Int BY <1>1, <1>2, <1>3, TotalType
  <1>5. Total(f, {}) <= Total(f, S) BY <1>1, <1>2, <1>3, TotalGrows
  <1>6. Total(f, S) \in Nat BY <1>4, <1>5, TotalEmpty
  <1> QED BY <1>6, PaidIsATotal DEF f

(* A table that is built from one row for each key.                        *)
LEMMA KeyedByAddress ==
    ASSUME NEW K, IsFiniteSet(K), NEW row, row = [k \in K |-> row[k]],
           \A k \in K : row[k].address = k, NEW S, S = {row[k] : k \in K}
    PROVE  /\ {x.address : x \in S} = K
           /\ Cardinality(S) = Cardinality({x.address : x \in S})
  <1>1. {x.address : x \in S} = K OBVIOUS
  <1>2. row \in [K -> S] /\ \A x, y \in K : row[x] = row[y] => x = y OBVIOUS
  <1>3. Range(row) = S BY DEF Range
  <1>4. Cardinality(Range(row)) = Cardinality(K) BY <1>2, InjectiveImage
  <1> QED BY <1>1, <1>3, <1>4

LEMMA KeyedByHash ==
    ASSUME NEW S, IsFiniteSet(S), \A x, y \in S : x.hash = y.hash => x = y
    PROVE  Cardinality(S) = Cardinality({x.hash : x \in S})
  <1> DEFINE key == [x \in S |-> x.hash]
             K == {x.hash : x \in S}
  <1>1. key \in [S -> K] /\ \A x, y \in S : key[x] = key[y] => x = y OBVIOUS
  <1>2. Range(key) = K BY DEF Range
  <1> HIDE DEF key, K
  <1>3. Cardinality(Range(key)) = Cardinality(S) BY <1>1, InjectiveImage
  <1> QED BY <1>2, <1>3 DEF K

LEMMA EventsFinite ==
    ASSUME events \in Seq(Event)
    PROVE  /\ \A i \in DOMAIN events : events[i] \in Event
           /\ IsFiniteSet(Range(events)) /\ IsFiniteSet(EventPools) /\ IsFiniteSet(EventTokens)
           /\ EventPools = {e.pool : e \in Range(events)}
  <1>1. \A i \in DOMAIN events : events[i] \in Event BY ElementOfSeq, LenProperties
  <1>2. IsFiniteSet(DOMAIN events)
    <2>1. DOMAIN events = 1..Len(events) /\ Len(events) \in Nat BY LenProperties
    <2> QED BY <2>1, FS_Interval
  <1>3. events \in [DOMAIN events -> Event] BY <1>1, LenProperties
  <1>4. IsFiniteSet(Range(events)) BY <1>2, <1>3, FiniteImage
  <1> DEFINE pool == [e \in Range(events) |-> e.pool]
  <1>5. pool \in [Range(events) -> Range(pool)] BY DEF Range
  <1>6. EventPools = {e.pool : e \in Range(events)} BY DEF EventPools, Range
  <1>7. Range(pool) = {e.pool : e \in Range(events)} BY DEF Range
  <1> HIDE DEF pool
  <1>8. IsFiniteSet(Range(pool)) BY <1>4, <1>5, FiniteImage
  <1>9. IsFiniteSet(EventTokens) BY EventTokensKnown, PricingAssumption, FS_Subset
  <1> QED BY <1>1, <1>4, <1>6, <1>7, <1>8, <1>9

(* The swaps of the payload are those of the events that have a side.      *)
LEMMA SidedEventsAreEvents ==
    ASSUME events \in Seq(Event)
    PROVE  /\ \A k \in DOMAIN SidedEvents : SidedEvents[k] \in Range(events)
           /\ \A i \in DOMAIN events : events[i].side # None =>
                \E k \in DOMAIN SidedEvents : SidedEvents[k] = events[i]
           /\ \A missing :
                /\ DOMAIN Payload(missing).swaps = DOMAIN SidedEvents
                /\ \A k \in DOMAIN SidedEvents :
                     Payload(missing).swaps[k]
                       = [log |-> SidedEvents[k].log, swap |-> SwapWrite(SidedEvents[k])]
  <1> DEFINE places == {i \in DOMAIN events : events[i].side # None}
  <1>1. places \in SUBSET (DOMAIN events) OBVIOUS
  <1>2. SidedEvents = RowsAt(events, places) BY DEF SidedEvents
  <1>3. /\ \A k \in DOMAIN RowsAt(events, places) :
             \E i \in places : RowsAt(events, places)[k] = events[i]
        /\ \A i \in places : events[i] \in Range(RowsAt(events, places))
    <2> HIDE DEF places
    <2> QED BY <1>1, RowsAtPlaces
  <1>4. \A k \in DOMAIN SidedEvents : SidedEvents[k] \in Range(events)
    BY <1>2, <1>3 DEF Range
  <1>5. \A i \in places : \E k \in DOMAIN SidedEvents : SidedEvents[k] = events[i]
    <2> HIDE DEF places
    <2> QED BY <1>2, <1>3 DEF Range
  <1>6. ASSUME NEW missing
        PROVE  /\ DOMAIN Payload(missing).swaps = DOMAIN SidedEvents
               /\ \A k \in DOMAIN SidedEvents :
                    Payload(missing).swaps[k]
                      = [log |-> SidedEvents[k].log, swap |-> SwapWrite(SidedEvents[k])]
    <2>1. Payload(missing).swaps
            = [k \in DOMAIN SidedEvents |->
                 [log |-> SidedEvents[k].log, swap |-> SwapWrite(SidedEvents[k])]]
      BY DEF Payload
    <2> QED BY <2>1
  <1> QED BY <1>4, <1>5, <1>6

LEMMA PayloadHoldsSwaps ==
    ASSUME EnrichmentInvariant, pc = "blocks", NEW missing
    PROVE  HoldsSwaps(Payload(missing), window)
  <1> USE DEF EnrichmentInvariant
  <1> SUFFICES ASSUME NEW n \in Range(SwapLogs(window)), TradeOf(Logs[n]) # None
               PROVE  n \in {Payload(missing).swaps[k].log : k \in DOMAIN Payload(missing).swaps}
    BY DEF HoldsSwaps
  <1>1. PICK i \in DOMAIN SwapLogs(window) : n = SwapLogs(window)[i] BY DEF Range
  <1>2. i \in DOMAIN events /\ events \in Seq(Event) BY <1>1 DEF EventsSound
  <1>3. PICK a \in MaybeToken, b \in MaybeToken : events[i] = Reorder(Found(n, a, b))
    BY <1>1, <1>2 DEF EventsSound, Ordered
  <1>4. n \in DOMAIN Logs /\ IsSwap(Logs[n]) /\ OfLog(n, events[i]) BY <1>1, <1>2, EventFacts
  <1>5. Found(n, a, b) \in Event /\ Found(n, a, b).side # None
    BY <1>4, FoundType, FoundTells
  <1>6. events[i].side # None BY <1>3, <1>5, ReorderTells
  <1>7. PICK k \in DOMAIN SidedEvents : SidedEvents[k] = events[i]
    BY <1>2, <1>6, SidedEventsAreEvents
  <1>8. k \in DOMAIN Payload(missing).swaps /\ Payload(missing).swaps[k].log = n
    <2>1. /\ k \in DOMAIN Payload(missing).swaps
          /\ Payload(missing).swaps[k]
               = [log |-> SidedEvents[k].log, swap |-> SwapWrite(SidedEvents[k])]
      BY <1>2, <1>7, SidedEventsAreEvents
    <2> QED BY <1>4, <1>7, <2>1 DEF OfLog
  <1> QED BY <1>8

TokenRow(t) == [address |-> t, named |-> metadata[t].named,
                decimals |-> StoredDecimals(metadata[t].decimals), stable |-> metadata[t].stable]
PoolRow(p) == [address |-> p, dex |-> pools[p].factory, fee |-> Fee(p),
               snapshot |-> IF p \in DOMAIN snapshots THEN snapshots[p] ELSE None]
TransactionRow(e, missing) ==
    [hash |-> e.tx, block |-> e.block, bribe |-> Bribe(e.tx, e.block, missing)]

LEMMA PayloadRows ==
    ASSUME NEW missing
    PROVE  /\ Payload(missing).tokens = {TokenRow(t) : t \in EventTokens}
           /\ Payload(missing).pools = {PoolRow(p) : p \in EventPools}
           /\ Payload(missing).dexes = {pools[p].factory : p \in EventPools}
           /\ Payload(missing).transactions
                = {TransactionRow(e, missing) : e \in Range(events)}
  BY DEF Payload, TokenRow, PoolRow, TransactionRow

LEMMA PayloadWritesTokens ==
    ASSUME EnrichmentInvariant, pc = "blocks", NEW missing
    PROVE  /\ TokenWrites(Payload(missing))
           /\ Cardinality(Payload(missing).tokens)
                = Cardinality({x.address : x \in Payload(missing).tokens})
  <1> DEFINE row == [t \in EventTokens |-> TokenRow(t)]
             S == Payload(missing).tokens
  <1>1. events \in Seq(Event) BY DEF EnrichmentInvariant, EventsSound
  <1>2. IsFiniteSet(EventTokens) BY <1>1, EventsFinite
  <1>3. S = {TokenRow(t) : t \in EventTokens} BY PayloadRows
  <1>4. S = {row[t] : t \in EventTokens} BY <1>3
  <1>5. row = [t \in EventTokens |-> row[t]] /\ \A t \in EventTokens : row[t].address = t
    BY DEF TokenRow
  <1>6. \A t \in EventTokens : /\ TokenRow(t).named \in BOOLEAN /\ TokenRow(t).stable \in BOOLEAN
                               /\ TokenRow(t).decimals \in Nat
    <2> SUFFICES ASSUME NEW t \in EventTokens
                 PROVE  /\ TokenRow(t).named \in BOOLEAN /\ TokenRow(t).stable \in BOOLEAN
                        /\ TokenRow(t).decimals \in Nat
      OBVIOUS
    <2>1. metadata[t] \in Row BY DEF EnrichmentInvariant, PricesSound, IsMetadata
    <2>2. StoredDecimals(metadata[t].decimals) \in Nat
      BY <2>1, PricingAssumption DEF StoredDecimals, Row
    <2> QED BY <2>1, <2>2 DEF TokenRow, Row
  <1> HIDE DEF row, S
  <1>7. {x.address : x \in S} = EventTokens /\ Cardinality(S) = Cardinality({x.address : x \in S})
    BY <1>2, <1>4, <1>5, KeyedByAddress
  <1>8. \A w \in S : w.named \in BOOLEAN /\ w.stable \in BOOLEAN /\ w.decimals \in Nat
    BY <1>3, <1>6
  <1> QED BY <1>7, <1>8 DEF TokenWrites, S

LEMMA PayloadWritesPools ==
    ASSUME EnrichmentInvariant, NEW missing
    PROVE  LET S == Payload(missing).pools IN
           /\ {x.address : x \in S} = EventPools
           /\ Cardinality(S) = Cardinality({x.address : x \in S})
           /\ \A x \in S : x.dex \in Payload(missing).dexes
  <1> DEFINE row == [p \in EventPools |-> PoolRow(p)]
             S == Payload(missing).pools
  <1>1. IsFiniteSet(EventPools) BY EventsFinite DEF EnrichmentInvariant, EventsSound
  <1>2. S = {PoolRow(p) : p \in EventPools} BY PayloadRows
  <1>3. S = {row[p] : p \in EventPools} BY <1>2
  <1>4. row = [p \in EventPools |-> row[p]] /\ \A p \in EventPools : row[p].address = p
    BY DEF PoolRow
  <1>5. \A x \in S : x.dex \in Payload(missing).dexes BY <1>2, PayloadRows DEF PoolRow
  <1> HIDE DEF row, S
  <1>6. {x.address : x \in S} = EventPools /\ Cardinality(S) = Cardinality({x.address : x \in S})
    BY <1>1, <1>3, <1>4, KeyedByAddress
  <1> QED BY <1>5, <1>6 DEF S

LEMMA PayloadWritesTransactions ==
    ASSUME EnrichmentInvariant, pc = "blocks", NEW missing
    PROVE  LET S == Payload(missing).transactions IN
           /\ {x.hash : x \in S} = {e.tx : e \in Range(events)}
           /\ Cardinality(S) = Cardinality({x.hash : x \in S})
  <1> USE DEF EnrichmentInvariant
  <1> DEFINE row == [e \in Range(events) |-> TransactionRow(e, missing)]
             S == Payload(missing).transactions
  <1>1. events \in Seq(Event) BY DEF EventsSound
  <1>2. S = {TransactionRow(e, missing) : e \in Range(events)} BY PayloadRows
  <1>3. IsFiniteSet(S)
    <2>1. row \in [Range(events) -> Range(row)] /\ Range(row) = S BY <1>2 DEF Range
    <2>2. IsFiniteSet(Range(events)) BY <1>1, EventsFinite
    <2> HIDE DEF row, S
    <2> QED BY <2>1, <2>2, FiniteImage
  <1>4. ASSUME NEW x \in S, NEW y \in S, x.hash = y.hash PROVE x = y
    <2>1. PICK i \in DOMAIN events : x = TransactionRow(events[i], missing) BY <1>2 DEF Range
    <2>2. PICK j \in DOMAIN events : y = TransactionRow(events[j], missing) BY <1>2 DEF Range
    <2>3. events[i].tx = events[j].tx BY <1>4, <2>1, <2>2 DEF TransactionRow
    <2>4. PICK m \in DOMAIN Logs : events[i].tx = Logs[m].tx /\ events[i].block = Logs[m].block
      BY EventFacts DEF OfLog
    <2>5. PICK n \in DOMAIN Logs : events[j].tx = Logs[n].tx /\ events[j].block = Logs[n].block
      BY EventFacts DEF OfLog
    <2>6. events[i].block = events[j].block BY <2>3, <2>4, <2>5, LogsAssumption
    <2> QED BY <2>1, <2>2, <2>3, <2>6 DEF TransactionRow
  <1>5. {x.hash : x \in S} = {e.tx : e \in Range(events)}
    <2>1. \A e : TransactionRow(e, missing).hash = e.tx BY DEF TransactionRow
    <2> HIDE DEF S
    <2> QED BY <1>2, <2>1
  <1> HIDE DEF row, S
  <1>6. Cardinality(S) = Cardinality({x.hash : x \in S}) BY <1>3, <1>4, KeyedByHash
  <1> QED BY <1>5, <1>6 DEF S

LEMMA PayloadIsBuilt ==
    ASSUME EnrichmentInvariant, pc = "blocks", NEW missing
    PROVE  BuiltPayload(Payload(missing))
  <1> DEFINE P == Payload(missing)
  <1>1. events \in Seq(Event) BY DEF EnrichmentInvariant, EventsSound
  <1>2. ASSUME NEW k \in DOMAIN P.swaps
        PROVE  /\ P.swaps[k].swap.tx \in {e.tx : e \in Range(events)}
               /\ P.swaps[k].swap.pool \in EventPools
               /\ {P.swaps[k].swap.tokenA, P.swaps[k].swap.tokenB} \ {None} \subseteq EventTokens
    <2>1. PICK i \in DOMAIN events : P.swaps[k].swap = SwapWrite(events[i])
      <3>1. /\ k \in DOMAIN SidedEvents
            /\ P.swaps[k] = [log |-> SidedEvents[k].log, swap |-> SwapWrite(SidedEvents[k])]
        BY <1>1, <1>2, SidedEventsAreEvents
      <3>2. SidedEvents[k] \in Range(events) BY <1>1, <3>1, SidedEventsAreEvents
      <3>3. PICK i \in DOMAIN events : SidedEvents[k] = events[i] BY <3>2 DEF Range
      <3>4. P.swaps[k].swap = SwapWrite(SidedEvents[k]) BY <3>1
      <3> QED BY <3>3, <3>4
    <2>2. /\ P.swaps[k].swap.tx = events[i].tx /\ P.swaps[k].swap.pool = events[i].pool
          /\ P.swaps[k].swap.tokenA = events[i].tokenA
          /\ P.swaps[k].swap.tokenB = events[i].tokenB
      BY <2>1 DEF SwapWrite
    <2>3. {events[i].tokenA, events[i].tokenB} \subseteq EventTokens \cup {None}
      BY <1>1, EventTokensKnown
    <2> HIDE DEF P
    <2>4. events[i].pool \in EventPools /\ events[i].tx \in {e.tx : e \in Range(events)}
      BY DEF EventPools, Range
    <2> QED BY <2>2, <2>3, <2>4
  <1>3. /\ Cardinality(P.tokens) = Cardinality({x.address : x \in P.tokens})
        /\ {x.address : x \in P.tokens} = EventTokens
    BY PayloadWritesTokens DEF TokenWrites
  <1>4. /\ Cardinality(P.pools) = Cardinality({x.address : x \in P.pools})
        /\ {x.address : x \in P.pools} = EventPools
        /\ \A x \in P.pools : x.dex \in P.dexes
    BY PayloadWritesPools
  <1>5. /\ Cardinality(P.transactions) = Cardinality({x.hash : x \in P.transactions})
        /\ {x.hash : x \in P.transactions} = {e.tx : e \in Range(events)}
    BY PayloadWritesTransactions
  <1> HIDE DEF P
  <1>6. BuiltPayload(P) BY <1>2, <1>3, <1>4, <1>5 DEF BuiltPayload
  <1> QED BY <1>6 DEF P

(* What a transaction paid to the miner of its block.                      *)
PaidToMiner(tx, block) == Paid({y \in Transfers[tx] : y.to = Miner[block]})

LEMMA BribesOfThePayload ==
    ASSUME EnrichmentInvariant, pc = "blocks", NEW missing,
           NEW x \in Payload(missing).transactions
    PROVE  /\ x.bribe <= PaidToMiner(x.hash, x.block)
           /\ tracing /\ missing = {} => x.bribe = PaidToMiner(x.hash, x.block)
  <1>1. events \in Seq(Event) BY DEF EnrichmentInvariant, EventsSound
  <1>2. PICK e \in Range(events) : x = TransactionRow(e, missing) BY PayloadRows
  <1>3. e \in Event BY <1>1, EventsFinite DEF Range
  <1>4. x.hash = e.tx /\ x.block = e.block /\ x.bribe = Bribe(e.tx, e.block, missing)
    BY <1>2 DEF TransactionRow
  <1>5. PaidToMiner(e.tx, e.block) \in Nat
    <2>1. e.tx \in DOMAIN Transfers BY <1>3 DEF Event
    <2>2. {y \in Transfers[e.tx] : y.to = Miner[e.block]} \in SUBSET Transfers[e.tx] OBVIOUS
    <2> QED BY <2>1, <2>2, PaidIsNatural DEF PaidToMiner
  <1>6. Bribe(e.tx, e.block, missing)
          = IF ~tracing \/ <<"block", e.block>> \in missing \/ <<"trace", e.tx>> \in missing
            THEN 0 ELSE PaidToMiner(e.tx, e.block)
    BY Zenon DEF Bribe, PaidToMiner, Paid
  <1>7. Bribe(e.tx, e.block, missing) \in {0, PaidToMiner(e.tx, e.block)} BY <1>6
  <1>8. tracing /\ missing = {} => Bribe(e.tx, e.block, missing) = PaidToMiner(e.tx, e.block)
    BY <1>6
  <1> QED BY <1>4, <1>5, <1>7, <1>8

LEMMA BribesOf ==
    BribesArePaid(payload) <=>
      \A x \in payload.transactions :
        /\ x.bribe <= PaidToMiner(x.hash, x.block)
        /\ tracing /\ lost = 0 => x.bribe = PaidToMiner(x.hash, x.block)
  BY Zenon DEF BribesArePaid, PaidToMiner, Paid

LEMMA EnrichTradesKeeps ==
    ASSUME EnrichmentInvariant, EnrichTrades PROVE EnrichmentInvariant'
  <1> USE DEF EnrichmentInvariant
  <1> DEFINE blockCalls == {"block"} \X {e.block : e \in Range(events)}
             traceCalls == IF tracing THEN {"trace"} \X {e.tx : e \in Range(events)} ELSE {}
  <1>1. /\ pc = "blocks" /\ pc' = "persist"
        /\ UNCHANGED <<batching, tracing, window, events, pools, metadata, prices, snapshots,
                       tokens, rows, unanswered, history>>
    BY DEF EnrichTrades, Goto
  <1>2. PICK blocks \in Losses(blockCalls, Attempts), traces \in Losses(traceCalls, 1) :
          /\ lost + (Attempts * Cardinality(blocks) + Cardinality(traces)) <= MaxLost
          /\ lost' = lost + (Attempts * Cardinality(blocks) + Cardinality(traces))
          /\ payload' = Payload(blocks \cup traces)
    BY Zenon DEF EnrichTrades
  <1> HIDE DEF blockCalls, traceCalls
  <1> DEFINE missing == blocks \cup traces
  <1>3. lost' \in 0..MaxLost /\ (lost' = 0 => missing = {})
    <2>1. lost \in 0..MaxLost /\ lost \in Nat BY EnrichmentAssumption DEF TypesSound
    <2>2. IsFiniteSet(blocks) /\ IsFiniteSet(traces) BY <2>1, AttemptsType, LossesType
    <2>3. PICK m \in Nat, n \in Nat : m = Cardinality(blocks) /\ n = Cardinality(traces)
      BY <2>2, FS_CardinalityType
    <2>4. PICK a \in {1, 2} : a = Attempts BY AttemptsType
    <2>5. Attempts * Cardinality(blocks) + Cardinality(traces) = a * m + n BY <2>3, <2>4
    <2>6. a * m + n \in Nat /\ (a * m + n = 0 => m = 0 /\ n = 0)
      <3>1. CASE a = 1 BY <2>3, <3>1
      <3>2. CASE a = 2 BY <2>3, <3>2
      <3> QED BY <2>4, <3>1, <3>2
    <2>7. m = 0 /\ n = 0 => missing = {} BY <2>2, <2>3, FS_EmptySet
    <2>8. lost' = lost + (a * m + n) /\ lost + (a * m + n) <= MaxLost BY <1>2, <2>5
    <2> HIDE DEF missing
    <2> QED BY <2>1, <2>6, <2>7, <2>8, EnrichmentAssumption
  <1>4. payload' = Payload(missing) BY <1>2
  <1> HIDE DEF missing
  <1>5. EventPools' = EventPools /\ EventTokens' = EventTokens
    BY <1>1 DEF EventPools, EventTokens
  <1>6. TypesSound' BY <1>1, <1>3 DEF TypesSound, Ordered, Parsed
  <1>7. EventsSound' BY <1>1 DEF EventsSound, Ordered, Parsed
  <1>8. PairsSound' BY <1>1, <1>5 DEF PairsSound
  <1>9. PricesSound' BY <1>1, <1>5 DEF PricesSound
  <1>10. SnapshotsSound' BY <1>1 DEF SnapshotsSound
  <1>11. BuiltPayload(payload)' 
    <2>1. BuiltPayload(Payload(missing)) BY <1>1, PayloadIsBuilt
    <2> QED BY <1>4, <2>1 DEF BuiltPayload
  <1>12. BribesArePaid(payload)'
    <2>1. \A x \in Payload(missing).transactions :
            /\ x.bribe <= PaidToMiner(x.hash, x.block)
            /\ tracing' /\ lost' = 0 => x.bribe = PaidToMiner(x.hash, x.block)
      BY <1>1, <1>3, BribesOfThePayload
    <2>2. \A x \in payload'.transactions :
            /\ x.bribe <= PaidToMiner(x.hash, x.block)
            /\ tracing' /\ lost' = 0 => x.bribe = PaidToMiner(x.hash, x.block)
      BY <1>4, <2>1
    <2>3. (BribesArePaid(payload) <=>
            \A x \in payload.transactions :
              /\ x.bribe <= PaidToMiner(x.hash, x.block)
              /\ tracing /\ lost = 0 => x.bribe = PaidToMiner(x.hash, x.block))'
      BY BribesOf, PTL
    <2> QED BY <2>2, <2>3
  <1>13. HoldsSwaps(payload, window)'
    <2>1. HoldsSwaps(Payload(missing), window) BY <1>1, PayloadHoldsSwaps
    <2> QED BY <1>1, <1>4, <2>1 DEF HoldsSwaps, SwapLogs
  <1>14. TokenWrites(payload)'
    <2>1. TokenWrites(Payload(missing)) BY <1>1, PayloadWritesTokens
    <2> QED BY <1>4, <1>5, <2>1 DEF TokenWrites
  <1>15. PayloadSound' BY <1>11, <1>12, <1>13, <1>14 DEF PayloadSound
  <1> QED BY <1>6, <1>7, <1>8, <1>9, <1>10, <1>15

LEMMA StoredTokenType ==
    ASSUME NEW row \in Row \cup {None}, NEW w,
           w.named \in BOOLEAN, w.stable \in BOOLEAN, w.decimals \in Nat
    PROVE  StoredToken(row, w) \in Row
  <1>1. CASE row = None BY <1>1 DEF StoredToken, Row
  <1>2. CASE row # None
    <2>1. row \in Row BY <1>2
    <2>2. StoredToken(row, w) = [named |-> row.named \/ w.named, decimals |-> row.decimals,
                                 stable |-> row.stable \/ w.stable]
      BY <1>2, <2>1 DEF StoredToken, Row
    <2>3. (row.named \/ w.named) \in BOOLEAN /\ (row.stable \/ w.stable) \in BOOLEAN OBVIOUS
    <2>4. row.decimals \in Nat BY <2>1 DEF Row
    <2> QED BY <2>2, <2>3, <2>4 DEF Row
  <1> QED BY <1>1, <1>2

LEMMA PersistKeeps ==
    ASSUME EnrichmentInvariant, Persist PROVE EnrichmentInvariant'
  <1> USE DEF EnrichmentInvariant
  <1>1. /\ pc = "persist"
        /\ UNCHANGED <<batching, tracing, window, events, pools, metadata, prices, snapshots,
                       payload, lost, unanswered, history>>
        /\ tokens' = [t \in Tokens |->
             IF t \in EventTokens
             THEN StoredToken(tokens[t], CHOOSE w \in payload.tokens : w.address = t)
             ELSE tokens[t]]
    BY DEF Persist
  <1>2. pc' \in {"stored", "raised"} BY DEF Persist
  <1>3. tokens' \in [Tokens -> Row \cup {None}]
    <2>1. \A t \in Tokens : tokens[t] \in Row \cup {None} BY DEF TypesSound
    <2>2. ASSUME NEW t \in Tokens, t \in EventTokens
          PROVE  StoredToken(tokens[t], CHOOSE w \in payload.tokens : w.address = t) \in Row
      <3> DEFINE v == CHOOSE w \in payload.tokens : w.address = t
      <3>1. \E w \in payload.tokens : w.address = t
        BY <1>1, <2>2 DEF PayloadSound, TokenWrites
      <3>2. v \in payload.tokens BY <3>1
      <3> HIDE DEF v
      <3>3. v.named \in BOOLEAN /\ v.stable \in BOOLEAN /\ v.decimals \in Nat
        BY <1>1, <3>2 DEF PayloadSound, TokenWrites
      <3>4. StoredToken(tokens[t], v) \in Row BY <2>1, <3>3, StoredTokenType
      <3> QED BY <3>4 DEF v
    <2>3. \A t \in Tokens :
            (IF t \in EventTokens
             THEN StoredToken(tokens[t], CHOOSE w \in payload.tokens : w.address = t)
             ELSE tokens[t]) \in Row \cup {None}
      BY <2>1, <2>2
    <2> QED BY <1>1, <2>3
  <1>4. EventPools' = EventPools /\ EventTokens' = EventTokens
    BY <1>1 DEF EventPools, EventTokens
  <1>5. TypesSound' BY <1>1, <1>2, <1>3 DEF TypesSound, Ordered, Parsed
  <1>6. EventsSound' BY <1>1, <1>2 DEF EventsSound, Ordered, Parsed
  <1>7. PairsSound' BY <1>1, <1>2, <1>4 DEF PairsSound
  <1>8. PricesSound' BY <1>2 DEF PricesSound
  <1>9. SnapshotsSound' BY <1>1 DEF SnapshotsSound
  <1>10. PayloadSound' BY <1>2 DEF PayloadSound
  <1> QED BY <1>5, <1>6, <1>7, <1>8, <1>9, <1>10

LEMMA RaiseKeeps ==
    ASSUME EnrichmentInvariant, Raise PROVE EnrichmentInvariant'
  <1> USE DEF EnrichmentInvariant
  <1>1. /\ pc' = "idle" /\ events' = <<>> /\ pools' = <<>> /\ metadata' = <<>>
        /\ snapshots' = <<>> /\ prices' = NoPrices
        /\ UNCHANGED <<batching, tracing, window, tokens, lost>>
    BY DEF Raise, ForgetLocals
  <1>2. TypesSound' BY <1>1, NoPricesType DEF TypesSound
  <1>3. EventsSound' BY <1>1, EmptySeq DEF EventsSound, Parsed, Ordered
  <1>4. PairsSound' /\ PricesSound' /\ PayloadSound'
    BY <1>1 DEF PairsSound, PricesSound, PayloadSound
  <1>5. SnapshotsSound' BY <1>1 DEF SnapshotsSound
  <1> QED BY <1>2, <1>3, <1>4, <1>5

LEMMA StutterKeeps ==
    ASSUME EnrichmentInvariant, UNCHANGED enrichmentVars PROVE EnrichmentInvariant'
  <1> USE DEF EnrichmentInvariant, enrichmentVars, locals
  <1>1. EventPools' = EventPools /\ EventTokens' = EventTokens BY DEF EventPools, EventTokens
  <1>2. TypesSound' BY DEF TypesSound
  <1>3. EventsSound' BY DEF EventsSound
  <1>4. PairsSound' BY <1>1 DEF PairsSound, PoolsOfKind
  <1>5. PricesSound' BY <1>1 DEF PricesSound
  <1>6. SnapshotsSound' BY DEF SnapshotsSound
  <1>7. PayloadSound'
    <2>1. UNCHANGED <<payload, window, pc, lost, tracing>> OBVIOUS
    <2>2. SwapLogs(window)' = SwapLogs(window) BY <2>1
    <2>3. BuiltPayload(payload)' <=> BuiltPayload(payload) BY <2>1 DEF BuiltPayload
    <2>4. BribesArePaid(payload)' <=> BribesArePaid(payload)
      <3>1. (BribesArePaid(payload) <=>
              \A x \in payload.transactions :
                /\ x.bribe <= PaidToMiner(x.hash, x.block)
                /\ tracing /\ lost = 0 => x.bribe = PaidToMiner(x.hash, x.block))'
        BY BribesOf, PTL
      <3> QED BY <2>1, <3>1, BribesOf
    <2>5. HoldsSwaps(payload, window)' <=> HoldsSwaps(payload, window)
      BY <2>1, <2>2 DEF HoldsSwaps
    <2>6. TokenWrites(payload)' <=> TokenWrites(payload) BY <1>1, <2>1 DEF TokenWrites
    <2> QED BY <2>1, <2>3, <2>4, <2>5, <2>6 DEF PayloadSound
  <1> QED BY <1>2, <1>3, <1>4, <1>5, <1>6, <1>7

LEMMA InvariantHolds == EnrichmentSpec => []EnrichmentInvariant
  <1>1. EnrichmentInvariant /\ [EnrichmentNext]_enrichmentVars => EnrichmentInvariant'
    BY ParseSwapsKeeps, ResolvePoolsKeeps, ResolvePairsKeeps, ResolvePairsAgainKeeps,
       ResolveCoinsKeeps, ResolveTokensKeeps, ResolveSnapshotsKeeps, EnrichTradesKeeps,
       PersistKeeps, RaiseKeeps, StutterKeeps
       DEF EnrichmentNext
  <1> QED BY <1>1, InvariantInit, PTL DEF EnrichmentSpec
-----------------------------------------------------------------------------
(* What is known of the tokens and the prices, once they were asked for.   *)
Priced == {"balances", "blocks"}

LEMMA EventsArePriced == EnrichmentInvariant /\ pc \in Priced => IsPriced(events, metadata)
  <1> SUFFICES ASSUME EnrichmentInvariant, pc \in Priced PROVE IsPriced(events, metadata)
    OBVIOUS
  <1> USE DEF EnrichmentInvariant
  <1>1. events \in Seq(Event) BY DEF EventsSound
  <1>2. DOMAIN events = 1..Len(events) /\ Len(events) \in Nat BY <1>1, LenProperties
  <1>3. IsFiniteSet(1..Len(events)) /\ 1..Len(events) \subseteq Nat BY <1>2, FS_Interval
  <1>4. IsMetadata(metadata) /\ DOMAIN metadata = EventTokens BY DEF PricesSound, Priced
  <1>5. \A i \in DOMAIN events : Priceable(events[i], metadata)
    <2> SUFFICES ASSUME NEW i \in DOMAIN events PROVE Priceable(events[i], metadata)
      OBVIOUS
    <2>1. events[i] \in Event BY <1>1, EventsFinite
    <2>2. {events[i].tokenA, events[i].tokenB} \subseteq EventTokens \cup {None}
      BY <1>1, EventTokensKnown
    <2> QED BY <1>4, <2>1, <2>2 DEF Priceable, Event
  <1> QED BY <1>2, <1>3, <1>4, <1>5 DEF IsPriced

LEMMA SidesOfTheEvents ==
    ASSUME EnrichmentInvariant PROVE SidesAreTrades
  <1> USE DEF EnrichmentInvariant
  <1> SUFFICES ASSUME pc \in Ordered, NEW i \in DOMAIN events, TradeOf(Logs[events[i].log]) # None
               PROVE  LET e == events[i]
                          trade == TradeOf(Logs[e.log])
                      IN  /\ e.side # None
                          /\ Told(e).soldAmount = trade.soldAmount
                          /\ Told(e).boughtAmount = trade.boughtAmount
                          /\ e.pool \notin unanswered /\ CoinsKnown(Logs[e.log]) => Told(e) = trade
    BY DEF SidesAreTrades, Ordered, Told
  <1> DEFINE n == SwapLogs(window)[i]
  <1>1. n \in DOMAIN Logs /\ IsSwap(Logs[n]) /\ OfLog(n, events[i]) BY EventFacts
  <1>2. PICK a \in MaybeToken, b \in MaybeToken :
          Resolved(n, a, b, pools, unanswered) /\ events[i] = Reorder(Found(n, a, b))
    BY DEF EventsSound
  <1> HIDE DEF n
  <1>3. events[i].log = n /\ events[i].pool = Logs[n].pool BY <1>1 DEF OfLog
  <1>4. TradeOf(Logs[n]) # None BY <1>3
  <1>5. Found(n, a, b) \in Event BY <1>1, FoundType
  <1>6. /\ Found(n, a, b).side # None
        /\ Told(Found(n, a, b)).soldAmount = TradeOf(Logs[n]).soldAmount
        /\ Told(Found(n, a, b)).boughtAmount = TradeOf(Logs[n]).boughtAmount
        /\ a = SideToken(n, 1) /\ b = SideToken(n, 2) => Told(Found(n, a, b)) = TradeOf(Logs[n])
    BY <1>1, <1>4, FoundTells
  <1>7. events[i].side # None /\ Told(events[i]) = Told(Found(n, a, b))
    BY <1>2, <1>5, <1>6, ReorderTells
  <1>8. events[i].pool \notin unanswered /\ CoinsKnown(Logs[n]) => a = SideToken(n, 1) /\ b = SideToken(n, 2)
    BY <1>2, <1>3 DEF Resolved
  <1> QED BY <1>3, <1>6, <1>7, <1>8

LEMMA TypesOfTheInvariant ==
    ASSUME EnrichmentInvariant PROVE EnrichmentTypeOK
  <1> USE DEF EnrichmentInvariant
  <1>1. \A i \in DOMAIN events : /\ events[i].side \in {"BUY", "SELL", None}
                                 /\ {events[i].tokenA, events[i].tokenB} \subseteq Tokens \cup {None}
    BY EventsFinite DEF EventsSound, Event, Sides, MaybeToken
  <1>2. \A t \in Tokens : prices[t] = None \/ prices[t] \in Ratios BY DEF TypesSound, PriceMaps
  <1>3. \A p \in DOMAIN snapshots : snapshots[p] # None =>
          /\ ~AtMost(<<DecimalLimit, 1>>, snapshots[p].tvl)
          /\ AtMost(snapshots[p].share, <<1, 1>>)
    BY DEF SnapshotsSound, FitsTable
  <1>4. /\ pc \in {"idle", "pools", "pairs", "pairs again", "coins", "tokens", "balances",
                   "blocks", "persist", "stored", "raised"}
        /\ window \in Windows /\ lost \in 0..MaxLost
    BY DEF TypesSound, Parsed, Ordered
  <1> QED BY <1>1, <1>2, <1>3, <1>4 DEF EnrichmentTypeOK
-----------------------------------------------------------------------------
(* Prices and amounts depend on no more of the metadata than the decimals  *)
(* of the tokens of the events, and on which of them are stablecoins.      *)
Agrees(known, more) ==
    /\ IsMetadata(known) /\ IsMetadata(more) /\ DOMAIN known \subseteq DOMAIN more
    /\ \A t \in DOMAIN known : /\ known[t].decimals = more[t].decimals
                               /\ known[t].stable = more[t].stable

(* Such metadata work out the same amounts, values, samples, rounds,       *)
(* prices and amounts in USD.                                              *)
LEMMA SameAmounts ==
    ASSUME NEW known, NEW more, Agrees(known, more), NEW e, Priceable(e, known)
    PROVE  /\ TokenAmounts(e, known) = TokenAmounts(e, more)
           /\ \A x \in TokenAmounts(e, known) : x.token \in DOMAIN known
  <1> DEFINE sides == {[place |-> 1, token |-> e.tokenA, raw |-> e.amountA],
                       [place |-> 2, token |-> e.tokenB, raw |-> e.amountB]}
             taken == {x \in sides : x.token # None /\ x.raw > 0}
             said(s, m) == [place |-> s.place, token |-> s.token,
                            amount |-> Amount(s.raw, m[s.token].decimals)]
  <1>1. /\ TokenAmounts(e, known) = {said(s, known) : s \in taken}
        /\ TokenAmounts(e, more) = {said(s, more) : s \in taken}
    BY DEF TokenAmounts
  <1>2. \A s \in taken : s.token \in DOMAIN known BY DEF Priceable
  <1>3. \A s \in taken : known[s.token].decimals = more[s.token].decimals BY <1>2 DEF Agrees
  <1>4. \A s \in taken : said(s, known) = said(s, more) BY <1>3, Zenon
  <1>5. \A s \in taken : said(s, known).token \in DOMAIN known BY <1>2
  <1> HIDE DEF said, taken
  <1> QED BY <1>1, <1>4, <1>5

LEMMA SameValues ==
    ASSUME NEW known, NEW more, Agrees(known, more), NEW prices1,
           NEW amounts, \A x \in amounts : x.token \in DOMAIN known
    PROVE  Values(amounts, known, prices1) = Values(amounts, more, prices1)
  <1> DEFINE value(s, m) == IF Stable(s.token, m) THEN s.amount
                            ELSE Times(s.amount, prices1[s.token])
             has(s, m) == Stable(s.token, m) \/ prices1[s.token] # None
  <1>1. \A s \in amounts : Stable(s.token, known) = Stable(s.token, more)
    BY DEF Stable, Agrees
  <1>2. \A s \in amounts : value(s, known) = value(s, more) /\ has(s, known) = has(s, more)
    BY <1>1
  <1>3. /\ Values(amounts, known, prices1)
             = {value(s, known) : s \in {x \in amounts : has(x, known)}}
        /\ Values(amounts, more, prices1)
             = {value(s, more) : s \in {x \in amounts : has(x, more)}}
    BY DEF Values
  <1> HIDE DEF value, has
  <1>4. {x \in amounts : has(x, known)} = {x \in amounts : has(x, more)} BY <1>2
  <1>5. {value(s, known) : s \in {x \in amounts : has(x, known)}}
          = {value(s, more) : s \in {x \in amounts : has(x, known)}}
    BY <1>2
  <1> QED BY <1>3, <1>4, <1>5

LEMMA SameSamples ==
    ASSUME NEW known, NEW more, Agrees(known, more), NEW list,
           \A i \in DOMAIN list : Priceable(list[i], known), NEW t, NEW prices1
    PROVE  /\ Samples(t, list, known, prices1) = Samples(t, list, more, prices1)
           /\ t \notin DOMAIN known => Samples(t, list, known, prices1) = {}
  <1>1. ASSUME NEW i \in DOMAIN list
        PROVE  /\ Implied(t, i, list, known, prices1) = Implied(t, i, list, more, prices1)
               /\ t \notin DOMAIN known => Implied(t, i, list, known, prices1) = {}
    <2> DEFINE amounts == TokenAmounts(list[i], known)
               says(values) ==
                 IF values = {} THEN {}
                 ELSE {sample \in {[event |-> i, place |-> s.place,
                                    price |-> Over(Largest(values), s.amount)] :
                                      s \in {x \in amounts : x.token = t}} :
                         AtMost(sample.price, <<MaxPrice, 1>>)}
    <2>1. amounts = TokenAmounts(list[i], more) /\ \A x \in amounts : x.token \in DOMAIN known
      BY SameAmounts
    <2>2. /\ Implied(t, i, list, known, prices1) = says(Values(amounts, known, prices1))
          /\ Implied(t, i, list, more, prices1) = says(Values(amounts, more, prices1))
      <3>1. /\ Implied(t, i, list, known, prices1) = says(Values(amounts, known, prices1))
        BY Zenon DEF Implied
      <3>2. Implied(t, i, list, more, prices1) = says(Values(amounts, more, prices1))
        BY <2>1, Zenon DEF Implied
      <3> QED BY <3>1, <3>2
    <2>3. t \notin DOMAIN known => \A values : says(values) = {}
      <3>1. t \notin DOMAIN known => {x \in amounts : x.token = t} = {} BY <2>1
      <3> HIDE DEF amounts
      <3> QED BY <3>1
    <2> HIDE DEF says, amounts
    <2>4. Values(amounts, known, prices1) = Values(amounts, more, prices1)
      BY <2>1, SameValues
    <2> QED BY <2>2, <2>3, <2>4
  <1>2. \A m : Samples(t, list, m, prices1)
                 = UNION {Implied(t, i, list, m, prices1) : i \in DOMAIN list}
    BY DEF Samples
  <1>3. {Implied(t, i, list, known, prices1) : i \in DOMAIN list}
          = {Implied(t, i, list, more, prices1) : i \in DOMAIN list}
    BY <1>1
  <1>4. t \notin DOMAIN known => UNION {Implied(t, i, list, known, prices1) : i \in DOMAIN list} = {}
    BY <1>1
  <1> QED BY <1>2, <1>3, <1>4

LEMMA SameRound ==
    ASSUME NEW known, NEW more, Agrees(known, more), NEW list,
           \A i \in DOMAIN list : Priceable(list[i], known), NEW prices1 \in PriceMaps
    PROVE  PriceRound(list, known, prices1) = PriceRound(list, more, prices1)
  <1> DEFINE S(t, m) == Samples(t, list, m, prices1)
             next(t, m) == IF prices1[t] # None \/ t \notin DOMAIN m THEN prices1[t]
                           ELSE IF Stable(t, m) THEN None
                           ELSE IF S(t, m) = {} THEN None ELSE Median(S(t, m))
  <1>1. /\ PriceRound(list, known, prices1) = [t \in Tokens |-> next(t, known)]
        /\ PriceRound(list, more, prices1) = [t \in Tokens |-> next(t, more)]
    BY DEF PriceRound
  <1>2. \A t : S(t, known) = S(t, more) /\ (t \notin DOMAIN known => S(t, known) = {})
    BY SameSamples
  <1>3. \A t \in DOMAIN known : t \in DOMAIN more /\ Stable(t, known) = Stable(t, more)
    BY DEF Agrees, Stable
  <1> HIDE DEF S
  <1>4. \A t \in Tokens : next(t, known) = next(t, more)
    <2> SUFFICES ASSUME NEW t \in Tokens PROVE next(t, known) = next(t, more)
      OBVIOUS
    <2>1. CASE t \in DOMAIN known BY <1>2, <1>3, <2>1
    <2>2. CASE t \notin DOMAIN known
      <3>1. S(t, more) = {} BY <1>2, <2>2
      <3> QED BY <2>2, <3>1
    <2> QED BY <2>1, <2>2
  <1> HIDE DEF next
  <1> QED BY <1>1, <1>4

LEMMA SamePricing ==
    ASSUME NEW list, NEW known, NEW more, Agrees(known, more), IsPriced(list, known)
    PROVE  /\ IsPriced(list, more)
           /\ InferPrices(list, known) = InferPrices(list, more)
  <1>1. IsPriced(list, more)
    BY DEF IsPriced, Priceable, Agrees
  <1>2. \A q \in PriceMaps : PriceRound(list, known, q) = PriceRound(list, more, q)
    BY SameRound DEF IsPriced
  <1> QED BY <1>1, <1>2, SameRounds

LEMMA SameUsd ==
    ASSUME NEW known, NEW more, Agrees(known, more), NEW e, Priceable(e, known), NEW prices1
    PROVE  UsdAmount(e, known, prices1) = UsdAmount(e, more, prices1)
  <1> DEFINE amounts == TokenAmounts(e, known)
             stable(m) == {s.amount : s \in {x \in amounts : Stable(x.token, m)}}
             priced == {Times(s.amount, prices1[s.token]) :
                          s \in {x \in amounts : prices1[x.token] # None}}
             usd(S) == IF S # {} THEN Largest(S)
                       ELSE IF priced # {} THEN Largest(priced) ELSE None
  <1>1. amounts = TokenAmounts(e, more) /\ \A x \in amounts : x.token \in DOMAIN known
    BY SameAmounts
  <1>2. UsdAmount(e, known, prices1) = usd(stable(known)) BY Zenon DEF UsdAmount
  <1>3. UsdAmount(e, more, prices1) = usd(stable(more)) BY <1>1, Zenon DEF UsdAmount
  <1>4. \A x \in amounts : Stable(x.token, known) = Stable(x.token, more)
    BY <1>1 DEF Stable, Agrees
  <1> HIDE DEF amounts, usd
  <1>5. {x \in amounts : Stable(x.token, known)} = {x \in amounts : Stable(x.token, more)}
    BY <1>4
  <1>6. stable(known) = stable(more) BY <1>5
  <1> QED BY <1>2, <1>3, <1>6

(* A stablecoin with an amount decides the amount in USD, not the prices.  *)
LEMMA UsdOfAStablecoin ==
    ASSUME NEW known, NEW e, NEW p, NEW q, NEW x \in TokenAmounts(e, known), Stable(x.token, known)
    PROVE  UsdAmount(e, known, p) = UsdAmount(e, known, q)
  <1> DEFINE amounts == TokenAmounts(e, known)
             stable == {s.amount : s \in {y \in amounts : Stable(y.token, known)}}
  <1>1. stable # {} OBVIOUS
  <1>2. \A r : UsdAmount(e, known, r) = Largest(stable)
    BY <1>1, Zenon DEF UsdAmount
  <1> QED BY <1>2
-----------------------------------------------------------------------------
(* What a scan finds that gets every answer.  The decimals of a token that *)
(* has none count as unknown when they are stored, and are not expected.   *)
ExpectedToken(n, side) ==
    IF Logs[n].kind \in CurveKinds
    THEN CoinAddress(Logs[n].pool, CoinsOf(Logs[n])[side], Logs[n].kind = "underlying", {})
    ELSE PoolFacts[Logs[n].pool].tokens[side]
ExpectedEvent(n) == Reorder(Found(n, ExpectedToken(n, 1), ExpectedToken(n, 2)))
ExpectedDecimals(t) ==
    IF TokenFacts[t].decimals = None THEN DefaultDecimals ELSE TokenFacts[t].decimals
ExpectedMetadata ==
    [t \in Tokens |-> [named |-> FALSE, decimals |-> ExpectedDecimals(t),
                       stable |-> TokenFacts[t].hint]]
ExpectedEvents(logs) == [i \in DOMAIN logs |-> ExpectedEvent(logs[i])]
ExpectedPrices(logs) == InferPrices(ExpectedEvents(logs), ExpectedMetadata)
Written(e, known, q) ==
    [tx |-> e.tx, pool |-> e.pool, tokenA |-> e.tokenA, tokenB |-> e.tokenB,
     side |-> e.side, usd |-> UsdAmount(e, known, q),
     amountA |-> IF e.amountA > 0 THEN e.amountA ELSE None,
     amountB |-> IF e.amountB > 0 THEN e.amountB ELSE None]
ExpectedSwap(logs, n) == Written(ExpectedEvent(n), ExpectedMetadata, ExpectedPrices(logs))

(* The logs of a window that become swaps, and those among them that       *)
(* become one and the same swap.                                           *)
Sided(w) == {n \in Range(SwapLogs(w)) : Read(n).side # None}
Twins(w, swap) == {n \in Sided(w) : ExpectedSwap(SwapLogs(w), n) = swap}

(* As long as no answer is lost, a scan works out what is expected, from   *)
(* stage to stage.  A token without decimals is left out: with one in the  *)
(* window nothing is said of the prices and the amounts.                   *)
HistoryKept ==
    /\ IsList(history) /\ unanswered = {}
    /\ pc # "idle" => Len(history) >= 1 /\ window = history[Len(history)]
EventsExpected ==
    /\ pc = "tokens" => \A i \in DOMAIN events :
         LET n == SwapLogs(window)[i] IN
         events[i] = Found(n, ExpectedToken(n, 1), ExpectedToken(n, 2))
    /\ pc \in Ordered => \A i \in DOMAIN events :
         events[i] = ExpectedEvent(SwapLogs(window)[i])
TokenExpected(t, row) ==
    /\ row.stable = TokenFacts[t].hint
    /\ TokenFacts[t].decimals # 0 => row.decimals = ExpectedDecimals(t)
MetadataExpected ==
    pc \in {"balances", "blocks"} => \A t \in EventTokens : TokenExpected(t, metadata[t])
PricesExpected ==
    pc \in {"balances", "blocks"} /\ ~Indivisible(window) =>
      prices = ExpectedPrices(SwapLogs(window))
SwapsExpected(list, w) ==
    /\ IsList(list)
    /\ \A i \in DOMAIN list : list[i].log \in Sided(w)
    /\ \A i, j \in DOMAIN list : list[i].log = list[j].log => i = j
    /\ \A n \in Sided(w) : \E i \in DOMAIN list : list[i].log = n
    /\ ~Indivisible(w) =>
         \A i \in DOMAIN list : list[i].swap = ExpectedSwap(SwapLogs(w), list[i].log)
PayloadExpected ==
    pc = "persist" => /\ \A w \in payload.tokens : TokenExpected(w.address, w)
                      /\ SwapsExpected(payload.swaps, window)

(* So do the tables.  A row is the swap of its log in the window of its    *)
(* scan, and the table has each swap of that window that its column keeps  *)
(* whole as often as the window has logs that become it: no later scan of  *)
(* them adds a row.                                                        *)
Kept(swap) == Stored(swap) = swap
TableExpected == \A t \in Tokens : tokens[t] # None => TokenExpected(t, tokens[t])
RowExpected(row) ==
    /\ row.scan \in 1..Len(history)
    /\ row.log \in Sided(history[row.scan])
    /\ ~Indivisible(history[row.scan]) =>
         /\ row.written = ExpectedSwap(SwapLogs(history[row.scan]), row.log)
         /\ \A x : Kept(x) => Cardinality(Twins(history[row.scan], x)) <= RowsOf(x)
RowsExpected == IsList(rows) /\ \A row \in Range(rows) : RowExpected(row)

(* When a log may have two rows in the table; otherwise it has one.        *)
MayRepeat(first, second, written) ==
    \/ SwapLogs(first) # SwapLogs(second) /\ ~HasStablecoin(written)
    \/ Indivisible(first) \/ Indivisible(second)
    \/ ~Kept(written)
NoDuplicates ==
    \A i, j \in DOMAIN rows : i # j /\ rows[i].log = rows[j].log =>
      MayRepeat(history[rows[i].scan], history[rows[j].scan], rows[i].written)
ScanIsExpected ==
    /\ HistoryKept /\ EventsExpected /\ MetadataExpected /\ PricesExpected
    /\ PayloadExpected
TablesAreExpected == TableExpected /\ RowsExpected /\ NoDuplicates
AllExpected == ScanIsExpected /\ TablesAreExpected

NothingIsLost == lost = 0 => AllExpected
-----------------------------------------------------------------------------
(* The logs of a window, each at one place.                                *)
LEMMA SwapLogsOrder ==
    ASSUME NEW w
    PROVE  /\ \A i, j \in DOMAIN SwapLogs(w) : SwapLogs(w)[i] = SwapLogs(w)[j] => i = j
           /\ IsList(SwapLogs(w))
           /\ \A n : n \in Range(SwapLogs(w)) <=>
                /\ n \in DOMAIN Logs /\ IsSwap(Logs[n])
                /\ w.start <= Logs[n].block /\ Logs[n].block <= w.end
  <1> DEFINE S == {i \in DOMAIN Logs :
                     IsSwap(Logs[i]) /\ w.start <= Logs[i].block /\ Logs[i].block <= w.end}
  <1>1. S \in SUBSET Int /\ IsFiniteSet(S)
    <2>1. S \subseteq DOMAIN Logs /\ DOMAIN Logs = 1..Len(Logs) /\ Len(Logs) \in Nat BY LogTypes
    <2>2. IsFiniteSet(1..Len(Logs)) BY <2>1, FS_Interval
    <2> HIDE DEF S
    <2> QED BY <2>1, <2>2, FS_Subset
  <1>2. SwapLogs(w) = InOrder(S) BY DEF SwapLogs
  <1>3. \A n : n \in S <=>
          /\ n \in DOMAIN Logs /\ IsSwap(Logs[n])
          /\ w.start <= Logs[n].block /\ Logs[n].block <= w.end
    OBVIOUS
  <1> HIDE DEF S
  <1>4. InOrder(S) \in Seq(S) /\ Range(InOrder(S)) = S BY <1>1, InOrderEnumerates
  <1>5. \A i, j \in DOMAIN InOrder(S) : InOrder(S)[i] = InOrder(S)[j] => i = j
    BY <1>1, InOrderInjective
  <1> QED BY <1>2, <1>3, <1>4, <1>5 DEF IsList

(* The token that is expected on a side is one of the tokens of its pool.  *)
LEMMA FirstCoinOfPool ==
    ASSUME NEW p \in Pools, NEW index, NEW u \in BOOLEAN, NEW missing
    PROVE  FirstCoin(p, index, Selectors(u), missing) \in TokensAt(p) \cup {None}
  <1> DEFINE coins == PoolFacts[p].coins
             sel == Selectors(u)
             answered == {m \in DOMAIN sel : /\ <<p, sel[m], index>> \notin missing
                                             /\ index + 1 \in DOMAIN coins[sel[m]]}
  <1>1. FirstCoin(p, index, sel, missing)
          = IF answered = {} THEN None ELSE coins[sel[Min(answered)]][index + 1]
    BY DEF FirstCoin
  <1>2. DOMAIN sel = 1..4 /\ \A m \in 1..4 : sel[m] \in CoinFunctions BY SelectorTypes
  <1>3. CASE answered = {} BY <1>1, <1>3
  <1>4. CASE answered # {}
    <2>1. answered \in SUBSET Nat BY <1>2
    <2> DEFINE m == Min(answered)
    <2>2. m \in answered
      <3> HIDE DEF answered
      <3> QED BY <1>4, <2>1, MinIsThere
    <2>3. m \in 1..4 /\ index + 1 \in DOMAIN coins[sel[m]] BY <1>2, <2>2
    <2>4. FirstCoin(p, index, sel, missing) = coins[sel[m]][index + 1] BY <1>1, <1>4
    <2> HIDE DEF m, answered
    <2>5. coins[sel[m]][index + 1] \in Range(coins[sel[m]]) BY <2>3 DEF Range
    <2>6. sel[m] \in Range(Selectors(FALSE)) BY <1>2, <2>3, SelectorTypes
    <2> HIDE DEF sel, coins
    <2>7. Range(coins[sel[m]]) \subseteq TokensAt(p) BY <2>6 DEF TokensAt, coins
    <2> QED BY <2>4, <2>5, <2>7 DEF sel
  <1> QED BY <1>3, <1>4

LEMMA ExpectedTokenType ==
    ASSUME NEW n \in DOMAIN Logs, IsSwap(Logs[n]), NEW side \in 1..2
    PROVE  /\ ExpectedToken(n, side) \in MaybeToken
           /\ ExpectedToken(n, side) \in TokensAt(Logs[n].pool) \cup {None}
  <1> DEFINE p == Logs[n].pool
  <1>1. p \in Pools BY LogTypes
  <1>2. CASE Logs[n].kind \in CurveKinds
    <2> DEFINE index == CoinsOf(Logs[n])[side]
               u == Logs[n].kind = "underlying"
    <2>1. ExpectedToken(n, side) = FirstCoin(p, index, Selectors(u), {})
      BY <1>2, Zenon DEF ExpectedToken, CoinAddress
    <2>2. u \in BOOLEAN OBVIOUS
    <2> HIDE DEF u, index, p
    <2>3. FirstCoin(p, index, Selectors(u), {}) \in MaybeToken BY <1>1, <2>2, FirstCoinType
    <2>4. FirstCoin(p, index, Selectors(u), {}) \in TokensAt(p) \cup {None}
      BY <1>1, <2>2, FirstCoinOfPool
    <2> QED BY <2>1, <2>3, <2>4 DEF p
  <1>3. CASE Logs[n].kind \notin CurveKinds
    <2>1. ExpectedToken(n, side) = PoolFacts[p].tokens[side] BY <1>3 DEF ExpectedToken
    <2> HIDE DEF p
    <2>2. PoolFacts[p].tokens \in [1..2 -> MaybeToken] BY <1>1, FactsAssumption DEF MaybeToken
    <2>3. PoolFacts[p].tokens[side] \in MaybeToken BY <2>2
    <2>4. PoolFacts[p].tokens[side] \in Range(PoolFacts[p].tokens) BY <2>2 DEF Range
    <2>5. Range(PoolFacts[p].tokens) \subseteq TokensAt(p) BY DEF TokensAt
    <2> QED BY <2>1, <2>3, <2>4, <2>5 DEF p
  <1> QED BY <1>2, <1>3

LEMMA ExpectedEventFacts ==
    ASSUME NEW n \in DOMAIN Logs, IsSwap(Logs[n])
    PROVE  /\ ExpectedEvent(n) \in Event /\ OfLog(n, ExpectedEvent(n))
           /\ {ExpectedEvent(n).tokenA, ExpectedEvent(n).tokenB}
                = {ExpectedToken(n, 1), ExpectedToken(n, 2)}
           /\ ExpectedEvent(n).side = None <=> Read(n).side = None
           /\ {ExpectedEvent(n).tokenA, ExpectedEvent(n).tokenB} \subseteq MaybeToken
           /\ {ExpectedEvent(n).tokenA, ExpectedEvent(n).tokenB}
                \subseteq TokensAt(Logs[n].pool) \cup {None}
  <1> DEFINE a == ExpectedToken(n, 1)
             b == ExpectedToken(n, 2)
  <1>1. /\ a \in MaybeToken /\ b \in MaybeToken
        /\ {a, b} \subseteq TokensAt(Logs[n].pool) \cup {None}
    BY ExpectedTokenType
  <1>2. ExpectedEvent(n) = Reorder(Found(n, a, b)) BY DEF ExpectedEvent
  <1> HIDE DEF a, b
  <1>3. /\ Found(n, a, b) \in Event /\ OfLog(n, Found(n, a, b))
        /\ Found(n, a, b).tokenA = a /\ Found(n, a, b).tokenB = b
        /\ Found(n, a, b).side = Read(n).side
    BY <1>1, FoundType
  <1>4. /\ Reorder(Found(n, a, b)) \in Event /\ OfLog(n, Reorder(Found(n, a, b)))
        /\ {Reorder(Found(n, a, b)).tokenA, Reorder(Found(n, a, b)).tokenB} = {a, b}
        /\ Reorder(Found(n, a, b)).side = None <=> Read(n).side = None
    BY <1>3, ReorderTells
  <1> QED BY <1>1, <1>2, <1>4 DEF a, b

LEMMA ExpectedMetadataType ==
    /\ IsMetadata(ExpectedMetadata) /\ DOMAIN ExpectedMetadata = Tokens
    /\ \A t \in Tokens : /\ ExpectedMetadata[t].decimals = ExpectedDecimals(t)
                         /\ ExpectedMetadata[t].stable = TokenFacts[t].hint
  <1>1. \A t \in Tokens : ExpectedDecimals(t) \in Nat /\ TokenFacts[t].hint \in BOOLEAN
    BY FactsAssumption, PricingAssumption DEF ExpectedDecimals
  <1> QED BY <1>1 DEF IsMetadata, ExpectedMetadata, Row

(* A token of a swap of a window without tokens without decimals.          *)
LEMMA DivisibleTokens ==
    ASSUME NEW w, ~Indivisible(w), NEW n \in Range(SwapLogs(w)),
           NEW t \in {ExpectedEvent(n).tokenA, ExpectedEvent(n).tokenB}, t # None
    PROVE  t \in Tokens /\ TokenFacts[t].decimals # 0
  <1>1. n \in DOMAIN Logs /\ IsSwap(Logs[n]) BY SwapLogsType
  <1>2. t \in MaybeToken /\ t \in TokensAt(Logs[n].pool) \cup {None}
    BY <1>1, ExpectedEventFacts
  <1> QED BY <1>2 DEF MaybeToken, Indivisible

(* The swap of a log with a stablecoin does not depend on the other logs.  *)
LEMMA StableSwap ==
    ASSUME NEW n \in DOMAIN Logs, IsSwap(Logs[n]), NEW logs, NEW logs2,
           HasStablecoin(ExpectedSwap(logs, n))
    PROVE  ExpectedSwap(logs2, n) = ExpectedSwap(logs, n)
  <1> DEFINE e == ExpectedEvent(n)
             known == ExpectedMetadata
             sides == {[place |-> 1, token |-> e.tokenA, raw |-> e.amountA],
                       [place |-> 2, token |-> e.tokenB, raw |-> e.amountB]}
             said(s) == [place |-> s.place, token |-> s.token,
                         amount |-> Amount(s.raw, known[s.token].decimals)]
  <1>1. /\ e.tokenA \in MaybeToken /\ e.tokenB \in MaybeToken
    BY ExpectedEventFacts
  <1>2. \/ e.tokenA # None /\ e.amountA > 0 /\ TokenFacts[e.tokenA].hint
        \/ e.tokenB # None /\ e.amountB > 0 /\ TokenFacts[e.tokenB].hint
    BY DEF HasStablecoin, ExpectedSwap, Written
  <1>3. TokenAmounts(e, known) = {said(s) : s \in {x \in sides : x.token # None /\ x.raw > 0}}
    BY DEF TokenAmounts
  <1>4. \E s \in sides : s.token # None /\ s.raw > 0 /\ s.token \in Tokens /\ TokenFacts[s.token].hint
    <2> HIDE DEF e
    <2> QED BY <1>1, <1>2 DEF MaybeToken
  <1>5. PICK s \in sides : s.token # None /\ s.raw > 0 /\ s.token \in Tokens /\ TokenFacts[s.token].hint
    BY <1>4
  <1>6. said(s).token = s.token OBVIOUS
  <1>7. Stable(s.token, known) BY <1>5, ExpectedMetadataType DEF Stable
  <1> HIDE DEF said, sides, known, e
  <1>8. said(s) \in TokenAmounts(e, known) BY <1>3, <1>5
  <1>9. \A p, q : UsdAmount(e, known, p) = UsdAmount(e, known, q)
    BY <1>6, <1>7, <1>8, UsdOfAStablecoin
  <1>10. Written(e, known, ExpectedPrices(logs)) = Written(e, known, ExpectedPrices(logs2))
    BY <1>9, Zenon DEF Written
  <1> QED BY <1>10 DEF ExpectedSwap, e, known

(* The stages keep it: nothing was lost before a step after which nothing  *)
(* is lost.                                                                *)
LEMMA NothingLost ==
    ASSUME TypesSound, NEW calls, NEW attempts \in {1, 2}, NEW missing \in Losses(calls, attempts),
           Lose(missing, attempts), lost' = 0
    PROVE  lost = 0 /\ missing = {}
  <1>1. /\ Cardinality(missing) \in Nat
        /\ lost + attempts * Cardinality(missing) = 0 => missing = {}
    BY LossesType DEF TypesSound
  <1>2. lost + attempts * Cardinality(missing) = 0 BY DEF Lose
  <1>3. lost \in Nat BY EnrichmentAssumption DEF TypesSound
  <1>4. attempts = 1 \/ attempts = 2 OBVIOUS
  <1>5. lost = 0 BY <1>1, <1>2, <1>3, <1>4
  <1> QED BY <1>1, <1>2, <1>5

(* Rows stay what they are while the history grows.                        *)
LEMMA RowsKept ==
    ASSUME RowsExpected, NoDuplicates, rows' = rows,
           Len(history) \in Nat, Len(history') \in Nat, Len(history) <= Len(history'),
           \A i \in 1..Len(history) : history'[i] = history[i]
    PROVE  RowsExpected' /\ NoDuplicates'
  <1>1. \A x : RowsOf(x)' = RowsOf(x) BY DEF RowsOf
  <1>2. ASSUME NEW row \in Range(rows)
        PROVE  /\ row.scan \in 1..Len(history) /\ history'[row.scan] = history[row.scan]
               /\ RowExpected(row)'
    <2>1. RowExpected(row) BY DEF RowsExpected
    <2>2. row.scan \in 1..Len(history) BY <2>1 DEF RowExpected
    <2>3. row.scan \in 1..Len(history') BY <2>2
    <2>4. history'[row.scan] = history[row.scan] BY <2>2
    <2>5. RowExpected(row)'
      <3> DEFINE w == history[row.scan]
      <3>1. /\ row.log \in Sided(w)
            /\ ~Indivisible(w) =>
                 /\ row.written = ExpectedSwap(SwapLogs(w), row.log)
                 /\ \A x : Kept(x) => Cardinality(Twins(w, x)) <= RowsOf(x)
        BY <2>1 DEF RowExpected
      <3>2. \A x : Cardinality(Twins(w, x)) <= RowsOf(x) => Cardinality(Twins(w, x)) <= RowsOf(x)'
        BY <1>1
      <3>3. \A x : Kept(x)' = Kept(x) BY DEF Kept
      <3> QED BY <2>3, <2>4, <3>1, <3>2, <3>3 DEF RowExpected
    <2> QED BY <2>2, <2>4, <2>5
  <1>3. RowsExpected'
    <2>1. IsList(rows)' BY DEF RowsExpected, IsList
    <2> QED BY <1>2, <2>1 DEF RowsExpected
  <1>4. NoDuplicates'
    <2>1. \A i \in DOMAIN rows : history'[rows[i].scan] = history[rows[i].scan]
      BY <1>2 DEF Range
    <2> QED BY <2>1 DEF NoDuplicates
  <1> QED BY <1>3, <1>4

(* What each stage has to show: the history and the tables stay.           *)
LEMMA HistoryUnchanged ==
    ASSUME HistoryKept, history' = history, window' = window, pc # "idle"
    PROVE  /\ IsList(history)' /\ (pc' # "idle" => Len(history') >= 1 /\ window' = history'[Len(history')])
           /\ Len(history) \in Nat /\ Len(history') \in Nat /\ Len(history) <= Len(history')
           /\ \A i \in 1..Len(history) : history'[i] = history[i]
  <1>1. IsList(history) BY DEF HistoryKept
  <1>2. Len(history) \in Nat BY <1>1, ListDomain
  <1>3. IsList(history)' BY <1>1 DEF IsList
  <1>4. Len(history) >= 1 /\ window = history[Len(history)] BY DEF HistoryKept
  <1> QED BY <1>2, <1>3, <1>4

LEMMA TablesUnchanged ==
    ASSUME HistoryKept, TablesAreExpected, UNCHANGED <<tokens, rows, history>>
    PROVE  TablesAreExpected'
  <1>1. IsList(history) BY DEF HistoryKept
  <1>2. Len(history) \in Nat BY <1>1, ListDomain
  <1>3. RowsExpected' /\ NoDuplicates' BY <1>2, RowsKept DEF TablesAreExpected
  <1>4. TableExpected' BY DEF TableExpected, TablesAreExpected, TokenExpected
  <1> QED BY <1>3, <1>4 DEF TablesAreExpected

LEMMA ExpectedInit == EnrichmentInit => AllExpected
  <1> SUFFICES ASSUME EnrichmentInit PROVE AllExpected
    OBVIOUS
  <1> USE DEF EnrichmentInit
  <1>1. DOMAIN rows = {} /\ Range(rows) = {} /\ IsList(rows) /\ IsList(history)
    BY EmptyList
  <1>2. HistoryKept BY <1>1 DEF HistoryKept
  <1>3. EventsExpected /\ MetadataExpected /\ PricesExpected /\ PayloadExpected
    BY DEF EventsExpected, MetadataExpected, PricesExpected, PayloadExpected, Ordered
  <1>4. TableExpected BY DEF TableExpected
  <1>5. RowsExpected /\ NoDuplicates BY <1>1 DEF RowsExpected, NoDuplicates
  <1> QED BY <1>2, <1>3, <1>4, <1>5 DEF AllExpected, ScanIsExpected, TablesAreExpected

LEMMA ParseSwapsExpected ==
    ASSUME AllExpected, ParseSwaps PROVE AllExpected'
  <1> USE DEF AllExpected, ScanIsExpected
  <1>1. PICK w \in Windows :
          /\ window' = w
          /\ DOMAIN events' = DOMAIN SwapLogs(w)
          /\ pc' = IF SwapLogs(w) = <<>> THEN "stored" ELSE "pools"
          /\ history' = Append(history, w)
    BY DEF ParseSwaps
  <1>2. unanswered' = {} /\ tokens' = tokens /\ rows' = rows BY DEF ParseSwaps, ForgetLocals
  <1>3. IsList(history) BY DEF HistoryKept
  <1>4. Len(history) \in Nat BY <1>3, ListDomain
  <1>5. /\ IsList(Append(history, w)) /\ Len(Append(history, w)) = Len(history) + 1
        /\ \A i \in 1..Len(history) : Append(history, w)[i] = history[i]
        /\ Append(history, w)[Len(history) + 1] = w
    BY <1>3, ListAppend
  <1>6. IsList(history)' BY <1>1, <1>5 DEF IsList
  <1>7. /\ Len(history') \in Nat /\ Len(history') >= 1 /\ Len(history) <= Len(history')
        /\ window' = history'[Len(history')]
        /\ \A i \in 1..Len(history) : history'[i] = history[i]
    BY <1>1, <1>4, <1>5
  <1>8. HistoryKept' BY <1>2, <1>6, <1>7 DEF HistoryKept
  <1>9. EventsExpected'
    <2>1. pc' \in Ordered => DOMAIN events' = {}
      <3>1. pc' \in Ordered => SwapLogs(w) = <<>> BY <1>1 DEF Ordered
      <3> QED BY <1>1, <3>1
    <2>2. pc' # "tokens" BY <1>1
    <2> QED BY <2>1, <2>2 DEF EventsExpected
  <1>10. MetadataExpected' /\ PricesExpected' /\ PayloadExpected'
    BY <1>1 DEF MetadataExpected, PricesExpected, PayloadExpected
  <1>11. RowsExpected' /\ NoDuplicates'
    BY <1>2, <1>4, <1>7, RowsKept DEF TablesAreExpected
  <1>12. TableExpected' BY <1>2 DEF TableExpected, TablesAreExpected, TokenExpected
  <1> QED BY <1>8, <1>9, <1>10, <1>11, <1>12 DEF TablesAreExpected

LEMMA ResolvePoolsExpected ==
    ASSUME TypesSound, lost = 0 => AllExpected, ResolvePools, lost' = 0 PROVE AllExpected'
  <1> DEFINE calls == ({"factory"} \X EventPools) \cup ({"fee"} \X PoolsOfKind({"v3"}))
  <1>1. PICK missing \in Losses(calls, Attempts) : Lose(missing, Attempts)
    BY Zenon DEF ResolvePools
  <1> HIDE DEF calls
  <1>2. AllExpected BY <1>1, NothingLost, AttemptsType
  <1>3. /\ pc = "pools" /\ pc' \in {"pairs", "pairs again"}
        /\ UNCHANGED <<window, unanswered, history, tokens, rows>>
    BY DEF ResolvePools, Goto
  <1> USE DEF AllExpected, ScanIsExpected
  <1>4. HistoryKept' BY <1>2, <1>3, HistoryUnchanged DEF HistoryKept
  <1>5. EventsExpected' /\ MetadataExpected' /\ PricesExpected' /\ PayloadExpected'
    BY <1>3 DEF EventsExpected, MetadataExpected, PricesExpected, PayloadExpected, Ordered
  <1>6. TablesAreExpected' BY <1>2, <1>3, TablesUnchanged
  <1> QED BY <1>4, <1>5, <1>6

LEMMA ResolvePairsExpected ==
    ASSUME TypesSound, lost = 0 => AllExpected, ResolvePairs, lost' = 0 PROVE AllExpected'
  <1>1. PICK missing \in Losses(PoolsOfKind(StandardKinds) \X {1, 2}, 1) : Lose(missing, 1)
    BY Zenon DEF ResolvePairs
  <1>2. AllExpected BY <1>1, NothingLost
  <1>3. /\ pc = "pairs" /\ pc' = "pairs again"
        /\ UNCHANGED <<window, unanswered, history, tokens, rows>>
    BY DEF ResolvePairs, Goto
  <1> USE DEF AllExpected, ScanIsExpected
  <1>4. HistoryKept' BY <1>2, <1>3, HistoryUnchanged DEF HistoryKept
  <1>5. EventsExpected' /\ MetadataExpected' /\ PricesExpected' /\ PayloadExpected'
    BY <1>3 DEF EventsExpected, MetadataExpected, PricesExpected, PayloadExpected, Ordered
  <1>6. TablesAreExpected' BY <1>2, <1>3, TablesUnchanged
  <1> QED BY <1>4, <1>5, <1>6

LEMMA ResolvePairsAgainExpected ==
    ASSUME TypesSound, lost = 0 => AllExpected, ResolvePairsAgain, lost' = 0 PROVE AllExpected'
  <1>1. PICK missing \in Losses(Unresolved \X {1, 2}, 1) :
          /\ unanswered' = {call[1] : call \in
                              {c \in missing : pools[c[1]].pair[c[2]] = None}}
          /\ Lose(missing, 1)
    BY Zenon DEF ResolvePairsAgain
  <1>2. AllExpected /\ missing = {} BY <1>1, NothingLost
  <1>3. /\ pc = "pairs again" /\ pc' = "coins" /\ unanswered' = {}
        /\ UNCHANGED <<window, history, tokens, rows>>
    BY <1>1, <1>2 DEF ResolvePairsAgain, Goto
  <1> USE DEF AllExpected, ScanIsExpected
  <1>4. HistoryKept' BY <1>2, <1>3, HistoryUnchanged DEF HistoryKept
  <1>5. EventsExpected' /\ MetadataExpected' /\ PricesExpected' /\ PayloadExpected'
    BY <1>3 DEF EventsExpected, MetadataExpected, PricesExpected, PayloadExpected, Ordered
  <1>6. TablesAreExpected' BY <1>2, <1>3, TablesUnchanged
  <1> QED BY <1>4, <1>5, <1>6

LEMMA ResolveCoinsExpected ==
    ASSUME EnrichmentInvariant, lost = 0 => AllExpected, ResolveCoins, lost' = 0
    PROVE  AllExpected'
  <1> USE DEF AllExpected, ScanIsExpected
  <1> DEFINE CoinOf(e, k, m) ==
               CoinAddress(e.pool, CoinsOf(Logs[e.log])[k], e.kind = "underlying", m)
             logs == SwapLogs(window)
  <1>1. PICK missing \in Losses(CoinCalls, 1) :
          /\ events' = [i \in DOMAIN events |->
               IF events[i].kind \in CurveKinds
               THEN [events[i] EXCEPT !.tokenA = CoinOf(events[i], 1, missing),
                                      !.tokenB = CoinOf(events[i], 2, missing)]
               ELSE [events[i] EXCEPT !.tokenA = pools[events[i].pool].pair[1],
                                      !.tokenB = pools[events[i].pool].pair[2]]]
          /\ unanswered' = unanswered \cup {call[1] : call \in missing}
          /\ Lose(missing, 1)
    BY Zenon DEF ResolveCoins
  <1>2. AllExpected /\ missing = {} BY <1>1, NothingLost DEF EnrichmentInvariant
  <1>3. unanswered = {} /\ unanswered' = {} BY <1>1, <1>2 DEF HistoryKept
  <1>4. /\ pc = "coins" /\ pc' = "tokens"
        /\ UNCHANGED <<window, history, tokens, rows>>
    BY DEF ResolveCoins, Goto
  <1>5. DOMAIN events = DOMAIN logs /\ DOMAIN events' = DOMAIN logs
    BY <1>1, <1>4 DEF EventsSound, EnrichmentInvariant
  <1>6. ASSUME NEW i \in DOMAIN logs
        PROVE  events'[i] = Found(logs[i], ExpectedToken(logs[i], 1), ExpectedToken(logs[i], 2))
    <2> DEFINE n == logs[i]
    <2>1. n \in DOMAIN Logs /\ IsSwap(Logs[n]) /\ OfLog(n, events[i])
      BY <1>5, EventFacts DEF EnrichmentInvariant
    <2>2. events[i] = Read(n) BY <1>4, <1>5 DEF EventsSound, Parsed, EnrichmentInvariant
    <2>3. Logs[n].kind \in CurveKinds \cup StandardKinds
      BY <2>1 DEF IsSwap, CurveKinds, StandardKinds
    <2>4. /\ events[i].kind = Logs[n].kind /\ events[i].pool = Logs[n].pool
          /\ events[i].log = n
      BY <2>1 DEF OfLog
    <2>5. events'[i] = IF Logs[n].kind \in CurveKinds
                       THEN [Read(n) EXCEPT !.tokenA = CoinOf(events[i], 1, {}),
                                            !.tokenB = CoinOf(events[i], 2, {})]
                       ELSE [Read(n) EXCEPT !.tokenA = pools[Logs[n].pool].pair[1],
                                            !.tokenB = pools[Logs[n].pool].pair[2]]
      <3> HIDE DEF n, logs, CoinOf
      <3> QED BY <1>1, <1>2, <1>5, <2>2, <2>4
    <2>6. CASE Logs[n].kind \in CurveKinds
      <3>1. /\ CoinOf(events[i], 1, {}) = ExpectedToken(n, 1)
            /\ CoinOf(events[i], 2, {}) = ExpectedToken(n, 2)
        BY <2>4, <2>6, Zenon DEF ExpectedToken
      <3> HIDE DEF n, CoinOf, logs
      <3> QED BY <2>5, <2>6, <3>1 DEF Found, n
    <2>7. CASE Logs[n].kind \in StandardKinds
      <3>1. Logs[n].kind \notin CurveKinds BY <2>7 DEF CurveKinds, StandardKinds
      <3>2. Logs[n].pool \in PoolsOfKind(StandardKinds)
        <4> HIDE DEF n, logs
        <4> QED BY <1>5, <2>4, <2>7 DEF PoolsOfKind
      <3> DEFINE p == Logs[n].pool
      <3>3. \A side \in 1..2 : pools[p].pair[side] = PoolFacts[p].tokens[side]
        <4> HIDE DEF p
        <4> QED BY <1>3, <1>4, <3>2 DEF PairsSound, EnrichmentInvariant, p
      <3>4. /\ ExpectedToken(n, 1) = PoolFacts[p].tokens[1]
            /\ ExpectedToken(n, 2) = PoolFacts[p].tokens[2]
        BY <3>1 DEF ExpectedToken
      <3>5. pools[p].pair[1] = ExpectedToken(n, 1) /\ pools[p].pair[2] = ExpectedToken(n, 2)
        BY <3>3, <3>4
      <3> HIDE DEF n, CoinOf, logs
      <3> QED BY <2>5, <3>1, <3>5 DEF Found, n
    <2> QED BY <2>3, <2>6, <2>7
  <1>7. EventsExpected'
    <2>1. SwapLogs(window)' = SwapLogs(window) BY <1>4
    <2>2. pc' \notin Ordered BY <1>4 DEF Ordered
    <2> HIDE DEF logs
    <2>3. \A i \in DOMAIN events' :
            events'[i] = Found(logs[i], ExpectedToken(logs[i], 1), ExpectedToken(logs[i], 2))
      BY <1>5, <1>6
    <2> QED BY <2>1, <2>2, <2>3 DEF EventsExpected, logs
  <1>8. HistoryKept' BY <1>2, <1>3, <1>4, HistoryUnchanged DEF HistoryKept
  <1>9. MetadataExpected' /\ PricesExpected' /\ PayloadExpected'
    BY <1>4 DEF MetadataExpected, PricesExpected, PayloadExpected
  <1>10. TablesAreExpected' BY <1>2, <1>4, TablesUnchanged
  <1> QED BY <1>7, <1>8, <1>9, <1>10
-----------------------------------------------------------------------------
LEMMA MetadataAgrees ==
    EnrichmentInvariant /\ pc \in Priced /\ EventsExpected /\ MetadataExpected
      /\ ~Indivisible(window) => Agrees(metadata, ExpectedMetadata)
  <1> SUFFICES ASSUME EnrichmentInvariant, pc \in Priced, EventsExpected, MetadataExpected,
                      ~Indivisible(window)
               PROVE  Agrees(metadata, ExpectedMetadata)
    OBVIOUS
  <1>1. IsMetadata(metadata) /\ DOMAIN metadata = EventTokens
    BY DEF EnrichmentInvariant, PricesSound, Priced
  <1>2. EventTokens \subseteq Tokens BY <1>1 DEF IsMetadata
  <1>3. ASSUME NEW t \in EventTokens
        PROVE  /\ metadata[t].decimals = ExpectedMetadata[t].decimals
               /\ metadata[t].stable = ExpectedMetadata[t].stable
    <2>1. EventTokens = Held(events) BY DEF EventTokens, Held, PairsOf, PairOf
    <2>2. PICK i \in DOMAIN events : t # None /\ t \in {events[i].tokenA, events[i].tokenB}
      BY <2>1, HeldTokens
    <2> DEFINE n == SwapLogs(window)[i]
    <2>3. events[i] = ExpectedEvent(n) BY DEF EventsExpected, Ordered, Priced
    <2>4. DOMAIN events = DOMAIN SwapLogs(window)
      BY DEF EnrichmentInvariant, EventsSound, Priced
    <2>5. n \in Range(SwapLogs(window)) BY <2>4 DEF Range
    <2> HIDE DEF n
    <2>6. TokenFacts[t].decimals # 0 BY <2>2, <2>3, <2>5, DivisibleTokens
    <2>7. TokenExpected(t, metadata[t]) BY DEF MetadataExpected, Priced
    <2> QED BY <1>2, <2>6, <2>7, ExpectedMetadataType DEF TokenExpected
  <1> QED BY <1>1, <1>2, <1>3, ExpectedMetadataType DEF Agrees

LEMMA PricesOfExpected ==
    EnrichmentInvariant /\ pc = "balances" /\ EventsExpected /\ MetadataExpected
      => PricesExpected
  <1> SUFFICES ASSUME EnrichmentInvariant, pc = "balances", EventsExpected, MetadataExpected,
                      ~Indivisible(window)
               PROVE  prices = ExpectedPrices(SwapLogs(window))
    BY DEF PricesExpected
  <1>1. pc \in Priced BY DEF Priced
  <1>2. IsPriced(events, metadata) BY <1>1, EventsArePriced
  <1>3. Agrees(metadata, ExpectedMetadata) BY <1>1, MetadataAgrees
  <1>4. prices = InferPrices(events, metadata) BY DEF EnrichmentInvariant, PricesSound
  <1>5. InferPrices(events, metadata) = InferPrices(events, ExpectedMetadata)
    BY <1>2, <1>3, SamePricing
  <1>6. events = ExpectedEvents(SwapLogs(window))
    <2>1. events \in Seq(Event) /\ DOMAIN events = DOMAIN SwapLogs(window)
      BY DEF EnrichmentInvariant, EventsSound
    <2>2. events \in [1..Len(events) -> Event] BY <2>1, LenProperties
    <2>3. \A i \in DOMAIN events : events[i] = ExpectedEvent(SwapLogs(window)[i])
      BY DEF EventsExpected, Ordered
    <2> QED BY <2>1, <2>2, <2>3 DEF ExpectedEvents
  <1> QED BY <1>4, <1>5, <1>6 DEF ExpectedPrices

LEMMA AnsweredMetadata ==
    ASSUME TableExpected, NEW t \in Tokens
    PROVE  TokenExpected(t, Metadata(t, {}))
  <1> DEFINE symbol == t \in UnnamedTokens /\ TokenFacts[t].symbol
  <1>1. TokenFacts[t].hint \in BOOLEAN BY FactsAssumption
  <1>2. CASE tokens[t] # None
    <2>1. Metadata(t, {}) =
            [named |-> tokens[t].named \/ (t \in UnnamedTokens /\ <<"symbol", t>> \notin {} /\ TokenFacts[t].symbol),
             decimals |-> tokens[t].decimals,
             stable |-> tokens[t].stable \/ TokenFacts[t].hint]
      BY <1>2, Zenon DEF Metadata
    <2>2. TokenExpected(t, tokens[t]) BY <1>2 DEF TableExpected
    <2>3. (tokens[t].stable \/ TokenFacts[t].hint) = TokenFacts[t].hint
      BY <1>1, <2>2 DEF TokenExpected
    <2>4. /\ Metadata(t, {}).decimals = tokens[t].decimals
          /\ Metadata(t, {}).stable = (tokens[t].stable \/ TokenFacts[t].hint)
      BY <2>1
    <2> QED BY <2>2, <2>3, <2>4 DEF TokenExpected
  <1>3. CASE tokens[t] = None
    <2>1. /\ Metadata(t, {}).decimals = ExpectedDecimals(t)
          /\ Metadata(t, {}).stable = TokenFacts[t].hint
      BY <1>3 DEF Metadata, ExpectedDecimals
    <2> QED BY <2>1 DEF TokenExpected
  <1> QED BY <1>2, <1>3

LEMMA ResolveTokensExpected ==
    ASSUME EnrichmentInvariant, lost = 0 => AllExpected, ResolveTokens, lost' = 0
    PROVE  AllExpected'
  <1> USE DEF AllExpected, ScanIsExpected
  <1>1. EnrichmentInvariant' BY ResolveTokensKeeps
  <1>2. /\ pc = "tokens" /\ pc' = "balances"
        /\ UNCHANGED <<window, tokens, rows, unanswered, history>>
        /\ events' = [i \in DOMAIN events |-> Reorder(events[i])]
    BY DEF ResolveTokens, Goto
  <1> DEFINE calls == ({"decimals"} \X NewTokens) \cup ({"symbol"} \X UnnamedTokens)
  <1>3. PICK missing \in Losses(calls, Attempts) :
          /\ metadata' = [t \in EventTokens |-> Metadata(t, missing)]
          /\ Lose(missing, Attempts)
    BY Zenon DEF ResolveTokens
  <1> HIDE DEF calls
  <1>4. AllExpected /\ missing = {} BY <1>3, NothingLost, AttemptsType DEF EnrichmentInvariant
  <1>5. EventsExpected'
    <2>1. SwapLogs(window)' = SwapLogs(window) BY <1>2
    <2>2. \A i \in DOMAIN events : events'[i] = ExpectedEvent(SwapLogs(window)[i])
      <3>1. \A i \in DOMAIN events : LET n == SwapLogs(window)[i] IN
               events[i] = Found(n, ExpectedToken(n, 1), ExpectedToken(n, 2))
        BY <1>2, <1>4 DEF EventsExpected
      <3> QED BY <1>2, <3>1 DEF ExpectedEvent
    <2> QED BY <1>2, <2>1, <2>2 DEF EventsExpected
  <1>6. MetadataExpected'
    <2>1. \A t \in Tokens : TokenExpected(t, Metadata(t, {}))
      BY <1>4, AnsweredMetadata DEF TablesAreExpected
    <2>2. DOMAIN metadata' = EventTokens' /\ DOMAIN metadata' \subseteq Tokens
      BY <1>1, <1>2 DEF EnrichmentInvariant, PricesSound, IsMetadata
    <2>3. \A t \in DOMAIN metadata' : metadata'[t] = Metadata(t, {})
      BY <1>3, <1>4
    <2> QED BY <2>1, <2>2, <2>3 DEF MetadataExpected, TokenExpected
  <1>7. PricesExpected'
    <2>1. (EnrichmentInvariant /\ pc = "balances" /\ EventsExpected /\ MetadataExpected
            => PricesExpected)'
      BY PricesOfExpected, PTL
    <2> QED BY <1>1, <1>2, <1>5, <1>6, <2>1
  <1>8. HistoryKept' BY <1>2, <1>4, HistoryUnchanged DEF HistoryKept
  <1>9. PayloadExpected' BY <1>2 DEF PayloadExpected
  <1>10. TablesAreExpected' BY <1>2, <1>4, TablesUnchanged
  <1> QED BY <1>5, <1>6, <1>7, <1>8, <1>9, <1>10

LEMMA ResolveSnapshotsExpected ==
    ASSUME TypesSound, lost = 0 => AllExpected, ResolveSnapshots, lost' = 0
    PROVE  AllExpected'
  <1> USE DEF AllExpected, ScanIsExpected
  <1>1. PICK missing \in Losses(ValuedPools \X {1, 2}, 1) : Lose(missing, 1)
    BY Zenon DEF ResolveSnapshots
  <1>2. AllExpected BY <1>1, NothingLost
  <1>3. /\ pc = "balances" /\ pc' = "blocks"
        /\ UNCHANGED <<window, events, metadata, prices, tokens, rows, unanswered, history>>
    BY DEF ResolveSnapshots, Goto
  <1>4. HistoryKept' BY <1>2, <1>3, HistoryUnchanged DEF HistoryKept
  <1>5. EventsExpected' BY <1>2, <1>3 DEF EventsExpected, Ordered
  <1>6. MetadataExpected' /\ PricesExpected' /\ PayloadExpected'
    <2>1. EventTokens' = EventTokens BY <1>3 DEF EventTokens
    <2>2. MetadataExpected' BY <1>2, <1>3, <2>1 DEF MetadataExpected, TokenExpected
    <2>3. PricesExpected' BY <1>2, <1>3 DEF PricesExpected
    <2> QED BY <1>3, <2>2, <2>3 DEF PayloadExpected
  <1>7. TablesAreExpected' BY <1>2, <1>3, TablesUnchanged
  <1> QED BY <1>4, <1>5, <1>6, <1>7

(* The swaps of the payload are those of the logs with a side.             *)
LEMMA SwapsOfThePayload ==
    ASSUME EnrichmentInvariant, EventsExpected, MetadataExpected, PricesExpected,
           pc = "blocks", NEW missing
    PROVE  SwapsExpected(Payload(missing).swaps, window)
  <1> DEFINE list == Payload(missing).swaps
             logs == SwapLogs(window)
             places == {i \in DOMAIN events : events[i].side # None}
  <1>1. events \in Seq(Event) /\ DOMAIN events = DOMAIN logs
    BY DEF EnrichmentInvariant, EventsSound
  <1>2. places \in SUBSET (DOMAIN events) OBVIOUS
  <1>3. SidedEvents = RowsAt(events, places) BY DEF SidedEvents
  <1>4. /\ DOMAIN list = DOMAIN SidedEvents
        /\ \A k \in DOMAIN SidedEvents :
             list[k] = [log |-> SidedEvents[k].log, swap |-> SwapWrite(SidedEvents[k])]
    BY <1>1, SidedEventsAreEvents
  <1>5. \A i \in DOMAIN events :
          /\ events[i] = ExpectedEvent(logs[i])
          /\ logs[i] \in DOMAIN Logs /\ IsSwap(Logs[logs[i]]) /\ logs[i] \in Range(logs)
          /\ events[i].log = logs[i]
          /\ events[i].side = None <=> Read(logs[i]).side = None
    <2> SUFFICES ASSUME NEW i \in DOMAIN events
                 PROVE  /\ events[i] = ExpectedEvent(logs[i])
                        /\ logs[i] \in DOMAIN Logs /\ IsSwap(Logs[logs[i]]) /\ logs[i] \in Range(logs)
                        /\ events[i].log = logs[i]
                        /\ events[i].side = None <=> Read(logs[i]).side = None
      OBVIOUS
    <2>1. events[i] = ExpectedEvent(logs[i]) BY DEF EventsExpected, Ordered
    <2>2. logs[i] \in DOMAIN Logs /\ IsSwap(Logs[logs[i]]) BY <1>1, SwapLogsType
    <2>3. logs[i] \in Range(logs) BY <1>1 DEF Range
    <2> HIDE DEF logs
    <2> QED BY <2>1, <2>2, <2>3, ExpectedEventFacts DEF OfLog
  <1>6. Len(SidedEvents) \in Nat /\ DOMAIN SidedEvents = 1..Len(SidedEvents)
    <2> HIDE DEF places
    <2>1. RowsAt(events, places) \in Seq(Event) BY <1>1, <1>2, RowsAtPlaces
    <2> QED BY <1>3, <2>1, LenProperties
  <1>7. PICK order \in Bijection(DOMAIN SidedEvents, places) :
          \A k \in DOMAIN SidedEvents : SidedEvents[k] = events[order[k]]
    <2> HIDE DEF places
    <2> QED BY <1>1, <1>2, <1>3, RowsAtOrder
  <1>8. /\ \A k \in DOMAIN SidedEvents : order[k] \in places
        /\ \A k, l \in DOMAIN SidedEvents : order[k] = order[l] => k = l
        /\ \A i \in places : \E k \in DOMAIN SidedEvents : order[k] = i
    <2> HIDE DEF places
    <2> QED BY <1>7 DEF Bijection, Injection, IsInjective, Surjection
  <1>9. \A k \in DOMAIN list :
          /\ order[k] \in DOMAIN events /\ order[k] \in places
          /\ list[k].log = logs[order[k]]
          /\ list[k].swap = SwapWrite(ExpectedEvent(logs[order[k]]))
    <2> HIDE DEF list, logs
    <2> QED BY <1>4, <1>5, <1>7, <1>8
  <1>10. IsList(list)
    <2>1. list = [k \in 1..Len(SidedEvents) |->
                    [log |-> SidedEvents[k].log, swap |-> SwapWrite(SidedEvents[k])]]
      BY <1>6, Zenon DEF Payload
    <2> HIDE DEF list
    <2>2. list = [k \in 1..Len(SidedEvents) |-> list[k]] BY <2>1
    <2> QED BY <1>6, <2>2, ListByPlace
  <1>11. \A k \in DOMAIN list : list[k].log \in Sided(window)
    <2> HIDE DEF list
    <2>1. \A k \in DOMAIN list : events[order[k]].side # None BY <1>9
    <2> QED BY <1>5, <1>9, <2>1 DEF Sided
  <1>12. \A k, l \in DOMAIN list : list[k].log = list[l].log => k = l
    <2>1. \A i, j \in DOMAIN events : logs[i] = logs[j] => i = j BY <1>1, SwapLogsOrder
    <2> HIDE DEF list, logs, places
    <2> QED BY <1>4, <1>8, <1>9, <2>1
  <1>13. \A n \in Sided(window) : \E k \in DOMAIN list : list[k].log = n
    <2> SUFFICES ASSUME NEW n \in Sided(window) PROVE \E k \in DOMAIN list : list[k].log = n
      OBVIOUS
    <2>1. PICK i \in DOMAIN events : n = logs[i] BY <1>1 DEF Sided, Range
    <2>2. i \in places BY <1>5, <2>1 DEF Sided
    <2>3. PICK k \in DOMAIN SidedEvents : order[k] = i BY <1>8, <2>2
    <2> HIDE DEF list, logs, places
    <2> QED BY <1>4, <1>9, <2>1, <2>3
  <1>14. ASSUME ~Indivisible(window), NEW k \in DOMAIN list
         PROVE  list[k].swap = ExpectedSwap(logs, list[k].log)
    <2> DEFINE e == ExpectedEvent(logs[order[k]])
    <2>1. list[k].swap = SwapWrite(e) /\ list[k].log = logs[order[k]] BY <1>9
    <2>2. prices = ExpectedPrices(logs) BY <1>14 DEF PricesExpected
    <2>3. Agrees(metadata, ExpectedMetadata) BY <1>14, MetadataAgrees DEF Priced
    <2>4. Priceable(e, metadata)
      <3>1. IsPriced(events, metadata) BY EventsArePriced DEF Priced
      <3>2. e = events[order[k]] /\ order[k] \in DOMAIN events BY <1>5, <1>9
      <3> HIDE DEF e
      <3> QED BY <3>1, <3>2 DEF IsPriced
    <2> HIDE DEF e, list
    <2>5. UsdAmount(e, metadata, prices) = UsdAmount(e, ExpectedMetadata, prices)
      BY <2>3, <2>4, SameUsd
    <2>6. SwapWrite(e) = Written(e, ExpectedMetadata, prices)
      BY <2>5, Zenon DEF SwapWrite, Written
    <2> HIDE DEF logs
    <2> QED BY <2>1, <2>2, <2>6 DEF ExpectedSwap, e
  <1> QED BY <1>10, <1>11, <1>12, <1>13, <1>14 DEF SwapsExpected

LEMMA TokensOfThePayload ==
    ASSUME EnrichmentInvariant, MetadataExpected, pc = "blocks", NEW missing,
           NEW w \in Payload(missing).tokens
    PROVE  TokenExpected(w.address, w)
  <1>1. PICK t \in EventTokens : w = TokenRow(t) BY PayloadRows
  <1>2. TokenExpected(t, metadata[t]) BY DEF MetadataExpected
  <1>3. /\ w.address = t /\ w.stable = metadata[t].stable
        /\ w.decimals = StoredDecimals(metadata[t].decimals)
    BY <1>1 DEF TokenRow
  <1>4. TokenFacts[t].decimals # 0 => StoredDecimals(metadata[t].decimals) = ExpectedDecimals(t)
    BY <1>2 DEF TokenExpected, StoredDecimals, ExpectedDecimals
  <1> QED BY <1>2, <1>3, <1>4 DEF TokenExpected

LEMMA EnrichTradesExpected ==
    ASSUME EnrichmentInvariant, lost = 0 => AllExpected, EnrichTrades, lost' = 0
    PROVE  AllExpected'
  <1> USE DEF AllExpected, ScanIsExpected
  <1> DEFINE blockCalls == {"block"} \X {e.block : e \in Range(events)}
             traceCalls == IF tracing THEN {"trace"} \X {e.tx : e \in Range(events)} ELSE {}
  <1>1. /\ pc = "blocks" /\ pc' = "persist"
        /\ UNCHANGED <<window, events, tokens, rows, unanswered, history>>
    BY DEF EnrichTrades, Goto
  <1>2. PICK blocks \in Losses(blockCalls, Attempts), traces \in Losses(traceCalls, 1) :
          /\ lost' = lost + (Attempts * Cardinality(blocks) + Cardinality(traces))
          /\ payload' = Payload(blocks \cup traces)
    BY Zenon DEF EnrichTrades
  <1> HIDE DEF blockCalls, traceCalls
  <1> DEFINE missing == blocks \cup traces
  <1>3. AllExpected
    <2>1. lost \in 0..MaxLost /\ lost \in Nat
      BY EnrichmentAssumption DEF EnrichmentInvariant, TypesSound
    <2>2. IsFiniteSet(blocks) /\ IsFiniteSet(traces) BY <2>1, AttemptsType, LossesType
    <2>3. PICK m \in Nat, n \in Nat : m = Cardinality(blocks) /\ n = Cardinality(traces)
      BY <2>2, FS_CardinalityType
    <2>4. PICK a \in {1, 2} : a = Attempts BY AttemptsType
    <2>5. lost' = lost + (a * m + n) BY <1>2, <2>3, <2>4
    <2>6. a * m + n \in Nat
      <3>1. CASE a = 1 BY <3>1
      <3>2. CASE a = 2 BY <3>2
      <3> QED BY <2>4, <3>1, <3>2
    <2>7. lost = 0 BY <2>1, <2>5, <2>6
    <2> QED BY <2>7
  <1>4. payload' = Payload(missing) BY <1>2
  <1> HIDE DEF missing
  <1>5. PayloadExpected'
    <2>1. SwapsExpected(Payload(missing).swaps, window)
      BY <1>1, <1>3, SwapsOfThePayload
    <2>2. \A w \in Payload(missing).tokens : TokenExpected(w.address, w)
      BY <1>1, <1>3, TokensOfThePayload
    <2>3. SwapsExpected(payload.swaps, window)'
      BY <1>1, <1>4, <2>1 DEF SwapsExpected, IsList
    <2>4. \A w \in payload'.tokens : TokenExpected(w.address, w)' BY <1>4, <2>2 DEF TokenExpected
    <2> QED BY <2>3, <2>4 DEF PayloadExpected
  <1>6. HistoryKept' BY <1>1, <1>3, HistoryUnchanged DEF HistoryKept
  <1>7. EventsExpected' BY <1>1, <1>3 DEF EventsExpected, Ordered
  <1>8. MetadataExpected' /\ PricesExpected' BY <1>1 DEF MetadataExpected, PricesExpected
  <1>9. TablesAreExpected' BY <1>1, <1>3, TablesUnchanged
  <1> QED BY <1>5, <1>6, <1>7, <1>8, <1>9
-----------------------------------------------------------------------------
(* Swaps of one log are the same where the windows have the same logs, or  *)
(* a stablecoin decides; then those that are alike are in both windows.    *)
LEMMA SameSwap ==
    ASSUME NEW n \in DOMAIN Logs, IsSwap(Logs[n]), NEW logs, NEW logs2,
           \/ logs = logs2
           \/ HasStablecoin(ExpectedSwap(logs, n)) \/ HasStablecoin(ExpectedSwap(logs2, n))
    PROVE  ExpectedSwap(logs, n) = ExpectedSwap(logs2, n)
  BY StableSwap

LEMMA TwinsFinite ==
    ASSUME NEW w, NEW x
    PROVE  IsFiniteSet(Twins(w, x)) /\ Cardinality(Twins(w, x)) \in Nat
  <1>1. Twins(w, x) \subseteq DOMAIN Logs
    <2>1. \A n \in Range(SwapLogs(w)) : n \in DOMAIN Logs BY SwapLogsType
    <2> QED BY <2>1 DEF Twins, Sided
  <1>2. IsFiniteSet(DOMAIN Logs) BY LogTypes, FS_Interval
  <1> QED BY <1>1, <1>2, FS_Subset, FS_CardinalityType

LEMMA TwinsWithin ==
    ASSUME NEW w, NEW w2, NEW n \in Sided(w), NEW x, x = ExpectedSwap(SwapLogs(w), n),
           SwapLogs(w) = SwapLogs(w2) \/ HasStablecoin(x)
    PROVE  Twins(w2, x) \subseteq Twins(w, x)
  <1>1. CASE SwapLogs(w) = SwapLogs(w2) BY <1>1 DEF Twins, Sided
  <1>2. CASE HasStablecoin(x)
    <2> SUFFICES ASSUME NEW m \in Twins(w2, x) PROVE m \in Twins(w, x)
      OBVIOUS
    <2>1. /\ m \in Range(SwapLogs(w2)) /\ Read(m).side # None
          /\ ExpectedSwap(SwapLogs(w2), m) = x
      BY DEF Twins, Sided
    <2>2. /\ m \in DOMAIN Logs /\ IsSwap(Logs[m]) BY <2>1, SwapLogsOrder
    <2>3. /\ n \in DOMAIN Logs /\ IsSwap(Logs[n])
          /\ w.start <= Logs[n].block /\ Logs[n].block <= w.end
      BY SwapLogsOrder DEF Sided
    <2>4. \A k, logs : ExpectedSwap(logs, k).tx = ExpectedEvent(k).tx
      BY DEF ExpectedSwap, Written
    <2>5. ExpectedEvent(m).tx = Logs[m].tx /\ ExpectedEvent(n).tx = Logs[n].tx
      BY <2>2, <2>3, ExpectedEventFacts DEF OfLog
    <2>6. Logs[m].tx = Logs[n].tx BY <2>1, <2>4, <2>5
    <2>7. Logs[m].block = Logs[n].block BY <2>2, <2>3, <2>6, LogsAssumption
    <2>8. m \in Range(SwapLogs(w)) BY <2>2, <2>3, <2>7, SwapLogsOrder
    <2>9. ExpectedSwap(SwapLogs(w), m) = x BY <1>2, <2>1, <2>2, StableSwap
    <2> QED BY <2>1, <2>8, <2>9 DEF Twins, Sided
  <1> QED BY <1>1, <1>2
-----------------------------------------------------------------------------
(* _build_new_swaps: the rows that are added, and which swap of the list   *)
(* each of them is.                                                        *)
Copies(x) == {i \in DOMAIN payload.swaps : payload.swaps[i].swap = x}

LEMMA CopiesFinite ==
    ASSUME IsList(payload.swaps), NEW x
    PROVE  /\ Copies(x) \in SUBSET Nat /\ IsFiniteSet(Copies(x)) /\ Cardinality(Copies(x)) \in Nat
  <1>1. DOMAIN payload.swaps = 1..Len(payload.swaps) /\ Len(payload.swaps) \in Nat
    BY ListDomain
  <1>2. IsFiniteSet(1..Len(payload.swaps)) BY <1>1, FS_Interval
  <1>3. Copies(x) \subseteq 1..Len(payload.swaps) BY <1>1 DEF Copies
  <1> QED BY <1>2, <1>3, FS_Subset, FS_CardinalityType

IsOrder(order) ==
    /\ \A k \in DOMAIN NewRows :
         /\ order[k] \in DOMAIN payload.swaps
         /\ NewRows[k].log = payload.swaps[order[k]].log
         /\ NewRows[k].written = payload.swaps[order[k]].swap
         /\ NewRows[k].swap = Stored(NewRows[k].written)
         /\ NewRows[k].scan = Len(history)
         /\ Cardinality(Upto(Copies(NewRows[k].written), order[k])) > RowsOf(NewRows[k].written)
    /\ \A k, l \in DOMAIN NewRows : order[k] = order[l] => k = l
    /\ \A i \in DOMAIN payload.swaps :
         Cardinality(Upto(Copies(payload.swaps[i].swap), i)) > RowsOf(payload.swaps[i].swap)
           => \E k \in DOMAIN NewRows : order[k] = i

LEMMA NewRowsOrdered ==
    ASSUME IsList(payload.swaps)
    PROVE  IsList(NewRows) /\ \E order : IsOrder(order)
  <1> DEFINE list == payload.swaps
             places == {i \in DOMAIN list :
                  Cardinality({j \in 1..i : list[j].swap = list[i].swap}) > RowsOf(list[i].swap)}
             new == RowsAt(list, places)
  <1>1. list \in Seq(Range(list)) /\ DOMAIN list = 1..Len(list) /\ Len(list) \in Nat
    BY ListDomain DEF IsList
  <1>2. places \in SUBSET (DOMAIN list) OBVIOUS
  <1>3. NewRows = [k \in DOMAIN new |-> [log |-> new[k].log, swap |-> Stored(new[k].swap),
                                         written |-> new[k].swap, scan |-> Len(history)]]
    BY DEF NewRows
  <1>4. ASSUME NEW i \in DOMAIN list
        PROVE  {j \in 1..i : list[j].swap = list[i].swap} = Upto(Copies(list[i].swap), i)
    <2>1. \A j : j \in 1..i <=> j \in DOMAIN list /\ j <= i BY <1>1
    <2> QED BY <2>1 DEF Upto, Copies
  <1>5. \A i \in DOMAIN list :
          i \in places <=> Cardinality(Upto(Copies(list[i].swap), i)) > RowsOf(list[i].swap)
    BY <1>4
  <1> HIDE DEF places, list
  <1>6. new \in Seq(Range(list)) BY <1>1, <1>2, RowsAtPlaces
  <1>7. PICK order \in Bijection(DOMAIN new, places) : \A k \in DOMAIN new : new[k] = list[order[k]]
    BY <1>1, <1>2, RowsAtOrder
  <1>8. /\ \A k \in DOMAIN new : order[k] \in places
        /\ \A k, l \in DOMAIN new : order[k] = order[l] => k = l
        /\ \A i \in places : \E k \in DOMAIN new : order[k] = i
    BY <1>7 DEF Bijection, Injection, IsInjective, Surjection
  <1>9. DOMAIN new = 1..Len(new) /\ Len(new) \in Nat BY <1>6, LenProperties
  <1> HIDE DEF new
  <1>10. IsList(NewRows)
    <2>1. NewRows = [k \in 1..Len(new) |-> NewRows[k]] BY <1>3, <1>9
    <2> QED BY <1>9, <2>1, ListByPlace
  <1>11. DOMAIN NewRows = DOMAIN new
         /\ \A k \in DOMAIN new : /\ NewRows[k].log = list[order[k]].log
                                  /\ NewRows[k].written = list[order[k]].swap
                                  /\ NewRows[k].swap = Stored(NewRows[k].written)
                                  /\ NewRows[k].scan = Len(history)
    BY <1>3, <1>7
  <1>12. IsOrder(order)
    <2>1. \A k \in DOMAIN NewRows :
            /\ order[k] \in DOMAIN list
            /\ Cardinality(Upto(Copies(NewRows[k].written), order[k])) > RowsOf(NewRows[k].written)
      BY <1>2, <1>5, <1>8, <1>11
    <2> QED BY <1>5, <1>8, <1>11, <2>1 DEF IsOrder, list
  <1> QED BY <1>10, <1>12

(* After the rows are added the table has as many of a swap as the list,   *)
(* if its column keeps it whole.                                           *)
LEMMA RowsAfter ==
    ASSUME IsList(rows), IsList(payload.swaps), rows' = rows \o NewRows, NEW x
    PROVE  /\ RowsOf(x) \in Nat /\ RowsOf(x)' \in Nat
           /\ RowsOf(x) <= RowsOf(x)' /\ (Kept(x) => Cardinality(Copies(x)) <= RowsOf(x)')
  <1>1. IsList(NewRows) /\ \E order : IsOrder(order) BY NewRowsOrdered
  <1>2. PICK order : IsOrder(order) BY <1>1
  <1> DEFINE both == rows \o NewRows
             S == {r \in Range(rows) \cup Range(NewRows) : r.swap = x}
  <1>3. /\ IsList(both) /\ Range(both) = Range(rows) \cup Range(NewRows)
        /\ Cardinality(Places(both, S)) = Cardinality(Places(rows, S)) + Cardinality(Places(NewRows, S))
    BY <1>1, ListConcat
  <1>4. /\ Places(rows, S) = {i \in DOMAIN rows : rows[i].swap = x}
        /\ Places(NewRows, S) = {k \in DOMAIN NewRows : NewRows[k].swap = x}
    BY DEF Places, Range
  <1>5. Places(both, S) = {i \in DOMAIN both : both[i].swap = x}
    <2>1. \A i \in DOMAIN both : both[i] \in Range(rows) \cup Range(NewRows)
      <3> HIDE DEF both
      <3> QED BY <1>3 DEF Range
    <2> HIDE DEF both
    <2> QED BY <2>1 DEF Places
  <1>6. RowsOf(x) = Cardinality(Places(rows, S)) BY <1>4 DEF RowsOf
  <1>7. RowsOf(x)' = Cardinality(Places(both, S)) BY <1>5 DEF RowsOf
  <1>8. Cardinality(Places(rows, S)) \in Nat /\ Cardinality(Places(NewRows, S)) \in Nat
        /\ IsFiniteSet(Places(NewRows, S))
    BY <1>1, PlacesFinite DEF IsList
  <1> DEFINE above == {i \in Copies(x) : Cardinality(Upto(Copies(x), i)) > RowsOf(x)}
             added == {k \in DOMAIN NewRows : NewRows[k].written = x}
             f == [k \in added |-> order[k]]
  <1>9. /\ IsFiniteSet(above) /\ Cardinality(above) \in Nat /\ Cardinality(Copies(x)) \in Nat
        /\ Cardinality(above) + RowsOf(x) >= Cardinality(Copies(x))
    <2>1. /\ Copies(x) \in SUBSET Nat /\ IsFiniteSet(Copies(x)) /\ RowsOf(x) \in Nat
      BY <1>6, <1>8, CopiesFinite
    <2> QED BY <2>1, RanksAbove
  <1>10. \A k \in added : order[k] \in above
    <2> SUFFICES ASSUME NEW k \in added PROVE order[k] \in above
      OBVIOUS
    <2>1. k \in DOMAIN NewRows /\ NewRows[k].written = x OBVIOUS
    <2> QED BY <1>2, <2>1 DEF IsOrder, Copies
  <1>11. \A i \in above : \E k \in added : order[k] = i
    <2> SUFFICES ASSUME NEW i \in above PROVE \E k \in added : order[k] = i
      OBVIOUS
    <2>1. /\ i \in DOMAIN payload.swaps /\ payload.swaps[i].swap = x
          /\ Cardinality(Upto(Copies(x), i)) > RowsOf(x)
      BY DEF Copies
    <2>2. PICK k \in DOMAIN NewRows : order[k] = i BY <1>2, <2>1 DEF IsOrder
    <2>3. NewRows[k].written = x BY <1>2, <2>1, <2>2 DEF IsOrder
    <2> QED BY <2>2, <2>3
  <1>12. f \in Surjection(added, above)
    <2> HIDE DEF added, above
    <2>1. f \in [added -> above] BY <1>10
    <2>2. \A i \in above : \E k \in added : f[k] = i BY <1>11
    <2> HIDE DEF f
    <2> QED BY <2>1, <2>2, Fun_IsSurj
  <1>13. ASSUME Kept(x) PROVE Cardinality(above) <= Cardinality(Places(NewRows, S))
    <2>1. added \subseteq Places(NewRows, S)
      <3>1. \A k \in added : NewRows[k].swap = x BY <1>2, <1>13 DEF IsOrder, Kept
      <3> QED BY <1>4, <3>1
    <2> HIDE DEF added, above, f, S
    <2>2. /\ IsFiniteSet(added) /\ Cardinality(added) \in Nat
          /\ Cardinality(added) <= Cardinality(Places(NewRows, S))
      BY <1>8, <2>1, FS_Subset, FS_CardinalityType
    <2>3. Cardinality(above) <= Cardinality(added) BY <1>12, <2>2, FS_Surjection
    <2> QED BY <1>8, <1>9, <2>2, <2>3
  <1> HIDE DEF above, S, both, f, added
  <1>14. RowsOf(x) \in Nat /\ RowsOf(x)' \in Nat /\ RowsOf(x) <= RowsOf(x)'
    BY <1>3, <1>6, <1>7, <1>8
  <1>15. ASSUME Kept(x) PROVE Cardinality(Copies(x)) <= RowsOf(x)'
    BY <1>3, <1>6, <1>7, <1>8, <1>9, <1>13, <1>15
  <1> QED BY <1>14, <1>15

(* The copies of a swap in the list are the logs that become it.           *)
LEMMA CopiesAreTwins ==
    ASSUME SwapsExpected(payload.swaps, window), ~Indivisible(window), NEW x
    PROVE  Cardinality(Copies(x)) = Cardinality(Twins(window, x))
  <1> DEFINE list == payload.swaps
             f == [i \in Copies(x) |-> list[i].log]
  <1>1. /\ IsList(list)
        /\ \A i \in DOMAIN list : list[i].log \in Sided(window)
        /\ \A i, j \in DOMAIN list : list[i].log = list[j].log => i = j
        /\ \A n \in Sided(window) : \E i \in DOMAIN list : list[i].log = n
        /\ \A i \in DOMAIN list : list[i].swap = ExpectedSwap(SwapLogs(window), list[i].log)
    BY DEF SwapsExpected
  <1>2. IsFiniteSet(Copies(x)) BY <1>1, CopiesFinite
  <1> HIDE DEF list
  <1>3. \A i : i \in Copies(x) <=> i \in DOMAIN list /\ list[i].swap = x BY DEF Copies, list
  <1>4. f \in [Copies(x) -> Twins(window, x)] BY <1>1, <1>3 DEF Twins
  <1>5. \A i, j \in Copies(x) : f[i] = f[j] => i = j BY <1>1, <1>3
  <1>6. Range(f) = Twins(window, x)
    <2>1. Range(f) \subseteq Twins(window, x) BY <1>4 DEF Range
    <2>2. ASSUME NEW n \in Twins(window, x) PROVE n \in Range(f)
      <3>1. n \in Sided(window) /\ ExpectedSwap(SwapLogs(window), n) = x BY DEF Twins
      <3>2. PICK i \in DOMAIN list : list[i].log = n BY <1>1, <3>1
      <3>3. i \in Copies(x) BY <1>1, <1>3, <3>1, <3>2
      <3> QED BY <3>2, <3>3 DEF Range
    <2> QED BY <2>1, <2>2
  <1> HIDE DEF f
  <1>7. Cardinality(Range(f)) = Cardinality(Copies(x)) BY <1>2, <1>4, <1>5, InjectiveImage
  <1> QED BY <1>6, <1>7

(* A log with a row gets no other one, but for a reason.                   *)
LEMMA NoSecondRow ==
    ASSUME RowsExpected, SwapsExpected(payload.swaps, window),
           NEW order, IsOrder(order), NEW k \in DOMAIN NewRows,
           NEW row \in Range(rows), row.log = NewRows[k].log,
           ~Indivisible(window), ~Indivisible(history[row.scan]),
           \/ SwapLogs(history[row.scan]) = SwapLogs(window)
           \/ HasStablecoin(row.written) \/ HasStablecoin(NewRows[k].written),
           Kept(row.written) \/ Kept(NewRows[k].written)
    PROVE  FALSE
  <1> DEFINE w == history[row.scan]
             n == row.log
             x == row.written
  <1>1. /\ n \in Sided(w) /\ x = ExpectedSwap(SwapLogs(w), n)
        /\ Kept(x) => Cardinality(Twins(w, x)) <= RowsOf(x)
    BY DEF RowsExpected, RowExpected
  <1>2. /\ order[k] \in DOMAIN payload.swaps
        /\ payload.swaps[order[k]].log = n /\ payload.swaps[order[k]].swap = NewRows[k].written
        /\ Cardinality(Upto(Copies(NewRows[k].written), order[k])) > RowsOf(NewRows[k].written)
    BY DEF IsOrder
  <1>3. NewRows[k].written = ExpectedSwap(SwapLogs(window), n) BY <1>2 DEF SwapsExpected
  <1>4. n \in DOMAIN Logs /\ IsSwap(Logs[n]) BY <1>1, SwapLogsOrder DEF Sided
  <1> HIDE DEF n, x, w
  <1>5. NewRows[k].written = x
    <2>1. \/ SwapLogs(w) = SwapLogs(window)
          \/ HasStablecoin(ExpectedSwap(SwapLogs(w), n))
          \/ HasStablecoin(ExpectedSwap(SwapLogs(window), n))
      BY <1>1, <1>3 DEF x, w
    <2> QED BY <1>1, <1>3, <1>4, <2>1, SameSwap
  <1>6. SwapLogs(w) = SwapLogs(window) \/ HasStablecoin(x) BY <1>5 DEF x, w
  <1>7. Twins(window, x) \subseteq Twins(w, x) BY <1>1, <1>6, TwinsWithin
  <1>8. Cardinality(Twins(window, x)) <= Cardinality(Twins(w, x))
    BY <1>7, TwinsFinite, FS_Subset
  <1>9. Cardinality(Copies(x)) = Cardinality(Twins(window, x)) BY CopiesAreTwins
  <1>10. order[k] \in Copies(x) BY <1>2, <1>5 DEF Copies
  <1>11. Cardinality(Upto(Copies(x), order[k])) \in 1..Cardinality(Copies(x))
    <2>1. IsList(payload.swaps) BY DEF SwapsExpected
    <2>2. Copies(x) \in SUBSET Nat /\ IsFiniteSet(Copies(x)) BY <2>1, CopiesFinite
    <2> QED BY <1>10, <2>2, RanksDiffer
  <1>12. RowsOf(x) \in Nat
    <2>1. rows \in Seq(Range(rows)) BY DEF RowsExpected, IsList
    <2>2. RowsOf(x) = Cardinality(Places(rows, {r \in Range(rows) : r.swap = x}))
      BY DEF RowsOf, Places, Range
    <2> QED BY <2>1, <2>2, PlacesFinite
  <1>13. Cardinality(Twins(window, x)) \in Nat /\ Cardinality(Twins(w, x)) \in Nat
    BY TwinsFinite
  <1>14. Cardinality(Upto(Copies(x), order[k])) > RowsOf(x) BY <1>2, <1>5
  <1>15. Kept(x) BY <1>5 DEF x
  <1> QED BY <1>1, <1>15, <1>8, <1>9, <1>11, <1>12, <1>13, <1>14

(* What a row of the table says, once the table and the history are long   *)
(* enough.                                                                 *)
LEMMA RowStaysExpected ==
    ASSUME NEW row, RowExpected(row), history' = history,
           \A x : RowsOf(x) \in Nat /\ RowsOf(x)' \in Nat /\ RowsOf(x) <= RowsOf(x)'
    PROVE  RowExpected(row)'
  <1> DEFINE w == history[row.scan]
  <1>1. /\ row.scan \in 1..Len(history) /\ row.log \in Sided(w)
        /\ ~Indivisible(w) =>
             /\ row.written = ExpectedSwap(SwapLogs(w), row.log)
             /\ \A x : Kept(x) => Cardinality(Twins(w, x)) <= RowsOf(x)
    BY DEF RowExpected
  <1>2. ASSUME NEW x, Cardinality(Twins(w, x)) <= RowsOf(x)
        PROVE  Cardinality(Twins(w, x)) <= RowsOf(x)'
    <2>1. Cardinality(Twins(w, x)) \in Nat BY TwinsFinite
    <2>2. RowsOf(x) \in Nat /\ RowsOf(x)' \in Nat /\ RowsOf(x) <= RowsOf(x)' OBVIOUS
    <2> HIDE DEF w
    <2> QED BY <1>2, <2>1, <2>2
  <1>3. \A x : Kept(x)' = Kept(x) BY DEF Kept
  <1> QED BY <1>1, <1>2, <1>3 DEF RowExpected

(* The tokens of a payload say no more of a token than is expected.        *)
LEMMA StoredAsExpected ==
    ASSUME EnrichmentInvariant, TableExpected, PayloadExpected, Persist
    PROVE  TableExpected'
  <1> SUFFICES ASSUME NEW t \in Tokens, tokens'[t] # None PROVE TokenExpected(t, tokens'[t])
    BY DEF TableExpected, TokenExpected
  <1> DEFINE w == CHOOSE x \in payload.tokens : x.address = t
  <1>1. /\ pc = "persist"
        /\ tokens' = [u \in Tokens |->
             IF u \in EventTokens
             THEN StoredToken(tokens[u], CHOOSE x \in payload.tokens : x.address = u)
             ELSE tokens[u]]
    BY DEF Persist
  <1>2. CASE t \notin EventTokens BY <1>1, <1>2 DEF TableExpected
  <1>3. CASE t \in EventTokens
    <2>1. tokens'[t] = StoredToken(tokens[t], w) BY <1>1, <1>3
    <2>2. \E x \in payload.tokens : x.address = t
      BY <1>1, <1>3 DEF EnrichmentInvariant, PayloadSound, TokenWrites
    <2>3. w \in payload.tokens /\ w.address = t BY <2>2
    <2> HIDE DEF w
    <2>4. TokenExpected(t, w) BY <1>1, <2>3 DEF PayloadExpected
    <2>5. CASE tokens[t] = None
      <3>1. tokens'[t] = [named |-> w.named, decimals |-> w.decimals, stable |-> w.stable]
        BY <2>1, <2>5 DEF StoredToken
      <3> QED BY <2>4, <3>1 DEF TokenExpected
    <2>6. CASE tokens[t] # None
      <3>1. tokens[t] \in Row
        BY <2>6 DEF EnrichmentInvariant, TypesSound
      <3>2. tokens'[t] = [tokens[t] EXCEPT !.named = @ \/ w.named, !.stable = @ \/ w.stable]
        BY <2>1, <2>6, Zenon DEF StoredToken
      <3>3. /\ tokens'[t].decimals = tokens[t].decimals
            /\ tokens'[t].stable = (tokens[t].stable \/ w.stable)
        BY <3>1, <3>2 DEF Row
      <3>4. TokenExpected(t, tokens[t]) BY <2>6 DEF TableExpected
      <3>5. (tokens[t].stable \/ w.stable) = TokenFacts[t].hint
        <4>1. TokenFacts[t].hint \in BOOLEAN BY FactsAssumption
        <4>2. tokens[t].stable = TokenFacts[t].hint /\ w.stable = TokenFacts[t].hint
          BY <2>4, <3>4 DEF TokenExpected
        <4> QED BY <4>1, <4>2
      <3> QED BY <3>3, <3>4, <3>5 DEF TokenExpected
    <2> QED BY <2>5, <2>6
  <1> QED BY <1>2, <1>3

(* The rows a scan adds are expected, and no log gets a second one.        *)
LEMMA RowsAreAdded ==
    ASSUME HistoryKept, RowsExpected, NoDuplicates, pc # "idle",
           SwapsExpected(payload.swaps, window),
           rows' = rows \o NewRows, history' = history
    PROVE  RowsExpected' /\ NoDuplicates'
  <1>1. /\ IsList(rows) /\ IsList(payload.swaps) /\ IsList(history)
        /\ Len(history) >= 1 /\ window = history[Len(history)]
    BY DEF HistoryKept, RowsExpected, SwapsExpected
  <1>2. Len(history) \in Nat BY <1>1, ListDomain
  <1>3. IsList(NewRows) /\ \E order : IsOrder(order) BY <1>1, NewRowsOrdered
  <1>4. PICK order : IsOrder(order) BY <1>3
  <1> DEFINE both == rows \o NewRows
  <1>5. /\ IsList(both) /\ Range(both) = Range(rows) \cup Range(NewRows)
        /\ \A i \in DOMAIN both :
             \/ i \in DOMAIN rows /\ both[i] = rows[i]
             \/ i \notin DOMAIN rows /\ i - Len(rows) \in DOMAIN NewRows
                /\ both[i] = NewRows[i - Len(rows)]
    BY <1>1, <1>3, ListConcat
  <1>6. \A x : RowsOf(x) \in Nat /\ RowsOf(x)' \in Nat /\ RowsOf(x) <= RowsOf(x)'
               /\ (Kept(x) => Cardinality(Copies(x)) <= RowsOf(x)')
    BY <1>1, RowsAfter
  <1>7. ASSUME NEW row, NEW k \in DOMAIN NewRows, row = NewRows[k] PROVE RowExpected(row)'
    <2>1. /\ order[k] \in DOMAIN payload.swaps /\ row.scan = Len(history)
          /\ row.log = payload.swaps[order[k]].log /\ row.written = payload.swaps[order[k]].swap
      BY <1>4, <1>7 DEF IsOrder
    <2>2. row.log \in Sided(window) BY <2>1 DEF SwapsExpected
    <2>3. ~Indivisible(window) => row.written = ExpectedSwap(SwapLogs(window), row.log)
      BY <2>1 DEF SwapsExpected
    <2>4. ASSUME ~Indivisible(window), NEW x, Kept(x)
          PROVE  Cardinality(Twins(window, x)) <= RowsOf(x)'
      <3>1. Cardinality(Copies(x)) = Cardinality(Twins(window, x)) BY <2>4, CopiesAreTwins
      <3>2. Cardinality(Copies(x)) <= RowsOf(x)' BY <1>6, <2>4
      <3> QED BY <3>1, <3>2
    <2>5. /\ row.scan \in 1..Len(history) /\ history[row.scan] = window
      BY <1>1, <1>2, <2>1
    <2>6. \A x : Kept(x)' = Kept(x) BY DEF Kept
    <2> QED BY <2>2, <2>3, <2>4, <2>5, <2>6 DEF RowExpected
  <1> HIDE DEF both
  <1>8. rows' = both BY DEF both
  <1>9. RowsExpected'
    <2>1. IsList(rows)' BY <1>5, <1>8 DEF IsList
    <2>2. ASSUME NEW row \in Range(both) PROVE RowExpected(row)'
      <3>1. CASE row \in Range(rows)
        <4>1. RowExpected(row) BY <3>1 DEF RowsExpected
        <4> QED BY <1>6, <4>1, RowStaysExpected
      <3>2. CASE row \in Range(NewRows)
        <4>1. PICK k \in DOMAIN NewRows : row = NewRows[k] BY <3>2 DEF Range
        <4> QED BY <1>7, <4>1
      <3> QED BY <1>5, <3>1, <3>2
    <2>3. Range(rows)' = Range(both) BY <1>8 DEF Range
    <2> QED BY <2>1, <2>2, <2>3 DEF RowsExpected
  <1>10. ASSUME NEW i \in DOMAIN both, NEW j \in DOMAIN both, i # j,
                both[i].log = both[j].log
         PROVE  MayRepeat(history[both[i].scan], history[both[j].scan], both[i].written)
    <2>1. CASE i \in DOMAIN rows /\ j \in DOMAIN rows
      <3>1. both[i] = rows[i] /\ both[j] = rows[j] BY <1>5, <2>1
      <3> QED BY <1>10, <2>1, <3>1 DEF NoDuplicates
    <2>2. CASE i \notin DOMAIN rows /\ j \notin DOMAIN rows
      <3> DEFINE k == i - Len(rows)
                 l == j - Len(rows)
      <3>1. k \in DOMAIN NewRows /\ l \in DOMAIN NewRows
            /\ both[i] = NewRows[k] /\ both[j] = NewRows[l]
        BY <1>5, <2>2
      <3>2. payload.swaps[order[k]].log = payload.swaps[order[l]].log
            /\ order[k] \in DOMAIN payload.swaps /\ order[l] \in DOMAIN payload.swaps
        BY <1>4, <1>10, <3>1 DEF IsOrder
      <3>3. order[k] = order[l] BY <3>2 DEF SwapsExpected
      <3>4. k = l BY <1>4, <3>1, <3>3 DEF IsOrder
      <3>5. i \in Nat /\ j \in Nat /\ Len(rows) \in Nat BY <1>1, <1>5, ListDomain
      <3> QED BY <1>10, <3>4, <3>5
    <2>3. CASE i \in DOMAIN rows /\ j \notin DOMAIN rows
      <3> DEFINE k == j - Len(rows)
      <3>1. both[i] = rows[i] /\ k \in DOMAIN NewRows /\ both[j] = NewRows[k]
        BY <1>5, <2>3
      <3>2. rows[i] \in Range(rows) BY <2>3 DEF Range
      <3>3. history[NewRows[k].scan] = window BY <1>1, <1>4, <3>1 DEF IsOrder
      <3> SUFFICES ASSUME ~MayRepeat(history[rows[i].scan], window, rows[i].written)
                   PROVE  FALSE
        BY <3>1, <3>3
      <3>4. /\ \/ SwapLogs(history[rows[i].scan]) = SwapLogs(window)
               \/ HasStablecoin(rows[i].written)
            /\ ~Indivisible(history[rows[i].scan]) /\ ~Indivisible(window)
            /\ Kept(rows[i].written)
        BY DEF MayRepeat
      <3> HIDE DEF k
      <3>5. rows[i].log = NewRows[k].log BY <1>10, <3>1
      <3> QED BY <1>4, <3>1, <3>2, <3>4, <3>5, NoSecondRow
    <2>4. CASE i \notin DOMAIN rows /\ j \in DOMAIN rows
      <3> DEFINE k == i - Len(rows)
      <3>1. both[j] = rows[j] /\ k \in DOMAIN NewRows /\ both[i] = NewRows[k]
        BY <1>5, <2>4
      <3>2. rows[j] \in Range(rows) BY <2>4 DEF Range
      <3>3. history[NewRows[k].scan] = window BY <1>1, <1>4, <3>1 DEF IsOrder
      <3> SUFFICES ASSUME ~MayRepeat(window, history[rows[j].scan], NewRows[k].written)
                   PROVE  FALSE
        BY <3>1, <3>3
      <3>4. /\ \/ SwapLogs(history[rows[j].scan]) = SwapLogs(window)
               \/ HasStablecoin(NewRows[k].written)
            /\ ~Indivisible(history[rows[j].scan]) /\ ~Indivisible(window)
            /\ Kept(NewRows[k].written)
        BY DEF MayRepeat
      <3> HIDE DEF k
      <3>5. rows[j].log = NewRows[k].log BY <1>10, <3>1
      <3> QED BY <1>4, <3>1, <3>2, <3>4, <3>5, NoSecondRow
    <2> QED BY <2>1, <2>2, <2>3, <2>4
  <1>11. NoDuplicates' BY <1>8, <1>10 DEF NoDuplicates
  <1> QED BY <1>9, <1>11

LEMMA PersistExpected ==
    ASSUME EnrichmentInvariant, lost = 0 => AllExpected, Persist, lost' = 0
    PROVE  AllExpected'
  <1> USE DEF AllExpected, ScanIsExpected
  <1>1. /\ pc = "persist" /\ pc' \in {"stored", "raised"}
        /\ UNCHANGED <<window, events, unanswered, history, lost>>
        /\ rows' = rows \/ rows' = rows \o NewRows
    BY DEF Persist
  <1>2. AllExpected BY <1>1
  <1>3. HistoryKept' BY <1>1, <1>2, HistoryUnchanged DEF HistoryKept
  <1>4. EventsExpected'
    <2>1. SwapLogs(window)' = SwapLogs(window) BY <1>1
    <2>2. \A i \in DOMAIN events : events[i] = ExpectedEvent(SwapLogs(window)[i])
      BY <1>1, <1>2 DEF EventsExpected, Ordered
    <2> QED BY <1>1, <2>1, <2>2 DEF EventsExpected
  <1>5. MetadataExpected' /\ PricesExpected' /\ PayloadExpected'
    BY <1>1 DEF MetadataExpected, PricesExpected, PayloadExpected
  <1>6. TableExpected' BY <1>2, StoredAsExpected DEF TablesAreExpected
  <1>7. RowsExpected' /\ NoDuplicates'
    <2>1. CASE rows' = rows
      <3>1. IsList(history) BY <1>2 DEF HistoryKept
      <3>2. Len(history) \in Nat BY <3>1, ListDomain
      <3> QED BY <1>1, <1>2, <2>1, <3>2, RowsKept DEF TablesAreExpected
    <2>2. CASE rows' = rows \o NewRows
      <3>1. SwapsExpected(payload.swaps, window) BY <1>1, <1>2 DEF PayloadExpected
      <3> QED BY <1>1, <1>2, <2>2, <3>1, RowsAreAdded DEF TablesAreExpected
    <2> QED BY <1>1, <2>1, <2>2
  <1> QED BY <1>3, <1>4, <1>5, <1>6, <1>7 DEF TablesAreExpected

LEMMA RaiseExpected ==
    ASSUME AllExpected, Raise PROVE AllExpected'
  <1> USE DEF AllExpected, ScanIsExpected
  <1>1. pc' = "idle" /\ unanswered' = {} /\ UNCHANGED <<tokens, rows, history>>
    BY DEF Raise, ForgetLocals
  <1>2. HistoryKept' BY <1>1 DEF HistoryKept, IsList
  <1>3. EventsExpected' /\ MetadataExpected' /\ PricesExpected' /\ PayloadExpected'
    BY <1>1 DEF EventsExpected, MetadataExpected, PricesExpected, PayloadExpected, Ordered
  <1>4. TablesAreExpected' BY <1>1, TablesUnchanged
  <1> QED BY <1>2, <1>3, <1>4

LEMMA StutterExpected ==
    ASSUME AllExpected, UNCHANGED enrichmentVars PROVE AllExpected'
  <1> USE DEF AllExpected, ScanIsExpected
  <1>1. UNCHANGED <<pc, window, events, pools, metadata, prices, snapshots, payload, tokens,
                    rows, lost, unanswered, history>>
    BY DEF enrichmentVars, locals
  <1>2. SwapLogs(window)' = SwapLogs(window) /\ EventTokens' = EventTokens
    BY <1>1 DEF EventTokens
  <1>3. HistoryKept' BY <1>1 DEF HistoryKept, IsList
  <1>4. EventsExpected' /\ MetadataExpected'
    BY <1>1, <1>2 DEF EventsExpected, MetadataExpected, TokenExpected
  <1>5. PricesExpected'
    BY <1>1, <1>2 DEF PricesExpected
  <1>6. PayloadExpected'
    <2>1. SwapsExpected(payload.swaps, window)' <=> SwapsExpected(payload.swaps, window)
      BY <1>1 DEF SwapsExpected, IsList
    <2> QED BY <1>1, <2>1 DEF PayloadExpected, TokenExpected
  <1>7. TablesAreExpected' BY <1>1, TablesUnchanged
  <1> QED BY <1>3, <1>4, <1>5, <1>6, <1>7

(* The invariant: while nothing is lost, everything is as expected.        *)
LEMMA RescanHolds == EnrichmentSpec => []NothingIsLost
  <1>1. EnrichmentInit => NothingIsLost BY ExpectedInit DEF NothingIsLost
  <1>2. EnrichmentInvariant /\ NothingIsLost /\ [EnrichmentNext]_enrichmentVars
          => NothingIsLost'
    <2> SUFFICES ASSUME EnrichmentInvariant, lost = 0 => AllExpected,
                        [EnrichmentNext]_enrichmentVars, lost' = 0
                 PROVE  AllExpected'
      BY DEF NothingIsLost
    <2>2. TypesSound BY DEF EnrichmentInvariant
    <2>3. CASE ParseSwaps
      <3>1. lost = 0 BY <2>3 DEF ParseSwaps
      <3> QED BY <2>3, <3>1, ParseSwapsExpected
    <2>4. CASE ResolvePools BY <2>2, <2>4, ResolvePoolsExpected
    <2>5. CASE ResolvePairs BY <2>2, <2>5, ResolvePairsExpected
    <2>6. CASE ResolvePairsAgain BY <2>2, <2>6, ResolvePairsAgainExpected
    <2>7. CASE ResolveCoins BY <2>7, ResolveCoinsExpected
    <2>8. CASE ResolveTokens BY <2>8, ResolveTokensExpected
    <2>9. CASE ResolveSnapshots BY <2>2, <2>9, ResolveSnapshotsExpected
    <2>10. CASE EnrichTrades BY <2>10, EnrichTradesExpected
    <2>11. CASE Persist BY <2>11, PersistExpected
    <2>12. CASE Raise
      <3>1. lost = 0 BY <2>12 DEF Raise
      <3> QED BY <2>12, <3>1, RaiseExpected
    <2>13. CASE UNCHANGED enrichmentVars
      <3>1. lost = 0 BY <2>13 DEF enrichmentVars
      <3> QED BY <2>13, <3>1, StutterExpected
    <2> QED BY <2>3, <2>4, <2>5, <2>6, <2>7, <2>8, <2>9, <2>10, <2>11, <2>12, <2>13
         DEF EnrichmentNext
  <1> QED BY <1>1, <1>2, InvariantHolds, PTL DEF EnrichmentSpec
-----------------------------------------------------------------------------
(* Whatever the pools, the tokens, the logs and the answers that are lost, *)
(* each event has a side and two tokens or none, each price is a ratio,    *)
(* each snapshot fits its column with a share of at most the whole, and no *)
(* more answers are lost than the bound says.                              *)
THEOREM EnrichmentTyped == EnrichmentSpec => []EnrichmentTypeOK
  BY InvariantHolds, TypesOfTheInvariant, PTL

(* normalize_trade_token_order after enrich_events: every event tells the  *)
(* trade its log tells, in amounts and direction always, in tokens unless  *)
(* a call for the tokens of its pool was never answered, through both      *)
(* attempts at a pair, the merge of their answers, the search for a coin   *)
(* and the change of the order.                                            *)
THEOREM SidesTellTheTrades == EnrichmentSpec => []SidesAreTrades
  BY InvariantHolds, SidesOfTheEvents, PTL

(* The prices of a scan are those of the same swaps in the reverse order,  *)
(* for any number of rounds and any events.                                *)
THEOREM PricesHaveNoOrder == EnrichmentSpec => []PricesIgnoreOrder
  <1>1. EnrichmentInvariant => PricesIgnoreOrder
    <2> SUFFICES ASSUME EnrichmentInvariant, pc = "balances"
                 PROVE  InferPrices(Reverse(events), metadata) = prices
      BY DEF PricesIgnoreOrder
    <2>1. events \in Seq(Event) /\ prices = InferPrices(events, metadata)
      BY DEF EnrichmentInvariant, EventsSound, PricesSound
    <2>2. InferPrices(Reverse(events), metadata) = InferPrices(events, metadata)
      BY <2>1, EventsArePriced, PricesOfTheReverse DEF Priced
    <2> QED BY <2>1, <2>2
  <1> QED BY <1>1, InvariantHolds, PTL

(* No token gets a price that does not come from a stablecoin, over at     *)
(* most as many swaps of the scan as there are rounds.                     *)
THEOREM PricesComeFromStablecoins == EnrichmentSpec => []PricesNeedAnAnchor
  <1>1. EnrichmentInvariant => PricesNeedAnAnchor
    <2> SUFFICES ASSUME EnrichmentInvariant, pc = "balances", NEW t \in Tokens, prices[t] # None
                 PROVE  t \in Anchored
      BY DEF PricesNeedAnAnchor
    <2>1. prices = InferPrices(events, metadata) BY DEF EnrichmentInvariant, PricesSound
    <2> QED BY <2>1, EventsArePriced, PricesReachNoFurther DEF Priced
  <1> QED BY <1>1, InvariantHolds, PTL

(* What build_payload hands to persist_payload has unique keys and refers  *)
(* only to rows it holds, has the swap of every log that tells a trade,    *)
(* and claims no bribe beyond what the transaction paid to the miner; with *)
(* traces and without a lost answer it claims all of it.                   *)
THEOREM PayloadsAreSound == EnrichmentSpec => []PayloadIsSound
  <1>1. EnrichmentInvariant => PayloadIsSound
    BY DEF EnrichmentInvariant, PayloadSound, PayloadIsSound, HoldsSwaps
  <1> QED BY <1>1, InvariantHolds, PTL

(* _build_new_swaps, over any number of scans of windows that overlap: it  *)
(* tells a swap that is stored from a new one by counting the rows with    *)
(* the same values, and a swap that is scanned again is stored again only  *)
(* if a call was not answered, if the windows have other swaps and neither *)
(* side of this one is an amount of a stablecoin, if a token of a window   *)
(* has no decimals, which the table turns into 18, or if its amount in USD *)
(* has more digits than its column keeps.                                  *)
THEOREM RescansAddNothing == EnrichmentSpec => []DuplicatesHaveAReason
  <1>1. EnrichmentInvariant /\ NothingIsLost => DuplicatesHaveAReason
    <2> SUFFICES ASSUME EnrichmentInvariant, NothingIsLost,
                        NEW i \in DOMAIN rows, NEW j \in DOMAIN rows,
                        i # j, rows[i].log = rows[j].log, ~(lost > 0)
                 PROVE  MayRepeat(history[rows[i].scan], history[rows[j].scan], rows[i].written)
      BY DEF DuplicatesHaveAReason, MayRepeat, Kept
    <2>1. lost \in Nat BY EnrichmentAssumption DEF EnrichmentInvariant, TypesSound
    <2>2. lost = 0 BY <2>1
    <2>3. NoDuplicates BY <2>2 DEF NothingIsLost, AllExpected, TablesAreExpected
    <2> QED BY <2>3 DEF NoDuplicates
  <1> QED BY <1>1, InvariantHolds, RescanHolds, PTL
=============================================================================
