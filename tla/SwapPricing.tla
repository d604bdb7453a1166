----------------------------- MODULE SwapPricing -----------------------------
(***************************************************************************)
(* What a scan computes from the logs of its receipts: SwapParsingService  *)
(* reads swaps from logs, TradeEnrichmentService puts the two tokens of a  *)
(* swap into one order, infers prices in USD from the swaps of the scan,   *)
(* and gives each swap its amount in USD.                                  *)
(*                                                                         *)
(* Abstractions.  An address of a token is a number, compared like the     *)
(* hexadecimal text.  A word of a log has WordSize values instead of 2^256 *)
(* and a token's unit is Base^decimals instead of 10^decimals.  Decimals   *)
(* are exact: a ratio in lowest terms stands for one, without the rounding *)
(* to 28 digits.                                                           *)
(***************************************************************************)
EXTENDS Integers, SequencesExt, FiniteSetsExt

CONSTANTS
    Tokens,             \* addresses of tokens
    WordSize,           \* values of a word of a log
    Base,               \* 10
    DefaultDecimals,    \* 18
    MaxPrice,           \* EYWA_MAX_REASONABLE_TOKEN_PRICE
    MaxRounds,          \* EYWA_PRICE_INFERENCE_MAX_ROUNDS
    None                \* Python's None

ASSUME PricingAssumption ==
    /\ Tokens \subseteq Nat /\ IsFiniteSet(Tokens)
    /\ WordSize \in Nat /\ Base \in Nat \ {0, 1} /\ DefaultDecimals \in Nat
    /\ MaxPrice \in Nat \ {0} /\ MaxRounds \in Nat \ {0}
-----------------------------------------------------------------------------
(* Decimals, as ratios <<n, d>> in lowest terms.                           *)
Ratio(n, d) ==
    LET g == Max({k \in 1..d : d % k = 0 /\ n % k = 0}) IN <<n \div g, d \div g>>
Times(p, q) == Ratio(p[1] * q[1], p[2] * q[2])
Over(p, q) == Ratio(p[1] * q[2], p[2] * q[1])
Plus(p, q) == Ratio(p[1] * q[2] + q[1] * p[2], p[2] * q[2])
AtMost(p, q) == p[1] * q[2] <= q[1] * p[2]
Largest(ratios) == CHOOSE p \in ratios : \A q \in ratios : AtMost(q, p)

(* median_decimal, of a set of samples with a price each; Nth is the n-th  *)
(* price in ascending order.                                               *)
Nth(samples, n) ==
    CHOOSE p \in {s.price : s \in samples} :
        /\ Cardinality({s \in samples : ~AtMost(p, s.price)}) < n
        /\ n <= Cardinality({s \in samples : AtMost(s.price, p)})
Median(samples) ==
    LET size == Cardinality(samples)
        middle == size \div 2
    IN  IF size % 2 = 1 THEN Nth(samples, middle + 1)
        ELSE Times(Plus(Nth(samples, middle), Nth(samples, middle + 1)), <<1, 2>>)

(* raw_amount_to_decimal *)
Unit(decimals) ==
    LET power[n \in 0..decimals] == IF n = 0 THEN 1 ELSE Base * power[n - 1]
    IN  power[decimals]
Amount(raw, decimals) == Ratio(raw, Unit(decimals))
-----------------------------------------------------------------------------
(* SwapParsingService._parse_swap_log: a log says which kind of pool wrote *)
(* it and carries its words, none when they are not a multiple of 32 bytes.*)
Signed(word) == IF word >= WordSize \div 2 THEN word - WordSize ELSE word
Magnitude(n) == IF n < 0 THEN -n ELSE n
Larger(m, n) == IF m < n THEN n ELSE m

(* The side of a swap, given what each of the tokens brought to the pool   *)
(* and took from it: BUY when the first token was paid for the second.     *)
SideOf(paidFirst, paidSecond) ==
    CASE paidFirst -> "BUY" [] paidSecond /\ ~paidFirst -> "SELL" [] OTHER -> None

ParseV2(w) ==
    [side |-> SideOf(w[1] > 0 /\ w[4] > 0, w[2] > 0 /\ w[3] > 0),
     amountA |-> Larger(w[1], w[3]), amountB |-> Larger(w[2], w[4])]

ParseV3(w) ==
    LET first == Signed(w[1])
        second == Signed(w[2])
    IN  [side |-> SideOf(first > 0 /\ second < 0, second > 0 /\ first < 0),
         amountA |-> Magnitude(first), amountB |-> Magnitude(second)]

ParseCurve(w) == [side |-> "BUY", amountA |-> w[2], amountB |-> w[4]]

CurveKinds == {"curve", "underlying"}
StandardKinds == {"v2", "v3"}
CoinsOf(log) == IF log.kind \in CurveKinds
                THEN <<Signed(log.words[1]), Signed(log.words[3])>> ELSE <<None, None>>

IsSwap(log) ==
    \/ log.kind = "v2" /\ Len(log.words) >= 4
    \/ log.kind = "v3" /\ Len(log.words) >= 2
    \/ /\ log.kind \in CurveKinds /\ Len(log.words) >= 4
       /\ Signed(log.words[1]) >= 0 /\ Signed(log.words[3]) >= 0

(* A RawSwapEvent; "log" tells which log it came from (auxiliary).         *)
RawEvent(log, index) ==
    LET parsed == CASE log.kind = "v2" -> ParseV2(log.words)
                    [] log.kind = "v3" -> ParseV3(log.words)
                    [] OTHER -> ParseCurve(log.words)
    IN  [log |-> index, tx |-> log.tx, block |-> log.block, pool |-> log.pool,
         kind |-> log.kind, side |-> parsed.side,
         tokenA |-> None, amountA |-> parsed.amountA,
         tokenB |-> None, amountB |-> parsed.amountB]
-----------------------------------------------------------------------------
(* Fault: the side is left as it was.                                      *)
ReorderWithoutSide(e) ==
    IF e.tokenA = None \/ e.tokenB = None \/ e.tokenA <= e.tokenB THEN e
    ELSE [e EXCEPT !.tokenA = e.tokenB, !.tokenB = e.tokenA,
                   !.amountA = e.amountB, !.amountB = e.amountA]

InvertSide(side) ==
    CASE side = "BUY" -> "SELL" [] side = "SELL" -> "BUY" [] OTHER -> None

(* normalize_trade_token_order, for one event.                             *)
Reorder(e) ==
    IF e.tokenA = None \/ e.tokenB = None \/ e.tokenA <= e.tokenB THEN e
    ELSE [e EXCEPT !.tokenA = e.tokenB, !.tokenB = e.tokenA,
                   !.amountA = e.amountB, !.amountB = e.amountA,
                   !.side = InvertSide(e.side)]
-----------------------------------------------------------------------------
(* _get_event_token_amounts: the known tokens with an amount.              *)
TokenAmounts(e, metadata) ==
    LET sides == {[place |-> 1, token |-> e.tokenA, raw |-> e.amountA],
                  [place |-> 2, token |-> e.tokenB, raw |-> e.amountB]}
    IN  {[place |-> s.place, token |-> s.token,
          amount |-> Amount(s.raw, metadata[s.token].decimals)] :
            s \in {x \in sides : x.token # None /\ x.raw > 0}}

NoPrices == [t \in Tokens |-> None]

Stable(token, metadata) == metadata[token].stable

Values(amounts, metadata, prices) ==
    {IF Stable(s.token, metadata) THEN s.amount ELSE Times(s.amount, prices[s.token]) :
        s \in {x \in amounts : Stable(x.token, metadata) \/ prices[x.token] # None}}

(* What the i-th event says of the price of a token that has none yet.     *)
Implied(token, i, events, metadata, prices) ==
    LET amounts == TokenAmounts(events[i], metadata)
        values == Values(amounts, metadata, prices)
    IN  IF values = {} THEN {}
        ELSE {sample \in {[event |-> i, place |-> s.place,
                           price |-> Over(Largest(values), s.amount)] :
                             s \in {x \in amounts : x.token = token}} :
                AtMost(sample.price, <<MaxPrice, 1>>)}

Samples(token, events, metadata, prices) ==
    UNION {Implied(token, i, events, metadata, prices) : i \in DOMAIN events}

(* Fault: a price that was inferred counts in the same round.              *)
SequentialRound(events, metadata, prices) ==
    LET pass[i \in 0..Len(events)] ==
          IF i = 0 THEN prices
          ELSE [t \in Tokens |->
                  IF pass[i - 1][t] # None \/ t \notin DOMAIN metadata THEN pass[i - 1][t]
                  ELSE IF Stable(t, metadata) THEN None
                  ELSE LET samples == Implied(t, i, events, metadata, pass[i - 1]) IN
                       IF samples = {} THEN None ELSE Median(samples)]
    IN  pass[Len(events)]

(* One round of infer_token_usd_prices: the samples of a round are taken   *)
(* with the prices of the rounds before it.                                *)
PriceRound(events, metadata, prices) ==
    [t \in Tokens |->
        IF prices[t] # None \/ t \notin DOMAIN metadata THEN prices[t]
        ELSE IF Stable(t, metadata) THEN None
        ELSE LET samples == Samples(t, events, metadata, prices)
             IN  IF samples = {} THEN None ELSE Median(samples)]

(* Fault: one round more than was configured.                              *)
InferInOneMoreRound(events, metadata) ==
    LET prices[k \in 0..(MaxRounds + 1)] ==
          IF k = 0 THEN NoPrices ELSE PriceRound(events, metadata, prices[k - 1])
    IN  prices[MaxRounds + 1]

(* The code leaves the loop early after a round that changed nothing.      *)
InferPrices(events, metadata) ==
    LET prices[k \in 0..MaxRounds] ==
          IF k = 0 THEN NoPrices ELSE PriceRound(events, metadata, prices[k - 1])
    IN  prices[MaxRounds]

(* compute_trade_amount_usd: a stablecoin decides before any price.        *)
UsdAmount(e, metadata, prices) ==
    LET amounts == TokenAmounts(e, metadata)
        stable == {s.amount : s \in {x \in amounts : Stable(x.token, metadata)}}
        priced == {Times(s.amount, prices[s.token]) :
                      s \in {x \in amounts : prices[x.token] # None}}
    IN  IF stable # {} THEN Largest(stable)
        ELSE IF priced # {} THEN Largest(priced) ELSE None
=============================================================================
