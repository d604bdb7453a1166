---------------------------- MODULE EntityStore ----------------------------
(***************************************************************************)
(* What the trading tables promise to whoever reads them, whatever the     *)
(* interleaving of the processes that write them: a fact, once visible, is *)
(* never lost, and a fact never refers to one that is not there yet.       *)
(*                                                                         *)
(* The foreign keys are those declared by the models under app/models; the *)
(* database does not enforce them.  TradingPersistence implements this     *)
(* specification by the order of its statements.                           *)
(***************************************************************************)
CONSTANTS
    Dexes, Traders, Tokens,     \* identities of rows without foreign keys
    PoolFacts,                  \* [address, dex]
    TransactionFacts,           \* [hash, trader]
    SwapFacts,                  \* [tx, pool, tokens]
    SeedTraders                 \* the traders inserted by hand

VARIABLES dexes, traders, tokens, pools, transactions, swaps

vars == <<dexes, traders, tokens, pools, transactions, swaps>>

Init ==
    /\ traders = SeedTraders
    /\ dexes = {} /\ tokens = {} /\ pools = {}
    /\ transactions = {} /\ swaps = {}

AddDexes ==
    /\ dexes \subseteq dexes' /\ dexes' \subseteq Dexes
    /\ UNCHANGED <<traders, tokens, pools, transactions, swaps>>

AddTraders ==
    /\ traders \subseteq traders' /\ traders' \subseteq Traders
    /\ UNCHANGED <<dexes, tokens, pools, transactions, swaps>>

AddTokens ==
    /\ tokens \subseteq tokens' /\ tokens' \subseteq Tokens
    /\ UNCHANGED <<dexes, traders, pools, transactions, swaps>>

(* LiquidityPool.dex_factory -> dexes.factory *)
AddPools ==
    /\ pools \subseteq pools' /\ pools' \subseteq PoolFacts
    /\ \A p \in pools' \ pools : p.dex \in dexes
    /\ UNCHANGED <<dexes, traders, tokens, transactions, swaps>>

(* Transaction.trader_address -> traders.contract_address *)
AddTransactions ==
    /\ transactions \subseteq transactions'
    /\ transactions' \subseteq TransactionFacts
    /\ \A t \in transactions' \ transactions : t.trader \in traders
    /\ UNCHANGED <<dexes, traders, tokens, pools, swaps>>

(* Swap.transaction_hash_id, pool_address, token_a_address, token_b_address *)
AddSwaps ==
    /\ swaps \subseteq swaps' /\ swaps' \subseteq SwapFacts
    /\ \A s \in swaps' \ swaps :
         /\ \E t \in transactions : t.hash = s.tx
         /\ \E p \in pools : p.address = s.pool
         /\ s.tokens \subseteq tokens
    /\ UNCHANGED <<dexes, traders, tokens, pools, transactions>>

Next ==
    \/ AddDexes \/ AddTraders \/ AddTokens
    \/ AddPools \/ AddTransactions \/ AddSwaps

Spec == Init /\ [][Next]_vars
=============================================================================
