---------------------------- MODULE TrackedCoins ----------------------------
(***************************************************************************)
(* The coins that the operator tracks, and the copy of that list by which  *)
(* the ai-worker filters signals (services/workers/ai_worker/main.py).     *)
(* Only lengths of time up to just beyond CacheTTL are told apart.         *)
(***************************************************************************)
EXTENDS Integers

CONSTANTS
    Coin,        \* the symbols of the table
    CacheTTL     \* _TRACKED_COINS_TTL

ASSUME CoinAssumption == CacheTTL \in Nat

VARIABLES
    tracked,   \* tracked_coins with is_active = TRUE
    cache,     \* _tracked_coins
    age,       \* time since _tracked_coins_loaded_at
    span,      \* history: span[c], how long c has been tracked, or untracked
    calm       \* history: how long ago the worker was last started or failed to load

coins == <<tracked, cache, age, span, calm>>

Long == CacheTTL + 1
Ages == 0 .. Long

\* _tracked_coins_loaded_at is 0 in a new worker: the list seems as old as the host.
Cold(uptime) == cache' = {} /\ age' = uptime /\ calm' = 0

CoinsInit ==
    /\ tracked \in SUBSET Coin
    /\ cache = {} /\ age \in Ages
    /\ span = [c \in Coin |-> Long] /\ calm = 0

Older(a) == IF a = Long THEN a ELSE a + 1

Tick ==
    /\ age' = Older(age)
    /\ span' = [c \in Coin |-> Older(span[c])]
    /\ calm' = Older(calm)
    /\ UNCHANGED <<tracked, cache>>

\* set_coin_active, bulk_set_coins_active and set_all_coins_active: one UPDATE of
\* is_active for the coins in S.
SetActive(S, on) ==
    /\ tracked' = IF on THEN tracked \cup S ELSE tracked \ S
    /\ span' = [c \in Coin |-> IF (c \in tracked) = (c \in tracked') THEN span[c] ELSE 0]
    /\ UNCHANGED <<cache, age, calm>>

-----------------------------------------------------------------------------
(* _get_tracked_coins *)

\* Mutant of Cached: a list once loaded is used for ever.
CachedForever == UNCHANGED coins

Cached ==
    /\ age <= CacheTTL
    /\ UNCHANGED coins

Load ==
    /\ age > CacheTTL
    /\ cache' = tracked /\ age' = 0
    /\ UNCHANGED <<tracked, span, calm>>

\* A failed load leaves the worker with no coin for as long as a good one would last.
LoadFails ==
    /\ age > CacheTTL
    /\ cache' = {} /\ age' = 0 /\ calm' = 0
    /\ UNCHANGED <<tracked, span>>

RestartWorker ==
    /\ \E uptime \in Ages : Cold(uptime)
    /\ UNCHANGED <<tracked, span>>

=============================================================================
