----------------------------- MODULE PriceFeed -----------------------------
(***************************************************************************)
(* The USDT prices of one symbol in Redis, as the price streamer           *)
(* (services/processors/price_streamer/main.py) writes them and the        *)
(* evaluator reads them: the key of the last price and the sorted set of   *)
(* ticks, whose members are the prices themselves.                         *)
(*                                                                         *)
(*   - Times are ages, so that a run may last for ever.                    *)
(*   - Binance, MEXC and the REST poll write through _publish_usdt, in the *)
(*     same process but on different threads.  Which of them is up decides *)
(*     only whether a price comes, which is free; a price that was slow to *)
(*     be written can come after a newer one.                              *)
(*   - A tick leaves the set when it is BufferWindow old; the code removes *)
(*     it with the next publication, and nobody reads it in between.       *)
(***************************************************************************)
EXTENDS Integers, FiniteSetsExt

CONSTANTS
    Price,          \* the prices that occur
    BufferWindow,   \* TICK_WINDOW of the streamer
    CandleWindow,   \* TICK_WINDOW of the evaluator
    PriceTTL,       \* USDT_TTL
    MaxDelay        \* bound on the time from the score of a price to its pipeline

ASSUME FeedAssumption ==
    /\ Price \subseteq Nat \ {0}
    /\ \E top \in Price : \A p \in Price : p <= top
    /\ CandleWindow \in Nat /\ BufferWindow \in Nat /\ PriceTTL \in Nat
    /\ CandleWindow < BufferWindow /\ BufferWindow <= PriceTTL
    /\ MaxDelay \in Nat /\ MaxDelay < BufferWindow

VARIABLES
    ticks,      \* ticks[p]: age of the score of p in prices:{symbol}:ticks
    last        \* the key {symbol}usdt

feed == <<ticks, last>>

Gone   == -1
NoLast == [price |-> 0, age |-> 0]

FeedInit ==
    /\ ticks = [p \in Price |-> Gone]
    /\ last = NoLast

\* Mutant of Publish: a price that is in the set keeps its first score (ZADD NX).
PublishNX(p, delay) ==
    /\ ticks' = [ticks EXCEPT ![p] = IF @ = Gone THEN delay ELSE @]
    /\ last' = [price |-> p, age |-> 0]

\* The score is taken, then one pipeline: SET and ZADD, which gives the price this score
\* even if it is in the set with a newer one.
Publish(p, delay) ==
    /\ ticks' = [ticks EXCEPT ![p] = delay]
    /\ last' = [price |-> p, age |-> 0]

\* One unit of time.
Older(age, limit) == IF age = Gone \/ age + 1 >= limit THEN Gone ELSE age + 1

Age ==
    /\ ticks' = [p \in Price |-> Older(ticks[p], BufferWindow)]
    /\ last' = IF last = NoLast \/ last.age + 1 >= PriceTTL THEN NoLast
               ELSE [last EXCEPT !.age = @ + 1]

\* Redis evicts one of the two keys, or loses it in a restart.
TicksLost == ticks' = [p \in Price |-> Gone] /\ UNCHANGED last
LastLost  == last' = NoLast /\ UNCHANGED ticks

-----------------------------------------------------------------------------
(* _candle of the evaluator *)

Recent == {p \in Price : ticks[p] # Gone /\ ticks[p] <= CandleWindow}

HasCandle == Recent # {} \/ last # NoLast

\* The ticks of the window, else the last price as long as its key lives.
CandlePrices == IF Recent # {} THEN Recent ELSE {last.price}

\* ZRANGEBYSCORE orders by score: the close is a tick of the newest score, which need
\* not be the last price.
Closes == IF Recent = {} THEN {last.price}
          ELSE {p \in Recent : \A q \in Recent : ticks[p] <= ticks[q]}

Candles ==
    IF HasCandle THEN {[low |-> Min(CandlePrices), high |-> Max(CandlePrices), close |-> p] :
                            p \in Closes}
                 ELSE {}
=============================================================================
