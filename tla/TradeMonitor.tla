---------------------------- MODULE TradeMonitor ----------------------------
(***************************************************************************)
(* One scenario against the prices of its coin: what SignalEvaluator       *)
(* leaves open, namely when _eval confirms an entry, finds a target or the *)
(* stop reached, and which extremes it keeps                               *)
(* (services/processors/signal_evaluator/main.py).                         *)
(*                                                                         *)
(*   - The batch of a cycle commits; its failures are in SignalEvaluator.  *)
(*     A target that is reached ends the scenario in the same cycle, so no *)
(*     best target is kept from one cycle to the next.                     *)
(*   - There is no sibling.                                                *)
(*   - A cycle starts Interval after the last one or any time later: a     *)
(*     cycle may be slow, and the evaluator may be down for a while.       *)
(***************************************************************************)
EXTENDS PriceFeed, Sequences, SequencesExt

CONSTANTS
    Interval,     \* FAST_INTERVAL
    SlowCycles,   \* SLOW_CYCLES
    TfUnits       \* how long a timeframe takes

ASSUME MonitorAssumption ==
    Interval \in Nat \ {0} /\ SlowCycles \in Nat \ {0} /\ TfUnits \in Nat \ {0}

VARIABLES
    row,        \* the row of scenarios, or NoRow
    keys,       \* the eval:* keys of the scenario in Redis
    result,     \* its rows in scenarios, scenario_results, scenario_price_points
    turn,       \* cycles since the last slow one
    since,      \* time since the last cycle, up to Interval
    expired,    \* expire_at is over
    fresh,      \* history: age of the score last written for a price, if in the window
    seen,       \* history: prices that were in the window of a cycle since the entry
    zone        \* history: time since the first of the closes in the entry zone that were
                \* read one after the other, or Off

trade == <<row, keys, result, turn, since, expired, fresh, seen, zone>>

NoPrice == 0
NaNStop == -1
NoRow   == [type |-> "none"]
Off     == -1      \* a timer key that is not set

NoKeys == [entered |-> FALSE, entry |-> NoPrice, consol |-> Off, hist |-> Off,
           low |-> NoPrice, high |-> NoPrice]

NewResult == [status |-> "running", active |-> FALSE, entry |-> NoPrice, exit |-> NoPrice,
              low |-> NoPrice, high |-> NoPrice, points |-> {}, recorded |-> Off]

TradeInit ==
    /\ row = NoRow
    /\ keys = NoKeys
    /\ result = NewResult
    /\ turn = 0 /\ since = 0
    /\ expired = FALSE
    /\ fresh = [p \in Price |-> Gone]
    /\ seen = {} /\ zone = Off

Long == row.direction = "long"

\* Two percent of ref for a scenario of type range, compared without division.
AtLeast(price, level, ref) ==
    100 * price >= 100 * level - (IF row.kind = "range" THEN 2 * ref ELSE 0)
AtMost(price, level, ref) ==
    100 * price <= 100 * level + (IF row.kind = "range" THEN 2 * ref ELSE 0)

-----------------------------------------------------------------------------
(* _confirm_entry *)

Consolidates == row.type \in {"consolidation_up", "consolidation_down"}
IsMarket     == row.entry = NoPrice

\* _check_consolidation: the close is in the zone.
InZone(c) ==
    IF row.type = "consolidation_up" THEN AtLeast(c.close, row.entry, row.entry)
                                     ELSE AtMost(c.close, row.entry, row.entry)

\* The candle reaches the entry; for consolidation the timer has run long enough.
Confirmed(c) ==
    \/ IsMarket
    \/ row.type = "break_up"   /\ AtLeast(c.high, row.entry, row.entry)
    \/ row.type = "break_down" /\ AtMost(c.low, row.entry, row.entry)
    \/ Consolidates /\ InZone(c) /\ keys.consol >= TfUnits
    \/ row.type = "fix" /\ Long  /\ AtMost(c.low, row.entry, row.entry)
    \/ row.type = "fix" /\ ~Long /\ AtLeast(c.high, row.entry, row.entry)

\* Mutant of ConfirmedPrice: every entry at the close.
ConfirmedPriceTick(c) == c.close

ConfirmedPrice(c) == IF IsMarket \/ Consolidates THEN c.close ELSE row.entry

\* Mutant of ConsolAfter: the timer runs on when the price leaves the zone.
ConsolAfterKept(c) ==
    IF IsMarket \/ ~Consolidates THEN keys.consol
    ELSE IF keys.consol = Off THEN IF InZone(c) THEN 0 ELSE Off
    ELSE keys.consol

\* The timer after a cycle that does not confirm.
ConsolAfter(c) ==
    IF IsMarket \/ ~Consolidates THEN keys.consol
    ELSE IF ~InZone(c) THEN Off
    ELSE IF keys.consol = Off THEN 0 ELSE keys.consol

\* What the history makes of a close that is read: no key is involved.
ZoneAfter(c) ==
    IF IsMarket \/ ~Consolidates THEN zone
    ELSE IF ~InZone(c) THEN Off
    ELSE IF zone = Off THEN 0 ELSE zone

-----------------------------------------------------------------------------
(* Exit *)

\* Mutant of Hits: the close instead of the extreme of the candle.
HitsClose(c) == {i \in 1 .. Len(row.tps) : IF Long THEN AtLeast(c.close, row.tps[i], c.close)
                                           ELSE AtMost(c.close, row.tps[i], c.close)}

\* _best_tp: the targets a candle reaches, with the tolerance of its close.
Hits(c) == {i \in 1 .. Len(row.tps) : IF Long THEN AtLeast(c.high, row.tps[i], c.close)
                                      ELSE AtMost(c.low, row.tps[i], c.close)}

\* No price reaches a stop that is NaN: every comparison with it is false.
HasStop == row.sl \notin {NoPrice, NaNStop}

StopHit(c) ==
    HasStop /\ IF Long THEN c.low <= row.sl ELSE c.high >= row.sl

\* Stop and target in one candle: the target wins.
Verdict(c, entered) ==
    LET reached == entered /\ Hits(c) # {}
        stopped == entered /\ StopHit(c)
    IN CASE reached                               -> "success"
         [] stopped /\ ~reached                   -> "failed"
         [] expired /\ ~reached /\ ~stopped       -> "expired"
         [] OTHER                                 -> "running"

ExitPrice(c, verdict) ==
    CASE verdict = "success" -> row.tps[Max(Hits(c))]
      [] verdict = "failed"  -> row.sl
      [] verdict = "expired" -> c.close
      [] OTHER -> NoPrice

-----------------------------------------------------------------------------

Least(a, b)    == IF a = NoPrice \/ b < a THEN b ELSE a
Greatest(a, b) == IF b > a THEN b ELSE a

\* Mutant of LowestAfter: the row takes the value of Redis.
LowestAfterRedis(old, new) == new

\* The upsert: LEAST with what the row has.
LowestAfter(old, new) == Least(old, new)

\* _should_record_price
Records(newly) == newly \/ keys.hist = Off \/ keys.hist >= TfUnits

\* Mutant of Cleanup: the keys of a scenario that ended stay.
CleanupForgotten == keys

\* _cleanup
Cleanup == NoKeys

\* A cycle reads waiting scenarios every SlowCycles-th time only.
IsRead == turn + 1 = SlowCycles \/ result.active

\* _eval and the commit of its batch, when there is a price.
Evaluate(c) ==
    LET was     == keys.entered \/ result.active
        newly   == ~was /\ Confirmed(c)
        entered == was \/ newly
        entry   == IF newly THEN ConfirmedPrice(c)
                   ELSE IF keys.entry # NoPrice THEN keys.entry ELSE result.entry
        low     == Least(keys.low, c.low)
        high    == Greatest(keys.high, c.high)
        verdict == Verdict(c, entered)
        records == entered /\ Records(newly)
    IN /\ keys' = IF verdict # "running" THEN Cleanup
                  ELSE IF ~entered THEN [keys EXCEPT !.consol = ConsolAfter(c)]
                  ELSE [keys EXCEPT !.entered = TRUE,
                                    !.entry = IF newly THEN entry ELSE @,
                                    !.consol = IF newly THEN Off ELSE @,
                                    !.hist = IF records THEN 0 ELSE @,
                                    !.low = low, !.high = high]
       /\ result' = IF ~entered THEN [result EXCEPT !.status = verdict]
                    ELSE [status |-> verdict,
                          active |-> verdict = "running",
                          entry  |-> IF result.entry = NoPrice THEN entry ELSE result.entry,
                          exit   |-> ExitPrice(c, verdict),
                          low    |-> LowestAfter(result.low, low),
                          high   |-> Greatest(result.high, high),
                          points |-> IF records THEN result.points \cup {c.close}
                                                ELSE result.points,
                          recorded |-> IF records THEN 0 ELSE result.recorded]
       /\ zone' = IF was THEN zone ELSE ZoneAfter(c)

-----------------------------------------------------------------------------

Watching == row # NoRow /\ result.status = "running"

\* What a cycle has to look at: the prices of the window, or the last one.
Found ==
    LET window == {p \in Price : fresh[p] # Gone} IN
    IF window # {} THEN window
    ELSE IF last # NoLast THEN {last.price} ELSE {}

\* evaluate_cycle for this scenario.
Cycle ==
    /\ Watching /\ since >= Interval
    /\ turn' = (turn + 1) % SlowCycles
    /\ since' = 0
    /\ IF IsRead /\ HasCandle THEN \E c \in Candles : Evaluate(c)
                              ELSE UNCHANGED <<keys, result, zone>>
    /\ seen' = IF result'.entry = NoPrice THEN {} ELSE seen \cup Found
    /\ UNCHANGED <<row, expired, fresh, feed>>

\* Timers are kept up to the largest value anybody asks for.
Later(timer) == IF timer = Off \/ timer >= TfUnits THEN timer ELSE timer + 1

\* Time passes, whether or not the evaluator is up.
Tick ==
    /\ Watching
    /\ Age
    /\ since' = IF since < Interval THEN since + 1 ELSE since
    /\ keys' = [keys EXCEPT !.consol = Later(@), !.hist = Later(@)]
    /\ result' = [result EXCEPT !.recorded = Later(@)]
    /\ fresh' = [p \in Price |-> Older(fresh[p], CandleWindow + 1)]
    /\ zone' = Later(zone)
    /\ UNCHANGED <<row, turn, expired, seen>>

\* A price from the exchange.
Quote ==
    /\ Watching
    /\ \E p \in Price, delay \in 0 .. MaxDelay :
        /\ Publish(p, delay)
        /\ fresh' = [fresh EXCEPT ![p] = IF delay <= CandleWindow THEN delay ELSE Gone]
    /\ UNCHANGED <<row, keys, result, turn, since, expired, seen, zone>>

Expires ==
    /\ Watching /\ ~expired
    /\ expired' = TRUE
    /\ UNCHANGED <<row, keys, result, turn, since, fresh, seen, zone, feed>>

\* The evaluator is up again, after any time (Tick), and begins with a cycle.  Before it
\* recover_redis_state gives an active scenario its keys from Postgres, the extremes
\* from the recorded prices; it does nothing when it cannot read Postgres.
Restart ==
    /\ Watching
    /\ turn' = 0
    /\ since' = Interval
    /\ \/ keys' = keys
       \/ /\ result.active
          /\ keys' = [keys EXCEPT !.entered = TRUE, !.entry = result.entry,
                                  !.hist = result.recorded,
                                  !.low = Min(result.points), !.high = Max(result.points)]
    /\ UNCHANGED <<row, result, expired, fresh, seen, zone, feed>>

\* Redis evicts a key of the scenario, or loses it in a restart.
KeyLost ==
    /\ Watching
    /\ keys' \in {[keys EXCEPT !.entered = FALSE], [keys EXCEPT !.entry = NoPrice],
                  [keys EXCEPT !.consol = Off], [keys EXCEPT !.hist = Off],
                  [keys EXCEPT !.low = NoPrice], [keys EXCEPT !.high = NoPrice]}
    /\ keys' # keys
    /\ UNCHANGED <<row, result, turn, since, expired, fresh, seen, zone, feed>>

\* The same of a key of the feed.
PricesLost ==
    /\ Watching
    /\ \/ TicksLost /\ fresh' = [p \in Price |-> Gone]
       \/ LastLost /\ UNCHANGED fresh
    /\ UNCHANGED <<row, keys, result, turn, since, expired, seen, zone>>

TradeNext == Cycle \/ Tick \/ Quote \/ Expires \/ Restart \/ KeyLost \/ PricesLost

=============================================================================
