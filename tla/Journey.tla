------------------------------ MODULE Journey ------------------------------
(***************************************************************************)
(* A scenario from the output of the language model to its end on the      *)
(* market: the rows that Intake stores are the rows that TradeMonitor      *)
(* follows.  What the evaluator makes of a row depends on what final-store *)
(* guarantees about it.                                                    *)
(***************************************************************************)
EXTENDS Intake, TradeMonitor

CONSTANT Followed   \* bound: the replies whose scenarios are traded

vars == <<intake, feed, trade>>

Init == IntakeInit /\ FeedInit /\ TradeInit

\* The evaluator runs already, at any point between two slow cycles, when a row of the
\* message is there to read.
Follow ==
    /\ stage = "stored" /\ row = NoRow /\ reply \in Followed
    /\ \E symbol \in DOMAIN rows : \E k \in 1 .. Len(rows[symbol]) : row' = rows[symbol][k]
    /\ turn' \in 0 .. SlowCycles - 1
    /\ UNCHANGED <<intake, feed, keys, result, since, expired, fresh, seen, zone>>

Next ==
    \/ IntakeNext /\ UNCHANGED <<feed, trade>>
    \/ Follow
    \/ TradeNext /\ UNCHANGED intake

Spec == Init /\ [][Next]_vars

-----------------------------------------------------------------------------
(* Properties *)

\* Types of the trade; prices that are kept are prices that occurred, or the entry.
JourneyTypeOK ==
    /\ stage \in Stages
    /\ ticks \in [Price -> {Gone} \cup 0 .. BufferWindow - 1]
    /\ last \in {NoLast} \cup [price : Price, age : 0 .. PriceTTL - 1]
    /\ keys.low \in Price \cup {NoPrice} /\ keys.high \in Price \cup {NoPrice}
    /\ keys.consol \in Off .. TfUnits /\ keys.hist \in Off .. TfUnits
    /\ result.status \in {"running", "success", "failed", "expired"}
    /\ result.active => result.status = "running" /\ result.entry # NoPrice /\ result.points # {}
    /\ keys.entered => result.active
    /\ turn \in 0 .. SlowCycles - 1 /\ since \in 0 .. Interval
    /\ fresh \in [Price -> {Gone} \cup 0 .. CandleWindow]
    /\ seen \subseteq Price /\ zone \in Off .. TfUnits

Beyond(p, level) == IF Long THEN p >= level ELSE p <= level

\* Within the tolerance of the highest price there is.
Near(p, level) == IF Long THEN AtLeast(p, level, Max(Price)) ELSE AtMost(p, level, Max(Price))

\* After a cycle a position is open only if no price that was in the window of a cycle
\* since the entry has reached the stop or a target, and it won or lost only if such a
\* price was there: whatever was evicted, however long the evaluator was down, and in
\* whatever order the prices were written.  A price that no window contained, because
\* a cycle was slow or the evaluator down, is not promised; nor is the order of stop and
\* target in one candle (StopFirst).
ExitsFollowThePrices ==
    [][since' < since =>
        /\ result'.active => \A p \in seen' :
            /\ \A i \in 1 .. Len(row.tps) : ~Beyond(p, row.tps[i])
            /\ HasStop => p # row.sl /\ Beyond(p, row.sl)
        /\ result'.status = "success" => \E p \in seen' : Near(p, result'.exit)
        /\ result'.status = "failed" =>
            \E p \in seen' : p = row.sl \/ ~Beyond(p, row.sl)]_vars

\* The docstring of the evaluator (main.py:25): the stop is checked first, unless a
\* target was confirmed in a prior cycle - and then there was no position left.
StopFirst ==
    [][since' < since /\ result'.status = "success" => ~\E c \in Candles : StopHit(c)]_vars

\* The extremes of a result row (models/signals.py:240) cover every price that was in
\* the window of a cycle since the entry, whatever happened to the keys in Redis and
\* however often and long the evaluator was down.
ExtremesCoverThePrices ==
    [][since' < since /\ result'.entry # NoPrice =>
        \A p \in seen' : result'.low <= p /\ p <= result'.high]_vars

\* A consolidation order is entered only on a close in the zone that came a timeframe or
\* more after an earlier one, with no close out of the zone read in between, whatever
\* happened to the timer meanwhile.  What the price did while nobody read it is not
\* promised.
ConsolidationHeld ==
    [][result.entry = NoPrice /\ result'.entry # NoPrice /\ Consolidates /\ ~IsMarket
        => zone' >= TfUnits]_vars

\* A limit or break-out order that is closed as a success has made a profit.
SuccessIsProfit ==
    result.status = "success" /\ row.entry # NullPrice /\ ~Consolidates =>
        IF Long THEN result.exit > result.entry ELSE result.exit < result.entry
=============================================================================
