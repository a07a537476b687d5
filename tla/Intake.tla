------------------------------- MODULE Intake -------------------------------
(***************************************************************************)
(* The data path of one message: what the language model prints goes       *)
(* through the gateway (GatewaySchema), the ai-worker keeps the items of   *)
(* tracked coins, final-store groups them by symbol and stores normalised  *)
(* rows (Normalize).  How messages get lost or doubled on the way is the   *)
(* subject of Pipeline.                                                    *)
(***************************************************************************)
EXTENDS Normalize

CONSTANTS
    Replies,    \* what the model may print: "nok", "garbage" or a list of items
    Tracked     \* symbols in tracked_coins

VARIABLES
    stage,      \* where the message is
    reply,      \* the output of the model
    items,      \* the signals of the message
    rows        \* rows[symbol]: the scenarios stored, in order

\* What is not a list of objects with readable fields is "nok" or "garbage".
ASSUME ReplyAssumption ==
    Replies \subseteq [kind : {"nok", "garbage", "list"}, items : Seq(RawItem)]

intake == <<stage, reply, items, rows>>

Stages == {"printed", "answered", "filtered", "stored", "dropped", "dead"}

IntakeInit ==
    /\ stage = "printed"
    /\ reply \in Replies
    /\ items = <<>>
    /\ rows = <<>>

Sound == \A i \in 1 .. Len(reply.items) : IsValid(reply.items[i])

\* No JSON list in the output, or an item that SignalItem refuses: status 422.
ParseFails ==
    /\ stage = "printed"
    /\ reply.kind = "garbage" \/ ~Sound
    /\ stage' = "dead"
    /\ UNCHANGED <<reply, items, rows>>

\* "nok", or no scenario with an entry in any item.
ParseNothing ==
    /\ stage = "printed"
    /\ reply.kind = "nok" \/ (reply.kind = "list" /\ Sound /\ CleanItems(reply.items) = <<>>)
    /\ stage' = "dropped"
    /\ UNCHANGED <<reply, items, rows>>

ParseItems ==
    /\ stage = "printed"
    /\ reply.kind = "list" /\ Sound
    /\ items' = CleanItems(reply.items)
    /\ items' # <<>>
    /\ stage' = "answered"
    /\ UNCHANGED <<reply, rows>>

\* _filter_by_tracked_coins
OfTracked(list) == Pick(list, {i \in 1 .. Len(list) : Upper(list[i].symbol) \in Tracked})

Filter ==
    /\ stage = "answered"
    /\ items' = OfTracked(items)
    /\ stage' = IF items' = <<>> THEN "dropped" ELSE "filtered"
    /\ UNCHANGED <<reply, rows>>

\* insert_signals_with_scenarios
Insert ==
    /\ stage = "filtered"
    /\ rows' = [symbol \in GroupedSymbols(items) |-> RowsOf(items, symbol)]
    /\ stage' = "stored"
    /\ UNCHANGED <<reply, items>>

IntakeNext == ParseFails \/ ParseNothing \/ ParseItems \/ Filter \/ Insert

-----------------------------------------------------------------------------
(* Properties *)

\* The places of the usable scenarios of a coin in the output of the model, and the
\* number of the one at a place.
Asked(symbol) ==
    {at \in Places(reply.items) :
        /\ Upper(reply.items[at[1]].symbol) = symbol
        /\ HasValidEntry(ScenarioAt(reply.items, at))}

NumberOf(symbol, at) ==
    Cardinality({b \in Asked(symbol) : b[1] < at[1] \/ (b[1] = at[1] /\ b[2] < at[2])}) + 1

\* row says what the analysis said: a regular side, entry, timeframe and stop stay what
\* they are, no target or stop is invented, and a regular side and entry keep the
\* targets of the profit side, each as often as written, and the stop of the loss side.
\* What becomes of separators, of "1M" and of other words for a side is left open here:
\* see AcceptedAsWritten.
Renders(row, s) ==
    LET entry == IF s.entry.form = "plain" THEN s.entry.num ELSE NullPrice
        settled == s.direction \in Directions /\ s.entry.form \in {"plain", "now"}
        aim(p) == entry = NullPrice \/ (IF s.direction = "up" THEN p > entry ELSE p < entry)
        risk(p) == entry = NullPrice \/ (IF s.direction = "up" THEN p < entry ELSE p > entry)
        numbers == {i \in 1 .. Len(s.tp) : IsNumber(s.tp[i]) /\ s.tp[i].num > 0}
        aimed == {i \in numbers : aim(s.tp[i].num)}
        plain == {i \in aimed : s.tp[i].form = "plain"}
    IN /\ s.direction \in Directions => ((row.direction = "long") = (s.direction = "up"))
       /\ s.entry.form \in {"plain", "now"} => row.entry = entry
       /\ ToSet(row.tps) \subseteq {s.tp[i].num : i \in numbers}
       /\ settled =>
            /\ ToSet(row.tps) \subseteq {s.tp[i].num : i \in aimed}
            /\ {s.tp[i].num : i \in plain} \subseteq ToSet(row.tps)
            /\ Len(row.tps) \in Cardinality(plain) .. Cardinality(aimed)
            /\ row.sl \notin {NullPrice, NaNPrice} => risk(row.sl)
            /\ s.sl.form = "plain" /\ s.sl.num > 0 /\ risk(s.sl.num) => row.sl = s.sl.num
       /\ row.sl \notin {NullPrice, NaNPrice} => s.sl = Plain(row.sl)
       /\ row.sl = NaNPrice => s.sl.form = "nan"
       /\ s.timeframe \in Timeframes \ {"1M"} => row.timeframe = s.timeframe

\* Grouping and normalising lose nothing and mix nothing up: every scenario with an
\* entry becomes one row of its coin, in the order of the analysis, and the row says
\* what the scenario said.
StoredAsAnalysed ==
    stage = "stored" => \A symbol \in Tracked :
        /\ symbol \in DOMAIN rows <=> Asked(symbol) # {}
        /\ Asked(symbol) # {} =>
            /\ Len(rows[symbol]) = Cardinality(Asked(symbol))
            /\ \A at \in Asked(symbol) :
                Renders(rows[symbol][NumberOf(symbol, at)], ScenarioAt(reply.items, at))

\* The docstring of _has_valid_entry (repository.py:126) takes a scenario whose entry is
\* "a number", with or without separators, and the tables of the gateway and of
\* final-store list the timeframe 1M: what they accept is what is stored.
AcceptedAsWritten ==
    stage = "stored" => \A symbol \in Tracked : \A at \in Asked(symbol) :
        LET s == ScenarioAt(reply.items, at)  row == rows[symbol][NumberOf(symbol, at)] IN
        /\ IsNumber(s.entry) => row.entry = s.entry.num
        /\ s.timeframe \in Timeframes => row.timeframe = s.timeframe

\* What the evaluator relies on: prices are positive; against the entry of a limit
\* order every target is a profit and the stop is a loss, except for NaN, which is
\* stored and never hit; and a later target is farther away, so that the highest index
\* a candle reaches is also the best price.
Tradable(row) ==
    LET Better(p, q) == IF row.direction = "long" THEN p > q ELSE p < q IN
    /\ row.direction \in {"long", "short"}
    /\ row.entry \in Nat /\ row.sl \in Nat \cup {NaNPrice} /\ row.tps \in Seq(Nat \ {0})
    /\ row.entry # NullPrice =>
        /\ \A i \in 1 .. Len(row.tps) : Better(row.tps[i], row.entry)
        /\ row.sl \notin {NullPrice, NaNPrice} => Better(row.entry, row.sl)
    /\ \A i, j \in 1 .. Len(row.tps) : i < j => ~Better(row.tps[i], row.tps[j])

TradableRows ==
    \A symbol \in DOMAIN rows : \A k \in 1 .. Len(rows[symbol]) : Tradable(rows[symbol][k])
=============================================================================
