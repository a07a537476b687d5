--------------------------- MODULE GatewaySchema ---------------------------
(***************************************************************************)
(* What the gateway (services/claude/app/main.py) makes of the JSON that   *)
(* the language model prints: one signal item per coin with its scenarios, *)
(* repaired field by field.  A value that fits no table is replaced by a   *)
(* default, an item that lacks a required field spoils the whole reply.    *)
(*                                                                         *)
(* A price is a text: absent, "now", a number, a number written with       *)
(* thousands separators, NaN (JSON allows it here, and float() reads it),  *)
(* or anything else.  An infinity behaves like a very large number.        *)
(***************************************************************************)
EXTENDS Integers, Sequences, Listing

Form    == {"none", "now", "plain", "separated", "nan", "junk"}
Text    == [form : Form, num : Int]

NoText   == [form |-> "none", num |-> 0]
Now      == [form |-> "now", num |-> 0]
Plain(n) == [form |-> "plain", num |-> n]

Directions  == {"up", "down"}
EntryTypes  == {"fix", "break_up", "break_down", "consolidation_up", "consolidation_down"}
PriceTypes  == {"fixnumber", "range"}
Timeframes  == {"1m", "5m", "15m", "30m", "1h", "4h", "1d", "1w", "1M"}
ExpireTimes == {<<1, "d">>, <<3, "d">>, <<1, "w">>, <<2, "w">>, <<1, "m">>, <<3, "m">>, <<1, "y">>}
NoExpire    == <<0, "">>

\* The JSON objects of a reply, as far as they are read.
RawScenario == [direction : STRING, entry : Text, type : STRING, tp : Seq(Text), sl : Text,
                kind : STRING, timeframe : STRING]
RawItem     == [symbol : STRING, expire : Nat \X STRING, scenarios : Seq(RawScenario)]

\* Symbols are compared in upper case.
Upper(symbol) == CASE symbol = "btc"  -> "BTC"
                   [] symbol = "doge" -> "DOGE"
                   [] OTHER -> symbol

-----------------------------------------------------------------------------

\* float() of a text without its separators gives a number; with NaN every comparison
\* is false.
IsNumber(v) == v.form \in {"plain", "separated"}

CoinTimeframe(symbol) == CASE Upper(symbol) = "DOGE" -> "1h"
                           [] Upper(symbol) = "PAXG" -> "1d"
                           [] OTHER -> "4h"

Distance(a, b) == IF a > b THEN a - b ELSE b - a

\* _infer_timeframe: from the distance of the stop to the entry, in percent.
InferTimeframe(symbol, entry, sl) ==
    IF ~(IsNumber(entry) /\ IsNumber(sl) /\ entry.num > 0 /\ sl.num > 0)
    THEN CoinTimeframe(symbol)
    ELSE LET d == Distance(entry.num, sl.num) * 1000  e == entry.num IN
         CASE d < 5 * e                   -> "15m"
           [] d >= 5 * e   /\ d < 20 * e  -> "1h"
           [] d >= 20 * e  /\ d < 50 * e  -> "4h"
           [] d >= 50 * e  /\ d < 150 * e -> "1d"
           [] OTHER                       -> "1w"

OneOf(v, allowed, default) == IF v \in allowed THEN v ELSE default

\* The field validators of Scenario.
CleanScenario(s) ==
    [direction |-> OneOf(s.direction, Directions, "up"),
     entry     |-> IF s.entry.form \in {"none", "junk"} THEN NoText ELSE s.entry,
     type      |-> OneOf(s.type, EntryTypes, "fix"),
     tp        |-> Pick(s.tp, {i \in 1 .. Len(s.tp) : s.tp[i].form # "none"}),
     sl        |-> s.sl,
     kind      |-> OneOf(s.kind, PriceTypes, "fixnumber"),
     timeframe |-> OneOf(s.timeframe, Timeframes, "")]

\* model_post_init: what _v_timeframe left open.
WithTimeframe(symbol, s) ==
    IF s.timeframe # "" THEN s
    ELSE [s EXCEPT !.timeframe = InferTimeframe(symbol, s.entry, s.sl)]

\* SignalItem: _v_expire, the scenarios, _filter_no_entry, model_post_init.
CleanItem(item) ==
    [symbol    |-> item.symbol,
     expire    |-> OneOf(item.expire, ExpireTimes, NoExpire),
     scenarios |-> LET clean == [i \in 1 .. Len(item.scenarios) |->
                                    WithTimeframe(item.symbol, CleanScenario(item.scenarios[i]))]
                   IN Pick(clean, {i \in 1 .. Len(clean) : clean[i].entry # NoText})]

\* symbol and direction have no default: without them SignalItem(...) raises.
IsValid(item) ==
    /\ item.symbol # "none"
    /\ \A i \in 1 .. Len(item.scenarios) : item.scenarios[i].direction # "none"

\* The route: what it answers to a list.
CleanItems(items) ==
    LET clean == [i \in 1 .. Len(items) |-> CleanItem(items[i])]
    IN Pick(clean, {i \in 1 .. Len(clean) : clean[i].scenarios # <<>>})
=============================================================================
