----------------------------- MODULE Normalize -----------------------------
(***************************************************************************)
(* How final-store turns a scenario of the analysis into a row of          *)
(* scenarios (services/workers/final_store/repository.py).  Its input has  *)
(* the fields of the gateway; the free-text columns are left out.  A price *)
(* of 0 in a row stands for NULL, -1 for NaN.                              *)
(***************************************************************************)
EXTENDS GatewaySchema, SequencesExt

NullPrice == 0
NaNPrice  == -1

MaxExpireDays     == 90
MinExpireDays     == 1
DefaultExpireDays == 7

\* _to_float of what is not NaN: no separators are removed here.
ToFloat(v) == IF v.form = "plain" THEN v.num ELSE NullPrice

\* _has_valid_entry
HasValidEntry(s) == s.entry.form = "now" \/ (IsNumber(s.entry) /\ s.entry.num > 0)

\* The prices of the targets that are positive numbers.
Targets(tp) ==
    LET price == [i \in 1 .. Len(tp) |-> ToFloat(tp[i])]
    IN Pick(price, {i \in 1 .. Len(price) : price[i] > 0})

\* NaN <= 0 is false, so that NaN stays.
StopLoss(sl) == CASE sl.form = "nan"  -> NaNPrice
                  [] ToFloat(sl) > 0  -> ToFloat(sl)
                  [] OTHER            -> NullPrice

\* The gateway gives nothing but "up" and "down", so that _infer_direction, which is
\* for a missing direction, never runs.
Side(direction) == IF direction = "up" THEN "long" ELSE "short"

-----------------------------------------------------------------------------
(* _fix_geometry *)

\* On the profit side of the entry.
Profits(direction, entry, price) ==
    IF direction = "long" THEN price > entry ELSE price < entry

FixTargets(direction, entry, tps) ==
    IF entry = NullPrice THEN tps
    ELSE Pick(tps, {i \in 1 .. Len(tps) : Profits(direction, entry, tps[i])})

\* A stop at the entry or beyond it is discarded; NaN is neither.
FixStop(direction, entry, sl) ==
    IF entry = NullPrice \/ sl \in {NullPrice, NaNPrice} THEN sl
    ELSE IF sl # entry /\ ~Profits(direction, entry, sl) THEN sl ELSE NullPrice

\* Mutant of Ordered: the order of the analysis is kept.
OrderedAsGiven(direction, tps) == tps

\* Nearest target first; the sort is stable.
Nearer(direction, tps) ==
    {d \in (1 .. Len(tps)) \X (1 .. Len(tps)) :
        LET p == tps[d[1]]  q == tps[d[2]] IN
        \/ IF direction = "long" THEN p < q ELSE p > q
        \/ p = q /\ d[1] < d[2]}

Ordered(direction, tps) == InOrder(tps, 1 .. Len(tps), Nearer(direction, tps))

-----------------------------------------------------------------------------

\* The text in lower case, if the table has it: a month becomes a minute.
StoredTimeframe(tf) == IF tf = "1M" THEN "1m" ELSE tf

\* _parse_expire_days
ExpireDays(expire) ==
    LET days == CASE expire[2] = "d" -> expire[1]
                  [] expire[2] = "w" -> 7 * expire[1]
                  [] expire[2] = "m" -> 30 * expire[1]
                  [] expire[2] = "y" -> 365 * expire[1]
                  [] OTHER -> DefaultExpireDays
    IN CASE days > MaxExpireDays -> MaxExpireDays
         [] days < MinExpireDays -> MinExpireDays
         [] OTHER -> days

\* _normalize_scenario
NormalizeScenario(s, expire) ==
    LET direction == Side(s.direction)
        entry     == ToFloat(s.entry)
        given     == Targets(s.tp)
        targets   == FixTargets(direction, entry, given)
        stop      == FixStop(direction, entry, StopLoss(s.sl))
    IN [direction |-> direction,
        entry     |-> entry,
        type      |-> s.type,
        tps       |-> Ordered(direction, targets),
        sl        |-> stop,
        kind      |-> s.kind,
        timeframe |-> StoredTimeframe(s.timeframe),
        days      |-> ExpireDays(expire),
        corrected |-> Len(targets) # Len(given) \/ stop # StopLoss(s.sl)]

-----------------------------------------------------------------------------

\* The places of the scenarios of a list of items, and the order they are read in.
Places(items) ==
    UNION {{i} \X (1 .. Len(items[i].scenarios)) : i \in 1 .. Len(items)}

Reading(S) == {d \in S \X S : \/ d[1][1] < d[2][1]
                              \/ d[1][1] = d[2][1] /\ d[1][2] < d[2][2]}

ScenarioAt(items, at) == items[at[1]].scenarios[at[2]]

\* Mutant of UsableOf: a later item of a symbol replaces an earlier one.
UsableOfLast(items, symbol) ==
    {at \in Places(items) :
        /\ Upper(items[at[1]].symbol) = symbol /\ HasValidEntry(ScenarioAt(items, at))
        /\ \A i \in at[1] + 1 .. Len(items) : Upper(items[i].symbol) # symbol}

\* _group_by_symbol: the scenarios of all items of a symbol.
UsableOf(items, symbol) ==
    {at \in Places(items) :
        Upper(items[at[1]].symbol) = symbol /\ HasValidEntry(ScenarioAt(items, at))}

\* The rows of one group, each with the expiry of its item.
RowsOf(items, symbol) ==
    LET usable == UsableOf(items, symbol)
        at == Arrange(usable, Reading(usable))
    IN [k \in 1 .. Cardinality(usable) |->
            NormalizeScenario(ScenarioAt(items, at[k]), items[at[k][1]].expire)]

\* The symbols that get a signal.
GroupedSymbols(items) ==
    {Upper(items[at[1]].symbol) : at \in {p \in Places(items) : HasValidEntry(ScenarioAt(items, p))}}
=============================================================================
