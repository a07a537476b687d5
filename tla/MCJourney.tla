----------------------------- MODULE MCJourney -----------------------------
EXTENDS Journey

Separated(n) == [form |-> "separated", num |-> n]
Junk         == [form |-> "junk", num |-> 0]
NaN          == [form |-> "nan", num |-> 0]

List(its)        == [kind |-> "list", items |-> its]
Item(symbol, ss) == [symbol |-> symbol, expire |-> <<1, "y">>, scenarios |-> ss]
Order(d, e, t, tp, sl, k) == [direction |-> d, entry |-> e, type |-> t, tp |-> tp, sl |-> sl,
                              kind |-> k, timeframe |-> "1h"]
One(s) == List(<<Item("BTC", <<s>>)>>)

\* One scenario, every field with its regular and irregular values.
Fields ==
    [direction : {"up", "down", "long"},
     entry     : {NoText, Now, Junk, NaN, Plain(0), Plain(100), Separated(100)},
     type      : {"fix", "consolidation_up", "limit"},
     tp        : {<<>>, <<Plain(102)>>, <<Plain(102), Plain(98)>>, <<Plain(104), Plain(102), NoText>>,
                  <<Separated(104), Plain(96), Plain(0)>>, <<Plain(98), Plain(98)>>},
     sl        : {NoText, NaN, Plain(98), Plain(100), Plain(102), Separated(98)},
     kind      : {"range", "area"},
     timeframe : {"1M", "1h", "hour"}]

\* Two items of equal or different coins, with and without usable scenarios.
Grouping ==
    LET a == Order("up", Plain(98), "fix", <<Plain(100)>>, NoText, "fixnumber")
        b == Order("down", NoText, "fix", <<>>, NoText, "fixnumber")
        c == Order("down", Plain(100), "break_down", <<Plain(98)>>, Plain(102), "fixnumber")
        d == [c EXCEPT !.direction = "none"]
        lists == {<<>>, <<a>>, <<b, c>>, <<c, a>>, <<d>>}
        of == [symbol : {"BTC", "btc", "DOGE", "PAXG", "none"}, expire : {<<1, "w">>, <<2, "y">>},
               scenarios : lists]
    IN {List(<<x, y>>) : x \in of, y \in of}

\* Orders that are followed: limit, break-out, market and consolidation, long and
\* short, with two targets, a target on the wrong side, a tolerance of two percent.
Traded ==
    {One(Order("up", Plain(100), "fix", <<Plain(102), Plain(98)>>, Plain(98), "fixnumber")),
     One(Order("up", Plain(98), "break_up", <<Plain(102), Plain(100)>>, NoText, "fixnumber")),
     One(Order("down", Plain(100), "break_down", <<Plain(98)>>, Plain(102), "range")),
     One(Order("down", Plain(100), "fix", <<Plain(96), Plain(98)>>, Plain(102), "range")),
     One(Order("down", Now, "fix", <<Plain(98)>>, Plain(102), "fixnumber")),
     One(Order("up", Plain(100), "consolidation_up", <<Plain(102)>>, Plain(98), "fixnumber")),
     One(Order("down", Plain(98), "consolidation_down", <<Plain(96)>>, NoText, "range"))}

\* An entry with a separator and a timeframe of a month, beside a regular scenario.
Deviating ==
    {One(Order("up", Plain(100), "fix", <<Plain(102)>>, Plain(98), "fixnumber")),
     One([Order("up", Separated(100), "fix", <<Plain(102)>>, Plain(98), "fixnumber")
            EXCEPT !.timeframe = "1M"])}

AllReplies ==
    {[kind |-> "nok", items |-> <<>>], [kind |-> "garbage", items |-> <<>>], List(<<>>)}
    \cup {One(s) : s \in Fields} \cup Grouping \cup Traded
=============================================================================
