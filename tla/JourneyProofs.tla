---------------------------- MODULE JourneyProofs ----------------------------
(***************************************************************************)
(* Journey for any prices, any window, any timeframe and any replies of    *)
(* the language model: what final-store stores of a reply, and from that   *)
(* what becomes of a row on the market.                                    *)
(***************************************************************************)
EXTENDS Journey, IntakeProofs, WellFoundedInduction

-----------------------------------------------------------------------------
(* Min and Max of the community modules on natural numbers *)

LEMMA MinOf ==
    ASSUME NEW S \in SUBSET Nat, S # {}
    PROVE  Min(S) \in S /\ \A x \in S : Min(S) <= x
<1> DEFINE R == OpToRel(<, Nat)
<1>1. PICK m \in S : \A y \in S : <<y, m>> \notin R
  <2>1. IsWellFoundedOn(R, Nat)
    BY NatLessThanWellFounded
  <2> HIDE DEF R
  <2> QED
    BY <2>1, WFMin
<1>2. \A y \in S : m <= y
  <2> SUFFICES ASSUME NEW y \in S PROVE m <= y
    OBVIOUS
  <2>1. <<y, m>> \notin R
    BY <1>1
  <2>2. ~(y < m)
    BY <2>1 DEF OpToRel
  <2> QED
    BY <2>2
<1> QED
  BY <1>2 DEF Min

LEMMA MaxOf ==
    ASSUME NEW S \in SUBSET Nat, S # {}, NEW b \in Nat, \A x \in S : x <= b
    PROVE  Max(S) \in S /\ \A x \in S : x <= Max(S)
<1> DEFINE T == {b - x : x \in S}
<1>1. T \in SUBSET Nat /\ T # {}
  <2>1. \A x \in S : b - x \in Nat
    OBVIOUS
  <2> QED
    BY <2>1
<1>2. Min(T) \in T /\ \A y \in T : Min(T) <= y
  BY <1>1, MinOf
<1>3. PICK m \in S : Min(T) = b - m
  BY <1>2
<1>4. \A x \in S : x <= m
  <2> SUFFICES ASSUME NEW x \in S PROVE x <= m
    OBVIOUS
  <2>1. b - m <= b - x
    BY <1>2, <1>3
  <2> QED
    BY <2>1
<1> QED
  BY <1>4 DEF Max

\* The extremes of a set of prices.
LEMMA PriceExtremes ==
    ASSUME NEW S \in SUBSET Price, S # {}
    PROVE  /\ Min(S) \in S /\ Max(S) \in S
           /\ \A p \in S : Min(S) <= p /\ p <= Max(S)
<1>1. PICK top \in Price : \A p \in Price : p <= top
  BY FeedAssumption
<1>2. S \in SUBSET Nat /\ top \in Nat /\ \A x \in S : x <= top
  BY <1>1, FeedAssumption
<1>3. Min(S) \in S /\ \A x \in S : Min(S) <= x
  BY <1>2, MinOf
<1>4. Max(S) \in S /\ \A x \in S : x <= Max(S)
  BY <1>2, MaxOf
<1> QED
  BY <1>3, <1>4

-----------------------------------------------------------------------------
(* The feed *)

\* Times of the ticks and of the last price.
FeedInv ==
    /\ ticks \in [Price -> {Gone} \cup 0 .. BufferWindow - 1]
    /\ last \in {NoLast} \cup [price : Price, age : 0 .. PriceTTL - 1]

LEMMA LastType ==
    ASSUME FeedInv, last # NoLast
    PROVE  /\ last = [price |-> last.price, age |-> last.age]
           /\ last.price \in Price /\ last.age \in 0 .. PriceTTL - 1
  BY DEF FeedInv

LEMMA PublishStep ==
    ASSUME FeedInv, NEW p \in Price, NEW delay \in 0 .. MaxDelay, Publish(p, delay)
    PROVE  FeedInv'
<1>1. delay \in 0 .. BufferWindow - 1 /\ 0 \in 0 .. PriceTTL - 1
  BY FeedAssumption
<1>2. ticks' \in [Price -> {Gone} \cup 0 .. BufferWindow - 1]
  BY <1>1 DEF Publish, FeedInv
<1>3. last' \in [price : Price, age : 0 .. PriceTTL - 1]
  BY <1>1 DEF Publish
<1> QED
  BY <1>2, <1>3 DEF FeedInv

LEMMA AgeStep ==
    ASSUME FeedInv, Age
    PROVE  FeedInv'
<1>0. BufferWindow \in Nat /\ PriceTTL \in Nat
  BY FeedAssumption
<1>1. ticks' \in [Price -> {Gone} \cup 0 .. BufferWindow - 1]
  <2>1. \A p \in Price : Older(ticks[p], BufferWindow) \in {Gone} \cup 0 .. BufferWindow - 1
    BY <1>0 DEF FeedInv, Older, Gone
  <2> QED
    BY <2>1 DEF Age
<1>2. CASE last = NoLast \/ last.age + 1 >= PriceTTL
  BY <1>1, <1>2 DEF Age, FeedInv
<1>3. CASE last # NoLast /\ ~(last.age + 1 >= PriceTTL)
  <2>1. /\ last = [price |-> last.price, age |-> last.age]
        /\ last.price \in Price /\ last.age \in Nat
    BY <1>3, LastType
  <2>2. last' = [last EXCEPT !.age = last.age + 1]
    BY <1>3 DEF Age
  <2>3. last' = [price |-> last.price, age |-> last.age + 1]
    BY <2>1, <2>2
  <2>4. last.age + 1 \in 0 .. PriceTTL - 1
    BY <1>0, <1>3, <2>1
  <2> QED
    BY <1>1, <2>1, <2>3, <2>4 DEF FeedInv
<1> QED
  BY <1>2, <1>3

LEMMA LostStep ==
    ASSUME FeedInv, TicksLost \/ LastLost
    PROVE  FeedInv'
  BY DEF FeedInv, TicksLost, LastLost

\* A candle consists of prices that occurred, and its close is one of them.
LEMMA CandleIsPrices ==
    ASSUME FeedInv, HasCandle, NEW c \in Candles
    PROVE  /\ CandlePrices \subseteq Price /\ CandlePrices # {}
           /\ c.low \in CandlePrices /\ c.high \in CandlePrices /\ c.close \in CandlePrices
           /\ \A p \in CandlePrices : c.low <= p /\ p <= c.high
<1>1. CandlePrices \subseteq Price /\ CandlePrices # {}
  <2>1. CASE Recent # {}
    BY <2>1 DEF CandlePrices, Recent
  <2>2. CASE Recent = {}
    BY <2>2, LastType DEF HasCandle, CandlePrices
  <2> QED
    BY <2>1, <2>2
<1>2. Closes \subseteq CandlePrices
  BY DEF Closes, CandlePrices
<1>3. PICK p \in Closes :
        c = [low |-> Min(CandlePrices), high |-> Max(CandlePrices), close |-> p]
  BY DEF Candles
<1>4. /\ Min(CandlePrices) \in CandlePrices /\ Max(CandlePrices) \in CandlePrices
      /\ \A q \in CandlePrices : Min(CandlePrices) <= q /\ q <= Max(CandlePrices)
  BY <1>1, PriceExtremes
<1> QED
  BY <1>1, <1>2, <1>3, <1>4

-----------------------------------------------------------------------------
(* Types of the trade *)

\* keys and result have their fields.
Shapes ==
    /\ keys = [entered |-> keys.entered, entry |-> keys.entry, consol |-> keys.consol,
               hist |-> keys.hist, low |-> keys.low, high |-> keys.high]
    /\ result = [status |-> result.status, active |-> result.active, entry |-> result.entry,
                 exit |-> result.exit, low |-> result.low, high |-> result.high,
                 points |-> result.points, recorded |-> result.recorded]

KeysType ==
    /\ keys.entered \in BOOLEAN
    /\ keys.consol \in Off .. TfUnits /\ keys.hist \in Off .. TfUnits
    /\ keys.low \in Price \cup {NoPrice} /\ keys.high \in Price \cup {NoPrice}

ResultType ==
    /\ result.status \in {"running", "success", "failed", "expired"}
    /\ result.active \in BOOLEAN
    /\ result.low \in Price \cup {NoPrice} /\ result.high \in Price \cup {NoPrice}
    /\ result.points \subseteq Price /\ result.recorded \in Off .. TfUnits

\* A position is open from its entry to its end, and has its extremes and a point.
Open ==
    /\ result.active => /\ result.status = "running" /\ result.entry # NoPrice
                        /\ result.points # {}
                        /\ result.low \in Price /\ result.high \in Price
    /\ result.status = "running" /\ result.entry # NoPrice => result.active
    /\ keys.entered => result.active

ClockType ==
    /\ turn \in 0 .. SlowCycles - 1 /\ since \in 0 .. Interval
    /\ expired \in BOOLEAN
    /\ seen \subseteq Price /\ zone \in Off .. TfUnits

TradeInv == Shapes /\ KeysType /\ ResultType /\ Open /\ ClockType

LEMMA LeastGreatest ==
    ASSUME NEW a \in Price \cup {NoPrice}, NEW b \in Price
    PROVE  /\ Least(a, b) \in Price /\ Least(a, b) <= b
           /\ a # NoPrice => Least(a, b) <= a
           /\ Greatest(a, b) \in Price /\ b <= Greatest(a, b) /\ a <= Greatest(a, b)
  BY FeedAssumption DEF Least, Greatest, NoPrice

LEMMA VerdictType ==
    ASSUME NEW c, NEW entered
    PROVE  /\ Verdict(c, entered) \in {"running", "success", "failed", "expired"}
           /\ Verdict(c, entered) = "success" => entered /\ Hits(c) # {}
           /\ Verdict(c, entered) = "failed" => entered /\ StopHit(c) /\ Hits(c) = {}
           /\ entered /\ Verdict(c, entered) \in {"running", "expired"} => Hits(c) = {} /\ ~StopHit(c)
  BY DEF Verdict

\* What _eval does, told apart by whether the scenario is entered now, was before, or is
\* not; c is the candle.
EvalWaits(c) ==
    /\ ~result.active /\ ~Confirmed(c)
    /\ keys' = IF Verdict(c, FALSE) = "running" THEN [keys EXCEPT !.consol = ConsolAfter(c)]
               ELSE NoKeys
    /\ result' = [result EXCEPT !.status = Verdict(c, FALSE)]
    /\ zone' = ZoneAfter(c)

\* The row of a trade that is entered.
EvalFollows(c, newly) ==
    LET low == Least(keys.low, c.low)  high == Greatest(keys.high, c.high)
        verdict == Verdict(c, TRUE)    records == Records(newly)
    IN /\ keys' = IF verdict # "running" THEN NoKeys
                  ELSE [entered |-> TRUE,
                        entry |-> IF newly THEN ConfirmedPrice(c) ELSE keys.entry,
                        consol |-> IF newly THEN Off ELSE keys.consol,
                        hist |-> IF records THEN 0 ELSE keys.hist,
                        low |-> low, high |-> high]
       /\ result'.status = verdict
       /\ result'.active = (verdict = "running")
       /\ result'.exit = ExitPrice(c, verdict)
       /\ result'.low = Least(result.low, low) /\ result'.high = Greatest(result.high, high)
       /\ result'.points = IF records THEN result.points \cup {c.close} ELSE result.points
       /\ result'.recorded = IF records THEN 0 ELSE result.recorded
       /\ result' = [status |-> result'.status, active |-> result'.active,
                     entry |-> result'.entry, exit |-> result'.exit, low |-> result'.low,
                     high |-> result'.high, points |-> result'.points,
                     recorded |-> result'.recorded]

EvalEnters(c) ==
    /\ ~result.active /\ Confirmed(c)
    /\ EvalFollows(c, TRUE)
    /\ result'.entry = ConfirmedPrice(c)
    /\ zone' = ZoneAfter(c)

EvalStays(c) ==
    /\ result.active
    /\ EvalFollows(c, FALSE)
    /\ result'.entry = result.entry
    /\ zone' = zone

LEMMA EvaluateCases ==
    ASSUME TradeInv, Watching, NEW c, Evaluate(c)
    PROVE  EvalWaits(c) \/ EvalEnters(c) \/ EvalStays(c)
<1>0. /\ result.active \in BOOLEAN /\ keys.entered \in BOOLEAN
      /\ keys.entered => result.active
      /\ result.active => result.entry # NoPrice
      /\ ~result.active => result.entry = NoPrice
      /\ Shapes
  BY DEF TradeInv, KeysType, ResultType, Open, Watching
<1> DEFINE was     == keys.entered \/ result.active
           newly   == ~was /\ Confirmed(c)
           entered == was \/ newly
           entry   == IF newly THEN ConfirmedPrice(c)
                      ELSE IF keys.entry # NoPrice THEN keys.entry ELSE result.entry
           low     == Least(keys.low, c.low)
           high    == Greatest(keys.high, c.high)
           verdict == Verdict(c, entered)
           records == entered /\ Records(newly)
<1>a. keys' = IF verdict # "running" THEN Cleanup
              ELSE IF ~entered THEN [keys EXCEPT !.consol = ConsolAfter(c)]
              ELSE [keys EXCEPT !.entered = TRUE,
                                !.entry = IF newly THEN entry ELSE @,
                                !.consol = IF newly THEN Off ELSE @,
                                !.hist = IF records THEN 0 ELSE @,
                                !.low = low, !.high = high]
  BY DEF Evaluate
<1>b. result' = IF ~entered THEN [result EXCEPT !.status = verdict]
                ELSE [status |-> verdict,
                      active |-> verdict = "running",
                      entry  |-> IF result.entry = NoPrice THEN entry ELSE result.entry,
                      exit   |-> ExitPrice(c, verdict),
                      low    |-> LowestAfter(result.low, low),
                      high   |-> Greatest(result.high, high),
                      points |-> IF records THEN result.points \cup {c.close}
                                            ELSE result.points,
                      recorded |-> IF records THEN 0 ELSE result.recorded]
  BY DEF Evaluate
<1>c. zone' = IF was THEN zone ELSE ZoneAfter(c)
  BY DEF Evaluate
<1>1. ASSUME entered
      PROVE  /\ keys' = IF Verdict(c, TRUE) # "running" THEN NoKeys
                        ELSE [entered |-> TRUE,
                              entry |-> IF newly THEN ConfirmedPrice(c) ELSE keys.entry,
                              consol |-> IF newly THEN Off ELSE keys.consol,
                              hist |-> IF Records(newly) THEN 0 ELSE keys.hist,
                              low |-> low, high |-> high]
             /\ result' = [status |-> Verdict(c, TRUE),
                           active |-> Verdict(c, TRUE) = "running",
                           entry  |-> IF result.entry = NoPrice THEN entry ELSE result.entry,
                           exit   |-> ExitPrice(c, Verdict(c, TRUE)),
                           low    |-> Least(result.low, low),
                           high   |-> Greatest(result.high, high),
                           points |-> IF Records(newly) THEN result.points \cup {c.close}
                                                        ELSE result.points,
                           recorded |-> IF Records(newly) THEN 0 ELSE result.recorded]
  <2>1. verdict = Verdict(c, TRUE)
    BY <1>1 DEF Verdict
  <2>2. records = Records(newly)
    BY <1>1 DEF Records
  <2> HIDE DEF was, newly, entered, entry, low, high, verdict, records
  <2>3. /\ keys = [entered |-> keys.entered, entry |-> keys.entry, consol |-> keys.consol,
                   hist |-> keys.hist, low |-> keys.low, high |-> keys.high]
    BY <1>0 DEF Shapes
  <2>4. newly => entry = ConfirmedPrice(c)
    BY DEF entry
  <2>5. CASE Verdict(c, TRUE) # "running"
    BY <1>1, <1>a, <1>b, <2>1, <2>2, <2>5 DEF Cleanup, LowestAfter
  <2>6. CASE Verdict(c, TRUE) = "running"
    <3>1. keys' = [keys EXCEPT !.entered = TRUE,
                                !.entry = IF newly THEN entry ELSE @,
                                !.consol = IF newly THEN Off ELSE @,
                                !.hist = IF Records(newly) THEN 0 ELSE @,
                                !.low = low, !.high = high]
      BY <1>1, <1>a, <2>1, <2>2, <2>6, Zenon
    <3>2. keys' = [entered |-> TRUE,
                              entry |-> IF newly THEN ConfirmedPrice(c) ELSE keys.entry,
                              consol |-> IF newly THEN Off ELSE keys.consol,
                              hist |-> IF Records(newly) THEN 0 ELSE keys.hist,
                              low |-> low, high |-> high]
      BY <2>3, <2>4, <3>1
    <3> QED
      BY <1>1, <1>b, <2>1, <2>2, <2>6, <3>2 DEF LowestAfter
  <2> QED
    BY <2>5, <2>6
<1>2. CASE result.active
  <2>1. entered /\ newly = FALSE /\ Records(newly) = Records(FALSE)
    BY <1>0, <1>2 DEF Records
  <2> DEFINE verd == Verdict(c, TRUE)  recs == Records(FALSE)
  <2> HIDE DEF was, newly, entered, entry, low, high
  <2>2. keys' = IF verd # "running" THEN NoKeys
                ELSE [entered |-> TRUE,
                      entry |-> IF FALSE THEN ConfirmedPrice(c) ELSE keys.entry,
                      consol |-> IF FALSE THEN Off ELSE keys.consol,
                      hist |-> IF recs THEN 0 ELSE keys.hist,
                      low |-> low, high |-> high]
    BY <1>1, <2>1
  <2>3. result' = [status |-> verd, active |-> verd = "running",
                   entry  |-> IF result.entry = NoPrice THEN entry ELSE result.entry,
                   exit   |-> ExitPrice(c, verd),
                   low    |-> Least(result.low, low), high |-> Greatest(result.high, high),
                   points |-> IF recs THEN result.points \cup {c.close} ELSE result.points,
                   recorded |-> IF recs THEN 0 ELSE result.recorded]
    BY <1>1, <2>1
  <2>4. result'.entry = result.entry
    BY <1>0, <1>2, <2>1, <2>3 DEF entry
  <2>5. zone' = zone
    BY <1>c, <1>2 DEF was
  <2> HIDE DEF verd, recs
  <2>6. /\ result'.status = verd /\ result'.active = (verd = "running")
        /\ result'.exit = ExitPrice(c, verd)
        /\ result'.low = Least(result.low, low) /\ result'.high = Greatest(result.high, high)
        /\ result'.points = IF recs THEN result.points \cup {c.close} ELSE result.points
        /\ result'.recorded = IF recs THEN 0 ELSE result.recorded
    BY <2>3
  <2>7. EvalFollows(c, FALSE)
    BY <2>2, <2>3, <2>6, Zenon DEF EvalFollows, low, high, verd, recs
  <2> QED
    BY <1>2, <2>4, <2>5, <2>7 DEF EvalStays
<1>3. CASE ~result.active /\ Confirmed(c)
  <2>1. entered /\ newly = TRUE /\ Records(newly) = Records(TRUE)
    BY <1>0, <1>3 DEF Records
  <2> DEFINE verd == Verdict(c, TRUE)  recs == Records(TRUE)
  <2> HIDE DEF was, newly, entered, entry, low, high
  <2>2. keys' = IF verd # "running" THEN NoKeys
                ELSE [entered |-> TRUE,
                      entry |-> IF TRUE THEN ConfirmedPrice(c) ELSE keys.entry,
                      consol |-> IF TRUE THEN Off ELSE keys.consol,
                      hist |-> IF recs THEN 0 ELSE keys.hist,
                      low |-> low, high |-> high]
    BY <1>1, <2>1
  <2>3. result' = [status |-> verd, active |-> verd = "running",
                   entry  |-> IF result.entry = NoPrice THEN entry ELSE result.entry,
                   exit   |-> ExitPrice(c, verd),
                   low    |-> Least(result.low, low), high |-> Greatest(result.high, high),
                   points |-> IF recs THEN result.points \cup {c.close} ELSE result.points,
                   recorded |-> IF recs THEN 0 ELSE result.recorded]
    BY <1>1, <2>1
  <2>4. result'.entry = ConfirmedPrice(c)
    BY <1>0, <1>3, <2>1, <2>3 DEF entry
  <2>5. zone' = ZoneAfter(c)
    BY <1>0, <1>c, <1>3 DEF was
  <2> HIDE DEF verd, recs
  <2>6. /\ result'.status = verd /\ result'.active = (verd = "running")
        /\ result'.exit = ExitPrice(c, verd)
        /\ result'.low = Least(result.low, low) /\ result'.high = Greatest(result.high, high)
        /\ result'.points = IF recs THEN result.points \cup {c.close} ELSE result.points
        /\ result'.recorded = IF recs THEN 0 ELSE result.recorded
    BY <2>3
  <2>7. EvalFollows(c, TRUE)
    BY <2>2, <2>3, <2>6, Zenon DEF EvalFollows, low, high, verd, recs
  <2> QED
    BY <1>3, <2>4, <2>5, <2>7 DEF EvalEnters
<1>4. CASE ~result.active /\ ~Confirmed(c)
  <2>1. verdict = Verdict(c, FALSE)
    BY <1>0, <1>4 DEF Verdict
  <2> QED
    BY <1>0, <1>a, <1>b, <1>c, <1>4, <2>1 DEF EvalWaits, Cleanup
<1> QED
  BY <1>2, <1>3, <1>4

\* The new row of a trade that is entered.
LEMMA FollowsType ==
    ASSUME TradeInv, NEW c, c.low \in Price, c.high \in Price, c.close \in Price,
           NEW newly \in BOOLEAN, ~newly => result.active, EvalFollows(c, newly),
           result'.entry # NoPrice
    PROVE  /\ (Shapes /\ KeysType /\ ResultType /\ Open)'
           /\ result'.low <= c.low /\ c.high <= result'.high
           /\ result.active => result'.low <= result.low /\ result.high <= result'.high
<1> DEFINE low == Least(keys.low, c.low)  high == Greatest(keys.high, c.high)
           verdict == Verdict(c, TRUE)    records == Records(newly)
<1>0. /\ TfUnits \in Nat
      /\ keys.consol \in Off .. TfUnits /\ keys.hist \in Off .. TfUnits
      /\ result.recorded \in Off .. TfUnits /\ result.points \subseteq Price
      /\ keys.low \in Price \cup {NoPrice} /\ keys.high \in Price \cup {NoPrice}
      /\ result.low \in Price \cup {NoPrice} /\ result.high \in Price \cup {NoPrice}
      /\ result.active => result.points # {} /\ result.low \in Price /\ result.high \in Price
  BY MonitorAssumption DEF TradeInv, KeysType, ResultType, Open
<1>1. /\ low \in Price /\ low <= c.low /\ high \in Price /\ c.high <= high
  BY <1>0, LeastGreatest
<1>2. verdict \in {"running", "success", "failed", "expired"}
  BY VerdictType
<1>3. records \in BOOLEAN /\ (newly => records)
  BY DEF Records
<1> HIDE DEF low, high, verdict, records
<1>4. /\ keys' = IF verdict # "running" THEN NoKeys
                 ELSE [entered |-> TRUE,
                       entry |-> IF newly THEN ConfirmedPrice(c) ELSE keys.entry,
                       consol |-> IF newly THEN Off ELSE keys.consol,
                       hist |-> IF records THEN 0 ELSE keys.hist,
                       low |-> low, high |-> high]
      /\ result'.status = verdict /\ result'.active = (verdict = "running")
      /\ result'.low = Least(result.low, low) /\ result'.high = Greatest(result.high, high)
      /\ result'.points = IF records THEN result.points \cup {c.close} ELSE result.points
      /\ result'.recorded = IF records THEN 0 ELSE result.recorded
  BY DEF EvalFollows, low, high, verdict, records
<1>5. Shapes'
  <2>1. result' = [status |-> result'.status, active |-> result'.active,
                   entry |-> result'.entry, exit |-> result'.exit, low |-> result'.low,
                   high |-> result'.high, points |-> result'.points,
                   recorded |-> result'.recorded]
    BY DEF EvalFollows
  <2>2. keys' = [entered |-> keys'.entered, entry |-> keys'.entry, consol |-> keys'.consol,
                 hist |-> keys'.hist, low |-> keys'.low, high |-> keys'.high]
    BY <1>4 DEF NoKeys
  <2> QED
    BY <2>1, <2>2 DEF Shapes
<1>6. KeysType'
  BY <1>0, <1>1, <1>4 DEF KeysType, NoKeys, Off, NoPrice
<1>7. /\ result'.low \in Price /\ result'.low <= low
      /\ result'.high \in Price /\ high <= result'.high
      /\ result.active => result'.low <= result.low /\ result.high <= result'.high
  <2>1. /\ Least(result.low, low) \in Price /\ Least(result.low, low) <= low
        /\ result.low # NoPrice => Least(result.low, low) <= result.low
    BY <1>0, <1>1, LeastGreatest
  <2>2. /\ Greatest(result.high, high) \in Price /\ high <= Greatest(result.high, high)
        /\ result.high <= Greatest(result.high, high)
    BY <1>0, <1>1, LeastGreatest
  <2>3. result.active => result.low # NoPrice
    BY <1>0, FeedAssumption DEF NoPrice
  <2> QED
    BY <1>4, <2>1, <2>2, <2>3
<1>8. ResultType'
  <2>1. result'.active \in BOOLEAN
    BY <1>4
  <2>2. result'.recorded \in Off .. TfUnits
    BY <1>0, <1>4 DEF Off
  <2> QED
    BY <1>0, <1>2, <1>4, <1>7, <2>1, <2>2 DEF ResultType
<1>9. Open'
  <2>1. result'.points # {}
    BY <1>0, <1>3, <1>4
  <2>2. keys'.entered => verdict = "running"
    BY <1>4 DEF NoKeys
  <2> QED
    BY <1>4, <1>7, <2>1, <2>2 DEF Open
<1>10. result'.low <= c.low /\ c.high <= result'.high
  <2>1. /\ low \in Nat /\ high \in Nat /\ c.low \in Nat /\ c.high \in Nat
        /\ result'.low \in Nat /\ result'.high \in Nat
    BY <1>1, <1>7, FeedAssumption
  <2> QED
    BY <1>1, <1>7, <2>1
<1> QED
  BY <1>4, <1>5, <1>6, <1>7, <1>8, <1>9, <1>10

LEMMA WaitsType ==
    ASSUME TradeInv, Watching, NEW c, EvalWaits(c)
    PROVE  (Shapes /\ KeysType /\ ResultType /\ Open)'
<1>0. /\ TfUnits \in Nat /\ keys.consol \in Off .. TfUnits
      /\ Shapes /\ KeysType /\ ResultType /\ Open
      /\ result.status = "running" /\ ~result.active /\ result.entry = NoPrice
  BY MonitorAssumption DEF TradeInv, KeysType, Open, Watching, EvalWaits
<1>1. ConsolAfter(c) \in Off .. TfUnits
  BY <1>0 DEF ConsolAfter, Off
<1>2. Verdict(c, FALSE) \in {"running", "success", "failed", "expired"}
  BY VerdictType
<1>3. /\ keys' = IF Verdict(c, FALSE) = "running" THEN [keys EXCEPT !.consol = ConsolAfter(c)]
                 ELSE NoKeys
      /\ result' = [result EXCEPT !.status = Verdict(c, FALSE)]
  BY DEF EvalWaits
<1>4. Shapes'
  <2>1. result' = [status |-> result'.status, active |-> result'.active,
                   entry |-> result'.entry, exit |-> result'.exit, low |-> result'.low,
                   high |-> result'.high, points |-> result'.points,
                   recorded |-> result'.recorded]
    BY <1>0, <1>3 DEF Shapes
  <2>2. keys' = [entered |-> keys'.entered, entry |-> keys'.entry, consol |-> keys'.consol,
                 hist |-> keys'.hist, low |-> keys'.low, high |-> keys'.high]
    BY <1>0, <1>3 DEF Shapes, NoKeys
  <2> QED
    BY <2>1, <2>2 DEF Shapes
<1>5. KeysType'
  <2>1. CASE Verdict(c, FALSE) = "running"
    BY <1>0, <1>1, <1>3, <2>1 DEF Shapes, KeysType
  <2>2. CASE Verdict(c, FALSE) # "running"
    BY <1>0, <1>3, <2>2 DEF KeysType, NoKeys, Off
  <2> QED
    BY <2>1, <2>2
<1>6. /\ result'.status = Verdict(c, FALSE) /\ result'.active = result.active
      /\ result'.entry = result.entry /\ result'.low = result.low /\ result'.high = result.high
      /\ result'.points = result.points /\ result'.recorded = result.recorded
  BY <1>0, <1>3 DEF Shapes
<1>7. ResultType'
  BY <1>0, <1>2, <1>6 DEF ResultType
<1>8. Open'
  <2>1. ~keys'.entered
    BY <1>0, <1>3 DEF Shapes, Open, NoKeys
  <2> QED
    BY <1>0, <1>6, <2>1 DEF Open
<1> QED
  BY <1>4, <1>5, <1>7, <1>8

\* A cycle either evaluates the scenario with a candle or leaves it as it is.
LEMMA CycleCases ==
    ASSUME TradeInv, Cycle
    PROVE  /\ Watching /\ since >= Interval /\ since' = 0 /\ turn' \in 0 .. SlowCycles - 1
           /\ seen' = IF result'.entry = NoPrice THEN {} ELSE seen \cup Found
           /\ UNCHANGED <<row, expired, fresh, feed>>
           /\ \/ UNCHANGED <<keys, result, zone>> /\ ~(IsRead /\ HasCandle)
              \/ /\ HasCandle
                 /\ \E c \in Candles : EvalWaits(c) \/ EvalEnters(c) \/ EvalStays(c)
<1>1. turn \in Nat /\ SlowCycles \in Nat \ {0}
  BY MonitorAssumption DEF TradeInv, ClockType
<1>2. turn' \in 0 .. SlowCycles - 1
  BY <1>1 DEF Cycle
<1>3. CASE IsRead /\ HasCandle
  <2>1. PICK c \in Candles : Evaluate(c)
    BY <1>3 DEF Cycle
  <2>2. EvalWaits(c) \/ EvalEnters(c) \/ EvalStays(c)
    BY <2>1, EvaluateCases DEF Cycle
  <2> QED
    BY <1>2, <1>3, <2>2 DEF Cycle
<1>4. CASE ~(IsRead /\ HasCandle)
  BY <1>2, <1>4 DEF Cycle
<1> QED
  BY <1>3, <1>4

LEMMA CandleTypes ==
    ASSUME FeedInv, HasCandle, NEW c \in Candles
    PROVE  /\ c.low \in Price /\ c.high \in Price /\ c.close \in Price
           /\ CandlePrices \subseteq Price
  BY CandleIsPrices

LEMMA FoundType ==
    ASSUME FeedInv
    PROVE  Found \subseteq Price
  BY LastType DEF Found

LEMMA ZoneType ==
    ASSUME TradeInv, NEW c
    PROVE  ZoneAfter(c) \in Off .. TfUnits
  BY MonitorAssumption DEF TradeInv, ClockType, ZoneAfter, Off

LEMMA CycleType ==
    ASSUME FeedInv, TradeInv, Cycle
    PROVE  TradeInv'
<1>0. /\ Watching /\ since' = 0 /\ turn' \in 0 .. SlowCycles - 1 /\ expired' = expired
      /\ seen' \subseteq seen \cup Found
      /\ TfUnits \in Nat /\ Interval \in Nat /\ ClockType
  BY CycleCases, MonitorAssumption DEF TradeInv
<1>1. ASSUME zone' \in Off .. TfUnits
      PROVE  ClockType'
  BY <1>0, <1>1, FoundType DEF ClockType
<1>2. CASE UNCHANGED <<keys, result, zone>>
  <2>1. ClockType'
    BY <1>0, <1>1, <1>2 DEF ClockType
  <2> QED
    BY <1>2, <2>1 DEF TradeInv, Shapes, KeysType, ResultType, Open
<1>3. ASSUME HasCandle, NEW c \in Candles, EvalWaits(c)
      PROVE  TradeInv'
  <2>1. (Shapes /\ KeysType /\ ResultType /\ Open)'
    BY <1>0, <1>3, WaitsType
  <2>2. ClockType'
    BY <1>1, <1>3, ZoneType DEF EvalWaits
  <2> QED
    BY <2>1, <2>2 DEF TradeInv
<1>4. ASSUME HasCandle, NEW c \in Candles, EvalEnters(c)
      PROVE  TradeInv'
  <2>0. c.low \in Price /\ c.high \in Price /\ c.close \in Price
    BY <1>4, CandleTypes
  <2>1. ConfirmedPrice(c) # NoPrice
    BY <2>0, FeedAssumption DEF ConfirmedPrice, IsMarket, NoPrice
  <2>2. (Shapes /\ KeysType /\ ResultType /\ Open)'
    BY <1>4, <2>0, <2>1, FollowsType DEF EvalEnters
  <2>3. ClockType'
    BY <1>1, <1>4, ZoneType DEF EvalEnters
  <2> QED
    BY <2>2, <2>3 DEF TradeInv
<1>5. ASSUME HasCandle, NEW c \in Candles, EvalStays(c)
      PROVE  TradeInv'
  <2>0. c.low \in Price /\ c.high \in Price /\ c.close \in Price
    BY <1>5, CandleTypes
  <2>1. result'.entry # NoPrice
    BY <1>5 DEF EvalStays, TradeInv, Open
  <2>2. (Shapes /\ KeysType /\ ResultType /\ Open)'
    BY <1>5, <2>0, <2>1, FollowsType DEF EvalStays
  <2>3. ClockType'
    BY <1>0, <1>1, <1>5 DEF ClockType, EvalStays
  <2> QED
    BY <2>2, <2>3 DEF TradeInv
<1> QED
  BY <1>2, <1>3, <1>4, <1>5, CycleCases

\* The steps besides the cycle.
Others == Tick \/ Quote \/ Expires \/ Restart \/ KeyLost \/ PricesLost

LEMMA LaterType ==
    ASSUME NEW t \in Off .. TfUnits
    PROVE  /\ Later(t) \in Off .. TfUnits /\ t <= Later(t)
           /\ t # Off => Later(t) # Off
           /\ t = Off => Later(t) = Off
  BY MonitorAssumption DEF Later, Off

LEMMA TickType ==
    ASSUME TradeInv, Tick
    PROVE  TradeInv'
<1>0. /\ Shapes /\ KeysType /\ ResultType /\ Open /\ ClockType
      /\ TfUnits \in Nat /\ Interval \in Nat
  BY MonitorAssumption DEF TradeInv
<1>1. /\ keys' = [entered |-> keys.entered, entry |-> keys.entry, consol |-> Later(keys.consol),
                  hist |-> Later(keys.hist), low |-> keys.low, high |-> keys.high]
      /\ result' = [status |-> result.status, active |-> result.active,
                    entry |-> result.entry, exit |-> result.exit, low |-> result.low,
                    high |-> result.high, points |-> result.points,
                    recorded |-> Later(result.recorded)]
  BY <1>0 DEF Tick, Shapes
<1>2. Shapes'
  BY <1>1 DEF Shapes
<1>3. KeysType'
  BY <1>0, <1>1, LaterType DEF KeysType
<1>4. ResultType'
  BY <1>0, <1>1, LaterType DEF ResultType
<1>5. Open'
  BY <1>0, <1>1 DEF Open
<1>6. ClockType'
  <2>1. Later(zone) \in Off .. TfUnits
    BY <1>0, LaterType DEF ClockType
  <2>2. since' \in 0 .. Interval
    BY <1>0 DEF Tick, ClockType
  <2> QED
    BY <1>0, <2>1, <2>2 DEF Tick, ClockType
<1> QED
  BY <1>2, <1>3, <1>4, <1>5, <1>6 DEF TradeInv

LEMMA RestartType ==
    ASSUME TradeInv, Restart
    PROVE  TradeInv'
<1>0. /\ Shapes /\ KeysType /\ ResultType /\ Open /\ ClockType
      /\ SlowCycles \in Nat \ {0} /\ Interval \in Nat
      /\ UNCHANGED <<row, result, expired, seen, zone>> /\ turn' = 0 /\ since' = Interval
  BY MonitorAssumption DEF TradeInv, Restart
<1>1. ClockType' /\ ResultType'
  BY <1>0 DEF ClockType, ResultType
<1>2. CASE keys' = keys
  BY <1>0, <1>1, <1>2 DEF TradeInv, Shapes, KeysType, Open
<1>3. CASE keys' # keys
  <2>0. result.active
    BY <1>3 DEF Restart
  <2>1. keys' = [entered |-> TRUE, entry |-> result.entry, consol |-> keys.consol,
                 hist |-> result.recorded,
                 low |-> Min(result.points), high |-> Max(result.points)]
    BY <1>0, <1>3 DEF Restart, Shapes
  <2>2. Min(result.points) \in Price /\ Max(result.points) \in Price
    <3>1. result.points \in SUBSET Price /\ result.points # {}
      BY <1>0, <2>0 DEF ResultType, Open
    <3> QED
      BY <3>1, PriceExtremes
  <2>3. KeysType'
    BY <1>0, <2>1, <2>2 DEF KeysType, ResultType
  <2>4. Shapes' /\ Open'
    BY <1>0, <2>0, <2>1 DEF Shapes, Open
  <2> QED
    BY <1>1, <2>3, <2>4 DEF TradeInv
<1> QED
  BY <1>2, <1>3

\* A key that is lost leaves the others alone.
LEMMA KeyLostType ==
    ASSUME TradeInv, KeyLost
    PROVE  /\ Shapes' /\ KeysType'
           /\ keys'.entered => keys.entered
           /\ keys'.consol \in {Off, keys.consol}
<1>0. Shapes /\ KeysType /\ TfUnits \in Nat
  BY MonitorAssumption DEF TradeInv
<1>1. keys = [entered |-> keys.entered, entry |-> keys.entry, consol |-> keys.consol,
              hist |-> keys.hist, low |-> keys.low, high |-> keys.high]
  BY <1>0 DEF Shapes
<1>2. Shapes' <=> keys' = [entered |-> keys'.entered, entry |-> keys'.entry,
                           consol |-> keys'.consol, hist |-> keys'.hist,
                           low |-> keys'.low, high |-> keys'.high]
  <2>1. result' = result
    BY DEF KeyLost
  <2> QED
    BY <1>0, <2>1 DEF Shapes
<1>3. CASE keys' = [keys EXCEPT !.entered = FALSE]
  <2>1. keys' = [entered |-> FALSE, entry |-> keys.entry, consol |-> keys.consol,
                 hist |-> keys.hist, low |-> keys.low, high |-> keys.high]
    BY <1>1, <1>3
  <2> QED
    BY <1>0, <1>2, <2>1 DEF KeysType, Off
<1>4. CASE keys' = [keys EXCEPT !.entry = NoPrice]
  <2>1. keys' = [entered |-> keys.entered, entry |-> NoPrice, consol |-> keys.consol,
                 hist |-> keys.hist, low |-> keys.low, high |-> keys.high]
    BY <1>1, <1>4
  <2> QED
    BY <1>0, <1>2, <2>1 DEF KeysType, Off
<1>5. CASE keys' = [keys EXCEPT !.consol = Off]
  <2>1. keys' = [entered |-> keys.entered, entry |-> keys.entry, consol |-> Off,
                 hist |-> keys.hist, low |-> keys.low, high |-> keys.high]
    BY <1>1, <1>5
  <2> QED
    BY <1>0, <1>2, <2>1 DEF KeysType, Off
<1>6. CASE keys' = [keys EXCEPT !.hist = Off]
  <2>1. keys' = [entered |-> keys.entered, entry |-> keys.entry, consol |-> keys.consol,
                 hist |-> Off, low |-> keys.low, high |-> keys.high]
    BY <1>1, <1>6
  <2> QED
    BY <1>0, <1>2, <2>1 DEF KeysType, Off
<1>7. CASE keys' = [keys EXCEPT !.low = NoPrice]
  <2>1. keys' = [entered |-> keys.entered, entry |-> keys.entry, consol |-> keys.consol,
                 hist |-> keys.hist, low |-> NoPrice, high |-> keys.high]
    BY <1>1, <1>7
  <2> QED
    BY <1>0, <1>2, <2>1 DEF KeysType, Off
<1>8. CASE keys' = [keys EXCEPT !.high = NoPrice]
  <2>1. keys' = [entered |-> keys.entered, entry |-> keys.entry, consol |-> keys.consol,
                 hist |-> keys.hist, low |-> keys.low, high |-> NoPrice]
    BY <1>1, <1>8
  <2> QED
    BY <1>0, <1>2, <2>1 DEF KeysType, Off
<1> QED
  BY <1>3, <1>4, <1>5, <1>6, <1>7, <1>8 DEF KeyLost

LEMMA OthersType ==
    ASSUME TradeInv, Others
    PROVE  TradeInv'
<1>1. CASE Quote
  BY <1>1 DEF Quote, TradeInv, Shapes, KeysType, ResultType, Open, ClockType
<1>2. CASE Expires
  BY <1>2 DEF Expires, TradeInv, Shapes, KeysType, ResultType, Open, ClockType
<1>3. CASE KeyLost
  BY <1>3, KeyLostType DEF KeyLost, TradeInv, ResultType, Open, ClockType
<1>4. CASE PricesLost
  BY <1>4 DEF PricesLost, TradeInv, Shapes, KeysType, ResultType, Open, ClockType
<1> QED
  BY <1>1, <1>2, <1>3, <1>4, TickType, RestartType DEF Others

LEMMA FollowType ==
    ASSUME TradeInv, Follow
    PROVE  TradeInv'
  BY DEF Follow, TradeInv, Shapes, KeysType, ResultType, Open, ClockType

-----------------------------------------------------------------------------

\* Every step is one of these.
LEMMA Steps ==
    Next <=> \/ IntakeNext /\ UNCHANGED <<feed, trade>>
             \/ Follow
             \/ (Cycle \/ Others) /\ UNCHANGED intake
  BY DEF Next, TradeNext, Others

\* The history of the scores is the window of the evaluator.
FreshInv ==
    /\ fresh \in [Price -> {Gone} \cup 0 .. CandleWindow]
    /\ \A p \in Price :
         fresh[p] = IF ticks[p] # Gone /\ ticks[p] <= CandleWindow THEN ticks[p] ELSE Gone

\* Prices are collected from the entry on.
SeenInv == result.entry = NoPrice => seen = {}

Inv == stage \in Stages /\ FeedInv /\ TradeInv /\ FreshInv /\ SeenInv

\* What a cycle has to look at is what its candle consists of.
LEMMA FoundIsCandle ==
    ASSUME FeedInv, FreshInv
    PROVE  Found = IF HasCandle THEN CandlePrices ELSE {}
<1>1. {p \in Price : fresh[p] # Gone} = Recent
  BY DEF FreshInv, Recent
<1> QED
  BY <1>1 DEF Found, HasCandle, CandlePrices

LEMMA FreshTick ==
    ASSUME FeedInv, FreshInv, Tick
    PROVE  FreshInv'
<1>0. /\ CandleWindow \in Nat /\ BufferWindow \in Nat /\ CandleWindow < BufferWindow
      /\ ticks \in [Price -> {Gone} \cup 0 .. BufferWindow - 1]
  BY FeedAssumption DEF FeedInv
<1>1. /\ ticks' = [p \in Price |-> Older(ticks[p], BufferWindow)]
      /\ fresh' = [p \in Price |-> Older(fresh[p], CandleWindow + 1)]
  BY DEF Tick, Age
<1>2. ASSUME NEW p \in Price
      PROVE  /\ fresh'[p] \in {Gone} \cup 0 .. CandleWindow
             /\ fresh'[p] = IF ticks'[p] # Gone /\ ticks'[p] <= CandleWindow THEN ticks'[p]
                                                                          ELSE Gone
  <2>1. /\ fresh'[p] = Older(fresh[p], CandleWindow + 1)
        /\ ticks'[p] = Older(ticks[p], BufferWindow)
        /\ ticks[p] \in {Gone} \cup 0 .. BufferWindow - 1
    BY <1>0, <1>1
  <2>2. fresh[p] = IF ticks[p] # Gone /\ ticks[p] <= CandleWindow THEN ticks[p] ELSE Gone
    BY DEF FreshInv
  <2> QED
    BY <1>0, <2>1, <2>2 DEF Older, Gone
<1>3. fresh' \in [Price -> {Gone} \cup 0 .. CandleWindow]
  BY <1>1, <1>2
<1> QED
  BY <1>2, <1>3 DEF FreshInv

LEMMA FreshQuote ==
    ASSUME FeedInv, FreshInv, Quote
    PROVE  FreshInv'
<1>0. /\ CandleWindow \in Nat
      /\ ticks \in [Price -> {Gone} \cup 0 .. BufferWindow - 1]
      /\ fresh \in [Price -> {Gone} \cup 0 .. CandleWindow]
  BY FeedAssumption DEF FeedInv, FreshInv
<1>1. PICK q \in Price, delay \in 0 .. MaxDelay :
        /\ ticks' = [ticks EXCEPT ![q] = delay]
        /\ fresh' = [fresh EXCEPT ![q] = IF delay <= CandleWindow THEN delay ELSE Gone]
  BY DEF Quote, Publish
<1>2. delay \in Nat /\ delay # Gone
  BY FeedAssumption DEF Gone
<1>3. fresh' \in [Price -> {Gone} \cup 0 .. CandleWindow]
  BY <1>0, <1>1, <1>2
<1>4. ASSUME NEW p \in Price
      PROVE  fresh'[p] = IF ticks'[p] # Gone /\ ticks'[p] <= CandleWindow THEN ticks'[p]
                                                                       ELSE Gone
  <2>1. CASE p = q
    BY <1>0, <1>1, <1>2, <2>1
  <2>2. CASE p # q
    BY <1>0, <1>1, <2>2 DEF FreshInv
  <2> QED
    BY <2>1, <2>2
<1> QED
  BY <1>3, <1>4 DEF FreshInv

LEMMA FreshLost ==
    ASSUME FreshInv, PricesLost
    PROVE  FreshInv'
<1>1. CASE TicksLost /\ fresh' = [p \in Price |-> Gone]
  BY <1>1 DEF TicksLost, FreshInv
<1>2. CASE LastLost /\ UNCHANGED fresh
  BY <1>2 DEF LastLost, FreshInv
<1> QED
  BY <1>1, <1>2 DEF PricesLost

LEMMA InitInv == Init => Inv
<1> SUFFICES ASSUME Init PROVE Inv
  OBVIOUS
<1>1. stage \in Stages
  BY DEF Init, IntakeInit, Stages
<1>2. FeedInv
  BY FeedAssumption DEF Init, FeedInit, FeedInv, Gone, NoLast
<1>3. TradeInv
  <2>0. /\ SlowCycles \in Nat \ {0} /\ Interval \in Nat /\ TfUnits \in Nat
        /\ keys = NoKeys /\ result = NewResult /\ turn = 0 /\ since = 0
        /\ expired = FALSE /\ seen = {} /\ zone = Off
    BY MonitorAssumption DEF Init, TradeInit
  <2>1. Shapes
    BY <2>0 DEF Shapes, NoKeys, NewResult
  <2>2. KeysType /\ ResultType
    BY <2>0 DEF KeysType, ResultType, NoKeys, NewResult, Off, NoPrice
  <2>4. Open
    BY <2>0 DEF Open, NoKeys, NewResult, NoPrice
  <2>3. ClockType
    <3>1. expired \in BOOLEAN
      BY <2>0, Zenon
    <3> QED
      BY <2>0, <3>1 DEF ClockType, Off
  <2> QED
    BY <2>1, <2>2, <2>3, <2>4 DEF TradeInv
<1>4. FreshInv
  BY DEF Init, FeedInit, TradeInit, FreshInv
<1>5. SeenInv
  BY DEF Init, TradeInit, SeenInv
<1> QED
  BY <1>1, <1>2, <1>3, <1>4, <1>5 DEF Inv

\* The other steps keep the result but for the age of its last point.
LEMMA OthersKeep ==
    ASSUME TradeInv, Others
    PROVE  /\ result'.active = result.active /\ result'.status = result.status
           /\ result'.entry = result.entry /\ result'.exit = result.exit
           /\ result'.low = result.low /\ result'.high = result.high
           /\ row' = row /\ seen' = seen
           /\ since' \in {since, since + 1, Interval}
           /\ zone' \in {zone, Later(zone)}
<1>1. CASE Tick
  BY <1>1 DEF Tick, TradeInv, Shapes
<1> QED
  BY <1>1 DEF Others, Quote, Expires, Restart, KeyLost, PricesLost

LEMMA FeedOthers ==
    ASSUME FeedInv, FreshInv, Others
    PROVE  FeedInv' /\ FreshInv'
<1>1. CASE Tick
  BY <1>1, AgeStep, FreshTick DEF Tick
<1>2. CASE Quote
  BY <1>2, PublishStep, FreshQuote DEF Quote
<1>3. CASE PricesLost
  BY <1>3, LostStep, FreshLost DEF PricesLost
<1>4. CASE Expires \/ Restart \/ KeyLost
  BY <1>4 DEF Expires, Restart, KeyLost, FeedInv, FreshInv, feed
<1> QED
  BY <1>1, <1>2, <1>3, <1>4 DEF Others

LEMMA NextInv ==
    ASSUME Inv, [Next]_vars
    PROVE  Inv'
<1>1. CASE UNCHANGED vars \/ (IntakeNext /\ UNCHANGED <<feed, trade>>)
  <2>1. stage' \in Stages
    BY <1>1 DEF Inv, vars, intake, IntakeNext, ParseFails, ParseNothing, ParseItems, Filter,
                Insert, Stages
  <2>2. UNCHANGED <<feed, trade>>
    BY <1>1 DEF vars
  <2>3. FeedInv' /\ TradeInv' /\ FreshInv' /\ SeenInv'
    BY <2>2 DEF Inv, feed, trade, FeedInv, TradeInv, Shapes, KeysType, ResultType, Open, ClockType,
                FreshInv, SeenInv
  <2> QED
    BY <2>1, <2>3 DEF Inv
<1>2. CASE Follow
  <2>1. FeedInv' /\ FreshInv' /\ SeenInv' /\ stage' = stage
    BY <1>2 DEF Inv, Follow, FeedInv, FreshInv, SeenInv, feed, intake
  <2> QED
    BY <1>2, <2>1, FollowType DEF Inv
<1>3. CASE Cycle /\ UNCHANGED intake
  <2>1. FeedInv' /\ FreshInv' /\ stage' = stage
    BY <1>3 DEF Inv, Cycle, FeedInv, FreshInv, feed, intake
  <2>2. SeenInv'
    BY <1>3 DEF Cycle, SeenInv
  <2> QED
    BY <1>3, <2>1, <2>2, CycleType DEF Inv
<1>4. CASE Others /\ UNCHANGED intake
  <2>1. FeedInv' /\ FreshInv'
    BY <1>4, FeedOthers DEF Inv
  <2>2. SeenInv'
    BY <1>4, OthersKeep DEF Inv, SeenInv
  <2> QED
    BY <1>4, <2>1, <2>2, OthersType DEF Inv, intake
<1> QED
  BY <1>1, <1>2, <1>3, <1>4, Steps

LEMMA Invariance == Spec => []Inv
  BY InitInv, NextInv, PTL DEF Spec

\* What happens to a row on the market leaves the rows that are stored alone.
LEMMA StageInvariance == Spec => []StageInv
<1>1. Init => StageInv
  BY DEF Init, IntakeInit, StageInv
<1>2. [Next]_vars => [IntakeNext]_intake
  BY DEF Next, vars, Follow
<1> QED
  BY <1>1, <1>2, StageNext, PTL DEF Spec

\* Every row that final-store stores can be traded: the prices are on their sides of the
\* entry (a stop that is NaN has no side), the targets are in the order in which the price
\* meets them, and a target that the model gave on the wrong side is gone.
THEOREM RowsAreTradable == Spec => []TradableRows
  BY StageInvariance, TradableOfStages, PTL

\* Every scenario with an entry becomes one row of its coin, in the order of the analysis;
\* a regular side, entry, timeframe and stop stay what they are, and the targets are the
\* ones on the profit side, each as often as written.
THEOREM RowsAreAsAnalysed == Spec => []StoredAsAnalysed
  BY StageInvariance, AnalysedOfStages, PTL

\* Type correctness.
THEOREM TypeCorrect == Spec => []JourneyTypeOK
<1>1. Inv => JourneyTypeOK
  BY DEF Inv, FeedInv, TradeInv, FreshInv, KeysType, ResultType, Open, ClockType, JourneyTypeOK
<1> QED
  BY <1>1, Invariance, PTL

-----------------------------------------------------------------------------
(* The timer of a consolidation *)

\* The timer never claims more than the closes that were read.
TimerInv == keys.consol # Off => zone # Off /\ keys.consol <= zone

LEMMA LaterMonotone ==
    ASSUME NEW t \in 0 .. TfUnits, NEW u \in 0 .. TfUnits, t <= u
    PROVE  Later(t) <= Later(u)
  BY MonitorAssumption DEF Later, Off

LEMMA TimerCycle ==
    ASSUME Inv, TimerInv, Cycle
    PROVE  /\ TimerInv'
           /\ result.entry = NoPrice /\ result'.entry # NoPrice /\ Consolidates /\ ~IsMarket
                => zone' >= TfUnits
<1>0. /\ TradeInv /\ FeedInv /\ Watching
      /\ TfUnits \in Nat \ {0} /\ keys.consol \in Off .. TfUnits /\ zone \in Off .. TfUnits
  BY CycleCases, MonitorAssumption DEF Inv, TradeInv, KeysType, ClockType
<1>1. CASE UNCHANGED <<keys, result, zone>>
  BY <1>1 DEF TimerInv
<1>2. ASSUME NEW c \in Candles, EvalWaits(c)
      PROVE  TimerInv' /\ result'.entry = result.entry
  <2>1. result'.entry = result.entry
    BY <1>0, <1>2 DEF EvalWaits, TradeInv, Shapes
  <2>2. CASE Verdict(c, FALSE) # "running"
    BY <1>2, <2>1, <2>2 DEF EvalWaits, TimerInv, NoKeys, Off
  <2>3. CASE Verdict(c, FALSE) = "running"
    <3>1. keys'.consol = ConsolAfter(c)
      <4>1. keys' = [keys EXCEPT !.consol = ConsolAfter(c)]
        BY <1>2, <2>3 DEF EvalWaits
      <4>2. Shapes
        BY <1>0 DEF TradeInv
      <4> QED
        BY <4>1, <4>2 DEF Shapes
    <3>2. zone' = ZoneAfter(c)
      BY <1>2 DEF EvalWaits
    <3>3. TimerInv'
      BY <1>0, <3>1, <3>2 DEF TimerInv, ConsolAfter, ZoneAfter, Off
    <3> QED
      BY <2>1, <3>3
  <2> QED
    BY <2>2, <2>3
<1>3. ASSUME NEW c \in Candles, EvalEnters(c)
      PROVE  TimerInv' /\ (Consolidates /\ ~IsMarket => zone' >= TfUnits)
  <2>1. keys'.consol = Off /\ zone' = ZoneAfter(c)
    BY <1>3 DEF EvalEnters, EvalFollows, NoKeys
  <2>2. Consolidates /\ ~IsMarket => InZone(c) /\ keys.consol >= TfUnits
    BY <1>3 DEF EvalEnters, Confirmed, Consolidates
  <2>3. Consolidates /\ ~IsMarket => zone' = zone /\ zone >= TfUnits
    BY <1>0, <2>1, <2>2 DEF TimerInv, ZoneAfter, Off
  <2> QED
    BY <2>1, <2>3 DEF TimerInv
<1>4. ASSUME NEW c \in Candles, EvalStays(c)
      PROVE  TimerInv' /\ result'.entry = result.entry
  <2>1. keys'.consol \in {Off, keys.consol} /\ zone' = zone
    BY <1>4 DEF EvalStays, EvalFollows, NoKeys
  <2> QED
    BY <1>4, <2>1 DEF TimerInv, EvalStays
<1> QED
  BY <1>0, <1>1, <1>2, <1>3, <1>4, CycleCases

LEMMA TimerOthers ==
    ASSUME TradeInv, TimerInv, Others
    PROVE  TimerInv'
<1>0. keys.consol \in Off .. TfUnits /\ zone \in Off .. TfUnits /\ TfUnits \in Nat /\ Shapes
  BY MonitorAssumption DEF TradeInv, KeysType, ClockType
<1>1. CASE Tick
  <2>1. keys'.consol = Later(keys.consol) /\ zone' = Later(zone)
    BY <1>0, <1>1 DEF Tick, Shapes
  <2>2. CASE keys.consol = Off
    BY <2>1, <2>2 DEF TimerInv, Later
  <2>3. CASE keys.consol # Off
    <3>1. keys.consol \in 0 .. TfUnits /\ zone \in 0 .. TfUnits /\ keys.consol <= zone
      BY <1>0, <2>3 DEF TimerInv, Off
    <3>2. Later(keys.consol) <= Later(zone)
      BY <3>1, LaterMonotone
    <3>3. Later(zone) # Off
      BY <1>0, <3>1, LaterType DEF Off
    <3> QED
      BY <2>1, <3>2, <3>3 DEF TimerInv
  <2> QED
    BY <2>2, <2>3
<1>2. CASE Restart
  BY <1>0, <1>2 DEF Restart, TimerInv, Shapes
<1>3. CASE KeyLost
  <2>1. zone' = zone /\ keys'.consol \in {Off, keys.consol}
    BY <1>3, KeyLostType DEF KeyLost
  <2> QED
    BY <2>1 DEF TimerInv
<1>4. CASE Quote \/ Expires \/ PricesLost
  BY <1>4 DEF Quote, Expires, PricesLost, TimerInv
<1> QED
  BY <1>1, <1>2, <1>3, <1>4 DEF Others

LEMMA TimerNext ==
    ASSUME Inv, TimerInv, [Next]_vars
    PROVE  /\ TimerInv'
           /\ [result.entry = NoPrice /\ result'.entry # NoPrice /\ Consolidates /\ ~IsMarket
                 => zone' >= TfUnits]_vars
<1>1. CASE UNCHANGED vars \/ (IntakeNext /\ UNCHANGED <<feed, trade>>) \/ Follow
  BY <1>1 DEF vars, trade, Follow, TimerInv
<1>2. CASE Cycle
  BY <1>2, TimerCycle
<1>3. CASE Others
  <2>1. TimerInv'
    BY <1>3, TimerOthers DEF Inv
  <2>2. result'.entry = result.entry
    BY <1>3, OthersKeep DEF Inv
  <2> QED
    BY <2>1, <2>2
<1> QED
  BY <1>1, <1>2, <1>3, Steps

\* A consolidation order is entered only on a close in the zone that came a timeframe or
\* more after an earlier one, with no close out of the zone read in between, however long
\* a timeframe is, and whatever happens to the timer.
THEOREM EntersAfterTimeframe == Spec => ConsolidationHeld
<1>1. Init => TimerInv
  BY DEF Init, TradeInit, TimerInv, NoKeys
<1> QED
  BY <1>1, Invariance, TimerNext, PTL DEF Spec, ConsolidationHeld

-----------------------------------------------------------------------------
(* The extremes of a position *)

Covered(p) == result.low <= p /\ p <= result.high

CoverInv == result.active => \A p \in seen : Covered(p)

\* What a cycle adds to the prices of a position: those of its candle, or none.
LEMMA SeenAfter ==
    ASSUME Inv, Cycle
    PROVE  /\ ~(IsRead /\ HasCandle) /\ result.active => seen' \subseteq seen
           /\ HasCandle /\ result'.entry # NoPrice => seen' = seen \cup CandlePrices
           /\ ~result.active => seen = {}
<1>0. /\ seen' = IF result'.entry = NoPrice THEN {} ELSE seen \cup Found
      /\ Found = IF HasCandle THEN CandlePrices ELSE {}
      /\ Watching /\ Open /\ SeenInv
  BY CycleCases, FoundIsCandle DEF Inv, TradeInv
<1>1. ~result.active => seen = {}
  BY <1>0 DEF Open, Watching, SeenInv
<1>2. HasCandle /\ result'.entry # NoPrice => seen' = seen \cup CandlePrices
  BY <1>0
<1>3. ~(IsRead /\ HasCandle) /\ result.active => seen' \subseteq seen
  BY <1>0 DEF IsRead
<1> QED
  BY <1>1, <1>2, <1>3

LEMMA PriceIsNatural ==
    ASSUME NEW x \in Price \cup {NoPrice}
    PROVE  x \in Nat
<1>1. Price \subseteq Nat /\ NoPrice \in Nat
  BY FeedAssumption DEF NoPrice
<1> QED
  BY <1>1

LEMMA CandleNaturals ==
    ASSUME FeedInv, HasCandle, NEW c \in Candles
    PROVE  c.low \in Nat /\ c.high \in Nat /\ c.close \in Nat /\ CandlePrices \subseteq Nat
  BY CandleTypes, FeedAssumption

LEMMA PricesAreNaturals ==
    ASSUME TradeInv
    PROVE  seen \subseteq Nat /\ result.low \in Nat /\ result.high \in Nat
<1>1. /\ seen \subseteq Price
      /\ result.low \in Price \cup {NoPrice} /\ result.high \in Price \cup {NoPrice}
  BY DEF TradeInv, ClockType, ResultType
<1>2. Price \subseteq Nat
  BY FeedAssumption
<1> QED
  BY <1>1, <1>2, PriceIsNatural

LEMMA NextPricesAreNaturals ==
    ASSUME TradeInv'
    PROVE  seen' \subseteq Nat /\ result'.low \in Nat /\ result'.high \in Nat
<1>1. /\ seen' \subseteq Price
      /\ result'.low \in Price \cup {NoPrice} /\ result'.high \in Price \cup {NoPrice}
  BY DEF TradeInv, ClockType, ResultType
<1>2. Price \subseteq Nat
  BY FeedAssumption
<1> QED
  BY <1>1, <1>2, PriceIsNatural

LEMMA CoverCycle ==
    ASSUME Inv, CoverInv, Cycle
    PROVE  result'.entry # NoPrice => \A p \in seen' : Covered(p)'
<1>0. /\ FeedInv /\ TradeInv /\ TradeInv' /\ Watching
      /\ seen \subseteq Price /\ seen' \subseteq Price
  BY CycleType, CycleCases DEF Inv, TradeInv, ClockType
<1>1. CASE UNCHANGED <<keys, result, zone>> /\ ~(IsRead /\ HasCandle)
  <2>1. result.entry # NoPrice => result.active
    BY <1>0 DEF TradeInv, Open, Watching
  <2> QED
    BY <1>1, <2>1, SeenAfter DEF Covered, CoverInv
<1>2. ASSUME NEW c \in Candles, EvalWaits(c)
      PROVE  result'.entry = NoPrice
  <2>1. result'.entry = result.entry /\ ~result.active
    BY <1>0, <1>2 DEF EvalWaits, TradeInv, Shapes
  <2> QED
    BY <1>0, <2>1 DEF TradeInv, Open, Watching
<1>3. ASSUME HasCandle, NEW c \in Candles, EvalEnters(c) \/ EvalStays(c),
             result'.entry # NoPrice, NEW p \in seen'
      PROVE  Covered(p)'
  <2>1. /\ result'.low <= c.low /\ c.high <= result'.high
        /\ result.active => result'.low <= result.low /\ result.high <= result'.high
    BY <1>0, <1>3, CandleTypes, FollowsType DEF EvalEnters, EvalStays
  <2>2. \A q \in CandlePrices : c.low <= q /\ q <= c.high
    BY <1>0, <1>3, CandleIsPrices
  <2>3. /\ result'.low \in Nat /\ result'.high \in Nat
        /\ result.low \in Nat /\ result.high \in Nat
        /\ c.low \in Nat /\ c.high \in Nat /\ p \in Nat
    BY <1>0, <1>3, PricesAreNaturals, NextPricesAreNaturals, CandleNaturals
  <2>4. CASE p \in CandlePrices
    BY <2>1, <2>2, <2>3, <2>4 DEF Covered
  <2>5. CASE p \notin CandlePrices
    <3>1. p \in seen /\ result.active
      BY <1>3, <2>5, SeenAfter
    <3>2. Covered(p)
      BY <3>1 DEF CoverInv
    <3> QED
      BY <2>1, <2>3, <3>1, <3>2 DEF Covered
  <2> QED
    BY <2>4, <2>5
<1> QED
  BY <1>0, <1>1, <1>2, <1>3, CycleCases

LEMMA CoverNext ==
    ASSUME Inv, CoverInv, [Next]_vars
    PROVE  /\ CoverInv'
           /\ [since' < since /\ result'.entry # NoPrice =>
                 \A p \in seen' : result'.low <= p /\ p <= result'.high]_vars
<1>0. since \in 0 .. Interval /\ Interval \in Nat
  BY MonitorAssumption DEF Inv, TradeInv, ClockType
<1>1. CASE UNCHANGED vars \/ (IntakeNext /\ UNCHANGED <<feed, trade>>) \/ Follow
  BY <1>0, <1>1 DEF vars, trade, Follow, CoverInv, Covered
<1>2. CASE Cycle
  <2>1. result'.active => result'.entry # NoPrice
    BY <1>2, CycleType DEF Inv, TradeInv, Open
  <2> QED
    BY <1>2, <2>1, CoverCycle DEF CoverInv, Covered
<1>3. CASE Others
  <2>1. /\ result'.active = result.active /\ since' \in {since, since + 1, Interval}
        /\ result'.low = result.low /\ result'.high = result.high /\ seen' = seen
    BY <1>3, OthersKeep DEF Inv
  <2>2. CoverInv'
    BY <2>1 DEF CoverInv, Covered
  <2> QED
    BY <1>0, <2>1, <2>2
<1> QED
  BY <1>1, <1>2, <1>3, Steps

\* The extremes of a result row cover every price that was in the window of a cycle since
\* the entry, for any windows, any time between two cycles and any order of the writes.
THEOREM ExtremesAreKept == Spec => ExtremesCoverThePrices
<1>1. Init => CoverInv
  BY DEF Init, TradeInit, CoverInv, NewResult
<1> QED
  BY <1>1, Invariance, CoverNext, PTL DEF Spec, ExtremesCoverThePrices

-----------------------------------------------------------------------------
(* The row that is traded *)

\* It is one of the stored rows, and before there is one nothing is traded.
RowInv ==
    /\ row = NoRow => keys = NoKeys /\ result = NewResult
    /\ row # NoRow => /\ stage = "stored"
                      /\ \E symbol \in DOMAIN rows : \E k \in 1 .. Len(rows[symbol]) :
                            row = rows[symbol][k]

LEMMA RowNext ==
    ASSUME RowInv, [Next]_vars
    PROVE  RowInv'
<1>1. CASE UNCHANGED vars
  BY <1>1 DEF vars, intake, trade, RowInv
<1>2. CASE IntakeNext /\ UNCHANGED <<feed, trade>>
  <2>1. stage # "stored"
    BY <1>2 DEF IntakeNext, ParseFails, ParseNothing, ParseItems, Filter, Insert
  <2> QED
    BY <1>2, <2>1 DEF RowInv, trade
<1>3. CASE Follow
  BY <1>3 DEF Follow, RowInv, intake
<1>4. CASE (Cycle \/ Others) /\ UNCHANGED intake
  <2>1. row' = row /\ row # NoRow
    BY <1>4 DEF Others, Cycle, Tick, Quote, Expires, Restart, KeyLost, PricesLost,
                  Watching
  <2> QED
    BY <1>4, <2>1 DEF RowInv, intake
<1> QED
  BY <1>1, <1>2, <1>3, <1>4, Steps

LEMMA RowInvariance == Spec => []RowInv
<1>1. Init => RowInv
  BY DEF Init, TradeInit, RowInv
<1> QED
  BY <1>1, RowNext, PTL DEF Spec

LEMMA RowIsTradable ==
    ASSUME RowInv, TradableRows, row # NoRow
    PROVE  /\ row.entry \in Nat /\ (HasStop => row.sl \in Nat)
           /\ row.tps \in Seq(Nat \ {0}) /\ Len(row.tps) \in Nat
           /\ \A i \in 1 .. Len(row.tps) :
                /\ row.tps[i] \in Nat
                /\ row.entry # NoPrice => IF Long THEN row.tps[i] > row.entry
                                                  ELSE row.tps[i] < row.entry
<1>1. Tradable(row)
  BY DEF RowInv, TradableRows
<1>2. /\ row.entry \in Nat /\ row.sl \in Nat \cup {NaNPrice} /\ row.tps \in Seq(Nat \ {0})
      /\ HasStop => row.sl \in Nat
  BY <1>1 DEF Tradable, HasStop, NaNPrice, NaNStop
<1>3. row.entry # NoPrice => \A i \in 1 .. Len(row.tps) :
         IF Long THEN row.tps[i] > row.entry ELSE row.tps[i] < row.entry
  BY <1>1 DEF Tradable, Long, NoPrice, NullPrice
<1> QED
  BY <1>2, <1>3

-----------------------------------------------------------------------------
(* The prices of a position *)

\* A price at which a position stays open.
Harmless(p) ==
    /\ \A i \in 1 .. Len(row.tps) : ~Beyond(p, row.tps[i])
    /\ HasStop => p # row.sl /\ Beyond(p, row.sl)

\* The tolerance only widens, and it widens with the price it is taken of.
LEMMA Tolerance ==
    ASSUME NEW price \in Nat, NEW level \in Nat, NEW ref \in Nat, NEW top \in Nat, ref <= top
    PROVE  /\ ~AtLeast(price, level, ref) => price < level
           /\ ~AtMost(price, level, ref) => price > level
           /\ AtLeast(price, level, ref) => AtLeast(price, level, top)
           /\ AtMost(price, level, ref) => AtMost(price, level, top)
<1>1. CASE row.kind = "range"
  <2>1. /\ AtLeast(price, level, ref) <=> 100 * price >= 100 * level - 2 * ref
        /\ AtLeast(price, level, top) <=> 100 * price >= 100 * level - 2 * top
        /\ AtMost(price, level, ref) <=> 100 * price <= 100 * level + 2 * ref
        /\ AtMost(price, level, top) <=> 100 * price <= 100 * level + 2 * top
    BY <1>1 DEF AtLeast, AtMost
  <2> QED
    BY <2>1
<1>2. CASE row.kind # "range"
  <2>1. /\ AtLeast(price, level, ref) <=> 100 * price >= 100 * level
        /\ AtLeast(price, level, top) <=> 100 * price >= 100 * level
        /\ AtMost(price, level, ref) <=> 100 * price <= 100 * level
        /\ AtMost(price, level, top) <=> 100 * price <= 100 * level
    BY <1>2 DEF AtLeast, AtMost
  <2> QED
    BY <2>1
<1> QED
  BY <1>1, <1>2

LEMMA NoExitIsHarmless ==
    ASSUME RowInv, TradableRows, row # NoRow,
           NEW c, c.low \in Nat, c.high \in Nat, c.close \in Nat,
           Hits(c) = {}, ~StopHit(c),
           NEW p \in Nat, c.low <= p, p <= c.high
    PROVE  Harmless(p)
<1>1. ASSUME NEW i \in 1 .. Len(row.tps) PROVE ~Beyond(p, row.tps[i])
  <2>1. row.tps[i] \in Nat
    BY RowIsTradable
  <2>2. i \notin Hits(c)
    OBVIOUS
  <2>3. CASE Long
    <3>1. ~AtLeast(c.high, row.tps[i], c.close)
      BY <1>1, <2>2, <2>3 DEF Hits
    <3>2. c.high < row.tps[i]
      BY <2>1, <3>1, Tolerance
    <3> QED
      BY <2>1, <2>3, <3>2 DEF Beyond
  <2>4. CASE ~Long
    <3>1. ~AtMost(c.low, row.tps[i], c.close)
      BY <1>1, <2>2, <2>4 DEF Hits
    <3>2. c.low > row.tps[i]
      BY <2>1, <3>1, Tolerance
    <3> QED
      BY <2>1, <2>4, <3>2 DEF Beyond
  <2> QED
    BY <2>3, <2>4
<1>2. HasStop => p # row.sl /\ Beyond(p, row.sl)
  <2>1. HasStop => row.sl \in Nat
    BY RowIsTradable
  <2> QED
    BY <2>1 DEF StopHit, Beyond
<1> QED
  BY <1>1, <1>2 DEF Harmless

\* What ends a position is a price of the candle.
LEMMA ExitIsAtPrice ==
    ASSUME Inv, RowInv, TradableRows, row # NoRow, HasCandle, NEW c \in Candles
    PROVE  /\ Verdict(c, TRUE) = "success" =>
                /\ Max(Hits(c)) \in Hits(c)
                /\ \E p \in CandlePrices : Near(p, row.tps[Max(Hits(c))])
           /\ Verdict(c, TRUE) = "failed" =>
                \E p \in CandlePrices : p = row.sl \/ ~Beyond(p, row.sl)
<1>0. /\ c.low \in CandlePrices /\ c.high \in CandlePrices /\ c.close \in Price
      /\ c.low \in Nat /\ c.high \in Nat /\ c.close \in Nat
  BY CandleIsPrices, CandleTypes, CandleNaturals DEF Inv
<1>1. ASSUME Verdict(c, TRUE) = "success"
      PROVE  /\ Max(Hits(c)) \in Hits(c)
             /\ \E p \in CandlePrices : Near(p, row.tps[Max(Hits(c))])
  <2>1. Hits(c) # {}
    BY <1>1, VerdictType
  <2>2. Hits(c) \in SUBSET Nat /\ Len(row.tps) \in Nat /\ \A i \in Hits(c) : i <= Len(row.tps)
    BY RowIsTradable DEF Hits
  <2>3. Max(Hits(c)) \in Hits(c)
    BY <2>1, <2>2, MaxOf
  <2> DEFINE i == Max(Hits(c))  top == Max(Price)
  <2>4. top \in Nat /\ c.close <= top
    <3>1. Price \in SUBSET Price /\ Price # {} /\ Price \subseteq Nat
      BY <1>0, FeedAssumption
    <3> QED
      BY <1>0, <3>1, PriceExtremes
  <2>5. i \in 1 .. Len(row.tps) /\ row.tps[i] \in Nat
    BY <2>3, RowIsTradable DEF Hits
  <2>6. IF Long THEN AtLeast(c.high, row.tps[i], c.close) ELSE AtMost(c.low, row.tps[i], c.close)
    BY <2>3 DEF Hits
  <2> HIDE DEF i, top
  <2>7. IF Long THEN AtLeast(c.high, row.tps[i], top) ELSE AtMost(c.low, row.tps[i], top)
    BY <1>0, <2>4, <2>5, <2>6, Tolerance
  <2>8. \E p \in CandlePrices : Near(p, row.tps[i])
    BY <1>0, <2>7 DEF Near, top
  <2> QED
    BY <2>3, <2>8 DEF i
<1>2. ASSUME Verdict(c, TRUE) = "failed"
      PROVE  \E p \in CandlePrices : p = row.sl \/ ~Beyond(p, row.sl)
  <2>1. StopHit(c) /\ HasStop
    BY <1>2, VerdictType DEF StopHit
  <2>2. row.sl \in Nat
    BY <2>1, RowIsTradable
  <2> QED
    BY <1>0, <2>1, <2>2 DEF StopHit, Beyond
<1> QED
  BY <1>1, <1>2

-----------------------------------------------------------------------------
(* The end of a position *)

SafeInv == result.active => \A p \in seen : Harmless(p)

\* What a cycle leaves behind, in the words of ExitsFollowThePrices.
Settled ==
    /\ result'.active => \A p \in seen' : Harmless(p)
    /\ result'.status = "success" => \E p \in seen' : Near(p, result'.exit)
    /\ result'.status = "failed" => \E p \in seen' : p = row.sl \/ ~Beyond(p, row.sl)

LEMMA SettledEvaluated ==
    ASSUME Inv, RowInv, SafeInv, TradableRows, Cycle, HasCandle, NEW c \in Candles,
           EvalEnters(c) \/ EvalStays(c)
    PROVE  Settled
<1>0. /\ row # NoRow /\ FeedInv /\ TradeInv
      /\ c.low \in Nat /\ c.high \in Nat /\ c.close \in Nat
      /\ CandlePrices \subseteq Nat
      /\ \A p \in CandlePrices : c.low <= p /\ p <= c.high
  BY CandleNaturals, CandleIsPrices DEF Inv, Cycle, Watching
<1>1. /\ result'.status = Verdict(c, TRUE)
      /\ result'.active = (Verdict(c, TRUE) = "running")
      /\ result'.exit = ExitPrice(c, Verdict(c, TRUE))
  BY DEF EvalEnters, EvalStays, EvalFollows
<1>2. seen' = seen \cup CandlePrices
  <2>1. result'.entry # NoPrice
    <3>1. CASE EvalEnters(c)
      <4>1. c.close \in Price
        BY <1>0, CandleTypes
      <4> QED
        BY <3>1, <4>1, FeedAssumption DEF EvalEnters, ConfirmedPrice, IsMarket, NoPrice
    <3>2. CASE EvalStays(c)
      BY <1>0, <3>2 DEF EvalStays, TradeInv, Open
    <3> QED
      BY <3>1, <3>2
  <2> QED
    BY <2>1, SeenAfter
<1>3. ASSUME Verdict(c, TRUE) = "running", NEW p \in seen'
      PROVE  Harmless(p)
  <2>1. Hits(c) = {} /\ ~StopHit(c)
    BY <1>3, VerdictType
  <2>2. CASE p \in CandlePrices
    BY <1>0, <2>1, <2>2, NoExitIsHarmless
  <2>3. CASE p \notin CandlePrices
    BY <1>2, <2>3, SeenAfter DEF SafeInv
  <2> QED
    BY <2>2, <2>3
<1>4. ASSUME Verdict(c, TRUE) = "success"
      PROVE  \E p \in seen' : Near(p, result'.exit)
  <2>1. result'.exit = row.tps[Max(Hits(c))]
    BY <1>1, <1>4 DEF ExitPrice
  <2>2. \E p \in CandlePrices : Near(p, row.tps[Max(Hits(c))])
    BY <1>0, <1>4, ExitIsAtPrice
  <2> QED
    BY <1>2, <2>1, <2>2
<1>5. ASSUME Verdict(c, TRUE) = "failed"
      PROVE  \E p \in seen' : p = row.sl \/ ~Beyond(p, row.sl)
  <2>1. \E p \in CandlePrices : p = row.sl \/ ~Beyond(p, row.sl)
    BY <1>0, <1>5, ExitIsAtPrice
  <2> QED
    BY <1>2, <2>1
<1> QED
  BY <1>1, <1>3, <1>4, <1>5 DEF Settled

LEMMA SettledCycle ==
    ASSUME Inv, RowInv, SafeInv, TradableRows, Cycle
    PROVE  Settled
<1>0. FeedInv /\ TradeInv /\ result.status = "running"
  BY CycleCases DEF Inv, Watching
<1>1. CASE UNCHANGED <<keys, result, zone>> /\ ~(IsRead /\ HasCandle)
  <2>1. result' = result
    BY <1>1
  <2>2. result.active => seen' \subseteq seen
    BY <1>1, SeenAfter
  <2> QED
    BY <1>0, <2>1, <2>2 DEF Settled, SafeInv
<1>2. ASSUME NEW c \in Candles, EvalWaits(c)
      PROVE  Settled
  <2>1. ~result'.active /\ result'.status = Verdict(c, FALSE)
    BY <1>0, <1>2 DEF EvalWaits, TradeInv, Shapes
  <2>2. Verdict(c, FALSE) \notin {"success", "failed"}
    BY VerdictType
  <2> QED
    BY <2>1, <2>2 DEF Settled
<1>3. ASSUME HasCandle, NEW c \in Candles, EvalEnters(c) \/ EvalStays(c)
      PROVE  Settled
  BY <1>3, SettledEvaluated
<1> QED
  BY <1>0, <1>1, <1>2, <1>3, CycleCases

LEMMA SafeNext ==
    ASSUME Inv, RowInv, SafeInv, TradableRows, [Next]_vars
    PROVE  SafeInv' /\ [since' < since => Settled]_vars
<1>0. since \in 0 .. Interval /\ Interval \in Nat
  BY MonitorAssumption DEF Inv, TradeInv, ClockType
<1>1. CASE UNCHANGED vars \/ (IntakeNext /\ UNCHANGED <<feed, trade>>)
  BY <1>0, <1>1 DEF vars, trade, SafeInv, Harmless, HasStop, Beyond, Long
<1>2. CASE Follow
  <2>1. ~result.active /\ result' = result /\ since' = since
    BY <1>2 DEF Follow, RowInv, NewResult
  <2> QED
    BY <1>0, <2>1 DEF SafeInv
<1>3. CASE Cycle
  <2>1. Settled /\ row' = row
    BY <1>3, SettledCycle DEF Cycle
  <2>2. SafeInv'
    BY <2>1 DEF Settled, SafeInv, Harmless, HasStop, Beyond, Long
  <2> QED
    BY <2>1, <2>2
<1>4. CASE Others
  <2>1. /\ result'.active = result.active /\ since' \in {since, since + 1, Interval}
        /\ row' = row /\ seen' = seen
    BY <1>4, OthersKeep DEF Inv
  <2>2. SafeInv'
    BY <2>1 DEF SafeInv, Harmless, HasStop, Beyond, Long
  <2> QED
    BY <1>0, <2>1, <2>2
<1> QED
  BY <1>1, <1>2, <1>3, <1>4, Steps

\* A position is open after a cycle only if no price that was in the window of a cycle
\* since its entry has reached the stop or a target, and won or lost only if such a price
\* has: for any windows, any time between two cycles and any order of the writes.
THEOREM ExitsAreRight == Spec => ExitsFollowThePrices
<1>1. Init => SafeInv
  BY DEF Init, TradeInit, SafeInv, NewResult
<1>2. [since' < since => Settled]_vars <=>
        [since' < since =>
          /\ result'.active => \A p \in seen' :
              /\ \A i \in 1 .. Len(row.tps) : ~Beyond(p, row.tps[i])
              /\ HasStop => p # row.sl /\ Beyond(p, row.sl)
          /\ result'.status = "success" => \E p \in seen' : Near(p, result'.exit)
          /\ result'.status = "failed" =>
              \E p \in seen' : p = row.sl \/ ~Beyond(p, row.sl)]_vars
  BY DEF Settled, Harmless
<1> QED
  BY <1>1, <1>2, Invariance, RowInvariance, RowsAreTradable, SafeNext, PTL
     DEF Spec, ExitsFollowThePrices

-----------------------------------------------------------------------------
(* The profit *)

\* An order that is not a market or consolidation order is entered at its entry price.
EntryInv ==
    result.active /\ row.entry # NoPrice /\ ~Consolidates => result.entry = row.entry

LEMMA ProfitEvaluated ==
    ASSUME Inv, RowInv, EntryInv, TradableRows, Watching, HasCandle, row' = row,
           NEW c \in Candles, EvalEnters(c) \/ EvalStays(c)
    PROVE  EntryInv' /\ SuccessIsProfit'
<1>1. /\ result'.status = Verdict(c, TRUE)
      /\ result'.exit = ExitPrice(c, Verdict(c, TRUE))
  BY DEF EvalEnters, EvalStays, EvalFollows
<1>2. row.entry # NoPrice /\ ~Consolidates => result'.entry = row.entry
  BY DEF EvalEnters, EvalStays, EntryInv, ConfirmedPrice, IsMarket
<1>3. ASSUME result'.status = "success", row.entry # NoPrice, ~Consolidates
      PROVE  IF Long THEN result'.exit > result'.entry ELSE result'.exit < result'.entry
  <2>1. row # NoRow
    BY DEF Watching
  <2>2. result'.exit = row.tps[Max(Hits(c))]
    BY <1>1, <1>3 DEF ExitPrice
  <2>3. Max(Hits(c)) \in 1 .. Len(row.tps)
    BY <1>1, <1>3, <2>1, ExitIsAtPrice DEF Hits
  <2> QED
    BY <1>2, <1>3, <2>1, <2>2, <2>3, RowIsTradable
<1> QED
  BY <1>2, <1>3 DEF EntryInv, SuccessIsProfit, Consolidates, Long, NoPrice, NullPrice

LEMMA ProfitNext ==
    ASSUME Inv, RowInv, EntryInv, SuccessIsProfit, TradableRows, [Next]_vars
    PROVE  EntryInv' /\ SuccessIsProfit'
<1>1. CASE UNCHANGED vars \/ (IntakeNext /\ UNCHANGED <<feed, trade>>)
  BY <1>1 DEF vars, trade, EntryInv, SuccessIsProfit, Consolidates, Long
<1>2. CASE Follow
  <2>1. ~result.active /\ result' = result /\ result.status = "running"
    BY <1>2 DEF Follow, RowInv, NewResult
  <2> QED
    BY <2>1 DEF EntryInv, SuccessIsProfit
<1>3. CASE Cycle
  <2>0. /\ FeedInv /\ TradeInv /\ Watching /\ row' = row /\ result.status = "running"
    BY <1>3, CycleCases DEF Inv, Watching
  <2>1. CASE UNCHANGED <<keys, result, zone>>
    BY <2>0, <2>1 DEF EntryInv, SuccessIsProfit, Consolidates, Long
  <2>2. ASSUME NEW c \in Candles, EvalWaits(c)
        PROVE  EntryInv' /\ SuccessIsProfit'
    <3>1. ~result'.active /\ result'.status = Verdict(c, FALSE)
      BY <2>0, <2>2 DEF EvalWaits, TradeInv, Shapes
    <3>2. Verdict(c, FALSE) # "success"
      BY VerdictType
    <3> QED
      BY <3>1, <3>2 DEF EntryInv, SuccessIsProfit
  <2>3. ASSUME HasCandle, NEW c \in Candles, EvalEnters(c) \/ EvalStays(c)
        PROVE  EntryInv' /\ SuccessIsProfit'
    BY <2>0, <2>3, ProfitEvaluated
  <2> QED
    BY <1>3, <2>0, <2>1, <2>2, <2>3, CycleCases
<1>4. CASE Others
  <2>1. /\ result'.active = result.active /\ result'.status = result.status
        /\ result'.entry = result.entry /\ result'.exit = result.exit /\ row' = row
    BY <1>4, OthersKeep DEF Inv
  <2> QED
    BY <2>1 DEF EntryInv, SuccessIsProfit, Consolidates, Long
<1> QED
  BY <1>1, <1>2, <1>3, <1>4, Steps

\* A limit or break-out order that is closed as a success has made a profit.
THEOREM SuccessPays == Spec => []SuccessIsProfit
<1>1. Init => EntryInv /\ SuccessIsProfit
  BY DEF Init, TradeInit, EntryInv, SuccessIsProfit, NewResult
<1> QED
  BY <1>1, Invariance, RowInvariance, RowsAreTradable, ProfitNext, PTL DEF Spec
=============================================================================
