------------------------ MODULE SignalEvaluatorProofs ------------------------
(***************************************************************************)
(* Theorems about SignalEvaluator, for every set of scenarios and signals  *)
(* and every bound on faults and outages: type correctness and the         *)
(* multi-scenario rule.                                                    *)
(***************************************************************************)
EXTENDS SignalEvaluator, TLAPS

-----------------------------------------------------------------------------
(* The operators of an evaluation return values of the right type. *)

LEMMA LargerType ==
    ASSUME NEW a \in 0 .. MaxTP, NEW b \in 0 .. MaxTP
    PROVE  Larger(a, b) \in 0 .. MaxTP /\ Larger(a, b) >= a
  BY BoundAssumption DEF Larger

LEMMA BestTpType ==
    ASSUME TypeOK, NEW s \in Scenario, NEW obs \in Observation
    PROVE  /\ BestTp(s, obs) \in 0 .. MaxTP
           /\ IsEntered(s, obs) => BestTp(s, obs) >= rTp[s]
<1>1. rTp[s] \in 0 .. MaxTP /\ obs.tp \in 0 .. MaxTP
  BY DEF TypeOK, Observation
<1>2. 0 \in 0 .. MaxTP
  BY BoundAssumption
<1> QED
  BY <1>1, <1>2, LargerType DEF BestTp

LEMMA VerdictType ==
    ASSUME NEW s \in Scenario, NEW obs \in Observation
    PROVE  Verdict(s, obs) \in Outcome \cup {"running"}
  BY DEF Verdict, Outcome

LEMMA IfType ==
    ASSUME NEW condition, NEW q \in Seq(EventType)
    PROVE  If(condition, q) \in Seq(EventType)
<1>1. <<>> \in Seq(EventType)
  OBVIOUS
<1> QED
  BY <1>1 DEF If

\* The events of one evaluation, in the order _eval appends them.
LEMMA EvalEventsType ==
    ASSUME TypeOK, NEW s \in Scenario, NEW obs \in Observation
    PROVE  EvalEvents(s, obs) \in Seq(EventType)
<1> DEFINE in   == IsEntered(s, obs)
           hits == IF in THEN BestTp(s, obs) - rTp[s] ELSE 0
           out  == Verdict(s, obs)
           e1 == If(s \in rGap /\ in, <<"data_gap_end">>)
           e2 == If(NewlyEntered(s, obs), <<"entered">>)
           e3 == [i \in 1 .. hits |-> "tp_hit"]
           e4 == If(out = "failed", <<"sl_hit">>)
           e5 == If(out # "running", <<"completed">>)
<1>1. hits \in Nat
  BY BestTpType DEF TypeOK
<1>2. e1 \in Seq(EventType) /\ e2 \in Seq(EventType) /\ e4 \in Seq(EventType)
         /\ e5 \in Seq(EventType)
  <2>1. \A x \in EventType : <<x>> \in Seq(EventType)
    OBVIOUS
  <2>2. {"data_gap_end", "entered", "sl_hit", "completed"} \subseteq EventType
    BY DEF EventType
  <2> QED
    BY <2>1, <2>2, IfType
<1>3. e3 \in Seq(EventType)
  <2> HIDE DEF hits
  <2> QED  BY <1>1 DEF EventType
<1>4. EvalEvents(s, obs) = e1 \o e2 \o e3 \o e4 \o e5
  BY DEF EvalEvents
<1> HIDE DEF e1, e2, e3, e4, e5
<1>5. e1 \o e2 \in Seq(EventType)
  BY <1>2
<1>6. e1 \o e2 \o e3 \in Seq(EventType)
  BY <1>3, <1>5
<1>7. e1 \o e2 \o e3 \o e4 \in Seq(EventType)
  BY <1>2, <1>6
<1>8. e1 \o e2 \o e3 \o e4 \o e5 \in Seq(EventType)
  BY <1>2, <1>7
<1> QED
  BY <1>4, <1>8

-----------------------------------------------------------------------------
(* Type correctness *)

LEMMA InitType == Init => TypeOK
<1> SUFFICES ASSUME Init PROVE TypeOK
  OBVIOUS
<1>1. 0 \in 0 .. MaxTP /\ 0 \in 0 .. SlowCycles - 1 /\ 0 \in 0 .. MaxFaults
         /\ 0 \in 0 .. MaxOutages /\ 0 \in 0 .. MaxLapses
  BY BoundAssumption
<1>2. NoRow \in ResultRow
  BY <1>1 DEF NoRow, ResultRow
<1>3. NoEvents \in [Scenario -> Seq(EventType)]
  BY DEF NoEvents
<1> QED
  BY <1>1, <1>2, <1>3 DEF Init, TypeOK, Status, Outcome

LEMMA EmptyBatchType ==
    ASSUME EmptyBatch
    PROVE  /\ bDirty' = {} /\ bActivated' = {} /\ bSiblings' = {}
           /\ bTp' \in [Scenario -> 0 .. MaxTP]
           /\ bOutcome' \in [Scenario -> Outcome \cup {"running"}]
           /\ bEvents' \in [Scenario -> Seq(EventType)]
  BY BoundAssumption DEF EmptyBatch, NoEvents

LEMMA NextCycleType ==
    ASSUME TypeOK PROVE NextCycle \in 0 .. SlowCycles - 1
  BY BoundAssumption DEF TypeOK, NextCycle

\* One step of the upsert keeps a row a row.
LEMMA UpsertType ==
    ASSUME NEW row \in ResultRow, NEW res \in {"running", "cancelled"} \cup Outcome,
           NEW tp \in 0 .. MaxTP, NEW entered \in BOOLEAN, NEW completed \in BOOLEAN
    PROVE  Upsert(row, res, tp, entered, completed) \in ResultRow
  BY DEF Upsert, ResultRow

LEMMA WrittenResultType ==
    ASSUME TypeOK, NEW s \in Scenario
    PROVE  WrittenResult(s) \in ResultRow
<1>1. result[s] \in ResultRow /\ bOutcome[s] \in Outcome \cup {"running"}
         /\ bTp[s] \in 0 .. MaxTP /\ 0 \in 0 .. MaxTP
  BY BoundAssumption DEF TypeOK
<1> DEFINE row == IF s \in bDirty
                  THEN Upsert(result[s], bOutcome[s], bTp[s],
                              s \in bActivated, bOutcome[s] # "running")
                  ELSE result[s]
<1>2. row \in ResultRow
  <2>1. (s \in bActivated) \in BOOLEAN /\ (bOutcome[s] # "running") \in BOOLEAN
    OBVIOUS
  <2>2. bOutcome[s] \in {"running", "cancelled"} \cup Outcome
    BY <1>1
  <2>3. Upsert(result[s], bOutcome[s], bTp[s], s \in bActivated, bOutcome[s] # "running")
           \in ResultRow
    BY <1>1, <2>1, <2>2, UpsertType, Zenon
  <2> QED
    BY <1>1, <2>3
<1> HIDE DEF row
<1>3. Upsert(row, "cancelled", 0, FALSE, TRUE) \in ResultRow
  BY <1>1, <1>2, UpsertType
<1> QED
  BY <1>2, <1>3 DEF WrittenResult, row

LEMMA WrittenEventsType ==
    ASSUME TypeOK, NEW s \in Scenario
    PROVE  WrittenEvents(s) \in Seq(EventType)
<1>1. events[s] \in Seq(EventType) /\ bEvents[s] \in Seq(EventType)
  BY DEF TypeOK
<1>2. <<"cancelled">> \in Seq(EventType)
  BY DEF EventType
<1>3. If(s \in bSiblings, <<"cancelled">>) \in Seq(EventType)
  BY <1>2, IfType
<1>4. events[s] \o bEvents[s] \in Seq(EventType)
  BY <1>1
<1> QED
  BY <1>3, <1>4 DEF WrittenEvents

LEMMA CommitType ==
    ASSUME TypeOK, CommitBatch PROVE TypeOK'
<1>1. status' \in [Scenario -> Status]
  BY DEF CommitBatch, TypeOK, WrittenStatus, AfterSettle, Settles, Status, TerminalStates,
         Outcome
<1>2. active' \in [Scenario -> BOOLEAN]
  <2>1. \A s \in Scenario : WrittenActive(s) \in BOOLEAN
    BY Zenon DEF WrittenActive
  <2> QED
    BY <2>1 DEF CommitBatch
<1>3. result' \in [Scenario -> ResultRow]
  BY WrittenResultType DEF CommitBatch
<1>4. events' \in [Scenario -> Seq(EventType)]
  BY WrittenEventsType DEF CommitBatch
<1>5. sigActive' \in [Signal -> BOOLEAN]
  <2>1. \A g \in Signal : WrittenSigActive(g) \in BOOLEAN
    BY Zenon DEF WrittenSigActive
  <2> QED
    BY <2>1 DEF CommitBatch
<1>6. sigRef' \in [Signal -> Scenario \cup {NoScenario}]
  <2>1. ASSUME NEW g \in Signal PROVE WrittenRef(g) \in Scenario \cup {NoScenario}
    BY DEF WrittenRef, TypeOK
  <2> QED
    BY <2>1 DEF CommitBatch
<1> QED
  BY <1>1, <1>2, <1>3, <1>4, <1>5, <1>6, EmptyBatchType
  DEF CommitBatch, EndCycle, TypeOK, redis, world

LEMMA EvalPricedType ==
    ASSUME TypeOK, NEW s \in Scenario, EvalPriced(s) PROVE TypeOK'
<1>1. PICK obs \in Observation : EvalWith(s, obs)
  BY DEF EvalPriced
<1>2. s \in snap
  BY DEF EvalPriced, TypeOK
<1>3. BestTp(s, obs) \in 0 .. MaxTP /\ 0 \in 0 .. MaxTP
  BY BestTpType, BoundAssumption
<1>4. rEntered' \subseteq Scenario /\ rFirst' \subseteq Scenario /\ rGap' \subseteq Scenario
  BY <1>1 DEF EvalWith, EvalRedis, TypeOK
<1>5. rTp' \in [Scenario -> 0 .. MaxTP]
  BY <1>1, <1>3 DEF EvalWith, EvalRedis, TypeOK
<1>6. bDirty' \subseteq snap /\ bActivated' \subseteq snap
  BY <1>1, <1>2 DEF EvalWith, TypeOK
<1>7. bTp' \in [Scenario -> 0 .. MaxTP]
  BY <1>1, <1>3 DEF EvalWith, TypeOK
<1>8. bOutcome' \in [Scenario -> Outcome \cup {"running"}]
  BY <1>1, VerdictType DEF EvalWith, TypeOK
<1>9. bEvents' \in [Scenario -> Seq(EventType)]
  <2>1. bEvents[s] \in Seq(EventType) /\ EvalEvents(s, obs) \in Seq(EventType)
    BY EvalEventsType DEF TypeOK
  <2>2. bEvents[s] \o EvalEvents(s, obs) \in Seq(EventType)
    BY <2>1
  <2> QED
    BY <1>1, <2>2 DEF EvalWith, TypeOK
<1> QED
  BY <1>4, <1>5, <1>6, <1>7, <1>8, <1>9
  DEF EvalPriced, TypeOK, db, loaded, world

\* Whatever part of the Redis writes of an evaluation is done.
LEMMA RaisesType ==
    ASSUME TypeOK, NEW s \in Scenario, EvalRaises(s)
    PROVE  /\ rTp' \in [Scenario -> 0 .. MaxTP] /\ rGap' \subseteq Scenario
           /\ rEntered' \subseteq Scenario /\ rFirst' \subseteq Scenario
<1>1. CASE SignalOf[s] \in feedDown
  <2>1. rGap' \subseteq rGap \cup {s} /\ UNCHANGED <<rEntered, rTp, rFirst>>
    BY <1>1 DEF EvalRaises
  <2> QED
    BY <2>1 DEF TypeOK
<1>2. CASE SignalOf[s] \notin feedDown
  <2>1. PICK obs \in Observation :
           EvalRedis(s, obs) \/ \E done \in 0 .. 4 : EvalRedisUpTo(s, obs, done)
    BY <1>2 DEF EvalRaises
  <2>2. BestTp(s, obs) \in 0 .. MaxTP /\ 0 \in 0 .. MaxTP
    BY BestTpType, BoundAssumption
  <2>3. CASE EvalRedis(s, obs)
    BY <2>2, <2>3 DEF EvalRedis, TypeOK
  <2>4. ASSUME NEW done \in 0 .. 4, EvalRedisUpTo(s, obs, done)
        PROVE  /\ rTp' \in [Scenario -> 0 .. MaxTP] /\ rGap' \subseteq Scenario
               /\ rEntered' \subseteq Scenario /\ rFirst' \subseteq Scenario
    BY <2>2, <2>4 DEF EvalRedisUpTo, TypeOK
  <2> QED
    BY <2>1, <2>3, <2>4
<1> QED
  BY <1>1, <1>2

\* Each of the other actions keeps the types as well.
LEMMA NextType ==
    ASSUME TypeOK, [Next]_vars PROVE TypeOK'
<1> USE DEF db, redis, loaded, batch, process, world, vars
<1>1. CASE Recover
  <2>1. rTp' \in [Scenario -> 0 .. MaxTP]
    BY <1>1 DEF Recover, TypeOK, ResultRow
  <2> QED
    BY <1>1, <2>1, BoundAssumption DEF Recover, Entered, Running, TypeOK
<1>2. CASE LoadCycle
  <2>1. Readable \subseteq Scenario
    BY DEF Readable, Running, Entered
  <2> QED
    BY <1>2, <2>1, NextCycleType, EmptyBatchType DEF LoadCycle, TypeOK
<1>3. ASSUME NEW s \in Scenario, EvalNoPrice(s) PROVE TypeOK'
  <2>1. "data_gap_start" \in EventType
    BY DEF EventType
  <2>2. bEvents[s] \in Seq(EventType)
    BY DEF TypeOK
  <2>3. Append(bEvents[s], "data_gap_start") \in Seq(EventType)
    BY <2>1, <2>2
  <2>4. bEvents' \in [Scenario -> Seq(EventType)]
    BY <1>3, <2>3 DEF EvalNoPrice, TypeOK
  <2> QED
    BY <1>3, <2>4 DEF EvalNoPrice, TypeOK
<1>4. ASSUME NEW s \in Scenario, EvalPriced(s) PROVE TypeOK'
  BY <1>4, EvalPricedType
<1>5. CASE CancelSiblings
  <2>1. SiblingCancel \subseteq snap
    BY DEF SiblingCancel
  <2> QED
    BY <1>5, <2>1, BoundAssumption DEF CancelSiblings, TypeOK
<1>6. CASE CommitBatch
  BY <1>6, CommitType
<1>7. ASSUME NEW s \in Scenario, EvalRaises(s) PROVE TypeOK'
  <2>1. /\ rTp' \in [Scenario -> 0 .. MaxTP] /\ rGap' \subseteq Scenario
        /\ rEntered' \subseteq Scenario /\ rFirst' \subseteq Scenario
    BY <1>7, RaisesType
  <2>2. faults' \in 0 .. MaxFaults
    BY <1>7, BoundAssumption DEF EvalRaises, Fault, TypeOK
  <2> QED
    BY <1>7, <2>1, <2>2 DEF EvalRaises, TypeOK
<1>8. CASE RecoverFails
  BY <1>8, BoundAssumption DEF RecoverFails, Fault, TypeOK
<1>9. CASE LoadFails
  BY <1>9, NextCycleType, BoundAssumption DEF LoadFails, Fault, TypeOK
<1>10. CASE CommitFails
  BY <1>10, EmptyBatchType, BoundAssumption DEF CommitFails, Fault, EndCycle, TypeOK
<1>11. CASE Crash
  BY <1>11, EmptyBatchType, BoundAssumption DEF Crash, Fault, EndCycle, TypeOK
<1>12. CASE RedisRestart
  BY <1>12, BoundAssumption DEF RedisRestart, Fault, TypeOK
<1>13. ASSUME NEW s \in Scenario, RedisEvicts(s) PROVE TypeOK'
  <2>1. /\ rEntered' \subseteq Scenario /\ rFirst' \subseteq Scenario
        /\ rGap' \subseteq Scenario /\ rTp' \in [Scenario -> 0 .. MaxTP]
    <3>1. [rTp EXCEPT ![s] = 0] \in [Scenario -> 0 .. MaxTP]
      BY BoundAssumption DEF TypeOK
    <3>2. rTp' = rTp \/ rTp' = [rTp EXCEPT ![s] = 0]
      BY <1>13 DEF RedisEvicts
    <3>3. rEntered' \subseteq rEntered /\ rFirst' \subseteq rFirst /\ rGap' \subseteq rGap
      BY <1>13, Zenon DEF RedisEvicts
    <3> QED
      BY <3>1, <3>2, <3>3, Zenon DEF TypeOK
  <2>2. faults' \in 0 .. MaxFaults
    BY <1>13, BoundAssumption DEF RedisEvicts, Fault, TypeOK
  <2> QED
    BY <1>13, <2>1, <2>2 DEF RedisEvicts, TypeOK
<1>14. ASSUME NEW g \in Signal, StoreSignal(g) PROVE TypeOK'
  BY <1>14 DEF StoreSignal, TypeOK, Status
<1>15. ASSUME NEW g \in Signal, FeedStops(g) PROVE TypeOK'
  BY <1>15, BoundAssumption DEF FeedStops, TypeOK
<1>16. ASSUME NEW g \in Signal, FeedReturns(g) PROVE TypeOK'
  BY <1>16 DEF FeedReturns, TypeOK
<1>17. ASSUME NEW s \in Scenario, Expire(s) PROVE TypeOK'
  BY <1>17 DEF Expire, TypeOK
<1>18. CASE CancelRaises
  <2>1. PICK S \in SUBSET SiblingCancel :
           /\ rEntered' = rEntered \ S
           /\ rTp' = [s \in Scenario |-> IF s \in S THEN 0 ELSE rTp[s]]
           /\ rFirst' = rFirst \ S
           /\ rGap' = rGap \ S
    BY <1>18 DEF CancelRaises
  <2>2. /\ rEntered' \subseteq Scenario /\ rFirst' \subseteq Scenario
        /\ rGap' \subseteq Scenario /\ rTp' \in [Scenario -> 0 .. MaxTP]
    BY <2>1, BoundAssumption DEF TypeOK
  <2>3. faults' \in 0 .. MaxFaults
    BY <1>18, BoundAssumption DEF CancelRaises, Fault, TypeOK
  <2> QED
    BY <1>18, <2>2, <2>3, EmptyBatchType DEF CancelRaises, EndCycle, TypeOK
<1>19. CASE UNCHANGED vars
  BY <1>19 DEF TypeOK
<1>20. ASSUME NEW s \in Scenario, KeyRunsOut(s) PROVE TypeOK'
  <2>1. rEntered' \subseteq rEntered /\ rFirst' \subseteq rFirst /\ rGap' \subseteq rGap
    BY <1>20, Zenon DEF KeyRunsOut
  <2>2. rEntered' \subseteq Scenario /\ rFirst' \subseteq Scenario /\ rGap' \subseteq Scenario
    BY <2>1, Zenon DEF TypeOK
  <2>3. lapses' \in [Scenario -> 0 .. MaxLapses]
    BY <1>20, BoundAssumption DEF KeyRunsOut, TypeOK
  <2>4. UNCHANGED <<db, rTp, process, expired, feedDown, faults, outages>>
    BY <1>20 DEF KeyRunsOut
  <2> QED
    BY <2>2, <2>3, <2>4 DEF TypeOK
<1> QED
  BY <1>1, <1>2, <1>3, <1>4, <1>5, <1>6, <1>7, <1>8, <1>9, <1>10, <1>11, <1>12, <1>13,
     <1>14, <1>15, <1>16, <1>17, <1>18, <1>19, <1>20
  DEF Next, Evaluator, EvalOne, Faults, Environment

\* Every variable keeps its type in every behaviour of the evaluation loop, whatever
\* commits, reads and Redis keys are lost (main.py:100-1101).
THEOREM TypeCorrect == Spec => []TypeOK
<1>1. Init => TypeOK
  BY InitType
<1>2. TypeOK /\ [Next]_vars => TypeOK'
  BY NextType
<1> QED
  BY <1>1, <1>2, PTL DEF Spec

-----------------------------------------------------------------------------
(* The multi-scenario rule *)

\* Whatever commits, reads and Redis keys are lost, Postgres never shows two scenarios of
\* a signal in a position, none left waiting beside one that entered, and signals.active
\* always mirrors the scenarios table.  None of the three is inductive.  What makes them
\* hold is what a cycle remembers: the rows it read are still running and all siblings of
\* a waiting row were read with it (ReadTogether), and the entries of the batch are new,
\* one per signal (EntriesAreNew).

\* A position is a running scenario.
ActiveRuns == \A s \in Scenario : active[s] => status[s] = "running"

\* The rows of the cycle: running, with the active column they still have.  The
\* siblings of a waiting row were all read in the same, full, cycle.
ReadTogether ==
    /\ pc \in {"down", "idle"} => snap = {}
    /\ snap \subseteq Running
    /\ snapActive = {s \in snap : active[s]}
    /\ \A s \in snap \ snapActive, t \in Running :
        SignalOf[s] = SignalOf[t] => t \in snap

\* The entries of the batch are of rows read as waiting, and each is the only
\* entered scenario of its signal.
EntriesAreNew ==
    /\ bActivated \subseteq snap \ snapActive
    /\ \A a \in bActivated, t \in snapActive \cup bActivated :
        SignalOf[a] = SignalOf[t] => a = t

\* The rest of the batch: verdicts only on rows already evaluated, the siblings
\* of the entries once the evaluation is over.
BatchInv ==
    /\ \A s \in Scenario : bOutcome[s] # "running" => s \in snap \ todo
    /\ bActivated \cap todo = {}
    /\ pc = "write" => todo = {} /\ bSiblings = SiblingCancel
    /\ pc # "write" => bSiblings = {}

Safe == OneEnteredPerSignal /\ NoWaitingBesideEntered /\ SignalMirrorsScenario

IInv == TypeOK /\ ActiveRuns /\ ReadTogether /\ EntriesAreNew /\ BatchInv /\ Safe

-----------------------------------------------------------------------------

LEMMA InitInv == Init => IInv
  BY InitType
  DEF Init, IInv, ActiveRuns, ReadTogether, EntriesAreNew, BatchInv, Safe, Running, Entered,
      OneEnteredPerSignal, NoWaitingBesideEntered, SignalMirrorsScenario

\* Steps that leave Postgres and the batch alone: recovery, a skipped or failing
\* evaluation, a failed read, a lost Redis key, the clock and the price feed.
LEMMA QuietStep ==
    ASSUME IInv, TypeOK', UNCHANGED <<db, loaded, bOutcome, bActivated, bSiblings>>,
           todo' \subseteq todo, pc' = pc \/ (pc = "down" /\ pc' = "idle")
    PROVE  IInv'
<1> USE DEF db, loaded
<1>1. Running' = Running /\ Entered' = Entered /\ Waiting' = Waiting
  BY DEF Running, Entered, Waiting
<1>2. ActiveRuns'
  BY DEF IInv, ActiveRuns
<1>3. ReadTogether'
  BY <1>1 DEF IInv, ReadTogether
<1>4. EntriesAreNew'
  BY DEF IInv, EntriesAreNew
<1>5. BatchInv'
  <2>1. SiblingCancel' = SiblingCancel
    BY DEF SiblingCancel
  <2> QED
    BY <2>1 DEF IInv, BatchInv
<1>6. Safe'
  BY <1>1 DEF IInv, Safe, OneEnteredPerSignal, NoWaitingBesideEntered, SignalMirrorsScenario
<1> QED
  BY <1>2, <1>3, <1>4, <1>5, <1>6 DEF IInv

\* The end of a cycle that wrote nothing: a failed commit or a crash.
LEMMA EndOfCycle ==
    ASSUME IInv, TypeOK', UNCHANGED db, EndCycle, pc' \in {"idle", "down"}
    PROVE  IInv'
<1> USE DEF db
<1>1. Running' = Running /\ Entered' = Entered /\ Waiting' = Waiting
  BY DEF Running, Entered, Waiting
<1>2. ActiveRuns' /\ Safe'
  BY <1>1 DEF IInv, ActiveRuns, Safe, OneEnteredPerSignal, NoWaitingBesideEntered,
              SignalMirrorsScenario
<1>3. ReadTogether' /\ EntriesAreNew' /\ BatchInv'
  BY DEF EndCycle, EmptyBatch, ReadTogether, EntriesAreNew, BatchInv
<1> QED
  BY <1>2, <1>3 DEF IInv

LEMMA LoadInv ==
    ASSUME IInv, TypeOK', LoadCycle PROVE IInv'
<1> USE DEF db
<1>1. Running' = Running /\ Entered' = Entered /\ Waiting' = Waiting
  BY DEF LoadCycle, Running, Entered, Waiting
<1>2. ActiveRuns' /\ Safe'
  BY <1>1 DEF LoadCycle, IInv, ActiveRuns, Safe, OneEnteredPerSignal, NoWaitingBesideEntered,
              SignalMirrorsScenario
<1>3. ReadTogether'
  <2>1. snap' = Readable /\ snapActive' = {s \in Readable : active[s]} /\ active' = active
    BY DEF LoadCycle
  <2>2. Readable \subseteq Running
    BY DEF Readable, Entered
  <2>3. ASSUME NEW s \in snap' \ snapActive', NEW t \in Running' PROVE t \in snap'
    <3>1. Readable = Running
      BY <2>1, <2>3 DEF Readable, Entered
    <3> QED
      BY <1>1, <2>1, <3>1
  <2> QED
    BY <1>1, <2>1, <2>2, <2>3 DEF LoadCycle, ReadTogether
<1>4. EntriesAreNew' /\ BatchInv'
  BY DEF LoadCycle, EmptyBatch, EntriesAreNew, BatchInv
<1> QED
  BY <1>2, <1>3, <1>4 DEF IInv

\* An evaluation enters a scenario only when no other of its signal has entered.
LEMMA EvalEntries ==
    ASSUME TypeOK, EntriesAreNew, NEW s \in Scenario, EvalPriced(s) PROVE EntriesAreNew'
<1>1. PICK obs \in Observation : EvalWith(s, obs)
  BY DEF EvalPriced
<1>2. s \in snap /\ snap' = snap /\ snapActive' = snapActive
  BY DEF EvalPriced, TypeOK, loaded
<1>3. CASE NewlyEntered(s, obs)
  <2>1. bActivated' = bActivated \cup {s}
    BY <1>1, <1>3 DEF EvalWith
  <2>2. s \notin snapActive
    BY <1>3 DEF NewlyEntered, WasEntered
  <2>3. \A t \in snapActive \cup bActivated : SignalOf[t] # SignalOf[s]
    BY <1>3 DEF NewlyEntered, IsEntered, SkipEntry
  <2> QED
    BY <1>2, <2>1, <2>2, <2>3 DEF EntriesAreNew
<1>4. CASE ~NewlyEntered(s, obs)
  <2>1. bActivated' = bActivated
    BY <1>1, <1>4 DEF EvalWith
  <2> QED
    BY <1>2, <2>1 DEF EntriesAreNew
<1> QED
  BY <1>3, <1>4

LEMMA EvalInv ==
    ASSUME IInv, TypeOK', NEW s \in Scenario, EvalPriced(s) PROVE IInv'
<1> USE DEF db, loaded
<1>1. Running' = Running /\ Entered' = Entered /\ Waiting' = Waiting
  BY DEF EvalPriced, Running, Entered, Waiting
<1>2. ActiveRuns' /\ Safe'
  BY <1>1 DEF EvalPriced, IInv, ActiveRuns, Safe, OneEnteredPerSignal,
              NoWaitingBesideEntered, SignalMirrorsScenario
<1>3. ReadTogether'
  BY <1>1 DEF EvalPriced, IInv, ReadTogether
<1>4. PICK obs \in Observation : EvalWith(s, obs)
  BY DEF EvalPriced
<1>5. s \in todo /\ s \in snap /\ pc = "eval" /\ todo' = todo \ {s}
  BY DEF EvalPriced, IInv, TypeOK
<1>6. EntriesAreNew'
  BY EvalEntries DEF IInv
<1>7. BatchInv'
  <2>1. bActivated' \cap todo' = {}
    BY <1>4, <1>5 DEF EvalWith, IInv, BatchInv
  <2>2. ASSUME NEW t \in Scenario, bOutcome'[t] # "running" PROVE t \in snap' \ todo'
    <3>1. CASE t = s
      BY <1>5, <3>1 DEF EvalPriced
    <3>2. CASE t # s
      <4>1. bOutcome'[t] = bOutcome[t]
        BY <1>4, <3>2 DEF EvalWith, IInv, TypeOK
      <4> QED
        BY <1>5, <2>2, <4>1 DEF EvalPriced, IInv, BatchInv
    <3> QED
      BY <3>1, <3>2
  <2> QED
    BY <1>5, <2>1, <2>2 DEF EvalPriced, IInv, BatchInv
<1> QED
  BY <1>2, <1>3, <1>6, <1>7 DEF IInv

LEMMA CancelInv ==
    ASSUME IInv, TypeOK', CancelSiblings PROVE IInv'
<1> USE DEF db, loaded
<1>1. Running' = Running /\ Entered' = Entered /\ Waiting' = Waiting
  BY DEF CancelSiblings, Running, Entered, Waiting
<1>2. ActiveRuns' /\ Safe'
  BY <1>1 DEF CancelSiblings, IInv, ActiveRuns, Safe, OneEnteredPerSignal,
              NoWaitingBesideEntered, SignalMirrorsScenario
<1>3. ReadTogether' /\ EntriesAreNew'
  BY <1>1 DEF CancelSiblings, IInv, ReadTogether, EntriesAreNew
<1>4. BatchInv'
  <2>1. SiblingCancel' = SiblingCancel
    BY DEF CancelSiblings, SiblingCancel
  <2> QED
    BY <2>1 DEF CancelSiblings, IInv, BatchInv
<1> QED
  BY <1>2, <1>3, <1>4 DEF IInv

LEMMA StoreInv ==
    ASSUME IInv, TypeOK', NEW g \in Signal, StoreSignal(g) PROVE IInv'
<1> USE DEF redis, process, loaded, batch
<1>1. \A s \in Scenario : SignalOf[s] = g => s \notin Running /\ ~active[s]
  BY DEF StoreSignal, ScenariosOf, Running, IInv, ActiveRuns
<1>2. /\ Running' = Running \cup ScenariosOf(g)
      /\ Entered' = Entered
      /\ Waiting' = Waiting \cup ScenariosOf(g)
  BY <1>1 DEF StoreSignal, Running, Entered, Waiting, ScenariosOf
<1>3. ActiveRuns'
  BY DEF StoreSignal, IInv, ActiveRuns
<1>4. ReadTogether'
  <2>1. pc' = pc /\ snap' = snap /\ snapActive' = snapActive /\ active' = active
    BY DEF StoreSignal
  <2>2. \A s \in snap : s \in Running /\ SignalOf[s] # g
    BY <1>1 DEF IInv, ReadTogether, Running
  <2>3. \A s \in snap, t \in Running' : SignalOf[s] = SignalOf[t] => t \in Running
    BY <1>2, <2>2 DEF ScenariosOf
  <2>4. snap' \subseteq Running'
    BY <1>2, <2>1, <2>2
  <2> QED
    BY <2>1, <2>3, <2>4 DEF IInv, ReadTogether
<1>5. EntriesAreNew' /\ BatchInv'
  <2>1. SiblingCancel' = SiblingCancel
    BY DEF StoreSignal, SiblingCancel
  <2> QED
    BY <2>1 DEF StoreSignal, IInv, EntriesAreNew, BatchInv
<1>6. Safe'
  <2>1. \A s \in Entered : SignalOf[s] # g
    BY <1>1 DEF Entered, Running
  <2> QED
    BY <1>2, <2>1 DEF StoreSignal, IInv, Safe, OneEnteredPerSignal, NoWaitingBesideEntered,
                      SignalMirrorsScenario, ScenariosOf
<1> QED
  BY <1>3, <1>4, <1>5, <1>6 DEF IInv

-----------------------------------------------------------------------------
(* The batch transaction *)

\* What the transaction makes of one scenario, read off the invariant.
LEMMA CommitOne ==
    ASSUME IInv, pc = "write", CommitBatch, NEW s \in Scenario
    PROVE  /\ s \in Entered' <=> /\ status[s] = "running" /\ bOutcome[s] = "running"
                                 /\ active[s] \/ s \in bActivated
           /\ s \in Waiting' <=> /\ status[s] = "running" /\ bOutcome[s] = "running"
                                 /\ ~active[s] /\ s \notin bActivated \cup bSiblings
           /\ active'[s] => status'[s] = "running"
<1>1. status'[s] = WrittenStatus(s) /\ active'[s] = WrittenActive(s)
  BY DEF CommitBatch
<1>2. bOutcome[s] \in Outcome \cup {"running"} /\ "running" \notin TerminalStates
         /\ "running" \notin Outcome
  BY DEF IInv, TypeOK, Outcome, TerminalStates
<1>3. active[s] => status[s] = "running"
  BY DEF IInv, ActiveRuns
<1>4. bOutcome[s] # "running" /\ status[s] = "running" => Settles(s)
  BY <1>2 DEF Settles
<1>5. Settles(s) => WrittenStatus(s) # "running" /\ ~WrittenActive(s)
  BY <1>2 DEF WrittenStatus, WrittenActive, AfterSettle, Settles, Cancels
<1>6. ~Settles(s) => AfterSettle(s) = status[s]
  BY DEF AfterSettle
<1>7. Cancels(s) => WrittenStatus(s) # "running" /\ ~WrittenActive(s)
  BY DEF WrittenStatus, WrittenActive
<1>8. WrittenStatus(s) = "running" <=> status[s] = "running" /\ ~Settles(s) /\ ~Cancels(s)
  BY <1>5, <1>6, <1>7 DEF WrittenStatus
<1>9. WrittenActive(s) <=> AfterEnter(s) /\ ~Settles(s) /\ ~Cancels(s)
  BY Zenon DEF WrittenActive
<1>10. ~Settles(s) => (Cancels(s) <=> s \in bSiblings /\ status[s] = "running" /\ ~AfterEnter(s))
  BY <1>6, Zenon DEF Cancels
<1>11. bOutcome[s] = "running" => ~Settles(s)
  BY DEF Settles
<1>12. AfterEnter(s) <=>
         active[s] \/ (s \in bActivated /\ bOutcome[s] = "running" /\ status[s] = "running")
  BY Zenon DEF AfterEnter
<1>13. active'[s] => status'[s] = "running"
  BY <1>1, <1>3, <1>6, <1>8, <1>9, <1>12
<1>14. s \in Entered' <=> status'[s] = "running" /\ active'[s]
  BY DEF Entered, Running
<1>15. s \in Waiting' <=> status'[s] = "running" /\ ~active'[s]
  BY DEF Waiting, Running
<1> QED
  BY <1>1, <1>3, <1>4, <1>8, <1>9, <1>10, <1>11, <1>12, <1>13, <1>14, <1>15

\* The siblings of an entry of the batch: none is in a position, and those that
\* stay undecided are cancelled with it.
LEMMA EntryTakesSignal ==
    ASSUME IInv, pc = "write", NEW a \in bActivated, NEW t \in Running,
           SignalOf[a] = SignalOf[t], t # a
    PROVE  ~active[t] /\ t \notin bActivated /\ t \in bSiblings
<1>1. a \in snap \ snapActive
  BY DEF IInv, EntriesAreNew
<1>2. a \in Running /\ t \in snap
  BY <1>1 DEF IInv, ReadTogether
<1>3. t \notin snapActive \cup bActivated
  BY DEF IInv, EntriesAreNew
<1>4. ~active[t]
  BY <1>2, <1>3 DEF IInv, ReadTogether
<1>5. t \in SiblingCancel
  BY <1>2, <1>3 DEF SiblingCancel
<1> QED
  BY <1>3, <1>4, <1>5 DEF IInv, BatchInv

LEMMA CommitInv ==
    ASSUME IInv, TypeOK', CommitBatch PROVE IInv'
<1>1. pc = "write"
  BY DEF CommitBatch
<1>2. ActiveRuns'
  BY <1>1, CommitOne DEF ActiveRuns
<1>3. ReadTogether' /\ EntriesAreNew' /\ BatchInv'
  BY DEF CommitBatch, EndCycle, EmptyBatch, ReadTogether, EntriesAreNew, BatchInv
<1>4. Entered' \subseteq Scenario /\ Waiting' \subseteq Scenario
  BY DEF Entered, Waiting, Running
<1>5. \A s \in Entered' : /\ s \in Running /\ bOutcome[s] = "running"
                          /\ s \in Entered \/ s \in bActivated
  BY <1>1, <1>4, CommitOne DEF Running, Entered
<1>6. bActivated \subseteq Running
  BY DEF IInv, EntriesAreNew, ReadTogether
<1>7. OneEnteredPerSignal'
  <2> SUFFICES ASSUME NEW s \in Entered', NEW t \in Entered', SignalOf[s] = SignalOf[t], s # t
               PROVE  FALSE
    BY DEF OneEnteredPerSignal
  <2>1. s \notin bActivated
    <3> SUFFICES ASSUME s \in bActivated PROVE FALSE
      OBVIOUS
    <3>1. ~active[t] /\ t \notin bActivated
      BY <1>1, <1>5, EntryTakesSignal
    <3> QED
      BY <1>5, <3>1 DEF Entered
  <2>2. t \notin bActivated
    <3> SUFFICES ASSUME t \in bActivated PROVE FALSE
      OBVIOUS
    <3>1. ~active[s] /\ s \notin bActivated
      BY <1>1, <1>5, EntryTakesSignal
    <3> QED
      BY <1>5, <3>1 DEF Entered
  <2>3. s \in Entered /\ t \in Entered
    BY <1>5, <2>1, <2>2
  <2> QED
    BY <2>3 DEF IInv, Safe, OneEnteredPerSignal
<1>8. NoWaitingBesideEntered'
  <2> SUFFICES ASSUME NEW s \in Entered', NEW t \in Waiting', SignalOf[s] = SignalOf[t]
               PROVE  FALSE
    BY DEF NoWaitingBesideEntered
  <2>1. t \in Waiting /\ t \in Running /\ t \notin bActivated /\ t \notin bSiblings
    BY <1>1, <1>4, CommitOne DEF Waiting, Running
  <2>2. s \notin bActivated
    <3> SUFFICES ASSUME s \in bActivated PROVE FALSE
      OBVIOUS
    <3>1. t # s
      BY <2>1
    <3> QED
      BY <1>1, <2>1, <3>1, EntryTakesSignal
  <2>3. s \in Entered
    BY <1>5, <2>2
  <2> QED
    BY <2>1, <2>3 DEF IInv, Safe, NoWaitingBesideEntered
<1>9. SignalMirrorsScenario'
  <2>1. \A g \in Signal : sigRef'[g] = WrittenRef(g) /\ sigActive'[g] = WrittenSigActive(g)
    BY DEF CommitBatch
  \* an entry of the batch is what its signal points to
  <2>2. ASSUME NEW a \in bActivated PROVE WrittenRef(SignalOf[a]) = a
    <3>1. \A b \in bActivated : SignalOf[b] = SignalOf[a] => b = a
      BY DEF IInv, EntriesAreNew
    <3> QED
      BY <3>1 DEF WrittenRef
  \* what is in a position already keeps its signal
  <2>3. ASSUME NEW s \in Entered PROVE ~\E a \in bActivated : SignalOf[a] = SignalOf[s]
    <3> SUFFICES ASSUME NEW a \in bActivated, SignalOf[a] = SignalOf[s] PROVE FALSE
      OBVIOUS
    <3>1. a # s
      BY DEF IInv, EntriesAreNew, ReadTogether, Entered
    <3>2. s \in Running /\ active[s]
      BY DEF Entered
    <3> QED
      BY <1>1, <3>1, <3>2, EntryTakesSignal
  <2>4. ASSUME NEW s \in Entered' PROVE sigActive'[SignalOf[s]] /\ sigRef'[SignalOf[s]] = s
    <3>1. SignalOf[s] \in Signal
      BY <1>4, ScenarioAssumption
    <3>2. s \notin SignalTerminals
      BY <1>5 DEF SignalTerminals, TerminalIn
    <3>3. CASE s \in bActivated
      <4>1. WrittenRef(SignalOf[s]) = s
        BY <2>2, <3>3
      <4>2. WrittenSigActive(SignalOf[s])
        BY <3>2, <3>3, <4>1, Zenon DEF WrittenSigActive
      <4> QED
        BY <2>1, <3>1, <4>1, <4>2
    <3>4. CASE s \in Entered
      <4>1. sigActive[SignalOf[s]] /\ sigRef[SignalOf[s]] = s
        BY <3>4 DEF IInv, Safe, SignalMirrorsScenario
      <4>2. WrittenRef(SignalOf[s]) = s
        BY <2>3, <3>4, <4>1 DEF WrittenRef
      <4>3. WrittenSigActive(SignalOf[s])
        BY <3>2, <4>1, <4>2, Zenon DEF WrittenSigActive
      <4> QED
        BY <2>1, <3>1, <4>2, <4>3
    <3> QED
      BY <1>5, <3>3, <3>4
  <2>5. ASSUME NEW g \in Signal, sigActive'[g]
        PROVE  sigRef'[g] \in Entered' /\ SignalOf[sigRef'[g]] = g
    <3>1. WrittenSigActive(g) /\ sigRef'[g] = WrittenRef(g)
      BY <2>1, <2>5
    <3>2. \A t \in SignalTerminals : SignalOf[t] = g => WrittenRef(g) # t
      BY <3>1, Zenon DEF WrittenSigActive
    <3>3. CASE \E a \in bActivated : SignalOf[a] = g
      <4>1. PICK a \in bActivated : SignalOf[a] = g
        BY <3>3
      <4>2. WrittenRef(g) = a /\ a \in Scenario /\ status[a] = "running"
        BY <1>6, <2>2, <4>1 DEF Running
      <4>3. bOutcome[a] = "running"
        BY <3>2, <4>1, <4>2 DEF SignalTerminals, TerminalIn
      <4>4. a \in Entered'
        BY <1>1, <4>1, <4>2, <4>3, CommitOne
      <4> QED
        BY <3>1, <4>1, <4>2, <4>4
    <3>4. CASE ~\E a \in bActivated : SignalOf[a] = g
      <4>1. WrittenRef(g) = sigRef[g] /\ sigActive[g]
        BY <3>1, <3>4, Zenon DEF WrittenRef, WrittenSigActive
      <4>2. sigRef[g] \in Entered /\ SignalOf[sigRef[g]] = g
        BY <4>1 DEF IInv, Safe, SignalMirrorsScenario
      <4>3. /\ sigRef[g] \in Scenario /\ status[sigRef[g]] = "running" /\ active[sigRef[g]]
        BY <4>2 DEF Entered, Running
      <4>4. bOutcome[sigRef[g]] = "running"
        <5>1. bOutcome[sigRef[g]] # "running" => sigRef[g] \in snapActive
          BY <4>3 DEF IInv, BatchInv, ReadTogether
        <5> QED
          BY <3>2, <4>1, <4>2, <4>3, <5>1 DEF SignalTerminals, TerminalIn
      <4>5. sigRef[g] \in Entered'
        BY <1>1, <4>3, <4>4, CommitOne
      <4> QED
        BY <3>1, <4>1, <4>2, <4>5
    <3> QED
      BY <3>3, <3>4
  <2> QED
    BY <2>4, <2>5 DEF SignalMirrorsScenario
<1> QED
  BY <1>2, <1>3, <1>7, <1>8, <1>9 DEF IInv, Safe

-----------------------------------------------------------------------------
(* The theorems *)

LEMMA NextInv == IInv /\ [Next]_vars => IInv'
<1> SUFFICES ASSUME IInv, [Next]_vars PROVE IInv'
  OBVIOUS
<1> USE DEF db, redis, loaded, batch, process, world
<1>0. TypeOK'
  BY NextType DEF IInv
<1>1. CASE Recover
  BY <1>0, <1>1, QuietStep DEF Recover
<1>2. CASE LoadCycle
  BY <1>0, <1>2, LoadInv
<1>3. ASSUME NEW s \in Scenario, EvalNoPrice(s) PROVE IInv'
  BY <1>0, <1>3, QuietStep DEF EvalNoPrice
<1>4. ASSUME NEW s \in Scenario, EvalPriced(s) PROVE IInv'
  BY <1>0, <1>4, EvalInv
<1>5. CASE CancelSiblings
  BY <1>0, <1>5, CancelInv
<1>6. CASE CommitBatch
  BY <1>0, <1>6, CommitInv
<1>7. ASSUME NEW s \in Scenario, EvalRaises(s) PROVE IInv'
  BY <1>0, <1>7, QuietStep DEF EvalRaises
<1>8. CASE RecoverFails
  BY <1>0, <1>8, QuietStep DEF RecoverFails
<1>9. CASE LoadFails
  BY <1>0, <1>9, QuietStep DEF LoadFails
<1>10. CASE CommitFails
  BY <1>0, <1>10, EndOfCycle DEF CommitFails
<1>11. CASE Crash
  BY <1>0, <1>11, EndOfCycle DEF Crash
<1>12. CASE RedisRestart
  BY <1>0, <1>12, QuietStep DEF RedisRestart
<1>13. ASSUME NEW s \in Scenario, RedisEvicts(s) PROVE IInv'
  BY <1>0, <1>13, QuietStep DEF RedisEvicts
<1>14. ASSUME NEW g \in Signal, StoreSignal(g) PROVE IInv'
  BY <1>0, <1>14, StoreInv
<1>15. ASSUME NEW g \in Signal, FeedStops(g) PROVE IInv'
  BY <1>0, <1>15, QuietStep DEF FeedStops
<1>16. ASSUME NEW g \in Signal, FeedReturns(g) PROVE IInv'
  BY <1>0, <1>16, QuietStep DEF FeedReturns
<1>17. ASSUME NEW s \in Scenario, Expire(s) PROVE IInv'
  BY <1>0, <1>17, QuietStep DEF Expire
<1>18. CASE CancelRaises
  BY <1>0, <1>18, EndOfCycle DEF CancelRaises
<1>19. CASE UNCHANGED vars
  BY <1>0, <1>19, QuietStep DEF vars
<1>20. ASSUME NEW s \in Scenario, KeyRunsOut(s) PROVE IInv'
  BY <1>0, <1>20, QuietStep DEF KeyRunsOut
<1> QED
  BY <1>1, <1>2, <1>3, <1>4, <1>5, <1>6, <1>7, <1>8, <1>9, <1>10, <1>11, <1>12, <1>13,
     <1>14, <1>15, <1>16, <1>17, <1>18, <1>19, <1>20
  DEF Next, Evaluator, EvalOne, Faults, Environment

\* The invariant of the loop holds in every reachable state.
THEOREM Invariance == Spec => []IInv
<1> QED
  BY InitInv, NextInv, PTL DEF Spec

\* main.py:29-31: whatever fails, two scenarios of a signal are never both in a
\* position in Postgres.
THEOREM OneEntered == Spec => []OneEnteredPerSignal
<1>1. IInv => OneEnteredPerSignal
  BY DEF IInv, Safe
<1> QED
  BY <1>1, Invariance, PTL

\* The batch that enters a scenario leaves no scenario of the signal waiting, and
\* none starts to wait later (_batch_write, 873-910).
THEOREM NoneWaits == Spec => []NoWaitingBesideEntered
<1>1. IInv => NoWaitingBesideEntered
  BY DEF IInv, Safe
<1> QED
  BY <1>1, Invariance, PTL

\* signals.active and active_scenarios_id never drift from the scenarios table
\* (models/signals.py:46-49, _batch_write, 843-870).
THEOREM SignalMirrors == Spec => []SignalMirrorsScenario
<1>1. IInv => SignalMirrorsScenario
  BY DEF IInv, Safe
<1> QED
  BY <1>1, Invariance, PTL
=============================================================================
