------------------------ MODULE EvaluatorOfficeProofs ------------------------
(***************************************************************************)
(* What survives an operator who edits the rows under a running cycle, for *)
(* every set of scenarios and signals and any number of edits and faults.  *)
(*                                                                         *)
(* The invariant of the loop alone (ReadTogether) fails here: a row that   *)
(* was read may end or go, and siblings appear that were not read.         *)
(***************************************************************************)
EXTENDS EvaluatorOffice, SignalEvaluatorProofs

\* A row that is not in the table has left nothing behind.
AbsentIsClean ==
    \A s \in Scenario : status[s] = "absent" => ~active[s] /\ result[s] = NoRow

\* Each verdict of the batch has its result row, which a deleted scenario makes fail.
VerdictIsWritten == \A s \in Scenario : bOutcome[s] # "running" => s \in bDirty

TableInv == OfficeTypeOK /\ AbsentIsClean /\ VerdictIsWritten

\* The rows of the cycle: one that is gone has been deleted, the others have the active
\* column they were read with, and what is in a position beside a waiting row was read
\* with it.
RowsStay ==
    /\ pc \in {"down", "idle"} => snap = {}
    /\ \A s \in snap : IF status[s] = "absent" THEN s \in deleted
                                               ELSE s \in snapActive <=> active[s]
    /\ \A s \in snap \ snapActive, t \in Entered : SignalOf[s] = SignalOf[t] => t \in snap

OfficeInv == TableInv /\ RowsStay /\ EntriesAreNew /\ OneEnteredPerSignal

-----------------------------------------------------------------------------
(* Steps on the rows *)

\* What happens to a row while the batch is not written: nothing, an edit, its deletion,
\* its insertion by final-store or by hand.
Kept(s)    == status'[s] = status[s] /\ active'[s] = active[s] /\ result'[s] = result[s]
Edited(s)  == /\ status[s] # "absent" /\ status'[s] \in EditChoices
              /\ active'[s] = active[s] /\ result'[s] = result[s]
Deleted(s) == s \in deleted' /\ status'[s] = "absent" /\ ~active'[s] /\ result'[s] = NoRow
Added(s)   == /\ status[s] = "absent" /\ s \notin deleted /\ status'[s] \in FormOptions
              /\ active'[s] = active[s] /\ result'[s] = result[s]

RowsStep ==
    /\ \A s \in Scenario : Kept(s) \/ Edited(s) \/ Deleted(s) \/ Added(s)
    /\ deleted \subseteq deleted'

Stored == \E g \in Signal : StoreSome(g)

LEMMA EditedStep ==
    ASSUME TypeOK, NEW s \in Scenario, UpdateScenario(s) \/ AddScenario(s) PROVE RowsStep
<1>1. PICK st \in FormOptions : status' = [status EXCEPT ![s] = st]
  BY OfficeAssumption DEF UpdateScenario, AddScenario
<1>2. active' = active /\ result' = result /\ deleted' = deleted
  BY DEF UpdateScenario, AddScenario
<1>3. \A t \in Scenario \ {s} : Kept(t)
  BY <1>1, <1>2 DEF TypeOK, Kept
<1>4. CASE UpdateScenario(s)
  <2>1. Edited(s)
    BY <1>2, <1>4 DEF UpdateScenario, TypeOK, Edited
  <2> QED
    BY <1>2, <1>3, <2>1 DEF RowsStep
<1>5. CASE AddScenario(s)
  <2>1. Added(s)
    BY <1>1, <1>2, <1>5 DEF AddScenario, TypeOK, Added
  <2> QED
    BY <1>2, <1>3, <2>1 DEF RowsStep
<1> QED
  BY <1>4, <1>5

LEMMA ForgetStep ==
    ASSUME TypeOK, NEW S \in SUBSET Scenario, Forget(S) PROVE RowsStep
<1>1. deleted' = deleted \cup S
  BY DEF Forget
<1>2. \A s \in S : Deleted(s)
  BY DEF Forget, Deleted
<1>3. ASSUME NEW s \in Scenario \ S PROVE Kept(s)
  BY DEF Forget, TypeOK, Kept
<1> QED
  BY <1>1, <1>2, <1>3 DEF RowsStep

LEMMA StoredStep ==
    ASSUME TypeOK, Stored, deleted' = deleted PROVE RowsStep
<1>1. PICK g \in Signal : StoreSome(g)
  BY DEF Stored
<1>2. PICK S \in SUBSET ScenariosOf(g) :
        status' = [s \in Scenario |-> IF s \in S THEN "running" ELSE status[s]]
  BY <1>1 DEF StoreSome
<1>3. active' = active /\ result' = result
  BY <1>1 DEF StoreSome
<1>4. ASSUME NEW s \in S PROVE s \in Scenario /\ Added(s)
  <2>1. s \in ScenariosOf(g) /\ s \in Scenario
    BY DEF ScenariosOf
  <2> QED
    BY <1>1, <1>2, <1>3, <2>1 DEF StoreSome, Added, FormOptions
<1>5. ASSUME NEW s \in Scenario \ S PROVE Kept(s)
  BY <1>2, <1>3 DEF Kept
<1> QED
  BY <1>4, <1>5 DEF RowsStep

\* The operator and final-store leave the process alone.
LEMMA TableStep ==
    ASSUME OfficeTypeOK, Office \/ (Stored /\ NoEdit)
    PROVE  /\ RowsStep /\ UNCHANGED <<redis, process, world>>
           /\ OfficeTypeOK'
<1>1. TypeOK
  BY DEF OfficeTypeOK
<1>2. ASSUME NEW s \in Scenario, UpdateScenario(s) \/ AddScenario(s)
      PROVE  /\ RowsStep /\ UNCHANGED <<redis, process, world>> /\ Edit
             /\ status' \in [Scenario -> Status] /\ deleted' \subseteq Scenario
             /\ UNCHANGED <<active, result, events, sigActive, sigRef>>
  <2>1. FormOptions \subseteq Status
    BY DEF FormOptions, Status, TerminalStates, Outcome
  <2> QED
    BY <1>1, <1>2, <2>1, EditedStep, OfficeAssumption
    DEF UpdateScenario, AddScenario, TypeOK, OfficeTypeOK
<1>3. ASSUME NEW S \in SUBSET Scenario, Forget(S)
      PROVE  /\ RowsStep /\ UNCHANGED <<redis, process, world>>
             /\ status' \in [Scenario -> Status] /\ deleted' \subseteq Scenario
             /\ active' \in [Scenario -> BOOLEAN] /\ result' \in [Scenario -> ResultRow]
             /\ events' \in [Scenario -> Seq(EventType)]
             /\ sigRef' \in [Signal -> Scenario \cup {NoScenario}]
  <2>1. NoRow \in ResultRow /\ <<>> \in Seq(EventType)
    BY BoundAssumption DEF NoRow, ResultRow
  <2>2. \A s \in Scenario : (active[s] /\ s \notin S) \in BOOLEAN
    OBVIOUS
  <2>3. active' \in [Scenario -> BOOLEAN]
    BY <1>3, <2>2 DEF Forget
  <2>4. RowsStep /\ UNCHANGED <<redis, process, world>>
    BY <1>1, <1>3, ForgetStep DEF Forget
  <2> QED
    BY <1>1, <1>3, <2>1, <2>3, <2>4 DEF Forget, TypeOK, OfficeTypeOK, Status
<1>4. CASE Office
  <2>1. ASSUME Edit PROVE edits' \in 0 .. MaxEdits
    BY <2>1, OfficeAssumption DEF Edit, OfficeTypeOK
  <2>2. ASSUME NEW s \in Scenario, UpdateScenario(s) \/ AddScenario(s)
        PROVE  RowsStep /\ UNCHANGED <<redis, process, world>> /\ OfficeTypeOK'
    BY <1>1, <1>2, <2>1, <2>2 DEF OfficeTypeOK, TypeOK, redis, process, loaded, batch, world
  <2>3. ASSUME NEW S \in SUBSET Scenario, Forget(S), Edit, sigActive' \in [Signal -> BOOLEAN]
        PROVE  RowsStep /\ UNCHANGED <<redis, process, world>> /\ OfficeTypeOK'
    BY <1>1, <1>3, <2>1, <2>3 DEF OfficeTypeOK, TypeOK, redis, process, loaded, batch, world
  <2>4. ASSUME NEW s \in Scenario, DeleteScenario(s)
        PROVE  RowsStep /\ UNCHANGED <<redis, process, world>> /\ OfficeTypeOK'
    BY <1>1, <2>3, <2>4 DEF DeleteScenario, TypeOK
  <2>5. ASSUME NEW g \in Signal, DeleteSignal(g)
        PROVE  RowsStep /\ UNCHANGED <<redis, process, world>> /\ OfficeTypeOK'
    BY <1>1, <2>3, <2>5 DEF DeleteSignal, ScenariosOf, TypeOK
  <2> QED
    BY <1>4, <2>2, <2>4, <2>5 DEF Office
<1>5. CASE Stored /\ NoEdit
  <2>1. RowsStep /\ UNCHANGED <<redis, process, world>>
    BY <1>1, <1>5, StoredStep DEF NoEdit, Stored, StoreSome
  <2>2. status' \in [Scenario -> Status]
    BY <1>1, <1>5 DEF Stored, StoreSome, TypeOK, Status
  <2>3. UNCHANGED <<active, result, events, sigActive, sigRef>>
    BY <1>5 DEF Stored, StoreSome
  <2> QED
    BY <1>1, <1>5, <2>1, <2>2, <2>3
    DEF OfficeTypeOK, TypeOK, NoEdit, redis, process, loaded, batch, world
<1> QED
  BY <1>4, <1>5

\* The steps of the loop, its faults, the feed and the clock.
Loop == Evaluator \/ Faults \/ (\E g \in Signal : FeedStops(g) \/ FeedReturns(g))
                  \/ (\E s \in Scenario : Expire(s) \/ KeyRunsOut(s))

\* A step of the loop other than those that evaluate, enter, read or commit.
Quiet ==
    /\ UNCHANGED <<db, loaded, bDirty, bOutcome, bActivated>>
    /\ pc' = pc \/ (pc = "down" /\ pc' = "idle") \/ pc' = "write"

\* The end of a cycle that writes nothing.
Ended == UNCHANGED db /\ EndCycle /\ pc' \in {"idle", "down"}

LEMMA LoopSteps ==
    ASSUME Loop
    PROVE  \/ Quiet \/ Ended \/ LoadCycle \/ CommitBatch
           \/ \E s \in Scenario : EvalPriced(s)
<1> USE DEF db, redis, loaded, batch, process, Quiet
<1>1. CASE Recover \/ RecoverFails \/ LoadFails \/ CancelSiblings \/ RedisRestart
  BY <1>1 DEF Recover, RecoverFails, LoadFails, CancelSiblings, RedisRestart
<1>2. CASE CancelRaises \/ CommitFails \/ Crash
  BY <1>2 DEF CancelRaises, CommitFails, Crash, Ended
<1>3. ASSUME NEW s \in Scenario, \/ EvalNoPrice(s) \/ EvalRaises(s) \/ RedisEvicts(s)
                               \/ Expire(s) \/ KeyRunsOut(s)
      PROVE  Quiet
  BY <1>3 DEF EvalNoPrice, EvalRaises, RedisEvicts, Expire, KeyRunsOut
<1>4. ASSUME NEW g \in Signal, FeedStops(g) \/ FeedReturns(g) PROVE Quiet
  BY <1>4 DEF FeedStops, FeedReturns
<1> QED
  BY <1>1, <1>2, <1>3, <1>4 DEF Loop, Evaluator, EvalOne, Faults

LEMMA OfficeSteps ==
    ASSUME [OfficeNext]_officeVars
    PROVE  \/ Office \/ (Stored /\ NoEdit) \/ (Loop /\ NoEdit) \/ UNCHANGED officeVars
BY Zenon DEF OfficeNext, OfficeEnvironment, Loop, Stored

LEMMA OfficeInitType == ASSUME OfficeInit PROVE TableInv
<1>1. TypeOK
  BY InitType DEF OfficeInit
<1> QED
  BY <1>1, OfficeAssumption
  DEF OfficeInit, Init, TableInv, OfficeTypeOK, AbsentIsClean, VerdictIsWritten

LEMMA OfficeType == ASSUME OfficeTypeOK, [OfficeNext]_officeVars PROVE OfficeTypeOK'
<1>1. CASE Office \/ (Stored /\ NoEdit)
  BY <1>1, TableStep
<1>2. CASE Loop /\ NoEdit
  <2>1. Next
    BY <1>2 DEF Loop, Next, Environment
  <2>2. TypeOK'
    BY <2>1, NextType DEF OfficeTypeOK
  <2> QED
    BY <1>2, <2>2 DEF OfficeTypeOK, NoEdit
<1>3. CASE UNCHANGED officeVars
  <2>1. TypeOK'
    BY <1>3, NextType DEF officeVars, OfficeTypeOK
  <2> QED
    BY <1>3, <2>1 DEF officeVars, OfficeTypeOK
<1> QED
  BY <1>1, <1>2, <1>3, OfficeSteps

\* What the transaction makes of one row: it touches no row that is gone, and none that has
\* ended.
LEMMA CommitRow ==
    ASSUME TypeOK, VerdictIsWritten, CommitBatch, NEW s \in Scenario
    PROVE  /\ status[s] = "absent" => Settles(s) = FALSE /\ WrittenResult(s) = result[s]
           /\ status[s] \in TerminalStates \cup {"absent"} => status'[s] = status[s]
           /\ status'[s] = "absent" => status[s] = "absent"
<1>1. status'[s] = WrittenStatus(s)
  BY DEF CommitBatch
<1>2. ASSUME status[s] = "absent" PROVE s \notin bDirty /\ s \notin bSiblings
  BY <1>2 DEF CommitBatch, Writes, TypeOK
<1>3. status[s] = "absent" => ~Settles(s) /\ WrittenResult(s) = result[s]
  BY <1>2 DEF VerdictIsWritten, Settles, WrittenResult
<1>4. status[s] \in TerminalStates => ~Settles(s)
  BY DEF Settles
<1>5. ~Settles(s) => AfterSettle(s) = status[s]
  BY DEF AfterSettle
<1>6. Cancels(s) => AfterSettle(s) = "running"
  BY DEF Cancels
<1>7. "running" \notin TerminalStates \cup {"absent"}
  BY DEF TerminalStates, Outcome
<1>8. status[s] \in TerminalStates \cup {"absent"} => WrittenStatus(s) = status[s]
  BY <1>3, <1>4, <1>5, <1>6, <1>7 DEF WrittenStatus
<1>9. WrittenStatus(s) = "absent" => status[s] = "absent"
  <2>1. bOutcome[s] \in Outcome \cup {"running"} /\ "absent" \notin Outcome \cup {"running"}
    BY DEF TypeOK, Outcome
  <2> QED
    BY <2>1 DEF WrittenStatus, AfterSettle
<1> QED
  BY <1>1, <1>3, <1>8, <1>9

LEMMA TableNext == ASSUME TableInv, [OfficeNext]_officeVars PROVE TableInv'
<1>0. TypeOK /\ OfficeTypeOK /\ OfficeTypeOK' /\ TypeOK'
  BY OfficeType DEF TableInv, OfficeTypeOK
<1> SUFFICES AbsentIsClean' /\ VerdictIsWritten'
  BY <1>0 DEF TableInv
<1>1. CASE Office \/ (Stored /\ NoEdit)
  <2>1. RowsStep /\ UNCHANGED process
    BY <1>0, <1>1, TableStep
  <2>2. "absent" \notin EditChoices /\ "absent" \notin FormOptions
    BY OfficeAssumption DEF FormOptions, OfficeStates
  <2>3. AbsentIsClean'
    BY <2>1, <2>2 DEF RowsStep, Kept, Edited, Deleted, Added, TableInv, AbsentIsClean
  <2>4. VerdictIsWritten'
    BY <2>1 DEF process, batch, TableInv, VerdictIsWritten
  <2> QED
    BY <2>3, <2>4
<1>2. CASE Quiet
  BY <1>2 DEF Quiet, db, TableInv, AbsentIsClean, VerdictIsWritten
<1>3. CASE Ended \/ LoadCycle
  BY <1>3 DEF Ended, LoadCycle, EndCycle, EmptyBatch, db, TableInv, AbsentIsClean,
              VerdictIsWritten
<1>4. CASE CommitBatch
  <2>1. VerdictIsWritten'
    BY <1>4 DEF CommitBatch, EndCycle, EmptyBatch, VerdictIsWritten
  <2>2. ASSUME NEW s \in Scenario, status'[s] = "absent"
        PROVE  ~active'[s] /\ result'[s] = NoRow
    <3>1. status[s] = "absent" /\ WrittenResult(s) = result[s]
      BY <1>0, <1>4, <2>2, CommitRow DEF TableInv
    <3>2. ~active[s] /\ result[s] = NoRow
      BY <3>1 DEF TableInv, AbsentIsClean
    <3>3. ~WrittenActive(s)
      BY <3>1, <3>2 DEF WrittenActive, AfterEnter
    <3> QED
      BY <1>4, <3>1, <3>2, <3>3 DEF CommitBatch
  <2> QED
    BY <2>1, <2>2 DEF AbsentIsClean
<1>5. ASSUME NEW s \in Scenario, EvalPriced(s) PROVE AbsentIsClean' /\ VerdictIsWritten'
  <2>1. PICK obs \in Observation : EvalWith(s, obs)
    BY <1>5 DEF EvalPriced
  <2>2. AbsentIsClean'
    BY <1>5 DEF EvalPriced, db, TableInv, AbsentIsClean
  <2>3. bDirty \subseteq bDirty'
    BY <2>1 DEF EvalWith
  <2>4. Verdict(s, obs) # "running" => s \in bDirty'
    BY <2>1 DEF EvalWith
  <2>5. ASSUME NEW t \in Scenario, bOutcome'[t] # "running" PROVE t \in bDirty'
    <3>1. bOutcome'[t] = IF t = s THEN Verdict(s, obs) ELSE bOutcome[t]
      BY <1>0, <2>1 DEF EvalWith, TypeOK
    <3> QED
      BY <2>3, <2>4, <2>5, <3>1 DEF TableInv, VerdictIsWritten
  <2> QED
    BY <2>2, <2>5 DEF VerdictIsWritten
<1>6. CASE UNCHANGED officeVars
  BY <1>6 DEF officeVars, vars, db, process, batch, TableInv, AbsentIsClean, VerdictIsWritten
<1> QED
  BY <1>1, <1>2, <1>3, <1>4, <1>5, <1>6, OfficeSteps, LoopSteps

-----------------------------------------------------------------------------
(* One position per signal, as long as no edit reopens a scenario *)

\* Rows come, end and go, but without the loop none enters a position.
LEMMA RowsOnlyLeave ==
    ASSUME "running" \notin EditChoices, TableInv, RowsStep PROVE Entered' \subseteq Entered
<1> SUFFICES ASSUME NEW s \in Scenario, status'[s] = "running", active'[s]
             PROVE  status[s] = "running" /\ active[s]
  BY DEF Entered, Running
<1>1. CASE Kept(s)
  BY <1>1 DEF Kept
<1>2. CASE Edited(s) \/ Deleted(s)
  BY <1>2 DEF Edited, Deleted
<1>3. CASE Added(s)
  BY <1>3 DEF Added, TableInv, AbsentIsClean
<1> QED
  BY <1>1, <1>2, <1>3 DEF RowsStep

LEMMA RowsInv ==
    ASSUME "running" \notin EditChoices, OfficeInv, TableInv', RowsStep, UNCHANGED process
    PROVE  OfficeInv'
<1>1. Entered' \subseteq Entered /\ Entered' \subseteq Scenario
  BY RowsOnlyLeave DEF OfficeInv, Entered, Running
<1>2. /\ snap' = snap /\ snapActive' = snapActive /\ pc' = pc /\ bActivated' = bActivated
      /\ snap \subseteq Scenario
  BY DEF process, loaded, batch, OfficeInv, TableInv, OfficeTypeOK, TypeOK
<1>3. ASSUME NEW s \in snap
      PROVE  IF status'[s] = "absent" THEN s \in deleted' ELSE s \in snapActive <=> active'[s]
  <2>1. IF status[s] = "absent" THEN s \in deleted ELSE s \in snapActive <=> active[s]
    BY DEF OfficeInv, RowsStay
  <2>2. "absent" \notin EditChoices
    BY OfficeAssumption DEF FormOptions, OfficeStates
  <2>3. deleted \subseteq deleted' /\ (Kept(s) \/ Edited(s) \/ Deleted(s) \/ Added(s))
    BY <1>2 DEF RowsStep
  <2>4. CASE Kept(s)
    BY <2>1, <2>3, <2>4 DEF Kept
  <2>5. CASE Edited(s)
    BY <2>1, <2>2, <2>5 DEF Edited
  <2>6. CASE Deleted(s)
    BY <2>6 DEF Deleted
  <2>7. ~Added(s)
    BY <2>1 DEF Added
  <2> QED
    BY <2>3, <2>4, <2>5, <2>6, <2>7
<1>4. RowsStay'
  BY <1>1, <1>2, <1>3 DEF OfficeInv, RowsStay
<1>5. EntriesAreNew'
  BY <1>2 DEF OfficeInv, EntriesAreNew
<1>6. OneEnteredPerSignal'
  BY <1>1 DEF OfficeInv, OneEnteredPerSignal
<1> QED
  BY <1>4, <1>5, <1>6 DEF OfficeInv

\* The transaction enters what the batch entered, where the row still runs.
LEMMA CommitEntered ==
    ASSUME TypeOK, CommitBatch
    PROVE  /\ Entered' \subseteq Running
           /\ \A s \in Entered' : active[s] \/ s \in bActivated
<1> SUFFICES ASSUME NEW s \in Scenario, status'[s] = "running", active'[s]
             PROVE  status[s] = "running" /\ (active[s] \/ s \in bActivated)
  BY DEF Entered, Running
<1>1. WrittenStatus(s) = "running" /\ WrittenActive(s)
  BY DEF CommitBatch
<1>2. ~Settles(s) /\ AfterEnter(s)
  BY <1>1, Zenon DEF WrittenActive
<1>3. AfterSettle(s) = status[s]
  BY <1>2 DEF AfterSettle
<1>4. status[s] = "running"
  BY <1>1, <1>3 DEF WrittenStatus
<1> QED
  BY <1>2, <1>4 DEF AfterEnter

\* An entry of the batch is alone: what is in a position beside it was read with it, and
\* would have kept it from entering.
LEMMA EntryIsAlone ==
    ASSUME OfficeInv, CommitBatch, NEW a \in bActivated, NEW t \in Entered', t # a
    PROVE  SignalOf[a] # SignalOf[t]
<1> SUFFICES ASSUME SignalOf[a] = SignalOf[t] PROVE FALSE
  OBVIOUS
<1>1. a \in snap \ snapActive /\ t \notin snapActive \cup bActivated
  BY DEF OfficeInv, EntriesAreNew
<1>2. t \in Running /\ active[t]
  BY <1>1, CommitEntered DEF OfficeInv, TableInv, OfficeTypeOK
<1>3. t \in Entered /\ status[t] # "absent"
  BY <1>2 DEF Entered, Running
<1>4. t \in snap
  BY <1>1, <1>3 DEF OfficeInv, RowsStay
<1> QED
  BY <1>1, <1>2, <1>3, <1>4 DEF OfficeInv, RowsStay

LEMMA OfficeCommit ==
    ASSUME OfficeInv, TableInv', CommitBatch PROVE OfficeInv'
<1>1. RowsStay' /\ EntriesAreNew'
  BY DEF CommitBatch, EndCycle, EmptyBatch, RowsStay, EntriesAreNew
<1>2. ASSUME NEW s \in Entered', NEW t \in Entered', SignalOf[s] = SignalOf[t], s # t
      PROVE  FALSE
  <2>1. s \notin bActivated /\ t \notin bActivated
    BY <1>2, EntryIsAlone
  <2>2. s \in Entered /\ t \in Entered
    BY <1>2, <2>1, CommitEntered DEF OfficeInv, TableInv, OfficeTypeOK, Entered
  <2> QED
    BY <1>2, <2>2 DEF OfficeInv, OneEnteredPerSignal
<1> QED
  BY <1>1, <1>2 DEF OfficeInv, OneEnteredPerSignal

LEMMA OfficeNextInv ==
    ASSUME "running" \notin EditChoices, OfficeInv, [OfficeNext]_officeVars PROVE OfficeInv'
<1>0. TableInv' /\ TypeOK
  BY TableNext DEF OfficeInv, TableInv, OfficeTypeOK
<1>1. CASE Office \/ (Stored /\ NoEdit)
  BY <1>0, <1>1, TableStep, RowsInv DEF OfficeInv, TableInv
<1>2. ASSUME UNCHANGED db
      PROVE  Entered' = Entered /\ Running' = Running /\ OneEnteredPerSignal'
  BY <1>2 DEF db, Entered, Running, OfficeInv, OneEnteredPerSignal
<1>3. CASE Quiet /\ NoEdit
  <2>1. UNCHANGED <<db, loaded, bActivated>>
    BY <1>3 DEF Quiet
  <2>2. RowsStay'
    BY <1>2, <1>3, <2>1 DEF Quiet, NoEdit, db, loaded, OfficeInv, RowsStay
  <2>3. EntriesAreNew'
    BY <2>1 DEF loaded, OfficeInv, EntriesAreNew
  <2> QED
    BY <1>0, <1>2, <2>1, <2>2, <2>3 DEF OfficeInv
<1>4. CASE Ended
  BY <1>0, <1>2, <1>4 DEF Ended, EndCycle, EmptyBatch, OfficeInv, RowsStay, EntriesAreNew
<1>5. CASE LoadCycle /\ NoEdit
  <2>1. /\ UNCHANGED db /\ snap' = Readable /\ snapActive' = {s \in Readable : active[s]}
        /\ bActivated' = {} /\ pc' = (IF Readable = {} THEN "idle" ELSE "eval")
    BY <1>5 DEF LoadCycle, EmptyBatch
  <2>2. Readable = Running \/ Readable = Entered
    BY DEF Readable
  <2>3. \A s \in Readable : status[s] = "running"
    BY <2>2 DEF Entered, Running
  <2>4. \A s \in snap' \ snapActive', t \in Entered' : t \in snap'
    BY <1>2, <2>1, <2>2 DEF Entered
  <2>5. RowsStay'
    BY <2>1, <2>3, <2>4 DEF db, RowsStay
  <2>6. EntriesAreNew'
    BY <2>1 DEF EntriesAreNew
  <2> QED
    BY <1>0, <1>2, <2>1, <2>5, <2>6 DEF OfficeInv
<1>6. CASE CommitBatch
  BY <1>0, <1>6, OfficeCommit
<1>7. ASSUME NEW s \in Scenario, EvalPriced(s), NoEdit PROVE OfficeInv'
  <2>1. UNCHANGED <<db, pc, loaded>>
    BY <1>7 DEF EvalPriced
  <2>2. RowsStay'
    BY <1>2, <1>7, <2>1 DEF NoEdit, db, loaded, OfficeInv, RowsStay
  <2>3. EntriesAreNew'
    BY <1>0, <1>7, EvalEntries DEF OfficeInv
  <2> QED
    BY <1>0, <1>2, <2>1, <2>2, <2>3 DEF OfficeInv
<1>8. CASE UNCHANGED officeVars
  <2>1. UNCHANGED <<db, loaded, bActivated, pc, deleted>>
    BY <1>8 DEF officeVars, vars, process, batch
  <2>2. RowsStay'
    BY <1>2, <2>1 DEF db, loaded, OfficeInv, RowsStay
  <2>3. EntriesAreNew'
    BY <2>1 DEF loaded, OfficeInv, EntriesAreNew
  <2> QED
    BY <1>0, <1>2, <2>1, <2>2, <2>3 DEF OfficeInv
<1> QED
  BY <1>1, <1>3, <1>4, <1>5, <1>6, <1>7, <1>8, OfficeSteps, LoopSteps

-----------------------------------------------------------------------------
(* The theorems *)

LEMMA TableInvariance == OfficeSpec => []TableInv
<1> QED
  BY OfficeInitType, TableNext, PTL DEF OfficeSpec

\* Whatever the operator writes, every column keeps its type.
THEOREM OfficeTypes == OfficeSpec => []OfficeTypeOK
<1>1. TableInv => OfficeTypeOK
  BY DEF TableInv
<1> QED
  BY <1>1, TableInvariance, PTL

\* Whatever the operator does between the read of a cycle and its transaction, the
\* transaction leaves what is in a status its UPDATE lists as terminal, and what was
\* deleted, as it is (_batch_write, 859-868 and 880-885; the foreign keys of
\* scenario_results).
THEOREM EndedIsKept == OfficeSpec => EndedMeanwhileIsKept
<1> DEFINE KeepsEnded ==
             pc = "write" /\ pc' = "idle" =>
               \A s \in Scenario :
                 /\ status[s] \in TerminalStates => status'[s] = status[s]
                 /\ status[s] = "absent" => status'[s] = "absent" /\ result'[s] = NoRow
<1>1. ASSUME TableInv, [OfficeNext]_officeVars PROVE KeepsEnded
  <2>0. TypeOK
    BY <1>1 DEF TableInv, OfficeTypeOK
  <2>1. ASSUME UNCHANGED db PROVE KeepsEnded
    BY <1>1, <2>1 DEF db, TableInv, AbsentIsClean
  <2>2. CASE CommitBatch
    BY <1>1, <2>0, <2>2, CommitRow DEF TableInv, AbsentIsClean, CommitBatch
  <2>3. CASE Office \/ (Stored /\ NoEdit)
    <3>1. pc' = pc
      BY <1>1, <2>3, TableStep DEF TableInv, process
    <3> QED
      BY <3>1
  <2>4. CASE Loop /\ ~CommitBatch
    <3>1. UNCHANGED db
      BY <2>4, LoopSteps DEF Quiet, Ended, LoadCycle, EvalPriced
    <3> QED
      BY <2>1, <3>1
  <2>5. CASE UNCHANGED officeVars
    BY <2>1, <2>5 DEF officeVars, vars
  <2> QED
    BY <1>1, <2>2, <2>3, <2>4, <2>5, OfficeSteps
<1>2. TableInv /\ [OfficeNext]_officeVars => [KeepsEnded]_officeVars
  BY <1>1
<1> QED
  BY <1>2, TableInvariance, PTL DEF OfficeSpec, EndedMeanwhileIsKept

\* However the operator closes, deletes and adds scenarios around it, and whatever fails,
\* the evaluator holds at most one position per signal, as long as no edit puts a scenario
\* back to running (main.py:29-31; services/office/db.py, 566-637).
THEOREM OneEnteredOffice ==
    ASSUME "running" \notin EditChoices PROVE OfficeSpec => []OneEnteredDespiteOffice
<1>1. OfficeInit => OfficeInv
  BY OfficeInitType
  DEF OfficeInit, Init, OfficeInv, RowsStay, EntriesAreNew, OneEnteredPerSignal, Entered, Running
<1>2. OfficeInv /\ [OfficeNext]_officeVars => OfficeInv'
  BY OfficeNextInv
<1>3. OfficeInv => OneEnteredDespiteOffice
  BY DEF OfficeInv, OneEnteredDespiteOffice
<1> QED
  BY <1>1, <1>2, <1>3, PTL DEF OfficeSpec
=============================================================================
