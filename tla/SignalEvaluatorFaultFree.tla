----------------------- MODULE SignalEvaluatorFaultFree -----------------------
(***************************************************************************)
(* The evaluation loop as long as nothing fails (MaxFaults = 0): Redis and *)
(* Postgres agree, one scenario of a signal is traded, the log tells its   *)
(* story, and the loop implements ScenarioLifecycle.  The price feed may   *)
(* still stop, and keys may run out.                                       *)
(***************************************************************************)
EXTENDS SignalEvaluatorHistory, SequenceTheorems

-----------------------------------------------------------------------------
(* The invariant *)

\* The loop starts once, before anything was entered.
StartInv == pc = "down" => rEntered = {} /\ \A s \in Scenario : ~active[s]

\* A target is reached and the scenario over in the same evaluation.
NoTarget == \A s \in Scenario : rTp[s] = 0

\* In a position once the batch is written.
Held(s) == (active[s] \/ s \in bActivated) /\ bOutcome[s] = "running"

\* Redis is ahead of Postgres by what the batch enters and ends; only the flag of an
\* older entry may have run out.
FlagInv ==
    \A s \in Scenario :
        /\ s \in rEntered => Held(s)
        /\ Held(s) => s \in rEntered \/ (lapses[s] > 0 /\ s \notin bActivated)

\* A win or a loss in the batch is of a position.
WonInv ==
    \A s \in Scenario :
        bOutcome[s] \in {"success", "failed"} => s \in snapActive \cup bActivated

\* What was traded is the only scenario of its signal that was, and none of the others
\* can still be.
TradedInv ==
    \A s \in Traded, t \in Scenario :
        SignalOf[s] = SignalOf[t] /\ s # t =>
            t \notin Traded /\ status[t] \notin {"absent", "running"}

\* The scenarios of a signal are stored together.
StoredTogether ==
    \A s, t \in Scenario :
        SignalOf[s] = SignalOf[t] => (status[s] = "absent" <=> status[t] = "absent")

FInv == StartInv /\ NoTarget /\ FlagInv /\ WonInv /\ StoredTogether /\ TradedInv
            /\ OutcomeHasEntry

-----------------------------------------------------------------------------
(* The event log *)

\* How often x occurs in the first n events of q.
CountTo(x, q, n) == Cardinality({j \in 1 .. n : q[j] = x})

\* e may follow the first n events of q, when lost keys have run out.
MayFollow(e, q, n, lost) ==
    LET starts == CountTo("data_gap_start", q, n)
        ends   == CountTo("data_gap_end", q, n)
    IN  /\ e \in {"tp_hit", "sl_hit", "data_gap_start"} => CountTo("entered", q, n) > 0
        /\ e \in {"data_gap_start", "tp_hit", "sl_hit", "completed"} => starts <= ends + lost
        /\ e = "data_gap_end" => ends + 1 <= starts /\ starts <= ends + 1 + lost
        /\ CountTo("completed", q, n) > 0 \/ CountTo("cancelled", q, n) > 0
            => e = "cancelled"

Told(q, lost) == \A i \in 1 .. Len(q) : MayFollow(q[i], q, i - 1, lost)

\* Every gap is closed but the one that is open, and those whose key ran out.
Bracketed(q, open, lost) ==
    /\ Count("data_gap_end", q) + One(open) <= Count("data_gap_start", q)
    /\ Count("data_gap_start", q) <= Count("data_gap_end", q) + One(open) + lost

\* The log of s once the batch is written, but for a cancellation.
Log(s) == events[s] \o bEvents[s]

\* Redis knows whether a gap is open, Postgres and the batch whether s has entered or
\* ended; only positions have gaps.
StoryInv ==
    /\ pc \in {"down", "idle"} => \A s \in Scenario : bEvents[s] = <<>>
    /\ \A s \in rGap : active[s]
    /\ \A s \in Scenario :
        /\ Told(events[s], lapses[s]) /\ Told(Log(s), lapses[s])
        /\ Bracketed(Log(s), s \in rGap, lapses[s])
        /\ status[s] \in {"absent", "running"} => Count("cancelled", Log(s)) = 0

-----------------------------------------------------------------------------
(* As long as nothing fails *)

LEMMA NothingFails ==
    ASSUME MaxFaults = 0, IInv PROVE ~Faults
<1>1. ~Fault
  BY DEF IInv, TypeOK, Fault
<1>2. \A s \in Writes : status[s] # "absent"
  BY DEF Writes, IInv, ReadTogether, Running
<1>3. ~CommitFails
  BY <1>1, <1>2, Zenon DEF CommitFails
<1>4. ~(\E s \in Scenario : EvalRaises(s) \/ RedisEvicts(s))
  BY <1>1 DEF EvalRaises, RedisEvicts
<1>5. ~RecoverFails /\ ~LoadFails /\ ~CancelRaises /\ ~Crash /\ ~RedisRestart
  BY <1>1 DEF RecoverFails, LoadFails, CancelRaises, Crash, RedisRestart
<1> QED
  BY <1>3, <1>4, <1>5 DEF Faults

LEMMA TimesIsCount ==
    \A s \in Scenario : \A x : Times(x, s) = Count(x, events[s])
  BY DEF Times, Count

LEMMA InitFree == Init => FInv
<1> SUFFICES ASSUME Init PROVE FInv
  OBVIOUS
<1>1. StartInv /\ NoTarget /\ FlagInv /\ WonInv /\ StoredTogether
  BY DEF Init, StartInv, NoTarget, FlagInv, Held, WonInv, StoredTogether
<1>2. Traded = {}
  BY DEF Init, Traded, NoRow
<1> QED
  BY <1>1, <1>2 DEF FInv, TradedInv, OutcomeHasEntry

\* Steps that change nothing FInv speaks of, and do not stop the loop.
LEMMA QuietFree ==
    ASSUME FInv, UNCHANGED <<db, rEntered, rTp, snapActive, bOutcome, bActivated, lapses>>,
           pc' = "down" => pc = "down"
    PROVE  FInv'
<1> USE DEF db
<1>1. StartInv' /\ NoTarget' /\ FlagInv' /\ WonInv' /\ StoredTogether'
  BY DEF FInv, StartInv, NoTarget, FlagInv, Held, WonInv, StoredTogether
<1>2. Traded' = Traded /\ \A s \in Scenario : Times("entered", s)' = Times("entered", s)
  BY DEF Traded, Times
<1>3. TradedInv' /\ OutcomeHasEntry'
  BY <1>2 DEF FInv, TradedInv, OutcomeHasEntry, Traded
<1> QED
  BY <1>1, <1>3 DEF FInv

\* A key that runs out is counted, and no fresh entry is lost with it.
LEMMA LapseFree ==
    ASSUME TypeOK, FInv, NEW s \in Scenario, KeyRunsOut(s)
    PROVE  FInv'
<1> USE DEF db, process, loaded, batch
<1>1. /\ UNCHANGED <<db, process, rTp>> /\ rEntered' \subseteq rEntered
      /\ rEntered \ rEntered' \subseteq {s} \ bActivated
  BY Zenon DEF KeyRunsOut
<1>2. lapses'[s] > 0 /\ \A t \in Scenario : lapses[t] > 0 => lapses'[t] > 0
  <2>1. lapses' = [lapses EXCEPT ![s] = @ + 1]
    BY DEF KeyRunsOut
  <2>2. \A t \in Scenario : lapses[t] \in Nat
    BY BoundAssumption DEF TypeOK
  <2> QED
    BY <2>1, <2>2 DEF TypeOK
<1>3. FlagInv'
  <2>1. \A t \in Scenario : Held(t)' <=> Held(t)
    BY <1>1 DEF Held
  <2>2. ASSUME NEW t \in Scenario, Held(t)
        PROVE  t \in rEntered' \/ (lapses'[t] > 0 /\ t \notin bActivated')
    BY <1>1, <1>2, <2>2 DEF FInv, FlagInv
  <2> QED
    BY <1>1, <2>1, <2>2 DEF FInv, FlagInv
<1>4. StartInv' /\ NoTarget' /\ WonInv' /\ StoredTogether'
  BY <1>1 DEF FInv, StartInv, NoTarget, WonInv, StoredTogether
<1>5. Traded' = Traded /\ \A t \in Scenario : Times("entered", t)' = Times("entered", t)
  BY <1>1 DEF Traded, Times
<1>6. TradedInv' /\ OutcomeHasEntry'
  BY <1>1, <1>5 DEF FInv, TradedInv, OutcomeHasEntry, Traded
<1> QED
  BY <1>3, <1>4, <1>6 DEF FInv

LEMMA LoadFree ==
    ASSUME IInv, FInv, LoadCycle
    PROVE  FInv'
<1> USE DEF db, redis
<1>1. bActivated = {} /\ \A s \in Scenario : bOutcome[s] = "running"
  BY DEF LoadCycle, IInv, ReadTogether, TypeOK, BatchInv
<1>2. StartInv' /\ NoTarget' /\ StoredTogether'
  BY DEF LoadCycle, FInv, StartInv, NoTarget, StoredTogether
<1>3. FlagInv' /\ WonInv'
  BY <1>1 DEF LoadCycle, EmptyBatch, FInv, FlagInv, Held, WonInv, world
<1>4. /\ UNCHANGED db /\ Traded' = Traded
      /\ \A s \in Scenario : Times("entered", s)' = Times("entered", s)
  BY DEF LoadCycle, Traded, Times
<1>5. TradedInv' /\ OutcomeHasEntry'
  BY <1>4 DEF FInv, TradedInv, OutcomeHasEntry, Traded
<1> QED
  BY <1>2, <1>3, <1>5 DEF FInv

\* An evaluation sets the entered flag of what it enters and clears it at the end.
LEMMA EvalFree ==
    ASSUME IInv, FInv, NEW s \in Scenario, EvalPriced(s)
    PROVE  FInv'
<1> USE DEF db
<1>1. /\ status[s] = "running" /\ bOutcome[s] = "running" /\ s \notin bActivated
      /\ s \in snap
  BY TodoRow DEF EvalPriced
<1>2. PICK obs \in Observation : EvalWith(s, obs)
  BY DEF EvalPriced
<1>3. TypeOK /\ (s \in snapActive <=> active[s])
  BY <1>1 DEF IInv, ReadTogether
<1>4. WasEntered(s) <=> active[s]
  BY <1>1, <1>3 DEF FInv, FlagInv, Held, WasEntered
<1>5. /\ bOutcome'[s] = Verdict(s, obs)
      /\ \A t \in Scenario : t # s => bOutcome'[t] = bOutcome[t]
  BY <1>2, <1>3 DEF EvalWith, TypeOK
<1>6. bActivated' = IF NewlyEntered(s, obs) THEN bActivated \cup {s} ELSE bActivated
  BY <1>2 DEF EvalWith
<1>7. rEntered' = IF IsEntered(s, obs) /\ Verdict(s, obs) = "running"
                  THEN rEntered \cup {s} ELSE rEntered \ {s}
  BY <1>2 DEF EvalWith, EvalRedis
<1>8. IsEntered(s, obs) <=> active[s] \/ NewlyEntered(s, obs)
  BY <1>4 DEF IsEntered, NewlyEntered
<1>9. FlagInv'
  <2>1. UNCHANGED <<active, lapses>>
    BY DEF EvalPriced, world
  <2>2. s \in rEntered' <=> Held(s)'
    BY <1>1, <1>5, <1>6, <1>7, <1>8, <2>1 DEF Held
  <2>3. ASSUME NEW t \in Scenario, t # s
        PROVE  /\ t \in rEntered' => Held(t)'
               /\ Held(t)' => t \in rEntered' \/ (lapses'[t] > 0 /\ t \notin bActivated')
    BY <1>5, <1>6, <1>7, <2>1, <2>3 DEF FInv, FlagInv, Held
  <2> QED
    BY <2>2, <2>3 DEF FlagInv
<1>10. WonInv'
  <2>1. UNCHANGED snapActive
    BY DEF EvalPriced, loaded
  <2>2. Verdict(s, obs) \in {"success", "failed"} => IsEntered(s, obs)
    BY DEF Verdict
  <2> QED
    BY <1>3, <1>5, <1>6, <1>8, <2>1, <2>2 DEF FInv, WonInv
<1>11. NoTarget'
  <2>1. IsEntered(s, obs) /\ Verdict(s, obs) = "running" => ~(BestTp(s, obs) > 0)
    BY DEF Verdict
  <2>2. BestTp(s, obs) \in 0 .. MaxTP
    BY <1>3, BestTpType
  <2>3. IsEntered(s, obs) /\ Verdict(s, obs) = "running" => BestTp(s, obs) = 0
    BY <2>1, <2>2, BoundAssumption
  <2>4. rTp' = [rTp EXCEPT ![s] = IF Verdict(s, obs) # "running" THEN 0
                                  ELSE IF IsEntered(s, obs) THEN BestTp(s, obs) ELSE @]
    BY <1>2 DEF EvalWith, EvalRedis
  <2> QED
    BY <1>3, <2>3, <2>4 DEF TypeOK, FInv, NoTarget
<1>12. StartInv' /\ StoredTogether'
  BY DEF EvalPriced, FInv, StartInv, StoredTogether
<1>13. /\ UNCHANGED db /\ Traded' = Traded
       /\ \A t \in Scenario : Times("entered", t)' = Times("entered", t)
  BY DEF EvalPriced, Traded, Times
<1>14. TradedInv' /\ OutcomeHasEntry'
  BY <1>13 DEF FInv, TradedInv, OutcomeHasEntry, Traded
<1> QED
  BY <1>9, <1>10, <1>11, <1>12, <1>14 DEF FInv

\* The siblings to be cancelled had no flag.
LEMMA CancelFree ==
    ASSUME IInv, FInv, CancelSiblings
    PROVE  FInv'
<1> USE DEF db, loaded
<1>1. \A s \in SiblingCancel : s \notin rEntered
  BY DEF SiblingCancel, FInv, FlagInv, Held, IInv, ReadTogether, TypeOK
<1>2. rEntered' = rEntered
  BY <1>1 DEF CancelSiblings
<1>3. \A s \in Scenario : rTp'[s] = 0
  BY DEF CancelSiblings, FInv, NoTarget
<1>4. StartInv' /\ NoTarget' /\ FlagInv' /\ WonInv' /\ StoredTogether'
  BY <1>2, <1>3
  DEF CancelSiblings, FInv, StartInv, NoTarget, FlagInv, Held, WonInv, StoredTogether, world
<1>5. /\ UNCHANGED db /\ Traded' = Traded
      /\ \A s \in Scenario : Times("entered", s)' = Times("entered", s)
  BY DEF CancelSiblings, Traded, Times
<1>6. TradedInv' /\ OutcomeHasEntry'
  BY <1>5 DEF FInv, TradedInv, OutcomeHasEntry, Traded
<1> QED
  BY <1>4, <1>6 DEF FInv

LEMMA StoreFree ==
    ASSUME IInv, HInv, FInv, NEW g \in Signal, StoreSignal(g)
    PROVE  FInv'
<1> USE DEF redis, process, loaded, batch
<1>1. /\ UNCHANGED <<active, result, events, redis, process, lapses>>
      /\ \A s \in Scenario : status'[s] = IF SignalOf[s] = g THEN "running" ELSE status[s]
      /\ \A s \in Scenario : SignalOf[s] = g => status[s] = "absent"
  BY DEF StoreSignal, ScenariosOf, world
<1>2. ASSUME NEW s \in Scenario, SignalOf[s] = g PROVE s \notin Traded /\ s \notin Traded'
  <2>1. status[s] = "absent" /\ status'[s] = "running"
    BY <1>1, <1>2
  <2>2. ~active[s] /\ result[s].entered = active[s]
    BY <2>1 DEF IInv, ActiveRuns, HInv, RowAudit
  <2> QED
    BY <1>1, <2>1, <2>2 DEF Traded
<1>3. Traded' = Traded
  BY <1>1, <1>2 DEF Traded
<1>4. StartInv' /\ NoTarget' /\ FlagInv' /\ WonInv'
  BY <1>1 DEF FInv, StartInv, NoTarget, FlagInv, Held, WonInv
<1>5. StoredTogether'
  BY <1>1 DEF FInv, StoredTogether
<1>6. TradedInv'
  <2> SUFFICES ASSUME NEW s \in Traded', NEW t \in Scenario, SignalOf[s] = SignalOf[t], s # t
               PROVE  t \notin Traded' /\ status'[t] \notin {"absent", "running"}
    BY DEF TradedInv
  <2>1. s \in Traded /\ s \in Scenario /\ SignalOf[s] # g
    BY <1>2, <1>3 DEF Traded
  <2> QED
    BY <1>1, <1>3, <2>1 DEF FInv, TradedInv
<1>7. OutcomeHasEntry'
  <2>1. \A s \in Scenario : Times("entered", s)' = Times("entered", s)
    BY <1>1 DEF Times
  <2> QED
    BY <1>1, <1>3, <2>1 DEF FInv, OutcomeHasEntry, Traded
<1> QED
  BY <1>4, <1>5, <1>6, <1>7 DEF FInv

\* What the transaction trades is what it enters.
LEMMA CommitTraded ==
    ASSUME IInv, HInv, FInv, CommitBatch, NEW s \in Traded'
    PROVE  s \in Scenario /\ (s \in Traded \/ s \in bActivated)
<1>1. s \in Scenario /\ pc = "write"
  BY DEF Traded, CommitBatch
<1>2. CASE result'[s].entered
  BY <1>1, <1>2, CommitResult DEF Traded
<1>3. CASE status'[s] \in {"success", "failed"} /\ bOutcome[s] # "running"
  <2>1. bOutcome[s] \in {"success", "failed"}
    BY <1>1, <1>3, CommitStatus
  <2>2. s \in snapActive => active[s] /\ status[s] = "running"
    BY DEF IInv, ReadTogether, Running
  <2>3. active[s] /\ status[s] = "running" => result[s].entered
    BY <1>1 DEF HInv, RowAudit
  <2> QED
    BY <1>1, <2>1, <2>2, <2>3 DEF FInv, WonInv, Traded
<1>4. CASE status'[s] \in {"success", "failed"} /\ bOutcome[s] = "running"
  <2>1. status'[s] = status[s]
    BY <1>1, <1>4, CommitStatus
  <2> QED
    BY <1>1, <1>4, <2>1 DEF Traded
<1> QED
  BY <1>2, <1>3, <1>4 DEF Traded

\* What the batch enters was not traded yet, and no sibling of it was.
LEMMA EntryIsFirst ==
    ASSUME IInv, HInv, FInv, pc = "write", NEW a \in bActivated
    PROVE  /\ a \in Scenario /\ a \notin Traded
           /\ \A t \in Scenario : SignalOf[t] = SignalOf[a] => t \notin Traded
<1>1. a \in Scenario
  BY DEF IInv, TypeOK
<1>2. status[a] = "running" /\ ~active[a]
  BY <1>1, DecidedRuns
<1>3. a \notin Traded
  BY <1>1, <1>2 DEF HInv, RowAudit, Traded
<1> QED
  BY <1>1, <1>2, <1>3 DEF FInv, TradedInv

LEMMA CommitFree ==
    ASSUME IInv, HInv, FInv, CommitBatch
    PROVE  FInv'
<1>0. pc = "write"
  BY DEF CommitBatch
<1>1. StartInv' /\ NoTarget'
  BY DEF CommitBatch, redis, FInv, StartInv, NoTarget
<1>2. FlagInv' /\ WonInv'
  <2>1. \A s \in Scenario : bOutcome'[s] = "running" /\ s \notin bActivated'
    BY DEF CommitBatch, EndCycle, EmptyBatch
  <2>2. UNCHANGED <<rEntered, lapses>>
    BY DEF CommitBatch, redis, world
  <2>3. \A s \in Scenario : Held(s)' <=> Held(s)
    BY <2>1, CommitStatus DEF Held
  <2> QED
    BY <2>1, <2>2, <2>3 DEF FInv, FlagInv, WonInv
<1>3. ASSUME NEW s \in Scenario
      PROVE  /\ status'[s] = "absent" <=> status[s] = "absent"
             /\ status[s] \notin {"absent", "running"} =>
                    status'[s] = status[s] /\ s \notin bActivated
  <2>1. bOutcome[s] \in Outcome \cup {"running"} /\ "absent" \notin Outcome
    BY DEF IInv, TypeOK, Outcome
  <2> QED
    BY <1>0, <2>1, CommitStatus, DecidedRuns
<1>4. StoredTogether'
  BY <1>3 DEF FInv, StoredTogether
<1>5. TradedInv'
  <2> SUFFICES ASSUME NEW s \in Traded', NEW t \in Scenario, SignalOf[s] = SignalOf[t], s # t
               PROVE  t \notin Traded' /\ status'[t] \notin {"absent", "running"}
    BY DEF TradedInv
  <2>1. CASE s \in Traded
    <3>1. t \notin Traded /\ status[t] \notin {"absent", "running"}
      BY <2>1 DEF FInv, TradedInv
    <3> QED
      BY <1>3, <3>1, CommitTraded
  <2>2. CASE s \in bActivated
    <3>1. /\ s \in Scenario /\ t \notin Traded
          /\ status[s] = "running"
      BY <1>0, <2>2, EntryIsFirst, DecidedRuns
    <3>2. t \notin bActivated
      BY <2>2 DEF IInv, EntriesAreNew
    <3>3. status[t] # "absent"
      BY <3>1 DEF FInv, StoredTogether
    <3>4. status[t] = "running" => t \in bSiblings
      BY <1>0, <2>2, EntryTakesSignal DEF Running
    <3>5. bOutcome[t] \in Outcome \cup {"running"} /\ "running" \notin Outcome
             /\ "absent" \notin Outcome
      BY DEF IInv, TypeOK, Outcome
    <3>6. status'[t] \notin {"absent", "running"}
      BY <3>3, <3>4, <3>5, CommitStatus
    <3> QED
      BY <3>1, <3>2, <3>6, CommitTraded
  <2> QED
    BY <2>1, <2>2, CommitTraded
<1>6. OutcomeHasEntry'
  <2> SUFFICES ASSUME NEW s \in Traded'
               PROVE  result'[s].entered /\ Times("entered", s)' = 1
    BY DEF OutcomeHasEntry
  <2>1. s \in Scenario
    BY CommitTraded
  <2>2. Times("entered", s)' = Count("entered", events'[s])
    BY DEF Times, Count
  <2>3. CASE s \in Traded
    <3>1. result[s].entered /\ Count("entered", events[s]) = 1
      BY <2>1, <2>3, TimesIsCount DEF FInv, OutcomeHasEntry
    <3>2. s \notin bActivated
      BY <1>0, <2>3, EntryIsFirst
    <3> QED
      BY <2>1, <2>2, <3>1, <3>2, CommitLog, CommitResult DEF One
  <2>4. CASE s \in bActivated
    <3>1. status[s] = "running" /\ ~active[s]
      BY <1>0, <2>1, <2>4, DecidedRuns
    <3>2. Count("entered", events[s]) = 0
      BY <2>1, <3>1 DEF HInv, RowAudit, One
    <3> QED
      BY <2>1, <2>2, <2>4, <3>2, CommitLog, CommitResult DEF One
  <2> QED
    BY <2>3, <2>4, CommitTraded
<1> QED
  BY <1>1, <1>2, <1>4, <1>5, <1>6 DEF FInv

LEMMA NextFree == MaxFaults = 0 /\ IInv /\ HInv /\ FInv /\ [Next]_vars => FInv'
<1> SUFFICES ASSUME MaxFaults = 0, IInv, HInv, FInv, [Next]_vars PROVE FInv'
  OBVIOUS
<1> USE DEF db, redis, loaded, batch, process, world
<1>1. CASE Recover
  <2>1. Entered = {}
    BY <1>1 DEF Recover, FInv, StartInv, Entered, Running
  <2>2. UNCHANGED <<rEntered, rTp>>
    BY <1>1, <2>1 DEF Recover, IInv, TypeOK
  <2> QED
    BY <1>1, <2>2, QuietFree DEF Recover
<1>2. CASE LoadCycle
  BY <1>2, LoadFree
<1>3. ASSUME NEW s \in Scenario, EvalNoPrice(s) PROVE FInv'
  BY <1>3, QuietFree DEF EvalNoPrice
<1>4. ASSUME NEW s \in Scenario, EvalPriced(s) PROVE FInv'
  BY <1>4, EvalFree
<1>5. CASE CancelSiblings
  BY <1>5, CancelFree
<1>6. CASE CommitBatch
  BY <1>6, CommitFree
<1>7. ASSUME NEW g \in Signal, StoreSignal(g) PROVE FInv'
  BY <1>7, StoreFree
<1>8. ASSUME NEW g \in Signal, FeedStops(g) \/ FeedReturns(g) PROVE FInv'
  BY <1>8, QuietFree DEF FeedStops, FeedReturns
<1>9. ASSUME NEW s \in Scenario, Expire(s) PROVE FInv'
  BY <1>9, QuietFree DEF Expire
<1>10. CASE UNCHANGED vars
  BY <1>10, QuietFree DEF vars
<1>11. ASSUME NEW s \in Scenario, KeyRunsOut(s) PROVE FInv'
  BY <1>11, LapseFree DEF IInv
<1> QED
  BY <1>1, <1>2, <1>3, <1>4, <1>5, <1>6, <1>7, <1>8, <1>9, <1>10, <1>11, NothingFails
  DEF Next, Evaluator, EvalOne, Environment

\* As long as nothing fails the four agreements hold in every reachable state.
THEOREM FaultFreeInvariance == ASSUME MaxFaults = 0 PROVE Spec => []FInv
<1>1. IInv /\ HInv /\ FInv /\ [Next]_vars => FInv'
  BY NextFree
<1> QED
  BY <1>1, InitFree, Invariance, HistoryInvariance, PTL DEF Spec

\* main.py:29-31 over the life of a signal: as long as nothing fails only one of its
\* scenarios is ever traded.
THEOREM OneTrade == ASSUME MaxFaults = 0 PROVE Spec => []OneTradePerSignal
<1>1. FInv => OneTradePerSignal
  BY DEF FInv, TradedInv, OneTradePerSignal, Traded
<1> QED
  BY <1>1, FaultFreeInvariance, PTL

\* As long as nothing fails a win or a loss has its entry in the row and in the log
\* (_eval, 538-626; _UPSERT_SQL, 771-802; _batch_write, 817-866).
THEOREM OutcomeEntered == ASSUME MaxFaults = 0 PROVE Spec => []OutcomeHasEntry
<1>1. FInv => OutcomeHasEntry
  BY DEF FInv
<1> QED
  BY <1>1, FaultFreeInvariance, PTL

\* As long as nothing fails Redis and Postgres agree between two cycles, although the
\* keys are written before the transaction (_confirm_entry, 442-497; _cleanup, 374-388;
\* _batch_write, 817-920): Redis marks no scenario that is not in a position, and every
\* position of which no key has run out.
THEOREM Agree == ASSUME MaxFaults = 0 PROVE Spec => []StoresAgree
<1>1. IInv /\ HInv /\ FInv => StoresAgree
  <2> SUFFICES ASSUME IInv, HInv, FInv, pc = "idle"
               PROVE  /\ rEntered \subseteq Entered /\ rFirst \subseteq Running
                      /\ \A s \in Entered : s \in rEntered \/ lapses[s] > 0
                      /\ \A s \in Scenario : rTp[s] = 0
    BY DEF StoresAgree
  <2>1. bActivated = {} /\ \A s \in Scenario : bOutcome[s] = "running"
    BY DEF IInv, ReadTogether, TypeOK, BatchInv
  <2>2. \A s \in Scenario : active[s] => status[s] = "running"
    BY DEF IInv, ActiveRuns
  <2>3. \A s \in Scenario : Held(s) <=> s \in Entered
    BY <2>1, <2>2 DEF Held, Entered, Running
  <2>5. rEntered \subseteq Entered /\ \A s \in Entered : s \in rEntered \/ lapses[s] > 0
    BY <2>3 DEF FInv, FlagInv, Entered, Running, IInv, TypeOK
  <2>4. rFirst \subseteq Running
    BY DEF HInv, KeysInv, HasKeys, Running, IInv, TypeOK
  <2> QED
    BY <2>4, <2>5 DEF FInv, NoTarget
<1> QED
  BY <1>1, Invariance, HistoryInvariance, FaultFreeInvariance, PTL

-----------------------------------------------------------------------------
(* The loop implements ScenarioLifecycle *)

LEMMA PhaseType == StatusInv' => Phases' \in [Scenario -> Lifecycle!Phase]
  BY DEF StatusInv, Phases, PhaseOf, Outcome, Lifecycle!Phase, Lifecycle!Closed

LEMMA InitRefines == Init => Lifecycle!Init
  BY DEF Init, Phases, PhaseOf, Lifecycle!Init

\* The batch makes one move of each signal: Enter where it enters, else Settle.
LEMMA CommitRefines ==
    ASSUME IInv, HInv, FInv, HInv', CommitBatch
    PROVE  Lifecycle!Next
<1>0. pc = "write"
  BY DEF CommitBatch
<1>1. Phases' \in [Scenario -> Lifecycle!Phase]
  BY PhaseType DEF HInv
<1>2. \A s \in Scenario : Phases[s] = PhaseOf(s) /\ Phases'[s] = PhaseOf(s)'
  BY DEF Phases
<1>3. ASSUME NEW s \in Scenario
      PROVE  /\ bOutcome[s] \in {"running"} \cup Lifecycle!Closed
             /\ ~active[s] /\ s \notin bActivated /\ bOutcome[s] # "running" =>
                    bOutcome[s] = "expired"
             /\ active[s] => status[s] = "running"
             /\ bOutcome[s] # "running" => status'[s] = bOutcome[s]
  <2>1. bOutcome[s] \in {"running"} \cup Lifecycle!Closed
    BY DEF IInv, TypeOK, Outcome, Lifecycle!Closed
  <2>2. s \in snapActive => active[s]
    BY DEF IInv, ReadTogether
  <2>3. bOutcome[s] \in {"success", "failed"} => s \in snapActive \cup bActivated
    BY DEF FInv, WonInv
  <2> QED
    BY <2>1, <2>2, <2>3, CommitStatus DEF IInv, ActiveRuns, Lifecycle!Closed
<1>4. ASSUME NEW s \in Scenario, bOutcome[s] # "running"
      PROVE  Phases'[s] = bOutcome[s] /\ Phases'[s] \in Lifecycle!Closed
  <2>1. status'[s] = bOutcome[s] /\ status'[s] # "running" /\ bOutcome[s] \in Lifecycle!Closed
    BY <1>3, <1>4
  <2> QED
    BY <1>2, <2>1 DEF PhaseOf
<1>5. ASSUME NEW s \in Scenario, bOutcome[s] = "running", s \notin bSiblings, s \notin bActivated
      PROVE  Phases'[s] = Phases[s]
  BY <1>2, <1>5, CommitStatus DEF PhaseOf
<1>6. ASSUME NEW g \in Signal, NEW a \in bActivated, SignalOf[a] = g
      PROVE  Lifecycle!Enter(g)
  <2>1. a \in Scenario /\ status[a] = "running" /\ ~active[a] /\ a \notin bSiblings
    BY <1>0, DecidedRuns DEF IInv, TypeOK
  <2>2. a \in Lifecycle!Of(g) /\ Phases[a] = "waiting"
    BY <1>2, <1>6, <2>1 DEF Lifecycle!Of, PhaseOf
  <2>3. Phases'[a] \in {"open"} \cup Lifecycle!Closed
    <3>1. CASE bOutcome[a] # "running"
      BY <1>4, <2>1, <3>1
    <3>2. CASE bOutcome[a] = "running"
      BY <1>2, <2>1, <3>2, CommitStatus DEF PhaseOf
    <3> QED
      BY <3>1, <3>2
  <2>4. ASSUME NEW s \in Lifecycle!Of(g) \ {a}
        PROVE  IF Phases[s] = "waiting" THEN Phases'[s] \in {"cancelled", "expired"}
                                        ELSE Phases'[s] = Phases[s]
    <3>1. s \in Scenario /\ SignalOf[s] = g /\ s # a
      BY DEF Lifecycle!Of
    <3>2. CASE status[s] = "running"
      <4>1. ~active[s] /\ s \notin bActivated /\ s \in bSiblings
        BY <1>0, <1>6, <3>1, <3>2, EntryTakesSignal DEF Running
      <4>2. Phases[s] = "waiting"
        BY <1>2, <3>1, <3>2, <4>1 DEF PhaseOf
      <4>3. CASE bOutcome[s] # "running"
        BY <1>3, <1>4, <3>1, <4>1, <4>2, <4>3
      <4>4. CASE bOutcome[s] = "running"
        <5>1. status'[s] = "cancelled"
          BY <3>1, <4>1, <4>4, CommitStatus
        <5> QED
          BY <1>2, <3>1, <4>2, <5>1 DEF PhaseOf
      <4> QED
        BY <4>3, <4>4
    <3>3. CASE status[s] # "running"
      <4>1. bOutcome[s] = "running" /\ s \notin bSiblings /\ s \notin bActivated
        BY <1>0, <3>1, <3>3, DecidedRuns
      <4>2. Phases[s] # "waiting" \/ status[s] = "waiting"
        BY <1>2, <3>1, <3>3 DEF PhaseOf
      <4>3. status[s] # "waiting"
        BY <3>1 DEF HInv, StatusInv, Outcome
      <4> QED
        BY <1>5, <3>1, <4>1, <4>2, <4>3
    <3> QED
      BY <3>2, <3>3
  <2> QED
    BY <2>2, <2>3, <2>4 DEF Lifecycle!Enter
<1>7. ASSUME NEW g \in Signal, ~\E a \in bActivated : SignalOf[a] = g
      PROVE  Lifecycle!Settle(g)
  <2> SUFFICES ASSUME NEW s \in Lifecycle!Of(g)
               PROVE  \/ Phases'[s] = Phases[s]
                      \/ Phases[s] = "open" /\ Phases'[s] \in Lifecycle!Closed
                      \/ Phases[s] = "waiting" /\ Phases'[s] = "expired"
    BY DEF Lifecycle!Settle
  <2>1. s \in Scenario /\ SignalOf[s] = g /\ s \notin bActivated
    BY <1>7 DEF Lifecycle!Of
  <2>2. s \notin bSiblings
    BY <1>0, <1>7, <2>1 DEF IInv, BatchInv, SiblingCancel
  <2>3. CASE bOutcome[s] = "running"
    BY <1>5, <2>1, <2>2, <2>3
  <2>4. CASE bOutcome[s] # "running"
    <3>1. status[s] = "running"
      BY <1>0, <2>1, <2>4, DecidedRuns
    <3>2. CASE active[s]
      BY <1>2, <1>4, <2>1, <2>4, <3>1, <3>2 DEF PhaseOf
    <3>3. CASE ~active[s]
      BY <1>2, <1>3, <1>4, <2>1, <2>4, <3>1, <3>3 DEF PhaseOf
    <3> QED
      BY <3>2, <3>3
  <2> QED
    BY <2>3, <2>4
<1> QED
  BY <1>1, <1>6, <1>7 DEF Lifecycle!Next

LEMMA StoreRefines ==
    ASSUME HInv', NEW g \in Signal, StoreSignal(g), ActiveRuns
    PROVE  Lifecycle!Next
<1>1. Phases' \in [Scenario -> Lifecycle!Phase]
  BY PhaseType DEF HInv
<1>2. \A s \in Scenario : Phases[s] = PhaseOf(s) /\ Phases'[s] = PhaseOf(s)'
  BY DEF Phases
<1>3. /\ UNCHANGED active
      /\ \A s \in Scenario : status'[s] = IF SignalOf[s] = g THEN "running" ELSE status[s]
      /\ \A s \in Scenario : SignalOf[s] = g => status[s] = "absent"
  BY DEF StoreSignal, ScenariosOf
<1>4. Lifecycle!Store(g)
  BY <1>2, <1>3 DEF Lifecycle!Store, Lifecycle!Of, PhaseOf, ActiveRuns
<1>5. \A h \in Signal : h # g => Lifecycle!Settle(h)
  BY <1>2, <1>3 DEF Lifecycle!Settle, Lifecycle!Of, PhaseOf
<1> QED
  BY <1>1, <1>4, <1>5 DEF Lifecycle!Next

LEMMA NextRefines ==
    MaxFaults = 0 /\ IInv /\ HInv /\ FInv /\ HInv' /\ [Next]_vars
        => [Lifecycle!Next]_Phases
<1> SUFFICES ASSUME MaxFaults = 0, IInv, HInv, FInv, HInv', [Next]_vars
             PROVE  Lifecycle!Next \/ Phases' = Phases
  OBVIOUS
<1> USE DEF db, redis, loaded, batch, process, world
<1>1. CASE UNCHANGED <<status, active>>
  BY <1>1 DEF Phases, PhaseOf
<1>2. CASE CommitBatch
  BY <1>2, CommitRefines
<1>3. ASSUME NEW g \in Signal, StoreSignal(g) PROVE Lifecycle!Next
  BY <1>3, StoreRefines DEF IInv
<1>4. CASE Recover \/ LoadCycle \/ CancelSiblings \/ UNCHANGED vars
  BY <1>1, <1>4 DEF Recover, LoadCycle, CancelSiblings, vars
<1>5. ASSUME NEW s \in Scenario,
             EvalNoPrice(s) \/ EvalPriced(s) \/ Expire(s) \/ KeyRunsOut(s)
      PROVE  Lifecycle!Next \/ Phases' = Phases
  BY <1>1, <1>5 DEF EvalNoPrice, EvalPriced, Expire, KeyRunsOut
<1>6. ASSUME NEW g \in Signal, FeedStops(g) \/ FeedReturns(g)
      PROVE  Lifecycle!Next \/ Phases' = Phases
  BY <1>1, <1>6 DEF FeedStops, FeedReturns
<1> QED
  BY <1>2, <1>3, <1>4, <1>5, <1>6, <1>1, NothingFails
  DEF Next, Evaluator, EvalOne, Environment, vars

\* As long as nothing fails every behaviour of the loop is one of the life cycle its
\* docstring describes (main.py:1-32): the first scenario to enter takes its signal in one
\* step, an ended scenario never changes, and only a position wins or loses.
THEOREM Implements == ASSUME MaxFaults = 0 PROVE Spec => ImplementsLifecycle
<1>1. IInv /\ HInv /\ FInv /\ HInv' /\ [Next]_vars => [Lifecycle!Next]_Phases
  BY NextRefines
<1> QED
  BY <1>1, InitRefines, Invariance, HistoryInvariance, FaultFreeInvariance, PTL
  DEF Spec, ImplementsLifecycle, Lifecycle!Spec

-----------------------------------------------------------------------------
(* What may follow in a log *)

LEMMA CountToFacts ==
    ASSUME NEW q, NEW x, NEW n \in Nat
    PROVE  /\ CountTo(x, q, n) \in Nat
           /\ CountTo(x, q, n) > 0 <=> \E j \in 1 .. n : q[j] = x
           /\ CountTo(x, q, Len(q)) = Count(x, q)
<1> DEFINE S == {j \in 1 .. n : q[j] = x}
<1>1. IsFiniteSet(S)
  <2>1. IsFiniteSet(1 .. n)
    BY FS_Interval
  <2> QED
    BY <2>1, FS_Subset
<1>2. Cardinality(S) \in Nat /\ (Cardinality(S) = 0 <=> S = {})
  BY <1>1, FS_CardinalityType, FS_EmptySet
<1>3. S # {} <=> \E j \in 1 .. n : q[j] = x
  OBVIOUS
<1>4. CountTo(x, q, n) = Cardinality(S) /\ CountTo(x, q, Len(q)) = Count(x, q)
  BY DEF CountTo, Count
<1> HIDE DEF S
<1> QED
  BY <1>2, <1>3, <1>4

\* Concatenation is associative.  The equations have names because an equation between
\* concatenations, as a fact for all sequences, sends the provers in circles.
Regroups(p, q, r) == (p \o q) \o r = p \o (q \o r)
RegroupsFive(q, e1, e2, e3, e4, e5) ==
    q \o (e1 \o e2 \o e3 \o e4 \o e5) = ((((q \o e1) \o e2) \o e3) \o e4) \o e5

LEMMA LogRegroups ==
    ASSUME NEW p \in Seq(EventType), NEW q \in Seq(EventType), NEW r \in Seq(EventType)
    PROVE  Regroups(p, q, r)
  BY ConcatAssociative DEF Regroups

LEMMA LogRegroupsFive ==
    ASSUME NEW q \in Seq(EventType), NEW e1 \in Seq(EventType), NEW e2 \in Seq(EventType),
           NEW e3 \in Seq(EventType), NEW e4 \in Seq(EventType), NEW e5 \in Seq(EventType)
    PROVE  RegroupsFive(q, e1, e2, e3, e4, e5)
<1> DEFINE d2 == e1 \o e2
           d3 == d2 \o e3
           d4 == d3 \o e4
<1>1. d2 \in Seq(EventType)
  OBVIOUS
<1> HIDE DEF d2
<1>2. d3 \in Seq(EventType)
  BY <1>1
<1> HIDE DEF d3
<1>3. d4 \in Seq(EventType)
  BY <1>2
<1> HIDE DEF d4
<1>4. Regroups(q, d4, e5) /\ Regroups(q, d3, e4) /\ Regroups(q, d2, e3) /\ Regroups(q, e1, e2)
  BY <1>1, <1>2, <1>3, LogRegroups
<1> QED
  BY <1>4, Zenon DEF RegroupsFive, Regroups, d2, d3, d4

\* A log goes on with targets, or with one event, that may follow it.
LEMMA ToldConcat ==
    ASSUME NEW q \in Seq(EventType), NEW r \in Seq(EventType), NEW e, NEW lost \in Nat,
           \A j \in 1 .. Len(r) : r[j] = e,
           e = "tp_hit" \/ Len(r) <= 1,
           Told(q, lost), r # <<>> => MayFollow(e, q, Len(q), lost)
    PROVE  Told(q \o r, lost)
<1> DEFINE Marks == {"entered", "completed", "cancelled", "data_gap_start", "data_gap_end"}
<1>1. Len(q) \in Nat /\ Len(r) \in Nat /\ Len(q \o r) = Len(q) + Len(r)
  OBVIOUS
<1>2. /\ \A i \in 1 .. Len(q) : (q \o r)[i] = q[i]
      /\ \A j \in 1 .. Len(r) : (q \o r)[Len(q) + j] = r[j]
  OBVIOUS
<1>3. ASSUME NEW x, NEW n \in 0 .. Len(q)
      PROVE  CountTo(x, q \o r, n) = CountTo(x, q, n)
  <2>1. {j \in 1 .. n : (q \o r)[j] = x} = {j \in 1 .. n : q[j] = x}
    BY <1>1, <1>2
  <2> QED
    BY <2>1 DEF CountTo
<1>4. ASSUME NEW x \in Marks, NEW k \in 1 .. Len(r)
      PROVE  CountTo(x, q \o r, Len(q) + k - 1) = CountTo(x, q, Len(q))
  <2>1. CASE k = 1
    <3>1. Len(q) + k - 1 = Len(q) /\ Len(q) \in 0 .. Len(q)
      BY <1>1, <2>1
    <3> QED
      BY <1>3, <3>1
  <2>2. CASE k # 1
    <3>1. e = "tp_hit"
      BY <1>1, <2>2
    <3>2. \A j \in 1 .. Len(q) + k - 1 : j \notin 1 .. Len(q) => (q \o r)[j] = e
      <4> SUFFICES ASSUME NEW j \in 1 .. Len(q) + k - 1, j \notin 1 .. Len(q)
                   PROVE  (q \o r)[j] = e
        OBVIOUS
      <4>1. j - Len(q) \in 1 .. Len(r) /\ Len(q) + (j - Len(q)) = j
        BY <1>1
      <4> QED
        BY <1>2, <4>1
    <3>3. {j \in 1 .. Len(q) + k - 1 : (q \o r)[j] = x} = {j \in 1 .. Len(q) : q[j] = x}
      <4>1. e # x
        BY <3>1
      <4>2. 1 .. Len(q) \subseteq 1 .. Len(q) + k - 1
        BY <1>1
      <4> QED
        BY <1>2, <3>2, <4>1, <4>2
    <3> QED
      BY <3>3 DEF CountTo
  <2> QED
    BY <2>1, <2>2
<1>5. SUFFICES ASSUME NEW i \in 1 .. Len(q \o r)
               PROVE  MayFollow((q \o r)[i], q \o r, i - 1, lost)
  BY DEF Told
<1>6. CASE i \in 1 .. Len(q)
  <2>1. i - 1 \in 0 .. Len(q) /\ (q \o r)[i] = q[i]
    BY <1>1, <1>2, <1>6
  <2>2. MayFollow(q[i], q, i - 1, lost)
    BY <1>6 DEF Told
  <2>3. \A x \in Marks : CountTo(x, q \o r, i - 1) = CountTo(x, q, i - 1)
    BY <1>3, <2>1
  <2> QED
    BY <2>1, <2>2, <2>3 DEF MayFollow
<1>7. CASE i \notin 1 .. Len(q)
  <2> DEFINE k == i - Len(q)
  <2>1. k \in 1 .. Len(r) /\ Len(q) + k = i /\ i - 1 = Len(q) + k - 1
    BY <1>1, <1>7
  <2> HIDE DEF k
  <2>2. (q \o r)[i] = e /\ r # <<>>
    BY <1>1, <1>2, <2>1
  <2>3. \A x \in Marks : CountTo(x, q \o r, i - 1) = CountTo(x, q, Len(q))
    BY <1>4, <2>1
  <2>4. MayFollow(e, q, Len(q), lost)
    BY <2>2
  <2> QED
    BY <2>2, <2>3, <2>4 DEF MayFollow
<1> QED
  BY <1>6, <1>7

\* The same of a single event that is logged on a condition.
LEMMA ToldIf ==
    ASSUME NEW q \in Seq(EventType), NEW condition \in BOOLEAN, NEW e \in EventType,
           NEW lost \in Nat, Told(q, lost),
           condition =>
               /\ e \in {"tp_hit", "sl_hit", "data_gap_start"} => Count("entered", q) > 0
               /\ e \in {"data_gap_start", "tp_hit", "sl_hit", "completed"} =>
                      Count("data_gap_start", q) <= Count("data_gap_end", q) + lost
               /\ e = "data_gap_end" =>
                      /\ Count("data_gap_end", q) + 1 <= Count("data_gap_start", q)
                      /\ Count("data_gap_start", q) <= Count("data_gap_end", q) + 1 + lost
               /\ Count("completed", q) > 0 \/ Count("cancelled", q) > 0 => e = "cancelled"
    PROVE  Told(q \o If(condition, <<e>>), lost)
<1>1. If(condition, <<e>>) \in Seq(EventType)
  BY CountIf
<1>2. \A j \in 1 .. Len(If(condition, <<e>>)) : If(condition, <<e>>)[j] = e
  BY DEF If
<1>3. Len(If(condition, <<e>>)) <= 1
  BY DEF If
<1>4. If(condition, <<e>>) # <<>> => condition
  BY DEF If
<1>5. \A x : CountTo(x, q, Len(q)) = Count(x, q)
  BY DEF CountTo, Count
<1>6. condition => MayFollow(e, q, Len(q), lost)
  BY <1>5 DEF MayFollow
<1> QED
  BY <1>1, <1>2, <1>3, <1>4, <1>6, ToldConcat

\* An evaluation tells the story on.
LEMMA EvalTold ==
    ASSUME TypeOK, NEW s \in Scenario, NEW obs \in Observation,
           NEW q \in Seq(EventType), NEW lost \in Nat, Told(q, lost),
           s \in rGap => WasEntered(s),
           Count("entered", q) = One(WasEntered(s)),
           Count("completed", q) = 0, Count("cancelled", q) = 0,
           Bracketed(q, s \in rGap, lost)
    PROVE  Told(q \o EvalEvents(s, obs), lost)
<1> DEFINE in   == IsEntered(s, obs)
           hits == IF in THEN BestTp(s, obs) - rTp[s] ELSE 0
           out  == Verdict(s, obs)
           gap  == s \in rGap /\ in
           new  == NewlyEntered(s, obs)
           e1 == If(gap, <<"data_gap_end">>)
           e2 == If(new, <<"entered">>)
           e3 == [i \in 1 .. hits |-> "tp_hit"]
           e4 == If(out = "failed", <<"sl_hit">>)
           e5 == If(out # "running", <<"completed">>)
           Kinds == {"entered", "completed", "data_gap_end", "data_gap_start", "cancelled"}
<1>1. hits \in Nat
  <2>1. BestTp(s, obs) \in 0 .. MaxTP /\ (in => BestTp(s, obs) >= rTp[s])
    BY BestTpType
  <2>2. rTp[s] \in 0 .. MaxTP
    BY DEF TypeOK
  <2> HIDE DEF in
  <2> QED
    BY <2>1, <2>2, BoundAssumption
<1>2. /\ gap \in BOOLEAN /\ new \in BOOLEAN
      /\ (out = "failed") \in BOOLEAN /\ (out # "running") \in BOOLEAN
  BY Zenon DEF NewlyEntered
<1>3. {"data_gap_end", "entered", "tp_hit", "sl_hit", "completed"} \subseteq EventType
  BY DEF EventType
<1>4. EvalEvents(s, obs) = e1 \o e2 \o e3 \o e4 \o e5
  BY DEF EvalEvents
<1>5. /\ in <=> WasEntered(s) \/ new
      /\ new => ~WasEntered(s)
      /\ out = "failed" => in
      /\ gap <=> s \in rGap
      /\ hits # 0 => in
  BY DEF NewlyEntered, IsEntered, Verdict
<1> HIDE DEF in, out, hits, gap, new
<1>6. /\ e1 \in Seq(EventType) /\ e2 \in Seq(EventType)
      /\ e4 \in Seq(EventType) /\ e5 \in Seq(EventType)
  BY <1>2, <1>3, CountIf
<1>7. e3 \in Seq(EventType) /\ Len(e3) = hits /\ \A i \in 1 .. Len(e3) : e3[i] = "tp_hit"
  BY <1>1, <1>3
<1>8. e3 # <<>> => in
  BY <1>1, <1>5, <1>7
<1> HIDE DEF e3
<1>9. ASSUME NEW x \in Kinds
      PROVE  /\ Count(x, e1) = One(gap /\ x = "data_gap_end")
             /\ Count(x, e2) = One(new /\ x = "entered")
             /\ Count(x, e3) = 0 /\ Count(x, e4) = 0
  <2>1. Count(x, e1) = One(gap /\ x = "data_gap_end")
    BY <1>2, <1>3, CountIf
  <2>2. Count(x, e4) = One(out = "failed" /\ x = "sl_hit")
    BY <1>2, <1>3, CountIf
  <2>3. Count(x, e2) = One(new /\ x = "entered")
    BY <1>2, <1>3, CountIf
  <2>4. Count(x, e3) = 0
    BY <1>7, CountNever
  <2> QED
    BY <2>1, <2>2, <2>3, <2>4 DEF One
<1>10. \A x \in Kinds : Count(x, q) \in Nat
  BY Occurrences
<1> DEFINE c1 == q \o e1
           c2 == c1 \o e2
           c3 == c2 \o e3
           c4 == c3 \o e4
\* a gap is closed, if one is open
<1>11. c1 \in Seq(EventType) /\ Told(c1, lost)
  <2>1. gap => /\ Count("data_gap_end", q) + 1 <= Count("data_gap_start", q)
               /\ Count("data_gap_start", q) <= Count("data_gap_end", q) + 1 + lost
    BY <1>5 DEF One, Bracketed
  <2>2. Told(c1, lost)
    BY <1>2, <1>3, <2>1, ToldIf
  <2> QED
    BY <1>6, <2>2
<1>12. /\ Count("entered", c1) = One(WasEntered(s))
       /\ Count("completed", c1) = 0 /\ Count("cancelled", c1) = 0
       /\ Count("data_gap_start", c1) <= Count("data_gap_end", c1) + lost
  <2>1. \A x \in Kinds : Count(x, c1) = Count(x, q) + One(gap /\ x = "data_gap_end")
    BY <1>6, <1>9, CountConcat
  <2> HIDE DEF c1
  <2>2. /\ Count("entered", c1) = Count("entered", q) + 0
        /\ Count("completed", c1) = Count("completed", q) + 0
        /\ Count("cancelled", c1) = Count("cancelled", q) + 0
        /\ Count("data_gap_start", c1) = Count("data_gap_start", q) + 0
        /\ Count("data_gap_end", c1) = Count("data_gap_end", q) + One(gap)
    BY <1>2, <2>1 DEF One
  <2>3. One(gap) = One(s \in rGap) /\ One(gap) \in Nat /\ One(WasEntered(s)) \in Nat
    BY <1>5 DEF One
  <2>4. Count("data_gap_start", q) <= Count("data_gap_end", q) + One(gap) + lost
    BY <2>3 DEF Bracketed
  <2> QED
    BY <1>10, <2>2, <2>3, <2>4
<1> HIDE DEF c1
\* the entry
<1>13. c2 \in Seq(EventType) /\ Told(c2, lost)
  <2>1. Told(c2, lost)
    BY <1>2, <1>3, <1>11, <1>12, ToldIf
  <2> QED
    BY <1>6, <1>11, <2>1
<1>14. /\ Count("entered", c2) = One(in)
       /\ Count("completed", c2) = 0 /\ Count("cancelled", c2) = 0
       /\ Count("data_gap_start", c2) <= Count("data_gap_end", c2) + lost
  <2>1. \A x \in Kinds : Count(x, c2) = Count(x, c1) + One(new /\ x = "entered")
    BY <1>6, <1>9, <1>11, CountConcat
  <2>2. \A x \in Kinds : Count(x, c1) \in Nat
    BY <1>11, Occurrences
  <2> HIDE DEF c2
  <2>3. /\ Count("entered", c2) = Count("entered", c1) + One(new)
        /\ Count("completed", c2) = Count("completed", c1) + 0
        /\ Count("cancelled", c2) = Count("cancelled", c1) + 0
        /\ Count("data_gap_start", c2) = Count("data_gap_start", c1) + 0
        /\ Count("data_gap_end", c2) = Count("data_gap_end", c1) + 0
    BY <1>2, <2>1 DEF One
  <2>4. One(WasEntered(s)) + One(new) = One(in)
    BY <1>5 DEF One
  <2> QED
    BY <1>12, <2>2, <2>3, <2>4
<1> HIDE DEF c2, e1, e2
\* the targets reached
<1>15. c3 \in Seq(EventType) /\ Told(c3, lost)
  <2>1. \A x : CountTo(x, c2, Len(c2)) = Count(x, c2)
    BY DEF CountTo, Count
  <2>2. e3 # <<>> => MayFollow("tp_hit", c2, Len(c2), lost)
    BY <1>8, <1>14, <2>1 DEF MayFollow, One
  <2>3. Told(c3, lost)
    BY <1>7, <1>13, <2>2, ToldConcat
  <2> QED
    BY <1>7, <1>13, <2>3
<1>16. /\ Count("entered", c3) = One(in)
       /\ Count("completed", c3) = 0 /\ Count("cancelled", c3) = 0
       /\ Count("data_gap_start", c3) <= Count("data_gap_end", c3) + lost
  <2>1. \A x \in Kinds : Count(x, c3) = Count(x, c2) + 0
    BY <1>7, <1>9, <1>13, CountConcat
  <2>2. \A x \in Kinds : Count(x, c2) \in Nat
    BY <1>13, Occurrences
  <2> HIDE DEF c3
  <2> QED
    BY <1>14, <2>1, <2>2
<1> HIDE DEF c3
\* the stop
<1>17. c4 \in Seq(EventType) /\ Told(c4, lost)
  <2>1. Count("completed", c3) = 0 /\ Count("cancelled", c3) = 0
    BY <1>16
  <2>2. out = "failed" => Count("entered", c3) > 0
    BY <1>5, <1>16 DEF One
  <2>3. ~(Count("completed", c3) > 0 \/ Count("cancelled", c3) > 0)
    BY <2>1
  <2>4. Told(c4, lost)
    BY <1>2, <1>3, <1>15, <1>16, <2>2, <2>3, ToldIf DEF e4
  <2> QED
    BY <1>6, <1>15, <2>4
<1>18. /\ Count("completed", c4) = 0 /\ Count("cancelled", c4) = 0
       /\ Count("data_gap_start", c4) <= Count("data_gap_end", c4) + lost
  <2>1. \A x \in Kinds : Count(x, c4) = Count(x, c3) + 0
    BY <1>6, <1>9, <1>15, CountConcat
  <2>2. \A x \in Kinds : Count(x, c3) \in Nat
    BY <1>15, Occurrences
  <2> HIDE DEF c4
  <2> QED
    BY <1>16, <2>1, <2>2
<1> HIDE DEF c4, e4
\* the end
<1>19. Told(c4 \o e5, lost)
  <2>1. ~(Count("completed", c4) > 0 \/ Count("cancelled", c4) > 0)
    BY <1>18
  <2> QED
    BY <1>2, <1>3, <1>17, <1>18, <2>1, ToldIf
<1> HIDE DEF e5
<1>20. q \o EvalEvents(s, obs) = c4 \o e5
  <2>1. RegroupsFive(q, e1, e2, e3, e4, e5)
    BY <1>6, <1>7, LogRegroupsFive
  <2> QED
    BY <1>4, <2>1, Zenon DEF RegroupsFive, c1, c2, c3, c4
<1> QED
  BY <1>19, <1>20

-----------------------------------------------------------------------------
(* StoryInv is inductive, given the other invariants *)

LEMMA LogType ==
    ASSUME TypeOK, NEW s \in Scenario
    PROVE  /\ Log(s) \in Seq(EventType)
           /\ events[s] \in Seq(EventType) /\ bEvents[s] \in Seq(EventType)
           /\ \A x : Count(x, Log(s)) = Count(x, events[s]) + Count(x, bEvents[s])
<1>1. events[s] \in Seq(EventType) /\ bEvents[s] \in Seq(EventType)
  BY DEF TypeOK
<1> QED
  BY <1>1, CountConcat DEF Log

\* The log of a row of the cycle still to be evaluated.
LEMMA TodoLog ==
    ASSUME IInv, HInv, FInv, StoryInv, pc = "eval", NEW s \in todo
    PROVE  /\ s \in Scenario /\ lapses[s] \in Nat /\ Told(Log(s), lapses[s])
           /\ s \in snapActive <=> active[s]
           /\ WasEntered(s) <=> active[s]
           /\ s \in rGap => active[s]
           /\ Count("entered", Log(s)) = One(active[s])
           /\ Count("completed", Log(s)) = 0 /\ Count("cancelled", Log(s)) = 0
           /\ Bracketed(Log(s), s \in rGap, lapses[s])
<1>1. /\ s \in Scenario /\ s \in snap /\ status[s] = "running"
      /\ bOutcome[s] = "running" /\ s \notin bActivated
  BY TodoRow
<1>2. s \in snapActive <=> active[s]
  BY <1>1 DEF IInv, ReadTogether
<1>3. WasEntered(s) <=> active[s]
  BY <1>1, <1>2 DEF FInv, FlagInv, Held, WasEntered
<1>4. /\ Count("entered", events[s]) = One(active[s]) /\ Count("completed", events[s]) = 0
      /\ Count("entered", bEvents[s]) = 0 /\ Count("completed", bEvents[s]) = 0
  BY <1>1 DEF HInv, RowAudit, BatchAudit, One
<1>5. Count("entered", Log(s)) = One(active[s]) /\ Count("completed", Log(s)) = 0
  <2>1. TypeOK
    BY DEF IInv
  <2>2. One(active[s]) \in Nat
    BY DEF One
  <2> QED
    BY <1>1, <1>4, <2>1, <2>2, LogType
<1>6. /\ Told(Log(s), lapses[s]) /\ (s \in rGap => active[s])
      /\ Count("cancelled", Log(s)) = 0 /\ Bracketed(Log(s), s \in rGap, lapses[s])
  BY <1>1 DEF StoryInv
<1>7. lapses[s] \in Nat
  BY <1>1, BoundAssumption DEF IInv, TypeOK
<1> QED
  BY <1>1, <1>2, <1>3, <1>5, <1>6, <1>7

LEMMA InitStory == Init => StoryInv
<1> SUFFICES ASSUME Init PROVE StoryInv
  OBVIOUS
<1>1. \A s \in Scenario : events[s] = <<>> /\ bEvents[s] = <<>>
  BY DEF Init, NoEvents
<1>2. \A n : Told(<<>>, n)
  BY DEF Told
<1>3. \A s \in Scenario : Log(s) = <<>>
  BY <1>1 DEF Log
<1>4. rGap = {}
  BY DEF Init
<1>5. \A s \in Scenario : lapses[s] = 0
  BY DEF Init
<1>6. \A s \in Scenario : Bracketed(<<>>, s \in rGap, lapses[s])
  BY <1>4, <1>5, CountEmpty DEF Bracketed, One
<1> QED
  BY <1>1, <1>2, <1>3, <1>4, <1>6, CountEmpty DEF StoryInv

LEMMA QuietStory ==
    ASSUME StoryInv, UNCHANGED <<status, active, events, bEvents, rGap, lapses>>,
           pc' \in {"down", "idle"} => pc \in {"down", "idle"}
    PROVE  StoryInv'
<1>1. \A s \in Scenario : Log(s)' = Log(s)
  BY DEF Log
<1> QED
  BY <1>1 DEF StoryInv

\* Keys that run out make no log worse.
LEMMA ToldLonger ==
    ASSUME NEW q, NEW m \in Nat, NEW n \in Nat, m <= n, Told(q, m), Len(q) \in Nat
    PROVE  Told(q, n)
<1> SUFFICES ASSUME NEW i \in 1 .. Len(q) PROVE MayFollow(q[i], q, i - 1, n)
  BY DEF Told
<1>1. MayFollow(q[i], q, i - 1, m) /\ i - 1 \in Nat
  BY DEF Told
<1>2. /\ CountTo("data_gap_start", q, i - 1) \in Nat
      /\ CountTo("data_gap_end", q, i - 1) \in Nat
  BY <1>1, CountToFacts
<1> QED
  BY <1>1, <1>2 DEF MayFollow

LEMMA LapseStory ==
    ASSUME TypeOK, StoryInv, NEW s \in Scenario, KeyRunsOut(s)
    PROVE  StoryInv'
<1> USE DEF db, process, batch
<1>1. /\ UNCHANGED <<status, active, events, bEvents, pc>> /\ rGap' \subseteq rGap
      /\ rGap \ rGap' \subseteq {s}
  BY Zenon DEF KeyRunsOut
<1>2. \A t \in Scenario : Log(t)' = Log(t)
  BY <1>1 DEF Log
<1>3. ASSUME NEW t \in Scenario
      PROVE  /\ lapses[t] \in Nat /\ lapses'[t] \in Nat
             /\ lapses'[t] = lapses[t] + (IF t = s THEN 1 ELSE 0)
  <2>1. lapses' = [lapses EXCEPT ![s] = @ + 1]
    BY DEF KeyRunsOut
  <2> QED
    BY <2>1, BoundAssumption DEF TypeOK
<1>4. ASSUME NEW t \in Scenario
      PROVE  /\ Told(events'[t], lapses'[t]) /\ Told(Log(t)', lapses'[t])
             /\ Bracketed(Log(t)', t \in rGap', lapses'[t])
  <2>1. /\ Log(t) \in Seq(EventType) /\ events[t] \in Seq(EventType)
        /\ Told(events[t], lapses[t]) /\ Told(Log(t), lapses[t])
        /\ Bracketed(Log(t), t \in rGap, lapses[t])
    BY LogType DEF StoryInv
  <2>2. Len(Log(t)) \in Nat /\ Len(events[t]) \in Nat /\ lapses[t] <= lapses'[t]
    BY <1>3, <2>1
  <2>3. Told(events[t], lapses'[t]) /\ Told(Log(t), lapses'[t])
    BY <1>3, <2>1, <2>2, ToldLonger
  <2>4. /\ Count("data_gap_start", Log(t)) \in Nat /\ Count("data_gap_end", Log(t)) \in Nat
        /\ One(t \in rGap) \in Nat /\ One(t \in rGap') \in Nat
        /\ One(t \in rGap') <= One(t \in rGap)
        /\ One(t \in rGap) <= One(t \in rGap') + (IF t = s THEN 1 ELSE 0)
    <3>1. /\ Count("data_gap_start", Log(t)) \in Nat
          /\ Count("data_gap_end", Log(t)) \in Nat
      BY <2>1, Occurrences
    <3>2. (t \in rGap' => t \in rGap) /\ (t \in rGap => t \in rGap' \/ t = s)
      BY <1>1
    <3> QED
      BY <3>1, <3>2 DEF One
  <2>5. Bracketed(Log(t), t \in rGap', lapses'[t])
    BY <1>3, <2>1, <2>4 DEF Bracketed
  <2> QED
    BY <1>1, <1>2, <2>3, <2>5
<1> QED
  BY <1>1, <1>2, <1>4 DEF StoryInv

\* A log that goes on in the batch.
LEMMA BatchStory ==
    ASSUME StoryInv, TypeOK, NEW s \in Scenario, NEW E \in Seq(EventType),
           UNCHANGED <<status, active, events, lapses>>, pc' = "eval",
           bEvents' = [bEvents EXCEPT ![s] = @ \o E],
           \A t \in Scenario : t # s => (t \in rGap' <=> t \in rGap),
           rGap' \subseteq Scenario, s \in rGap' => active[s],
           Told(Log(s) \o E, lapses[s]), Bracketed(Log(s) \o E, s \in rGap', lapses[s]),
           status[s] \in {"absent", "running"} => Count("cancelled", Log(s) \o E) = 0
    PROVE  StoryInv'
<1>1. Log(s)' = Log(s) \o E
  <2>1. bEvents'[s] = bEvents[s] \o E /\ events'[s] = events[s]
    BY DEF TypeOK
  <2>2. events[s] \in Seq(EventType) /\ bEvents[s] \in Seq(EventType)
    BY LogType
  <2>3. (events[s] \o bEvents[s]) \o E = events[s] \o (bEvents[s] \o E)
    BY <2>2, LogRegroups DEF Regroups
  <2> QED
    BY <2>1, <2>3, Zenon DEF Log
<1>2. \A t \in Scenario : t # s => Log(t)' = Log(t)
  BY DEF Log, TypeOK
<1>3. \A t \in rGap' : active'[t]
  BY DEF StoryInv
<1>4. ASSUME NEW t \in Scenario
      PROVE  /\ Told(events'[t], lapses'[t]) /\ Told(Log(t)', lapses'[t])
             /\ Bracketed(Log(t)', t \in rGap', lapses'[t])
             /\ status'[t] \in {"absent", "running"} => Count("cancelled", Log(t)') = 0
  <2>1. CASE t = s
    BY <1>1, <2>1 DEF StoryInv
  <2>2. CASE t # s
    <3>1. Log(t)' = Log(t) /\ (t \in rGap' <=> t \in rGap)
      BY <1>2, <2>2
    <3>2. One(t \in rGap') = One(t \in rGap)
      BY <3>1 DEF One
    <3> QED
      BY <3>1, <3>2 DEF StoryInv, Bracketed
  <2> QED
    BY <2>1, <2>2
<1> QED
  BY <1>3, <1>4 DEF StoryInv

LEMMA NoPriceStory ==
    ASSUME IInv, HInv, FInv, StoryInv, NEW s \in Scenario, EvalNoPrice(s)
    PROVE  StoryInv'
<1> DEFINE opens == s \in snapActive /\ s \notin rGap
           E == If(opens, <<"data_gap_start">>)
<1>1. TypeOK /\ pc = "eval" /\ s \in todo
  BY DEF IInv, EvalNoPrice
<1>2. "data_gap_start" \in EventType /\ opens \in BOOLEAN
  BY DEF EventType
<1>3. /\ Log(s) \in Seq(EventType) /\ bEvents[s] \in Seq(EventType)
      /\ E \in Seq(EventType) /\ \A x : Count(x, E) = One(opens /\ x = "data_gap_start")
  BY <1>1, <1>2, LogType, CountIf
<1>4. Told(Log(s) \o E, lapses[s])
  <2>1. opens => Count("entered", Log(s)) > 0
    BY <1>1, TodoLog DEF One
  <2>2. opens => Count("data_gap_start", Log(s)) <= Count("data_gap_end", Log(s)) + lapses[s]
    <3>1. Count("data_gap_end", Log(s)) \in Nat
      BY <1>3, Occurrences
    <3> QED
      BY <1>1, <3>1, TodoLog DEF One, Bracketed
  <2>3. lapses[s] \in Nat /\ Told(Log(s), lapses[s]) /\ ~(Count("completed", Log(s)) > 0 \/ Count("cancelled", Log(s)) > 0)
    BY <1>1, TodoLog
  <2> HIDE DEF opens
  <2> QED
    BY <1>2, <1>3, <2>1, <2>2, <2>3, ToldIf
<1>5. /\ s \in rGap' <=> s \in rGap \/ opens
      /\ \A t \in Scenario : t # s => (t \in rGap' <=> t \in rGap)
      /\ rGap' \subseteq Scenario
  BY <1>1 DEF EvalNoPrice, TypeOK
<1>6. bEvents' = [bEvents EXCEPT ![s] = @ \o E]
  <2>1. CASE opens
    <3>1. E = <<"data_gap_start">>
      BY <2>1 DEF If
    <3>2. Append(bEvents[s], "data_gap_start") = bEvents[s] \o <<"data_gap_start">>
      BY <1>2, <1>3, AppendConcat
    <3>3. bEvents' = [bEvents EXCEPT ![s] = Append(bEvents[s], "data_gap_start")]
      BY <2>1 DEF EvalNoPrice
    <3> QED
      BY <3>1, <3>2, <3>3, Zenon
  <2>2. CASE ~opens
    <3>1. E = <<>> /\ bEvents' = bEvents
      BY <2>2 DEF If, EvalNoPrice
    <3>2. bEvents[s] \o <<>> = bEvents[s]
      BY <1>3
    <3>3. bEvents[s] \o E = bEvents[s]
      BY <3>1, <3>2, Zenon
    <3> QED
      BY <1>1, <3>1, <3>3 DEF TypeOK
  <2> QED
    BY <2>1, <2>2
<1>7. Bracketed(Log(s) \o E, s \in rGap', lapses[s])
  <2>1. /\ Count("data_gap_start", Log(s) \o E) = Count("data_gap_start", Log(s)) + One(opens)
        /\ Count("data_gap_end", Log(s) \o E) = Count("data_gap_end", Log(s)) + 0
    <3>1. Count("data_gap_start", E) = One(opens) /\ Count("data_gap_end", E) = 0
      BY <1>2, <1>3 DEF One
    <3> HIDE DEF E
    <3> QED
      BY <1>3, <3>1, CountConcat
  <2>2. One(s \in rGap') = One(s \in rGap) + One(opens)
    BY <1>5 DEF One
  <2>3. Bracketed(Log(s), s \in rGap, lapses[s]) /\ lapses[s] \in Nat
    BY <1>1, TodoLog
  <2>4. /\ Count("data_gap_start", Log(s)) \in Nat /\ Count("data_gap_end", Log(s)) \in Nat
        /\ One(s \in rGap) \in Nat /\ One(opens) \in Nat
    BY <1>3, Occurrences DEF One
  <2> HIDE DEF opens, E
  <2> QED
    BY <2>1, <2>2, <2>3, <2>4 DEF Bracketed
<1>8. Count("cancelled", Log(s) \o E) = 0
  <2>1. Count("cancelled", E) = 0
    BY <1>2, <1>3 DEF One
  <2>2. Count("cancelled", Log(s)) = 0
    BY <1>1, TodoLog
  <2> HIDE DEF E
  <2> QED
    BY <1>3, <2>1, <2>2, CountConcat
<1>9. s \in rGap' => active[s]
  BY <1>1, <1>5, TodoLog
<1>10. UNCHANGED <<status, active, events, lapses>> /\ pc' = "eval"
  BY DEF EvalNoPrice, db, world
<1> HIDE DEF E
<1> QED
  BY <1>1, <1>3, <1>4, <1>5, <1>6, <1>7, <1>8, <1>9, <1>10, BatchStory

LEMMA EvalStory ==
    ASSUME IInv, HInv, FInv, StoryInv, NEW s \in Scenario, EvalPriced(s)
    PROVE  StoryInv'
<1>1. TypeOK /\ pc = "eval" /\ s \in todo
  BY DEF IInv, EvalPriced
<1>2. PICK obs \in Observation : EvalWith(s, obs)
  BY DEF EvalPriced
<1> DEFINE E == EvalEvents(s, obs)
<1>3. Log(s) \in Seq(EventType)
  BY <1>1, LogType
<1>4. /\ E \in Seq(EventType)
      /\ Count("data_gap_end", E) = One(s \in rGap /\ IsEntered(s, obs))
      /\ Count("data_gap_start", E) = 0 /\ Count("cancelled", E) = 0
  BY <1>1, EvalEventsCount
<1>5. /\ lapses[s] \in Nat /\ Told(Log(s), lapses[s])
      /\ (s \in rGap => WasEntered(s)) /\ One(WasEntered(s)) = One(active[s])
      /\ Count("entered", Log(s)) = One(active[s])
      /\ Count("completed", Log(s)) = 0 /\ Count("cancelled", Log(s)) = 0
      /\ Bracketed(Log(s), s \in rGap, lapses[s])
  BY <1>1, TodoLog DEF One
<1>6. Told(Log(s) \o E, lapses[s])
  BY <1>1, <1>3, <1>5, EvalTold
<1> HIDE DEF E
<1>7. Bracketed(Log(s) \o E, FALSE, lapses[s])
  <2>1. /\ Count("data_gap_start", Log(s) \o E) = Count("data_gap_start", Log(s)) + 0
        /\ Count("data_gap_end", Log(s) \o E)
              = Count("data_gap_end", Log(s)) + One(s \in rGap /\ IsEntered(s, obs))
    BY <1>3, <1>4, CountConcat
  <2>2. One(s \in rGap /\ IsEntered(s, obs)) = One(s \in rGap)
    BY <1>5 DEF IsEntered, One
  <2>3. /\ Count("data_gap_start", Log(s)) \in Nat /\ Count("data_gap_end", Log(s)) \in Nat
        /\ One(s \in rGap) \in Nat /\ One(FALSE) = 0
    BY <1>3, Occurrences DEF One
  <2>4. /\ Count("data_gap_end", Log(s)) + One(s \in rGap) <= Count("data_gap_start", Log(s))
        /\ Count("data_gap_start", Log(s))
              <= Count("data_gap_end", Log(s)) + One(s \in rGap) + lapses[s]
    BY <1>5 DEF Bracketed
  <2> DEFINE starts == Count("data_gap_start", Log(s) \o E)
             ends   == Count("data_gap_end", Log(s) \o E)
  <2>5. ends + 0 <= starts /\ starts <= ends + 0 + lapses[s]
    BY <1>5, <2>1, <2>2, <2>3, <2>4
  <2> QED
    BY <2>3, <2>5 DEF Bracketed
<1>8. Count("cancelled", Log(s) \o E) = 0
  BY <1>3, <1>4, <1>5, CountConcat
<1>9. rGap' = rGap \ {s} /\ bEvents' = [bEvents EXCEPT ![s] = @ \o E]
  BY <1>2 DEF EvalWith, EvalRedis, E
<1>10. s \notin rGap' /\ rGap' \subseteq Scenario /\ Bracketed(Log(s) \o E, s \in rGap', lapses[s])
  BY <1>1, <1>7, <1>9 DEF One, Bracketed, TypeOK
<1>11. UNCHANGED <<status, active, events, lapses>> /\ pc' = "eval"
  BY DEF EvalPriced, db, world
<1> QED
  BY <1>1, <1>4, <1>6, <1>8, <1>9, <1>10, <1>11, BatchStory

\* The batch moves into the log, a cancellation behind it.
LEMMA CommitStory ==
    ASSUME IInv, HInv, FInv, StoryInv, CommitBatch
    PROVE  StoryInv'
<1>0. TypeOK /\ pc = "write" /\ rGap' = rGap /\ lapses' = lapses
  BY DEF IInv, CommitBatch, redis, world
<1>1. \A s \in Scenario : bEvents'[s] = <<>>
  BY DEF CommitBatch, EndCycle, EmptyBatch, NoEvents
<1>2. \A s \in rGap : active'[s]
  <2> SUFFICES ASSUME NEW s \in rGap PROVE active'[s]
    OBVIOUS
  <2>1. s \in Scenario /\ active[s]
    BY <1>0 DEF TypeOK, StoryInv
  <2>2. bOutcome[s] = "running"
    BY <2>1 DEF HInv, KeysInv, HasKeys
  <2> QED
    BY <2>1, <2>2, CommitStatus
<1>3. ASSUME NEW s \in Scenario
      PROVE  /\ Told(events'[s], lapses[s]) /\ Told(Log(s)', lapses[s])
             /\ Bracketed(Log(s)', s \in rGap, lapses[s])
             /\ status'[s] \in {"absent", "running"} => Count("cancelled", Log(s)') = 0
  <2> DEFINE E == If(s \in bSiblings, <<"cancelled">>)
  <2>1. "cancelled" \in EventType /\ (s \in bSiblings) \in BOOLEAN
    BY DEF EventType
  <2>2. /\ Log(s) \in Seq(EventType) /\ E \in Seq(EventType)
        /\ \A x : Count(x, E) = One(s \in bSiblings /\ x = "cancelled")
    BY <1>0, <2>1, LogType, CountIf
  <2>3. events'[s] = Log(s) \o E
    BY DEF CommitBatch, WrittenEvents, Log
  <2>4. Told(Log(s) \o E, lapses[s])
    <3>1. lapses[s] \in Nat
      BY <1>0, BoundAssumption DEF TypeOK
    <3> QED
      BY <2>1, <2>2, <3>1, ToldIf DEF StoryInv
  <2>5. Count("data_gap_start", E) = 0 /\ Count("data_gap_end", E) = 0
           /\ Count("cancelled", E) = One(s \in bSiblings)
    BY <2>2 DEF One
  <2> HIDE DEF E
  <2>6. Log(s) \o E \in Seq(EventType)
    BY <2>2
  <2>7. Log(s)' = Log(s) \o E
    <3>1. (Log(s) \o E) \o <<>> = Log(s) \o E
      BY <2>6
    <3> QED
      BY <1>1, <2>3, <3>1, Zenon DEF Log
  <2>8. /\ Count("data_gap_start", Log(s)') = Count("data_gap_start", Log(s)) + 0
        /\ Count("data_gap_end", Log(s)') = Count("data_gap_end", Log(s)) + 0
        /\ Count("cancelled", Log(s)') = Count("cancelled", Log(s)) + One(s \in bSiblings)
    BY <2>2, <2>5, <2>7, CountConcat
  <2>9. Count("data_gap_start", Log(s)) \in Nat /\ Count("data_gap_end", Log(s)) \in Nat
    BY <2>2, Occurrences
  <2>10. Bracketed(Log(s), s \in rGap, lapses[s])
    BY DEF StoryInv
  <2>11. status'[s] \in {"absent", "running"} => Count("cancelled", Log(s)') = 0
    <3> SUFFICES ASSUME status'[s] \in {"absent", "running"} PROVE Count("cancelled", Log(s)') = 0
      OBVIOUS
    <3>1. bOutcome[s] = "running" \/ bOutcome[s] \in Outcome
      BY <1>0 DEF TypeOK
    <3>2. s \notin bSiblings /\ status[s] \in {"absent", "running"}
      BY <3>1, CommitStatus DEF Outcome
    <3>3. Count("cancelled", Log(s)) = 0 /\ One(s \in bSiblings) = 0
      BY <3>2 DEF StoryInv, One
    <3> QED
      BY <2>8, <3>3
  <2>12. Bracketed(Log(s)', s \in rGap, lapses[s])
    BY <2>8, <2>9, <2>10 DEF Bracketed
  <2>13. Told(events'[s], lapses[s]) /\ Told(Log(s)', lapses[s])
    BY <2>3, <2>4, <2>7, Zenon
  <2> QED
    BY <2>11, <2>12, <2>13
<1> QED
  BY <1>0, <1>1, <1>2, <1>3 DEF StoryInv

LEMMA NextStory ==
    MaxFaults = 0 /\ IInv /\ HInv /\ FInv /\ StoryInv /\ [Next]_vars => StoryInv'
<1> SUFFICES ASSUME MaxFaults = 0, IInv, HInv, FInv, StoryInv, [Next]_vars PROVE StoryInv'
  OBVIOUS
<1> USE DEF db, redis, loaded, batch, process, world
<1>1. CASE Recover
  BY <1>1, QuietStory DEF Recover
<1>2. CASE LoadCycle
  <2>1. bEvents' = bEvents
    <3>1. \A s \in Scenario : bEvents[s] = <<>>
      BY <1>2 DEF LoadCycle, StoryInv
    <3>2. bEvents = [s \in Scenario |-> bEvents[s]]
      BY DEF IInv, TypeOK
    <3> QED
      BY <1>2, <3>1, <3>2 DEF LoadCycle, EmptyBatch, NoEvents
  <2> QED
    BY <1>2, <2>1, QuietStory DEF LoadCycle
<1>3. ASSUME NEW s \in Scenario, EvalNoPrice(s) PROVE StoryInv'
  BY <1>3, NoPriceStory
<1>4. ASSUME NEW s \in Scenario, EvalPriced(s) PROVE StoryInv'
  BY <1>4, EvalStory
<1>5. CASE CancelSiblings
  <2>1. \A s \in SiblingCancel : s \notin rGap
    BY DEF SiblingCancel, StoryInv, IInv, ReadTogether
  <2>2. rGap' = rGap
    BY <1>5, <2>1 DEF CancelSiblings
  <2> QED
    BY <1>5, <2>2, QuietStory DEF CancelSiblings
<1>6. CASE CommitBatch
  BY <1>6, CommitStory
<1>7. ASSUME NEW g \in Signal, StoreSignal(g) PROVE StoryInv'
  <2>1. /\ UNCHANGED <<active, events, bEvents, rGap, pc, lapses>>
        /\ \A s \in Scenario : status'[s] \in {"absent", "running"} =>
                                  status[s] \in {"absent", "running"}
    BY <1>7 DEF StoreSignal, ScenariosOf
  <2>2. \A s \in Scenario : Log(s)' = Log(s)
    BY <2>1 DEF Log
  <2> QED
    BY <2>1, <2>2 DEF StoryInv
<1>8. ASSUME NEW g \in Signal, FeedStops(g) \/ FeedReturns(g) PROVE StoryInv'
  BY <1>8, QuietStory DEF FeedStops, FeedReturns
<1>9. ASSUME NEW s \in Scenario, Expire(s) PROVE StoryInv'
  BY <1>9, QuietStory DEF Expire
<1>10. CASE UNCHANGED vars
  BY <1>10, QuietStory DEF vars
<1>11. ASSUME NEW s \in Scenario, KeyRunsOut(s) PROVE StoryInv'
  BY <1>11, LapseStory DEF IInv
<1> QED
  BY <1>1, <1>2, <1>3, <1>4, <1>5, <1>6, <1>7, <1>8, <1>9, <1>10, <1>11, NothingFails
  DEF Next, Evaluator, EvalOne, Environment

\* As long as nothing fails the audit log of a scenario reads as its life: targets and
\* stops inside a position, gaps bracketed and closed before the end, nothing but a
\* cancellation after it (_note_data_gap and _close_data_gap, 390-413; _eval, 684-734;
\* _batch_write, 909-920).  The mark of an open gap lives for two hours, so a longer gap
\* is logged as starting again: starts exceed ends by one more for each key of the
\* scenario that ran out, and by none if no key did.
THEOREM LogTold == ASSUME MaxFaults = 0 PROVE Spec => []EventsTellTheStory
<1>1. IInv /\ HInv /\ FInv /\ StoryInv /\ [Next]_vars => StoryInv'
  BY NextStory
<1>2. IInv /\ StoryInv => EventsTellTheStory
  <2> SUFFICES ASSUME IInv, StoryInv, NEW s \in Scenario, NEW i \in 1 .. Len(events[s])
               PROVE  LET e      == events[s][i]
                          before == {events[s][j] : j \in 1 .. i - 1}
                          Times2(x) == CountTo(x, events[s], i - 1)
                          inGap  == Times2("data_gap_start") - Times2("data_gap_end")
                      IN  /\ e \in {"tp_hit", "sl_hit", "data_gap_start"} => "entered" \in before
                          /\ e = "data_gap_end" => 1 <= inGap /\ inGap <= 1 + lapses[s]
                          /\ e \in {"data_gap_start", "tp_hit", "sl_hit", "completed"} =>
                                 inGap <= lapses[s]
                          /\ before \cap {"completed", "cancelled"} # {} => e = "cancelled"
    BY DEF EventsTellTheStory, CountTo
  <2> DEFINE q == events[s]
             n == i - 1
  <2>1. MayFollow(q[i], q, n, lapses[s]) /\ lapses[s] \in Nat
    BY BoundAssumption DEF StoryInv, Told, IInv, TypeOK
  <2>2. q \in Seq(EventType) /\ Len(q) \in Nat
    BY LogType DEF IInv
  <2>3. n \in Nat
    BY <2>2
  <2> HIDE DEF n
  <2>4. \A x : CountTo(x, q, n) > 0 <=> x \in {q[j] : j \in 1 .. n}
    BY <2>3, CountToFacts
  <2>5. CountTo("data_gap_start", q, n) \in Nat /\ CountTo("data_gap_end", q, n) \in Nat
    BY <2>3, CountToFacts
  <2> HIDE DEF q
  <2>6. /\ q[i] \in {"tp_hit", "sl_hit", "data_gap_start"} => "entered" \in {q[j] : j \in 1 .. n}
        /\ {q[j] : j \in 1 .. n} \cap {"completed", "cancelled"} # {} => q[i] = "cancelled"
    BY <2>1, <2>4 DEF MayFollow
  <2>7. /\ q[i] \in {"data_gap_start", "tp_hit", "sl_hit", "completed"} =>
              CountTo("data_gap_start", q, n) - CountTo("data_gap_end", q, n) <= lapses[s]
        /\ q[i] = "data_gap_end" =>
              /\ 1 <= CountTo("data_gap_start", q, n) - CountTo("data_gap_end", q, n)
              /\ CountTo("data_gap_start", q, n) - CountTo("data_gap_end", q, n)
                     <= 1 + lapses[s]
    BY <2>1, <2>5 DEF MayFollow
  <2> QED
    BY <2>6, <2>7 DEF q, n
<1> QED
  BY <1>1, <1>2, InitStory, Invariance, HistoryInvariance, FaultFreeInvariance, PTL DEF Spec
=============================================================================
