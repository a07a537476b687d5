--------------------------- MODULE SignalEvaluator ---------------------------
(***************************************************************************)
(* The evaluation loop of services/processors/signal_evaluator/main.py.    *)
(*                                                                         *)
(* One evaluator process works on two stores that share no transaction:    *)
(*   - Postgres: scenarios, scenario_results, scenario_events, signals.    *)
(*     One batch transaction at the end of a cycle (_batch_write).         *)
(*   - Redis: the eval:* tracking keys, written while a scenario is being  *)
(*     evaluated (_eval), so BEFORE the batch is committed.                *)
(* A cycle is: read the rows (evaluate_cycle, 925-968), evaluate them one  *)
(* by one in the order the database returned them (no ORDER BY, so any     *)
(* order), cancel the siblings of what entered, commit.                    *)
(*                                                                         *)
(* Simplifications:                                                        *)
(*   - A candle is what _eval decides from it: whether the entry condition *)
(*     of the scenario holds, the highest take-profit level it reaches and *)
(*     whether it touches the stop.  Prices, PnL, extremes, price points   *)
(*     and the consolidation timer are left out.                           *)
(*   - signals.status becomes 'running' in the UPDATE that sets            *)
(*     active_scenarios_id and is written nowhere else afterwards, so      *)
(*     sigRef[g] # NoScenario stands for it.                               *)
(*   - The key sig:{id}:active_sc is written by recovery and read by       *)
(*     nobody; it is left out.                                             *)
(*   - A batch with nothing to write is a commit that changes nothing; the *)
(*     code then skips it.                                                 *)
(*   - Faults (a failed commit or read, a failed Redis call, a crash, an   *)
(*     evicted Redis key: allkeys-lru in docker-compose.yml, a Redis       *)
(*     restart) are bounded together by MaxFaults, feed outages by         *)
(*     MaxOutages.  A key whose time to live ends is no fault; MaxLapses   *)
(*     bounds how often that happens to one scenario.                      *)
(***************************************************************************)
EXTENDS Naturals, Sequences, FiniteSets

CONSTANTS
    Scenario,       \* the ids of the scenarios
    Signal,         \* the ids of the signals
    SignalOf,       \* SignalOf[s]: the signal scenario s belongs to (signal_id)
    NoScenario,     \* NULL in signals.active_scenarios_id
    MaxTP,          \* the number of take-profit levels
    SlowCycles,     \* every SlowCycles-th cycle also loads waiting scenarios
    MaxFaults,      \* bound on faults
    MaxOutages,     \* bound on price-feed outages
    MaxLapses       \* bound on the keys of one scenario that outlive their TTL

ASSUME ScenarioAssumption == SignalOf \in [Scenario -> Signal] /\ NoScenario \notin Scenario
ASSUME BoundAssumption ==
    /\ MaxTP \in Nat /\ SlowCycles \in Nat \ {0}
    /\ MaxFaults \in Nat /\ MaxOutages \in Nat /\ MaxLapses \in Nat

VARIABLES
    \* Postgres
    status,      \* scenarios.status, "absent" before the row is inserted
    active,      \* scenarios.active
    result,      \* the scenario_results row
    events,      \* scenario_events, oldest first
    sigActive,   \* signals.active
    sigRef,      \* signals.active_scenarios_id
    \* Redis
    rEntered,    \* scenarios with a key eval:entered
    rTp,         \* eval:besttp_idx (0: no key)
    rFirst,      \* scenarios with a key eval:first
    rGap,        \* scenarios with a key eval:data_gap_start
    \* the evaluator process
    pc,          \* where the process is in its loop
    cycle,       \* self._cycle modulo SlowCycles
    snap,        \* ids of the rows read in this cycle
    snapActive,  \* those read with active = TRUE
    snapExpired, \* those whose expire_at had passed when `now` was taken
    todo,        \* rows of this cycle still to be evaluated
    bDirty,      \* scenarios with a row in upsert_rows
    bTp,         \* hit_tp_idx of that row (0: NULL)
    bOutcome,    \* result of that row, "running" when not terminal
    bActivated,  \* activated_sc_ids, and with them signal_activations
    bEvents,     \* all_events, by scenario
    bSiblings,   \* sibling_cancel
    \* the environment
    expired,     \* scenarios whose expire_at is in the past
    feedDown,    \* signals whose symbol has no price in Redis
    faults,      \* faults so far
    outages,     \* outages so far
    lapses       \* keys of each scenario whose time to live has ended so far

db      == <<status, active, result, events, sigActive, sigRef>>
redis   == <<rEntered, rTp, rFirst, rGap>>
loaded  == <<snap, snapActive, snapExpired>>
batch   == <<bDirty, bTp, bOutcome, bActivated, bEvents, bSiblings>>
process == <<pc, cycle, loaded, todo, batch>>
world   == <<expired, feedDown, faults, outages, lapses>>
vars    == <<db, redis, process, world>>

-----------------------------------------------------------------------------
(* Types *)

Outcome        == {"success", "failed", "expired"}
TerminalStates == Outcome \cup {"cancelled", "invalid", "rejected", "skipped"}
OfficeStates   == {"hit_tp", "hit_sl", "canceled"}  \* only the admin form writes these
Status         == {"absent", "running"} \cup TerminalStates \cup OfficeStates
EventType      == {"entered", "tp_hit", "sl_hit", "completed", "cancelled",
                   "data_gap_start", "data_gap_end"}

\* result "none": the scenario has no scenario_results row yet.
\* entered and completed: entered_at and completed_at are not NULL.
ResultRow == [result: {"none", "running", "cancelled"} \cup Outcome,
              tp: 0 .. MaxTP, entered: BOOLEAN, completed: BOOLEAN]
NoRow     == [result |-> "none", tp |-> 0, entered |-> FALSE, completed |-> FALSE]

Observation == [entry: BOOLEAN, tp: 0 .. MaxTP, sl: BOOLEAN]

NoEvents == [s \in Scenario |-> <<>>]

TypeOK ==
    /\ status \in [Scenario -> Status]
    /\ active \in [Scenario -> BOOLEAN]
    /\ result \in [Scenario -> ResultRow]
    /\ events \in [Scenario -> Seq(EventType)]
    /\ sigActive \in [Signal -> BOOLEAN]
    /\ sigRef \in [Signal -> Scenario \cup {NoScenario}]
    /\ rEntered \subseteq Scenario
    /\ rTp \in [Scenario -> 0 .. MaxTP]
    /\ rFirst \subseteq Scenario
    /\ rGap \subseteq Scenario
    /\ pc \in {"down", "idle", "eval", "write"}
    /\ cycle \in 0 .. SlowCycles - 1
    /\ snap \subseteq Scenario
    /\ snapActive \subseteq snap
    /\ snapExpired \subseteq snap
    /\ todo \subseteq snap
    /\ bDirty \subseteq snap
    /\ bTp \in [Scenario -> 0 .. MaxTP]
    /\ bOutcome \in [Scenario -> Outcome \cup {"running"}]
    /\ bActivated \subseteq snap
    /\ bEvents \in [Scenario -> Seq(EventType)]
    /\ bSiblings \subseteq snap
    /\ expired \subseteq Scenario
    /\ feedDown \subseteq Signal
    /\ faults \in 0 .. MaxFaults
    /\ outages \in 0 .. MaxOutages
    /\ lapses \in [Scenario -> 0 .. MaxLapses]

-----------------------------------------------------------------------------
(* Helpers *)

Larger(a, b)   == IF a > b THEN a ELSE b
ScenariosOf(g) == {s \in Scenario : SignalOf[s] = g}
Siblings(s)    == ScenariosOf(SignalOf[s]) \ {s}
TerminalIn(out) == {s \in Scenario : out[s] # "running"}

\* Rows the loop may read: status = 'running'.
Running   == {s \in Scenario : status[s] = "running"}
Entered   == {s \in Running : active[s]}
Waiting   == {s \in Running : ~active[s]}

EmptyBatch ==
    /\ bDirty' = {}
    /\ bTp' = [s \in Scenario |-> 0]
    /\ bOutcome' = [s \in Scenario |-> "running"]
    /\ bActivated' = {}
    /\ bEvents' = NoEvents
    /\ bSiblings' = {}

\* The process forgets everything a cycle held in memory.
EndCycle ==
    /\ snap' = {} /\ snapActive' = {} /\ snapExpired' = {} /\ todo' = {}
    /\ EmptyBatch

Fault == faults < MaxFaults /\ faults' = faults + 1

Init ==
    /\ status = [s \in Scenario |-> "absent"]
    /\ active = [s \in Scenario |-> FALSE]
    /\ result = [s \in Scenario |-> NoRow]
    /\ events = NoEvents
    /\ sigActive = [g \in Signal |-> FALSE]
    /\ sigRef = [g \in Signal |-> NoScenario]
    /\ rEntered = {} /\ rFirst = {} /\ rGap = {}
    /\ rTp = [s \in Scenario |-> 0]
    /\ pc = "down" /\ cycle = 0
    /\ snap = {} /\ snapActive = {} /\ snapExpired = {} /\ todo = {}
    /\ bDirty = {} /\ bActivated = {} /\ bSiblings = {}
    /\ bTp = [s \in Scenario |-> 0]
    /\ bOutcome = [s \in Scenario |-> "running"]
    /\ bEvents = NoEvents
    /\ expired = {} /\ feedDown = {}
    /\ faults = 0 /\ outages = 0
    /\ lapses = [s \in Scenario |-> 0]

-----------------------------------------------------------------------------
(* Start-up and the head of a cycle *)

\* recover_redis_state: entered flags, first marks and best TP come back
\* from the rows of the entered scenarios; other keys are left as they are.
Recover ==
    LET back == {s \in Entered : result[s] # NoRow} IN
    /\ pc = "down"
    /\ pc' = "idle" /\ cycle' = 0
    /\ rEntered' = rEntered \cup back
    /\ rFirst' = rFirst \cup back
    /\ rTp' = [s \in Scenario |-> IF s \in back /\ result[s].tp > 0
                                  THEN result[s].tp ELSE rTp[s]]
    /\ UNCHANGED <<db, rGap, loaded, todo, batch, world>>

\* The read of the rows fails: recovery logs it and the loop starts anyway.
RecoverFails ==
    /\ pc = "down" /\ Fault
    /\ pc' = "idle" /\ cycle' = 0
    /\ UNCHANGED <<db, redis, loaded, todo, batch, expired, feedDown, outages, lapses>>

NextCycle == (cycle + 1) % SlowCycles

\* Mutant of Readable: waiting scenarios are never read.
ReadableEntered == Entered

\* A full cycle reads every running scenario, a fast one the entered ones.
Readable == IF NextCycle = 0 THEN Running ELSE Entered

LoadCycle ==
    /\ pc = "idle"
    /\ cycle' = NextCycle
    /\ pc' = IF Readable = {} THEN "idle" ELSE "eval"
    /\ snap' = Readable
    /\ todo' = Readable
    /\ snapActive' = {s \in Readable : active[s]}
    /\ snapExpired' = Readable \cap expired
    /\ EmptyBatch
    /\ UNCHANGED <<db, redis, world>>

LoadFails ==
    /\ pc = "idle" /\ Fault
    /\ cycle' = NextCycle
    /\ UNCHANGED <<db, redis, pc, loaded, todo, batch, expired, feedDown, outages, lapses>>

-----------------------------------------------------------------------------
(* _eval, for one scenario of the cycle *)

\* Mutant of EvalNoPrice: a gap is opened for waiting scenarios too.
EvalNoPriceAny(s) ==
    LET opens == s \notin rGap IN
    /\ pc = "eval" /\ s \in todo
    /\ SignalOf[s] \in feedDown
    /\ todo' = todo \ {s}
    /\ rGap' = rGap \cup {s}
    /\ bEvents' = IF opens THEN [bEvents EXCEPT ![s] = Append(@, "data_gap_start")]
                           ELSE bEvents
    /\ UNCHANGED <<db, rEntered, rTp, rFirst, pc, cycle, loaded,
                   bDirty, bTp, bOutcome, bActivated, bSiblings, world>>

\* No candle: the scenario is skipped; the first miss of an entered scenario
\* opens a data gap.
EvalNoPrice(s) ==
    LET opens == s \in snapActive /\ s \notin rGap IN
    /\ pc = "eval" /\ s \in todo
    /\ SignalOf[s] \in feedDown
    /\ todo' = todo \ {s}
    /\ rGap' = IF opens THEN rGap \cup {s} ELSE rGap
    /\ bEvents' = IF opens THEN [bEvents EXCEPT ![s] = Append(@, "data_gap_start")]
                           ELSE bEvents
    /\ UNCHANGED <<db, rEntered, rTp, rFirst, pc, cycle, loaded,
                   bDirty, bTp, bOutcome, bActivated, bSiblings, world>>

\* entered before this evaluation: the Redis key, restored from the row's
\* active column when it is missing
WasEntered(s) == s \in rEntered \/ s \in snapActive

\* Mutant of SkipEntry: the entries of this cycle are forgotten.
SkipEntryOfRead(s) == \E t \in snapActive : SignalOf[t] = SignalOf[s]

\* skip_entry: a scenario of the same signal was entered when the rows were
\* read or has entered earlier in this cycle
SkipEntry(s) == \E t \in snapActive \cup bActivated : SignalOf[t] = SignalOf[s]

IsEntered(s, obs)    == WasEntered(s) \/ (~SkipEntry(s) /\ obs.entry)
NewlyEntered(s, obs) == IsEntered(s, obs) /\ ~WasEntered(s)

BestTp(s, obs) == IF IsEntered(s, obs) THEN Larger(rTp[s], obs.tp) ELSE 0

\* The terminal check, with the candle's stop and the expiry of the scenario.
Verdict(s, obs) ==
    LET in == IsEntered(s, obs)
        tp == BestTp(s, obs)
    IN  IF in /\ obs.sl THEN (IF tp > 0 THEN "success" ELSE "failed")
        ELSE IF in /\ tp > 0 THEN "success"
        ELSE IF s \in snapExpired THEN "expired"
        ELSE "running"

If(condition, seq) == IF condition THEN seq ELSE <<>>

EvalEvents(s, obs) ==
    LET in   == IsEntered(s, obs)
        hits == IF in THEN BestTp(s, obs) - rTp[s] ELSE 0
        out  == Verdict(s, obs)
    IN  If(s \in rGap /\ in, <<"data_gap_end">>)
        \o If(NewlyEntered(s, obs), <<"entered">>)
        \o [i \in 1 .. hits |-> "tp_hit"]
        \o If(out = "failed", <<"sl_hit">>)
        \o If(out # "running", <<"completed">>)

\* Mutant of EvalRedis: no _cleanup on a verdict.
EvalRedisKept(s, obs) ==
    /\ rEntered' = IF IsEntered(s, obs) THEN rEntered \cup {s} ELSE rEntered \ {s}
    /\ rTp' = [rTp EXCEPT ![s] = IF IsEntered(s, obs) THEN BestTp(s, obs) ELSE @]
    /\ rFirst' = rFirst \cup {s}
    /\ rGap' = rGap \ {s}

\* The Redis keys of s after the evaluation; a verdict deletes them all (_cleanup).
EvalRedis(s, obs) ==
    LET in   == IsEntered(s, obs)
        over == Verdict(s, obs) # "running"
    IN  /\ rEntered' = IF in /\ ~over THEN rEntered \cup {s} ELSE rEntered \ {s}
        /\ rTp' = [rTp EXCEPT ![s] = IF over THEN 0
                                     ELSE IF in THEN BestTp(s, obs) ELSE @]
        /\ rFirst' = IF over THEN rFirst \ {s} ELSE rFirst \cup {s}
        /\ rGap' = rGap \ {s}

EvalWith(s, obs) ==
    /\ EvalRedis(s, obs)
    /\ bDirty' = IF \/ Verdict(s, obs) # "running"
                    \/ IsEntered(s, obs)
                    \/ s \notin rFirst
                 THEN bDirty \cup {s} ELSE bDirty
    /\ bTp' = [bTp EXCEPT ![s] = BestTp(s, obs)]
    /\ bOutcome' = [bOutcome EXCEPT ![s] = Verdict(s, obs)]
    /\ bActivated' = IF NewlyEntered(s, obs) THEN bActivated \cup {s} ELSE bActivated
    /\ bEvents' = [bEvents EXCEPT ![s] = @ \o EvalEvents(s, obs)]

EvalPriced(s) ==
    /\ pc = "eval" /\ s \in todo
    /\ SignalOf[s] \notin feedDown
    /\ todo' = todo \ {s}
    /\ \E obs \in Observation : EvalWith(s, obs)
    /\ UNCHANGED <<db, pc, cycle, loaded, bSiblings, world>>

\* The Redis writes of _eval up to its done-th: the closed gap, the entered flag,
\* the best TP, the first mark.
EvalRedisUpTo(s, obs, done) ==
    /\ rGap' = IF done >= 1 THEN rGap \ {s} ELSE rGap
    /\ rEntered' = IF done >= 2 /\ IsEntered(s, obs) THEN rEntered \cup {s} ELSE rEntered
    /\ rTp' = IF done >= 3 /\ IsEntered(s, obs)
              THEN [rTp EXCEPT ![s] = BestTp(s, obs)] ELSE rTp
    /\ rFirst' = IF done = 4 THEN rFirst \cup {s} ELSE rFirst

\* A Redis call that fails drops the scenario from the batch and keeps what was
\* written before it, or by it if only the answer was lost.
EvalRaises(s) ==
    /\ pc = "eval" /\ s \in todo
    /\ Fault
    /\ todo' = todo \ {s}
    /\ IF SignalOf[s] \in feedDown
       THEN /\ rGap' \in {rGap, rGap \cup ({s} \cap snapActive)}
            /\ UNCHANGED <<rEntered, rTp, rFirst>>
       ELSE \E obs \in Observation :
                EvalRedis(s, obs) \/ \E done \in 0 .. 4 : EvalRedisUpTo(s, obs, done)
    /\ UNCHANGED <<db, pc, cycle, loaded, batch, expired, feedDown, outages, lapses>>

-----------------------------------------------------------------------------
(* The tail of a cycle *)

\* Mutants of SiblingCancel: nobody is cancelled; every sibling in the table is,
\* not only those read in this cycle.
SiblingCancelNone == {}
SiblingCancelUnread ==
    {s \in Scenario \ (snapActive \cup bActivated) :
        \E a \in bActivated : SignalOf[a] = SignalOf[s]}

\* Waiting siblings of what entered; their tracking keys are deleted here,
\* before the transaction that cancels them.
SiblingCancel ==
    {s \in snap \ (snapActive \cup bActivated) :
        \E a \in bActivated : SignalOf[a] = SignalOf[s]}

CancelSiblings ==
    /\ pc = "eval" /\ todo = {}
    /\ bSiblings' = SiblingCancel
    /\ rEntered' = rEntered \ SiblingCancel
    /\ rTp' = [s \in Scenario |-> IF s \in SiblingCancel THEN 0 ELSE rTp[s]]
    /\ rFirst' = rFirst \ SiblingCancel
    /\ rGap' = rGap \ SiblingCancel
    /\ pc' = "write"
    /\ UNCHANGED <<db, cycle, loaded, todo, bDirty, bTp, bOutcome, bActivated,
                   bEvents, world>>

\* A Redis call of a sibling's _cleanup fails: the exception leaves evaluate_cycle
\* and the batch is never written.
CancelRaises ==
    /\ pc = "eval" /\ todo = {} /\ SiblingCancel # {}
    /\ Fault
    /\ \E S \in SUBSET SiblingCancel :
        /\ rEntered' = rEntered \ S
        /\ rTp' = [s \in Scenario |-> IF s \in S THEN 0 ELSE rTp[s]]
        /\ rFirst' = rFirst \ S
        /\ rGap' = rGap \ S
    /\ pc' = "idle"
    /\ EndCycle
    /\ UNCHANGED <<db, cycle, expired, feedDown, outages, lapses>>

\* Mutant of SignalTerminals: what entered and ended in one cycle is forgotten.
SignalTerminalsOfRead == {s \in TerminalIn(bOutcome) : s \in snapActive}

\* signal_terminals: a verdict on a scenario that was entered in the rows read
\* or entered in this cycle
SignalTerminals == {s \in TerminalIn(bOutcome) : s \in snapActive \cup bActivated}

\* Mutant of Upsert: entered_at without COALESCE.
UpsertEntered(row, res, tp, entered, completed) ==
    [result |-> res,
     tp |-> IF tp > 0 THEN tp ELSE row.tp,
     entered |-> entered,
     completed |-> row.completed \/ completed]

\* _UPSERT_SQL: result overwritten, hit_tp_index kept when the new one is NULL,
\* entered_at and completed_at kept once set.
Upsert(row, res, tp, entered, completed) ==
    [result |-> res,
     tp |-> IF tp > 0 THEN tp ELSE row.tp,
     entered |-> row.entered \/ entered,
     completed |-> row.completed \/ completed]

\* Mutant of WrittenResult: the cancelled siblings get no row.
WrittenResultOwn(s) ==
    IF s \in bDirty
    THEN Upsert(result[s], bOutcome[s], bTp[s], s \in bActivated, bOutcome[s] # "running")
    ELSE result[s]

\* The rows of the batch, then the rows of the cancelled siblings.
WrittenResult(s) ==
    LET row == IF s \in bDirty
               THEN Upsert(result[s], bOutcome[s], bTp[s],
                           s \in bActivated, bOutcome[s] # "running")
               ELSE result[s]
    IN  IF s \in bSiblings THEN Upsert(row, "cancelled", 0, FALSE, TRUE) ELSE row

\* Mutant of Settles: no status guard in the UPDATE of the verdicts.
SettlesUnguarded(s) == bOutcome[s] # "running"

\* The three UPDATEs on scenarios, in their order: entered, terminal, sibling.
AfterEnter(s) ==
    active[s] \/ (s \in bActivated /\ bOutcome[s] = "running" /\ status[s] = "running")
Settles(s)    == bOutcome[s] # "running" /\ status[s] \notin TerminalStates
AfterSettle(s) == IF Settles(s) THEN bOutcome[s] ELSE status[s]
Cancels(s)    ==
    /\ s \in bSiblings /\ AfterSettle(s) = "running"
    /\ ~(AfterEnter(s) /\ ~Settles(s))
WrittenStatus(s) == IF Cancels(s) THEN "cancelled" ELSE AfterSettle(s)
WrittenActive(s) == AfterEnter(s) /\ ~Settles(s) /\ ~Cancels(s)

\* The two UPDATEs on signals: activation, then the clearing of active where
\* the terminated scenario is the one the signal points to.
WrittenRef(g) ==
    IF \E a \in bActivated : SignalOf[a] = g
    THEN CHOOSE a \in bActivated : SignalOf[a] = g
    ELSE sigRef[g]
WrittenSigActive(g) ==
    /\ sigActive[g] \/ \E a \in bActivated : SignalOf[a] = g
    /\ ~\E t \in SignalTerminals : SignalOf[t] = g /\ WrittenRef(g) = t

WrittenEvents(s) == events[s] \o bEvents[s] \o If(s \in bSiblings, <<"cancelled">>)

\* _batch_write: one transaction.  The inserts into scenario_results and
\* scenario_events need the scenario row to be there still.
Writes == {s \in snap : s \in bDirty \/ s \in bSiblings \/ bEvents[s] # <<>>}

CommitBatch ==
    /\ pc = "write"
    /\ \A s \in Writes : status[s] # "absent"
    /\ status' = [s \in Scenario |-> WrittenStatus(s)]
    /\ active' = [s \in Scenario |-> WrittenActive(s)]
    /\ result' = [s \in Scenario |-> WrittenResult(s)]
    /\ events' = [s \in Scenario |-> WrittenEvents(s)]
    /\ sigActive' = [g \in Signal |-> WrittenSigActive(g)]
    /\ sigRef' = [g \in Signal |-> WrittenRef(g)]
    /\ pc' = "idle"
    /\ EndCycle
    /\ UNCHANGED <<redis, cycle, world>>

\* batch_write raises: the transaction is rolled back, the cycle is over.
CommitFails ==
    /\ pc = "write"
    /\ IF \A s \in Writes : status[s] # "absent" THEN Fault ELSE UNCHANGED faults
    /\ pc' = "idle"
    /\ EndCycle
    /\ UNCHANGED <<db, redis, cycle, expired, feedDown, outages, lapses>>

-----------------------------------------------------------------------------
(* Crashes, the loss of Redis keys, and the environment *)

Crash ==
    /\ pc # "down" /\ Fault
    /\ pc' = "down"
    /\ EndCycle
    /\ UNCHANGED <<db, redis, cycle, expired, feedDown, outages, lapses>>

\* Redis restarts empty.
RedisRestart ==
    /\ rEntered \cup rFirst \cup rGap # {} /\ Fault
    /\ rEntered' = {} /\ rFirst' = {} /\ rGap' = {}
    /\ rTp' = [s \in Scenario |-> 0]
    /\ UNCHANGED <<db, process, expired, feedDown, outages, lapses>>

\* One key of s is evicted (allkeys-lru).
RedisEvicts(s) ==
    /\ Fault
    /\ \/ s \in rEntered /\ rEntered' = rEntered \ {s} /\ UNCHANGED <<rTp, rFirst, rGap>>
       \/ rTp[s] > 0 /\ rTp' = [rTp EXCEPT ![s] = 0] /\ UNCHANGED <<rEntered, rFirst, rGap>>
       \/ s \in rFirst /\ rFirst' = rFirst \ {s} /\ UNCHANGED <<rEntered, rTp, rGap>>
       \/ s \in rGap /\ rGap' = rGap \ {s} /\ UNCHANGED <<rEntered, rTp, rFirst>>
    /\ UNCHANGED <<db, process, expired, feedDown, outages, lapses>>

\* A key of s has lived its time: two hours for the mark of an open gap, forty days
\* for the others, which a position can outlive (expire_at may be ninety days off).
\* The flag of an entry whose batch is still to be written is seconds old.
KeyRunsOut(s) ==
    /\ lapses[s] < MaxLapses
    /\ lapses' = [lapses EXCEPT ![s] = @ + 1]
    /\ \/ s \in rGap /\ rGap' = rGap \ {s} /\ UNCHANGED <<rEntered, rFirst>>
       \/ /\ s \in rEntered \ bActivated
          /\ rEntered' = rEntered \ {s}
          /\ UNCHANGED <<rFirst, rGap>>
       \/ s \in rFirst /\ rFirst' = rFirst \ {s} /\ UNCHANGED <<rEntered, rGap>>
    /\ UNCHANGED <<db, rTp, process, expired, feedDown, faults, outages>>

\* final_store inserts a signal and all its scenarios in one transaction.
StoreSignal(g) ==
    /\ \A s \in ScenariosOf(g) : status[s] = "absent"
    /\ ScenariosOf(g) # {}
    /\ status' = [s \in Scenario |-> IF SignalOf[s] = g THEN "running" ELSE status[s]]
    /\ UNCHANGED <<active, result, events, sigActive, sigRef, redis, process, world>>

\* The clock passes the expire_at of s.
Expire(s) ==
    /\ s \notin expired
    /\ expired' = expired \cup {s}
    /\ UNCHANGED <<db, redis, process, feedDown, faults, outages, lapses>>

\* No tick and no last price in Redis for the symbol of g, and its return.
FeedStops(g) ==
    /\ g \notin feedDown /\ outages < MaxOutages
    /\ feedDown' = feedDown \cup {g}
    /\ outages' = outages + 1
    /\ UNCHANGED <<db, redis, process, expired, faults, lapses>>

FeedReturns(g) ==
    /\ g \in feedDown
    /\ feedDown' = feedDown \ {g}
    /\ UNCHANGED <<db, redis, process, expired, faults, outages, lapses>>

-----------------------------------------------------------------------------

EvalOne == \E s \in Scenario : EvalNoPrice(s) \/ EvalPriced(s)

Evaluator == Recover \/ LoadCycle \/ EvalOne \/ CancelSiblings \/ CommitBatch

Faults ==
    \/ RecoverFails \/ LoadFails \/ CancelRaises \/ CommitFails \/ Crash \/ RedisRestart
    \/ \E s \in Scenario : EvalRaises(s) \/ RedisEvicts(s)

Environment ==
    \/ \E g \in Signal : StoreSignal(g) \/ FeedStops(g) \/ FeedReturns(g)
    \/ \E s \in Scenario : Expire(s) \/ KeyRunsOut(s)

Next == Evaluator \/ Faults \/ Environment

Spec == Init /\ [][Next]_vars

-----------------------------------------------------------------------------
(* Properties that hold whatever fails *)

\* Multi-scenario rule (main.py:29-31): at most one scenario of a signal is in a
\* position, although the entered flags of two scenarios may be set in Redis at
\* once after a failed commit.
OneEnteredPerSignal ==
    \A s, t \in Entered : SignalOf[s] = SignalOf[t] => s = t

\* Once a scenario is in a position no other scenario of its signal is left
\* waiting: the batch that enters it cancels or settles all of them.
NoWaitingBesideEntered ==
    \A s \in Entered, t \in Waiting : SignalOf[s] # SignalOf[t]

\* signals.active and active_scenarios_id (models/signals.py:46-49) describe the
\* scenarios table: the signal is active exactly while the scenario it points to is.
SignalMirrorsScenario ==
    /\ \A s \in Entered : sigActive[SignalOf[s]] /\ sigRef[SignalOf[s]] = s
    /\ \A g \in Signal : sigActive[g] => sigRef[g] \in Entered /\ SignalOf[sigRef[g]] = g

Times(e, s) == Cardinality({i \in 1 .. Len(events[s]) : events[s][i] = e})

\* The audit log never shows a second entry or a second end of a scenario, and a
\* scenario in a position has its entry in the log and in its result row, so that
\* recovery (which joins the result row) finds it.
EntryIsAudited ==
    /\ \A s \in Scenario : Times("entered", s) <= 1 /\ Times("completed", s) <= 1
    /\ \A s \in Entered :
        Times("entered", s) = 1 /\ result[s].entered /\ result[s].result = "running"

\* The result row ends as the scenario does, except that a sibling that ran out in
\* the cycle of another's entry is recorded as cancelled.
ResultFollowsStatus ==
    \A s \in Scenario :
        /\ status[s] \in Outcome =>
            result[s].completed /\ result[s].result \in {status[s], "cancelled"}
        /\ status[s] = "cancelled" => result[s].completed /\ result[s].result = "cancelled"
        /\ status[s] = "running" => ~result[s].completed

\* Between cycles every tracking key belongs to a scenario that still runs: an ended
\* scenario leaves no entered flag and no open gap behind, in whatever order the two
\* stores were written.
NoOrphanKeys ==
    pc = "idle" =>
        rEntered \cup rFirst \cup rGap \cup {s \in Scenario : rTp[s] > 0} \subseteq Running

-----------------------------------------------------------------------------
(* Properties of a system in which nothing fails *)

Traded == {s \in Scenario : result[s].entered \/ status[s] \in {"success", "failed"}}

\* The rule of main.py:29-31 over the whole life of a signal: only one of its
\* scenarios is ever traded.
OneTradePerSignal ==
    \A s, t \in Traded : SignalOf[s] = SignalOf[t] => s = t

\* A win or a loss belongs to an entry that the result row and the log both show.
OutcomeHasEntry ==
    \A s \in Traded : result[s].entered /\ Times("entered", s) = 1

\* Between cycles Redis and Postgres agree on what is in a position, no tracking key
\* outlives its scenario, and no target the cycle that reached it.  Only the flag of a
\* position that has lost a key to its time to live may be missing, until the next
\* cycle that finds a price.
StoresAgree ==
    pc = "idle" =>
        /\ rEntered \subseteq Entered
        /\ \A s \in Entered : s \in rEntered \/ lapses[s] > 0
        /\ rFirst \subseteq Running
        /\ \A s \in Scenario : rTp[s] = 0

\* The event log reads as a life of the scenario: targets and stops only inside a
\* position, data gaps bracketed and closed before the end, nothing but a
\* cancellation after the end.  The mark of an open gap lives for two hours only: a
\* longer gap is logged as starting again, or never as ending, at most once for each
\* key that ran out.
EventsTellTheStory ==
    \A s \in Scenario : \A i \in 1 .. Len(events[s]) :
        LET e      == events[s][i]
            before == {events[s][j] : j \in 1 .. i - 1}
            Count(x) == Cardinality({j \in 1 .. i - 1 : events[s][j] = x})
            inGap  == Count("data_gap_start") - Count("data_gap_end")
        IN  /\ e \in {"tp_hit", "sl_hit", "data_gap_start"} => "entered" \in before
            /\ e = "data_gap_end" => 1 <= inGap /\ inGap <= 1 + lapses[s]
            /\ e \in {"data_gap_start", "tp_hit", "sl_hit", "completed"} =>
                   inGap <= lapses[s]
            /\ before \cap {"completed", "cancelled"} # {} => e = "cancelled"

\* What models/signals.py:204-214 says of the result row, the live and final
\* evaluation state of a scenario: its result is how the scenario ended.
ResultIsStatus ==
    \A s \in Scenario :
        status[s] \in Outcome \cup {"cancelled"} => result[s].result = status[s]

\* The phase of a scenario, read off its row in scenarios.
PhaseOf(s) ==
    IF status[s] = "running" THEN (IF active[s] THEN "open" ELSE "waiting")
    ELSE status[s]

Phases == [s \in Scenario |-> PhaseOf(s)]

Lifecycle == INSTANCE ScenarioLifecycle WITH phase <- Phases

\* The evaluator implements the life cycle its docstring (main.py:1-32) describes.
ImplementsLifecycle == Lifecycle!Spec

-----------------------------------------------------------------------------
(* Liveness *)

\* The loop of run() goes on forever and the container is restarted after a crash;
\* the streamer reconnects, so a symbol gets a price again.
LiveSpec ==
    /\ Spec
    /\ WF_vars(Evaluator)
    /\ \A g \in Signal : WF_vars(FeedReturns(g))

\* A scenario does not run for ever: once its expire_at has passed it ends, entered
\* or not, whatever failed on the way (main.py:614-624 is reached only with a price).
ExpiredScenarioEnds ==
    \A s \in Scenario :
        (s \in expired /\ status[s] = "running") ~> status[s] # "running"
=============================================================================
