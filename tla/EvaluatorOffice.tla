--------------------------- MODULE EvaluatorOffice ---------------------------
(***************************************************************************)
(* The evaluator while an operator edits the same rows from the admin      *)
(* panel (services/office/db.py, add_signal .. delete_scenario).  The panel*)
(* takes no lock the evaluator would see: its statements run between the   *)
(* read of a cycle and its batch as well as between cycles.                *)
(*                                                                         *)
(* Of an edit only the status is modelled; the other columns it overwrites *)
(* (prices, direction) are inputs of the candle observation.               *)
(***************************************************************************)
EXTENDS SignalEvaluator

CONSTANTS
    EditChoices,  \* the statuses an edit may write
    AddChoices,   \* the statuses of scenarios added by hand
    MaxEdits      \* bound on admin operations

\* The select element of _scenario_fields.html offers these and no others, and
\* preselects "running" for a scenario whose status is none of them.
FormOptions == {"running", "expired"} \cup OfficeStates

ASSUME OfficeAssumption ==
    EditChoices \cup AddChoices \subseteq FormOptions /\ MaxEdits \in Nat

VARIABLES edits,    \* admin operations so far
          deleted   \* scenarios that were deleted; ids are not used again

officeVars == <<vars, edits, deleted>>

OfficeTypeOK == TypeOK /\ edits \in 0 .. MaxEdits /\ deleted \subseteq Scenario

Edit == edits < MaxEdits /\ edits' = edits + 1

\* update_scenario: the status comes from the form; active is not touched.
UpdateScenario(s) ==
    /\ Edit
    /\ status[s] # "absent"
    /\ \E st \in EditChoices : status' = [status EXCEPT ![s] = st]
    /\ UNCHANGED <<active, result, events, sigActive, sigRef, redis, process, world, deleted>>

\* Deleted rows take their results and events with them (ON DELETE CASCADE).
Forget(S) ==
    /\ status' = [s \in Scenario |-> IF s \in S THEN "absent" ELSE status[s]]
    /\ active' = [s \in Scenario |-> active[s] /\ s \notin S]
    /\ result' = [s \in Scenario |-> IF s \in S THEN NoRow ELSE result[s]]
    /\ events' = [s \in Scenario |-> IF s \in S THEN <<>> ELSE events[s]]
    /\ sigRef' = [g \in Signal |-> IF sigRef[g] \in S THEN NoScenario ELSE sigRef[g]]
    /\ deleted' = deleted \cup S
    /\ UNCHANGED <<redis, process, world>>

\* delete_scenario: active_scenarios_id becomes NULL, signals.active stays.
DeleteScenario(s) ==
    /\ Edit
    /\ status[s] # "absent"
    /\ Forget({s})
    /\ UNCHANGED sigActive

\* delete_signal: the scenarios go with the signal.
DeleteSignal(g) ==
    /\ Edit
    /\ \E s \in ScenariosOf(g) : status[s] # "absent"
    /\ Forget(ScenariosOf(g))
    /\ sigActive' = [sigActive EXCEPT ![g] = FALSE]

\* add_scenario to a signal that is stored.
AddScenario(s) ==
    /\ Edit
    /\ status[s] = "absent" /\ s \notin deleted
    /\ \E t \in Siblings(s) : status[t] # "absent"
    /\ \E st \in AddChoices : status' = [status EXCEPT ![s] = st]
    /\ UNCHANGED <<active, result, events, sigActive, sigRef, redis, process, world, deleted>>

Office ==
    \/ \E s \in Scenario : UpdateScenario(s) \/ DeleteScenario(s) \/ AddScenario(s)
    \/ \E g \in Signal : DeleteSignal(g)

\* final_store stores a signal with the scenarios the message holds; others may be
\* added by hand later.
StoreSome(g) ==
    /\ \A s \in ScenariosOf(g) : status[s] = "absent" /\ s \notin deleted
    /\ \E S \in SUBSET ScenariosOf(g) :
        /\ S # {}
        /\ status' = [s \in Scenario |-> IF s \in S THEN "running" ELSE status[s]]
    /\ UNCHANGED <<active, result, events, sigActive, sigRef, redis, process, world>>

OfficeEnvironment ==
    \/ \E g \in Signal : StoreSome(g) \/ FeedStops(g) \/ FeedReturns(g)
    \/ \E s \in Scenario : Expire(s) \/ KeyRunsOut(s)

OfficeInit == Init /\ edits = 0 /\ deleted = {}

NoEdit == UNCHANGED <<edits, deleted>>

OfficeNext ==
    \/ Office
    \/ (Evaluator \/ Faults \/ OfficeEnvironment) /\ NoEdit

OfficeSpec ==
    /\ OfficeInit /\ [][OfficeNext]_officeVars
    /\ WF_officeVars((Evaluator \/ CommitFails) /\ NoEdit)
    /\ \A g \in Signal : WF_officeVars(FeedReturns(g) /\ NoEdit)

-----------------------------------------------------------------------------

\* A batch computed from rows read earlier never changes a scenario that has got one
\* of the statuses the UPDATE knows as terminal in the meantime (of the form's only
\* "expired"), and never brings back one that was deleted (_batch_write, 859-868 and
\* 880-885).  A scenario closed as "canceled", "hit_tp" or "hit_sl" is not protected:
\* the UPDATE does not list these, and a verdict of the running cycle replaces them.
EndedMeanwhileIsKept ==
    [][pc = "write" /\ pc' = "idle" =>
        \A s \in Scenario :
            /\ status[s] \in TerminalStates => status'[s] = status[s]
            /\ status[s] = "absent" => status'[s] = "absent" /\ result'[s] = NoRow]_officeVars

\* However the operator closes, deletes and adds scenarios around it, the evaluator
\* still holds at most one position per signal.
OneEnteredDespiteOffice == OneEnteredPerSignal

\* A scenario row deleted under a running cycle makes its whole batch fail (foreign
\* keys of scenario_results and scenario_events); the other scenarios of that cycle
\* still end, in a later cycle.
ExpiredEndsDespiteOffice ==
    \A s \in Scenario :
        (s \in expired /\ status[s] = "running") ~> status[s] # "running"
=============================================================================
