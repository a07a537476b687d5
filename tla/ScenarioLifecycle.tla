-------------------------- MODULE ScenarioLifecycle --------------------------
(***************************************************************************)
(* What the evaluator promises about the scenarios of a signal, as its     *)
(* docstring (services/processors/signal_evaluator/main.py, 1-32) and the  *)
(* comments of shared/models/signals.py state it, without cycles, Redis    *)
(* keys or batches:                                                        *)
(*   - a scenario waits, is entered ("open"), and ends in a terminal state *)
(*     it never leaves;                                                    *)
(*   - the first scenario of a signal to enter takes the signal: in the    *)
(*     same step every other waiting scenario of the signal ends;          *)
(*   - a trade is only won or lost by a scenario that entered.             *)
(* One step may settle several signals, as one batch transaction does.     *)
(***************************************************************************)
CONSTANTS Scenario, Signal, SignalOf

VARIABLE phase

Closed == {"success", "failed", "expired"}
Phase  == {"absent", "waiting", "open", "cancelled"} \cup Closed

Init == phase = [s \in Scenario |-> "absent"]

Of(g) == {s \in Scenario : SignalOf[s] = g}

\* The signal and its scenarios are stored.
Store(g) == \A s \in Of(g) : phase[s] = "absent" /\ phase'[s] = "waiting"

\* Scenario a takes its signal; it may win, lose or run out at once.  Every other
\* scenario that waited is cancelled, or runs out in the same step.
Enter(g) ==
    \E a \in Of(g) :
        /\ phase[a] = "waiting"
        /\ phase'[a] \in {"open"} \cup Closed
        /\ \A s \in Of(g) \ {a} :
            IF phase[s] = "waiting" THEN phase'[s] \in {"cancelled", "expired"}
                                    ELSE phase'[s] = phase[s]

\* Without an entry a waiting scenario can only run out.
Settle(g) ==
    \A s \in Of(g) :
        \/ phase'[s] = phase[s]
        \/ phase[s] = "open" /\ phase'[s] \in Closed
        \/ phase[s] = "waiting" /\ phase'[s] = "expired"

Next ==
    /\ phase' \in [Scenario -> Phase]
    /\ \A g \in Signal : Store(g) \/ Enter(g) \/ Settle(g)

Spec == Init /\ [][Next]_phase
=============================================================================
