-------------------------- MODULE MCSignalEvaluator --------------------------
(***************************************************************************)
(* SignalEvaluator on small instances: two competing scenarios of one      *)
(* signal, or those and a third one of a signal of its own.                *)
(***************************************************************************)
EXTENDS SignalEvaluator, TLC

CONSTANTS a1, a2, b1, A, B

OneSignal  == (a1 :> A) @@ (a2 :> A)
TwoSignals == (a1 :> A) @@ (a2 :> A) @@ (b1 :> B)

\* The competitors are interchangeable.
Competitors == Permutations({a1, a2})
=============================================================================
