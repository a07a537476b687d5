-------------------------- MODULE MCEvaluatorOffice --------------------------
EXTENDS EvaluatorOffice, TLC

CONSTANTS a1, a2, b1, A, B

OneSignal  == (a1 :> A) @@ (a2 :> A)
TwoSignals == (a1 :> A) @@ (a2 :> A) @@ (b1 :> B)
=============================================================================
