------------------------- MODULE MCSagaComposition -------------------------
(* Five sagas in three layers: 1 and 2, then 3 and 4, then 5.              *)
EXTENDS SagaComposition

MCDependsOn == <<{}, {}, {1}, {1, 2}, {3, 4}>>
MCFlowsFrom == <<{}, {}, {1, 2}, {2}, {1, 4}>>
=============================================================================
