------------------------------- MODULE MCSaga -------------------------------
(* A saga of six steps in four layers, 1 -> {2, 3, 4} -> 5 -> 6 (with 5      *)
(* independent of 4): steps side by side, a step that joins some of them,    *)
(* and enough completed steps for the circuit breaker of the compensator to  *)
(* open before the last of them.                                             *)
EXTENDS Saga

MCSteps == 1..6
MCDependsOn == <<{}, {1}, {1}, {1}, {2, 3}, {5}>>
MCLayerOf == <<1, 2, 2, 2, 3, 4>>
\* Steps 1 and 3 are retried once, the others are not.
MCAttempts == <<2, 1, 2, 1, 1, 1>>
MCCompRetry == <<2, 2, 1, 1, 1, 1>>
\* compensation_retry = 0 for step 2.
MCZeroCompRetry == <<2, 0, 1, 1, 1, 1>>

\* Ports that never raise and a caller that waits, under every policy.
Calm == Setting(AllPolicies, {}, {}, 0, FALSE)
\* Every port call may raise, step 2 runs in a pool thread, two steps at a
\* time, and the caller may cancel.
Rough == Setting({"RETRY_WITH_BACKOFF", "GROUPED_PARALLEL"}, Ports, {2}, 2, TRUE)
MCSettings == {Calm, Rough}

\* Every policy with calm ports, and a step that runs in a pool thread.
MCRefuting == {Calm, Setting({"STRICT_SEQUENTIAL"}, {}, {2}, 0, FALSE)}
=============================================================================
