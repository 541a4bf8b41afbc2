----------------------------- MODULE Saga_proofs -----------------------------
(***************************************************************************)
(* Proofs about Saga, for every saga definition, policy, set of faulty     *)
(* ports and cancellation of the caller.                                   *)
(***************************************************************************)
EXTENDS Saga, FiniteSetTheorems, TLAPS

LEMMA CountIsNat == ASSUME NEW S \in SUBSET Steps PROVE Cardinality(S) \in Nat
<1>1. IsFiniteSet(S)
  BY FS_Subset, SagaAssumption
<1> QED
  BY <1>1, FS_CardinalityType

\* The outcome of a failed attempt, and of a failed compensation, is well typed.
LEMMA AttemptFailedType ==
    ASSUME TypeOK, NEW s \in Steps, AttemptFailed(s)
    PROVE  /\ task' \in [Steps -> TaskStates]
           /\ status' \in [Steps -> {"ABSENT", "RUNNING", "DONE", "FAILED"}]
           /\ \A t \in Steps : task'[t] = "backoff" =>
                 task[t] = "backoff" \/ attempt[t] < Attempts[t]
<1>1. CASE attempt[s] < Attempts[s]
  BY <1>1 DEF TypeOK, AttemptFailed, TaskStates, Busy
<1>2. CASE ~(attempt[s] < Attempts[s])
  BY <1>2 DEF TypeOK, AttemptFailed, TaskStates, Busy
<1> QED
  BY <1>1, <1>2

LEMMA CompFailedType ==
    ASSUME TypeOK, NEW s \in Steps, CompFailed(s)
    PROVE  /\ pc' \in {pc, "on_completed"}
           /\ rest' \in SUBSET Steps
           /\ comp' \in [Steps -> {"idle", "running", "undone", "failed", "cancelled"}]
           /\ tries' \in [Steps -> Nat]
           /\ failures' \in Nat
<1> USE DEF TypeOK
<1>1. CASE policy = "RETRY_WITH_BACKOFF" /\ tries[s] + 1 < CompRetry[s]
  BY <1>1 DEF CompFailed
<1>2. CASE ~(policy = "RETRY_WITH_BACKOFF" /\ tries[s] + 1 < CompRetry[s])
  <2>1. /\ comp' = [comp EXCEPT ![s] = "failed"] /\ tries' = tries
        /\ pc' \in {pc, "on_completed"} /\ rest' \in {rest, {}}
        /\ failures' \in {failures, failures + 1}
    <3>1. CASE pc # "compensate"
      BY <1>2, <3>1 DEF CompFailed
    <3>2. CASE pc = "compensate" /\ policy = "BEST_EFFORT_PARALLEL"
      BY <1>2, <3>2 DEF CompFailed
    <3>3. CASE pc = "compensate" /\ policy = "CIRCUIT_BREAKER"
      BY <1>2, <3>3 DEF CompFailed
    <3>4. CASE pc = "compensate" /\ policy \notin {"BEST_EFFORT_PARALLEL", "CIRCUIT_BREAKER"}
      BY <1>2, <3>4 DEF CompFailed
    <3> QED
      BY <3>1, <3>2, <3>3, <3>4
  <2> QED
    BY <2>1
<1> QED
  BY <1>1, <1>2

\* Methods that are given up on: the counts keep their types, and the new
\* effects are late ones.
LEMMA AbandonFacts ==
    ASSUME TypeOK, NEW S \in SUBSET Steps, Abandon(S)
    PROVE  /\ live' \in [Steps -> Nat] /\ applied' \in [Steps -> Nat] /\ late' \in [Steps -> Nat]
           /\ \A s \in Steps : applied'[s] - late'[s] = applied[s] - late[s]
           /\ \A s \in Steps \ S : late'[s] = late[s] /\ live'[s] = live[s]
<1>1. PICK cut \in SUBSET (S \ CpuBound) : Late(cut)
  BY DEF Abandon
<1>2. live' = [s \in Steps |-> IF s \in S \cap CpuBound THEN live[s] + 1 ELSE live[s]]
  BY DEF Abandon
<1> QED
  BY <1>1, <1>2 DEF Late, TypeOK

\* A task that sleeps has attempts left.
TypeInv == TypeOK /\ \A s \in Steps : task[s] = "backoff" => attempt[s] < Attempts[s]

LEMMA TypeInit == Init => TypeInv
<1> SUFFICES ASSUME Init PROVE TypeInv
  OBVIOUS
<1>1. \A s \in Steps : attempt[s] <= Attempts[s]
  BY SagaAssumption DEF Init
<1>2. /\ task \in [Steps -> TaskStates]
      /\ attempt \in [Steps -> Nat]
      /\ status \in [Steps -> {"ABSENT", "RUNNING", "DONE", "FAILED"}]
      /\ comp \in [Steps -> {"idle", "running", "undone", "failed", "cancelled"}]
  BY DEF Init, TaskStates
<1>3. /\ rank \in [Steps -> Nat] /\ doneAt \in [Steps -> Nat] /\ tries \in [Steps -> Nat]
      /\ live \in [Steps -> Nat] /\ applied \in [Steps -> Nat] /\ late \in [Steps -> Nat]
      /\ undone \in [Steps -> Nat]
  BY DEF Init
<1>4. layer \in 0..NumLayers
  BY SagaAssumption DEF Init
<1>5. setting \in Settings /\ policy \in AllPolicies
  BY SettingsAssumption DEF Init
<1>6. TypeOK
  BY <1>1, <1>2, <1>3, <1>4, <1>5 DEF Init, TypeOK, Final
<1> QED
  BY <1>6 DEF Init, TypeInv

LEMMA TypeStep == TypeInv /\ [Next]_vars => TypeInv'
<1> SUFFICES ASSUME TypeInv, [Next]_vars PROVE TypeInv'
  OBVIOUS
<1> USE SagaAssumption DEF TypeInv, TypeOK, TaskStates, Busy, Final
<1>1. CASE OnStart
  BY <1>1, SagaAssumption DEF OnStart, engineVars, stepVars, compVars, worldVars
<1>2. CASE PersistState
  BY <1>2, SagaAssumption DEF PersistState, engineVars, stepVars, compVars, worldVars
<1>3. CASE StartLayer
  BY <1>3, SagaAssumption DEF StartLayer, engineVars, stepVars, compVars, worldVars
<1>4. CASE AllLayersDone
  BY <1>4, SagaAssumption DEF AllLayersDone, engineVars, stepVars, compVars, worldVars
<1>5. CASE LayerSucceeds
  BY <1>5, SagaAssumption DEF LayerSucceeds, LayerSteps, engineVars, stepVars, compVars, worldVars
<1>6. CASE LayerFails
  BY <1>6, AbandonFacts DEF LayerFails, Cancellable, engineVars, stepVars, compVars, worldVars
<1>7. CASE CancelEnds
  BY <1>7, SagaAssumption DEF CancelEnds, ToCompensate, DoneSteps, engineVars, stepVars, compVars, worldVars
<1>8. CASE CompStart
  BY <1>8, SagaAssumption DEF CompStart, NextGroup, engineVars, stepVars, compVars, worldVars
<1>9. CASE CompensateEnds
  BY <1>9, SagaAssumption DEF CompensateEnds, engineVars, stepVars, compVars, worldVars
<1>10. CASE OnCompleted
  BY <1>10, SagaAssumption DEF OnCompleted, engineVars, stepVars, compVars, worldVars
<1>11. CASE MarkCompleted
  BY <1>11, SagaAssumption DEF MarkCompleted, engineVars, stepVars, compVars, worldVars
<1>12. ASSUME NEW s \in Steps, StartStep(s) PROVE TypeInv'
  <2>1. Cardinality({t \in Steps : rank[t] # 0}) \in Nat
    BY CountIsNat
  <2> QED
    BY <2>1, <1>12 DEF StartStep, engineVars, stepVars, compVars, worldVars
<1>13. ASSUME NEW s \in Steps, StepReturns(s) PROVE TypeInv'
  BY <1>13, SagaAssumption DEF StepReturns, engineVars, stepVars, compVars, worldVars
<1>14. ASSUME NEW s \in Steps, StepRaises(s) PROVE TypeInv'
  BY <1>14, AttemptFailedType DEF StepRaises, engineVars, stepVars, compVars, worldVars
<1>15. ASSUME NEW s \in Steps, StepTimesOut(s) PROVE TypeInv'
  BY <1>15, AttemptFailedType, AbandonFacts DEF StepTimesOut, engineVars, stepVars, compVars, worldVars
<1>16. ASSUME NEW s \in Steps, RetryStep(s) PROVE TypeInv'
  BY <1>16, SagaAssumption DEF RetryStep, engineVars, stepVars, compVars, worldVars
<1>17. ASSUME NEW s \in Steps, StepEnds(s) PROVE TypeInv'
  <2>1. Cardinality({t \in Steps : doneAt[t] # 0}) \in Nat
    BY CountIsNat
  <2> QED
    BY <2>1, <1>17 DEF StepEnds, engineVars, stepVars, compVars, worldVars
<1>18. ASSUME NEW s \in Steps, EmitSuccessRaises(s) PROVE TypeInv'
  BY <1>18, AttemptFailedType DEF EmitSuccessRaises, engineVars, stepVars, compVars, worldVars
<1>19. ASSUME NEW s \in Steps, StepFails(s) PROVE TypeInv'
  BY <1>19, SagaAssumption DEF StepFails, engineVars, stepVars, compVars, worldVars
<1>20. ASSUME NEW s \in Steps, CompReturns(s) PROVE TypeInv'
  BY <1>20, SagaAssumption DEF CompReturns, engineVars, stepVars, compVars, worldVars
<1>21. ASSUME NEW s \in Steps, CompRaises(s) PROVE TypeInv'
  BY <1>21, CompFailedType DEF CompRaises, engineVars, stepVars, compVars, worldVars
<1>22. ASSUME NEW s \in Steps, EmitCompensatedRaises(s) PROVE TypeInv'
  BY <1>22, CompFailedType DEF EmitCompensatedRaises, engineVars, stepVars, compVars, worldVars
<1>23. ASSUME NEW s \in Steps, ThreadEnds(s) PROVE TypeInv'
  BY <1>23, SMTT(30) DEF ThreadEnds, Late, engineVars, stepVars, compVars, worldVars
<1>24. CASE CallerCancel
  BY <1>24, SagaAssumption DEF CallerCancel, engineVars, stepVars, compVars, worldVars
<1>25. CASE UNCHANGED vars
  BY <1>25, SagaAssumption DEF vars, engineVars, stepVars, compVars, worldVars
<1> QED
  BY <1>1, <1>2, <1>3, <1>4, <1>5, <1>6, <1>7, <1>8, <1>9, <1>10, <1>11, <1>12, <1>13, <1>14, <1>15, <1>16, <1>17, <1>18, <1>19, <1>20, <1>21, <1>22, <1>23, <1>24, <1>25 DEF Next, EngineStep, TaskStep, CompStep
-----------------------------------------------------------------------------
\* What a failed attempt does to its own task, in the terms of the invariant.
LEMMA AttemptFailedFacts ==
    ASSUME TypeOK, NEW s \in Steps, AttemptFailed(s)
    PROVE  /\ task' = [task EXCEPT ![s] = task'[s]]
           /\ task'[s] \in {"backoff", "emit_failed"}
           /\ status' = [status EXCEPT ![s] = status'[s]]
           /\ task'[s] = "backoff" => status'[s] = status[s]
           /\ task'[s] = "emit_failed" => status'[s] = "FAILED"
<1>1. CASE attempt[s] < Attempts[s]
  BY <1>1 DEF TypeOK, AttemptFailed
<1>2. CASE ~(attempt[s] < Attempts[s])
  BY <1>2 DEF TypeOK, AttemptFailed
<1> QED
  BY <1>1, <1>2

\* What a failed compensation does, whatever the policy.
LEMMA CompFailedFacts ==
    ASSUME TypeOK, NEW s \in Steps, comp[s] = "running", CompFailed(s)
    PROVE  /\ comp' \in {comp, [comp EXCEPT ![s] = "failed"]}
           /\ \A t \in Steps : comp'[t] = "idle" <=> comp[t] = "idle"
           /\ pc' = pc \/ (pc = "compensate" /\ pc' = "on_completed" /\ rest' = {})
           /\ rest' = rest \/ rest' = {}
           /\ comp' = comp => rest' = rest /\ pc' = pc
<1> USE DEF TypeOK
<1>1. CASE policy = "RETRY_WITH_BACKOFF" /\ tries[s] + 1 < CompRetry[s]
  BY <1>1 DEF CompFailed
<1>2. CASE ~(policy = "RETRY_WITH_BACKOFF" /\ tries[s] + 1 < CompRetry[s])
  <2>1. comp' = [comp EXCEPT ![s] = "failed"]
    BY <1>2 DEF CompFailed
  <2>2. CASE pc # "compensate"
    BY <1>2, <2>1, <2>2 DEF CompFailed
  <2>3. CASE pc = "compensate" /\ policy = "BEST_EFFORT_PARALLEL"
    BY <1>2, <2>1, <2>3 DEF CompFailed
  <2>4. CASE pc = "compensate" /\ policy = "CIRCUIT_BREAKER"
    BY <1>2, <2>1, <2>4 DEF CompFailed
  <2>5. CASE pc = "compensate" /\ policy \notin {"BEST_EFFORT_PARALLEL", "CIRCUIT_BREAKER"}
    BY <1>2, <2>1, <2>5 DEF CompFailed
  <2> QED
    BY <2>2, <2>3, <2>4, <2>5
<1> QED
  BY <1>1, <1>2

\* Every layer before the current one is done, no later one has begun, and the
\* status of a step fits the state of its task.
LayerInv ==
    /\ \A s \in Steps : task[s] # "idle" <=> LayerOf[s] <= layer
    /\ \A s \in Steps : LayerOf[s] < layer => task[s] = "ok"
    /\ \A s \in Steps : task[s] \in {"emit_ok", "ok"} => status[s] = "DONE"
    /\ \A s \in Steps : task[s] \in {"emit_failed", "err"} => status[s] = "FAILED"
    /\ pc \in {"on_start", "persist_state"} => layer = 0
    /\ pc = "layers" => \A s \in Steps : LayerOf[s] <= layer => task[s] = "ok"
    /\ success => \A s \in Steps : task[s] = "ok"

\* A failed attempt leaves the layers as they are.
LEMMA AttemptFailedLayers ==
    ASSUME TypeOK, LayerInv, NEW s \in Steps, task[s] \in {"invoke", "emit_ok"},
           AttemptFailed(s), UNCHANGED <<layer, pc, success>>
    PROVE  LayerInv'
<1> USE SagaAssumption DEF TypeOK
<1>1. /\ task' = [task EXCEPT ![s] = task'[s]] /\ task'[s] \in {"backoff", "emit_failed"}
      /\ status' = [status EXCEPT ![s] = status'[s]]
      /\ task'[s] = "emit_failed" => status'[s] = "FAILED"
  BY AttemptFailedFacts
<1>2. \A u \in Steps : u # s => task'[u] = task[u] /\ status'[u] = status[u]
  BY <1>1
<1> QED
  BY <1>1, <1>2 DEF LayerInv

LEMMA LayerInit == Init => LayerInv
BY SagaAssumption DEF Init, LayerInv

LEMMA LayerStep == TypeOK /\ LayerInv /\ [Next]_vars => LayerInv'
<1> SUFFICES ASSUME TypeOK, LayerInv, [Next]_vars PROVE LayerInv'
  OBVIOUS
<1> USE SagaAssumption DEF TypeOK, LayerInv
<1>1. CASE OnStart
  BY <1>1 DEF OnStart, engineVars, stepVars, compVars, worldVars
<1>2. CASE PersistState
  BY <1>2 DEF PersistState, engineVars, stepVars, compVars, worldVars
<1>3. CASE StartLayer
  <2>1. /\ pc = "layers" /\ pc' = "wait" /\ layer' = layer + 1
        /\ task' = [s \in Steps |-> IF LayerOf[s] = layer + 1 THEN "new" ELSE task[s]]
        /\ UNCHANGED <<status, success>>
    BY <1>3 DEF StartLayer
  <2>2. layer + 1 \in 1..NumLayers /\ \E s \in Steps : LayerOf[s] = layer + 1
    BY <1>3 DEF StartLayer
  <2>3. ~success
    BY <2>1, <2>2
  <2>4. \A s \in Steps : task'[s] = IF LayerOf[s] = layer + 1 THEN "new" ELSE task[s]
    BY <2>1
  <2>5. \A s \in Steps : LayerOf[s] \in Nat /\ (LayerOf[s] < layer + 1 <=> LayerOf[s] <= layer)
    OBVIOUS
  <2> QED
    BY <2>1, <2>3, <2>4, <2>5
<1>4. CASE AllLayersDone
  BY <1>4 DEF AllLayersDone, engineVars, stepVars, compVars, worldVars
<1>5. CASE LayerSucceeds
  BY <1>5 DEF LayerSucceeds, LayerSteps, engineVars, stepVars, compVars, worldVars
<1>6. CASE LayerFails
  BY <1>6 DEF LayerFails, Cancellable, LayerSteps, engineVars, stepVars, compVars, worldVars
<1>7. CASE CancelEnds
  BY <1>7 DEF CancelEnds, engineVars, stepVars, compVars, worldVars
<1>8. CASE CompStart
  BY <1>8 DEF CompStart, engineVars, stepVars, compVars, worldVars
<1>9. CASE CompensateEnds
  BY <1>9 DEF CompensateEnds, engineVars, stepVars, compVars, worldVars
<1>10. CASE OnCompleted
  BY <1>10 DEF OnCompleted, engineVars, stepVars, compVars, worldVars
<1>11. CASE MarkCompleted
  BY <1>11 DEF MarkCompleted, engineVars, stepVars, compVars, worldVars
<1>12. ASSUME NEW s \in Steps, StartStep(s) PROVE LayerInv'
  BY <1>12 DEF StartStep, engineVars, stepVars, compVars, worldVars
<1>13. ASSUME NEW s \in Steps, StepReturns(s) PROVE LayerInv'
  BY <1>13 DEF StepReturns, engineVars, stepVars, compVars, worldVars
<1>14. ASSUME NEW s \in Steps, StepRaises(s) PROVE LayerInv'
  BY <1>14, AttemptFailedLayers DEF StepRaises, engineVars
<1>15. ASSUME NEW s \in Steps, StepTimesOut(s) PROVE LayerInv'
  BY <1>15, AttemptFailedLayers DEF StepTimesOut, engineVars
<1>16. ASSUME NEW s \in Steps, RetryStep(s) PROVE LayerInv'
  BY <1>16 DEF RetryStep, engineVars, stepVars, compVars, worldVars
<1>17. ASSUME NEW s \in Steps, StepEnds(s) PROVE LayerInv'
  BY <1>17 DEF StepEnds, engineVars, stepVars, compVars, worldVars
<1>18. ASSUME NEW s \in Steps, EmitSuccessRaises(s) PROVE LayerInv'
  BY <1>18, AttemptFailedLayers DEF EmitSuccessRaises, engineVars
<1>19. ASSUME NEW s \in Steps, StepFails(s) PROVE LayerInv'
  BY <1>19 DEF StepFails, engineVars, stepVars, compVars, worldVars
<1>20. ASSUME NEW s \in Steps, CompReturns(s) PROVE LayerInv'
  BY <1>20 DEF CompReturns, engineVars, stepVars, compVars, worldVars
<1>21. ASSUME NEW s \in Steps, CompRaises(s) PROVE LayerInv'
  BY <1>21, CompFailedFacts DEF CompRaises, engineVars, stepVars, compVars, worldVars
<1>22. ASSUME NEW s \in Steps, EmitCompensatedRaises(s) PROVE LayerInv'
  BY <1>22, CompFailedFacts DEF EmitCompensatedRaises, engineVars, stepVars, compVars, worldVars
<1>23. ASSUME NEW s \in Steps, ThreadEnds(s) PROVE LayerInv'
  BY <1>23 DEF ThreadEnds, engineVars, stepVars, compVars, worldVars
<1>24. CASE CallerCancel
  BY <1>24 DEF CallerCancel, engineVars, stepVars, compVars, worldVars
<1>25. CASE UNCHANGED vars
  BY <1>25 DEF vars, engineVars, stepVars, compVars, worldVars
<1> QED
  BY <1>1, <1>2, <1>3, <1>4, <1>5, <1>6, <1>7, <1>8, <1>9, <1>10, <1>11, <1>12, <1>13, <1>14, <1>15, <1>16, <1>17, <1>18, <1>19, <1>20, <1>21, <1>22, <1>23, <1>24, <1>25 DEF Next, EngineStep, TaskStep, CompStep

LEMMA LayerImplies == TypeOK /\ LayerInv => DependencyOrder
<1> SUFFICES ASSUME TypeOK, LayerInv, NEW s \in Steps, task[s] # "idle", NEW d \in DependsOn[s]
             PROVE  task[d] = "ok" /\ status[d] = "DONE"
  BY DEF DependencyOrder
<1>1. d \in Steps /\ LayerOf[d] < LayerOf[s] /\ LayerOf[d] \in Nat /\ LayerOf[s] \in Nat
  BY SagaAssumption
<1>2. layer \in Nat /\ LayerOf[s] <= layer
  BY SagaAssumption DEF TypeOK, LayerInv
<1>3. LayerOf[d] < layer
  BY <1>1, <1>2
<1> QED
  BY <1>1, <1>3 DEF LayerInv
-----------------------------------------------------------------------------
\* No task of a step can move, or start.
AllQuiet == \A s \in Steps : task[s] \notin Busy \cup {"new"}

\* The phases of execute: forward first, then quiet, then compensation; the
\* saga failed if and only if a task ended with an error.
PhaseInv ==
    /\ pc = "cancelling" => \A s \in Steps : task[s] # "new"
    /\ pc \in {"on_start", "persist_state", "layers", "wait", "cancelling"} =>
            \A s \in Steps : comp[s] = "idle"
    /\ pc # "compensate" => rest = {}
    /\ success => \A s \in Steps : comp[s] = "idle"
    /\ pc = "compensate" => AllQuiet
    /\ (\E s \in Steps : comp[s] # "idle") => AllQuiet
    /\ pc \in {"cancelling", "compensate"} => \E s \in Steps : task[s] = "err"
    /\ (pc \in {"on_completed", "mark_completed"} /\ ~success /\ ~cancelled) =>
            AllQuiet /\ \E s \in Steps : task[s] = "err"

\* The persisted status is the local success, and is final.
RecordInv ==
    /\ \A s \in Steps : comp[s] = "idle" => undone[s] = 0
    /\ record = "COMPLETED" => success
    /\ record \in {"COMPLETED", "FAILED"} => pc \in Final
    /\ (record = "FAILED" /\ ~cancelled) => AllQuiet /\ \E s \in Steps : task[s] = "err"

LEMMA PhaseInit == Init => PhaseInv /\ RecordInv
BY DEF Init, PhaseInv, RecordInv, AllQuiet, Busy, Final

LEMMA PhaseStep == TypeOK /\ LayerInv /\ PhaseInv /\ [Next]_vars => PhaseInv'
<1> SUFFICES ASSUME TypeOK, LayerInv, PhaseInv, [Next]_vars PROVE PhaseInv'
  OBVIOUS
<1> USE SagaAssumption DEF TypeOK, LayerInv, PhaseInv, AllQuiet, Busy, Final
<1>1. CASE OnStart
  BY <1>1 DEF OnStart, engineVars, stepVars, compVars, worldVars
<1>2. CASE PersistState
  BY <1>2 DEF PersistState, engineVars, stepVars, compVars, worldVars
<1>3. CASE StartLayer
  BY <1>3 DEF StartLayer, engineVars, stepVars, compVars, worldVars
<1>4. CASE AllLayersDone
  BY <1>4 DEF AllLayersDone, engineVars, stepVars, compVars, worldVars
<1>5. CASE LayerSucceeds
  BY <1>5 DEF LayerSucceeds, LayerSteps, engineVars, stepVars, compVars, worldVars
<1>6. CASE LayerFails
  BY <1>6 DEF LayerFails, Abandon, Cancellable, LayerSteps, engineVars, stepVars, compVars, worldVars
<1>7. CASE CancelEnds
  BY <1>7 DEF CancelEnds, engineVars, stepVars, compVars, worldVars
<1>8. CASE CompStart
  BY <1>8 DEF CompStart, engineVars, stepVars, compVars, worldVars
<1>9. CASE CompensateEnds
  BY <1>9 DEF CompensateEnds, engineVars, stepVars, compVars, worldVars
<1>10. CASE OnCompleted
  BY <1>10 DEF OnCompleted, engineVars, stepVars, compVars, worldVars
<1>11. CASE MarkCompleted
  BY <1>11 DEF MarkCompleted, engineVars, stepVars, compVars, worldVars
<1>12. ASSUME NEW s \in Steps, StartStep(s) PROVE PhaseInv'
  BY <1>12 DEF StartStep, engineVars, stepVars, compVars, worldVars
<1>13. ASSUME NEW s \in Steps, StepReturns(s) PROVE PhaseInv'
  BY <1>13 DEF StepReturns, engineVars, stepVars, compVars, worldVars
<1>14. ASSUME NEW s \in Steps, StepRaises(s) PROVE PhaseInv'
  BY <1>14, AttemptFailedFacts DEF StepRaises, engineVars, stepVars, compVars, worldVars
<1>15. ASSUME NEW s \in Steps, StepTimesOut(s) PROVE PhaseInv'
  BY <1>15, AttemptFailedFacts DEF StepTimesOut, Abandon, engineVars, stepVars, compVars, worldVars
<1>16. ASSUME NEW s \in Steps, RetryStep(s) PROVE PhaseInv'
  BY <1>16 DEF RetryStep, engineVars, stepVars, compVars, worldVars
<1>17. ASSUME NEW s \in Steps, StepEnds(s) PROVE PhaseInv'
  BY <1>17 DEF StepEnds, engineVars, stepVars, compVars, worldVars
<1>18. ASSUME NEW s \in Steps, EmitSuccessRaises(s) PROVE PhaseInv'
  BY <1>18, AttemptFailedFacts DEF EmitSuccessRaises, engineVars, stepVars, compVars, worldVars
<1>19. ASSUME NEW s \in Steps, StepFails(s) PROVE PhaseInv'
  BY <1>19 DEF StepFails, engineVars, stepVars, compVars, worldVars
<1>20. ASSUME NEW s \in Steps, CompReturns(s) PROVE PhaseInv'
  BY <1>20 DEF CompReturns, engineVars, stepVars, compVars, worldVars
<1>21. ASSUME NEW s \in Steps, CompRaises(s) PROVE PhaseInv'
  BY <1>21, CompFailedFacts DEF CompRaises, engineVars, stepVars, compVars, worldVars
<1>22. ASSUME NEW s \in Steps, EmitCompensatedRaises(s) PROVE PhaseInv'
  BY <1>22, CompFailedFacts DEF EmitCompensatedRaises, engineVars, stepVars, compVars, worldVars
<1>23. ASSUME NEW s \in Steps, ThreadEnds(s) PROVE PhaseInv'
  BY <1>23 DEF ThreadEnds, engineVars, stepVars, compVars, worldVars
<1>24. CASE CallerCancel
  BY <1>24 DEF CallerCancel, engineVars, stepVars, compVars, worldVars
<1>25. CASE UNCHANGED vars
  BY <1>25 DEF vars, engineVars, stepVars, compVars, worldVars
<1> QED
  BY <1>1, <1>2, <1>3, <1>4, <1>5, <1>6, <1>7, <1>8, <1>9, <1>10, <1>11, <1>12, <1>13, <1>14, <1>15, <1>16, <1>17, <1>18, <1>19, <1>20, <1>21, <1>22, <1>23, <1>24, <1>25 DEF Next, EngineStep, TaskStep, CompStep

LEMMA RecordStep ==
    TypeOK /\ LayerInv /\ PhaseInv /\ RecordInv /\ [Next]_vars => RecordInv'
<1> SUFFICES ASSUME TypeOK, LayerInv, PhaseInv, RecordInv, [Next]_vars PROVE RecordInv'
  OBVIOUS
<1> USE SagaAssumption DEF TypeOK, LayerInv, PhaseInv, RecordInv, AllQuiet, Busy, Final
<1>1. CASE OnStart
  BY <1>1 DEF OnStart, engineVars, stepVars, compVars, worldVars
<1>2. CASE PersistState
  BY <1>2 DEF PersistState, engineVars, stepVars, compVars, worldVars
<1>3. CASE StartLayer
  BY <1>3 DEF StartLayer, engineVars, stepVars, compVars, worldVars
<1>4. CASE AllLayersDone
  BY <1>4 DEF AllLayersDone, engineVars, stepVars, compVars, worldVars
<1>5. CASE LayerSucceeds
  BY <1>5 DEF LayerSucceeds, LayerSteps, engineVars, stepVars, compVars, worldVars
<1>6. CASE LayerFails
  BY <1>6 DEF LayerFails, Abandon, Cancellable, LayerSteps, engineVars, stepVars, compVars, worldVars
<1>7. CASE CancelEnds
  BY <1>7 DEF CancelEnds, engineVars, stepVars, compVars, worldVars
<1>8. CASE CompStart
  BY <1>8 DEF CompStart, engineVars, stepVars, compVars, worldVars
<1>9. CASE CompensateEnds
  BY <1>9 DEF CompensateEnds, engineVars, stepVars, compVars, worldVars
<1>10. CASE OnCompleted
  BY <1>10 DEF OnCompleted, engineVars, stepVars, compVars, worldVars
<1>11. CASE MarkCompleted
  BY <1>11 DEF MarkCompleted, engineVars, stepVars, compVars, worldVars
<1>12. ASSUME NEW s \in Steps, StartStep(s) PROVE RecordInv'
  BY <1>12 DEF StartStep, engineVars, stepVars, compVars, worldVars
<1>13. ASSUME NEW s \in Steps, StepReturns(s) PROVE RecordInv'
  BY <1>13 DEF StepReturns, engineVars, stepVars, compVars, worldVars
<1>14. ASSUME NEW s \in Steps, StepRaises(s) PROVE RecordInv'
  BY <1>14, AttemptFailedFacts DEF StepRaises, engineVars, stepVars, compVars, worldVars
<1>15. ASSUME NEW s \in Steps, StepTimesOut(s) PROVE RecordInv'
  BY <1>15, AttemptFailedFacts DEF StepTimesOut, Abandon, engineVars, stepVars, compVars, worldVars
<1>16. ASSUME NEW s \in Steps, RetryStep(s) PROVE RecordInv'
  BY <1>16 DEF RetryStep, engineVars, stepVars, compVars, worldVars
<1>17. ASSUME NEW s \in Steps, StepEnds(s) PROVE RecordInv'
  BY <1>17 DEF StepEnds, engineVars, stepVars, compVars, worldVars
<1>18. ASSUME NEW s \in Steps, EmitSuccessRaises(s) PROVE RecordInv'
  BY <1>18, AttemptFailedFacts DEF EmitSuccessRaises, engineVars, stepVars, compVars, worldVars
<1>19. ASSUME NEW s \in Steps, StepFails(s) PROVE RecordInv'
  BY <1>19 DEF StepFails, engineVars, stepVars, compVars, worldVars
<1>20. ASSUME NEW s \in Steps, CompReturns(s) PROVE RecordInv'
  BY <1>20 DEF CompReturns, engineVars, stepVars, compVars, worldVars
<1>21. ASSUME NEW s \in Steps, CompRaises(s) PROVE RecordInv'
  BY <1>21, CompFailedFacts DEF CompRaises, engineVars, stepVars, compVars, worldVars
<1>22. ASSUME NEW s \in Steps, EmitCompensatedRaises(s) PROVE RecordInv'
  BY <1>22, CompFailedFacts DEF EmitCompensatedRaises, engineVars, stepVars, compVars, worldVars
<1>23. ASSUME NEW s \in Steps, ThreadEnds(s) PROVE RecordInv'
  BY <1>23 DEF ThreadEnds, engineVars, stepVars, compVars, worldVars
<1>24. CASE CallerCancel
  BY <1>24 DEF CallerCancel, engineVars, stepVars, compVars, worldVars
<1>25. CASE UNCHANGED vars
  BY <1>25 DEF vars, engineVars, stepVars, compVars, worldVars
<1> QED
  BY <1>1, <1>2, <1>3, <1>4, <1>5, <1>6, <1>7, <1>8, <1>9, <1>10, <1>11, <1>12, <1>13, <1>14, <1>15, <1>16, <1>17, <1>18, <1>19, <1>20, <1>21, <1>22, <1>23, <1>24, <1>25 DEF Next, EngineStep, TaskStep, CompStep

\* The strengthening from which the safety properties follow.
IInv == TypeInv /\ LayerInv /\ PhaseInv /\ RecordInv

LEMMA InvInit == Init => IInv
BY TypeInit, LayerInit, PhaseInit DEF IInv

LEMMA InvStep == IInv /\ [Next]_vars => IInv'
BY TypeStep, LayerStep, PhaseStep, RecordStep DEF IInv, TypeInv

LEMMA InvQuiet == IInv => QuietRollback
BY DEF IInv, PhaseInv, QuietRollback, AllQuiet

LEMMA InvRecord == IInv => RecordTruthful
BY DEF IInv, LayerInv, PhaseInv, RecordInv, RecordTruthful, AllQuiet

\* Every variable of an execution keeps its type, and no step is attempted more
\* often than its retry allows.
THEOREM TypeCorrect == Spec => []TypeOK
BY InvInit, InvStep, PTL DEF Spec, IInv, TypeInv

\* No step starts before every step it depends on has completed for good, for
\* every saga, policy, faulty port and cancellation.
THEOREM DependenciesFirst == Spec => []DependencyOrder
BY InvInit, InvStep, LayerImplies, PTL DEF Spec, IInv, TypeInv

\* No compensation is called while a step is under way.
THEOREM RollbackIsQuiet == Spec => []QuietRollback
BY InvInit, InvStep, InvQuiet, PTL DEF Spec

\* The persisted status of an execution tells how it ended.
THEOREM RecordIsTruthful == Spec => []RecordTruthful
BY InvInit, InvStep, InvRecord, PTL DEF Spec
-----------------------------------------------------------------------------
(* The accounts of a saga whose ports do not raise around a step or a      *)
(* compensation, and whose compensations are tried at least once.          *)

Clean == /\ Faulty \cap {"on_step_success", "on_compensated"} = {}
         /\ \A s \in Steps : CompRetry[s] > 0

SomeFailed == \E u \in Steps : comp[u] = "failed"

\* Without a timeout a step is given up on only when its task is cancelled.
LateInv ==
    \A s \in Steps \ TimedSteps : late[s] # 0 \/ live[s] # 0 => task[s] = "cancelled"

\* Apart from late effects a step took effect if and only if it is DONE, and a
\* compensation if and only if it is "undone"; what is DONE and compensable is
\* on its way to "undone" unless a compensation failed.
AccountInv ==
    /\ LateInv
    /\ \A s \in Steps : applied[s] = (IF status[s] = "DONE" THEN 1 ELSE 0) + late[s]
    /\ \A s \in Steps : task[s] \in {"invoke", "backoff"} => status[s] = "RUNNING"
    /\ \A s \in Steps : task[s] \in {"idle", "new"} => status[s] = "ABSENT"
    /\ ~cancelled => \A s \in Steps : undone[s] = IF comp[s] = "undone" THEN 1 ELSE 0
    /\ \A s \in Steps : (comp[s] # "idle" \/ s \in rest) => status[s] = "DONE"
    /\ \A s \in rest : comp[s] = "idle"
    /\ ~cancelled => \A s \in Steps : comp[s] # "cancelled"
    /\ (pc = "compensate" /\ ~SomeFailed) =>
            \A s \in Compensable : (status[s] = "DONE" /\ comp[s] = "idle") => s \in rest
    /\ (pc \in {"on_completed", "mark_completed", "returned"} /\ ~success /\ ~cancelled /\ ~SomeFailed) =>
            \A s \in Compensable : status[s] = "DONE" => comp[s] = "undone"
    /\ pc = "returned" => ~cancelled /\ record = IF success THEN "COMPLETED" ELSE "FAILED"

LEMMA SettingKept == [Next]_vars => setting' = setting
BY DEF Next, EngineStep, TaskStep, CompStep, OnStart, PersistState, StartLayer, AllLayersDone,
       LayerSucceeds, LayerFails, CancelEnds, CompStart, CompensateEnds, OnCompleted,
       MarkCompleted, StartStep, StepReturns, StepRaises, StepTimesOut, RetryStep, StepEnds,
       EmitSuccessRaises, StepFails, CompReturns, CompRaises, EmitCompensatedRaises, ThreadEnds,
       CallerCancel, vars, engineVars

LEMMA AccountInit == Init => AccountInv
BY DEF Init, AccountInv, LateInv, SomeFailed

LEMMA AccountStep == Clean /\ IInv /\ AccountInv /\ [Next]_vars => AccountInv'
<1> SUFFICES ASSUME Clean, TypeOK, LayerInv, PhaseInv, RecordInv, AccountInv, [Next]_vars
             PROVE  AccountInv'
  BY DEF IInv, TypeInv
<1> USE SagaAssumption DEF Clean, TypeOK, LayerInv, PhaseInv, RecordInv, AccountInv, LateInv,
                           AllQuiet, SomeFailed, Busy, Final
<1>1. CASE OnStart
  BY <1>1 DEF OnStart, engineVars, stepVars, compVars, worldVars
<1>2. CASE PersistState
  BY <1>2 DEF PersistState, engineVars, stepVars, compVars, worldVars
<1>3. CASE StartLayer
  BY <1>3 DEF StartLayer, engineVars, stepVars, compVars, worldVars
<1>4. CASE AllLayersDone
  BY <1>4 DEF AllLayersDone, engineVars, stepVars, compVars, worldVars
<1>5. CASE LayerSucceeds
  BY <1>5 DEF LayerSucceeds, LayerSteps, engineVars, stepVars, compVars, worldVars
<1>6. CASE LayerFails
  <2> DEFINE S == {s \in Cancellable : task[s] = "invoke"}
  <2>1. S \in SUBSET Steps /\ Abandon(S) /\ UNCHANGED status
    BY <1>6 DEF LayerFails, Cancellable
  <2> HIDE DEF S
  <2>2. \A s \in Steps : applied'[s] = (IF status[s] = "DONE" THEN 1 ELSE 0) + late'[s]
    <3>1. /\ applied' \in [Steps -> Nat] /\ late' \in [Steps -> Nat]
          /\ \A s \in Steps : applied'[s] - late'[s] = applied[s] - late[s]
      BY <2>1, AbandonFacts
    <3>2. \A s \in Steps : applied[s] - late[s] = IF status[s] = "DONE" THEN 1 ELSE 0
      OBVIOUS
    <3> QED
      BY <3>1, <3>2
  <2>3. \A s \in Steps \ S : late'[s] = late[s] /\ live'[s] = live[s]
    BY <2>1, AbandonFacts
  <2>4. \A s \in Steps : task'[s] = IF s \in Cancellable THEN "cancelled" ELSE task[s]
    BY <1>6 DEF LayerFails
  <2>5. LateInv'
    BY <2>3, <2>4 DEF S, Cancellable
  <2> QED
    BY <1>6, <2>2, <2>4, <2>5 DEF LayerFails, Cancellable, engineVars, stepVars, compVars, worldVars
<1>7. CASE CancelEnds
  BY <1>7 DEF CancelEnds, ToCompensate, DoneSteps, engineVars, stepVars, compVars, worldVars
<1>8. CASE CompStart
  <2>1. NextGroup \subseteq rest
    BY DEF NextGroup, SequentialPolicies, AllPolicies
  <2> QED
    BY <1>8, <2>1 DEF CompStart, engineVars, stepVars, compVars, worldVars
<1>9. CASE CompensateEnds
  BY <1>9 DEF CompensateEnds, engineVars, stepVars, compVars, worldVars
<1>10. CASE OnCompleted
  BY <1>10 DEF OnCompleted, engineVars, stepVars, compVars, worldVars
<1>11. CASE MarkCompleted
  BY <1>11 DEF MarkCompleted, engineVars, stepVars, compVars, worldVars
<1>12. ASSUME NEW s \in Steps, StartStep(s) PROVE AccountInv'
  BY <1>12 DEF StartStep, engineVars, stepVars, compVars, worldVars
<1>13. ASSUME NEW s \in Steps, StepReturns(s) PROVE AccountInv'
  BY <1>13 DEF StepReturns, engineVars, stepVars, compVars, worldVars
<1>14. ASSUME NEW s \in Steps, StepRaises(s) PROVE AccountInv'
  <2>1. task[s] = "invoke" /\ AttemptFailed(s) /\ UNCHANGED <<engineVars, compVars, worldVars>>
    BY <1>14 DEF StepRaises
  <2>2. /\ task' = [task EXCEPT ![s] = task'[s]] /\ task'[s] \in {"backoff", "emit_failed"}
        /\ status' = [status EXCEPT ![s] = status'[s]]
        /\ task'[s] = "backoff" => status'[s] = status[s]
        /\ task'[s] = "emit_failed" => status'[s] = "FAILED"
    BY <2>1, AttemptFailedFacts
  <2> QED
    BY <2>1, <2>2 DEF engineVars, compVars, worldVars
<1>15. ASSUME NEW s \in Steps, StepTimesOut(s) PROVE AccountInv'
  <2>1. /\ task[s] = "invoke" /\ s \in TimedSteps /\ AttemptFailed(s) /\ Abandon({s})
        /\ UNCHANGED <<engineVars, compVars, undone>>
    BY <1>15 DEF StepTimesOut
  <2>2. /\ task' = [task EXCEPT ![s] = task'[s]] /\ task'[s] \in {"backoff", "emit_failed"}
        /\ status' = [status EXCEPT ![s] = status'[s]]
        /\ task'[s] = "backoff" => status'[s] = status[s]
        /\ task'[s] = "emit_failed" => status'[s] = "FAILED"
    BY <2>1, AttemptFailedFacts
  <2>3. /\ \A u \in Steps : applied'[u] - late'[u] = applied[u] - late[u]
        /\ \A u \in Steps \ {s} : late'[u] = late[u] /\ live'[u] = live[u]
        /\ applied' \in [Steps -> Nat] /\ late' \in [Steps -> Nat]
    BY <2>1, AbandonFacts
  <2>4. \A u \in Steps : status'[u] = "DONE" <=> status[u] = "DONE"
    BY <2>1, <2>2
  <2>5. \A u \in Steps : applied'[u] = (IF status'[u] = "DONE" THEN 1 ELSE 0) + late'[u]
    <3> SUFFICES ASSUME NEW u \in Steps
                 PROVE  applied'[u] = (IF status'[u] = "DONE" THEN 1 ELSE 0) + late'[u]
      OBVIOUS
    <3>1. /\ applied[u] = (IF status[u] = "DONE" THEN 1 ELSE 0) + late[u]
          /\ {applied[u], late[u], applied'[u], late'[u]} \subseteq Nat
      BY <2>3
    <3> QED
      BY <2>3, <2>4, <3>1
  <2>6. LateInv'
    BY <2>1, <2>2, <2>3
  <2> QED
    BY <2>1, <2>2, <2>5, <2>6 DEF engineVars, compVars
<1>16. ASSUME NEW s \in Steps, RetryStep(s) PROVE AccountInv'
  BY <1>16 DEF RetryStep, engineVars, stepVars, compVars, worldVars
<1>17. ASSUME NEW s \in Steps, StepEnds(s) PROVE AccountInv'
  BY <1>17 DEF StepEnds, engineVars, stepVars, compVars, worldVars
<1>18. ASSUME NEW s \in Steps, EmitSuccessRaises(s) PROVE AccountInv'
  BY <1>18, AttemptFailedFacts DEF EmitSuccessRaises, engineVars, stepVars, compVars, worldVars
<1>19. ASSUME NEW s \in Steps, StepFails(s) PROVE AccountInv'
  BY <1>19 DEF StepFails, engineVars, stepVars, compVars, worldVars
<1>20. ASSUME NEW s \in Steps, CompReturns(s) PROVE AccountInv'
  BY <1>20 DEF CompReturns, engineVars, stepVars, compVars, worldVars
<1>21. ASSUME NEW s \in Steps, CompRaises(s) PROVE AccountInv'
  <2>1. /\ comp[s] = "running" /\ CompFailed(s)
        /\ UNCHANGED <<setting, policy, layer, success, record, cancelled, stepVars, worldVars>>
    BY <1>21 DEF CompRaises
  <2>2. CASE comp' = comp
    <3>1. pc' = pc /\ rest' = rest
      BY <2>1, <2>2, CompFailedFacts
    <3> QED
      BY <2>1, <2>2, <3>1 DEF stepVars, worldVars
  <2>3. CASE comp' = [comp EXCEPT ![s] = "failed"]
    <3>1. SomeFailed'
      BY <2>3
    <3>2. pc' = pc \/ (pc = "compensate" /\ pc' = "on_completed")
      BY <2>1, CompFailedFacts
    <3>3. rest' = rest \/ rest' = {}
      BY <2>1, CompFailedFacts
    <3>4. /\ UNCHANGED <<success, record, cancelled, task, status, live, applied, late, undone>>
          /\ \A t \in Steps : comp'[t] = IF t = s THEN "failed" ELSE comp[t]
      BY <2>1, <2>3 DEF stepVars, worldVars
    <3>5. /\ ~cancelled' => \A t \in Steps : undone'[t] = IF comp'[t] = "undone" THEN 1 ELSE 0
          /\ \A t \in Steps : (comp'[t] # "idle" \/ t \in rest') => status'[t] = "DONE"
          /\ ~cancelled' => \A t \in Steps : comp'[t] # "cancelled"
          /\ \A t \in rest' : comp'[t] = "idle"
      <4>1. /\ comp[s] = "running" /\ (~cancelled => undone[s] = 0)
            /\ status[s] = "DONE" /\ s \notin rest
            /\ rest' \subseteq rest /\ rest \subseteq Steps
        BY <2>1, <3>3
      <4>2. ~cancelled' => \A t \in Steps : undone'[t] = IF comp'[t] = "undone" THEN 1 ELSE 0
        BY <3>4, <4>1
      <4>3. \A t \in Steps : (comp'[t] # "idle" \/ t \in rest') => status'[t] = "DONE"
        BY <3>4, <4>1
      <4>4. ~cancelled' => \A t \in Steps : comp'[t] # "cancelled"
        BY <3>4
      <4>5. \A t \in rest' : comp'[t] = "idle"
        BY <3>4, <4>1
      <4> QED
        BY <4>2, <4>3, <4>4, <4>5
    <3>6. pc' = "returned" => pc = "returned"
      BY <3>2
    <3> QED
      BY <3>1, <3>4, <3>5, <3>6
  <2> QED
    BY <2>1, <2>2, <2>3, CompFailedFacts
<1>22. ASSUME NEW s \in Steps, EmitCompensatedRaises(s) PROVE AccountInv'
  BY <1>22, CompFailedFacts DEF EmitCompensatedRaises, engineVars, stepVars, compVars, worldVars
<1>23. ASSUME NEW s \in Steps, ThreadEnds(s) PROVE AccountInv'
  BY <1>23 DEF ThreadEnds, Late, engineVars, stepVars, compVars, worldVars
<1>24. CASE CallerCancel
  BY <1>24 DEF CallerCancel, engineVars, stepVars, compVars, worldVars
<1>25. CASE UNCHANGED vars
  BY <1>25 DEF vars, engineVars, stepVars, compVars, worldVars
<1> QED
  BY <1>1, <1>2, <1>3, <1>4, <1>5, <1>6, <1>7, <1>8, <1>9, <1>10, <1>11, <1>12, <1>13, <1>14, <1>15, <1>16, <1>17, <1>18, <1>19, <1>20, <1>21, <1>22, <1>23, <1>24, <1>25 DEF Next, EngineStep, TaskStep, CompStep

LEMMA AccountImplies == IInv /\ (Clean => AccountInv) => AllOrNothing
<1> SUFFICES ASSUME IInv, Clean, AccountInv, pc = "returned"
             PROVE  /\ \A s \in Steps \ MayBeLate : late[s] = 0
                    /\ IF success
                       THEN \A s \in Steps : applied[s] = 1 + late[s] /\ undone[s] = 0
                       ELSE (\A s \in Steps : comp[s] # "failed") =>
                               \A s \in Compensable : applied[s] = undone[s] + late[s]
  BY DEF AllOrNothing, Clean
<1>0. TypeOK /\ LayerInv /\ PhaseInv /\ RecordInv /\ SagaAssumption
  BY SagaAssumption DEF IInv, TypeInv
<1>1. ASSUME success, NEW s \in Steps PROVE applied[s] = 1 + late[s] /\ undone[s] = 0
  <2>1. status[s] = "DONE" /\ comp[s] = "idle"
    BY <1>0, <1>1 DEF LayerInv, PhaseInv
  <2> QED
    BY <1>0, <2>1 DEF RecordInv, AccountInv
<1>2. ASSUME ~success, \A s \in Steps : comp[s] # "failed", NEW s \in Compensable
      PROVE  applied[s] = undone[s] + late[s]
  <2>1. s \in Steps /\ ~SomeFailed /\ ~cancelled
    BY <1>2, SagaAssumption DEF SomeFailed, AccountInv
  <2>2. status[s] = "DONE" <=> comp[s] = "undone"
    BY <1>2, <2>1 DEF AccountInv
  <2> QED
    BY <1>0, <2>1, <2>2 DEF AccountInv, TypeOK
<1>3. ASSUME NEW s \in Steps \ MayBeLate PROVE late[s] = 0
  <2>1. task[s] = "cancelled" => ~success /\ LayerOf[s] = layer
    BY <1>0 DEF LayerInv, TypeOK
  <2>2. s \notin TimedSteps /\ task[s] # "cancelled"
    BY <1>3, <2>1 DEF MayBeLate, LayerSteps
  <2> QED
    BY <2>2 DEF AccountInv, LateInv
<1> QED
  BY <1>0, <1>1, <1>2, <1>3 DEF TypeOK

\* All or nothing, for every saga definition, number of retries, timeout and
\* policy: a returned execution has every effect once, or, unless a
\* compensation failed, no net effect on any compensable step - but for the
\* effects of attempts that were cut off, and it says which steps may have any.
THEOREM AllOrNothingHolds == Spec => []AllOrNothing
<1>1. Init => IInv /\ (Clean => AccountInv)
  BY InvInit, AccountInit
<1>2. IInv /\ (Clean => AccountInv) /\ [Next]_vars => (IInv /\ (Clean => AccountInv))'
  <2> SUFFICES ASSUME IInv, Clean => AccountInv, [Next]_vars
               PROVE  IInv' /\ (Clean' => AccountInv')
    OBVIOUS
  <2>1. Clean' <=> Clean
    BY SettingKept DEF Clean, Faulty, CpuBound
  <2> QED
    BY <2>1, InvStep, AccountStep
<1> QED
  BY <1>1, <1>2, AccountImplies, PTL DEF Spec
-----------------------------------------------------------------------------
(* The order of compensations.                                             *)

Ranked == {t \in Steps : rank[t] # 0}

\* The dict of statuses lists a step after everything it depends on, since its
\* dependencies had completed when it was inserted, at the end.
RankInv ==
    /\ \A s \in Steps : rank[s] <= Cardinality(Ranked)
    /\ \A s \in Steps : task[s] \in {"idle", "new"} => status[s] = "ABSENT" /\ rank[s] = 0
    /\ \A s \in Steps : task[s] \in Busy \cup {"ok", "err"} => status[s] # "ABSENT"
    /\ \A t \in Steps : status[t] # "ABSENT" => \A s \in DependsOn[t] : rank[s] < rank[t]

\* What the compensator has still to visit is untouched, and, until a failure
\* makes it give up, it is all that is untouched.
OrderInv ==
    /\ \A s \in rest : comp[s] = "idle"
    /\ (pc = "compensate" /\ rest # {}) =>
            \A t \in ToCompensate : comp[t] = "idle" => t \in rest
    /\ CompensationOrder

LEMMA OrderInit == Init => RankInv /\ OrderInv
<1> SUFFICES ASSUME Init PROVE RankInv /\ OrderInv
  OBVIOUS
<1>1. Cardinality(Ranked) \in Nat
  BY CountIsNat DEF Ranked
<1>2. RankInv
  BY <1>1 DEF Init, RankInv, Busy
<1>3. ToCompensate \subseteq Steps /\ \A t \in Steps : DependsOn[t] \subseteq Steps
  BY SagaAssumption DEF ToCompensate, DoneSteps
<1>4. OrderInv
  BY <1>3 DEF Init, OrderInv, CompensationOrder
<1> QED
  BY <1>2, <1>4

\* A step that starts is ranked after all that started before it.
LEMMA StartRanks ==
    ASSUME TypeOK, LayerInv, RankInv, NEW s \in Steps, StartStep(s)
    PROVE  RankInv'
<1>1. /\ Cardinality(Ranked) \in Nat /\ IsFiniteSet(Ranked)
  BY CountIsNat, FS_Subset, SagaAssumption DEF Ranked
<1>2. /\ task[s] = "new" /\ rank[s] = 0
      /\ task' = [task EXCEPT ![s] = "invoke"]
      /\ status' = [status EXCEPT ![s] = "RUNNING"]
      /\ rank' = [rank EXCEPT ![s] = Cardinality(Ranked) + 1]
  BY DEF StartStep, RankInv, Ranked
<1>3. Ranked' = Ranked \cup {s} /\ s \notin Ranked
  <2>1. \A t \in Steps : rank'[t] = IF t = s THEN Cardinality(Ranked) + 1 ELSE rank[t]
    BY <1>2 DEF TypeOK
  <2>2. Cardinality(Ranked) + 1 # 0
    BY <1>1
  <2> QED
    BY <1>2, <2>1, <2>2 DEF Ranked
<1>4. Cardinality(Ranked') = Cardinality(Ranked) + 1
  BY <1>1, <1>3, FS_AddElement
<1>5. \A t \in Steps : rank'[t] = IF t = s THEN Cardinality(Ranked) + 1 ELSE rank[t]
  BY <1>2 DEF TypeOK
<1>6. \A t \in Steps : rank'[t] <= Cardinality(Ranked')
  BY <1>1, <1>4, <1>5 DEF RankInv, TypeOK
<1>7. \A t \in Steps : task'[t] \in {"idle", "new"} => status'[t] = "ABSENT" /\ rank'[t] = 0
  BY <1>2 DEF RankInv, TypeOK
<1>8. \A t \in Steps : task'[t] \in Busy \cup {"ok", "err"} => status'[t] # "ABSENT"
  BY <1>2 DEF RankInv, TypeOK
<1>9. ASSUME NEW t \in Steps, status'[t] # "ABSENT", NEW d \in DependsOn[t]
      PROVE  rank'[d] < rank'[t]
  <2>1. d \in Steps /\ d # t
    BY SagaAssumption
  <2>2. CASE t = s
    BY <1>1, <1>5, <2>1, <2>2 DEF RankInv, TypeOK
  <2>3. CASE t # s
    <3>1. status[t] # "ABSENT" /\ task[t] # "idle"
      BY <1>2, <1>9, <2>3 DEF RankInv, TypeOK
    <3>2. task[d] = "ok"
      BY <3>1, LayerImplies DEF DependencyOrder
    <3> QED
      BY <1>2, <1>5, <2>1, <2>3, <3>1, <3>2 DEF RankInv
  <2> QED
    BY <2>2, <2>3
<1> QED
  BY <1>6, <1>7, <1>8, <1>9 DEF RankInv

\* The other steps leave the ranks alone, and list no step.
LEMMA RankKept ==
    ASSUME TypeOK, RankInv, rank' = rank,
           \A t \in Steps :
              /\ task'[t] \in {"idle", "new"} => task[t] \in {"idle", "new"}
              /\ task'[t] \in Busy \cup {"ok", "err"} => task[t] \in Busy \cup {"ok", "err"}
              /\ status'[t] = "ABSENT" <=> status[t] = "ABSENT"
    PROVE  RankInv'
BY DEF RankInv, Ranked

LEMMA RankStep == TypeOK /\ LayerInv /\ RankInv /\ [Next]_vars => RankInv'
<1> SUFFICES ASSUME TypeOK, LayerInv, RankInv, [Next]_vars PROVE RankInv'
  OBVIOUS
<1> USE DEF TypeOK, Busy
<1>1. CASE UNCHANGED <<task, status, rank>>
  BY <1>1, RankKept
<1>2. CASE StartLayer
  BY <1>2, RankKept DEF StartLayer, LayerInv
<1>3. CASE LayerFails
  BY <1>3, RankKept DEF LayerFails, Cancellable
<1>4. ASSUME NEW s \in Steps, StartStep(s) PROVE RankInv'
  BY <1>4, StartRanks
<1>5. ASSUME NEW s \in Steps, StepReturns(s) PROVE RankInv'
  BY <1>5, RankKept DEF StepReturns, RankInv
<1>6. ASSUME NEW s \in Steps, StepRaises(s) \/ StepTimesOut(s) \/ EmitSuccessRaises(s) PROVE RankInv'
  <2>1. task[s] \in {"invoke", "emit_ok"} /\ rank' = rank /\ AttemptFailed(s)
    BY <1>6 DEF StepRaises, StepTimesOut, EmitSuccessRaises
  <2>2. status[s] # "ABSENT"
    BY <2>1 DEF RankInv
  <2> QED
    BY <2>1, <2>2, AttemptFailedFacts, RankKept
<1>7. ASSUME NEW s \in Steps, RetryStep(s) PROVE RankInv'
  BY <1>7, RankKept DEF RetryStep, RankInv
<1>8. ASSUME NEW s \in Steps, StepEnds(s) PROVE RankInv'
  BY <1>8, RankKept DEF StepEnds
<1>9. ASSUME NEW s \in Steps, StepFails(s) PROVE RankInv'
  BY <1>9, RankKept DEF StepFails
<1>10. CASE UNCHANGED stepVars
  BY <1>1, <1>10 DEF stepVars
<1>11. EngineStep => StartLayer \/ LayerFails \/ UNCHANGED stepVars
  BY DEF EngineStep, OnStart, PersistState, AllLayersDone, LayerSucceeds, CancelEnds, CompStart,
         CompensateEnds, OnCompleted, MarkCompleted
<1>12. ASSUME NEW s \in Steps, CompStep(s) \/ ThreadEnds(s) PROVE UNCHANGED stepVars
  BY <1>12 DEF CompStep, CompReturns, CompRaises, EmitCompensatedRaises, ThreadEnds
<1>13. CallerCancel \/ UNCHANGED vars => UNCHANGED stepVars
  BY DEF CallerCancel, vars
<1> QED
  BY <1>2, <1>3, <1>4, <1>5, <1>6, <1>7, <1>8, <1>9, <1>10, <1>11, <1>12, <1>13 DEF Next, TaskStep

\* A group is called when its dependents have been dealt with: they are ranked
\* after it and are in later layers, so they would have been in the group.
LEMMA GroupInOrder ==
    ASSUME IInv, RankInv, OrderInv, CompStart, policy # "BEST_EFFORT_PARALLEL",
           NEW t \in ToCompensate, NEW s \in DependsOn[t], comp'[s] # "idle"
    PROVE  comp'[t] \notin {"idle", "running"}
<1>1. /\ t \in Steps /\ s \in Steps /\ status[t] = "DONE"
      /\ rank[s] < rank[t] /\ rank[s] \in Nat /\ rank[t] \in Nat
      /\ LayerOf[s] < LayerOf[t] /\ LayerOf[s] \in Nat /\ LayerOf[t] \in Nat
  BY SagaAssumption DEF ToCompensate, DoneSteps, RankInv, IInv, TypeInv, TypeOK
<1>2. /\ pc = "compensate" /\ rest # {} /\ comp[t] # "running"
      /\ \A u \in Steps : comp'[u] = IF u \in NextGroup THEN "running" ELSE comp[u]
  BY <1>1 DEF CompStart
<1>3. NextGroup \subseteq rest
  BY DEF NextGroup, SequentialPolicies, AllPolicies, IInv, TypeInv, TypeOK
<1>4. comp[t] # "idle"
  <2>1. CASE s \in NextGroup
    <3>1. s \in rest /\ t \notin rest
      BY <1>1, <1>3, <2>1 DEF NextGroup, SequentialPolicies, AllPolicies, IInv, TypeInv, TypeOK
    <3> QED
      BY <1>2, <3>1 DEF OrderInv
  <2>2. CASE s \notin NextGroup
    BY <1>1, <1>2, <2>2 DEF OrderInv, CompensationOrder
  <2> QED
    BY <2>1, <2>2
<1>5. t \notin NextGroup
  BY <1>3, <1>4 DEF OrderInv
<1> QED
  BY <1>1, <1>2, <1>4, <1>5

\* The steps of the engine that call no compensation: the compensations that
\* have been called stay called, and the dealt with stay dealt with.
LEMMA OrderKept ==
    ASSUME TypeOK, OrderInv, policy' = policy, ToCompensate' \subseteq ToCompensate,
           rest' = rest \/ rest' = {},
           pc' = "compensate" => pc = "compensate",
           \A u \in Steps : /\ comp'[u] = "idle" <=> comp[u] = "idle"
                            /\ comp'[u] = "running" => comp[u] = "running"
    PROVE  OrderInv'
<1>1. ToCompensate \subseteq Steps
  BY DEF ToCompensate, DoneSteps
<1>2. \A u \in ToCompensate : DependsOn[u] \subseteq Steps
  BY <1>1, SagaAssumption
<1> QED
  BY <1>1, <1>2 DEF OrderInv, CompensationOrder, TypeOK

\* Until a compensation is called there is no order to keep.
LEMMA OrderUnbegun ==
    ASSUME \A u \in Steps : comp'[u] = "idle", rest' = {}
    PROVE  OrderInv'
<1>1. \A u \in ToCompensate' : DependsOn[u] \subseteq Steps
  BY SagaAssumption DEF ToCompensate, DoneSteps
<1> QED
  BY <1>1 DEF OrderInv, CompensationOrder

LEMMA OrderStep == IInv /\ RankInv /\ OrderInv /\ [Next]_vars => OrderInv'
<1> SUFFICES ASSUME IInv, RankInv, OrderInv, [Next]_vars PROVE OrderInv'
  OBVIOUS
<1>a. TypeOK /\ PhaseInv
  BY DEF IInv, TypeInv
<1>1. ASSUME NEW s \in Steps, TaskStep(s) PROVE OrderInv'
  <2>1. task[s] \in Busy \cup {"new"} /\ UNCHANGED <<rest, comp>>
    BY <1>1 DEF TaskStep, StartStep, StepReturns, StepRaises, StepTimesOut, RetryStep, StepEnds,
                EmitSuccessRaises, StepFails, compVars, Busy
  <2>2. rest = {} /\ \A u \in Steps : comp[u] = "idle"
    BY <1>a, <2>1 DEF PhaseInv, AllQuiet
  <2> QED
    BY <2>1, <2>2, OrderUnbegun
<1>2. CASE CancelEnds
  <2>1. /\ rest' = ToCompensate /\ ToCompensate' = ToCompensate /\ policy' = policy
        /\ \A u \in Steps : comp'[u] = "idle"
    BY <1>a, <1>2 DEF CancelEnds, PhaseInv, ToCompensate, DoneSteps, stepVars
  <2>2. ToCompensate \subseteq Steps /\ \A u \in ToCompensate : DependsOn[u] \subseteq Steps
    BY SagaAssumption DEF ToCompensate, DoneSteps
  <2> QED
    BY <2>1, <2>2 DEF OrderInv, CompensationOrder
<1>3. CASE CompStart
  <2>1. /\ rest' = rest \ NextGroup /\ rest # {} /\ pc' = pc /\ pc = "compensate"
        /\ policy' = policy /\ ToCompensate' = ToCompensate
        /\ \A u \in Steps : comp'[u] = IF u \in NextGroup THEN "running" ELSE comp[u]
    BY <1>3 DEF CompStart, ToCompensate, DoneSteps, engineVars, stepVars
  <2>2. rest \subseteq Steps /\ ToCompensate \subseteq Steps
    BY <1>a DEF TypeOK, ToCompensate, DoneSteps
  <2>3. \A u \in rest' : comp'[u] = "idle"
    BY <2>1, <2>2 DEF OrderInv
  <2>4. \A u \in ToCompensate : comp'[u] = "idle" => u \in rest'
    BY <2>1, <2>2 DEF OrderInv
  <2>5. CompensationOrder'
    BY <1>3, <2>1, GroupInOrder DEF CompensationOrder
  <2> QED
    BY <2>1, <2>3, <2>4, <2>5 DEF OrderInv
<1>4. ASSUME NEW s \in Steps, CompReturns(s) PROVE OrderInv'
  <2>1. ToCompensate' = ToCompensate
    BY <1>4 DEF CompReturns, ToCompensate, DoneSteps, engineVars, stepVars
  <2> QED
    BY <1>a, <1>4, <2>1, OrderKept DEF CompReturns, engineVars, TypeOK
<1>5. ASSUME NEW s \in Steps, CompRaises(s) \/ EmitCompensatedRaises(s) PROVE OrderInv'
  <2>1. comp[s] = "running" /\ CompFailed(s) /\ UNCHANGED <<policy, stepVars>>
    BY <1>5 DEF CompRaises, EmitCompensatedRaises
  <2>2. ToCompensate' = ToCompensate
    BY <2>1 DEF ToCompensate, DoneSteps, stepVars
  <2>3. /\ comp' \in {comp, [comp EXCEPT ![s] = "failed"]}
        /\ \A u \in Steps : comp'[u] = "idle" <=> comp[u] = "idle"
        /\ pc' = "compensate" => pc = "compensate"
        /\ rest' = rest \/ rest' = {}
    BY <1>a, <2>1, CompFailedFacts
  <2>4. \A u \in Steps : comp'[u] = "running" => comp[u] = "running"
    BY <1>a, <2>3 DEF TypeOK
  <2> QED
    BY <1>a, <2>1, <2>2, <2>3, <2>4, OrderKept
<1>6. CASE CallerCancel
  <2>1. ToCompensate' = ToCompensate
    BY <1>6 DEF CallerCancel, ToCompensate, DoneSteps, stepVars
  <2> QED
    BY <1>a, <1>6, <2>1, OrderKept DEF CallerCancel, TypeOK
<1>7. CASE /\ UNCHANGED <<policy, status, rest, comp>>
           /\ pc' = "compensate" => pc = "compensate"
  <2>1. ToCompensate' = ToCompensate
    BY <1>7 DEF ToCompensate, DoneSteps
  <2> QED
    BY <1>a, <1>7, <2>1, OrderKept
<1>8. ASSUME EngineStep, ~CancelEnds, ~CompStart
      PROVE  UNCHANGED <<policy, status, rest, comp>> /\ pc' # "compensate"
  BY <1>8 DEF EngineStep, OnStart, PersistState, StartLayer, AllLayersDone, LayerSucceeds, LayerFails,
              CompensateEnds, OnCompleted, MarkCompleted, stepVars, compVars
<1>9. ASSUME NEW s \in Steps, ThreadEnds(s)
      PROVE  UNCHANGED <<policy, status, rest, comp, pc>>
  BY <1>9 DEF ThreadEnds, engineVars, stepVars, compVars
<1>10. UNCHANGED vars => UNCHANGED <<policy, status, rest, comp, pc>>
  BY DEF vars, engineVars, stepVars, compVars
<1> QED
  BY <1>1, <1>2, <1>3, <1>4, <1>5, <1>6, <1>7, <1>8, <1>9, <1>10 DEF Next, CompStep

\* A step is compensated only after the completed steps that depend on it have
\* been dealt with, for every saga, policy that keeps an order, retries, faulty
\* ports and cancellation.
THEOREM CompensationOrderHolds == Spec => []CompensationOrder
<1>1. Init => IInv /\ RankInv /\ OrderInv
  BY InvInit, OrderInit
<1>2. IInv /\ RankInv /\ OrderInv /\ [Next]_vars => (IInv /\ RankInv /\ OrderInv)'
  BY InvStep, RankStep, OrderStep DEF IInv, TypeInv
<1>3. OrderInv => CompensationOrder
  BY DEF OrderInv
<1> QED
  BY <1>1, <1>2, <1>3, PTL DEF Spec
=============================================================================
