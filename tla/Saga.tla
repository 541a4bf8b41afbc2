-------------------------------- MODULE Saga --------------------------------
(***************************************************************************)
(* One execution of a saga: SagaEngine.execute drives the                  *)
(* SagaExecutionOrchestrator layer by layer and, when a step fails, the    *)
(* SagaCompensator with one of its five policies.                          *)
(*                                                                         *)
(* Everything runs on one asyncio event loop, so an action is what a       *)
(* coroutine does between two awaits; the interleavings are those of the   *)
(* engine's coroutine (pc), one task per step of the current layer, the    *)
(* compensation calls, and the pool threads that run cpu_bound steps.      *)
(*                                                                         *)
(* A step is a number: numeric order is the sorted order of the ids.  What *)
(* a step or a compensation does is only counted (applied, undone).        *)
(***************************************************************************)
EXTENDS Integers, FiniteSets

CONSTANTS
    Steps,             \* the step ids of the definition
    DependsOn,         \* step -> the set of steps it depends on
    LayerOf,           \* step -> the layer compute_layers puts it in
    NumLayers,         \* how many layers there are
    Attempts,          \* step -> max(retry, 1)
    Compensable,       \* the steps with a compensate_method
    CompRetry,         \* step -> compensation_retry, or its default
    TimedSteps,        \* the steps with timeout_ms > 0
    Shielding,         \* the steps whose method swallows a cancellation
    Settings           \* the circumstances of the call to consider, see Setting

\* _CIRCUIT_BREAKER_THRESHOLD of the compensator.
CircuitBreakerThreshold == 3

SequentialPolicies == {"STRICT_SEQUENTIAL", "RETRY_WITH_BACKOFF", "CIRCUIT_BREAKER"}
AllPolicies == SequentialPolicies \cup {"GROUPED_PARALLEL", "BEST_EFFORT_PARALLEL"}
Ports == {"on_start", "persist_state", "on_step_success", "on_compensated",
          "on_completed", "mark_completed"}

\* The circumstances of one call of execute().
Setting(policies, faulty, cpuBound, concurrency, cancels) ==
    [policies    |-> policies,     \* the compensation policy is one of these
     faulty      |-> faulty,       \* the port calls that may raise
     cpuBound    |-> cpuBound,     \* the steps that run in an executor thread
     concurrency |-> concurrency,  \* layer_concurrency; 0 means no semaphore
     cancels     |-> cancels]      \* whether the caller may cancel execute()

\* What compute_layers guarantees (SagaTopology!LayersSound) and the types of
\* a definition.
ASSUME SagaAssumption ==
    /\ Steps \subseteq Nat
    /\ IsFiniteSet(Steps)
    /\ NumLayers \in Nat
    /\ LayerOf \in [Steps -> 1..NumLayers]
    /\ \A n \in 1..NumLayers : \E s \in Steps : LayerOf[s] = n
    /\ DependsOn \in [Steps -> SUBSET Steps]
    /\ \A s \in Steps : \A d \in DependsOn[s] : LayerOf[d] < LayerOf[s]
    /\ Attempts \in [Steps -> Nat \ {0}]
    /\ CompRetry \in [Steps -> Nat]
    /\ Compensable \subseteq Steps
    /\ TimedSteps \subseteq Steps
    /\ Shielding \subseteq Steps

\* The circumstances a call can meet.
ASSUME SettingsAssumption ==
    \A e \in Settings :
        /\ e.policies \subseteq AllPolicies
        /\ e.faulty \subseteq Ports
        /\ e.cpuBound \subseteq Steps \ Shielding
        /\ e.concurrency \in Nat
        /\ e.cancels \in BOOLEAN

VARIABLES
    setting,    \* the circumstances of this call
    pc,         \* where SagaEngine.execute is
    policy,     \* the policy this call was given
    layer,      \* the layer being executed
    task,       \* step -> the state of its asyncio task
    attempt,    \* step -> its attempt number
    status,     \* step -> ctx.step_statuses, "ABSENT" when it has no entry
    rank,       \* step -> its position in the dict ctx.step_statuses, or 0
    doneAt,     \* step -> its position in completed_step_ids, or 0
    rest,       \* the steps the compensator has still to visit
    comp,       \* step -> the state of its compensation
    tries,      \* step -> the compensation attempts made (RETRY_WITH_BACKOFF)
    failures,   \* consecutive_failures (CIRCUIT_BREAKER)
    success,    \* the local of execute
    record,     \* the status of the persisted state, or "none"
    cancelled,  \* the caller has cancelled execute()
    live,       \* step -> pool threads still running its abandoned method
    applied,    \* step -> how often its method took effect
    late,       \* step -> how many of those the engine gave up on and never saw
    undone      \* step -> how often its compensation took effect

engineVars == <<setting, pc, policy, layer, success, record, cancelled>>
stepVars   == <<task, attempt, status, rank, doneAt>>
compVars   == <<rest, comp, tries, failures>>
worldVars  == <<live, applied, late, undone>>
vars       == <<engineVars, stepVars, compVars, worldVars>>

Faulty           == setting.faulty
CpuBound         == setting.cpuBound
LayerConcurrency == setting.concurrency
CallerCancels    == setting.cancels

\* The states of a task between its first step and its end, in which it holds
\* a permit of the semaphore.
Busy == {"invoke", "emit_ok", "backoff", "emit_failed"}

\* The steps of layer n.
LayerSteps(n) == {s \in Steps : LayerOf[s] = n}

\* completed_step_ids as execute derives it from the context.
DoneSteps == {s \in Steps : status[s] = "DONE"}

Final == {"returned", "raised"}
-----------------------------------------------------------------------------
Init ==
    /\ pc = "on_start"
    /\ setting \in Settings
    /\ policy \in setting.policies
    /\ layer = 0
    /\ success = FALSE
    /\ record = "none"
    /\ cancelled = FALSE
    /\ task = [s \in Steps |-> "idle"]
    /\ attempt = [s \in Steps |-> 0]
    /\ status = [s \in Steps |-> "ABSENT"]
    /\ rank = [s \in Steps |-> 0]
    /\ doneAt = [s \in Steps |-> 0]
    /\ rest = {}
    /\ comp = [s \in Steps |-> "idle"]
    /\ tries = [s \in Steps |-> 0]
    /\ failures = 0
    /\ live = [s \in Steps |-> 0]
    /\ applied = [s \in Steps |-> 0]
    /\ late = [s \in Steps |-> 0]
    /\ undone = [s \in Steps |-> 0]

\* The two calls before the try block: an error there leaves execute at once.
OnStart ==
    /\ pc = "on_start"
    /\ \/ pc' = "persist_state"
       \/ "on_start" \in Faulty /\ pc' = "raised"
    /\ UNCHANGED <<setting, policy, layer, success, record, cancelled, stepVars, compVars, worldVars>>

PersistState ==
    /\ pc = "persist_state"
    /\ \/ pc' = "layers" /\ record' = "IN_FLIGHT"
       \/ "persist_state" \in Faulty /\ pc' = "raised" /\ UNCHANGED record
    /\ UNCHANGED <<setting, policy, layer, success, cancelled, stepVars, compVars, worldVars>>

\* One turn of the for loop over the layers: a task per step.
StartLayer ==
    /\ pc = "layers"
    /\ layer < NumLayers
    /\ layer' = layer + 1
    /\ task' = [s \in Steps |-> IF LayerOf[s] = layer + 1 THEN "new" ELSE task[s]]
    /\ pc' = "wait"
    /\ UNCHANGED <<setting, policy, success, record, cancelled, attempt, status, rank, doneAt,
                   compVars, worldVars>>

AllLayersDone ==
    /\ pc = "layers"
    /\ layer = NumLayers
    /\ success' = TRUE
    /\ pc' = "on_completed"
    /\ UNCHANGED <<setting, policy, layer, record, cancelled, stepVars, compVars, worldVars>>
-----------------------------------------------------------------------------
(* The task of a step: _execute_step.                                      *)

\* Tasks start, and the semaphore wakes its waiters, in the order of creation.
StartStep(s) ==
    /\ task[s] = "new"
    /\ \A t \in Steps : task[t] = "new" => s <= t
    /\ LayerConcurrency > 0 => Cardinality({t \in Steps : task[t] \in Busy}) < LayerConcurrency
    /\ task' = [task EXCEPT ![s] = "invoke"]
    /\ attempt' = [attempt EXCEPT ![s] = 1]
    /\ status' = [status EXCEPT ![s] = "RUNNING"]
    /\ rank' = [rank EXCEPT ![s] = Cardinality({t \in Steps : rank[t] # 0}) + 1]
    /\ UNCHANGED <<engineVars, doneAt, compVars, worldVars>>

\* The except branch of an attempt: sleep before the next one, or FAILED.
AttemptFailed(s) ==
    IF attempt[s] < Attempts[s]
    THEN /\ task' = [task EXCEPT ![s] = "backoff"]
         /\ UNCHANGED status
    ELSE /\ task' = [task EXCEPT ![s] = "emit_failed"]
         /\ status' = [status EXCEPT ![s] = "FAILED"]

StepReturns(s) ==
    /\ task[s] = "invoke"
    /\ task' = [task EXCEPT ![s] = "emit_ok"]
    /\ status' = [status EXCEPT ![s] = "DONE"]
    /\ applied' = [applied EXCEPT ![s] = @ + 1]
    /\ UNCHANGED <<engineVars, attempt, rank, doneAt, compVars, live, late, undone>>

StepRaises(s) ==
    /\ task[s] = "invoke"
    /\ AttemptFailed(s)
    /\ UNCHANGED <<engineVars, attempt, rank, doneAt, compVars, worldVars>>

\* The methods of S took effect although the engine has given up on them.
Late(S) ==
    /\ applied' = [s \in Steps |-> IF s \in S THEN applied[s] + 1 ELSE applied[s]]
    /\ late' = [s \in Steps |-> IF s \in S THEN late[s] + 1 ELSE late[s]]

\* The methods of S are cancelled.  One that runs in the pool leaves a thread
\* behind; a coroutine is cut at the await it is in, with its effect or without.
Abandon(S) ==
    /\ live' = [s \in Steps |-> IF s \in S \cap CpuBound THEN live[s] + 1 ELSE live[s]]
    /\ \E cut \in SUBSET (S \ CpuBound) : Late(cut)

\* wait_for cancels the method at its timeout.
StepTimesOut(s) ==
    /\ task[s] = "invoke"
    /\ s \in TimedSteps \ Shielding
    /\ AttemptFailed(s)
    /\ Abandon({s})
    /\ UNCHANGED <<engineVars, attempt, rank, doneAt, compVars, undone>>

RetryStep(s) ==
    /\ task[s] = "backoff"
    /\ task' = [task EXCEPT ![s] = "invoke"]
    /\ attempt' = [attempt EXCEPT ![s] = @ + 1]
    /\ status' = [status EXCEPT ![s] = "RUNNING"]
    /\ UNCHANGED <<engineVars, rank, doneAt, compVars, worldVars>>

\* on_step_success returns and the task ends ...
StepEnds(s) ==
    /\ task[s] = "emit_ok"
    /\ task' = [task EXCEPT ![s] = "ok"]
    /\ doneAt' = [doneAt EXCEPT ![s] = Cardinality({t \in Steps : doneAt[t] # 0}) + 1]
    /\ UNCHANGED <<engineVars, attempt, status, rank, compVars, worldVars>>

\* ... or it raises, inside the same try block as the step itself.
EmitSuccessRaises(s) ==
    /\ "on_step_success" \in Faulty
    /\ task[s] = "emit_ok"
    /\ AttemptFailed(s)
    /\ UNCHANGED <<engineVars, attempt, rank, doneAt, compVars, worldVars>>

\* on_step_failed is through and the exception leaves the task.
StepFails(s) ==
    /\ task[s] = "emit_failed"
    /\ task' = [task EXCEPT ![s] = "err"]
    /\ UNCHANGED <<engineVars, attempt, status, rank, doneAt, compVars, worldVars>>

\* A thread that nobody waits for any more ends, with its effect or without.
ThreadEnds(s) ==
    /\ live[s] > 0
    /\ live' = [live EXCEPT ![s] = @ - 1]
    /\ \E effect \in SUBSET {s} : Late(effect)
    /\ UNCHANGED <<engineVars, stepVars, compVars, undone>>
-----------------------------------------------------------------------------
(* The end of a layer.                                                     *)

\* Mutant: asyncio.wait with FIRST_COMPLETED.
LayerSucceedsFirst ==
    /\ pc = "wait"
    /\ \E s \in LayerSteps(layer) : task[s] = "ok"
    /\ pc' = "layers"
    /\ UNCHANGED <<setting, policy, layer, success, record, cancelled, stepVars, compVars, worldVars>>

LayerSucceeds ==
    /\ pc = "wait"
    /\ \A s \in LayerSteps(layer) : task[s] = "ok"
    /\ pc' = "layers"
    /\ UNCHANGED <<setting, policy, layer, success, record, cancelled, stepVars, compVars, worldVars>>

\* The tasks that end at once when they are cancelled: the ones that did not
\* start, that sleep or emit, and the methods that do not swallow it.
Cancellable == {s \in Steps : \/ task[s] \in {"new", "backoff", "emit_ok", "emit_failed"}
                              \/ task[s] = "invoke" /\ s \notin Shielding}

\* Mutant: the exceptions are looked at only when every task has one.
LayerFailsWhenAllFail ==
    /\ pc = "wait"
    /\ \A s \in LayerSteps(layer) : task[s] = "err"
    /\ pc' = "cancelling"
    /\ UNCHANGED <<setting, policy, layer, success, record, cancelled, stepVars, compVars, worldVars>>

\* asyncio.wait returns on the first exception: cancel what is pending, ...
LayerFails ==
    /\ pc = "wait"
    /\ \E s \in LayerSteps(layer) : task[s] = "err"
    /\ task' = [s \in Steps |-> IF s \in Cancellable THEN "cancelled" ELSE task[s]]
    /\ Abandon({s \in Cancellable : task[s] = "invoke"})
    /\ pc' = "cancelling"
    /\ UNCHANGED <<setting, policy, layer, success, record, cancelled, attempt, status, rank, doneAt,
                   compVars, undone>>

\* Mutant: the steps that the tasks have appended to completed_step_ids.
ToCompensateAppended == {s \in Compensable : doneAt[s] # 0}

\* The steps that a policy will visit.  Under RETRY_WITH_BACKOFF a
\* compensation_retry of zero means that the loop body never runs.
ToCompensate == {s \in DoneSteps \cap Compensable :
                    policy = "RETRY_WITH_BACKOFF" => CompRetry[s] > 0}

\* Mutant: the cancelled tasks are not awaited.
CancelEndsAtOnce ==
    /\ pc = "cancelling"
    /\ rest' = ToCompensate
    /\ pc' = "compensate"
    /\ UNCHANGED <<setting, policy, layer, success, record, cancelled, stepVars, comp, tries, failures,
                   worldVars>>

\* ... wait for the cancelled tasks to end, and hand over to the compensator.
CancelEnds ==
    /\ pc = "cancelling"
    /\ \A s \in Steps : task[s] \notin Busy
    /\ rest' = ToCompensate
    /\ pc' = "compensate"
    /\ UNCHANGED <<setting, policy, layer, success, record, cancelled, stepVars, comp, tries, failures,
                   worldVars>>
-----------------------------------------------------------------------------
(* The compensator.                                                        *)

\* Mutant: the steps are visited in the order in which they ran.
NextGroupForward ==
    CASE policy \in SequentialPolicies     -> {s \in rest : \A t \in rest : rank[s] <= rank[t]}
      [] policy = "GROUPED_PARALLEL"       -> {s \in rest : \A t \in rest : LayerOf[s] <= LayerOf[t]}
      [] policy = "BEST_EFFORT_PARALLEL"   -> rest

\* The next calls: one at a time against the order of the dict, a layer at a
\* time from the last one, or all of them.
NextGroup ==
    CASE policy \in SequentialPolicies     -> {s \in rest : \A t \in rest : rank[t] <= rank[s]}
      [] policy = "GROUPED_PARALLEL"       -> {s \in rest : \A t \in rest : LayerOf[t] <= LayerOf[s]}
      [] policy = "BEST_EFFORT_PARALLEL"   -> rest

CompStart ==
    /\ pc = "compensate"
    /\ rest # {}
    /\ \A s \in Steps : comp[s] # "running"
    /\ comp' = [s \in Steps |-> IF s \in NextGroup THEN "running" ELSE comp[s]]
    /\ rest' = rest \ NextGroup
    /\ UNCHANGED <<engineVars, stepVars, tries, failures, worldVars>>

CompReturns(s) ==
    /\ comp[s] = "running"
    /\ comp' = [comp EXCEPT ![s] = "undone"]
    /\ undone' = [undone EXCEPT ![s] = @ + 1]
    /\ failures' = 0
    /\ UNCHANGED <<engineVars, stepVars, rest, tries, live, applied, late>>

\* What a failed call means for the policy.  The error handler is called too,
\* but whatever it does the exception goes on.
CompFailed(s) ==
    IF policy = "RETRY_WITH_BACKOFF" /\ tries[s] + 1 < CompRetry[s]
    THEN /\ tries' = [tries EXCEPT ![s] = @ + 1]
         /\ UNCHANGED <<pc, rest, comp, failures>>
    ELSE /\ comp' = [comp EXCEPT ![s] = "failed"]
         /\ UNCHANGED tries
         /\ IF pc # "compensate"   \* gather has already given up on its siblings
            THEN UNCHANGED <<pc, rest, failures>>
            ELSE CASE policy = "BEST_EFFORT_PARALLEL" -> UNCHANGED <<pc, rest, failures>>
                   [] policy = "CIRCUIT_BREAKER" ->
                        /\ failures' = failures + 1
                        /\ rest' = IF failures' >= CircuitBreakerThreshold THEN {} ELSE rest
                        /\ UNCHANGED pc
                   [] OTHER -> /\ rest' = {}
                               /\ pc' = "on_completed"
                               /\ UNCHANGED failures

CompRaises(s) ==
    /\ comp[s] = "running"
    /\ CompFailed(s)
    /\ UNCHANGED <<setting, policy, layer, success, record, cancelled, stepVars, worldVars>>

\* The compensation worked but on_compensated raised: to the policy it failed.
EmitCompensatedRaises(s) ==
    /\ "on_compensated" \in Faulty
    /\ comp[s] = "running"
    /\ undone' = [undone EXCEPT ![s] = @ + 1]
    /\ CompFailed(s)
    /\ UNCHANGED <<setting, policy, layer, success, record, cancelled, stepVars, live, applied, late>>

CompensateEnds ==
    /\ pc = "compensate"
    /\ rest = {}
    /\ \A s \in Steps : comp[s] # "running"
    /\ pc' = "on_completed"
    /\ UNCHANGED <<setting, policy, layer, success, record, cancelled, stepVars, compVars, worldVars>>
-----------------------------------------------------------------------------
(* The finally block and the end of execute.                               *)

OnCompleted ==
    /\ pc = "on_completed"
    /\ \/ pc' = "mark_completed"
       \/ "on_completed" \in Faulty /\ pc' = "raised"
    /\ UNCHANGED <<setting, policy, layer, success, record, cancelled, stepVars, compVars, worldVars>>

MarkCompleted ==
    /\ pc = "mark_completed"
    /\ \/ /\ record' = IF success THEN "COMPLETED" ELSE "FAILED"
          /\ pc' = IF cancelled THEN "raised" ELSE "returned"
       \/ "mark_completed" \in Faulty /\ pc' = "raised" /\ UNCHANGED record
    /\ UNCHANGED <<setting, policy, layer, success, cancelled, stepVars, compVars, worldVars>>

\* CancelledError is no Exception: no compensation starts, and a running one
\* stops, but the finally block is entered.  asyncio.wait does not pass a
\* cancellation on, so the tasks of the steps go on by themselves.  A
\* compensation is cut at the await it is in, with its effect or without.
CallerCancel ==
    /\ CallerCancels
    /\ ~cancelled
    /\ pc \notin Final \cup {"layers"}
    /\ cancelled' = TRUE
    /\ pc' = IF pc \in {"wait", "cancelling", "compensate"} THEN "on_completed" ELSE "raised"
    /\ LET stopped == {s \in Steps : pc = "compensate" /\ comp[s] = "running"}
       IN  /\ comp' = [s \in Steps |-> IF s \in stopped THEN "cancelled" ELSE comp[s]]
           /\ \E cut \in SUBSET stopped :
                undone' = [s \in Steps |-> IF s \in cut THEN undone[s] + 1 ELSE undone[s]]
    /\ rest' = {}
    /\ UNCHANGED <<setting, policy, layer, success, record, stepVars, tries, failures,
                   live, applied, late>>

\* The fields of StepOutcome that say what was compensated: nothing in the
\* code writes ctx.compensation_results.
CompensationResults == {}
-----------------------------------------------------------------------------
TaskStep(s) == \/ StartStep(s)
               \/ StepReturns(s)
               \/ StepRaises(s)
               \/ StepTimesOut(s)
               \/ RetryStep(s)
               \/ StepEnds(s)
               \/ EmitSuccessRaises(s)
               \/ StepFails(s)

CompStep(s) == \/ CompReturns(s)
               \/ CompRaises(s)
               \/ EmitCompensatedRaises(s)

EngineStep == \/ OnStart
              \/ PersistState
              \/ StartLayer
              \/ AllLayersDone
              \/ LayerSucceeds
              \/ LayerFails
              \/ CancelEnds
              \/ CompStart
              \/ CompensateEnds
              \/ OnCompleted
              \/ MarkCompleted

Next == \/ EngineStep
        \/ \E s \in Steps : TaskStep(s) \/ CompStep(s) \/ ThreadEnds(s)
        \/ CallerCancel

Spec == Init /\ [][Next]_vars

\* The event loop resumes every coroutine that can go on, and every step and
\* compensation that is called returns or raises: they are awaited without a
\* time limit, so this is what the engine itself relies on.
FairSpec ==
    /\ Spec
    /\ WF_vars(EngineStep)
    /\ \A s \in Steps : WF_vars(TaskStep(s)) /\ WF_vars(CompStep(s)) /\ WF_vars(ThreadEnds(s))
-----------------------------------------------------------------------------
TaskStates == Busy \cup {"idle", "new", "ok", "err", "cancelled"}

\* Type correctness; attempts stay within the retry budget of the step.
TypeOK ==
    /\ pc \in {"on_start", "persist_state", "layers", "wait", "cancelling", "compensate",
               "on_completed", "mark_completed"} \cup Final
    /\ setting \in Settings
    /\ policy \in AllPolicies
    /\ layer \in 0..NumLayers
    /\ task \in [Steps -> TaskStates]
    /\ attempt \in [Steps -> Nat] /\ \A s \in Steps : attempt[s] <= Attempts[s]
    /\ status \in [Steps -> {"ABSENT", "RUNNING", "DONE", "FAILED"}]
    /\ rank \in [Steps -> Nat]
    /\ doneAt \in [Steps -> Nat]
    /\ rest \subseteq Steps
    /\ comp \in [Steps -> {"idle", "running", "undone", "failed", "cancelled"}]
    /\ tries \in [Steps -> Nat]
    /\ failures \in Nat
    /\ success \in BOOLEAN
    /\ record \in {"none", "IN_FLIGHT", "COMPLETED", "FAILED"}
    /\ cancelled \in BOOLEAN
    /\ live \in [Steps -> Nat]
    /\ applied \in [Steps -> Nat]
    /\ late \in [Steps -> Nat]
    /\ undone \in [Steps -> Nat]

\* No task of a step exists before every step it depends on has completed, and
\* a completed dependency stays completed: results that the argument resolver
\* hands to a step are there.
DependencyOrder ==
    \A s \in Steps : task[s] # "idle" =>
        \A d \in DependsOn[s] : task[d] = "ok" /\ status[d] = "DONE"

\* No step is under way, nor waiting to start, once a compensation has been
\* called: the orchestrator waits for what it cancelled, including a method
\* that swallows the cancellation and goes on.
QuietRollback ==
    (\E s \in Steps : comp[s] # "idle") =>
        \A s \in Steps : task[s] \notin Busy \cup {"new"}

\* Nothing a step does takes effect after compensation has begun.
NoEffectDuringRollback ==
    [][pc = "compensate" \/ (\E s \in Steps : comp[s] # "idle") => applied' = applied]_vars

\* A step is compensated only after every completed step that depends on it
\* has been dealt with, under every policy but BEST_EFFORT_PARALLEL.
CompensationOrder ==
    policy # "BEST_EFFORT_PARALLEL" =>
        \A t \in ToCompensate : \A s \in DependsOn[t] :
            comp[s] # "idle" => comp[t] \notin {"idle", "running"}

\* The steps whose attempts may be cut off: at their timeout, or because a
\* sibling in the layer that failed took them down.
MayBeLate == TimedSteps \cup (IF success THEN {} ELSE LayerSteps(layer))

\* All or nothing, as far as the engine can see: when execute returns, every
\* step took effect exactly once and none was undone, or, unless a compensation
\* itself failed, every compensable step was undone exactly as often as it took
\* effect - apart from the effects of attempts that were cut off, which only
\* steps with a timeout and steps beside the failed one can have.  Ports that
\* raise around a step or a compensation break this, see the README.
AllOrNothing ==
    (/\ pc = "returned"
     /\ Faulty \cap {"on_step_success", "on_compensated"} = {}
     /\ \A s \in Steps : CompRetry[s] > 0) =>
        /\ \A s \in Steps \ MayBeLate : late[s] = 0
        /\ IF success
           THEN \A s \in Steps : applied[s] = 1 + late[s] /\ undone[s] = 0
           ELSE (\A s \in Steps : comp[s] # "failed") =>
                   \A s \in Compensable : applied[s] = undone[s] + late[s]

\* "Automatic rollback when something goes wrong", of every effect: those of
\* attempts that were cut off, too.
EveryEffectIsUndone ==
    (pc = "returned" /\ ~success /\ \A s \in Steps : comp[s] # "failed") =>
        \A s \in Compensable : applied[s] = undone[s]

\* The persisted status tells the truth: COMPLETED means that every step is
\* done and none undone; FAILED, when the caller did not cancel, means that a
\* step failed and that no step is still under way.
RecordTruthful ==
    /\ record = "COMPLETED" => \A s \in Steps : task[s] = "ok" /\ undone[s] = 0
    /\ (record = "FAILED" /\ ~cancelled) =>
            /\ \E s \in Steps : status[s] = "FAILED"
            /\ \A s \in Steps : task[s] \notin Busy \cup {"new"}

\* execute returns or raises, and everything it started comes to an end.
Settles ==
    <>[](/\ pc \in Final
         /\ \A s \in Steps : /\ task[s] \notin Busy \cup {"new"}
                              /\ comp[s] # "running"
                              /\ live[s] = 0)

\* "Compensate in reverse completion order": by the time a step is compensated
\* every step that completed after it has been.
ReverseCompletionOrder ==
    policy = "STRICT_SEQUENTIAL" =>
        \A s, t \in ToCompensate :
            (comp[s] # "idle" /\ 0 < doneAt[s] /\ doneAt[s] < doneAt[t])
                => comp[t] \notin {"idle", "running"}

\* "compensated: Whether the compensating transaction was executed for this
\* step", in the SagaResult that execute returns.
CompensationReported ==
    pc = "returned" => \A s \in Steps : undone[s] > 0 => s \in CompensationResults

\* "When a saga step fails, the engine compensates all previously completed
\* steps", here when no compensation fails.
AllCompletedCompensated ==
    (pc = "returned" /\ ~success /\ \A s \in Steps : comp[s] # "failed") =>
        \A s \in DoneSteps \cap Compensable : undone[s] > 0

\* SagaResult is "produced by the saga engine after all steps (and any
\* compensations) have finished".
ResultIsFinal == pc = "returned" => \A s \in Steps : comp[s] # "running"
=============================================================================
