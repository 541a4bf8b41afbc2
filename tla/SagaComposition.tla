-------------------------- MODULE SagaComposition --------------------------
(***************************************************************************)
(* SagaCompositor.execute: sagas that depend on one another, run layer by  *)
(* layer, and CompensationManager, which undoes them when one fails.       *)
(*                                                                         *)
(* What happens inside one saga is module Saga; here a saga takes effect   *)
(* or not, and `undone' counts how often the compensations of its done     *)
(* steps have been called.  The engine leaves the status of a compensated  *)
(* step at DONE, so the result of a failed saga lists its done steps       *)
(* whether its own rollback has been over them or not.                     *)
(*                                                                         *)
(* Sagas are numbered in the order in which compute_layers lists them.     *)
(***************************************************************************)
EXTENDS Integers, FiniteSets

CONSTANTS
  Sagas,         \* the names of the composition's entries, as numbers
  DependsOn,     \* depends_on of each entry
  FlowsFrom,     \* source_saga of each entry's data flows
  Policy,        \* compensation_policy
  Cancellable    \* the caller may cancel execute

ASSUME SagasAssumption ==
  /\ Sagas \subseteq Nat /\ IsFiniteSet(Sagas)
  /\ DependsOn \in [Sagas -> SUBSET Sagas]
  /\ FlowsFrom \in [Sagas -> SUBSET Sagas]
  /\ \A s \in Sagas : \A d \in DependsOn[s] : d < s   \* CompositionValidator
  /\ Cancellable \in BOOLEAN

VARIABLES
  phase,        \* where execute is
  state,        \* of each saga
  done,         \* the sagas with a step that is DONE
  undone,       \* how often each saga's done steps have been compensated
  results,      \* ctx.saga_results
  inputs,       \* the results each saga's input was made from
  completed,    \* completed_sagas
  toUndo,       \* the sagas compensate_completed has not reached
  reported,     \* ctx.compensated_sagas
  failedUndo,   \* sagas whose compensation raised
  error,        \* ctx.error is set
  ended         \* history: for each saga that succeeded, those that had before

compositionVars == <<phase, state, done, undone, results, inputs, completed, toUndo,
          reported, failedUndo, error, ended>>

Ended == {"ok", "failed", "raised", "cancelled"}

CompositionInit ==
  /\ phase = "layers"
  /\ state = [s \in Sagas |-> "waiting"]
  /\ done = {}
  /\ undone = [s \in Sagas |-> 0]
  /\ results = {} /\ completed = {} /\ toUndo = {} /\ reported = {}
  /\ inputs = [s \in Sagas |-> {}]
  /\ failedUndo = {}
  /\ error = FALSE
  /\ ended = [s \in Sagas |-> {}]

Running == {s \in Sagas : state[s] = "running"}
Waiting == {s \in Sagas : state[s] = "waiting"}

(* The sagas that have run and whose results have not been read. *)
Unread == {s \in Sagas : state[s] \in Ended /\ s \notin results}

(* Fault: everything that is left starts at once. *)
NextLayerAll == Waiting

(* The next layer of compute_layers: all dependencies are in earlier ones. *)
NextLayer == {s \in Waiting : DependsOn[s] \cap Waiting = {}}

(* gather starts _execute_saga for each saga of the layer, which makes its *)
(* input from the results that are there and passes over the missing ones. *)
StartLayer ==
  /\ phase = "layers" /\ Running = {} /\ Unread = {} /\ Waiting # {}
  /\ state' = [s \in Sagas |-> IF s \in NextLayer THEN "running" ELSE state[s]]
  /\ inputs' = [s \in Sagas |->
                  IF s \in NextLayer THEN FlowsFrom[s] \cap results ELSE inputs[s]]
  /\ UNCHANGED <<phase, done, undone, results, completed, toUndo, reported,
                 failedUndo, error, ended>>

Ends(s, how) ==
  /\ phase = "layers"
  /\ state[s] = "running"
  /\ state' = [state EXCEPT ![s] = how]
  /\ UNCHANGED <<phase, results, inputs, completed, toUndo, reported,
                 failedUndo, error>>

Succeeds(s) ==
  /\ Ends(s, "ok")
  /\ done' = done \cup {s}
  /\ ended' = [ended EXCEPT ![s] = {t \in Sagas : state[t] = "ok"}]
  /\ UNCHANGED undone

(* The result says success is False; the saga has compensated the steps    *)
(* that were done.                                                         *)
Fails(s) ==
  /\ Ends(s, "failed")
  /\ \/ UNCHANGED <<done, undone>>
     \/ done' = done \cup {s} /\ undone' = [undone EXCEPT ![s] = 1]
  /\ UNCHANGED ended

(* execute raises: an event or persistence port did, before the first step *)
(* or after the outcome was settled.                                       *)
Raises(s) ==
  /\ Ends(s, "raised")
  /\ \/ UNCHANGED <<done, undone>>
     \/ done' = done \cup {s} /\ undone' \in {undone, [undone EXCEPT ![s] = 1]}
  /\ UNCHANGED ended

Layer  == Unread
Culprits == {s \in Layer : state[s] # "ok"}
First(S) == CHOOSE s \in S : \A t \in S : s <= t

(* Every result of the layer is read, and none stands for a failure. *)
LayerSucceeds ==
  /\ phase = "layers" /\ Running = {} /\ Layer # {} /\ Culprits = {}
  /\ results' = results \cup Layer
  /\ completed' = completed \cup Layer
  /\ UNCHANGED <<phase, state, done, undone, inputs, toUndo, reported,
                 failedUndo, error, ended>>

(* The results are read up to the first failure.  A saga that failed is    *)
(* recorded like one that succeeded; one that raised is not.               *)
Read ==
  LET c == First(Culprits)
  IN  {s \in Layer : s < c} \cup {s \in {c} : state[s] = "failed"}

(* Fault: only the layers before the failure are undone. *)
LayerFailsStale ==
  /\ phase = "layers" /\ Running = {} /\ Culprits # {}
  /\ results' = results \cup Read
  /\ completed' = completed \cup Read
  /\ toUndo' = completed
  /\ error' = TRUE
  /\ phase' = "undo"
  /\ UNCHANGED <<state, done, undone, inputs, reported, failedUndo, ended>>

LayerFails ==
  /\ phase = "layers" /\ Running = {} /\ Culprits # {}
  /\ results' = results \cup Read
  /\ completed' = completed \cup Read
  /\ toUndo' = completed \cup Read
  /\ error' = TRUE
  /\ phase' = "undo"
  /\ UNCHANGED <<state, done, undone, inputs, reported, failedUndo, ended>>

(* Fault: the order of completion is not reversed. *)
LastForward == First(toUndo)

(* compensate_completed takes the last saga that is left.  Under           *)
(* GROUPED_PARALLEL the compensator walks the topology layers it is given, *)
(* and it is given none.                                                   *)
Last == CHOOSE s \in toUndo : \A t \in toUndo : t <= s

UndoNothing ==
  /\ phase = "undo" /\ toUndo # {}
  /\ Last \notin done \/ Policy = "GROUPED_PARALLEL"
  /\ reported' = reported \cup {Last}
  /\ toUndo' = toUndo \ {Last}
  /\ UNCHANGED <<phase, state, done, undone, results, inputs, completed,
                 failedUndo, error, ended>>

Undo ==
  /\ phase = "undo" /\ toUndo # {}
  /\ Last \in done /\ Policy # "GROUPED_PARALLEL"
  /\ undone' = [undone EXCEPT ![Last] = @ + 1]
  /\ failedUndo' \in {failedUndo, failedUndo \cup {Last}}
  /\ reported' = reported \cup {Last}
  /\ toUndo' = toUndo \ {Last}
  /\ UNCHANGED <<phase, state, done, results, inputs, completed, error, ended>>

Return ==
  /\ \/ phase = "layers" /\ Running = {} /\ Unread = {} /\ Waiting = {}
     \/ phase = "undo" /\ toUndo = {}
  /\ phase' = "returned"
  /\ UNCHANGED <<state, done, undone, results, inputs, completed, toUndo,
                 reported, failedUndo, error, ended>>

(* CancelledError: gather cancels the layer's sagas, which leave their     *)
(* steps as they are, and the except clause does not catch it.             *)
CallerCancel ==
  /\ Cancellable
  /\ phase = "layers" /\ Running # {}
  /\ phase' = "cancelled"
  /\ state' = [s \in Sagas |-> IF s \in Running THEN "cancelled" ELSE state[s]]
  /\ \E S \in SUBSET Running : done' = done \cup S
  /\ UNCHANGED <<undone, results, inputs, completed, toUndo, reported,
                 failedUndo, error, ended>>

(* Cancelled in the middle of a compensation, the only thing the loop      *)
(* awaits: it may have been effective, and the sagas before it are left.   *)
CancelUndo ==
  /\ Cancellable
  /\ phase = "undo" /\ toUndo # {}
  /\ Last \in done /\ Policy # "GROUPED_PARALLEL"
  /\ phase' = "cancelled"
  /\ undone' \in {undone, [undone EXCEPT ![Last] = @ + 1]}
  /\ UNCHANGED <<state, done, results, inputs, completed, toUndo, reported,
                 failedUndo, error, ended>>

CompositionNext ==
  \/ StartLayer \/ LayerSucceeds \/ LayerFails \/ UndoNothing \/ Undo
  \/ Return \/ CallerCancel \/ CancelUndo
  \/ \E s \in Sagas : Succeeds(s) \/ Fails(s) \/ Raises(s)

CompositionSpec == CompositionInit /\ [][CompositionNext]_compositionVars

(* Every saga ends, and the event loop resumes execute. *)
CompositionFairSpec == CompositionSpec /\ WF_compositionVars(CompositionNext)

-----------------------------------------------------------------------------
(* Types of the composition context and of the sagas' histories. *)
CompositionTypeOK ==
  /\ phase \in {"layers", "undo", "returned", "cancelled"}
  /\ state \in [Sagas -> Ended \cup {"waiting", "running"}]
  /\ undone \in [Sagas -> 0..2]
  /\ inputs \in [Sagas -> SUBSET Sagas]
  /\ ended \in [Sagas -> SUBSET Sagas]
  /\ \A S \in {done, results, completed, toUndo, reported, failedUndo} :
       S \subseteq Sagas
  /\ error \in BOOLEAN

(* A saga that declares a flow from an entry it depends on gets the value: *)
(* resolve_input has no missing source to pass over.                       *)
FlowsArrive ==
  \A s \in Sagas : state[s] # "waiting" =>
    FlowsFrom[s] \cap DependsOn[s] \subseteq inputs[s]

(* A saga is undone only when everything recorded that was built on it has *)
(* been undone, or its compensation tried and failed.                      *)
DependentsFirst ==
  [][ \A s \in Sagas : undone'[s] > undone[s] /\ phase = "undo" =>
        \A t \in completed \cap done :
          s \in DependsOn[t] => undone[t] > 0 \/ t \in failedUndo ]_compositionVars

(* After a failure, execute returns when every success it recorded has     *)
(* been undone; without one, when every saga stands.                       *)
RecordedAreUndone ==
  phase = "returned" =>
    IF error THEN \A s \in completed : s \in done => undone[s] > 0
             ELSE \A s \in Sagas : state[s] = "ok" /\ undone[s] = 0

(* execute returns or is cancelled. *)
Settles == <>(phase \in {"returned", "cancelled"})

(* "On failure completed sagas are compensated": those that succeeded.     *)
SuccessesAreUndone ==
  phase = "returned" /\ error =>
    \A s \in Sagas : state[s] = "ok" => undone[s] > 0

(* "Compensates successfully completed sagas": nothing is undone twice. *)
UndoneOnce == \A s \in Sagas : undone[s] <= 1

(* "Names of sagas that were compensated after a failure." *)
ReportedIsUndone == \A s \in reported \cap done : undone[s] > 0

(* "The most recently completed saga is compensated first." *)
ReverseCompletionOrder ==
  [][ \A s \in Sagas : undone'[s] > undone[s] /\ phase = "undo" =>
        \A t \in completed : s \in ended[t] => undone[t] > 0 ]_compositionVars
=============================================================================
