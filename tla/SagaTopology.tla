---------------------------- MODULE SagaTopology ----------------------------
(***************************************************************************)
(* Turning the depends_on lists of a saga into execution layers, and       *)
(* validating them at registration time.  Two versions of Kahn's algorithm *)
(* live in the repository and are run here side by side on the same input: *)
(*                                                                         *)
(*   - SagaTopology.compute_layers, which the orchestrator and the         *)
(*     compositor call at execution time (layer by layer);                 *)
(*   - SagaRegistry._validate_dag (and its twin in SagaBuilder), which     *)
(*     accepts or rejects a definition when it is registered.              *)
(*                                                                         *)
(* A depends_on list is a list: it may name a step twice, and nothing but  *)
(* the validator stops it from naming an id that is not a step.  Ids are   *)
(* sorted before use, so a layer is modelled as a set.                     *)
(***************************************************************************)
EXTENDS Integers, Sequences, FiniteSets

CONSTANTS Steps,     \* the keys of definition.steps
          Ids,       \* everything a depends_on list may name
          MaxDeps    \* bound: the length of a depends_on list

ASSUME TopologyAssumption == /\ IsFiniteSet(Steps)
                             /\ Steps \subseteq Ids
                             /\ MaxDeps \in Nat

VARIABLES deps,      \* step -> its depends_on list
          inDegree,  \* compute_layers: in_degree
          queue,     \* compute_layers: the nodes of the next layer
          layers,    \* compute_layers: the layers emitted so far
          outcome,   \* compute_layers: "running", "ok" or "cycle"
          vDegree,   \* _validate_dag: in_degree
          vQueue,    \* _validate_dag: the queue of ready steps
          vSeen,     \* _validate_dag: the steps popped (processed counts them)
          verdict    \* _validate_dag: "running", "ok", "missing" or "cycle"

kahnVars == <<inDegree, queue, layers, outcome>>
dagVars  == <<vDegree, vQueue, vSeen, verdict>>
vars     == <<deps, kahnVars, dagVars>>

DepLists == UNION { [1..n -> Ids] : n \in 0..MaxDeps }

\* The positions of n's list that name a member of S: each is one edge.
EdgesFrom(n, S) == {i \in DOMAIN deps[n] : deps[n][i] \in S}

\* The steps that compute_layers has placed in a layer (processed counts them).
Placed == UNION {layers[i] : i \in DOMAIN layers}

\* The distinct ids that n's list names.
DepIds(n) == {deps[n][i] : i \in DOMAIN deps[n]}
-----------------------------------------------------------------------------
Init ==
    /\ deps \in [Steps -> DepLists]
    /\ inDegree = [n \in Steps |-> Len(deps[n])]
    /\ queue = {n \in Steps : inDegree[n] = 0}
    /\ layers = <<>>
    /\ outcome = "running"
    /\ vDegree = [n \in Steps |-> Len(deps[n])]
    /\ vQueue = {n \in Steps : vDegree[n] = 0}
    /\ vSeen = {}
    /\ verdict = "running"

\* Mutant: a neighbour is queued as soon as one of its dependencies is placed.
EmitLayerEager ==
    /\ outcome = "running"
    /\ queue # {}
    /\ layers' = Append(layers, queue)
    /\ inDegree' = [n \in Steps |-> inDegree[n] - Cardinality(EdgesFrom(n, queue))]
    /\ queue' = {n \in Steps : inDegree'[n] < inDegree[n]} \ Placed
    /\ UNCHANGED <<deps, outcome, dagVars>>

\* One turn of the while loop of compute_layers: emit the queue as a layer and
\* decrement every neighbour once per edge.
EmitLayer ==
    /\ outcome = "running"
    /\ queue # {}
    /\ layers' = Append(layers, queue)
    /\ inDegree' = [n \in Steps |-> inDegree[n] - Cardinality(EdgesFrom(n, queue))]
    /\ queue' = {n \in Steps : inDegree'[n] = 0 /\ inDegree[n] # 0}
    /\ UNCHANGED <<deps, outcome, dagVars>>

\* Mutant: the layers are counted in place of the processed steps.
FinishLayersByCount ==
    /\ outcome = "running"
    /\ queue = {}
    /\ outcome' = IF Len(layers) = Cardinality(Steps) THEN "ok" ELSE "cycle"
    /\ UNCHANGED <<deps, inDegree, queue, layers, dagVars>>

\* The loop is over: the layers are returned, or the count of processed steps
\* is short and ValueError is raised.
FinishLayers ==
    /\ outcome = "running"
    /\ queue = {}
    /\ outcome' = IF Cardinality(Placed) = Cardinality(Steps) THEN "ok" ELSE "cycle"
    /\ UNCHANGED <<deps, inDegree, queue, layers, dagVars>>

\* The first check of _validate_dag: a depends_on entry that is no step.
RejectMissing ==
    /\ verdict = "running"
    /\ \E n \in Steps : EdgesFrom(n, Ids \ Steps) # {}
    /\ verdict' = "missing"
    /\ UNCHANGED <<deps, kahnVars, vDegree, vQueue, vSeen>>

\* Mutant: only the first entry of a list is looked at.
ValidatePopFirstOnly(c) ==
    /\ verdict = "running"
    /\ \A n \in Steps : EdgesFrom(n, Ids \ Steps) = {}
    /\ c \in vQueue
    /\ vSeen' = vSeen \cup {c}
    /\ vDegree' = [n \in Steps |-> IF deps[n] # <<>> /\ c = deps[n][1]
                                  THEN vDegree[n] - 1 ELSE vDegree[n]]
    /\ vQueue' = (vQueue \ {c}) \cup {n \in Steps : vDegree'[n] = 0 /\ vDegree[n] # 0}
    /\ UNCHANGED <<deps, kahnVars, verdict>>

\* One turn of the while loop of _validate_dag: pop a ready step and decrement,
\* once, every step whose list contains it.  The order of the pops (dict and
\* deque order) is left open.
ValidatePop(c) ==
    /\ verdict = "running"
    /\ \A n \in Steps : EdgesFrom(n, Ids \ Steps) = {}
    /\ c \in vQueue
    /\ vSeen' = vSeen \cup {c}
    /\ vDegree' = [n \in Steps |-> IF c \in DepIds(n) THEN vDegree[n] - 1 ELSE vDegree[n]]
    /\ vQueue' = (vQueue \ {c}) \cup {n \in Steps : vDegree'[n] = 0 /\ vDegree[n] # 0}
    /\ UNCHANGED <<deps, kahnVars, verdict>>

\* The queue is empty: the definition is registered or SagaValidationError is
\* raised.
ValidateEnd ==
    /\ verdict = "running"
    /\ \A n \in Steps : EdgesFrom(n, Ids \ Steps) = {}
    /\ vQueue = {}
    /\ verdict' = IF Cardinality(vSeen) = Cardinality(Steps) THEN "ok" ELSE "cycle"
    /\ UNCHANGED <<deps, kahnVars, vDegree, vQueue, vSeen>>

Next == \/ EmitLayer
        \/ FinishLayers
        \/ RejectMissing
        \/ \E c \in Steps : ValidatePop(c)
        \/ ValidateEnd

Spec == Init /\ [][Next]_vars

FairSpec == Spec /\ WF_vars(EmitLayer \/ FinishLayers)
                 /\ WF_vars(RejectMissing \/ ValidateEnd \/ \E c \in Steps : ValidatePop(c))
-----------------------------------------------------------------------------
\* Type correctness of both runs of Kahn's algorithm.  In-degrees never go
\* below zero: each edge is counted up once and down at most once.
TypeOK ==
    /\ deps \in [Steps -> DepLists]
    /\ inDegree \in [Steps -> 0..MaxDeps]
    /\ queue \subseteq Steps
    /\ layers \in Seq(SUBSET Steps)
    /\ outcome \in {"running", "ok", "cycle"}
    /\ vDegree \in [Steps -> 0..MaxDeps]
    /\ vQueue \subseteq Steps
    /\ vSeen \subseteq Steps
    /\ verdict \in {"running", "ok", "missing", "cycle"}

\* "Each layer [holds the] step IDs whose dependencies are satisfied by all
\* preceding layers": whatever the lists are, and even on the way to a cycle
\* error, compute_layers never places a step before everything it names, and
\* never places a step twice.
LayersSound ==
    \A i \in DOMAIN layers : \A n \in layers[i] :
        /\ \A d \in DepIds(n) : \E j \in 1..(i - 1) : d \in layers[j]
        /\ \A j \in DOMAIN layers : n \in layers[j] => j = i

\* Independent definition of a well-formed graph: every dependency is a step
\* and every non-empty set of steps has a member that depends on none of it.
WellFormed ==
    /\ \A n \in Steps : DepIds(n) \subseteq Steps
    /\ \A S \in SUBSET Steps : S # {} => \E n \in S : DepIds(n) \cap S = {}

\* compute_layers orders every definition that registration accepted: execute
\* never meets the ValueError of the topology, and leaves no step out.  The two
\* algorithms count differently, one per list entry and one per distinct id.
AcceptedIsExecutable ==
    (verdict = "ok" /\ outcome # "running") => outcome = "ok" /\ Placed = Steps

\* For lists without duplicates a "cycle" verdict is a real cycle.
CycleIsReal ==
    (verdict = "cycle" /\ \A n \in Steps : Cardinality(DepIds(n)) = Len(deps[n]))
        => ~WellFormed

\* What _validate_dag's docstring promises without that restriction: an
\* acyclic graph over existing steps is never reported as a cycle.
AcyclicIsAccepted == (verdict = "cycle") => ~WellFormed

\* Both loops end for every input, cyclic ones included.
Terminates == <>(outcome # "running" /\ verdict # "running")
=============================================================================
