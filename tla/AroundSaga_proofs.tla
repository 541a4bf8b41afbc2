-------------------------- MODULE AroundSaga_proofs --------------------------
(***************************************************************************)
(* Proofs about the parts around the saga engine, which share no state:    *)
(* SagaTopology, for every finite set of steps and every choice of         *)
(* depends_on lists; SagaComposition, for every set of sagas, dependencies *)
(* and data flows; SagaRecovery, for any number of runs and of sweepers,   *)
(* any thresholds and any number of restarts.                              *)
(***************************************************************************)
EXTENDS SagaTopology, SagaComposition, SagaRecovery, FiniteSetTheorems, WellFoundedInduction, TLAPS

-----------------------------------------------------------------------------
(* SagaTopology: the layers of a saga's steps.                             *)

\* The positions of a depends_on list are finite and counted by its length,
\* and it names at most that many ids.
LEMMA ListFacts ==
    ASSUME deps \in [Steps -> DepLists], NEW n \in Steps, NEW S
    PROVE  /\ Len(deps[n]) \in 0..MaxDeps
           /\ DOMAIN deps[n] = 1..Len(deps[n])
           /\ IsFiniteSet(DOMAIN deps[n])
           /\ Cardinality(DOMAIN deps[n]) = Len(deps[n])
           /\ EdgesFrom(n, S) \in SUBSET DOMAIN deps[n]
           /\ IsFiniteSet(EdgesFrom(n, S))
           /\ Cardinality(EdgesFrom(n, S)) \in Nat
           /\ Cardinality(EdgesFrom(n, S)) <= Len(deps[n])
           /\ IsFiniteSet(DepIds(n))
           /\ Cardinality(DepIds(n)) \in Nat
           /\ Cardinality(DepIds(n)) <= Len(deps[n])
<1>1. PICK k \in 0..MaxDeps : deps[n] \in [1..k -> Ids]
  BY TopologyAssumption DEF DepLists
<1>2. k \in Nat /\ Len(deps[n]) = k /\ DOMAIN deps[n] = 1..k /\ k <= MaxDeps
  BY <1>1, TopologyAssumption
<1>3. IsFiniteSet(1..k) /\ Cardinality(1..k) = k
  BY <1>2, FS_Interval
<1>4. EdgesFrom(n, S) \in SUBSET (1..k)
  BY <1>2 DEF EdgesFrom
<1>5. /\ IsFiniteSet(EdgesFrom(n, S))
      /\ Cardinality(EdgesFrom(n, S)) \in Nat
      /\ Cardinality(EdgesFrom(n, S)) <= k
  BY <1>3, <1>4, FS_Subset, FS_CardinalityType
<1>6. deps[n] \in Surjection(1..k, DepIds(n))
  BY <1>1, <1>2 DEF Surjection, DepIds
<1>7. IsFiniteSet(DepIds(n)) /\ Cardinality(DepIds(n)) <= k
  BY <1>3, <1>6, FS_Surjection
<1>8. Cardinality(DepIds(n)) \in Nat
  BY <1>7, FS_CardinalityType
<1> QED
  BY <1>2, <1>3, <1>4, <1>5, <1>7, <1>8, TopologyAssumption

\* Edges into disjoint sets are counted separately.
LEMMA EdgesAdd ==
    ASSUME deps \in [Steps -> DepLists], NEW n \in Steps, NEW A, NEW B, A \cap B = {}
    PROVE  Cardinality(EdgesFrom(n, A \cup B))
             = Cardinality(EdgesFrom(n, A)) + Cardinality(EdgesFrom(n, B))
<1>1. EdgesFrom(n, A \cup B) = EdgesFrom(n, A) \cup EdgesFrom(n, B)
  BY DEF EdgesFrom
<1>2. EdgesFrom(n, A) \cap EdgesFrom(n, B) = {}
  BY DEF EdgesFrom
<1>3. /\ IsFiniteSet(EdgesFrom(n, A)) /\ IsFiniteSet(EdgesFrom(n, B))
      /\ Cardinality(EdgesFrom(n, A)) \in Nat /\ Cardinality(EdgesFrom(n, B)) \in Nat
  BY ListFacts
<1> DEFINE a == Cardinality(EdgesFrom(n, A))
           b == Cardinality(EdgesFrom(n, B))
           c == Cardinality(EdgesFrom(n, A) \cap EdgesFrom(n, B))
           u == Cardinality(EdgesFrom(n, A) \cup EdgesFrom(n, B))
<1>4. c = 0
  BY <1>2, FS_EmptySet
<1>5. u = a + b - c
  BY <1>3, FS_Union
<1>6. Cardinality(EdgesFrom(n, A \cup B)) = u
  BY <1>1
<1>7. a \in Nat /\ b \in Nat
  BY <1>3
<1> HIDE DEF a, b, c, u
<1>8. u = a + b
  BY <1>4, <1>5, <1>7
<1> QED
  BY <1>6, <1>8 DEF a, b

\* A step all of whose entries point into S depends on S alone.
LEMMA EdgesFull ==
    ASSUME deps \in [Steps -> DepLists], NEW n \in Steps, NEW S
    PROVE  Cardinality(EdgesFrom(n, S)) = Len(deps[n]) <=> DepIds(n) \subseteq S
<1>1. Cardinality(EdgesFrom(n, S)) = Len(deps[n]) <=> EdgesFrom(n, S) = DOMAIN deps[n]
  BY ListFacts, FS_Subset
<1>2. EdgesFrom(n, S) = DOMAIN deps[n] <=> DepIds(n) \subseteq S
  BY DEF EdgesFrom, DepIds
<1> QED
  BY <1>1, <1>2
-----------------------------------------------------------------------------
\* compute_layers: in_degree counts the edges that do not yet point into an
\* emitted layer, and the queue holds exactly the steps that may be placed.
KahnInv ==
    /\ deps \in [Steps -> DepLists]
    /\ layers \in Seq(SUBSET Steps)
    /\ inDegree = [n \in Steps |-> Len(deps[n]) - Cardinality(EdgesFrom(n, Placed))]
    /\ queue = {n \in Steps : inDegree[n] = 0} \ Placed
    /\ outcome \in {"running", "ok", "cycle"}
    /\ outcome = "ok" => Placed = Steps
    /\ outcome = "cycle" => queue = {} /\ Placed # Steps
    /\ LayersSound

\* The number of distinct dependencies of n that _validate_dag has popped.
SeenDeps(n) == Cardinality(DepIds(n) \cap vSeen)

\* _validate_dag: in_degree counts list entries minus distinct popped ids, and
\* the popped steps form an acyclic graph that is closed under depends_on.
DagInv ==
    /\ deps \in [Steps -> DepLists]
    /\ vSeen \subseteq Steps
    /\ vDegree = [n \in Steps |-> Len(deps[n]) - SeenDeps(n)]
    /\ vQueue = {n \in Steps : vDegree[n] = 0} \ vSeen
    /\ \A n \in vSeen : vDegree[n] = 0 /\ DepIds(n) \subseteq vSeen
    /\ \A S \in SUBSET vSeen : S # {} => \E n \in S : DepIds(n) \cap S = {}
    /\ verdict \in {"running", "ok", "missing", "cycle"}
    /\ verdict = "ok" => vSeen = Steps

IInv == KahnInv /\ DagInv

\* A placed step depends on placed steps only, so its in-degree is zero.
LEMMA PlacedFacts ==
    ASSUME KahnInv
    PROVE  /\ Placed \subseteq Steps
           /\ \A n \in Placed : DepIds(n) \subseteq Placed /\ inDegree[n] = 0
           /\ \A n \in queue : DepIds(n) \subseteq Placed /\ n \notin Placed
<1> USE DEF KahnInv
<1>1. Placed \subseteq Steps
  <2> SUFFICES ASSUME NEW i \in DOMAIN layers PROVE layers[i] \subseteq Steps
    BY DEF Placed
  <2> QED
    BY i \in 1..Len(layers)
<1>2. ASSUME NEW n \in Placed PROVE DepIds(n) \subseteq Placed
  <2>1. PICK i \in DOMAIN layers : n \in layers[i]
    BY DEF Placed
  <2>2. \A d \in DepIds(n) : \E j \in 1..(i - 1) : d \in layers[j]
    BY <2>1 DEF LayersSound
  <2>3. 1..(i - 1) \subseteq DOMAIN layers
    BY DOMAIN layers = 1..Len(layers), Len(layers) \in Nat
  <2> QED
    BY <2>2, <2>3 DEF Placed
<1>3. ASSUME NEW n \in Placed PROVE inDegree[n] = 0
  BY <1>1, <1>2, <1>3, EdgesFull, ListFacts
<1>4. ASSUME NEW n \in queue PROVE DepIds(n) \subseteq Placed /\ n \notin Placed
  <2>1. n \in Steps /\ inDegree[n] = 0 /\ n \notin Placed
    BY <1>4
  <2>2. Cardinality(EdgesFrom(n, Placed)) = Len(deps[n])
    BY <2>1, ListFacts
  <2> QED
    BY <2>1, <2>2, EdgesFull
<1> QED
  BY <1>1, <1>2, <1>3, <1>4

LEMMA InitInv == Init => IInv
<1> SUFFICES ASSUME Init PROVE IInv
  OBVIOUS
<1> USE DEF Init
<1>1. Placed = {}
  BY DEF Placed
<1>2. \A n \in Steps : Cardinality(EdgesFrom(n, {})) = 0
  BY FS_EmptySet DEF EdgesFrom
<1>3. \A n \in Steps : Cardinality(DepIds(n) \cap {}) = 0
  <2>1. \A n \in Steps : DepIds(n) \cap {} = {}
    OBVIOUS
  <2> QED
    BY <2>1, FS_EmptySet
<1>4. \A n \in Steps : Len(deps[n]) \in Nat
  BY ListFacts
<1>5. KahnInv
  <2>1. inDegree = [n \in Steps |-> Len(deps[n]) - Cardinality(EdgesFrom(n, Placed))]
    BY <1>1, <1>2, <1>4
  <2>2. LayersSound
    BY DEF LayersSound
  <2> QED
    BY <1>1, <2>1, <2>2 DEF KahnInv
<1>6. DagInv
  <2>1. vDegree = [n \in Steps |-> Len(deps[n]) - SeenDeps(n)]
    BY <1>3, <1>4 DEF SeenDeps
  <2> QED
    BY <2>1 DEF DagInv
<1> QED
  BY <1>5, <1>6 DEF IInv

LEMMA EmitLayerInv == IInv /\ EmitLayer => IInv'
<1> SUFFICES ASSUME IInv, EmitLayer PROVE IInv'
  OBVIOUS
<1> USE DEF IInv
<1>1. /\ deps' = deps /\ outcome' = outcome /\ layers' = Append(layers, queue)
      /\ inDegree' = [n \in Steps |-> inDegree[n] - Cardinality(EdgesFrom(n, queue))]
      /\ queue' = {n \in Steps : inDegree'[n] = 0 /\ inDegree[n] # 0}
  BY DEF EmitLayer
<1>2. KahnInv /\ queue \subseteq Steps /\ layers \in Seq(SUBSET Steps)
  BY DEF KahnInv
<1>3. /\ layers' \in Seq(SUBSET Steps)
      /\ Len(layers') = Len(layers) + 1 /\ Len(layers) \in Nat
      /\ DOMAIN layers = 1..Len(layers) /\ DOMAIN layers' = 1..(Len(layers) + 1)
      /\ \A i \in 1..Len(layers) : layers'[i] = layers[i]
      /\ layers'[Len(layers) + 1] = queue
  BY <1>1, <1>2
<1>4. Placed' = Placed \cup queue
  BY <1>3 DEF Placed
<1>5. /\ Placed \subseteq Steps
      /\ \A n \in Placed : DepIds(n) \subseteq Placed /\ inDegree[n] = 0
      /\ \A n \in queue : DepIds(n) \subseteq Placed /\ n \notin Placed
  BY <1>2, PlacedFacts
<1>6. \A n : DepIds(n)' = DepIds(n)
  BY <1>1 DEF DepIds
<1>7. inDegree' = [n \in Steps |-> Len(deps'[n]) - Cardinality(EdgesFrom(n, Placed)')]
  <2> SUFFICES ASSUME NEW n \in Steps
               PROVE  inDegree[n] - Cardinality(EdgesFrom(n, queue))
                        = Len(deps'[n]) - Cardinality(EdgesFrom(n, Placed)')
    BY <1>1
  <2>1. EdgesFrom(n, Placed)' = EdgesFrom(n, Placed \cup queue)
    BY <1>1, <1>4 DEF EdgesFrom
  <2>2. Cardinality(EdgesFrom(n, Placed \cup queue))
          = Cardinality(EdgesFrom(n, Placed)) + Cardinality(EdgesFrom(n, queue))
    <3>1. Placed \cap queue = {} /\ deps \in [Steps -> DepLists]
      BY DEF KahnInv
    <3> QED
      BY <3>1, EdgesAdd
  <2>3. /\ Cardinality(EdgesFrom(n, Placed)) \in Nat
        /\ Cardinality(EdgesFrom(n, queue)) \in Nat
        /\ Len(deps[n]) \in Nat
    BY ListFacts DEF KahnInv
  <2> QED
    BY <1>1, <2>1, <2>2, <2>3 DEF KahnInv
<1>8. queue' = {n \in Steps : inDegree'[n] = 0} \ Placed'
  <2>1. ASSUME NEW n \in Steps, inDegree'[n] = 0, inDegree[n] = 0 PROVE n \in Placed'
    BY <2>1, <1>4 DEF KahnInv
  <2>2. ASSUME NEW n \in Steps, inDegree[n] # 0 PROVE n \notin Placed'
    BY <2>2, <1>4, <1>5 DEF KahnInv
  <2> QED
    BY <1>1, <2>1, <2>2
<1>9. LayersSound'
  <2> SUFFICES ASSUME NEW i \in 1..(Len(layers) + 1), NEW n \in layers'[i]
               PROVE  /\ \A d \in DepIds(n) : \E j \in 1..(i - 1) : d \in layers'[j]
                      /\ \A j \in 1..(Len(layers) + 1) : n \in layers'[j] => j = i
    BY <1>3, <1>6 DEF LayersSound
  <2>0. LayersSound
    BY DEF KahnInv
  <2>1. CASE i \in 1..Len(layers)
    <3>1. n \in layers[i] /\ n \in Placed
      BY <2>1, <1>3 DEF Placed
    <3>2. /\ \A d \in DepIds(n) : \E j \in 1..(i - 1) : d \in layers[j]
          /\ \A j \in DOMAIN layers : n \in layers[j] => j = i
      BY <2>0, <2>1, <3>1, <1>3 DEF LayersSound
    <3>3. n \notin layers'[Len(layers) + 1]
      BY <3>1, <1>3, <1>5
    <3> QED
      BY <2>1, <3>2, <3>3, <1>3
  <2>2. CASE i = Len(layers) + 1
    <3>1. n \in queue /\ n \notin Placed /\ DepIds(n) \subseteq Placed
      BY <2>2, <1>3, <1>5
    <3>2. \A j \in 1..Len(layers) : n \notin layers'[j]
      BY <3>1, <1>3 DEF Placed
    <3>3. \A d \in DepIds(n) : \E j \in 1..Len(layers) : d \in layers'[j]
      BY <3>1, <1>3 DEF Placed
    <3> QED
      BY <2>2, <3>2, <3>3, <1>3
  <2> QED
    BY <2>1, <2>2, <1>3
<1>10. KahnInv'
  <2>1. outcome' = "running"
    BY <1>1 DEF EmitLayer
  <2> QED
    BY <1>1, <1>2, <1>3, <1>7, <1>8, <1>9, <2>1 DEF KahnInv
<1>11. DagInv'
  BY <1>1, <1>6 DEF DagInv, SeenDeps, EmitLayer, dagVars
<1> QED
  BY <1>10, <1>11

\* The popped dependencies are finite, at most as many as the list has entries,
\* and all of the dependencies if as many.
LEMMA SeenDepsFacts ==
    ASSUME deps \in [Steps -> DepLists], NEW n \in Steps
    PROVE  /\ Len(deps[n]) \in 0..MaxDeps
           /\ IsFiniteSet(DepIds(n) \cap vSeen)
           /\ SeenDeps(n) \in Nat
           /\ SeenDeps(n) <= Len(deps[n])
           /\ SeenDeps(n) = Len(deps[n]) => DepIds(n) \subseteq vSeen
<1> DEFINE D == DepIds(n) \cap vSeen
           k == Cardinality(DepIds(n))
<1>1. Len(deps[n]) \in 0..MaxDeps /\ IsFiniteSet(DepIds(n)) /\ k \in Nat /\ k <= Len(deps[n])
  BY ListFacts
<1>2. D \in SUBSET DepIds(n) /\ SeenDeps(n) = Cardinality(D)
  BY DEF SeenDeps
<1>3. IsFiniteSet(D) /\ Cardinality(D) <= k /\ (k = Cardinality(D) => DepIds(n) = D)
  BY <1>1, <1>2, FS_Subset
<1>4. Cardinality(D) \in Nat
  BY <1>3, FS_CardinalityType
<1>5. DepIds(n) = D => DepIds(n) \subseteq vSeen
  OBVIOUS
<1> HIDE DEF D, k
<1>6. /\ SeenDeps(n) \in Nat /\ SeenDeps(n) <= Len(deps[n])
      /\ SeenDeps(n) = Len(deps[n]) => DepIds(n) \subseteq vSeen
  BY <1>1, <1>2, <1>3, <1>4, <1>5, TopologyAssumption
<1> QED
  BY <1>1, <1>3, <1>6 DEF D

\* Popping a ready step keeps the popped part closed and acyclic.
LEMMA ValidatePopInv == ASSUME NEW c \in Steps PROVE IInv /\ ValidatePop(c) => IInv'
<1> SUFFICES ASSUME IInv, ValidatePop(c) PROVE IInv'
  OBVIOUS
<1>1. /\ deps' = deps /\ verdict' = verdict /\ verdict = "running" /\ UNCHANGED kahnVars
      /\ c \in vQueue
      /\ vSeen' = vSeen \cup {c}
      /\ vDegree' = [n \in Steps |-> IF c \in DepIds(n) THEN vDegree[n] - 1 ELSE vDegree[n]]
      /\ vQueue' = (vQueue \ {c}) \cup {n \in Steps : vDegree'[n] = 0 /\ vDegree[n] # 0}
  BY DEF ValidatePop
<1>2. DagInv /\ KahnInv
  BY DEF IInv
<1>3. \A n : DepIds(n)' = DepIds(n)
  BY <1>1 DEF DepIds
<1>4. KahnInv'
  <2>1. Placed' = Placed /\ \A n, S : EdgesFrom(n, S)' = EdgesFrom(n, S')
    BY <1>1 DEF kahnVars, Placed, EdgesFrom
  <2>2. LayersSound' <=> LayersSound
    BY <1>1, <1>3 DEF kahnVars, LayersSound
  <2>3. \A n : EdgesFrom(n, Placed)' = EdgesFrom(n, Placed)
    BY <1>1, <2>1 DEF EdgesFrom
  <2> QED
    BY <1>1, <1>2, <2>1, <2>2, <2>3 DEF kahnVars, KahnInv
<1>5. /\ vSeen \subseteq Steps /\ c \in Steps /\ c \notin vSeen /\ vDegree[c] = 0
      /\ deps \in [Steps -> DepLists]
      /\ vDegree = [n \in Steps |-> Len(deps[n]) - SeenDeps(n)]
      /\ vQueue = {n \in Steps : vDegree[n] = 0} \ vSeen
      /\ \A n \in vSeen : vDegree[n] = 0 /\ DepIds(n) \subseteq vSeen
      /\ \A S \in SUBSET vSeen : S # {} => \E n \in S : DepIds(n) \cap S = {}
  BY <1>1, <1>2 DEF DagInv
<1>6. \A n \in Steps : Len(deps[n]) \in Nat /\ SeenDeps(n) \in Nat
  <2> SUFFICES ASSUME NEW n \in Steps PROVE Len(deps[n]) \in Nat /\ SeenDeps(n) \in Nat
    OBVIOUS
  <2>1. Len(deps[n]) \in 0..MaxDeps /\ SeenDeps(n) \in Nat
    BY <1>5, SeenDepsFacts
  <2> QED
    BY <2>1, TopologyAssumption
<1>7. vDegree' = [n \in Steps |-> Len(deps'[n]) - SeenDeps(n)']
  <2>1. ASSUME NEW n \in Steps
        PROVE  SeenDeps(n)' = IF c \in DepIds(n) THEN SeenDeps(n) + 1 ELSE SeenDeps(n)
    <3>1. IsFiniteSet(DepIds(n) \cap vSeen)
      BY <1>5, SeenDepsFacts
    <3>2. SeenDeps(n)' = Cardinality(DepIds(n) \cap (vSeen \cup {c}))
      BY <1>1, <1>3 DEF SeenDeps
    <3>3. CASE c \in DepIds(n)
      <4>1. DepIds(n) \cap (vSeen \cup {c}) = (DepIds(n) \cap vSeen) \cup {c}
        BY <3>3
      <4>2. c \notin DepIds(n) \cap vSeen
        BY <1>5
      <4>3. Cardinality((DepIds(n) \cap vSeen) \cup {c}) = SeenDeps(n) + 1
        BY <3>1, <4>2, FS_AddElement DEF SeenDeps
      <4> QED
        BY <3>2, <3>3, <4>1, <4>3
    <3>4. CASE c \notin DepIds(n)
      <4>1. DepIds(n) \cap (vSeen \cup {c}) = DepIds(n) \cap vSeen
        BY <3>4
      <4>2. Cardinality(DepIds(n) \cap (vSeen \cup {c})) = SeenDeps(n)
        BY <4>1 DEF SeenDeps
      <4> QED
        BY <3>2, <3>4, <4>2
    <3> QED
      BY <3>3, <3>4
  <2> QED
    BY <1>1, <1>5, <1>6, <2>1
<1>8. \A n \in vQueue : DepIds(n) \subseteq vSeen
  <2> SUFFICES ASSUME NEW n \in vQueue PROVE DepIds(n) \subseteq vSeen
    OBVIOUS
  <2>1. n \in Steps /\ SeenDeps(n) = Len(deps[n])
    BY <1>5, <1>6
  <2> QED
    BY <1>5, <2>1, SeenDepsFacts
<1>9. \A n \in vSeen \cup vQueue : c \notin DepIds(n)
  BY <1>5, <1>8
<1>10. \A n \in vSeen \cup {c} : vDegree'[n] = 0 /\ DepIds(n) \subseteq vSeen \cup {c}
  <2> SUFFICES ASSUME NEW n \in vSeen \cup {c}
               PROVE  vDegree'[n] = 0 /\ DepIds(n) \subseteq vSeen \cup {c}
    OBVIOUS
  <2>1. n \in Steps /\ vDegree[n] = 0 /\ c \notin DepIds(n)
    BY <1>1, <1>5, <1>9
  <2>2. vDegree'[n] = 0
    BY <1>1, <2>1
  <2>3. DepIds(n) \subseteq vSeen
    BY <1>1, <1>5, <1>8
  <2> QED
    BY <2>2, <2>3
<1>11. vQueue' = {n \in Steps : vDegree'[n] = 0} \ vSeen'
  <2>2. \A n \in vQueue : vDegree'[n] = 0
    BY <1>1, <1>5, <1>9
  <2>3. \A n \in Steps : vDegree[n] # 0 => n \notin vSeen'
    BY <1>1, <1>5
  <2> QED
    BY <1>1, <1>5, <2>2, <2>3
<1>12. ASSUME NEW S \in SUBSET (vSeen \cup {c}), S # {}
       PROVE  \E n \in S : DepIds(n) \cap S = {}
  <2>1. CASE S \subseteq vSeen
    BY <2>1, <1>5, <1>12
  <2>2. CASE S = {c}
    BY <2>2, <1>1, <1>9
  <2>3. CASE ~(S \subseteq vSeen) /\ S # {c}
    <3>1. S \ {c} \in SUBSET vSeen /\ S \ {c} # {}
      BY <2>3, <1>12
    <3>2. PICK n \in S \ {c} : DepIds(n) \cap (S \ {c}) = {}
      BY <3>1, <1>5
    <3> QED
      BY <3>2, <1>9
  <2> QED
    BY <2>1, <2>2, <2>3
<1>13. DagInv'
  BY <1>1, <1>2, <1>3, <1>5, <1>7, <1>10, <1>11, <1>12 DEF DagInv
<1> QED
  BY <1>4, <1>13 DEF IInv

\* The remaining steps only conclude.
LEMMA ConcludeInv ==
    IInv /\ (FinishLayers \/ RejectMissing \/ ValidateEnd \/ UNCHANGED vars) => IInv'
<1> SUFFICES ASSUME IInv, FinishLayers \/ RejectMissing \/ ValidateEnd \/ UNCHANGED vars
             PROVE  IInv'
  OBVIOUS
<1>1. UNCHANGED <<deps, inDegree, queue, layers, vDegree, vQueue, vSeen>>
  BY DEF FinishLayers, RejectMissing, ValidateEnd, vars, kahnVars, dagVars
<1>2. KahnInv /\ DagInv
  BY DEF IInv
<1>3. Placed' = Placed /\ \A n : DepIds(n)' = DepIds(n)
  BY <1>1 DEF Placed, DepIds
<1>4. \A n : EdgesFrom(n, Placed)' = EdgesFrom(n, Placed)
  BY <1>1, <1>3 DEF EdgesFrom
<1>5. LayersSound' <=> LayersSound
  BY <1>1, <1>3 DEF LayersSound
<1>6. outcome' \in {"running", "ok", "cycle"}
  BY <1>2 DEF KahnInv, FinishLayers, RejectMissing, ValidateEnd, vars, kahnVars
<1>7. KahnInv'
  <2>1. (outcome' = "ok" => Placed = Steps) /\ (outcome' = "cycle" => queue = {} /\ Placed # Steps)
    <3>1. CASE FinishLayers
      <4>1. Placed \in SUBSET Steps
        BY <1>2, PlacedFacts
      <4>2. Cardinality(Placed) = Cardinality(Steps) <=> Placed = Steps
        BY <4>1, FS_Subset, TopologyAssumption
      <4> QED
        BY <3>1, <4>2 DEF FinishLayers
    <3>2. CASE RejectMissing \/ ValidateEnd \/ UNCHANGED vars
      BY <3>2, <1>2 DEF KahnInv, RejectMissing, ValidateEnd, vars, kahnVars
    <3> QED
      BY <3>1, <3>2
  <2> QED
    BY <1>1, <1>2, <1>3, <1>4, <1>5, <1>6, <2>1 DEF KahnInv
<1>8. verdict' \in {"running", "ok", "missing", "cycle"}
  BY <1>2 DEF DagInv, FinishLayers, RejectMissing, ValidateEnd, vars, dagVars
<1>9. verdict' = "ok" => vSeen' = Steps
  <2>1. CASE ValidateEnd
    <3>1. vSeen \in SUBSET Steps /\ vSeen' = vSeen
      BY <1>1, <1>2 DEF DagInv
    <3>2. verdict' = "ok" => Cardinality(vSeen) = Cardinality(Steps)
      BY <2>1 DEF ValidateEnd
    <3>3. Cardinality(Steps) = Cardinality(vSeen) => Steps = vSeen
      BY <3>1, FS_Subset, TopologyAssumption
    <3> QED
      BY <3>1, <3>2, <3>3
  <2>2. CASE FinishLayers \/ RejectMissing \/ UNCHANGED vars
    BY <2>2, <1>1, <1>2 DEF DagInv, FinishLayers, RejectMissing, vars, dagVars
  <2> QED
    BY <2>1, <2>2
<1>10. DagInv'
  BY <1>1, <1>2, <1>3, <1>8, <1>9 DEF DagInv, SeenDeps
<1> QED
  BY <1>7, <1>10 DEF IInv

LEMMA InvImplies == IInv => TypeOK /\ LayersSound /\ AcceptedIsExecutable
<1> SUFFICES ASSUME IInv PROVE TypeOK /\ LayersSound /\ AcceptedIsExecutable
  OBVIOUS
<1>1. KahnInv /\ DagInv
  BY DEF IInv
<1>2. inDegree \in [Steps -> 0..MaxDeps]
  <2> SUFFICES ASSUME NEW n \in Steps
               PROVE  Len(deps[n]) - Cardinality(EdgesFrom(n, Placed)) \in 0..MaxDeps
    BY <1>1 DEF KahnInv
  <2>1. deps \in [Steps -> DepLists]
    BY <1>1 DEF KahnInv
  <2> QED
    BY <2>1, ListFacts, TopologyAssumption
<1>3. vDegree \in [Steps -> 0..MaxDeps]
  <2>1. deps \in [Steps -> DepLists] /\ vDegree = [n \in Steps |-> Len(deps[n]) - SeenDeps(n)]
    BY <1>1 DEF DagInv
  <2> SUFFICES ASSUME NEW n \in Steps PROVE Len(deps[n]) - SeenDeps(n) \in 0..MaxDeps
    BY <2>1
  <2>2. Len(deps[n]) \in 0..MaxDeps /\ SeenDeps(n) \in Nat /\ SeenDeps(n) <= Len(deps[n])
    BY <2>1, SeenDepsFacts
  <2> QED
    BY <2>2, TopologyAssumption
<1>4. TypeOK
  BY <1>1, <1>2, <1>3 DEF TypeOK, KahnInv, DagInv
<1>5. AcceptedIsExecutable
  <2> SUFFICES ASSUME verdict = "ok", outcome = "cycle" PROVE FALSE
    BY <1>1 DEF AcceptedIsExecutable, KahnInv
  <2> DEFINE Left == Steps \ Placed
  <2>1. /\ deps \in [Steps -> DepLists] /\ queue = {} /\ Placed # Steps
        /\ inDegree = [n \in Steps |-> Len(deps[n]) - Cardinality(EdgesFrom(n, Placed))]
        /\ queue = {n \in Steps : inDegree[n] = 0} \ Placed
    BY <1>1 DEF KahnInv
  <2>2. Placed \subseteq Steps
    BY <1>1, PlacedFacts
  <2>3. /\ Left # {} /\ Left \in SUBSET Steps
    BY <2>1, <2>2
  <2>4. PICK n \in Left : DepIds(n) \cap Left = {} /\ DepIds(n) \subseteq Steps
    BY <1>1, <2>3 DEF DagInv
  <2>5. n \in Steps /\ n \notin Placed /\ DepIds(n) \subseteq Placed
    BY <2>4
  <2>6. Cardinality(EdgesFrom(n, Placed)) = Len(deps[n]) /\ Len(deps[n]) \in Nat
    BY <2>1, <2>5, EdgesFull, ListFacts
  <2>7. inDegree[n] = 0
    BY <2>1, <2>5, <2>6
  <2> QED
    BY <2>1, <2>5, <2>7
<1> QED
  BY <1>1, <1>4, <1>5 DEF KahnInv

LEMMA StepInv == IInv /\ [Next]_vars => IInv'
BY EmitLayerInv, ValidatePopInv, ConcludeInv DEF Next

\* Type correctness of both algorithms: in particular no in-degree is ever
\* driven below zero, for any depends_on lists.
THEOREM TypeCorrect == Spec => []TypeOK
BY InitInv, StepInv, InvImplies, PTL DEF Spec

\* compute_layers never places a step before its dependencies, nor twice.
THEOREM LayersAreSound == Spec => []LayersSound
BY InitInv, StepInv, InvImplies, PTL DEF Spec

\* compute_layers places every step of whatever _validate_dag accepts, so that
\* execution never meets a topology error.
THEOREM AcceptedExecutable == Spec => []AcceptedIsExecutable
BY InitInv, StepInv, InvImplies, PTL DEF Spec

-----------------------------------------------------------------------------
(* SagaComposition: the layers of sagas.                                   *)

-----------------------------------------------------------------------------
(* The first and the last saga of a set.                                   *)

\* A set of naturals that is not empty has a least member,
LEMMA NatMin ==
  ASSUME NEW T \in SUBSET Nat, T # {}
  PROVE  \E x \in T : \A y \in T : x <= y
<1>1. PICK x \in T : \A y \in T : ~ (<<y, x>> \in OpToRel(<, Nat))
  BY NatLessThanWellFounded, WFMin
<1>2. \A y \in T : <<y, x>> \in OpToRel(<, Nat) <=> y < x
  BY DEF OpToRel
<1>3. \A y \in T : ~ (y < x)
  BY <1>1, <1>2, Zenon
<1> QED
  BY <1>3

\* and a greatest one if it is finite.
LEMMA NatMax ==
  ASSUME NEW T \in SUBSET Nat, T # {}, IsFiniteSet(T)
  PROVE  \E x \in T : \A y \in T : y <= x
<1> DEFINE Above(x) == {y \in T : y > x}
           Counts == {Cardinality(Above(x)) : x \in T}
<1>1. \A x \in T : IsFiniteSet(Above(x)) /\ Cardinality(Above(x)) \in Nat
  <2>1. \A x \in T : Above(x) \in SUBSET T
    OBVIOUS
  <2> QED
    BY <2>1, FS_Subset, FS_CardinalityType
<1>2. Counts \in SUBSET Nat /\ Counts # {}
  <2>1. PICK x \in T : TRUE
    OBVIOUS
  <2>2. Cardinality(Above(x)) \in Counts
    BY <2>1
  <2>3. \A n \in Counts : n \in Nat
    <3>1. \A n \in Counts : \E y \in T : n = Cardinality(Above(y))
      BY Zenon
    <3> QED
      BY <1>1, <3>1
  <2> QED
    BY <2>2, <2>3
<1>3. PICK n \in Counts : \A m \in Counts : n <= m
  BY <1>2, NatMin
<1>4. PICK x \in T : n = Cardinality(Above(x))
  BY <1>3
<1>5. ASSUME NEW y \in T, y > x
      PROVE  FALSE
  <2>1. Above(y) \in SUBSET Above(x) /\ y \in Above(x) /\ y \notin Above(y)
    <3>1. x \in Nat /\ y \in Nat /\ \A z \in T : z \in Nat
      OBVIOUS
    <3>2. \A z \in T : z > y => z > x
      BY <1>5, <3>1
    <3>3. ~ (y > y)
      BY <3>1
    <3> QED
      BY <1>5, <3>2, <3>3
  <2>2. Cardinality(Above(y)) < Cardinality(Above(x))
    <3>1. /\ Cardinality(Above(y)) <= Cardinality(Above(x))
          /\ Cardinality(Above(x)) = Cardinality(Above(y)) => Above(x) = Above(y)
      BY <1>1, <2>1, FS_Subset
    <3> HIDE DEF Above
    <3> QED
      BY <1>1, <2>1, <3>1
  <2>3. Cardinality(Above(y)) \in Counts
    OBVIOUS
  <2> HIDE DEF Above, Counts
  <2> QED
    BY <1>1, <1>3, <1>4, <2>2, <2>3
<1> QED
  BY <1>5

\* The failure reported is one of the layer's.
LEMMA FirstFacts ==
  ASSUME CompositionTypeOK, Culprits # {}
  PROVE  First(Culprits) \in Layer /\ Read \subseteq Layer
<1>1. Culprits \in SUBSET Nat
  BY SagasAssumption DEF Culprits, Layer, Unread
<1>2. \E s \in Culprits : \A t \in Culprits : s <= t
  BY <1>1, NatMin
<1>3. First(Culprits) \in Culprits
  BY <1>2 DEF First
<1> QED
  BY <1>3 DEF Read, Culprits

\* The saga visited next is still to be visited, and the last such.
LEMMA LastFacts ==
  ASSUME CompositionTypeOK, toUndo # {}
  PROVE  Last \in toUndo /\ \A t \in toUndo : t <= Last
<1>1. toUndo \in SUBSET Nat /\ IsFiniteSet(toUndo)
  BY SagasAssumption, FS_Subset DEF CompositionTypeOK
<1>2. \E s \in toUndo : \A t \in toUndo : t <= s
  BY <1>1, NatMax
<1> QED
  BY <1>2 DEF Last

-----------------------------------------------------------------------------
(* The invariant of a composition.                                         *)

(* While layers run, what has been read succeeded, and only what failed    *)
(* has been compensated, by itself.                                        *)
LayersInv == phase = "layers" =>
  /\ toUndo = {} /\ ~error /\ completed = results
  /\ \A s \in results : state[s] = "ok"
  /\ \A s \in Sagas : undone[s] <= 1 /\ (undone[s] > 0 => state[s] \in {"failed", "raised"})

(* Afterwards what has been recorded is undone or still to be visited.     *)
UndoInv == phase = "undo" =>
  /\ error /\ toUndo \subseteq completed
  /\ \A s \in toUndo : undone[s] <= 1
  /\ Policy # "GROUPED_PARALLEL" => \A s \in completed \ toUndo : s \in done => undone[s] > 0

ReturnedInv == Policy # "GROUPED_PARALLEL" => RecordedAreUndone

CompositionInv == /\ CompositionTypeOK
                  /\ FlowsArrive
                  /\ LayersInv
                  /\ UndoInv
                  /\ ReturnedInv

\* At the start nothing has been read.
LEMMA CompositionInitInv == CompositionInit => CompositionInv
<1> SUFFICES ASSUME CompositionInit PROVE CompositionInv
  OBVIOUS
<1>1. CompositionTypeOK
  <2>1. \A S \in {done, results, completed, toUndo, reported, failedUndo} : S = {}
    BY DEF CompositionInit
  <2>2. /\ state \in [Sagas -> Ended \cup {"waiting", "running"}] /\ undone \in [Sagas -> 0..2]
        /\ inputs \in [Sagas -> SUBSET Sagas] /\ ended \in [Sagas -> SUBSET Sagas]
    BY DEF CompositionInit
  <2> QED
    BY <2>1, <2>2 DEF CompositionInit, CompositionTypeOK
<1>2. FlowsArrive /\ LayersInv
  BY DEF CompositionInit, FlowsArrive, LayersInv
<1>3. UndoInv /\ ReturnedInv
  BY DEF CompositionInit, UndoInv, ReturnedInv, RecordedAreUndone
<1> QED
  BY <1>1, <1>2, <1>3 DEF CompositionInv

(* Whatever a saga depends on is in a layer that has been read. *)
LEMMA StartLayerInv == CompositionInv /\ StartLayer => CompositionInv'
<1> SUFFICES ASSUME CompositionInv, StartLayer PROVE CompositionInv'
  OBVIOUS
<1>1. CompositionTypeOK /\ FlowsArrive /\ LayersInv
  BY DEF CompositionInv
<1>2. /\ state' = [s \in Sagas |-> IF s \in NextLayer THEN "running" ELSE state[s]]
      /\ inputs' = [s \in Sagas |-> IF s \in NextLayer THEN FlowsFrom[s] \cap results ELSE inputs[s]]
      /\ phase = "layers" /\ Running = {} /\ Unread = {}
      /\ UNCHANGED <<phase, done, undone, results, completed, toUndo, reported, failedUndo, error, ended>>
  BY DEF StartLayer
<1>3. CompositionTypeOK'
  BY <1>1, <1>2, SagasAssumption DEF CompositionTypeOK
<1>4. \A s \in Sagas : state[s] = "waiting" \/ s \in results
  <2>1. \A s \in Sagas : state[s] # "running" /\ (state[s] \in Ended => s \in results)
    BY <1>2 DEF Running, Unread
  <2> QED
    BY <1>1, <2>1 DEF CompositionTypeOK
<1>5. \A s \in NextLayer : s \in Waiting /\ DependsOn[s] \subseteq results
  BY <1>4, SagasAssumption DEF NextLayer, Waiting
<1>6. FlowsArrive'
  BY <1>1, <1>2, <1>5 DEF FlowsArrive
<1>7. LayersInv'
  BY <1>1, <1>2, <1>5 DEF LayersInv, Waiting, CompositionTypeOK
<1> QED
  BY <1>2, <1>3, <1>6, <1>7 DEF CompositionInv, UndoInv, ReturnedInv, RecordedAreUndone

\* A saga that ends has not been read.
LEMMA SagaEndsInv ==
  ASSUME CompositionInv, NEW s \in Sagas, Succeeds(s) \/ Fails(s) \/ Raises(s)
  PROVE  CompositionInv'
<1>1. CompositionTypeOK /\ FlowsArrive /\ LayersInv
  BY DEF CompositionInv
<1>2. PICK how \in {"ok", "failed", "raised"} :
        /\ state' = [state EXCEPT ![s] = how] /\ phase = "layers" /\ state[s] = "running"
        /\ UNCHANGED <<phase, results, inputs, completed, toUndo, reported, failedUndo, error>>
        /\ done' \in {done, done \cup {s}}
        /\ undone' \in {undone, [undone EXCEPT ![s] = 1]} /\ (how = "ok" => undone' = undone)
        /\ ended' \in {ended, [ended EXCEPT ![s] = {t \in Sagas : state[t] = "ok"}]}
  BY DEF Succeeds, Fails, Raises, Ends
<1>3. CompositionTypeOK'
  BY <1>1, <1>2 DEF CompositionTypeOK, Ended
<1>4. FlowsArrive'
  BY <1>1, <1>2 DEF FlowsArrive, CompositionTypeOK
<1>5. LayersInv'
  <2>1. s \notin results /\ undone[s] \in Nat /\ ~(undone[s] > 0)
    BY <1>1, <1>2 DEF LayersInv, CompositionTypeOK
  <2> QED
    BY <1>1, <1>2, <2>1 DEF LayersInv, CompositionTypeOK
<1> QED
  BY <1>2, <1>3, <1>4, <1>5 DEF CompositionInv, UndoInv, ReturnedInv, RecordedAreUndone

\* Reading a layer records it; at the first failure all of it is to undo.
LEMMA LayerEndsInv ==
  ASSUME CompositionInv, LayerSucceeds \/ LayerFails
  PROVE  CompositionInv'
<1>1. CompositionTypeOK /\ FlowsArrive /\ LayersInv
  BY DEF CompositionInv
<1>2. Layer \subseteq Sagas
  BY DEF Layer, Unread
<1>3. CASE LayerSucceeds
  <2>1. /\ phase = "layers" /\ results' = results \cup Layer /\ completed' = completed \cup Layer
        /\ UNCHANGED <<phase, state, done, undone, inputs, toUndo, reported, failedUndo, error, ended>>
        /\ \A s \in Layer : state[s] = "ok"
    BY <1>2, <1>3 DEF LayerSucceeds, Culprits
  <2>2. CompositionTypeOK'
    BY <1>1, <1>2, <2>1 DEF CompositionTypeOK
  <2>3. FlowsArrive' /\ LayersInv'
    BY <1>1, <2>1 DEF FlowsArrive, LayersInv
  <2> QED
    BY <2>1, <2>2, <2>3 DEF CompositionInv, UndoInv, ReturnedInv, RecordedAreUndone
<1>4. CASE LayerFails
  <2>1. /\ phase = "layers" /\ phase' = "undo" /\ error'
        /\ results' = results \cup Read /\ completed' = completed \cup Read /\ toUndo' = completed'
        /\ UNCHANGED <<state, done, undone, inputs, reported, failedUndo, ended>>
        /\ Read \subseteq Sagas
    BY <1>1, <1>2, <1>4, FirstFacts DEF LayerFails
  <2>2. CompositionTypeOK'
    BY <1>1, <1>4, <2>1 DEF CompositionTypeOK, LayerFails
  <2>3. FlowsArrive'
    BY <1>1, <2>1 DEF FlowsArrive
  <2>4. UndoInv'
    BY <1>1, <2>1, <2>2 DEF UndoInv, LayersInv, CompositionTypeOK
  <2> QED
    BY <2>1, <2>2, <2>3, <2>4 DEF CompositionInv, LayersInv, ReturnedInv, RecordedAreUndone
<1> QED
  BY <1>3, <1>4

\* A saga visited is compensated unless nothing of it is done.
LEMMA UndoStepInv ==
  ASSUME CompositionInv, Undo \/ UndoNothing \/ CancelUndo
  PROVE  CompositionInv'
<1>1. CompositionTypeOK /\ FlowsArrive /\ UndoInv
  BY DEF CompositionInv
<1>2. /\ phase = "undo" /\ toUndo # {} /\ Last \in toUndo /\ Last \in Sagas
  BY <1>1, LastFacts DEF Undo, UndoNothing, CancelUndo, CompositionTypeOK
<1> DEFINE l == Last
<1>3. /\ l \in toUndo /\ l \in Sagas /\ undone[l] \in 0..2 /\ undone[l] <= 1
      /\ [undone EXCEPT ![l] = @ + 1] \in [Sagas -> 0..2]
  BY <1>1, <1>2 DEF UndoInv, CompositionTypeOK
<1>4. CASE Undo \/ UndoNothing
  <2>1. /\ toUndo' = toUndo \ {l} /\ reported' = reported \cup {l}
        /\ failedUndo' \in {failedUndo, failedUndo \cup {l}}
        /\ \/ undone' = [undone EXCEPT ![l] = @ + 1]
           \/ undone' = undone /\ (l \notin done \/ Policy = "GROUPED_PARALLEL")
        /\ UNCHANGED <<phase, state, done, results, inputs, completed, error, ended>>
    BY <1>4 DEF Undo, UndoNothing
  <2> HIDE DEF l
  <2>2. CompositionTypeOK'
    BY <1>1, <1>3, <2>1 DEF CompositionTypeOK
  <2>3. FlowsArrive'
    BY <1>1, <2>1 DEF FlowsArrive
  <2>4. UndoInv'
    <3>1. \A s \in Sagas : s # l => undone'[s] = undone[s]
      BY <1>1, <1>3, <2>1 DEF CompositionTypeOK
    <3>2. l \in done /\ Policy # "GROUPED_PARALLEL" => undone'[l] > 0
      BY <1>1, <1>3, <2>1 DEF CompositionTypeOK
    <3>3. toUndo \subseteq Sagas /\ completed \subseteq Sagas
      BY <1>1 DEF CompositionTypeOK
    <3> QED
      BY <1>1, <1>2, <1>3, <2>1, <3>1, <3>2, <3>3 DEF UndoInv
  <2> QED
    BY <1>2, <2>1, <2>2, <2>3, <2>4 DEF CompositionInv, LayersInv, ReturnedInv, RecordedAreUndone
<1>5. CASE CancelUndo
  <2>1. /\ phase' = "cancelled" /\ undone' \in {undone, [undone EXCEPT ![l] = @ + 1]}
        /\ UNCHANGED <<state, done, results, inputs, completed, toUndo, reported, failedUndo, error, ended>>
    BY <1>5 DEF CancelUndo
  <2> HIDE DEF l
  <2>2. CompositionTypeOK' /\ FlowsArrive'
    BY <1>1, <1>3, <2>1 DEF CompositionTypeOK, FlowsArrive
  <2> QED
    BY <2>1, <2>2 DEF CompositionInv, LayersInv, UndoInv, ReturnedInv, RecordedAreUndone
<1> QED
  BY <1>4, <1>5

\* When execute returns, nothing is left to visit.
LEMMA EndInv ==
  ASSUME CompositionInv, Return \/ CallerCancel
  PROVE  CompositionInv'
<1>1. CompositionTypeOK /\ FlowsArrive /\ LayersInv /\ UndoInv
  BY DEF CompositionInv
<1>2. CASE Return
  <2>1. /\ phase' = "returned"
        /\ UNCHANGED <<state, done, undone, results, inputs, completed, toUndo, reported, failedUndo, error, ended>>
    BY <1>2 DEF Return
  <2>2. CompositionTypeOK' /\ FlowsArrive'
    BY <1>1, <2>1 DEF CompositionTypeOK, FlowsArrive
  <2>3. ReturnedInv'
    <3>1. CASE phase = "layers" /\ Running = {} /\ Unread = {} /\ Waiting = {}
      <4>1. \A s \in Sagas : s \in results
        BY <1>1, <3>1 DEF CompositionTypeOK, Running, Unread, Waiting
      <4>2. ~error /\ \A s \in Sagas : state[s] = "ok" /\ undone[s] = 0
        BY <1>1, <3>1, <4>1 DEF LayersInv, CompositionTypeOK
      <4> QED
        BY <2>1, <4>2 DEF ReturnedInv, RecordedAreUndone
    <3>2. CASE phase = "undo" /\ toUndo = {}
      BY <1>1, <2>1, <3>2 DEF UndoInv, ReturnedInv, RecordedAreUndone
    <3> QED
      BY <1>2, <3>1, <3>2 DEF Return
  <2> QED
    BY <2>1, <2>2, <2>3 DEF CompositionInv, LayersInv, UndoInv
<1>3. CASE CallerCancel
  <2>1. /\ phase' = "cancelled"
        /\ state' = [s \in Sagas |-> IF s \in Running THEN "cancelled" ELSE state[s]]
        /\ \E S \in SUBSET Running : done' = done \cup S
        /\ UNCHANGED <<undone, results, inputs, completed, toUndo, reported, failedUndo, error, ended>>
    BY <1>3 DEF CallerCancel
  <2>2. CompositionTypeOK' /\ FlowsArrive'
    BY <1>1, <2>1 DEF CompositionTypeOK, Ended, FlowsArrive, Running
  <2> QED
    BY <2>1, <2>2 DEF CompositionInv, LayersInv, UndoInv, ReturnedInv, RecordedAreUndone
<1> QED
  BY <1>2, <1>3

\* So CompositionInv is an invariant.
LEMMA CompositionInductive == CompositionSpec => []CompositionInv
<1>1. CompositionInv /\ UNCHANGED compositionVars => CompositionInv'
  BY DEF compositionVars, CompositionInv, CompositionTypeOK, FlowsArrive, LayersInv, UndoInv, ReturnedInv,
     RecordedAreUndone
<1>2. CompositionInv /\ [CompositionNext]_compositionVars => CompositionInv'
  BY <1>1, StartLayerInv, SagaEndsInv, LayerEndsInv, UndoStepInv, EndInv DEF CompositionNext
<1> QED
  BY <1>2, CompositionInitInv, PTL DEF CompositionSpec

(* What is recorded and undone of a composition are its own sagas, and no  *)
(* saga is compensated more than twice.                                    *)
THEOREM CompositionTypeCorrect == CompositionSpec => []CompositionTypeOK
<1>1. CompositionInv => CompositionTypeOK
  BY DEF CompositionInv
<1> QED
  BY <1>1, CompositionInductive, PTL

(* In any composition a saga starts when everything it depends on has been *)
(* read, so no data flow from a dependency is missing (_execute_saga in    *)
(* the layers of compute_layers).                                          *)
THEOREM FlowsArriveHolds == CompositionSpec => []FlowsArrive
<1>1. CompositionInv => FlowsArrive
  BY DEF CompositionInv
<1> QED
  BY <1>1, CompositionInductive, PTL

(* Whatever fails and whatever compensation raises, execute returns with   *)
(* every recorded success undone, or with everything standing.  Under      *)
(* GROUPED_PARALLEL it does not, since compensate_completed passes no      *)
(* layers.                                                                 *)
THEOREM RecordedAreUndoneHolds ==
  ASSUME Policy # "GROUPED_PARALLEL"
  PROVE  CompositionSpec => []RecordedAreUndone
<1>1. CompositionInv => RecordedAreUndone
  BY DEF CompositionInv, ReturnedInv
<1> QED
  BY <1>1, CompositionInductive, PTL

(* compensate_completed calls the compensations of a saga only when those  *)
(* of all recorded sagas that depend on it have been called.               *)
THEOREM DependentsFirstHolds == CompositionSpec => DependentsFirst
<1> DEFINE Ordered ==
      \A s \in Sagas : undone'[s] > undone[s] /\ phase = "undo" =>
        \A t \in completed \cap done : s \in DependsOn[t] => undone[t] > 0 \/ t \in failedUndo
<1>1. ASSUME CompositionInv, [CompositionNext]_compositionVars PROVE Ordered
  <2>1. CompositionTypeOK /\ UndoInv
    BY <1>1 DEF CompositionInv
  <2> SUFFICES ASSUME NEW s \in Sagas, undone'[s] > undone[s], phase = "undo",
                      NEW t \in completed \cap done, s \in DependsOn[t]
               PROVE  undone[t] > 0
    BY Zenon
  <2>2. undone' # undone /\ undone[s] \in Nat
    BY <2>1 DEF CompositionTypeOK
  <2>3. Undo \/ CancelUndo
    BY <1>1, <2>2 DEF CompositionNext, compositionVars, StartLayer, LayerSucceeds, LayerFails, UndoNothing, Return,
       CallerCancel, Succeeds, Fails, Raises, Ends
  <2>4. toUndo # {} /\ Policy # "GROUPED_PARALLEL" /\ undone' \in {undone, [undone EXCEPT ![Last] = @ + 1]}
    BY <2>3 DEF Undo, CancelUndo
  <2>5. s = Last
    BY <2>1, <2>2, <2>4 DEF CompositionTypeOK
  <2>6. t \in Nat /\ s \in Nat /\ s < t
    BY <2>1, SagasAssumption DEF CompositionTypeOK
  <2>7. t \notin toUndo
    BY <2>1, <2>4, <2>5, <2>6, LastFacts
  <2> QED
    BY <2>1, <2>4, <2>7 DEF UndoInv
<1> QED
  BY <1>1, CompositionInductive, PTL DEF CompositionSpec, DependentsFirst

-----------------------------------------------------------------------------
(* SagaRecovery: the records of the runs.                                  *)
(*                                                                         *)
(* DistinctIds is what uuid4 gives to calls of execute that name no        *)
(* correlation id of their own.  With it a record is only ever marked by   *)
(* its own run or by a sweeper whose query has seen it in flight.          *)

DistinctIds == \A r, s \in Runs : IdOf[r] = IdOf[s] => r = s

(* What the store files under the id of a run is the record of that run. *)
FiledUnderOwnId == \A r \in Runs : store[IdOf[r]] \in {r, None}

(* A run that has not persisted has no status yet. *)
AbsentUntilPersisted ==
  \A r \in Runs : pc[r] \in {"idle", "starting"} => record[r].status = "absent"

(* A live run's record is in flight until a sweeper recovers it. *)
InFlightUntilRecovered ==
  \A r \in Runs : pc[r] \in {"running", "reporting"} =>
                    record[r].status = "IN_FLIGHT" \/ r \in recovered

(* A durable store loses no record that is in flight. *)
InFlightIsFiled ==
  Durable => \A r \in Runs : record[r].status = "IN_FLIGHT" => Filed(r)

(* A recovered record has been persisted and is not in flight any more. *)
RecoveredIsSettled ==
  \A r \in recovered : record[r].status \in Final

(* A record of which a sweeper holds a copy was in flight when it was      *)
(* stale already, so it was settled after that, if at all.                 *)
BatchIsStale ==
  \A w \in Sweepers : \A r \in sweep[w].batch :
    /\ Durable /\ w \in setting.sweepers
    /\ record[r].startedAt + StaleAfter < now
    /\ record[r].status # "absent"
    /\ record[r].status \in Final => record[r].startedAt + StaleAfter < record[r].completedAt

(* A record settled in time was settled by its own run, which is over. *)
TimelyIsOwn ==
  \A r \in Runs : SettledInTime(r) =>
    pc[r] \in {"returned", "raised"} /\ record[r].status = Verdict(success[r])

(* A lone sweeper holds no copy of a record it has recovered. *)
LoneSweeper == \A v, w \in setting.sweepers : v = w

LoneIsDone ==
  LoneSweeper => twice = {} /\ \A w \in Sweepers : sweep[w].batch \cap recovered = {}

RecoveryInv ==
  /\ RecoveryTypeOK
  /\ FiledUnderOwnId
  /\ AbsentUntilPersisted
  /\ InFlightUntilRecovered
  /\ InFlightIsFiled
  /\ RecoveredIsSettled
  /\ BatchIsStale
  /\ TimelyIsOwn
  /\ LoneIsDone
  /\ LostOnlyIfRecovered

USE RunsAssumption

LEMMA InitIInv == RecoveryInit => RecoveryInv
BY DEF RecoveryInit, RecoveryInv, RecoveryTypeOK, FiledUnderOwnId, AbsentUntilPersisted,
   InFlightUntilRecovered, InFlightIsFiled, RecoveredIsSettled, BatchIsStale, TimelyIsOwn,
   SettledInTime, LoneIsDone, LostOnlyIfRecovered, Statuses, Active, Final

Records == [Runs -> [status : Statuses, startedAt : 0..MaxNow,
                     completedAt : 0..MaxNow]]

(* Marking the record filed under an id gives well-typed records. *)
LEMMA MarkedType ==
  ASSUME RecoveryTypeOK, NEW id \in CorrelationIds, store[id] # None, NEW s \in Statuses
  PROVE  Marked(id, s) \in Records
<1> DEFINE new == [record[store[id]] EXCEPT !.status = s, !.completedAt = now]
<1>1. store[id] \in Runs /\ record \in Records /\ now \in 0..MaxNow
  BY DEF RecoveryTypeOK, Records
<1>2. new \in [status : Statuses, startedAt : 0..MaxNow, completedAt : 0..MaxNow]
  BY <1>1 DEF Records
<1>3. Marked(id, s) = [record EXCEPT ![store[id]] = new]
  BY <1>1 DEF Marked, Records
<1>4. QED
  BY <1>1, <1>2, <1>3 DEF Records

(* Each step keeps the types. *)
LEMMA TypeStep == RecoveryTypeOK /\ [RecoveryNext]_recoveryVars => RecoveryTypeOK'
<1> SUFFICES ASSUME RecoveryTypeOK, [RecoveryNext]_recoveryVars PROVE RecoveryTypeOK'
  OBVIOUS
<1> USE DEF RecoveryTypeOK, Statuses, Active, Final
<1>1. CASE \E r \in Runs : Begin(r)
  <2> PICK r \in Runs : Begin(r)
    BY <1>1
  <2>1. record' \in [Runs -> [status : Statuses, startedAt : 0..MaxNow, completedAt : 0..MaxNow]]
    <3>1. record' = [record EXCEPT ![r].startedAt = now] /\ now \in 0..MaxNow
      BY DEF Begin
    <3>2. [record[r] EXCEPT !.startedAt = now]
             \in [status : Statuses, startedAt : 0..MaxNow, completedAt : 0..MaxNow]
      BY <3>1
    <3> QED
      BY <3>1, <3>2
  <2>2. pc' \in [Runs -> Active \cup {"idle", "returned", "raised", "dead"}]
    BY DEF Begin
  <2> QED
    BY <2>1, <2>2 DEF Begin, sweepVars
<1>2. CASE \E r \in Runs : Persist(r)
  BY <1>2 DEF Persist, Answered, runVars, storeVars, sweepVars
<1>3. CASE \E r \in Runs : StartFails(r)
  BY <1>3 DEF StartFails, runVars, storeVars, sweepVars
<1>4. CASE \E r \in Runs : StepDone(r)
  BY <1>4 DEF StepDone, runVars, storeVars, sweepVars
<1>5. CASE \E r \in Runs : Succeed(r)
  BY <1>5 DEF Succeed, Decide, runVars, storeVars, sweepVars
<1>6. CASE \E r \in Runs : FailAndCompensate(r)
  BY <1>6 DEF FailAndCompensate, Decide, runVars, storeVars, sweepVars
<1>7. CASE \E r \in Runs : Cancelled(r)
  BY <1>7 DEF Cancelled, Decide, runVars, storeVars, sweepVars
<1>8. CASE \E r \in Runs : MarkCompleted(r)
  <2> PICK r \in Runs : MarkCompleted(r)
    BY <1>8
  <2>1. pc' \in [Runs -> Active \cup {"idle", "returned", "raised", "dead"}]
    BY DEF MarkCompleted, Answered
  <2>2. record' \in Records
    <3>1. CASE store[IdOf[r]] = None
      BY <3>1 DEF MarkCompleted, Records
    <3>2. CASE store[IdOf[r]] # None
      <4>1. IdOf[r] \in CorrelationIds /\ Verdict(success[r]) \in Statuses
        BY DEF Verdict
      <4>2. Marked(IdOf[r], Verdict(success[r])) \in Records
        BY <3>2, <4>1, MarkedType
      <4>3. QED
        BY <3>2, <4>2 DEF MarkCompleted
    <3>3. QED
      BY <3>1, <3>2
  <2>3. QED
    BY <2>1, <2>2 DEF MarkCompleted, Records, sweepVars
<1>9. CASE \E r \in Runs : ReportFails(r)
  BY <1>9 DEF ReportFails, runVars, storeVars, sweepVars
<1>10. CASE \E w \in Sweepers : GetStale(w)
  BY <1>10 DEF GetStale, InStore, runVars, storeVars, sweepVars
<1>11. CASE \E w \in Sweepers : Recover(w)
  <2> PICK w \in Sweepers : Recover(w)
    BY <1>11
  <2> PICK r \in sweep[w].batch, pos \in {"emitting", "raised"} :
        /\ sweep' = [sweep EXCEPT ![w] =
             [pc |-> pos, batch |-> IF pos = "raised" THEN {} ELSE @.batch \ {r}]]
        /\ IF store[IdOf[r]] = None
             THEN UNCHANGED record
             ELSE record' = Marked(IdOf[r], "FAILED")
        /\ Took(r)
    BY DEF Recover, Answered
  <2>1. record' \in Records
    BY MarkedType DEF Records
  <2>2. sweep' \in [Sweepers -> [pc : {"idle", "looping", "emitting", "raised"},
                                 batch : SUBSET Runs]]
    OBVIOUS
  <2>3. recovered' \subseteq Runs /\ twice' \subseteq Runs
    BY DEF Took
  <2>4. QED
    BY <2>1, <2>2, <2>3 DEF Recover, Records, runVars
<1>12. CASE \E w \in Sweepers : Emitted(w)
  BY <1>12 DEF Emitted, runVars, storeVars, sweepVars
<1>13. CASE \E w \in Sweepers : EmitFails(w)
  BY <1>13 DEF EmitFails, runVars, storeVars, sweepVars
<1>14. CASE \E w \in Sweepers : SweepEnds(w)
  BY <1>14 DEF SweepEnds, runVars, storeVars, sweepVars
<1>15. CASE Cleanup
  BY <1>15 DEF Cleanup, InStore, Expired, runVars, storeVars, sweepVars
<1>16. CASE Tick
  BY <1>16 DEF Tick, runVars, storeVars, sweepVars
<1>17. CASE Crash
  BY <1>17 DEF Crash, runVars, storeVars, sweepVars
<1>18. CASE UNCHANGED recoveryVars
  BY <1>18 DEF recoveryVars, runVars, storeVars, sweepVars
<1>19. QED
  BY <1>1, <1>2, <1>3, <1>4, <1>5, <1>6, <1>7, <1>8, <1>9, <1>10, <1>11, <1>12, <1>13, <1>14, <1>15, <1>16, <1>17, <1>18 DEF RecoveryNext, RunNext, SweepNext

(* Each step keeps the invariant.  The types are those of TypeStep. *)
LEMMA StepIInv == ASSUME DistinctIds PROVE RecoveryInv /\ [RecoveryNext]_recoveryVars => RecoveryInv'
<1> SUFFICES ASSUME RecoveryInv, [RecoveryNext]_recoveryVars PROVE RecoveryInv'
  OBVIOUS
<1>0. RecoveryTypeOK'
  BY TypeStep DEF RecoveryInv
<1> USE DEF Final, Durable, runVars, storeVars, sweepVars
<1>1. CASE \E r \in Runs : Begin(r)
  <2> PICK r \in Runs : Begin(r)
    BY <1>1
  <2>1. pc[r] = "idle" /\ record[r].status = "absent"
    BY DEF Begin, RecoveryInv, AbsentUntilPersisted
  <2>2. FiledUnderOwnId'
    BY <1>0, <2>1 DEF RecoveryInv, RecoveryTypeOK, Begin, FiledUnderOwnId
  <2>3. AbsentUntilPersisted'
    BY <1>0, <2>1 DEF RecoveryInv, RecoveryTypeOK, Begin, AbsentUntilPersisted
  <2>4. InFlightUntilRecovered'
    BY <1>0, <2>1 DEF RecoveryInv, RecoveryTypeOK, Begin, InFlightUntilRecovered
  <2>5. InFlightIsFiled'
    BY <1>0, <2>1 DEF RecoveryInv, RecoveryTypeOK, Begin, InFlightIsFiled, Filed
  <2>6. RecoveredIsSettled'
    BY <1>0, <2>1 DEF RecoveryInv, RecoveryTypeOK, Begin, RecoveredIsSettled
  <2>7. BatchIsStale'
    BY <1>0, <2>1 DEF RecoveryInv, RecoveryTypeOK, Begin, BatchIsStale
  <2>8. TimelyIsOwn'
    BY <1>0, <2>1 DEF RecoveryInv, RecoveryTypeOK, Begin, TimelyIsOwn, SettledInTime
  <2>9. LoneIsDone'
    BY <1>0, <2>1 DEF RecoveryInv, RecoveryTypeOK, Begin, LoneIsDone, LoneSweeper, BatchIsStale
  <2>10. LostOnlyIfRecovered'
    BY <1>0, <2>1 DEF RecoveryInv, RecoveryTypeOK, Begin, LostOnlyIfRecovered, Filed
  <2> QED
    BY <1>0, <2>2, <2>3, <2>4, <2>5, <2>6, <2>7, <2>8, <2>9, <2>10 DEF RecoveryInv
<1>2. CASE \E r \in Runs : Persist(r)
  <2> PICK r \in Runs : Persist(r)
    BY <1>2
  <2>1. FiledUnderOwnId'
    BY <1>0 DEF RecoveryInv, RecoveryTypeOK, Persist, FiledUnderOwnId, Answered, DistinctIds
  <2>2. AbsentUntilPersisted'
    BY <1>0 DEF RecoveryInv, RecoveryTypeOK, Persist, AbsentUntilPersisted, Answered
  <2>3. InFlightUntilRecovered'
    BY <1>0 DEF RecoveryInv, RecoveryTypeOK, Persist, InFlightUntilRecovered, Answered
  <2>4. InFlightIsFiled'
    BY <1>0 DEF RecoveryInv, RecoveryTypeOK, Persist, InFlightIsFiled, Filed, Answered, DistinctIds
  <2>5. RecoveredIsSettled'
    BY <1>0 DEF RecoveryInv, RecoveryTypeOK, Persist, RecoveredIsSettled, Answered, AbsentUntilPersisted
  <2>6. BatchIsStale'
    BY <1>0 DEF RecoveryInv, RecoveryTypeOK, Persist, BatchIsStale, Answered, AbsentUntilPersisted, RecoveredIsSettled
  <2>7. TimelyIsOwn'
    BY <1>0 DEF RecoveryInv, RecoveryTypeOK, Persist, TimelyIsOwn, SettledInTime, Answered, AbsentUntilPersisted, RecoveredIsSettled
  <2>8. LoneIsDone'
    BY <1>0 DEF RecoveryInv, RecoveryTypeOK, Persist, LoneIsDone, LoneSweeper, Answered, AbsentUntilPersisted, RecoveredIsSettled
  <2>9. LostOnlyIfRecovered'
    BY <1>0 DEF RecoveryInv, RecoveryTypeOK, Persist, LostOnlyIfRecovered, Filed, Answered, DistinctIds
  <2> QED
    BY <1>0, <2>1, <2>2, <2>3, <2>4, <2>5, <2>6, <2>7, <2>8, <2>9 DEF RecoveryInv
<1>3. CASE \E r \in Runs : StartFails(r)
  <2> PICK r \in Runs : StartFails(r)
    BY <1>3
  <2>1. FiledUnderOwnId'
    BY <1>0 DEF RecoveryInv, RecoveryTypeOK, StartFails, FiledUnderOwnId
  <2>2. AbsentUntilPersisted'
    BY <1>0 DEF RecoveryInv, RecoveryTypeOK, StartFails, AbsentUntilPersisted
  <2>3. InFlightUntilRecovered'
    BY <1>0 DEF RecoveryInv, RecoveryTypeOK, StartFails, InFlightUntilRecovered
  <2>4. InFlightIsFiled'
    BY <1>0 DEF RecoveryInv, RecoveryTypeOK, StartFails, InFlightIsFiled, Filed
  <2>5. RecoveredIsSettled'
    BY <1>0 DEF RecoveryInv, RecoveryTypeOK, StartFails, RecoveredIsSettled
  <2>6. BatchIsStale'
    BY <1>0 DEF RecoveryInv, RecoveryTypeOK, StartFails, BatchIsStale
  <2>7. TimelyIsOwn'
    BY <1>0 DEF RecoveryInv, RecoveryTypeOK, StartFails, TimelyIsOwn, SettledInTime
  <2>8. LoneIsDone'
    BY <1>0 DEF RecoveryInv, RecoveryTypeOK, StartFails, LoneIsDone, LoneSweeper
  <2>9. LostOnlyIfRecovered'
    BY <1>0 DEF RecoveryInv, RecoveryTypeOK, StartFails, LostOnlyIfRecovered, Filed
  <2> QED
    BY <1>0, <2>1, <2>2, <2>3, <2>4, <2>5, <2>6, <2>7, <2>8, <2>9 DEF RecoveryInv
<1>4. CASE \E r \in Runs : StepDone(r)
  <2> PICK r \in Runs : StepDone(r)
    BY <1>4
  <2>1. FiledUnderOwnId'
    BY <1>0 DEF RecoveryInv, RecoveryTypeOK, StepDone, FiledUnderOwnId
  <2>2. AbsentUntilPersisted'
    BY <1>0 DEF RecoveryInv, RecoveryTypeOK, StepDone, AbsentUntilPersisted
  <2>3. InFlightUntilRecovered'
    BY <1>0 DEF RecoveryInv, RecoveryTypeOK, StepDone, InFlightUntilRecovered
  <2>4. InFlightIsFiled'
    BY <1>0 DEF RecoveryInv, RecoveryTypeOK, StepDone, InFlightIsFiled, Filed
  <2>5. RecoveredIsSettled'
    BY <1>0 DEF RecoveryInv, RecoveryTypeOK, StepDone, RecoveredIsSettled
  <2>6. BatchIsStale'
    BY <1>0 DEF RecoveryInv, RecoveryTypeOK, StepDone, BatchIsStale
  <2>7. TimelyIsOwn'
    BY <1>0 DEF RecoveryInv, RecoveryTypeOK, StepDone, TimelyIsOwn, SettledInTime
  <2>8. LoneIsDone'
    BY <1>0 DEF RecoveryInv, RecoveryTypeOK, StepDone, LoneIsDone, LoneSweeper
  <2>9. LostOnlyIfRecovered'
    BY <1>0 DEF RecoveryInv, RecoveryTypeOK, StepDone, LostOnlyIfRecovered, Filed
  <2> QED
    BY <1>0, <2>1, <2>2, <2>3, <2>4, <2>5, <2>6, <2>7, <2>8, <2>9 DEF RecoveryInv
<1>5. CASE \E r \in Runs : Succeed(r)
  <2> PICK r \in Runs : Succeed(r)
    BY <1>5
  <2>1. FiledUnderOwnId'
    BY <1>0 DEF RecoveryInv, RecoveryTypeOK, Succeed, FiledUnderOwnId, Decide
  <2>2. AbsentUntilPersisted'
    BY <1>0 DEF RecoveryInv, RecoveryTypeOK, Succeed, AbsentUntilPersisted, Decide
  <2>3. InFlightUntilRecovered'
    BY <1>0 DEF RecoveryInv, RecoveryTypeOK, Succeed, InFlightUntilRecovered, Decide
  <2>4. InFlightIsFiled'
    BY <1>0 DEF RecoveryInv, RecoveryTypeOK, Succeed, InFlightIsFiled, Filed, Decide
  <2>5. RecoveredIsSettled'
    BY <1>0 DEF RecoveryInv, RecoveryTypeOK, Succeed, RecoveredIsSettled, Decide
  <2>6. BatchIsStale'
    BY <1>0 DEF RecoveryInv, RecoveryTypeOK, Succeed, BatchIsStale, Decide
  <2>7. TimelyIsOwn'
    BY <1>0 DEF RecoveryInv, RecoveryTypeOK, Succeed, TimelyIsOwn, SettledInTime, Decide
  <2>8. LoneIsDone'
    BY <1>0 DEF RecoveryInv, RecoveryTypeOK, Succeed, LoneIsDone, LoneSweeper, Decide
  <2>9. LostOnlyIfRecovered'
    BY <1>0 DEF RecoveryInv, RecoveryTypeOK, Succeed, LostOnlyIfRecovered, Filed, Decide
  <2> QED
    BY <1>0, <2>1, <2>2, <2>3, <2>4, <2>5, <2>6, <2>7, <2>8, <2>9 DEF RecoveryInv
<1>6. CASE \E r \in Runs : FailAndCompensate(r)
  <2> PICK r \in Runs : FailAndCompensate(r)
    BY <1>6
  <2>1. FiledUnderOwnId'
    BY <1>0 DEF RecoveryInv, RecoveryTypeOK, FailAndCompensate, FiledUnderOwnId, Decide
  <2>2. AbsentUntilPersisted'
    BY <1>0 DEF RecoveryInv, RecoveryTypeOK, FailAndCompensate, AbsentUntilPersisted, Decide
  <2>3. InFlightUntilRecovered'
    BY <1>0 DEF RecoveryInv, RecoveryTypeOK, FailAndCompensate, InFlightUntilRecovered, Decide
  <2>4. InFlightIsFiled'
    BY <1>0 DEF RecoveryInv, RecoveryTypeOK, FailAndCompensate, InFlightIsFiled, Filed, Decide
  <2>5. RecoveredIsSettled'
    BY <1>0 DEF RecoveryInv, RecoveryTypeOK, FailAndCompensate, RecoveredIsSettled, Decide
  <2>6. BatchIsStale'
    BY <1>0 DEF RecoveryInv, RecoveryTypeOK, FailAndCompensate, BatchIsStale, Decide
  <2>7. TimelyIsOwn'
    BY <1>0 DEF RecoveryInv, RecoveryTypeOK, FailAndCompensate, TimelyIsOwn, SettledInTime, Decide
  <2>8. LoneIsDone'
    BY <1>0 DEF RecoveryInv, RecoveryTypeOK, FailAndCompensate, LoneIsDone, LoneSweeper, Decide
  <2>9. LostOnlyIfRecovered'
    BY <1>0 DEF RecoveryInv, RecoveryTypeOK, FailAndCompensate, LostOnlyIfRecovered, Filed, Decide
  <2> QED
    BY <1>0, <2>1, <2>2, <2>3, <2>4, <2>5, <2>6, <2>7, <2>8, <2>9 DEF RecoveryInv
<1>7. CASE \E r \in Runs : Cancelled(r)
  <2> PICK r \in Runs : Cancelled(r)
    BY <1>7
  <2>1. FiledUnderOwnId'
    BY <1>0 DEF RecoveryInv, RecoveryTypeOK, Cancelled, FiledUnderOwnId, Decide
  <2>2. AbsentUntilPersisted'
    BY <1>0 DEF RecoveryInv, RecoveryTypeOK, Cancelled, AbsentUntilPersisted, Decide
  <2>3. InFlightUntilRecovered'
    BY <1>0 DEF RecoveryInv, RecoveryTypeOK, Cancelled, InFlightUntilRecovered, Decide
  <2>4. InFlightIsFiled'
    BY <1>0 DEF RecoveryInv, RecoveryTypeOK, Cancelled, InFlightIsFiled, Filed, Decide
  <2>5. RecoveredIsSettled'
    BY <1>0 DEF RecoveryInv, RecoveryTypeOK, Cancelled, RecoveredIsSettled, Decide
  <2>6. BatchIsStale'
    BY <1>0 DEF RecoveryInv, RecoveryTypeOK, Cancelled, BatchIsStale, Decide
  <2>7. TimelyIsOwn'
    BY <1>0 DEF RecoveryInv, RecoveryTypeOK, Cancelled, TimelyIsOwn, SettledInTime, Decide
  <2>8. LoneIsDone'
    BY <1>0 DEF RecoveryInv, RecoveryTypeOK, Cancelled, LoneIsDone, LoneSweeper, Decide
  <2>9. LostOnlyIfRecovered'
    BY <1>0 DEF RecoveryInv, RecoveryTypeOK, Cancelled, LostOnlyIfRecovered, Filed, Decide
  <2> QED
    BY <1>0, <2>1, <2>2, <2>3, <2>4, <2>5, <2>6, <2>7, <2>8, <2>9 DEF RecoveryInv
<1>8. CASE \E r \in Runs : MarkCompleted(r)
  <2> PICK r \in Runs : MarkCompleted(r)
    BY <1>8
  <2>1. /\ pc[r] = "reporting" /\ pc' \in {[pc EXCEPT ![r] = "raised"], [pc EXCEPT ![r] = "returned"]}
        /\ record' \in {record, [record EXCEPT ![r].status = Verdict(success[r]), ![r].completedAt = now]}
        /\ UNCHANGED <<setting, success, effects, store, sweep, recovered, twice, now, crashes>>
    BY DEF MarkCompleted, Answered, Marked, RecoveryInv, FiledUnderOwnId
  <2>2. Verdict(success[r]) \in Final /\ record[r].status # "absent"
    BY <2>1 DEF Verdict, RecoveryInv, RecoveryTypeOK, InFlightUntilRecovered, RecoveredIsSettled
  <2>3. FiledUnderOwnId'
    BY <1>0, <2>1, <2>2 DEF RecoveryInv, RecoveryTypeOK, FiledUnderOwnId
  <2>4. AbsentUntilPersisted'
    BY <1>0, <2>1, <2>2 DEF RecoveryInv, RecoveryTypeOK, AbsentUntilPersisted
  <2>5. InFlightUntilRecovered'
    BY <1>0, <2>1, <2>2 DEF RecoveryInv, RecoveryTypeOK, InFlightUntilRecovered
  <2>6. InFlightIsFiled'
    BY <1>0, <2>1, <2>2 DEF RecoveryInv, RecoveryTypeOK, InFlightIsFiled, Filed
  <2>7. RecoveredIsSettled'
    BY <1>0, <2>1, <2>2 DEF RecoveryInv, RecoveryTypeOK, RecoveredIsSettled
  <2>8. BatchIsStale'
    BY <1>0, <2>1, <2>2 DEF RecoveryInv, RecoveryTypeOK, BatchIsStale
  <2>9. TimelyIsOwn'
    BY <1>0, <2>1, <2>2 DEF RecoveryInv, RecoveryTypeOK, TimelyIsOwn, SettledInTime
  <2>10. LoneIsDone'
    BY <1>0, <2>1, <2>2 DEF RecoveryInv, RecoveryTypeOK, LoneIsDone, LoneSweeper
  <2>11. LostOnlyIfRecovered'
    BY <1>0, <2>1, <2>2 DEF RecoveryInv, RecoveryTypeOK, LostOnlyIfRecovered, Filed
  <2> QED
    BY <1>0, <2>3, <2>4, <2>5, <2>6, <2>7, <2>8, <2>9, <2>10, <2>11 DEF RecoveryInv
<1>9. CASE \E r \in Runs : ReportFails(r)
  <2> PICK r \in Runs : ReportFails(r)
    BY <1>9
  <2>1. FiledUnderOwnId'
    BY <1>0 DEF RecoveryInv, RecoveryTypeOK, ReportFails, FiledUnderOwnId
  <2>2. AbsentUntilPersisted'
    BY <1>0 DEF RecoveryInv, RecoveryTypeOK, ReportFails, AbsentUntilPersisted
  <2>3. InFlightUntilRecovered'
    BY <1>0 DEF RecoveryInv, RecoveryTypeOK, ReportFails, InFlightUntilRecovered
  <2>4. InFlightIsFiled'
    BY <1>0 DEF RecoveryInv, RecoveryTypeOK, ReportFails, InFlightIsFiled, Filed
  <2>5. RecoveredIsSettled'
    BY <1>0 DEF RecoveryInv, RecoveryTypeOK, ReportFails, RecoveredIsSettled
  <2>6. BatchIsStale'
    BY <1>0 DEF RecoveryInv, RecoveryTypeOK, ReportFails, BatchIsStale
  <2>7. TimelyIsOwn'
    BY <1>0 DEF RecoveryInv, RecoveryTypeOK, ReportFails, TimelyIsOwn, SettledInTime
  <2>8. LoneIsDone'
    BY <1>0 DEF RecoveryInv, RecoveryTypeOK, ReportFails, LoneIsDone, LoneSweeper
  <2>9. LostOnlyIfRecovered'
    BY <1>0 DEF RecoveryInv, RecoveryTypeOK, ReportFails, LostOnlyIfRecovered, Filed
  <2> QED
    BY <1>0, <2>1, <2>2, <2>3, <2>4, <2>5, <2>6, <2>7, <2>8, <2>9 DEF RecoveryInv
<1>10. CASE \E w \in Sweepers : GetStale(w)
  <2> PICK w \in Sweepers : GetStale(w)
    BY <1>10
  <2>1. FiledUnderOwnId'
    BY <1>0 DEF RecoveryInv, RecoveryTypeOK, GetStale, FiledUnderOwnId, Recoverable, InStore, Stale
  <2>2. AbsentUntilPersisted'
    BY <1>0 DEF RecoveryInv, RecoveryTypeOK, GetStale, AbsentUntilPersisted, Recoverable, InStore, Stale
  <2>3. InFlightUntilRecovered'
    BY <1>0 DEF RecoveryInv, RecoveryTypeOK, GetStale, InFlightUntilRecovered, Recoverable, InStore, Stale
  <2>4. InFlightIsFiled'
    BY <1>0 DEF RecoveryInv, RecoveryTypeOK, GetStale, InFlightIsFiled, Filed, Recoverable, InStore, Stale
  <2>5. RecoveredIsSettled'
    BY <1>0 DEF RecoveryInv, RecoveryTypeOK, GetStale, RecoveredIsSettled, Recoverable, InStore, Stale
  <2>6. BatchIsStale'
    BY <1>0 DEF RecoveryInv, RecoveryTypeOK, GetStale, BatchIsStale, Recoverable, InStore, Stale
  <2>7. TimelyIsOwn'
    BY <1>0 DEF RecoveryInv, RecoveryTypeOK, GetStale, TimelyIsOwn, SettledInTime, Recoverable, InStore, Stale
  <2>8. LoneIsDone'
    BY <1>0 DEF RecoveryInv, RecoveryTypeOK, GetStale, LoneIsDone, LoneSweeper, Recoverable, InStore, Stale, RecoveredIsSettled
  <2>9. LostOnlyIfRecovered'
    BY <1>0 DEF RecoveryInv, RecoveryTypeOK, GetStale, LostOnlyIfRecovered, Filed, Recoverable, InStore, Stale
  <2> QED
    BY <1>0, <2>1, <2>2, <2>3, <2>4, <2>5, <2>6, <2>7, <2>8, <2>9 DEF RecoveryInv
<1>11. CASE \E w \in Sweepers : Recover(w)
  <2> PICK w \in Sweepers : Recover(w)
    BY <1>11
  <2>1. PICK r \in sweep[w].batch :
          /\ \/ store[IdOf[r]] = None /\ UNCHANGED record
             \/ record' = [record EXCEPT ![r].status = "FAILED", ![r].completedAt = now]
          /\ \/ sweep' = [sweep EXCEPT ![w] = [pc |-> "raised", batch |-> {}]]
             \/ sweep' = [sweep EXCEPT ![w] = [pc |-> "emitting", batch |-> @.batch \ {r}]]
          /\ twice' = twice \cup ({r} \cap recovered) /\ recovered' = recovered \cup {r}
          /\ UNCHANGED <<setting, pc, success, effects, store, now, crashes>>
    BY DEF Recover, Answered, Marked, Took, RecoveryInv, RecoveryTypeOK, FiledUnderOwnId
  <2>2. /\ Durable /\ w \in setting.sweepers /\ r \in Runs
        /\ record[r].startedAt + StaleAfter < now /\ record[r].status # "absent"
    BY <2>1 DEF RecoveryInv, RecoveryTypeOK, BatchIsStale
  <2>3. FiledUnderOwnId'
    BY <1>0, <2>1, <2>2 DEF RecoveryInv, RecoveryTypeOK, FiledUnderOwnId
  <2>4. AbsentUntilPersisted'
    BY <1>0, <2>1, <2>2 DEF RecoveryInv, RecoveryTypeOK, AbsentUntilPersisted
  <2>5. InFlightUntilRecovered'
    BY <1>0, <2>1, <2>2 DEF RecoveryInv, RecoveryTypeOK, InFlightUntilRecovered
  <2>6. InFlightIsFiled'
    BY <1>0, <2>1, <2>2 DEF RecoveryInv, RecoveryTypeOK, InFlightIsFiled, Filed
  <2>7. RecoveredIsSettled'
    BY <1>0, <2>1, <2>2 DEF RecoveryInv, RecoveryTypeOK, RecoveredIsSettled, InFlightIsFiled, Filed, Statuses
  <2>8. BatchIsStale'
    <3>1. ASSUME NEW v \in Sweepers, NEW q \in sweep'[v].batch
          PROVE  /\ q \in sweep[v].batch /\ q \in Runs
                 /\ record'[q] = record[q] \/ (q = r /\ record'[q].completedAt = now
                       /\ record'[q].status = "FAILED" /\ record'[q].startedAt = record[q].startedAt)
      BY <2>1, <3>1, <2>2 DEF RecoveryInv, RecoveryTypeOK
    <3> QED
      BY <2>1, <2>2, <3>1 DEF RecoveryInv, RecoveryTypeOK, BatchIsStale
  <2>9. TimelyIsOwn'
    BY <1>0, <2>1, <2>2 DEF RecoveryInv, RecoveryTypeOK, TimelyIsOwn, SettledInTime
  <2>10. LoneIsDone'
    <3> SUFFICES ASSUME LoneSweeper
                 PROVE  twice' = {} /\ \A v \in Sweepers : sweep'[v].batch \cap recovered' = {}
      BY <2>1 DEF LoneIsDone, LoneSweeper
    <3>1. twice = {} /\ \A v \in Sweepers : sweep[v].batch \cap recovered = {}
      BY DEF RecoveryInv, LoneIsDone
    <3>2. twice' = {} /\ r \notin recovered
      BY <2>1, <3>1
    <3>3. ASSUME NEW v \in Sweepers, v # w PROVE sweep'[v] = sweep[v] /\ sweep[v].batch = {}
      <4>1. sweep'[v] = sweep[v]
        BY <2>1, <3>3 DEF RecoveryInv, RecoveryTypeOK
      <4>2. sweep[v].batch # {} => v \in setting.sweepers
        BY DEF RecoveryInv, BatchIsStale
      <4> QED
        BY <2>2, <3>3, <4>1, <4>2 DEF LoneSweeper
    <3>4. sweep'[w].batch \in {{}, sweep[w].batch \ {r}}
      BY <2>1 DEF RecoveryInv, RecoveryTypeOK
    <3> QED
      BY <2>1, <3>1, <3>2, <3>3, <3>4
  <2>11. LostOnlyIfRecovered'
    BY <1>0, <2>1, <2>2 DEF RecoveryInv, RecoveryTypeOK, LostOnlyIfRecovered, Filed
  <2> QED
    BY <1>0, <2>3, <2>4, <2>5, <2>6, <2>7, <2>8, <2>9, <2>10, <2>11 DEF RecoveryInv
<1>12. CASE \E w \in Sweepers : Emitted(w)
  <2> PICK w \in Sweepers : Emitted(w)
    BY <1>12
  <2>1. FiledUnderOwnId'
    BY <1>0 DEF RecoveryInv, RecoveryTypeOK, Emitted, FiledUnderOwnId
  <2>2. AbsentUntilPersisted'
    BY <1>0 DEF RecoveryInv, RecoveryTypeOK, Emitted, AbsentUntilPersisted
  <2>3. InFlightUntilRecovered'
    BY <1>0 DEF RecoveryInv, RecoveryTypeOK, Emitted, InFlightUntilRecovered
  <2>4. InFlightIsFiled'
    BY <1>0 DEF RecoveryInv, RecoveryTypeOK, Emitted, InFlightIsFiled, Filed
  <2>5. RecoveredIsSettled'
    BY <1>0 DEF RecoveryInv, RecoveryTypeOK, Emitted, RecoveredIsSettled
  <2>6. BatchIsStale'
    BY <1>0 DEF RecoveryInv, RecoveryTypeOK, Emitted, BatchIsStale
  <2>7. TimelyIsOwn'
    BY <1>0 DEF RecoveryInv, RecoveryTypeOK, Emitted, TimelyIsOwn, SettledInTime
  <2>8. LoneIsDone'
    BY <1>0 DEF RecoveryInv, RecoveryTypeOK, Emitted, LoneIsDone, LoneSweeper
  <2>9. LostOnlyIfRecovered'
    BY <1>0 DEF RecoveryInv, RecoveryTypeOK, Emitted, LostOnlyIfRecovered, Filed
  <2> QED
    BY <1>0, <2>1, <2>2, <2>3, <2>4, <2>5, <2>6, <2>7, <2>8, <2>9 DEF RecoveryInv
<1>13. CASE \E w \in Sweepers : EmitFails(w)
  <2> PICK w \in Sweepers : EmitFails(w)
    BY <1>13
  <2>1. FiledUnderOwnId'
    BY <1>0 DEF RecoveryInv, RecoveryTypeOK, EmitFails, FiledUnderOwnId
  <2>2. AbsentUntilPersisted'
    BY <1>0 DEF RecoveryInv, RecoveryTypeOK, EmitFails, AbsentUntilPersisted
  <2>3. InFlightUntilRecovered'
    BY <1>0 DEF RecoveryInv, RecoveryTypeOK, EmitFails, InFlightUntilRecovered
  <2>4. InFlightIsFiled'
    BY <1>0 DEF RecoveryInv, RecoveryTypeOK, EmitFails, InFlightIsFiled, Filed
  <2>5. RecoveredIsSettled'
    BY <1>0 DEF RecoveryInv, RecoveryTypeOK, EmitFails, RecoveredIsSettled
  <2>6. BatchIsStale'
    BY <1>0 DEF RecoveryInv, RecoveryTypeOK, EmitFails, BatchIsStale
  <2>7. TimelyIsOwn'
    BY <1>0 DEF RecoveryInv, RecoveryTypeOK, EmitFails, TimelyIsOwn, SettledInTime
  <2>8. LoneIsDone'
    BY <1>0 DEF RecoveryInv, RecoveryTypeOK, EmitFails, LoneIsDone, LoneSweeper
  <2>9. LostOnlyIfRecovered'
    BY <1>0 DEF RecoveryInv, RecoveryTypeOK, EmitFails, LostOnlyIfRecovered, Filed
  <2> QED
    BY <1>0, <2>1, <2>2, <2>3, <2>4, <2>5, <2>6, <2>7, <2>8, <2>9 DEF RecoveryInv
<1>14. CASE \E w \in Sweepers : SweepEnds(w)
  <2> PICK w \in Sweepers : SweepEnds(w)
    BY <1>14
  <2>1. FiledUnderOwnId'
    BY <1>0 DEF RecoveryInv, RecoveryTypeOK, SweepEnds, FiledUnderOwnId
  <2>2. AbsentUntilPersisted'
    BY <1>0 DEF RecoveryInv, RecoveryTypeOK, SweepEnds, AbsentUntilPersisted
  <2>3. InFlightUntilRecovered'
    BY <1>0 DEF RecoveryInv, RecoveryTypeOK, SweepEnds, InFlightUntilRecovered
  <2>4. InFlightIsFiled'
    BY <1>0 DEF RecoveryInv, RecoveryTypeOK, SweepEnds, InFlightIsFiled, Filed
  <2>5. RecoveredIsSettled'
    BY <1>0 DEF RecoveryInv, RecoveryTypeOK, SweepEnds, RecoveredIsSettled
  <2>6. BatchIsStale'
    BY <1>0 DEF RecoveryInv, RecoveryTypeOK, SweepEnds, BatchIsStale
  <2>7. TimelyIsOwn'
    BY <1>0 DEF RecoveryInv, RecoveryTypeOK, SweepEnds, TimelyIsOwn, SettledInTime
  <2>8. LoneIsDone'
    BY <1>0 DEF RecoveryInv, RecoveryTypeOK, SweepEnds, LoneIsDone, LoneSweeper
  <2>9. LostOnlyIfRecovered'
    BY <1>0 DEF RecoveryInv, RecoveryTypeOK, SweepEnds, LostOnlyIfRecovered, Filed
  <2> QED
    BY <1>0, <2>1, <2>2, <2>3, <2>4, <2>5, <2>6, <2>7, <2>8, <2>9 DEF RecoveryInv
<1>15. CASE Cleanup
  <2>1. FiledUnderOwnId'
    BY <1>0, <1>15 DEF RecoveryInv, RecoveryTypeOK, Cleanup, FiledUnderOwnId, InStore, Expired
  <2>2. AbsentUntilPersisted'
    BY <1>0, <1>15 DEF RecoveryInv, RecoveryTypeOK, Cleanup, AbsentUntilPersisted, InStore, Expired
  <2>3. InFlightUntilRecovered'
    BY <1>0, <1>15 DEF RecoveryInv, RecoveryTypeOK, Cleanup, InFlightUntilRecovered, InStore, Expired
  <2>4. InFlightIsFiled'
    BY <1>0, <1>15 DEF RecoveryInv, RecoveryTypeOK, Cleanup, InFlightIsFiled, Filed, InStore, Expired
  <2>5. RecoveredIsSettled'
    BY <1>0, <1>15 DEF RecoveryInv, RecoveryTypeOK, Cleanup, RecoveredIsSettled, InStore, Expired
  <2>6. BatchIsStale'
    BY <1>0, <1>15 DEF RecoveryInv, RecoveryTypeOK, Cleanup, BatchIsStale, InStore, Expired
  <2>7. TimelyIsOwn'
    BY <1>0, <1>15 DEF RecoveryInv, RecoveryTypeOK, Cleanup, TimelyIsOwn, SettledInTime, InStore, Expired
  <2>8. LoneIsDone'
    BY <1>0, <1>15 DEF RecoveryInv, RecoveryTypeOK, Cleanup, LoneIsDone, LoneSweeper, InStore, Expired
  <2>9. LostOnlyIfRecovered'
    BY <1>0, <1>15 DEF RecoveryInv, RecoveryTypeOK, Cleanup, LostOnlyIfRecovered, Filed, InStore, Expired, InFlightUntilRecovered
  <2> QED
    BY <1>0, <2>1, <2>2, <2>3, <2>4, <2>5, <2>6, <2>7, <2>8, <2>9 DEF RecoveryInv
<1>16. CASE Tick
  <2>1. FiledUnderOwnId'
    BY <1>0, <1>16 DEF RecoveryInv, RecoveryTypeOK, Tick, FiledUnderOwnId
  <2>2. AbsentUntilPersisted'
    BY <1>0, <1>16 DEF RecoveryInv, RecoveryTypeOK, Tick, AbsentUntilPersisted
  <2>3. InFlightUntilRecovered'
    BY <1>0, <1>16 DEF RecoveryInv, RecoveryTypeOK, Tick, InFlightUntilRecovered
  <2>4. InFlightIsFiled'
    BY <1>0, <1>16 DEF RecoveryInv, RecoveryTypeOK, Tick, InFlightIsFiled, Filed
  <2>5. RecoveredIsSettled'
    BY <1>0, <1>16 DEF RecoveryInv, RecoveryTypeOK, Tick, RecoveredIsSettled
  <2>6. BatchIsStale'
    BY <1>0, <1>16 DEF RecoveryInv, RecoveryTypeOK, Tick, BatchIsStale
  <2>7. TimelyIsOwn'
    BY <1>0, <1>16 DEF RecoveryInv, RecoveryTypeOK, Tick, TimelyIsOwn, SettledInTime
  <2>8. LoneIsDone'
    BY <1>0, <1>16 DEF RecoveryInv, RecoveryTypeOK, Tick, LoneIsDone, LoneSweeper
  <2>9. LostOnlyIfRecovered'
    BY <1>0, <1>16 DEF RecoveryInv, RecoveryTypeOK, Tick, LostOnlyIfRecovered, Filed
  <2> QED
    BY <1>0, <2>1, <2>2, <2>3, <2>4, <2>5, <2>6, <2>7, <2>8, <2>9 DEF RecoveryInv
<1>17. CASE Crash
  <2>1. FiledUnderOwnId'
    BY <1>0, <1>17 DEF RecoveryInv, RecoveryTypeOK, Crash, FiledUnderOwnId
  <2>2. AbsentUntilPersisted'
    BY <1>0, <1>17 DEF RecoveryInv, RecoveryTypeOK, Crash, AbsentUntilPersisted
  <2>3. InFlightUntilRecovered'
    BY <1>0, <1>17 DEF RecoveryInv, RecoveryTypeOK, Crash, InFlightUntilRecovered
  <2>4. InFlightIsFiled'
    BY <1>0, <1>17 DEF RecoveryInv, RecoveryTypeOK, Crash, InFlightIsFiled, Filed
  <2>5. RecoveredIsSettled'
    BY <1>0, <1>17 DEF RecoveryInv, RecoveryTypeOK, Crash, RecoveredIsSettled
  <2>6. BatchIsStale'
    BY <1>0, <1>17 DEF RecoveryInv, RecoveryTypeOK, Crash, BatchIsStale
  <2>7. TimelyIsOwn'
    BY <1>0, <1>17 DEF RecoveryInv, RecoveryTypeOK, Crash, Active, TimelyIsOwn, SettledInTime
  <2>8. LoneIsDone'
    BY <1>0, <1>17 DEF RecoveryInv, RecoveryTypeOK, Crash, LoneIsDone, LoneSweeper
  <2>9. LostOnlyIfRecovered'
    BY <1>0, <1>17 DEF RecoveryInv, RecoveryTypeOK, Crash, LostOnlyIfRecovered, Filed
  <2> QED
    BY <1>0, <2>1, <2>2, <2>3, <2>4, <2>5, <2>6, <2>7, <2>8, <2>9 DEF RecoveryInv
<1>18. CASE UNCHANGED recoveryVars
  BY <1>0, <1>18 DEF recoveryVars, RecoveryInv, FiledUnderOwnId, AbsentUntilPersisted, InFlightUntilRecovered, InFlightIsFiled, Filed, RecoveredIsSettled, BatchIsStale, TimelyIsOwn, SettledInTime, LoneIsDone, LoneSweeper, LostOnlyIfRecovered
<1> QED
  BY <1>1, <1>2, <1>3, <1>4, <1>5, <1>6, <1>7, <1>8, <1>9, <1>10, <1>11, <1>12, <1>13, <1>14, <1>15, <1>16, <1>17, <1>18 DEF RecoveryNext, RunNext, SweepNext

(* The state of runs, records and sweepers keeps its types. *)
THEOREM RecoveryTypeCorrect == RecoverySpec => []RecoveryTypeOK
<1>1. RecoveryInit => RecoveryTypeOK
  BY InitIInv DEF RecoveryInv
<1>2. QED
  BY <1>1, TypeStep, PTL DEF RecoverySpec

LEMMA Invariance == ASSUME DistinctIds PROVE RecoverySpec => []RecoveryInv
BY InitIInv, StepIInv, PTL DEF RecoverySpec

(* What was settled in time stays as its run has settled it, whatever copies *)
(* sweepers hold and whatever restarts there are.                          *)
THEOREM LastWord == ASSUME DistinctIds PROVE RecoverySpec => EngineHasTheLastWord
<1>1. ASSUME RecoveryInv, [RecoveryNext]_recoveryVars, NEW r \in Runs, SettledInTime(r)
      PROVE  record[r].status = Verdict(success[r]) /\ record'[r] = record[r]
  <2> USE DEF Final, runVars, storeVars, sweepVars
  <2>1. /\ pc[r] \in {"returned", "raised"} /\ record[r].status = Verdict(success[r])
        /\ record[r].status \in Final /\ record[r].completedAt <= record[r].startedAt + StaleAfter
        /\ record \in Records
    BY <1>1 DEF RecoveryInv, RecoveryTypeOK, TimelyIsOwn, SettledInTime, Records
  <2>2. \A id \in CorrelationIds, q \in Runs, s \in Statuses :
          store[id] \in {q, None} /\ store[id] # None /\ q # r => Marked(id, s)[r] = record[r]
    BY <2>1 DEF Marked, Records
  <2>3. CASE \E q \in Runs : Begin(q) \/ Persist(q)
    BY <2>1, <2>3 DEF Begin, Persist, Records
  <2>4. CASE \E q \in Runs : MarkCompleted(q)
    <3> PICK q \in Runs : MarkCompleted(q)
      BY <2>4
    <3>1. q # r /\ IdOf[q] \in CorrelationIds /\ store[IdOf[q]] \in {q, None}
          /\ Verdict(success[q]) \in Statuses
      BY <1>1, <2>1 DEF MarkCompleted, RecoveryInv, FiledUnderOwnId, Verdict, Statuses
    <3> QED
      BY <2>1, <2>2, <3>1 DEF MarkCompleted
  <2>5. CASE \E w \in Sweepers : Recover(w)
    <3> PICK w \in Sweepers : Recover(w)
      BY <2>5
    <3>1. PICK q \in sweep[w].batch :
             IF store[IdOf[q]] = None THEN UNCHANGED record ELSE record' = Marked(IdOf[q], "FAILED")
      BY Zenon DEF Recover
    <3>2. q \in Runs /\ (record[q].status \in Final => record[q].startedAt + StaleAfter < record[q].completedAt)
      BY <1>1 DEF RecoveryInv, RecoveryTypeOK, BatchIsStale
    <3>3. q # r
      BY <2>1, <3>2 DEF Records
    <3>4. IdOf[q] \in CorrelationIds /\ store[IdOf[q]] \in {q, None} /\ "FAILED" \in Statuses
      BY <1>1, <3>2 DEF RecoveryInv, FiledUnderOwnId, Statuses
    <3> QED
      BY <2>1, <2>2, <3>1, <3>2, <3>3, <3>4
  <2>6. CASE UNCHANGED record
    BY <2>1, <2>6
  <2>7. \/ \E q \in Runs : Begin(q) \/ Persist(q) \/ MarkCompleted(q)
        \/ \E w \in Sweepers : Recover(w)
        \/ UNCHANGED record
    BY <1>1 DEF RecoveryNext, RunNext, SweepNext, StartFails, StepDone, Succeed, FailAndCompensate,
       Cancelled, Decide, ReportFails, GetStale, Emitted, EmitFails, SweepEnds, Cleanup, Tick, Crash,
       recoveryVars
  <2> QED
    BY <2>3, <2>4, <2>5, <2>6, <2>7
<1>2. RecoveryInv /\ [RecoveryNext]_recoveryVars =>
        [ \A r \in Runs : SettledInTime(r) =>
            record[r].status = Verdict(success[r]) /\ record'[r] = record[r] ]_recoveryVars
  BY <1>1
<1>3. QED
  BY <1>2, Invariance, PTL DEF RecoverySpec, EngineHasTheLastWord

(* However often it is interrupted, a lone sweeper recovers no record twice. *)
THEOREM RecoveryOnce == ASSUME DistinctIds PROVE RecoverySpec => []RecoveredOnce
<1>1. RecoveryInv => RecoveredOnce
  BY DEF RecoveryInv, LoneIsDone, LoneSweeper, RecoveredOnce
<1>2. QED
  BY <1>1, Invariance, PTL

(* mark_completed raises a KeyError only for a run declared failed before. *)
THEOREM LossNeedsRecovery == ASSUME DistinctIds PROVE RecoverySpec => []LostOnlyIfRecovered
<1>1. RecoveryInv => LostOnlyIfRecovered
  BY DEF RecoveryInv
<1>2. QED
  BY <1>1, Invariance, PTL
=============================================================================
