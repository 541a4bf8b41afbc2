------------------------------ MODULE Tcc_proofs ------------------------------
(***************************************************************************)
(* Proofs about Tcc, for any participants, retries, timeouts and faults:   *)
(* every execution is one that TccProtocol allows, and without a late      *)
(* effect the participants end in lockstep.                                *)
(*                                                                         *)
(* All depends on the loop visiting participants in their order, and so on *)
(* Current being the least or the greatest of those still to visit.        *)
(***************************************************************************)
EXTENDS Tcc, FiniteSetTheorems, WellFoundedInduction, TLAPS

USE TccAssumption

-----------------------------------------------------------------------------
(* The participant whose turn it is.                                       *)

LEMMA NatMin ==
  ASSUME NEW T \in SUBSET Nat, T # {}
  PROVE  \E x \in T : \A y \in T : x <= y
<1>1. PICK x \in T : \A y \in T : ~ (<<y, x>> \in OpToRel(<, Nat))
  BY NatLessThanWellFounded, WFMin
<1>2. \A y \in T : <<y, x>> \in OpToRel(<, Nat) <=> y < x
  BY DEF OpToRel
<1>3. \A y \in T : ~ (y < x)
  BY <1>1, <1>2, Zenon
<1> QED
  BY <1>3

(* The greatest is the one with the fewest above it.                       *)
LEMMA NatMax ==
  ASSUME NEW T \in SUBSET Nat, T # {}, IsFiniteSet(T)
  PROVE  \E x \in T : \A y \in T : y <= x
<1> DEFINE Above(x) == {y \in T : y > x}
           Counts == {Cardinality(Above(x)) : x \in T}
<1>1. \A x \in T : IsFiniteSet(Above(x)) /\ Cardinality(Above(x)) \in Nat
  <2>1. \A x \in T : Above(x) \in SUBSET T
    OBVIOUS
  <2> QED
    BY <2>1, FS_Subset, FS_CardinalityType
<1>2. Counts \in SUBSET Nat /\ Counts # {}
  <2>1. PICK x \in T : TRUE
    OBVIOUS
  <2>2. Cardinality(Above(x)) \in Counts
    BY <2>1
  <2>3. \A n \in Counts : n \in Nat
    <3>1. \A n \in Counts : \E y \in T : n = Cardinality(Above(y))
      BY Zenon
    <3> QED
      BY <1>1, <3>1
  <2> QED
    BY <2>2, <2>3
<1>3. PICK n \in Counts : \A m \in Counts : n <= m
  BY <1>2, NatMin
<1>4. PICK x \in T : n = Cardinality(Above(x))
  BY <1>3
<1>5. ASSUME NEW y \in T, y > x
      PROVE  FALSE
  <2>1. Above(y) \in SUBSET Above(x) /\ y \in Above(x) /\ y \notin Above(y)
    <3>1. x \in Nat /\ y \in Nat /\ \A z \in T : z \in Nat
      OBVIOUS
    <3>2. \A z \in T : z > y => z > x
      BY <1>5, <3>1
    <3>3. ~ (y > y)
      BY <3>1
    <3> QED
      BY <1>5, <3>2, <3>3
  <2>2. Cardinality(Above(y)) < Cardinality(Above(x))
    <3>1. /\ Cardinality(Above(y)) <= Cardinality(Above(x))
          /\ Cardinality(Above(x)) = Cardinality(Above(y)) => Above(x) = Above(y)
      BY <1>1, <2>1, FS_Subset
    <3> HIDE DEF Above
    <3> QED
      BY <1>1, <2>1, <3>1
  <2>3. Cardinality(Above(y)) \in Counts
    OBVIOUS
  <2> HIDE DEF Above, Counts
  <2> QED
    BY <1>1, <1>3, <1>4, <2>2, <2>3
<1> QED
  BY <1>5

LEMMA CurrentFacts ==
  ASSUME todo \subseteq Participants, todo # {}
  PROVE  /\ Current \in todo
         /\ phase # "CANCEL" => \A q \in todo : Current <= q
         /\ phase = "CANCEL" => \A q \in todo : q <= Current
<1>1. todo \in SUBSET Nat /\ IsFiniteSet(todo)
  BY FS_Subset
<1>2. \E p \in todo : \A q \in todo : IF phase = "CANCEL" THEN q <= p ELSE p <= q
  BY <1>1, NatMin, NatMax
<1> QED
  BY <1>2 DEF Current

-----------------------------------------------------------------------------
(* What the loop knows, phase by phase.                                    *)

Released == {p \in Participants : pstatus[p] = "CANCEL"} \cup unreleased

LoopTypes ==
  /\ phase \in Phases
  /\ todo \subseteq Participants
  /\ tried \subseteq Participants
  /\ pstatus \in [Participants -> Phases \cup {"NONE"}]
  /\ failed \in Participants \cup {NoOne}
  /\ unreleased \subseteq Participants

TryInv == phase = "TRY" =>
  /\ tried \cap todo = {}
  /\ (Participants \ todo) \ tried \subseteq Optional
  /\ \A q \in Participants \ todo : \A p \in todo : q < p
  /\ Released = {}

ConfirmInv == phase = "CONFIRM" =>
  /\ todo \subseteq tried
  /\ Participants \ Optional \subseteq tried
  /\ \A q \in tried \ todo : \A p \in todo : q < p
  /\ Released = {}

CancelInv == phase = "CANCEL" =>
  /\ todo \subseteq tried \cap HasCancel
  /\ Released = (tried \cap HasCancel) \ todo
  /\ \A q \in Released : \A p \in todo : p < q

LoopInv == LoopTypes /\ TryInv /\ ConfirmInv /\ CancelInv

ProtocolStep == [Protocol!Next]_(Protocol!vars)

LEMMA ReleaseIsAStep ==
  ASSUME NEW c \in Participants, Protocol!Release(c)
  PROVE  ProtocolStep
<1>1. Protocol!Next
  BY Zenon DEF Protocol!Next
<1> QED
  BY <1>1 DEF ProtocolStep

(* What the step of a method that returns adds to the sets that say who is  *)
(* reserved, confirmed and cancelled.                                      *)
Counted(c) ==
  /\ c \in Participants
  /\ phase = "TRY" => c \notin tried /\ tried' = tried \cup {c}
  /\ phase # "TRY" => tried' = tried
  /\ phase = "CONFIRM" => c \notin ConfirmReturned /\ ConfirmReturned' = ConfirmReturned \cup {c}
  /\ phase # "CONFIRM" => ConfirmReturned' = ConfirmReturned
  /\ pstatus[c] # "CANCEL"

(* Each participant whose method returns takes the protocol a step on.     *)
LEMMA ReturnStep ==
  ASSUME LoopInv, todo # {}, CallReturns
  PROVE  LoopInv' /\ ProtocolStep /\ Counted(Current)
<1>1. /\ Current \in todo /\ Current \in Participants
      /\ phase # "CANCEL" => \A q \in todo : Current <= q
      /\ phase = "CANCEL" => \A q \in todo : q <= Current
  BY CurrentFacts DEF LoopInv, LoopTypes
<1>0. PICK c \in Participants : c = Current
  BY <1>1
<1>2. /\ todo' = todo \ {c} /\ phase' = phase /\ failed' = failed /\ unreleased' = unreleased
      /\ pstatus' = [pstatus EXCEPT ![c] = phase]
      /\ tried' = IF phase = "TRY" THEN tried \cup {c} ELSE tried
  BY <1>0 DEF CallReturns
<1>3. c \in todo /\ c \in Participants /\ c \in Nat /\ Participants \subseteq Nat
  BY <1>0, <1>1
<1>4. /\ phase # "CANCEL" => \A q \in todo \ {c} : c < q
      /\ phase = "CANCEL" => \A q \in todo \ {c} : q < c
  BY <1>0, <1>1, <1>3 DEF LoopInv, LoopTypes
<1>5. LoopTypes'
  BY <1>2, <1>3 DEF LoopInv, LoopTypes
<1>6. /\ phase = "CANCEL" => Released' = Released \cup {c} /\ c \notin Released
      /\ phase # "CANCEL" => Released' = Released
      /\ pstatus[c] # "CANCEL"
  <2>1. \A p \in Participants : pstatus'[p] = IF p = c THEN phase ELSE pstatus[p]
    BY <1>2, <1>3 DEF LoopInv, LoopTypes
  <2>2. CASE phase = "CANCEL"
    BY <1>2, <1>3, <2>1, <2>2 DEF Released, LoopInv, CancelInv
  <2>3. CASE phase # "CANCEL"
    <3>1. pstatus[c] # "CANCEL"
      BY <1>3, <2>3 DEF Released, LoopInv, LoopTypes, Phases, TryInv, ConfirmInv
    <3> QED
      BY <1>2, <1>3, <2>1, <2>3, <3>1 DEF Released
  <2> QED
    BY <2>2, <2>3
<1>7. CASE phase = "TRY"
  <2>1. TryInv' /\ ConfirmInv' /\ CancelInv'
    BY <1>2, <1>3, <1>4, <1>6, <1>7 DEF LoopInv, LoopTypes, TryInv, ConfirmInv, CancelInv
  <2>2. ConfirmReturned = {} /\ ConfirmReturned' = {}
    BY <1>2, <1>7 DEF ConfirmReturned
  <2>3. Protocol!Reserve(c)
    BY <1>2, <1>3, <1>6, <1>7, <2>2 DEF Protocol!Reserve, Released, LoopInv, LoopTypes, TryInv
  <2>4. Protocol!Next
    BY <1>3, <2>3 DEF Protocol!Next
  <2>5. Counted(c)
    BY <1>2, <1>3, <1>6, <1>7, <2>2 DEF Counted, LoopInv, TryInv
  <2> QED
    BY <1>0, <1>5, <2>1, <2>4, <2>5 DEF LoopInv, ProtocolStep
<1>8. CASE phase = "CONFIRM"
  <2>1. TryInv' /\ ConfirmInv' /\ CancelInv'
    BY <1>2, <1>3, <1>4, <1>6, <1>8 DEF LoopInv, LoopTypes, TryInv, ConfirmInv, CancelInv
  <2>2. ConfirmReturned = tried \ todo /\ ConfirmReturned' = (tried \ todo) \cup {c}
    BY <1>2, <1>3, <1>8 DEF ConfirmReturned, LoopInv, ConfirmInv
  <2>3. Protocol!Confirm(c)
    BY <1>1, <1>2, <1>3, <1>4, <1>6, <1>8, <2>2
    DEF Protocol!Confirm, Released, LoopInv, LoopTypes, ConfirmInv
  <2>4. Protocol!Next
    BY <1>3, <2>3 DEF Protocol!Next
  <2>5. Counted(c)
    BY <1>2, <1>3, <1>6, <1>8, <2>2 DEF Counted
  <2> QED
    BY <1>0, <1>5, <2>1, <2>4, <2>5 DEF LoopInv, ProtocolStep
<1>9. CASE phase = "CANCEL"
  <2>1. TryInv' /\ ConfirmInv' /\ CancelInv'
    BY <1>2, <1>3, <1>4, <1>6, <1>9 DEF LoopInv, LoopTypes, TryInv, ConfirmInv, CancelInv
  <2>2. ConfirmReturned' = ConfirmReturned
    BY <1>2, <1>9 DEF ConfirmReturned
  <2>3. Protocol!Release(c)
    BY <1>2, <1>3, <1>6, <1>9, <2>2 DEF Protocol!Release, Released, LoopInv, LoopTypes, CancelInv
  <2>4. ProtocolStep
    BY <1>3, <2>3, ReleaseIsAStep
  <2>5. Counted(c)
    BY <1>2, <1>3, <1>6, <1>9, <2>2 DEF Counted
  <2> QED
    BY <1>0, <1>5, <2>1, <2>4, <2>5 DEF LoopInv
<1> QED
  BY <1>7, <1>8, <1>9 DEF LoopInv, LoopTypes, Phases

(* A participant that is given up is skipped, or ends the phase.           *)
LEMMA GiveUpStep ==
  ASSUME LoopInv, todo # {}, GiveUp, UNCHANGED <<tried, pstatus>>
  PROVE  LoopInv' /\ ProtocolStep /\ ConfirmReturned' = ConfirmReturned
<1>1. /\ Current \in todo /\ Current \in Participants
      /\ phase # "CANCEL" => \A q \in todo : Current <= q
      /\ phase = "CANCEL" => \A q \in todo : q <= Current
  BY CurrentFacts DEF LoopInv, LoopTypes
<1>0. PICK c \in Participants : c = Current
  BY <1>1
<1>2. c \in todo /\ c \in Participants /\ c \in Nat /\ Participants \subseteq Nat
  BY <1>0, <1>1
<1>3. /\ phase # "CANCEL" => \A q \in todo \ {c} : c < q
      /\ phase = "CANCEL" => \A q \in todo \ {c} : q < c
  BY <1>0, <1>1, <1>2 DEF LoopInv, LoopTypes
<1>4. CASE phase = "TRY" /\ c \in Optional
  <2>1. /\ todo' = todo \ {c}
        /\ UNCHANGED <<phase, failed, unreleased, tried, pstatus>>
    BY <1>0, <1>4 DEF GiveUp
  <2>2. LoopTypes' /\ TryInv' /\ ConfirmInv' /\ CancelInv'
    <3> QED
      BY <1>2, <1>3, <1>4, <2>1
      DEF LoopInv, LoopTypes, TryInv, ConfirmInv, CancelInv, Released
  <2>3. ConfirmReturned' = ConfirmReturned
    BY <1>4, <2>1 DEF ConfirmReturned
  <2>4. UNCHANGED Protocol!vars
    BY <2>1, <2>3 DEF Protocol!vars
  <2> QED
    BY <2>2, <2>3, <2>4 DEF LoopInv, ProtocolStep
<1>5. CASE phase = "CANCEL"
  <2>1. /\ todo' = todo \ {c} /\ unreleased' = unreleased \cup {c}
        /\ UNCHANGED <<phase, failed, tried, pstatus>>
    BY <1>0, <1>5 DEF GiveUp
  <2>2. Released' = Released \cup {c} /\ c \notin Released
    BY <1>2, <1>5, <2>1 DEF Released, LoopInv, CancelInv
  <2>3. LoopTypes' /\ TryInv' /\ ConfirmInv' /\ CancelInv'
    BY <1>2, <1>3, <1>5, <2>1, <2>2
    DEF LoopInv, LoopTypes, TryInv, ConfirmInv, CancelInv
  <2>4. ConfirmReturned' = ConfirmReturned
    BY <1>5, <2>1 DEF ConfirmReturned
  <2>5. Protocol!Release(c)
    BY <1>2, <1>5, <2>1, <2>2, <2>4 DEF Protocol!Release, Released, LoopInv, LoopTypes, CancelInv
  <2>6. ProtocolStep
    BY <1>2, <2>5, ReleaseIsAStep
  <2> QED
    BY <2>3, <2>4, <2>6 DEF LoopInv
<1>6. CASE phase = "CONFIRM" \/ (phase = "TRY" /\ c \notin Optional)
  <2>1. /\ phase' = "CANCEL" /\ failed' = c /\ todo' = tried \cap HasCancel
        /\ UNCHANGED <<unreleased, tried, pstatus>>
    BY <1>0, <1>6 DEF GiveUp
  <2>2. Released = {} /\ Released' = {}
    BY <1>6, <2>1 DEF Released, LoopInv, TryInv, ConfirmInv
  <2>3. LoopTypes' /\ TryInv' /\ ConfirmInv' /\ CancelInv'
    BY <1>2, <2>1, <2>2
    DEF LoopInv, LoopTypes, Phases, TryInv, ConfirmInv, CancelInv
  <2>4. ConfirmReturned' = {p \in tried : c \in tried /\ p < c}
    BY <2>1 DEF ConfirmReturned
  <2>5. ConfirmReturned' = ConfirmReturned
    <3>1. CASE phase = "CONFIRM"
      <4>1. ConfirmReturned = tried \ todo
        BY <3>1 DEF ConfirmReturned
      <4>2. \A p \in tried : p < c <=> p \notin todo
        BY <1>2, <1>3, <3>1 DEF LoopInv, LoopTypes, ConfirmInv
      <4>3. c \in tried
        BY <1>2, <3>1 DEF LoopInv, ConfirmInv
      <4> QED
        BY <2>4, <4>1, <4>2, <4>3
    <3>2. CASE phase = "TRY"
      <4>1. ConfirmReturned = {}
        BY <3>2 DEF ConfirmReturned
      <4>2. c \notin tried
        BY <1>2, <3>2 DEF LoopInv, TryInv
      <4> QED
        BY <2>4, <4>1, <4>2
    <3> QED
      BY <1>6, <3>1, <3>2
  <2>6. phase = "TRY" \/ (phase = "CONFIRM" /\ ConfirmReturned # tried)
    BY <1>2, <1>6 DEF ConfirmReturned, LoopInv, ConfirmInv
  <2>7. Released' = Released
    BY <2>2
  <2>8. Protocol!Abort
    BY <2>1, <2>5, <2>6, <2>7 DEF Protocol!Abort, Released
  <2>9. Protocol!Next
    BY <2>8 DEF Protocol!Next
  <2> QED
    BY <2>3, <2>5, <2>9 DEF LoopInv, ProtocolStep
<1> QED
  BY <1>4, <1>5, <1>6 DEF LoopInv, LoopTypes, Phases

LEMMA EndTryStep ==
  ASSUME LoopInv, EndTry
  PROVE  LoopInv' /\ ProtocolStep /\ ConfirmReturned' = ConfirmReturned
<1>1. /\ phase = "TRY" /\ todo = {} /\ phase' = "CONFIRM" /\ todo' = tried
      /\ UNCHANGED <<tried, pstatus, failed, unreleased>>
  BY DEF EndTry
<1>2. Participants \ Optional \subseteq tried
  BY <1>1 DEF LoopInv, LoopTypes, TryInv
<1>3. LoopInv'
  BY <1>1, <1>2 DEF LoopInv, LoopTypes, Phases, TryInv, ConfirmInv, CancelInv, Released
<1>4. ConfirmReturned = {} /\ ConfirmReturned' = {}
  BY <1>1 DEF ConfirmReturned
<1>5. Protocol!Commit
  BY <1>1, <1>2, <1>4 DEF Protocol!Commit
<1> QED
  BY <1>3, <1>4, <1>5 DEF ProtocolStep, Protocol!Next

LEMMA LoopStutters ==
  ASSUME LoopInv, UNCHANGED loopVars
  PROVE  LoopInv' /\ ProtocolStep /\ ConfirmReturned' = ConfirmReturned
<1>1. LoopInv'
  BY DEF loopVars, LoopInv, LoopTypes, TryInv, ConfirmInv, CancelInv, Released
<1>2. ConfirmReturned' = ConfirmReturned
  BY DEF loopVars, ConfirmReturned
<1>3. UNCHANGED Protocol!vars
  BY <1>2 DEF loopVars, Protocol!vars
<1> QED
  BY <1>1, <1>2, <1>3 DEF ProtocolStep

(* The attempt that failed is repeated, or was the last.                   *)
LEMMA FailStep ==
  ASSUME LoopInv, todo # {}, CallFailed, UNCHANGED <<tried, pstatus>>
  PROVE  /\ LoopInv' /\ ProtocolStep /\ ConfirmReturned' = ConfirmReturned
         /\ call' # "idle" => todo' # {}
<1>1. CASE call' = "backoff" /\ UNCHANGED <<phase, todo, failed, unreleased>>
  BY <1>1, LoopStutters DEF loopVars
<1>2. CASE call' = "idle" /\ GiveUp
  BY <1>2, GiveUpStep
<1> QED
  BY <1>1, <1>2 DEF CallFailed

-----------------------------------------------------------------------------
(* The refinement.                                                         *)

CallInv == call # "idle" => todo # {}

Inv == LoopInv /\ CallInv

LEMMA InitInv ==
  ASSUME Init
  PROVE  Inv /\ Protocol!Init
<1>1. Released = {} /\ ConfirmReturned = {}
  BY DEF Init, Released, ConfirmReturned, Phases
<1>2. Inv
  BY <1>1 DEF Init, Inv, LoopInv, LoopTypes, TryInv, ConfirmInv, CancelInv, CallInv, Phases
<1>3. Protocol!Init
  BY <1>1 DEF Init, Protocol!Init, Released
<1> QED
  BY <1>2, <1>3

LEMMA StepInv ==
  ASSUME Inv, [Next]_vars
  PROVE  Inv' /\ ProtocolStep
<1>1. CASE UNCHANGED <<loopVars, callVars>>
  BY <1>1, LoopStutters DEF Inv, CallInv, loopVars, callVars
<1>2. CASE StartCall \/ RetryCall
  BY <1>2, LoopStutters DEF Inv, CallInv, loopVars, StartCall, RetryCall
<1>3. CASE CallReturns
  BY <1>3, ReturnStep DEF Inv, CallInv, CallReturns
<1>4. CASE CallRaises
  BY <1>4, FailStep DEF Inv, CallInv, CallRaises
<1>5. CASE CallTimesOut
  BY <1>5, FailStep DEF Inv, CallInv, CallTimesOut
<1>6. CASE EndTry
  BY <1>6, EndTryStep DEF Inv, CallInv, EndTry, callVars
<1>7. CASE CallerCancel
  BY <1>7, LoopStutters DEF Inv, CallInv, CallerCancel
<1>8. ASSUME OnStart \/ PersistState \/ EndConfirm \/ EndCancel \/ OnCompleted \/ MarkCompleted
      PROVE  UNCHANGED <<loopVars, callVars>>
  BY <1>8 DEF OnStart, PersistState, EndConfirm, EndCancel, OnCompleted, MarkCompleted
<1> QED
  BY <1>1, <1>2, <1>3, <1>4, <1>5, <1>6, <1>7, <1>8 DEF vars, Next, Step, Orchestrate

(* TccExecutionOrchestrator.execute: whatever is retried, timed out or cut  *)
(* off, no participant confirms before all have reserved, and each releases *)
(* after those that reserved after it.                                      *)
THEOREM Implements == Spec => ImplementsProtocol
<1>1. Init => Inv /\ Protocol!Init
  BY InitInv
<1>2. Inv /\ [Next]_vars => Inv' /\ [Protocol!Next]_(Protocol!vars)
  BY StepInv DEF ProtocolStep
<1> QED
  BY <1>1, <1>2, PTL DEF Spec, ImplementsProtocol, Protocol!Spec

-----------------------------------------------------------------------------
(* What has taken effect.                                                  *)

EffectTypes == effect \in [Phases -> [Participants -> Nat]] /\ cutOff \in BOOLEAN

\* Also with late effects: what is confirmed was reserved by all.
ConfirmedInv ==
  (\E p \in Participants : effect["CONFIRM"][p] > 0) => Participants \ Optional \subseteq tried

CountInv == ~ cutOff => \A p \in Participants :
  /\ effect["TRY"][p] = IF p \in tried THEN 1 ELSE 0
  /\ effect["CONFIRM"][p] = IF p \in ConfirmReturned THEN 1 ELSE 0
  /\ effect["CANCEL"][p] = IF pstatus[p] = "CANCEL" THEN 1 ELSE 0

EffectInv == EffectTypes /\ ConfirmedInv /\ CountInv

LEMMA InitEffect ==
  ASSUME Init
  PROVE  EffectInv
<1>1. \A ph \in Phases : \A p \in Participants : effect[ph][p] = 0
  BY DEF Init
<1>2. \A p \in Participants : p \notin tried /\ p \notin ConfirmReturned /\ pstatus[p] # "CANCEL"
  BY DEF Init, ConfirmReturned
<1>3. EffectTypes
  BY DEF Init, EffectTypes
<1>4. \A p \in Participants : effect["TRY"][p] = 0 /\ effect["CONFIRM"][p] = 0 /\ effect["CANCEL"][p] = 0
  BY <1>1 DEF Phases
<1>5. ConfirmedInv
  BY <1>4 DEF ConfirmedInv
<1>6. CountInv
  BY <1>2, <1>4 DEF CountInv
<1> QED
  BY <1>3, <1>5, <1>6 DEF EffectInv

(* A step of the loop that counts nothing.                                 *)
LEMMA NoEffect ==
  ASSUME EffectInv, UNCHANGED <<worldVars, tried, pstatus, ConfirmReturned>>
  PROVE  EffectInv'
BY DEF EffectInv, EffectTypes, ConfirmedInv, CountInv, worldVars

(* A method that takes effect in CONFIRM does so after all are reserved.   *)
LEMMA TakesEffect ==
  ASSUME LoopInv, EffectInv, NEW c \in Participants,
         effect' = [effect EXCEPT ![phase][c] = @ + 1],
         tried \subseteq tried', cutOff' \in BOOLEAN
  PROVE  EffectTypes' /\ ConfirmedInv'
<1>1. phase \in Phases
  BY DEF LoopInv, LoopTypes
<1>2. EffectTypes'
  BY <1>1 DEF EffectInv, EffectTypes
<1>3. ASSUME NEW p \in Participants, effect'["CONFIRM"][p] > 0
      PROVE  Participants \ Optional \subseteq tried
  <2>1. CASE phase = "CONFIRM"
    BY <2>1 DEF LoopInv, ConfirmInv
  <2>2. CASE phase # "CONFIRM"
    <3>1. effect'["CONFIRM"] = effect["CONFIRM"]
      BY <1>1, <2>2 DEF EffectInv, EffectTypes, Phases
    <3> QED
      BY <1>3, <3>1 DEF EffectInv, ConfirmedInv
  <2> QED
    BY <2>1, <2>2
<1> QED
  BY <1>2, <1>3 DEF ConfirmedInv

LEMMA ReturnEffect ==
  ASSUME LoopInv, EffectInv, todo # {}, CallReturns
  PROVE  EffectInv'
<1>1. Counted(Current)
  BY ReturnStep
<1>2. PICK c \in Participants : c = Current
  BY <1>1 DEF Counted
<1>3. Counted(c)
  BY <1>1, <1>2
<1>4. /\ effect' = [effect EXCEPT ![phase][c] = @ + 1] /\ cutOff' = cutOff
      /\ pstatus' = [pstatus EXCEPT ![c] = phase]
  BY <1>2 DEF CallReturns
<1>5. EffectTypes' /\ ConfirmedInv'
  <2>1. tried \subseteq tried' /\ cutOff' \in BOOLEAN
    BY <1>3, <1>4 DEF Counted, EffectInv, EffectTypes
  <2> QED
    BY <1>4, <2>1, TakesEffect
<1>6. \A ph \in Phases : \A p \in Participants :
        effect'[ph][p] = IF ph = phase /\ p = c THEN effect[ph][p] + 1 ELSE effect[ph][p]
  BY <1>4 DEF EffectInv, EffectTypes, LoopInv, LoopTypes
<1>7. \A p \in Participants : pstatus'[p] = IF p = c THEN phase ELSE pstatus[p]
  BY <1>4 DEF LoopInv, LoopTypes
<1>8. CountInv'
  <2>1. SUFFICES ASSUME ~ cutOff, NEW p \in Participants
                 PROVE  /\ effect'["TRY"][p] = IF p \in tried' THEN 1 ELSE 0
                        /\ effect'["CONFIRM"][p] = IF p \in ConfirmReturned' THEN 1 ELSE 0
                        /\ effect'["CANCEL"][p] = IF pstatus'[p] = "CANCEL" THEN 1 ELSE 0
    BY <1>4 DEF CountInv
  <2>2. /\ effect["TRY"][p] = IF p \in tried THEN 1 ELSE 0
        /\ effect["CONFIRM"][p] = IF p \in ConfirmReturned THEN 1 ELSE 0
        /\ effect["CANCEL"][p] = IF pstatus[p] = "CANCEL" THEN 1 ELSE 0
    BY <2>1 DEF EffectInv, CountInv
  <2>3. phase \in {"TRY", "CONFIRM", "CANCEL"}
    BY DEF LoopInv, LoopTypes, Phases
  <2>4. /\ effect'["TRY"][p] = IF phase = "TRY" /\ p = c THEN effect["TRY"][p] + 1 ELSE effect["TRY"][p]
        /\ effect'["CONFIRM"][p] =
              IF phase = "CONFIRM" /\ p = c THEN effect["CONFIRM"][p] + 1 ELSE effect["CONFIRM"][p]
        /\ effect'["CANCEL"][p] =
              IF phase = "CANCEL" /\ p = c THEN effect["CANCEL"][p] + 1 ELSE effect["CANCEL"][p]
    BY <1>6, <2>3 DEF Phases
  <2>5. CASE p # c
    BY <1>3, <1>7, <2>2, <2>4, <2>5 DEF Counted
  <2>6. CASE p = c
    BY <1>3, <1>7, <2>2, <2>3, <2>4, <2>6 DEF Counted
  <2> QED
    BY <2>5, <2>6
<1> QED
  BY <1>5, <1>8 DEF EffectInv

LEMMA TimeoutEffect ==
  ASSUME LoopInv, EffectInv, todo # {}, CallTimesOut
  PROVE  EffectInv'
<1>1. ConfirmReturned' = ConfirmReturned /\ UNCHANGED <<tried, pstatus>>
  BY FailStep DEF CallTimesOut
<1>2. CASE UNCHANGED worldVars
  BY <1>1, <1>2, NoEffect
<1>3. CASE effect' = [effect EXCEPT ![phase][Current] = @ + 1] /\ cutOff' = TRUE
  <2>1. PICK c \in Participants : c = Current
    BY CurrentFacts DEF LoopInv, LoopTypes
  <2>2. effect' = [effect EXCEPT ![phase][c] = @ + 1]
    BY <1>3, <2>1
  <2>3. EffectTypes' /\ ConfirmedInv'
    BY <1>1, <1>3, <2>2, TakesEffect
  <2> QED
    BY <1>3, <2>3 DEF EffectInv, CountInv
<1> QED
  BY <1>2, <1>3 DEF CallTimesOut

-----------------------------------------------------------------------------
(* What the end of execute knows.                                          *)

Ran == {"on_completed", "mark_completed", "returned"}

EndInv ==
  /\ success \in BOOLEAN
  /\ success => phase = "CONFIRM" /\ todo = {} /\ pc \in Ran \cup {"raised"}
  /\ pc \in Ran /\ ~ cancelled => phase # "TRY" /\ todo = {} /\ (phase = "CONFIRM" => success)
  /\ pc = "returned" => ~ cancelled
  /\ record \in {"COMPLETED", "FAILED"} => pc \in Final
  /\ record = "COMPLETED" => success
  /\ record = "FAILED" /\ ~ cancelled => phase = "CANCEL" /\ todo = {}

StatusInv == \A p \in Participants :
  /\ phase = "CONFIRM" /\ p \in tried \ todo => pstatus[p] = "CONFIRM"
  /\ phase # "CANCEL" /\ p \notin tried => pstatus[p] = "NONE"

FullInv == Inv /\ EffectInv /\ EndInv /\ StatusInv

LEMMA InitFull ==
  ASSUME Init
  PROVE  FullInv
<1>1. EndInv /\ StatusInv
  BY DEF Init, EndInv, StatusInv, Ran, Final
<1> QED
  BY <1>1, InitInv, InitEffect DEF FullInv

(* While the loop runs nothing has ended.                                  *)
LEMMA RunningEnd ==
  ASSUME EndInv, pc = "run", UNCHANGED engineVars
  PROVE  EndInv'
BY DEF EndInv, engineVars, Ran, Final

LEMMA ReturnStatus ==
  ASSUME LoopInv, StatusInv, todo # {}, CallReturns
  PROVE  StatusInv'
<1>1. Current \in todo /\ Current \in Participants
  BY CurrentFacts DEF LoopInv, LoopTypes
<1>2. PICK c \in Participants : c = Current
  BY <1>1
<1>3. /\ c \in todo /\ todo' = todo \ {c} /\ phase' = phase
      /\ pstatus' = [pstatus EXCEPT ![c] = phase]
      /\ tried' = IF phase = "TRY" THEN tried \cup {c} ELSE tried
  BY <1>1, <1>2 DEF CallReturns
<1>4. \A p \in Participants : pstatus'[p] = IF p = c THEN phase ELSE pstatus[p]
  BY <1>3 DEF LoopInv, LoopTypes
<1>5. ASSUME phase = "CONFIRM"
      PROVE  c \in tried
  BY <1>3, <1>5 DEF LoopInv, ConfirmInv
<1>6. CASE phase = "TRY"
  BY <1>3, <1>4, <1>6 DEF StatusInv
<1>7. CASE phase = "CONFIRM"
  <2>1. c \in tried /\ tried' = tried /\ phase' = "CONFIRM"
    BY <1>3, <1>5, <1>7
  <2>2. \A p \in Participants : p \in tried' \ todo' => p = c \/ p \in tried \ todo
    BY <1>3, <2>1
  <2>3. \A p \in Participants : p \notin tried' => p # c /\ p \notin tried
    BY <2>1
  <2> QED
    BY <1>4, <1>7, <2>1, <2>2, <2>3 DEF StatusInv
<1>8. CASE phase = "CANCEL"
  BY <1>3, <1>8 DEF StatusInv
<1> QED
  BY <1>6, <1>7, <1>8 DEF LoopInv, LoopTypes, Phases

LEMMA FailStatus ==
  ASSUME LoopInv, StatusInv, todo # {}, CallFailed, UNCHANGED <<tried, pstatus>>
  PROVE  StatusInv'
<1>1. Current \in todo
  BY CurrentFacts DEF LoopInv, LoopTypes
<1>2. CASE phase' = "CANCEL"
  BY <1>2 DEF StatusInv
<1>3. CASE phase' = phase /\ phase # "CONFIRM"
  BY <1>3 DEF StatusInv
<1>4. CASE phase = "CONFIRM" /\ UNCHANGED <<phase, todo>>
  BY <1>4 DEF StatusInv
<1> QED
  BY <1>2, <1>3, <1>4 DEF CallFailed, GiveUp

LEMMA EndStep ==
  ASSUME LoopInv, EndInv, [Next]_vars, UNCHANGED loopVars
  PROVE  EndInv'
<1> USE DEF loopVars
<1>1. CASE UNCHANGED <<pc, success, record, cancelled>>
  BY <1>1 DEF EndInv
<1>2. ASSUME UNCHANGED vars \/ StartCall \/ RetryCall \/ CallReturns \/ CallRaises
             \/ CallTimesOut \/ EndTry
      PROVE  UNCHANGED <<pc, success, record, cancelled>>
  BY <1>2 DEF vars, engineVars, StartCall, RetryCall, CallReturns, CallRaises, CallTimesOut, EndTry
<1>3. CASE OnStart \/ PersistState
  BY <1>3 DEF OnStart, PersistState, EndInv, Ran, Final
<1>4. CASE EndConfirm
  BY <1>4 DEF EndConfirm, EndInv, Ran, Final
<1>5. CASE EndCancel
  BY <1>5 DEF EndCancel, EndInv, Ran, Final
<1>6. CASE OnCompleted
  BY <1>6 DEF OnCompleted, EndInv, Ran, Final
<1>7. CASE MarkCompleted
  BY <1>7 DEF MarkCompleted, EndInv, Ran, Final, LoopInv, LoopTypes, Phases
<1>8. CASE CallerCancel
  BY <1>8 DEF CallerCancel, EndInv, Ran, Final
<1> QED
  BY <1>1, <1>2, <1>3, <1>4, <1>5, <1>6, <1>7, <1>8 DEF Next, Step, Orchestrate

LEMMA FullStep ==
  ASSUME FullInv, [Next]_vars
  PROVE  FullInv'
<1>1. Inv' /\ LoopInv /\ (call # "idle" => todo # {})
  BY StepInv DEF FullInv, Inv, CallInv
<1> USE DEF FullInv
<1>2. CASE UNCHANGED <<loopVars, worldVars>>
  <2>1. EffectInv' /\ StatusInv'
    BY <1>1, <1>2, LoopStutters, NoEffect DEF loopVars, StatusInv
  <2>2. EndInv'
    BY <1>1, <1>2, EndStep
  <2> QED
    BY <1>1, <2>1, <2>2
<1>3. CASE CallReturns
  BY <1>1, <1>3, ReturnEffect, ReturnStatus, RunningEnd DEF CallReturns
<1>4. CASE CallRaises
  <2>1. EffectInv' /\ StatusInv'
    BY <1>1, <1>4, FailStep, NoEffect, FailStatus DEF CallRaises
  <2> QED
    BY <1>1, <1>4, <2>1, RunningEnd DEF CallRaises
<1>5. CASE CallTimesOut
  <2>1. EffectInv' /\ StatusInv'
    BY <1>1, <1>5, TimeoutEffect, FailStatus DEF CallTimesOut
  <2> QED
    BY <1>1, <1>5, <2>1, RunningEnd DEF CallTimesOut
<1>6. CASE EndTry
  <2>1. EffectInv'
    BY <1>1, <1>6, EndTryStep, NoEffect DEF EndTry
  <2>2. StatusInv'
    BY <1>6 DEF EndTry, StatusInv
  <2> QED
    BY <1>1, <1>6, <2>1, <2>2, RunningEnd DEF EndTry
<1>7. ASSUME \/ StartCall \/ RetryCall \/ OnStart \/ PersistState \/ EndConfirm \/ EndCancel
             \/ OnCompleted \/ MarkCompleted \/ CallerCancel \/ UNCHANGED vars
      PROVE  UNCHANGED <<loopVars, worldVars>>
  BY <1>7 DEF StartCall, RetryCall, OnStart, PersistState, EndConfirm, EndCancel, OnCompleted,
              MarkCompleted, CallerCancel, vars
<1> QED
  BY <1>2, <1>3, <1>4, <1>5, <1>6, <1>7 DEF Next, Step, Orchestrate

THEOREM FullInvariant == Spec => []FullInv
BY InitFull, FullStep, PTL DEF Spec

(* Whether or not a call that timed out took effect, nothing is confirmed   *)
(* before every mandatory participant has its reservation.                 *)
THEOREM ConfirmAfterTry == Spec => []ConfirmOnlyAfterAllTried
<1>1. FullInv => ConfirmOnlyAfterAllTried
  BY DEF FullInv, EffectInv, ConfirmedInv, ConfirmOnlyAfterAllTried
<1> QED
  BY <1>1, FullInvariant, PTL

(* Without a late effect, execute returns with every reservation confirmed, *)
(* or every one cancelled that can be.                                     *)
THEOREM EndsInLockstep == Spec => []Lockstep
<1>1. ASSUME FullInv, pc = "returned", ~ cutOff
      PROVE  IF success
             THEN \A p \in Participants :
                     /\ effect["CONFIRM"][p] = effect["TRY"][p]
                     /\ effect["CANCEL"][p] = 0
                     /\ p \notin Optional => effect["TRY"][p] = 1
             ELSE \A p \in HasCancel \ unreleased : effect["CANCEL"][p] = effect["TRY"][p]
  <2>1. \A p \in Participants :
          /\ effect["TRY"][p] = IF p \in tried THEN 1 ELSE 0
          /\ effect["CONFIRM"][p] = IF p \in ConfirmReturned THEN 1 ELSE 0
          /\ effect["CANCEL"][p] = IF pstatus[p] = "CANCEL" THEN 1 ELSE 0
    BY <1>1 DEF FullInv, EffectInv, CountInv
  <2>2. todo = {} /\ phase # "TRY" /\ (phase = "CONFIRM" <=> success)
    BY <1>1 DEF FullInv, EndInv, Ran
  <2>3. CASE success
    <3>1. ConfirmReturned = tried
      BY <2>2, <2>3 DEF ConfirmReturned
    <3>2. Participants \ Optional \subseteq tried /\ \A p \in Participants : pstatus[p] # "CANCEL"
      BY <1>1, <2>2, <2>3 DEF FullInv, Inv, LoopInv, ConfirmInv, Released
    <3> QED
      BY <2>1, <2>3, <3>1, <3>2
  <2>4. CASE ~ success
    <3>1. phase = "CANCEL"
      BY <1>1, <2>2, <2>4 DEF FullInv, Inv, LoopInv, LoopTypes, Phases
    <3>2. \A p \in HasCancel \ unreleased : p \in Participants /\ (p \in tried <=> pstatus[p] = "CANCEL")
      BY <1>1, <2>2, <3>1 DEF FullInv, Inv, LoopInv, CancelInv, Released
    <3> QED
      BY <2>1, <2>4, <3>2
  <2> QED
    BY <2>3, <2>4
<1>2. FullInv => Lockstep
  BY <1>1 DEF Lockstep
<1> QED
  BY <1>2, FullInvariant, PTL

(* mark_completed tells what happened: COMPLETED that all that hold a       *)
(* reservation confirmed it, FAILED that all were cancelled or given up.   *)
THEOREM RecordIsTruthful == Spec => []RecordTruthful
<1>1. FullInv => RecordTruthful
  <2> SUFFICES ASSUME FullInv
               PROVE  RecordTruthful
    OBVIOUS
  <2>1. ASSUME record = "COMPLETED", NEW p \in Participants
        PROVE  pstatus[p] = "CONFIRM" \/ (p \in Optional /\ pstatus[p] = "NONE")
    <3>1. phase = "CONFIRM" /\ todo = {}
      BY <2>1 DEF FullInv, EndInv
    <3> QED
      BY <3>1 DEF FullInv, StatusInv, Inv, LoopInv, ConfirmInv
  <2>2. ASSUME record = "FAILED", ~ cancelled, NEW p \in tried \cap HasCancel
        PROVE  pstatus[p] = "CANCEL" \/ p \in unreleased
    <3>1. phase = "CANCEL" /\ todo = {}
      BY <2>2 DEF FullInv, EndInv
    <3> QED
      BY <3>1 DEF FullInv, Inv, LoopInv, CancelInv, Released
  <2> QED
    BY <2>1, <2>2 DEF RecordTruthful
<1> QED
  BY <1>1, FullInvariant, PTL

-----------------------------------------------------------------------------
(* Types, and the retry budget.                                            *)

EngineTypes ==
  /\ pc \in {"on_start", "persist_state", "run", "on_completed", "mark_completed"} \cup Final
  /\ call \in {"idle", "running", "backoff"}
  /\ attempt \in Nat
  /\ record \in {"none", "IN_FLIGHT", "COMPLETED", "FAILED"}
  /\ cancelled \in BOOLEAN

\* A backoff leaves an attempt to spend.
BudgetInv ==
  /\ call = "running" => attempt <= Attempts[phase][Current]
  /\ call = "backoff" => attempt < Attempts[phase][Current]

TypeInv == EngineTypes /\ BudgetInv

LEMMA BudgetIsNat ==
  ASSUME LoopInv, todo # {}
  PROVE  Attempts[phase][Current] \in Nat \ {0}
<1>1. PICK c \in Participants : c = Current
  BY CurrentFacts DEF LoopInv, LoopTypes
<1>2. phase \in Phases
  BY DEF LoopInv, LoopTypes
<1> QED
  BY <1>1, <1>2

LEMMA EngineTypesStep ==
  ASSUME EngineTypes, [Next]_vars
  PROVE  EngineTypes'
<1>1. CASE UNCHANGED vars
  BY <1>1 DEF EngineTypes, vars, engineVars, callVars
<1>2. CASE OnStart \/ PersistState
  BY <1>2 DEF EngineTypes, OnStart, PersistState, callVars, Final
<1>3. CASE StartCall \/ RetryCall
  BY <1>3 DEF EngineTypes, StartCall, RetryCall, engineVars
<1>4. CASE CallReturns
  BY <1>4 DEF EngineTypes, CallReturns, engineVars
<1>5. CASE CallRaises \/ CallTimesOut
  BY <1>5 DEF EngineTypes, CallRaises, CallTimesOut, CallFailed, engineVars
<1>6. CASE EndTry
  BY <1>6 DEF EngineTypes, EndTry, engineVars, callVars
<1>7. CASE EndConfirm \/ EndCancel
  BY <1>7 DEF EngineTypes, EndConfirm, EndCancel, callVars
<1>8. CASE OnCompleted \/ MarkCompleted
  BY <1>8 DEF EngineTypes, OnCompleted, MarkCompleted, callVars, Final
<1>9. CASE CallerCancel
  BY <1>9 DEF EngineTypes, CallerCancel, Final
<1> QED
  BY <1>1, <1>2, <1>3, <1>4, <1>5, <1>6, <1>7, <1>8, <1>9 DEF Next, Step, Orchestrate

LEMMA BudgetStep ==
  ASSUME Inv, TypeInv, [Next]_vars
  PROVE  BudgetInv'
<1>1. CASE call' = "idle"
  BY <1>1 DEF BudgetInv
<1>2. CASE UNCHANGED <<phase, todo, callVars>>
  <2>1. Current' = Current
    BY <1>2 DEF Current
  <2> QED
    BY <1>2, <2>1 DEF TypeInv, BudgetInv, callVars
<1>3. ASSUME StartCall \/ RetryCall \/ (CallFailed /\ call' = "backoff" /\ attempt' = attempt),
             todo # {}
      PROVE  BudgetInv'
  <2>1. UNCHANGED <<phase, todo>>
    BY <1>3 DEF StartCall, RetryCall, CallFailed, loopVars
  <2>2. Current' = Current
    BY <2>1 DEF Current
  <2>3. Attempts[phase][Current] \in Nat \ {0} /\ attempt \in Nat
    BY <1>3, BudgetIsNat DEF Inv, TypeInv, EngineTypes
  <2>4. CASE StartCall
    BY <2>1, <2>2, <2>3, <2>4 DEF StartCall, BudgetInv
  <2>5. CASE RetryCall
    BY <2>1, <2>2, <2>3, <2>5 DEF RetryCall, TypeInv, BudgetInv
  <2>6. CASE CallFailed /\ call' = "backoff" /\ attempt' = attempt
    BY <2>1, <2>2, <2>3, <2>6 DEF CallFailed, BudgetInv
  <2> QED
    BY <1>3, <2>4, <2>5, <2>6
<1>4. CASE CallRaises \/ CallTimesOut
  BY <1>1, <1>3, <1>4 DEF CallRaises, CallTimesOut, CallFailed, Inv, CallInv
<1>5. CASE StartCall \/ RetryCall
  BY <1>3, <1>5 DEF StartCall, RetryCall, Inv, CallInv
<1>6. CASE CallReturns \/ CallerCancel
  BY <1>1, <1>6 DEF CallReturns, CallerCancel
<1>7. CASE EndTry
  BY <1>1, <1>7 DEF EndTry, Inv, CallInv, callVars
<1>8. CASE \/ OnStart \/ PersistState \/ EndConfirm \/ EndCancel \/ OnCompleted
           \/ MarkCompleted \/ UNCHANGED vars
  BY <1>2, <1>8 DEF OnStart, PersistState, EndConfirm, EndCancel, OnCompleted, MarkCompleted,
                    vars, loopVars
<1> QED
  BY <1>4, <1>5, <1>6, <1>7, <1>8 DEF Next, Step, Orchestrate

(* No invocation exceeds its retry budget, and every variable keeps its     *)
(* type.                                                                   *)
THEOREM TypeCorrect == Spec => []TypeOK
<1>1. Init => TypeInv
  <2>1. Init => pc = "on_start" /\ call = "idle" /\ attempt = 0 /\ record = "none" /\ cancelled = FALSE
    BY DEF Init
  <2>2. Init => EngineTypes
    <3> SUFFICES ASSUME Init
                 PROVE  EngineTypes
      OBVIOUS
    <3>1. cancelled \in BOOLEAN
      BY <2>1, Zenon
    <3>2. attempt \in Nat
      BY <2>1
    <3> QED
      BY <2>1, <3>1, <3>2 DEF EngineTypes
  <2>3. Init => BudgetInv
    BY <2>1 DEF BudgetInv
  <2> QED
    BY <2>2, <2>3 DEF TypeInv
<1>2. FullInv /\ TypeInv /\ [Next]_vars => TypeInv'
  BY EngineTypesStep, BudgetStep DEF FullInv, TypeInv
<1>3. FullInv /\ TypeInv => TypeOK
  <2> SUFFICES ASSUME FullInv, TypeInv
               PROVE  TypeOK
    OBVIOUS
  <2>1. call # "idle" => todo # {} /\ attempt <= Attempts[phase][Current]
    <3>1. todo # {} => Attempts[phase][Current] \in Nat
      BY BudgetIsNat DEF FullInv, Inv
    <3> QED
      BY <3>1 DEF FullInv, Inv, CallInv, TypeInv, EngineTypes, BudgetInv
  <2> QED
    BY <2>1 DEF TypeOK, FullInv, Inv, LoopInv, LoopTypes, EffectInv, EffectTypes, EndInv,
                TypeInv, EngineTypes
<1> QED
  BY <1>1, <1>2, <1>3, FullInvariant, PTL DEF Spec
===============================================================================
