-------------------------- MODULE Resilience_proofs --------------------------
(***************************************************************************)
(* Proofs about CircuitBreaker and Resilience, for any callers and threads *)
(* and any values of the limits.  The circuit, the limiter and the         *)
(* bulkhead have an inductive invariant each; they meet in what a step of  *)
(* Next does to all three.                                                 *)
(***************************************************************************)
EXTENDS Resilience, FiniteSetTheorems, TLAPS

USE BreakerAssumption, LimitsAssumption

(* _failure_count is the streak, and a sleeping call has an attempt left.  *)
CircuitOK ==
  /\ TypeOK
  /\ failures = streak
  /\ OpenIffStreak
  /\ \A c \in Callers : call[c].pc = "sleeping" => call[c].attempt < MaxAttempts

(* What the bucket would hold now, and what somebody is about to store in  *)
(* it, is covered by what has leaked out of the debt.                      *)
Budget ==
  /\ debt + Refilled <= Capacity
  /\ \A x \in Refilling : debt + computed[x] <= Capacity

Places ==
  /\ wrap \in [Callers -> {"out", "refilling", "token", "entering", "in", "fallback"}]
  /\ thread \in [Threads -> {"idle", "refilling", "token", "running"}]

LimiterOK ==
  /\ tokens \in 0..Capacity /\ since \in 0..Capacity
  /\ debt \in 0..Capacity + 1 /\ raced \in BOOLEAN
  /\ Places
  /\ computed \in [Callers \cup Threads -> 0..Capacity]
  /\ ~raced => Budget

(* One coroutine at a time is within the decorators, and what its check has *)
(* found still holds of the coroutines, and of all but for the limit itself.*)
OneInDecorators ==
  \A c, d \in Callers :
    {wrap[c], wrap[d]} \subseteq {"refilling", "token", "entering"} => c = d

Room == Cardinality(Inside) < MaxConcurrent /\ active <= MaxConcurrent

BulkheadOK ==
  /\ Places
  /\ SlotsKept
  /\ OneInDecorators
  /\ \A c \in Callers : wrap[c] = "entering" => Room

IInv == CircuitOK /\ LimiterOK /\ BulkheadOK

-----------------------------------------------------------------------------
(* The circuit.                                                            *)

ClientStep(c) ==
  \/ Invoke(c) \/ Send(c) \/ Reject(c) \/ Wake(c)
  \/ Succeed(c) \/ Fail(c) \/ Cancel(c)

(* A call that a step of the client changes, and the others.               *)
LEMMA CallAfter ==
  ASSUME CircuitOK, NEW c \in Callers, ClientStep(c)
  PROVE  /\ call' \in [Callers -> [pc : {"idle", "attempt", "request", "sleeping"},
                                   attempt : 0..MaxAttempts, probe : BOOLEAN]]
         /\ \A d \in Callers : call'[d].pc = "sleeping" => call'[d].attempt < MaxAttempts
         /\ \A d \in Callers \ {c} : call'[d] = call[d]
<1> DEFINE Call == [pc : {"idle", "attempt", "request", "sleeping"},
                    attempt : 0..MaxAttempts, probe : BOOLEAN]
<1>0. /\ call \in [Callers -> Call]
      /\ \A d \in Callers : call[d].pc = "sleeping" => call[d].attempt < MaxAttempts
  BY DEF CircuitOK, TypeOK
<1>a. ASSUME NEW p \in {"idle", "attempt", "request", "sleeping"}, NEW b \in BOOLEAN,
             Goes(c, p, b), p = "sleeping" => call[c].attempt < MaxAttempts
      PROVE  /\ call' \in [Callers -> Call]
             /\ \A d \in Callers : call'[d].pc = "sleeping" => call'[d].attempt < MaxAttempts
             /\ \A d \in Callers \ {c} : call'[d] = call[d]
  <2>1. call' = [call EXCEPT ![c] = [@ EXCEPT !.pc = p, !.probe = b]]
    BY <1>a DEF Goes
  <2>2. call[c] \in Call /\ [call[c] EXCEPT !.pc = p, !.probe = b] \in Call
    BY <1>0
  <2>3. /\ call'[c] = [call[c] EXCEPT !.pc = p, !.probe = b]
        /\ \A d \in Callers \ {c} : call'[d] = call[d]
    BY <1>0, <2>1
  <2>4. call' \in [Callers -> Call]
    BY <1>0, <2>1, <2>2
  <2>5. call'[c].pc = p /\ call'[c].attempt = call[c].attempt
    BY <2>2, <2>3
  <2> QED
    BY <1>0, <1>a, <2>3, <2>4, <2>5
<1>1. CASE Invoke(c)
  BY <1>1 DEF Invoke, CircuitOK, TypeOK
<1>2. CASE Send(c)
  BY <1>2, <1>a DEF Send
<1>3. CASE Reject(c)
  BY <1>3, <1>a DEF Reject, AfterException
<1>4. CASE Wake(c)
  BY <1>4 DEF Wake, CircuitOK, TypeOK
<1>5. CASE Succeed(c)
  BY <1>5, <1>a DEF Succeed
<1>6. CASE Fail(c)
  BY <1>6, <1>a DEF Fail, AfterException
<1>7. CASE Cancel(c)
  BY <1>7, <1>a DEF Cancel
<1> QED
  BY <1>1, <1>2, <1>3, <1>4, <1>5, <1>6, <1>7 DEF ClientStep

(* Only the end of a request changes the circuit itself.                   *)
LEMMA CircuitKept ==
  ASSUME CircuitOK, NEW c \in Callers, ClientStep(c)
  PROVE  CircuitOK'
<1>1. CASE UNCHANGED <<state, failures, age, streak>>
  BY <1>1, CallAfter DEF CircuitOK, TypeOK, OpenIffStreak
<1>2. CASE Succeed(c)
  BY <1>2, CallAfter DEF Succeed, OnSuccess, Never, CircuitOK, TypeOK, OpenIffStreak
<1>3. CASE Fail(c)
  <2>1. /\ failures \in 0..Threshold /\ streak = failures
        /\ state \in {"CLOSED", "OPEN"} /\ (state = "OPEN" <=> streak = Threshold)
    BY DEF CircuitOK, TypeOK, OpenIffStreak
  <2>2. /\ failures' = CapAt(failures + 1, Threshold)
        /\ streak' = CapAt(streak + 1, Threshold)
        /\ state' = IF failures + 1 >= Threshold THEN "OPEN" ELSE state
        /\ age' = 0
    BY <1>3 DEF Fail, OnFailure
  <2>3. /\ failures' \in 0..Threshold /\ streak' = failures'
        /\ state' \in {"CLOSED", "OPEN"} /\ (state' = "OPEN" <=> streak' = Threshold)
        /\ age' \in 0..Recovery
    BY <2>1, <2>2 DEF CapAt
  <2> QED
    BY <2>3, CallAfter DEF CircuitOK, TypeOK, OpenIffStreak
<1> QED
  BY <1>1, <1>2, <1>3 DEF ClientStep, Invoke, Send, Reject, Wake, Cancel

-----------------------------------------------------------------------------
(* The rate limiter.                                                       *)

LEMMA RefilledRange ==
  ASSUME tokens \in 0..Capacity, since \in 0..Capacity
  PROVE  /\ since * Refill \in Nat
         /\ Refilled \in 0..Capacity
         /\ tokens <= Refilled
         /\ since = Capacity => Refilled = Capacity
<1>1. since * Refill \in Nat /\ Capacity * Refill >= Capacity
  OBVIOUS
<1> QED
  BY <1>1 DEF Refilled, Bucket, CapAt

(* Whoever stores what it computed within the budget leaves the limiter    *)
(* within it, with a token taken or not.                                   *)
LEMMA TakeKept ==
  ASSUME LimiterOK, NEW x \in Refilling, Take(x), Places', Refilling' \subseteq Refilling \ {x}
  PROVE  LimiterOK'
<1> DEFINE level == computed[x]
<1>0. /\ x \in Callers \cup Threads /\ level \in 0..Capacity
      /\ ~raced => debt + level <= Capacity
  BY DEF Refilling, LimiterOK, Budget
<1>5. /\ computed' \in [Callers \cup Threads -> 0..Capacity]
      /\ \A y \in Refilling' : computed'[y] = computed[y]
  <2>1. computed' = [computed EXCEPT ![x] = 0] /\ 0 \in 0..Capacity
    BY DEF Take
  <2>2. Refilling' \subseteq Callers \cup Threads
    BY DEF Refilling
  <2> QED
    BY <2>1, <2>2 DEF LimiterOK
<1>1. /\ tokens' \in 0..Capacity /\ since' = 0 /\ since' \in 0..Capacity
      /\ debt' \in 0..Capacity + 1
  <2>1. /\ tokens \in 0..Capacity /\ debt \in 0..Capacity + 1
    BY DEF LimiterOK
  <2>2. CASE level >= Cost
    BY <1>0, <2>1, <2>2 DEF Take, HasToken, CapAt
  <2>3. CASE ~(level >= Cost)
    BY <1>0, <2>1, <2>3 DEF Take, HasToken
  <2> QED
    BY <2>2, <2>3
<1>4. raced' \in BOOLEAN
  BY DEF Take, LimiterOK
<1>2. Refilled' = tokens'
  <2>1. since' * Refill = 0
    BY <1>1
  <2>2. Refilled' = CapAt(tokens' + since' * Refill, Capacity)
    BY DEF Refilled, Bucket
  <2>3. CapAt(tokens', Capacity) = tokens'
    BY <1>1 DEF CapAt
  <2> QED
    BY <1>1, <2>1, <2>2, <2>3
<1>3. ASSUME ~raced'
      PROVE  Budget'
  <2>1. ~raced /\ Budget /\ debt \in 0..Capacity + 1
    BY <1>3 DEF Take, LimiterOK
  <2>2. CASE level >= Cost
    <3>1. Refilling' = {}
      BY <1>3, <2>2 DEF Take, HasToken
    <3>2. debt' + tokens' <= Capacity
      BY <1>0, <2>1, <2>2 DEF Take, HasToken, CapAt
    <3> QED
      BY <1>2, <3>1, <3>2 DEF Budget
  <2>3. CASE ~(level >= Cost)
    <3>1. debt' = debt /\ tokens' = level
      BY <2>3 DEF Take, HasToken
    <3>2. debt' + tokens' <= Capacity
      BY <1>0, <2>1, <3>1
    <3>3. \A y \in Refilling' : debt' + computed'[y] <= Capacity
      BY <1>5, <2>1, <3>1 DEF Budget
    <3> QED
      BY <1>2, <3>2, <3>3 DEF Budget
  <2> QED
    BY <2>2, <2>3
<1> QED
  BY <1>1, <1>3, <1>4, <1>5 DEF LimiterOK

LEMMA ClockKept ==
  ASSUME LimiterOK, Clock
  PROVE  LimiterOK'
<1>1. /\ tokens \in 0..Capacity /\ since \in 0..Capacity /\ debt \in 0..Capacity + 1
      /\ tokens' = tokens /\ raced' = raced
  BY DEF LimiterOK, Clock
<1>2. /\ since' \in 0..Capacity
      /\ since' = IF since + 1 < Capacity THEN since + 1 ELSE Capacity
      /\ debt' \in 0..Capacity + 1
      /\ debt' = IF debt < Refill THEN 0 ELSE debt - Refill
  BY <1>1 DEF Clock, Bucket, CapAt
<1>3. Refilling' = {}
  BY DEF Clock, Refilling
<1>4. ASSUME ~raced
      PROVE  debt' + Refilled' <= Capacity
  <2>1. debt + Refilled <= Capacity
    BY <1>4 DEF LimiterOK, Budget
  <2>2. CASE since = Capacity
    <3>1. debt = 0
      BY <1>1, <2>1, <2>2, RefilledRange
    <3>2. debt' = 0 /\ since' = since
      BY <1>1, <1>2, <2>2, <3>1
    <3> QED
      BY <1>1, <2>1, <3>1, <3>2 DEF Refilled, Bucket
  <2>3. CASE since # Capacity
    <3>1. since' = since + 1
      BY <1>1, <1>2, <2>3
    <3>2. since' * Refill = since * Refill + Refill
      BY <1>1, <3>1
    <3>3. since * Refill \in Nat
      BY <1>1
    <3>4. Refilled' = CapAt(tokens + (since * Refill + Refill), Capacity)
      BY <1>1, <3>2 DEF Refilled, Bucket
    <3>5. Refilled = CapAt(tokens + since * Refill, Capacity)
      BY DEF Refilled, Bucket
    <3> QED
      BY <1>1, <1>2, <2>1, <3>3, <3>4, <3>5 DEF CapAt
  <2> QED
    BY <2>2, <2>3
<1>5. ~raced' => Budget'
  BY <1>1, <1>3, <1>4 DEF Budget
<1> QED
  BY <1>1, <1>2, <1>5 DEF LimiterOK, Clock, Places

(* Steps that leave the bucket alone. *)
LEMMA LimiterStutters ==
  ASSUME LimiterOK, UNCHANGED limiterVars, Places', Refilling' \subseteq Refilling
  PROVE  LimiterOK'
<1>1. Refilled' = Refilled
  BY DEF Refilled, Bucket, limiterVars
<1> QED
  BY <1>1 DEF LimiterOK, Budget, limiterVars

LEMMA ReadsKept ==
  ASSUME LimiterOK, NEW x \in Callers \cup Threads, Reads(x), Places',
         Refilling' \subseteq Refilling \cup {x}
  PROVE  LimiterOK'
<1>1. Refilled \in 0..Capacity
  BY RefilledRange DEF LimiterOK
<1>2. /\ computed' \in [Callers \cup Threads -> 0..Capacity]
      /\ computed'[x] = Refilled
      /\ \A y \in (Callers \cup Threads) \ {x} : computed'[y] = computed[y]
  BY <1>1 DEF Reads, LimiterOK
<1>3. UNCHANGED <<tokens, since, debt, raced>>
  BY DEF Reads
<1>4. Refilled' = Refilled
  BY <1>3 DEF Refilled, Bucket
<1>5. Refilling' \subseteq Callers \cup Threads
  BY DEF Refilling
<1>6. Budget => Budget'
  BY <1>2, <1>3, <1>4, <1>5 DEF Budget
<1> QED
  BY <1>2, <1>3, <1>6 DEF LimiterOK

-----------------------------------------------------------------------------
(* The bulkhead.                                                           *)

LEMMA SetsFinite ==
  /\ IsFiniteSet(Inside) /\ Cardinality(Inside) \in Nat
  /\ IsFiniteSet(Running) /\ Cardinality(Running) \in Nat
<1>1. Inside \in SUBSET Callers /\ Running \in SUBSET Threads
  BY DEF Inside, Running
<1>2. IsFiniteSet(Inside) /\ IsFiniteSet(Running)
  BY <1>1, FS_Subset
<1> QED
  BY <1>2, FS_CardinalityType

LEMMA SlotTaken ==
  ASSUME BulkheadOK, NEW c \in Callers, Enter(c), CircuitOK
  PROVE  BulkheadOK'
<1>1. /\ wrap' = [wrap EXCEPT ![c] = "in"] /\ wrap[c] = "entering"
      /\ active' = active + 1 /\ slots' = slots - 1
      /\ active <= MaxConcurrent /\ Cardinality(Inside) < MaxConcurrent
      /\ thread' = thread
      /\ call' = [call EXCEPT ![c] = [pc |-> "attempt", attempt |-> 1, probe |-> FALSE]]
  BY DEF Enter, Invoke, BulkheadOK, Room
<1>2. Inside' = Inside \cup {c} /\ c \notin Inside /\ Running' = Running
  BY <1>1 DEF Inside, Running, BulkheadOK, Places
<1>3. Cardinality(Inside') = Cardinality(Inside) + 1
  BY <1>2, SetsFinite, FS_AddElement
<1>4. \A d \in Callers : wrap'[d] = "in" <=> call'[d].pc # "idle"
  BY <1>1 DEF BulkheadOK, Places, SlotsKept, CircuitOK, TypeOK
<1>5. active \in Int /\ slots \in Int
  BY SetsFinite DEF BulkheadOK, SlotsKept
<1>6. /\ active' = Cardinality(Inside') + Cardinality(Running')
      /\ slots' = MaxConcurrent - Cardinality(Inside')
      /\ Cardinality(Inside') <= MaxConcurrent
      /\ active' <= MaxConcurrent + 1
  BY <1>1, <1>2, <1>3, <1>5, SetsFinite DEF BulkheadOK, SlotsKept
<1>7. Places'
  BY <1>1 DEF BulkheadOK, Places
<1>8. \A d \in Callers : wrap'[d] \notin {"refilling", "token", "entering"}
  BY <1>1 DEF BulkheadOK, Places, OneInDecorators
<1> QED
  BY <1>4, <1>6, <1>7, <1>8 DEF BulkheadOK, SlotsKept, OneInDecorators

(* A call that was under way is over and gives its slot back.              *)
LEMMA SlotReturned ==
  ASSUME BulkheadOK, NEW c \in Callers, NEW to \in {"out", "fallback"}, Leaves(c, to),
         call[c].pc # "idle", call'[c].pc = "idle",
         \A d \in Callers \ {c} : call'[d] = call[d]
  PROVE  BulkheadOK'
<1>1. /\ wrap' = [wrap EXCEPT ![c] = to] /\ wrap[c] = "in" /\ LoopIsFree
      /\ active' = active - 1 /\ slots' = slots + 1 /\ thread' = thread
  BY DEF Leaves, BulkheadOK, SlotsKept
<1>2. Inside' = Inside \ {c} /\ c \in Inside /\ Running' = Running
  BY <1>1 DEF Inside, Running, BulkheadOK, Places
<1>3. Cardinality(Inside') = Cardinality(Inside) - 1
  BY <1>2, SetsFinite, FS_RemoveElement
<1>4. \A d \in Callers : wrap'[d] = "in" <=> call'[d].pc # "idle"
  BY <1>1 DEF BulkheadOK, Places, SlotsKept
<1>5. active \in Int /\ slots \in Int
  BY SetsFinite DEF BulkheadOK, SlotsKept
<1>6. /\ active' = Cardinality(Inside') + Cardinality(Running')
      /\ slots' = MaxConcurrent - Cardinality(Inside')
      /\ Cardinality(Inside') <= MaxConcurrent
      /\ active' <= MaxConcurrent + 1
  BY <1>1, <1>2, <1>3, <1>5, SetsFinite DEF BulkheadOK, SlotsKept
<1>7. Places'
  BY <1>1 DEF BulkheadOK, Places
<1>8. \A d \in Callers : wrap'[d] \notin {"refilling", "token", "entering"}
  BY <1>1 DEF BulkheadOK, Places, LoopIsFree
<1> QED
  BY <1>4, <1>6, <1>7, <1>8 DEF BulkheadOK, SlotsKept, OneInDecorators

(* Steps that neither take nor return a slot.                              *)
LEMMA SlotsStutter ==
  ASSUME BulkheadOK, UNCHANGED bulkheadVars, Running' = Running, Inside' = Inside,
         Places', OneInDecorators',
         \A d \in Callers : wrap'[d] = "entering" =>
                               wrap[d] = "entering" \/ active < MaxConcurrent,
         \A d \in Callers : call'[d].pc = "idle" <=> call[d].pc = "idle"
  PROVE  BulkheadOK'
<1>1. \A d \in Callers : wrap'[d] = "in" <=> wrap[d] = "in"
  BY DEF Inside
<1>2. active < MaxConcurrent => Room
  BY SetsFinite DEF BulkheadOK, SlotsKept, Room
<1>3. Room => Room'
  BY DEF Room, bulkheadVars
<1>4. SlotsKept'
  BY <1>1 DEF BulkheadOK, SlotsKept, bulkheadVars
<1> QED
  BY <1>2, <1>3, <1>4 DEF BulkheadOK

(* A plain function is counted while it runs, and only then.               *)
LEMMA PlainCounted ==
  ASSUME BulkheadOK, NEW t \in Threads, PlainEnter(t) \/ PlainEnds(t)
  PROVE  BulkheadOK'
<1>1. Inside' = Inside /\ call' = call /\ wrap' = wrap /\ slots' = slots
  BY DEF Inside, circuitVars, PlainEnter, PlainEnds
<1>2. active \in Int /\ MaxConcurrent \in Int
  BY SetsFinite DEF BulkheadOK, SlotsKept
<1>3. /\ active' = Cardinality(Inside) + Cardinality(Running')
      /\ active' <= MaxConcurrent + 1 /\ (active <= MaxConcurrent => active' <= MaxConcurrent)
  <2>1. CASE /\ thread' = [thread EXCEPT ![t] = "running"] /\ active' = active + 1
             /\ active < MaxConcurrent /\ thread[t] # "running"
    <3>1. Running' = Running \cup {t} /\ t \notin Running
      BY <2>1 DEF Running, BulkheadOK, Places
    <3>2. Cardinality(Running') = Cardinality(Running) + 1
      BY <3>1, SetsFinite, FS_AddElement
    <3> QED
      BY <1>2, <2>1, <3>2, SetsFinite DEF BulkheadOK, SlotsKept
  <2>2. CASE /\ thread' = [thread EXCEPT ![t] = "idle"] /\ UNCHANGED active
             /\ thread[t] # "running"
    <3>1. Running' = Running
      BY <2>2 DEF Running, BulkheadOK, Places
    <3> QED
      BY <2>2, <3>1 DEF BulkheadOK, SlotsKept
  <2>3. CASE PlainEnds(t)
    <3>1. Running' = Running \ {t} /\ t \in Running
      BY <2>3 DEF PlainEnds, Running, BulkheadOK, Places
    <3>2. Cardinality(Running') = Cardinality(Running) - 1
      BY <3>1, SetsFinite, FS_RemoveElement
    <3> QED
      BY <1>2, <2>3, <3>2, SetsFinite DEF PlainEnds, BulkheadOK, SlotsKept
  <2> QED
    BY <2>1, <2>2, <2>3 DEF PlainEnter
<1>4. Places' /\ OneInDecorators'
  BY <1>1 DEF BulkheadOK, Places, OneInDecorators, PlainEnter, PlainEnds
<1> QED
  BY <1>1, <1>3, <1>4 DEF BulkheadOK, SlotsKept, Room

-----------------------------------------------------------------------------
(* All together.                                                           *)

LEMMA InitInv == Init => IInv
<1> SUFFICES ASSUME Init PROVE IInv
  OBVIOUS
<1>1. CircuitOK
  BY DEF Init, CircuitInit, CircuitOK, TypeOK, OpenIffStreak
<1>2. LimiterOK
  <2>1. Refilling = {}
    BY DEF Init, Refilling
  <2>2. Refilled = Capacity
    <3>1. since * Refill = 0
      BY DEF Init
    <3> QED
      BY <3>1 DEF Init, Refilled, Bucket, CapAt
  <2>3. Budget
    BY <2>1, <2>2 DEF Init, Budget
  <2>4. Places /\ computed \in [Callers \cup Threads -> 0..Capacity]
    BY DEF Init, Places
  <2>5. tokens \in 0..Capacity /\ since \in 0..Capacity /\ debt \in 0..Capacity + 1
    BY DEF Init
  <2>6. raced \in BOOLEAN
    BY DEF Init
  <2> QED
    BY <2>3, <2>4, <2>5, <2>6 DEF LimiterOK
<1>3. BulkheadOK
  <2>1. Inside = {} /\ Running = {}
    BY DEF Init, Inside, Running
  <2>2. Cardinality(Inside) = 0 /\ Cardinality(Running) = 0
    BY <2>1, FS_EmptySet
  <2>3. SlotsKept
    BY <2>2 DEF Init, CircuitInit, SlotsKept
  <2> QED
    BY <1>2, <2>3 DEF Init, LimiterOK, BulkheadOK, OneInDecorators
<1> QED
  BY <1>1, <1>2, <1>3 DEF IInv

(* A step of the loop or of a thread that takes and returns no slot.       *)
LEMMA DecoratorStep ==
  ASSUME IInv, LimiterOK', CircuitOK', UNCHANGED bulkheadVars,
         Running' = Running, Inside' = Inside, OneInDecorators',
         \A d \in Callers : wrap'[d] = "entering" =>
                               wrap[d] = "entering" \/ active < MaxConcurrent,
         \A d \in Callers : call'[d].pc = "idle" <=> call[d].pc = "idle"
  PROVE  IInv'
<1>1. Places'
  BY DEF LimiterOK
<1> QED
  BY <1>1, SlotsStutter DEF IInv

(* A step inside the client that does not end the call.                    *)
LEMMA ClientStays ==
  ASSUME IInv, NEW c \in Callers, ClientStep(c), Stays,
         call[c].pc # "idle", call'[c].pc # "idle"
  PROVE  IInv'
<1>1. CircuitOK'
  BY CircuitKept DEF IInv
<1>2. LimiterOK'
  BY LimiterStutters DEF IInv, Stays, Refilling, LimiterOK, Places
<1>3. \A d \in Callers : call'[d].pc = "idle" <=> call[d].pc = "idle"
  BY CallAfter DEF IInv
<1> QED
  BY <1>1, <1>2, <1>3, DecoratorStep DEF IInv, BulkheadOK, OneInDecorators, Stays, Inside, Running

(* A step inside the client that ends the call.                            *)
LEMMA ClientLeaves ==
  ASSUME IInv, NEW c \in Callers, ClientStep(c), NEW to \in {"out", "fallback"},
         Leaves(c, to), call[c].pc # "idle", call'[c].pc = "idle"
  PROVE  IInv'
<1>1. CircuitOK'
  BY CircuitKept DEF IInv
<1>2. LimiterOK'
  BY LimiterStutters DEF IInv, Leaves, Refilling, LimiterOK, Places
<1>3. BulkheadOK'
  BY CallAfter, SlotReturned DEF IInv
<1> QED
  BY <1>1, <1>2, <1>3 DEF IInv

(* A step that leaves the client alone keeps what is said of it.           *)
LEMMA CircuitStutters ==
  ASSUME CircuitOK, UNCHANGED circuitVars
  PROVE  CircuitOK'
BY DEF CircuitOK, TypeOK, OpenIffStreak, circuitVars

(* A coroutine moves within the decorators, or out of them into the        *)
(* fallback or back.                                                       *)
LEMMA Moves ==
  ASSUME IInv, NEW c \in Callers, NEW to \in {"out", "refilling", "token", "entering", "fallback"},
         wrap' = [wrap EXCEPT ![c] = to], wrap[c] # "in",
         UNCHANGED <<circuitVars, bulkheadVars, thread>>,
         LimiterOK',
         LoopIsFree \/ wrap[c] \in {"refilling", "token", "entering"},
         to = "entering" => active < MaxConcurrent
  PROVE  IInv'
<1>1. CircuitOK'
  BY CircuitStutters DEF IInv
<1>2. Places
  BY DEF IInv, LimiterOK
<1>3. Inside' = Inside /\ Running' = Running /\ call' = call
  BY <1>2 DEF Inside, Running, Places, circuitVars
<1>4. OneInDecorators'
  BY <1>2 DEF IInv, BulkheadOK, OneInDecorators, LoopIsFree, Places
<1>5. \A d \in Callers : wrap'[d] = "entering" => wrap[d] = "entering" \/ active < MaxConcurrent
  BY <1>2 DEF Places
<1> QED
  BY <1>1, <1>3, <1>4, <1>5, DecoratorStep

(* A thread moves before its function starts.                              *)
LEMMA PlainMoves ==
  ASSUME IInv, NEW t \in Threads, NEW to \in {"idle", "refilling", "token"},
         thread' = [thread EXCEPT ![t] = to], thread[t] # "running",
         UNCHANGED <<circuitVars, bulkheadVars, wrap>>, LimiterOK'
  PROVE  IInv'
<1>1. CircuitOK'
  BY CircuitStutters DEF IInv
<1>2. Inside' = Inside /\ Running' = Running /\ call' = call
  BY DEF IInv, LimiterOK, Inside, Running, Places, circuitVars
<1> QED
  BY <1>1, <1>2, DecoratorStep DEF IInv, BulkheadOK, OneInDecorators

LEMMA NextInv == IInv /\ [Next]_vars => IInv'
<1> SUFFICES ASSUME IInv, [Next]_vars PROVE IInv'
  OBVIOUS
<1>0. LimiterOK /\ Places
  BY DEF IInv, LimiterOK
<1>1. ASSUME NEW c \in Callers, Begins(c) PROVE IInv'
  <2>1. Places' /\ Refilling' \subseteq Refilling \cup {c}
    BY <1>0, <1>1 DEF Begins, Places, Refilling
  <2>2. LimiterOK'
    BY <1>0, <1>1, <2>1, ReadsKept DEF Begins
  <2> QED
    BY <1>1, <2>2, Moves DEF Begins
<1>2. ASSUME NEW c \in Callers, RateLimited(c) PROVE IInv'
  <2>1. PICK to \in {"token", "fallback"} : wrap' = [wrap EXCEPT ![c] = to]
    BY <1>2 DEF RateLimited
  <2>2. Places' /\ c \in Refilling /\ Refilling' \subseteq Refilling \ {c}
    BY <1>0, <1>2, <2>1 DEF RateLimited, Places, Refilling
  <2>3. LimiterOK'
    BY <1>0, <1>2, <2>2, TakeKept DEF RateLimited
  <2> QED
    BY <1>2, <2>1, <2>3, Moves DEF RateLimited
<1>3. ASSUME NEW c \in Callers, BulkheadAsked(c) PROVE IInv'
  <2>1. PICK to \in {"entering", "fallback"} :
          wrap' = [wrap EXCEPT ![c] = to] /\ (to = "entering" => active < MaxConcurrent)
    BY <1>3 DEF BulkheadAsked
  <2>2. Places' /\ Refilling' \subseteq Refilling
    BY <1>0, <1>3, <2>1 DEF BulkheadAsked, Places, Refilling
  <2>3. LimiterOK'
    BY <1>0, <1>3, <2>2, LimiterStutters DEF BulkheadAsked
  <2> QED
    BY <1>3, <2>1, <2>3, Moves DEF BulkheadAsked
<1>4. ASSUME NEW c \in Callers, Enter(c) PROVE IInv'
  <2>1. CircuitOK'
    BY <1>4, CircuitKept DEF Enter, ClientStep, IInv
  <2>2. Places' /\ Refilling' \subseteq Refilling
    BY <1>0, <1>4 DEF Enter, Places, Refilling
  <2>3. LimiterOK'
    BY <1>0, <1>4, <2>2, LimiterStutters DEF Enter
  <2>4. BulkheadOK'
    BY <1>4, SlotTaken DEF IInv
  <2> QED
    BY <2>1, <2>3, <2>4 DEF IInv
<1>5. ASSUME NEW c \in Callers, ClientGoesOn(c) PROVE IInv'
  <2>1. call[c].pc # "idle" /\ call'[c].pc # "idle"
    BY <1>5 DEF ClientGoesOn, Send, Wake, Goes, IInv, CircuitOK, TypeOK
  <2> QED
    BY <1>5, <2>1, ClientStays DEF ClientGoesOn, ClientStep
<1>6. ASSUME NEW c \in Callers, ClientReturns(c) PROVE IInv'
  <2>1. call[c].pc # "idle" /\ call'[c].pc = "idle"
    BY <1>6 DEF ClientReturns, Succeed, Goes, IInv, CircuitOK, TypeOK
  <2> QED
    BY <1>6, <2>1, ClientLeaves DEF ClientReturns, ClientStep
<1>7. ASSUME NEW c \in Callers, ClientRaises(c) PROVE IInv'
  <2>1. ClientStep(c) /\ call[c].pc # "idle"
    BY <1>7 DEF ClientRaises, ClientStep, Fail, Reject
  <2>2. CASE call'[c].pc = "idle"
    BY <1>7, <2>1, <2>2, ClientLeaves DEF ClientRaises
  <2>3. CASE call'[c].pc # "idle"
    BY <1>7, <2>1, <2>3, ClientStays DEF ClientRaises
  <2> QED
    BY <2>2, <2>3
<1>8. ASSUME NEW c \in Callers, TimesOut(c) \/ Cancelled(c) PROVE IInv'
  <2>1. call[c].pc # "idle" /\ call'[c].pc = "idle" /\ ClientStep(c)
    BY <1>8 DEF TimesOut, Cancelled, ClientStep, Cancel, Goes, IInv, CircuitOK, TypeOK
  <2> QED
    BY <1>8, <2>1, ClientLeaves DEF TimesOut, Cancelled
<1>9. ASSUME NEW c \in Callers, FallbackEnds(c) PROVE IInv'
  <2>1. Places' /\ Refilling' \subseteq Refilling
    BY <1>0, <1>9 DEF FallbackEnds, Places, Refilling
  <2>2. LimiterOK'
    BY <1>0, <1>9, <2>1, LimiterStutters DEF FallbackEnds
  <2> QED
    BY <1>9, <2>2, Moves DEF FallbackEnds
<1>10. ASSUME NEW t \in Threads, PlainRefill(t) PROVE IInv'
  <2>1. Places' /\ Refilling' \subseteq Refilling \cup {t}
    BY <1>0, <1>10 DEF PlainRefill, Places, Refilling
  <2>2. LimiterOK'
    BY <1>0, <1>10, <2>1, ReadsKept DEF PlainRefill
  <2> QED
    BY <1>10, <2>2, PlainMoves DEF PlainRefill
<1>11. ASSUME NEW t \in Threads, PlainTake(t) PROVE IInv'
  <2>1. PICK to \in {"token", "idle"} : thread' = [thread EXCEPT ![t] = to]
    BY <1>11 DEF PlainTake
  <2>2. Places' /\ t \in Refilling /\ Refilling' \subseteq Refilling \ {t}
    BY <1>0, <1>11, <2>1 DEF PlainTake, Places, Refilling
  <2>3. LimiterOK'
    BY <1>0, <1>11, <2>2, TakeKept DEF PlainTake
  <2> QED
    BY <1>11, <2>1, <2>3, PlainMoves DEF PlainTake
<1>12. ASSUME NEW t \in Threads, PlainEnter(t) \/ PlainEnds(t) PROVE IInv'
  <2>1. CircuitOK'
    BY <1>12, CircuitStutters DEF PlainEnter, PlainEnds, IInv
  <2>2. Places' /\ Refilling' \subseteq Refilling
    BY <1>0, <1>12 DEF PlainEnter, PlainEnds, Refilling, Places
  <2>3. LimiterOK'
    BY <1>0, <1>12, <2>2, LimiterStutters DEF PlainEnter, PlainEnds
  <2>4. BulkheadOK'
    BY <1>12, PlainCounted DEF IInv
  <2> QED
    BY <2>1, <2>3, <2>4 DEF IInv
<1>13. CASE Clock
  <2>1. CircuitOK'
    BY <1>13 DEF Clock, Aged, CapAt, Never, IInv, CircuitOK, TypeOK, OpenIffStreak
  <2>2. LimiterOK'
    BY <1>0, <1>13, ClockKept
  <2> QED
    BY <1>13, <2>1, <2>2, DecoratorStep
       DEF Clock, Inside, Running, IInv, BulkheadOK, OneInDecorators
<1>14. CASE UNCHANGED vars
  <2>1. CircuitOK'
    BY <1>14, CircuitStutters DEF vars, IInv
  <2>2. LimiterOK'
    BY <1>0, <1>14, LimiterStutters DEF vars, Refilling, Places
  <2> QED
    BY <1>14, <2>1, <2>2, DecoratorStep
       DEF vars, circuitVars, Inside, Running, IInv, BulkheadOK, OneInDecorators
<1> QED
  BY <1>1, <1>2, <1>3, <1>4, <1>5, <1>6, <1>7, <1>8, <1>9, <1>10, <1>11, <1>12, <1>13, <1>14 DEF Next

LEMMA InvariantHolds == Spec => []IInv
BY InitInv, NextInv, PTL DEF Spec

-----------------------------------------------------------------------------
(* The circuit of a client is open exactly while the last failure_threshold *)
(* requests to end have failed, for any number of callers, any threshold    *)
(* and whatever the decorators cut short.                                   *)
THEOREM CircuitFollowsStreak == Spec => []OpenIffStreak
<1>1. IInv => OpenIffStreak
  BY DEF IInv, CircuitOK
<1> QED
  BY <1>1, InvariantHolds, PTL

(* The bulkhead's count and its semaphore say how many calls are under way: *)
(* each slot is given back exactly once, on every way out of the decorators,*)
(* and threads that start inside Bulkhead.acquire exceed the limit by one   *)
(* at most, however many they are.                                          *)
THEOREM SlotsComeBack == Spec => []SlotsKept
<1>1. IInv => SlotsKept
  BY DEF IInv, BulkheadOK
<1> QED
  BY <1>1, InvariantHolds, PTL

(* The token bucket keeps the documented rate for any rate and any burst,   *)
(* as long as no token is taken while a coroutine or the decorator of a     *)
(* plain function is between reading the bucket and storing it.             *)
THEOREM RateIsKept == Spec => []RateKept
<1>1. IInv => RateKept
  <2> SUFFICES ASSUME IInv, ~raced PROVE debt <= Capacity
    BY DEF RateKept
  <2>1. debt + Refilled <= Capacity /\ debt \in 0..Capacity + 1
    BY DEF IInv, LimiterOK, Budget
  <2>2. Refilled \in 0..Capacity
    BY RefilledRange DEF IInv, LimiterOK
  <2> QED
    BY <2>1, <2>2
<1> QED
  BY <1>1, InvariantHolds, PTL

(* The variables of the circuit and of the decorators keep their types.     *)
THEOREM TypesKept == Spec => [](TypeOK /\ LimitsOK)
<1>1. IInv => TypeOK /\ LimitsOK
  <2> SUFFICES ASSUME IInv PROVE TypeOK /\ LimitsOK
    OBVIOUS
  <2>1. active \in Nat /\ slots \in 0..MaxConcurrent
    BY SetsFinite DEF IInv, BulkheadOK, SlotsKept
  <2> QED
    BY <2>1 DEF IInv, CircuitOK, LimiterOK, Places, BulkheadOK, LimitsOK
<1> QED
  BY <1>1, InvariantHolds, PTL
=============================================================================
