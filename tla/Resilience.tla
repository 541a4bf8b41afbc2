----------------------------- MODULE Resilience -----------------------------
(***************************************************************************)
(* The resilience decorators around the calls of one HTTP client:          *)
(*   @fallback @rate_limiter @bulkhead @time_limiter async def f(): ...    *)
(* where f calls a method of the client of module CircuitBreaker.  Plain   *)
(* functions that threads run share the bulkhead, and some of them the     *)
(* rate limiter, whose decorators treat a plain function differently.      *)
(*                                                                         *)
(* asyncio.wait_for cancels f at the await it is in, so a time-out and a   *)
(* cancellation do the same to the client and differ in what the decorators *)
(* outside make of them.  acquire() of the limiter and of the bulkhead     *)
(* never suspend: the lock is only held in between awaits, and a call that *)
(* found _active below the limit finds the semaphore free.  So no other    *)
(* coroutine runs before the call is in or turned away; but threads do.    *)
(* The interpreter may switch threads at the calls that the decorators     *)
(* make: between reading _tokens and storing it in _refill, before the     *)
(* bulkhead is asked, and between the check of _active and its increment   *)
(* in Bulkhead.acquire, which calls the semaphore in between.              *)
(***************************************************************************)
EXTENDS CircuitBreaker

CONSTANTS
  MaxConcurrent,     \* max_concurrent of the bulkhead
  Capacity,          \* max_tokens, in parts of a token
  Cost,              \* the parts of one token
  Refill,            \* refill_rate, parts per tick
  Threads,           \* threads that run plain functions with the bulkhead
  Limited            \* those of them whose functions have the rate limiter too

ASSUME LimitsAssumption ==
  /\ MaxConcurrent \in Nat
  /\ Capacity \in Nat /\ Cost \in Nat \ {0} /\ Refill \in Nat \ {0}
  /\ IsFiniteSet(Threads) /\ Limited \subseteq Threads
  /\ Callers \cap Threads = {}

VARIABLES
  tokens,    \* _tokens
  since,     \* time since _last_refill, up to what fills an empty bucket
  debt,      \* history: what was let through and has not leaked away since,
             \* cut off above Capacity
  raced,     \* history: a token was taken during another one's refill
  active,    \* _active
  slots,     \* the value of _semaphore
  wrap,      \* each caller: out of the decorators, where it is in them, in f,
             \* or in the fallback
  thread,    \* each thread: idle, refilling, with a token, or in its function
  computed   \* each of both: the tokens computed and not yet stored

limiterVars  == <<tokens, since, debt, raced, computed>>
bulkheadVars == <<active, slots>>
vars == <<circuitVars, limiterVars, bulkheadVars, thread, wrap>>

Bucket(n) == CapAt(n, Capacity)

Init ==
  /\ CircuitInit
  /\ tokens = Capacity /\ since = 0 /\ debt = 0 /\ raced = FALSE
  /\ active = 0 /\ slots = MaxConcurrent
  /\ wrap = [c \in Callers |-> "out"]
  /\ thread = [t \in Threads |-> "idle"]
  /\ computed = [x \in Callers \cup Threads |-> 0]

-----------------------------------------------------------------------------
(* The token bucket, for a caller or a thread x. *)

\* What _refill makes of _tokens.
Refilled == Bucket(tokens + since * Refill)

Refilling == {t \in Threads : thread[t] = "refilling"} \cup {c \in Callers : wrap[c] = "refilling"}

Reads(x) ==
  /\ computed' = [computed EXCEPT ![x] = Refilled]
  /\ UNCHANGED <<tokens, since, debt, raced>>

HasToken(x) == computed[x] >= Cost

(* Fault: the time of the refill is only kept when a token is taken. *)
TakeKeepsTime(x) ==
  /\ computed' = [computed EXCEPT ![x] = 0]
  /\ IF HasToken(x)
     THEN /\ tokens' = computed[x] - Cost /\ since' = 0
          /\ debt' = CapAt(debt + Cost, Capacity + 1)
          /\ raced' = (raced \/ Refilling \ {x} # {})
     ELSE tokens' = computed[x] /\ UNCHANGED <<since, debt, raced>>

\* The end of _refill stores what it computed, and x takes a token if it can.
Take(x) ==
  /\ since' = 0
  /\ computed' = [computed EXCEPT ![x] = 0]
  /\ IF HasToken(x)
     THEN /\ tokens' = computed[x] - Cost
          /\ debt' = CapAt(debt + Cost, Capacity + 1)
          /\ raced' = (raced \/ Refilling \ {x} # {})
     ELSE tokens' = computed[x] /\ UNCHANGED <<debt, raced>>

-----------------------------------------------------------------------------
(* The decorators of a coroutine function. *)

\* A coroutine between two awaits keeps the event loop to itself.
LoopIsFree == \A c \in Callers : wrap[c] \in {"out", "in", "fallback"}

Begins(c) ==
  /\ wrap[c] = "out" /\ LoopIsFree
  /\ wrap' = [wrap EXCEPT ![c] = "refilling"]
  /\ Reads(c)
  /\ UNCHANGED <<circuitVars, bulkheadVars, thread>>

RateLimited(c) ==
  /\ wrap[c] = "refilling"
  /\ Take(c)
  /\ wrap' = [wrap EXCEPT ![c] = IF HasToken(c) THEN "token" ELSE "fallback"]
  /\ UNCHANGED <<circuitVars, bulkheadVars, thread>>

\* The token of a call that the bulkhead turns away is spent.
BulkheadAsked(c) ==
  /\ wrap[c] = "token"
  /\ wrap' = [wrap EXCEPT ![c] = IF active < MaxConcurrent THEN "entering" ELSE "fallback"]
  /\ UNCHANGED <<circuitVars, limiterVars, bulkheadVars, thread>>

Enter(c) ==
  /\ wrap[c] = "entering"
  /\ slots > 0
  /\ active' = active + 1 /\ slots' = slots - 1
  /\ wrap' = [wrap EXCEPT ![c] = "in"]
  /\ Invoke(c)
  /\ UNCHANGED <<limiterVars, thread>>

\* The finally of the bulkhead, and where the call goes from there.
Leaves(c, to) ==
  /\ LoopIsFree
  /\ active' = active - 1 /\ slots' = slots + 1
  /\ wrap' = [wrap EXCEPT ![c] = to]
  /\ UNCHANGED <<limiterVars, thread>>

Stays == LoopIsFree /\ UNCHANGED <<limiterVars, bulkheadVars, thread, wrap>>

ClientGoesOn(c) == (Send(c) \/ Wake(c)) /\ Stays

ClientReturns(c) == Succeed(c) /\ Leaves(c, "out")

\* The exception of the last attempt comes out of f.
ClientRaises(c) ==
  /\ Fail(c) \/ Reject(c)
  /\ IF call'[c].pc = "idle" THEN Leaves(c, "fallback") ELSE Stays

(* Fault: a call that timed out keeps its slot. *)
TimesOutInSlot(c) ==
  /\ LoopIsFree /\ Cancel(c)
  /\ wrap' = [wrap EXCEPT ![c] = "fallback"]
  /\ UNCHANGED <<limiterVars, bulkheadVars, thread>>

\* OperationTimeoutException, which the fallback catches.
TimesOut(c) == Cancel(c) /\ Leaves(c, "fallback")

\* CancelledError, which it does not.
Cancelled(c) == Cancel(c) /\ Leaves(c, "out")

\* The fallback method ends in some way.
FallbackEnds(c) ==
  /\ wrap[c] = "fallback" /\ LoopIsFree
  /\ wrap' = [wrap EXCEPT ![c] = "out"]
  /\ UNCHANGED <<circuitVars, limiterVars, bulkheadVars, thread>>

-----------------------------------------------------------------------------
(* The decorators of a plain function, without lock and semaphore. *)

PlainRefill(t) ==
  /\ t \in Limited /\ thread[t] = "idle"
  /\ thread' = [thread EXCEPT ![t] = "refilling"]
  /\ Reads(t)
  /\ UNCHANGED <<circuitVars, bulkheadVars, wrap>>

PlainTake(t) ==
  /\ thread[t] = "refilling"
  /\ Take(t)
  /\ thread' = [thread EXCEPT ![t] = IF HasToken(t) THEN "token" ELSE "idle"]
  /\ UNCHANGED <<circuitVars, bulkheadVars, wrap>>

\* The bulkhead of a plain function counts the call or turns it away.
PlainEnter(t) ==
  /\ thread[t] = IF t \in Limited THEN "token" ELSE "idle"
  /\ IF active < MaxConcurrent
     THEN thread' = [thread EXCEPT ![t] = "running"] /\ active' = active + 1
     ELSE thread' = [thread EXCEPT ![t] = "idle"] /\ UNCHANGED active
  /\ UNCHANGED <<circuitVars, limiterVars, slots, wrap>>

PlainEnds(t) ==
  /\ thread[t] = "running"
  /\ thread' = [thread EXCEPT ![t] = "idle"]
  /\ active' = active - 1
  /\ UNCHANGED <<circuitVars, limiterVars, slots, wrap>>

-----------------------------------------------------------------------------
\* Time passes; no refill takes a whole tick.
Clock ==
  /\ Refilling = {}
  /\ age' = Aged
  /\ since' = Bucket(since + 1)
  /\ debt' = IF debt < Refill THEN 0 ELSE debt - Refill
  /\ UNCHANGED <<state, failures, call, streak, tokens, raced, computed, bulkheadVars, thread, wrap>>

\* What the event loop does for a caller when it is its turn.
Turn(c) == \/ Begins(c) \/ RateLimited(c) \/ BulkheadAsked(c) \/ Enter(c)
           \/ ClientGoesOn(c) \/ (Reject(c) /\ ClientRaises(c)) \/ FallbackEnds(c)

Next ==
  \/ \E c \in Callers : \/ Begins(c) \/ RateLimited(c) \/ BulkheadAsked(c) \/ Enter(c)
                        \/ ClientGoesOn(c) \/ ClientReturns(c) \/ ClientRaises(c)
                        \/ TimesOut(c) \/ Cancelled(c) \/ FallbackEnds(c)
  \/ \E t \in Threads : PlainRefill(t) \/ PlainTake(t) \/ PlainEnter(t) \/ PlainEnds(t)
  \/ Clock

Spec == Init /\ [][Next]_vars

(* Callers go on calling, and the event loop gives each its turn, between   *)
(* those of others; the clock advances, plain functions end, and a request *)
(* that is not cancelled for ever ends somehow.                            *)
FairSpec ==
  /\ Spec
  /\ WF_vars(Clock)
  /\ \A c \in Callers :
       /\ SF_vars(Turn(c))
       /\ SF_vars(ClientReturns(c) \/ (Fail(c) /\ ClientRaises(c)))
  /\ \A t \in Threads : WF_vars(PlainTake(t)) /\ WF_vars(PlainEnds(t))

-----------------------------------------------------------------------------
(* Types of the decorators' own state. *)
LimitsOK ==
  /\ tokens \in 0..Capacity /\ since \in 0..Capacity /\ debt \in 0..Capacity + 1 /\ raced \in BOOLEAN
  /\ active \in Nat /\ slots \in 0..MaxConcurrent
  /\ wrap \in [Callers -> {"out", "refilling", "token", "entering", "in", "fallback"}]
  /\ thread \in [Threads -> {"idle", "refilling", "token", "running"}]
  /\ computed \in [Callers \cup Threads -> 0..Capacity]

Inside  == {c \in Callers : wrap[c] = "in"}
Running == {t \in Threads : thread[t] = "running"}

(* Every slot belongs to a call that is under way and comes back when that *)
(* call ends, times out, is rejected by the circuit or is cancelled.       *)
(* Coroutines alone stay within the limit; a plain function that starts    *)
(* while the event loop is between check and increment lets them pass it   *)
(* by one, and never by more.                                              *)
SlotsKept ==
  /\ active = Cardinality(Inside) + Cardinality(Running)
  /\ slots = MaxConcurrent - Cardinality(Inside)
  /\ Cardinality(Inside) <= MaxConcurrent
  /\ active <= MaxConcurrent + 1
  /\ \A c \in Callers : wrap[c] = "in" <=> call[c].pc # "idle"

(* "Maximum number of concurrent calls allowed", whoever calls.            *)
LimitKept == active <= MaxConcurrent

(* A leaky bucket that loses Refill at each tick and receives each call    *)
(* that is let through never holds more than the burst: no window of time  *)
(* sees more than max_tokens + refill_rate * its length, though _tokens is *)
(* only brought up to date when somebody calls - as long as nobody takes a *)
(* token while somebody else computes, a coroutine or a thread.            *)
RateKept == raced \/ debt <= Capacity

(* "Thread safety is ensured via an asyncio.Lock": the same without that   *)
(* condition, which the wrapper of a plain function does not keep.         *)
RateKeptByAll == debt <= Capacity

(* When requests stop failing, the circuit closes for good, whatever the   *)
(* decorators turn away or cut short - as long as they go on letting       *)
(* callers in: plain functions may take every token.                       *)
Recovers ==
  /\ <>[][~ \E c \in Callers : Fail(c)]_vars
  /\ []<>(Inside # {})
  => <>[](state = "CLOSED")
=============================================================================
