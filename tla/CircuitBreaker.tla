---------------------------- MODULE CircuitBreaker ----------------------------
(***************************************************************************)
(* The resilience wrapper of a declarative HTTP client: tasks that call    *)
(* methods of one client bean, each call retried by RetryPolicy.execute,   *)
(* every attempt made through the one CircuitBreaker of the bean.          *)
(*                                                                         *)
(* The request is awaited between the check of the circuit and the report  *)
(* of its outcome, so requests that were let through under one state of    *)
(* the circuit end under another.                                          *)
(*                                                                         *)
(* Two quantities are cut off where the code stops to tell values apart:   *)
(* _failure_count at the threshold, and the time since _last_failure_time  *)
(* at the recovery timeout.                                                *)
(***************************************************************************)
EXTENDS Integers, FiniteSets

CONSTANTS
  Callers,      \* tasks that use the client, one call after the other
  Threshold,    \* failure_threshold
  Recovery,     \* recovery_timeout, in ticks
  MaxAttempts   \* max_attempts of the retry policy

ASSUME BreakerAssumption ==
  /\ IsFiniteSet(Callers)
  /\ Threshold \in Nat \ {0}
  /\ Recovery \in Nat
  /\ MaxAttempts \in Nat \ {0}

VARIABLES
  state,     \* _state: "CLOSED" or "OPEN", HALF_OPEN is never stored
  failures,  \* _failure_count
  age,       \* time since _last_failure_time, Never if that is None
  call,      \* each caller: where it is, its attempt, and whether it probes
  streak     \* history: failed requests since the last successful one

circuitVars == <<state, failures, age, call, streak>>

Never == -1

CapAt(n, m) == IF n < m THEN n ELSE m

(* The state property: OPEN turns into HALF_OPEN when somebody looks. *)
Observed ==
  IF state = "OPEN" /\ age # Never /\ age >= Recovery THEN "HALF_OPEN" ELSE state

CircuitInit ==
  /\ state = "CLOSED"
  /\ failures = 0
  /\ age = Never
  /\ call = [c \in Callers |-> [pc |-> "idle", attempt |-> 0, probe |-> FALSE]]
  /\ streak = 0

Goes(c, to, probe) ==
  call' = [call EXCEPT ![c].pc = to, ![c].probe = probe]

Invoke(c) ==
  /\ call[c].pc = "idle"
  /\ call' = [call EXCEPT ![c] = [pc |-> "attempt", attempt |-> 1, probe |-> FALSE]]
  /\ UNCHANGED <<state, failures, age, streak>>

(* CircuitBreaker.call lets the request through. *)
Send(c) ==
  /\ call[c].pc = "attempt"
  /\ Observed # "OPEN"
  /\ Goes(c, "request", Observed = "HALF_OPEN")
  /\ UNCHANGED <<state, failures, age, streak>>

(* RetryPolicy: an exception is followed by a delay, or ends the call. *)
AfterException(c) ==
  Goes(c, IF call[c].attempt < MaxAttempts THEN "sleeping" ELSE "idle", FALSE)

(* CircuitBreakerException, which the retry policy retries like any other. *)
Reject(c) ==
  /\ call[c].pc = "attempt"
  /\ Observed = "OPEN"
  /\ AfterException(c)
  /\ UNCHANGED <<state, failures, age, streak>>

Wake(c) ==
  /\ call[c].pc = "sleeping"
  /\ call' = [call EXCEPT ![c].pc = "attempt", ![c].attempt = @ + 1]
  /\ UNCHANGED <<state, failures, age, streak>>

(* Fault: the count of failures survives a success. *)
OnSuccessKeepsCount ==
  /\ state' = "CLOSED"
  /\ age' = Never
  /\ UNCHANGED failures

OnSuccess ==
  /\ failures' = 0
  /\ state' = "CLOSED"
  /\ age' = Never

Succeed(c) ==
  /\ call[c].pc = "request"
  /\ OnSuccess
  /\ streak' = 0
  /\ Goes(c, "idle", FALSE)

(* Fault: the time of a failure is not kept. *)
OnFailureUntimed ==
  /\ failures' = CapAt(failures + 1, Threshold)
  /\ state' = IF failures + 1 >= Threshold THEN "OPEN" ELSE state
  /\ UNCHANGED age

(* _state is never HALF_OPEN, so the branch for it is not taken. *)
OnFailure ==
  /\ failures' = CapAt(failures + 1, Threshold)
  /\ age' = 0
  /\ state' = IF failures + 1 >= Threshold THEN "OPEN" ELSE state

Fail(c) ==
  /\ call[c].pc = "request"
  /\ OnFailure
  /\ streak' = CapAt(streak + 1, Threshold)
  /\ AfterException(c)

(* CancelledError is not an Exception: neither counter hears of it. *)
Cancel(c) ==
  /\ call[c].pc \in {"request", "sleeping"}
  /\ Goes(c, "idle", FALSE)
  /\ UNCHANGED <<state, failures, age, streak>>

\* What time does to the circuit.
Aged == IF age = Never THEN age ELSE CapAt(age + 1, Recovery)

-----------------------------------------------------------------------------
(* Types of the circuit and of the calls. *)
TypeOK ==
  /\ state \in {"CLOSED", "OPEN"}
  /\ failures \in 0..Threshold
  /\ age \in {Never} \cup 0..Recovery
  /\ call \in [Callers -> [pc : {"idle", "attempt", "request", "sleeping"},
                           attempt : 0..MaxAttempts, probe : BOOLEAN]]
  /\ streak \in 0..Threshold

(* The circuit is open exactly when the last Threshold requests to end all *)
(* failed, whoever sent them and whatever the circuit was at that time.    *)
OpenIffStreak == state = "OPEN" <=> streak = Threshold

(* "Allows a single probe request": at most one request that was sent in   *)
(* the half-open state is under way.                                       *)
SingleProbe ==
  Cardinality({c \in Callers : call[c].pc = "request" /\ call[c].probe}) <= 1

(* "OPEN -> HALF_OPEN: after recovery_timeout elapses": an open circuit    *)
(* does not close before.                                                  *)
OpenUntilRecovery ==
  [][state = "OPEN" /\ state' = "CLOSED" => age >= Recovery]_circuitVars
=============================================================================
