--------------------------------- MODULE Tcc ---------------------------------
(***************************************************************************)
(* One execution of a Try-Confirm-Cancel transaction: TccEngine.execute    *)
(* and the three phases of TccExecutionOrchestrator.  Participants are     *)
(* called one at a time, each with retries and a timeout.                  *)
(*                                                                         *)
(* The registry sorts participants by their order: a participant is its    *)
(* position.  A method is only counted when it takes effect, and a method  *)
(* that is cut off by its timeout may have taken effect or not.            *)
(***************************************************************************)
EXTENDS Integers, FiniteSets

CONSTANTS
    Participants,  \* the positions 1..n
    Optional,      \* the optional participants
    HasConfirm,    \* the participants with a confirm_method
    HasCancel,     \* the participants with a cancel_method
    Attempts,      \* phase -> participant -> max(retry, 1)
    Timed,         \* the participants with a timeout
    Faulty,        \* the port calls that may raise
    CallerCancels  \* whether the caller may cancel execute()

Phases == {"TRY", "CONFIRM", "CANCEL"}
Ports == {"on_start", "persist_state", "on_completed", "mark_completed"}
NoOne == 0

ASSUME TccAssumption ==
    /\ Participants \subseteq Nat \ {NoOne}
    /\ IsFiniteSet(Participants)
    /\ Optional \subseteq Participants
    /\ HasConfirm \subseteq Participants
    /\ HasCancel \subseteq Participants
    /\ Timed \subseteq Participants
    /\ Attempts \in [Phases -> [Participants -> Nat \ {0}]]
    /\ \A p \in Participants \ HasConfirm : Attempts["CONFIRM"][p] = 1
    /\ Faulty \subseteq Ports
    /\ CallerCancels \in BOOLEAN

VARIABLES
    pc,         \* where TccEngine.execute is; "run" is the orchestrator
    phase,      \* ctx.current_phase
    todo,       \* the participants that the loop of the phase has still to visit
    call,       \* the invocation in progress: "idle", "running" or "backoff"
    attempt,    \* its attempt number
    tried,      \* tried_ids
    pstatus,    \* ctx.participant_statuses, "NONE" when absent
    failed,     \* failed_participant_id, or NoOne
    success,    \* the local of execute
    record,     \* the status of the persisted state, or "none"
    cancelled,  \* the caller has cancelled execute()
    effect,     \* phase -> participant -> how often the method took effect
    cutOff,     \* a method took effect although its call timed out
    unreleased  \* the participants whose CANCEL was given up

engineVars == <<pc, success, record, cancelled>>
callVars   == <<call, attempt>>
loopVars   == <<phase, todo, tried, pstatus, failed, unreleased>>
worldVars  == <<effect, cutOff>>
vars       == <<engineVars, callVars, loopVars, worldVars>>

Final == {"returned", "raised"}

\* Mutant: participants are cancelled in the order of TRY.
CurrentForward == CHOOSE p \in todo : \A q \in todo : p <= q

\* The participant whose turn it is: TRY and CONFIRM go forward, CANCEL back.
Current == CHOOSE p \in todo : \A q \in todo : IF phase = "CANCEL" THEN q <= p ELSE p <= q
-----------------------------------------------------------------------------
Init ==
    /\ pc = "on_start"
    /\ phase = "TRY"
    /\ todo = Participants
    /\ call = "idle"
    /\ attempt = 0
    /\ tried = {}
    /\ pstatus = [p \in Participants |-> "NONE"]
    /\ failed = NoOne
    /\ success = FALSE
    /\ record = "none"
    /\ cancelled = FALSE
    /\ effect = [ph \in Phases |-> [p \in Participants |-> 0]]
    /\ cutOff = FALSE
    /\ unreleased = {}

\* The two calls before the try block: an error there leaves execute at once.
OnStart ==
    /\ pc = "on_start"
    /\ \/ pc' = "persist_state"
       \/ "on_start" \in Faulty /\ pc' = "raised"
    /\ UNCHANGED <<success, record, cancelled, callVars, loopVars, worldVars>>

PersistState ==
    /\ pc = "persist_state"
    /\ \/ pc' = "run" /\ record' = "IN_FLIGHT"
       \/ "persist_state" \in Faulty /\ pc' = "raised" /\ UNCHANGED record
    /\ UNCHANGED <<success, cancelled, callVars, loopVars, worldVars>>
-----------------------------------------------------------------------------
(* One invocation: _invoke_with_retry_and_timeout.                         *)

StartCall ==
    /\ pc = "run"
    /\ call = "idle"
    /\ todo # {}
    /\ call' = "running"
    /\ attempt' = 1
    /\ UNCHANGED <<engineVars, loopVars, worldVars>>

\* Mutant: the attempts are not counted.
RetryCallForever ==
    /\ pc = "run"
    /\ call = "backoff"
    /\ call' = "running"
    /\ UNCHANGED <<engineVars, attempt, loopVars, worldVars>>

RetryCall ==
    /\ pc = "run"
    /\ call = "backoff"
    /\ call' = "running"
    /\ attempt' = attempt + 1
    /\ UNCHANGED <<engineVars, loopVars, worldVars>>

\* A missing confirm_method is a ValueError of invoke_confirm.
MethodExists == phase = "CONFIRM" => Current \in HasConfirm

CallReturns ==
    /\ pc = "run"
    /\ call = "running"
    /\ MethodExists
    /\ call' = "idle"
    /\ todo' = todo \ {Current}
    /\ pstatus' = [pstatus EXCEPT ![Current] = phase]
    /\ tried' = IF phase = "TRY" THEN tried \cup {Current} ELSE tried
    /\ effect' = [effect EXCEPT ![phase][Current] = @ + 1]
    /\ UNCHANGED <<engineVars, attempt, phase, failed, unreleased, cutOff>>

\* Mutant: a failed cancel ends the rollback.
GiveUpStopsCancel ==
    IF phase = "CANCEL" \/ (phase = "TRY" /\ Current \in Optional)
    THEN /\ todo' = IF phase = "CANCEL" THEN {} ELSE todo \ {Current}
         /\ unreleased' = IF phase = "CANCEL" THEN unreleased \cup {Current} ELSE unreleased
         /\ UNCHANGED <<phase, failed>>
    ELSE /\ failed' = Current
         /\ phase' = "CANCEL"
         /\ todo' = tried \cap HasCancel
         /\ UNCHANGED unreleased

\* The last attempt has failed.  In TRY an optional participant is skipped; in
\* TRY and CONFIRM the loop breaks and every participant that completed TRY is
\* cancelled; in CANCEL the error is logged and the loop goes on.
GiveUp ==
    IF phase = "CANCEL" \/ (phase = "TRY" /\ Current \in Optional)
    THEN /\ todo' = todo \ {Current}
         /\ unreleased' = IF phase = "CANCEL" THEN unreleased \cup {Current} ELSE unreleased
         /\ UNCHANGED <<phase, failed>>
    ELSE /\ failed' = Current
         /\ phase' = "CANCEL"
         /\ todo' = tried \cap HasCancel
         /\ UNCHANGED unreleased

CallFailed ==
    IF attempt < Attempts[phase][Current]
    THEN /\ call' = "backoff"
         /\ UNCHANGED <<phase, todo, failed, unreleased>>
    ELSE /\ call' = "idle"
         /\ GiveUp

CallRaises ==
    /\ pc = "run"
    /\ call = "running"
    /\ CallFailed
    /\ UNCHANGED <<engineVars, attempt, tried, pstatus, worldVars>>

CallTimesOut ==
    /\ pc = "run"
    /\ call = "running"
    /\ MethodExists
    /\ Current \in Timed
    /\ CallFailed
    /\ \/ /\ effect' = [effect EXCEPT ![phase][Current] = @ + 1]
          /\ cutOff' = TRUE
       \/ UNCHANGED worldVars
    /\ UNCHANGED <<engineVars, attempt, tried, pstatus>>
-----------------------------------------------------------------------------
(* The end of a phase.                                                     *)

EndTry ==
    /\ pc = "run"
    /\ phase = "TRY"
    /\ todo = {}
    /\ phase' = "CONFIRM"
    /\ todo' = tried
    /\ UNCHANGED <<engineVars, callVars, tried, pstatus, failed, unreleased, worldVars>>

EndConfirm ==
    /\ pc = "run"
    /\ phase = "CONFIRM"
    /\ todo = {}
    /\ success' = TRUE
    /\ pc' = "on_completed"
    /\ UNCHANGED <<record, cancelled, callVars, loopVars, worldVars>>

EndCancel ==
    /\ pc = "run"
    /\ phase = "CANCEL"
    /\ todo = {}
    /\ pc' = "on_completed"
    /\ UNCHANGED <<success, record, cancelled, callVars, loopVars, worldVars>>

OnCompleted ==
    /\ pc = "on_completed"
    /\ \/ pc' = "mark_completed"
       \/ "on_completed" \in Faulty /\ pc' = "raised"
    /\ UNCHANGED <<success, record, cancelled, callVars, loopVars, worldVars>>

MarkCompleted ==
    /\ pc = "mark_completed"
    /\ \/ /\ record' = IF success THEN "COMPLETED" ELSE "FAILED"
          /\ pc' = IF cancelled THEN "raised" ELSE "returned"
       \/ "mark_completed" \in Faulty /\ pc' = "raised" /\ UNCHANGED record
    /\ UNCHANGED <<success, cancelled, callVars, loopVars, worldVars>>

\* CancelledError is no Exception: the phases stop where they are, nothing is
\* cancelled, but the finally block of the engine is entered.
CallerCancel ==
    /\ CallerCancels
    /\ ~cancelled
    /\ pc \notin Final
    /\ cancelled' = TRUE
    /\ pc' = IF pc = "run" THEN "on_completed" ELSE "raised"
    /\ call' = "idle"
    /\ UNCHANGED <<success, record, attempt, loopVars, worldVars>>

\* TccResult.failed_participants(): _build_result leaves every error None.
FailedParticipants == {}
-----------------------------------------------------------------------------
Orchestrate == \/ StartCall
               \/ RetryCall
               \/ CallReturns
               \/ CallRaises
               \/ CallTimesOut
               \/ EndTry
               \/ EndConfirm
               \/ EndCancel

Step == \/ OnStart
        \/ PersistState
        \/ Orchestrate
        \/ OnCompleted
        \/ MarkCompleted

Next == Step \/ CallerCancel

Spec == Init /\ [][Next]_vars

\* Every awaited method returns, raises or is cut off: execute() waits for it
\* without any other limit.
FairSpec == Spec /\ WF_vars(Step)
-----------------------------------------------------------------------------
\* Type correctness; no invocation exceeds its retry budget.
TypeOK ==
    /\ pc \in {"on_start", "persist_state", "run", "on_completed", "mark_completed"} \cup Final
    /\ phase \in Phases
    /\ todo \subseteq Participants
    /\ call \in {"idle", "running", "backoff"}
    /\ attempt \in Nat
    /\ (call # "idle") => todo # {} /\ attempt <= Attempts[phase][Current]
    /\ tried \subseteq Participants
    /\ pstatus \in [Participants -> Phases \cup {"NONE"}]
    /\ failed \in Participants \cup {NoOne}
    /\ success \in BOOLEAN
    /\ record \in {"none", "IN_FLIGHT", "COMPLETED", "FAILED"}
    /\ cancelled \in BOOLEAN
    /\ effect \in [Phases -> [Participants -> Nat]]
    /\ cutOff \in BOOLEAN
    /\ unreleased \subseteq Participants

\* Nothing is confirmed, not even by a call that later times out, before every
\* mandatory participant has its reservation.
ConfirmOnlyAfterAllTried ==
    (\E p \in Participants : effect["CONFIRM"][p] > 0) => Participants \ Optional \subseteq tried

\* "Commit or roll back in lockstep": when execute returns, either every
\* reservation was confirmed once, a mandatory participant has one, and none
\* was cancelled; or every reservation was cancelled once, but for the
\* participants without a cancel method or whose cancel was given up.  A method
\* that takes effect in spite of its timeout is the exception.
Lockstep ==
    (pc = "returned" /\ ~cutOff) =>
        IF success
        THEN \A p \in Participants :
                /\ effect["CONFIRM"][p] = effect["TRY"][p]
                /\ effect["CANCEL"][p] = 0
                /\ p \notin Optional => effect["TRY"][p] = 1
        ELSE \A p \in HasCancel \ unreleased : effect["CANCEL"][p] = effect["TRY"][p]

\* What is persisted and what the context says agree: COMPLETED means that all
\* participants are in phase CONFIRM, but for optional ones that were skipped.
RecordTruthful ==
    /\ record = "COMPLETED" => \A p \in Participants :
            pstatus[p] = "CONFIRM" \/ (p \in Optional /\ pstatus[p] = "NONE")
    /\ (record = "FAILED" /\ ~cancelled) =>
            \A p \in tried \cap HasCancel : pstatus[p] = "CANCEL" \/ p \in unreleased

\* execute returns or raises.
Terminates == <>(pc \in Final)

\* The participants whose CONFIRM returned: those the loop has passed, and
\* once it broke off, those before the one that failed.
ConfirmReturned == CASE phase = "TRY"     -> {}
                     [] phase = "CONFIRM" -> tried \ todo
                     [] phase = "CANCEL"  -> {p \in tried : failed \in tried /\ p < failed}

\* The execution is one that the protocol allows.
Protocol == INSTANCE TccProtocol WITH
    confirmed <- ConfirmReturned,
    released  <- {p \in Participants : pstatus[p] = "CANCEL"} \cup unreleased
ImplementsProtocol == Protocol!Spec

\* "On failure go to CANCEL for remaining": a participant that has confirmed is
\* not cancelled.
ConfirmedIsNotCancelled == \A p \in Participants : effect["CONFIRM"][p] = 0 \/ effect["CANCEL"][p] = 0

\* failed_participants() returns "every participant that encountered an error".
FailureReported == (pc = "returned" /\ failed # NoOne) => failed \in FailedParticipants
=============================================================================
