---------------------------- MODULE TccProtocol ----------------------------
(***************************************************************************)
(* What a Try-Confirm-Cancel execution promises, without saying how:       *)
(* reservations first, confirmations only once every mandatory participant *)
(* holds one, and after a failure nothing but releases, each participant's *)
(* only after those of all participants that reserved after it.            *)
(***************************************************************************)
EXTENDS Integers

CONSTANTS Participants,  \* numbered in the order of their execution
          Optional       \* the participants whose TRY may fail

VARIABLES phase,      \* "TRY", "CONFIRM" or "CANCEL"
          tried,      \* the participants that hold a reservation
          confirmed,  \* ... that were told to confirm it
          released    \* ... that were told to release it, or could not be

vars == <<phase, tried, confirmed, released>>

Init == phase = "TRY" /\ tried = {} /\ confirmed = {} /\ released = {}

Reserve(p) ==
    /\ phase = "TRY"
    /\ \A q \in tried : q < p
    /\ tried' = tried \cup {p}
    /\ UNCHANGED <<phase, confirmed, released>>

Commit ==
    /\ phase = "TRY"
    /\ Participants \ Optional \subseteq tried
    /\ phase' = "CONFIRM"
    /\ UNCHANGED <<tried, confirmed, released>>

Confirm(p) ==
    /\ phase = "CONFIRM"
    /\ p \in tried
    /\ \A q \in tried : q < p => q \in confirmed
    /\ confirmed' = confirmed \cup {p}
    /\ UNCHANGED <<phase, tried, released>>

\* There is nothing to cancel once everything is confirmed.
Abort ==
    /\ phase = "TRY" \/ (phase = "CONFIRM" /\ confirmed # tried)
    /\ phase' = "CANCEL"
    /\ UNCHANGED <<tried, confirmed, released>>

\* Participants without a cancel method are passed over, so that a release may
\* stand for those of several participants.
Release(p) ==
    /\ phase = "CANCEL"
    /\ p \in tried \ released
    /\ released' = released \cup {p}
    /\ \A q \in released : q > p
    /\ UNCHANGED <<phase, tried, confirmed>>

Next == \/ Commit
        \/ Abort
        \/ \E p \in Participants : Reserve(p) \/ Confirm(p) \/ Release(p)

Spec == Init /\ [][Next]_vars
=============================================================================
