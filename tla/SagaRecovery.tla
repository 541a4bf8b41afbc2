---------------------------- MODULE SagaRecovery ----------------------------
(***************************************************************************)
(* The persisted side of the transactional engines: what the execute       *)
(* methods of SagaEngine and TccEngine write to the persistence port, what *)
(* SagaRecoveryService does to the same records from another task, and the *)
(* adapter in between: InMemoryPersistenceAdapter, or a durable one that   *)
(* does what the port asks of it (the repository has none).                *)
(*                                                                         *)
(* `record' holds what is stored of each execution and `store' maps a      *)
(* correlation id to the execution filed under it now.  A sweeper over a   *)
(* durable store works on the copies its query brought: what it knows of   *)
(* a record is the moment of the query, and it looks at nothing newer.     *)
(* The in-memory adapter would hand out the dicts themselves, but it never *)
(* gets that far, see GetStale.                                            *)
(*                                                                         *)
(* A call to the adapter takes effect in one step; another task may run    *)
(* before and after it.  A durable adapter may also raise although the     *)
(* call took effect, when its answer is lost.  The steps and the           *)
(* compensation are those of modules Saga and Tcc; here they are reduced   *)
(* to the effects a run leaves behind and to its outcome.                  *)
(***************************************************************************)
EXTENDS Naturals

CONSTANTS
  Runs,         \* calls of SagaEngine.execute or TccEngine.execute
  CorrelationIds,
  IdOf,         \* the correlation id of each run
  Sweepers,     \* tasks that call SagaRecoveryService.recover_stale
  StaleAfter,   \* stale_threshold_seconds
  KeepFor,      \* older_than of cleanup
  Settings,     \* which calls and sweepers there are and how records are kept
  MaxNow,       \* bound: the clock stops here
  MaxCrashes,   \* bound: restarts of the process
  None          \* no record

ASSUME RunsAssumption ==
  /\ IdOf \in [Runs -> CorrelationIds]
  /\ None \notin Runs
  /\ StaleAfter \in Nat /\ KeepFor \in Nat
  /\ MaxNow \in Nat /\ MaxCrashes \in Nat

(* One setting: the runs that are started, the sweepers that are called,   *)
(* and whether the records outlive the process.                            *)
Setting(runs, sweepers, durable) ==
  [runs |-> runs, sweepers |-> sweepers, durable |-> durable]

VARIABLES
  setting,    \* the circumstances, which do not change
  pc,         \* where each run is in execute
  success,    \* its local, "unknown" before it is decided
  effects,    \* runs with a completed step that nothing has compensated
  record,     \* what is persisted of each run
  store,      \* correlation id -> the run whose record is filed under it
  sweep,      \* each sweeper's position and the records it has still to recover
  recovered,  \* history: the runs that a sweeper has declared failed
  twice,      \* history: the runs declared failed more than once
  now, crashes

runVars   == <<setting, pc, success, effects>>
storeVars == <<record, store>>
sweepVars == <<sweep, recovered, twice>>
recoveryVars == <<runVars, storeVars, sweepVars, now, crashes>>

Durable == setting.durable

Statuses == {"absent", "IN_FLIGHT", "COMPLETED", "FAILED"}
Final    == {"COMPLETED", "FAILED"}
Active   == {"starting", "running", "reporting"}

Filed(r) == store[IdOf[r]] = r

Verdict(o) == IF o = "ok" THEN "COMPLETED" ELSE "FAILED"

(* How a call ends that took effect: its answer arrives, or it is lost.    *)
Answered(pos) == {pos} \cup (IF Durable THEN {"raised"} ELSE {})

(* mark_completed, for the record that is filed under the id now.          *)
Marked(id, status) ==
  [record EXCEPT ![store[id]].status = status,
                 ![store[id]].completedAt = now]

RecoveryInit ==
  /\ setting \in Settings
  /\ pc = [r \in Runs |-> "idle"]
  /\ success = [r \in Runs |-> "unknown"]
  /\ effects = {}
  /\ record = [r \in Runs |->
                 [status |-> "absent", startedAt |-> 0, completedAt |-> 0]]
  /\ store = [id \in CorrelationIds |-> None]
  /\ sweep = [w \in Sweepers |-> [pc |-> "idle", batch |-> {}]]
  /\ recovered = {} /\ twice = {}
  /\ now = 0 /\ crashes = 0

-----------------------------------------------------------------------------
(* A run of an engine. *)

(* execute reads the clock and awaits on_start. *)
Begin(r) ==
  /\ pc[r] = "idle" /\ r \in setting.runs
  /\ pc' = [pc EXCEPT ![r] = "starting"]
  /\ record' = [record EXCEPT ![r].startedAt = now]
  /\ UNCHANGED <<setting, success, effects, store, sweepVars, now, crashes>>

(* on_start returns: persist_state files the record, replacing any other   *)
(* one under the same id, and the orchestrator starts.                     *)
Persist(r) ==
  /\ pc[r] = "starting"
  /\ \E pos \in Answered("running") : pc' = [pc EXCEPT ![r] = pos]
  /\ record' = [record EXCEPT ![r].status = "IN_FLIGHT"]
  /\ store' = [store EXCEPT ![IdOf[r]] = r]
  /\ UNCHANGED <<setting, success, effects, sweepVars, now, crashes>>

(* on_start raises, or persist_state does and nothing is filed.            *)
StartFails(r) ==
  /\ pc[r] = "starting"
  /\ pc' = [pc EXCEPT ![r] = "raised"]
  /\ UNCHANGED <<setting, success, effects, storeVars, sweepVars, now, crashes>>

StepDone(r) ==
  /\ pc[r] = "running"
  /\ r \notin effects
  /\ effects' = effects \cup {r}
  /\ UNCHANGED <<setting, pc, success, storeVars, sweepVars, now, crashes>>

Decide(r, o) ==
  /\ pc[r] = "running"
  /\ pc' = [pc EXCEPT ![r] = "reporting"]
  /\ success' = [success EXCEPT ![r] = o]
  /\ UNCHANGED <<setting, storeVars, sweepVars, now, crashes>>

Succeed(r) == Decide(r, "ok") /\ UNCHANGED effects

(* A step failed and the compensator has undone what was done. *)
FailAndCompensate(r) == Decide(r, "failed") /\ effects' = effects \ {r}

(* CancelledError passes `except Exception' by: only the finally runs. *)
Cancelled(r) == Decide(r, "failed") /\ UNCHANGED effects

(* on_completed returns and mark_completed looks the id up.  The in-memory *)
(* adapter raises a KeyError when it is gone; another one may let it pass. *)
MarkCompleted(r) ==
  /\ pc[r] = "reporting"
  /\ IF store[IdOf[r]] = None
       THEN /\ \E pos \in {"raised"} \cup (IF Durable THEN {"returned"} ELSE {}) :
                 pc' = [pc EXCEPT ![r] = pos]
            /\ UNCHANGED record
       ELSE /\ \E pos \in Answered("returned") : pc' = [pc EXCEPT ![r] = pos]
            /\ record' = Marked(IdOf[r], Verdict(success[r]))
  /\ UNCHANGED <<setting, success, effects, store, sweepVars, now, crashes>>

(* on_completed raises, or mark_completed does without effect: the record  *)
(* stays as it is.                                                         *)
ReportFails(r) ==
  /\ pc[r] = "reporting"
  /\ pc' = [pc EXCEPT ![r] = "raised"]
  /\ UNCHANGED <<setting, success, effects, storeVars, sweepVars, now, crashes>>

-----------------------------------------------------------------------------
(* SagaRecoveryService. *)

InStore(r) == \E id \in CorrelationIds : store[id] = r

(* started_at < before. *)
Stale(r) == record[r].startedAt + StaleAfter < now

(* Fault: the status is not looked at. *)
RecoverableAny(r) == InStore(r) /\ Stale(r)

(* The records of the answer that recover_stale acts on: what the others   *)
(* say, "Only recover sagas that are still in-flight", it has from the     *)
(* same answer.                                                            *)
Recoverable(r) == InStore(r) /\ Stale(r) /\ record[r].status = "IN_FLIGHT"

(* recover_stale up to its first mark_completed.  The engines write        *)
(* started_at as text, and the in-memory adapter compares it with a        *)
(* datetime: its answer is a TypeError as soon as it holds a record.       *)
GetStale(w) ==
  /\ sweep[w].pc = "idle" /\ w \in setting.sweepers
  /\ sweep' = [sweep EXCEPT ![w] =
       IF Durable THEN [pc |-> "looping", batch |-> {r \in Runs : Recoverable(r)}]
       ELSE [pc |-> IF \E r \in Runs : InStore(r) THEN "raised" ELSE "looping",
             batch |-> {}]]
  /\ UNCHANGED <<runVars, storeVars, recovered, twice, now, crashes>>

(* A sweeper has declared r failed. *)
Took(r) ==
  /\ twice' = twice \cup ({r} \cap recovered)
  /\ recovered' = recovered \cup {r}

(* Fault: the event is emitted and the record is not marked. *)
RecoverUnmarked(w) ==
  /\ sweep[w].pc = "looping"
  /\ \E r \in sweep[w].batch :
       /\ sweep' = [sweep EXCEPT ![w] = [pc |-> "emitting", batch |-> @.batch \ {r}]]
       /\ Took(r)
  /\ UNCHANGED <<runVars, storeVars, now, crashes>>

(* The next record of the batch: mark_completed marks what is filed under  *)
(* its id by now, whatever that says, and on_completed is awaited.  For an *)
(* id that is gone the adapter raises or lets it pass.                     *)
Recover(w) ==
  /\ sweep[w].pc = "looping"
  /\ \E r \in sweep[w].batch, pos \in Answered("emitting") :
       /\ sweep' = [sweep EXCEPT ![w] =
            [pc |-> pos, batch |-> IF pos = "raised" THEN {} ELSE @.batch \ {r}]]
       /\ IF store[IdOf[r]] = None
            THEN UNCHANGED record
            ELSE record' = Marked(IdOf[r], "FAILED")
       /\ Took(r)
  /\ UNCHANGED <<runVars, store, now, crashes>>

Emitted(w) ==
  /\ sweep[w].pc = "emitting"
  /\ sweep' = [sweep EXCEPT ![w].pc = "looping"]
  /\ UNCHANGED <<runVars, storeVars, recovered, twice, now, crashes>>

EmitFails(w) ==
  /\ sweep[w].pc = "emitting"
  /\ sweep' = [sweep EXCEPT ![w] = [pc |-> "raised", batch |-> {}]]
  /\ UNCHANGED <<runVars, storeVars, recovered, twice, now, crashes>>


(* The call is over, by return or by exception; the next may be made. *)
SweepEnds(w) ==
  /\ \/ sweep[w].pc = "raised"
     \/ sweep[w].pc = "looping" /\ sweep[w].batch = {}
  /\ sweep' = [sweep EXCEPT ![w] = [pc |-> "idle", batch |-> {}]]
  /\ UNCHANGED <<runVars, storeVars, recovered, twice, now, crashes>>

(* Fault: records in flight expire too. *)
ExpiredAny(r) == record[r].completedAt + KeepFor < now

(* cleanup: one critical section. *)
Expired(r) ==
  /\ record[r].status \in Final
  /\ record[r].completedAt + KeepFor < now

Cleanup ==
  /\ \E r \in Runs : InStore(r) /\ Expired(r)
  /\ store' = [id \in CorrelationIds |->
                 IF store[id] \in Runs /\ Expired(store[id]) THEN None ELSE store[id]]
  /\ UNCHANGED <<runVars, record, sweepVars, now, crashes>>

-----------------------------------------------------------------------------
(* The environment. *)

Tick ==
  /\ now < MaxNow
  /\ now' = now + 1
  /\ UNCHANGED <<runVars, storeVars, sweepVars, crashes>>

(* The process restarts: every task is gone, and so are the records unless *)
(* the adapter keeps them elsewhere.  A call on its way to the adapter has *)
(* taken effect by then or never does.                                     *)
Crash ==
  /\ crashes < MaxCrashes
  /\ crashes' = crashes + 1
  /\ pc' = [r \in Runs |-> IF pc[r] \in Active THEN "dead" ELSE pc[r]]
  /\ sweep' = [w \in Sweepers |-> [pc |-> "idle", batch |-> {}]]
  /\ store' = IF Durable THEN store ELSE [id \in CorrelationIds |-> None]
  /\ UNCHANGED <<setting, success, effects, record, recovered, twice, now>>

RunNext(r) ==
  \/ Begin(r) \/ Persist(r) \/ StartFails(r) \/ StepDone(r) \/ Succeed(r)
  \/ FailAndCompensate(r) \/ Cancelled(r) \/ MarkCompleted(r) \/ ReportFails(r)

SweepNext(w) ==
  GetStale(w) \/ Recover(w) \/ Emitted(w) \/ EmitFails(w) \/ SweepEnds(w)

RecoveryNext ==
  \/ \E r \in Runs : RunNext(r)
  \/ \E w \in Sweepers : SweepNext(w)
  \/ Cleanup \/ Tick \/ Crash

RecoverySpec == RecoveryInit /\ [][RecoveryNext]_recoveryVars

(* recover_stale is called again and again, and the events port answers.   *)
RecoveryFairSpec == RecoverySpec /\ \A w \in Sweepers : WF_recoveryVars(SweepNext(w))

-----------------------------------------------------------------------------
(* Types of the state: positions, outcomes, dicts and the store's keys. *)
RecoveryTypeOK ==
  /\ setting \in Settings
  /\ pc \in [Runs -> Active \cup {"idle", "returned", "raised", "dead"}]
  /\ success \in [Runs -> {"unknown", "ok", "failed"}]
  /\ effects \subseteq Runs
  /\ record \in [Runs -> [status : Statuses, startedAt : 0..MaxNow,
                          completedAt : 0..MaxNow]]
  /\ store \in [CorrelationIds -> Runs \cup {None}]
  /\ sweep \in [Sweepers -> [pc : {"idle", "looping", "emitting", "raised"},
                             batch : SUBSET Runs]]
  /\ recovered \subseteq Runs /\ twice \subseteq Runs
  /\ now \in 0..MaxNow /\ crashes \in 0..MaxCrashes

(* A record that was settled before it could be stale says what its run    *)
(* said, and nothing changes it any more: no sweep after a restart, and no *)
(* sweeper with copies of other moments in hand.                           *)
SettledInTime(r) ==
  /\ record[r].status \in Final
  /\ record[r].completedAt <= record[r].startedAt + StaleAfter

EngineHasTheLastWord ==
  [][ \A r \in Runs : SettledInTime(r) =>
        record[r].status = Verdict(success[r]) /\ record'[r] = record[r] ]_recoveryVars

(* Sweeps that do not overlap, however many there are, however they end    *)
(* and whatever restarts lie between them, declare a run failed at most    *)
(* once: what one has marked the next leaves alone.                        *)
RecoveredOnce == (\A v, w \in setting.sweepers : v = w) => twice = {}

(* A live run loses its record, and so ends in a KeyError, only when a     *)
(* sweeper has declared it failed before.                                  *)
LostOnlyIfRecovered ==
  \A r \in Runs : pc[r] \in {"running", "reporting"} => Filed(r) \/ r \in recovered

(* A record in flight, or finished for no longer than the retention, is    *)
(* removed by nothing but a restart of an adapter that forgets.            *)
KeptUntilExpired ==
  [][ \A r \in Runs : Filed(r) /\ store'[IdOf[r]] = None
        => \/ record[r].status \in Final /\ record[r].completedAt + KeepFor < now
           \/ crashes' # crashes /\ ~Durable ]_recoveryVars


(* "The SagaRecoveryService detects and recovers stale in-flight sagas",   *)
(* with the adapter that the repository has.                               *)
StaleIsRecoveredInMemory ==
  \A r \in Runs :
    ~Durable /\ Recoverable(r) ~> ~Filed(r) \/ record[r].status # "IN_FLIGHT"

(* "For each stale saga that is still IN_FLIGHT": one that has returned is *)
(* not marked over.                                                        *)
ReturnedStands ==
  \A r \in Runs : pc[r] = "returned" /\ Filed(r) => record[r].status = Verdict(success[r])

(* The same of two sweeps side by side: one of them leaves a run to the    *)
(* other.                                                                  *)
NeverTwice == twice = {}

(* "Find and compensate sagas that have been in-flight too long": the      *)
(* effects of a recovered run are undone at some time.                     *)
RecoveredIsCompensated ==
  \A r \in Runs : r \in recovered ~> r \notin effects

(* on_completed is "fired when the entire transaction finishes": a run     *)
(* whose completion a sweeper reports is over.                             *)
ReportedWhenFinished ==
  \A r \in Runs : r \in recovered => pc[r] \notin Active

(* mark_completed marks "the transaction identified by correlation_id": a  *)
(* record is COMPLETED only when its own run succeeded.                    *)
RecordIsOwn ==
  \A r \in Runs : record[r].status = "COMPLETED" => success[r] = "ok"

=============================================================================
