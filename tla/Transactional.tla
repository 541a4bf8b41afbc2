--------------------------- MODULE Transactional ---------------------------
(***************************************************************************)
(* The @transactional decorator of the relational data module: the stack   *)
(* of decorated calls that each asyncio task is in, the ContextVar with    *)
(* the active session, and the repositories, which are singleton beans     *)
(* shared by all tasks and which the decorator points at the session it    *)
(* opens.                                                                  *)
(*                                                                         *)
(* A write is known by the transaction it is made in: `pending[x]' are the *)
(* transactions with a write that sits uncommitted in session x, `durable' *)
(* and `dropped' those with a write that was committed or thrown away.     *)
(* Writes made outside any transaction are not followed.                   *)
(*                                                                         *)
(* SQLAlchemy is external: commit makes durable what the session holds,    *)
(* rollback and close throw it away, and a closed session that is used     *)
(* again begins a new transaction by itself.  A commit that raises has had *)
(* no effect; one that is cut by a cancellation may have had its effect.   *)
(* Each await of the decorator (begin, the method, commit or rollback,     *)
(* close) is a step of its own.                                            *)
(***************************************************************************)
EXTENDS Naturals

CONSTANTS
  Tasks,        \* asyncio tasks, of requests and those that methods create
  Services,     \* service beans with decorated methods
  Repos,        \* repository beans
  RepoOf,       \* the repositories each service has as attributes
  Holds,        \* the services each service has as attributes
  MaxSessions,  \* bound: sessions opened in a behaviour
  MaxDepth      \* bound: nested decorated calls

ASSUME TransactionalAssumption ==
  /\ Services # {}
  /\ RepoOf \in [Services -> SUBSET Repos]
  /\ Holds \in [Services -> SUBSET Services]
  /\ MaxSessions \in Nat
  /\ MaxDepth \in Nat

Sessions == 1..MaxSessions
Outside  == 0       \* no active session; for a repository the injected session bean
Scopes   == 0..MaxSessions

VARIABLES
  depth,    \* how many decorated calls each task is in
  frame,    \* those calls, the innermost at depth[t]
  active,   \* _active_session_var in each task's context
  bound,    \* the session each repository has in _session
  opened,   \* how many sessions have been opened
  status,   \* what the decorator has done with each session
  home,     \* the service whose method opened it
  pending, durable, dropped,
  exposed   \* history: sessions whose repositories did not stay theirs, or
            \* that other tasks still had when they were ended

stackVars == <<depth, frame, active>>
dataVars  == <<pending, durable, dropped>>
vars      == <<stackVars, bound, opened, status, home, dataVars, exposed>>

Top(t)    == frame[t][depth[t]]
InBody(t) == depth[t] > 0 /\ Top(t).at = "body"

(* _patch_repositories: its own repositories and those of nested services, *)
(* one level deep.                                                         *)
Patched(svc) == RepoOf[svc] \cup UNION {RepoOf[n] : n \in Holds[svc]}

NoFrame == [svc |-> CHOOSE s \in Services : TRUE, kind |-> "joined",
            scope |-> Outside, token |-> Outside, at |-> "body"]

Init ==
  /\ depth = [t \in Tasks |-> 0]
  /\ frame = [t \in Tasks |-> [d \in 1..MaxDepth |-> NoFrame]]
  /\ active = [t \in Tasks |-> Outside]
  /\ bound = [r \in Repos |-> Outside]
  /\ opened = 0
  /\ status = [s \in Sessions |-> "unused"]
  /\ home = [s \in Sessions |-> NoFrame.svc]
  /\ pending = [x \in Scopes |-> {}]
  /\ durable = {} /\ dropped = {} /\ exposed = {}

(***************************************************************************)
(* A request calls a service; a method calls one of its own or one of a    *)
(* service it holds.                                                       *)
(***************************************************************************)
MayCall(t, svc) ==
  /\ depth[t] < MaxDepth
  /\ \/ depth[t] = 0
     \/ InBody(t) /\ svc \in Holds[Top(t).svc] \cup {Top(t).svc}

Push(t, f) ==
  /\ depth' = [depth EXCEPT ![t] = @ + 1]
  /\ frame' = [frame EXCEPT ![t][depth[t] + 1] = f]

Pop(t) ==
  /\ depth' = [depth EXCEPT ![t] = @ - 1]
  /\ frame' = [frame EXCEPT ![t][depth[t]] = NoFrame]

(***************************************************************************)
(* Propagations that call the method as it is: SUPPORTS always, REQUIRED   *)
(* and MANDATORY in a transaction, NEVER outside one.  (MANDATORY and      *)
(* NEVER raise otherwise, and nothing changes.)  The repositories of the   *)
(* service are left as they are.                                           *)
(***************************************************************************)
Join(t, svc, propagation) ==
  /\ MayCall(t, svc)
  /\ propagation \in {"REQUIRED", "MANDATORY"} => active[t] # Outside
  /\ propagation = "NEVER" => active[t] = Outside
  /\ Push(t, [svc |-> svc, kind |-> "joined", scope |-> active[t],
              token |-> active[t], at |-> "body"])
  /\ exposed' = IF active[t] # Outside /\ ~(RepoOf[svc] \subseteq Patched(home[active[t]]))
                THEN exposed \cup {active[t]} ELSE exposed
  /\ UNCHANGED <<active, bound, opened, status, home, dataVars>>

(* A method in a transaction creates a task (gather, create_task) for a    *)
(* plain method of its service: the task has a copy of the context, the    *)
(* session with it, and may outlive the transaction.  (A task created      *)
(* outside a transaction is like any other.)                               *)
Spawn(t, u) ==
  /\ InBody(t)
  /\ active[t] # Outside
  /\ depth[u] = 0 /\ MaxDepth > 0
  /\ Push(u, [svc |-> Top(t).svc, kind |-> "task", scope |-> active[t],
              token |-> Outside, at |-> "body"])
  /\ active' = [active EXCEPT ![u] = active[t]]
  /\ UNCHANGED <<bound, opened, status, home, dataVars, exposed>>

(* NOT_SUPPORTED: the ContextVar is cleared while the method runs.         *)
Suspend(t, svc) ==
  /\ MayCall(t, svc)
  /\ Push(t, [svc |-> svc, kind |-> "suspended", scope |-> Outside,
              token |-> active[t], at |-> "body"])
  /\ active' = [active EXCEPT ![t] = Outside]
  /\ UNCHANGED <<bound, opened, status, home, dataVars, exposed>>

(* REQUIRES_NEW, or REQUIRED outside a transaction: up to session.begin(). *)
Open(t, svc, propagation) ==
  /\ MayCall(t, svc)
  /\ propagation = "REQUIRED" => active[t] = Outside
  /\ opened < MaxSessions
  /\ opened' = opened + 1
  /\ status' = [status EXCEPT ![opened + 1] = "opening"]
  /\ home' = [home EXCEPT ![opened + 1] = svc]
  /\ Push(t, [svc |-> svc, kind |-> "opened", scope |-> opened + 1,
              token |-> active[t], at |-> "begin"])
  /\ UNCHANGED <<active, bound, dataVars, exposed>>

At(t, at) == depth[t] > 0 /\ Top(t).at = at
Goto(t, at) == frame' = [frame EXCEPT ![t][depth[t]].at = at]

(***************************************************************************)
(* session.begin() returned: the ContextVar is set and the repositories    *)
(* patched, those of the service and of the services it holds.  A session  *)
(* that is begun and loses a repository to this one is exposed.            *)
(***************************************************************************)
PatchOwn(svc, s) == [r \in Repos |-> IF r \in RepoOf[svc] THEN s ELSE bound[r]]
Patch(svc, s)    == [r \in Repos |-> IF r \in Patched(svc) THEN s ELSE bound[r]]

Begin(t) ==
  /\ At(t, "begin")
  /\ LET s == Top(t).scope
     IN  /\ active' = [active EXCEPT ![t] = s]
         /\ bound' = Patch(Top(t).svc, s)
         /\ status' = [status EXCEPT ![s] = "begun"]
         /\ exposed' = exposed \cup
              {x \in Sessions : /\ status[x] = "begun"
                                /\ Patched(home[x]) \cap Patched(Top(t).svc) # {}}
  /\ Goto(t, "body")
  /\ UNCHANGED <<depth, opened, home, dataVars>>

(* session.begin() raised: nothing was set, the session is closed.         *)
BeginFails(t) ==
  /\ At(t, "begin")
  /\ status' = [status EXCEPT ![Top(t).scope] = "rolledback"]
  /\ Pop(t)
  /\ UNCHANGED <<active, bound, opened, home, dataVars, exposed>>

(* Repository.save and the other writes: into the session the repository   *)
(* has, whatever the ContextVar says.                                      *)
Write(t, r) ==
  /\ InBody(t)
  /\ active[t] # Outside
  /\ r \in RepoOf[Top(t).svc]
  /\ pending' = [pending EXCEPT ![bound[r]] = @ \cup {active[t]}]
  /\ UNCHANGED <<stackVars, bound, opened, status, home, durable, dropped, exposed>>

(* The method returns or raises, in a call that opened no transaction; so  *)
(* does that of a task, whose context goes with it.                        *)
Leave(t) ==
  /\ InBody(t)
  /\ Top(t).kind # "opened"
  /\ active' = [active EXCEPT ![t] = Top(t).token]
  /\ Pop(t)
  /\ UNCHANGED <<bound, opened, status, home, dataVars, exposed>>

(***************************************************************************)
(* The method of a call that opened one ends.  It returns, and the session *)
(* is committed; it raises one of rollback_for, and the session is rolled  *)
(* back; it raises another exception, by default one that is no Exception, *)
(* such as the CancelledError of a task cancelled in the middle of the     *)
(* method, and the session is committed all the same.                      *)
(***************************************************************************)
End(t, next) ==
  /\ InBody(t)
  /\ Top(t).kind = "opened"
  /\ next \in {"commit", "rollback", "commitAnyway"}
  /\ Goto(t, next)
  /\ UNCHANGED <<depth, active, bound, opened, status, home, dataVars, exposed>>

(* The finally clause, entered when the session is ended or failed to.     *)
KeepActive(t) == active' = active
ResetActive(t) == active' = [active EXCEPT ![t] = Top(t).token]

(* The session is ended, or may be: exposed if other tasks still have it.  *)
Ends(t) ==
  exposed' = exposed \cup
    {s \in Sessions : /\ s = Top(t).scope
                      /\ \E u \in Tasks : \E d \in 1..depth[u] :
                           (u # t \/ d # depth[t]) /\ frame[u][d].scope = s}

Committed(t) ==
  /\ durable' = durable \cup pending[Top(t).scope]
  /\ pending' = [pending EXCEPT ![Top(t).scope] = {}]

Commit(t) ==
  /\ At(t, "commit") \/ At(t, "commitAnyway")
  /\ Committed(t)
  /\ status' = [status EXCEPT ![Top(t).scope] = "committed"]
  /\ ResetActive(t)
  /\ Goto(t, "close")
  /\ Ends(t)
  /\ UNCHANGED <<depth, bound, opened, home, dropped>>

(* A commit that fails after the method returned raises an Exception: it   *)
(* is caught and the session rolled back.                                  *)
CommitFails(t) ==
  /\ At(t, "commit")
  /\ Goto(t, "rollback")
  /\ UNCHANGED <<depth, active, bound, opened, status, home, dataVars, exposed>>

(* The task is cancelled in that commit: a CancelledError is no Exception, *)
(* and the session is committed a second time.                             *)
CommitCut(t) ==
  /\ At(t, "commit")
  /\ Committed(t) \/ UNCHANGED <<durable, pending>>
  /\ Goto(t, "commitAnyway")
  /\ Ends(t)
  /\ UNCHANGED <<depth, active, bound, opened, status, home, dropped>>

(* The commit of the except clause fails or is cut: nothing catches that,  *)
(* and nobody knows what became of the transaction.                        *)
CommitAnywayFails(t) ==
  /\ At(t, "commitAnyway")
  /\ Committed(t) \/ UNCHANGED <<durable, pending>>
  /\ status' = [status EXCEPT ![Top(t).scope] = "unknown"]
  /\ ResetActive(t)
  /\ Goto(t, "close")
  /\ Ends(t)
  /\ UNCHANGED <<depth, bound, opened, home, dropped>>

(* The rollback itself may fail too: the close throws the writes away.     *)
Rollback(t) ==
  /\ At(t, "rollback")
  /\ LET s == Top(t).scope
     IN  /\ status' = [status EXCEPT ![s] = "rolledback"]
         /\ \/ /\ dropped' = dropped \cup pending[s]
               /\ pending' = [pending EXCEPT ![s] = {}]
            \/ UNCHANGED <<dropped, pending>>
  /\ ResetActive(t)
  /\ Goto(t, "close")
  /\ Ends(t)
  /\ UNCHANGED <<depth, bound, opened, home, durable>>

(* The end of `async with session_factory()'.  The repositories keep the   *)
(* closed session.                                                         *)
Close(t) ==
  /\ At(t, "close")
  /\ LET s == Top(t).scope
     IN  /\ dropped' = dropped \cup pending[s]
         /\ pending' = [pending EXCEPT ![s] = {}]
  /\ Pop(t)
  /\ UNCHANGED <<active, bound, opened, status, home, durable, exposed>>

Call(t) ==
  \E svc \in Services :
    \/ \E p \in {"REQUIRED", "MANDATORY", "SUPPORTS", "NEVER"} : Join(t, svc, p)
    \/ Suspend(t, svc)
    \/ \E p \in {"REQUIRED", "REQUIRES_NEW"} : Open(t, svc, p)

Step(t) ==
  \/ Call(t)
  \/ \E u \in Tasks : Spawn(t, u)
  \/ Begin(t) \/ BeginFails(t)
  \/ \E r \in Repos : Write(t, r)
  \/ Leave(t)
  \/ \E next \in {"commit", "rollback", "commitAnyway"} : End(t, next)
  \/ Commit(t) \/ CommitFails(t) \/ CommitCut(t) \/ CommitAnywayFails(t)
  \/ Rollback(t) \/ Close(t)

Next == \E t \in Tasks : Step(t)

Spec == Init /\ [][Next]_vars

-----------------------------------------------------------------------------
Frame == [svc : Services, kind : {"joined", "suspended", "opened", "task"},
          scope : Scopes, token : Scopes,
          at : {"begin", "body", "commit", "commitAnyway", "rollback", "close"}]

(* The variables keep their types: the stack of a task never underflows.   *)
TypeOK ==
  /\ depth \in [Tasks -> 0..MaxDepth]
  /\ frame \in [Tasks -> [1..MaxDepth -> Frame]]
  /\ active \in [Tasks -> Scopes]
  /\ bound \in [Repos -> Scopes]
  /\ opened \in 0..MaxSessions
  /\ status \in [Sessions -> {"unused", "opening", "begun", "committed", "rolledback",
                            "unknown"}]
  /\ home \in [Sessions -> Services]
  /\ pending \in [Scopes -> SUBSET Sessions]
  /\ durable \subseteq Sessions /\ dropped \subseteq Sessions /\ exposed \subseteq Sessions

(* The task has the session it was created with. *)
Inherited(t) == /\ depth[t] > 0
                /\ frame[t][1].kind = "task"
                /\ frame[t][1].scope = active[t]

(* The ContextVar holds a session that is begun and not ended, opened by a *)
(* call the task is still in, and no other task has it but those that were *)
(* created with it; or it holds the one the task itself was created with.  *)
(* Whatever nests, suspends or fails, set and reset are paired.            *)
ActiveIsOwn ==
  \A t \in Tasks : active[t] # Outside /\ ~Inherited(t) =>
    /\ status[active[t]] = "begun"
    /\ \E d \in 1..depth[t] : frame[t][d].kind = "opened" /\ frame[t][d].scope = active[t]
    /\ \A u \in Tasks \ {t} : active[u] = active[t] => Inherited(u)

(* A transaction whose repositories stayed its own, and that was ended by  *)
(* the last task to have it, is atomic: committed, none of its writes is   *)
(* lost or left in another session; rolled back, none of them is in the    *)
(* database; and whatever became of a commit that was cut, not only some   *)
(* of them are.                                                            *)
SoloIsAtomic ==
  \A s \in Sessions \ exposed :
    /\ status[s] = "committed" => s \notin dropped /\ \A x \in Scopes : s \notin pending[x]
    /\ status[s] = "rolledback" => s \notin durable
    /\ s \notin durable \cap dropped

(* A task is in a transaction only as long as the transaction lasts: the   *)
(* ContextVar never holds a session that has been ended.                   *)
ActiveIsBegun ==
  \A t \in Tasks : active[t] # Outside => status[active[t]] = "begun"

(* A committed transaction has all its writes in the database, exposed or  *)
(* not: what "the transaction-scoped session" of the documentation is for. *)
CommitIsAll ==
  \A s \in Sessions : status[s] = "committed" =>
    s \notin dropped /\ \A x \in Scopes : s \notin pending[x]

(* Nothing of a transaction that was rolled back is in the database.       *)
RollbackIsAll ==
  \A s \in Sessions : status[s] = "rolledback" => s \notin durable
=============================================================================
