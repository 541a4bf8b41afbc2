------------------------ MODULE Transactional_proofs ------------------------
(***************************************************************************)
(* Proofs about Transactional, for any tasks, services and repositories    *)
(* and any bounds on sessions and nesting.                                 *)
(*                                                                         *)
(* The ContextVar of a task is a function of its stack of calls (Current); *)
(* all else follows from what the frames say of each other.                *)
(***************************************************************************)
EXTENDS Transactional, TLAPS

USE TransactionalAssumption

(* What the decorator has done with the session of a call that is at `at'. *)
StatusAt(at) == IF at = "begin" THEN {"opening"}
                ELSE IF at = "close" THEN {"committed", "rolledback", "unknown"} ELSE {"begun"}

(* The value a task's ContextVar has to have. *)
Current(t) == IF depth[t] = 0 THEN Outside
              ELSE IF Top(t).at \in {"begin", "close"} THEN Top(t).token ELSE Top(t).scope

(* Each call remembers what was active in the call around it. *)
TokensChain == \A t \in Tasks : \A d \in 1..depth[t] :
  frame[t][d].token = IF d = 1 THEN Outside ELSE frame[t][d - 1].scope

(* Only the innermost call can be outside its method. *)
OuterInBody == \A t \in Tasks : \A d \in 1..depth[t] :
  frame[t][d].at # "body" => d = depth[t] /\ frame[t][d].kind = "opened"

(* A session that a call has opened is in the state the call says. *)
SessionsKept == \A t \in Tasks : \A d \in 1..depth[t] :
  frame[t][d].kind = "opened" =>
    /\ frame[t][d].scope \in 1..opened
    /\ status[frame[t][d].scope] \in StatusAt(frame[t][d].at)

(* No two calls have opened the same session. *)
OneOpener == \A t, u \in Tasks : \A d \in 1..depth[t], e \in 1..depth[u] :
  /\ frame[t][d].kind = "opened" /\ frame[u][e].kind = "opened"
  /\ frame[t][d].scope = frame[u][e].scope
  => t = u /\ d = e

(* A task that a method has created begins with a session of before. *)
TasksRooted == \A t \in Tasks : \A d \in 1..depth[t] :
  frame[t][d].kind = "task" => d = 1 /\ frame[t][d].scope \in 1..opened

(* What is active in a call was opened by it or by one around it, or came  *)
(* with the task.                                                          *)
OpenedAround == \A t \in Tasks : \A d \in 1..depth[t] :
  frame[t][d].scope # Outside =>
    \E e \in 1..d : frame[t][e].kind \in {"opened", "task"} /\ frame[t][e].scope = frame[t][d].scope

ActiveIsCurrent == \A t \in Tasks : active[t] = Current(t)

StackInv == /\ TokensChain /\ OuterInBody /\ SessionsKept
            /\ OneOpener /\ TasksRooted /\ OpenedAround /\ ActiveIsCurrent

IInv == TypeOK /\ StackInv

-----------------------------------------------------------------------------
(* What the three changes of a stack leave alone.                          *)
Others(t, k) == \A u \in Tasks : \A e \in 1..MaxDepth :
  u # t \/ e # k => frame'[u][e] = frame[u][e]

LEMMA PushFacts ==
  ASSUME TypeOK, NEW t \in Tasks, NEW f \in Frame, depth[t] < MaxDepth, Push(t, f)
  PROVE  /\ depth' \in [Tasks -> 0..MaxDepth]
         /\ frame' \in [Tasks -> [1..MaxDepth -> Frame]]
         /\ depth'[t] = depth[t] + 1
         /\ \A u \in Tasks \ {t} : depth'[u] = depth[u]
         /\ frame'[t][depth[t] + 1] = f
         /\ Others(t, depth[t] + 1)
<1>1. depth[t] + 1 \in 1..MaxDepth
  BY DEF TypeOK
<1> QED
  BY <1>1 DEF TypeOK, Push, Others

LEMMA NoFrameType == NoFrame \in Frame
BY DEF NoFrame, Frame, Scopes, Outside

LEMMA PopFacts ==
  ASSUME TypeOK, NEW t \in Tasks, depth[t] > 0, Pop(t)
  PROVE  /\ depth' \in [Tasks -> 0..MaxDepth]
         /\ frame' \in [Tasks -> [1..MaxDepth -> Frame]]
         /\ depth'[t] = depth[t] - 1
         /\ \A u \in Tasks \ {t} : depth'[u] = depth[u]
         /\ Others(t, depth[t])
<1>1. depth[t] \in 1..MaxDepth /\ depth[t] - 1 \in 0..MaxDepth
  BY DEF TypeOK
<1> QED
  BY <1>1, NoFrameType DEF TypeOK, Pop, Others

LEMMA GotoFacts ==
  ASSUME TypeOK, NEW t \in Tasks, depth[t] > 0,
         NEW at \in {"begin", "body", "commit", "commitAnyway", "rollback", "close"},
         Goto(t, at)
  PROVE  /\ frame' \in [Tasks -> [1..MaxDepth -> Frame]]
         /\ frame'[t][depth[t]] = [Top(t) EXCEPT !.at = at]
         /\ Others(t, depth[t])
<1>1. depth[t] \in 1..MaxDepth
  BY DEF TypeOK
<1>2. frame[t][depth[t]] \in Frame
  BY <1>1 DEF TypeOK
<1>3. [frame[t][depth[t]] EXCEPT !.at = at] \in Frame
  BY <1>2 DEF Frame
<1> DEFINE f == [frame[t][depth[t]] EXCEPT !.at = at]
<1>4. frame' = [frame EXCEPT ![t] = [frame[t] EXCEPT ![depth[t]] = f]]
  BY DEF Goto
<1>5. f = [Top(t) EXCEPT !.at = at]
  BY DEF Top
<1>6. f \in Frame
  BY <1>3
<1> HIDE DEF f
<1> QED
  BY <1>1, <1>4, <1>5, <1>6 DEF TypeOK, Others

-----------------------------------------------------------------------------
LEMMA TypeInit == Init => TypeOK
<1> SUFFICES ASSUME Init PROVE TypeOK
  OBVIOUS
<1>1. NoFrame \in Frame /\ NoFrame.svc \in Services
  BY NoFrameType DEF Frame
<1>2. frame \in [Tasks -> [1..MaxDepth -> Frame]]
  BY <1>1 DEF Init
<1>3. home \in [Sessions -> Services]
  BY <1>1 DEF Init
<1>4. Outside \in Scopes /\ 0 \in 0..MaxDepth /\ 0 \in 0..MaxSessions
  BY DEF Scopes, Outside
<1>5. pending \in [Scopes -> SUBSET Sessions]
  BY DEF Init
<1>6. status \in [Sessions -> {"unused", "opening", "begun", "committed", "rolledback", "unknown"}]
  BY DEF Init
<1> QED
  BY <1>2, <1>3, <1>4, <1>5, <1>6 DEF Init, TypeOK

LEMMA TypeStep == TypeOK /\ [Next]_vars => TypeOK'
<1> SUFFICES ASSUME TypeOK, [Next]_vars PROVE TypeOK'
  OBVIOUS
<1>1. CASE UNCHANGED vars
  BY <1>1 DEF TypeOK, vars, stackVars, dataVars
<1> SUFFICES ASSUME NEW t \in Tasks, Step(t) PROVE TypeOK'
  BY <1>1 DEF Next
<1>top. depth[t] > 0 => Top(t) \in Frame
  BY DEF TypeOK, Top
<1>2. ASSUME NEW svc \in Services, NEW p, Join(t, svc, p) PROVE TypeOK'
  <2>1. [svc |-> svc, kind |-> "joined", scope |-> active[t], token |-> active[t], at |-> "body"] \in Frame
    BY DEF TypeOK, Frame
  <2>2. depth' \in [Tasks -> 0..MaxDepth] /\ frame' \in [Tasks -> [1..MaxDepth -> Frame]]
    BY <1>2, <2>1, PushFacts DEF Join, MayCall
  <2>3. exposed' \subseteq Sessions
    <3>1. active[t] # Outside => active[t] \in Sessions
      BY DEF TypeOK, Sessions, Scopes, Outside
    <3> QED
      BY <1>2, <3>1 DEF TypeOK, Join
  <2> QED
    BY <1>2, <2>2, <2>3 DEF TypeOK, Join, dataVars
<1>s. ASSUME NEW u \in Tasks, Spawn(t, u) PROVE TypeOK'
  <2>1. /\ depth[u] < MaxDepth /\ active[t] \in Scopes
        /\ active' = [active EXCEPT ![u] = active[t]]
        /\ Push(u, [svc |-> Top(t).svc, kind |-> "task", scope |-> active[t],
                    token |-> Outside, at |-> "body"])
    BY <1>s DEF Spawn, TypeOK
  <2>2. [svc |-> Top(t).svc, kind |-> "task", scope |-> active[t], token |-> Outside, at |-> "body"] \in Frame
    BY <1>s, <1>top, <2>1 DEF Spawn, InBody, Frame, Scopes, Outside
  <2>3. depth' \in [Tasks -> 0..MaxDepth] /\ frame' \in [Tasks -> [1..MaxDepth -> Frame]]
    BY <2>1, <2>2, PushFacts
  <2> QED
    BY <1>s, <2>1, <2>3 DEF TypeOK, Spawn, dataVars
<1>3. ASSUME NEW svc \in Services, Suspend(t, svc) PROVE TypeOK'
  <2>1. [svc |-> svc, kind |-> "suspended", scope |-> Outside, token |-> active[t], at |-> "body"] \in Frame
    BY DEF TypeOK, Frame, Scopes, Outside
  <2>2. depth' \in [Tasks -> 0..MaxDepth] /\ frame' \in [Tasks -> [1..MaxDepth -> Frame]]
    BY <1>3, <2>1, PushFacts DEF Suspend, MayCall
  <2>3. Outside \in Scopes
    BY DEF Scopes, Outside
  <2>4. active' \in [Tasks -> Scopes]
    BY <1>3, <2>3 DEF TypeOK, Suspend
  <2> QED
    BY <1>3, <2>2, <2>4 DEF TypeOK, Suspend, dataVars
<1>4. ASSUME NEW svc \in Services, NEW p, Open(t, svc, p) PROVE TypeOK'
  <2>1. opened + 1 \in Sessions /\ opened + 1 \in Scopes /\ opened + 1 \in 0..MaxSessions
    BY <1>4 DEF TypeOK, Open, Sessions, Scopes
  <2>2. [svc |-> svc, kind |-> "opened", scope |-> opened + 1, token |-> active[t], at |-> "begin"] \in Frame
    BY <2>1 DEF TypeOK, Frame
  <2>3. depth' \in [Tasks -> 0..MaxDepth] /\ frame' \in [Tasks -> [1..MaxDepth -> Frame]]
    BY <1>4, <2>2, PushFacts DEF Open, MayCall
  <2> QED
    BY <1>4, <2>1, <2>3 DEF TypeOK, Open, dataVars
<1>5. CASE Begin(t)
  <2>1. frame' \in [Tasks -> [1..MaxDepth -> Frame]]
    BY <1>5, GotoFacts DEF Begin, At
  <2>2. Top(t).scope \in Scopes
    BY <1>5, <1>top DEF Begin, At, Frame
  <2>3. bound' \in [Repos -> Scopes]
    BY <1>5, <2>2 DEF TypeOK, Begin, Patch
  <2> QED
    BY <1>5, <2>1, <2>2, <2>3 DEF TypeOK, Begin, dataVars
<1>6. CASE BeginFails(t)
  <2>1. depth' \in [Tasks -> 0..MaxDepth] /\ frame' \in [Tasks -> [1..MaxDepth -> Frame]]
    BY <1>6, PopFacts DEF BeginFails, At
  <2> QED
    BY <1>6, <2>1 DEF TypeOK, BeginFails, dataVars
<1>7. ASSUME NEW r \in Repos, Write(t, r) PROVE TypeOK'
  <2>1. active[t] \in Sessions
    BY <1>7 DEF TypeOK, Write, Sessions, Scopes, Outside
  <2>2. pending' \in [Scopes -> SUBSET Sessions]
    BY <1>7, <2>1 DEF TypeOK, Write
  <2> QED
    BY <1>7, <2>2 DEF TypeOK, Write, stackVars
<1>8. CASE Leave(t)
  <2>1. depth' \in [Tasks -> 0..MaxDepth] /\ frame' \in [Tasks -> [1..MaxDepth -> Frame]]
    BY <1>8, PopFacts DEF Leave, InBody
  <2>2. Top(t).token \in Scopes
    BY <1>8, <1>top DEF Leave, InBody, Frame
  <2> QED
    BY <1>8, <2>1, <2>2 DEF TypeOK, Leave, dataVars
<1>9. ASSUME NEW next \in {"commit", "rollback", "commitAnyway"}, End(t, next) PROVE TypeOK'
  <2>1. frame' \in [Tasks -> [1..MaxDepth -> Frame]]
    BY <1>9, GotoFacts DEF End, InBody
  <2> QED
    BY <1>9, <2>1 DEF TypeOK, End, dataVars
<1>reset. ASSUME depth[t] > 0, ResetActive(t) PROVE active' \in [Tasks -> Scopes]
  <2>1. Top(t).token \in Scopes
    BY <1>reset, <1>top DEF Frame
  <2> QED
    BY <1>reset, <2>1 DEF TypeOK, ResetActive
<1>ends. ASSUME depth[t] > 0, Ends(t), Committed(t) \/ UNCHANGED <<durable, pending>>
         PROVE  /\ exposed' \subseteq Sessions
                /\ pending' \in [Scopes -> SUBSET Sessions] /\ durable' \subseteq Sessions
  <2>1. Top(t).scope \in Scopes
    BY <1>ends, <1>top DEF Frame
  <2>2. exposed' \subseteq Sessions
    BY <1>ends DEF Ends, TypeOK
  <2> QED
    BY <1>ends, <2>1, <2>2 DEF Committed, TypeOK
<1>10. CASE Commit(t)
  <2>1. frame' \in [Tasks -> [1..MaxDepth -> Frame]]
    BY <1>10, GotoFacts DEF Commit, At
  <2>2. active' \in [Tasks -> Scopes]
    BY <1>10, <1>reset DEF Commit, At
  <2>3. status' \in [Sessions -> {"unused", "opening", "begun", "committed", "rolledback", "unknown"}]
    BY <1>10 DEF TypeOK, Commit
  <2> QED
    BY <1>10, <1>ends, <2>1, <2>2, <2>3 DEF TypeOK, Commit, At
<1>11. CASE CommitFails(t)
  <2>1. frame' \in [Tasks -> [1..MaxDepth -> Frame]]
    BY <1>11, GotoFacts DEF CommitFails, At
  <2> QED
    BY <1>11, <2>1 DEF TypeOK, CommitFails, dataVars
<1>14. CASE CommitCut(t)
  <2>1. frame' \in [Tasks -> [1..MaxDepth -> Frame]]
    BY <1>14, GotoFacts DEF CommitCut, At
  <2> QED
    BY <1>14, <1>ends, <2>1 DEF TypeOK, CommitCut, At
<1>15. CASE CommitAnywayFails(t)
  <2>1. frame' \in [Tasks -> [1..MaxDepth -> Frame]]
    BY <1>15, GotoFacts DEF CommitAnywayFails, At
  <2>2. active' \in [Tasks -> Scopes]
    BY <1>15, <1>reset DEF CommitAnywayFails, At
  <2>3. status' \in [Sessions -> {"unused", "opening", "begun", "committed", "rolledback", "unknown"}]
    BY <1>15 DEF TypeOK, CommitAnywayFails
  <2> QED
    BY <1>15, <1>ends, <2>1, <2>2, <2>3 DEF TypeOK, CommitAnywayFails, At
<1>12. CASE Rollback(t)
  <2>1. frame' \in [Tasks -> [1..MaxDepth -> Frame]]
    BY <1>12, GotoFacts DEF Rollback, At
  <2>2. active' \in [Tasks -> Scopes]
    BY <1>12, <1>reset DEF Rollback, At
  <2>3. Top(t).scope \in Scopes
    BY <1>12, <1>top DEF Rollback, At, Frame
  <2>4. status' \in [Sessions -> {"unused", "opening", "begun", "committed", "rolledback", "unknown"}]
    BY <1>12 DEF TypeOK, Rollback
  <2>5. pending' \in [Scopes -> SUBSET Sessions] /\ dropped' \subseteq Sessions
    BY <1>12, <2>3 DEF TypeOK, Rollback
  <2>6. exposed' \subseteq Sessions
    BY <1>12 DEF TypeOK, Rollback, Ends
  <2> QED
    BY <1>12, <2>1, <2>2, <2>4, <2>5, <2>6 DEF TypeOK, Rollback
<1>13. CASE Close(t)
  <2>1. depth' \in [Tasks -> 0..MaxDepth] /\ frame' \in [Tasks -> [1..MaxDepth -> Frame]]
    BY <1>13, PopFacts DEF Close, At
  <2>2. Top(t).scope \in Scopes
    BY <1>13, <1>top DEF Close, At, Frame
  <2> QED
    BY <1>13, <2>1, <2>2 DEF TypeOK, Close
<1> QED
  BY <1>2, <1>s, <1>3, <1>4, <1>5, <1>6, <1>7, <1>8, <1>9, <1>10, <1>11, <1>12, <1>13, <1>14, <1>15
     DEF Step, Call

-----------------------------------------------------------------------------
(* The three changes of a stack keep what the frames say of each other.    *)

LEMMA PushKeeps ==
  ASSUME TypeOK, StackInv, TypeOK', NEW t \in Tasks, NEW f \in Frame,
         depth[t] < MaxDepth, Push(t, f),
         f.token = IF depth[t] = 0 THEN Outside ELSE active[t],
         depth[t] = 0 \/ InBody(t),
         opened' >= opened,
         \A s \in 1..opened : status'[s] = status[s],
         f.kind = "opened" => /\ f.at = "begin"
                              /\ f.scope = opened' /\ opened' = opened + 1
                              /\ status'[f.scope] = "opening",
         f.kind # "opened" => f.at = "body",
         f.kind = "task" => depth[t] = 0 /\ f.scope \in 1..opened,
         f.kind \notin {"opened", "task"} => f.scope \in {Outside, active[t]},
         \A u \in Tasks : active'[u] = IF u = t /\ f.kind # "opened" THEN f.scope ELSE active[u]
  PROVE  StackInv'
<1> DEFINE k == depth[t] + 1
<1>1. /\ k \in 1..MaxDepth /\ depth'[t] = k /\ frame'[t][k] = f
      /\ \A u \in Tasks \ {t} : depth'[u] = depth[u]
      /\ \A u \in Tasks : depth[u] \in 0..MaxDepth /\ depth'[u] \in 0..MaxDepth
      /\ \A u \in Tasks : \A e \in 1..MaxDepth : u # t \/ e # k => frame'[u][e] = frame[u][e]
  BY PushFacts DEF TypeOK, Others
<1>2. \A u \in Tasks : \A e \in 1..depth'[u] : u # t \/ e # k => e \in 1..depth[u]
  BY <1>1
<1>3. active[t] = IF depth[t] = 0 THEN Outside ELSE frame[t][depth[t]].scope
  BY <1>1 DEF StackInv, ActiveIsCurrent, Current, InBody, Top
<1>4. opened \in Nat /\ opened' \in Nat
  BY DEF TypeOK
<1> HIDE DEF k
<1>k. k = depth[t] + 1
  BY DEF k
<1>5. TokensChain'
  <2> SUFFICES ASSUME NEW u \in Tasks, NEW d \in 1..depth'[u]
               PROVE  frame'[u][d].token = IF d = 1 THEN Outside ELSE frame'[u][d - 1].scope
    BY DEF TokensChain
  <2>1. CASE u = t /\ d = k
    <3>1. d # 1 => /\ d - 1 \in 1..MaxDepth /\ d - 1 # k /\ d - 1 = depth[t]
      BY <2>1, <1>1, <1>k
    <3>2. d = 1 => depth[t] = 0
      BY <2>1, <1>1, <1>k
    <3> QED
      BY <2>1, <3>1, <3>2, <1>1, <1>3
  <2>2. CASE u # t \/ d # k
    <3>1. d \in 1..depth[u]
      BY <2>2, <1>2
    <3>2. d # 1 => d - 1 \in 1..MaxDepth /\ (u # t \/ d - 1 # k)
      BY <3>1, <1>1, <1>k
    <3>3. frame[u][d].token = IF d = 1 THEN Outside ELSE frame[u][d - 1].scope
      BY <3>1 DEF StackInv, TokensChain
    <3> QED
      BY <2>2, <3>1, <3>2, <3>3, <1>1
  <2> QED
    BY <2>1, <2>2
<1>6. OuterInBody'
  <2> SUFFICES ASSUME NEW u \in Tasks, NEW d \in 1..depth'[u], frame'[u][d].at # "body"
               PROVE  d = depth'[u] /\ frame'[u][d].kind = "opened"
    BY DEF OuterInBody
  <2>1. CASE u = t /\ d = k
    BY <2>1, <1>1
  <2>2. CASE u # t \/ d # k
    <3>1. d \in 1..depth[u] /\ frame'[u][d] = frame[u][d]
      BY <2>2, <1>1, <1>2
    <3>2. d = depth[u] /\ frame[u][d].kind = "opened"
      BY <3>1 DEF StackInv, OuterInBody
    <3>3. u # t
      BY <3>1, <3>2 DEF InBody, Top
    <3> QED
      BY <3>1, <3>2, <3>3, <1>1
  <2> QED
    BY <2>1, <2>2
<1>7. SessionsKept'
  <2> SUFFICES ASSUME NEW u \in Tasks, NEW d \in 1..depth'[u], frame'[u][d].kind = "opened"
               PROVE  /\ frame'[u][d].scope \in 1..opened'
                      /\ status'[frame'[u][d].scope] \in StatusAt(frame'[u][d].at)
    BY DEF SessionsKept
  <2>1. CASE u = t /\ d = k
    BY <2>1, <1>1, <1>4 DEF StatusAt
  <2>2. CASE u # t \/ d # k
    <3>1. d \in 1..depth[u] /\ frame'[u][d] = frame[u][d]
      BY <2>2, <1>1, <1>2
    <3>2. /\ frame[u][d].scope \in 1..opened
          /\ status[frame[u][d].scope] \in StatusAt(frame[u][d].at)
      BY <3>1 DEF StackInv, SessionsKept
    <3> QED
      BY <3>1, <3>2, <1>4
  <2> QED
    BY <2>1, <2>2
<1>8. OneOpener'
  <2> SUFFICES ASSUME NEW u \in Tasks, NEW v \in Tasks,
                      NEW d \in 1..depth'[u], NEW e \in 1..depth'[v],
                      frame'[u][d].kind = "opened", frame'[v][e].kind = "opened",
                      frame'[u][d].scope = frame'[v][e].scope
               PROVE  u = v /\ d = e
    BY DEF OneOpener
  <2>1. ASSUME NEW w \in Tasks, NEW c \in 1..depth'[w], w # t \/ c # k,
               frame'[w][c].kind = "opened"
        PROVE  /\ c \in 1..depth[w] /\ frame'[w][c] = frame[w][c]
               /\ frame[w][c].scope \in 1..opened
    <3>1. c \in 1..depth[w] /\ frame'[w][c] = frame[w][c]
      BY <2>1, <1>1, <1>2
    <3> QED
      BY <2>1, <3>1 DEF StackInv, SessionsKept
  <2>2. CASE (u = t /\ d = k) /\ (v = t /\ e = k)
    BY <2>2
  <2>3. CASE (u = t /\ d = k) /\ ~(v = t /\ e = k)
    BY <2>1, <2>3, <1>1, <1>4
  <2>4. CASE ~(u = t /\ d = k) /\ (v = t /\ e = k)
    BY <2>1, <2>4, <1>1, <1>4
  <2>5. CASE ~(u = t /\ d = k) /\ ~(v = t /\ e = k)
    BY <2>1, <2>5 DEF StackInv, OneOpener
  <2> QED
    BY <2>2, <2>3, <2>4, <2>5
<1>9. OpenedAround'
  <2> SUFFICES ASSUME NEW u \in Tasks, NEW d \in 1..depth'[u], frame'[u][d].scope # Outside
               PROVE  \E e \in 1..d : /\ frame'[u][e].kind \in {"opened", "task"}
                                      /\ frame'[u][e].scope = frame'[u][d].scope
    BY DEF OpenedAround
  <2>1. CASE u # t \/ d # k
    <3>1. d \in 1..depth[u] /\ frame'[u][d] = frame[u][d]
      BY <2>1, <1>1, <1>2
    <3>2. PICK e \in 1..d : frame[u][e].kind \in {"opened", "task"} /\ frame[u][e].scope = frame[u][d].scope
      BY <3>1 DEF StackInv, OpenedAround
    <3>3. e \in 1..MaxDepth /\ (u # t \/ e # k)
      BY <2>1, <3>1, <1>1, <1>k
    <3> QED
      BY <3>1, <3>2, <3>3, <1>1
  <2>2. CASE u = t /\ d = k /\ f.kind \in {"opened", "task"}
    BY <2>2, <1>1
  <2>3. CASE u = t /\ d = k /\ f.kind \notin {"opened", "task"}
    <3>1. f.scope = active[t] /\ active[t] # Outside
      BY <2>3, <1>1
    <3>2. depth[t] \in 1..depth[t] /\ active[t] = frame[t][depth[t]].scope
      BY <3>1, <1>1, <1>3
    <3>3. PICK e \in 1..depth[t] : /\ frame[t][e].kind \in {"opened", "task"}
                                   /\ frame[t][e].scope = frame[t][depth[t]].scope
      BY <3>1, <3>2 DEF StackInv, OpenedAround
    <3>4. e \in 1..MaxDepth /\ e # k /\ e \in 1..d
      BY <2>3, <1>1, <1>k
    <3> QED
      BY <2>3, <3>1, <3>2, <3>3, <3>4, <1>1
  <2> QED
    BY <2>1, <2>2, <2>3
<1>10. ActiveIsCurrent'
  <2> SUFFICES ASSUME NEW u \in Tasks PROVE active'[u] = Current(u)'
    BY DEF ActiveIsCurrent
  <2>1. CASE u = t
    <3>1. Current(t)' = IF f.at \in {"begin", "close"} THEN f.token ELSE f.scope
      BY <1>1, <1>k DEF Current, Top
    <3> QED
      BY <2>1, <3>1, <1>3
  <2>2. CASE u # t
    <3>1. depth'[u] = depth[u] /\ (depth[u] > 0 => frame'[u][depth[u]] = frame[u][depth[u]])
      BY <2>2, <1>1
    <3>2. Current(u)' = Current(u)
      BY <3>1, <1>1 DEF Current, Top
    <3> QED
      BY <2>2, <3>2 DEF StackInv, ActiveIsCurrent
  <2> QED
    BY <2>1, <2>2
<1>11. TasksRooted'
  <2> SUFFICES ASSUME NEW u \in Tasks, NEW d \in 1..depth'[u], frame'[u][d].kind = "task"
               PROVE  d = 1 /\ frame'[u][d].scope \in 1..opened'
    BY DEF TasksRooted
  <2>1. CASE u = t /\ d = k
    BY <2>1, <1>1, <1>4, <1>k
  <2>2. CASE u # t \/ d # k
    <3>1. d \in 1..depth[u] /\ frame'[u][d] = frame[u][d]
      BY <2>2, <1>1, <1>2
    <3>2. d = 1 /\ frame[u][d].scope \in 1..opened
      BY <3>1 DEF StackInv, TasksRooted
    <3> QED
      BY <3>1, <3>2, <1>4
  <2> QED
    BY <2>1, <2>2
<1> QED
  BY <1>5, <1>6, <1>7, <1>8, <1>9, <1>10, <1>11 DEF StackInv

LEMMA PopKeeps ==
  ASSUME TypeOK, StackInv, NEW t \in Tasks, depth[t] > 0, Pop(t),
         opened' = opened,
         \A s \in Sessions : status'[s] # status[s] => Top(t).kind = "opened" /\ s = Top(t).scope,
         \A u \in Tasks : active'[u] = IF u = t THEN Top(t).token ELSE active[u]
  PROVE  StackInv'
<1>1. /\ depth[t] \in 1..MaxDepth /\ depth'[t] = depth[t] - 1
      /\ \A u \in Tasks \ {t} : depth'[u] = depth[u]
      /\ \A u \in Tasks : depth[u] \in 0..MaxDepth
      /\ \A u \in Tasks : \A e \in 1..MaxDepth : u # t \/ e # depth[t] => frame'[u][e] = frame[u][e]
  BY PopFacts DEF TypeOK, Others
<1>2. \A u \in Tasks : \A e \in 1..depth'[u] :
         /\ e \in 1..depth[u]
         /\ u # t \/ e # depth[t]
         /\ frame'[u][e] = frame[u][e]
         /\ e # 1 => e - 1 \in 1..depth'[u]
  BY <1>1
<1>3. TokensChain' /\ OneOpener'
  <2>1. TokensChain'
    <3> SUFFICES ASSUME NEW u \in Tasks, NEW d \in 1..depth'[u]
                 PROVE  frame'[u][d].token = IF d = 1 THEN Outside ELSE frame'[u][d - 1].scope
      BY DEF TokensChain
    <3>1. frame[u][d].token = IF d = 1 THEN Outside ELSE frame[u][d - 1].scope
      BY <1>2 DEF StackInv, TokensChain
    <3> QED
      BY <1>2, <3>1
  <2>2. OneOpener'
    BY <1>2 DEF StackInv, OneOpener
  <2> QED
    BY <2>1, <2>2
<1>4. OuterInBody'
  <2> SUFFICES ASSUME NEW u \in Tasks, NEW d \in 1..depth'[u], frame'[u][d].at # "body"
               PROVE  d = depth'[u] /\ frame'[u][d].kind = "opened"
    BY DEF OuterInBody
  <2>1. d = depth[u] /\ frame[u][d].kind = "opened"
    BY <1>2 DEF StackInv, OuterInBody
  <2> QED
    BY <1>1, <1>2, <2>1
<1>5. SessionsKept'
  <2> SUFFICES ASSUME NEW u \in Tasks, NEW d \in 1..depth'[u], frame'[u][d].kind = "opened"
               PROVE  /\ frame'[u][d].scope \in 1..opened'
                      /\ status'[frame'[u][d].scope] \in StatusAt(frame'[u][d].at)
    BY DEF SessionsKept
  <2>1. d \in 1..depth[u] /\ frame'[u][d] = frame[u][d] /\ (u # t \/ d # depth[t])
    BY <1>2
  <2>2. /\ frame[u][d].scope \in 1..opened
        /\ status[frame[u][d].scope] \in StatusAt(frame[u][d].at)
    BY <2>1 DEF StackInv, SessionsKept
  <2>3. frame[u][d].scope \in Sessions
    BY <2>2 DEF TypeOK, Sessions
  <2>4. Top(t).kind = "opened" => frame[u][d].scope # Top(t).scope
    <3>1. depth[t] \in 1..depth[t]
      BY <1>1
    <3> QED
      BY <2>1, <3>1 DEF StackInv, OneOpener, Top
  <2> QED
    BY <2>1, <2>2, <2>3, <2>4
<1>6. OpenedAround'
  <2> SUFFICES ASSUME NEW u \in Tasks, NEW d \in 1..depth'[u], frame'[u][d].scope # Outside
               PROVE  \E e \in 1..d : /\ frame'[u][e].kind \in {"opened", "task"}
                                      /\ frame'[u][e].scope = frame'[u][d].scope
    BY DEF OpenedAround
  <2>1. PICK e \in 1..d : frame[u][e].kind \in {"opened", "task"} /\ frame[u][e].scope = frame[u][d].scope
    BY <1>2 DEF StackInv, OpenedAround
  <2>2. e \in 1..depth'[u]
    BY <1>1, <2>1
  <2> QED
    BY <1>2, <2>1, <2>2
<1>7. ActiveIsCurrent'
  <2> SUFFICES ASSUME NEW u \in Tasks PROVE active'[u] = Current(u)'
    BY DEF ActiveIsCurrent
  <2>1. CASE u = t /\ depth[t] = 1
    <3>1. frame[t][1].token = Outside
      BY <2>1, <1>1 DEF StackInv, TokensChain
    <3> QED
      BY <2>1, <3>1, <1>1 DEF Current, Top
  <2>2. CASE u = t /\ depth[t] # 1
    <3> DEFINE d == depth[t] - 1
    <3>1. d \in 1..depth[t] /\ d # depth[t] /\ d \in 1..depth'[t] /\ depth'[t] = d /\ d # 0
      BY <2>2, <1>1
    <3>2. frame[t][d].at = "body"
      BY <3>1 DEF StackInv, OuterInBody
    <3>3. Top(t).token = frame[t][d].scope
      BY <2>2, <1>1 DEF StackInv, TokensChain, Top
    <3>4. frame'[t][d] = frame[t][d]
      BY <1>2, <3>1
    <3> HIDE DEF d
    <3>5. Current(t)' = frame'[t][d].scope
      BY <3>1, <3>2, <3>4 DEF Current, Top
    <3> QED
      BY <2>2, <3>3, <3>4, <3>5
  <2>3. CASE u # t
    <3>1. depth'[u] = depth[u] /\ (depth[u] > 0 => frame'[u][depth[u]] = frame[u][depth[u]])
      BY <2>3, <1>1
    <3>2. Current(u)' = Current(u)
      BY <3>1, <1>1 DEF Current, Top
    <3> QED
      BY <2>3, <3>2 DEF StackInv, ActiveIsCurrent
  <2> QED
    BY <2>1, <2>2, <2>3
<1>8. TasksRooted'
  BY <1>2 DEF StackInv, TasksRooted
<1> QED
  BY <1>3, <1>4, <1>5, <1>6, <1>7, <1>8 DEF StackInv

LEMMA GotoKeeps ==
  ASSUME TypeOK, StackInv, NEW t \in Tasks, depth[t] > 0, Top(t).kind = "opened",
         NEW at \in {"begin", "body", "commit", "commitAnyway", "rollback", "close"},
         Goto(t, at), depth' = depth, opened' = opened,
         \A s \in Sessions : s # Top(t).scope => status'[s] = status[s],
         status'[Top(t).scope] \in StatusAt(at),
         \A u \in Tasks : active'[u] =
           IF u # t THEN active[u]
           ELSE IF at \in {"begin", "close"} THEN Top(t).token ELSE Top(t).scope
  PROVE  StackInv'
<1>1. /\ depth[t] \in 1..MaxDepth
      /\ \A u \in Tasks : depth[u] \in 0..MaxDepth
      /\ Top(t) \in Frame
      /\ frame'[t][depth[t]] = [Top(t) EXCEPT !.at = at]
      /\ \A u \in Tasks : \A e \in 1..MaxDepth : u # t \/ e # depth[t] => frame'[u][e] = frame[u][e]
  <2>1. depth[t] \in 1..MaxDepth /\ \A u \in Tasks : depth[u] \in 0..MaxDepth
    BY DEF TypeOK
  <2>2. Top(t) \in Frame
    BY <2>1 DEF TypeOK, Top
  <2> QED
    BY <2>1, <2>2, GotoFacts DEF Others
<1>2. /\ frame'[t][depth[t]].at = at
      /\ frame'[t][depth[t]].kind = "opened"
      /\ frame'[t][depth[t]].scope = Top(t).scope
      /\ frame'[t][depth[t]].token = Top(t).token
  BY <1>1 DEF Frame
<1>3. \A u \in Tasks : \A e \in 1..depth'[u] :
         /\ e \in 1..depth[u]
         /\ u # t \/ e # depth[t] => frame'[u][e] = frame[u][e]
         /\ frame'[u][e].kind = frame[u][e].kind
         /\ frame'[u][e].scope = frame[u][e].scope
         /\ frame'[u][e].token = frame[u][e].token
         /\ e # 1 => e - 1 \in 1..depth'[u]
  <2> SUFFICES ASSUME NEW u \in Tasks, NEW e \in 1..depth'[u]
               PROVE  /\ e \in 1..depth[u]
                      /\ u # t \/ e # depth[t] => frame'[u][e] = frame[u][e]
                      /\ frame'[u][e].kind = frame[u][e].kind
                      /\ frame'[u][e].scope = frame[u][e].scope
                      /\ frame'[u][e].token = frame[u][e].token
                      /\ e # 1 => e - 1 \in 1..depth'[u]
    OBVIOUS
  <2>1. e \in 1..depth[u] /\ e \in 1..MaxDepth /\ (e # 1 => e - 1 \in 1..depth'[u])
    BY <1>1
  <2>2. CASE u = t /\ e = depth[t]
    BY <1>2, <2>1, <2>2 DEF Top
  <2>3. CASE u # t \/ e # depth[t]
    BY <1>1, <2>1, <2>3
  <2> QED
    BY <2>2, <2>3
<1>4. TokensChain'
  <2> SUFFICES ASSUME NEW u \in Tasks, NEW d \in 1..depth'[u]
               PROVE  frame'[u][d].token = IF d = 1 THEN Outside ELSE frame'[u][d - 1].scope
    BY DEF TokensChain
  <2>1. frame[u][d].token = IF d = 1 THEN Outside ELSE frame[u][d - 1].scope
    BY <1>3 DEF StackInv, TokensChain
  <2> QED
    BY <1>3, <2>1
<1>5. OuterInBody'
  <2> SUFFICES ASSUME NEW u \in Tasks, NEW d \in 1..depth'[u], frame'[u][d].at # "body"
               PROVE  d = depth'[u] /\ frame'[u][d].kind = "opened"
    BY DEF OuterInBody
  <2>1. CASE u = t /\ d = depth[t]
    BY <1>2, <2>1
  <2>2. CASE u # t \/ d # depth[t]
    BY <1>3, <2>2 DEF StackInv, OuterInBody
  <2> QED
    BY <2>1, <2>2
<1>6. SessionsKept'
  <2> SUFFICES ASSUME NEW u \in Tasks, NEW d \in 1..depth'[u], frame'[u][d].kind = "opened"
               PROVE  /\ frame'[u][d].scope \in 1..opened'
                      /\ status'[frame'[u][d].scope] \in StatusAt(frame'[u][d].at)
    BY DEF SessionsKept
  <2>1. frame[u][d].kind = "opened" /\ d \in 1..depth[u]
    BY <1>3
  <2>2. /\ frame[u][d].scope \in 1..opened
        /\ status[frame[u][d].scope] \in StatusAt(frame[u][d].at)
    BY <2>1 DEF StackInv, SessionsKept
  <2>3. CASE u = t /\ d = depth[t]
    BY <1>2, <2>2, <2>3 DEF Top
  <2>4. CASE u # t \/ d # depth[t]
    <3>1. frame[u][d].scope # Top(t).scope
      <4>1. depth[t] \in 1..depth[t]
        BY <1>1
      <4> QED
        BY <2>1, <2>4, <4>1 DEF StackInv, OneOpener, Top
    <3>2. frame[u][d].scope \in Sessions
      BY <2>2 DEF TypeOK, Sessions
    <3> QED
      BY <1>3, <2>2, <2>4, <3>1, <3>2
  <2> QED
    BY <2>3, <2>4
<1>7. OneOpener'
  BY <1>3 DEF StackInv, OneOpener
<1>8. OpenedAround'
  <2> SUFFICES ASSUME NEW u \in Tasks, NEW d \in 1..depth'[u], frame'[u][d].scope # Outside
               PROVE  \E e \in 1..d : /\ frame'[u][e].kind \in {"opened", "task"}
                                      /\ frame'[u][e].scope = frame'[u][d].scope
    BY DEF OpenedAround
  <2>1. PICK e \in 1..d : frame[u][e].kind \in {"opened", "task"} /\ frame[u][e].scope = frame[u][d].scope
    BY <1>3 DEF StackInv, OpenedAround
  <2>2. e \in 1..depth'[u]
    BY <1>1, <2>1
  <2> QED
    BY <1>3, <2>1, <2>2
<1>9. ActiveIsCurrent'
  <2> SUFFICES ASSUME NEW u \in Tasks PROVE active'[u] = Current(u)'
    BY DEF ActiveIsCurrent
  <2>1. CASE u = t
    <3>1. Current(t)' = IF at \in {"begin", "close"} THEN Top(t).token ELSE Top(t).scope
      BY <1>1, <1>2 DEF Current, Top
    <3> QED
      BY <2>1, <3>1
  <2>2. CASE u # t
    <3>1. depth[u] > 0 => frame'[u][depth[u]] = frame[u][depth[u]]
      BY <2>2, <1>1
    <3>2. Current(u)' = Current(u)
      BY <3>1, <1>1 DEF Current, Top
    <3> QED
      BY <2>2, <3>2 DEF StackInv, ActiveIsCurrent
  <2> QED
    BY <2>1, <2>2
<1>10. TasksRooted'
  BY <1>3 DEF StackInv, TasksRooted
<1> QED
  BY <1>4, <1>5, <1>6, <1>7, <1>8, <1>9, <1>10 DEF StackInv

-----------------------------------------------------------------------------
LEMMA InvInit == Init => IInv
<1> SUFFICES ASSUME Init PROVE IInv
  OBVIOUS
<1>1. TypeOK
  BY TypeInit
<1>2. \A t \in Tasks : depth[t] = 0 /\ active[t] = Outside
  BY DEF Init
<1>3. TokensChain /\ OuterInBody /\ SessionsKept /\ OneOpener /\ TasksRooted /\ OpenedAround
  BY <1>2 DEF TokensChain, OuterInBody, SessionsKept, OneOpener, TasksRooted, OpenedAround
<1>4. ActiveIsCurrent
  BY <1>2 DEF ActiveIsCurrent, Current
<1> QED
  BY <1>1, <1>3, <1>4 DEF IInv, StackInv

(* A call at `at' # "body" has opened a session, which is in that state.   *)
LEMMA AtFacts ==
  ASSUME IInv, NEW t \in Tasks, depth[t] > 0, Top(t).at # "body" \/ Top(t).kind = "opened"
  PROVE  /\ Top(t).kind = "opened" /\ Top(t).scope \in Sessions
         /\ status[Top(t).scope] \in StatusAt(Top(t).at)
         /\ active[t] = IF Top(t).at \in {"begin", "close"} THEN Top(t).token ELSE Top(t).scope
<1>1. depth[t] \in 1..depth[t]
  BY DEF IInv, TypeOK
<1>2. Top(t).kind = "opened"
  BY <1>1 DEF IInv, StackInv, OuterInBody, Top
<1>3. Top(t).scope \in 1..opened /\ status[Top(t).scope] \in StatusAt(Top(t).at)
  BY <1>1, <1>2 DEF IInv, StackInv, SessionsKept, Top
<1>4. Top(t).scope \in Sessions
  BY <1>3 DEF IInv, TypeOK, Sessions
<1>5. active[t] = Current(t)
  BY DEF IInv, StackInv, ActiveIsCurrent
<1> QED
  BY <1>2, <1>3, <1>4, <1>5 DEF Current

LEMMA StackUnchanged ==
  ASSUME StackInv, UNCHANGED <<depth, frame, active, opened, status>>
  PROVE  StackInv'
BY DEF StackInv, TokensChain, OuterInBody, SessionsKept, OneOpener, TasksRooted,
       OpenedAround, ActiveIsCurrent, Current, Top

(* The scope of a call is that of a session that has been opened. *)
LEMMA ScopesOpened ==
  ASSUME IInv, NEW t \in Tasks, NEW d \in 1..depth[t]
  PROVE  frame[t][d].scope # Outside => frame[t][d].scope \in 1..opened
<1> SUFFICES ASSUME frame[t][d].scope # Outside PROVE frame[t][d].scope \in 1..opened
  OBVIOUS
<1>1. PICK e \in 1..d : frame[t][e].kind \in {"opened", "task"} /\ frame[t][e].scope = frame[t][d].scope
  BY DEF IInv, StackInv, OpenedAround
<1>2. e \in 1..depth[t]
  BY DEF IInv, TypeOK
<1> QED
  BY <1>1, <1>2 DEF IInv, StackInv, SessionsKept, TasksRooted

(* So is what is active in a method. *)
LEMMA ActiveOpened ==
  ASSUME IInv, NEW t \in Tasks, InBody(t)
  PROVE  active[t] = Top(t).scope /\ (active[t] # Outside => active[t] \in 1..opened)
<1>1. depth[t] \in 1..depth[t]
  BY DEF IInv, TypeOK, InBody
<1>2. active[t] = Top(t).scope
  BY DEF IInv, StackInv, ActiveIsCurrent, Current, InBody
<1> QED
  BY <1>1, <1>2, ScopesOpened DEF Top

LEMMA InvStep == IInv /\ [Next]_vars => IInv'
<1> SUFFICES ASSUME IInv, [Next]_vars PROVE IInv'
  OBVIOUS
<1>t. TypeOK /\ TypeOK' /\ StackInv
  BY TypeStep DEF IInv
<1> SUFFICES StackInv'
  BY <1>t DEF IInv
<1>1. CASE UNCHANGED vars
  BY <1>1, <1>t, StackUnchanged DEF vars, stackVars
<1> SUFFICES ASSUME NEW t \in Tasks, Step(t) PROVE StackInv'
  BY <1>1 DEF Next
<1>a. active \in [Tasks -> Scopes] /\ status \in [Sessions -> {"unused", "opening", "begun", "committed", "rolledback", "unknown"}]
      /\ opened \in 0..MaxSessions /\ depth[t] \in 0..MaxDepth /\ Outside \in Scopes
  BY <1>t DEF TypeOK, Scopes, Outside
<1>o. depth[t] = 0 => active[t] = Outside
  BY <1>t DEF StackInv, ActiveIsCurrent, Current
<1>2. ASSUME NEW svc \in Services, NEW p, Join(t, svc, p) PROVE StackInv'
  <2> DEFINE f == [svc |-> svc, kind |-> "joined", scope |-> active[t], token |-> active[t], at |-> "body"]
  <2>1. f \in Frame /\ f.kind = "joined" /\ f.at = "body" /\ f.scope = active[t] /\ f.token = active[t]
    BY <1>a DEF Frame
  <2>2. depth[t] < MaxDepth /\ (depth[t] = 0 \/ InBody(t)) /\ Push(t, f)
    BY <1>2 DEF Join, MayCall
  <2>3. opened' = opened /\ status' = status /\ active' = active
    BY <1>2 DEF Join
  <2> HIDE DEF f
  <2> QED
    BY <1>t, <1>a, <1>o, <2>1, <2>2, <2>3, PushKeeps
<1>s. ASSUME NEW u \in Tasks, Spawn(t, u) PROVE StackInv'
  <2> DEFINE f == [svc |-> Top(t).svc, kind |-> "task", scope |-> active[t], token |-> Outside, at |-> "body"]
  <2>1. /\ depth[u] = 0 /\ depth[u] < MaxDepth /\ Push(u, f)
        /\ InBody(t) /\ active[t] # Outside
        /\ active' = [active EXCEPT ![u] = active[t]]
        /\ opened' = opened /\ status' = status
    BY <1>s, <1>t DEF Spawn, TypeOK
  <2>2. active[t] \in 1..opened
    BY <1>t, <2>1, ActiveOpened DEF IInv
  <2>3. Top(t).svc \in Services
    BY <1>t, <2>1 DEF InBody, Top, TypeOK, Frame
  <2>4. f \in Frame /\ f.kind = "task" /\ f.at = "body" /\ f.scope = active[t] /\ f.token = Outside
    BY <1>a, <2>3 DEF Frame
  <2>5. \A v \in Tasks : active'[v] = IF v = u THEN active[t] ELSE active[v]
    BY <1>a, <2>1
  <2> HIDE DEF f
  <2> QED
    BY <1>t, <1>a, <2>1, <2>2, <2>4, <2>5, PushKeeps
<1>3. ASSUME NEW svc \in Services, Suspend(t, svc) PROVE StackInv'
  <2> DEFINE f == [svc |-> svc, kind |-> "suspended", scope |-> Outside, token |-> active[t], at |-> "body"]
  <2>1. f \in Frame /\ f.kind = "suspended" /\ f.at = "body" /\ f.scope = Outside /\ f.token = active[t]
    BY <1>a DEF Frame
  <2>2. depth[t] < MaxDepth /\ (depth[t] = 0 \/ InBody(t)) /\ Push(t, f)
    BY <1>3 DEF Suspend, MayCall
  <2>3. opened' = opened /\ status' = status
        /\ \A u \in Tasks : active'[u] = IF u = t THEN Outside ELSE active[u]
    BY <1>3, <1>a DEF Suspend
  <2> HIDE DEF f
  <2> QED
    BY <1>t, <1>a, <1>o, <2>1, <2>2, <2>3, PushKeeps
<1>4. ASSUME NEW svc \in Services, NEW p, Open(t, svc, p) PROVE StackInv'
  <2> DEFINE f == [svc |-> svc, kind |-> "opened", scope |-> opened + 1, token |-> active[t], at |-> "begin"]
  <2>0. opened + 1 \in Sessions /\ opened + 1 \in Scopes
    BY <1>4, <1>a DEF Open, Sessions, Scopes
  <2>1. f \in Frame /\ f.kind = "opened" /\ f.at = "begin" /\ f.scope = opened + 1 /\ f.token = active[t]
    BY <1>a, <2>0 DEF Frame
  <2>2. depth[t] < MaxDepth /\ (depth[t] = 0 \/ InBody(t)) /\ Push(t, f)
    BY <1>4 DEF Open, MayCall
  <2>3. /\ opened' = opened + 1 /\ active' = active
        /\ status'[opened + 1] = "opening"
        /\ \A s \in 1..opened : status'[s] = status[s]
    BY <1>4, <1>a, <2>0 DEF Open, Sessions
  <2> HIDE DEF f
  <2> QED
    BY <1>t, <1>a, <1>o, <2>1, <2>2, <2>3, PushKeeps
<1>5. CASE Begin(t)
  <2>1. /\ depth[t] > 0 /\ Top(t).at = "begin" /\ Goto(t, "body")
        /\ depth' = depth /\ opened' = opened
        /\ active' = [active EXCEPT ![t] = Top(t).scope]
        /\ status' = [status EXCEPT ![Top(t).scope] = "begun"]
    BY <1>5 DEF Begin, At
  <2>2. Top(t).kind = "opened" /\ Top(t).scope \in Sessions
    BY <2>1, AtFacts
  <2>3. /\ status'[Top(t).scope] \in StatusAt("body")
        /\ \A s \in Sessions : s # Top(t).scope => status'[s] = status[s]
        /\ \A u \in Tasks : active'[u] = IF u # t THEN active[u] ELSE Top(t).scope
    BY <1>a, <2>1, <2>2 DEF StatusAt
  <2> QED
    BY <1>t, <2>1, <2>2, <2>3, GotoKeeps
<1>6. CASE BeginFails(t)
  <2>1. /\ depth[t] > 0 /\ Top(t).at = "begin" /\ Pop(t)
        /\ opened' = opened /\ active' = active
        /\ status' = [status EXCEPT ![Top(t).scope] = "rolledback"]
    BY <1>6 DEF BeginFails, At
  <2>2. Top(t).kind = "opened" /\ active[t] = Top(t).token
    BY <2>1, AtFacts
  <2>3. \A s \in Sessions : status'[s] # status[s] => s = Top(t).scope
    BY <1>a, <2>1
  <2> QED
    BY <1>t, <2>1, <2>2, <2>3, PopKeeps
<1>7. ASSUME NEW r \in Repos, Write(t, r) PROVE StackInv'
  BY <1>7, <1>t, StackUnchanged DEF Write, stackVars
<1>8. CASE Leave(t)
  <2>1. /\ depth[t] > 0 /\ Pop(t) /\ opened' = opened /\ status' = status
        /\ \A u \in Tasks : active'[u] = IF u = t THEN Top(t).token ELSE active[u]
    BY <1>8, <1>a DEF Leave, InBody
  <2> QED
    BY <1>t, <2>1, PopKeeps
<1>9. ASSUME NEW next \in {"commit", "rollback", "commitAnyway"}, End(t, next) PROVE StackInv'
  <2>1. /\ depth[t] > 0 /\ Top(t).at = "body" /\ Top(t).kind = "opened" /\ Goto(t, next)
        /\ depth' = depth /\ opened' = opened /\ active' = active /\ status' = status
    BY <1>9 DEF End, InBody
  <2>2. active[t] = Top(t).scope /\ status[Top(t).scope] = "begun"
    BY <2>1, AtFacts DEF StatusAt
  <2>3. status'[Top(t).scope] \in StatusAt(next)
    BY <2>1, <2>2 DEF StatusAt
  <2> QED
    BY <1>t, <2>1, <2>2, <2>3, GotoKeeps
<1>c. ASSUME depth[t] > 0, Top(t).at # "body", Goto(t, "close"), ResetActive(t),
             depth' = depth, opened' = opened,
             NEW new \in {"committed", "rolledback", "unknown"},
             status' = [status EXCEPT ![Top(t).scope] = new]
      PROVE  StackInv'
  <2>1. Top(t).kind = "opened" /\ Top(t).scope \in Sessions
    BY <1>c, AtFacts
  <2>2. /\ status'[Top(t).scope] \in StatusAt("close")
        /\ \A s \in Sessions : s # Top(t).scope => status'[s] = status[s]
        /\ \A u \in Tasks : active'[u] = IF u # t THEN active[u] ELSE Top(t).token
    BY <1>a, <1>c, <2>1 DEF StatusAt, ResetActive
  <2> QED
    BY <1>t, <1>c, <2>1, <2>2, GotoKeeps
<1>g. ASSUME depth[t] > 0, Top(t).at = "commit", NEW at \in {"rollback", "commitAnyway"}, Goto(t, at),
             depth' = depth, opened' = opened, active' = active, status' = status
      PROVE  StackInv'
  <2>1. /\ Top(t).kind = "opened" /\ Top(t).scope \in Sessions
        /\ active[t] = Top(t).scope /\ status[Top(t).scope] = "begun"
    BY <1>g, AtFacts DEF StatusAt
  <2>2. status'[Top(t).scope] \in StatusAt(at)
    BY <1>g, <2>1 DEF StatusAt
  <2> QED
    BY <1>t, <1>g, <2>1, <2>2, GotoKeeps
<1>10. CASE Commit(t)
  BY <1>10, <1>c DEF Commit, At
<1>11. CASE CommitFails(t)
  BY <1>11, <1>g DEF CommitFails, At
<1>14. CASE CommitCut(t)
  BY <1>14, <1>g DEF CommitCut, At
<1>15. CASE CommitAnywayFails(t)
  BY <1>15, <1>c DEF CommitAnywayFails, At
<1>12. CASE Rollback(t)
  BY <1>12, <1>c DEF Rollback, At
<1>13. CASE Close(t)
  <2>1. /\ depth[t] > 0 /\ Top(t).at = "close" /\ Pop(t)
        /\ opened' = opened /\ active' = active /\ status' = status
    BY <1>13 DEF Close, At
  <2>2. active[t] = Top(t).token
    BY <2>1, AtFacts
  <2> QED
    BY <1>t, <2>1, <2>2, PopKeeps
<1> QED
  BY <1>2, <1>s, <1>3, <1>4, <1>5, <1>6, <1>7, <1>8, <1>9, <1>10, <1>11, <1>12, <1>13, <1>14, <1>15
     DEF Step, Call

(* The stack of calls says what is active. *)
LEMMA InvActive == IInv => ActiveIsOwn
<1> SUFFICES ASSUME IInv, NEW t \in Tasks, active[t] # Outside, ~Inherited(t)
             PROVE  /\ status[active[t]] = "begun"
                    /\ \E d \in 1..depth[t] : frame[t][d].kind = "opened" /\ frame[t][d].scope = active[t]
                    /\ \A u \in Tasks \ {t} : active[u] = active[t] => Inherited(u)
  BY DEF ActiveIsOwn
<1>1. ASSUME NEW u \in Tasks, active[u] # Outside, ~Inherited(u)
      PROVE  \E d \in 1..depth[u] : /\ frame[u][d].kind = "opened"
                                    /\ frame[u][d].scope = active[u]
                                    /\ status[active[u]] = "begun"
  <2>1. active[u] = Current(u) /\ depth[u] > 0 /\ depth[u] \in Nat
    BY <1>1 DEF IInv, TypeOK, StackInv, ActiveIsCurrent, Current
  <2> DEFINE k == IF Top(u).at \in {"begin", "close"} THEN depth[u] - 1 ELSE depth[u]
  <2>2. k \in 1..depth[u] /\ frame[u][k].scope = active[u]
    <3>1. CASE Top(u).at \in {"begin", "close"}
      <4>1. depth[u] \in 1..depth[u] /\ active[u] = Top(u).token
        BY <2>1, <3>1 DEF Current
      <4>2. Top(u).token = IF depth[u] = 1 THEN Outside ELSE frame[u][depth[u] - 1].scope
        BY <4>1 DEF IInv, StackInv, TokensChain, Top
      <4> QED
        BY <1>1, <2>1, <3>1, <4>1, <4>2
    <3>2. CASE Top(u).at \notin {"begin", "close"}
      BY <2>1, <3>2 DEF Current, Top
    <3> QED
      BY <3>1, <3>2
  <2>3. \A e \in 1..k : e \in 1..depth[u] /\ frame[u][e].at \notin {"begin", "close"}
    <3> SUFFICES ASSUME NEW e \in 1..k PROVE e \in 1..depth[u] /\ frame[u][e].at \notin {"begin", "close"}
      OBVIOUS
    <3>1. e \in 1..depth[u]
      BY <2>1, <2>2
    <3>2. frame[u][e].at # "body" => e = depth[u]
      BY <3>1 DEF IInv, StackInv, OuterInBody
    <3> QED
      BY <2>1, <3>1, <3>2 DEF Top
  <2> HIDE DEF k
  <2>4. PICK e \in 1..k : /\ frame[u][e].kind \in {"opened", "task"}
                          /\ frame[u][e].scope = frame[u][k].scope
    BY <1>1, <2>2 DEF IInv, StackInv, OpenedAround
  <2>5. frame[u][e].kind # "task"
    <3>1. frame[u][e].kind = "task" => e = 1
      BY <2>3, <2>4 DEF IInv, StackInv, TasksRooted
    <3> QED
      BY <1>1, <2>1, <2>2, <2>4, <3>1 DEF Inherited
  <2>6. status[frame[u][e].scope] \in StatusAt(frame[u][e].at)
    BY <2>3, <2>4, <2>5 DEF IInv, StackInv, SessionsKept
  <2> QED
    BY <2>2, <2>3, <2>4, <2>5, <2>6 DEF StatusAt
<1>2. PICK d \in 1..depth[t] : /\ frame[t][d].kind = "opened"
                               /\ frame[t][d].scope = active[t]
                               /\ status[active[t]] = "begun"
  BY <1>1
<1>3. ASSUME NEW u \in Tasks \ {t}, active[u] = active[t], ~Inherited(u) PROVE FALSE
  <2>1. PICK e \in 1..depth[u] : frame[u][e].kind = "opened" /\ frame[u][e].scope = active[u]
    BY <1>1, <1>3
  <2> QED
    BY <1>2, <1>3, <2>1 DEF IInv, StackInv, OneOpener
<1> QED
  BY <1>2, <1>3

-----------------------------------------------------------------------------
(* Atomicity.  A call keeps the repositories of its service to the session *)
(* that is active in it, which is begun and has no write in the database,  *)
(* unless that session is exposed; so the writes of a session that is not  *)
(* exposed are nowhere but in it.                                          *)

FrameFits(f) ==
  /\ f.kind = "opened" => home[f.scope] = f.svc
  /\ f.scope # Outside /\ f.scope \notin exposed =>
       /\ RepoOf[f.svc] \subseteq Patched(home[f.scope])
       /\ f.kind # "opened" => status[f.scope] = "begun"
       /\ f.scope \in durable => f.at \in {"commitAnyway", "close"}

FramesFit == \A t \in Tasks : \A d \in 1..depth[t] : FrameFits(frame[t][d])

FreshUnused == \A s \in Sessions : s > opened => status[s] = "unused"

(* A begun session has its repositories, and only it has its writes. *)
Solo(s) ==
  /\ status[s] = "begun" => \A r \in Patched(home[s]) : bound[r] = s
  /\ \A x \in Scopes : s \in pending[x] => x = s
  /\ status[s] \in {"unused", "opening", "committed"} => s \notin pending[s]
  /\ s \in durable => s \notin pending[s] /\ s \notin dropped
  /\ s \in durable => status[s] \notin {"unused", "rolledback"}
  /\ s \in dropped => status[s] \in {"rolledback", "unknown"}

SoloInv == FramesFit /\ FreshUnused /\ \A s \in Sessions \ exposed : Solo(s)

LEMMA SoloInit == Init => SoloInv
<1> SUFFICES ASSUME Init PROVE SoloInv
  OBVIOUS
<1>1. /\ \A t \in Tasks : depth[t] = 0
      /\ \A s \in Sessions : status[s] = "unused"
      /\ \A x \in Scopes : pending[x] = {}
      /\ durable = {} /\ dropped = {}
  BY DEF Init
<1>2. FramesFit /\ FreshUnused
  BY <1>1 DEF FramesFit, FreshUnused
<1>3. \A s \in Sessions : Solo(s)
  BY <1>1 DEF Solo, Sessions, Scopes
<1> QED
  BY <1>2, <1>3 DEF SoloInv

(* What a step does to the session of a call other than frame[t][k]: it    *)
(* may begin it; if it ends it or writes it to the database, that session  *)
(* is exposed.                                                             *)
Undisturbed(t, k) ==
  \A u \in Tasks : \A e \in 1..depth[u] :
    (u # t \/ e # k) /\ frame[u][e].scope # Outside /\ frame[u][e].scope \notin exposed' =>
      /\ status'[frame[u][e].scope] \in {status[frame[u][e].scope], "begun"}
      /\ frame[u][e].scope \in durable' => frame[u][e].scope \in durable

(* A step changes one frame; the others keep fitting. *)
LEMMA FramesStep ==
  ASSUME IInv, FramesFit, NEW t \in Tasks, NEW k,
         \A u \in Tasks : \A e \in 1..depth'[u] :
           u # t \/ e # k => e \in 1..depth[u] /\ frame'[u][e] = frame[u][e],
         k \in 1..depth'[t] => FrameFits(frame[t][k])',
         \A s \in 1..opened : home'[s] = home[s],
         exposed \subseteq exposed', Undisturbed(t, k)
  PROVE  FramesFit'
<1> SUFFICES ASSUME NEW u \in Tasks, NEW e \in 1..depth'[u] PROVE FrameFits(frame[u][e])'
  BY DEF FramesFit
<1>1. CASE u = t /\ e = k
  BY <1>1
<1>2. CASE u # t \/ e # k
  <2>1. e \in 1..depth[u] /\ frame'[u][e] = frame[u][e]
    BY <1>2
  <2>2. FrameFits(frame[u][e])
    BY <2>1 DEF FramesFit
  <2>3. frame[u][e].scope # Outside => frame[u][e].scope \in 1..opened
    BY <2>1, ScopesOpened
  <2>4. frame[u][e].kind = "opened" => frame[u][e].scope \in 1..opened
    BY <2>1 DEF IInv, StackInv, SessionsKept
  <2>5. frame[u][e].scope # Outside /\ frame[u][e].scope \notin exposed' =>
          /\ status'[frame[u][e].scope] \in {status[frame[u][e].scope], "begun"}
          /\ frame[u][e].scope \in durable' => frame[u][e].scope \in durable
    BY <1>2, <2>1 DEF Undisturbed
  <2> QED
    BY <2>1, <2>2, <2>3, <2>4, <2>5 DEF FrameFits, Patched
<1> QED
  BY <1>1, <1>2

LEMMA PushFits ==
  ASSUME IInv, FramesFit, NEW t \in Tasks, NEW f \in Frame, depth[t] < MaxDepth, Push(t, f),
         FrameFits(f)', \A s \in 1..opened : home'[s] = home[s], exposed \subseteq exposed',
         \A s \in 1..opened : status'[s] = status[s], durable' = durable
  PROVE  FramesFit'
<1>1. \A u \in Tasks : depth[u] \in 0..MaxDepth
  BY DEF IInv, TypeOK
<1>2. /\ depth'[t] = depth[t] + 1 /\ frame'[t][depth[t] + 1] = f
      /\ \A u \in Tasks \ {t} : depth'[u] = depth[u]
      /\ Others(t, depth[t] + 1)
  BY PushFacts DEF IInv
<1> PICK k \in Nat : k = depth[t] + 1
  BY <1>1
<1>3. \A u \in Tasks : \A e \in 1..depth'[u] :
        u # t \/ e # k => e \in 1..depth[u] /\ frame'[u][e] = frame[u][e]
  BY <1>1, <1>2 DEF Others
<1>4. FrameFits(frame[t][k])'
  BY <1>2 DEF FrameFits, Patched
<1>5. Undisturbed(t, k)
  BY ScopesOpened DEF Undisturbed
<1> QED
  BY <1>3, <1>4, <1>5, FramesStep

LEMMA PopFits ==
  ASSUME IInv, FramesFit, NEW t \in Tasks, depth[t] > 0, Pop(t),
         home' = home, exposed \subseteq exposed', Undisturbed(t, depth[t])
  PROVE  FramesFit'
<1>1. \A u \in Tasks : depth[u] \in 0..MaxDepth
  BY DEF IInv, TypeOK
<1>2. /\ depth'[t] = depth[t] - 1
      /\ \A u \in Tasks \ {t} : depth'[u] = depth[u]
      /\ Others(t, depth[t])
  BY PopFacts DEF IInv
<1> PICK k \in Nat : k = depth[t]
  BY <1>1
<1>3. \A u \in Tasks : \A e \in 1..depth'[u] :
        u # t \/ e # k => e \in 1..depth[u] /\ frame'[u][e] = frame[u][e]
  BY <1>1, <1>2 DEF Others
<1>4. k \notin 1..depth'[t]
  BY <1>1, <1>2
<1> QED
  BY <1>3, <1>4, FramesStep

LEMMA GotoFits ==
  ASSUME IInv, FramesFit, NEW t \in Tasks, depth[t] > 0,
         NEW at \in {"begin", "body", "commit", "commitAnyway", "rollback", "close"},
         Goto(t, at), depth' = depth, home' = home, exposed \subseteq exposed',
         Undisturbed(t, depth[t]), Top(t).kind = "opened",
         Top(t).scope \in durable' => at \in {"commitAnyway", "close"} \/ Top(t).scope \in exposed'
  PROVE  FramesFit'
<1>1. \A u \in Tasks : depth[u] \in 0..MaxDepth
  BY DEF IInv, TypeOK
<1>2. frame'[t][depth[t]] = [Top(t) EXCEPT !.at = at] /\ Others(t, depth[t])
  BY GotoFacts DEF IInv
<1> PICK k \in Nat : k = depth[t]
  BY <1>1
<1>3. \A u \in Tasks : \A e \in 1..depth'[u] :
        u # t \/ e # k => e \in 1..depth[u] /\ frame'[u][e] = frame[u][e]
  BY <1>1, <1>2 DEF Others
<1>4. FrameFits(Top(t)) /\ Top(t) \in Frame
  BY <1>1 DEF FramesFit, Top, IInv, TypeOK
<1>5. /\ frame'[t][k].kind = "opened" /\ frame'[t][k].svc = Top(t).svc
      /\ frame'[t][k].scope = Top(t).scope /\ frame'[t][k].at = at
  BY <1>2, <1>4 DEF Frame
<1>6. FrameFits(frame[t][k])'
  BY <1>4, <1>5 DEF FrameFits, Patched
<1> QED
  BY <1>3, <1>6, FramesStep

(* The calls that make, leave or end a method without touching the data. *)
LEMMA SoloUntouched ==
  ASSUME FreshUnused, \A s \in Sessions \ exposed : Solo(s),
         UNCHANGED <<bound, opened, status, home, dataVars>>, exposed \subseteq exposed'
  PROVE  FreshUnused' /\ \A s \in Sessions \ exposed' : Solo(s)'
<1>1. \A s \in Sessions \ exposed' : s \in Sessions \ exposed
  OBVIOUS
<1> QED
  BY <1>1 DEF FreshUnused, Solo, Patched, dataVars

(* Top(t) of a call that opened x. *)
LEMMA OpenerFacts ==
  ASSUME IInv, SoloInv, NEW t \in Tasks, depth[t] > 0, Top(t).at # "body"
  PROVE  \E x \in Sessions :
           /\ Top(t).scope = x /\ home[x] = Top(t).svc
           /\ status[x] \in StatusAt(Top(t).at) /\ Top(t).kind = "opened"
           /\ x \in durable => x \in exposed \/ Top(t).at \in {"commitAnyway", "close"}
<1>1. /\ Top(t).kind = "opened" /\ Top(t).scope \in Sessions
      /\ status[Top(t).scope] \in StatusAt(Top(t).at)
  BY AtFacts
<1>2. FrameFits(Top(t))
  BY DEF IInv, TypeOK, SoloInv, FramesFit, Top
<1> QED
  BY <1>1, <1>2 DEF FrameFits, Sessions, Outside

(* What a method that is under way finds. *)
LEMMA BodyFacts ==
  ASSUME IInv, SoloInv, NEW t \in Tasks, InBody(t), active[t] # Outside, active[t] \notin exposed
  PROVE  /\ RepoOf[Top(t).svc] \subseteq Patched(home[active[t]])
         /\ status[active[t]] = "begun" /\ active[t] \notin durable
<1>1. active[t] = Top(t).scope
  BY ActiveOpened
<1>2. FrameFits(Top(t))
  BY DEF IInv, TypeOK, SoloInv, FramesFit, Top, InBody
<1>3. Top(t).kind = "opened" => status[Top(t).scope] = "begun"
  BY AtFacts DEF InBody, StatusAt
<1> QED
  BY <1>1, <1>2, <1>3 DEF FrameFits, InBody

(* A session that a call ends, or may have ended, is exposed if another    *)
(* call has it.                                                            *)
LEMMA EndsUndisturbed ==
  ASSUME IInv, NEW t \in Tasks, NEW x \in Sessions, Top(t).scope = x, Ends(t),
         \A s \in Sessions : s # x => status'[s] = status[s],
         durable' = durable \/ durable' = durable \cup pending[x],
         \A s \in Sessions \ exposed : \A y \in Scopes : s \in pending[y] => y = s
  PROVE  Undisturbed(t, depth[t]) /\ exposed \subseteq exposed'
<1> SUFFICES ASSUME NEW u \in Tasks, NEW e \in 1..depth[u], NEW s,
                    u # t \/ e # depth[t], frame[u][e].scope = s, s # Outside, s \notin exposed'
             PROVE  status'[s] \in {status[s], "begun"} /\ (s \in durable' => s \in durable)
  BY DEF Undisturbed, Ends
<1>1. s \in Sessions
  BY ScopesOpened DEF IInv, TypeOK, Sessions
<1>2. s # x
  BY <1>1 DEF Ends
<1>3. s \notin pending[x]
  BY <1>1, <1>2 DEF Ends, Sessions, Scopes
<1> QED
  BY <1>1, <1>2, <1>3

LEMMA SoloStep ==
  ASSUME IInv, SoloInv, [Next]_vars
  PROVE  SoloInv'
<1>1. CASE UNCHANGED vars
  BY <1>1 DEF vars, stackVars, dataVars, SoloInv, FramesFit, FrameFits, FreshUnused, Solo, Patched
<1> SUFFICES ASSUME NEW t \in Tasks, Step(t) PROVE SoloInv'
  BY <1>1 DEF Next
<1>a. TypeOK /\ FramesFit /\ FreshUnused /\ \A s \in Sessions \ exposed : Solo(s)
  BY DEF IInv, SoloInv
<1>b. depth[t] \in 0..MaxDepth /\ active[t] \in Scopes /\ opened \in 0..MaxSessions
  BY <1>a DEF TypeOK
<1>o. depth[t] = 0 => active[t] = Outside
  BY DEF IInv, StackInv, ActiveIsCurrent, Current
<1>2. ASSUME NEW svc \in Services, NEW p, Join(t, svc, p) PROVE SoloInv'
  <2> DEFINE f == [svc |-> svc, kind |-> "joined", scope |-> active[t], token |-> active[t], at |-> "body"]
  <2>1. /\ depth[t] < MaxDepth /\ Push(t, f)
        /\ UNCHANGED <<bound, opened, status, home, dataVars>>
    BY <1>2 DEF Join, MayCall
  <2>2. /\ exposed \subseteq exposed'
        /\ active[t] # Outside /\ active[t] \notin exposed' => RepoOf[svc] \subseteq Patched(home[active[t]])
    BY <1>2 DEF Join
  <2>3. f \in Frame /\ f.kind = "joined" /\ f.scope = active[t] /\ f.svc = svc
    BY <1>b DEF Frame
  <2>b. active[t] # Outside /\ active[t] \notin exposed' =>
          status[active[t]] = "begun" /\ active[t] \notin durable
    BY <1>2, <1>o, <2>2, BodyFacts DEF Join, MayCall
  <2> HIDE DEF f
  <2>4. PICK g \in Frame : g = f
    BY <2>3
  <2>5. FrameFits(g)'
    BY <2>1, <2>2, <2>3, <2>b, <2>4 DEF FrameFits, Patched, dataVars
  <2>6. FramesFit'
    BY <1>a, <2>1, <2>2, <2>4, <2>5, PushFits DEF dataVars
  <2> QED
    BY <1>a, <2>1, <2>2, <2>6, SoloUntouched DEF SoloInv
<1>s. ASSUME NEW u \in Tasks, Spawn(t, u) PROVE SoloInv'
  <2> DEFINE f == [svc |-> Top(t).svc, kind |-> "task", scope |-> active[t], token |-> Outside, at |-> "body"]
  <2>1. /\ depth[u] < MaxDepth /\ Push(u, f) /\ InBody(t) /\ active[t] # Outside
        /\ UNCHANGED <<bound, opened, status, home, dataVars, exposed>>
    BY <1>s, <1>a DEF Spawn, TypeOK
  <2>2. Top(t).svc \in Services
    BY <1>a, <2>1 DEF InBody, Top, TypeOK, Frame
  <2>3. f \in Frame /\ f.kind = "task" /\ f.scope = active[t] /\ f.svc = Top(t).svc
    BY <1>b, <2>2 DEF Frame, Scopes, Outside
  <2>b. active[t] \notin exposed => /\ RepoOf[Top(t).svc] \subseteq Patched(home[active[t]])
                                    /\ status[active[t]] = "begun" /\ active[t] \notin durable
    BY <2>1, BodyFacts
  <2> HIDE DEF f
  <2>4. PICK g \in Frame : g = f
    BY <2>3
  <2>5. FrameFits(g)'
    BY <2>1, <2>3, <2>b, <2>4 DEF FrameFits, Patched, dataVars
  <2>6. FramesFit'
    BY <1>a, <2>1, <2>4, <2>5, PushFits DEF dataVars
  <2> QED
    BY <1>a, <2>1, <2>6, SoloUntouched DEF SoloInv
<1>3. ASSUME NEW svc \in Services, Suspend(t, svc) PROVE SoloInv'
  <2> DEFINE f == [svc |-> svc, kind |-> "suspended", scope |-> Outside, token |-> active[t], at |-> "body"]
  <2>1. /\ depth[t] < MaxDepth /\ Push(t, f)
        /\ UNCHANGED <<bound, opened, status, home, dataVars, exposed>>
    BY <1>3 DEF Suspend, MayCall
  <2>2. f \in Frame /\ f.kind = "suspended" /\ f.scope = Outside
    BY <1>b DEF Frame, Scopes, Outside
  <2> HIDE DEF f
  <2>3. PICK g \in Frame : g = f
    BY <2>2
  <2>4. FrameFits(g)'
    BY <2>2, <2>3 DEF FrameFits
  <2>5. FramesFit'
    BY <1>a, <2>1, <2>3, <2>4, PushFits DEF dataVars
  <2> QED
    BY <1>a, <2>1, <2>5, SoloUntouched DEF SoloInv
<1>4. ASSUME NEW svc \in Services, NEW p, Open(t, svc, p) PROVE SoloInv'
  <2> DEFINE f == [svc |-> svc, kind |-> "opened", scope |-> opened + 1, token |-> active[t], at |-> "begin"]
  <2>1. /\ depth[t] < MaxDepth /\ Push(t, f) /\ opened < MaxSessions /\ opened' = opened + 1
        /\ status' = [status EXCEPT ![opened + 1] = "opening"]
        /\ home' = [home EXCEPT ![opened + 1] = svc]
        /\ UNCHANGED <<bound, dataVars, exposed>>
    BY <1>4 DEF Open, MayCall
  <2>2. PICK x \in Sessions : x = opened + 1
    BY <1>b, <2>1 DEF Sessions
  <2>3. /\ status[x] = "unused" /\ status'[x] = "opening" /\ home'[x] = svc /\ opened' = x
        /\ \A s \in Sessions : s # x => status'[s] = status[s] /\ home'[s] = home[s]
    BY <1>a, <1>b, <2>1, <2>2 DEF FreshUnused, TypeOK
  <2>4. f \in Frame /\ f.kind = "opened" /\ f.scope = x /\ f.svc = svc
    BY <1>b, <2>2 DEF Frame, Sessions, Scopes
  <2> HIDE DEF f
  <2>5. PICK g \in Frame : g = f
    BY <2>4
  <2>b. x \notin exposed => x \notin durable
    BY <1>a, <2>3 DEF Solo
  <2>6. FrameFits(g)'
    BY <2>1, <2>3, <2>4, <2>5, <2>b DEF FrameFits, Patched, dataVars
  <2>7. \A s \in 1..opened : s \in Sessions /\ s # x
    BY <1>b, <2>2 DEF Sessions
  <2>8. FramesFit'
    BY <1>a, <2>1, <2>3, <2>5, <2>6, <2>7, PushFits DEF dataVars
  <2>9. FreshUnused'
    BY <1>a, <1>b, <2>2, <2>3 DEF FreshUnused, Sessions
  <2>10. ASSUME NEW s \in Sessions \ exposed PROVE Solo(s)'
    <3>1. Solo(s)
      BY <1>a
    <3> QED
      BY <2>1, <2>3, <2>b, <3>1 DEF Solo, Patched, dataVars
  <2> QED
    BY <2>1, <2>8, <2>9, <2>10 DEF SoloInv
<1>c. ASSUME NEW x \in Sessions, status[x] # "unused",
             NEW new, status' = [status EXCEPT ![x] = new], opened' = opened
      PROVE  /\ status'[x] = new /\ \A s \in Sessions : s # x => status'[s] = status[s]
             /\ FreshUnused'
  BY <1>a, <1>c DEF FreshUnused, TypeOK
<1>u. ASSUME NEW x \in Sessions, Top(t).kind = "opened", Top(t).scope = x, depth[t] > 0,
             status[x] = "opening", durable' = durable, exposed \subseteq exposed',
             \A s \in Sessions : s # x => status'[s] = status[s]
      PROVE  Undisturbed(t, depth[t])
  <2> SUFFICES ASSUME NEW v \in Tasks, NEW e \in 1..depth[v], NEW s,
                      v # t \/ e # depth[t],
                      frame[v][e].scope = s, s # Outside, s \notin exposed'
               PROVE  status'[s] = status[s]
    BY <1>u DEF Undisturbed
  <2>1. s \in Sessions
    BY ScopesOpened DEF IInv, TypeOK, Sessions
  <2>2. FrameFits(frame[v][e])
    BY <1>a DEF FramesFit
  <2>3. s = x => frame[v][e].kind = "opened"
    BY <1>u, <2>2 DEF FrameFits
  <2>4. s # x
    <3>1. depth[t] \in 1..depth[t] /\ frame[t][depth[t]].kind = "opened" /\ frame[t][depth[t]].scope = x
      BY <1>b, <1>u DEF Top
    <3> QED
      BY <2>3, <3>1 DEF IInv, StackInv, OneOpener
  <2> QED
    BY <1>u, <2>1, <2>4
<1>5. CASE Begin(t)
  <2>1. /\ depth[t] > 0 /\ Top(t).at = "begin" /\ Goto(t, "body")
        /\ bound' = Patch(Top(t).svc, Top(t).scope)
        /\ status' = [status EXCEPT ![Top(t).scope] = "begun"]
        /\ exposed' = exposed \cup
             {x \in Sessions : /\ status[x] = "begun"
                               /\ Patched(home[x]) \cap Patched(Top(t).svc) # {}}
        /\ UNCHANGED <<depth, opened, home, dataVars>>
    BY <1>5 DEF Begin, At
  <2>2. PICK x \in Sessions : /\ Top(t).scope = x /\ home[x] = Top(t).svc /\ status[x] = "opening"
                              /\ Top(t).kind = "opened" /\ (x \in durable => x \in exposed)
    BY <2>1, OpenerFacts DEF StatusAt
  <2>4. /\ status'[x] = "begun" /\ FreshUnused'
        /\ \A s \in Sessions : s # x => status'[s] = status[s]
    BY <1>c, <2>1, <2>2
  <2>3. FramesFit'
    <3>1. Undisturbed(t, depth[t])
      BY <1>u, <2>1, <2>2, <2>4 DEF dataVars
    <3> QED
      BY <1>a, <2>1, <2>2, <3>1, GotoFits DEF dataVars
  <2>5. \A r \in Repos : bound'[r] = IF r \in Patched(home[x]) THEN x ELSE bound[r]
    BY <2>1, <2>2 DEF Patch
  <2>6. \A s \in Sessions : Patched(home[s]) \subseteq Repos
    BY <1>a DEF Patched, TypeOK
  <2>7. ASSUME NEW s \in Sessions \ exposed' PROVE Solo(s)'
    <3>1. Solo(s) /\ (status[s] = "begun" => Patched(home[s]) \cap Patched(home[x]) = {})
      BY <1>a, <2>1, <2>2
    <3>2. status'[s] = "begun" => \A r \in Patched(home[s]) : bound'[r] = s
      <4>1. CASE s = x
        BY <2>5, <2>6, <4>1
      <4>2. CASE s # x
        BY <2>4, <2>5, <2>6, <3>1, <4>2 DEF Solo
      <4> QED
        BY <4>1, <4>2
    <3>3. Patched(home[s])' = Patched(home[s])
      BY <2>1 DEF Patched
    <3> QED
      BY <2>1, <2>2, <2>4, <3>1, <3>2, <3>3 DEF Solo, dataVars
  <2> QED
    BY <2>3, <2>4, <2>7 DEF SoloInv
<1>6. CASE BeginFails(t)
  <2>1. /\ depth[t] > 0 /\ Top(t).at = "begin" /\ Pop(t)
        /\ status' = [status EXCEPT ![Top(t).scope] = "rolledback"]
        /\ UNCHANGED <<bound, opened, home, dataVars, exposed>>
    BY <1>6 DEF BeginFails, At
  <2>2. PICK x \in Sessions : /\ Top(t).scope = x /\ status[x] = "opening"
                              /\ Top(t).kind = "opened" /\ (x \in durable => x \in exposed)
    BY <2>1, OpenerFacts DEF StatusAt
  <2>4. /\ status'[x] = "rolledback" /\ FreshUnused'
        /\ \A s \in Sessions : s # x => status'[s] = status[s]
    BY <1>c, <2>1, <2>2
  <2>3. FramesFit'
    <3>1. Undisturbed(t, depth[t])
      BY <1>u, <2>1, <2>2, <2>4 DEF dataVars
    <3> QED
      BY <1>a, <2>1, <3>1, PopFits
  <2>5. ASSUME NEW s \in Sessions \ exposed PROVE Solo(s)'
    <3>1. Solo(s)
      BY <1>a
    <3> QED
      BY <2>1, <2>2, <2>4, <3>1 DEF Solo, Patched, dataVars
  <2> QED
    BY <2>1, <2>3, <2>4, <2>5 DEF SoloInv
<1>7. ASSUME NEW r \in Repos, Write(t, r) PROVE SoloInv'
  <2>1. /\ InBody(t) /\ active[t] # Outside /\ r \in RepoOf[Top(t).svc]
        /\ pending' = [pending EXCEPT ![bound[r]] = @ \cup {active[t]}]
        /\ UNCHANGED <<stackVars, bound, opened, status, home, durable, dropped, exposed>>
    BY <1>7 DEF Write
  <2>2. FramesFit' /\ FreshUnused'
    <3>1. UNCHANGED <<depth, frame, bound, opened, status, home, durable, exposed>>
      BY <2>1 DEF stackVars
    <3>2. FramesFit'
      BY <1>a, <3>1 DEF FramesFit, FrameFits, Patched
    <3>3. FreshUnused'
      BY <1>a, <3>1 DEF FreshUnused
    <3> QED
      BY <3>2, <3>3
  <2>3. active[t] \in Sessions
    BY <1>b, <2>1 DEF Scopes, Sessions, Outside
  <2>4. active[t] \notin exposed => /\ bound[r] = active[t] /\ status[active[t]] = "begun"
                                    /\ active[t] \notin durable
    BY <1>a, <2>1, <2>3, BodyFacts DEF Solo
  <2>7. \A x \in Scopes : pending'[x] = IF x = bound[r] THEN pending[x] \cup {active[t]} ELSE pending[x]
    BY <1>a, <2>1 DEF TypeOK
  <2>8. ASSUME NEW s \in Sessions \ exposed PROVE Solo(s)'
    <3>1. Solo(s) /\ s \in Scopes
      BY <1>a DEF Sessions, Scopes
    <3>2. CASE s # active[t]
      BY <2>1, <2>7, <3>1, <3>2 DEF Solo, Patched
    <3>3. CASE s = active[t]
      BY <2>1, <2>4, <2>7, <3>1, <3>3 DEF Solo, Patched
    <3> QED
      BY <3>2, <3>3
  <2> QED
    BY <2>1, <2>2, <2>8 DEF SoloInv
<1>8. CASE Leave(t)
  <2>1. depth[t] > 0 /\ Pop(t) /\ UNCHANGED <<bound, opened, status, home, dataVars, exposed>>
    BY <1>8 DEF Leave, InBody
  <2>2. Undisturbed(t, depth[t])
    BY <2>1 DEF Undisturbed, dataVars
  <2> QED
    BY <1>a, <2>1, <2>2, PopFits, SoloUntouched DEF SoloInv
<1>9. ASSUME NEW next \in {"commit", "rollback", "commitAnyway"}, End(t, next) PROVE SoloInv'
  <2>1. /\ InBody(t) /\ depth[t] > 0 /\ Top(t).kind = "opened" /\ Goto(t, next)
        /\ UNCHANGED <<depth, active, bound, opened, status, home, dataVars, exposed>>
    BY <1>9 DEF End, InBody
  <2>2. Undisturbed(t, depth[t])
    BY <2>1 DEF Undisturbed, dataVars
  <2>3. Top(t).scope \in durable => Top(t).scope \in exposed
    <3>1. active[t] = Top(t).scope /\ Top(t).scope \in Sessions
      BY <2>1, ActiveOpened, AtFacts
    <3>2. active[t] # Outside
      BY <3>1 DEF Sessions, Outside
    <3> QED
      BY <2>1, <3>1, <3>2, BodyFacts
  <2>4. FramesFit'
    BY <1>a, <2>1, <2>2, <2>3, GotoFits DEF dataVars
  <2> QED
    BY <1>a, <2>1, <2>4, SoloUntouched DEF SoloInv
<1>p. \A s \in Sessions \ exposed : \A y \in Scopes : s \in pending[y] => y = s
  BY <1>a DEF Solo
<1>w. ASSUME NEW x \in Sessions, Committed(t), Top(t).scope = x
      PROVE  /\ durable' = durable \cup pending[x]
             /\ \A y \in Scopes : pending'[y] = IF y = x THEN {} ELSE pending[y]
  BY <1>a, <1>w DEF Committed, TypeOK
<1>10. CASE Commit(t)
  <2>1. /\ depth[t] > 0 /\ Top(t).at \in {"commit", "commitAnyway"} /\ Goto(t, "close")
        /\ Committed(t) /\ Ends(t)
        /\ status' = [status EXCEPT ![Top(t).scope] = "committed"]
        /\ UNCHANGED <<depth, bound, opened, home, dropped>>
    BY <1>10 DEF Commit, At
  <2>2. PICK x \in Sessions : Top(t).scope = x /\ status[x] = "begun" /\ Top(t).kind = "opened"
    BY <2>1, OpenerFacts DEF StatusAt
  <2>3. /\ status'[x] = "committed" /\ FreshUnused'
        /\ \A s \in Sessions : s # x => status'[s] = status[s]
    BY <1>c, <2>1, <2>2
  <2>4. /\ durable' = durable \cup pending[x]
        /\ \A y \in Scopes : pending'[y] = IF y = x THEN {} ELSE pending[y]
    BY <1>w, <2>1, <2>2
  <2>5. Undisturbed(t, depth[t]) /\ exposed \subseteq exposed'
    BY <1>p, <2>1, <2>2, <2>3, <2>4, EndsUndisturbed
  <2>6. FramesFit'
    BY <1>a, <2>1, <2>2, <2>5, GotoFits
  <2>7. ASSUME NEW s \in Sessions \ exposed' PROVE Solo(s)'
    <3>1. Solo(s) /\ s \in Scopes /\ x \in Scopes
      BY <1>a, <2>5 DEF Sessions, Scopes
    <3> QED
      BY <2>1, <2>2, <2>3, <2>4, <3>1 DEF Solo, Patched
  <2> QED
    BY <2>3, <2>6, <2>7 DEF SoloInv
<1>11. CASE CommitFails(t)
  <2>1. /\ depth[t] > 0 /\ Top(t).at = "commit" /\ Goto(t, "rollback")
        /\ UNCHANGED <<depth, bound, opened, status, home, dataVars, exposed>>
    BY <1>11 DEF CommitFails, At
  <2>2. Top(t).kind = "opened" /\ (Top(t).scope \in durable => Top(t).scope \in exposed)
    BY <2>1, OpenerFacts
  <2>3. Undisturbed(t, depth[t])
    BY <2>1 DEF Undisturbed, dataVars
  <2>4. FramesFit'
    BY <1>a, <2>1, <2>2, <2>3, GotoFits DEF dataVars
  <2> QED
    BY <1>a, <2>1, <2>4, SoloUntouched DEF SoloInv
<1>x. ASSUME depth[t] > 0, NEW at \in {"commitAnyway", "close"}, Goto(t, at), Ends(t),
             Top(t).at \in {"commit", "commitAnyway"},
             Committed(t) \/ UNCHANGED <<durable, pending>>,
             status' = status \/ status' = [status EXCEPT ![Top(t).scope] = "unknown"],
             UNCHANGED <<depth, bound, opened, home, dropped>>
      PROVE  SoloInv'
  <2>2. PICK x \in Sessions : Top(t).scope = x /\ status[x] = "begun" /\ Top(t).kind = "opened"
    BY <1>x, OpenerFacts DEF StatusAt
  <2>3. /\ status'[x] \in {"begun", "unknown"} /\ FreshUnused'
        /\ \A s \in Sessions : s # x => status'[s] = status[s]
    <3>1. CASE status' = status
      BY <1>a, <1>x, <2>2, <3>1 DEF FreshUnused
    <3>2. CASE status' = [status EXCEPT ![Top(t).scope] = "unknown"]
      BY <1>c, <1>x, <2>2, <3>2
    <3> QED
      BY <1>x, <3>1, <3>2
  <2>4. \/ /\ durable' = durable \cup pending[x]
           /\ \A y \in Scopes : pending'[y] = IF y = x THEN {} ELSE pending[y]
        \/ UNCHANGED <<durable, pending>>
    BY <1>w, <1>x, <2>2
  <2>5. Undisturbed(t, depth[t]) /\ exposed \subseteq exposed'
    BY <1>p, <1>x, <2>2, <2>3, <2>4, EndsUndisturbed
  <2>6. FramesFit'
    BY <1>a, <1>x, <2>2, <2>5, GotoFits
  <2>7. ASSUME NEW s \in Sessions \ exposed' PROVE Solo(s)'
    <3>1. Solo(s) /\ s \in Scopes /\ x \in Scopes
      BY <1>a, <2>5 DEF Sessions, Scopes
    <3> QED
      BY <1>x, <2>2, <2>3, <2>4, <3>1 DEF Solo, Patched
  <2> QED
    BY <2>3, <2>6, <2>7 DEF SoloInv
<1>14. CASE CommitCut(t)
  BY <1>14, <1>x DEF CommitCut, At
<1>15. CASE CommitAnywayFails(t)
  BY <1>15, <1>x DEF CommitAnywayFails, At
<1>12. CASE Rollback(t)
  <2>1. /\ depth[t] > 0 /\ Top(t).at = "rollback" /\ Goto(t, "close") /\ Ends(t)
        /\ status' = [status EXCEPT ![Top(t).scope] = "rolledback"]
        /\ \/ /\ dropped' = dropped \cup pending[Top(t).scope]
              /\ pending' = [pending EXCEPT ![Top(t).scope] = {}]
           \/ UNCHANGED <<dropped, pending>>
        /\ UNCHANGED <<depth, bound, opened, home, durable>>
    BY <1>12 DEF Rollback, At
  <2>2. PICK x \in Sessions : /\ Top(t).scope = x /\ status[x] = "begun" /\ Top(t).kind = "opened"
                              /\ x \in durable => x \in exposed
    BY <2>1, OpenerFacts DEF StatusAt
  <2>3. /\ status'[x] = "rolledback" /\ FreshUnused'
        /\ \A s \in Sessions : s # x => status'[s] = status[s]
    BY <1>c, <2>1, <2>2
  <2>4. /\ \A y \in Scopes : pending'[y] \subseteq pending[y]
        /\ dropped' \subseteq dropped \cup pending[x]
    BY <1>a, <2>1, <2>2 DEF TypeOK
  <2>5. Undisturbed(t, depth[t]) /\ exposed \subseteq exposed'
    BY <1>p, <2>1, <2>2, <2>3, EndsUndisturbed
  <2>6. FramesFit'
    BY <1>a, <2>1, <2>2, <2>5, GotoFits
  <2>7. ASSUME NEW s \in Sessions \ exposed' PROVE Solo(s)'
    <3>1. Solo(s) /\ s \in Scopes /\ x \in Scopes /\ s \notin exposed
      BY <1>a, <2>5 DEF Sessions, Scopes
    <3> QED
      BY <2>1, <2>2, <2>3, <2>4, <3>1 DEF Solo, Patched
  <2> QED
    BY <2>3, <2>6, <2>7 DEF SoloInv
<1>13. CASE Close(t)
  <2>1. /\ depth[t] > 0 /\ Top(t).at = "close" /\ Pop(t)
        /\ dropped' = dropped \cup pending[Top(t).scope]
        /\ pending' = [pending EXCEPT ![Top(t).scope] = {}]
        /\ UNCHANGED <<bound, opened, status, home, durable, exposed>>
    BY <1>13 DEF Close, At
  <2>2. PICK x \in Sessions : Top(t).scope = x /\ status[x] \in {"committed", "rolledback", "unknown"}
    BY <2>1, OpenerFacts DEF StatusAt
  <2>3. Undisturbed(t, depth[t])
    BY <2>1 DEF Undisturbed
  <2>4. FramesFit' /\ FreshUnused'
    BY <1>a, <2>1, <2>3, PopFits DEF FreshUnused
  <2>5. \A y \in Scopes : pending'[y] \subseteq pending[y]
    BY <1>a, <2>1 DEF TypeOK
  <2>6. ASSUME NEW s \in Sessions \ exposed PROVE Solo(s)'
    <3>1. Solo(s) /\ s \in Scopes /\ x \in Scopes
      BY <1>a DEF Sessions, Scopes
    <3> QED
      BY <2>1, <2>2, <2>5, <3>1 DEF Solo, Patched
  <2> QED
    BY <2>1, <2>4, <2>6 DEF SoloInv
<1> QED
  BY <1>2, <1>s, <1>3, <1>4, <1>5, <1>6, <1>7, <1>8, <1>9, <1>10, <1>11, <1>12, <1>13, <1>14, <1>15
     DEF Step, Call

LEMMA SoloAtomic == SoloInv => SoloIsAtomic
BY DEF SoloInv, Solo, SoloIsAtomic

-----------------------------------------------------------------------------
(* The types of all variables; the stack of a task never underflows.       *)
THEOREM TypeCorrect == Spec => []TypeOK
BY TypeInit, TypeStep, PTL DEF Spec

(* The ContextVar of a task is its own session, begun and not ended, or    *)
(* the one the task was created with, for every nesting of every           *)
(* propagation and whatever fails, is cancelled or creates tasks.          *)
THEOREM ActiveIsOwnHolds == Spec => []ActiveIsOwn
BY InvInit, InvStep, InvActive, PTL DEF Spec

(* A session whose repositories stayed its own, and that no other task had *)
(* when it was ended, is committed or rolled back as a whole, for any      *)
(* services, sharing of repositories and failures of begin, commit and     *)
(* rollback, and with commits that are cut.                                *)
THEOREM SoloIsAtomicHolds == Spec => []SoloIsAtomic
BY InvInit, InvStep, SoloInit, SoloStep, SoloAtomic, PTL DEF Spec
=============================================================================
