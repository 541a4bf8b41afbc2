----------------------------- MODULE Cqrs_proofs -----------------------------
(***************************************************************************)
(* Proofs about Cqrs, for any number of callers, keys, calls and failures, *)
(* any events, patterns and lifetimes, with one tier or two.               *)
(***************************************************************************)
EXTENDS Cqrs, TLAPS

USE CqrsAssumption, CacheAssumption

Types == {Events[i] : i \in DOMAIN Events}

(* A caller that awaits the cache, and what its call is for.               *)
Pending(c) == io[c].at # "no"
Linked(t, call) ==
  /\ t.pc \in {"cache", "put"}
  /\ call.op = "put" <=> t.pc = "put"
  /\ call.op = "put" => /\ t.kind \in Readers \cup {"put"}
                        /\ call.slots = {SlotOf(t)} /\ call.val = t.seen
  /\ call.op \in {"evict", "clear"} => t.kind \notin Readers \cup {"put", "command"}
  /\ call.op = "get" => t.kind \in Readers /\ call.slots # {}
LinksInv == \A c \in Callers : Pending(c) => Linked(task[c], io[c]) /\ io[c].op # "none"

(* Nobody knows of a version that there has not been.                      *)
SeenInv ==
  /\ \A c \in Callers : task[c].seen <= data[task[c].key]
  /\ \A e \in inbox : e.seen <= data[e.key]
  /\ \A s \in Slots : flushed[s] <= data[s[2]]

SingleInv == ~managed => \A s \in Slots : store["fallback"][s] = Gone

(* Version v may be in slot s, or come into it, when those before n are to *)
(* have left it.                                                           *)
Excused(v, s, n) == v # 0 /\ v < n => v \in excused[s]

CarryInv == \A c \in Callers, s \in Slots : Carries(task[c], s) => Excused(task[c].seen, s, flushed[s])

(* An eviction that has not returned: whoever may still fill the slot was  *)
(* there when it left, and what the primary has when it took it came after.*)
Flushing(c, s) == Pending(c) /\ io[c].op # "get" /\ s \in Flushes(c)
FlushInv ==
  \A c \in Callers, s \in Slots : Flushing(c, s) =>
    /\ \A d \in Callers \ {c} : Carries(task[d], s) => Excused(task[d].seen, s, task[c].seen)
    /\ Back(c) /\ ~io[c].failed => Excused(store["primary"][s].val, s, task[c].seen)

(* A command on its way to its answer.                                     *)
Announces(t) == t.kind = "command" =>
  /\ t.pc \in {"admit", "handle", "hooks", "publish", "done"}
  /\ t.pc \in {"admit", "handle", "hooks"} => t.next = 1 /\ ~t.lost
  /\ t.pc = "publish" => t.next <= Len(Events) + 1
  /\ t.pc = "done" =>
       \/ t.next = Len(Events) + 1 /\ (t.ok <=> ~(t.lost /\ app.strategy = "RAISE"))
       \/ t.next = 1 /\ ~t.ok /\ ~t.lost
(* The listener has an event.                                              *)
Listens(t) == /\ t.pc = "listen" => t.kind = "listener"
              /\ t.kind = "listener" => t.event \in Types

Sound(t) == Announces(t) /\ Listens(t)
TasksInv == \A c \in Callers : Sound(task[c])

IInv ==
  /\ TypeOK
  /\ LinksInv
  /\ SeenInv
  /\ SingleInv
  /\ CarryInv
  /\ FlushInv
  /\ StaleOnlyByRace
  /\ TasksInv

-----------------------------------------------------------------------------
(* Tasks, slots and calls.                                                 *)

\* Rules knows every type of event.
LEMMA EventsFacts == Events \in Seq(Types) /\ Len(Events) \in Nat /\ Rules \in [Types -> Seq(0..1)]
<1>1. DOMAIN Rules = Types /\ Rules \in [Types -> Seq(0..1)]
  BY DEF Types
<1> QED
  BY <1>1

\* A caller at rest.
LEMMA IdleFacts == Idle \in Task /\ Idle.kind = "none" /\ Idle.seen = 0 /\ Idle.pc = "done"
<1>1. (CHOOSE k \in Keys : TRUE) \in Keys
  OBVIOUS
<1> QED
  BY <1>1 DEF Idle, Task

\* A query or a function has a slot of its key.
LEMMA SlotFacts ==
  ASSUME NEW t \in Task
  PROVE  SlotOf(t) \in Slots /\ SlotOf(t)[2] = t.key
BY DEF SlotOf, QuerySlot, FunctionSlot, Task

\* A slot is for a key.
LEMMA SlotsFacts ==
  ASSUME NEW s \in Slots PROVE s[2] \in Keys
OBVIOUS

-----------------------------------------------------------------------------
(* What a step does, as far as the invariant goes.                         *)

(* Caller c goes on as t, without a call of the cache, or with the one it  *)
(* awaited done with.  It carries a value only if it has just read it.     *)
Steps(c, t) ==
  /\ t \in Task /\ t.seen <= data'[t.key] /\ Sound(t)
  /\ t.pc \in {"hooks", "put"} => t.seen = data'[t.key]
  /\ task' = [task EXCEPT ![c] = t]
  /\ (io' = io /\ ~Pending(c)) \/ io' = [io EXCEPT ![c] = NoCall]
  /\ data' \in [Keys -> Nat] /\ \A k \in Keys : data[k] <= data'[k]
  /\ inbox' \subseteq [type : Types, key : Keys, seen : Nat] /\ \A e \in inbox' : e.seen <= data'[e.key]
  /\ calls' \in 0..app.calls /\ failures' \in 0..MaxFailures
  /\ UNCHANGED <<managed, store, app, history>>

(* It calls the cache, and carries what it carried before.                 *)
Asks(c, t, op, slots, val, ttl) ==
  /\ t \in Task /\ t.seen <= data[t.key] /\ Sound(t)
  /\ op \in {"get", "put", "evict", "clear"} /\ slots \in SUBSET Slots /\ val \in Nat /\ ttl \in Nat \cup {Forever}
  /\ Linked(t, Call(op, slots, val, ttl))
  /\ \A s \in Slots : Carries(t, s) => Carries(task[c], s) /\ t.seen = task[c].seen
  /\ ~Pending(c)
  /\ Await(c, t, op, slots, val, ttl)
  /\ UNCHANGED <<managed, store, failures, app, data, inbox, calls, flushed>>

(* The primary has answered c, or failed, and done what it was asked or    *)
(* failed before.                                                          *)
Answers(c) ==
  /\ Pending(c)
  /\ \E got \in Nat : \E failed \in BOOLEAN :
       /\ io' = [io EXCEPT ![c].at = "back", ![c].got = got, ![c].failed = failed]
       /\ \/ store' = [store EXCEPT !["primary"] = Effect(store["primary"], io[c])]
          \/ failed /\ store' = store
  /\ failures' \in 0..MaxFailures
  /\ UNCHANGED <<managed, busVars, history>>


\* What Finish leaves, unless it reports the success of a command.
LEMMA FinishFacts ==
  ASSUME TypeOK, NEW c \in Callers, NEW b \in BOOLEAN, Finish(c, b),
         task[c].kind = "command" => ~b /\ ~task[c].lost /\ task[c].next = 1
  PROVE  \E t \in Task : task' = [task EXCEPT ![c] = t] /\ t.seen = 0 /\ t.pc = "done" /\ Sound(t)
<1> DEFINE u == [task[c] EXCEPT !.pc = "done", !.ok = b, !.seen = 0]
<1>1. task[c] \in Task
  BY DEF TypeOK
<1>2. CASE task[c].kind = "command"
  <2>1. u \in Task /\ u.seen = 0 /\ u.pc = "done" /\ u.ok = b /\ u.lost = task[c].lost /\ u.next = task[c].next
    BY <1>1 DEF Task
  <2>2. Sound(u)
    BY <1>2, <2>1 DEF Sound, Announces, Listens
  <2>3. task' = [task EXCEPT ![c] = u]
    BY <1>2 DEF Finish
  <2> HIDE DEF u
  <2> QED
    BY <2>1, <2>2, <2>3
<1>3. CASE task[c].kind # "command"
  <2>1. task' = [task EXCEPT ![c] = Idle]
    BY <1>3 DEF Finish
  <2> QED
    BY <2>1, IdleFacts DEF Sound, Announces, Listens
<1> QED
  BY <1>2, <1>3

\* Commands do not call the cache.
LEMMA PendingFacts ==
  ASSUME LinksInv, TypeOK, NEW c \in Callers, Pending(c)
  PROVE  /\ task[c].kind # "command" /\ task[c].pc \in {"cache", "put"} /\ io[c].op \in {"get", "put", "evict", "clear"}
<1>1. io[c].op \in {"none", "get", "put", "evict", "clear"}
  BY DEF TypeOK, CacheTypeOK
<1> QED
  BY <1>1 DEF LinksInv, Linked, Readers

-----------------------------------------------------------------------------
(* Every step has one of these forms.                                      *)

(* Steps in which only the state of one task changes, and possibly the     *)
(* inbox and the number of calls.                                          *)
LEMMA Finishing ==
  ASSUME IInv, NEW c \in Callers, NEW b \in BOOLEAN, Finish(c, b),
         task[c].kind = "command" => ~b /\ ~task[c].lost /\ task[c].next = 1,
         (io' = io /\ ~Pending(c)) \/ io' = [io EXCEPT ![c] = NoCall],
         failures' \in 0..MaxFailures,
         UNCHANGED <<managed, store, app, data, inbox, calls, history>>
  PROVE  \E t \in Task : Steps(c, t)
<1>1. TypeOK /\ SeenInv
  BY DEF IInv
<1>2. PICK t \in Task : task' = [task EXCEPT ![c] = t] /\ t.seen = 0 /\ t.pc = "done" /\ Sound(t)
  BY <1>1, FinishFacts
<1>3. t.key \in Keys /\ data[t.key] \in Nat
  BY <1>1 DEF Task, TypeOK
<1>4. /\ data \in [Keys -> Nat] /\ \A k \in Keys : data[k] <= data[k]
      /\ inbox \subseteq [type : Types, key : Keys, seen : Nat] /\ calls \in 0..app.calls
  BY <1>1 DEF TypeOK, Types
<1>5. /\ data' \in [Keys -> Nat] /\ \A k \in Keys : data[k] <= data'[k]
      /\ inbox' \subseteq [type : Types, key : Keys, seen : Nat] /\ \A e \in inbox' : e.seen <= data'[e.key]
      /\ calls' \in 0..app.calls
  BY <1>1, <1>4 DEF SeenInv
<1>6. t.seen <= data'[t.key] /\ (t.pc \in {"hooks", "put"} => t.seen = data'[t.key])
  BY <1>2, <1>3
<1> QED
  BY <1>2, <1>5, <1>6 DEF Steps

\* What the invariant says of the variables that a step may leave alone.
LEMMA Frame ==
  ASSUME IInv
  PROVE  /\ data \in [Keys -> Nat] /\ \A k \in Keys : data[k] <= data[k]
         /\ inbox \subseteq [type : Types, key : Keys, seen : Nat] /\ \A e \in inbox : e.seen <= data[e.key]
         /\ calls \in 0..app.calls /\ app.calls \in Nat /\ failures \in 0..MaxFailures /\ app \in Apps
         /\ task \in [Callers -> Task]
         /\ \A c \in Callers : task[c] \in Task /\ task[c].seen <= data[task[c].key] /\ Sound(task[c])
         /\ \A c \in Callers : ~Pending(c) \/ task[c].pc \in {"cache", "put"}
<1>1. TypeOK /\ SeenInv /\ TasksInv /\ LinksInv
  BY DEF IInv
<1>2. data \in [Keys -> Nat] /\ \A k \in Keys : data[k] <= data[k]
  BY <1>1 DEF TypeOK
<1>3. app \in Apps /\ app.calls \in Nat
  BY <1>1 DEF TypeOK
<1>4. inbox \subseteq [type : Types, key : Keys, seen : Nat] /\ calls \in 0..app.calls /\ failures \in 0..MaxFailures
  BY <1>1 DEF TypeOK, CacheTypeOK, Types
<1>5. \A c \in Callers : ~Pending(c) \/ task[c].pc \in {"cache", "put"}
  BY <1>1 DEF LinksInv, Linked
<1> QED
  BY <1>1, <1>2, <1>3, <1>4, <1>5 DEF TypeOK, SeenInv, TasksInv

\* A request.
LEMMA BeginForm == ASSUME IInv, NEW c \in Callers, Begin(c) PROVE \E t \in Task : Steps(c, t)
<1>1. PICK kind \in app.kinds, k \in Keys :
       task' = [task EXCEPT ![c] =
         [Idle EXCEPT !.kind = kind, !.key = k,
                      !.pc = IF kind \in Queries \cup {"command"} THEN "admit"
                             ELSE IF kind \in {"cacheable", "clear", "clearAll"} THEN "ask"
                             ELSE "handle"]]
  BY DEF Begin
<1> DEFINE t == [Idle EXCEPT !.kind = kind, !.key = k,
                      !.pc = IF kind \in Queries \cup {"command"} THEN "admit"
                             ELSE IF kind \in {"cacheable", "clear", "clearAll"} THEN "ask"
                             ELSE "handle"]
<1>2. app \in Apps /\ kind \in Kinds
  BY <1>1, Frame
<1>3. t \in Task /\ t.seen = 0 /\ t.pc \in {"admit", "ask", "handle"} /\ t.kind = kind /\ t.key = k
      /\ t.next = 1 /\ ~t.lost /\ (kind = "command" => t.pc = "admit")
  BY <1>2, IdleFacts DEF Task, Idle
<1>4. task' = [task EXCEPT ![c] = t]
  BY <1>1
<1> HIDE DEF t
<1>5. Sound(t)
  BY <1>2, <1>3 DEF Sound, Announces, Listens, Kinds, Queries, Writers, Functions
<1>6. /\ task[c].pc = "done" /\ calls < app.calls /\ calls' = calls + 1
      /\ UNCHANGED <<cacheVars, app, data, inbox, history>>
  BY DEF Begin
<1>7. ~Pending(c) /\ calls' \in 0..app.calls
  <2>1. calls \in 0..app.calls /\ app.calls \in Nat /\ (~Pending(c) \/ task[c].pc \in {"cache", "put"})
    BY Frame
  <2> QED
    BY <1>6, <2>1
<1>8. t.seen <= data'[t.key] /\ data'[t.key] \in Nat
  BY <1>3, <1>6, Frame
<1>9. UNCHANGED <<managed, store, io, failures>>
  BY <1>6 DEF cacheVars
<1>10. /\ data' \in [Keys -> Nat] /\ \A k1 \in Keys : data[k1] <= data'[k1]
       /\ inbox' \subseteq [type : Types, key : Keys, seen : Nat] /\ \A e \in inbox' : e.seen <= data'[e.key]
       /\ failures' \in 0..MaxFailures
  BY <1>6, <1>9, Frame
<1> QED
  BY <1>3, <1>4, <1>5, <1>6, <1>7, <1>8, <1>9, <1>10 DEF Steps

\* An event.
LEMMA DeliverForm == ASSUME IInv, NEW c \in Callers, Deliver(c) PROVE \E t \in Task : Steps(c, t)
<1>1. PICK e \in inbox :
       /\ inbox' = inbox \ {e}
       /\ task' = [task EXCEPT ![c] = [Idle EXCEPT !.kind = "listener", !.key = e.key, !.pc = "listen",
                                                   !.seen = e.seen, !.event = e.type]]
  BY DEF Deliver
<1> DEFINE t == [Idle EXCEPT !.kind = "listener", !.key = e.key, !.pc = "listen", !.seen = e.seen, !.event = e.type]
<1>2. e \in [type : Types, key : Keys, seen : Nat] /\ e.seen <= data[e.key]
  BY Frame
<1>3. t \in Task /\ t.seen = e.seen /\ t.pc = "listen" /\ t.kind = "listener" /\ t.key = e.key
      /\ t.event \in Types
  BY <1>2, IdleFacts DEF Task, Idle, Types
<1>4. task' = [task EXCEPT ![c] = t]
  BY <1>1
<1> HIDE DEF t
<1>5. Sound(t)
  BY <1>3 DEF Sound, Announces, Listens
<1>6. /\ task[c].pc = "done" /\ UNCHANGED <<managed, store, io, failures, app, data, calls, history>>
  BY DEF Deliver, cacheVars
<1>7. ~Pending(c)
  BY <1>6, Frame
<1>10. /\ data' \in [Keys -> Nat] /\ \A k \in Keys : data[k] <= data'[k]
       /\ inbox' \subseteq [type : Types, key : Keys, seen : Nat] /\ \A f \in inbox' : f.seen <= data'[f.key]
       /\ failures' \in 0..MaxFailures /\ calls' \in 0..app.calls
  BY <1>1, <1>6, Frame
<1> QED
  BY <1>2, <1>3, <1>4, <1>5, <1>6, <1>7, <1>10 DEF Steps

\* A call that ends without an answer, before or after the handler.
LEMMA FailForm ==
  ASSUME IInv, NEW c \in Callers, Reject(c) \/ HandlerFails(c) \/ HooksFail(c) \/ Cancel(c)
  PROVE  \E t \in Task : Steps(c, t)
<1>1. IInv /\ LinksInv /\ TypeOK
  BY DEF IInv
<1>2. CASE Reject(c) \/ HandlerFails(c) \/ HooksFail(c)
  <2>1. /\ task[c].pc \in {"admit", "handle", "hooks"} /\ Finish(c, FALSE)
        /\ UNCHANGED <<managed, store, io, failures, app, data, inbox, calls, history>>
    BY <1>2 DEF Reject, HandlerFails, HooksFail, cacheVars
  <2>2. /\ ~Pending(c) /\ failures' \in 0..MaxFailures
        /\ task[c].kind = "command" => ~task[c].lost /\ task[c].next = 1
    BY <2>1, Frame DEF Sound, Announces, Listens
  <2> QED
    BY <1>1, <2>1, <2>2, Finishing
<1>3. CASE Cancel(c)
  <2>1. /\ io[c].at # "no" /\ failures < MaxFailures /\ failures' = failures + 1
        /\ io' = [io EXCEPT ![c] = NoCall] /\ Finish(c, FALSE)
        /\ UNCHANGED <<managed, store, app, data, inbox, calls, history>>
    BY <1>3 DEF Cancel
  <2>2. failures' \in 0..MaxFailures
    BY <2>1, Frame
  <2>3. task[c].kind # "command"
    BY <1>1, <2>1, PendingFacts DEF Pending
  <2> QED
    BY <1>1, <2>1, <2>2, <2>3, Finishing
<1> QED
  BY <1>2, <1>3

\* The task alone moves on.
LEMMA Moving ==
  ASSUME IInv, NEW c \in Callers, NEW t \in Task, t.seen = task[c].seen, t.key = task[c].key,
         t.pc \notin {"hooks", "put"}, Sound(t), task' = [task EXCEPT ![c] = t],
         (io' = io /\ ~Pending(c)) \/ io' = [io EXCEPT ![c] = NoCall],
         UNCHANGED <<managed, store, failures, app, data, inbox, calls, history>>
  PROVE  Steps(c, t)
<1>1. /\ data' \in [Keys -> Nat] /\ \A k \in Keys : data[k] <= data'[k]
      /\ inbox' \subseteq [type : Types, key : Keys, seen : Nat] /\ \A e \in inbox' : e.seen <= data'[e.key]
      /\ calls' \in 0..app.calls /\ failures' \in 0..MaxFailures
  BY Frame
<1>2. t.seen <= data'[t.key]
  BY Frame
<1> QED
  BY <1>1, <1>2 DEF Steps

\* A task of which only the place changes.
LEMMA MoveFacts ==
  ASSUME IInv, NEW c \in Callers,
         NEW pc \in {"done", "admit", "ask", "cache", "handle", "hooks", "put", "publish", "listen"}
  PROVE  LET t == [task[c] EXCEPT !.pc = pc] IN
           /\ t \in Task /\ t.pc = pc /\ t.seen = task[c].seen /\ t.key = task[c].key /\ t.kind = task[c].kind
           /\ t.next = task[c].next /\ t.lost = task[c].lost /\ t.ok = task[c].ok /\ t.event = task[c].event
<1>1. task[c] \in Task
  BY Frame
<1> QED
  BY <1>1 DEF Task

\* The answer of a get: the end, or the handler.
LEMMA GetForm ==
  ASSUME IInv, NEW c \in Callers, GetReturns(c) PROVE \E t \in Task : Steps(c, t)
<1>1. IInv /\ LinksInv /\ TypeOK
  BY DEF IInv
<1>2. /\ Pending(c) /\ io' = [io EXCEPT ![c] = NoCall]
      /\ UNCHANGED <<managed, store, failures, app, data, inbox, calls, history>>
      /\ failures' \in 0..MaxFailures
  BY Frame DEF GetReturns, Back, Pending
<1>3. task[c].kind # "command"
  BY <1>1, <1>2, PendingFacts
<1>4. CASE \E b \in BOOLEAN : Finish(c, b)
  BY <1>1, <1>2, <1>3, <1>4, Finishing
<1>5. CASE Move(c, "handle")
  <2> DEFINE t == [task[c] EXCEPT !.pc = "handle"]
  <2>1. t \in Task /\ t.pc = "handle" /\ t.seen = task[c].seen /\ t.key = task[c].key /\ t.kind = task[c].kind
        /\ t.event = task[c].event
    BY MoveFacts
  <2>2. task' = [task EXCEPT ![c] = t]
    BY <1>1, <1>5 DEF Move, TypeOK
  <2> HIDE DEF t
  <2>3. Sound(t)
    BY <1>3, <2>1, Frame DEF Sound, Announces, Listens
  <2> QED
    BY <1>1, <1>2, <2>1, <2>2, <2>3, Moving
<1> QED
  BY <1>4, <1>5 DEF GetReturns

\* On to the cache or the handler.
LEMMA AdmitForm ==
  ASSUME IInv, NEW c \in Callers, Admit(c) PROVE \E t \in Task : Steps(c, t)
<1> DEFINE pc == IF task[c].kind = "query" THEN "ask" ELSE "handle"
           t == [task[c] EXCEPT !.pc = pc]
<1>1. pc \in {"ask", "handle"} /\ (task[c].kind = "command" => pc = "handle")
  OBVIOUS
<1>2. task' = [task EXCEPT ![c] = t]
  BY Frame DEF Admit, Move
<1>3. /\ task[c].pc = "admit" /\ UNCHANGED <<managed, store, io, failures, app, data, inbox, calls, history>>
      /\ ~Pending(c)
  BY Frame DEF Admit, cacheVars
<1> HIDE DEF pc
<1>4. /\ t \in Task /\ t.pc = pc /\ t.seen = task[c].seen /\ t.key = task[c].key /\ t.kind = task[c].kind
      /\ t.next = task[c].next /\ t.lost = task[c].lost /\ t.event = task[c].event
  <2>1. task[c] \in Task
    BY Frame
  <2> QED
    BY <1>1, <2>1 DEF Task
<1> HIDE DEF t
<1>5. Sound(t)
  BY <1>1, <1>3, <1>4, Frame DEF Sound, Announces, Listens
<1> QED
  BY <1>1, <1>2, <1>3, <1>4, <1>5, Moving

\* The handler, whose access to the data is the newest.
LEMMA ActForm ==
  ASSUME IInv, NEW c \in Callers, HandlerActs(c) PROVE \E t \in Task : Steps(c, t)
<1> DEFINE k == task[c].key
           t == [task[c] EXCEPT !.pc = "hooks", !.seen = data'[k]]
<1>1. /\ task[c].pc = "handle" /\ UNCHANGED <<managed, store, io, failures, app, inbox, calls, history>>
      /\ data' = data \/ data' = [data EXCEPT ![k] = @ + 1]
  BY DEF HandlerActs, cacheVars
<1>2. task[c] \in Task /\ k \in Keys /\ ~Pending(c)
  BY <1>1, Frame DEF Task
<1>3. data' \in [Keys -> Nat] /\ \A l \in Keys : data[l] <= data'[l]
  <2>1. data \in [Keys -> Nat]
    BY Frame
  <2> QED
    BY <1>1, <1>2, <2>1
<1>4. task' = [task EXCEPT ![c] = t]
  <2>1. task \in [Callers -> Task]
    BY Frame
  <2>2. task' = [task EXCEPT ![c].pc = "hooks", ![c].seen = data'[k]]
    BY DEF HandlerActs
  <2> QED
    BY <2>1, <2>2
<1>5. /\ t \in Task /\ t.pc = "hooks" /\ t.seen = data'[k] /\ t.key = k /\ t.kind = task[c].kind
      /\ t.next = task[c].next /\ t.lost = task[c].lost /\ t.event = task[c].event
  BY <1>2, <1>3 DEF Task
<1>6. t.seen <= data'[t.key]
  BY <1>2, <1>3, <1>5
<1> HIDE DEF t, k
<1>7. Sound(t)
  BY <1>1, <1>5, Frame DEF Sound, Announces, Listens
<1>8. /\ inbox' \subseteq [type : Types, key : Keys, seen : Nat]
      /\ calls' \in 0..app.calls /\ failures' \in 0..MaxFailures
  BY <1>1, Frame
<1>9. \A e \in inbox' : e.seen <= data'[e.key]
  <2> SUFFICES ASSUME NEW e \in inbox PROVE e.seen <= data'[e.key]
    BY <1>1
  <2>1. e.seen \in Nat /\ e.key \in Keys /\ e.seen <= data[e.key]
    BY Frame
  <2>2. data[e.key] \in Nat /\ data'[e.key] \in Nat /\ data[e.key] <= data'[e.key]
    BY <1>3, <2>1, Frame
  <2> QED
    BY <2>1, <2>2
<1> QED
  BY <1>1, <1>2, <1>3, <1>4, <1>5, <1>6, <1>7, <1>8, <1>9 DEF Steps

\* An event of a command is of a known type and tells of a past change.
LEMMA EventFits ==
  ASSUME IInv, NEW c \in Callers, task[c].pc = "publish", task[c].next <= Len(Events)
  PROVE  Event(c) \in [type : Types, key : Keys, seen : Nat] /\ Event(c).seen <= data[Event(c).key]
<1>1. task[c] \in Task /\ task[c].key \in Keys /\ task[c].next \in Nat \ {0} /\ task[c].seen \in Nat
  BY Frame DEF Task
<1>2. task[c].next \in 1..Len(Events)
  BY <1>1, EventsFacts
<1>3. Events[task[c].next] \in Types
  BY <1>2, EventsFacts
<1>4. Event(c).seen = task[c].seen /\ Event(c).key = task[c].key
  BY DEF Event
<1> QED
  BY <1>1, <1>3, <1>4, Frame DEF Event

\* A command that is cancelled in the loop.
LEMMA CancelPublishForm ==
  ASSUME IInv, NEW c \in Callers, CancelPublish(c) PROVE \E t \in Task : Steps(c, t)
<1>1. /\ task[c].pc = "publish" /\ task[c].next <= Len(Events)
      /\ failures < MaxFailures /\ failures' = failures + 1
      /\ inbox' \in {inbox, inbox \cup {Event(c)}}
      /\ task' = [task EXCEPT ![c] = Idle]
      /\ UNCHANGED <<managed, store, io, app, data, calls, history>>
  BY DEF CancelPublish
<1>2. ~Pending(c) /\ failures' \in 0..MaxFailures
  <2>1. ~Pending(c)
    BY <1>1, Frame
  <2>2. failures \in 0..MaxFailures /\ MaxFailures \in Nat
    BY Frame
  <2> QED
    BY <1>1, <2>1, <2>2
<1>3. /\ inbox' \subseteq [type : Types, key : Keys, seen : Nat] /\ \A e \in inbox' : e.seen <= data'[e.key]
      /\ data' \in [Keys -> Nat] /\ \A k \in Keys : data[k] <= data'[k]
      /\ calls' \in 0..app.calls
  BY <1>1, EventFits, Frame
<1>4. Idle.seen <= data'[Idle.key] /\ Sound(Idle)
  BY <1>3, IdleFacts DEF Task, Sound, Announces, Listens
<1> QED
  BY <1>1, <1>2, <1>3, <1>4, IdleFacts DEF Steps

\* The next event, or the end of the loop over them.
LEMMA PublishForm ==
  ASSUME IInv, NEW c \in Callers, Publish(c) PROVE \E t \in Task : Steps(c, t)
<1>1. /\ task[c].pc = "publish" /\ task[c].next <= Len(Events)
      /\ UNCHANGED <<managed, store, io, failures, app, data, calls, history>>
  BY DEF Publish, cacheVars
<1>2. task[c] \in Task /\ ~Pending(c) /\ task[c].key \in Keys /\ task[c].next \in Nat \ {0} /\ task[c].seen \in Nat
  BY <1>1, Frame DEF Task
<1>3. PICK lost \in BOOLEAN :
        /\ task' = [task EXCEPT ![c] = [task[c] EXCEPT !.next = @ + 1, !.lost = lost]]
        /\ inbox' = inbox \/ inbox' = inbox \cup {Event(c)}
  <2>1. task[c].lost \in BOOLEAN
    BY <1>2 DEF Task
  <2>2. [task[c] EXCEPT !.next = @ + 1] = [task[c] EXCEPT !.next = @ + 1, !.lost = task[c].lost]
    BY <1>2 DEF Task
  <2>3. CASE /\ inbox' = inbox \cup {Event(c)}
             /\ task' = [task EXCEPT ![c].next = @ + 1]
    <3>1. task' = [task EXCEPT ![c] = [task[c] EXCEPT !.next = @ + 1]]
      BY <2>3, Frame
    <3> QED
      BY <2>1, <2>2, <2>3, <3>1
  <2>4. CASE /\ task' = [task EXCEPT ![c].next = @ + 1, ![c].lost = TRUE]
             /\ inbox' = inbox
    <3>1. task' = [task EXCEPT ![c] = [task[c] EXCEPT !.next = @ + 1, !.lost = TRUE]]
      BY <2>4, Frame
    <3> QED
      BY <2>4, <3>1
  <2> QED
    BY <2>3, <2>4 DEF Publish
<1> DEFINE t == [task[c] EXCEPT !.next = @ + 1, !.lost = lost]
<1>4. /\ t \in Task /\ t.pc = "publish" /\ t.seen = task[c].seen /\ t.key = task[c].key
      /\ t.next = task[c].next + 1 /\ t.kind = task[c].kind /\ t.event = task[c].event
  <2>1. task[c].next + 1 \in Nat \ {0}
    BY <1>2
  <2> HIDE DEF Types
  <2> QED
    BY <1>1, <1>2, <2>1 DEF Task
<1>5. task' = [task EXCEPT ![c] = t]
  BY <1>3
<1> HIDE DEF t
<1>6. Sound(t)
  BY <1>1, <1>2, <1>4, Frame, EventsFacts DEF Sound, Announces, Listens
<1>7. Event(c) \in [type : Types, key : Keys, seen : Nat] /\ Event(c).seen <= data[Event(c).key]
  BY <1>1, EventFits
<1>8. /\ inbox' \subseteq [type : Types, key : Keys, seen : Nat] /\ \A e \in inbox' : e.seen <= data'[e.key]
      /\ data' \in [Keys -> Nat] /\ \A k \in Keys : data[k] <= data'[k]
      /\ calls' \in 0..app.calls /\ failures' \in 0..MaxFailures
  BY <1>1, <1>3, <1>7, Frame
<1>9. t.seen <= data'[t.key]
  BY <1>1, <1>4, Frame
<1> QED
  BY <1>1, <1>2, <1>4, <1>5, <1>6, <1>8, <1>9 DEF Steps

\* The end of a command.
LEMMA PublishedForm ==
  ASSUME IInv, NEW c \in Callers, Published(c) PROVE \E t \in Task : Steps(c, t)
<1> DEFINE b == ~(task[c].lost /\ app.strategy = "RAISE")
           t == [task[c] EXCEPT !.pc = "done", !.ok = b, !.seen = 0]
<1>1. /\ task[c].pc = "publish" /\ task[c].next > Len(Events) /\ Finish(c, b)
      /\ UNCHANGED <<managed, store, io, failures, app, data, inbox, calls, history>>
  BY DEF Published, cacheVars
<1>2. ~Pending(c) /\ task[c] \in Task /\ failures' \in 0..MaxFailures
  BY <1>1, Frame
<1>3. CASE task[c].kind # "command"
  <2> HIDE DEF b
  <2>1. b \in BOOLEAN
    BY DEF b
  <2> QED
    BY <1>1, <1>2, <1>3, <2>1, Finishing
<1>4. CASE task[c].kind = "command"
  <2>1. t \in Task /\ t.pc = "done" /\ t.ok = b /\ t.seen = 0 /\ t.next = task[c].next /\ t.lost = task[c].lost
        /\ t.kind = "command" /\ t.key = task[c].key
    BY <1>2, <1>4 DEF Task
  <2>2. task' = [task EXCEPT ![c] = t]
    BY <1>1, <1>4 DEF Finish
  <2>3. t.next = Len(Events) + 1
    <3>1. task[c].next \in Nat /\ task[c].next <= Len(Events) + 1 /\ Len(Events) \in Nat
      <4>1. task[c].next \in Nat
        BY <1>2 DEF Task
      <4> QED
        BY <1>1, <1>4, <4>1, Frame, EventsFacts DEF Sound, Announces, Listens
    <3> QED
      BY <1>1, <2>1, <3>1
  <2> HIDE DEF t
  <2>4. Sound(t)
    BY <2>1, <2>3 DEF Sound, Announces, Listens
  <2>5. data[t.key] \in Nat /\ t.key \in Keys
    BY <2>1, Frame DEF Task
  <2>6. /\ data' \in [Keys -> Nat] /\ \A k \in Keys : data[k] <= data'[k]
        /\ inbox' \subseteq [type : Types, key : Keys, seen : Nat] /\ \A e \in inbox' : e.seen <= data'[e.key]
        /\ calls' \in 0..app.calls
    BY <1>1, Frame
  <2>7. t.seen <= data'[t.key]
    BY <1>1, <2>1, <2>5
  <2> QED
    BY <1>1, <1>2, <2>1, <2>2, <2>4, <2>6, <2>7 DEF Steps
<1> QED
  BY <1>3, <1>4

\* A call of the cache leaves.
LEMMA Asking ==
  ASSUME IInv, NEW c \in Callers, ~Pending(c), NEW t \in Task, t.seen <= data[t.key], Sound(t),
         NEW op \in {"get", "put", "evict", "clear"}, NEW slots \in SUBSET Slots, NEW val \in Nat,
         NEW ttl \in Nat \cup {Forever}, Linked(t, Call(op, slots, val, ttl)),
         t.pc = "cache" \/ (\A s \in Slots : Carries(t, s) => Carries(task[c], s) /\ t.seen = task[c].seen),
         Await(c, t, op, slots, val, ttl),
         UNCHANGED <<managed, store, failures, app, data, inbox, calls, flushed>>
  PROVE  Asks(c, t, op, slots, val, ttl)
BY DEF Asks, Carries

\* The look into the cache, and the clears.
LEMMA AskForm ==
  ASSUME IInv, NEW c \in Callers, Ask(c)
  PROVE  \E t \in Task, op \in {"get", "put", "evict", "clear"}, slots \in SUBSET Slots, val \in Nat,
            ttl \in Nat \cup {Forever} : Asks(c, t, op, slots, val, ttl)
<1> DEFINE t == [task[c] EXCEPT !.pc = "cache", !.seen = data[task[c].key]]
           r == [task[c] EXCEPT !.pc = "cache"]
<1>1. /\ task[c].pc = "ask" /\ task[c] \in Task /\ task[c].key \in Keys /\ data[task[c].key] \in Nat
      /\ task[c].seen <= data[task[c].key] /\ ~Pending(c)
      /\ UNCHANGED <<managed, store, failures, app, data, inbox, calls, flushed>>
  BY Frame DEF Ask, Task
<1>2. /\ t \in Task /\ t.kind = task[c].kind /\ t.key = task[c].key /\ t.pc = "cache" /\ t.seen = data[t.key]
      /\ r \in Task /\ r.kind = task[c].kind /\ r.key = task[c].key /\ r.pc = "cache" /\ r.seen = task[c].seen
  BY <1>1 DEF Task
<1>3. /\ SlotOf(r) \in Slots /\ AdapterSlot(t.key) \in Slots
      /\ t.seen <= data[t.key] /\ r.seen <= data[r.key]
  BY <1>1, <1>2, SlotFacts DEF AdapterSlot
<1>4. \/ t.kind \in Readers /\ Await(c, r, "get", {SlotOf(r)}, 0, 0)
      \/ t.kind = "clear" /\ Await(c, t, "evict", {AdapterSlot(t.key)}, 0, 0)
      \/ t.kind = "clearAll" /\ Await(c, t, "clear", Slots, 0, 0)
  <2>1. SlotOf(r) = SlotOf(t)
    BY <1>2 DEF SlotOf
  <2> QED
    BY <1>1, <1>2, <2>1 DEF Ask
<1> HIDE DEF t, r
<1>5. \A slots \in SUBSET Slots :
        /\ Call("get", slots, 0, 0).op = "get" /\ Call("get", slots, 0, 0).slots = slots
        /\ Call("evict", slots, 0, 0).op = "evict"
        /\ Call("clear", slots, 0, 0).op = "clear"
  BY DEF Call, NoCall
<1>6. CASE t.kind \in Readers /\ Await(c, r, "get", {SlotOf(r)}, 0, 0)
  <2>1. Linked(r, Call("get", {SlotOf(r)}, 0, 0)) /\ Sound(r)
    <3>1. Call("get", {SlotOf(r)}, 0, 0).op = "get" /\ Call("get", {SlotOf(r)}, 0, 0).slots = {SlotOf(r)}
      BY DEF Call, NoCall
    <3> QED
      BY <1>2, <1>6, <3>1 DEF Linked, Readers, Sound, Announces, Listens
  <2>3. {SlotOf(r)} \in SUBSET Slots /\ 0 \in Nat /\ 0 \in Nat \cup {Forever}
    BY <1>2, <1>3
  <2>4. Asks(c, r, "get", {SlotOf(r)}, 0, 0)
    BY <1>1, <1>2, <1>3, <1>6, <2>1, <2>3, Asking
  <2> QED
    BY <1>2, <1>3, <2>3, <2>4
<1>7. CASE t.kind = "clear" /\ Await(c, t, "evict", {AdapterSlot(t.key)}, 0, 0)
  <2>1. Linked(t, Call("evict", {AdapterSlot(t.key)}, 0, 0)) /\ Sound(t)
    BY <1>2, <1>3, <1>5, <1>7 DEF Linked, Readers, Sound, Announces, Listens
  <2>3. {AdapterSlot(t.key)} \in SUBSET Slots /\ 0 \in Nat /\ 0 \in Nat \cup {Forever}
    BY <1>2, <1>3
  <2>4. Asks(c, t, "evict", {AdapterSlot(t.key)}, 0, 0)
    BY <1>1, <1>2, <1>3, <1>7, <2>1, <2>3, Asking
  <2> QED
    BY <1>2, <1>3, <2>3, <2>4
<1>8. CASE t.kind = "clearAll" /\ Await(c, t, "clear", Slots, 0, 0)
  <2>1. Linked(t, Call("clear", Slots, 0, 0)) /\ Sound(t)
    BY <1>2, <1>5, <1>8 DEF Linked, Readers, Sound, Announces, Listens
  <2>3. Slots \in SUBSET Slots /\ 0 \in Nat /\ 0 \in Nat \cup {Forever}
    BY <1>2, <1>3
  <2>4. Asks(c, t, "clear", Slots, 0, 0)
    BY <1>1, <1>2, <1>3, <1>8, <2>1, <2>3, Asking
  <2> QED
    BY <1>2, <1>3, <2>3, <2>4
<1> QED
  BY <1>4, <1>6, <1>7, <1>8

\* After the handler: into the cache, out of it, or past it.
LEMMA ReturnForm ==
  ASSUME IInv, NEW c \in Callers, HandlerReturns(c)
  PROVE  \/ \E t \in Task : Steps(c, t)
         \/ \E t \in Task, op \in {"get", "put", "evict", "clear"}, slots \in SUBSET Slots, val \in Nat,
               ttl \in Nat \cup {Forever} : Asks(c, t, op, slots, val, ttl)
<1> DEFINE t == [task[c] EXCEPT !.pc = "put"]
           e == [task[c] EXCEPT !.pc = "cache"]
<1>1. /\ task[c].pc = "hooks" /\ task[c] \in Task /\ task[c].key \in Keys /\ task[c].seen \in Nat
      /\ task[c].seen <= data[task[c].key] /\ ~Pending(c) /\ Sound(task[c])
      /\ UNCHANGED <<managed, store, failures, app, data, inbox, calls, flushed>>
  BY Frame DEF HandlerReturns, Task
<1>2. /\ t \in Task /\ t.kind = task[c].kind /\ t.key = task[c].key /\ t.pc = "put" /\ t.seen = task[c].seen
      /\ e \in Task /\ e.kind = task[c].kind /\ e.key = task[c].key /\ e.pc = "cache" /\ e.seen = task[c].seen
  BY <1>1 DEF Task
<1>3. /\ SlotOf(t) \in Slots /\ SlotOf(e) = SlotOf(t) /\ SlotOf(task[c]) = SlotOf(t)
      /\ TtlOf(t) \in Nat \cup {Forever}
  BY <1>1, <1>2, SlotFacts DEF SlotOf, TtlOf
<1>4. \/ t.kind \in Readers \cup {"put"} /\ Await(c, t, "put", {SlotOf(t)}, t.seen, TtlOf(t))
      \/ t.kind = "evict" /\ Await(c, e, "evict", {SlotOf(t)}, 0, 0)
      \/ t.kind = "evictAll" /\ Await(c, e, "clear", Slots, 0, 0)
      \/ t.kind = "uncached" /\ Finish(c, TRUE) /\ UNCHANGED <<io, excused>>
      \/ t.kind = "command" /\ Move(c, "publish") /\ UNCHANGED <<io, excused>>
  BY DEF HandlerReturns
<1> HIDE DEF t, e
<1>5. CASE t.kind \in Readers \cup {"put"} /\ Await(c, t, "put", {SlotOf(t)}, t.seen, TtlOf(t))
  <2>1. Linked(t, Call("put", {SlotOf(t)}, t.seen, TtlOf(t))) /\ Sound(t)
    <3>1. /\ Call("put", {SlotOf(t)}, t.seen, TtlOf(t)).op = "put"
          /\ Call("put", {SlotOf(t)}, t.seen, TtlOf(t)).slots = {SlotOf(t)}
          /\ Call("put", {SlotOf(t)}, t.seen, TtlOf(t)).val = t.seen
      BY DEF Call, NoCall
    <3> QED
      BY <1>2, <1>5, <3>1 DEF Linked, Readers, Sound, Announces, Listens
  <2>2. \A s \in Slots : Carries(t, s) => Carries(task[c], s)
    BY <1>1, <1>2, <1>3 DEF Carries
  <2>3. {SlotOf(t)} \in SUBSET Slots /\ 0 \in Nat /\ 0 \in Nat \cup {Forever}
    BY <1>2, <1>3
  <2>4. Asks(c, t, "put", {SlotOf(t)}, t.seen, TtlOf(t))
    BY <1>1, <1>2, <1>3, <1>5, <2>1, <2>2, <2>3, Asking
  <2> QED
    BY <1>1, <1>2, <1>3, <2>3, <2>4
<1>6. CASE t.kind = "evict" /\ Await(c, e, "evict", {SlotOf(t)}, 0, 0)
  <2>1. Linked(e, Call("evict", {SlotOf(t)}, 0, 0)) /\ Sound(e)
    <3>1. Call("evict", {SlotOf(t)}, 0, 0).op = "evict"
      BY DEF Call, NoCall
    <3> QED
      BY <1>2, <1>6, <3>1 DEF Linked, Readers, Sound, Announces, Listens
  <2>3. {SlotOf(t)} \in SUBSET Slots /\ 0 \in Nat /\ 0 \in Nat \cup {Forever}
    BY <1>2, <1>3
  <2>4. Asks(c, e, "evict", {SlotOf(t)}, 0, 0)
    BY <1>1, <1>2, <1>3, <1>6, <2>1, <2>3, Asking
  <2> QED
    BY <1>2, <1>3, <2>3, <2>4
<1>7. CASE t.kind = "evictAll" /\ Await(c, e, "clear", Slots, 0, 0)
  <2>1. Linked(e, Call("clear", Slots, 0, 0)) /\ Sound(e)
    <3>1. Call("clear", Slots, 0, 0).op = "clear"
      BY DEF Call, NoCall
    <3> QED
      BY <1>2, <1>7, <3>1 DEF Linked, Readers, Sound, Announces, Listens
  <2>3. Slots \in SUBSET Slots /\ 0 \in Nat /\ 0 \in Nat \cup {Forever}
    BY <1>2, <1>3
  <2>4. Asks(c, e, "clear", Slots, 0, 0)
    BY <1>1, <1>2, <1>3, <1>7, <2>1, <2>3, Asking
  <2> QED
    BY <1>2, <1>3, <2>3, <2>4
<1>8. CASE t.kind = "uncached" /\ Finish(c, TRUE) /\ UNCHANGED <<io, excused>>
  <2>1. failures' \in 0..MaxFailures /\ UNCHANGED history
    BY <1>1, <1>8, Frame DEF history
  <2> QED
    BY <1>1, <1>2, <1>8, <2>1, Finishing
<1>9. CASE t.kind = "command" /\ Move(c, "publish") /\ UNCHANGED <<io, excused>>
  <2> DEFINE p == [task[c] EXCEPT !.pc = "publish"]
  <2>1. p \in Task /\ p.pc = "publish" /\ p.seen = task[c].seen /\ p.key = task[c].key /\ p.kind = task[c].kind
        /\ p.event = task[c].event /\ p.next = task[c].next /\ p.lost = task[c].lost
    BY <1>1 DEF Task
  <2>2. task' = [task EXCEPT ![c] = p]
    <3>1. task \in [Callers -> Task]
      BY Frame
    <3> QED
      BY <1>9, <3>1 DEF Move
  <2> HIDE DEF p
  <2>3. Sound(p)
    <3>1. task[c].next = 1 /\ Len(Events) \in Nat
      BY <1>1, <1>2, <1>9, EventsFacts DEF Sound, Announces, Listens
    <3> QED
      BY <1>9, <1>2, <2>1, <3>1 DEF Sound, Announces, Listens
  <2>4. UNCHANGED history
    BY <1>1, <1>9 DEF history
  <2> QED
    BY <1>1, <1>9, <2>1, <2>2, <2>3, <2>4, Moving
<1> QED
  BY <1>4, <1>5, <1>6, <1>7, <1>8, <1>9

\* The next pattern of the listener, or its end.
LEMMA InvalidateForm ==
  ASSUME IInv, NEW c \in Callers, Invalidate(c)
  PROVE  \/ \E t \in Task : Steps(c, t)
         \/ \E t \in Task, op \in {"get", "put", "evict", "clear"}, slots \in SUBSET Slots, val \in Nat,
               ttl \in Nat \cup {Forever} : Asks(c, t, op, slots, val, ttl)
<1> DEFINE t == [task[c] EXCEPT !.pc = "cache"]
           s == <<1 + Rules[task[c].event][task[c].next], task[c].key>>
<1>1. /\ task[c].pc = "listen" /\ task[c] \in Task /\ task[c].key \in Keys /\ task[c].seen \in Nat
      /\ task[c].seen <= data[task[c].key] /\ ~Pending(c) /\ task[c].kind = "listener" /\ task[c].event \in Types
      /\ UNCHANGED <<managed, store, failures, app, data, inbox, calls, flushed>>
  BY Frame DEF Invalidate, Task, Sound, Listens
<1>2. /\ t \in Task /\ t.kind = "listener" /\ t.key = task[c].key /\ t.pc = "cache" /\ t.seen = task[c].seen
      /\ t.event = task[c].event /\ t.next = task[c].next
  BY <1>1 DEF Task
<1>3. CASE task[c].next > Len(Rules[task[c].event])
  <2>1. Finish(c, TRUE) /\ io' = io /\ excused' = excused
    BY <1>3 DEF Invalidate
  <2>2. failures' \in 0..MaxFailures /\ UNCHANGED history
    BY <1>1, <2>1, Frame DEF history
  <2> QED
    BY <1>1, <2>1, <2>2, Finishing
<1>4. CASE ~(task[c].next > Len(Rules[task[c].event]))
  <2>1. Await(c, t, "evict", {s}, 0, 0)
    BY <1>4 DEF Invalidate
  <2>2. s \in Slots
    <3>1. Rules[task[c].event] \in Seq(0..1) /\ task[c].next \in Nat \ {0}
      BY <1>1, EventsFacts DEF Task
    <3>2. Rules[task[c].event][task[c].next] \in 0..1
      BY <1>4, <3>1
    <3>3. 1 + Rules[task[c].event][task[c].next] \in 0..2
      BY <3>2
    <3> QED
      BY <1>1, <3>3
  <2> HIDE DEF t, s
  <2>3. Linked(t, Call("evict", {s}, 0, 0))
    <3>1. Call("evict", {s}, 0, 0).op = "evict"
      BY DEF Call, NoCall
    <3> QED
      BY <1>2, <3>1 DEF Linked, Readers
  <2>4. {s} \in SUBSET Slots /\ 0 \in Nat /\ 0 \in Nat \cup {Forever} /\ Sound(t)
    BY <1>1, <1>2, <2>2 DEF Sound, Announces, Listens
  <2>5. Asks(c, t, "evict", {s}, 0, 0)
    BY <1>1, <1>2, <2>1, <2>3, <2>4, Asking
  <2> QED
    BY <1>2, <2>4, <2>5
<1> QED
  BY <1>3, <1>4

-----------------------------------------------------------------------------
(* Each form preserves the invariant.                                      *)

IO == [op : {"none", "get", "put", "evict", "clear"}, slots : SUBSET Slots, val : Nat,
       ttl : Nat \cup {Forever}, at : {"no", "sent", "back"}, got : Nat, failed : BOOLEAN]
Stores == [Tiers -> [Slots -> [val : Nat, left : Nat \cup {Forever}]]]

\* TypeOK with names for its sets.
LEMMA TypeFacts ==
  ASSUME IInv
  PROVE  /\ managed \in BOOLEAN /\ store \in Stores /\ io \in [Callers -> IO] /\ failures \in 0..MaxFailures
         /\ app \in Apps /\ task \in [Callers -> Task] /\ data \in [Keys -> Nat]
         /\ inbox \subseteq [type : Types, key : Keys, seen : Nat]
         /\ flushed \in [Slots -> Nat] /\ excused \in [Slots -> SUBSET Nat]
BY DEF IInv, TypeOK, CacheTypeOK, IO, Stores, Types

LEMMA TypeFrom ==
  ASSUME (/\ managed \in BOOLEAN /\ store \in Stores /\ io \in [Callers -> IO] /\ failures \in 0..MaxFailures
          /\ app \in Apps /\ task \in [Callers -> Task] /\ data \in [Keys -> Nat] /\ calls \in 0..app.calls
          /\ inbox \subseteq [type : Types, key : Keys, seen : Nat]
          /\ flushed \in [Slots -> Nat] /\ excused \in [Slots -> SUBSET Nat])'
  PROVE  TypeOK'
BY DEF TypeOK, CacheTypeOK, IO, Stores, Types

LEMMA NoCallFacts == NoCall \in IO /\ NoCall.at = "no"
BY DEF NoCall, IO

\* What a task carries is for a slot of its key.
LEMMA CarriesFacts ==
  ASSUME NEW t \in Task, NEW s, Carries(t, s)
  PROVE  s \in Slots /\ s[2] = t.key /\ t.pc \in {"hooks", "put"}
BY SlotFacts DEF Carries

\* A task alone: what it carries is fresh, and nobody evicts on its behalf.
LEMMA StepsInv == ASSUME IInv, NEW c \in Callers, NEW t \in Task, Steps(c, t) PROVE IInv'
<1>1. /\ task'[c] = t /\ \A d \in Callers : d # c => task'[d] = task[d]
      /\ task' \in [Callers -> Task]
  BY TypeFacts DEF Steps
<1>2. /\ io' \in [Callers -> IO] /\ ~Pending(c)' /\ \A d \in Callers : d # c => io'[d] = io[d]
  <2>1. io \in [Callers -> IO]
    BY TypeFacts
  <2>2. CASE io' = io /\ ~Pending(c)
    BY <2>1, <2>2 DEF Pending
  <2>3. CASE io' = [io EXCEPT ![c] = NoCall]
    BY <2>1, <2>3, NoCallFacts DEF Pending
  <2> QED
    BY <2>2, <2>3 DEF Steps
<1>3. /\ data' \in [Keys -> Nat] /\ \A k \in Keys : data[k] <= data'[k]
      /\ inbox' \subseteq [type : Types, key : Keys, seen : Nat] /\ \A e \in inbox' : e.seen <= data'[e.key]
      /\ calls' \in 0..app.calls /\ failures' \in 0..MaxFailures
      /\ UNCHANGED <<managed, store, app, flushed, excused>>
      /\ t.seen <= data'[t.key] /\ Sound(t) /\ (t.pc \in {"hooks", "put"} => t.seen = data'[t.key])
  BY DEF Steps, history
<1>4. TypeOK'
  BY <1>1, <1>2, <1>3, TypeFacts, TypeFrom
<1>5. LinksInv'
  BY <1>1, <1>2 DEF IInv, LinksInv, Pending
<1>6. SeenInv'
  <2>1. \A d \in Callers : task'[d].seen <= data'[task'[d].key]
    <3> SUFFICES ASSUME NEW d \in Callers, d # c PROVE task[d].seen <= data'[task[d].key]
      BY <1>1, <1>3
    <3>1. task[d] \in Task /\ task[d].seen <= data[task[d].key]
      BY Frame
    <3>2. task[d].key \in Keys /\ task[d].seen \in Nat
      BY <3>1 DEF Task
    <3>3. data[task[d].key] \in Nat /\ data'[task[d].key] \in Nat /\ data[task[d].key] <= data'[task[d].key]
      BY <1>3, <3>2, TypeFacts
    <3> QED
      BY <3>1, <3>2, <3>3
  <2>2. \A s \in Slots : flushed[s] <= data'[s[2]]
    <3> SUFFICES ASSUME NEW s \in Slots PROVE flushed[s] <= data'[s[2]]
      OBVIOUS
    <3>1. s[2] \in Keys /\ flushed[s] <= data[s[2]]
      BY SlotsFacts DEF IInv, SeenInv
    <3>2. data[s[2]] \in Nat /\ data'[s[2]] \in Nat /\ data[s[2]] <= data'[s[2]] /\ flushed[s] \in Nat
      BY <1>3, <3>1, TypeFacts
    <3> QED
      BY <3>1, <3>2
  <2> QED
    BY <1>3, <2>1, <2>2 DEF SeenInv
<1>7. SingleInv' /\ StaleOnlyByRace'
  BY <1>3 DEF IInv, SingleInv, StaleOnlyByRace
\* What is carried afresh is the newest there is.
<1>8. ASSUME NEW s \in Slots, Carries(t, s), NEW n \in Nat, n <= data'[s[2]]
      PROVE  Excused(t.seen, s, n)
  <2>1. t.seen = data'[s[2]] /\ s[2] \in Keys
    BY <1>3, <1>8, CarriesFacts, SlotsFacts
  <2> QED
    BY <1>3, <1>8, <2>1 DEF Excused
<1>9. CarryInv'
  <2> SUFFICES ASSUME NEW d \in Callers, NEW s \in Slots, Carries(task'[d], s)
               PROVE  Excused(task'[d].seen, s, flushed[s])
    BY <1>3 DEF CarryInv, Excused
  <2>1. CASE d = c
    <3>1. flushed[s] \in Nat /\ flushed[s] <= data'[s[2]]
      BY <1>3, <1>6, TypeFacts DEF SeenInv
    <3> QED
      BY <1>1, <1>8, <2>1, <3>1
  <2>2. CASE d # c
    BY <1>1, <2>2 DEF IInv, CarryInv
  <2> QED
    BY <2>1, <2>2
<1>10. FlushInv'
  <2> SUFFICES ASSUME NEW d \in Callers, NEW s \in Slots, Flushing(d, s)'
               PROVE  /\ \A e \in Callers \ {d} : Carries(task'[e], s) => Excused(task'[e].seen, s, task'[d].seen)
                      /\ Back(d)' /\ ~io'[d].failed => Excused(store'["primary"][s].val, s, task'[d].seen)
    BY <1>3 DEF FlushInv, Excused
  <2>1. d # c
    BY <1>2 DEF Flushing
  <2>2. task'[d] = task[d] /\ io'[d] = io[d] /\ Flushing(d, s)
    BY <1>1, <1>2, <2>1 DEF Flushing, Pending, Flushes, Fills
  <2>3. /\ \A e \in Callers \ {d} : Carries(task[e], s) => Excused(task[e].seen, s, task[d].seen)
        /\ Back(d) /\ ~io[d].failed => Excused(store["primary"][s].val, s, task[d].seen)
    BY <2>2 DEF IInv, FlushInv
  <2>4. Carries(t, s) => Excused(t.seen, s, task[d].seen)
    <3>1. s[2] = task[d].key
      BY <2>2 DEF Flushing, Flushes
    <3>2. task[d].seen <= data'[s[2]]
      BY <1>6, <2>2, <3>1 DEF SeenInv
    <3>3. task[d].seen \in Nat
      BY TypeFacts DEF Task
    <3> QED
      BY <1>8, <3>2, <3>3
  <2> QED
    BY <1>1, <1>3, <2>2, <2>3, <2>4 DEF Back
<1>11. TasksInv'
  <2> SUFFICES ASSUME NEW d \in Callers PROVE Sound(task[d])'
    BY DEF TasksInv
  <2>1. Sound(task'[d])
    BY <1>1, <1>3, Frame
  <2> QED
    BY <1>3, <2>1 DEF Sound, Announces, Listens
<1> QED
  BY <1>4, <1>5, <1>6, <1>7, <1>9, <1>10, <1>11 DEF IInv

\* A call leaves: whoever can overtake it is excused.
LEMMA AsksInv ==
  ASSUME IInv, NEW c \in Callers, NEW t \in Task, NEW op \in {"get", "put", "evict", "clear"},
         NEW slots \in SUBSET Slots, NEW val \in Nat, NEW ttl \in Nat \cup {Forever},
         Asks(c, t, op, slots, val, ttl)
  PROVE  IInv'
<1> DEFINE call == Call(op, slots, val, ttl)
<1>0. call \in IO /\ call.op = op /\ call.slots = slots /\ call.val = val /\ call.at = "sent"
  BY DEF Call, NoCall, IO
<1>1. /\ task'[c] = t /\ \A d \in Callers : d # c => task'[d] = task[d]
      /\ task' \in [Callers -> Task]
  BY TypeFacts DEF Asks, Await
<1>2. /\ io' \in [Callers -> IO] /\ io'[c] = call /\ \A d \in Callers : d # c => io'[d] = io[d]
  <2> HIDE DEF call
  <2>1. io' = [io EXCEPT ![c] = call]
    BY DEF Asks, Await, call
  <2> QED
    BY <1>0, <2>1, TypeFacts
<1>3. /\ UNCHANGED <<managed, store, failures, app, data, inbox, calls, flushed>> /\ ~Pending(c)
      /\ t.seen <= data[t.key] /\ Sound(t) /\ Linked(t, call)
      /\ \A s \in Slots : Carries(t, s) => Carries(task[c], s) /\ t.seen = task[c].seen
  BY DEF Asks
\* Whoever was excused still is, and the rivals of an eviction are as well.
<1>4. /\ \A s \in Slots : excused[s] \subseteq excused'[s]
      /\ op # "get" => \A s \in slots : Rivals(c, s) \subseteq excused'[s]
      /\ excused' \in [Slots -> SUBSET Nat]
  <2>1. excused' = [s \in Slots |-> IF s \in slots /\ op # "get" THEN excused[s] \cup Rivals(c, s) ELSE excused[s]]
    BY DEF Asks, Await
  <2>2. \A s \in Slots : Rivals(c, s) \subseteq Nat
    <3>1. \A d \in Callers : task[d].seen \in Nat
      BY TypeFacts DEF Task
    <3> QED
      BY <3>1 DEF Rivals
  <2>3. excused \in [Slots -> SUBSET Nat]
    BY TypeFacts
  <2> HIDE DEF call
  <2> QED
    BY <2>1, <2>2, <2>3
<1> HIDE DEF call
<1>5. TypeOK'
  BY <1>1, <1>2, <1>3, <1>4, Frame, TypeFacts, TypeFrom
<1>6. LinksInv'
  <2>1. call.op # "none"
    BY <1>0
  <2> QED
    BY <1>1, <1>2, <1>3, <2>1 DEF IInv, LinksInv, Pending
<1>7. SeenInv' /\ SingleInv'
  BY <1>1, <1>3 DEF IInv, SeenInv, SingleInv
<1>9. StaleOnlyByRace'
  BY <1>3, <1>4 DEF IInv, StaleOnlyByRace
<1>10. CarryInv'
  <2> SUFFICES ASSUME NEW d \in Callers, NEW s \in Slots, Carries(task'[d], s)
               PROVE  Excused(task[d].seen, s, flushed[s])'
    BY <1>3 DEF CarryInv
  <2>1. Carries(task[d], s) /\ task'[d].seen = task[d].seen
    BY <1>1, <1>3
  <2>2. Excused(task[d].seen, s, flushed[s])
    BY <2>1 DEF IInv, CarryInv
  <2> QED
    BY <1>3, <1>4, <2>1, <2>2 DEF Excused
<1>11. FlushInv'
  <2> SUFFICES ASSUME NEW d \in Callers, NEW s \in Slots, Flushing(d, s)'
               PROVE  /\ \A e \in Callers \ {d} : Carries(task'[e], s) => Excused(task[e].seen, s, task[d].seen)'
                      /\ Back(d)' /\ ~io'[d].failed => Excused(store["primary"][s].val, s, task[d].seen)'
    BY DEF FlushInv
  <2>1. \A e \in Callers : Carries(task'[e], s) => Carries(task[e], s) /\ task'[e].seen = task[e].seen
    BY <1>1, <1>3
  <2>2. CASE d = c
    <3>1. ~Back(d)'
      BY <1>0, <1>2, <2>2 DEF Back
    <3>2. op # "get" /\ s \in slots
      BY <1>0, <1>2, <2>2 DEF Flushing, Flushes
    <3>3. \A e \in Callers \ {d} : Carries(task[e], s) => task[e].seen \in Rivals(c, s)
      BY <2>2 DEF Rivals
    <3> QED
      BY <1>4, <2>1, <3>1, <3>2, <3>3 DEF Excused
  <2>3. CASE d # c
    <3>1. task'[d] = task[d] /\ io'[d] = io[d] /\ Flushing(d, s)
      BY <1>1, <1>2, <2>3 DEF Flushing, Pending, Flushes, Fills
    <3>2. /\ \A e \in Callers \ {d} : Carries(task[e], s) => Excused(task[e].seen, s, task[d].seen)
          /\ Back(d) /\ ~io[d].failed => Excused(store["primary"][s].val, s, task[d].seen)
      BY <3>1 DEF IInv, FlushInv
    <3> QED
      BY <1>3, <1>4, <2>1, <3>1, <3>2 DEF Back, Excused
  <2> QED
    BY <2>2, <2>3
<1>12. TasksInv'
  <2> SUFFICES ASSUME NEW d \in Callers PROVE Sound(task[d])'
    BY DEF TasksInv
  <2>1. Sound(task'[d])
    BY <1>1, <1>3, Frame
  <2> QED
    BY <1>3, <2>1 DEF Sound, Announces, Listens
<1> QED
  BY <1>5, <1>6, <1>7, <1>9, <1>10, <1>11, <1>12 DEF IInv

\* What an answered call has done to a slot.
LEMMA EffectFacts ==
  ASSUME NEW entries \in [Slots -> [val : Nat, left : Nat \cup {Forever}]], NEW call \in IO
  PROVE  /\ Effect(entries, call) \in [Slots -> [val : Nat, left : Nat \cup {Forever}]]
         /\ \A s \in Slots : s \notin call.slots \/ call.op = "get" => Effect(entries, call)[s] = entries[s]
         /\ \A s \in call.slots : call.op # "get" =>
              \/ Effect(entries, call)[s] = Gone
              \/ call.op = "put" /\ Effect(entries, call)[s].val = call.val
<1>1. call.slots \in SUBSET Slots /\ call.val \in Nat /\ call.ttl \in Nat \cup {Forever}
  BY DEF IO
<1>2. Gone \in [val : Nat, left : Nat \cup {Forever}]
  BY DEF Gone
<1> QED
  BY <1>1, <1>2 DEF Effect

\* The server takes a call or fails.
LEMMA ServerForm == ASSUME IInv, NEW c \in Callers, Server(c) PROVE Answers(c)
<1>1. UNCHANGED <<managed, busVars, history>>
  BY DEF Server, Serve, Refuse
<1>2. Pending(c) /\ io \in [Callers -> IO] /\ io[c] \in IO /\ failures \in 0..MaxFailures /\ store \in Stores
  BY TypeFacts DEF Server, Serve, Refuse, Pending
<1> DEFINE effect == Effect(store["primary"], io[c])
<1>3. CASE Serve(c)
  <2> DEFINE got == Found(store["primary"], io[c])
  <2>1. got \in Nat
    <3>1. io[c].op = "get" => io[c].slots # {} /\ io[c].slots \subseteq Slots
      BY <1>2 DEF IInv, LinksInv, Linked, IO
    <3>2. CASE io[c].op = "get"
      <4>1. (CHOOSE s \in io[c].slots : TRUE) \in Slots
        BY <3>1, <3>2
      <4> QED
        BY <1>2, <3>2, <4>1 DEF Found, Stores, Tiers
    <3> QED
      BY <3>2 DEF Found
  <2>2. /\ store' = [store EXCEPT !["primary"] = effect]
        /\ io' = [io EXCEPT ![c].at = "back", ![c].got = got] /\ failures' = failures
    BY <1>3 DEF Serve
  <2> HIDE DEF got, effect
  <2>3. io' = [io EXCEPT ![c].at = "back", ![c].got = got, ![c].failed = io[c].failed] /\ io[c].failed \in BOOLEAN
    BY <1>2, <2>2 DEF IO
  <2> QED
    BY <1>1, <1>2, <2>1, <2>2, <2>3 DEF Answers, effect
<1>4. CASE Refuse(c)
  <2>1. /\ store' = [store EXCEPT !["primary"] = effect] \/ store' = store
        /\ io' = [io EXCEPT ![c].at = "back", ![c].failed = TRUE] /\ failures' = failures + 1 /\ failures < MaxFailures
    BY <1>4 DEF Refuse
  <2> HIDE DEF effect
  <2>2. io' = [io EXCEPT ![c].at = "back", ![c].got = io[c].got, ![c].failed = TRUE] /\ io[c].got \in Nat
    BY <1>2, <2>1 DEF IO
  <2>3. failures' \in 0..MaxFailures
    BY <1>2, <2>1
  <2> QED
    BY <1>1, <1>2, <2>1, <2>2, <2>3 DEF Answers, effect
<1> QED
  BY <1>3, <1>4 DEF Server

\* It stores what somebody carries, or nothing.
LEMMA AnswersInv == ASSUME IInv, NEW c \in Callers, Answers(c) PROVE IInv'
<1> DEFINE effect == Effect(store["primary"], io[c])
<1>1. PICK got \in Nat, failed \in BOOLEAN :
       /\ io' = [io EXCEPT ![c].at = "back", ![c].got = got, ![c].failed = failed]
       /\ \/ store' = [store EXCEPT !["primary"] = effect]
          \/ failed /\ store' = store
  BY DEF Answers
<1>2. /\ Pending(c) /\ failures' \in 0..MaxFailures
      /\ UNCHANGED <<managed, app, task, data, inbox, calls, flushed, excused>>
  BY DEF Answers, busVars, history
<1>3. io \in [Callers -> IO] /\ store \in Stores /\ io[c] \in IO
  BY TypeFacts
<1>4. /\ io' \in [Callers -> IO] /\ \A d \in Callers : d # c => io'[d] = io[d]
      /\ io'[c].op = io[c].op /\ io'[c].slots = io[c].slots /\ io'[c].val = io[c].val
      /\ io'[c].at = "back" /\ io'[c].failed = failed
  BY <1>1, <1>3 DEF IO
<1>5. /\ effect \in [Slots -> [val : Nat, left : Nat \cup {Forever}]]
      /\ \A s \in Slots : s \notin io[c].slots \/ io[c].op = "get" => effect[s] = store["primary"][s]
      /\ \A s \in io[c].slots : io[c].op # "get" =>
           \/ effect[s] = Gone
           \/ io[c].op = "put" /\ effect[s].val = io[c].val
  <2>1. store["primary"] \in [Slots -> [val : Nat, left : Nat \cup {Forever}]]
    BY <1>3 DEF Stores, Tiers
  <2> QED
    BY <1>3, <2>1, EffectFacts
<1> HIDE DEF effect
<1>6. store' \in Stores /\ store'["fallback"] = store["fallback"]
      /\ (store'["primary"] = effect \/ (failed /\ store' = store))
  <2>1. "primary" \in Tiers /\ "fallback" \in Tiers /\ "primary" # "fallback"
    BY DEF Tiers
  <2>2. CASE store' = [store EXCEPT !["primary"] = effect]
    BY <1>3, <1>5, <2>1, <2>2 DEF Stores
  <2>3. CASE failed /\ store' = store
    BY <1>3, <2>3
  <2> QED
    BY <1>1, <2>2, <2>3
<1>7. TypeOK'
  BY <1>2, <1>4, <1>6, Frame, TypeFacts, TypeFrom
<1>8. LinksInv'
  <2> SUFFICES ASSUME NEW d \in Callers, Pending(d)' PROVE Linked(task[d], io'[d]) /\ io'[d].op # "none"
    BY <1>2 DEF LinksInv
  <2>1. Pending(d) /\ Linked(task[d], io[d]) /\ io[d].op # "none"
    BY <1>2, <1>4 DEF IInv, LinksInv, Pending
  <2> QED
    BY <1>4, <2>1 DEF Linked
<1>9. SeenInv' /\ SingleInv' /\ CarryInv'
  BY <1>2, <1>6 DEF IInv, SeenInv, SingleInv, CarryInv, Excused
<1>10. TasksInv'
  BY <1>2 DEF IInv, TasksInv, Sound, Announces, Listens
\* What the primary has afterwards it had before, or c was carrying it.
<1>11. \A s \in Slots : \/ store'["primary"][s] = store["primary"][s]
                        \/ store'["primary"][s].val = 0
                        \/ Carries(task[c], s) /\ store'["primary"][s].val = task[c].seen
  <2>1. Gone.val = 0
    BY DEF Gone
  <2>2. io[c].op = "put" => /\ task[c].kind \in Readers \cup {"put"} /\ task[c].pc = "put"
                            /\ io[c].slots = {SlotOf(task[c])} /\ io[c].val = task[c].seen
    BY <1>2 DEF IInv, LinksInv, Linked
  <2> QED
    BY <1>5, <1>6, <2>1, <2>2 DEF Carries
<1>12. StaleOnlyByRace'
  <2> SUFFICES ASSUME NEW s \in Slots, store'["primary"][s].val # 0, store'["primary"][s].val < flushed[s]
               PROVE  store'["primary"][s].val \in excused[s]
    BY <1>2, <1>6 DEF IInv, StaleOnlyByRace, Tiers
  <2>1. CASE store'["primary"][s] = store["primary"][s]
    BY <2>1 DEF IInv, StaleOnlyByRace, Tiers
  <2>2. CASE Carries(task[c], s) /\ store'["primary"][s].val = task[c].seen
    BY <2>2 DEF IInv, CarryInv, Excused
  <2> QED
    BY <1>11, <2>1, <2>2
<1>13. FlushInv'
  <2> SUFFICES ASSUME NEW d \in Callers, NEW s \in Slots, Flushing(d, s)'
               PROVE  /\ \A e \in Callers \ {d} : Carries(task[e], s) => Excused(task[e].seen, s, task[d].seen)
                      /\ Back(d)' /\ ~io'[d].failed => Excused(store'["primary"][s].val, s, task[d].seen)
    BY <1>2 DEF FlushInv, Excused
  <2>1. Flushing(d, s)
    BY <1>2, <1>4 DEF Flushing, Pending, Flushes, Fills
  <2>2. /\ \A e \in Callers \ {d} : Carries(task[e], s) => Excused(task[e].seen, s, task[d].seen)
        /\ Back(d) /\ ~io[d].failed => Excused(store["primary"][s].val, s, task[d].seen)
    BY <2>1 DEF IInv, FlushInv
  <2>3. task[d].seen \in Nat
    BY TypeFacts DEF Task
  <2> SUFFICES ASSUME Back(d)', ~io'[d].failed
               PROVE  Excused(store'["primary"][s].val, s, task[d].seen)
    BY <2>2
  <2>4. CASE d = c
    <3>1. store'["primary"] = effect /\ s \in io[c].slots /\ io[c].op # "get"
      BY <1>4, <1>6, <2>1, <2>4 DEF Flushing, Flushes
    <3>2. \/ store'["primary"][s].val = 0
          \/ store'["primary"][s].val = task[c].seen
      <4>1. io[c].op = "put" => io[c].val = task[c].seen
        BY <1>2 DEF IInv, LinksInv, Linked
      <4> QED
        BY <1>5, <3>1, <4>1 DEF Gone
    <3> QED
      BY <2>3, <2>4, <3>2 DEF Excused
  <2>5. CASE d # c
    <3>1. Back(d) /\ ~io[d].failed
      BY <1>4, <2>5 DEF Back
    <3> QED
      BY <1>11, <2>2, <2>5, <3>1 DEF Excused
  <2> QED
    BY <2>4, <2>5
<1> QED
  BY <1>7, <1>8, <1>9, <1>10, <1>12, <1>13 DEF IInv

\* Time only removes.
LEMMA TimeInv == ASSUME IInv, Time PROVE IInv'
<1>1. UNCHANGED <<managed, io, failures, app, task, data, inbox, calls, flushed, excused>>
  BY DEF Time, Tick, busVars, history
<1>2. /\ store' \in Stores
      /\ \A t \in Tiers, s \in Slots : /\ store'[t][s].val = store[t][s].val \/ store'[t][s] = Gone
                                       /\ store[t][s] = Gone => store'[t][s] = Gone
  <2>1. store' = [t \in Tiers |-> [s \in Slots |-> Aged(store[t][s])]] /\ store \in Stores
    BY TypeFacts DEF Time, Tick
  <2>2. ASSUME NEW e \in [val : Nat, left : Nat \cup {Forever}]
        PROVE  /\ Aged(e) \in [val : Nat, left : Nat \cup {Forever}]
               /\ Aged(e).val = e.val \/ Aged(e) = Gone
               /\ e = Gone => Aged(e) = Gone
    <3>1. CASE e.left = Forever \/ e = Gone
      BY <3>1 DEF Aged
    <3>2. CASE ~(e.left = Forever \/ e = Gone) /\ e.left <= 1
      BY <3>2 DEF Aged, Gone
    <3>3. CASE ~(e.left = Forever \/ e = Gone) /\ ~(e.left <= 1)
      <4>1. e.left \in Nat /\ e.left - 1 \in Nat
        BY <3>3
      <4> QED
        BY <3>3, <4>1 DEF Aged
    <3> QED
      BY <3>1, <3>2, <3>3
  <2>3. \A t \in Tiers, s \in Slots : store[t][s] \in [val : Nat, left : Nat \cup {Forever}]
    BY <2>1 DEF Stores
  <2> QED
    BY <2>1, <2>2, <2>3 DEF Stores
<1>3. TypeOK'
  BY <1>1, <1>2, Frame, TypeFacts, TypeFrom
<1>4. LinksInv' /\ SeenInv' /\ CarryInv' /\ TasksInv'
  BY <1>1 DEF IInv, LinksInv, Pending, SeenInv, CarryInv, Excused, TasksInv, Sound, Announces, Listens
<1>5. SingleInv'
  BY <1>1, <1>2 DEF IInv, SingleInv, Tiers
<1>6. Gone.val = 0
  BY DEF Gone
<1>7. StaleOnlyByRace'
  <2> SUFFICES ASSUME NEW t \in Tiers, NEW s \in Slots, store'[t][s].val # 0, store'[t][s].val < flushed[s]
               PROVE  store'[t][s].val \in excused[s]
    BY <1>1 DEF StaleOnlyByRace
  <2>1. store'[t][s].val = store[t][s].val
    BY <1>2, <1>6
  <2> QED
    BY <2>1 DEF IInv, StaleOnlyByRace
<1>8. FlushInv'
  <2> SUFFICES ASSUME NEW d \in Callers, NEW s \in Slots, Flushing(d, s)
               PROVE  /\ \A e \in Callers \ {d} : Carries(task[e], s) => Excused(task[e].seen, s, task[d].seen)
                      /\ Back(d) /\ ~io[d].failed => Excused(store'["primary"][s].val, s, task[d].seen)
    BY <1>1 DEF FlushInv, Excused, Flushing, Pending, Flushes, Fills, Back
  <2>1. /\ \A e \in Callers \ {d} : Carries(task[e], s) => Excused(task[e].seen, s, task[d].seen)
        /\ Back(d) /\ ~io[d].failed => Excused(store["primary"][s].val, s, task[d].seen)
    BY DEF IInv, FlushInv
  <2>2. store'["primary"][s].val \in {store["primary"][s].val, 0}
    BY <1>2, <1>6 DEF Tiers
  <2> QED
    BY <2>1, <2>2 DEF Excused
<1> QED
  BY <1>3, <1>4, <1>5, <1>7, <1>8 DEF IInv

\* An eviction that returns: the slot is flushed up to what it was for.
LEMMA WriteInv == ASSUME IInv, NEW c \in Callers, WriteReturns(c) PROVE IInv'
<1> DEFINE b == ~(Raises(c) /\ task[c].kind \in Functions)
           n == task[c].seen
<1>1. /\ Pending(c) /\ Back(c) /\ io[c].op # "get" /\ io' = [io EXCEPT ![c] = NoCall]
      /\ store' = Mirrored(c)
      /\ UNCHANGED <<managed, failures, app, data, inbox, calls>>
  BY DEF WriteReturns, Written, Back, Pending
<1>2. /\ Linked(task[c], io[c]) /\ io[c].op # "none" /\ task[c].kind # "command"
      /\ io[c] \in IO /\ task[c] \in Task /\ n \in Nat /\ n <= data[task[c].key] /\ Sound(task[c])
  <2>1. LinksInv /\ TypeOK
    BY DEF IInv
  <2> QED
    BY <1>1, <2>1, PendingFacts, TypeFacts, Frame DEF LinksInv, Task
\* The task has done with the slot.
<1>3. PICK t \in Task : /\ task' = [task EXCEPT ![c] = t] /\ t.pc \in {"listen", "done"} /\ Sound(t)
                        /\ t.seen <= data[t.key]
  <2>1. CASE task[c].kind = "listener"
    <3> DEFINE t == [task[c] EXCEPT !.pc = "listen", !.next = @ + 1]
    <3>1. /\ t \in Task /\ t.pc = "listen" /\ t.seen = n /\ t.key = task[c].key /\ t.kind = "listener"
          /\ t.event = task[c].event
      <4>1. task[c].next + 1 \in Nat \ {0}
        BY <1>2 DEF Task
      <4> QED
        BY <1>2, <2>1, <4>1 DEF Task
    <3>2. task' = [task EXCEPT ![c] = t]
      <4>1. task \in [Callers -> Task] /\ task' = [task EXCEPT ![c].pc = "listen", ![c].next = @ + 1]
        BY <2>1, TypeFacts DEF WriteReturns, Written
      <4> QED
        BY <4>1
    <3> HIDE DEF t
    <3>3. Sound(t)
      BY <1>2, <2>1, <3>1 DEF Sound, Announces, Listens
    <3> QED
      BY <1>2, <3>1, <3>2, <3>3
  <2>2. CASE task[c].kind # "listener"
    <3>1. Finish(c, b) /\ b \in BOOLEAN
      BY <2>2 DEF WriteReturns, Written
    <3>2. task' = [task EXCEPT ![c] = Idle]
      BY <1>2, <3>1 DEF Finish
    <3>3. Sound(Idle)
      BY IdleFacts DEF Sound, Announces, Listens
    <3>4. Idle.seen <= data[Idle.key]
      <4>1. Idle.key \in Keys /\ data \in [Keys -> Nat]
        BY IdleFacts, TypeFacts DEF Task
      <4> QED
        BY <4>1, IdleFacts
    <3> QED
      BY <3>2, <3>3, <3>4, IdleFacts
  <2> QED
    BY <2>1, <2>2
<1>4. /\ task'[c] = t /\ \A d \in Callers : d # c => task'[d] = task[d]
      /\ task' \in [Callers -> Task] /\ \A s : ~Carries(t, s)
  BY <1>3, TypeFacts DEF Carries
<1>5. /\ io' \in [Callers -> IO] /\ ~Pending(c)' /\ \A d \in Callers : d # c => io'[d] = io[d]
  BY <1>1, NoCallFacts, TypeFacts DEF Pending
<1>6. /\ flushed' \in [Slots -> Nat] /\ excused' \in [Slots -> SUBSET Nat]
      /\ \A s \in Slots : /\ excused[s] \subseteq excused'[s]
                          /\ s \notin Flushes(c) => flushed'[s] = flushed[s]
                          /\ s \in Flushes(c) => flushed'[s] = flushed[s] \/ flushed'[s] = n
                          /\ s \in Flushes(c) /\ io[c].failed => Older(s) \subseteq excused'[s]
  <2>1. \A x, y \in Nat : Max({x, y}) \in {x, y}
    <3> SUFFICES ASSUME NEW x \in Nat, NEW y \in Nat PROVE Max({x, y}) \in {x, y}
      OBVIOUS
    <3>1. \E m \in {x, y} : \A z \in {x, y} : m >= z
      OBVIOUS
    <3> QED
      BY <3>1 DEF Max
  <2>2. flushed' = [s \in Slots |-> IF s \in Flushes(c) THEN Max({flushed[s], n}) ELSE flushed[s]]
    BY DEF WriteReturns, Written
  <2>3. excused' = [s \in Slots |-> IF s \in Flushes(c) /\ io[c].failed THEN excused[s] \cup Older(s) ELSE excused[s]]
    BY DEF WriteReturns, Written
  <2>4. \A s \in Slots : Older(s) \subseteq Nat
    BY TypeFacts DEF Older, Stores, Tiers
  <2>5. flushed \in [Slots -> Nat] /\ excused \in [Slots -> SUBSET Nat]
    BY TypeFacts
  <2> HIDE DEF n
  <2>6. \A s \in Slots : Max({flushed[s], n}) \in {flushed[s], n}
    BY <1>2, <2>1, <2>5
  <2>7. flushed' \in [Slots -> Nat] /\ \A s \in Slots : /\ s \notin Flushes(c) => flushed'[s] = flushed[s]
                                                        /\ s \in Flushes(c) => flushed'[s] \in {flushed[s], n}
    BY <1>2, <2>2, <2>5, <2>6
  <2>8. /\ excused' \in [Slots -> SUBSET Nat]
        /\ \A s \in Slots : /\ excused[s] \subseteq excused'[s]
                            /\ s \in Flushes(c) /\ io[c].failed => Older(s) \subseteq excused'[s]
    BY <2>3, <2>4, <2>5
  <2> QED
    BY <2>7, <2>8
\* The primary is as it was, the fallback now as the call says.
<1>7. /\ store' \in Stores /\ store'["primary"] = store["primary"]
      /\ ~managed => store' = store
      /\ managed => \A s \in Slots :
           \/ s \notin io[c].slots /\ store'["fallback"][s] = store["fallback"][s]
           \/ s \in io[c].slots /\ store'["fallback"][s].val = 0
           \/ s \in io[c].slots /\ io[c].op = "put" /\ store'["fallback"][s].val = n
  <2> DEFINE effect == Effect(store["fallback"], io[c])
  <2>1. store \in Stores /\ store["fallback"] \in [Slots -> [val : Nat, left : Nat \cup {Forever}]]
    BY TypeFacts DEF Stores, Tiers
  <2>2. /\ effect \in [Slots -> [val : Nat, left : Nat \cup {Forever}]]
        /\ \A s \in Slots : s \notin io[c].slots \/ io[c].op = "get" => effect[s] = store["fallback"][s]
        /\ \A s \in io[c].slots : io[c].op # "get" =>
             effect[s] = Gone \/ (io[c].op = "put" /\ effect[s].val = io[c].val)
    BY <1>2, <2>1, EffectFacts
  <2>3. IF managed THEN store' = [store EXCEPT !["fallback"] = effect] ELSE store' = store
    BY <1>1 DEF Mirrored
  <2> HIDE DEF effect
  <2>4. "primary" \in Tiers /\ "fallback" \in Tiers /\ "primary" # "fallback" /\ Gone.val = 0
    BY DEF Tiers, Gone
  <2>5. io[c].op = "put" => io[c].val = n
    BY <1>2 DEF Linked
  <2>6. store' \in Stores /\ store'["primary"] = store["primary"]
    BY <2>1, <2>2, <2>3, <2>4 DEF Stores
  <2>7. managed => store'["fallback"] = effect
    BY <2>1, <2>3, <2>4 DEF Stores
  <2> QED
    BY <1>1, <2>2, <2>3, <2>4, <2>5, <2>6, <2>7
<1>8. TypeOK'
  BY <1>1, <1>4, <1>5, <1>6, <1>7, Frame, TypeFacts, TypeFrom
<1>9. LinksInv'
  BY <1>4, <1>5 DEF IInv, LinksInv, Pending
<1>10. SingleInv'
  BY <1>1, <1>7 DEF IInv, SingleInv
<1>11. TasksInv'
  <2> SUFFICES ASSUME NEW d \in Callers PROVE Sound(task[d])'
    BY DEF TasksInv
  <2>1. Sound(task'[d])
    BY <1>3, <1>4, Frame
  <2> QED
    BY <1>1, <2>1 DEF Sound, Announces, Listens
<1>12. SeenInv'
  <2>1. \A s \in Slots : flushed'[s] <= data[s[2]]
    <3> SUFFICES ASSUME NEW s \in Slots PROVE flushed'[s] <= data[s[2]]
      OBVIOUS
    <3>1. flushed[s] <= data[s[2]]
      BY DEF IInv, SeenInv
    <3>2. s \in Flushes(c) => s[2] = task[c].key
      BY DEF Flushes
    <3> QED
      BY <1>2, <1>6, <3>1, <3>2
  <2>2. \A d \in Callers : task'[d].seen <= data[task'[d].key]
    BY <1>3, <1>4 DEF IInv, SeenInv
  <2> QED
    BY <1>1, <2>1, <2>2 DEF IInv, SeenInv
<1> HIDE DEF n
\* A value that is excused before n, and before what was flushed, stays so.
<1>13. ASSUME NEW v, NEW s \in Slots, Excused(v, s, flushed[s]), s \in Flushes(c) => Excused(v, s, n)
       PROVE  v # 0 /\ v < flushed'[s] => v \in excused'[s]
  BY <1>6, <1>13 DEF Excused
<1>14. CarryInv'
  <2> SUFFICES ASSUME NEW d \in Callers, NEW s \in Slots, Carries(task'[d], s)
               PROVE  Excused(task[d].seen, s, flushed[s])'
    BY DEF CarryInv
  <2>1. d # c /\ task'[d] = task[d]
    BY <1>4
  <2>2. Excused(task[d].seen, s, flushed[s])
    BY <2>1 DEF IInv, CarryInv
  <2>3. s \in Flushes(c) => Excused(task[d].seen, s, n)
    BY <1>1, <2>1 DEF IInv, FlushInv, Flushing, n
  <2>4. task[d].seen # 0 /\ task[d].seen < flushed'[s] => task[d].seen \in excused'[s]
    BY <1>13, <2>2, <2>3
  <2> QED
    BY <2>1, <2>4 DEF Excused
<1>15. FlushInv'
  <2> SUFFICES ASSUME NEW d \in Callers, NEW s \in Slots, Flushing(d, s)'
               PROVE  /\ \A e \in Callers \ {d} : Carries(task'[e], s) => Excused(task[e].seen, s, task[d].seen)'
                      /\ Back(d)' /\ ~io'[d].failed => Excused(store["primary"][s].val, s, task[d].seen)'
    BY DEF FlushInv
  <2>1. d # c
    BY <1>5 DEF Flushing
  <2>2. task'[d] = task[d] /\ io'[d] = io[d] /\ Flushing(d, s)
    BY <1>4, <1>5, <2>1 DEF Flushing, Pending, Flushes, Fills
  <2>3. /\ \A e \in Callers \ {d} : Carries(task[e], s) => Excused(task[e].seen, s, task[d].seen)
        /\ Back(d) /\ ~io[d].failed => Excused(store["primary"][s].val, s, task[d].seen)
    BY <2>2 DEF IInv, FlushInv
  <2> QED
    BY <1>4, <1>6, <1>7, <2>2, <2>3 DEF Back, Excused
<1>16. StaleOnlyByRace'
  <2>1. ASSUME NEW s \in Slots
        PROVE  LET v == store'["primary"][s].val IN v # 0 /\ v < flushed'[s] => v \in excused'[s]
    <3> DEFINE v == store["primary"][s].val
    <3>1. Excused(v, s, flushed[s])
      BY DEF IInv, StaleOnlyByRace, Tiers, Excused
    <3>2. CASE s \in Flushes(c) /\ io[c].failed
      BY <1>6, <1>7, <3>2 DEF Older
    <3>3. CASE ~(s \in Flushes(c) /\ io[c].failed)
      <4>1. s \in Flushes(c) => Excused(v, s, n)
        BY <1>1, <3>3 DEF IInv, FlushInv, Flushing, n
      <4> HIDE DEF v
      <4>2. v # 0 /\ v < flushed'[s] => v \in excused'[s]
        BY <1>13, <3>1, <4>1
      <4> QED
        BY <1>7, <4>2 DEF v
    <3> QED
      BY <3>2, <3>3
  <2>2. ASSUME NEW s \in Slots
        PROVE  LET v == store'["fallback"][s].val IN v # 0 /\ v < flushed'[s] => v \in excused'[s]
    <3>1. CASE ~managed
      BY <1>1, <1>10, <3>1 DEF SingleInv, Gone
    <3>2. CASE managed /\ s \notin io[c].slots
      <4>1. store'["fallback"][s] = store["fallback"][s] /\ flushed'[s] = flushed[s]
        BY <1>6, <1>7, <3>2 DEF Flushes
      <4> QED
        BY <1>6, <4>1 DEF IInv, StaleOnlyByRace, Tiers
    <3>3. CASE managed /\ s \in io[c].slots
      <4> SUFFICES ASSUME io[c].op = "put", store'["fallback"][s].val = n
                   PROVE  n # 0 /\ n < flushed'[s] => n \in excused'[s]
        BY <1>7, <3>3
      <4>1. Carries(task[c], s)
        BY <1>2, <3>3 DEF Linked, Carries
      <4>2. Excused(n, s, flushed[s])
        BY <4>1 DEF IInv, CarryInv, n
      <4>3. Excused(n, s, n)
        BY <1>2 DEF Excused
      <4> QED
        BY <1>13, <4>2, <4>3
    <3> QED
      BY <3>1, <3>2, <3>3
  <2> QED
    BY <2>1, <2>2 DEF StaleOnlyByRace, Tiers
<1> QED
  BY <1>8, <1>9, <1>10, <1>11, <1>12, <1>14, <1>15, <1>16 DEF IInv

-----------------------------------------------------------------------------
\* The caches are empty and all callers at rest.
LEMMA InitInv == Init => IInv
<1> SUFFICES ASSUME Init PROVE IInv
  OBVIOUS
<1>1. /\ managed \in BOOLEAN /\ store = [t \in Tiers |-> [s \in Slots |-> Gone]]
      /\ io = [c \in Callers |-> NoCall] /\ failures = 0 /\ app \in Apps
      /\ task = [c \in Callers |-> Idle] /\ data = [k \in Keys |-> 0] /\ inbox = {} /\ calls = 0
      /\ flushed = [s \in Slots |-> 0] /\ excused = [s \in Slots |-> {}]
  BY DEF Init, CacheInit
<1>2. Gone \in [val : Nat, left : Nat \cup {Forever}] /\ Gone.val = 0
  BY DEF Gone
<1>3. app.calls \in Nat /\ 0 \in 0..app.calls /\ 0 \in 0..MaxFailures
  BY <1>1
<1>4. TypeOK
  <2>1. store \in Stores /\ io \in [Callers -> IO]
    BY <1>1, <1>2, NoCallFacts DEF Stores
  <2>2. task \in [Callers -> Task]
    BY <1>1, IdleFacts
  <2> QED
    BY <1>1, <1>3, <2>1, <2>2 DEF TypeOK, CacheTypeOK, Stores, IO
<1>5. LinksInv /\ FlushInv
  BY <1>1, NoCallFacts DEF LinksInv, FlushInv, Flushing, Pending
<1>6. SeenInv
  <2>1. \A s \in Slots : flushed[s] <= data[s[2]]
    BY <1>1, SlotsFacts
  <2>2. \A c \in Callers : task[c].seen <= data[task[c].key]
    BY <1>1, IdleFacts DEF Task
  <2> QED
    BY <1>1, <2>1, <2>2 DEF SeenInv
<1>7. SingleInv /\ StaleOnlyByRace
  BY <1>1, <1>2 DEF SingleInv, StaleOnlyByRace, Tiers
<1>8. CarryInv
  BY <1>1, IdleFacts DEF CarryInv, Carries
<1>9. TasksInv
  BY <1>1, IdleFacts DEF TasksInv, Sound, Announces, Listens
<1> QED
  BY <1>4, <1>5, <1>6, <1>7, <1>8, <1>9 DEF IInv

\* All forms together.
LEMMA StepInv == IInv /\ [Next]_vars => IInv'
<1> SUFFICES ASSUME IInv, [Next]_vars PROVE IInv'
  OBVIOUS
<1>1. CASE UNCHANGED vars
  <2>1. UNCHANGED <<managed, store, io, failures, app, task, data, inbox, calls, flushed, excused>>
    BY <1>1 DEF vars, cacheVars, busVars, history
  <2>2. TypeOK'
    BY <2>1, Frame, TypeFacts, TypeFrom
  <2>3. LinksInv' /\ SeenInv' /\ SingleInv' /\ CarryInv' /\ StaleOnlyByRace'
    BY <2>1 DEF IInv, LinksInv, Pending, SeenInv, SingleInv, CarryInv, Excused, StaleOnlyByRace
  <2>4. FlushInv'
    BY <2>1 DEF IInv, FlushInv, Flushing, Pending, Flushes, Fills, Back, Excused
  <2>5. TasksInv'
    BY <2>1 DEF IInv, TasksInv, Sound, Announces, Listens
  <2> QED
    BY <2>2, <2>3, <2>4, <2>5 DEF IInv
<1>2. CASE Time
  BY <1>2, TimeInv
<1>3. ASSUME NEW c \in Callers, Begin(c) \/ Deliver(c) \/ Run(c) \/ Server(c) \/ Cancel(c) \/ CancelPublish(c)
      PROVE  IInv'
  <2>1. CASE \/ Begin(c) \/ Deliver(c) \/ Reject(c) \/ HandlerFails(c) \/ HooksFail(c) \/ Cancel(c) \/ GetReturns(c)
             \/ Admit(c) \/ HandlerActs(c) \/ Publish(c) \/ Published(c) \/ CancelPublish(c)
    <3>1. \E t \in Task : Steps(c, t)
      BY <2>1, BeginForm, DeliverForm, FailForm, GetForm, AdmitForm, ActForm, PublishForm, PublishedForm,
         CancelPublishForm
    <3> QED
      BY <3>1, StepsInv
  <2>2. CASE Ask(c) \/ HandlerReturns(c) \/ Invalidate(c)
    <3>1. \/ \E t \in Task : Steps(c, t)
          \/ \E t \in Task, op \in {"get", "put", "evict", "clear"}, slots \in SUBSET Slots, val \in Nat,
                ttl \in Nat \cup {Forever} : Asks(c, t, op, slots, val, ttl)
      BY <2>2, AskForm, ReturnForm, InvalidateForm
    <3> QED
      BY <3>1, StepsInv, AsksInv
  <2>3. CASE WriteReturns(c)
    BY <2>3, WriteInv
  <2>4. CASE Server(c)
    BY <2>4, ServerForm, AnswersInv
  <2> QED
    BY <1>3, <2>1, <2>2, <2>3, <2>4 DEF Run
<1> QED
  BY <1>1, <1>2, <1>3 DEF Next

LEMMA Inductive == Spec => []IInv
BY InitInv, StepInv, PTL DEF Spec

(* Tasks, calls, both tiers and the inbox keep their types, for any number *)
(* of callers.                                                             *)
THEOREM TypeCorrect == Spec => []TypeOK
<1>1. IInv => TypeOK
  BY DEF IInv
<1> QED
  BY <1>1, Inductive, PTL

(* After a change and the eviction that follows it an older value is in    *)
(* either tier only if somebody who had read it was overtaken, or if the   *)
(* primary failed to evict it: by no other interleaving of readers,        *)
(* writers, listeners, clears, cancellations and failures                  *)
(* (QueryBus.execute, cache_evict, CacheManager.evict).                    *)
THEOREM StaleOnlyByRaceHolds == Spec => []StaleOnlyByRace
<1>1. IInv => StaleOnlyByRace
  BY DEF IInv
<1> QED
  BY <1>1, Inductive, PTL

(* A command that answers has tried to publish every one of its events, or *)
(* its handler, a hook of it included, has raised, none was tried and the  *)
(* failure is reported; whatever else runs and is cancelled meanwhile      *)
(* (CommandBus._execute, _try_publish_events).                             *)
THEOREM CommandsAnnounceHolds == Spec => []CommandsAnnounce
<1>1. IInv => CommandsAnnounce
  BY DEF IInv, TasksInv, Sound, Announces, CommandsAnnounce
<1> QED
  BY <1>1, Inductive, PTL
=============================================================================
