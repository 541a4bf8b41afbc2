-------------------------------- MODULE Cqrs --------------------------------
(***************************************************************************)
(* The command bus and the query bus around one cache: what a query finds  *)
(* cached, what removes it when a command has changed the data, and what a *)
(* command announces.  Functions decorated with @cacheable, @cache_put and *)
(* @cache_evict use the same cache.                                        *)
(*                                                                         *)
(* Callers are tasks: requests that send a command or a query or call a    *)
(* decorated function, and the listener that hands a domain event to the   *)
(* EventDrivenCacheInvalidator.  A task is cut at its awaits: the pipeline *)
(* before the handler, the handler's access to the data, the hooks after   *)
(* it, each call of the cache, each publish.  The data are versions of an  *)
(* object for each key; version 0 does not exist, a handler returns None.  *)
(*                                                                         *)
(* The key "k" of a query is stored under ":cqrs::cqrs:k", as the bus and  *)
(* the QueryCacheAdapter both add the prefix: the slot <<2, k>>.           *)
(***************************************************************************)
EXTENDS Cache, Sequences, FiniteSetsExt

CONSTANTS
  Keys,
  Events,       \* the types of the domain_events of a command, in order
  Rules,        \* type -> the prefixes written in its invalidation patterns
  QueryTtl,     \* the ttl of the handler, or else default_cache_ttl
  FunctionTtl,  \* the ttl given to @cacheable and @cache_put, or Forever
  Apps          \* [kinds of requests, managed cache, strategy] of the applications to consider;
                \* bound: calls, the commands, queries and calls of functions in one of them

VARIABLES
  app,        \* the application
  task,       \* caller -> what it is doing
  data,       \* key -> the version of the object
  inbox,      \* the events published and not yet delivered
  calls,
  flushed,    \* history: slot -> the version all earlier ones of which were to leave the cache
  excused     \* history: slot -> the versions that may be there all the same

history == <<flushed, excused>>
busVars == <<app, task, data, inbox, calls>>
vars    == <<cacheVars, busVars, history>>

Queries   == {"query", "uncached"}
Readers   == {"query", "cacheable"}
Functions == {"cacheable", "put", "evict", "evictAll"}
Writers   == {"command", "put", "evict", "evictAll"}
Kinds     == Queries \cup Writers \cup Functions \cup {"clear", "clearAll"}

QuerySlot(k)    == <<2, k>>   \* the bus and the adapter add their prefix
AdapterSlot(k)  == <<1, k>>   \* clear_cache(k): the adapter adds its own
FunctionSlot(k) == <<0, k>>   \* the key of a decorator as it is written

ASSUME CqrsAssumption ==
  /\ Apps \subseteq [kinds : SUBSET Kinds, managed : BOOLEAN, strategy : {"LOG", "RAISE"}, calls : Nat]
  /\ Keys # {} /\ Slots = (0..2) \X Keys
  /\ Rules \in [{Events[i] : i \in DOMAIN Events} -> Seq(0..1)] /\ Events \in Seq(DOMAIN Rules)
  /\ QueryTtl \in Nat \cup {Forever} /\ FunctionTtl \in Nat \cup {Forever}

Idle == [kind |-> "none", key |-> CHOOSE k \in Keys : TRUE, pc |-> "done", seen |-> 0,
         ok |-> TRUE, next |-> 1, lost |-> FALSE, event |-> "none"]

SlotOf(t) == IF t.kind = "query" THEN QuerySlot(t.key) ELSE FunctionSlot(t.key)

\* Fault: a query is cached without a ttl.
TtlOfNone(t) == FunctionTtl
TtlOf(t) == IF t.kind = "query" THEN QueryTtl ELSE FunctionTtl

(* What a task carries on its way into a slot.                             *)
Carries(t, s) == /\ t.kind \in Readers \cup {"put"}
                 /\ t.pc \in {"hooks", "put"}
                 /\ SlotOf(t) = s
Rivals(c, s)  == {task[d].seen : d \in {d \in Callers \ {c} : Carries(task[d], s)}}

Init ==
  /\ CacheInit
  /\ app \in Apps /\ managed = app.managed
  /\ task = [c \in Callers |-> Idle]
  /\ data = [k \in Keys |-> 0]
  /\ inbox = {}
  /\ calls = 0
  /\ flushed = [s \in Slots |-> 0]
  /\ excused = [s \in Slots |-> {}]

Move(c, pc)  == task' = [task EXCEPT ![c].pc = pc]

\* What becomes of a command is remembered until the task does something else.
Finish(c, b) ==
  task' = [task EXCEPT ![c] = IF @.kind = "command"
                              THEN [@ EXCEPT !.pc = "done", !.ok = b, !.seen = 0] ELSE Idle]

(* Caller c, about to be in state t, calls the cache.  A call that writes  *)
(* may be overtaken by a caller that carries an older value.               *)
Await(c, t, op, slots, val, ttl) ==
  /\ task' = [task EXCEPT ![c] = t]
  /\ io' = [io EXCEPT ![c] = Call(op, slots, val, ttl)]
  /\ excused' = [s \in Slots |-> IF s \in slots /\ op # "get" THEN excused[s] \cup Rivals(c, s)
                                 ELSE excused[s]]

-----------------------------------------------------------------------------
(* A request begins.  For a bus: correlation, validation, authorization    *)
(* and the look-up of the handler come first; the request is rejected, or  *)
(* goes on.  A query looks into the cache if it and its handler allow it.  *)
Begin(c) ==
  /\ task[c].pc = "done" /\ calls < app.calls
  /\ calls' = calls + 1
  /\ \E kind \in app.kinds, k \in Keys :
       task' = [task EXCEPT ![c] =
         [Idle EXCEPT !.kind = kind, !.key = k,
                      !.pc = IF kind \in Queries \cup {"command"} THEN "admit"
                             ELSE IF kind \in {"cacheable", "clear", "clearAll"} THEN "ask"
                             ELSE "handle"]]
  /\ UNCHANGED <<cacheVars, app, data, inbox, history>>

Reject(c) ==
  /\ task[c].pc = "admit"
  /\ Finish(c, FALSE)
  /\ UNCHANGED <<cacheVars, app, data, inbox, calls, history>>

Admit(c) ==
  /\ task[c].pc = "admit"
  /\ Move(c, IF task[c].kind = "query" THEN "ask" ELSE "handle")
  /\ UNCHANGED <<cacheVars, app, data, inbox, calls, history>>

(* The look into the cache; clear_cache(key), clear_all_cache().           *)
Ask(c) ==
  /\ task[c].pc = "ask"
  /\ LET t == [task[c] EXCEPT !.pc = "cache", !.seen = data[task[c].key]] IN
     \/ t.kind \in Readers  /\ Await(c, [task[c] EXCEPT !.pc = "cache"], "get", {SlotOf(t)}, 0, 0)
     \/ t.kind = "clear"    /\ Await(c, t, "evict", {AdapterSlot(t.key)}, 0, 0)
     \/ t.kind = "clearAll" /\ Await(c, t, "clear", Slots, 0, 0)
  /\ UNCHANGED <<managed, store, failures, app, data, inbox, calls, flushed>>

(* get() returns: a hit ends the call, anything else runs the handler.  A  *)
(* cache that raises is a miss for the bus, and ends a decorated call.     *)
GetReturns(c) ==
  /\ task[c].pc = "cache" /\ Back(c) /\ io[c].op = "get"
  /\ IF Raises(c) /\ task[c].kind \in Functions THEN Finish(c, FALSE)
     ELSE IF Answer(c) # 0 THEN Finish(c, TRUE)
     ELSE Move(c, "handle")
  /\ io' = [io EXCEPT ![c] = NoCall]
  /\ UNCHANGED <<managed, store, failures, app, data, inbox, calls, history>>

(* pre_process() and do_handle(), or the decorated function: it reads or   *)
(* changes the data, or raises before.                                     *)
HandlerFails(c) ==
  /\ task[c].pc = "handle"
  /\ Finish(c, FALSE)
  /\ UNCHANGED <<cacheVars, app, data, inbox, calls, history>>

HandlerActs(c) ==
  /\ task[c].pc = "handle"
  /\ LET k == task[c].key IN
       /\ data' = IF task[c].kind \in Writers THEN [data EXCEPT ![k] = @ + 1] ELSE data
       /\ task' = [task EXCEPT ![c].pc = "hooks", ![c].seen = data'[k]]
  /\ UNCHANGED <<cacheVars, app, inbox, calls, history>>

(* post_process(), on_success(): one of them may raise after the effect.   *)
HooksFail(c) ==
  /\ task[c].pc = "hooks" /\ task[c].kind \in Queries \cup {"command"}
  /\ Finish(c, FALSE)
  /\ UNCHANGED <<cacheVars, app, data, inbox, calls, history>>

(* The result goes into the cache, or the old one out of it; a command has *)
(* its events to publish.                                                  *)
HandlerReturns(c) ==
  /\ task[c].pc = "hooks"
  /\ LET t == [task[c] EXCEPT !.pc = "put"]
         e == [task[c] EXCEPT !.pc = "cache"]
     IN \/ t.kind \in Readers \cup {"put"} /\ Await(c, t, "put", {SlotOf(t)}, t.seen, TtlOf(t))
        \/ t.kind = "evict"    /\ Await(c, e, "evict", {SlotOf(t)}, 0, 0)
        \/ t.kind = "evictAll" /\ Await(c, e, "clear", Slots, 0, 0)
        \/ t.kind = "uncached" /\ Finish(c, TRUE) /\ UNCHANGED <<io, excused>>
        \/ t.kind = "command"  /\ Move(c, "publish") /\ UNCHANGED <<io, excused>>
  /\ UNCHANGED <<managed, store, failures, app, data, inbox, calls, flushed>>

(* put(), evict() or clear() returns.  The adapter of the bus swallows     *)
(* what the cache raises, a decorator does not.  The listener goes on with *)
(* its next pattern.                                                       *)
Fills(c)   == task[c].kind \in Readers
Flushes(c) == IF Fills(c) THEN {} ELSE {s \in io[c].slots : s[2] = task[c].key}
Older(s)   == {store.primary[s].val} \ {0}

Written(c, mirrored) ==
  /\ task[c].pc \in {"cache", "put"} /\ Back(c) /\ io[c].op # "get"
  /\ store' = mirrored
  /\ IF task[c].kind = "listener" THEN task' = [task EXCEPT ![c].pc = "listen", ![c].next = @ + 1]
     ELSE Finish(c, ~(Raises(c) /\ task[c].kind \in Functions))
  /\ flushed' = [s \in Slots |-> IF s \in Flushes(c) THEN Max({flushed[s], task[c].seen}) ELSE flushed[s]]
  /\ excused' = [s \in Slots |-> IF s \in Flushes(c) /\ io[c].failed THEN excused[s] \cup Older(s) ELSE excused[s]]
  /\ io' = [io EXCEPT ![c] = NoCall]
  /\ UNCHANGED <<managed, failures, app, data, inbox, calls>>

WriteReturns(c) == Written(c, Mirrored(c))

(* _try_publish_events(): the events one after the other; one that cannot  *)
(* be published does not keep the others.                                  *)
Event(c) == [type |-> Events[task[c].next], key |-> task[c].key, seen |-> task[c].seen]

\* Fault: the first event that cannot be published ends the loop.
PublishStops(c) ==
  /\ task[c].pc = "publish" /\ task[c].next <= Len(Events)
  /\ \/ /\ inbox' = inbox \cup {Event(c)}
        /\ task' = [task EXCEPT ![c].next = @ + 1]
     \/ /\ task' = [task EXCEPT ![c].lost = TRUE, ![c].pc = "done", ![c].ok = app.strategy = "LOG"]
        /\ UNCHANGED inbox
  /\ UNCHANGED <<cacheVars, app, data, calls, history>>

Publish(c) ==
  /\ task[c].pc = "publish" /\ task[c].next <= Len(Events)
  /\ \/ /\ inbox' = inbox \cup {Event(c)}
        /\ task' = [task EXCEPT ![c].next = @ + 1]
     \/ /\ task' = [task EXCEPT ![c].next = @ + 1, ![c].lost = TRUE]
        /\ UNCHANGED inbox
  /\ UNCHANGED <<cacheVars, app, data, calls, history>>

Published(c) ==
  /\ task[c].pc = "publish" /\ task[c].next > Len(Events)
  /\ Finish(c, ~(task[c].lost /\ app.strategy = "RAISE"))
  /\ UNCHANGED <<cacheVars, app, data, inbox, calls, history>>

(* on_event(): the patterns registered for the type of the event, one      *)
(* after the other.                                                        *)
Deliver(c) ==
  /\ task[c].pc = "done"
  /\ \E e \in inbox :
       /\ inbox' = inbox \ {e}
       /\ task' = [task EXCEPT ![c] = [Idle EXCEPT !.kind = "listener", !.key = e.key, !.pc = "listen",
                                                   !.seen = e.seen, !.event = e.type]]
  /\ UNCHANGED <<cacheVars, app, data, calls, history>>

Invalidate(c) ==
  /\ task[c].pc = "listen"
  /\ LET t == task[c] IN
       IF t.next > Len(Rules[t.event]) THEN Finish(c, TRUE) /\ UNCHANGED <<io, excused>>
       ELSE Await(c, [t EXCEPT !.pc = "cache"], "evict", {<<1 + Rules[t.event][t.next], t.key>>}, 0, 0)
  /\ UNCHANGED <<managed, store, failures, app, data, inbox, calls, flushed>>

(* A request that is cancelled while it awaits the cache: CancelledError   *)
(* is not an Exception, and nobody goes on with the fallback.              *)
Cancel(c) ==
  /\ io[c].at # "no" /\ failures < MaxFailures
  /\ failures' = failures + 1
  /\ io' = [io EXCEPT ![c] = NoCall]
  /\ Finish(c, FALSE)
  /\ UNCHANGED <<managed, store, app, data, inbox, calls, history>>

Server(c) == (Serve(c) \/ Refuse(c)) /\ UNCHANGED <<busVars, history>>
Time      == Tick /\ UNCHANGED <<busVars, history>>

(* A command that is cancelled while it publishes: the event under way may *)
(* be out, those after it are not tried, and nobody gets an answer.        *)
CancelPublish(c) ==
  /\ task[c].pc = "publish" /\ task[c].next <= Len(Events) /\ failures < MaxFailures
  /\ failures' = failures + 1
  /\ inbox' \in {inbox, inbox \cup {Event(c)}}
  /\ task' = [task EXCEPT ![c] = Idle]
  /\ UNCHANGED <<managed, store, io, app, data, calls, history>>

Run(c) ==
  \/ Reject(c) \/ Admit(c) \/ Ask(c) \/ GetReturns(c) \/ HandlerFails(c) \/ HandlerActs(c) \/ HooksFail(c)
  \/ HandlerReturns(c) \/ WriteReturns(c) \/ Publish(c) \/ Published(c) \/ Invalidate(c)

Next == Time \/ \E c \in Callers : Begin(c) \/ Deliver(c) \/ Run(c) \/ Server(c) \/ Cancel(c) \/ CancelPublish(c)
Spec == Init /\ [][Next]_vars

(* Time passes, the server answers or the call fails, and tasks run.       *)
FairSpec == Spec /\ WF_vars(Time) /\ \A c \in Callers : WF_vars(Run(c)) /\ WF_vars(Server(c))

-----------------------------------------------------------------------------
(* Types.                                                                  *)
Task == [kind : Kinds \cup {"none", "listener"}, key : Keys,
         pc : {"done", "admit", "ask", "cache", "handle", "hooks", "put", "publish", "listen"},
         seen : Nat, ok : BOOLEAN, next : Nat \ {0}, lost : BOOLEAN,
         event : {"none"} \cup {Events[i] : i \in DOMAIN Events}]
TypeOK ==
  /\ CacheTypeOK
  /\ app \in Apps
  /\ task \in [Callers -> Task]
  /\ data \in [Keys -> Nat] /\ calls \in 0..app.calls
  /\ inbox \subseteq [type : {Events[i] : i \in DOMAIN Events}, key : Keys, seen : Nat]
  /\ flushed \in [Slots -> Nat] /\ excused \in [Slots -> SUBSET Nat]

(* Once a change has been followed by the eviction, or the @cache_put, of  *)
(* an entry, an older value is in either tier only if a caller that had    *)
(* read it was overtaken by the eviction, or if the primary failed to      *)
(* evict it.  This is all that "evict after the function" and the two-tier *)
(* evict() of CacheManager promise.                                        *)
StaleOnlyByRace ==
  \A t \in Tiers, s \in Slots :
    LET v == store[t][s].val IN v # 0 /\ v < flushed[s] => v \in excused[s]

(* A stale answer of a query does not stay cached for ever, whatever       *)
(* races or failures put it there: every entry of the bus has a ttl, which *)
(* a hit does not renew.                                                   *)
Stale(t, s) == store[t][s].val \notin {0, data[s[2]]}
StaleExpires ==
  \A t \in Tiers, k \in Keys : Stale(t, QuerySlot(k)) ~> ~Stale(t, QuerySlot(k))

(* A command that answers has tried to publish each of its events once and *)
(* in order, whichever of them failed, and reports a failure of one only   *)
(* under RAISE; or its handler raised, perhaps in a hook after the effect, *)
(* which is reported, and none was tried (_try_publish_events).            *)
CommandsAnnounce ==
  \A c \in Callers : LET t == task[c] IN
    t.kind = "command" /\ t.pc = "done" =>
      \/ t.next = Len(Events) + 1 /\ (t.ok <=> ~(t.lost /\ app.strategy = "RAISE"))
      \/ t.next = 1 /\ ~t.ok /\ ~t.lost

(* A command that took effect and is not cancelled has tried its events    *)
(* when it answers ("publishes domain events after handler execution");    *)
(* refuted: a hook of the handler that raises after the effect keeps them. *)
EffectsAreAnnounced ==
  [][\A c \in Callers :
       task[c].kind = "command" /\ task[c].seen # 0 /\ task'[c].kind = "command" /\ task'[c].pc = "done"
         => task'[c].next = Len(Events) + 1]_vars

(* When the cache has taken the call of clear_cache(key), it holds nothing *)
(* for the query with that key; refuted: the call evicts another slot, the *)
(* bus having added its prefix only where it reads and fills.              *)
ClearCacheClears ==
  [][\A c \in Callers :
       task[c].kind = "clear" /\ io[c].at = "sent" /\ io'[c].at = "back" /\ ~io'[c].failed
         => store'.primary[QuerySlot(task[c].key)].val = 0]_vars

(* "The fallback is always warm because every write is mirrored": what the *)
(* primary holds the fallback holds, when no call is under way; refuted.   *)
FallbackIsWarm ==
  managed /\ (\A c \in Callers : io[c] = NoCall) =>
    \A s \in Slots : store.primary[s] # Gone => store.fallback[s].val = store.primary[s].val
=============================================================================
