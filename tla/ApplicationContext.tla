------------------------- MODULE ApplicationContext -------------------------
(***************************************************************************)
(* The life of an ApplicationContext: start() through its phases, stop()   *)
(* through the reverse of them, and the subscriptions of @message_listener *)
(* methods that start() leaves to background tasks.                        *)
(*                                                                         *)
(* A phase is a loop that awaits one call after the other (start() of an   *)
(* adapter, @post_construct, an event listener, run(), stop(),             *)
(* @pre_destroy), `todo' is what the loop has still to call.  A call may   *)
(* return, raise, or hang; other tasks run while it is awaited.  What the  *)
(* phases do between two calls is computed by module BeanRegistry.         *)
(*                                                                         *)
(* Beans are meant by their registration, its index in the dict: a bean    *)
(* that is registered under two types is called twice.  A post-processor   *)
(* may replace a bean; the replacement stands for it here.                 *)
(***************************************************************************)
EXTENDS BeanRegistry

CONSTANTS
  Programs,   \* the programs to consider, by name
  Broker      \* the port of the message broker

\* What is computed of a program are containers of the program, and the
\* eager creation of its beans registers nothing; @order is a number.
ASSUME ProgramsAssumption ==
  \A a \in DOMAIN Programs : LET P == Programs[a] IN
    /\ {Scanned(P), Configured(P), Eager(P, Configured(P))} \subseteq Containers(P)
    /\ DOMAIN Eager(P, Configured(P)).reg = DOMAIN Configured(P).reg
    /\ \A k \in DOMAIN P.class : P.class[k].order \in Int

VARIABLES
  app,          \* the name of this application
  beans,        \* the container
  phase,        \* where start() or stop() is
  todo,         \* the registrations it has still to call in this phase
  call,         \* the call it awaits: "no", "open" or "hung"
  adapters,     \* _infrastructure_adapters
  heard,        \* the listeners on the ApplicationEventBus, by @order
  tasks,        \* the subscriptions in _background_tasks that have not run
  started,      \* history: the adapters whose start() returned
  stopped,      \* history: the adapters whose stop() was called
  constructed,  \* history: the registrations whose @post_construct returned
  destroyed     \* history: those whose @pre_destroy was called

contextVars == <<app, beans, phase, todo, call, adapters, heard, tasks,
                 started, stopped, constructed, destroyed>>

program == Programs[app]

Starting == {"adapters", "hooks", "events", "runners"}
Stopping == {"stopping", "destroying", "closing"}
Phases   == {"new", "running", "failed", "stopped"} \cup Starting \cup Stopping

ClassOf(c, i)   == c.made[c.reg[i].bean]
Has(P, c, i, t) == c.reg[i].bean # 0 /\ t \in P.class[ClassOf(c, i)].traits

Having(P, c, t) == {i \in DOMAIN c.reg : Has(P, c, i, t)}

\* The registrations with a bean of some kind, in the order of the dict, and
\* by @order.
With(P, c, t) == Ascending(Having(P, c, t))
Instances(c)  == Ascending({i \in DOMAIN c.reg : c.reg[i].bean # 0})
InOrder(P, c, t) == Arranged(ByOrder(P, c, Having(P, c, t)))

\* _wire_message_listeners() resolves the broker when it meets a listener.
Subscriptions(P, c) ==
  IF Resolved(P, c, Broker).err = "none" THEN With(P, c, "listener") ELSE <<>>

ContextInit ==
  /\ app \in DOMAIN Programs
  /\ beans = Scanned(program)
  /\ phase = "new" /\ call = "no"
  /\ todo = <<>> /\ adapters = <<>> /\ heard = <<>> /\ tasks = <<>>
  /\ started = <<>> /\ stopped = <<>> /\ constructed = <<>> /\ destroyed = <<>>

Histories == <<started, stopped, constructed, destroyed>>

-----------------------------------------------------------------------------
(* start().                                                                *)

(* Steps 0 to 2b, and the list of adapters: beans that exist already.      *)
Configure ==
  /\ phase = "new"
  /\ beans' = Configured(program)
  /\ IF beans'.err # "none"
     THEN phase' = "failed" /\ UNCHANGED <<todo, adapters>>
     ELSE /\ phase' = "adapters"
          /\ adapters' = With(program, beans', "adapter")
          /\ todo' = adapters'
  /\ UNCHANGED <<app, call, heard, tasks, Histories>>

(* Fault: listeners are wired before the lifecycle hooks.                  *)
CreateBeansWires ==
  /\ phase = "adapters" /\ todo = <<>>
  /\ beans' = Eager(program, beans)
  /\ phase' = "hooks" /\ todo' = Instances(beans')
  /\ tasks' = Subscriptions(program, beans')
  /\ UNCHANGED <<app, call, adapters, heard, Histories>>

(* Steps 3 to 5: the adapters run, the other singletons are created.       *)
CreateBeans ==
  /\ phase = "adapters" /\ todo = <<>>
  /\ beans' = Eager(program, beans)
  /\ IF beans'.err # "none"
     THEN phase' = "failed" /\ UNCHANGED todo
     ELSE phase' = "hooks" /\ todo' = Instances(beans')
  /\ UNCHANGED <<app, call, adapters, heard, tasks, Histories>>

(* Steps 6 and 7: one background task per listener method, then the two    *)
(* lifecycle events.                                                       *)
Wire ==
  /\ phase = "hooks" /\ todo = <<>>
  /\ phase' = "events"
  /\ tasks' = Subscriptions(program, beans)
  /\ heard' = InOrder(program, beans, "events")
  /\ todo' = heard' \o heard'
  /\ UNCHANGED <<app, beans, call, adapters, Histories>>

InvokeRunners ==
  /\ phase = "events" /\ todo = <<>>
  /\ phase' = "runners"
  /\ todo' = InOrder(program, beans, "runner")
  /\ UNCHANGED <<app, beans, call, adapters, heard, tasks, Histories>>

Started ==
  /\ phase = "runners" /\ todo = <<>>
  /\ phase' = "running"
  /\ UNCHANGED <<app, beans, todo, call, adapters, heard, tasks, Histories>>

-----------------------------------------------------------------------------
(* stop(), of a context that runs or that did not get through start().     *)

(* Fault: the background tasks are left alone.                             *)
StopTasksRun ==
  /\ phase \in {"running", "failed"}
  /\ phase' = "stopping"
  /\ todo' = Reverse(adapters)
  /\ UNCHANGED <<app, beans, call, adapters, heard, tasks, Histories>>

(* The background tasks are cancelled and awaited: a subscription that has *)
(* not run does not run.                                                   *)
Stop ==
  /\ phase \in {"running", "failed"}
  /\ phase' = "stopping"
  /\ tasks' = <<>>
  /\ todo' = Reverse(adapters)
  /\ UNCHANGED <<app, beans, call, adapters, heard, Histories>>

Destroy ==
  /\ phase = "stopping" /\ todo = <<>>
  /\ phase' = "destroying"
  /\ todo' = Reverse(Instances(beans))
  /\ UNCHANGED <<app, beans, call, adapters, heard, tasks, Histories>>

Close ==
  /\ phase = "destroying" /\ todo = <<>>
  /\ phase' = "closing"
  /\ todo' = heard
  /\ UNCHANGED <<app, beans, call, adapters, heard, tasks, Histories>>

Closed ==
  /\ phase = "closing" /\ todo = <<>>
  /\ phase' = "stopped"
  /\ UNCHANGED <<app, beans, todo, call, adapters, heard, tasks, Histories>>

-----------------------------------------------------------------------------
(* One call of the current phase.                                          *)

BeginCall ==
  /\ todo # <<>> /\ call = "no"
  /\ call' = "open"
  /\ stopped' = IF phase = "stopping" THEN Append(stopped, Head(todo)) ELSE stopped
  /\ destroyed' = IF phase = "destroying" THEN Append(destroyed, Head(todo)) ELSE destroyed
  /\ UNCHANGED <<app, beans, phase, todo, adapters, heard, tasks, started, constructed>>

ReturnCall ==
  /\ call = "open"
  /\ call' = "no"
  /\ todo' = Tail(todo)
  /\ started' = IF phase = "adapters" THEN Append(started, Head(todo)) ELSE started
  /\ constructed' = IF phase = "hooks" THEN Append(constructed, Head(todo)) ELSE constructed
  /\ UNCHANGED <<app, beans, phase, adapters, heard, tasks, stopped, destroyed>>

(* Fault: an exception of @pre_destroy ends stop().                        *)
ForgivingNot == {"stopping"}

(* The phases in which an exception of a call is logged and dropped; in    *)
(* the others it ends start() or, from a listener of the closed event,     *)
(* stop().                                                                 *)
Forgiving    == {"stopping", "destroying"}

RaiseCall ==
  /\ call = "open"
  /\ call' = "no"
  /\ IF phase \in Forgiving THEN todo' = Tail(todo) /\ UNCHANGED phase
     ELSE /\ todo' = <<>>
          /\ phase' = IF phase \in Starting THEN "failed" ELSE "stopped"
  /\ UNCHANGED <<app, beans, adapters, heard, tasks, Histories>>

HangCall ==
  /\ call = "open" /\ phase # "closing"
  /\ call' = "hung"
  /\ UNCHANGED <<app, beans, phase, todo, adapters, heard, tasks, Histories>>

(* Fault: stop() of an adapter is awaited without a timeout.               *)
LimitedNot == {"destroying"}

(* The phases under wait_for(..., shutdown-timeout).                       *)
Limited    == {"stopping", "destroying"}

TimeOutCall ==
  /\ call \in {"open", "hung"} /\ phase \in Limited
  /\ call' = "no"
  /\ todo' = Tail(todo)
  /\ UNCHANGED <<app, beans, phase, adapters, heard, tasks, Histories>>

(* The first background task runs to its end.                              *)
RunTask ==
  /\ tasks # <<>>
  /\ tasks' = Tail(tasks)
  /\ UNCHANGED <<app, beans, phase, todo, call, adapters, heard, Histories>>

-----------------------------------------------------------------------------
(* The program's shutdown: every call of the stop phases is over, whatever *)
(* hangs or raises.                                                        *)
StopEnds == phase \in Stopping ~> phase = "stopped"

(* stop() undoes start(), in reverse: the adapters that were started are   *)
(* stopped once, last to first, after all the others, and so are the hooks *)
(* undone, although any of the calls may raise or hang and start() may     *)
(* have failed in the middle (the loops of stop() over                     *)
(* _infrastructure_adapters and the registrations).                        *)
Undone(done, undone) ==
  /\ Len(done) <= Len(undone)
  /\ \A n \in DOMAIN done : undone[Len(undone) + 1 - n] = done[n]
  /\ \A n \in 1..(Len(undone) - Len(done)) : undone[n] \notin ToSet(done)
ShutdownMirrorsStartup ==
  phase \in {"closing", "stopped"} => Undone(started, stopped) /\ Undone(constructed, destroyed)
=============================================================================
