---------------------------- MODULE Application ----------------------------
(***************************************************************************)
(* An ApplicationContext with what runs beside it.  Its message broker is  *)
(* one of its beans: the context starts and stops the broker among its     *)
(* adapters, wires @message_listener methods to it, and publishers use it  *)
(* all the while.  Its TaskScheduler runs the @scheduled methods of the    *)
(* beans, from the wiring until stop().                                    *)
(***************************************************************************)
EXTENDS ApplicationContext, MessageBroker

CONSTANTS
  Kinds,        \* the kinds of broker to consider
  Cron, Rate, Delay, Initial, MaxActive,  \* see TaskScheduler
  Owner         \* entry -> the class of its bean, and which registration of it

ASSUME EntriesAssumption ==
  /\ Cron \cap Rate = {} /\ Cron \cap Delay = {} /\ Rate \cap Delay = {}
  /\ Initial \subseteq Rate \cup Delay
  /\ MaxActive \in Nat \ {0}
  /\ DOMAIN Owner = Cron \cup Rate \cup Delay

\* A class with a @message_listener method is a handler.
ASSUME ListenersAssumption ==
  \A a \in DOMAIN Programs : \A k \in DOMAIN Programs[a].class :
    "listener" \in Programs[a].class[k].traits => k \in Handlers

VARIABLES found, starter, stopper, ticking, loop, active, cut

Timer == INSTANCE TaskScheduler WITH running <- ticking

timerVars == <<found, starter, stopper, ticking, loop, active, cut>>
applicationVars == <<contextVars, brokerVars, timerVars>>

IsBroker(i) == Broker \in program.supers[ClassOf(beans, i)]

\* start() and stop() of the in-memory broker cannot fail.
Trusted == kind = "memory" /\ phase \in {"adapters", "stopping"} /\ IsBroker(Head(todo))

RegistrationsOf(c, k) == {i \in DOMAIN c.reg : c.reg[i].bean # 0 /\ ClassOf(c, i) = k}

\* discover() looks at a bean once for each of its registrations.
Discovered(c) ==
  {m \in Timer!Entries : Cardinality(RegistrationsOf(c, Owner[m].class)) >= Owner[m].copy}

(* Fault: the scheduler is stopped when the beans are destroyed.           *)
SchedulerLast == phase = "destroying" => Timer!Over

\* stop() comes to the adapters when it is done with the scheduler.
SchedulerFirst == phase = "stopping" => Timer!Over

ApplicationInit == ContextInit /\ BrokerInit(Kinds) /\ Timer!Init

CallBegins ==
  /\ BeginCall /\ SchedulerFirst
  /\ IF phase = "stopping" /\ IsBroker(Head(todo)) THEN StopBroker ELSE UNCHANGED brokerVars
  /\ UNCHANGED timerVars

CallReturns ==
  /\ ReturnCall
  /\ IF phase = "adapters" /\ IsBroker(Head(todo)) THEN StartBroker ELSE UNCHANGED brokerVars
  /\ UNCHANGED timerVars

CallRaises == RaiseCall /\ ~Trusted /\ UNCHANGED <<brokerVars, timerVars>>
CallHangs  == HangCall /\ ~Trusted /\ UNCHANGED <<brokerVars, timerVars>>
CallTimesOut == TimeOutCall /\ ~Trusted /\ UNCHANGED <<brokerVars, timerVars>>

\* A background task is broker.subscribe(topic, method, group).
TaskRuns == RunTask /\ Subscribe(ClassOf(beans, Head(tasks))) /\ UNCHANGED timerVars

Starts == (Configure \/ CreateBeans \/ InvokeRunners \/ Started) /\ UNCHANGED <<brokerVars, timerVars>>
Wires  == Wire /\ Timer!Discover(Discovered(beans)) /\ UNCHANGED brokerVars
StopBegins == Stop /\ Timer!Cancel /\ UNCHANGED brokerVars
Stops  == SchedulerFirst /\ (Destroy \/ Close \/ Closed) /\ UNCHANGED <<brokerVars, timerVars>>

\* start() of the scheduler is the last of the background tasks.
TimerStarts == tasks = <<>> /\ Timer!Start /\ UNCHANGED <<contextVars, brokerVars>>

TimerStops ==
  /\ phase = "stopping"
  /\ Timer!Stop \/ Timer!StopExecutor \/ Timer!Drained \/ Timer!Timeout \/ Timer!TimedOut
  /\ UNCHANGED <<contextVars, brokerVars>>

TimerTicks == Timer!Ticks /\ UNCHANGED <<contextVars, brokerVars>>

Publishing ==
  /\ \E p \in Publishers : Publish(p) \/ HandlerReturns(p) \/ HandlerRaises(p)
  /\ UNCHANGED <<contextVars, timerVars>>

ApplicationNext ==
  \/ Starts \/ Wires \/ StopBegins \/ Stops
  \/ CallBegins \/ CallReturns \/ CallRaises \/ CallHangs \/ CallTimesOut
  \/ TaskRuns \/ Publishing \/ TimerStarts \/ TimerStops \/ TimerTicks

ApplicationSpec == ApplicationInit /\ [][ApplicationNext]_applicationVars

(* wait_for ends; the listeners of the closed event, which are under no    *)
(* timeout, must.  The scheduler's start() has its turn, and so have its   *)
(* loops and the executions that are cancelled.                            *)
StopGoesOn ==
  /\ phase \in Stopping
  /\ \/ Stops \/ TimerStops \/ CallBegins \/ CallTimesOut
     \/ phase # "destroying" /\ CallReturns
ApplicationFairSpec ==
  /\ ApplicationSpec /\ WF_applicationVars(StopGoesOn)
  /\ \A m \in Timer!Entries :
       /\ WF_applicationVars(Timer!Goes(m) /\ UNCHANGED <<contextVars, brokerVars>>)
       /\ WF_applicationVars(Timer!Yields(m) /\ UNCHANGED <<contextVars, brokerVars>>)

-----------------------------------------------------------------------------
(* Types.                                                                  *)
ApplicationTypeOK ==
  /\ phase \in Phases /\ call \in {"no", "open", "hung"}
  /\ \A s \in {todo, adapters, heard, tasks, started, stopped, constructed, destroyed} :
       ToSet(s) \subseteq DOMAIN beans.reg
  /\ kind \in Kinds /\ running \in BOOLEAN /\ publishes \in 0..MaxPublishes
  /\ ToSet(subs) \cup consumed \subseteq Handlers
  /\ \A p \in Publishers : pub[p].calling \in Handlers \cup {Nobody}
  /\ Timer!TypeOK

(* A message never reaches a bean that is not ready: when a handler is     *)
(* called, the @post_construct methods of its bean have returned for every *)
(* registration of the bean, although the broker runs, and beans publish,  *)
(* since before the bean was created.                                      *)
HandlersAreReady ==
  \A p \in Publishers : pub[p].calling # Nobody =>
    \A i \in DOMAIN beans.reg :
      beans.reg[i].bean # 0 /\ ClassOf(beans, i) = pub[p].calling => i \in ToSet(constructed)

(* Nobody subscribes any more once stop() is called, not even a start-up   *)
(* task that had not run yet.                                              *)
NoLateSubscription == [][subs' # subs => phase \notin Stopping \cup {"stopped"}]_applicationVars

(* A @scheduled method runs only while its bean lives: its @post_construct *)
(* has returned, and unless the scheduler's shutdown timed out no adapter  *)
(* has been stopped and no bean destroyed yet, although start() may have   *)
(* failed with the loops already going.                                    *)
JobsHaveTheirBeans ==
  \A m \in Timer!Entries : active[m] > 0 =>
    /\ RegistrationsOf(beans, Owner[m].class) \subseteq ToSet(constructed)
    /\ stopped # <<>> \/ destroyed # <<>> => stopper = "timedout"

(* A cron or fixed-rate method fires again and again until stop() comes to *)
(* the scheduler, whatever its executions and the context's calls do.      *)
KeepsFiring == Timer!KeepsFiring

(* Refuted, see TaskScheduler.                                             *)
RateRunsAlone    == Timer!RateRunsAlone
DelayKeepsFiring == Timer!DelayKeepsFiring
PendingIsAwaited == Timer!PendingIsAwaited

(* Refuted: a bean that is registered twice has two loops for its method,  *)
(* and no delay lies between their executions.                             *)
DelayIsAGap ==
  \A m, n \in Delay : m # n /\ Owner[m].class = Owner[n].class => active[m] = 0 \/ active[n] = 0

(* Refuted: a publish() that is under way when stop() is called goes on to *)
(* call handlers whose @pre_destroy has run.                               *)
HandlersAreAlive ==
  \A p \in Publishers : \A i \in ToSet(destroyed) : ClassOf(beans, i) # pub[p].calling

(* Refuted for the Kafka and RabbitMQ adapters: their start() has run      *)
(* before the listeners are subscribed, and makes no consumer for them.    *)
ListenersConsume ==
  phase = "running" /\ kind = "remote" /\ tasks = <<>> => ToSet(subs) \subseteq consumed

(* Refuted: the application is ready, and its runners run, before the      *)
(* listeners are subscribed.                                               *)
ReadyIsSubscribed == phase = "running" => tasks = <<>>

(* Refuted: a @bean result that is registered under its class and under    *)
(* its return type is started, constructed and destroyed twice.            *)
StartedOnce == \A i, j \in DOMAIN started : beans.reg[started[i]].bean = beans.reg[started[j]].bean => i = j

(* Refuted: a component with start() and stop() is started only if a       *)
(* configuration has needed it by then.                                    *)
AdaptersAreStarted ==
  phase = "running" => \A i \in DOMAIN beans.reg : Has(program, beans, i, "adapter") => i \in ToSet(started)
=============================================================================
