---------------------------- MODULE TaskScheduler ----------------------------
(***************************************************************************)
(* TaskScheduler: one loop task per entry, which is a @scheduled method of *)
(* a bean, the executions the loops submit to AsyncIOTaskExecutor, and the *)
(* shutdown, in which ApplicationContext.stop stops them all under a       *)
(* timeout.  Module Application composes these actions with the context's. *)
(*                                                                         *)
(* A sleep may end at any time; an execution may end, raise or hang until  *)
(* it is cancelled, and may swallow its cancellation.                      *)
(***************************************************************************)
EXTENDS Integers

CONSTANTS
  Cron, Rate, Delay,  \* the entries there can be, by their trigger
  Initial,            \* those with an initial_delay
  MaxActive           \* bound: executions of one entry at a time

Entries == Cron \cup Rate \cup Delay

VARIABLES
  found,    \* _entries
  starter,  \* the background task that runs start()
  stopper,  \* where ApplicationContext.stop is with the scheduler
  running,  \* _running
  loop,     \* where the loop of each entry is
  active,   \* executions of each entry that have not ended
  cut       \* history: entries an execution of which was cancelled

vars == <<found, starter, stopper, running, loop, active, cut>>

Alive == {"created", "initial", "sleeping", "awaiting", "cancelling"}

Init ==
  /\ found = {}
  /\ starter = "none"
  /\ stopper = "no"
  /\ running = FALSE
  /\ loop = [m \in Entries |-> "none"]
  /\ active = [m \in Entries |-> 0]
  /\ cut = {}

(* _wire_scheduled(): discover(), and a task for start() if there is any. *)
Discover(entries) ==
  /\ found' = entries
  /\ starter' = IF entries = {} THEN "none" ELSE "pending"
  /\ UNCHANGED <<stopper, running, loop, active, cut>>

(* start(). *)
Start ==
  /\ starter = "pending"
  /\ starter' = "done"
  /\ running' = TRUE
  /\ loop' = [m \in Entries |-> IF m \in found THEN "created" ELSE "none"]
  /\ UNCHANGED <<found, stopper, active, cut>>

(* The first step of a loop, when it is to wait before it fires. *)
Enter(m) ==
  /\ loop[m] = "created" /\ m \in Cron \cup Initial
  /\ loop' = [loop EXCEPT ![m] = IF m \in Cron THEN "sleeping" ELSE "initial"]
  /\ UNCHANGED <<found, starter, stopper, running, active, cut>>

Due(m) ==
  \/ loop[m] = "created" /\ m \notin Cron \cup Initial
  \/ loop[m] \in {"initial", "sleeping"}

(* Fault: no loop waits for what it has submitted. *)
AfterSubmitNoWait(m) == "sleeping"

(* Fault: every loop does. *)
AfterSubmitWait(m) == "awaiting"

(* A fixed-delay loop awaits the task it submitted, the others do not. *)
AfterSubmit(m) == IF m \in Delay THEN "awaiting" ELSE "sleeping"

Fire(m) ==
  /\ Due(m) /\ running
  /\ active[m] < MaxActive
  /\ active' = [active EXCEPT ![m] = @ + 1]
  /\ loop' = [loop EXCEPT ![m] = AfterSubmit(m)]
  /\ UNCHANGED <<found, starter, stopper, running, cut>>

Ends(m) ==
  /\ active[m] > 0
  /\ active' = [active EXCEPT ![m] = @ - 1]
  /\ UNCHANGED <<found, starter, stopper, running>>

(* A loop that awaits the execution goes on, unless the scheduler stops. *)
Returns(m) ==
  /\ Ends(m)
  /\ loop' = [loop EXCEPT ![m] =
       CASE @ = "awaiting"   -> IF running THEN "sleeping" ELSE "ended"
         [] @ = "cancelling" -> "ended"
         [] OTHER            -> @]
  /\ UNCHANGED cut

(* The exception leaves the loop that awaits the execution; the task of    *)
(* the others keeps it to itself.                                          *)
Raises(m) ==
  /\ Ends(m)
  /\ loop' = [loop EXCEPT ![m] = IF @ \in {"awaiting", "cancelling"} THEN "dead" ELSE @]
  /\ UNCHANGED cut

(* Cancellation of an execution: through the loop that awaits it, or when  *)
(* the shutdown times out while the executor is drained.                   *)
CutOff(m) ==
  /\ loop[m] = "cancelling" \/ stopper = "aborting"
  /\ Ends(m)
  /\ loop' = [loop EXCEPT ![m] = IF @ = "cancelling" THEN "ended" ELSE @]
  /\ cut' = cut \cup {m}

(* ApplicationContext.stop cancels a start() that has not run yet. *)
StopStarter == IF starter = "pending" THEN "cancelled" ELSE starter

(* Fault: loops are left to see that _running is FALSE. *)
StoppedLoopLeft(m) == loop[m]

(* Cancelling a loop that awaits an execution cancels the execution. *)
StoppedLoop(m) ==
  CASE loop[m] = "awaiting" -> "cancelling"
    [] loop[m] \in Alive \ {"awaiting"} -> "ended"
    [] OTHER -> loop[m]

Cancel ==
  /\ starter' = StopStarter
  /\ UNCHANGED <<found, stopper, running, loop, active, cut>>

Stop ==
  /\ starter # "none" /\ stopper = "no"
  /\ stopper' = "loops"
  /\ running' = FALSE
  /\ loop' = [m \in Entries |-> StoppedLoop(m)]
  /\ UNCHANGED <<found, starter, active, cut>>

LoopsEnded == \A m \in Entries : loop[m] \notin Alive

(* All loops are gathered; the executor waits for what it has. *)
StopExecutor ==
  /\ stopper = "loops" /\ LoopsEnded
  /\ stopper' = "drain"
  /\ UNCHANGED <<found, starter, running, loop, active, cut>>

(* Fault: the executor does not wait. *)
DrainedAtOnce ==
  /\ stopper = "drain"
  /\ stopper' = "stopped"
  /\ UNCHANGED <<found, starter, running, loop, active, cut>>

Drained ==
  /\ stopper = "drain" /\ \A m \in Entries : active[m] = 0
  /\ stopper' = "stopped"
  /\ UNCHANGED <<found, starter, running, loop, active, cut>>

(* wait_for cancels stop(), whose gather passes the cancellation on and    *)
(* still waits for what it gathered.                                       *)
Timeout ==
  /\ stopper \in {"loops", "drain"}
  /\ stopper' = IF stopper = "drain" THEN "aborting" ELSE "abandoning"
  /\ UNCHANGED <<found, starter, running, loop, active, cut>>

TimedOut ==
  /\ \/ stopper = "aborting" /\ \A m \in Entries : active[m] = 0
     \/ stopper = "abandoning" /\ LoopsEnded
  /\ stopper' = "timedout"
  /\ UNCHANGED <<found, starter, running, loop, active, cut>>

(* The context's stop() is done with the scheduler, if there is one. *)
Over == starter = "none" \/ stopper \in {"stopped", "timedout"}

Ticks == \E m \in Entries : Enter(m) \/ Fire(m) \/ Returns(m) \/ Raises(m) \/ CutOff(m)

(* The event loop runs what is ready, sleeps end, and what is cancelled    *)
(* ends; that an execution ends by itself is nowhere assumed.              *)
Goes(m) == Enter(m) \/ Fire(m)
Yields(m) ==
  /\ loop[m] = "cancelling" \/ stopper = "aborting"
  /\ Returns(m) \/ Raises(m) \/ CutOff(m)

-----------------------------------------------------------------------------
(* Types of the scheduler's and the shutdown's state. *)
TypeOK ==
  /\ found \subseteq Entries
  /\ starter \in {"none", "pending", "done", "cancelled"}
  /\ stopper \in {"no", "loops", "drain", "aborting", "abandoning",
                  "stopped", "timedout"}
  /\ running \in BOOLEAN
  /\ loop \in [Entries -> Alive \cup {"none", "ended", "dead"}]
  /\ active \in [Entries -> 0..MaxActive]
  /\ cut \subseteq Entries

(* Once stop() is called no loop starts and nothing fires, and when it has *)
(* returned without a timeout nothing of the scheduler is left.            *)
StoppedIsQuiet ==
  stopper = "stopped" =>
    /\ ~running /\ starter # "pending" /\ LoopsEnded
    /\ \A m \in Entries : active[m] = 0

(* A cron or fixed-rate loop keeps firing whatever its executions do.      *)
KeepsFiring ==
  \A m \in Cron \cup Rate :
    running /\ m \in found /\ active[m] = 0 ~> active[m] > 0 \/ stopper # "no"

(* Refuted; fixed_rate: "there is no overlap". *)
RateRunsAlone == \A m \in Rate : active[m] <= 1

(* Refuted; fixed_delay: "Runs the method repeatedly". *)
DelayKeepsFiring ==
  \A m \in Delay : loop[m] = "awaiting" ~> loop[m] = "sleeping" \/ stopper # "no"

(* Refuted; "Always waits for pending tasks to complete": unless the       *)
(* shutdown times out, no execution is cut off.                            *)
PendingIsAwaited == stopper \notin {"aborting", "abandoning", "timedout"} => cut = {}
=============================================================================
