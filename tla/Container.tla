----------------------------- MODULE Container -----------------------------
(***************************************************************************)
(* The dependency injection container while several threads resolve beans  *)
(* from it: handlers that run in executor threads, cpu_bound saga steps    *)
(* and the event loop share one Container after start-up.                  *)
(*                                                                         *)
(* A thread may be preempted anywhere, so an action is one access to what  *)
(* the threads share: a registration's instance, the RLock, the record     *)
(* _resolving of what is under construction.  A call of resolve() is a     *)
(* frame on the stack of its thread; a bean is its class and the number of *)
(* its construction.                                                       *)
(*                                                                         *)
(* What is registered and bound does not change any more.  A list[T]       *)
(* parameter is one point of mode "each" for every implementation of T;    *)
(* an Autowired field is a point like a parameter, filled when the bean    *)
(* is constructed.                                                         *)
(***************************************************************************)
EXTENDS Naturals, Sequences

CONSTANTS
  Threads,
  Classes,     \* the keys of _registrations
  Scope,       \* class -> "SINGLETON", "TRANSIENT" or "REQUEST"
  Types,       \* what may be asked for: classes and interfaces
  Bindings,    \* type -> the implementations bound to it, in order
  Primary,     \* the classes marked @primary
  Params,      \* class -> the parameters of its __init__
  Fields,      \* class -> its Autowired fields
  InRequest,   \* the threads with an active RequestContext
  MaxCalls,    \* bound: calls of resolve() by one thread
  None         \* no class, no thread

Points == [of : Types, mode : {"required", "default", "optional", "each"}]

ASSUME ContainerAssumption ==
  /\ Classes \subseteq Types
  /\ Scope \in [Classes -> {"SINGLETON", "TRANSIENT", "REQUEST"}]
  /\ Bindings \in [Types -> Seq(Types)]
  /\ Primary \subseteq Classes
  /\ Params \in [Classes -> Seq(Points)] /\ Fields \in [Classes -> Seq(Points)]
  /\ InRequest \subseteq Threads
  /\ None \notin Types \cup Threads

Singletons == {c \in Classes : Scope[c] = "SINGLETON"}
Errors     == {"noSuch", "noUnique", "cycle", "keyError", "noRequest"}

VARIABLES
  instance,   \* class -> Registration.instance, 0 for None
  requested,  \* thread -> class -> the bean kept in its RequestContext, or 0
  built,      \* class -> how often its constructor has run
  resolving,  \* _resolving
  lock,       \* [owner, depth] of the RLock
  stack,      \* thread -> its frames, innermost last
  raised,     \* thread -> the exception that is propagating, or "none"
  calls,      \* thread -> its calls so far
  handed      \* history: class -> the beans that anyone was given

beanVars == <<instance, requested, built, handed>>
vars     == <<beanVars, resolving, lock, stack, raised, calls>>

Frame == [cls : Classes, pc : {"look", "lock", "recheck", "check", "mark", "fill", "unmark", "set"},
          at : Nat, bean : Nat]

Depth(t) == Len(stack[t])
Top(t)   == stack[t][Depth(t)]
At(t, p) == Depth(t) > 0 /\ raised[t] = "none" /\ Top(t).pc = p

(* resolve(): the registration of the type itself, else its only binding,  *)
(* else the first binding that is @primary.                                *)
Registered(c) == IF c \in Classes THEN [cls |-> c, fails |-> "none"]
                                  ELSE [cls |-> None, fails |-> "keyError"]
Lookup(type) ==
  LET impls   == Bindings[type]
      primary == {i \in DOMAIN impls : impls[i] \in Primary}
  IN  IF type \in Classes   THEN Registered(type)
      ELSE IF impls = <<>>  THEN [cls |-> None, fails |-> "noSuch"]
      ELSE IF Len(impls) = 1 THEN Registered(impls[1])
      ELSE IF primary # {}  THEN Registered(impls[CHOOSE i \in primary : \A j \in primary : i <= j])
      ELSE [cls |-> None, fails |-> "noUnique"]

Target(p) == IF p.mode = "each" THEN Registered(p.of) ELSE Lookup(p.of)

(* _create_instance() and _resolve_param(): an exception at a point is     *)
(* swallowed by a default, by Optional or by required=False, if it says    *)
(* that there is no bean or no single one; else the two become noSuch.     *)
Swallowed(p, e) == e \in {"noSuch", "noUnique"} /\ p.mode \in {"default", "optional"}
Reraised(e)     == IF e = "noUnique" THEN "noSuch" ELSE e

(* The points of a class; its constructor runs between the two lists.      *)
PointsOf(c)    == Params[c] \o Fields[c]
Constructs(f)  == f.at = Len(Params[f.cls]) + 1 /\ f.bean = 0
Unfilled(f)    == ~Constructs(f) /\ f.at <= Len(PointsOf(f.cls))

Init ==
  /\ instance = [c \in Classes |-> 0]
  /\ requested = [t \in Threads |-> [c \in Classes |-> 0]]
  /\ built = [c \in Classes |-> 0]
  /\ handed = [c \in Classes |-> {}]
  /\ resolving = {}
  /\ lock = [owner |-> None, depth |-> 0]
  /\ stack = [t \in Threads |-> <<>>]
  /\ raised = [t \in Threads |-> "none"]
  /\ calls = [t \in Threads |-> 0]

-----------------------------------------------------------------------------
(* The frames of a thread.                                                 *)

(* _resolve_registration() begins with the scope.                          *)
NewFrame(c) == [cls |-> c, pc |-> IF Scope[c] = "TRANSIENT" THEN "check" ELSE "look",
                at |-> 1, bean |-> 0]

Goto(t, p) == stack' = [stack EXCEPT ![t][Depth(t)].pc = p]

(* The frame below goes on with its next point.                            *)
Advanced(s) == IF s = <<>> THEN s ELSE [s EXCEPT ![Len(s)].at = @ + 1]

Under(t) == SubSeq(stack[t], 1, Depth(t) - 1)

(* The call returns a bean to whoever made it.                             *)
Return(t, n) ==
  /\ stack' = [stack EXCEPT ![t] = Advanced(Under(t))]
  /\ handed' = [handed EXCEPT ![Top(t).cls] = @ \cup {n}]

Raise(t, e) ==
  /\ stack' = [stack EXCEPT ![t] = Under(t)]
  /\ raised' = [raised EXCEPT ![t] = e]

(* A frame of a singleton holds the lock from its "recheck" on.            *)
HoldsLock(f) == Scope[f.cls] = "SINGLETON" /\ f.pc \notin {"look", "lock"}

Release == IF lock.depth = 1 THEN [owner |-> None, depth |-> 0]
                             ELSE [lock EXCEPT !.depth = @ - 1]
Unlocked(t) == IF HoldsLock(Top(t)) THEN Release ELSE lock

-----------------------------------------------------------------------------
(* resolve() from outside; a type without a bean raises at once.           *)
Call(t) ==
  /\ stack[t] = <<>> /\ raised[t] = "none" /\ calls[t] < MaxCalls
  /\ \E type \in Types : LET found == Lookup(type) IN
       \/ found.fails # "none" /\ UNCHANGED stack
       \/ found.fails = "none" /\ stack' = [stack EXCEPT ![t] = <<NewFrame(found.cls)>>]
  /\ calls' = [calls EXCEPT ![t] = @ + 1]
  /\ UNCHANGED <<beanVars, resolving, lock, raised>>

(* The instance of a singleton before the lock; the bean of a request.     *)
LookSingleton(t) ==
  /\ At(t, "look") /\ Top(t).cls \in Singletons
  /\ LET found == instance[Top(t).cls] IN
       IF found # 0 THEN Return(t, found) ELSE Goto(t, "lock") /\ UNCHANGED handed
  /\ UNCHANGED <<instance, requested, built, resolving, lock, raised, calls>>

LookRequest(t) ==
  /\ At(t, "look") /\ Scope[Top(t).cls] = "REQUEST"
  /\ LET found == requested[t][Top(t).cls] IN
       IF t \notin InRequest THEN Raise(t, "noRequest") /\ UNCHANGED handed
       ELSE /\ IF found # 0 THEN Return(t, found) ELSE Goto(t, "check") /\ UNCHANGED handed
            /\ UNCHANGED raised
  /\ UNCHANGED <<instance, requested, built, resolving, lock, calls>>

(* The RLock: free, or held by this thread already.                        *)
AcquirePlain(t) ==
  /\ At(t, "lock") /\ lock.owner = None
  /\ lock' = [owner |-> t, depth |-> 1]
  /\ Goto(t, "recheck")
  /\ UNCHANGED <<beanVars, resolving, raised, calls>>

Acquire(t) ==
  /\ At(t, "lock") /\ lock.owner \in {None, t}
  /\ lock' = [owner |-> t, depth |-> lock.depth + 1]
  /\ Goto(t, "recheck")
  /\ UNCHANGED <<beanVars, resolving, raised, calls>>

(* Fault: what was seen before the lock is believed.                       *)
RecheckNot(t) ==
  /\ At(t, "recheck") /\ Goto(t, "check")
  /\ UNCHANGED <<beanVars, resolving, lock, raised, calls>>

Recheck(t) ==
  /\ At(t, "recheck")
  /\ LET found == instance[Top(t).cls] IN
       IF found # 0 THEN Return(t, found) /\ lock' = Release
                    ELSE Goto(t, "check") /\ UNCHANGED <<handed, lock>>
  /\ UNCHANGED <<instance, requested, built, resolving, raised, calls>>

(* _create_instance(): the look into _resolving and the entry into it are  *)
(* two steps, and the former is outside the try.                           *)
Check(t) ==
  /\ At(t, "check")
  /\ IF Top(t).cls \in resolving
     THEN Raise(t, "cycle") /\ lock' = Unlocked(t)
     ELSE Goto(t, "mark") /\ UNCHANGED <<raised, lock>>
  /\ UNCHANGED <<beanVars, resolving, calls>>

Mark(t) ==
  /\ At(t, "mark")
  /\ resolving' = resolving \cup {Top(t).cls}
  /\ Goto(t, "fill")
  /\ UNCHANGED <<beanVars, lock, raised, calls>>

(* The next parameter or field: its resolve() is called, or fails at once. *)
Fill(t) ==
  /\ At(t, "fill") /\ Unfilled(Top(t))
  /\ LET target == Target(PointsOf(Top(t).cls)[Top(t).at]) IN
       \/ /\ target.fails = "none"
          /\ stack' = [stack EXCEPT ![t] = Append(@, NewFrame(target.cls))]
          /\ UNCHANGED raised
       \/ /\ target.fails # "none"
          /\ raised' = [raised EXCEPT ![t] = target.fails]
          /\ UNCHANGED stack
  /\ UNCHANGED <<beanVars, resolving, lock, calls>>

Construct(t) ==
  /\ At(t, "fill") /\ Constructs(Top(t))
  /\ built' = [built EXCEPT ![Top(t).cls] = @ + 1]
  /\ stack' = [stack EXCEPT ![t][Depth(t)].bean = built'[Top(t).cls]]
  /\ UNCHANGED <<instance, requested, handed, resolving, lock, raised, calls>>

Filled(t) ==
  /\ At(t, "fill") /\ ~Constructs(Top(t)) /\ ~Unfilled(Top(t))
  /\ Goto(t, "unmark")
  /\ UNCHANGED <<beanVars, resolving, lock, raised, calls>>

(* The finally of _create_instance().                                      *)
Unmark(t) ==
  /\ At(t, "unmark")
  /\ resolving' = resolving \ {Top(t).cls}
  /\ Goto(t, "set")
  /\ UNCHANGED <<beanVars, lock, raised, calls>>

(* The new bean is kept as its scope says, and returned.                   *)
Set(t) ==
  /\ At(t, "set")
  /\ LET c == Top(t).cls IN
       /\ instance' = IF c \in Singletons THEN [instance EXCEPT ![c] = Top(t).bean] ELSE instance
       /\ requested' = IF Scope[c] = "REQUEST" THEN [requested EXCEPT ![t][c] = Top(t).bean]
                                               ELSE requested
       /\ Return(t, Top(t).bean)
       /\ lock' = Unlocked(t)
  /\ UNCHANGED <<built, resolving, raised, calls>>

(* An exception reaches the frame that asked, or the caller of resolve().  *)
Catch(t) ==
  /\ raised[t] # "none" /\ Depth(t) > 0
  /\ Swallowed(PointsOf(Top(t).cls)[Top(t).at], raised[t])
  /\ stack' = [stack EXCEPT ![t] = Advanced(@)]
  /\ raised' = [raised EXCEPT ![t] = "none"]
  /\ UNCHANGED <<beanVars, resolving, lock, calls>>

(* Fault: an exception leaves the class marked.                            *)
UnwindMarked(t) ==
  /\ raised[t] # "none" /\ Depth(t) > 0
  /\ ~Swallowed(PointsOf(Top(t).cls)[Top(t).at], raised[t])
  /\ lock' = Unlocked(t)
  /\ Raise(t, Reraised(raised[t]))
  /\ UNCHANGED <<beanVars, resolving, calls>>

Unwind(t) ==
  /\ raised[t] # "none" /\ Depth(t) > 0
  /\ ~Swallowed(PointsOf(Top(t).cls)[Top(t).at], raised[t])
  /\ resolving' = resolving \ {Top(t).cls}
  /\ lock' = Unlocked(t)
  /\ Raise(t, Reraised(raised[t]))
  /\ UNCHANGED <<beanVars, calls>>

Fail(t) ==
  /\ raised[t] # "none" /\ Depth(t) = 0
  /\ raised' = [raised EXCEPT ![t] = "none"]
  /\ UNCHANGED <<beanVars, resolving, lock, stack, calls>>

Resolve(t) ==
  \/ LookSingleton(t) \/ LookRequest(t) \/ Acquire(t) \/ Recheck(t) \/ Check(t) \/ Mark(t)
  \/ Fill(t) \/ Construct(t) \/ Filled(t) \/ Unmark(t) \/ Set(t)
  \/ Catch(t) \/ Unwind(t) \/ Fail(t)

Next == \E t \in Threads : Call(t) \/ Resolve(t)
Spec == Init /\ [][Next]_vars

(* A thread that can run does, and a thread that waits for the lock gets   *)
(* it if it is free again and again.                                       *)
FairSpec == Spec /\ \A t \in Threads : WF_vars(Resolve(t)) /\ SF_vars(Acquire(t))

-----------------------------------------------------------------------------
(* Types.                                                                  *)
TypeOK ==
  /\ instance \in [Classes -> Nat] /\ built \in [Classes -> Nat]
  /\ requested \in [Threads -> [Classes -> Nat]]
  /\ handed \in [Classes -> SUBSET Nat]
  /\ resolving \subseteq Classes
  /\ lock \in [owner : Threads \cup {None}, depth : Nat]
  /\ stack \in [Threads -> Seq(Frame)]
  /\ raised \in [Threads -> Errors \cup {"none"}]
  /\ calls \in [Threads -> Nat]

(* A singleton is one bean: whoever is given a bean of a singleton class,  *)
(* by resolve() or by injection, in any thread, however many creations     *)
(* failed before, is given the same one (the double-checked lock of        *)
(* _resolve_registration).                                                 *)
OneSingleton == \A c \in Singletons : \A m, n \in handed[c] : m = n

(* A singleton is reported as part of a cycle only if it is: the thread    *)
(* that finds it in _resolving is constructing it itself.  This needs that *)
(* a failed creation leaves nothing behind in _resolving.                  *)
Constructing(t, c) == \E i \in 1..Depth(t) - 1 : stack[t][i].cls = c
SingletonCycleIsReal ==
  \A t \in Threads :
    At(t, "check") /\ Top(t).cls \in resolving \cap Singletons => Constructing(t, Top(t).cls)

(* The same of every class; refuted: two threads that create beans of one  *)
(* transient class take each other's entry in _resolving for a cycle.      *)
CycleIsReal ==
  \A t \in Threads : At(t, "check") /\ Top(t).cls \in resolving => Constructing(t, Top(t).cls)

(* Every call of resolve() returns or raises, whatever it has to create    *)
(* inside the lock and whoever else waits for it.                          *)
ResolutionEnds == \A t \in Threads : stack[t] # <<>> ~> stack[t] = <<>> /\ raised[t] = "none"
=============================================================================
