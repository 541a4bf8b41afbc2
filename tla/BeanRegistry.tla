---------------------------- MODULE BeanRegistry ----------------------------
(***************************************************************************)
(* What ApplicationContext makes of the classes it is given before it      *)
(* awaits anything: the bindings of the scanner, the two passes of         *)
(* conditions, the @configuration classes and their @bean methods, the     *)
(* eager creation of singletons.  All of it is one sequential computation, *)
(* so the module has no state: an operator takes a container c and returns *)
(* the container after it.  What recurses is a function, over Containers.  *)
(*                                                                         *)
(*   c.reg    the registrations in the order of the dict, each with its    *)
(*            key, its scope and its bean (0 while there is none)          *)
(*   c.bound  type -> the implementations bound to it, in order            *)
(*   c.made   the class of every bean made so far; a bean is its index     *)
(*   c.err    the exception that ended the computation, or "none"          *)
(*                                                                         *)
(* A program P says of its types which are superclasses of which (supers)  *)
(* and which are Protocols, abstract or ports (ports), of its classes what *)
(* decorators and signatures say (class, primary), and in which order they *)
(* are registered (scan).                                                  *)
(***************************************************************************)
EXTENDS Integers, Sequences, SequencesExt, FiniteSetsExt

(* A class: what it needs, its scope and @order, whether its profile and   *)
(* its property and class conditions hold (allowed), its conditions on     *)
(* beans, its role ("bean", "user" or "auto" configuration), its @bean     *)
(* methods by name, what its instances are to the context (traits).        *)
Class(role, needs, conds, methods, traits) ==
  [role |-> role, needs |-> needs, conds |-> conds, methods |-> methods, traits |-> traits,
   scope |-> "SINGLETON", order |-> 0, allowed |-> TRUE]

Need(type, mode) == [of |-> type, mode |-> mode]
Cond(kind, type) == [kind |-> kind, of |-> type]

(* A @bean method: its return type and the class of what it returns.       *)
Method(type, class, needs) ==
  [of |-> type, makes |-> class, needs |-> needs, conds |-> <<>>, scope |-> "SINGLETON"]

Scopes     == {"SINGLETON", "TRANSIENT", "REQUEST"}
BeanErrors == {"noSuch", "noUnique", "cycle"}   \* the BeanCreationExceptions

Failed(c, e) == [c EXCEPT !.err = e]
Cleared(c)   == Failed(c, "none")

\* The containers of a program: a bean is one that was made.
Containers(P) ==
  {c \in [reg   : Seq([key : DOMAIN P.supers, scope : Scopes, bean : Nat]),
          bound : [DOMAIN P.supers -> Seq(DOMAIN P.class)],
          made  : Seq(DOMAIN P.class),
          err   : BeanErrors \cup {"keyError", "typeError", "none"}] :
     \A i \in DOMAIN c.reg : c.reg[i].bean <= Len(c.made)}

-----------------------------------------------------------------------------
(* Sequences.                                                              *)

\* The things to which a function gives their places, in these places.
Arranged(place) ==
  [n \in 1..Cardinality(DOMAIN place) |-> CHOOSE i \in DOMAIN place : place[i] = n]

\* The members of a set of numbers, the least first.
Ascending(S) == Arranged([i \in S |-> Cardinality({j \in S : j <= i})])

-----------------------------------------------------------------------------
(* The dict of registrations.                                              *)
Entry(key, scope, bean) == [key |-> key, scope |-> scope, bean |-> bean]

Keys(c)     == {c.reg[i].key : i \in DOMAIN c.reg}
Index(c, k) == CHOOSE i \in DOMAIN c.reg : c.reg[i].key = k

\* register(): a class that is there already keeps its place.
Register(c, e) ==
  [c EXCEPT !.reg = IF e.key \in Keys(c) THEN [@ EXCEPT ![Index(c, e.key)] = e]
                                         ELSE Append(@, e)]

Bind(c, type, impl) ==
  [c EXCEPT !.bound[type] = IF impl \in ToSet(@) THEN @ ELSE Append(@, impl)]

\* _remove_registration(): the bindings stay.
Keep(c, Test(_)) == [c EXCEPT !.reg = SelectSeq(@, LAMBDA e : Test(e.key))]

-----------------------------------------------------------------------------
(* Container.resolve() by one thread, for which path is _resolving.        *)

\* The key of the registration that answers for a type, or an exception.
Answers(c, type, impls, primary) ==
  IF type \in Keys(c) THEN type
  ELSE IF Len(impls) = 1 THEN impls[1]
  ELSE IF primary # <<>> THEN primary[1] ELSE "nobody"

Found(c, key, impls) ==
  [key |-> key,
   err |-> IF key \in Keys(c) THEN "none"
           ELSE IF impls = <<>> THEN "noSuch"
           ELSE IF key = "nobody" THEN "noUnique" ELSE "keyError"]

Resolved(P, c, type) ==
  Found(c, Answers(c, type, c.bound[type], SelectSeq(c.bound[type], LAMBDA i : i \in P.primary)), c.bound[type])

\* _resolve_param() for one parameter, with the except clauses around it;
\* Make(d, k) is what making an instance for the key k leaves of d.
Supplied(c, target, Make(_, _)) ==
  IF target.err # "none" THEN Failed(c, target.err) ELSE Make(c, target.key)

Settled(c, mode) ==
  IF c.err \notin {"noSuch", "noUnique"} THEN c
  ELSE IF mode \in {"default", "optional"} THEN Cleared(c)
  ELSE Failed(c, "noSuch")

Targets(P, c, need) ==
  IF need.mode = "each" THEN [i \in DOMAIN c.bound[need.of] |-> Found(c, c.bound[need.of][i], c.bound[need.of])]
                        ELSE <<Resolved(P, c, need.of)>>

Inject(P, c, need, Make(_, _)) ==
  Settled(FoldLeft(LAMBDA d, t : IF d.err # "none" THEN d ELSE Supplied(d, t, Make), c, Targets(P, c, need)),
          need.mode)

InjectAll(P, c, needs, Make(_, _)) ==
  FoldLeft(LAMBDA d, n : IF d.err # "none" THEN d ELSE Inject(P, d, n, Make), c, needs)

Made(c, class) == [c EXCEPT !.made = Append(@, class)]

\* _resolve_registration() and _create_instance(); a key that is no class, a
\* Protocol under which a @bean method registered, cannot be constructed.
Kept(c, i)        == IF c.reg[i].scope # "SINGLETON" THEN c ELSE [c EXCEPT !.reg[i].bean = Len(c.made)]
Constructed(c, k) == IF c.err # "none" THEN c ELSE Kept(Made(c, k), Index(c, k))

Instance(P, c, key) ==
  LET instance[d \in Containers(P), k \in DOMAIN P.supers, path \in SUBSET DOMAIN P.supers] ==
        IF d.reg[Index(d, k)].bean # 0 THEN d
        ELSE IF k \in path THEN Failed(d, "cycle")
        ELSE IF k \notin DOMAIN P.class THEN Failed(d, "typeError")
        ELSE Constructed(InjectAll(P, d, P.class[k].needs, LAMBDA e, n : instance[e, n, path \cup {k}]), k)
  IN  instance[c, key, {}]

-----------------------------------------------------------------------------
(* ConditionEvaluator.                                                     *)

\* _has_bean_of_type(): the type itself does not count, nor the class asking.
HasBean(P, c, type, asking) ==
  \E k \in Keys(c) \ {type, asking} : type \in P.supers[k]

Holds(P, c, cond, asking) == HasBean(P, c, cond.of, asking) <=> cond.kind = "on_bean"

\* Profiles and pass 1, then pass 2: every class is judged by the container
\* before any is removed.
PassOne(P, c) == Keep(c, LAMBDA k : P.class[k].allowed)
PassTwo(P, c) ==
  Keep(c, LAMBDA k : k \in DOMAIN P.class =>
                       \A n \in DOMAIN P.class[k].conds : Holds(P, c, P.class[k].conds[n], k))

-----------------------------------------------------------------------------
(* _process_configurations().                                              *)

\* _sort_bean_methods(): Kahn's algorithm over the methods 1..n; the last
\* method with a return type is its producer.  On a cycle the order is as it was.
Producer(ms, type) == Max({0} \cup {j \in DOMAIN ms : ms[j].of = type})
Deps(ms) == [i \in DOMAIN ms |-> {Producer(ms, ms[i].needs[n].of) : n \in DOMAIN ms[i].needs} \ {0, i}]

Kahn(deps, ready) ==
  LET kahn[queue \in Seq(DOMAIN deps), done \in Seq(DOMAIN deps)] ==
        IF queue = <<>> THEN done
        ELSE kahn[Tail(queue) \o SelectSeq([i \in DOMAIN deps |-> i],
                                   LAMBDA i : /\ Head(queue) \in deps[i]
                                              /\ deps[i] \subseteq ToSet(done) \cup {Head(queue)}),
                  Append(done, Head(queue))]
  IN  kahn[ready, <<>>]

InThis(ms, order) == IF Len(order) = Len(ms) THEN [n \in DOMAIN ms |-> ms[order[n]]] ELSE ms
SortedBy(ms, deps) ==
  InThis(ms, Kahn(deps, SelectSeq([i \in DOMAIN ms |-> i], LAMBDA i : deps[i] = {})))
Sorted(ms) == SortedBy(ms, Deps(ms))

\* _call_bean_method() and the registrations of its result: under its class,
\* and under the return type unless that has one.
UnderType(c, m, bean) ==
  IF m.of \in Keys(c) THEN c ELSE Register(c, Entry(m.of, m.scope, bean))
UnderBoth(c, m, bean) ==
  UnderType(IF m.of = m.makes THEN Register(c, Entry(m.makes, m.scope, bean))
            ELSE Bind(Register(c, Entry(m.makes, m.scope, bean)), m.of, m.makes), m, bean)
Result(c, m) ==
  IF c.err # "none" THEN c
  ELSE UnderBoth(Made(c, m.makes), m, IF m.scope = "SINGLETON" THEN Len(c.made) + 1 ELSE 0)
CallMethod(P, c, m) == IF c.err # "none" THEN c ELSE Result(InjectAll(P, c, m.needs, LAMBDA d, k : Instance(P, d, k)), m)

\* The methods of one configuration; their conditions are judged before any
\* is called.
Wanted(P, c, m) == \A n \in DOMAIN m.conds : Holds(P, c, m.conds[n], "nobody")
CallMethods(P, c, ms) ==
  IF c.err # "none" THEN c
  ELSE FoldLeft(LAMBDA d, m : CallMethod(P, d, m), c, Sorted(SelectSeq(ms, LAMBDA m : Wanted(P, c, m))))
Process(P, c, key) ==
  IF c.err # "none" THEN c ELSE CallMethods(P, Instance(P, c, key), P.class[key].methods)

ProcessAll(P, c, role) ==
  FoldLeft(LAMBDA d, e : IF e.key \in DOMAIN P.class /\ P.class[e.key].role = role
                         THEN Process(P, d, e.key) ELSE d,
           c, c.reg)

-----------------------------------------------------------------------------
\* Scanning: the classes in their order, each bound to its Protocols, abstract
\* bases and ports; the built-in configurations come last.
Scanned(P) ==
  FoldLeft(LAMBDA c, k : FoldLeft(LAMBDA d, type : Bind(d, type, k),
                                  Register(c, Entry(k, P.class[k].scope, 0)),
                                  SetToSeq(P.supers[k] \cap P.ports)),
           [reg |-> <<>>, bound |-> [type \in DOMAIN P.supers |-> <<>>], made |-> <<>>, err |-> "none"],
           P.scan)

\* Steps 0 to 2b of _do_start().
UserConfigured(P) == ProcessAll(P, PassOne(P, Scanned(P)), "user")
Configured(P)     == ProcessAll(P, PassTwo(P, UserConfigured(P)), "auto")

\* The place of each of a set of registrations, by @order and those of one
\* order as registered; what is no class has order 0.
OrderOf(P, k) == IF k \in DOMAIN P.class THEN P.class[k].order ELSE 0
ByOrder(P, c, indices) ==
  LET At(i) == OrderOf(P, c.reg[i].key)
  IN  [i \in indices |-> Cardinality({j \in indices : At(j) < At(i) \/ (At(j) = At(i) /\ j <= i)})]

\* Step 4: a singleton that cannot be created yet is left to later.
Tolerated(c) == IF c.err \in BeanErrors THEN Cleared(c) ELSE c
Eager(P, c) ==
  FoldLeft(LAMBDA d, i : IF d.err # "none" \/ d.reg[i].scope # "SINGLETON" THEN d
                         ELSE Tolerated(Instance(P, d, d.reg[i].key)),
           c, Arranged(ByOrder(P, c, DOMAIN c.reg)))

-----------------------------------------------------------------------------
(* What the two passes promise.                                            *)

(* A component or a @bean of the user that implements a port is what the   *)
(* port resolves to: the auto-configuration that is conditional on the     *)
(* port's absence does not run.                                            *)
Unchanged(P, user, end, port) ==
  end.err = "none" /\ HasBean(P, user, port, "nobody") => Resolved(P, end, port) = Resolved(P, user, port)
UserWins(P, port) == Unchanged(P, UserConfigured(P), Configured(P), port)

(* Every singleton that can be created is there after step 4, and no bean  *)
(* was made twice for one registration.                                    *)
Complete(P, c) ==
  c.err = "none" =>
    \A i \in DOMAIN c.reg : c.reg[i].scope = "SINGLETON" /\ c.reg[i].bean = 0
       => Instance(P, c, c.reg[i].key).err \in BeanErrors
AllThere(P) == Complete(P, Eager(P, Configured(P)))

(* A @bean method of a configuration without a cycle finds what the        *)
(* others make.                                                            *)
NoneLater(ms) == \A i, j \in DOMAIN ms : i < j => \A n \in DOMAIN ms[i].needs : ms[i].needs[n].of # ms[j].of
ProducersFirst(ms) == Sorted(ms) # ms => NoneLater(Sorted(ms))
=============================================================================
