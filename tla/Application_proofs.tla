------------------------- MODULE Application_proofs -------------------------
(***************************************************************************)
(* Proofs about Container and about Application: the container, for any    *)
(* number of threads, any classes, scopes, bindings and injection points   *)
(* and any number of calls; then the life of the context with its broker   *)
(* and its scheduler, for any programs, handlers, groups, publishers and   *)
(* scheduled methods.  The two parts are independent of each other.        *)
(***************************************************************************)
EXTENDS Container, Application, FiniteSetTheorems, SequenceTheorems, TLAPS

-----------------------------------------------------------------------------
(* PART ONE: the container.                                                *)

(* The frames of a thread that hold the lock; it is reentrant, and counts  *)
(* them.                                                                   *)
Held(t) == {i \in 1..Depth(t) : HoldsLock(stack[t][i])}

LockInv ==
  /\ lock.owner = None <=> lock.depth = 0
  /\ \A t \in Threads : Cardinality(Held(t)) = IF lock.owner = t THEN lock.depth ELSE 0

(* What the place of a frame says of its fields. *)
FrameOK(f) ==
  /\ f.at # 0
  /\ f.pc \in {"look", "lock", "recheck", "check", "mark"} => f.at = 1 /\ f.bean = 0
  /\ f.bean = 0 => f.at <= Len(Params[f.cls]) + 1
  /\ f.pc \in {"unmark", "set"} => f.bean # 0
  /\ f.pc \in {"lock", "recheck"} => f.cls \in Singletons

(* A frame has called another, or an exception reaches it, only where it   *)
(* fills a parameter or a field.                                           *)
Waits(f) == f.pc = "fill" /\ Unfilled(f)

StacksOK ==
  \A t \in Threads : \A i \in 1..Depth(t) :
    FrameOK(stack[t][i]) /\ (i < Depth(t) \/ raised[t] # "none" => Waits(stack[t][i]))

(* A singleton is in _resolving exactly while a frame creates it. *)
Marks(f) == f.pc \in {"fill", "unmark"}
MarkedInv ==
  \A c \in Singletons :
    c \in resolving <=>
      \E t \in Threads : \E i \in 1..Depth(t) : stack[t][i].cls = c /\ Marks(stack[t][i])

(* A thread does not create a singleton inside its creation. *)
Inside(f) == f.cls \in Singletons /\ f.pc \in {"mark", "fill", "unmark", "set"}
DistinctInv ==
  \A t \in Threads : \A i, j \in 1..Depth(t) :
    Inside(stack[t][i]) /\ Inside(stack[t][j]) /\ stack[t][i].cls = stack[t][j].cls => i = j

(* What is created is not there yet. *)
Creates(f) == f.cls \in Singletons /\ f.pc \in {"check", "mark", "fill", "unmark", "set"}
FreshInv ==
  \A t \in Threads : \A i \in 1..Depth(t) : Creates(stack[t][i]) => instance[stack[t][i].cls] = 0

(* Whoever was given a singleton was given its instance. *)
HandedInv == \A c \in Singletons : handed[c] \subseteq {instance[c]} \ {0}

-----------------------------------------------------------------------------
(* Injection points.                                                       *)

LEMMA LookupType ==
  ASSUME NEW type \in Types
  PROVE  /\ Lookup(type).fails \in Errors \cup {"none"}
         /\ Lookup(type).fails = "none" => Lookup(type).cls \in Classes
<1>1. \A c : /\ Registered(c).fails \in Errors \cup {"none"}
             /\ Registered(c).fails = "none" => Registered(c).cls \in Classes
  BY DEF Registered, Errors
<1>2. \/ \E c : Lookup(type) = Registered(c)
      \/ Lookup(type).fails \in {"noSuch", "noUnique"}
  BY DEF Lookup
<1> QED
  BY <1>1, <1>2 DEF Errors

LEMMA TargetType ==
  ASSUME NEW p \in Points
  PROVE  /\ Target(p).fails \in Errors \cup {"none"}
         /\ Target(p).fails = "none" => Target(p).cls \in Classes
<1>1. CASE p.mode = "each"
  BY <1>1 DEF Target, Registered, Errors
<1>2. CASE p.mode # "each"
  BY <1>2, LookupType DEF Target, Points
<1> QED
  BY <1>1, <1>2

LEMMA PointsType ==
  ASSUME NEW c \in Classes
  PROVE  /\ PointsOf(c) \in Seq(Points) /\ Len(Params[c]) \in Nat
         /\ Len(PointsOf(c)) \in Nat /\ Len(PointsOf(c)) >= Len(Params[c])
<1>1. Params[c] \in Seq(Points) /\ Fields[c] \in Seq(Points)
  BY ContainerAssumption
<1>2. Len(Params[c]) \in Nat /\ Len(Fields[c]) \in Nat
  BY <1>1
<1>3. PointsOf(c) \in Seq(Points) /\ Len(PointsOf(c)) = Len(Params[c]) + Len(Fields[c])
  <2>1. \A s1, s2 \in Seq(Points) : s1 \o s2 \in Seq(Points) /\ Len(s1 \o s2) = Len(s1) + Len(s2)
    BY ConcatProperties
  <2> QED
    BY <1>1, <2>1 DEF PointsOf
<1> DEFINE k == Len(PointsOf(c))
           m == Len(Params[c])
           n == Len(Fields[c])
<1>4. PointsOf(c) \in Seq(Points) /\ k = m + n /\ m \in Nat /\ n \in Nat
  BY <1>2, <1>3
<1> HIDE DEF k, m, n
<1>5. k \in Nat /\ m \in Nat /\ k >= m
  BY <1>4
<1> QED
  BY <1>4, <1>5, Zenon DEF k, m

LEMMA NewFrameType ==
  ASSUME NEW c \in Classes
  PROVE  /\ NewFrame(c) \in Frame /\ FrameOK(NewFrame(c))
         /\ ~HoldsLock(NewFrame(c)) /\ ~Marks(NewFrame(c)) /\ ~Inside(NewFrame(c)) /\ ~Creates(NewFrame(c))
<1>1. /\ NewFrame(c).pc \in {"look", "check"} /\ NewFrame(c).cls = c /\ NewFrame(c).at = 1 /\ NewFrame(c).bean = 0
      /\ c \in Singletons => NewFrame(c).pc = "look"
      /\ NewFrame(c) \in Frame
  BY DEF NewFrame, Frame, Singletons
<1> QED
  BY <1>1, PointsType DEF FrameOK, HoldsLock, Marks, Inside, Creates, Singletons

-----------------------------------------------------------------------------
(* What a step does to the stack of its thread.                            *)

Replaces(t, g) == stack' = [stack EXCEPT ![t] = [stack[t] EXCEPT ![Depth(t)] = g]]
Pushes(t, g)   == stack' = [stack EXCEPT ![t] = Append(stack[t], g)]

LEMMA DepthType ==
  ASSUME TypeOK, NEW t \in Threads
  PROVE  /\ stack[t] \in Seq(Frame) /\ Depth(t) \in Nat
         /\ \A i \in 1..Depth(t) : stack[t][i] \in Frame
         /\ Depth(t) > 0 => Depth(t) \in 1..Depth(t) /\ Top(t) \in Frame /\ Top(t).cls \in Classes
<1>1. stack[t] \in Seq(Frame)
  BY DEF TypeOK
<1>2. Depth(t) \in Nat /\ \A i \in 1..Depth(t) : stack[t][i] \in Frame
  BY <1>1 DEF Depth
<1> QED
  BY <1>1, <1>2 DEF Top, Frame

LEMMA OthersKept ==
  ASSUME TypeOK, NEW t \in Threads, NEW s, stack' = [stack EXCEPT ![t] = s]
  PROVE  /\ stack'[t] = s
         /\ \A u \in Threads : u # t => stack'[u] = stack[u] /\ Depth(u)' = Depth(u)
         /\ s \in Seq(Frame) => stack' \in [Threads -> Seq(Frame)]
BY DEF TypeOK, Depth

LEMMA ReplaceFacts ==
  ASSUME TypeOK, NEW t \in Threads, Depth(t) > 0, NEW g \in Frame, Replaces(t, g)
  PROVE  /\ stack' \in [Threads -> Seq(Frame)]
         /\ \A u \in Threads : Depth(u)' = Depth(u)
         /\ stack'[t][Depth(t)] = g
         /\ \A u \in Threads : \A i \in 1..Depth(u) : (u # t \/ i # Depth(t)) => stack'[u][i] = stack[u][i]
<1> DEFINE s == [stack[t] EXCEPT ![Depth(t)] = g]
<1>1. stack[t] \in Seq(Frame) /\ Depth(t) \in 1..Len(stack[t]) /\ Depth(t) = Len(stack[t])
  BY DepthType DEF Depth
<1>2. s \in Seq(Frame) /\ Len(s) = Len(stack[t]) /\ s[Depth(t)] = g
      /\ \A i \in 1..Depth(t) : i # Depth(t) => s[i] = stack[t][i]
  BY <1>1
<1>3. stack' = [stack EXCEPT ![t] = s]
  BY DEF Replaces
<1> HIDE DEF s
<1>4. stack'[t] = s /\ stack' \in [Threads -> Seq(Frame)]
      /\ \A u \in Threads : u # t => stack'[u] = stack[u] /\ Depth(u)' = Depth(u)
  BY <1>2, <1>3, OthersKept
<1> QED
  BY <1>1, <1>2, <1>4 DEF Depth

LEMMA PushFacts ==
  ASSUME TypeOK, NEW t \in Threads, NEW g \in Frame, Pushes(t, g)
  PROVE  /\ stack' \in [Threads -> Seq(Frame)]
         /\ Depth(t)' = Depth(t) + 1 /\ \A u \in Threads : u # t => Depth(u)' = Depth(u)
         /\ stack'[t][Depth(t) + 1] = g
         /\ \A u \in Threads : \A i \in 1..Depth(u) : stack'[u][i] = stack[u][i]
<1> DEFINE s == Append(stack[t], g)
<1>1. stack[t] \in Seq(Frame) /\ Depth(t) = Len(stack[t])
  BY DepthType DEF Depth
<1>2. s \in Seq(Frame) /\ Len(s) = Len(stack[t]) + 1 /\ s[Len(stack[t]) + 1] = g
      /\ \A i \in 1..Depth(t) : s[i] = stack[t][i]
  BY <1>1
<1>3. stack' = [stack EXCEPT ![t] = s]
  BY DEF Pushes
<1> HIDE DEF s
<1>4. stack'[t] = s /\ stack' \in [Threads -> Seq(Frame)]
      /\ \A u \in Threads : u # t => stack'[u] = stack[u] /\ Depth(u)' = Depth(u)
  BY <1>2, <1>3, OthersKept
<1> QED
  BY <1>1, <1>2, <1>4 DEF Depth

LEMMA UnderFacts ==
  ASSUME TypeOK, NEW t \in Threads, Depth(t) > 0
  PROVE  /\ Under(t) \in Seq(Frame) /\ Len(Under(t)) = Depth(t) - 1
         /\ \A i \in 1..(Depth(t) - 1) : Under(t)[i] = stack[t][i]
<1>1. stack[t] \in Seq(Frame) /\ Depth(t) = Len(stack[t])
  BY DepthType DEF Depth
<1> QED
  BY <1>1 DEF Under

LEMMA PopFacts ==
  ASSUME TypeOK, NEW t \in Threads, Depth(t) > 0, stack' = [stack EXCEPT ![t] = Under(t)]
  PROVE  /\ stack' \in [Threads -> Seq(Frame)]
         /\ Depth(t)' = Depth(t) - 1 /\ \A u \in Threads : u # t => Depth(u)' = Depth(u)
         /\ \A u \in Threads : \A i \in 1..Depth(u)' : stack'[u][i] = stack[u][i]
<1>1. stack'[t] = Under(t) /\ stack' \in [Threads -> Seq(Frame)]
      /\ \A u \in Threads : u # t => stack'[u] = stack[u] /\ Depth(u)' = Depth(u)
  BY UnderFacts, OthersKept
<1>2. Depth(t)' = Depth(t) - 1
  BY <1>1, UnderFacts DEF Depth
<1> QED
  BY <1>1, <1>2, UnderFacts

(* The frame below goes on, and is otherwise what it was. *)
Moved(f) == [f EXCEPT !.at = @ + 1]

LEMMA ReturnFacts ==
  ASSUME TypeOK, NEW t \in Threads, Depth(t) > 0, stack' = [stack EXCEPT ![t] = Advanced(Under(t))]
  PROVE  /\ stack' \in [Threads -> Seq(Frame)]
         /\ Depth(t)' = Depth(t) - 1 /\ \A u \in Threads : u # t => Depth(u)' = Depth(u)
         /\ \A u \in Threads : \A i \in 1..Depth(u)' :
              stack'[u][i] = IF u = t /\ i = Depth(t) - 1 THEN Moved(stack[u][i]) ELSE stack[u][i]
<1> DEFINE s == Advanced(Under(t))
<1>1. /\ Under(t) \in Seq(Frame) /\ Len(Under(t)) = Depth(t) - 1
      /\ \A i \in 1..(Depth(t) - 1) : Under(t)[i] = stack[t][i]
  BY UnderFacts
<1>2. /\ s \in Seq(Frame) /\ Len(s) = Depth(t) - 1
      /\ \A i \in 1..(Depth(t) - 1) :
           s[i] = IF i = Depth(t) - 1 THEN Moved(stack[t][i]) ELSE stack[t][i]
  <2>1. CASE Under(t) = <<>>
    BY <1>1, <2>1 DEF Advanced
  <2>2. CASE Under(t) # <<>>
    <3>1. Depth(t) - 1 \in 1..Len(Under(t)) /\ Len(Under(t)) \in Nat
      BY <1>1, <2>2
    <3>2. Under(t)[Len(Under(t))] \in Frame
      BY <1>1, <3>1
    <3>3. Moved(Under(t)[Len(Under(t))]) \in Frame
      BY <3>2 DEF Moved, Frame
    <3>4. s = [Under(t) EXCEPT ![Len(Under(t))] = Moved(Under(t)[Len(Under(t))])]
      BY <2>2 DEF Advanced, Moved
    <3> HIDE DEF s
    <3> QED
      BY <1>1, <3>1, <3>3, <3>4
  <2> QED
    BY <2>1, <2>2
<1> HIDE DEF s
<1>3. stack' = [stack EXCEPT ![t] = s]
  BY DEF s
<1>4. stack'[t] = s /\ stack' \in [Threads -> Seq(Frame)]
      /\ \A u \in Threads : u # t => stack'[u] = stack[u] /\ Depth(u)' = Depth(u)
  BY <1>2, <1>3, OthersKept
<1>5. Depth(t)' = Depth(t) - 1
  BY <1>2, <1>4 DEF Depth
<1> QED
  BY <1>2, <1>4, <1>5

-----------------------------------------------------------------------------
(* The steps, by what they do to the frames and to what the threads share. *)

Counted ==
  /\ built' \in [Classes -> Nat] /\ calls' \in [Threads -> Nat]
  /\ requested' \in [Threads -> [Classes -> Nat]]

Raised(t, e) == e \in Errors \cup {"none"} /\ raised' = [raised EXCEPT ![t] = e]

Becomes(t, g) ==
  /\ Depth(t) > 0 /\ g.cls = Top(t).cls /\ FrameOK(g) /\ Replaces(t, g) /\ Raised(t, "none")
  /\ UNCHANGED <<instance, handed>> /\ Counted

(* The innermost frame goes on. *)
Turns(t, g) ==
  /\ Becomes(t, g) /\ UNCHANGED <<resolving, lock>>
  /\ \/ Top(t).pc = "look" /\ g.pc = "lock" /\ g.cls \in Singletons
     \/ Top(t).pc = "look" /\ g.pc = "check" /\ g.cls \notin Singletons
     \/ Top(t).pc = "recheck" /\ g.pc = "check" /\ instance[g.cls] = 0
     \/ Top(t).pc = "check" /\ g.pc = "mark" /\ g.cls \notin resolving
     \/ Top(t).pc = "fill" /\ g.pc \in {"fill", "unmark"}

Acquires(t, g) ==
  /\ Becomes(t, g) /\ Top(t).pc = "lock" /\ g.pc = "recheck" /\ lock.owner \in {None, t}
  /\ lock' = [owner |-> t, depth |-> lock.depth + 1] /\ UNCHANGED resolving

Enrols(t, g) ==
  /\ Becomes(t, g) /\ Top(t).pc = "mark" /\ g.pc = "fill"
  /\ resolving' = resolving \cup {g.cls} /\ UNCHANGED lock

Strikes(t, g) ==
  /\ Becomes(t, g) /\ Top(t).pc = "unmark" /\ g.pc = "set"
  /\ resolving' = resolving \ {g.cls} /\ UNCHANGED lock

(* The thread asks for a bean, and gets a frame or an exception. *)
Enters(t, c) ==
  /\ Pushes(t, NewFrame(c)) /\ (Depth(t) > 0 => Waits(Top(t)))
  /\ raised[t] = "none" /\ UNCHANGED <<instance, handed, resolving, lock, raised>> /\ Counted

Idles(t, e) ==
  /\ Raised(t, e) /\ (e # "none" /\ Depth(t) > 0 => Waits(Top(t)))
  /\ UNCHANGED <<instance, handed, resolving, lock, stack>> /\ Counted

(* The innermost frame ends, with an exception or with bean n. *)
Drops(t, e) ==
  /\ Depth(t) > 0 /\ stack' = [stack EXCEPT ![t] = Under(t)] /\ Raised(t, e)
  /\ \/ Top(t).pc \in {"look", "check"} /\ UNCHANGED resolving
     \/ Top(t).pc = "fill" /\ resolving' = resolving \ {Top(t).cls}
  /\ lock' = Unlocked(t) /\ UNCHANGED <<instance, handed>> /\ Counted

Yields(t, n) ==
  /\ Depth(t) > 0 /\ Return(t, n) /\ n \in Nat /\ Raised(t, "none")
  /\ \/ /\ Top(t).pc \in {"look", "recheck"} /\ UNCHANGED instance
        /\ Top(t).cls \in Singletons => n = instance[Top(t).cls] /\ n # 0
     \/ /\ Top(t).pc = "set" /\ n # 0
        /\ instance' = IF Top(t).cls \in Singletons THEN [instance EXCEPT ![Top(t).cls] = n] ELSE instance
  /\ lock' = Unlocked(t) /\ UNCHANGED resolving /\ Counted

LEMMA GotoForm ==
  ASSUME TypeOK, NEW t \in Threads, Depth(t) > 0,
         NEW p \in {"lock", "recheck", "check", "mark", "fill", "unmark", "set"}, Goto(t, p)
  PROVE  \E g \in Frame : /\ Replaces(t, g) /\ g.cls = Top(t).cls /\ g.pc = p /\ g.at = Top(t).at
                          /\ g.bean = Top(t).bean
<1> DEFINE g == [Top(t) EXCEPT !.pc = p]
<1>1. Top(t) \in Frame
  BY DepthType
<1>2. g \in Frame /\ g.cls = Top(t).cls /\ g.pc = p /\ g.at = Top(t).at /\ g.bean = Top(t).bean
  BY <1>1 DEF Frame
<1>3. Replaces(t, g)
  BY DEF Goto, Replaces, Top, TypeOK
<1> HIDE DEF g
<1> QED
  BY <1>2, <1>3

LEMMA MovedFacts ==
  ASSUME NEW f \in Frame, FrameOK(f), Waits(f)
  PROVE  /\ Moved(f) \in Frame /\ FrameOK(Moved(f))
         /\ Moved(f).cls = f.cls /\ Moved(f).pc = f.pc /\ Moved(f).bean = f.bean
<1>1. /\ Moved(f) \in Frame /\ Moved(f).cls = f.cls /\ Moved(f).pc = f.pc /\ Moved(f).bean = f.bean
      /\ Moved(f).at = f.at + 1 /\ f.at \in Nat /\ f.bean \in Nat /\ f.cls \in Classes
  BY DEF Moved, Frame
<1>2. f.pc = "fill" /\ ~(f.at = Len(Params[f.cls]) + 1 /\ f.bean = 0)
  BY DEF Waits, Unfilled, Constructs
<1>3. f.bean = 0 => f.at + 1 <= Len(Params[f.cls]) + 1
  BY <1>1, <1>2, PointsType DEF FrameOK
<1> QED
  BY <1>1, <1>2, <1>3 DEF FrameOK

LEMMA RaisedSame ==
  ASSUME TypeOK, NEW t \in Threads, raised[t] = "none", raised' = raised
  PROVE  Raised(t, "none")
BY DEF TypeOK, Raised

LEMMA TopFacts ==
  ASSUME TypeOK, StacksOK, NEW t \in Threads, Depth(t) > 0
  PROVE  /\ FrameOK(Top(t)) /\ Top(t) \in Frame /\ Top(t).cls \in Classes
         /\ raised[t] # "none" => Waits(Top(t))
BY DepthType DEF StacksOK, Top

LEMMA TurnsForm ==
  ASSUME TypeOK, StacksOK, NEW t \in Threads,
         (Check(t) /\ Top(t).cls \notin resolving) \/ Construct(t) \/ Filled(t) \/ Catch(t)
  PROVE  \E g \in Frame : Turns(t, g)
<1>1. Depth(t) > 0
  BY DEF Check, Construct, Filled, Catch, At
<1>2. FrameOK(Top(t)) /\ Top(t) \in Frame /\ Top(t).cls \in Classes /\ (raised[t] # "none" => Waits(Top(t)))
  BY <1>1, TopFacts
<1>3. CASE Check(t) /\ Top(t).cls \notin resolving
  <2>1. PICK g \in Frame : /\ Replaces(t, g) /\ g.cls = Top(t).cls /\ g.pc = "mark"
                           /\ g.at = Top(t).at /\ g.bean = Top(t).bean
    BY <1>1, <1>3, GotoForm DEF Check
  <2>2. FrameOK(g)
    BY <1>2, <1>3, <2>1 DEF Check, At, FrameOK
  <2>3. Becomes(t, g)
    BY <1>1, <1>3, <2>1, <2>2, RaisedSame DEF Check, At, Becomes, Counted, TypeOK, beanVars
  <2> QED
    BY <1>3, <2>1, <2>3 DEF Check, At, Turns
<1>4. CASE Construct(t)
  <2> DEFINE g == [Top(t) EXCEPT !.bean = built'[Top(t).cls]]
  <2>1. built' \in [Classes -> Nat] /\ built'[Top(t).cls] \in Nat /\ built'[Top(t).cls] # 0
    BY <1>2, <1>4 DEF Construct, TypeOK
  <2>2. g \in Frame /\ g.cls = Top(t).cls /\ g.pc = "fill" /\ g.bean # 0 /\ g.at = Top(t).at
    BY <1>2, <1>4, <2>1 DEF Construct, At, Frame
  <2>3. Replaces(t, g)
    BY <1>4 DEF Construct, Replaces, Top, TypeOK
  <2> HIDE DEF g
  <2>4. FrameOK(g)
    BY <1>2, <2>2 DEF FrameOK
  <2>5. Becomes(t, g)
    BY <1>1, <1>4, <2>1, <2>2, <2>3, <2>4, RaisedSame DEF Construct, At, Becomes, Counted, TypeOK
  <2> QED
    BY <1>4, <2>2, <2>5 DEF Construct, At, Turns
<1>5. CASE Filled(t)
  <2>1. PICK g \in Frame : /\ Replaces(t, g) /\ g.cls = Top(t).cls /\ g.pc = "unmark"
                           /\ g.at = Top(t).at /\ g.bean = Top(t).bean
    BY <1>1, <1>5, GotoForm DEF Filled
  <2>2. Top(t).bean # 0
    <3> DEFINE f == Top(t)
               m == Len(Params[f.cls])
               k == Len(PointsOf(f.cls))
    <3>1. m \in Nat /\ k \in Nat /\ k >= m /\ f.at \in Nat
      BY <1>2, PointsType DEF Frame
    <3>2. ~(f.at = m + 1 /\ f.bean = 0) /\ ~(f.at <= k)
      BY <1>5 DEF Filled, Constructs, Unfilled
    <3>3. f.bean = 0 => f.at <= m + 1
      BY <1>2 DEF FrameOK
    <3> HIDE DEF f, m, k
    <3>4. f.bean # 0
      BY <3>1, <3>2, <3>3
    <3> QED
      BY <3>4 DEF f
  <2>3. FrameOK(g)
    BY <1>2, <2>1, <2>2 DEF FrameOK
  <2>4. Becomes(t, g)
    BY <1>1, <1>5, <2>1, <2>3, RaisedSame DEF Filled, At, Becomes, Counted, TypeOK, beanVars
  <2> QED
    BY <1>5, <2>1, <2>4 DEF Filled, At, Turns
<1>6. CASE Catch(t)
  <2>1. /\ Moved(Top(t)) \in Frame /\ FrameOK(Moved(Top(t)))
        /\ Moved(Top(t)).cls = Top(t).cls /\ Moved(Top(t)).pc = "fill" /\ Top(t).pc = "fill"
    BY <1>2, <1>6, MovedFacts DEF Catch, Waits
  <2>2. Replaces(t, Moved(Top(t)))
    <3>1. stack[t] # <<>> /\ Depth(t) = Len(stack[t])
      BY <1>1, DepthType DEF Depth
    <3>2. Advanced(stack[t]) = [stack[t] EXCEPT ![Depth(t)] = Moved(Top(t))]
      BY <3>1 DEF Advanced, Moved, Top
    <3> QED
      BY <1>6, <3>2 DEF Catch, Replaces, TypeOK
  <2>3. Becomes(t, Moved(Top(t)))
    BY <1>1, <1>6, <2>1, <2>2 DEF Catch, Becomes, Counted, TypeOK, beanVars, Raised
  <2> QED
    BY <1>6, <2>1, <2>3 DEF Catch, Turns
<1> QED
  BY <1>3, <1>4, <1>5, <1>6

LEMMA UnlockedFree ==
  ASSUME NEW t, ~HoldsLock(Top(t)) PROVE Unlocked(t) = lock
BY DEF Unlocked

LEMMA LooksForm ==
  ASSUME TypeOK, StacksOK, NEW t \in Threads, LookSingleton(t) \/ LookRequest(t) \/ Recheck(t)
  PROVE  (\E g \in Frame : Turns(t, g)) \/ (\E n \in Nat : Yields(t, n)) \/ (\E e \in Errors : Drops(t, e))
<1>1. Depth(t) > 0 /\ raised[t] = "none" /\ Top(t).pc \in {"look", "recheck"}
  BY DEF LookSingleton, LookRequest, Recheck, At
<1>2. FrameOK(Top(t)) /\ Top(t) \in Frame /\ Top(t).cls \in Classes /\ instance[Top(t).cls] \in Nat
  BY <1>1, TopFacts DEF TypeOK
<1>3. Raised(t, "none") \/ raised' # raised
  BY <1>1, RaisedSame
<1>4. ASSUME NEW p \in {"lock", "check"}, Goto(t, p),
             UNCHANGED <<beanVars, raised, calls>>, p = "lock" => Top(t).cls \in Singletons
      PROVE  \E g \in Frame : Becomes(t, g) /\ g.pc = p
  <2>1. PICK g \in Frame : /\ Replaces(t, g) /\ g.cls = Top(t).cls /\ g.pc = p /\ g.at = Top(t).at
                           /\ g.bean = Top(t).bean
    BY <1>1, <1>4, GotoForm
  <2>2. FrameOK(g)
    BY <1>1, <1>2, <1>4, <2>1 DEF FrameOK
  <2>3. Becomes(t, g)
    BY <1>1, <1>3, <1>4, <2>1, <2>2 DEF Becomes, Counted, TypeOK, beanVars
  <2> QED
    BY <2>1, <2>3
<1>5. CASE LookSingleton(t)
  <2>1. Top(t).pc = "look" /\ Top(t).cls \in Singletons /\ Unlocked(t) = lock
    BY <1>5, UnlockedFree DEF LookSingleton, At, HoldsLock
  <2>2. CASE instance[Top(t).cls] # 0
    <3>1. Yields(t, instance[Top(t).cls])
      BY <1>1, <1>2, <1>3, <1>5, <2>1, <2>2 DEF LookSingleton, Yields, Counted, TypeOK
    <3> QED
      BY <1>2, <3>1
  <2>3. CASE instance[Top(t).cls] = 0
    <3>1. PICK g \in Frame : Becomes(t, g) /\ g.pc = "lock"
      BY <1>4, <1>5, <2>1, <2>3 DEF LookSingleton, beanVars
    <3>2. Turns(t, g)
      BY <1>5, <2>1, <3>1 DEF LookSingleton, Turns, Becomes
    <3> QED
      BY <3>2
  <2> QED
    BY <2>2, <2>3
<1>6. CASE LookRequest(t)
  <2>1. Top(t).pc = "look" /\ Top(t).cls \notin Singletons /\ Unlocked(t) = lock
    BY <1>6, UnlockedFree DEF LookRequest, At, HoldsLock, Singletons
  <2>2. requested[t][Top(t).cls] \in Nat
    BY <1>2 DEF TypeOK
  <2>3. CASE t \notin InRequest
    <3>1. Drops(t, "noRequest")
      BY <1>1, <1>6, <2>1, <2>3 DEF LookRequest, Drops, Raise, Raised, Counted, TypeOK, Errors
    <3> QED
      BY <3>1 DEF Errors
  <2>4. CASE t \in InRequest /\ requested[t][Top(t).cls] # 0
    <3>1. Yields(t, requested[t][Top(t).cls])
      BY <1>1, <1>3, <1>6, <2>1, <2>2, <2>4 DEF LookRequest, Yields, Counted, TypeOK
    <3> QED
      BY <2>2, <3>1
  <2>5. CASE t \in InRequest /\ requested[t][Top(t).cls] = 0
    <3>1. PICK g \in Frame : Becomes(t, g) /\ g.pc = "check"
      BY <1>4, <1>6, <2>5 DEF LookRequest, beanVars
    <3>2. Turns(t, g)
      BY <1>6, <2>1, <3>1 DEF LookRequest, Turns, Becomes
    <3> QED
      BY <3>2
  <2> QED
    BY <2>3, <2>4, <2>5
<1>7. CASE Recheck(t)
  <2>1. Top(t).pc = "recheck" /\ Top(t).cls \in Singletons /\ Unlocked(t) = Release
    BY <1>2, <1>7 DEF Recheck, At, FrameOK, HoldsLock, Unlocked, Singletons
  <2>2. CASE instance[Top(t).cls] # 0
    <3>1. Yields(t, instance[Top(t).cls])
      BY <1>1, <1>2, <1>3, <1>7, <2>1, <2>2 DEF Recheck, Yields, Counted, TypeOK
    <3> QED
      BY <1>2, <3>1
  <2>3. CASE instance[Top(t).cls] = 0
    <3>1. PICK g \in Frame : Becomes(t, g) /\ g.pc = "check"
      BY <1>4, <1>7, <2>3 DEF Recheck, beanVars
    <3>2. Turns(t, g)
      BY <1>7, <2>1, <2>3, <3>1 DEF Recheck, Turns, Becomes
    <3> QED
      BY <3>2
  <2> QED
    BY <2>2, <2>3
<1> QED
  BY <1>5, <1>6, <1>7

LEMMA LocksForm ==
  ASSUME TypeOK, StacksOK, NEW t \in Threads, Acquire(t) \/ Mark(t) \/ Unmark(t)
  PROVE  \E g \in Frame : Acquires(t, g) \/ Enrols(t, g) \/ Strikes(t, g)
<1>1. Depth(t) > 0 /\ raised[t] = "none"
  BY DEF Acquire, Mark, Unmark, At
<1>2. FrameOK(Top(t)) /\ Top(t) \in Frame /\ Raised(t, "none")
  BY <1>1, TopFacts, RaisedSame DEF Acquire, Mark, Unmark
<1>3. ASSUME NEW p \in {"recheck", "fill", "set"}, Goto(t, p), UNCHANGED <<beanVars, calls>>,
             p = "recheck" => Top(t).pc = "lock", p = "fill" => Top(t).pc = "mark",
             p = "set" => Top(t).pc = "unmark"
      PROVE  \E g \in Frame : Becomes(t, g) /\ g.pc = p
  <2>1. PICK g \in Frame : /\ Replaces(t, g) /\ g.cls = Top(t).cls /\ g.pc = p /\ g.at = Top(t).at
                           /\ g.bean = Top(t).bean
    BY <1>1, <1>3, GotoForm
  <2>2. FrameOK(g)
    BY <1>2, <1>3, <2>1 DEF FrameOK
  <2>3. Becomes(t, g)
    BY <1>1, <1>2, <1>3, <2>1, <2>2 DEF Becomes, Counted, TypeOK, beanVars
  <2> QED
    BY <2>1, <2>3
<1>4. CASE Acquire(t)
  <2>1. PICK g \in Frame : Becomes(t, g) /\ g.pc = "recheck"
    BY <1>3, <1>4 DEF Acquire, At
  <2>2. Acquires(t, g)
    BY <1>4, <2>1 DEF Acquire, At, Acquires
  <2> QED
    BY <2>2
<1>5. CASE Mark(t)
  <2>1. PICK g \in Frame : Becomes(t, g) /\ g.pc = "fill"
    BY <1>3, <1>5 DEF Mark, At
  <2>2. Enrols(t, g)
    BY <1>5, <2>1 DEF Mark, At, Enrols, Becomes
  <2> QED
    BY <2>2
<1>6. CASE Unmark(t)
  <2>1. PICK g \in Frame : Becomes(t, g) /\ g.pc = "set"
    BY <1>3, <1>6 DEF Unmark, At
  <2>2. Strikes(t, g)
    BY <1>6, <2>1 DEF Unmark, At, Strikes, Becomes
  <2> QED
    BY <2>2
<1> QED
  BY <1>4, <1>5, <1>6

LEMMA AsksForm ==
  ASSUME TypeOK, StacksOK, NEW t \in Threads, Call(t) \/ Fill(t) \/ Fail(t)
  PROVE  (\E c \in Classes : Enters(t, c)) \/ (\E e \in Errors \cup {"none"} : Idles(t, e))
<1>1. CASE Call(t)
  <2>1. Depth(t) = 0 /\ raised[t] = "none" /\ stack[t] = <<>> /\ Raised(t, "none")
    BY <1>1, RaisedSame DEF Call, Depth
  <2>2. Counted
    BY <1>1 DEF Call, Counted, TypeOK, beanVars
  <2>3. PICK type \in Types : \/ Lookup(type).fails # "none" /\ UNCHANGED stack
                              \/ /\ Lookup(type).fails = "none"
                                 /\ stack' = [stack EXCEPT ![t] = <<NewFrame(Lookup(type).cls)>>]
    BY <1>1 DEF Call
  <2>4. CASE Lookup(type).fails # "none" /\ UNCHANGED stack
    <3>1. Idles(t, "none")
      BY <1>1, <2>1, <2>2, <2>4 DEF Call, Idles, beanVars
    <3> QED
      BY <3>1
  <2>5. CASE Lookup(type).fails = "none" /\ stack' = [stack EXCEPT ![t] = <<NewFrame(Lookup(type).cls)>>]
    <3>1. PICK c \in Classes : c = Lookup(type).cls
      BY <2>5, LookupType
    <3>2. Append(stack[t], NewFrame(c)) = <<NewFrame(c)>>
      BY <2>1
    <3>3. Pushes(t, NewFrame(c))
      BY <2>5, <3>1, <3>2 DEF Pushes
    <3>4. Enters(t, c)
      BY <1>1, <2>1, <2>2, <3>3 DEF Call, Enters, beanVars
    <3> QED
      BY <3>4
  <2> QED
    BY <2>3, <2>4, <2>5
<1>2. CASE Fill(t)
  <2>1. /\ Depth(t) > 0 /\ raised[t] = "none" /\ Waits(Top(t)) /\ Top(t) \in Frame /\ Top(t).cls \in Classes
        /\ Counted
    BY <1>2, TopFacts DEF Fill, At, Waits, Counted, TypeOK, beanVars
  <2>2. PICK target : /\ target.fails \in Errors \cup {"none"} /\ (target.fails = "none" => target.cls \in Classes)
                      /\ \/ /\ target.fails = "none"
                            /\ stack' = [stack EXCEPT ![t] = Append(@, NewFrame(target.cls))]
                            /\ UNCHANGED raised
                         \/ /\ target.fails # "none"
                            /\ raised' = [raised EXCEPT ![t] = target.fails]
                            /\ UNCHANGED stack
    <3> DEFINE p == PointsOf(Top(t).cls)[Top(t).at]
    <3>1. p \in Points
      <4>1. Top(t).at \in 1..Len(PointsOf(Top(t).cls))
        <5>1. Top(t).at \in Nat /\ Top(t).at <= Len(PointsOf(Top(t).cls))
          BY <1>2, <2>1 DEF Fill, Unfilled, Frame
        <5>2. Top(t).at # 0
          BY <2>1, TopFacts DEF FrameOK
        <5> QED
          BY <2>1, <5>1, <5>2, PointsType
      <4> QED
        BY <2>1, <4>1, PointsType
    <3> HIDE DEF p
    <3>2. Target(p).fails \in Errors \cup {"none"} /\ (Target(p).fails = "none" => Target(p).cls \in Classes)
      BY <3>1, TargetType
    <3> QED
      BY <1>2, <3>2 DEF Fill, p
  <2>3. CASE target.fails = "none"
    <3>1. Enters(t, target.cls)
      BY <1>2, <2>1, <2>2, <2>3 DEF Fill, Enters, Pushes, TypeOK, beanVars
    <3> QED
      BY <2>2, <2>3, <3>1
  <2>4. CASE target.fails # "none"
    <3>1. Idles(t, target.fails)
      BY <1>2, <2>1, <2>2, <2>4 DEF Fill, Idles, Raised, beanVars
    <3> QED
      BY <2>2, <2>4, <3>1
  <2> QED
    BY <2>3, <2>4
<1>3. CASE Fail(t)
  <2>1. Idles(t, "none")
    BY <1>3 DEF Fail, Idles, Raised, Counted, TypeOK, beanVars
  <2> QED
    BY <2>1
<1> QED
  BY <1>1, <1>2, <1>3

LEMMA EndsForm ==
  ASSUME TypeOK, StacksOK, NEW t \in Threads,
         (Check(t) /\ Top(t).cls \in resolving) \/ Unwind(t) \/ Set(t)
  PROVE  (\E n \in Nat : Yields(t, n)) \/ (\E e \in Errors : Drops(t, e))
<1>1. Depth(t) > 0
  BY DEF Check, Unwind, Set, At
<1>2. FrameOK(Top(t)) /\ Top(t) \in Frame /\ Top(t).cls \in Classes /\ (raised[t] # "none" => Waits(Top(t)))
  BY <1>1, TopFacts
<1>3. CASE Check(t) /\ Top(t).cls \in resolving
  <2>1. Drops(t, "cycle")
    BY <1>1, <1>3 DEF Check, At, Drops, Raise, Raised, Errors, Counted, TypeOK, beanVars
  <2> QED
    BY <2>1 DEF Errors
<1>4. CASE Unwind(t)
  <2>1. PICK e \in Errors : e = Reraised(raised[t])
    BY <1>4 DEF Unwind, Reraised, Errors, TypeOK
  <2>2. Drops(t, e)
    BY <1>1, <1>2, <1>4, <2>1 DEF Unwind, Waits, Drops, Raise, Raised, Counted, TypeOK, beanVars
  <2> QED
    BY <2>2
<1>5. CASE Set(t)
  <2>1. Top(t).pc = "set" /\ Top(t).bean \in Nat /\ Top(t).bean # 0 /\ Raised(t, "none")
    BY <1>2, <1>5, RaisedSame DEF Set, At, Frame, FrameOK
  <2>2. Counted
    <3>1. requested' \in [Threads -> [Classes -> Nat]]
      <4>1. [requested EXCEPT ![t][Top(t).cls] = Top(t).bean] \in [Threads -> [Classes -> Nat]]
        BY <1>2, <2>1 DEF TypeOK
      <4> QED
        BY <1>5, <4>1 DEF Set, TypeOK
    <3> QED
      BY <1>5, <3>1 DEF Set, Counted, TypeOK
  <2>3. Yields(t, Top(t).bean)
    BY <1>1, <1>5, <2>1, <2>2 DEF Set, Yields
  <2> QED
    BY <2>1, <2>3
<1> QED
  BY <1>3, <1>4, <1>5

(* Every step is one of these. *)
ThreadStep(t) ==
  \/ \E g \in Frame : Turns(t, g) \/ Acquires(t, g) \/ Enrols(t, g) \/ Strikes(t, g)
  \/ \E c \in Classes : Enters(t, c)
  \/ \E e \in Errors \cup {"none"} : Idles(t, e)
  \/ \E e \in Errors : Drops(t, e)
  \/ \E n \in Nat : Yields(t, n)

LEMMA StepForms ==
  ASSUME TypeOK, StacksOK, NEW t \in Threads, Call(t) \/ Resolve(t)
  PROVE  ThreadStep(t)
<1>1. CASE Call(t) \/ Fill(t) \/ Fail(t)
  BY <1>1, AsksForm DEF ThreadStep
<1>2. CASE LookSingleton(t) \/ LookRequest(t) \/ Recheck(t)
  BY <1>2, LooksForm DEF ThreadStep
<1>3. CASE Acquire(t) \/ Mark(t) \/ Unmark(t)
  BY <1>3, LocksForm DEF ThreadStep
<1>4. CASE (Check(t) /\ Top(t).cls \notin resolving) \/ Construct(t) \/ Filled(t) \/ Catch(t)
  BY <1>4, TurnsForm DEF ThreadStep
<1>5. CASE (Check(t) /\ Top(t).cls \in resolving) \/ Unwind(t) \/ Set(t)
  BY <1>5, EndsForm DEF ThreadStep
<1> QED
  BY <1>1, <1>2, <1>3, <1>4, <1>5 DEF Resolve

-----------------------------------------------------------------------------
(* Types.                                                                  *)

LEMMA RaisedType ==
  ASSUME TypeOK, NEW t \in Threads, NEW e, Raised(t, e)
  PROVE  /\ raised' \in [Threads -> Errors \cup {"none"}] /\ raised'[t] = e
         /\ \A u \in Threads : u # t => raised'[u] = raised[u]
BY DEF TypeOK, Raised

-----------------------------------------------------------------------------
(* The lock.                                                               *)

LEMMA HeldFacts ==
  ASSUME TypeOK, NEW t \in Threads
  PROVE  IsFiniteSet(Held(t)) /\ Cardinality(Held(t)) \in Nat
<1>1. IsFiniteSet(1..Depth(t)) /\ Held(t) \subseteq 1..Depth(t)
  BY DepthType, FS_Interval DEF Held
<1> QED
  BY <1>1, FS_Subset, FS_CardinalityType

(* Only the owner of the lock has frames that hold it. *)
LEMMA Exclusive ==
  ASSUME TypeOK, LockInv, NEW t \in Threads, NEW i \in 1..Depth(t), HoldsLock(stack[t][i])
  PROVE  lock.owner = t /\ lock.depth # 0
<1>1. Held(t) # {} /\ IsFiniteSet(Held(t))
  BY HeldFacts DEF Held
<1>2. Cardinality(Held(t)) # 0
  BY <1>1, FS_EmptySet
<1> QED
  BY <1>2 DEF LockInv

LEMMA TopHolds ==
  ASSUME TypeOK, LockInv, NEW t \in Threads, Depth(t) > 0, HoldsLock(Top(t))
  PROVE  lock.owner = t /\ lock.depth # 0
BY DepthType, Exclusive DEF Top

LEMMA HeldBecomes ==
  ASSUME TypeOK, NEW t \in Threads, NEW g \in Frame, Becomes(t, g)
  PROVE  /\ \A u \in Threads : u # t => Held(u)' = Held(u)
         /\ HoldsLock(g) => Held(t)' = Held(t) \cup {Depth(t)}
         /\ ~HoldsLock(g) => Held(t)' = Held(t) \ {Depth(t)}
<1>1. /\ \A u \in Threads : Depth(u)' = Depth(u)
      /\ stack'[t][Depth(t)] = g
      /\ \A u \in Threads : \A i \in 1..Depth(u) : (u # t \/ i # Depth(t)) => stack'[u][i] = stack[u][i]
      /\ Depth(t) \in 1..Depth(t)
  BY ReplaceFacts, DepthType DEF Becomes
<1>2. ASSUME NEW u \in Threads PROVE Held(u)' = {i \in 1..Depth(u) : HoldsLock(stack'[u][i])}
  BY <1>1 DEF Held, HoldsLock
<1>3. ASSUME NEW u \in Threads, u # t PROVE Held(u)' = Held(u)
  BY <1>1, <1>2, <1>3 DEF Held
<1>4. HoldsLock(g) => Held(t)' = Held(t) \cup {Depth(t)}
  BY <1>1, <1>2 DEF Held
<1>5. ~HoldsLock(g) => Held(t)' = Held(t) \ {Depth(t)}
  BY <1>1, <1>2 DEF Held
<1> QED
  BY <1>3, <1>4, <1>5

(* The frame that ends gives back what it holds. *)
LEMMA HeldEnds ==
  ASSUME TypeOK, LockInv, NEW t \in Threads, Depth(t) > 0, lock' = Unlocked(t),
         \A u \in Threads : u # t => Held(u)' = Held(u),
         Held(t)' = Held(t) \ {Depth(t)}
  PROVE  LockInv' /\ lock' \in [owner : Threads \cup {None}, depth : Nat]
<1>1. lock \in [owner : Threads \cup {None}, depth : Nat] /\ Depth(t) \in 1..Depth(t) /\ None \notin Threads
  BY DepthType, ContainerAssumption DEF TypeOK
<1>2. CASE ~HoldsLock(Top(t))
  <2>1. lock' = lock /\ Held(t)' = Held(t)
    BY <1>2, UnlockedFree DEF Held, Top
  <2> QED
    BY <1>1, <2>1 DEF LockInv
<1>3. CASE HoldsLock(Top(t))
  <2>1. lock.owner = t /\ lock.depth # 0 /\ lock.depth \in Nat
    BY <1>1, <1>3, TopHolds
  <2>2. Depth(t) \in Held(t)
    BY <1>1, <1>3 DEF Held, Top
  <2>3. Cardinality(Held(t)') = lock.depth - 1
    BY <2>1, <2>2, HeldFacts, FS_RemoveElement DEF LockInv
  <2>4. \A u \in Threads : u # t => Cardinality(Held(u)') = 0
    BY <2>1 DEF LockInv
  <2>5. CASE lock.depth = 1
    <3>1. lock' = [owner |-> None, depth |-> 0]
      BY <1>3, <2>5 DEF Unlocked, Release
    <3> QED
      BY <1>1, <2>1, <2>3, <2>4, <2>5, <3>1 DEF LockInv
  <2>6. CASE lock.depth # 1
    <3>1. lock' = [lock EXCEPT !.depth = @ - 1]
      BY <1>3, <2>6 DEF Unlocked, Release
    <3>2. lock' \in [owner : Threads \cup {None}, depth : Nat] /\ lock'.owner = t
          /\ lock'.depth = lock.depth - 1 /\ lock'.depth # 0
      BY <1>1, <2>1, <2>6, <3>1
    <3> QED
      BY <1>1, <2>1, <2>3, <2>4, <3>2 DEF LockInv
  <2> QED
    BY <2>5, <2>6
<1> QED
  BY <1>2, <1>3

LEMMA LockStep ==
  ASSUME TypeOK, StacksOK, LockInv, NEW t \in Threads, ThreadStep(t)
  PROVE  LockInv' /\ lock' \in [owner : Threads \cup {None}, depth : Nat]
<1>1. lock \in [owner : Threads \cup {None}, depth : Nat] /\ None \notin Threads
  BY ContainerAssumption DEF TypeOK
<1>2. ASSUME NEW g \in Frame, Turns(t, g) \/ Enrols(t, g) \/ Strikes(t, g)
      PROVE  LockInv' /\ lock' \in [owner : Threads \cup {None}, depth : Nat]
  <2>1. Becomes(t, g) /\ lock' = lock /\ FrameOK(Top(t)) /\ g.cls = Top(t).cls /\ Depth(t) > 0
        /\ g.cls \in Classes
    BY <1>2, TopFacts DEF Turns, Enrols, Strikes, Becomes
  <2>2. HoldsLock(g) <=> HoldsLock(Top(t))
    BY <1>2, <2>1 DEF Turns, Enrols, Strikes, HoldsLock, FrameOK, Singletons
  <2>3. HoldsLock(Top(t)) <=> Depth(t) \in Held(t)
    BY <2>1, DepthType DEF Held, Top
  <2>4. \A u \in Threads : Held(u)' = Held(u)
    BY <2>1, <2>2, <2>3, HeldBecomes
  <2> QED
    BY <1>1, <2>1, <2>4 DEF LockInv
<1>3. ASSUME NEW g \in Frame, Acquires(t, g)
      PROVE  LockInv' /\ lock' \in [owner : Threads \cup {None}, depth : Nat]
  <2>1. Becomes(t, g) /\ Depth(t) > 0 /\ FrameOK(Top(t)) /\ Top(t).pc = "lock" /\ g.pc = "recheck"
        /\ g.cls \in Singletons
    BY <1>3, TopFacts DEF Acquires, Becomes, FrameOK
  <2>2. HoldsLock(g) /\ Depth(t) \notin Held(t)
    BY <2>1 DEF HoldsLock, Singletons, Held, Top
  <2>3. Held(t)' = Held(t) \cup {Depth(t)} /\ \A u \in Threads : u # t => Held(u)' = Held(u)
    BY <2>1, <2>2, HeldBecomes
  <2>4. Cardinality(Held(t)') = Cardinality(Held(t)) + 1
    BY <2>2, <2>3, HeldFacts, FS_AddElement
  <2>5. Cardinality(Held(t)) = lock.depth /\ \A u \in Threads : u # t => Cardinality(Held(u)) = 0
    BY <1>1, <1>3 DEF Acquires, LockInv
  <2>6. lock'.owner = t /\ lock'.depth = lock.depth + 1 /\ lock.depth \in Nat /\ t # None
        /\ lock' \in [owner : Threads \cup {None}, depth : Nat]
    BY <1>1, <1>3 DEF Acquires
  <2>7. \A u \in Threads : Cardinality(Held(u)') = IF lock'.owner = u THEN lock'.depth ELSE 0
    BY <2>3, <2>4, <2>5, <2>6
  <2>8. lock'.depth # 0
    BY <2>6
  <2> QED
    BY <2>6, <2>7, <2>8 DEF LockInv
<1>4. ASSUME NEW c \in Classes, Enters(t, c)
      PROVE  LockInv' /\ lock' \in [owner : Threads \cup {None}, depth : Nat]
  <2>1. NewFrame(c) \in Frame /\ ~HoldsLock(NewFrame(c)) /\ lock' = lock
    BY <1>4, NewFrameType DEF Enters
  <2>2. /\ Depth(t)' = Depth(t) + 1 /\ \A u \in Threads : u # t => Depth(u)' = Depth(u)
        /\ stack'[t][Depth(t) + 1] = NewFrame(c)
        /\ \A u \in Threads : \A i \in 1..Depth(u) : stack'[u][i] = stack[u][i]
    BY <1>4, <2>1, PushFacts DEF Enters
  <2>3. ASSUME NEW u \in Threads PROVE Held(u)' = {i \in 1..Depth(u)' : HoldsLock(stack'[u][i])}
    BY DEF Held, HoldsLock
  <2>4. ASSUME NEW u \in Threads PROVE Held(u)' = Held(u)
    <3>1. CASE u = t
      BY <2>1, <2>2, <2>3, <3>1, DepthType DEF Held
    <3>2. CASE u # t
      BY <2>2, <2>3, <3>2 DEF Held
    <3> QED
      BY <3>1, <3>2
  <2> QED
    BY <1>1, <2>1, <2>4 DEF LockInv
<1>5. ASSUME NEW e, Idles(t, e)
      PROVE  LockInv' /\ lock' \in [owner : Threads \cup {None}, depth : Nat]
  BY <1>1, <1>5 DEF Idles, LockInv, Held, Depth, HoldsLock
<1>6. ASSUME NEW e, Drops(t, e)
      PROVE  LockInv' /\ lock' \in [owner : Threads \cup {None}, depth : Nat]
  <2>1. /\ Depth(t) > 0 /\ lock' = Unlocked(t)
        /\ Depth(t)' = Depth(t) - 1 /\ \A u \in Threads : u # t => Depth(u)' = Depth(u)
        /\ \A u \in Threads : \A i \in 1..Depth(u)' : stack'[u][i] = stack[u][i]
    BY <1>6, PopFacts DEF Drops
  <2>2. ASSUME NEW u \in Threads PROVE Held(u)' = {i \in 1..Depth(u)' : HoldsLock(stack[u][i])}
    BY <2>1 DEF Held, HoldsLock
  <2>3. Held(t)' = Held(t) \ {Depth(t)}
    BY <2>1, <2>2, DepthType DEF Held
  <2>4. \A u \in Threads : u # t => Held(u)' = Held(u)
    BY <2>1, <2>2 DEF Held
  <2> QED
    BY <2>1, <2>3, <2>4, HeldEnds
<1>7. ASSUME NEW n \in Nat, Yields(t, n)
      PROVE  LockInv' /\ lock' \in [owner : Threads \cup {None}, depth : Nat]
  <2>1. /\ Depth(t) > 0 /\ lock' = Unlocked(t)
        /\ Depth(t)' = Depth(t) - 1 /\ \A u \in Threads : u # t => Depth(u)' = Depth(u)
        /\ \A u \in Threads : \A i \in 1..Depth(u)' :
             stack'[u][i] = IF u = t /\ i = Depth(t) - 1 THEN Moved(stack[u][i]) ELSE stack[u][i]
    BY <1>7, ReturnFacts DEF Yields, Return
  <2>2. ASSUME NEW u \in Threads PROVE Held(u)' = {i \in 1..Depth(u)' : HoldsLock(stack[u][i])}
    <3>1. \A i \in 1..Depth(u)' : i \in 1..Depth(u)
      BY <2>1, DepthType
    <3>2. \A i \in 1..Depth(u)' : HoldsLock(stack'[u][i]) <=> HoldsLock(stack[u][i])
      <4>1. \A f \in Frame : Moved(f).cls = f.cls /\ Moved(f).pc = f.pc
        BY DEF Moved, Frame
      <4> QED
        BY <2>1, <3>1, <4>1, DepthType DEF HoldsLock
    <3> QED
      BY <3>2 DEF Held, HoldsLock
  <2>3. Held(t)' = Held(t) \ {Depth(t)}
    BY <2>1, <2>2, DepthType DEF Held
  <2>4. \A u \in Threads : u # t => Held(u)' = Held(u)
    BY <2>1, <2>2 DEF Held
  <2> QED
    BY <2>1, <2>3, <2>4, HeldEnds
<1> QED
  BY <1>2, <1>3, <1>4, <1>5, <1>6, <1>7 DEF ThreadStep

-----------------------------------------------------------------------------
(* Types and stacks.                                                       *)

LEMMA TypeStep ==
  ASSUME TypeOK, StacksOK, LockInv, NEW t \in Threads, ThreadStep(t)
  PROVE  TypeOK'
<1>1. lock' \in [owner : Threads \cup {None}, depth : Nat]
  BY LockStep
<1>2. ASSUME NEW g \in Frame, Turns(t, g) \/ Acquires(t, g) \/ Enrols(t, g) \/ Strikes(t, g)
      PROVE  TypeOK'
  <2>1. Becomes(t, g) /\ g.cls \in Classes /\ resolving' \subseteq resolving \cup {g.cls}
    BY <1>2 DEF Turns, Acquires, Enrols, Strikes, Frame
  <2>2. stack' \in [Threads -> Seq(Frame)]
    BY <2>1, ReplaceFacts DEF Becomes
  <2>3. raised' \in [Threads -> Errors \cup {"none"}]
    BY <2>1, RaisedType DEF Becomes
  <2> QED
    BY <1>1, <2>1, <2>2, <2>3 DEF Becomes, Counted, TypeOK
<1>3. ASSUME NEW c \in Classes, Enters(t, c)
      PROVE  TypeOK'
  <2>1. stack' \in [Threads -> Seq(Frame)]
    BY <1>3, NewFrameType, PushFacts DEF Enters
  <2> QED
    BY <1>1, <1>3, <2>1 DEF Enters, Counted, TypeOK
<1>4. ASSUME NEW e, Idles(t, e)
      PROVE  TypeOK'
  <2>1. raised' \in [Threads -> Errors \cup {"none"}]
    BY <1>4, RaisedType DEF Idles
  <2> QED
    BY <1>1, <1>4, <2>1 DEF Idles, Counted, TypeOK
<1>5. ASSUME NEW e, Drops(t, e)
      PROVE  TypeOK'
  <2>1. stack' \in [Threads -> Seq(Frame)]
    BY <1>5, PopFacts DEF Drops
  <2>2. raised' \in [Threads -> Errors \cup {"none"}]
    BY <1>5, RaisedType DEF Drops
  <2> QED
    BY <1>1, <1>5, <2>1, <2>2 DEF Drops, Counted, TypeOK
<1>6. ASSUME NEW n \in Nat, Yields(t, n)
      PROVE  TypeOK'
  <2>1. stack' \in [Threads -> Seq(Frame)] /\ Top(t).cls \in Classes
    BY <1>6, ReturnFacts, DepthType DEF Yields, Return
  <2>2. raised' \in [Threads -> Errors \cup {"none"}]
    BY <1>6, RaisedType DEF Yields
  <2>3. instance' \in [Classes -> Nat] /\ handed' \in [Classes -> SUBSET Nat]
    BY <1>6, <2>1 DEF Yields, Return, TypeOK
  <2> QED
    BY <1>1, <1>6, <2>1, <2>2, <2>3 DEF Yields, Counted, TypeOK
<1> QED
  BY <1>2, <1>3, <1>4, <1>5, <1>6 DEF ThreadStep

LEMMA StacksStep ==
  ASSUME TypeOK, StacksOK, NEW t \in Threads, ThreadStep(t)
  PROVE  StacksOK'
<1> SUFFICES ASSUME NEW u \in Threads, NEW i \in 1..Depth(u)'
             PROVE  FrameOK(stack'[u][i]) /\ (i < Depth(u)' \/ raised'[u] # "none" => Waits(stack'[u][i]))
  BY DEF StacksOK, FrameOK, Waits, Unfilled, Constructs
<1>1. i \in 1..Depth(u) => FrameOK(stack[u][i]) /\ (i < Depth(u) \/ raised[u] # "none" => Waits(stack[u][i]))
  BY DEF StacksOK
<1>2. Depth(t) \in Nat /\ Depth(u) \in Nat /\ (Depth(t) > 0 => Depth(t) \in 1..Depth(t))
  BY DepthType
<1>3. ASSUME NEW g \in Frame, Turns(t, g) \/ Acquires(t, g) \/ Enrols(t, g) \/ Strikes(t, g)
      PROVE  FrameOK(stack'[u][i]) /\ (i < Depth(u)' \/ raised'[u] # "none" => Waits(stack'[u][i]))
  <2>1. Becomes(t, g)
    BY <1>3 DEF Turns, Acquires, Enrols, Strikes
  <2>2. raised'[t] = "none" /\ (u # t => raised'[u] = raised[u])
    BY <2>1, RaisedType DEF Becomes
  <2>3. /\ Depth(u)' = Depth(u) /\ stack'[t][Depth(t)] = g
        /\ (u # t \/ i # Depth(t)) /\ i \in 1..Depth(u) => stack'[u][i] = stack[u][i]
    BY <2>1, ReplaceFacts DEF Becomes
  <2> QED
    BY <1>1, <1>2, <2>1, <2>2, <2>3 DEF Becomes
<1>4. ASSUME NEW c \in Classes, Enters(t, c)
      PROVE  FrameOK(stack'[u][i]) /\ (i < Depth(u)' \/ raised'[u] # "none" => Waits(stack'[u][i]))
  <2>1. NewFrame(c) \in Frame /\ FrameOK(NewFrame(c))
    BY NewFrameType
  <2>2. /\ Depth(t)' = Depth(t) + 1 /\ (u # t => Depth(u)' = Depth(u))
        /\ stack'[t][Depth(t) + 1] = NewFrame(c)
        /\ i \in 1..Depth(u) => stack'[u][i] = stack[u][i]
    BY <1>4, <2>1, PushFacts DEF Enters
  <2>3. raised' = raised /\ raised[t] = "none" /\ (Depth(t) > 0 => Waits(stack[t][Depth(t)]))
    BY <1>4 DEF Enters, Top
  <2>4. CASE u # t
    BY <1>1, <2>2, <2>3, <2>4
  <2>5. CASE u = t /\ i = Depth(t) + 1
    BY <1>2, <2>1, <2>2, <2>3, <2>5
  <2>6. CASE u = t /\ i # Depth(t) + 1
    <3>1. i \in 1..Depth(t)
      BY <1>2, <2>2, <2>6
    <3> QED
      BY <1>1, <1>2, <2>2, <2>3, <2>6, <3>1
  <2> QED
    BY <2>4, <2>5, <2>6
<1>5. ASSUME NEW e, Idles(t, e)
      PROVE  FrameOK(stack'[u][i]) /\ (i < Depth(u)' \/ raised'[u] # "none" => Waits(stack'[u][i]))
  <2>1. raised'[t] = e /\ (u # t => raised'[u] = raised[u]) /\ stack' = stack /\ Depth(u)' = Depth(u)
    BY <1>5, RaisedType DEF Idles, Depth
  <2>2. e # "none" /\ Depth(t) > 0 => Waits(stack[t][Depth(t)])
    BY <1>5 DEF Idles, Top
  <2> QED
    BY <1>1, <1>2, <2>1, <2>2
<1>6. ASSUME NEW e, Drops(t, e)
      PROVE  FrameOK(stack'[u][i]) /\ (i < Depth(u)' \/ raised'[u] # "none" => Waits(stack'[u][i]))
  <2>1. /\ Depth(t) > 0 /\ Depth(t)' = Depth(t) - 1 /\ (u # t => Depth(u)' = Depth(u))
        /\ stack'[u][i] = stack[u][i]
    BY <1>6, PopFacts DEF Drops
  <2>2. u # t => raised'[u] = raised[u]
    BY <1>6, RaisedType DEF Drops
  <2> QED
    BY <1>1, <1>2, <2>1, <2>2
<1>7. ASSUME NEW n \in Nat, Yields(t, n)
      PROVE  FrameOK(stack'[u][i]) /\ (i < Depth(u)' \/ raised'[u] # "none" => Waits(stack'[u][i]))
  <2>1. /\ Depth(t) > 0 /\ Depth(t)' = Depth(t) - 1 /\ (u # t => Depth(u)' = Depth(u))
        /\ stack'[u][i] = IF u = t /\ i = Depth(t) - 1 THEN Moved(stack[u][i]) ELSE stack[u][i]
    BY <1>7, ReturnFacts DEF Yields, Return
  <2>2. raised'[t] = "none" /\ (u # t => raised'[u] = raised[u])
    BY <1>7, RaisedType DEF Yields
  <2>3. CASE u = t /\ i = Depth(t) - 1
    <3>1. i \in 1..Depth(u) /\ i < Depth(u) /\ stack[u][i] \in Frame
      BY <1>2, <2>3, DepthType
    <3>2. FrameOK(Moved(stack[u][i]))
      BY <1>1, <3>1, MovedFacts
    <3> QED
      BY <2>1, <2>2, <2>3, <3>2
  <2>4. CASE ~(u = t /\ i = Depth(t) - 1)
    BY <1>1, <1>2, <2>1, <2>2, <2>4
  <2> QED
    BY <2>3, <2>4
<1> QED
  BY <1>3, <1>4, <1>5, <1>6, <1>7 DEF ThreadStep

(* All frames but the innermost of the thread keep their class and place.  *)
LEMMA FramesKept ==
  ASSUME TypeOK, NEW t \in Threads, ThreadStep(t)
  PROVE  /\ \A u \in Threads : \A i \in 1..Depth(u) :
              (u # t \/ i # Depth(t)) =>
                /\ i \in 1..Depth(u)'
                /\ stack'[u][i].cls = stack[u][i].cls /\ stack'[u][i].pc = stack[u][i].pc
         /\ \A u \in Threads : \A i \in 1..Depth(u)' : (u # t \/ i < Depth(t)) => i \in 1..Depth(u)
<1> \A u \in Threads : Depth(u) \in Nat
  BY DepthType
<1>1. ASSUME NEW g \in Frame, Replaces(t, g), Depth(t) > 0
      PROVE  /\ \A u \in Threads : Depth(u)' = Depth(u)
             /\ \A u \in Threads : \A i \in 1..Depth(u) : (u # t \/ i # Depth(t)) => stack'[u][i] = stack[u][i]
  BY <1>1, ReplaceFacts
<1>2. ASSUME NEW c \in Classes, Enters(t, c)
      PROVE  /\ Depth(t)' = Depth(t) + 1 /\ \A u \in Threads : u # t => Depth(u)' = Depth(u)
             /\ \A u \in Threads : \A i \in 1..Depth(u) : stack'[u][i] = stack[u][i]
  BY <1>2, NewFrameType, PushFacts DEF Enters
<1>3. ASSUME NEW e, Drops(t, e)
      PROVE  /\ Depth(t) > 0 /\ Depth(t)' = Depth(t) - 1 /\ \A u \in Threads : u # t => Depth(u)' = Depth(u)
             /\ \A u \in Threads : \A i \in 1..Depth(u)' : stack'[u][i] = stack[u][i]
  BY <1>3, PopFacts DEF Drops
<1>4. ASSUME NEW n \in Nat, Yields(t, n)
      PROVE  /\ Depth(t) > 0 /\ Depth(t)' = Depth(t) - 1 /\ \A u \in Threads : u # t => Depth(u)' = Depth(u)
             /\ \A u \in Threads : \A i \in 1..Depth(u)' :
                  i \in 1..Depth(u) /\ stack'[u][i].cls = stack[u][i].cls /\ stack'[u][i].pc = stack[u][i].pc
  <2>1. /\ Depth(t) > 0 /\ Depth(t)' = Depth(t) - 1 /\ \A u \in Threads : u # t => Depth(u)' = Depth(u)
        /\ \A u \in Threads : \A i \in 1..Depth(u)' :
             stack'[u][i] = IF u = t /\ i = Depth(t) - 1 THEN Moved(stack[u][i]) ELSE stack[u][i]
    BY <1>4, ReturnFacts DEF Yields, Return
  <2>2. \A f \in Frame : Moved(f).cls = f.cls /\ Moved(f).pc = f.pc
    BY DEF Moved, Frame
  <2>3. \A u \in Threads : \A i \in 1..Depth(u)' : i \in 1..Depth(u) /\ stack[u][i] \in Frame
    BY <2>1, DepthType
  <2> QED
    BY <2>1, <2>2, <2>3
<1>5. ASSUME NEW e, Idles(t, e) PROVE stack' = stack /\ \A u \in Threads : Depth(u)' = Depth(u)
  BY <1>5 DEF Idles, Depth
<1>6. CASE \E g \in Frame : Turns(t, g) \/ Acquires(t, g) \/ Enrols(t, g) \/ Strikes(t, g)
  BY <1>1, <1>6 DEF Turns, Acquires, Enrols, Strikes, Becomes
<1>7. CASE \E c \in Classes : Enters(t, c)
  BY <1>2, <1>7
<1>8. CASE \E e \in Errors : Drops(t, e)
  BY <1>3, <1>8
<1>9. CASE \E n \in Nat : Yields(t, n)
  BY <1>4, <1>9
<1>10. CASE \E e \in Errors \cup {"none"} : Idles(t, e)
  BY <1>5, <1>10
<1> QED
  BY <1>6, <1>7, <1>8, <1>9, <1>10 DEF ThreadStep

(* A frame of a new state is the frame that was there, the one that the    *)
(* thread has just moved on, or one it has just put on its stack.          *)
LEMMA FrameWas ==
  ASSUME TypeOK, NEW t \in Threads, ThreadStep(t), NEW u \in Threads, NEW i \in 1..Depth(u)'
  PROVE  \/ /\ i \in 1..Depth(u)
            /\ stack'[u][i].cls = stack[u][i].cls /\ stack'[u][i].pc = stack[u][i].pc
         \/ /\ u = t /\ i = Depth(t) /\ Depth(t) > 0
            /\ \E g \in Frame : /\ stack'[u][i] = g
                                /\ Turns(t, g) \/ Acquires(t, g) \/ Enrols(t, g) \/ Strikes(t, g)
         \/ \E c \in Classes : Enters(t, c) /\ u = t /\ i = Depth(t) + 1 /\ stack'[u][i] = NewFrame(c)
<1> Depth(t) \in Nat /\ Depth(u) \in Nat /\ (Depth(t) > 0 => Depth(t) \in 1..Depth(t))
  BY DepthType
<1>1. CASE u # t \/ i < Depth(t)
  BY <1>1, FramesKept
<1>2. CASE u = t /\ i >= Depth(t)
  <2>1. ASSUME NEW g \in Frame, Turns(t, g) \/ Acquires(t, g) \/ Enrols(t, g) \/ Strikes(t, g)
        PROVE  i = Depth(t) /\ stack'[t][i] = g /\ Depth(t) > 0
    <3>1. Becomes(t, g)
      BY <2>1 DEF Turns, Acquires, Enrols, Strikes
    <3>2. Depth(t)' = Depth(t) /\ stack'[t][Depth(t)] = g /\ Depth(t) > 0
      BY <3>1, ReplaceFacts DEF Becomes
    <3> QED
      BY <1>2, <3>2
  <2>2. ASSUME NEW c \in Classes, Enters(t, c)
        PROVE  \/ i = Depth(t) + 1 /\ stack'[t][i] = NewFrame(c)
               \/ i \in 1..Depth(t) /\ stack'[t][i] = stack[t][i]
    <3>1. /\ Depth(t)' = Depth(t) + 1 /\ stack'[t][Depth(t) + 1] = NewFrame(c)
          /\ \A j \in 1..Depth(t) : stack'[t][j] = stack[t][j]
      BY <2>2, NewFrameType, PushFacts DEF Enters
    <3> QED
      BY <1>2, <3>1
  <2>3. ASSUME NEW e, Idles(t, e) PROVE i \in 1..Depth(t) /\ stack'[t][i] = stack[t][i]
    BY <1>2, <2>3 DEF Idles, Depth
  <2>4. ASSUME NEW e, Drops(t, e) PROVE FALSE
    <3>1. Depth(t)' = Depth(t) - 1
      BY <2>4, PopFacts DEF Drops
    <3> QED
      BY <1>2, <3>1
  <2>5. ASSUME NEW m \in Nat, Yields(t, m) PROVE FALSE
    <3>1. Depth(t)' = Depth(t) - 1
      BY <2>5, ReturnFacts DEF Yields, Return
    <3> QED
      BY <1>2, <3>1
  <2> QED
    BY <1>2, <2>1, <2>2, <2>3, <2>4, <2>5 DEF ThreadStep
<1> QED
  BY <1>1, <1>2

-----------------------------------------------------------------------------
(* The creation of a singleton.                                            *)

(* Only one frame of all threads is inside the creation of a singleton.    *)
LEMMA Alone ==
  ASSUME TypeOK, LockInv, DistinctInv,
         NEW t \in Threads, NEW u \in Threads, NEW i \in 1..Depth(t), NEW j \in 1..Depth(u),
         Inside(stack[t][i]), Inside(stack[u][j]), stack[t][i].cls = stack[u][j].cls
  PROVE  t = u /\ i = j
<1>1. HoldsLock(stack[t][i]) /\ HoldsLock(stack[u][j])
  BY DEF Inside, HoldsLock, Singletons
<1>2. lock.owner = t /\ lock.owner = u
  BY <1>1, Exclusive
<1> QED
  BY <1>2 DEF DistinctInv

LEMMA DistinctStep ==
  ASSUME TypeOK, StacksOK, MarkedInv, DistinctInv, NEW t \in Threads, ThreadStep(t)
  PROVE  DistinctInv'
<1>1. ASSUME NEW u \in Threads, NEW i \in 1..Depth(u)', Inside(stack'[u][i])
      PROVE  \/ i \in 1..Depth(u) /\ Inside(stack[u][i]) /\ stack[u][i].cls = stack'[u][i].cls
             \/ u = t /\ i = Depth(t) /\ stack'[u][i].cls \notin resolving
  <2>1. CASE /\ i \in 1..Depth(u)
             /\ stack'[u][i].cls = stack[u][i].cls /\ stack'[u][i].pc = stack[u][i].pc
    BY <1>1, <2>1 DEF Inside
  <2>2. ASSUME u = t, i = Depth(t), Depth(t) > 0, NEW g \in Frame, stack'[u][i] = g,
               Turns(t, g) \/ Acquires(t, g) \/ Enrols(t, g) \/ Strikes(t, g)
        PROVE  \/ i \in 1..Depth(u) /\ Inside(stack[u][i]) /\ stack[u][i].cls = stack'[u][i].cls
               \/ u = t /\ i = Depth(t) /\ stack'[u][i].cls \notin resolving
    <3>1. i \in 1..Depth(u) /\ stack[u][i] = Top(t) /\ g.cls = Top(t).cls
      BY <2>2, DepthType DEF Top, Turns, Acquires, Enrols, Strikes, Becomes
    <3> QED
      BY <1>1, <2>2, <3>1 DEF Inside, Turns, Acquires, Enrols, Strikes
  <2>3. ASSUME NEW c \in Classes, stack'[u][i] = NewFrame(c) PROVE FALSE
    BY <1>1, <2>3, NewFrameType
  <2> QED
    BY <2>1, <2>2, <2>3, FrameWas
<1>2. ASSUME NEW u \in Threads, NEW j \in 1..Depth(u), Inside(stack[u][j]), u = t, j # Depth(t)
      PROVE  stack[u][j].cls \in resolving
  <2>1. stack[u][j].pc = "fill" /\ stack[u][j].cls \in Singletons
    BY <1>2, DepthType DEF StacksOK, Waits, Inside
  <2> QED
    BY <2>1 DEF MarkedInv, Marks
<1>3. ASSUME NEW u \in Threads, NEW i \in 1..Depth(u)', NEW j \in 1..Depth(u)',
             Inside(stack'[u][i]), Inside(stack'[u][j]), stack'[u][i].cls = stack'[u][j].cls
      PROVE  i = j
  BY <1>1, <1>2, <1>3 DEF DistinctInv
<1> QED
  BY <1>3 DEF DistinctInv, Inside

LEMMA FreshStep ==
  ASSUME TypeOK, StacksOK, LockInv, DistinctInv, FreshInv, NEW t \in Threads, ThreadStep(t)
  PROVE  FreshInv'
<1> SUFFICES ASSUME NEW u \in Threads, NEW i \in 1..Depth(u)', Creates(stack'[u][i])
             PROVE  instance'[stack'[u][i].cls] = 0
  BY DEF FreshInv, Creates
<1>1. CASE /\ i \in 1..Depth(u)
           /\ stack'[u][i].cls = stack[u][i].cls /\ stack'[u][i].pc = stack[u][i].pc
  <2>1. Creates(stack[u][i]) /\ instance[stack[u][i].cls] = 0
    BY <1>1 DEF Creates, FreshInv
  <2>2. CASE instance' = instance
    BY <1>1, <2>1, <2>2
  <2>3. CASE instance' # instance
    <3>1. PICK m \in Nat : Yields(t, m)
      BY <2>3 DEF ThreadStep, Turns, Acquires, Enrols, Strikes, Becomes, Enters, Idles, Drops
    <3>2. Depth(t) > 0 /\ Top(t).pc = "set" /\ Top(t).cls \in Singletons
          /\ instance' = [instance EXCEPT ![Top(t).cls] = m]
      BY <2>3, <3>1 DEF Yields
    <3>3. stack[u][i].cls # Top(t).cls
      <4> SUFFICES ASSUME stack[u][i].cls = Top(t).cls PROVE FALSE
        OBVIOUS
      <4>1. HoldsLock(stack[u][i]) /\ HoldsLock(stack[t][Depth(t)]) /\ Depth(t) \in 1..Depth(t)
        BY <2>1, <3>2, DepthType DEF Creates, HoldsLock, Singletons, Top
      <4>2. u = t
        BY <1>1, <4>1, Exclusive
      <4>3. Depth(t)' = Depth(t) - 1 /\ Depth(t) \in Nat
        BY <3>1, <4>1, ReturnFacts, DepthType DEF Yields, Return
      <4>4. i < Depth(t)
        BY <4>2, <4>3
      <4>5. stack[u][i].pc = "fill"
        BY <1>1, <4>2, <4>4 DEF StacksOK, Waits
      <4>6. Inside(stack[u][i]) /\ Inside(stack[t][Depth(t)])
        BY <2>1, <3>2, <4>5 DEF Inside, Creates, Top
      <4> QED
        BY <1>1, <4>1, <4>2, <4>4, <4>6 DEF DistinctInv, Top
    <3> QED
      BY <1>1, <2>1, <3>2, <3>3 DEF TypeOK
  <2> QED
    BY <2>2, <2>3
<1>2. ASSUME u = t, i = Depth(t), Depth(t) > 0, NEW g \in Frame, stack'[u][i] = g,
             Turns(t, g) \/ Acquires(t, g) \/ Enrols(t, g) \/ Strikes(t, g)
      PROVE  instance'[stack'[u][i].cls] = 0
  <2>1. i \in 1..Depth(u) /\ stack[u][i] = Top(t) /\ g.cls = Top(t).cls /\ instance' = instance
    BY <1>2, DepthType DEF Top, Turns, Acquires, Enrols, Strikes, Becomes
  <2>2. Creates(stack[u][i]) \/ instance[g.cls] = 0
    BY <1>2, <2>1 DEF Creates, Turns, Acquires, Enrols, Strikes
  <2> QED
    BY <1>2, <2>1, <2>2 DEF FreshInv
<1>3. ASSUME NEW c \in Classes, stack'[u][i] = NewFrame(c) PROVE FALSE
  BY <1>3, NewFrameType
<1> QED
  BY <1>1, <1>2, <1>3, FrameWas

LEMMA HandedStep ==
  ASSUME TypeOK, FreshInv, HandedInv, NEW t \in Threads, ThreadStep(t)
  PROVE  HandedInv'
<1>1. CASE UNCHANGED <<instance, handed>>
  BY <1>1 DEF HandedInv
<1>2. ASSUME NEW n \in Nat, Yields(t, n)
      PROVE  HandedInv'
  <2> DEFINE c == Top(t).cls
  <2>1. Depth(t) > 0 /\ c \in Classes /\ handed' = [handed EXCEPT ![c] = @ \cup {n}]
    BY <1>2, DepthType DEF Yields, Return
  <2>2. /\ \A d \in Classes : d # c => handed'[d] = handed[d] /\ instance'[d] = instance[d]
        /\ handed'[c] = handed[c] \cup {n}
    BY <1>2, <2>1 DEF Yields, TypeOK
  <2>3. c \in Singletons => n = instance'[c] /\ n # 0 /\ handed[c] \subseteq {n}
    <3>1. CASE Top(t).pc # "set"
      BY <1>2, <2>1, <3>1 DEF Yields, HandedInv
    <3>2. CASE Top(t).pc = "set" /\ c \in Singletons
      <4>1. Creates(stack[t][Depth(t)]) /\ Depth(t) \in 1..Depth(t)
        BY <2>1, <3>2, DepthType DEF Creates, Top
      <4>2. instance[c] = 0
        BY <4>1 DEF FreshInv, Top
      <4>3. handed[c] = {}
        BY <3>2, <4>2 DEF HandedInv
      <4>4. n = instance'[c] /\ n # 0
        BY <1>2, <2>1, <3>2 DEF Yields, TypeOK
      <4> QED
        BY <4>3, <4>4
    <3> QED
      BY <3>1, <3>2
  <2> HIDE DEF c
  <2> QED
    BY <2>2, <2>3 DEF HandedInv, Singletons
<1> QED
  BY <1>1, <1>2 DEF ThreadStep, Turns, Acquires, Enrols, Strikes, Becomes, Enters, Idles, Drops

(* Whether another frame than the innermost one of the thread marks the    *)
(* class: no step of the thread changes that.                              *)
Elsewhere(t, c) ==
  \E u \in Threads : \E i \in 1..Depth(u) :
    (u # t \/ i # Depth(t)) /\ stack[u][i].cls = c /\ Marks(stack[u][i])
Innermost(t, c) == Depth(t) > 0 /\ Top(t).cls = c /\ Marks(Top(t))

LEMMA MarkedNow ==
  ASSUME TypeOK, LockInv, DistinctInv, MarkedInv, NEW t \in Threads, NEW c \in Singletons
  PROVE  /\ c \in resolving <=> Elsewhere(t, c) \/ Innermost(t, c)
         /\ Depth(t) > 0 /\ Top(t).cls = c /\ Inside(Top(t)) => ~Elsewhere(t, c)
<1> Depth(t) \in Nat /\ (Depth(t) > 0 => Depth(t) \in 1..Depth(t))
  BY DepthType
<1>1. c \in resolving <=> Elsewhere(t, c) \/ Innermost(t, c)
  BY DEF MarkedInv, Elsewhere, Innermost, Top
<1>2. ASSUME Depth(t) > 0, Top(t).cls = c, Inside(Top(t)), Elsewhere(t, c)
      PROVE  FALSE
  <2>1. PICK u \in Threads : \E i \in 1..Depth(u) :
          (u # t \/ i # Depth(t)) /\ stack[u][i].cls = c /\ Marks(stack[u][i])
    BY <1>2 DEF Elsewhere
  <2>2. PICK i \in 1..Depth(u) : (u # t \/ i # Depth(t)) /\ stack[u][i].cls = c /\ Marks(stack[u][i])
    BY <2>1
  <2>3. Inside(stack[u][i]) /\ Inside(stack[t][Depth(t)]) /\ stack[t][Depth(t)].cls = c
    BY <1>2, <2>2 DEF Inside, Marks, Top
  <2> QED
    BY <1>2, <2>2, <2>3, Alone
<1> QED
  BY <1>1, <1>2

LEMMA MarkedNext ==
  ASSUME TypeOK, NEW t \in Threads, ThreadStep(t), NEW c \in Singletons
  PROVE  (\E u \in Threads : \E i \in 1..Depth(u)' : stack'[u][i].cls = c /\ Marks(stack'[u][i]))
           <=> \/ Elsewhere(t, c)
               \/ \E i \in 1..Depth(t)' : i >= Depth(t) /\ stack'[t][i].cls = c /\ Marks(stack'[t][i])
<1> DEFINE Old(u, i) == stack[u][i].cls = c /\ Marks(stack[u][i])
           Now(u, i) == stack'[u][i].cls = c /\ Marks(stack'[u][i])
<1>1. /\ \A u \in Threads : \A i \in 1..Depth(u) :
           (u # t \/ i # Depth(t)) => i \in 1..Depth(u)' /\ (Now(u, i) <=> Old(u, i))
      /\ \A u \in Threads : \A i \in 1..Depth(u)' : (u # t \/ i < Depth(t)) => i \in 1..Depth(u)
  BY FramesKept DEF Marks
<1>2. \A i \in 1..Depth(t)' : i \in Int /\ Depth(t) \in Int
  BY DepthType
<1>3. Elsewhere(t, c) <=> \E u \in Threads : \E i \in 1..Depth(u) : (u # t \/ i # Depth(t)) /\ Old(u, i)
  BY DEF Elsewhere
<1> HIDE DEF Old, Now
<1>4. (\E u \in Threads : \E i \in 1..Depth(u)' : Now(u, i))
        <=> Elsewhere(t, c) \/ \E i \in 1..Depth(t)' : i >= Depth(t) /\ Now(t, i)
  <2>1. ASSUME NEW u \in Threads, NEW i \in 1..Depth(u)', Now(u, i), ~(u = t /\ i >= Depth(t))
        PROVE  Elsewhere(t, c)
    <3>1. u # t \/ i < Depth(t)
      BY <1>2, <2>1
    <3>2. i \in 1..Depth(u) /\ (u # t \/ i # Depth(t))
      BY <1>1, <1>2, <3>1
    <3> QED
      BY <1>1, <1>3, <2>1, <3>2
  <2>2. Elsewhere(t, c) => \E u \in Threads : \E i \in 1..Depth(u)' : Now(u, i)
    BY <1>1, <1>3
  <2> QED
    BY <2>1, <2>2
<1> QED
  BY <1>4 DEF Now

LEMMA MarkedStep ==
  ASSUME TypeOK, StacksOK, LockInv, DistinctInv, MarkedInv, NEW t \in Threads, ThreadStep(t)
  PROVE  MarkedInv'
<1> DEFINE New(c) == \E i \in 1..Depth(t)' : i >= Depth(t) /\ stack'[t][i].cls = c /\ Marks(stack'[t][i])
<1> SUFFICES ASSUME NEW c \in Singletons
             PROVE  c \in resolving' <=> Elsewhere(t, c) \/ New(c)
  BY MarkedNext DEF MarkedInv, Marks
<1>1. /\ c \in resolving <=> Elsewhere(t, c) \/ Innermost(t, c)
      /\ Depth(t) > 0 /\ Top(t).cls = c /\ Inside(Top(t)) => ~Elsewhere(t, c)
  BY MarkedNow
<1>2. Depth(t) \in Nat /\ (Depth(t) > 0 => Depth(t) \in 1..Depth(t))
  BY DepthType
<1>3. ASSUME NEW g \in Frame, Turns(t, g) \/ Acquires(t, g) \/ Enrols(t, g) \/ Strikes(t, g)
      PROVE  c \in resolving' <=> Elsewhere(t, c) \/ New(c)
  <2>1. Becomes(t, g) /\ Depth(t) > 0 /\ g.cls = Top(t).cls
    BY <1>3 DEF Turns, Acquires, Enrols, Strikes, Becomes
  <2>2. Depth(t)' = Depth(t) /\ stack'[t][Depth(t)] = g
    BY <2>1, ReplaceFacts DEF Becomes
  <2>3. New(c) <=> g.cls = c /\ Marks(g)
    BY <1>2, <2>1, <2>2
  <2> HIDE DEF New
  <2>4. CASE Turns(t, g) \/ Acquires(t, g)
    <3>1. resolving' = resolving /\ (Marks(g) <=> Marks(Top(t)))
      BY <2>4 DEF Turns, Acquires, Marks
    <3> QED
      BY <1>1, <2>1, <2>3, <3>1 DEF Innermost
  <2>5. CASE Enrols(t, g)
    <3>1. resolving' = resolving \cup {g.cls} /\ Marks(g) /\ ~Marks(Top(t))
      BY <2>5 DEF Enrols, Marks
    <3> QED
      BY <1>1, <2>1, <2>3, <3>1 DEF Innermost
  <2>6. CASE Strikes(t, g)
    <3>1. resolving' = resolving \ {g.cls} /\ ~Marks(g) /\ (Top(t).cls = c => Inside(Top(t)))
      BY <2>6 DEF Strikes, Marks, Inside
    <3> QED
      BY <1>1, <2>1, <2>3, <3>1 DEF Innermost
  <2> QED
    BY <1>3, <2>4, <2>5, <2>6
<1>4. ASSUME NEW d \in Classes, Enters(t, d)
      PROVE  c \in resolving' <=> Elsewhere(t, c) \/ New(c)
  <2>1. /\ Depth(t)' = Depth(t) + 1 /\ stack'[t][Depth(t) + 1] = NewFrame(d) /\ ~Marks(NewFrame(d))
        /\ \A i \in 1..Depth(t) : stack'[t][i] = stack[t][i]
        /\ resolving' = resolving
    BY <1>4, NewFrameType, PushFacts DEF Enters
  <2>2. New(c) <=> Innermost(t, c)
    BY <1>2, <2>1 DEF Innermost, Top
  <2> QED
    BY <1>1, <2>1, <2>2
<1>5. ASSUME NEW e, Idles(t, e)
      PROVE  c \in resolving' <=> Elsewhere(t, c) \/ New(c)
  <2>1. stack' = stack /\ Depth(t)' = Depth(t) /\ resolving' = resolving
    BY <1>5 DEF Idles, Depth
  <2>2. New(c) <=> Innermost(t, c)
    BY <1>2, <2>1 DEF Innermost, Top
  <2> QED
    BY <1>1, <2>1, <2>2
<1>6. ASSUME NEW e, Drops(t, e)
      PROVE  c \in resolving' <=> Elsewhere(t, c) \/ New(c)
  <2>1. Depth(t) > 0 /\ Depth(t)' = Depth(t) - 1
    BY <1>6, PopFacts DEF Drops
  <2>2. ~New(c)
    BY <1>2, <2>1
  <2>3. \/ ~Marks(Top(t)) /\ resolving' = resolving
        \/ Marks(Top(t)) /\ resolving' = resolving \ {Top(t).cls}
    BY <1>6 DEF Drops, Marks
  <2>4. Marks(Top(t)) /\ Top(t).cls = c => Inside(Top(t))
    BY DEF Marks, Inside
  <2> QED
    BY <1>1, <2>1, <2>2, <2>3, <2>4 DEF Innermost
<1>7. ASSUME NEW n \in Nat, Yields(t, n)
      PROVE  c \in resolving' <=> Elsewhere(t, c) \/ New(c)
  <2>1. Depth(t) > 0 /\ Depth(t)' = Depth(t) - 1
    BY <1>7, ReturnFacts DEF Yields, Return
  <2>2. ~New(c)
    BY <1>2, <2>1
  <2>3. ~Marks(Top(t)) /\ resolving' = resolving
    BY <1>7 DEF Yields, Marks
  <2> QED
    BY <1>1, <2>2, <2>3 DEF Innermost
<1> HIDE DEF New
<1> QED
  BY <1>3, <1>4, <1>5, <1>6, <1>7 DEF ThreadStep

-----------------------------------------------------------------------------
(* The invariant.                                                          *)

IInv ==
  /\ TypeOK
  /\ StacksOK
  /\ LockInv
  /\ MarkedInv
  /\ DistinctInv
  /\ FreshInv
  /\ HandedInv

LEMMA InitInv ==
  ASSUME Init PROVE IInv
<1>1. TypeOK
  BY ContainerAssumption DEF Init, TypeOK
<1>2. \A t \in Threads : Depth(t) = 0 /\ 1..Depth(t) = {}
  <2>1. \A t \in Threads : stack[t] = <<>>
    BY DEF Init
  <2>2. ASSUME NEW t \in Threads PROVE Depth(t) = 0
    <3>1. stack[t] = <<>>
      BY <2>1
    <3>2. Len(<<>>) = 0
      BY EmptySeq
    <3> QED
      BY <3>1, <3>2 DEF Depth
  <2>3. 1..0 = {}
    OBVIOUS
  <2> QED
    BY <2>2, <2>3
<1>3. LockInv
  <2>1. \A t \in Threads : Held(t) = {}
    BY <1>2 DEF Held
  <2>2. Cardinality({}) = 0
    BY FS_EmptySet
  <2>3. lock.owner = None /\ lock.depth = 0 /\ None \notin Threads
    BY ContainerAssumption DEF Init
  <2> QED
    BY <2>1, <2>2, <2>3 DEF LockInv
<1>4. StacksOK /\ DistinctInv /\ FreshInv
  <2>1. \A t \in Threads : raised[t] = "none"
    BY DEF Init
  <2> QED
    BY <1>2, <2>1 DEF StacksOK, DistinctInv, FreshInv
<1>5. MarkedInv
  BY <1>2 DEF Init, MarkedInv
<1>6. HandedInv
  BY DEF Init, HandedInv, Singletons
<1> QED
  BY <1>1, <1>3, <1>4, <1>5, <1>6 DEF IInv

LEMMA InvStep ==
  ASSUME IInv, [Next]_vars PROVE IInv'
<1>1. CASE UNCHANGED vars
  <2>1. \A t \in Threads : Depth(t)' = Depth(t) /\ Held(t)' = Held(t) /\ Top(t)' = Top(t)
    BY <1>1 DEF vars, beanVars, Depth, Held, HoldsLock, Top
  <2>2. TypeOK' /\ LockInv' /\ HandedInv'
    BY <1>1, <2>1 DEF IInv, vars, beanVars, TypeOK, LockInv, HandedInv
  <2>3. StacksOK'
    BY <1>1, <2>1 DEF IInv, vars, beanVars, StacksOK, FrameOK, Waits, Unfilled, Constructs
  <2>4. MarkedInv' /\ DistinctInv' /\ FreshInv'
    BY <1>1, <2>1 DEF IInv, vars, beanVars, MarkedInv, Marks, DistinctInv, Inside, FreshInv, Creates
  <2> QED
    BY <2>2, <2>3, <2>4 DEF IInv
<1>2. ASSUME NEW t \in Threads, Call(t) \/ Resolve(t) PROVE IInv'
  <2>1. TypeOK /\ StacksOK /\ LockInv /\ MarkedInv /\ DistinctInv /\ FreshInv /\ HandedInv
    BY DEF IInv
  <2>2. ThreadStep(t)
    BY <1>2, <2>1, StepForms
  <2>3. TypeOK' /\ StacksOK' /\ LockInv'
    BY <2>1, <2>2, TypeStep, StacksStep, LockStep
  <2>4. MarkedInv' /\ DistinctInv' /\ FreshInv' /\ HandedInv'
    BY <2>1, <2>2, MarkedStep, DistinctStep, FreshStep, HandedStep
  <2> QED
    BY <2>3, <2>4 DEF IInv
<1> QED
  BY <1>1, <1>2 DEF Next

(* The inductive invariant: types and the shape of the stacks; the lock    *)
(* counts the frames of its owner that hold it; the singletons under       *)
(* construction are those in _resolving, each constructed by one frame and *)
(* not there yet; and only instances have been handed out.                 *)
THEOREM Inductive == Spec => []IInv
<1>1. Init => IInv
  BY InitInv
<1>2. IInv /\ [Next]_vars => IInv'
  BY InvStep
<1> QED
  BY <1>1, <1>2, PTL DEF Spec

(* Every variable of the container keeps its type: an exception is one     *)
(* that resolve() may raise, the lock is held by a thread or by none.      *)
THEOREM TypeCorrect == Spec => []TypeOK
<1>1. IInv => TypeOK
  BY DEF IInv
<1> QED
  BY <1>1, Inductive, PTL

(* However many threads resolve a singleton at once, and however many of   *)
(* its creations failed before, all are given the same bean (the second    *)
(* look of _resolve_registration under the lock, and the lock held until   *)
(* the instance is set).                                                   *)
THEOREM OneSingletonHolds == Spec => []OneSingleton
<1>1. IInv => OneSingleton
  BY DEF IInv, HandedInv, OneSingleton
<1> QED
  BY <1>1, Inductive, PTL

(* A thread that finds a singleton in _resolving is constructing it itself *)
(* (the look of _create_instance under the lock, and its finally).         *)
THEOREM SingletonCycleIsRealHolds == Spec => []SingletonCycleIsReal
<1>1. ASSUME IInv PROVE SingletonCycleIsReal
  <2>1. TypeOK /\ LockInv /\ MarkedInv
    BY <1>1 DEF IInv
  <2> SUFFICES ASSUME NEW t \in Threads, At(t, "check"), Top(t).cls \in resolving \cap Singletons
               PROVE  Constructing(t, Top(t).cls)
    BY DEF SingletonCycleIsReal
  <2>2. Depth(t) > 0 /\ Depth(t) \in 1..Depth(t) /\ Depth(t) \in Nat /\ Top(t).pc = "check"
    BY <2>1, DepthType DEF At
  <2>3. PICK u \in Threads : \E i \in 1..Depth(u) : stack[u][i].cls = Top(t).cls /\ Marks(stack[u][i])
    BY <2>1 DEF MarkedInv
  <2>4. PICK i \in 1..Depth(u) : stack[u][i].cls = Top(t).cls /\ Marks(stack[u][i])
    BY <2>3
  <2>5. HoldsLock(stack[u][i]) /\ HoldsLock(stack[t][Depth(t)])
    BY <2>2, <2>4 DEF HoldsLock, Marks, Singletons, Top
  <2>6. u = t
    BY <2>1, <2>2, <2>5, Exclusive
  <2>7. i # Depth(t)
    BY <2>2, <2>4, <2>6 DEF Marks, Top
  <2>8. i \in 1..Depth(t) - 1
    BY <2>2, <2>6, <2>7
  <2> QED
    BY <2>4, <2>6, <2>8 DEF Constructing
<1> QED
  BY <1>1, Inductive, PTL

-----------------------------------------------------------------------------
(* PART TWO: the life of the context.                                      *)

-----------------------------------------------------------------------------
(* The invariants.                                                         *)

Injects(s) == \A i, j \in DOMAIN s : s[i] = s[j] => i = j

\* s is done, and then rest.
Splits(s, done, rest) ==
  /\ Len(done) + Len(rest) = Len(s)
  /\ \A n \in 1..Len(done) : done[n] = s[n]
  /\ \A n \in 1..Len(rest) : rest[n] = s[Len(done) + n]

\* done is what s begins with.
Begins(done, s) == Len(done) <= Len(s) /\ \A n \in 1..Len(done) : done[n] = s[n]

\* What the loop has still to call after the call it awaits.
Left == IF call = "no" THEN todo ELSE Tail(todo)

Indices == DOMAIN beans.reg

Later    == {"events", "runners", "running"}
Over     == {"destroying", "closing", "stopped"}
BeforeStop == {"new", "running", "failed"} \cup Starting

ContextType ==
  /\ app \in DOMAIN Programs
  /\ beans \in {Scanned(program), Configured(program), Eager(program, Configured(program))}
  /\ phase \in Phases /\ call \in {"no", "open", "hung"}
  /\ todo \in Seq(Indices) /\ adapters \in Seq(Indices) /\ heard \in Seq(Indices)
  /\ tasks \in Seq(Having(program, beans, "listener"))
  /\ started \in Seq(Indices) /\ stopped \in Seq(Indices)
  /\ constructed \in Seq(Indices) /\ destroyed \in Seq(Indices)

(* Where start() is, and what it has done.                                 *)
StartInv ==
  /\ call # "no" => todo # <<>>
  /\ phase \in {"running", "failed"} => todo = <<>>
  /\ phase = "new" => todo = <<>> /\ adapters = <<>> /\ started = <<>>
  /\ phase \in {"new", "adapters"} => constructed = <<>> /\ heard = <<>>
  /\ phase = "adapters" => beans = Configured(program) /\ Splits(adapters, started, todo)
  /\ phase = "hooks" => Splits(Instances(beans), constructed, todo)
  /\ phase \in Later => constructed = Instances(beans)

(* Nobody is wired to a bean whose hooks have not returned.                *)
WiredInv ==
  /\ phase \in {"new", "adapters", "hooks"} => tasks = <<>> /\ subs = <<>> /\ starter = "none"
  /\ tasks # <<>> \/ subs # <<>> \/ starter # "none" => constructed = Instances(beans)
  /\ tasks # <<>> => phase \in Later \cup {"failed"}

(* What stop() is to undo.                                                 *)
ListInv ==
  /\ Injects(adapters) /\ Begins(started, adapters)
  /\ constructed = <<>> \/ Begins(constructed, Instances(beans))

(* Where stop() is, and what it has undone.                                *)
StopInv ==
  /\ phase \in BeforeStop => stopped = <<>>
  /\ phase = "stopping" => Splits(Reverse(adapters), stopped, Left)
  /\ phase \in Over => stopped = Reverse(adapters)
  /\ phase \in BeforeStop \cup {"stopping"} => destroyed = <<>>
  /\ phase = "destroying" => Splits(Reverse(Instances(beans)), destroyed, Left)
  /\ phase \in {"closing", "stopped"} => destroyed = Reverse(Instances(beans))

ContextInv == StartInv /\ WiredInv /\ ListInv /\ StopInv

(* The scheduler by itself: before start() and after stop() nothing of it  *)
(* moves.                                                                  *)
SchedulerInv ==
  /\ Timer!TypeOK
  /\ starter # "done" => ~ticking /\ \A m \in Timer!Entries : loop[m] = "none" /\ active[m] = 0
  /\ stopper # "no" => starter \in {"done", "cancelled"} /\ ~ticking
  /\ stopper \in {"drain", "stopped"} => Timer!LoopsEnded
  /\ stopper = "stopped" => \A m \in Timer!Entries : active[m] = 0

(* The scheduler in the life of the context.                               *)
ShutdownInv ==
  /\ phase \in BeforeStop => stopper = "no"
  /\ phase \notin BeforeStop => starter # "pending"
  /\ stopped # <<>> \/ phase \in Over => Timer!Over

Calls == [snap : Seq(Handlers), at : Nat, groups : SUBSET Groups, calling : Handlers \cup {Nobody},
          served : [Handlers -> Nat], ended : BOOLEAN]

BrokerType ==
  /\ kind \in Kinds /\ running \in BOOLEAN /\ publishes \in 0..MaxPublishes
  /\ subs \in Seq(Handlers) /\ consumed \in SUBSET Handlers
  /\ turns \in [Groups -> [members : Seq(Handlers), next : Nat]]
  /\ pub \in [Publishers -> Calls]

\* An iterator of group g.
Turning(g, turn) ==
  turn.members # <<>> =>
    /\ turn.next \in 1..Len(turn.members)
    /\ \A n \in 1..Len(turn.members) : turn.members[n] \in HandlersOf(g)

\* Up to its position a call has served who it should.
ServedUpTo(c) ==
  /\ \A h \in Handlers : Group[h] = NoGroup => c.served[h] = Cardinality({i \in 1..c.at : c.snap[i] = h})
  /\ \A g \in c.groups : OneServed(c, HandlersOf(g)) /\ \E i \in DOMAIN c.snap : Group[c.snap[i]] = g
  /\ \A g \in Groups \ c.groups :
       NoneServed(c, HandlersOf(g)) /\ \A i \in 1..c.at : Group[c.snap[i]] # g

CallInv(c) ==
  /\ c.at <= Len(c.snap)
  /\ c.calling # Nobody => c.snap # <<>>
  /\ c.calling # Nobody \/ c.ended => ServedUpTo(c)
  /\ c.ended => c.calling = Nobody /\ Ahead(c) = {}

(* The broker and the calls of publish().                                  *)
BrokerInv ==
  /\ \A g \in Groups : Turning(g, turns[g])
  /\ \A p \in Publishers : CallInv(pub[p])
  /\ \A p \in Publishers : pub[p].snap # <<>> => subs # <<>>

ApplicationInv == ContextType /\ ContextInv /\ SchedulerInv /\ ShutdownInv /\ BrokerType /\ BrokerInv

-----------------------------------------------------------------------------
(* Sequences.                                                              *)

\* As many places as things: every place is taken.
LEMMA PlacesAreTaken ==
    ASSUME NEW S, IsFiniteSet(S), NEW place \in [S -> 1..Cardinality(S)],
           \A i, j \in S : place[i] = place[j] => i = j
    PROVE  \A n \in 1..Cardinality(S) : \E i \in S : place[i] = n
<1>1. Cardinality(S) \in Nat
  BY FS_CardinalityType
<1>2. IsFiniteSet(1..Cardinality(S)) /\ Cardinality(1..Cardinality(S)) = Cardinality(S)
  BY <1>1, FS_Interval
<1>3. place \in Injection(S, 1..Cardinality(S))
  BY DEF Injection, IsInjective
<1>4. place \in Surjection(S, 1..Cardinality(S))
  BY <1>2, <1>3, FS_Injection
<1> QED
  BY <1>4 DEF Surjection

\* Things in their places are a sequence of all of them, each once.
LEMMA ArrangedFacts ==
    ASSUME NEW S, IsFiniteSet(S), NEW place \in [S -> 1..Cardinality(S)],
           \A i, j \in S : place[i] = place[j] => i = j
    PROVE  /\ Arranged(place) \in Seq(S)
           /\ Len(Arranged(place)) = Cardinality(S)
           /\ Injects(Arranged(place))
           /\ ToSet(Arranged(place)) = S
<1> DEFINE s == Arranged(place)
<1>1. Cardinality(S) \in Nat /\ DOMAIN place = S
  BY FS_CardinalityType
<1>2. ASSUME NEW n \in 1..Cardinality(S)
      PROVE  s[n] \in S /\ place[s[n]] = n
  <2>1. \E i \in S : place[i] = n
    BY PlacesAreTaken
  <2>2. s[n] = CHOOSE i \in S : place[i] = n
    BY <1>1 DEF Arranged
  <2> QED
    BY <2>1, <2>2
<1>3. DOMAIN s = 1..Cardinality(S) /\ s = [n \in 1..Cardinality(S) |-> s[n]]
  BY <1>1 DEF Arranged
<1>4. s \in [1..Cardinality(S) -> S]
  BY <1>2, <1>3
<1>5. s \in Seq(S) /\ Len(s) = Cardinality(S)
  BY <1>1, <1>3, <1>4
<1>6. Injects(s)
  BY <1>2, <1>3 DEF Injects
<1>7. ASSUME NEW i \in S PROVE i \in ToSet(s)
  BY <1>2, <1>3 DEF ToSet
<1>8. ToSet(s) \subseteq S
  BY <1>2, <1>3 DEF ToSet
<1> QED
  BY <1>5, <1>6, <1>7, <1>8

\* How many are below or at each of a finite set of numbers is a place for it.
LEMMA RankFacts ==
    ASSUME NEW S, IsFiniteSet(S), S \subseteq Nat
    PROVE  LET place == [i \in S |-> Cardinality({j \in S : j <= i})]
           IN  /\ place \in [S -> 1..Cardinality(S)]
               /\ \A i, j \in S : place[i] = place[j] => i = j
<1> DEFINE Below(i) == {j \in S : j <= i}
<1>1. ASSUME NEW i \in S
      PROVE  IsFiniteSet(Below(i)) /\ Cardinality(Below(i)) \in 1..Cardinality(S)
  <2>1. i \in Below(i) /\ Below(i) \in SUBSET S
    OBVIOUS
  <2>2. IsFiniteSet(Below(i)) /\ Cardinality(Below(i)) <= Cardinality(S)
    BY <2>1, FS_Subset
  <2>3. Cardinality(Below(i)) \in Nat /\ Cardinality(S) \in Nat
    BY <2>2, FS_CardinalityType
  <2>4. Cardinality(Below(i)) # 0
    BY <2>1, <2>2, FS_EmptySet
  <2> QED
    BY <2>2, <2>3, <2>4
<1>2. ASSUME NEW i \in S, NEW j \in S, i < j
      PROVE  Cardinality(Below(i)) # Cardinality(Below(j))
  <2>1. i \in Nat /\ j \in Nat
    OBVIOUS
  <2>2. ASSUME NEW k \in Below(i) PROVE k \in Below(j)
    <3>1. k \in S /\ k \in Nat /\ k <= i
      BY <2>2
    <3> QED
      BY <1>2, <2>1, <3>1
  <2>3. j \in Below(j) /\ j \notin Below(i)
    BY <1>2, <2>1
  <2>4. Below(i) \in SUBSET Below(j)
    BY <2>2
  <2> HIDE DEF Below
  <2> QED
    BY <2>3, <2>4, <1>1, FS_Subset
<1>3. ASSUME NEW i \in S, NEW j \in S, Cardinality(Below(i)) = Cardinality(Below(j))
      PROVE  i = j
  <2>1. i < j \/ j < i \/ i = j
    OBVIOUS
  <2> QED
    BY <1>2, <1>3, <2>1
<1> QED
  BY <1>1, <1>3

\* The members of a finite set of numbers are in its sequence, each once.
LEMMA AscendingFacts ==
    ASSUME NEW S, IsFiniteSet(S), S \subseteq Nat
    PROVE  /\ Ascending(S) \in Seq(S)
           /\ Injects(Ascending(S))
           /\ ToSet(Ascending(S)) = S
<1> DEFINE place == [i \in S |-> Cardinality({j \in S : j <= i})]
<1>1. place \in [S -> 1..Cardinality(S)] /\ \A i, j \in S : place[i] = place[j] => i = j
  BY RankFacts
<1>2. Ascending(S) = Arranged(place)
  BY DEF Ascending
<1> HIDE DEF place
<1> QED
  BY <1>1, <1>2, ArrangedFacts

-----------------------------------------------------------------------------
(* A loop over a sequence.                                                 *)

\* Before the first call everything is left, after the last nothing.
LEMMA SplitsEnds ==
    ASSUME NEW S, NEW s \in Seq(S), NEW done \in Seq(S)
    PROVE  /\ Splits(s, <<>>, s)
           /\ Splits(s, done, <<>>) => done = s
<1>1. Splits(s, <<>>, s)
  BY DEF Splits
<1>2. ASSUME Splits(s, done, <<>>) PROVE done = s
  <2>1. Len(done) = Len(s) /\ \A n \in 1..Len(done) : done[n] = s[n]
    BY <1>2 DEF Splits
  <2> QED
    BY <2>1, SeqEqual
<1> QED
  BY <1>1, <1>2

\* A call moves the head of what is left to what is done.
LEMMA SplitsMoves ==
    ASSUME NEW S, NEW s \in Seq(S), NEW done \in Seq(S), NEW rest \in Seq(S),
           Splits(s, done, rest), rest # <<>>
    PROVE  /\ Splits(s, Append(done, Head(rest)), Tail(rest))
           /\ Append(done, Head(rest)) \in Seq(S) /\ Tail(rest) \in Seq(S)
<1>1. /\ Head(rest) \in S /\ Tail(rest) \in Seq(S) /\ Append(done, Head(rest)) \in Seq(S)
      /\ Len(rest) > 0 /\ Len(Tail(rest)) = Len(rest) - 1 /\ Head(rest) = rest[1]
      /\ \A n \in 1..Len(Tail(rest)) : Tail(rest)[n] = rest[n + 1]
      /\ Len(Append(done, Head(rest))) = Len(done) + 1
      /\ \A n \in 1..Len(done) : Append(done, Head(rest))[n] = done[n]
      /\ Append(done, Head(rest))[Len(done) + 1] = Head(rest)
  OBVIOUS
<1> DEFINE a == Append(done, Head(rest))  t == Tail(rest)
<1>2. Len(a) + Len(t) = Len(s)
  BY <1>1 DEF Splits
<1>3. ASSUME NEW n \in 1..Len(a) PROVE a[n] = s[n]
  <2>1. CASE n \in 1..Len(done)
    BY <1>1, <2>1 DEF Splits
  <2>2. CASE n = Len(done) + 1
    <3>1. 1 \in 1..Len(rest) /\ rest[1] = s[Len(done) + 1]
      BY <1>1 DEF Splits
    <3> QED
      BY <1>1, <2>2, <3>1
  <2>3. n \in 1..Len(done) \/ n = Len(done) + 1
    BY <1>1
  <2> QED
    BY <2>1, <2>2, <2>3
<1>4. ASSUME NEW n \in 1..Len(t) PROVE t[n] = s[Len(a) + n]
  <2>1. n + 1 \in 1..Len(rest) /\ t[n] = rest[n + 1]
    BY <1>1
  <2>2. rest[n + 1] = s[Len(done) + (n + 1)]
    BY <2>1 DEF Splits
  <2>3. Len(done) + (n + 1) = Len(a) + n
    BY <1>1
  <2> QED
    BY <2>1, <2>2, <2>3
<1> QED
  BY <1>1, <1>2, <1>3, <1>4 DEF Splits

\* What is done of a loop is what its sequence begins with.
LEMMA SplitsBegins ==
    ASSUME NEW S, NEW s \in Seq(S), NEW done \in Seq(S), NEW rest \in Seq(S), Splits(s, done, rest)
    PROVE  Begins(done, s)
BY DEF Splits, Begins

LEMMA ReverseFacts ==
    ASSUME NEW S, NEW s \in Seq(S)
    PROVE  /\ Reverse(s) \in Seq(S) /\ Len(Reverse(s)) = Len(s)
           /\ \A n \in 1..Len(s) : Reverse(s)[n] = s[Len(s) - n + 1]
<1>1. Reverse(s) = [n \in 1..Len(s) |-> s[(Len(s) - n) + 1]]
  BY DEF Reverse
<1>2. Reverse(s) \in [1..Len(s) -> S]
  BY <1>1
<1> QED
  BY <1>1, <1>2

\* Undoing a whole sequence in reverse undoes what it begins with.
LEMMA ReverseUndoes ==
    ASSUME NEW S, NEW s \in Seq(S), NEW done \in Seq(S), Injects(s), Begins(done, s)
    PROVE  Undone(done, Reverse(s))
<1> DEFINE r == Reverse(s)
<1>1. /\ Len(r) = Len(s) /\ \A n \in 1..Len(s) : r[n] = s[Len(s) - n + 1]
      /\ Len(s) \in Nat /\ Len(done) \in Nat /\ Len(done) <= Len(s)
      /\ DOMAIN s = 1..Len(s) /\ DOMAIN done = 1..Len(done)
      /\ \A n \in 1..Len(done) : done[n] = s[n]
  BY ReverseFacts DEF Begins
<1> HIDE DEF r
<1>2. ASSUME NEW n \in DOMAIN done PROVE r[Len(r) + 1 - n] = done[n]
  <2>1. n \in 1..Len(s) /\ Len(r) + 1 - n \in 1..Len(s)
    BY <1>1
  <2>2. r[Len(r) + 1 - n] = s[Len(s) - (Len(r) + 1 - n) + 1]
    BY <1>1, <2>1
  <2>3. Len(s) - (Len(r) + 1 - n) + 1 = n
    BY <1>1, <2>1
  <2> QED
    BY <1>1, <2>2, <2>3
<1>3. ASSUME NEW n \in 1..(Len(r) - Len(done)) PROVE r[n] \notin ToSet(done)
  <2>1. n \in 1..Len(s) /\ Len(s) - n + 1 \in 1..Len(s) /\ Len(s) - n + 1 > Len(done)
    BY <1>1
  <2>2. SUFFICES ASSUME NEW m \in 1..Len(done), r[n] = done[m] PROVE FALSE
    BY <1>1 DEF ToSet
  <2>3. s[Len(s) - n + 1] = s[m] /\ m \in 1..Len(s)
    BY <1>1, <2>1, <2>2
  <2>4. Len(s) - n + 1 = m
    BY <1>1, <2>1, <2>3 DEF Injects
  <2>5. m <= Len(done) /\ Len(done) \in Nat
    BY <1>1, <2>2
  <2> QED
    BY <2>1, <2>4, <2>5
<1> QED
  BY <1>1, <1>2, <1>3 DEF Undone, r

-----------------------------------------------------------------------------
(* Containers.                                                             *)

\* The places by @order are places too: no two registrations share one.
LEMMA OrderFacts ==
    ASSUME NEW P, NEW c, NEW S, IsFiniteSet(S), S \subseteq Nat,
           \A i \in S : OrderOf(P, c.reg[i].key) \in Int
    PROVE  /\ ByOrder(P, c, S) \in [S -> 1..Cardinality(S)]
           /\ \A i, j \in S : ByOrder(P, c, S)[i] = ByOrder(P, c, S)[j] => i = j
<1> DEFINE OrderAt(i) == OrderOf(P, c.reg[i].key)
           Before(i) == {j \in S : OrderAt(j) < OrderAt(i) \/ (OrderAt(j) = OrderAt(i) /\ j <= i)}
<1>1. ByOrder(P, c, S) = [i \in S |-> Cardinality(Before(i))]
  BY DEF ByOrder
<1>2. \A i \in S : OrderAt(i) \in Int /\ i \in Nat
  OBVIOUS
<1> HIDE DEF OrderAt
<1>3. ASSUME NEW i \in S
      PROVE  IsFiniteSet(Before(i)) /\ Cardinality(Before(i)) \in 1..Cardinality(S)
  <2>1. i \in Before(i) /\ Before(i) \in SUBSET S
    BY <1>2
  <2>2. IsFiniteSet(Before(i)) /\ Cardinality(Before(i)) <= Cardinality(S)
    BY <2>1, FS_Subset
  <2>3. Cardinality(Before(i)) \in Nat /\ Cardinality(S) \in Nat
    BY <2>2, FS_CardinalityType
  <2>4. Cardinality(Before(i)) # 0
    BY <2>1, <2>2, FS_EmptySet
  <2> QED
    BY <2>2, <2>3, <2>4
<1>4. ASSUME NEW i \in S, NEW j \in S, OrderAt(i) < OrderAt(j) \/ (OrderAt(i) = OrderAt(j) /\ i < j)
      PROVE  Cardinality(Before(i)) # Cardinality(Before(j))
  <2>1. i \in Nat /\ j \in Nat /\ OrderAt(i) \in Int /\ OrderAt(j) \in Int
    BY <1>2
  <2>2. ASSUME NEW k \in Before(i) PROVE k \in Before(j)
    <3>1. k \in S /\ k \in Nat /\ OrderAt(k) \in Int /\ (OrderAt(k) < OrderAt(i) \/ (OrderAt(k) = OrderAt(i) /\ k <= i))
      BY <1>2, <2>2
    <3>2. OrderAt(k) < OrderAt(j) \/ (OrderAt(k) = OrderAt(j) /\ k <= j)
      BY <1>4, <2>1, <3>1
    <3> QED
      BY <3>1, <3>2
  <2>3. j \in Before(j) /\ j \notin Before(i)
    BY <1>4, <2>1
  <2>4. Before(i) \in SUBSET Before(j)
    BY <2>2
  <2> HIDE DEF Before
  <2> QED
    BY <2>3, <2>4, <1>3, FS_Subset
<1>5. ASSUME NEW i \in S, NEW j \in S, Cardinality(Before(i)) = Cardinality(Before(j))
      PROVE  i = j
  <2>1. i \in Nat /\ j \in Nat /\ OrderAt(i) \in Int /\ OrderAt(j) \in Int
    BY <1>2
  <2>2. i = j \/ (OrderAt(i) < OrderAt(j) \/ (OrderAt(i) = OrderAt(j) /\ i < j)) \/ (OrderAt(j) < OrderAt(i) \/ (OrderAt(j) = OrderAt(i) /\ j < i))
    BY <2>1
  <2> HIDE DEF Before
  <2> QED
    BY <1>4, <1>5, <2>2
<1> HIDE DEF Before
<1> QED
  BY <1>1, <1>3, <1>5

\* The registrations are indexed, and every bean has a class.
LEMMA RegistrationsAreIndexed ==
    ASSUME NEW P, NEW c \in Containers(P)
    PROVE  /\ DOMAIN c.reg = 1..Len(c.reg) /\ Len(c.reg) \in Nat
           /\ IsFiniteSet(DOMAIN c.reg) /\ DOMAIN c.reg \subseteq Nat
           /\ \A i \in DOMAIN c.reg : c.reg[i].bean # 0 => ClassOf(c, i) \in DOMAIN P.class
<1>1. c.reg \in Seq([key : DOMAIN P.supers, scope : Scopes, bean : Nat]) /\ c.made \in Seq(DOMAIN P.class)
      /\ \A i \in DOMAIN c.reg : c.reg[i].bean <= Len(c.made)
  BY DEF Containers
<1>2. DOMAIN c.reg = 1..Len(c.reg) /\ Len(c.reg) \in Nat
  BY <1>1
<1>3. IsFiniteSet(DOMAIN c.reg)
  BY <1>2, FS_Interval
<1>4. ASSUME NEW i \in DOMAIN c.reg, c.reg[i].bean # 0 PROVE ClassOf(c, i) \in DOMAIN P.class
  <2> DEFINE r == c.reg  entries == [key : DOMAIN P.supers, scope : Scopes, bean : Nat]
  <2>1. r \in Seq(entries) /\ i \in 1..Len(r)
    BY <1>1, <1>2
  <2> HIDE DEF r, entries
  <2>2. r[i] \in entries
    BY <2>1
  <2>3. c.reg[i].bean \in Nat
    BY <2>2 DEF r, entries
  <2>4. c.reg[i].bean \in 1..Len(c.made)
    BY <1>1, <1>4, <2>3
  <2> QED
    BY <1>1, <2>4 DEF ClassOf
<1> QED
  BY <1>2, <1>3, <1>4

\* The lists of registrations hold the ones they are to hold, each once.
LEMMA ListFacts ==
    ASSUME NEW P, NEW c \in Containers(P), \A k \in DOMAIN P.class : P.class[k].order \in Int, NEW t
    PROVE  /\ With(P, c, t) \in Seq(Having(P, c, t)) /\ With(P, c, t) \in Seq(DOMAIN c.reg)
           /\ Injects(With(P, c, t))
           /\ InOrder(P, c, t) \in Seq(DOMAIN c.reg)
<1> DEFINE S == Having(P, c, t)
<1>1. IsFiniteSet(DOMAIN c.reg) /\ DOMAIN c.reg \subseteq Nat
  BY RegistrationsAreIndexed
<1>2. S \in SUBSET DOMAIN c.reg
  BY DEF Having
<1>3. IsFiniteSet(S) /\ S \subseteq Nat
  BY <1>1, <1>2, FS_Subset
<1>4. \A i \in S : OrderOf(P, c.reg[i].key) \in Int
  BY DEF OrderOf
<1>5. With(P, c, t) = Ascending(S) /\ InOrder(P, c, t) = Arranged(ByOrder(P, c, S))
  BY DEF With, InOrder
<1> HIDE DEF S
<1>6. Ascending(S) \in Seq(S) /\ Injects(Ascending(S))
  BY <1>3, AscendingFacts
<1>7. /\ ByOrder(P, c, S) \in [S -> 1..Cardinality(S)]
      /\ \A i, j \in S : ByOrder(P, c, S)[i] = ByOrder(P, c, S)[j] => i = j
  BY <1>3, <1>4, OrderFacts
<1>8. Arranged(ByOrder(P, c, S)) \in Seq(S)
  BY <1>3, <1>7, ArrangedFacts
<1>9. Seq(S) \subseteq Seq(DOMAIN c.reg)
  BY <1>2, SeqMonotonic
<1> QED
  BY <1>5, <1>6, <1>8, <1>9 DEF S

LEMMA InstancesFacts ==
    ASSUME NEW P, NEW c \in Containers(P)
    PROVE  /\ Instances(c) \in Seq(DOMAIN c.reg) /\ Injects(Instances(c))
           /\ \A i \in DOMAIN c.reg : c.reg[i].bean # 0 => i \in ToSet(Instances(c))
<1> DEFINE S == {i \in DOMAIN c.reg : c.reg[i].bean # 0}
<1>1. IsFiniteSet(DOMAIN c.reg) /\ DOMAIN c.reg \subseteq Nat
  BY RegistrationsAreIndexed
<1>2. S \in SUBSET DOMAIN c.reg
  OBVIOUS
<1>3. IsFiniteSet(S) /\ S \subseteq Nat
  BY <1>1, <1>2, FS_Subset
<1>4. Instances(c) = Ascending(S)
  BY DEF Instances
<1>5. \A i \in DOMAIN c.reg : c.reg[i].bean # 0 => i \in S
  OBVIOUS
<1> HIDE DEF S
<1>6. Ascending(S) \in Seq(S) /\ Injects(Ascending(S)) /\ ToSet(Ascending(S)) = S
  BY <1>3, AscendingFacts
<1>7. Seq(S) \subseteq Seq(DOMAIN c.reg)
  BY <1>2, SeqMonotonic
<1> QED
  BY <1>4, <1>5, <1>6, <1>7

LEMMA ProgramFacts ==
    ASSUME app \in DOMAIN Programs
    PROVE  /\ Scanned(program) \in Containers(program)
           /\ Configured(program) \in Containers(program)
           /\ Eager(program, Configured(program)) \in Containers(program)
           /\ DOMAIN Eager(program, Configured(program)).reg = DOMAIN Configured(program).reg
           /\ \A k \in DOMAIN program.class : program.class[k].order \in Int
           /\ \A k \in DOMAIN program.class : "listener" \in program.class[k].traits => k \in Handlers
BY ProgramsAssumption, ListenersAssumption DEF program

LEMMA ListenersAreHandlers ==
    ASSUME app \in DOMAIN Programs, NEW c \in Containers(program), NEW i \in Having(program, c, "listener")
    PROVE  ClassOf(c, i) \in Handlers
<1>1. i \in DOMAIN c.reg /\ c.reg[i].bean # 0 /\ "listener" \in program.class[ClassOf(c, i)].traits
  BY DEF Having, Has
<1>2. ClassOf(c, i) \in DOMAIN program.class
  BY <1>1, RegistrationsAreIndexed
<1> QED
  BY <1>1, <1>2, ProgramFacts

-----------------------------------------------------------------------------
(* Types.                                                                  *)

\* The actions of the context, with what the application adds to them left out.
ContextNext ==
  \/ Configure \/ CreateBeans \/ Wire \/ InvokeRunners \/ Started
  \/ Stop \/ Destroy \/ Close \/ Closed
  \/ BeginCall \/ ReturnCall \/ RaiseCall \/ HangCall \/ TimeOutCall \/ RunTask

LEMMA ContextFacts ==
    ASSUME ContextType
    PROVE  /\ beans \in Containers(program)
           /\ \A t : With(program, beans, t) \in Seq(Indices) /\ Injects(With(program, beans, t))
           /\ \A t : With(program, beans, t) \in Seq(Having(program, beans, t))
           /\ \A t : InOrder(program, beans, t) \in Seq(Indices)
           /\ Instances(beans) \in Seq(Indices) /\ Injects(Instances(beans))
           /\ \A i \in Indices : beans.reg[i].bean # 0 => i \in ToSet(Instances(beans))
<1>1. app \in DOMAIN Programs /\ beans \in {Scanned(program), Configured(program), Eager(program, Configured(program))}
  BY DEF ContextType
<1>2. beans \in Containers(program) /\ \A k \in DOMAIN program.class : program.class[k].order \in Int
  BY <1>1, ProgramFacts
<1> HIDE DEF ContextType
<1>3. ASSUME NEW t
      PROVE  /\ With(program, beans, t) \in Seq(Indices) /\ Injects(With(program, beans, t))
             /\ With(program, beans, t) \in Seq(Having(program, beans, t))
             /\ InOrder(program, beans, t) \in Seq(Indices)
  BY <1>2, ListFacts DEF Indices
<1>4. /\ Instances(beans) \in Seq(Indices) /\ Injects(Instances(beans))
      /\ \A i \in Indices : beans.reg[i].bean # 0 => i \in ToSet(Instances(beans))
  BY <1>2, InstancesFacts DEF Indices
<1> QED
  BY <1>2, <1>3, <1>4

LEMMA ContextTypeStep ==
    ASSUME ContextType, ContextInv, ContextNext
    PROVE  ContextType'
<1> USE DEF ContextType
<1>1. CASE Configure
  <2>1. /\ app' = app /\ program' = program /\ beans' = Configured(program) /\ phase = "new"
        /\ call' = call /\ heard' = heard /\ tasks' = tasks
        /\ started' = started /\ stopped' = stopped /\ constructed' = constructed /\ destroyed' = destroyed
    BY <1>1 DEF Configure, Histories, program
  <2>2. /\ todo = <<>> /\ adapters = <<>> /\ started = <<>> /\ constructed = <<>> /\ heard = <<>>
        /\ tasks = <<>> /\ stopped = <<>> /\ destroyed = <<>>
    BY <2>1 DEF ContextInv, StartInv, WiredInv, StopInv, BeforeStop
  <2>3. With(program, beans', "adapter") \in Seq(Indices')
    <3>1. beans' \in Containers(program) /\ \A k \in DOMAIN program.class : program.class[k].order \in Int
      BY <2>1, ProgramFacts
    <3> QED
      BY <3>1, ListFacts DEF Indices
  <2>4. /\ phase' \in {"failed", "adapters"} /\ adapters' \in Seq(Indices') /\ todo' \in Seq(Indices')
    <3>1. CASE beans'.err # "none"
      <4>1. phase' = "failed" /\ todo' = <<>> /\ adapters' = <<>>
        BY <1>1, <2>2, <3>1 DEF Configure
      <4> QED
        BY <4>1
    <3>2. CASE beans'.err = "none"
      <4>1. phase' = "adapters" /\ adapters' = With(program, beans', "adapter") /\ todo' = adapters'
        BY <1>1, <2>1, <3>2 DEF Configure
      <4> QED
        BY <2>3, <4>1
    <3> QED
      BY <3>1, <3>2
  <2>5. \A S : <<>> \in Seq(S)
    OBVIOUS
  <2>6. /\ heard' \in Seq(Indices') /\ tasks' \in Seq(Having(program', beans', "listener"))
        /\ started' \in Seq(Indices') /\ stopped' \in Seq(Indices')
        /\ constructed' \in Seq(Indices') /\ destroyed' \in Seq(Indices')
    BY <2>1, <2>2, <2>5
  <2>7. app' \in DOMAIN Programs /\ beans' = Configured(program') /\ call' \in {"no", "open", "hung"}
    BY <2>1
  <2>8. phase' \in Phases
    BY <2>4 DEF Phases, Starting
  <2> QED
    BY <2>4, <2>6, <2>7, <2>8
<1>2. CASE CreateBeans
  <2>1. /\ app' = app /\ program' = program /\ beans' = Eager(program, beans) /\ phase = "adapters"
        /\ call' = call /\ adapters' = adapters /\ heard' = heard /\ tasks' = tasks
        /\ started' = started /\ stopped' = stopped /\ constructed' = constructed /\ destroyed' = destroyed
    BY <1>2 DEF CreateBeans, Histories, program
  <2>2. beans = Configured(program) /\ tasks = <<>>
    BY <2>1 DEF ContextInv, StartInv, WiredInv
  <2>3. Indices' = Indices /\ beans' \in Containers(program)
    BY <2>1, <2>2, ProgramFacts DEF Indices
  <2>4. Instances(beans') \in Seq(Indices')
    BY <2>3, InstancesFacts DEF Indices
  <2>5. phase' \in {"failed", "hooks"} /\ todo' \in {todo, Instances(beans')}
    BY <1>2 DEF CreateBeans
  <2>6. phase' \in Phases /\ todo' \in Seq(Indices')
    BY <2>3, <2>4, <2>5 DEF Phases, Starting
  <2>7. tasks' \in Seq(Having(program', beans', "listener"))
    BY <2>1, <2>2
  <2> QED
    BY <2>1, <2>2, <2>3, <2>6, <2>7
<1>3. SUFFICES ASSUME ~Configure, ~CreateBeans PROVE ContextType'
  BY <1>1, <1>2
<1>4. /\ app' = app /\ beans' = beans /\ program' = program /\ Indices' = Indices
      /\ Having(program, beans, "listener")' = Having(program, beans, "listener")
  BY <1>3 DEF ContextNext, Wire, InvokeRunners, Started, Stop, Destroy, Close, Closed, BeginCall, ReturnCall,
              RaiseCall, HangCall, TimeOutCall, RunTask, program, Indices, Having
<1>5. phase' \in Phases /\ call' \in {"no", "open", "hung"}
  BY <1>3 DEF ContextNext, Wire, InvokeRunners, Started, Stop, Destroy, Close, Closed, BeginCall, ReturnCall,
              RaiseCall, HangCall, TimeOutCall, RunTask, Phases, Starting, Stopping
<1>6. /\ \A t : With(program, beans, t) \in Seq(Having(program, beans, t))
      /\ \A t : InOrder(program, beans, t) \in Seq(Indices)
      /\ Instances(beans) \in Seq(Indices)
      /\ Reverse(Instances(beans)) \in Seq(Indices) /\ Reverse(adapters) \in Seq(Indices)
  BY ContextFacts, ReverseFacts
<1>7. call # "no" => todo # <<>>
  BY DEF ContextInv, StartInv
<1>8. todo # <<>> => Tail(todo) \in Seq(Indices) /\ Head(todo) \in Indices
  OBVIOUS
<1>9. todo' \in Seq(Indices)
  <2>0. todo \in Seq(Indices) /\ <<>> \in Seq(Indices)
    OBVIOUS
  <2>1. CASE todo' \in {todo, <<>>, Instances(beans), Reverse(adapters), Reverse(Instances(beans))}
    BY <1>6, <2>1, <2>0
  <2>2. CASE Wire
    <3>1. heard' \in Seq(Indices) /\ todo' = heard' \o heard'
      BY <1>6, <2>2 DEF Wire
    <3> QED
      BY <3>1
  <2>3. CASE InvokeRunners
    BY <1>6, <2>3 DEF InvokeRunners
  <2>4. CASE Close
    BY <2>4 DEF Close
  <2>5. CASE todo' = Tail(todo) /\ call # "no"
    BY <1>7, <1>8, <2>5
  <2> QED
    BY <1>3, <2>1, <2>2, <2>3, <2>4, <2>5
       DEF ContextNext, Started, Stop, Destroy, Closed, BeginCall, ReturnCall, RaiseCall, HangCall, TimeOutCall, RunTask
<1>10. adapters' = adapters
  BY <1>3 DEF ContextNext, Wire, InvokeRunners, Started, Stop, Destroy, Close, Closed, BeginCall, ReturnCall,
              RaiseCall, HangCall, TimeOutCall, RunTask
<1>11. heard' \in Seq(Indices)
  <2>1. CASE Wire
    BY <1>6, <2>1 DEF Wire
  <2>2. CASE heard' = heard
    BY <2>2
  <2> QED
    BY <1>3, <2>1, <2>2 DEF ContextNext, InvokeRunners, Started, Stop, Destroy, Close, Closed, BeginCall,
              ReturnCall, RaiseCall, HangCall, TimeOutCall, RunTask
<1>12. tasks' \in Seq(Having(program, beans, "listener"))
  <2>1. CASE Wire
    BY <1>6, <2>1 DEF Wire, Subscriptions
  <2>0. tasks \in Seq(Having(program, beans, "listener")) /\ <<>> \in Seq(Having(program, beans, "listener"))
    OBVIOUS
  <2>2. CASE tasks' = tasks \/ tasks' = <<>>
    BY <2>2, <2>0
  <2>3. CASE RunTask
    <3>1. tasks # <<>> /\ tasks' = Tail(tasks)
      BY <2>3 DEF RunTask
    <3> QED
      BY <3>1
  <2> QED
    BY <1>3, <2>1, <2>2, <2>3 DEF ContextNext, InvokeRunners, Started, Stop, Destroy, Close, Closed, BeginCall,
              ReturnCall, RaiseCall, HangCall, TimeOutCall
<1>13. /\ started' \in {started, Append(started, Head(todo))} /\ constructed' \in {constructed, Append(constructed, Head(todo))}
       /\ stopped' \in {stopped, Append(stopped, Head(todo))} /\ destroyed' \in {destroyed, Append(destroyed, Head(todo))}
       /\ started' # started \/ constructed' # constructed \/ stopped' # stopped \/ destroyed' # destroyed => todo # <<>>
  BY <1>3, <1>7 DEF ContextNext, Histories, Wire, InvokeRunners, Started, Stop, Destroy, Close, Closed, BeginCall, ReturnCall,
              RaiseCall, HangCall, TimeOutCall, RunTask
<1>14. \A s \in Seq(Indices) : todo # <<>> => Append(s, Head(todo)) \in Seq(Indices)
  BY <1>8
<1>15. /\ started' \in Seq(Indices) /\ constructed' \in Seq(Indices)
       /\ stopped' \in Seq(Indices) /\ destroyed' \in Seq(Indices)
  BY <1>13, <1>14
<1> QED
  BY <1>4, <1>5, <1>9, <1>10, <1>11, <1>12, <1>15

-----------------------------------------------------------------------------
(* The invariant of the context, action by action.                         *)

\* The variables that the invariant of the context is about.
LEMMA NextForms ==
    ASSUME ApplicationNext
    PROVE  \/ ContextNext /\ ~RunTask /\ ~Wire /\ subs' = subs /\ (starter' = "none" <=> starter = "none")
           \/ Wire /\ subs' = subs
           \/ RunTask /\ starter' = starter
           \/ /\ UNCHANGED contextVars
              /\ subs' = subs /\ (starter' = "none" <=> starter = "none")
<1> USE DEF ContextNext
<1>1. CASE Starts
  BY <1>1 DEF Starts, brokerVars, timerVars, Configure, CreateBeans, InvokeRunners, Started, RunTask, Wire
<1>2. CASE Wires
  BY <1>2 DEF Wires, brokerVars
<1>3. CASE StopBegins
  <2>1. Stop /\ subs' = subs /\ (starter' = "none" <=> starter = "none")
    BY <1>3 DEF StopBegins, brokerVars, Timer!Cancel, Timer!StopStarter
  <2>2. ~RunTask /\ ~Wire
    BY <2>1 DEF Stop, Wire, RunTask
  <2> QED
    BY <2>1, <2>2
<1>4. CASE Stops
  BY <1>4 DEF Stops, brokerVars, timerVars, Destroy, Close, Closed, RunTask, Wire
<1>5. CASE CallBegins
  BY <1>5 DEF CallBegins, BeginCall, StopBroker, brokerVars, timerVars, RunTask, Wire
<1>6. CASE CallReturns
  BY <1>6 DEF CallReturns, ReturnCall, StartBroker, brokerVars, timerVars, RunTask, Wire
<1>7. CASE CallRaises \/ CallHangs \/ CallTimesOut
  BY <1>7 DEF CallRaises, CallHangs, CallTimesOut, RaiseCall, HangCall, TimeOutCall, brokerVars, timerVars, RunTask, Wire
<1>8. CASE TaskRuns
  BY <1>8 DEF TaskRuns, timerVars
<1>9. CASE Publishing
  BY <1>9 DEF Publishing, timerVars, Publish, HandlerReturns, HandlerRaises
<1>10. CASE TimerStarts
  BY <1>10 DEF TimerStarts, Timer!Start, brokerVars
<1>11. CASE TimerStops
  BY <1>11 DEF TimerStops, Timer!Stop, Timer!StopExecutor, Timer!Drained, Timer!Timeout, Timer!TimedOut, brokerVars
<1>12. CASE TimerTicks
  BY <1>12 DEF TimerTicks, Timer!Ticks, Timer!Enter, Timer!Fire, Timer!Returns, Timer!Raises, Timer!CutOff, Timer!Ends,
               brokerVars
<1> QED
  BY <1>1, <1>2, <1>3, <1>4, <1>5, <1>6, <1>7, <1>8, <1>9, <1>10, <1>11, <1>12 DEF ApplicationNext

LEMMA ContextStutters ==
    ASSUME ContextInv, UNCHANGED contextVars, subs' = subs, starter' = "none" <=> starter = "none"
    PROVE  ContextInv'
<1>1. Instances(beans)' = Instances(beans) /\ Configured(program)' = Configured(program) /\ Left' = Left
  BY DEF contextVars, Left, program
<1> QED
  BY <1>1 DEF contextVars, ContextInv, StartInv, WiredInv, ListInv, StopInv

\* The steps of start().
LEMMA StartSteps ==
    ASSUME ContextType, ContextInv, Configure \/ CreateBeans \/ InvokeRunners \/ Started,
           subs' = subs, starter' = "none" <=> starter = "none"
    PROVE  ContextInv'
<1> DEFINE I == Instances(beans)
<1>0. /\ todo \in Seq(Indices) /\ adapters \in Seq(Indices) /\ started \in Seq(Indices)
      /\ constructed \in Seq(Indices) /\ Instances(beans) \in Seq(Indices)
  BY ContextFacts DEF ContextType
<1>1. CASE Configure
  <2>1. /\ program' = program /\ app \in DOMAIN Programs /\ beans' = Configured(program) /\ phase = "new"
        /\ call' = call /\ heard' = heard /\ tasks' = tasks
        /\ started' = started /\ stopped' = stopped /\ constructed' = constructed /\ destroyed' = destroyed
    BY <1>1 DEF Configure, Histories, program, ContextType
  <2>2. /\ todo = <<>> /\ adapters = <<>> /\ started = <<>> /\ constructed = <<>> /\ heard = <<>> /\ call = "no"
        /\ tasks = <<>> /\ stopped = <<>> /\ destroyed = <<>> /\ subs = <<>> /\ starter = "none"
    BY <2>1 DEF ContextInv, StartInv, WiredInv, StopInv, BeforeStop
  <2>3. /\ With(program, beans', "adapter") \in Seq(DOMAIN beans'.reg)
        /\ Injects(With(program, beans', "adapter"))
    <3>1. beans' \in Containers(program) /\ \A k \in DOMAIN program.class : program.class[k].order \in Int
      BY <2>1, ProgramFacts
    <3> QED
      BY <3>1, ListFacts
  <2>4. Injects(<<>>) /\ \A s : s \in Seq(DOMAIN beans'.reg) => Begins(<<>>, s) /\ Splits(s, <<>>, s)
    BY SplitsEnds DEF Injects, Begins
  <2>5. <<>> \in Seq(DOMAIN beans'.reg)
    OBVIOUS
  <2>6. \/ phase' = "failed" /\ todo' = <<>> /\ adapters' = <<>>
        \/ phase' = "adapters" /\ adapters' = With(program, beans', "adapter") /\ todo' = adapters'
    BY <1>1, <2>1, <2>2 DEF Configure
  <2>7. ListInv'
    BY <2>1, <2>2, <2>3, <2>4, <2>5, <2>6 DEF ListInv
  <2>8. StartInv'
    BY <2>1, <2>2, <2>3, <2>4, <2>6 DEF StartInv, Later
  <2>9. WiredInv' /\ StopInv'
    BY <2>1, <2>2, <2>6 DEF WiredInv, StopInv, BeforeStop, Over, Starting
  <2> QED
    BY <2>7, <2>8, <2>9 DEF ContextInv
<1>2. CASE CreateBeans
  <2>1. /\ phase = "adapters" /\ todo = <<>>
        /\ call' = call /\ adapters' = adapters /\ heard' = heard /\ tasks' = tasks
        /\ started' = started /\ stopped' = stopped /\ constructed' = constructed /\ destroyed' = destroyed
    BY <1>2 DEF CreateBeans, Histories
  <2>2. /\ call = "no" /\ constructed = <<>> /\ tasks = <<>> /\ subs = <<>> /\ starter = "none"
        /\ stopped = <<>> /\ destroyed = <<>> /\ Injects(adapters) /\ Begins(started, adapters)
    BY <2>1 DEF ContextInv, StartInv, WiredInv, ListInv, StopInv, BeforeStop, Starting
  <2>3. (phase' = "failed" /\ todo' = <<>>) \/ (phase' = "hooks" /\ todo' = Instances(beans'))
    BY <1>2, <2>1 DEF CreateBeans
  <2>4. Splits(Instances(beans'), <<>>, Instances(beans'))
    <3>1. beans = Configured(program) /\ app \in DOMAIN Programs /\ beans' = Eager(program, beans)
      BY <1>2, <2>1 DEF CreateBeans, ContextInv, StartInv, ContextType
    <3>2. Instances(beans') \in Seq(DOMAIN beans'.reg)
      BY <3>1, ProgramFacts, InstancesFacts
    <3> QED
      BY <3>2, SplitsEnds
  <2>5. StartInv'
    BY <2>1, <2>2, <2>3, <2>4 DEF StartInv, Later
  <2>6. WiredInv' /\ ListInv' /\ StopInv'
    BY <2>1, <2>2, <2>3 DEF WiredInv, ListInv, StopInv, BeforeStop, Over, Starting
  <2> QED
    BY <2>5, <2>6 DEF ContextInv
<1>3. CASE InvokeRunners \/ Started
  <2>1. /\ I' = I /\ call' = call /\ adapters' = adapters /\ heard' = heard /\ tasks' = tasks
        /\ started' = started /\ stopped' = stopped /\ constructed' = constructed /\ destroyed' = destroyed
        /\ phase \in {"events", "runners"} /\ phase' \in {"runners", "running"} /\ todo = <<>>
        /\ phase' = "running" => todo' = <<>>
    BY <1>3 DEF InvokeRunners, Started, Histories
  <2>2. call = "no" /\ constructed = I /\ stopped = <<>> /\ destroyed = <<>>
    BY <2>1 DEF ContextInv, StartInv, StopInv, Later, BeforeStop, Starting
  <2>3. StartInv'
    BY <2>1, <2>2 DEF StartInv, Later
  <2>4. WiredInv' /\ ListInv' /\ StopInv'
    BY <2>1, <2>2 DEF ContextInv, WiredInv, ListInv, StopInv, Later, BeforeStop, Over, Starting
  <2> QED
    BY <2>3, <2>4 DEF ContextInv
<1> QED
  BY <1>1, <1>2, <1>3

\* The hooks are over when listeners and scheduled methods are wired.
LEMMA WireStep ==
    ASSUME ContextType, ContextInv, Wire, subs' = subs
    PROVE  ContextInv'
<1>1. /\ Instances(beans)' = Instances(beans) /\ call' = call /\ adapters' = adapters
      /\ started' = started /\ stopped' = stopped /\ constructed' = constructed /\ destroyed' = destroyed
      /\ phase = "hooks" /\ phase' = "events" /\ todo = <<>>
  BY DEF Wire, Histories
<1>2. /\ call = "no" /\ stopped = <<>> /\ destroyed = <<>>
      /\ Splits(Instances(beans), constructed, <<>>)
  BY <1>1 DEF ContextInv, StartInv, StopInv, BeforeStop, Starting
<1>3. constructed = Instances(beans)
  <2>1. Instances(beans) \in Seq(Indices) /\ constructed \in Seq(Indices)
    BY ContextFacts DEF ContextType
  <2> QED
    BY <1>2, <2>1, SplitsEnds
<1>4. StartInv'
  BY <1>1, <1>2, <1>3 DEF StartInv, Later
<1>5. WiredInv' /\ ListInv' /\ StopInv'
  BY <1>1, <1>2, <1>3 DEF ContextInv, WiredInv, ListInv, StopInv, Later, BeforeStop, Over, Starting
<1> QED
  BY <1>4, <1>5 DEF ContextInv

\* The steps of stop().
LEMMA StopSteps ==
    ASSUME ContextType, ContextInv, Stop \/ Destroy \/ Close \/ Closed,
           subs' = subs, starter' = "none" <=> starter = "none"
    PROVE  ContextInv'
<1> DEFINE I == Instances(beans)
<1>1. /\ I \in Seq(Indices) /\ adapters \in Seq(Indices) /\ Reverse(I) \in Seq(Indices) /\ Reverse(adapters) \in Seq(Indices)
      /\ stopped \in Seq(Indices) /\ destroyed \in Seq(Indices)
  BY ContextFacts, ReverseFacts DEF ContextType
<1>2. /\ I' = I /\ call' = call /\ adapters' = adapters /\ constructed' = constructed /\ started' = started
      /\ stopped' = stopped /\ destroyed' = destroyed /\ tasks' \in {tasks, <<>>}
  BY DEF Stop, Destroy, Close, Closed, Histories
<1>3. ListInv'
  BY <1>2 DEF ContextInv, ListInv
<1>4. CASE Stop
  <2>1. phase \in {"running", "failed"} /\ phase' = "stopping" /\ todo' = Reverse(adapters) /\ tasks' = <<>>
    BY <1>4 DEF Stop
  <2>2. stopped = <<>> /\ destroyed = <<>> /\ call = "no"
    BY <2>1 DEF ContextInv, StartInv, StopInv, BeforeStop
  <2>3. Splits(Reverse(adapters), <<>>, Reverse(adapters))
    BY <1>1, SplitsEnds
  <2> QED
    BY <1>2, <1>3, <2>1, <2>2, <2>3
       DEF ContextInv, StartInv, WiredInv, StopInv, Later, BeforeStop, Over, Starting, Left
<1>5. CASE Destroy
  <2>1. phase = "stopping" /\ todo = <<>> /\ phase' = "destroying" /\ todo' = Reverse(I) /\ tasks' = tasks
    BY <1>5 DEF Destroy
  <2>2. call = "no" /\ destroyed = <<>> /\ Splits(Reverse(adapters), stopped, <<>>)
    BY <2>1 DEF ContextInv, StartInv, StopInv, Left
  <2>3. stopped = Reverse(adapters) /\ Splits(Reverse(I), <<>>, Reverse(I))
    BY <1>1, <2>2, SplitsEnds
  <2> QED
    BY <1>2, <1>3, <2>1, <2>2, <2>3 DEF ContextInv, StartInv, WiredInv, StopInv, Later, BeforeStop, Over, Starting, Left
<1>6. CASE Close
  <2>1. phase = "destroying" /\ todo = <<>> /\ phase' = "closing" /\ tasks' = tasks
    BY <1>6 DEF Close
  <2>2. call = "no" /\ stopped = Reverse(adapters) /\ Splits(Reverse(I), destroyed, <<>>)
    BY <2>1 DEF ContextInv, StartInv, StopInv, Left, Over
  <2>3. destroyed = Reverse(I)
    BY <1>1, <2>2, SplitsEnds
  <2> QED
    BY <1>2, <1>3, <2>1, <2>2, <2>3 DEF ContextInv, StartInv, WiredInv, StopInv, Later, BeforeStop, Over, Starting
<1>7. CASE Closed
  <2>1. phase = "closing" /\ phase' = "stopped" /\ tasks' = tasks /\ todo' = todo
    BY <1>7 DEF Closed
  <2> QED
    BY <1>2, <1>3, <2>1 DEF ContextInv, StartInv, WiredInv, StopInv, Later, BeforeStop, Over, Starting
<1> QED
  BY <1>4, <1>5, <1>6, <1>7

\* A call of the current phase begins, or hangs.
LEMMA CallStarts ==
    ASSUME ContextType, ContextInv, BeginCall \/ HangCall, subs' = subs, starter' = "none" <=> starter = "none"
    PROVE  ContextInv'
<1> DEFINE I == Instances(beans)
<1>1. /\ I' = I /\ Configured(program)' = Configured(program) /\ beans' = beans /\ phase' = phase
      /\ todo' = todo /\ adapters' = adapters /\ heard' = heard /\ tasks' = tasks
      /\ started' = started /\ constructed' = constructed /\ todo # <<>> /\ call' # "no"
  BY DEF BeginCall, HangCall, Histories, ContextInv, StartInv, program
<1>2. StartInv' /\ WiredInv' /\ ListInv'
  BY <1>1 DEF ContextInv, StartInv, WiredInv, ListInv, program
<1>3. CASE HangCall
  <2>1. Left' = Left /\ stopped' = stopped /\ destroyed' = destroyed
    BY <1>1, <1>3 DEF Left, HangCall, Histories
  <2> QED
    BY <1>1, <1>2, <2>1 DEF ContextInv, StopInv
<1>4. CASE BeginCall
  <2>1. /\ Left = todo /\ Left' = Tail(todo)
        /\ stopped' = IF phase = "stopping" THEN Append(stopped, Head(todo)) ELSE stopped
        /\ destroyed' = IF phase = "destroying" THEN Append(destroyed, Head(todo)) ELSE destroyed
    BY <1>1, <1>4 DEF BeginCall, Left
  <2>2. /\ todo \in Seq(Indices) /\ stopped \in Seq(Indices) /\ destroyed \in Seq(Indices)
        /\ Reverse(adapters) \in Seq(Indices) /\ Reverse(I) \in Seq(Indices)
    BY ContextFacts, ReverseFacts DEF ContextType
  <2>3. phase = "stopping" => Splits(Reverse(adapters), stopped', Tail(todo))
    BY <1>1, <2>1, <2>2, SplitsMoves DEF ContextInv, StopInv
  <2>4. phase = "destroying" => Splits(Reverse(I), destroyed', Tail(todo))
    BY <1>1, <2>1, <2>2, SplitsMoves DEF ContextInv, StopInv
  <2> HIDE DEF I
  <2> QED
    BY <1>1, <1>2, <2>1, <2>3, <2>4 DEF ContextInv, StopInv, BeforeStop, Over, Starting, I
<1> QED
  BY <1>3, <1>4

\* A call returns.
LEMMA CallEnds ==
    ASSUME ContextType, ContextInv, ReturnCall, subs' = subs, starter' = "none" <=> starter = "none"
    PROVE  ContextInv'
<1> DEFINE I == Instances(beans)
<1>1. /\ I' = I /\ Configured(program)' = Configured(program) /\ beans' = beans /\ phase' = phase
      /\ adapters' = adapters /\ heard' = heard /\ tasks' = tasks /\ stopped' = stopped /\ destroyed' = destroyed
      /\ todo # <<>> /\ call # "no" /\ call' = "no" /\ todo' = Tail(todo)
      /\ started' = IF phase = "adapters" THEN Append(started, Head(todo)) ELSE started
      /\ constructed' = IF phase = "hooks" THEN Append(constructed, Head(todo)) ELSE constructed
  BY DEF ReturnCall, ContextInv, StartInv, program
<1>2. /\ todo \in Seq(Indices) /\ started \in Seq(Indices) /\ constructed \in Seq(Indices)
      /\ adapters \in Seq(Indices) /\ I \in Seq(Indices)
  BY ContextFacts DEF ContextType
<1> HIDE DEF I
<1>3. /\ Head(todo) \in Indices /\ Tail(todo) \in Seq(Indices)
      /\ started' \in Seq(Indices) /\ constructed' \in Seq(Indices)
  BY <1>1, <1>2
<1>4. phase = "adapters" => Splits(adapters, started', todo') /\ Begins(started', adapters)
  BY <1>1, <1>2, <1>3, SplitsMoves, SplitsBegins DEF ContextInv, StartInv
<1>5. phase = "hooks" => Splits(I, constructed', todo') /\ Begins(constructed', I)
  BY <1>1, <1>2, <1>3, SplitsMoves, SplitsBegins DEF ContextInv, StartInv, I
<1>6. phase \notin {"new", "running", "failed"}
  BY <1>1 DEF ContextInv, StartInv
<1>7. StartInv'
  BY <1>1, <1>4, <1>5, <1>6 DEF ContextInv, StartInv, Later, I
<1>8. ListInv'
  BY <1>1, <1>4, <1>5 DEF ContextInv, ListInv, I
<1>9. WiredInv'
  BY <1>1 DEF ContextInv, WiredInv, I
<1>10. Left' = Left
  BY <1>1 DEF Left
<1>11. StopInv'
  BY <1>1, <1>10 DEF ContextInv, StopInv, I
<1> QED
  BY <1>7, <1>8, <1>9, <1>11 DEF ContextInv

\* A call raises, or its time is over.
LEMMA CallFails ==
    ASSUME ContextType, ContextInv, RaiseCall \/ TimeOutCall, subs' = subs, starter' = "none" <=> starter = "none"
    PROVE  ContextInv'
<1> DEFINE I == Instances(beans)
<1>1. /\ I' = I /\ Configured(program)' = Configured(program) /\ beans' = beans
      /\ adapters' = adapters /\ heard' = heard /\ tasks' = tasks
      /\ started' = started /\ constructed' = constructed /\ stopped' = stopped /\ destroyed' = destroyed
      /\ todo # <<>> /\ call # "no" /\ call' = "no" /\ phase \notin {"new", "running", "failed"}
  BY DEF RaiseCall, TimeOutCall, ContextInv, StartInv, program, Histories
<1> HIDE DEF I
<1>2. ListInv'
  BY <1>1 DEF ContextInv, ListInv, I
<1>3. \/ phase \in {"stopping", "destroying"} /\ phase' = phase /\ todo' = Tail(todo)
      \/ phase \in Starting /\ phase' = "failed" /\ todo' = <<>>
      \/ phase \notin Starting \cup {"stopping", "destroying"} /\ phase' = "stopped" /\ todo' = <<>>
  BY DEF RaiseCall, TimeOutCall, Forgiving, Limited, Starting
<1>4. CASE phase \in {"stopping", "destroying"} /\ phase' = phase /\ todo' = Tail(todo)
  <2>1. Left' = Left
    BY <1>1, <1>4 DEF Left
  <2>2. StopInv'
    BY <1>1, <1>4, <2>1 DEF ContextInv, StopInv, I
  <2>3. StartInv' /\ WiredInv'
    BY <1>1, <1>4 DEF ContextInv, StartInv, WiredInv, Later, I
  <2> QED
    BY <1>2, <2>2, <2>3 DEF ContextInv
<1>5. CASE phase \in Starting /\ phase' = "failed" /\ todo' = <<>>
  <2>1. StopInv'
    BY <1>1, <1>5 DEF ContextInv, StopInv, BeforeStop, Starting, Over, I
  <2>2. StartInv' /\ WiredInv'
    BY <1>1, <1>5 DEF ContextInv, StartInv, WiredInv, Later, Starting, I
  <2> QED
    BY <1>2, <2>1, <2>2 DEF ContextInv
<1>6. CASE phase \notin Starting \cup {"stopping", "destroying"} /\ phase' = "stopped" /\ todo' = <<>>
  <2>1. phase \in {"closing", "stopped"}
    BY <1>1, <1>6 DEF ContextType, Phases, Stopping, Starting
  <2>2. StopInv'
    BY <1>1, <1>6, <2>1 DEF ContextInv, StopInv, BeforeStop, Starting, Over, I
  <2>3. StartInv' /\ WiredInv'
    BY <1>1, <1>6, <2>1 DEF ContextInv, StartInv, WiredInv, Later, I
  <2> QED
    BY <1>2, <2>2, <2>3 DEF ContextInv
<1> QED
  BY <1>3, <1>4, <1>5, <1>6

\* A background task runs: nobody is wired who was not to be.
LEMMA TaskStep ==
    ASSUME ContextType, ContextInv, RunTask, starter' = starter
    PROVE  ContextInv'
<1>1. /\ Instances(beans)' = Instances(beans) /\ Configured(program)' = Configured(program) /\ beans' = beans
      /\ phase' = phase /\ todo' = todo /\ call' = call /\ adapters' = adapters /\ heard' = heard
      /\ started' = started /\ stopped' = stopped /\ constructed' = constructed /\ destroyed' = destroyed
      /\ tasks # <<>> /\ Left' = Left
  BY DEF RunTask, Histories, Left, program
<1>2. StartInv' /\ ListInv' /\ StopInv'
  BY <1>1 DEF ContextInv, StartInv, ListInv, StopInv
<1>3. constructed = Instances(beans) /\ phase \in Later \cup {"failed"}
  BY <1>1 DEF ContextInv, WiredInv
<1>4. WiredInv'
  BY <1>1, <1>3 DEF WiredInv, Later
<1> QED
  BY <1>2, <1>4 DEF ContextInv

LEMMA ContextStep ==
    ASSUME ContextType, ContextInv, ApplicationNext
    PROVE  ContextType' /\ ContextInv'
<1>1. CASE ContextNext /\ ~RunTask /\ ~Wire /\ subs' = subs /\ (starter' = "none" <=> starter = "none")
  <2>1. ContextType'
    BY <1>1, ContextTypeStep
  <2>2. \/ Configure \/ CreateBeans \/ InvokeRunners \/ Started \/ Stop \/ Destroy \/ Close \/ Closed
        \/ BeginCall \/ ReturnCall \/ RaiseCall \/ HangCall \/ TimeOutCall
    BY <1>1 DEF ContextNext
  <2> QED
    BY <1>1, <2>1, <2>2, StartSteps, StopSteps, CallStarts, CallEnds, CallFails
<1>2. CASE Wire /\ subs' = subs
  BY <1>2, ContextTypeStep, WireStep DEF ContextNext
<1>3. CASE RunTask /\ starter' = starter
  BY <1>3, ContextTypeStep, TaskStep DEF ContextNext
<1>4. CASE UNCHANGED contextVars /\ subs' = subs /\ (starter' = "none" <=> starter = "none")
  <2>1. ContextType'
    BY <1>4 DEF ContextType, contextVars, program, Indices, Having
  <2> QED
    BY <1>4, <2>1, ContextStutters
<1> QED
  BY <1>1, <1>2, <1>3, <1>4, NextForms

-----------------------------------------------------------------------------
(* The scheduler.                                                          *)

\* The scheduler is wired, and its start() run or cancelled.
LEMMA SchedulerStarts ==
    ASSUME SchedulerInv,
           \/ starter = "none" /\ Timer!Discover(Discovered(beans))
           \/ Timer!Cancel \/ Timer!Start
    PROVE  SchedulerInv'
<1> USE DEF SchedulerInv
<1>1. CASE starter = "none" /\ Timer!Discover(Discovered(beans))
  <2>1. Discovered(beans) \subseteq Timer!Entries
    BY DEF Discovered
  <2>2. /\ found' \subseteq Timer!Entries /\ starter' \in {"none", "pending"} /\ stopper' = stopper
        /\ ticking' = ticking /\ loop' = loop /\ active' = active /\ cut' = cut /\ stopper = "no"
    BY <1>1, <2>1 DEF Timer!Discover
  <2> QED
    BY <1>1, <2>2 DEF Timer!TypeOK, Timer!LoopsEnded
<1>2. CASE Timer!Cancel
  BY <1>2 DEF Timer!Cancel, Timer!StopStarter, Timer!TypeOK, Timer!LoopsEnded
<1>3. CASE Timer!Start
  <2>1. /\ starter = "pending" /\ starter' = "done" /\ ticking' = TRUE /\ stopper = "no" /\ stopper' = stopper
        /\ found' = found /\ active' = active /\ cut' = cut
        /\ loop' = [m \in Timer!Entries |-> IF m \in found THEN "created" ELSE "none"]
    BY <1>3 DEF Timer!Start
  <2>2. loop' \in [Timer!Entries -> Timer!Alive \cup {"none", "ended", "dead"}]
    BY <2>1 DEF Timer!Alive
  <2> QED
    BY <2>1, <2>2 DEF Timer!TypeOK, Timer!LoopsEnded
<1> QED
  BY <1>1, <1>2, <1>3

\* The steps of its stop().
LEMMA SchedulerStops ==
    ASSUME SchedulerInv, starter # "pending",
           Timer!Stop \/ Timer!StopExecutor \/ Timer!Drained \/ Timer!Timeout \/ Timer!TimedOut
    PROVE  SchedulerInv'
<1> USE DEF SchedulerInv
<1>1. CASE Timer!Stop
  <2>1. /\ starter \in {"done", "cancelled"} /\ starter' = starter /\ stopper' = "loops" /\ ticking' = FALSE
        /\ found' = found /\ active' = active /\ cut' = cut
        /\ loop' = [m \in Timer!Entries |-> Timer!StoppedLoop(m)]
    BY <1>1 DEF Timer!Stop, Timer!TypeOK
  <2>2. ASSUME NEW m \in Timer!Entries
        PROVE  /\ Timer!StoppedLoop(m) \in Timer!Alive \cup {"none", "ended", "dead"}
               /\ loop[m] = "none" => Timer!StoppedLoop(m) = "none"
    BY DEF Timer!StoppedLoop, Timer!Alive, Timer!TypeOK
  <2>3. loop' \in [Timer!Entries -> Timer!Alive \cup {"none", "ended", "dead"}]
    BY <2>1, <2>2
  <2> QED
    BY <2>1, <2>2, <2>3 DEF Timer!TypeOK
<1>2. CASE Timer!StopExecutor \/ Timer!Drained
  BY <1>2 DEF Timer!StopExecutor, Timer!Drained, Timer!TypeOK, Timer!LoopsEnded
<1>3. CASE Timer!Timeout \/ Timer!TimedOut
  BY <1>3 DEF Timer!Timeout, Timer!TimedOut, Timer!TypeOK, Timer!LoopsEnded
<1> QED
  BY <1>1, <1>2, <1>3

\* A loop goes on, or an execution ends.
LEMMA SchedulerTicks ==
    ASSUME SchedulerInv, Timer!Ticks
    PROVE  SchedulerInv'
<1> USE DEF SchedulerInv
<1>1. PICK m \in Timer!Entries :
        Timer!Enter(m) \/ Timer!Fire(m) \/ Timer!Returns(m) \/ Timer!Raises(m) \/ Timer!CutOff(m)
  BY DEF Timer!Ticks
<1>2. /\ loop \in [Timer!Entries -> Timer!Alive \cup {"none", "ended", "dead"}]
      /\ active \in [Timer!Entries -> 0..MaxActive] /\ MaxActive \in Nat
  BY EntriesAssumption DEF Timer!TypeOK
<1>3. /\ found' = found /\ starter' = starter /\ stopper' = stopper /\ ticking' = ticking
      /\ cut' \in {cut, cut \cup {m}}
  BY <1>1 DEF Timer!Enter, Timer!Fire, Timer!Returns, Timer!Raises, Timer!CutOff, Timer!Ends
<1>4. starter = "done" /\ stopper # "stopped"
  <2>1. CASE Timer!Enter(m) \/ Timer!Fire(m)
    BY <1>2, <2>1 DEF Timer!Enter, Timer!Fire, Timer!Due, Timer!LoopsEnded, Timer!Alive
  <2>2. CASE Timer!Returns(m) \/ Timer!Raises(m) \/ Timer!CutOff(m)
    BY <1>2, <2>2 DEF Timer!Returns, Timer!Raises, Timer!CutOff, Timer!Ends
  <2> QED
    BY <1>1, <2>1, <2>2
<1>5. /\ \E a \in 0..MaxActive : active' = [active EXCEPT ![m] = a]
      /\ \E l \in Timer!Alive \cup {"none", "ended", "dead"} :
            loop' = [loop EXCEPT ![m] = l] /\ (stopper = "drain" => l \notin Timer!Alive)
  <2>1. CASE Timer!Enter(m)
    <3>1. loop[m] = "created" /\ active' = active /\ loop' = [loop EXCEPT ![m] = IF m \in Cron THEN "sleeping" ELSE "initial"]
      BY <2>1 DEF Timer!Enter
    <3>2. stopper # "drain"
      BY <3>1 DEF Timer!LoopsEnded, Timer!Alive
    <3>3. active' = [active EXCEPT ![m] = active[m]] /\ active[m] \in 0..MaxActive
      BY <1>2, <3>1
    <3> QED
      BY <3>1, <3>2, <3>3 DEF Timer!Alive
  <2>2. CASE Timer!Fire(m)
    <3>1. /\ ticking /\ active[m] < MaxActive /\ active' = [active EXCEPT ![m] = active[m] + 1]
          /\ loop' = [loop EXCEPT ![m] = Timer!AfterSubmit(m)]
      BY <2>2 DEF Timer!Fire
    <3>2. stopper = "no" /\ Timer!AfterSubmit(m) \in Timer!Alive /\ active[m] + 1 \in 0..MaxActive
      BY <1>2, <3>1 DEF Timer!AfterSubmit, Timer!Alive
    <3> QED
      BY <3>1, <3>2
  <2>3. CASE Timer!Returns(m) \/ Timer!Raises(m) \/ Timer!CutOff(m)
    <3>1. active[m] > 0 /\ active' = [active EXCEPT ![m] = active[m] - 1]
      BY <2>3 DEF Timer!Returns, Timer!Raises, Timer!CutOff, Timer!Ends
    <3>2. active[m] - 1 \in 0..MaxActive
      BY <1>2, <3>1
    <3>3. \E l \in {loop[m], "sleeping", "ended", "dead"} :
             loop' = [loop EXCEPT ![m] = l] /\ (l \in {loop[m], "ended", "dead"} \/ loop[m] = "awaiting")
      <4>1. CASE Timer!Returns(m)
        <5>1. loop' = [loop EXCEPT ![m] = CASE loop[m] = "awaiting"   -> IF ticking THEN "sleeping" ELSE "ended"
                                            [] loop[m] = "cancelling" -> "ended"
                                            [] OTHER                  -> loop[m]]
          BY <4>1 DEF Timer!Returns
        <5>2. CASE loop[m] = "awaiting"
          BY <5>1, <5>2
        <5>3. CASE loop[m] = "cancelling"
          BY <5>1, <5>3
        <5>4. CASE loop[m] \notin {"awaiting", "cancelling"}
          BY <5>1, <5>4
        <5> QED
          BY <5>2, <5>3, <5>4
      <4>2. CASE Timer!Raises(m)
        BY <4>2 DEF Timer!Raises
      <4>3. CASE Timer!CutOff(m)
        BY <4>3 DEF Timer!CutOff
      <4> QED
        BY <2>3, <4>1, <4>2, <4>3
    <3>4. stopper = "drain" => loop[m] \notin Timer!Alive
      BY DEF Timer!LoopsEnded
    <3> QED
      BY <1>2, <3>1, <3>2, <3>3, <3>4 DEF Timer!Alive
  <2> QED
    BY <1>1, <2>1, <2>2, <2>3
<1>6. /\ loop' \in [Timer!Entries -> Timer!Alive \cup {"none", "ended", "dead"}]
      /\ active' \in [Timer!Entries -> 0..MaxActive]
      /\ stopper = "drain" => \A n \in Timer!Entries : loop'[n] \notin Timer!Alive
  BY <1>2, <1>5 DEF Timer!LoopsEnded
<1> QED
  BY <1>3, <1>4, <1>6 DEF Timer!TypeOK, Timer!LoopsEnded

LEMMA SchedulerStutters ==
    ASSUME SchedulerInv, UNCHANGED timerVars
    PROVE  SchedulerInv'
BY DEF SchedulerInv, timerVars, Timer!TypeOK, Timer!LoopsEnded

\* A step of the context that leaves the scheduler alone comes to its adapters
\* and beans only after the scheduler.
LEMMA ShutdownKeeps ==
    ASSUME ContextType, ContextInv, ShutdownInv, UNCHANGED timerVars,
           \/ Starts \/ Stops \/ CallBegins \/ CallReturns \/ CallRaises \/ CallHangs \/ CallTimesOut
           \/ TaskRuns \/ Publishing
    PROVE  ShutdownInv'
<1>1. starter' = starter /\ stopper' = stopper /\ Timer!Over' = Timer!Over
  BY DEF timerVars, Timer!Over
<1>2. phase' \in BeforeStop <=> phase \in BeforeStop
  BY DEF Starts, Configure, CreateBeans, InvokeRunners, Started, Stops, Destroy, Close, Closed,
         CallBegins, BeginCall, CallReturns, ReturnCall, CallRaises, RaiseCall, Forgiving, CallHangs, HangCall,
         CallTimesOut, TimeOutCall, TaskRuns, RunTask, Publishing, contextVars, BeforeStop, Starting,
         ContextType, Phases, Stopping, ContextInv, StartInv
<1>3. stopped' # <<>> \/ phase' \in Over =>
        stopped # <<>> \/ phase \in Over \/ (phase = "stopping" /\ Timer!Over)
  <2>1. CASE Starts
    BY <2>1 DEF Starts, Configure, CreateBeans, InvokeRunners, Started, Histories, Over
  <2>2. CASE Stops
    BY <2>2 DEF Stops, Destroy, Close, Closed, Histories, Over, SchedulerFirst
  <2>3. CASE CallBegins
    BY <2>3 DEF CallBegins, BeginCall, SchedulerFirst
  <2>4. CASE CallReturns \/ CallHangs \/ CallTimesOut
    BY <2>4 DEF CallReturns, ReturnCall, CallHangs, HangCall, CallTimesOut, TimeOutCall, Histories
  <2>5. CASE CallRaises
    <3>1. stopped' = stopped
      BY <2>5 DEF CallRaises, RaiseCall, Histories
    <3>2. phase' \in Over => phase \in Over
      BY <2>5 DEF CallRaises, RaiseCall, Forgiving, ContextInv, StartInv, ContextType, Phases, Starting, Stopping, Over
    <3> QED
      BY <3>1, <3>2
  <2>6. CASE TaskRuns \/ Publishing
    BY <2>6 DEF TaskRuns, RunTask, Histories, Publishing, contextVars
  <2> QED
    BY <2>1, <2>2, <2>3, <2>4, <2>5, <2>6
<1> QED
  BY <1>1, <1>2, <1>3 DEF ShutdownInv

LEMMA ShutdownStep ==
    ASSUME ContextType, ContextInv, SchedulerInv, ShutdownInv, ApplicationNext
    PROVE  SchedulerInv' /\ ShutdownInv'
<1>1. CASE \/ Starts \/ Stops \/ CallBegins \/ CallReturns \/ CallRaises \/ CallHangs \/ CallTimesOut
           \/ TaskRuns \/ Publishing
  <2>1. UNCHANGED timerVars
    BY <1>1 DEF Starts, Stops, CallBegins, CallReturns, CallRaises, CallHangs, CallTimesOut, TaskRuns, Publishing
  <2> QED
    BY <1>1, <2>1, SchedulerStutters, ShutdownKeeps
<1>2. CASE Wires
  <2>1. phase = "hooks" /\ phase' = "events" /\ stopped' = stopped /\ Timer!Discover(Discovered(beans))
    BY <1>2 DEF Wires, Wire, Histories
  <2>2. starter = "none" /\ stopped = <<>> /\ stopper = "no"
    BY <2>1 DEF ContextInv, WiredInv, StopInv, ShutdownInv, BeforeStop, Starting
  <2>3. SchedulerInv'
    BY <2>1, <2>2, SchedulerStarts
  <2>4. ShutdownInv'
    BY <2>1, <2>2 DEF ShutdownInv, BeforeStop, Starting, Over, Timer!Discover
  <2> QED
    BY <2>3, <2>4
<1>3. CASE StopBegins
  <2>1. phase \in {"running", "failed"} /\ phase' = "stopping" /\ stopped' = stopped /\ Timer!Cancel
    BY <1>3 DEF StopBegins, Stop, Histories
  <2>2. stopped = <<>>
    BY <2>1 DEF ContextInv, StopInv, BeforeStop
  <2>3. SchedulerInv'
    BY <2>1, SchedulerStarts
  <2>4. ShutdownInv'
    BY <2>1, <2>2 DEF ShutdownInv, BeforeStop, Starting, Over, Timer!Cancel, Timer!StopStarter
  <2> QED
    BY <2>3, <2>4
<1>4. CASE TimerStarts
  <2>1. Timer!Start /\ phase' = phase /\ stopped' = stopped
    BY <1>4 DEF TimerStarts, contextVars
  <2>2. SchedulerInv'
    BY <2>1, SchedulerStarts
  <2>3. ShutdownInv'
    BY <2>1 DEF ShutdownInv, Timer!Start, Timer!Over
  <2> QED
    BY <2>2, <2>3
<1>5. CASE TimerStops
  <2>1. /\ Timer!Stop \/ Timer!StopExecutor \/ Timer!Drained \/ Timer!Timeout \/ Timer!TimedOut
        /\ phase = "stopping" /\ phase' = phase /\ stopped' = stopped
    BY <1>5 DEF TimerStops, contextVars
  <2>2. starter # "pending"
    BY <2>1 DEF ShutdownInv, BeforeStop, Starting
  <2>3. SchedulerInv'
    BY <2>1, <2>2, SchedulerStops
  <2>4. starter' = starter /\ (Timer!Over => Timer!Over')
    BY <2>1 DEF Timer!Stop, Timer!StopExecutor, Timer!Drained, Timer!Timeout, Timer!TimedOut, Timer!Over
  <2>5. ShutdownInv'
    BY <2>1, <2>2, <2>4 DEF ShutdownInv, BeforeStop, Starting
  <2> QED
    BY <2>3, <2>5
<1>6. CASE TimerTicks
  <2>1. Timer!Ticks /\ phase' = phase /\ stopped' = stopped
    BY <1>6 DEF TimerTicks, contextVars
  <2>2. SchedulerInv'
    BY <2>1, SchedulerTicks
  <2>3. starter' = starter /\ stopper' = stopper
    BY <2>1 DEF Timer!Ticks, Timer!Enter, Timer!Fire, Timer!Returns, Timer!Raises, Timer!CutOff, Timer!Ends
  <2>4. ShutdownInv'
    BY <2>1, <2>3 DEF ShutdownInv, Timer!Over
  <2> QED
    BY <2>2, <2>4
<1> QED
  BY <1>1, <1>2, <1>3, <1>4, <1>5, <1>6 DEF ApplicationNext

-----------------------------------------------------------------------------
(* The broker.                                                             *)

\* The members of a group are of the group, and there are some if somebody
\* of the group has subscribed.
LEMMA MembersFacts ==
    ASSUME NEW s \in Seq(Handlers), NEW g
    PROVE  /\ MembersIn(s, g) \in Seq(Handlers)
           /\ \A n \in 1..Len(MembersIn(s, g)) : MembersIn(s, g)[n] \in HandlersOf(g)
           /\ MembersIn(s, g) = <<>> <=> \A i \in 1..Len(s) : Group[s[i]] # g
<1> DEFINE of == {i \in DOMAIN s : Group[s[i]] = g}
           m  == MembersIn(s, g)
           Ranked(n) == CHOOSE i \in of : Cardinality({j \in of : j <= i}) = n
<1>1. DOMAIN s = 1..Len(s) /\ Len(s) \in Nat
  OBVIOUS
<1>2. IsFiniteSet(of) /\ of \subseteq Nat /\ Cardinality(of) \in Nat
  <2>1. IsFiniteSet(1..Len(s)) /\ of \in SUBSET (1..Len(s))
    BY <1>1, FS_Interval
  <2>2. IsFiniteSet(of)
    BY <2>1, FS_Subset
  <2> QED
    BY <2>1, <2>2, FS_CardinalityType
<1>3. m = [n \in 1..Cardinality(of) |-> s[Ranked(n)]]
  BY DEF MembersIn
<1>4. ASSUME NEW n \in 1..Cardinality(of) PROVE Ranked(n) \in of
  <2> HIDE DEF of
  <2> DEFINE place == [i \in of |-> Cardinality({j \in of : j <= i})]
  <2>1. place \in [of -> 1..Cardinality(of)] /\ \A i, j \in of : place[i] = place[j] => i = j
    BY <1>2, RankFacts
  <2>2. \E i \in of : place[i] = n
    <3> HIDE DEF place
    <3> QED
      BY <1>2, <2>1, PlacesAreTaken
  <2>3. \E i \in of : Cardinality({j \in of : j <= i}) = n
    BY <2>2
  <2> QED
    BY <2>3
<1> HIDE DEF Ranked
<1>5. ASSUME NEW n \in 1..Cardinality(of) PROVE s[Ranked(n)] \in HandlersOf(g)
  BY <1>1, <1>4 DEF HandlersOf
<1>6. m \in [1..Cardinality(of) -> Handlers] /\ \A n \in 1..Cardinality(of) : m[n] \in HandlersOf(g)
  BY <1>3, <1>5 DEF HandlersOf
<1>7. m \in Seq(Handlers) /\ Len(m) = Cardinality(of)
  BY <1>2, <1>6
<1>8. Cardinality(of) = 0 <=> of = {}
  BY <1>2, FS_EmptySet
<1>9. m = <<>> <=> Len(m) = 0
  BY <1>7
<1>10. of = {} <=> \A i \in 1..Len(s) : Group[s[i]] # g
  BY <1>1
<1> HIDE DEF m, of
<1>11. MembersIn(s, g) = m
  BY DEF m
<1> QED
  BY <1>6, <1>7, <1>8, <1>9, <1>10, <1>11

\* Call c comes to the subscription at i: what it skips is of a group that
\* has had its turn.
Skips(c, i) ==
  /\ i \in 1..Len(c.snap) /\ i > c.at
  /\ \A k \in 1..i : k > c.at /\ k # i => Group[c.snap[k]] \in c.groups

\* The next subscription to be served.
LEMMA AheadFacts ==
    ASSUME NEW c \in Calls, Ahead(c) # {}
    PROVE  LET i == CHOOSE i \in Ahead(c) : \A j \in Ahead(c) : i <= j
           IN  Skips(c, i) /\ Group[c.snap[i]] \notin c.groups
<1>1. c.snap \in Seq(Handlers) /\ c.at \in Nat /\ DOMAIN c.snap = 1..Len(c.snap) /\ Len(c.snap) \in Nat
  BY DEF Calls
<1>2. Ahead(c) = {i \in 1..Len(c.snap) : i > c.at /\ Group[c.snap[i]] \notin c.groups}
  BY <1>1 DEF Ahead
<1>3. PICK x \in Ahead(c) : TRUE
  OBVIOUS
<1>4. PICK i \in Ahead(c) : \A j \in Ahead(c) : i <= j
  <2>1. Ahead(c) \subseteq Nat
    BY <1>2
  <2>2. PICK i \in Ahead(c) : \A j \in Ahead(c) : ~(<<j, i>> \in OpToRel(<, Nat))
    BY <2>1, WFMin, NatLessThanWellFounded
  <2>3. ASSUME NEW j \in Ahead(c) PROVE i <= j
    <3>1. i \in Nat /\ j \in Nat /\ ~(j < i)
      BY <2>1, <2>2 DEF OpToRel
    <3> QED
      BY <3>1
  <2> QED
    BY <2>3
<1> DEFINE k == CHOOSE k \in Ahead(c) : \A j \in Ahead(c) : k <= j
<1>5. k \in Ahead(c) /\ \A j \in Ahead(c) : k <= j
  BY <1>4
<1> HIDE DEF k
<1>6. /\ k \in 1..Len(c.snap) /\ k > c.at /\ Group[c.snap[k]] \notin c.groups
  BY <1>2, <1>5
<1>7. ASSUME NEW j \in 1..k, j > c.at, j # k PROVE Group[c.snap[j]] \in c.groups
  <2>1. j \in 1..Len(c.snap) /\ j < k
    BY <1>1, <1>6, <1>7
  <2>2. j \notin Ahead(c)
    BY <1>5, <1>6, <2>1
  <2> QED
    BY <1>2, <1>7, <2>1, <2>2
<1> QED
  BY <1>6, <1>7 DEF Skips, k

\* The subscriptions of a handler without a group are counted one by one.
LEMMA CountNext ==
    ASSUME NEW c \in Calls, NEW i, Skips(c, i), NEW h \in Handlers, Group[h] = NoGroup
    PROVE  Cardinality({k \in 1..i : c.snap[k] = h})
             = Cardinality({k \in 1..c.at : c.snap[k] = h}) + (IF c.snap[i] = h THEN 1 ELSE 0)
<1> DEFINE old == {k \in 1..c.at : c.snap[k] = h}
           new == {k \in 1..i : c.snap[k] = h}
<1>1. /\ c.at \in Nat /\ NoGroup \notin c.groups /\ i \in 1..Len(c.snap) /\ i > c.at
      /\ \A k \in 1..i : k > c.at /\ k # i => Group[c.snap[k]] \in c.groups
  BY DEF Calls, Groups, Skips
<1>2. IsFiniteSet(old) /\ Cardinality(old) \in Nat
  <2>1. IsFiniteSet(1..c.at)
    BY <1>1, FS_Interval
  <2>2. old \in SUBSET (1..c.at)
    OBVIOUS
  <2> HIDE DEF old
  <2> QED
    BY <2>1, <2>2, FS_Subset, FS_CardinalityType
<1>3. i \notin old
  BY <1>1
<1>4. new = IF c.snap[i] = h THEN old \cup {i} ELSE old
  BY <1>1
<1> HIDE DEF old, new
<1>5. Cardinality(old \cup {i}) = Cardinality(old) + 1
  BY <1>2, <1>3, FS_AddElement
<1>6. Cardinality(new) = Cardinality(old) + (IF c.snap[i] = h THEN 1 ELSE 0)
  BY <1>2, <1>4, <1>5
<1> QED
  BY <1>6 DEF old, new

\* Call c when it has come to the subscription at i and calls h for it, gs
\* being the groups that have had their turn.
Called(c, i, gs, h) == [c EXCEPT !.at = i, !.groups = gs, !.calling = h, !.served[h] = @ + 1]

LEMMA ServedSame ==
    ASSUME NEW c, NEW d, NEW hs, \A h \in hs : d.served[h] = c.served[h]
    PROVE  /\ OneServed(c, hs) => OneServed(d, hs)
           /\ NoneServed(c, hs) => NoneServed(d, hs)
BY DEF OneServed, NoneServed

\* A handler without a group is called.
LEMMA ServesOne ==
    ASSUME NEW c \in Calls, NEW i, Skips(c, i), ServedUpTo(c),
           Group[c.snap[i]] = NoGroup,
           NEW d, d = Called(c, i, c.groups, c.snap[i])
    PROVE  d \in Calls /\ ServedUpTo(d)
<1>1. /\ c.snap \in Seq(Handlers) /\ c.at \in Nat /\ c.groups \in SUBSET Groups
      /\ c.served \in [Handlers -> Nat] /\ NoGroup \notin Groups /\ c.snap[i] \in Handlers
      /\ i \in Nat /\ i \in 1..Len(c.snap) /\ i > c.at
  BY DEF Calls, Groups, Skips
<1>2. /\ d \in Calls /\ d.snap = c.snap /\ d.at = i /\ d.groups = c.groups
      /\ d.served = [c.served EXCEPT ![c.snap[i]] = c.served[c.snap[i]] + 1]
  <2>1. [c.served EXCEPT ![c.snap[i]] = c.served[c.snap[i]] + 1] \in [Handlers -> Nat]
    BY <1>1
  <2>2. d = [c EXCEPT !.at = i, !.groups = c.groups, !.calling = c.snap[i],
                      !.served = [c.served EXCEPT ![c.snap[i]] = c.served[c.snap[i]] + 1]]
    BY DEF Calls, Called
  <2> QED
    BY <1>1, <2>1, <2>2 DEF Calls
<1>3. ASSUME NEW h \in Handlers, Group[h] = NoGroup
      PROVE  d.served[h] = Cardinality({k \in 1..d.at : d.snap[k] = h})
  <2>1. c.served[h] = Cardinality({k \in 1..c.at : c.snap[k] = h})
    BY <1>3 DEF ServedUpTo
  <2>2. Cardinality({k \in 1..i : c.snap[k] = h})
          = Cardinality({k \in 1..c.at : c.snap[k] = h}) + (IF c.snap[i] = h THEN 1 ELSE 0)
    BY <1>3, CountNext
  <2>3. d.served[h] = c.served[h] + (IF c.snap[i] = h THEN 1 ELSE 0)
    BY <1>1, <1>2
  <2> QED
    BY <1>2, <2>1, <2>2, <2>3
<1>4. ASSUME NEW h \in Handlers, Group[h] # NoGroup PROVE d.served[h] = c.served[h]
  BY <1>1, <1>2, <1>4
<1>5. ASSUME NEW g \in Groups
      PROVE  /\ OneServed(c, HandlersOf(g)) => OneServed(d, HandlersOf(g))
             /\ NoneServed(c, HandlersOf(g)) => NoneServed(d, HandlersOf(g))
  <2>1. \A h \in HandlersOf(g) : d.served[h] = c.served[h]
    BY <1>1, <1>4 DEF HandlersOf
  <2> QED
    BY <2>1, ServedSame
<1>6. ASSUME NEW g \in Groups \ c.groups, NEW k \in 1..i PROVE Group[c.snap[k]] # g
  <2>1. CASE k \in 1..c.at
    BY <2>1 DEF ServedUpTo
  <2>2. CASE k > c.at
    BY <1>1, <2>2 DEF Skips
  <2> QED
    BY <1>1, <2>1, <2>2
<1>7. ASSUME NEW g \in d.groups
      PROVE  OneServed(d, HandlersOf(g)) /\ \E k \in DOMAIN d.snap : Group[d.snap[k]] = g
  <2>1. OneServed(c, HandlersOf(g)) /\ \E k \in DOMAIN c.snap : Group[c.snap[k]] = g
    BY <1>2 DEF ServedUpTo
  <2> QED
    BY <1>1, <1>2, <1>5, <2>1
<1>8. ASSUME NEW g \in Groups \ d.groups
      PROVE  NoneServed(d, HandlersOf(g)) /\ \A k \in 1..d.at : Group[d.snap[k]] # g
  <2>1. g \in Groups \ c.groups
    BY <1>2
  <2>2. NoneServed(c, HandlersOf(g))
    BY <2>1 DEF ServedUpTo
  <2>3. ASSUME NEW k \in 1..d.at PROVE Group[d.snap[k]] # g
    <3>1. k \in 1..i /\ d.snap[k] = c.snap[k]
      BY <1>2, <2>3
    <3> QED
      BY <1>6, <2>1, <3>1
  <2> QED
    BY <1>5, <2>1, <2>2, <2>3
<1> QED
  BY <1>2, <1>3, <1>7, <1>8 DEF ServedUpTo

\* A handler of a group is called that has not been.
LEMMA ServesGroup ==
    ASSUME NEW c \in Calls, NEW i, Skips(c, i), ServedUpTo(c),
           NEW g, g = Group[c.snap[i]], g # NoGroup, g \notin c.groups, NEW x \in HandlersOf(g),
           NEW d, d = Called(c, i, c.groups \cup {g}, x)
    PROVE  d \in Calls /\ ServedUpTo(d)
<1>1. /\ c.snap \in Seq(Handlers) /\ c.at \in Nat /\ c.groups \in SUBSET Groups
      /\ c.served \in [Handlers -> Nat] /\ NoGroup \notin Groups /\ c.snap[i] \in Handlers
      /\ i \in Nat /\ i \in 1..Len(c.snap) /\ i > c.at /\ g \in Groups /\ x \in Handlers /\ Group[x] = g
  BY DEF Calls, Groups, HandlersOf, Skips
<1>2. /\ d \in Calls /\ d.snap = c.snap /\ d.at = i /\ d.groups = c.groups \cup {g}
      /\ d.served = [c.served EXCEPT ![x] = c.served[x] + 1]
  <2>1. [c.served EXCEPT ![x] = c.served[x] + 1] \in [Handlers -> Nat] /\ c.groups \cup {g} \in SUBSET Groups
    BY <1>1
  <2>2. d = [c EXCEPT !.at = i, !.groups = c.groups \cup {g}, !.calling = x,
                      !.served = [c.served EXCEPT ![x] = c.served[x] + 1]]
    BY DEF Calls, Called
  <2> QED
    BY <1>1, <2>1, <2>2 DEF Calls
<1>3. ASSUME NEW h \in Handlers, Group[h] = NoGroup
      PROVE  d.served[h] = Cardinality({k \in 1..d.at : d.snap[k] = h})
  <2>1. c.served[h] = Cardinality({k \in 1..c.at : c.snap[k] = h})
    BY <1>3 DEF ServedUpTo
  <2>2. Cardinality({k \in 1..i : c.snap[k] = h})
          = Cardinality({k \in 1..c.at : c.snap[k] = h}) + (IF c.snap[i] = h THEN 1 ELSE 0)
    BY <1>3, CountNext
  <2>3. c.snap[i] # h /\ x # h
    BY <1>1, <1>3
  <2>4. d.served[h] = c.served[h] /\ c.served[h] \in Nat
    BY <1>1, <1>2, <2>3
  <2>5. Cardinality({k \in 1..i : c.snap[k] = h}) = Cardinality({k \in 1..c.at : c.snap[k] = h})
    BY <2>1, <2>2, <2>3, <2>4
  <2>6. {k \in 1..d.at : d.snap[k] = h} = {k \in 1..i : c.snap[k] = h}
    BY <1>2
  <2> QED
    BY <2>1, <2>4, <2>5, <2>6
<1>4. ASSUME NEW h \in Handlers, h # x PROVE d.served[h] = c.served[h]
  BY <1>1, <1>2, <1>4
<1>5. NoneServed(c, HandlersOf(g))
  BY <1>1 DEF ServedUpTo
<1>6. OneServed(d, HandlersOf(g))
  <2>1. c.served[x] = 0 /\ d.served[x] = 1
    BY <1>1, <1>2, <1>5 DEF NoneServed
  <2>2. \A h \in HandlersOf(g) \ {x} : d.served[h] = 0
    BY <1>4, <1>5 DEF NoneServed, HandlersOf
  <2> QED
    BY <2>1, <2>2 DEF OneServed
<1>7. ASSUME NEW f \in Groups, f # g
      PROVE  /\ OneServed(c, HandlersOf(f)) => OneServed(d, HandlersOf(f))
             /\ NoneServed(c, HandlersOf(f)) => NoneServed(d, HandlersOf(f))
  <2>1. \A h \in HandlersOf(f) : d.served[h] = c.served[h]
    BY <1>1, <1>4, <1>7 DEF HandlersOf
  <2> QED
    BY <2>1, ServedSame
<1>8. ASSUME NEW f \in Groups \ d.groups, NEW k \in 1..i PROVE Group[c.snap[k]] # f
  <2>1. CASE k \in 1..c.at
    BY <1>2, <2>1 DEF ServedUpTo
  <2>2. CASE k > c.at
    BY <1>1, <1>2, <2>2 DEF Skips
  <2> QED
    BY <1>1, <2>1, <2>2
<1>9. ASSUME NEW f \in d.groups
      PROVE  OneServed(d, HandlersOf(f)) /\ \E k \in DOMAIN d.snap : Group[d.snap[k]] = f
  <2>1. CASE f = g
    <3>1. i \in DOMAIN d.snap /\ Group[d.snap[i]] = g
      BY <1>1, <1>2
    <3> QED
      BY <1>6, <2>1, <3>1
  <2>2. CASE f # g
    <3>1. f \in c.groups /\ f \in Groups
      BY <1>1, <1>2, <2>2
    <3>2. OneServed(c, HandlersOf(f)) /\ \E k \in DOMAIN c.snap : Group[c.snap[k]] = f
      BY <3>1 DEF ServedUpTo
    <3> QED
      BY <1>2, <1>7, <2>2, <3>1, <3>2
  <2> QED
    BY <2>1, <2>2
<1>10. ASSUME NEW f \in Groups \ d.groups
       PROVE  NoneServed(d, HandlersOf(f)) /\ \A k \in 1..d.at : Group[d.snap[k]] # f
  <2>1. f \in Groups \ c.groups /\ f # g
    BY <1>2
  <2>2. NoneServed(c, HandlersOf(f))
    BY <2>1 DEF ServedUpTo
  <2>3. NoneServed(d, HandlersOf(f))
    BY <1>7, <2>1, <2>2
  <2>4. ASSUME NEW k \in 1..d.at PROVE Group[d.snap[k]] # f
    <3>1. k \in 1..i /\ d.snap[k] = c.snap[k]
      BY <1>2
    <3> QED
      BY <1>8, <3>1
  <2> QED
    BY <2>3, <2>4
<1> QED
  BY <1>2, <1>3, <1>9, <1>10 DEF ServedUpTo

TurnsOK == [Groups -> [members : Seq(Handlers), next : Nat]]

\* publish() goes on from a call that has served who it should so far.
LEMMA ProceedKeeps ==
    ASSUME BrokerType, BrokerInv, NEW p \in Publishers, NEW c \in Calls, c.at <= Len(c.snap), ~c.ended,
           ServedUpTo(c), Proceed(p, c)
    PROVE  \E d \in Calls :
             /\ pub' = [pub EXCEPT ![p] = d] /\ CallInv(d) /\ d.snap = c.snap
             /\ turns' \in TurnsOK /\ \A g \in Groups : Turning(g, turns'[g])
<1> DEFINE i == CHOOSE i \in Ahead(c) : \A j \in Ahead(c) : i <= j
           g == Group[c.snap[i]]
           turn == IF turns[g].members # <<>> THEN turns[g] ELSE [members |-> MembersIn(c.snap, g), next |-> 1]
           x == turn.members[turn.next]
<1>1. turns \in TurnsOK /\ \A f \in Groups : Turning(f, turns[f])
  BY DEF BrokerType, BrokerInv, TurnsOK
<1>2. c.snap \in Seq(Handlers) /\ c.at \in Nat /\ Len(c.snap) \in Nat
  BY DEF Calls
<1>3. CASE Ahead(c) = {} /\ pub' = [pub EXCEPT ![p] = [c EXCEPT !.calling = Nobody, !.ended = TRUE]] /\ turns' = turns
  <2> DEFINE d == [c EXCEPT !.calling = Nobody, !.ended = TRUE]
  <2>1. /\ d \in Calls /\ d.snap = c.snap /\ d.at = c.at /\ d.groups = c.groups /\ d.served = c.served
        /\ d.calling = Nobody
    BY DEF Calls
  <2>2. ServedUpTo(d) /\ Ahead(d) = {}
    BY <1>3, <2>1 DEF ServedUpTo, OneServed, NoneServed, Ahead
  <2> HIDE DEF d
  <2>3. CallInv(d)
    BY <2>1, <2>2 DEF CallInv
  <2> QED
    BY <1>1, <1>3, <2>1, <2>3 DEF d
<1>4. ASSUME Ahead(c) # {}
      PROVE  Skips(c, i) /\ i \in 1..Len(c.snap) /\ g \notin c.groups
  BY <1>4, AheadFacts DEF Skips
<1> HIDE DEF i
<1>5. CASE /\ Ahead(c) # {} /\ g = NoGroup /\ turns' = turns
           /\ pub' = [pub EXCEPT ![p] = Called(c, i, c.groups, c.snap[i])]
  <2> DEFINE d == Called(c, i, c.groups, c.snap[i])
  <2>1. d \in Calls /\ ServedUpTo(d)
    BY <1>4, <1>5, ServesOne
  <2>2. d.snap = c.snap /\ d.at = i /\ d.calling = c.snap[i] /\ d.ended = c.ended
    BY DEF Calls, Called
  <2>3. c.snap[i] \in Handlers /\ c.snap # <<>> /\ i <= Len(c.snap)
    BY <1>2, <1>4, <1>5
  <2>4. CallInv(d)
    BY <2>1, <2>2, <2>3 DEF CallInv
  <2> QED
    BY <1>1, <1>5, <2>1, <2>2, <2>4
<1>6. CASE /\ Ahead(c) # {} /\ g # NoGroup
           /\ pub' = [pub EXCEPT ![p] = Called(c, i, c.groups \cup {g}, x)]
           /\ turns' = [turns EXCEPT ![g] = [turn EXCEPT !.next = (@ % Len(turn.members)) + 1]]
  <2>1. g \in Groups
    <3> HIDE DEF g, turn, x
    <3>1. c.snap[i] \in Handlers
      <4>1. i \in 1..Len(c.snap) /\ Ahead(c) # {}
        BY <1>4, <1>6
      <4> QED
        BY <1>2, <4>1, ElementOfSeq
    <3> QED
      BY <1>6, <3>1 DEF Groups, g
  <2>2. turn \in [members : Seq(Handlers), next : Nat] /\ Turning(g, turn) /\ turn.members # <<>>
    <3>1. CASE turns[g].members # <<>>
      <4>1. turn = turns[g]
        BY Zenon, <3>1
      <4> HIDE DEF turn, g
      <4> QED
        BY <1>1, <2>1, <3>1, <4>1 DEF TurnsOK
    <3>2. CASE turns[g].members = <<>>
      <4> HIDE DEF g
      <4>1. turn = [members |-> MembersIn(c.snap, g), next |-> 1]
        BY <3>2
      <4> HIDE DEF turn
      <4>2. /\ MembersIn(c.snap, g) \in Seq(Handlers) /\ MembersIn(c.snap, g) # <<>>
            /\ \A n \in 1..Len(MembersIn(c.snap, g)) : MembersIn(c.snap, g)[n] \in HandlersOf(g)
        BY <1>2, <1>4, <1>6, MembersFacts DEF g
      <4>3. 1 \in 1..Len(MembersIn(c.snap, g))
        BY <4>2
      <4> QED
        BY <4>1, <4>2, <4>3 DEF Turning
    <3> QED
      BY <3>1, <3>2
  <2> HIDE DEF g, turn
  <2>3. turn.next \in 1..Len(turn.members) /\ x \in HandlersOf(g) /\ Len(turn.members) \in Nat
    BY <2>2 DEF Turning
  <2> HIDE DEF x
  <2> DEFINE d == Called(c, i, c.groups \cup {g}, x)
             e == [turn EXCEPT !.next = (@ % Len(turn.members)) + 1]
  <2>4. d \in Calls /\ ServedUpTo(d)
    BY <1>4, <1>6, <2>3, ServesGroup DEF g
  <2>5. d.snap = c.snap /\ d.at = i /\ d.calling = x /\ d.ended = c.ended
    BY DEF Calls, Called
  <2>6. c.snap # <<>> /\ i <= Len(c.snap) /\ x # Nobody
    BY <1>2, <1>4, <1>6, <2>3, HandlersAssumption DEF HandlersOf
  <2>7. CallInv(d)
    BY <2>4, <2>5, <2>6 DEF CallInv
  <2>8. e \in [members : Seq(Handlers), next : Nat] /\ e.members = turn.members /\ e.next \in 1..Len(turn.members)
    <3>1. (turn.next % Len(turn.members)) + 1 \in 1..Len(turn.members)
      BY <2>3
    <3> QED
      BY <2>2, <2>3, <3>1
  <2> HIDE DEF d, e
  <2>9. Turning(g, e)
    BY <2>2, <2>8 DEF Turning
  <2>10. turns' = [turns EXCEPT ![g] = e] /\ pub' = [pub EXCEPT ![p] = d]
    BY Zenon, <1>6 DEF d, e, turn, g, x
  <2>11. turns' \in TurnsOK /\ \A f \in Groups : Turning(f, turns'[f])
    BY <1>1, <2>1, <2>8, <2>9, <2>10 DEF TurnsOK
  <2>12. d.snap = c.snap
    BY <2>5 DEF d
  <2> QED
    BY <2>4, <2>7, <2>10, <2>11, <2>12 DEF d
<1>7. \/ Ahead(c) = {} /\ pub' = [pub EXCEPT ![p] = [c EXCEPT !.calling = Nobody, !.ended = TRUE]] /\ turns' = turns
      \/ /\ Ahead(c) # {} /\ g = NoGroup /\ turns' = turns
         /\ pub' = [pub EXCEPT ![p] = Called(c, i, c.groups, c.snap[i])]
      \/ /\ Ahead(c) # {} /\ g # NoGroup
         /\ pub' = [pub EXCEPT ![p] = Called(c, i, c.groups \cup {g}, x)]
         /\ turns' = [turns EXCEPT ![g] = [turn EXCEPT !.next = (@ % Len(turn.members)) + 1]]
  BY Zenon DEF Proceed, Called, i
<1> QED
  BY Zenon, <1>3, <1>5, <1>6, <1>7

\* A step of publish().
LEMMA PublishingStep ==
    ASSUME BrokerType, BrokerInv, NEW p \in Publishers, Publish(p) \/ HandlerReturns(p) \/ HandlerRaises(p)
    PROVE  BrokerType' /\ BrokerInv'
<1>1. /\ kind' = kind /\ running' = running /\ subs' = subs /\ consumed' = consumed
      /\ publishes' \in 0..MaxPublishes
  BY HandlersAssumption DEF BrokerType, Publish, HandlerReturns, HandlerRaises
<1>2. pub \in [Publishers -> Calls] /\ CallInv(pub[p]) /\ (pub[p].snap # <<>> => subs # <<>>)
  BY DEF BrokerType, BrokerInv
<1>3. \E d \in Calls :
        /\ pub' = [pub EXCEPT ![p] = d] /\ CallInv(d) /\ (d.snap # <<>> => subs # <<>>)
        /\ turns' \in TurnsOK /\ \A g \in Groups : Turning(g, turns'[g])
  <2>1. CASE Publish(p)
    <3> DEFINE c == [Idle EXCEPT !.snap = subs]
    <3>1. subs \in Seq(Handlers)
      BY DEF BrokerType
    <3>2. c \in Calls /\ c.snap = subs /\ c.at = 0 /\ c.groups = {} /\ ~c.ended /\ c.served = [h \in Handlers |-> 0]
      BY <3>1 DEF Calls, Idle
    <3> HIDE DEF c
    <3>3. ServedUpTo(c)
      <4>1. \A h \in Handlers : {i \in 1..c.at : c.snap[i] = h} = {}
        BY <3>2
      <4> QED
        BY <3>2, <4>1, FS_EmptySet DEF ServedUpTo, NoneServed, HandlersOf
    <3>4. Proceed(p, c) /\ c.at <= Len(c.snap)
      BY <2>1, <3>1, <3>2 DEF Publish, c
    <3>5. PICK d \in Calls : /\ pub' = [pub EXCEPT ![p] = d] /\ CallInv(d) /\ d.snap = c.snap
                             /\ turns' \in TurnsOK /\ \A g \in Groups : Turning(g, turns'[g])
      BY <3>2, <3>3, <3>4, ProceedKeeps
    <3> QED
      BY <3>2, <3>5
  <2>2. CASE HandlerReturns(p)
    <3>1. pub[p] \in Calls /\ pub[p].at <= Len(pub[p].snap) /\ ~pub[p].ended /\ ServedUpTo(pub[p]) /\ Proceed(p, pub[p])
      BY <1>2, <2>2 DEF HandlerReturns, CallInv, Calls
    <3>2. PICK d \in Calls : /\ pub' = [pub EXCEPT ![p] = d] /\ CallInv(d) /\ d.snap = pub[p].snap
                             /\ turns' \in TurnsOK /\ \A g \in Groups : Turning(g, turns'[g])
      BY <3>1, ProceedKeeps
    <3> QED
      BY <1>2, <3>2
  <2>3. CASE HandlerRaises(p)
    <3> DEFINE d == [pub[p] EXCEPT !.calling = Nobody]
    <3>1. /\ d \in Calls /\ d.snap = pub[p].snap /\ d.at = pub[p].at /\ d.calling = Nobody
          /\ d.ended = pub[p].ended
      BY <1>2 DEF Calls
    <3>2. ~pub[p].ended /\ pub' = [pub EXCEPT ![p] = d] /\ turns' = turns
      BY <1>2, <2>3 DEF HandlerRaises, CallInv, Calls
    <3> HIDE DEF d
    <3>3. CallInv(d)
      BY <1>2, <3>1, <3>2 DEF CallInv
    <3>4. turns' \in TurnsOK /\ \A g \in Groups : Turning(g, turns'[g])
      BY <3>2 DEF BrokerType, BrokerInv, TurnsOK
    <3> QED
      BY <1>2, <3>1, <3>2, <3>3, <3>4
  <2> QED
    BY <2>1, <2>2, <2>3
<1>4. PICK d \in Calls : /\ pub' = [pub EXCEPT ![p] = d] /\ CallInv(d) /\ (d.snap # <<>> => subs # <<>>)
                         /\ turns' \in TurnsOK /\ \A g \in Groups : Turning(g, turns'[g])
  BY <1>3
<1>5. BrokerType'
  BY <1>1, <1>2, <1>4 DEF BrokerType, TurnsOK
<1>6. \A q \in Publishers : CallInv(pub'[q]) /\ (pub'[q].snap # <<>> => subs' # <<>>)
  BY <1>1, <1>2, <1>4 DEF BrokerInv
<1> QED
  BY <1>4, <1>5, <1>6 DEF BrokerInv, CallInv

LEMMA BrokerStep ==
    ASSUME ContextType, ContextInv, BrokerType, BrokerInv, ApplicationNext
    PROVE  BrokerType' /\ BrokerInv'
<1>1. CASE UNCHANGED brokerVars
  BY <1>1 DEF brokerVars, BrokerType, BrokerInv
<1>2. CASE StartBroker \/ StopBroker
  <2>1. consumed' \in SUBSET Handlers /\ running' \in BOOLEAN
    <3>1. RangeOf(subs) \in SUBSET Handlers /\ consumed \in SUBSET Handlers
      <4>1. subs \in Seq(Handlers) /\ consumed \in SUBSET Handlers
        BY DEF BrokerType
      <4>2. \A i \in DOMAIN subs : subs[i] \in Handlers
        BY <4>1
      <4> QED
        BY <4>1, <4>2 DEF RangeOf
    <3>2. CASE StartBroker
      BY <3>1, <3>2 DEF StartBroker
    <3>3. CASE StopBroker
      BY <3>3 DEF StopBroker
    <3> QED
      BY <1>2, <3>2, <3>3
  <2>2. kind' = kind /\ subs' = subs /\ turns' = turns /\ pub' = pub /\ publishes' = publishes
    BY <1>2 DEF StartBroker, StopBroker
  <2> QED
    BY <2>1, <2>2 DEF BrokerType, BrokerInv
<1>3. CASE TaskRuns
  <2> DEFINE h == ClassOf(beans, Head(tasks))
  <2>1. tasks # <<>> /\ Subscribe(h)
    BY <1>3 DEF TaskRuns, RunTask
  <2>2. h \in Handlers
    <3>1. Head(tasks) \in Having(program, beans, "listener")
      BY <2>1 DEF ContextType
    <3> QED
      BY <3>1, ListenersAreHandlers, ContextFacts DEF ContextType
  <2> HIDE DEF h
  <2>3. /\ subs' = Append(subs, h) /\ subs \in Seq(Handlers) /\ kind' = kind /\ running' = running /\ consumed' = consumed
        /\ pub' = pub /\ publishes' = publishes
        /\ turns' = turns \/ (Group[h] # NoGroup /\ turns' = [turns EXCEPT ![Group[h]] = NoTurns])
    BY <2>1 DEF Subscribe, BrokerType
  <2>4. subs' \in Seq(Handlers) /\ subs' # <<>>
    BY <2>2, <2>3
  <2>5. turns' \in TurnsOK /\ \A g \in Groups : Turning(g, turns'[g])
    <3>1. turns \in TurnsOK /\ \A g \in Groups : Turning(g, turns[g])
      BY DEF BrokerType, BrokerInv, TurnsOK
    <3>2. NoTurns \in [members : Seq(Handlers), next : Nat] /\ \A g : Turning(g, NoTurns)
      BY DEF NoTurns, Turning
    <3>3. Group[h] # NoGroup => Group[h] \in Groups
      BY <2>2 DEF Groups
    <3> QED
      BY <2>3, <3>1, <3>2, <3>3 DEF TurnsOK
  <2> QED
    BY <2>3, <2>4, <2>5 DEF BrokerType, BrokerInv, TurnsOK
<1>4. CASE Publishing
  BY <1>4, PublishingStep DEF Publishing
<1> QED
  BY <1>1, <1>2, <1>3, <1>4
     DEF ApplicationNext, Starts, Wires, StopBegins, Stops, CallBegins, CallReturns, CallRaises, CallHangs, CallTimesOut,
         TimerStarts, TimerStops, TimerTicks

-----------------------------------------------------------------------------
(* The invariant.                                                          *)

LEMMA ContextStarts ==
    ASSUME ContextInit, Timer!Init, subs = <<>>
    PROVE  ContextType /\ ContextInv
<1>1. /\ app \in DOMAIN Programs /\ beans = Scanned(program) /\ phase = "new" /\ call = "no"
      /\ todo = <<>> /\ adapters = <<>> /\ heard = <<>> /\ tasks = <<>>
      /\ started = <<>> /\ stopped = <<>> /\ constructed = <<>> /\ destroyed = <<>> /\ starter = "none"
  BY DEF ContextInit, Timer!Init
<1>2. ContextType
  BY <1>1 DEF ContextType, Phases
<1>3. Injects(<<>>) /\ Begins(<<>>, <<>>)
  BY DEF Injects, Begins
<1>4. ContextInv
  BY <1>1, <1>3 DEF ContextInv, StartInv, WiredInv, ListInv, StopInv, BeforeStop, Later, Over
<1> QED
  BY <1>2, <1>4

LEMMA SchedulerBegins ==
    ASSUME Timer!Init, phase = "new", stopped = <<>>
    PROVE  SchedulerInv /\ ShutdownInv
<1>1. MaxActive \in Nat /\ MaxActive # 0
  BY EntriesAssumption
<1>2. Timer!TypeOK
  <2>1. /\ found = {} /\ starter = "none" /\ stopper = "no" /\ ticking = FALSE /\ cut = {}
        /\ loop = [m \in Timer!Entries |-> "none"] /\ active = [m \in Timer!Entries |-> 0]
    BY DEF Timer!Init
  <2>2. 0 \in 0..MaxActive
    BY <1>1
  <2>3. active \in [Timer!Entries -> 0..MaxActive]
    BY <2>1, <2>2
  <2>4. loop \in [Timer!Entries -> Timer!Alive \cup {"none", "ended", "dead"}]
    BY <2>1
  <2> QED
    BY <2>1, <2>3, <2>4 DEF Timer!TypeOK
<1>3. SchedulerInv
  BY <1>2 DEF SchedulerInv, Timer!Init
<1> QED
  BY <1>3 DEF ShutdownInv, Timer!Init, BeforeStop, Over, Timer!Over

LEMMA BrokerBegins ==
    ASSUME BrokerInit(Kinds)
    PROVE  BrokerType /\ BrokerInv
<1>1. Idle \in Calls /\ NoTurns \in [members : Seq(Handlers), next : Nat]
  BY DEF Idle, NoTurns, Calls
<1>2. BrokerType
  <2>1. /\ kind \in Kinds /\ running = FALSE /\ subs = <<>> /\ consumed = {} /\ publishes = 0
        /\ turns = [g \in Groups |-> NoTurns] /\ pub = [p \in Publishers |-> Idle]
    BY DEF BrokerInit
  <2>2. turns \in [Groups -> [members : Seq(Handlers), next : Nat]] /\ pub \in [Publishers -> Calls]
    BY <1>1, <2>1
  <2>3. subs \in Seq(Handlers) /\ publishes \in 0..MaxPublishes
    BY <2>1, HandlersAssumption
  <2> QED
    BY <2>1, <2>2, <2>3 DEF BrokerType
<1>3. CallInv(Idle) /\ Idle.snap = <<>>
  BY DEF CallInv, Idle
<1>4. \A g \in Groups : Turning(g, NoTurns)
  BY DEF Turning, NoTurns
<1> QED
  BY <1>2, <1>3, <1>4 DEF BrokerInit, BrokerInv

LEMMA ApplicationStarts ==
    ASSUME ApplicationInit PROVE ApplicationInv
<1>1. ContextInit /\ BrokerInit(Kinds) /\ Timer!Init
  BY DEF ApplicationInit
<1>2. subs = <<>> /\ phase = "new" /\ stopped = <<>>
  BY <1>1 DEF BrokerInit, ContextInit
<1> QED
  BY <1>1, <1>2, ContextStarts, SchedulerBegins, BrokerBegins DEF ApplicationInv

LEMMA ApplicationStep ==
    ASSUME ApplicationInv, [ApplicationNext]_applicationVars PROVE ApplicationInv'
<1> USE DEF ApplicationInv
<1>1. CASE ApplicationNext
  BY <1>1, ContextStep, ShutdownStep, BrokerStep
<1>2. CASE UNCHANGED applicationVars
  <2>1. UNCHANGED contextVars /\ UNCHANGED brokerVars /\ UNCHANGED timerVars
    BY <1>2 DEF applicationVars
  <2>2. ContextType'
    BY <2>1 DEF contextVars, ContextType, program, Indices
  <2>3. ContextInv'
    BY <2>1, ContextStutters DEF brokerVars, timerVars
  <2>4. SchedulerInv' /\ ShutdownInv'
    BY <2>1, SchedulerStutters DEF timerVars, contextVars, ShutdownInv, Timer!Over
  <2>5. BrokerType' /\ BrokerInv'
    BY <2>1 DEF brokerVars, BrokerType, BrokerInv
  <2> QED
    BY <2>2, <2>3, <2>4, <2>5
<1> QED
  BY <1>1, <1>2

(* The inductive invariant: how far start() and stop() are with their      *)
(* lists, that listeners and jobs are wired when every bean is             *)
(* constructed, where the scheduler's shutdown is in stop(), and which     *)
(* handlers every call of publish() has served.                            *)
THEOREM ApplicationInductive == ApplicationSpec => []ApplicationInv
<1>1. ApplicationInit => ApplicationInv
  BY ApplicationStarts
<1>2. ApplicationInv /\ [ApplicationNext]_applicationVars => ApplicationInv'
  BY ApplicationStep
<1> QED
  BY <1>1, <1>2, PTL DEF ApplicationSpec

-----------------------------------------------------------------------------
(* What it shows.                                                          *)

(* Every variable keeps its type; what start() and stop() have still to    *)
(* call, or have called, are registrations of the container.               *)
THEOREM ApplicationTypeCorrect == ApplicationSpec => []ApplicationTypeOK
<1>1. ASSUME ApplicationInv PROVE ApplicationTypeOK
  <2>1. ContextType /\ BrokerType /\ Timer!TypeOK
    BY <1>1 DEF ApplicationInv, SchedulerInv
  <2>2. ASSUME NEW s \in Seq(Indices) PROVE ToSet(s) \subseteq Indices
    BY DEF ToSet
  <2>3. ToSet(tasks) \subseteq Indices
    <3>1. tasks \in Seq(Having(program, beans, "listener")) /\ Having(program, beans, "listener") \subseteq Indices
      BY <2>1 DEF ContextType, Having, Indices
    <3> QED
      BY <3>1 DEF ToSet
  <2>4. \A s \in {todo, adapters, heard, tasks, started, stopped, constructed, destroyed} : ToSet(s) \subseteq Indices
    BY <2>1, <2>2, <2>3 DEF ContextType
  <2>5. ToSet(subs) \cup consumed \subseteq Handlers
    <3>1. subs \in Seq(Handlers) /\ consumed \in SUBSET Handlers
      BY <2>1 DEF BrokerType
    <3> QED
      BY <3>1 DEF ToSet
  <2>6. \A p \in Publishers : pub[p].calling \in Handlers \cup {Nobody}
    BY <2>1 DEF BrokerType, Calls
  <2> QED
    BY <2>1, <2>4, <2>5, <2>6 DEF ApplicationTypeOK, Indices, ContextType, BrokerType
<1> QED
  BY <1>1, ApplicationInductive, PTL

(* A publish() that ends has served every subscription it found: each      *)
(* handler without a group once for each of its subscriptions, of each     *)
(* group exactly one handler, and nobody else.  For any handlers, groups   *)
(* and publishers, whatever they do to the iterators meanwhile.            *)
THEOREM EachGroupOnceHolds == ApplicationSpec => []EachGroupOnce
<1>1. ASSUME ApplicationInv PROVE EachGroupOnce
  <2> SUFFICES ASSUME NEW p \in Publishers, pub[p].ended
               PROVE  /\ \A h \in Handlers : Group[h] = NoGroup => pub[p].served[h] = Subscribed(pub[p], h)
                      /\ \A g \in Groups :
                           IF MembersIn(pub[p].snap, g) = <<>>
                           THEN NoneServed(pub[p], HandlersOf(g)) ELSE OneServed(pub[p], HandlersOf(g))
    BY DEF EachGroupOnce
  <2> DEFINE c == pub[p]
  <2>1. c \in Calls /\ ServedUpTo(c) /\ Ahead(c) = {} /\ c.at <= Len(c.snap)
    BY <1>1 DEF ApplicationInv, BrokerType, BrokerInv, CallInv
  <2> HIDE DEF c
  <2>2. c.snap \in Seq(Handlers) /\ c.at \in Nat /\ c.groups \in SUBSET Groups /\ NoGroup \notin Groups
    BY <2>1 DEF Calls, Groups
  <2>3. DOMAIN c.snap = 1..Len(c.snap) /\ Len(c.snap) \in Nat
    BY <2>2
  <2>4. ASSUME NEW i \in DOMAIN c.snap, i \notin 1..c.at PROVE Group[c.snap[i]] \in c.groups
    BY <2>1, <2>2, <2>3, <2>4 DEF Ahead
  <2>5. ASSUME NEW h \in Handlers, Group[h] = NoGroup PROVE c.served[h] = Subscribed(c, h)
    <3>1. {i \in 1..c.at : c.snap[i] = h} = {i \in DOMAIN c.snap : c.snap[i] = h}
      <4>1. \A i \in 1..c.at : i \in DOMAIN c.snap
        BY <2>1, <2>2, <2>3
      <4>2. ASSUME NEW i \in DOMAIN c.snap, c.snap[i] = h PROVE i \in 1..c.at
        BY <2>2, <2>4, <2>5, <4>2
      <4> QED
        BY <4>1, <4>2
    <3> QED
      BY <2>1, <2>5, <3>1 DEF ServedUpTo, Subscribed
  <2>6. ASSUME NEW g \in Groups
        PROVE  IF MembersIn(c.snap, g) = <<>>
               THEN NoneServed(c, HandlersOf(g)) ELSE OneServed(c, HandlersOf(g))
    <3>1. CASE g \in c.groups
      <4>1. OneServed(c, HandlersOf(g)) /\ \E i \in DOMAIN c.snap : Group[c.snap[i]] = g
        BY <2>1, <3>1 DEF ServedUpTo
      <4>2. MembersIn(c.snap, g) # <<>>
        BY <2>2, <2>3, <4>1, MembersFacts
      <4> QED
        BY <4>1, <4>2
    <3>2. CASE g \notin c.groups
      <4>1. NoneServed(c, HandlersOf(g)) /\ \A i \in 1..c.at : Group[c.snap[i]] # g
        BY <2>1, <3>2 DEF ServedUpTo
      <4>2. \A i \in 1..Len(c.snap) : Group[c.snap[i]] # g
        BY <2>3, <2>4, <3>2, <4>1
      <4>3. MembersIn(c.snap, g) = <<>>
        BY <2>2, <4>2, MembersFacts
      <4> QED
        BY <4>1, <4>3
    <3> QED
      BY <3>1, <3>2
  <2> QED
    BY <2>5, <2>6 DEF c
<1> QED
  BY <1>1, ApplicationInductive, PTL

(* stop() undoes start(), in reverse, wherever start() failed and whatever *)
(* any call of either raised or left hanging.  For any program.            *)
THEOREM ShutdownMirrorsStartupHolds == ApplicationSpec => []ShutdownMirrorsStartup
<1>1. ASSUME ApplicationInv PROVE ShutdownMirrorsStartup
  <2> SUFFICES ASSUME phase \in {"closing", "stopped"}
               PROVE  Undone(started, stopped) /\ Undone(constructed, destroyed)
    BY DEF ShutdownMirrorsStartup
  <2>1. ContextType /\ ListInv /\ StopInv
    BY <1>1 DEF ApplicationInv, ContextInv
  <2>2. /\ adapters \in Seq(Indices) /\ started \in Seq(Indices) /\ constructed \in Seq(Indices)
        /\ stopped = Reverse(adapters) /\ destroyed = Reverse(Instances(beans))
    BY <2>1 DEF ContextType, StopInv, Over
  <2>3. Instances(beans) \in Seq(Indices) /\ Injects(Instances(beans))
    BY <2>1, ContextFacts
  <2>4. Injects(adapters) /\ Begins(started, adapters) /\ Begins(constructed, Instances(beans))
    <3>1. constructed = <<>> => Begins(constructed, Instances(beans))
      BY <2>3 DEF Begins
    <3> QED
      BY <2>1, <3>1 DEF ListInv
  <2> QED
    BY <2>2, <2>3, <2>4, ReverseUndoes
<1> QED
  BY <1>1, ApplicationInductive, PTL

(* A @scheduled method runs only while its bean lives, also when start()   *)
(* fails with the loops already going.  For any program and any methods.   *)
THEOREM JobsHaveTheirBeansHolds == ApplicationSpec => []JobsHaveTheirBeans
<1>1. ASSUME ApplicationInv PROVE JobsHaveTheirBeans
  <2> SUFFICES ASSUME NEW m \in Timer!Entries, active[m] > 0
               PROVE  /\ RegistrationsOf(beans, Owner[m].class) \subseteq ToSet(constructed)
                      /\ stopped # <<>> \/ destroyed # <<>> => stopper = "timedout"
    BY DEF JobsHaveTheirBeans
  <2>1. ContextType /\ ContextInv /\ SchedulerInv /\ ShutdownInv
    BY <1>1 DEF ApplicationInv
  <2>2. active[m] # 0
    BY <2>1, EntriesAssumption DEF SchedulerInv, Timer!TypeOK
  <2>3. starter = "done" /\ stopper # "stopped"
    BY <2>1, <2>2 DEF SchedulerInv
  <2>4. constructed = Instances(beans)
    BY <2>1, <2>3 DEF ContextInv, WiredInv
  <2>5. RegistrationsOf(beans, Owner[m].class) \subseteq ToSet(constructed)
    BY <2>1, <2>4, ContextFacts DEF RegistrationsOf, Indices
  <2>6. destroyed # <<>> => phase \in Over
    BY <2>1 DEF ContextInv, StopInv, ContextType, Phases, Starting, Stopping, BeforeStop, Over
  <2>7. stopped # <<>> \/ destroyed # <<>> => Timer!Over
    BY <2>1, <2>6 DEF ShutdownInv
  <2> QED
    BY <2>3, <2>5, <2>7 DEF Timer!Over
<1> QED
  BY <1>1, ApplicationInductive, PTL

(* A message never reaches a bean whose @post_construct is still to come,  *)
(* although the broker runs before the bean is created.                    *)
THEOREM HandlersAreReadyHolds == ApplicationSpec => []HandlersAreReady
<1>1. ASSUME ApplicationInv PROVE HandlersAreReady
  <2> SUFFICES ASSUME NEW p \in Publishers, pub[p].calling # Nobody
               PROVE  \A i \in Indices : beans.reg[i].bean # 0 => i \in ToSet(constructed)
    BY DEF HandlersAreReady, Indices
  <2>1. ContextType /\ WiredInv /\ BrokerInv
    BY <1>1 DEF ApplicationInv, ContextInv
  <2>2. subs # <<>>
    BY <2>1 DEF BrokerInv, CallInv
  <2> QED
    BY <2>1, <2>2, ContextFacts DEF WiredInv
<1> QED
  BY <1>1, ApplicationInductive, PTL

(* Nobody subscribes any more once stop() is called.                       *)
THEOREM NoLateSubscriptionHolds == ApplicationSpec => NoLateSubscription
<1>1. ASSUME ApplicationInv, [ApplicationNext]_applicationVars, subs' # subs
      PROVE  phase \notin Stopping \cup {"stopped"}
  <2>1. tasks # <<>>
    <3>1. ApplicationNext
      BY <1>1 DEF applicationVars, brokerVars
    <3>2. RunTask
      BY <1>1, <3>1, NextForms DEF Wire
    <3> QED
      BY <3>2 DEF RunTask
  <2>2. phase \in Later \cup {"failed"}
    BY <1>1, <2>1 DEF ApplicationInv, ContextInv, WiredInv
  <2> QED
    BY <2>2 DEF Later, Stopping
<1>2. ApplicationInv /\ [ApplicationNext]_applicationVars
        => [subs' # subs => phase \notin Stopping \cup {"stopped"}]_applicationVars
  BY <1>1
<1> QED
  BY <1>2, ApplicationInductive, PTL DEF ApplicationSpec, NoLateSubscription
=============================================================================
