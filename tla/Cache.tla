------------------------------- MODULE Cache -------------------------------
(***************************************************************************)
(* A cache in two tiers: CacheManager over a RedisCacheAdapter (primary)   *)
(* and an InMemoryCache (fallback), or the RedisCacheAdapter alone.        *)
(*                                                                         *)
(* A call awaits the primary only: it is sent, the server takes it or      *)
(* fails, the answer comes back; what the manager does with the fallback   *)
(* then runs in one go with what its caller does next, since the methods   *)
(* of InMemoryCache never suspend.  A cache that is an InMemoryCache alone *)
(* behaves like a primary that answers at once.                            *)
(*                                                                         *)
(* Values are versions of what is cached; 0 is None, which a get cannot    *)
(* tell from a miss, so that an entry with it is none.  Time is discrete.  *)
(***************************************************************************)
EXTENDS Naturals, FiniteSets

CONSTANTS
  Callers,      \* the tasks of the event loop
  Slots,        \* the keys of the stores
  Forever,      \* the lifetime of an entry without a ttl
  MaxFailures   \* bound: failed calls of the primary and cancelled callers

ASSUME CacheAssumption == MaxFailures \in Nat

VARIABLES
  managed,   \* whether there is a CacheManager
  store,     \* tier -> slot -> [val, left]
  io,        \* caller -> the call it awaits
  failures

cacheVars == <<managed, store, io, failures>>

Tiers  == {"primary", "fallback"}
Gone   == [val |-> 0, left |-> 0]
NoCall == [op |-> "none", slots |-> {}, val |-> 0, ttl |-> 0, at |-> "no", got |-> 0, failed |-> FALSE]

CacheInit ==
  /\ managed \in BOOLEAN
  /\ store = [t \in Tiers |-> [s \in Slots |-> Gone]]
  /\ io = [c \in Callers |-> NoCall]
  /\ failures = 0

(* A call of get, put, evict or clear leaves for the primary.              *)
Call(op, slots, val, ttl) ==
  [NoCall EXCEPT !.op = op, !.slots = slots, !.val = val, !.ttl = ttl, !.at = "sent"]

(* What an adapter does with its store: get reads, and an entry that has   *)
(* outlived its ttl is not there; evict and clear remove.                  *)
Effect(entries, call) ==
  [s \in Slots |-> IF s \notin call.slots \/ call.op = "get" THEN entries[s]
                   ELSE IF call.op = "put" /\ call.val # 0 THEN [val |-> call.val, left |-> call.ttl]
                   ELSE Gone]
Found(entries, call) ==
  IF call.op = "get" THEN entries[CHOOSE s \in call.slots : TRUE].val ELSE 0

(* The server takes the call; a call that fails may have been taken, when  *)
(* what fails is the way back.                                             *)
Serve(c) ==
  /\ io[c].at = "sent"
  /\ store' = [store EXCEPT !.primary = Effect(@, io[c])]
  /\ io' = [io EXCEPT ![c].at = "back", ![c].got = Found(store.primary, io[c])]
  /\ UNCHANGED <<managed, failures>>

Refuse(c) ==
  /\ io[c].at = "sent" /\ failures < MaxFailures
  /\ failures' = failures + 1
  /\ \/ store' = [store EXCEPT !.primary = Effect(@, io[c])]
     \/ UNCHANGED store
  /\ io' = [io EXCEPT ![c].at = "back", ![c].failed = TRUE]
  /\ UNCHANGED managed

Back(c) == io[c].at = "back"

\* Fault: evict() is done when the primary has removed the entry.
MirroredPuts(c) == IF managed /\ (io[c].op # "evict" \/ io[c].failed)
                   THEN [store EXCEPT !.fallback = Effect(@, io[c])] ELSE store

(* The manager swallows the failure of the primary; then it gets from the  *)
(* fallback if the primary had nothing, and writes to it in any case.      *)
Raises(c)    == ~managed /\ io[c].failed
Mirrored(c)  == IF managed THEN [store EXCEPT !.fallback = Effect(@, io[c])] ELSE store
Answer(c)    == IF io[c].got # 0 \/ ~managed THEN io[c].got ELSE Found(store.fallback, io[c])

(* Time passes: an entry whose time is over is dropped.                    *)
Aged(e) == IF e.left = Forever \/ e = Gone THEN e
           ELSE IF e.left <= 1 THEN Gone
           ELSE [e EXCEPT !.left = @ - 1]
Tick ==
  /\ store' = [t \in Tiers |-> [s \in Slots |-> Aged(store[t][s])]]
  /\ store' # store
  /\ UNCHANGED <<managed, io, failures>>

CacheTypeOK ==
  /\ managed \in BOOLEAN
  /\ store \in [Tiers -> [Slots -> [val : Nat, left : Nat \cup {Forever}]]]
  /\ io \in [Callers -> [op : {"none", "get", "put", "evict", "clear"}, slots : SUBSET Slots, val : Nat,
                         ttl : Nat \cup {Forever}, at : {"no", "sent", "back"}, got : Nat, failed : BOOLEAN]]
  /\ failures \in 0..MaxFailures
=============================================================================
