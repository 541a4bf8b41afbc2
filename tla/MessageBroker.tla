--------------------------- MODULE MessageBroker ---------------------------
(***************************************************************************)
(* A message broker adapter and the tasks that publish through it, one     *)
(* topic.  InMemoryMessageBroker ("memory") calls the handlers from        *)
(* publish(): to each handler without a group, and to one handler of each  *)
(* group in turn.  The Kafka and RabbitMQ adapters ("remote") hand         *)
(* messages to a server; what they consume is fixed by start().            *)
(*                                                                         *)
(* The lock of the in-memory broker is never held over an await, so what   *)
(* happens under it is one step; a publisher is suspended while it awaits  *)
(* a handler.  What a handler does is its own affair: it returns or raises.*)
(***************************************************************************)
EXTENDS Naturals, Sequences, FiniteSets

CONSTANTS
  Handlers,
  Group,       \* handler -> its consumer group, or NoGroup
  NoGroup,
  Publishers,  \* tasks that publish
  MaxPublishes \* bound: calls of publish()

Nobody == "nobody"

ASSUME HandlersAssumption == Nobody \notin Handlers /\ MaxPublishes \in Nat

VARIABLES
  kind,     \* "memory" or "remote"
  running,  \* _running, or that the connection is open
  subs,     \* _subscriptions or _handlers, in order
  turns,    \* group -> the iterator: the members and who is next; no members, no iterator
  consumed, \* the handlers that start() made consumers for
  pub,      \* publisher -> its call of publish()
  publishes

brokerVars == <<kind, running, subs, turns, consumed, pub, publishes>>

Groups == {Group[h] : h \in Handlers} \ {NoGroup}
HandlersOf(g) == {h \in Handlers : Group[h] = g}
NoTurns == [members |-> <<>>, next |-> 1]
Idle    == [snap |-> <<>>, at |-> 0, groups |-> {}, calling |-> Nobody,
            served |-> [h \in Handlers |-> 0], ended |-> FALSE]

BrokerInit(kinds) ==
  /\ kind \in kinds
  /\ running = FALSE
  /\ subs = <<>> /\ consumed = {}
  /\ turns = [g \in Groups |-> NoTurns]
  /\ pub = [p \in Publishers |-> Idle]
  /\ publishes = 0

RangeOf(s) == {s[i] : i \in DOMAIN s}

\* The handlers of a group, in the order of their subscriptions.
MembersIn(s, g) ==
  LET of == {i \in DOMAIN s : Group[s[i]] = g}
  IN  [n \in 1..Cardinality(of) |-> s[CHOOSE i \in of : Cardinality({j \in of : j <= i}) = n]]

-----------------------------------------------------------------------------
StartBroker ==
  /\ running' = TRUE
  /\ consumed' = IF kind = "remote" THEN RangeOf(subs) ELSE consumed
  /\ UNCHANGED <<kind, subs, turns, pub, publishes>>

StopBroker ==
  /\ running' = FALSE
  /\ consumed' = {}
  /\ UNCHANGED <<kind, subs, turns, pub, publishes>>

(* The iterator of the group is dropped; the next publish() builds it anew.*)
Subscribe(h) ==
  /\ subs' = Append(subs, h)
  /\ turns' = IF kind = "memory" /\ Group[h] # NoGroup
              THEN [turns EXCEPT ![Group[h]] = NoTurns] ELSE turns
  /\ UNCHANGED <<kind, running, consumed, pub, publishes>>

-----------------------------------------------------------------------------
(* publish() of the in-memory broker.                                      *)

(* Fault: nobody notes which groups had their turn.                        *)
AheadAll(c) == {i \in DOMAIN c.snap : i > c.at}

(* The subscriptions of call c that are still to be served: those without  *)
(* a group, and the first of each group that has had no turn.              *)
Ahead(c)  == {i \in DOMAIN c.snap : i > c.at /\ Group[c.snap[i]] \notin c.groups}

(* The loop runs on to its next await: a handler, or the end.              *)
Proceed(p, c) ==
  LET i    == CHOOSE i \in Ahead(c) : \A j \in Ahead(c) : i <= j
      g    == Group[c.snap[i]]
      turn == IF turns[g].members # <<>> THEN turns[g]
              ELSE [members |-> MembersIn(c.snap, g), next |-> 1]
      Call(h, gs) == [c EXCEPT !.at = i, !.groups = gs, !.calling = h, !.served[h] = @ + 1]
  IN  \/ /\ Ahead(c) = {}
         /\ pub' = [pub EXCEPT ![p] = [c EXCEPT !.calling = Nobody, !.ended = TRUE]]
         /\ UNCHANGED turns
      \/ /\ Ahead(c) # {} /\ g = NoGroup
         /\ pub' = [pub EXCEPT ![p] = Call(c.snap[i], c.groups)]
         /\ UNCHANGED turns
      \/ /\ Ahead(c) # {} /\ g # NoGroup
         /\ pub' = [pub EXCEPT ![p] = Call(turn.members[turn.next], c.groups \cup {g})]
         /\ turns' = [turns EXCEPT ![g] = [turn EXCEPT !.next = (@ % Len(turn.members)) + 1]]

(* Not running, publish() raises and nothing happens.                      *)
Publish(p) ==
  /\ kind = "memory" /\ running /\ publishes < MaxPublishes
  /\ pub[p].calling = Nobody
  /\ publishes' = publishes + 1
  /\ Proceed(p, [Idle EXCEPT !.snap = subs])
  /\ UNCHANGED <<kind, running, subs, consumed>>

HandlerReturns(p) ==
  /\ pub[p].calling # Nobody
  /\ Proceed(p, pub[p])
  /\ UNCHANGED <<kind, running, subs, consumed, publishes>>

(* publish() raises what the handler raised; the rest is not served.       *)
HandlerRaises(p) ==
  /\ pub[p].calling # Nobody
  /\ pub' = [pub EXCEPT ![p].calling = Nobody]
  /\ UNCHANGED <<kind, running, subs, turns, consumed, publishes>>

-----------------------------------------------------------------------------
(* A publish() that ends has served every subscription it found: each      *)
(* handler without a group once for each of its subscriptions, of each     *)
(* group exactly one handler, and nobody else; no matter how subscriptions *)
(* and other publishers move the iterators of the groups meanwhile.        *)
Subscribed(c, h) == Cardinality({i \in DOMAIN c.snap : c.snap[i] = h})
OneServed(c, hs) == \E h \in hs : c.served[h] = 1 /\ \A k \in hs \ {h} : c.served[k] = 0
NoneServed(c, hs) == \A h \in hs : c.served[h] = 0
EachGroupOnce ==
  \A p \in Publishers : pub[p].ended =>
    /\ \A h \in Handlers : Group[h] = NoGroup => pub[p].served[h] = Subscribed(pub[p], h)
    /\ \A g \in Groups :
         IF MembersIn(pub[p].snap, g) = <<>>
         THEN NoneServed(pub[p], HandlersOf(g)) ELSE OneServed(pub[p], HandlersOf(g))

(* No member of a group is left out of its turns; refuted: a publisher     *)
(* with an older list of subscriptions builds the iterator after           *)
(* subscribe() dropped it, and the new member never has a turn.            *)
NobodyStarves ==
  \A g \in Groups : turns[g].members # <<>> =>
    RangeOf(turns[g].members) = RangeOf(MembersIn(subs, g))
=============================================================================
