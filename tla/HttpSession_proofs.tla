-------------------------- MODULE HttpSession_proofs --------------------------
(***************************************************************************)
(* Proofs about HttpSession, for any number of requests of any kinds.      *)
(***************************************************************************)
EXTENDS HttpSession, FiniteSetTheorems, TLAPS

Request == [kind : Kinds \cup {"none"}, at : Places, asked : Ids \cup {None},
            code : Requests \cup {None}, sid : Ids \cup {None}, new : BOOLEAN, modified : BOOLEAN,
            invalidated : BOOLEAN, raised : BOOLEAN, did : 0..2, wrote : BOOLEAN]

Made == {r \in Requests : req[r].new}

(* Types; each id was made for the one request that is new with it. *)
TypeInv ==
  /\ store \in Stores
  /\ made = Cardinality(Made)
  /\ live \subseteq 1..made
  /\ jar \in 1..made \cup {None}
  /\ heap \in [Ids \cup Requests -> Data] /\ mine \in Data /\ calm \in BOOLEAN
  /\ crossed \in [Requests -> SUBSET Requests]
  /\ req \in [Requests -> Request]
  /\ \A r \in Requests : req[r].sid \in 1..made \cup {None} /\ req[r].asked \in 1..made \cup {None}

(* The request has loaded its session and may still write it. *)
AtWork(r) == Handling(r) \/ req[r].at = "storing"

(* What the place of a request says of its fields. *)
Placed(q) ==
  /\ q.at \in {"unsent", "loading"} =>
       ~q.new /\ ~q.modified /\ ~q.invalidated /\ ~q.raised /\ q.did = 0
  /\ q.at \in {"handling", "touched", "exchange"} => ~q.invalidated /\ ~q.raised
  /\ q.at = "handling" => q.did = 0
  /\ q.at = "touched" => q.kind = "put" /\ q.did = 1 /\ q.modified
  /\ q.at = "exchange" => q.kind = "callback" /\ q.did = 1 /\ q.modified
  /\ q.at = "storing" => store = "redis"
  /\ q.wrote => q.at \in {"answering", "failing", "ended"}
  /\ q.at \in {"handling", "touched", "exchange", "storing"} \/ q.wrote \/ q.did > 0 \/ q.new => q.sid \in Ids
  /\ q.new => q.modified
  /\ q.did > 0 => q.kind \in {"put", "authorize", "callback"} \/ (q.kind = "logout" /\ q.invalidated)
  /\ q.invalidated => q.kind = "logout"
  /\ q.did = 2 => q.kind = "callback"

PlaceOK(r) ==
  /\ Placed(req[r])
  /\ req[r].kind = "callback" => req[r].code \in Requests /\ Redirected(req[r].code)

PlacesOK == \A r \in Requests : PlaceOK(r)

(* The session as request r would leave it, in state q. *)
Left(r, q) ==
  IF q.did = 0 THEN mine
  ELSE CASE q.kind = "put"       -> [mine EXCEPT !.items = @ \cup {r}]
         [] q.kind = "authorize" -> [mine EXCEPT !.state = r]
         [] q.kind = "callback"  -> [mine EXCEPT !.state = None, !.login = @ \/ q.did = 2]
         [] OTHER                -> mine

(* Request q is r as its handler leaves it, with session d. *)
Leaves(r, q, d) ==
  /\ Handling(r) /\ q \in Request /\ d \in Data
  /\ q.kind = req[r].kind /\ q.asked = req[r].asked /\ q.code = req[r].code /\ q.sid = req[r].sid
  /\ q.new = req[r].new /\ (req[r].modified => q.modified)
  /\ \/ q.did = req[r].did
     \/ q.did = 1 /\ req[r].at = "handling" /\ q.modified /\ q.kind = "authorize"
     \/ q.did = 1 /\ req[r].at = "handling" /\ q.modified /\ q.kind = "logout" /\ q.invalidated
     \/ q.did = 2 /\ req[r].at = "exchange"
  /\ q.invalidated => q.kind = "logout" /\ q.did = 1
  /\ d.items = Session(r).items
  /\ d.state = Session(r).state \/ (d.state = r /\ q.kind = "authorize" /\ q.did = 1 /\ req[r].did = 0)
  /\ ~q.modified => d = Session(r)
  /\ Session(r) = Left(r, req[r]) => q.invalidated \/ d = Left(r, q)

-----------------------------------------------------------------------------
(* Facts about the operators of the model.                                 *)

LEMMA IdsFacts ==
  ASSUME TypeInv
  PROVE  /\ Cardinality(Requests) \in Nat /\ made \in Nat /\ made <= Cardinality(Requests)
         /\ 1..made \subseteq Ids /\ IsFiniteSet(Made) /\ None \notin Ids /\ None \notin Requests
         /\ Requests \cap Ids = {}
<1>1. Made \subseteq Requests /\ IsFiniteSet(Requests)
  BY RequestsAssumption DEF Made
<1>2. /\ IsFiniteSet(Made) /\ Cardinality(Made) <= Cardinality(Requests)
      /\ Cardinality(Made) \in Nat /\ Cardinality(Requests) \in Nat
  BY <1>1, FS_Subset, FS_CardinalityType
<1> QED
  BY <1>2, RequestsAssumption DEF TypeInv, Ids

LEMMA EmptyType == Empty \in Data
BY DEF Empty, Data

LEMMA LeftType ==
  ASSUME NEW r \in Requests, NEW q \in Request, mine \in Data
  PROVE  Left(r, q) \in Data
<1>1. CASE q.did = 0
  BY <1>1 DEF Left
<1>2. CASE q.did # 0 /\ q.kind = "put"
  BY <1>2 DEF Left, Data
<1>3. CASE q.did # 0 /\ q.kind = "authorize"
  BY <1>3 DEF Left, Data
<1>4. CASE q.did # 0 /\ q.kind = "callback"
  BY <1>4 DEF Left, Data
<1>5. CASE q.did # 0 /\ q.kind \notin {"put", "authorize", "callback"}
  BY <1>5 DEF Left
<1> QED
  BY <1>1, <1>2, <1>3, <1>4, <1>5

(* What a request means to the user is what it leaves, unless the user     *)
(* never learns of the session it leaves it in.                            *)
LEMMA EffectFacts ==
  ASSUME NEW r \in Requests, NEW q \in Request, mine \in Data,
         q.did > 0 => q.kind \in {"put", "authorize", "callback"} \/ q.invalidated
  PROVE  /\ Effect(r, q) \in Data
         /\ q.invalidated => Effect(r, q) = Empty
         /\ ~q.invalidated /\ q.new /\ q.raised => Effect(r, q) = mine
         /\ ~q.invalidated /\ ~(q.new /\ q.raised) => Effect(r, q) = Left(r, q)
<1>1. CASE q.invalidated
  BY <1>1, EmptyType DEF Effect
<1>2. CASE ~q.invalidated /\ q.new /\ q.raised
  BY <1>2 DEF Effect
<1>3. CASE ~q.invalidated /\ ~(q.new /\ q.raised)
  <2>1. q.did \in 0..2
    BY DEF Request
  <2>2. Effect(r, q) = Left(r, q)
    BY <1>3, <2>1 DEF Effect, Left
  <2> QED
    BY <1>3, <2>2, LeftType
<1> QED
  BY <1>1, <1>2, <1>3

LEMMA SessionType ==
  ASSUME TypeInv, PlacesOK, NEW r \in Requests, AtWork(r)
  PROVE  /\ req[r] \in Request /\ req[r].sid \in Ids /\ req[r].sid \in 1..made
         /\ Cell(r, req[r].sid) \in Ids \cup Requests /\ Session(r) \in Data
<1>1. req[r] \in Request /\ req[r].sid \in Ids /\ req[r].sid \in 1..made
  BY IdsFacts DEF TypeInv, PlacesOK, PlaceOK, Placed, AtWork, Handling
<1>2. Cell(r, req[r].sid) \in Ids \cup Requests
  BY <1>1 DEF Cell
<1> QED
  BY <1>1, <1>2 DEF TypeInv, Session

-----------------------------------------------------------------------------
(* How a handler ends.                                                     *)

LEMMA HandlerLeaves ==
  ASSUME TypeInv, PlacesOK, NEW r \in Requests,
         Read(r) \/ Returns(r) \/ Authorize(r) \/ Refuse(r) \/ LogIn(r) \/ LogOut(r) \/ Raises(r)
  PROVE  \E q \in Request, d \in Data :
           Leaves(r, q, d) /\ q.wrote = req[r].wrote /\ HandlerEnds(r, q, d)
<1> DEFINE q0 == req[r]
           d0 == Session(r)
<1>1. Handling(r)
  BY DEF Read, Returns, Authorize, Refuse, LogIn, LogOut, Raises, Handling
<1>2. q0 \in Request /\ d0 \in Data
  BY <1>1, SessionType DEF AtWork
<1>3. /\ ~q0.invalidated /\ PlaceOK(r)
      /\ q0.did \in 0..2
  BY <1>1, <1>2 DEF PlacesOK, PlaceOK, Placed, Handling, Request
<1>4. CASE Read(r) \/ Returns(r) \/ Refuse(r)
  <2>1. HandlerEnds(r, q0, d0)
    BY <1>4 DEF Read, Returns, Refuse
  <2>2. Leaves(r, q0, d0)
    BY <1>1, <1>2, <1>3 DEF Leaves
  <2> QED
    BY <1>2, <2>1, <2>2
<1>5. CASE Raises(r)
  <2> DEFINE q == [q0 EXCEPT !.raised = TRUE]
  <2>1. q \in Request /\ HandlerEnds(r, q, d0)
    BY <1>2, <1>5 DEF Raises, Request
  <2>2. Left(r, q) = Left(r, q0)
    BY <1>2 DEF Left, Request
  <2>3. Leaves(r, q, d0)
    BY <1>1, <1>2, <1>3, <2>1, <2>2 DEF Leaves, Request
  <2>4. q.wrote = q0.wrote
    BY <1>2 DEF Request
  <2> HIDE DEF q
  <2> QED
    BY <1>2, <2>1, <2>3, <2>4
<1>6. CASE Authorize(r)
  <2> DEFINE q == [q0 EXCEPT !.modified = TRUE, !.did = 1]
             d == [d0 EXCEPT !.state = r]
  <2>1. q \in Request /\ d \in Data /\ HandlerEnds(r, q, d)
    <3>1. HandlerEnds(r, q, d)
      BY <1>6 DEF Authorize
    <3>2. q \in Request
      <4> DEFINE p == [q0 EXCEPT !.modified = TRUE]
      <4>1. p \in Request
        BY <1>2 DEF Request
      <4>2. q = [p EXCEPT !.did = 1]
        OBVIOUS
      <4> HIDE DEF p, q
      <4> QED
        BY <4>1, <4>2 DEF Request
    <3>3. d \in Data
      BY <1>2 DEF Data
    <3> QED
      BY <3>1, <3>2, <3>3
  <2>2. q0.at = "handling" /\ q0.kind = "authorize" /\ q0.did = 0
    BY <1>3, <1>6 DEF Authorize, PlaceOK, Placed
  <2>3. d0 = Left(r, q0) => d = Left(r, q)
    BY <1>2, <2>2 DEF Left, Request
  <2>4. Leaves(r, q, d)
    BY <1>1, <1>2, <1>3, <2>1, <2>2, <2>3 DEF Leaves, Request, Data
  <2>5. q.wrote = q0.wrote
    BY <1>2 DEF Request
  <2> HIDE DEF q, d
  <2> QED
    BY <2>1, <2>4, <2>5
<1>7. CASE LogOut(r)
  <2> DEFINE q == [q0 EXCEPT !.invalidated = TRUE, !.modified = TRUE, !.did = 1]
  <2>1. q \in Request /\ HandlerEnds(r, q, d0)
    <3>1. HandlerEnds(r, q, d0)
      BY <1>7 DEF LogOut
    <3>2. q \in Request
      <4> DEFINE p == [q0 EXCEPT !.invalidated = TRUE]
                 o == [p EXCEPT !.modified = TRUE]
      <4>1. p \in Request
        BY <1>2 DEF Request
      <4>2. q = [o EXCEPT !.did = 1]
        OBVIOUS
      <4>3. o \in Request
        <5> HIDE DEF p
        <5> QED
          BY <4>1 DEF Request
      <4> HIDE DEF o, q
      <4> QED
        BY <4>2, <4>3 DEF Request
    <3> QED
      BY <3>1, <3>2
  <2>2. q0.at = "handling" /\ q0.kind = "logout" /\ q0.did = 0
    BY <1>3, <1>7 DEF LogOut, PlaceOK, Placed
  <2>3. Leaves(r, q, d0)
    BY <1>1, <1>2, <1>3, <2>1, <2>2 DEF Leaves, Request
  <2>4. q.wrote = q0.wrote
    BY <1>2 DEF Request
  <2> HIDE DEF q
  <2> QED
    BY <1>2, <2>1, <2>3, <2>4
<1>8. CASE LogIn(r)
  <2>1. q0.at = "exchange" /\ q0.kind = "callback" /\ q0.did = 1 /\ q0.modified
    BY <1>3, <1>8 DEF LogIn, PlaceOK, Placed
  <2>2. CASE HandlerEnds(r, q0, d0)
    <3>1. Leaves(r, q0, d0)
      BY <1>1, <1>2, <1>3 DEF Leaves
    <3> QED
      BY <1>2, <2>2, <3>1
  <2>3. CASE HandlerEnds(r, [q0 EXCEPT !.did = 2], [d0 EXCEPT !.login = TRUE])
    <3> DEFINE q == [q0 EXCEPT !.did = 2]
               d == [d0 EXCEPT !.login = TRUE]
    <3>1. q \in Request /\ d \in Data
      <4>1. q \in Request
        BY <1>2 DEF Request
      <4>2. d \in Data
        BY <1>2 DEF Data
      <4> QED
        BY <4>1, <4>2
    <3>2. d0 = Left(r, q0) => d = Left(r, q)
      <4>1. q.kind = "callback" /\ q.did = 2 /\ mine \in Data
        BY <1>2, <2>1 DEF Request, TypeInv
      <4>2. Left(r, q) = [mine EXCEPT !.state = None, !.login = mine.login \/ q.did = 2]
        <5> HIDE DEF q
        <5> QED
          BY <4>1 DEF Left
      <4>3. (mine.login \/ q.did = 2) = TRUE
        BY <4>1
      <4>4. Left(r, q0) = [mine EXCEPT !.state = None, !.login = mine.login \/ q0.did = 2]
        <5> HIDE DEF q0
        <5> QED
          BY <2>1 DEF Left
      <4>5. [[mine EXCEPT !.state = None, !.login = mine.login \/ q0.did = 2] EXCEPT !.login = TRUE]
              = [mine EXCEPT !.state = None, !.login = TRUE]
        BY <4>1 DEF Data
      <4> QED
        BY <4>2, <4>3, <4>4, <4>5
    <3>3. /\ q.did = 2 /\ q.kind = q0.kind /\ q.asked = q0.asked /\ q.code = q0.code /\ q.sid = q0.sid
          /\ q.new = q0.new /\ q.wrote = q0.wrote /\ q.modified = q0.modified
          /\ q.wrote = q0.wrote /\ q.invalidated = q0.invalidated /\ d.items = d0.items /\ d.state = d0.state
      BY <1>2 DEF Request, Data
    <3> HIDE DEF q, d
    <3>4. Leaves(r, q, d)
      BY <1>1, <1>2, <1>3, <2>1, <3>1, <3>2, <3>3 DEF Leaves
    <3>5. HandlerEnds(r, q, d)
      BY <2>3 DEF q, d
    <3> QED
      BY <3>1, <3>3, <3>4, <3>5
  <2> QED
    BY <1>8, <2>2, <2>3 DEF LogIn
<1> QED
  BY <1>4, <1>5, <1>6, <1>7, <1>8

-----------------------------------------------------------------------------
(* The steps, by what they do to the fields of a request.                  *)

Agree(p, q) ==
  /\ p.kind = q.kind /\ p.asked = q.asked /\ p.code = q.code /\ p.sid = q.sid /\ p.new = q.new

AgreeToo(p, q) ==
  /\ p.modified = q.modified /\ p.invalidated = q.invalidated /\ p.raised = q.raised
  /\ p.did = q.did /\ p.wrote = q.wrote

(* Request r becomes p. *)
Becomes(r, p) == p \in Request /\ req' = [req EXCEPT ![r] = p]

Sent(r, p) ==
  /\ Becomes(r, p) /\ req[r].at = "unsent" /\ p.at = "loading" /\ p.asked = jar /\ p.sid = None
  /\ ~p.new /\ ~p.modified /\ ~p.invalidated /\ ~p.raised /\ p.did = 0 /\ ~p.wrote
  /\ p.kind = "callback" => p.code \in Requests /\ Redirected(p.code)
  /\ calm' = (calm /\ \A q \in Requests : ~Underway(q))
  /\ UNCHANGED <<store, made, live, heap, jar, crossed, mine>>

Found(r, p) ==
  /\ Becomes(r, p) /\ req[r].at = "loading" /\ p.at = "handling" /\ req[r].asked \in live
  /\ p.sid = req[r].asked /\ p.kind = req[r].kind /\ p.asked = req[r].asked /\ p.code = req[r].code
  /\ p.new = req[r].new /\ AgreeToo(p, req[r])
  /\ heap' = [heap EXCEPT ![Cell(r, req[r].asked)] = heap[req[r].asked]]
  /\ UNCHANGED <<store, made, live, jar, crossed, mine, calm>>

Created(r, p) ==
  /\ Becomes(r, p) /\ req[r].at = "loading" /\ p.at = "handling" /\ req[r].asked \notin live
  /\ p.sid = made + 1 /\ p.new /\ p.modified
  /\ p.kind = req[r].kind /\ p.asked = req[r].asked /\ p.code = req[r].code /\ p.invalidated = req[r].invalidated
  /\ p.raised = req[r].raised /\ p.did = req[r].did /\ p.wrote = req[r].wrote
  /\ made' = made + 1 /\ made + 1 \in Ids
  /\ heap' = [heap EXCEPT ![Cell(r, made + 1)] = Empty]
  /\ UNCHANGED <<store, live, jar, crossed, mine, calm>>

(* The store has failed before it did anything, or the answer is there. *)
Drops(r, p) ==
  /\ Becomes(r, p) /\ Agree(p, req[r]) /\ AgreeToo(p, req[r])
  /\ \/ /\ req[r].at \in {"loading", "storing"} /\ store = "redis" /\ p.at = "failing"
        /\ jar' = jar
     \/ /\ req[r].at \in {"answering", "failing"} /\ p.at = "ended"
        /\ jar' = IF req[r].at = "failing" THEN jar
                  ELSE IF p.invalidated THEN None
                  ELSE IF p.new THEN p.sid ELSE jar
  /\ UNCHANGED <<store, made, live, heap, crossed, mine, calm>>

(* A handler changes the session and goes on. *)
Touches(r, p) ==
  /\ Becomes(r, p) /\ Agree(p, req[r]) /\ req[r].at = "handling" /\ p.did = 1 /\ p.modified
  /\ p.invalidated = req[r].invalidated /\ p.raised = req[r].raised /\ p.wrote = req[r].wrote
  /\ \/ /\ p.at = "touched" /\ p.kind = "put"
        /\ heap' = [heap EXCEPT ![Cell(r, p.sid)] = [Session(r) EXCEPT !.items = @ \cup {r}]]
     \/ /\ p.at = "exchange" /\ p.kind = "callback" /\ Session(r).state = p.code
        /\ heap' = [heap EXCEPT ![Cell(r, p.sid)] = Consumed(Session(r))]
  /\ UNCHANGED <<store, made, live, jar, crossed, mine, calm>>

(* A handler ends: there is nothing to write, or it is written in memory,  *)
(* or it is to be sent to Redis.                                           *)
Closes(r, p, d) ==
  /\ Becomes(r, p) /\ Leaves(r, p, d) /\ ~Persists(p) /\ ~p.wrote
  /\ p.at = IF p.raised THEN "failing" ELSE "answering"
  /\ UNCHANGED <<store, made, live, heap, jar, crossed, mine, calm>>

Keeps(r, p, d) ==
  /\ Becomes(r, p) /\ Leaves(r, p, d) /\ Persists(p) /\ p.wrote /\ store = "memory"
  /\ p.at = IF p.raised THEN "failing" ELSE "answering"
  /\ Write(r, p, d)
  /\ UNCHANGED <<store, made, jar, calm>>

Hands(r, p, d) ==
  /\ Becomes(r, p) /\ Leaves(r, p, d) /\ Persists(p) /\ ~p.wrote /\ store = "redis"
  /\ p.at = IF p.invalidated \/ Dumps(d) THEN "storing" ELSE "failing"
  /\ heap' = [heap EXCEPT ![r] = d]
  /\ UNCHANGED <<store, made, live, jar, crossed, mine, calm>>

Saved(r, p) ==
  /\ Becomes(r, p) /\ Agree(p, req[r]) /\ req[r].at = "storing"
  /\ p.modified = req[r].modified /\ p.invalidated = req[r].invalidated /\ p.did = req[r].did
  /\ p.wrote /\ p.at = IF p.raised THEN "failing" ELSE "answering"
  /\ Write(r, p, heap[r])
  /\ UNCHANGED <<store, made, jar, calm>>

LEMMA SentForm ==
  ASSUME TypeInv, NEW r \in Requests, Sends(r)
  PROVE  \E p \in Request : Sent(r, p)
<1>1. PICK kind \in Kinds, code \in Requests \cup {None} :
        Send(r, kind, code) /\ (kind = "callback" => code \in Requests /\ Redirected(code))
  BY DEF Sends
<1> DEFINE p == [Unsent EXCEPT !.kind = kind, !.at = "loading", !.asked = jar, !.code = code]
<1>2. /\ p.kind = kind /\ p.at = "loading" /\ p.asked = jar /\ p.code = code /\ p.sid = None
      /\ p.new = FALSE /\ p.modified = FALSE /\ p.invalidated = FALSE /\ p.raised = FALSE
      /\ p.did = 0 /\ p.wrote = FALSE
  BY DEF Unsent
<1>3. p \in Request
  <2>1. jar \in Ids \cup {None}
    BY IdsFacts DEF TypeInv
  <2>2. Unsent \in Request
    BY DEF Unsent, Request, Places
  <2> DEFINE o == [Unsent EXCEPT !.kind = kind, !.at = "loading"]
             n == [o EXCEPT !.asked = jar]
  <2>3. o \in Request
    BY <2>2 DEF Request, Places
  <2>4. n \in Request
    <3> HIDE DEF o
    <3> QED
      BY <2>1, <2>3 DEF Request
  <2>5. p = [n EXCEPT !.code = code]
    OBVIOUS
  <2> HIDE DEF n, p
  <2> QED
    BY <2>4, <2>5 DEF Request
<1>4. Send(r, kind, code) => req[r].at = "unsent" /\ req' = [req EXCEPT ![r] = p]
  BY DEF Send
<1> HIDE DEF p
<1> QED
  BY <1>1, <1>2, <1>3, <1>4 DEF Send, Sent, Becomes

LEMMA LoadForm ==
  ASSUME TypeInv, PlacesOK, NEW r \in Requests, Load(r)
  PROVE  \E p \in Request : Found(r, p) \/ Created(r, p)
<1>1. req[r] \in Request /\ req[r].at = "loading" /\ ~req[r].new
  BY DEF TypeInv, Load, PlacesOK, PlaceOK, Placed
<1>2. CASE req[r].asked \in live
  <2> DEFINE p == [req[r] EXCEPT !.at = "handling", !.sid = req[r].asked]
  <2>1. p \in Request
    BY <1>1 DEF Request, Places
  <2>2. req' = [req EXCEPT ![r] = p]
    BY <1>2 DEF Load, TypeInv
  <2>3. /\ p.at = "handling" /\ p.sid = req[r].asked /\ p.kind = req[r].kind /\ p.asked = req[r].asked
        /\ p.code = req[r].code /\ p.new = req[r].new /\ AgreeToo(p, req[r])
    BY <1>1 DEF AgreeToo, Request
  <2> HIDE DEF p
  <2> QED
    BY <1>1, <1>2, <2>1, <2>2, <2>3 DEF Load, Found, Becomes
<1>3. CASE req[r].asked \notin live
  <2>1. made + 1 \in Ids
    <3>1. Cardinality(Made \cup {r}) = made + 1
      BY <1>1, IdsFacts, FS_AddElement DEF Made, TypeInv
    <3>2. Made \cup {r} \subseteq Requests
      BY DEF Made
    <3>3. Cardinality(Made \cup {r}) <= Cardinality(Requests)
      BY <3>2, FS_Subset, RequestsAssumption
    <3> QED
      BY <3>1, <3>3, IdsFacts DEF Ids
  <2> DEFINE p == [req[r] EXCEPT !.at = "handling", !.sid = made + 1, !.new = TRUE, !.modified = TRUE]
  <2>2. p \in Request
    <3> DEFINE o == [req[r] EXCEPT !.at = "handling", !.sid = made + 1]
               n == [o EXCEPT !.new = TRUE]
    <3>1. o \in Request
      BY <1>1, <2>1 DEF Request, Places
    <3>2. n \in Request
      <4> HIDE DEF o
      <4> QED
        BY <3>1 DEF Request
    <3>3. p = [n EXCEPT !.modified = TRUE]
      OBVIOUS
    <3> HIDE DEF n, p
    <3> QED
      BY <3>2, <3>3 DEF Request
  <2>3. req' = [req EXCEPT ![r] = p]
    BY <1>3 DEF Load, NewId, TypeInv
  <2>4. /\ p.at = "handling" /\ p.sid = made + 1 /\ p.new /\ p.modified
        /\ p.kind = req[r].kind /\ p.asked = req[r].asked /\ p.code = req[r].code
        /\ p.invalidated = req[r].invalidated /\ p.raised = req[r].raised /\ p.did = req[r].did
        /\ p.wrote = req[r].wrote
    BY <1>1 DEF Request
  <2> HIDE DEF p
  <2> QED
    BY <1>1, <1>3, <2>1, <2>2, <2>3, <2>4 DEF Load, NewId, Created, Becomes
<1> QED
  BY <1>2, <1>3

LEMMA DropsForm ==
  ASSUME TypeInv, PlacesOK, NEW r \in Requests, LoadFails(r) \/ StoreFails(r) \/ Answer(r)
  PROVE  \E p \in Request : Drops(r, p)
<1>1. req[r] \in Request
  BY DEF TypeInv
<1> DEFINE P(at) == [req[r] EXCEPT !.at = at]
<1>2. \A at \in {"failing", "ended"} :
        P(at) \in Request /\ P(at).at = at /\ Agree(P(at), req[r]) /\ AgreeToo(P(at), req[r])
  BY <1>1 DEF Request, Places, Agree, AgreeToo
<1>3. LoadFails(r) \/ StoreFails(r) => req' = [req EXCEPT ![r] = P("failing")]
  BY DEF LoadFails, StoreFails
<1>4. Answer(r) => req' = [req EXCEPT ![r] = P("ended")]
  BY DEF Answer
<1> HIDE DEF P
<1>5. CASE LoadFails(r) \/ StoreFails(r)
  <2>1. Drops(r, P("failing"))
    BY <1>2, <1>3, <1>5 DEF LoadFails, StoreFails, Drops, Becomes, PlacesOK, PlaceOK, Placed
  <2> QED
    BY <1>2, <2>1
<1>6. CASE Answer(r)
  <2>1. Drops(r, P("ended"))
    BY <1>2, <1>4, <1>6 DEF Answer, Drops, Becomes, Agree, AgreeToo
  <2> QED
    BY <1>2, <2>1
<1> QED
  BY <1>5, <1>6

LEMMA TouchesForm ==
  ASSUME TypeInv, PlacesOK, NEW r \in Requests, Put(r) \/ Check(r)
  PROVE  \E p \in Request : Touches(r, p)
<1>1. req[r] \in Request /\ req[r].at = "handling"
  BY DEF TypeInv, Put, Check
<1> DEFINE O(at) == [req[r] EXCEPT !.at = at]
           N(at) == [O(at) EXCEPT !.modified = TRUE]
           P(at) == [N(at) EXCEPT !.did = 1]
<1>2. ASSUME NEW at \in {"touched", "exchange"}
      PROVE  /\ P(at) \in Request /\ P(at).at = at /\ P(at).did = 1 /\ P(at).modified = TRUE
             /\ Agree(P(at), req[r]) /\ P(at).invalidated = req[r].invalidated
             /\ P(at).raised = req[r].raised /\ P(at).wrote = req[r].wrote
             /\ [req EXCEPT ![r].at = at, ![r].modified = TRUE, ![r].did = 1] = [req EXCEPT ![r] = P(at)]
  <2>1. O(at) \in Request
    BY <1>1 DEF Request, Places
  <2>2. N(at) \in Request
    <3> HIDE DEF O
    <3> QED
      BY <2>1 DEF Request
  <2>3. P(at) \in Request
    <3> HIDE DEF N
    <3> QED
      BY <2>2 DEF Request
  <2>4. /\ P(at).at = at /\ P(at).did = 1 /\ P(at).modified = TRUE
        /\ Agree(P(at), req[r]) /\ P(at).invalidated = req[r].invalidated
        /\ P(at).raised = req[r].raised /\ P(at).wrote = req[r].wrote
    BY <1>1 DEF Request, Agree
  <2>5. [req EXCEPT ![r].at = at, ![r].modified = TRUE, ![r].did = 1] = [req EXCEPT ![r] = P(at)]
    BY <1>1 DEF TypeInv
  <2> QED
    BY <2>3, <2>4, <2>5
<1> HIDE DEF P
<1>3. CASE Put(r)
  <2>1. heap' = [heap EXCEPT ![Cell(r, req[r].sid)] = [Session(r) EXCEPT !.items = @ \cup {r}]]
    BY <1>1, <1>3, SessionType DEF Put, AtWork, Handling, TypeInv, Session
  <2>2. Touches(r, P("touched"))
    BY <1>1, <1>2, <1>3, <2>1 DEF Put, Touches, Becomes, Agree
  <2> QED
    BY <1>2, <2>2
<1>4. CASE Check(r)
  <2>1. Touches(r, P("exchange"))
    BY <1>1, <1>2, <1>4 DEF Check, Touches, Becomes, Agree
  <2> QED
    BY <1>2, <2>1
<1> QED
  BY <1>3, <1>4

(* Where a handler leaves does not depend on where the request goes then.  *)
LEMMA LeavesAnyhow ==
  ASSUME NEW r, NEW d, NEW q \in Request, NEW p \in Request, Leaves(r, q, d), Agree(p, q),
         p.modified = q.modified, p.invalidated = q.invalidated, p.did = q.did
  PROVE  /\ Leaves(r, p, d)
         /\ Persists(p) = Persists(q)
         /\ Left(r, p) = Left(r, q)
<1>1. Left(r, p) = Left(r, q) /\ Persists(p) = Persists(q)
  BY DEF Left, Agree, Persists
<1> QED
  BY <1>1 DEF Leaves, Agree

LEMMA EndsForm ==
  ASSUME TypeInv, PlacesOK, NEW r \in Requests, NEW q \in Request, NEW d \in Data,
         Leaves(r, q, d), q.wrote = req[r].wrote, HandlerEnds(r, q, d)
  PROVE  \E p \in Request : Closes(r, p, d) \/ Keeps(r, p, d) \/ Hands(r, p, d)
<1>1. /\ Handling(r) /\ q.sid = req[r].sid /\ ~q.wrote
      /\ heap[Cell(r, q.sid)] = Session(r) /\ Cell(r, q.sid) \in Ids \cup Requests
  BY SessionType DEF Leaves, PlacesOK, PlaceOK, Placed, Handling, AtWork, Session
<1>2. UNCHANGED <<store, made, jar, calm>>
  BY DEF HandlerEnds
<1> DEFINE P(at) == [q EXCEPT !.at = at]
           W(at) == [q EXCEPT !.at = at, !.wrote = TRUE]
<1>3. ASSUME NEW at \in {"failing", "answering", "storing"}
      PROVE  /\ P(at) \in Request /\ P(at).at = at /\ P(at).wrote = q.wrote /\ P(at).raised = q.raised
             /\ P(at).modified = q.modified /\ P(at).invalidated = q.invalidated /\ P(at).did = q.did
             /\ Agree(P(at), q)
  BY DEF Request, Places, Agree
<1>4. ASSUME NEW at \in {"failing", "answering"}
      PROVE  /\ W(at) \in Request /\ W(at).at = at /\ W(at).wrote = TRUE /\ W(at).raised = q.raised
             /\ W(at).modified = q.modified /\ W(at).invalidated = q.invalidated /\ W(at).did = q.did
             /\ Agree(W(at), q)
  <2>1. P(at) \in Request /\ W(at) = [P(at) EXCEPT !.wrote = TRUE]
    BY <1>3
  <2>2. W(at) \in Request
    <3> HIDE DEF P, W
    <3> QED
      BY <2>1 DEF Request
  <2> QED
    BY <2>2 DEF Request, Agree
<1>5. CASE ~Persists(q)
  <2> PICK at \in {"failing", "answering"} : at = IF q.raised THEN "failing" ELSE "answering"
    OBVIOUS
  <2>1. d = Session(r)
    BY <1>5 DEF Leaves, Persists
  <2>2. /\ req' = [req EXCEPT ![r] = P(at)] /\ UNCHANGED <<live, crossed, mine>>
        /\ heap' = [heap EXCEPT ![Cell(r, q.sid)] = d]
    BY <1>5 DEF HandlerEnds, Ends
  <2>3. heap' = heap
    BY <1>1, <2>1, <2>2 DEF TypeInv
  <2> HIDE DEF P
  <2>4. Closes(r, P(at), d)
    BY <1>1, <1>2, <1>3, <1>5, <2>2, <2>3, LeavesAnyhow DEF Closes, Becomes
  <2> QED
    BY <1>3, <2>4
<1>6. CASE Persists(q) /\ store = "memory"
  <2> PICK at \in {"failing", "answering"} : at = IF q.raised THEN "failing" ELSE "answering"
    OBVIOUS
  <2>1. req' = [req EXCEPT ![r] = W(at)] /\ Write(r, q, d)
    BY <1>6 DEF HandlerEnds, Ends
  <2> HIDE DEF W
  <2>2. W(at) \in Request /\ Leaves(r, W(at), d) /\ Persists(W(at))
    BY <1>4, <1>6, LeavesAnyhow
  <2>3. Write(r, W(at), d)
    <3>1. Effect(r, W(at)) = Effect(r, q)
      <4>1. q.did > 0 => q.kind \in {"put", "authorize", "callback"} \/ q.invalidated
        BY <1>1 DEF Leaves, PlacesOK, PlaceOK, Placed, Handling, Request
      <4>2. Left(r, W(at)) = Left(r, q) /\ mine \in Data
        BY <1>4, LeavesAnyhow DEF TypeInv
      <4> QED
        BY <1>4, <4>1, <4>2, EffectFacts DEF Agree
    <3> QED
      BY <1>4, <2>1, <3>1 DEF Write, Agree
  <2>4. Keeps(r, W(at), d)
    BY <1>2, <1>4, <1>6, <2>1, <2>2, <2>3 DEF Keeps, Becomes
  <2> QED
    BY <1>4, <2>4
<1>7. CASE Persists(q) /\ store = "redis"
  <2> PICK at \in {"failing", "storing"} : at = IF q.invalidated \/ Dumps(d) THEN "storing" ELSE "failing"
    OBVIOUS
  <2>1. /\ req' = [req EXCEPT ![r] = P(at)] /\ UNCHANGED <<live, crossed, mine>>
        /\ heap' = [heap EXCEPT ![r] = d]
    BY <1>7 DEF HandlerEnds, Ends
  <2> HIDE DEF P
  <2>2. P(at) \in Request /\ Leaves(r, P(at), d) /\ Persists(P(at))
    BY <1>3, <1>7, LeavesAnyhow
  <2>3. Hands(r, P(at), d)
    BY <1>1, <1>2, <1>3, <1>7, <2>1, <2>2 DEF Hands, Becomes
  <2> QED
    BY <1>3, <2>3
<1> QED
  BY <1>5, <1>6, <1>7 DEF HandlerEnds, Ends

LEMMA SavedForm ==
  ASSUME TypeInv, PlacesOK, NEW r \in Requests, Saves(r)
  PROVE  \E p \in Request : Saved(r, p)
<1>1. PICK raised \in {req[r].raised, TRUE} :
        LET q == [req[r] EXCEPT !.raised = raised, !.wrote = TRUE,
                                !.at = IF raised THEN "failing" ELSE "answering"]
        IN  req' = [req EXCEPT ![r] = q] /\ Write(r, q, heap[r])
  BY DEF Saves
<1> DEFINE o == [req[r] EXCEPT !.raised = raised]
           n == [o EXCEPT !.wrote = TRUE]
           p == [n EXCEPT !.at = IF raised THEN "failing" ELSE "answering"]
<1>2. req[r] \in Request /\ raised \in BOOLEAN
  BY DEF TypeInv, Request
<1>3. req' = [req EXCEPT ![r] = p] /\ Write(r, p, heap[r])
  BY <1>1
<1>4. o \in Request
  BY <1>2 DEF Request
<1>5. n \in Request
  <2> HIDE DEF o
  <2> QED
    BY <1>4 DEF Request
<1>6. p \in Request
  <2> HIDE DEF n
  <2> QED
    BY <1>5 DEF Request, Places
<1>7. /\ Agree(p, req[r]) /\ p.modified = req[r].modified /\ p.invalidated = req[r].invalidated
      /\ p.did = req[r].did /\ p.wrote = TRUE /\ p.raised = raised
      /\ p.at = IF raised THEN "failing" ELSE "answering"
  BY <1>2 DEF Request, Agree
<1> HIDE DEF p
<1> QED
  BY <1>3, <1>6, <1>7 DEF Saves, Saved, Becomes

(* Every step is one of these. *)
RequestStep(r, p) ==
  \/ Sent(r, p) \/ Found(r, p) \/ Created(r, p) \/ Touches(r, p) \/ Drops(r, p) \/ Saved(r, p)
  \/ \E d \in Data : Closes(r, p, d) \/ Keeps(r, p, d) \/ Hands(r, p, d)

LEMMA StepForms ==
  ASSUME TypeInv, PlacesOK, Next
  PROVE  \/ \E r \in Requests : \E p \in Request : RequestStep(r, p)
         \/ \E id \in Ids : Expire(id)
         \/ CookieExpires
<1>1. ASSUME NEW r \in Requests,
             Read(r) \/ Returns(r) \/ Authorize(r) \/ Refuse(r) \/ LogIn(r) \/ LogOut(r) \/ Raises(r)
      PROVE  \E p \in Request : RequestStep(r, p)
  BY <1>1, HandlerLeaves, EndsForm DEF RequestStep
<1>2. ASSUME NEW r \in Requests,
             Sends(r) \/ Load(r) \/ LoadFails(r) \/ Put(r) \/ Check(r) \/ Persisting(r) \/ Answer(r)
      PROVE  \E p \in Request : RequestStep(r, p)
  BY <1>2, SentForm, LoadForm, DropsForm, TouchesForm, SavedForm DEF RequestStep, Persisting
<1> QED
  BY <1>1, <1>2 DEF Next, Handles

-----------------------------------------------------------------------------
(* Types and places.                                                       *)

LEMMA BecomesFacts ==
  ASSUME TypeInv, NEW r \in Requests, NEW p \in Request, Becomes(r, p)
  PROVE  /\ req' \in [Requests -> Request]
         /\ req'[r] = p
         /\ \A o \in Requests : o # r => req'[o] = req[o]
BY DEF TypeInv, Becomes

LEMMA TypeKept ==
  ASSUME TypeInv, NEW r \in Requests, NEW p \in Request, Becomes(r, p),
         p.new = req[r].new, p.sid \in 1..made \cup {None}, p.asked \in 1..made \cup {None},
         store' = store, made' = made, live' \subseteq 1..made, jar' \in 1..made \cup {None},
         heap' \in [Ids \cup Requests -> Data], mine' \in Data, calm' \in BOOLEAN,
         crossed' \in [Requests -> SUBSET Requests]
  PROVE  TypeInv'
<1>1. /\ req' \in [Requests -> Request] /\ req'[r] = p
      /\ \A o \in Requests : o # r => req'[o] = req[o]
  BY BecomesFacts
<1>2. Made' = Made
  BY <1>1 DEF Made
<1> QED
  BY <1>1, <1>2 DEF TypeInv

LEMMA WriteType ==
  ASSUME TypeInv, NEW r \in Requests, NEW p \in Request, NEW d \in Data, Write(r, p, d),
         p.sid \in 1..made, p.did > 0 => p.kind \in {"put", "authorize", "callback"} \/ p.invalidated
  PROVE  /\ live' \subseteq 1..made
         /\ heap' \in [Ids \cup Requests -> Data] /\ mine' \in Data
         /\ crossed' \in [Requests -> SUBSET Requests]
<1>1. mine' \in Data
  BY EffectFacts DEF Write, TypeInv
<1>2. live' \subseteq 1..made /\ heap' \in [Ids \cup Requests -> Data]
  BY DEF Write, TypeInv
<1>3. crossed' \in [Requests -> SUBSET Requests]
  BY DEF Write, TypeInv
<1> QED
  BY <1>1, <1>2, <1>3

LEMMA CellFacts ==
  ASSUME TypeInv, NEW r \in Requests, NEW id \in Ids
  PROVE  Cell(r, id) \in Ids \cup Requests
BY DEF Cell

(* What a handler leaves fits the kind of its request. *)
LEMMA LeavesFits ==
  ASSUME TypeInv, PlacesOK, NEW r \in Requests, NEW p \in Request, NEW d \in Data, Leaves(r, p, d)
  PROVE  /\ p.did > 0 => p.kind \in {"put", "authorize", "callback"} \/ (p.kind = "logout" /\ p.invalidated)
         /\ p.did = 2 => p.kind = "callback"
         /\ p.invalidated => p.kind = "logout"
         /\ p.new => p.modified
         /\ p.sid \in Ids /\ p.sid \in 1..made
<1>1. PlaceOK(r) /\ Handling(r) /\ AtWork(r)
  BY DEF PlacesOK, Leaves, AtWork
<1> QED
  BY <1>1, SessionType DEF PlaceOK, Placed, Leaves, Handling, Request

LEMMA TypeStep ==
  ASSUME TypeInv, PlacesOK, NEW r \in Requests, NEW p \in Request, RequestStep(r, p)
  PROVE  TypeInv'
<1>1. CASE Sent(r, p)
  <2>1. p.new = req[r].new
    BY <1>1 DEF Sent, PlacesOK, PlaceOK, Placed, Request, TypeInv
  <2> QED
    BY <1>1, <2>1, TypeKept DEF Sent, TypeInv
<1>2. CASE Found(r, p)
  <2>1. req[r].asked \in Ids
    BY <1>2, IdsFacts DEF Found, TypeInv
  <2>2. heap' \in [Ids \cup Requests -> Data]
    BY <1>2, <2>1, CellFacts DEF Found, TypeInv
  <2> QED
    BY <1>2, <2>2, TypeKept DEF Found, TypeInv
<1>3. CASE Created(r, p)
  <2>1. /\ req' \in [Requests -> Request] /\ req'[r] = p
        /\ \A o \in Requests : o # r => req'[o] = req[o]
    BY <1>3, BecomesFacts DEF Created
  <2>2. ~req[r].new
    BY <1>3 DEF Created, PlacesOK, PlaceOK, Placed
  <2>3. Made' = Made \cup {r} /\ r \notin Made
    BY <1>3, <2>1, <2>2 DEF Created, Made
  <2>4. made' = Cardinality(Made')
    BY <1>3, <2>3, IdsFacts, FS_AddElement DEF Created, TypeInv
  <2>5. heap' \in [Ids \cup Requests -> Data]
    BY <1>3, CellFacts, EmptyType DEF Created, TypeInv
  <2>6. made \in Nat /\ 1..made \subseteq 1..(made + 1) /\ made + 1 \in 1..(made + 1)
    BY IdsFacts
  <2>7. \A o \in Requests :
          req'[o].sid \in 1..(made + 1) \cup {None} /\ req'[o].asked \in 1..(made + 1) \cup {None}
    BY <1>3, <2>1, <2>6 DEF Created, TypeInv
  <2> QED
    BY <1>3, <2>1, <2>4, <2>5, <2>6, <2>7 DEF Created, TypeInv
<1>4. CASE Drops(r, p)
  <2>1. jar' \in 1..made \cup {None}
    BY <1>4 DEF Drops, TypeInv, Agree
  <2> QED
    BY <1>4, <2>1, TypeKept DEF Drops, Agree, TypeInv
<1>5. CASE Touches(r, p)
  <2>1. Session(r) \in Data /\ Cell(r, p.sid) \in Ids \cup Requests
    BY <1>5, SessionType DEF Touches, AtWork, Handling, Agree
  <2>2. [Session(r) EXCEPT !.items = @ \cup {r}] \in Data /\ Consumed(Session(r)) \in Data
    BY <2>1 DEF Consumed, Data
  <2>3. heap' \in [Ids \cup Requests -> Data]
    BY <1>5, <2>1, <2>2 DEF Touches, TypeInv
  <2> QED
    BY <1>5, <2>3, TypeKept DEF Touches, Agree, TypeInv
<1>6. CASE Saved(r, p)
  <2>1. p.sid \in 1..made /\ heap[r] \in Data
    BY <1>6, SessionType DEF Saved, AtWork, Agree, TypeInv
  <2>2. p.did > 0 => p.kind \in {"put", "authorize", "callback"} \/ p.invalidated
    BY <1>6 DEF Saved, Agree, PlacesOK, PlaceOK, Placed
  <2>3. Write(r, p, heap[r])
    BY <1>6 DEF Saved
  <2>4. /\ live' \subseteq 1..made /\ heap' \in [Ids \cup Requests -> Data] /\ mine' \in Data
        /\ crossed' \in [Requests -> SUBSET Requests]
    BY <2>1, <2>2, <2>3, WriteType
  <2> QED
    BY <1>6, <2>4, TypeKept DEF Saved, Agree, TypeInv
<1>7. ASSUME NEW d \in Data, Closes(r, p, d)
      PROVE  TypeInv'
  BY <1>7, TypeKept DEF Closes, Leaves, TypeInv
<1>8. ASSUME NEW d \in Data, Keeps(r, p, d)
      PROVE  TypeInv'
  <2>1. /\ p.sid \in 1..made
        /\ p.did > 0 => p.kind \in {"put", "authorize", "callback"} \/ p.invalidated
    BY <1>8, LeavesFits DEF Keeps
  <2>2. /\ live' \subseteq 1..made /\ heap' \in [Ids \cup Requests -> Data] /\ mine' \in Data
        /\ crossed' \in [Requests -> SUBSET Requests]
    BY <1>8, <2>1, WriteType DEF Keeps
  <2> QED
    BY <1>8, <2>2, TypeKept DEF Keeps, Leaves, TypeInv
<1>9. ASSUME NEW d \in Data, Hands(r, p, d)
      PROVE  TypeInv'
  <2>1. heap' \in [Ids \cup Requests -> Data]
    BY <1>9 DEF Hands, TypeInv
  <2> QED
    BY <1>9, <2>1, TypeKept DEF Hands, Leaves, TypeInv
<1> QED
  BY <1>1, <1>2, <1>3, <1>4, <1>5, <1>6, <1>7, <1>8, <1>9 DEF RequestStep

(* A redirect stays one. *)
LEMMA PlaceKept ==
  ASSUME TypeInv, PlacesOK, NEW r \in Requests, NEW p \in Request, Becomes(r, p),
         store' = store, req[r].at # "ended", PlaceOK(r)'
  PROVE  PlacesOK'
<1>1. /\ req'[r] = p
      /\ \A o \in Requests : o # r => req'[o] = req[o]
  BY BecomesFacts
<1>2. ASSUME NEW c \in Requests, Redirected(c) PROVE Redirected(c)'
  BY <1>1, <1>2 DEF Redirected
<1>3. ASSUME NEW o \in Requests, o # r PROVE PlaceOK(o)'
  BY <1>1, <1>2, <1>3 DEF PlacesOK, PlaceOK, Placed, Handling, AtWork
<1> QED
  BY <1>3 DEF PlacesOK

LEMMA PlaceStep ==
  ASSUME TypeInv, PlacesOK, NEW r \in Requests, NEW p \in Request, RequestStep(r, p)
  PROVE  PlacesOK'
<1>1. PlaceOK(r) /\ Placed(req[r]) /\ req[r] \in Request
  BY DEF PlacesOK, PlaceOK, TypeInv
<1>2. Becomes(r, p) /\ store' = store /\ req[r].at # "ended"
  BY DEF RequestStep, Sent, Found, Created, Touches, Drops, Saved, Closes, Keeps, Hands, Leaves, Handling
<1>3. req'[r] = p
  BY <1>2, BecomesFacts
<1>4. p.kind = "callback" => p.code \in Requests /\ Redirected(p.code)
  <2>1. CASE Sent(r, p)
    BY <2>1 DEF Sent
  <2>2. CASE ~Sent(r, p)
    <3>1. p.kind = req[r].kind /\ p.code = req[r].code
      BY <2>2 DEF RequestStep, Found, Created, Touches, Drops, Saved, Closes, Keeps, Hands, Leaves, Agree
    <3>2. req[r].kind = "callback" => req[r].code \in Requests /\ Redirected(req[r].code)
      BY <1>1 DEF PlaceOK, Placed
    <3> QED
      BY <3>1, <3>2
  <2> QED
    BY <2>1, <2>2
<1>5. Placed(p)
  <2>1. CASE Sent(r, p)
    BY <2>1 DEF Sent, Placed
  <2>6. CASE Found(r, p)
    <3>1. p.sid \in Ids
      BY <2>6, IdsFacts DEF Found, TypeInv
    <3> QED
      BY <1>1, <2>6, <3>1 DEF Found, Placed, AgreeToo
  <2>7. CASE Created(r, p)
    BY <1>1, <2>7 DEF Created, Placed
  <2>2. CASE Drops(r, p)
    BY <1>1, <2>2 DEF Drops, Placed, Agree, AgreeToo
  <2>3. CASE Touches(r, p)
    BY <1>1, <2>3 DEF Touches, Placed, Agree
  <2>4. CASE Saved(r, p)
    BY <1>1, <2>4 DEF Saved, Placed, Agree
  <2>5. ASSUME NEW d \in Data, Closes(r, p, d) \/ Keeps(r, p, d) \/ Hands(r, p, d)
        PROVE  Placed(p)
    <3>1. /\ p.did > 0 => p.kind \in {"put", "authorize", "callback"} \/ (p.kind = "logout" /\ p.invalidated)
          /\ p.did = 2 => p.kind = "callback"
          /\ p.invalidated => p.kind = "logout"
          /\ p.new => p.modified
          /\ p.sid \in Ids
      BY <2>5, LeavesFits DEF Closes, Keeps, Hands
    <3> QED
      BY <2>5, <3>1 DEF Closes, Keeps, Hands, Placed
  <2> QED
    BY <2>1, <2>2, <2>3, <2>4, <2>5, <2>6, <2>7 DEF RequestStep
<1>6. p.kind = "callback" => p.code \in Requests /\ Redirected(p.code)'
  <2>1. Redirected(p.code) /\ p.code \in Requests => p.code # r /\ req'[p.code] = req[p.code]
    BY <1>2, BecomesFacts DEF Redirected
  <2> QED
    BY <1>4, <2>1 DEF Redirected
<1>7. PlaceOK(r)'
  BY <1>2, <1>3, <1>5, <1>6 DEF PlaceOK, Placed, Handling, AtWork
<1> QED
  BY <1>2, <1>7, PlaceKept

-----------------------------------------------------------------------------
(* Facts about a step of request r that the invariants share.              *)

LEMMA StepFacts ==
  ASSUME TypeInv, PlacesOK, NEW r \in Requests, NEW p \in Request, RequestStep(r, p)
  PROVE  /\ req'[r] = p /\ \A o \in Requests : o # r => req'[o] = req[o]
         /\ store' = store
         /\ req[r].wrote => p.wrote
<1>1. Becomes(r, p) /\ store' = store
  BY DEF RequestStep, Sent, Found, Created, Touches, Drops, Saved, Closes, Keeps, Hands
<1>2. (~Handling(r) /\ req[r].at # "unsent") \/ ~req[r].wrote
  BY DEF PlacesOK, PlaceOK, Placed, Handling
<1>3. req[r].wrote => p.wrote
  BY <1>2 DEF RequestStep, Sent, Found, Created, Touches, Drops, Saved, Closes, Keeps, Hands, Leaves, Handling, AgreeToo
<1> QED
  BY <1>1, <1>3, BecomesFacts

(* A new id is that of no request. *)
LEMMA CreatedIsNew ==
  ASSUME TypeInv, made + 1 \in Ids, NEW o \in Requests
  PROVE  req[o].sid # made + 1 /\ req[o].asked # made + 1
<1>1. made + 1 # None /\ made + 1 \notin 1..made
  BY IdsFacts
<1> QED
  BY <1>1 DEF TypeInv

(* Who ends a put or has passed a check had done so before. *)
LEMMA LeavesDid ==
  ASSUME PlacesOK, NEW r \in Requests, NEW p \in Request, NEW d \in Data, Leaves(r, p, d)
  PROVE  /\ p.kind = "put" /\ p.did = 1 => req[r].kind = "put" /\ req[r].did = 1
         /\ p.kind = "callback" /\ p.did > 0 => req[r].did > 0
         /\ req[r].kind = "authorize" => req[r].did = 0
BY DEF PlacesOK, PlaceOK, Placed, Leaves, Handling

LEMMA CrossedKept ==
  ASSUME TypeInv, PlacesOK, NEW r \in Requests, NEW p \in Request, RequestStep(r, p),
         NEW o \in Requests
  PROVE  /\ \A q \in Requests : o \in crossed[q] => o \in crossed'[q]
         /\ Crossed(o) => Crossed(o)'
<1>1. \A q \in Requests : req[q].wrote => req'[q].wrote
  BY StepFacts
<1>2. ASSUME NEW q \in Requests, o \in crossed[q] PROVE o \in crossed'[q]
  <2>1. crossed' = crossed \/ \E d : Write(r, p, d)
    BY DEF RequestStep, Sent, Found, Created, Touches, Drops, Saved, Closes, Keeps, Hands
  <2> QED
    BY <1>2, <2>1 DEF Write
<1> QED
  BY <1>1, <1>2 DEF Crossed

(* A write of r reaches every request that works with the session.         *)
Writes(r, p, d) ==
  /\ AtWork(r) /\ p.wrote /\ p.at \in {"answering", "failing"} /\ p.sid = req[r].sid
  /\ Write(r, p, d)

LEMMA WritesForm ==
  ASSUME NEW r \in Requests, NEW p \in Request, NEW d,
         (Saved(r, p) /\ d = heap[r]) \/ Keeps(r, p, d)
  PROVE  Writes(r, p, d)
BY DEF Saved, Keeps, Leaves, Writes, AtWork, Agree

-----------------------------------------------------------------------------
(* WritesMeet, with the copies that are still to be written.               *)

HasPut(r) == req[r].kind = "put" /\ req[r].did = 1

SharedKeeps == store = "memory" => \A r \in Requests : HasPut(r) => r \in heap[req[r].sid].items

CopyKeeps(r) ==
  /\ HasPut(r) /\ AtWork(r) => r \in heap[r].items
  /\ HasPut(r) /\ req[r].wrote =>
       \/ Crossed(r)
       \/ /\ r \in heap[req[r].sid].items
          /\ \A q \in Requests :
               AtWork(q) /\ req[q].sid = req[r].sid => r \in heap[q].items \/ r \in crossed[q]

CopiesKeep == store = "redis" => \A r \in Requests : CopyKeeps(r)

LEMMA SharedStep ==
  ASSUME TypeInv, PlacesOK, SharedKeeps, NEW r \in Requests, NEW p \in Request, RequestStep(r, p)
  PROVE  SharedKeeps'
<1>1. req'[r] = p /\ (\A o \in Requests : o # r => req'[o] = req[o]) /\ store' = store
  BY StepFacts
<1> SUFFICES ASSUME store = "memory", NEW o \in Requests, HasPut(o)' PROVE o \in heap'[req'[o].sid].items
  BY <1>1 DEF SharedKeeps
<1>2. Placed(req[r])
  BY DEF PlacesOK, PlaceOK
<1>3. HasPut(o) => o \in heap[req[o].sid].items
  BY DEF SharedKeeps
<1>4. CASE Sent(r, p) \/ Found(r, p)
  <2>1. p.did = 0 /\ o # r
    BY <1>1, <1>2, <1>4 DEF Sent, Found, AgreeToo, Placed, HasPut
  <2>2. heap' = heap
    <3>1. Found(r, p) => req[r].asked \in Ids
      BY IdsFacts DEF Found, TypeInv
    <3> QED
      BY <1>4, <3>1 DEF Sent, Found, Cell, TypeInv
  <2> QED
    BY <1>1, <1>3, <2>1, <2>2 DEF HasPut
<1>5. CASE Created(r, p)
  <2>1. p.did = 0 /\ o # r
    BY <1>1, <1>2, <1>5 DEF Created, Placed, HasPut
  <2>2. HasPut(o) /\ req[o].sid \in Ids /\ req[o].sid # made + 1
    BY <1>1, <1>5, <2>1, CreatedIsNew DEF Created, HasPut, PlacesOK, PlaceOK, Placed
  <2>3. heap'[req[o].sid] = heap[req[o].sid]
    BY <1>5, <2>2 DEF Created, Cell, TypeInv
  <2> QED
    BY <1>1, <1>3, <2>1, <2>2, <2>3
<1>6. CASE Drops(r, p)
  BY <1>1, <1>3, <1>6 DEF Drops, Agree, AgreeToo, HasPut
<1>7. CASE Touches(r, p)
  <2>1. /\ p.sid = req[r].sid /\ p.sid \in Ids /\ Session(r) = heap[p.sid] /\ Session(r) \in Data
        /\ Cell(r, p.sid) = p.sid
    BY <1>7, SessionType DEF Touches, Agree, AtWork, Handling, Session, Cell
  <2>2. /\ \A id \in Ids : heap[id].items \subseteq heap'[id].items
        /\ p.kind = "put" => r \in heap'[p.sid].items
    <3>1. heap'[p.sid].items = IF p.kind = "put" THEN heap[p.sid].items \cup {r} ELSE heap[p.sid].items
      <4> heap[p.sid] \in Data /\ heap \in [Ids \cup Requests -> Data]
        BY <2>1 DEF TypeInv
      <4>1. CASE p.kind = "put"
        <5>1. heap' = [heap EXCEPT ![p.sid] = [heap[p.sid] EXCEPT !.items = @ \cup {r}]]
          BY <1>7, <2>1, <4>1 DEF Touches
        <5> QED
          BY <2>1, <4>1, <5>1 DEF Data
      <4>2. CASE p.kind # "put"
        <5>1. heap' = [heap EXCEPT ![p.sid] = Consumed(heap[p.sid])]
          BY <1>7, <2>1, <4>2 DEF Touches
        <5> QED
          BY <2>1, <4>2, <5>1 DEF Consumed, Data
      <4> QED
        BY <4>1, <4>2
    <3>2. \A id \in Ids : id # p.sid => heap'[id] = heap[id]
      BY <1>7, <2>1 DEF Touches, TypeInv
    <3> QED
      BY <2>1, <3>1, <3>2
  <2>3. CASE o = r
    BY <1>1, <2>2, <2>3 DEF HasPut
  <2>4. CASE o # r
    <3>1. HasPut(o) /\ req[o].sid \in Ids
      BY <1>1, <2>4 DEF HasPut, PlacesOK, PlaceOK, Placed
    <3> QED
      BY <1>1, <1>3, <2>2, <2>4, <3>1
  <2> QED
    BY <2>3, <2>4
<1>8. ASSUME NEW d \in Data, Closes(r, p, d) PROVE o \in heap'[req'[o].sid].items
  <2>1. HasPut(o) /\ req'[o].sid = req[o].sid
    BY <1>1, <1>8, LeavesDid DEF Closes, Leaves, HasPut
  <2> QED
    BY <1>3, <1>8, <2>1 DEF Closes
<1>9. ASSUME NEW d \in Data, Keeps(r, p, d) PROVE o \in heap'[req'[o].sid].items
  <2>1. HasPut(o) /\ req'[o].sid = req[o].sid /\ req[o].sid \in Ids
    BY <1>1, <1>9, LeavesDid DEF Keeps, Leaves, HasPut, PlacesOK, PlaceOK, Placed
  <2>2. heap' = [heap EXCEPT ![p.sid] = d] /\ d.items = heap[p.sid].items
    BY <1>9 DEF Keeps, Write, Leaves, Session, Cell
  <2> QED
    BY <1>3, <2>1, <2>2 DEF TypeInv
<1>10. ~Saved(r, p) /\ \A d \in Data : ~Hands(r, p, d)
  BY <1>2 DEF Saved, Hands, Placed
<1> QED
  BY <1>4, <1>5, <1>6, <1>7, <1>8, <1>9, <1>10 DEF RequestStep

(* Over Redis only a save changes the text of a session, and a request     *)
(* changes no copy but its own.                                            *)
LEMMA RedisHeap ==
  ASSUME TypeInv, PlacesOK, store = "redis", NEW r \in Requests, NEW p \in Request, RequestStep(r, p)
  PROVE  /\ \A o \in Requests : o # r => heap'[o] = heap[o]
         /\ \A id \in Ids : heap'[id] = heap[id] \/ (Saved(r, p) /\ p.sid = id /\ heap'[id] = heap[r])
<1>1. heap \in [Ids \cup Requests -> Data] /\ Requests \cap Ids = {} /\ \A id : Cell(r, id) = r
  BY IdsFacts DEF TypeInv, Cell
<1>2. CASE Saved(r, p)
  <2>1. p.sid \in Ids
    BY <1>2 DEF Saved, Agree, PlacesOK, PlaceOK, Placed
  <2> QED
    BY <1>1, <1>2, <2>1 DEF Saved, Write
<1>3. CASE ~Saved(r, p)
  <2>1. heap' = heap \/ \E d : heap' = [heap EXCEPT ![r] = d]
    BY <1>1, <1>3 DEF RequestStep, Sent, Found, Created, Touches, Drops, Closes, Keeps, Hands
  <2> QED
    BY <1>1, <2>1
<1> QED
  BY <1>2, <1>3

(* A request that works on keeps the attributes of its copy.               *)
LEMMA RedisCopy ==
  ASSUME TypeInv, PlacesOK, store = "redis", NEW r \in Requests, NEW p \in Request, RequestStep(r, p),
         AtWork(r)'
  PROVE  \/ AtWork(r) /\ p.sid = req[r].sid /\ heap[r].items \subseteq heap'[r].items
         \/ Found(r, p) /\ heap'[r] = heap[p.sid]
         \/ Created(r, p)
<1>1. heap \in [Ids \cup Requests -> Data] /\ \A id : Cell(r, id) = r
  BY DEF TypeInv, Cell
<1>2. p.at \in {"handling", "touched", "exchange", "storing"}
  BY StepFacts DEF AtWork, Handling
<1>3. CASE Found(r, p)
  BY <1>1, <1>3 DEF Found
<1>4. CASE Touches(r, p)
  <2>1. Session(r) = heap[r] /\ heap[r] \in Data /\ AtWork(r) /\ p.sid = req[r].sid
    BY <1>1, <1>4 DEF Touches, Session, AtWork, Handling, Agree
  <2>2. \/ heap' = [heap EXCEPT ![r] = [heap[r] EXCEPT !.items = @ \cup {r}]]
        \/ heap' = [heap EXCEPT ![r] = Consumed(heap[r])]
    BY <1>1, <1>4, <2>1 DEF Touches
  <2>3. heap[r].items \subseteq heap'[r].items
    BY <1>1, <2>1, <2>2 DEF Consumed, Data
  <2> QED
    BY <2>1, <2>3
<1>5. ASSUME NEW d \in Data, Hands(r, p, d)
      PROVE  AtWork(r) /\ p.sid = req[r].sid /\ heap[r].items \subseteq heap'[r].items
  <2>1. d.items = heap[r].items /\ p.sid = req[r].sid /\ AtWork(r) /\ heap' = [heap EXCEPT ![r] = d]
    BY <1>1, <1>5 DEF Hands, Leaves, Session, AtWork
  <2> QED
    BY <1>1, <2>1
<1>6. ~Sent(r, p) /\ ~Drops(r, p) /\ ~Saved(r, p) /\ \A d \in Data : ~Closes(r, p, d) /\ ~Keeps(r, p, d)
  BY <1>2 DEF Sent, Drops, Saved, Closes, Keeps
<1> QED
  BY <1>3, <1>4, <1>5, <1>6 DEF RequestStep

LEMMA CopiesStep ==
  ASSUME TypeInv, PlacesOK, CopiesKeep, NEW r \in Requests, NEW p \in Request, RequestStep(r, p)
  PROVE  CopiesKeep'
<1>1. req'[r] = p /\ (\A o \in Requests : o # r => req'[o] = req[o]) /\ store' = store
  BY StepFacts
<1> SUFFICES ASSUME store = "redis", NEW o \in Requests PROVE CopyKeeps(o)'
  BY <1>1 DEF CopiesKeep
<1>2. Placed(req[r])
  BY DEF PlacesOK, PlaceOK
<1>3. CopyKeeps(o)
  BY DEF CopiesKeep
<1>4. HasPut(r)' /\ (AtWork(r)' \/ p.wrote) => HasPut(r) \/ Touches(r, p)
  <2>1. Found(r, p) \/ Created(r, p) \/ Sent(r, p) => p.did = 0
    BY <1>2 DEF Found, Created, Sent, AgreeToo, Placed
  <2>2. \A d \in Data : Closes(r, p, d) \/ Keeps(r, p, d) \/ Hands(r, p, d)
          => (p.kind = "put" /\ p.did = 1 => HasPut(r))
    BY LeavesDid DEF Closes, Keeps, Hands, HasPut
  <2>3. Drops(r, p) \/ Saved(r, p) => p.kind = req[r].kind /\ p.did = req[r].did
    BY DEF Drops, Saved, Agree, AgreeToo
  <2> QED
    BY <1>1, <2>1, <2>2, <2>3 DEF RequestStep, HasPut
<1>5. ASSUME HasPut(o)', AtWork(o)' PROVE o \in heap'[o].items
  <2>1. CASE o # r
    BY <1>1, <1>3, <1>5, <2>1, RedisHeap DEF CopyKeeps, HasPut, AtWork, Handling
  <2>2. CASE o = r
    <3>1. CASE Touches(r, p)
      <4>1. p.at = "touched" /\ heap' = [heap EXCEPT ![r] = [heap[r] EXCEPT !.items = @ \cup {r}]]
        BY <1>1, <1>5, <2>2, <3>1 DEF Touches, HasPut, Cell, Session
      <4>2. heap \in [Ids \cup Requests -> Data]
        BY DEF TypeInv
      <4> QED
        BY <2>2, <4>1, <4>2 DEF Data
    <3>2. CASE ~Touches(r, p)
      <4>1. HasPut(r) /\ req[r].did = 1
        BY <1>4, <1>5, <2>2, <3>2 DEF HasPut
      <4>2. ~Found(r, p) /\ ~Created(r, p)
        BY <1>2, <4>1 DEF Found, Created, Placed
      <4>3. AtWork(r) /\ heap[r].items \subseteq heap'[r].items
        BY <1>5, <2>2, <4>2, RedisCopy
      <4> QED
        BY <1>3, <2>2, <4>1, <4>3 DEF CopyKeeps
    <3> QED
      BY <3>1, <3>2
  <2> QED
    BY <2>1, <2>2
<1>6. ASSUME HasPut(o)', req'[o].wrote
      PROVE  \/ Crossed(o)'
             \/ /\ o \in heap'[req'[o].sid].items
                /\ \A q \in Requests :
                     AtWork(q)' /\ req'[q].sid = req'[o].sid => o \in heap'[q].items \/ o \in crossed'[q]
  <2>1. CASE o = r /\ Saved(r, p)
    <3>1. HasPut(r) /\ AtWork(r) /\ r \in heap[r].items
      BY <1>3, <1>4, <1>6, <2>1 DEF Saved, Touches, AtWork, CopyKeeps
    <3>2. p.sid \in Ids /\ p.sid = req[r].sid /\ heap' = [heap EXCEPT ![p.sid] = heap[r]]
      BY <2>1 DEF Saved, Agree, Write, PlacesOK, PlaceOK, Placed
    <3>3. o \in heap'[req'[o].sid].items
      BY <1>1, <2>1, <3>1, <3>2 DEF TypeInv
    <3>4. ASSUME NEW q \in Requests, AtWork(q)', req'[q].sid = req'[o].sid PROVE o \in crossed'[q]
      <4>1. q # r
        BY <1>1, <2>1, <3>4 DEF AtWork, Handling, Saved
      <4>2. AtWork(q) /\ req[q].sid = p.sid
        BY <1>1, <2>1, <3>4, <4>1 DEF AtWork, Handling
      <4> QED
        BY <2>1, <4>1, <4>2 DEF Saved, Write, AtWork
    <3> QED
      BY <3>3, <3>4
  <2>2. CASE ~(o = r /\ Saved(r, p))
    <3>1. HasPut(o) /\ req[o].wrote /\ req'[o].sid = req[o].sid /\ req[o].sid \in Ids
      <4>1. CASE o # r
        BY <1>1, <1>6, <4>1 DEF HasPut, PlacesOK, PlaceOK, Placed
      <4>2. CASE o = r
        <5>1. ~Handling(r) \/ ~req[r].wrote
          BY <1>2 DEF Placed, Handling
        <5>2. Drops(r, p)
          BY <1>1, <1>2, <1>6, <2>2, <4>2
             DEF RequestStep, Sent, Found, Created, Touches, Closes, Keeps, Hands, Placed, AgreeToo
        <5> QED
          BY <1>1, <1>2, <1>6, <4>2, <5>2 DEF Drops, Agree, AgreeToo, HasPut, Placed
      <4> QED
        BY <4>1, <4>2
    <3>2. CASE Crossed(o)
      BY <3>2, CrossedKept
    <3>3. CASE /\ o \in heap[req[o].sid].items
               /\ \A q \in Requests :
                    AtWork(q) /\ req[q].sid = req[o].sid => o \in heap[q].items \/ o \in crossed[q]
      <4>1. ASSUME NEW q \in Requests, AtWork(q)', req'[q].sid = req'[o].sid
            PROVE  o \in heap'[q].items \/ o \in crossed'[q]
        <5>1. CASE q # r
          BY <1>1, <3>1, <3>3, <4>1, <5>1, RedisHeap, CrossedKept DEF AtWork, Handling
        <5>2. CASE q = r
          <6>1. ~Created(r, p)
            BY <1>1, <3>1, <4>1, <5>2, CreatedIsNew DEF Created
          <6>2. CASE Found(r, p) /\ heap'[r] = heap[p.sid]
            BY <1>1, <3>1, <3>3, <4>1, <5>2, <6>2
          <6>3. CASE AtWork(r) /\ p.sid = req[r].sid /\ heap[r].items \subseteq heap'[r].items
            BY <1>1, <3>1, <3>3, <4>1, <5>2, <6>3, CrossedKept
          <6> QED
            BY <4>1, <5>2, <6>1, <6>2, <6>3, RedisCopy
        <5> QED
          BY <5>1, <5>2
      <4>2. o \in heap'[req'[o].sid].items \/ Crossed(o)'
        <5>1. CASE heap'[req[o].sid] = heap[req[o].sid]
          BY <3>1, <3>3, <5>1
        <5>2. CASE Saved(r, p) /\ p.sid = req[o].sid /\ heap'[req[o].sid] = heap[r]
          <6>1. AtWork(r) /\ req[r].sid = req[o].sid /\ p.wrote
            BY <5>2 DEF Saved, AtWork, Agree
          <6>2. CASE o \in heap[r].items
            BY <3>1, <5>2, <6>2
          <6>3. CASE o \in crossed[r]
            BY <1>1, <6>1, <6>3, CrossedKept DEF Crossed
          <6> QED
            BY <3>3, <6>1, <6>2, <6>3
        <5> QED
          BY <3>1, <5>1, <5>2, RedisHeap
      <4> QED
        BY <4>1, <4>2
    <3> QED
      BY <1>3, <3>1, <3>2, <3>3 DEF CopyKeeps
  <2> QED
    BY <2>1, <2>2
<1> QED
  BY <1>5, <1>6 DEF CopyKeeps

-----------------------------------------------------------------------------
(* DeletedIsGone, with the requests that could bring a session back.       *)

GoneInv ==
  \A r \in Requests :
    req[r].wrote /\ req[r].invalidated =>
      \/ Crossed(r)
      \/ /\ req[r].sid \notin live
         /\ \A q \in Requests : AtWork(q) /\ req[q].sid = req[r].sid => r \in crossed[q]

(* A request that works with a session did so before, or loads it.         *)
LEMMA WorkForm ==
  ASSUME TypeInv, PlacesOK, NEW r \in Requests, NEW p \in Request, RequestStep(r, p), AtWork(r)'
  PROVE  (AtWork(r) /\ p.sid = req[r].sid) \/ Found(r, p) \/ Created(r, p)
<1>1. p.at \in {"handling", "touched", "exchange", "storing"}
  BY StepFacts DEF AtWork, Handling
<1>2. Touches(r, p) => AtWork(r) /\ p.sid = req[r].sid
  BY DEF Touches, AtWork, Handling, Agree
<1>3. \A d \in Data : Hands(r, p, d) => AtWork(r) /\ p.sid = req[r].sid
  BY DEF Hands, Leaves, AtWork
<1>4. ~Sent(r, p) /\ ~Drops(r, p) /\ ~Saved(r, p) /\ \A d \in Data : ~Closes(r, p, d) /\ ~Keeps(r, p, d)
  BY <1>1 DEF Sent, Drops, Saved, Closes, Keeps
<1> QED
  BY <1>2, <1>3, <1>4 DEF RequestStep

(* Only a write touches what is live, and a request that has written and   *)
(* does not write now stays what it was.                                   *)
LEMMA WriteOrNot ==
  ASSUME TypeInv, PlacesOK, NEW r \in Requests, NEW p \in Request, RequestStep(r, p)
  PROVE  \/ \E d : Writes(r, p, d)
         \/ /\ live' = live /\ crossed' = crossed /\ mine' = mine
            /\ p.wrote => /\ req[r].wrote /\ p.invalidated = req[r].invalidated
                          /\ p.sid = req[r].sid /\ ~AtWork(r) /\ ~AtWork(r)'
<1>1. Placed(req[r])
  BY DEF PlacesOK, PlaceOK
<1>2. CASE Saved(r, p) \/ \E d \in Data : Keeps(r, p, d)
  BY <1>2, WritesForm
<1>3. CASE ~Saved(r, p) /\ \A d \in Data : ~Keeps(r, p, d)
  <2>1. live' = live /\ crossed' = crossed /\ mine' = mine
    BY <1>3 DEF RequestStep, Sent, Found, Created, Touches, Drops, Closes, Hands
  <2>2. CASE Drops(r, p)
    <3>1. p.wrote => req[r].wrote /\ ~AtWork(r)
      BY <1>1, <2>2 DEF Drops, AgreeToo, Placed, AtWork, Handling
    <3>2. ~AtWork(r)'
      BY <2>2, StepFacts DEF Drops, AtWork, Handling
    <3> QED
      BY <2>1, <2>2, <3>1, <3>2 DEF Drops, Agree, AgreeToo
  <2>3. CASE ~Drops(r, p)
    <3>1. ~p.wrote
      BY <1>1, <1>3, <2>3 DEF RequestStep, Sent, Found, Created, Touches, Closes, Hands, AgreeToo, Placed
    <3> QED
      BY <2>1, <3>1
  <2> QED
    BY <2>2, <2>3
<1> QED
  BY <1>2, <1>3

LEMMA GoneStep ==
  ASSUME TypeInv, PlacesOK, GoneInv, NEW r \in Requests, NEW p \in Request, RequestStep(r, p)
  PROVE  GoneInv'
<1>1. req'[r] = p /\ (\A o \in Requests : o # r => req'[o] = req[o])
  BY StepFacts
<1> SUFFICES ASSUME NEW o \in Requests, req'[o].wrote, req'[o].invalidated
             PROVE  \/ Crossed(o)'
                    \/ /\ req'[o].sid \notin live'
                       /\ \A q \in Requests : AtWork(q)' /\ req'[q].sid = req'[o].sid => o \in crossed'[q]
  BY DEF GoneInv
<1>2. CASE o = r /\ \E d : Writes(r, p, d)
  <2>1. ~AtWork(r)'
    BY <1>1, <1>2 DEF Writes, AtWork, Handling
  <2>2. p.sid \notin live'
    BY <1>1, <1>2 DEF Writes, Write
  <2>3. ASSUME NEW q \in Requests, AtWork(q)', req'[q].sid = p.sid PROVE r \in crossed'[q]
    BY <1>1, <1>2, <2>1, <2>3 DEF Writes, Write, AtWork, Handling
  <2> QED
    BY <1>1, <1>2, <2>2, <2>3
<1>3. CASE ~(o = r /\ \E d : Writes(r, p, d))
  <2>1. req[o].wrote /\ req[o].invalidated /\ req'[o].sid = req[o].sid
    BY <1>1, <1>3, WriteOrNot
  <2>2. CASE Crossed(o)
    BY <2>2, CrossedKept
  <2>3. CASE /\ req[o].sid \notin live
             /\ \A q \in Requests : AtWork(q) /\ req[q].sid = req[o].sid => o \in crossed[q]
    <3>1. ASSUME NEW q \in Requests, AtWork(q)', req'[q].sid = req'[o].sid PROVE o \in crossed'[q]
      <4>1. CASE q # r
        BY <1>1, <2>1, <2>3, <3>1, <4>1, CrossedKept DEF AtWork, Handling
      <4>2. CASE q = r
        <5>1. ~Created(r, p)
          BY <1>1, <2>1, <3>1, <4>2, CreatedIsNew DEF Created
        <5>2. ~Found(r, p)
          BY <1>1, <2>1, <2>3, <3>1, <4>2 DEF Found
        <5> QED
          BY <1>1, <2>1, <2>3, <3>1, <4>2, <5>1, <5>2, WorkForm, CrossedKept
      <4> QED
        BY <4>1, <4>2
    <3>2. req'[o].sid \notin live' \/ Crossed(o)'
      <4>1. CASE live' = live
        BY <2>1, <2>3, <4>1
      <4>2. CASE \E d : Writes(r, p, d)
        <5>1. CASE p.sid = req[o].sid
          <6>1. o \in crossed'[r] /\ p.wrote
            BY <2>3, <4>2, <5>1, CrossedKept DEF Writes
          <6> QED
            BY <1>1, <6>1 DEF Crossed
        <5>2. CASE p.sid # req[o].sid
          BY <2>1, <2>3, <4>2, <5>2 DEF Writes, Write
        <5> QED
          BY <5>1, <5>2
      <4> QED
        BY <4>1, <4>2, WriteOrNot
    <3> QED
      BY <3>1, <3>2
  <2> QED
    BY <2>1, <2>2, <2>3 DEF GoneInv
<1> QED
  BY <1>2, <1>3

-----------------------------------------------------------------------------
(* StateIsUsedOnce: a state that is in a session in memory was drawn for   *)
(* it, and no callback has passed with it.                                 *)

StateOK(id) ==
  heap[id].state # None =>
    \E c \in Requests :
      /\ c = heap[id].state
      /\ req[c].kind = "authorize" /\ req[c].did = 1 /\ req[c].sid = id
      /\ \A r \in Requests : Passed(r) => req[r].code # c

UsedInv == store = "memory" => (\A id \in Ids : StateOK(id)) /\ StateIsUsedOnce

(* Who has passed goes on so, and so does who has drawn a state.           *)
LEMMA PassedForm ==
  ASSUME TypeInv, PlacesOK, NEW r \in Requests, NEW p \in Request, RequestStep(r, p)
  PROVE  /\ Passed(r)' => p.code = req[r].code /\ (Passed(r) \/ (Touches(r, p) /\ p.at = "exchange"))
         /\ req[r].kind = "authorize" /\ req[r].did = 1 =>
              p.kind = "authorize" /\ p.did = 1 /\ p.sid = req[r].sid
<1>1. Placed(req[r]) /\ req'[r] = p
  BY StepFacts DEF PlacesOK, PlaceOK
<1>2. CASE Sent(r, p)
  BY <1>1, <1>2 DEF Sent, Placed, Passed
<1>3. CASE Found(r, p) \/ Created(r, p)
  BY <1>1, <1>3 DEF Found, Created, Placed, AgreeToo, Passed
<1>4. CASE Drops(r, p) \/ Saved(r, p)
  BY <1>1, <1>4 DEF Drops, Saved, Agree, AgreeToo, Passed
<1>5. CASE Touches(r, p)
  BY <1>1, <1>5 DEF Touches, Agree, Placed, Passed
<1>6. ASSUME NEW d \in Data, Closes(r, p, d) \/ Keeps(r, p, d) \/ Hands(r, p, d)
      PROVE  /\ Passed(r)' => p.code = req[r].code /\ Passed(r)
             /\ ~(req[r].kind = "authorize" /\ req[r].did = 1)
  <2>1. Leaves(r, p, d)
    BY <1>6 DEF Closes, Keeps, Hands
  <2> QED
    BY <1>1, <2>1, LeavesDid DEF Leaves, Passed
<1> QED
  BY <1>2, <1>3, <1>4, <1>5, <1>6 DEF RequestStep

(* What a step does to the state in a session in memory.                   *)
LEMMA StateForm ==
  ASSUME TypeInv, PlacesOK, store = "memory", NEW r \in Requests, NEW p \in Request, RequestStep(r, p),
         NEW id \in Ids
  PROVE  \/ heap'[id].state = heap[id].state /\ ~(Touches(r, p) /\ p.at = "exchange" /\ p.sid = id)
         \/ heap'[id].state = None
         \/ heap'[id].state = r /\ id = p.sid /\ Handling(r) /\ p.kind = "authorize" /\ p.did = 1
<1> heap \in [Ids \cup Requests -> Data] /\ \A x : Cell(r, x) = x
  BY DEF TypeInv, Cell
<1>1. CASE Sent(r, p) \/ Found(r, p) \/ Drops(r, p) \/ \E d \in Data : Closes(r, p, d)
  <2>1. Found(r, p) => req[r].asked \in Ids
    BY IdsFacts DEF Found, TypeInv
  <2>2. heap' = heap
    BY <1>1, <2>1 DEF Sent, Found, Drops, Closes
  <2> QED
    BY <1>1, <2>2 DEF Touches, Sent, Found, Drops, Closes, Leaves
<1>2. CASE Created(r, p)
  <2>1. heap'[id] = heap[id] \/ heap'[id] = Empty
    BY <1>2 DEF Created
  <2> QED
    BY <1>2, <2>1 DEF Created, Touches, Empty
<1>3. CASE Touches(r, p)
  <2>1. p.sid \in Ids /\ Session(r) = heap[p.sid] /\ heap[p.sid] \in Data
    BY <1>3, SessionType DEF Touches, Session, Agree, AtWork, Handling
  <2>2. CASE p.at = "touched"
    <3>1. heap' = [heap EXCEPT ![p.sid] = [heap[p.sid] EXCEPT !.items = @ \cup {r}]]
      BY <1>3, <2>1, <2>2 DEF Touches
    <3> QED
      BY <2>1, <2>2, <3>1 DEF Data
  <2>3. CASE p.at = "exchange"
    <3>1. heap' = [heap EXCEPT ![p.sid] = Consumed(heap[p.sid])]
      BY <1>3, <2>1, <2>3 DEF Touches
    <3> QED
      BY <2>1, <2>3, <3>1 DEF Consumed, Data
  <2> QED
    BY <1>3, <2>2, <2>3 DEF Touches
<1>4. ASSUME NEW d \in Data, Keeps(r, p, d)
      PROVE  \/ heap'[id].state = heap[id].state /\ ~(Touches(r, p) /\ p.at = "exchange" /\ p.sid = id)
             \/ heap'[id].state = r /\ id = p.sid /\ Handling(r) /\ p.kind = "authorize" /\ p.did = 1
  <2>1. heap' = [heap EXCEPT ![p.sid] = d] /\ ~Touches(r, p) /\ Handling(r)
    BY <1>4 DEF Keeps, Write, Touches, Leaves
  <2>2. d.state = heap[p.sid].state \/ (d.state = r /\ p.kind = "authorize" /\ p.did = 1)
    BY <1>4 DEF Keeps, Leaves, Session
  <2> QED
    BY <2>1, <2>2
<1>5. ~Saved(r, p) /\ \A d \in Data : ~Hands(r, p, d)
  BY DEF Saved, Hands, PlacesOK, PlaceOK, Placed
<1> QED
  BY <1>1, <1>2, <1>3, <1>4, <1>5 DEF RequestStep

LEMMA UsedStep ==
  ASSUME TypeInv, PlacesOK, UsedInv, NEW r \in Requests, NEW p \in Request, RequestStep(r, p)
  PROVE  UsedInv'
<1>1. req'[r] = p /\ (\A o \in Requests : o # r => req'[o] = req[o]) /\ store' = store
  BY StepFacts
<1> SUFFICES ASSUME store = "memory" PROVE (\A id \in Ids : StateOK(id)') /\ StateIsUsedOnce'
  BY <1>1 DEF UsedInv
<1>2. (\A id \in Ids : StateOK(id)) /\ StateIsUsedOnce
  BY DEF UsedInv
<1> DEFINE Checks == Touches(r, p) /\ p.at = "exchange"
<1>3. ASSUME Checks
      PROVE  /\ p.code \in Requests /\ p.sid \in Ids /\ heap[p.sid].state = p.code /\ req[p.code].sid = p.sid
             /\ \A q \in Requests : Passed(q) => req[q].code # p.code
  <2>1. p.sid = req[r].sid /\ p.sid \in Ids /\ heap[p.sid].state = p.code
    BY <1>3, SessionType DEF Touches, Session, Cell, Agree, AtWork, Handling
  <2>2. p.code \in Requests
    BY <1>3 DEF Touches, Agree, PlacesOK, PlaceOK
  <2>3. p.code # None /\ StateOK(p.sid)
    BY <1>2, <2>1, <2>2, IdsFacts
  <2> QED
    BY <2>1, <2>2, <2>3 DEF StateOK
<1>4. ASSUME NEW q \in Requests, Passed(q)'
      PROVE  req'[q].code = req[q].code /\ (Passed(q) \/ (q = r /\ Checks))
  BY <1>1, <1>4, PassedForm DEF Passed
<1>5. ASSUME NEW id \in Ids, heap'[id].state # None
      PROVE  \E c \in Requests :
               /\ c = heap'[id].state
               /\ req'[c].kind = "authorize" /\ req'[c].did = 1 /\ req'[c].sid = id
               /\ \A q \in Requests : Passed(q)' => req'[q].code # c
  <2>1. CASE heap'[id].state = heap[id].state /\ ~(Checks /\ p.sid = id)
    <3>1. PICK c \in Requests :
            /\ c = heap[id].state
            /\ req[c].kind = "authorize" /\ req[c].did = 1 /\ req[c].sid = id
            /\ \A q \in Requests : Passed(q) => req[q].code # c
      BY <1>2, <1>5, <2>1 DEF StateOK
    <3>2. req'[c].kind = "authorize" /\ req'[c].did = 1 /\ req'[c].sid = id
      BY <1>1, <3>1, PassedForm
    <3>3. ASSUME NEW q \in Requests, Passed(q)' PROVE req'[q].code # c
      <4>1. CASE Passed(q)
        BY <1>4, <3>1, <3>3, <4>1
      <4>2. CASE q = r /\ Checks
        BY <1>1, <1>3, <2>1, <3>1, <4>2
      <4> QED
        BY <1>4, <3>3, <4>1, <4>2
    <3> QED
      BY <2>1, <3>1, <3>2, <3>3
  <2>2. CASE heap'[id].state = r /\ id = p.sid /\ Handling(r) /\ p.kind = "authorize" /\ p.did = 1
    <3>1. ASSUME NEW q \in Requests, Passed(q)' PROVE req'[q].code # r
      <4>1. req'[q].code = req[q].code /\ req[q].kind = "callback"
        BY <1>4, <2>2, <3>1 DEF Passed, Touches, Agree
      <4>2. Redirected(req[q].code)
        BY <4>1 DEF PlacesOK, PlaceOK
      <4> QED
        BY <2>2, <4>1, <4>2 DEF Redirected, Handling
    <3> QED
      BY <1>1, <2>2, <3>1
  <2> QED
    BY <1>5, <2>1, <2>2, StateForm
<1>6. \A id \in Ids : StateOK(id)'
  BY <1>5 DEF StateOK
<1>7. ASSUME NEW o \in Requests, NEW q \in Requests, Passed(o)', Passed(q)', req'[o].code = req'[q].code
      PROVE  o = q
  <2>1. CASE Passed(o) /\ Passed(q)
    BY <1>2, <1>4, <1>7, <2>1 DEF StateIsUsedOnce
  <2>2. CASE o # q /\ ~(Passed(o) /\ Passed(q))
    <3>1. Checks /\ (o = r \/ q = r) /\ (Passed(o) \/ Passed(q))
      BY <1>4, <1>7, <2>2
    <3> QED
      BY <1>1, <1>3, <1>4, <1>7, <2>2, <3>1
  <2> QED
    BY <2>1, <2>2
<1> QED
  BY <1>6, <1>7 DEF StateIsUsedOnce

-----------------------------------------------------------------------------
(* SeesWhatWasLeft: while requests come one at a time the next of them     *)
(* will find what the user left.                                           *)

Rest == IF jar \in live THEN heap[jar] = mine ELSE mine = Empty

CalmAt(r) ==
  /\ req[r].at = "loading" => Rest /\ req[r].asked = jar
  /\ AtWork(r) => /\ req[r].invalidated \/ Session(r) = Left(r, req[r])
                  /\ IF req[r].new THEN jar \notin live /\ jar # req[r].sid /\ mine = Empty
                     ELSE jar = req[r].sid /\ jar \in live
                  /\ store = "redis" => Rest
  /\ req[r].at = "failing" => Rest
  /\ req[r].at = "answering" =>
       IF req[r].invalidated THEN mine = Empty
       ELSE IF req[r].new THEN req[r].sid \in live /\ heap[req[r].sid] = mine
       ELSE Rest

CalmInv ==
  calm => /\ \A r, q \in Requests : Underway(r) /\ Underway(q) => r = q
          /\ Quiet => Rest
          /\ \A r \in Requests : CalmAt(r)

LEMMA CalmRest ==
  ASSUME NEW r \in Requests, ~Underway(r) PROVE CalmAt(r)
BY DEF Underway, CalmAt, AtWork, Handling

(* Nobody is under way but r. *)
LEMMA CalmKept ==
  ASSUME TypeInv, PlacesOK, CalmInv, NEW r \in Requests, NEW p \in Request, RequestStep(r, p),
         calm /\ CalmAt(r) /\ (req[r].at = "unsent" => Rest) =>
           CalmAt(r)' /\ (p.at = "ended" => Rest')
  PROVE  CalmInv'
<1>1. req'[r] = p /\ (\A o \in Requests : o # r => req'[o] = req[o])
  BY StepFacts
<1> SUFFICES ASSUME calm' PROVE CalmInv'
  BY DEF CalmInv
<1>2. calm /\ (Sent(r, p) => Quiet)
  BY DEF RequestStep, Sent, Found, Created, Touches, Drops, Saved, Closes, Keeps, Hands, Quiet
<1>3. ~Sent(r, p) => Underway(r)
  BY DEF RequestStep, Found, Created, Touches, Drops, Saved, Closes, Keeps, Hands, Leaves, Handling, Underway
<1>4. ASSUME NEW o \in Requests, o # r PROVE ~Underway(o) /\ ~Underway(o)'
  <2>1. ~Underway(o)
    BY <1>2, <1>3, <1>4 DEF CalmInv, Quiet
  <2> QED
    BY <1>1, <1>4, <2>1 DEF Underway
<1>5. CalmAt(r) /\ (req[r].at = "unsent" => Rest)
  <2>1. req[r].at = "unsent" => Quiet
    BY <1>4 DEF Quiet, Underway
  <2> QED
    BY <1>2, <2>1 DEF CalmInv
<1>6. CalmAt(r)' /\ (p.at = "ended" => Rest')
  BY <1>2, <1>5
<1>7. p.at # "unsent"
  <2>1. ASSUME NEW d \in Data, Closes(r, p, d) \/ Keeps(r, p, d) \/ Hands(r, p, d) PROVE p.at # "unsent"
    BY <2>1 DEF Closes, Keeps, Hands
  <2> QED
    BY <2>1 DEF RequestStep, Sent, Found, Created, Touches, Drops, Saved
<1>8. \A o \in Requests : CalmAt(o)'
  <2>1. ASSUME NEW o \in Requests, o # r PROVE CalmAt(o)'
    <3>1. ~Underway(o)'
      BY <1>4, <2>1
    <3> QED
      BY <3>1 DEF Underway, CalmAt, AtWork, Handling
  <2> QED
    BY <1>6, <2>1
<1>9. Quiet' => Rest'
  BY <1>1, <1>6, <1>7 DEF Quiet, Underway
<1> QED
  BY <1>4, <1>8, <1>9 DEF CalmInv

LEMMA CalmLoad ==
  ASSUME TypeInv, PlacesOK, NEW r \in Requests, NEW p \in Request,
         CalmAt(r), req[r].at = "unsent" => Rest, Sent(r, p) \/ Found(r, p) \/ Created(r, p)
  PROVE  CalmAt(r)' /\ p.at # "ended"
<1>1. Placed(req[r]) /\ req'[r] = p
  BY StepFacts DEF PlacesOK, PlaceOK, RequestStep
<1>2. heap \in [Ids \cup Requests -> Data] /\ 1..made \subseteq Ids /\ live \subseteq 1..made
      /\ Requests \cap Ids = {} /\ jar \in 1..made \cup {None} /\ made \in Nat /\ None \notin Ids
  BY IdsFacts DEF TypeInv
<1>3. CASE Sent(r, p)
  <2>1. Rest'
    BY <1>3 DEF Sent, Rest
  <2> QED
    BY <1>1, <1>3, <2>1 DEF Sent, CalmAt, AtWork, Handling
<1>4. CASE Found(r, p)
  <2>1. Rest /\ req[r].asked = jar /\ jar \in live /\ jar \in Ids /\ heap[jar] = mine
    BY <1>2, <1>4 DEF Found, CalmAt, Rest
  <2>2. heap' = [heap EXCEPT ![Cell(r, jar)] = heap[jar]] /\ Cell(r, jar) \in {r, jar}
    BY <1>4, <2>1 DEF Found, Cell
  <2>3. heap'[Cell(r, jar)] = mine /\ heap'[jar] = mine
    BY <1>2, <2>1, <2>2
  <2>4. p.at = "handling" /\ p.sid = jar /\ ~p.new /\ p.did = 0
    BY <1>1, <1>4, <2>1 DEF Found, AgreeToo, Placed
  <2>5. Rest' /\ jar' = jar /\ live' = live /\ mine' = mine /\ store' = store
    BY <1>4, <2>1, <2>3 DEF Found, Rest
  <2>6. Session(r)' = mine /\ Left(r, req[r])' = mine
    BY <1>1, <2>3, <2>4, <2>5 DEF Session, Left, Cell
  <2> QED
    BY <1>1, <2>1, <2>4, <2>5, <2>6 DEF CalmAt
<1>5. CASE Created(r, p)
  <2>1. jar \notin live /\ mine = Empty /\ jar # made + 1
    BY <1>2, <1>5 DEF Created, CalmAt, Rest
  <2>2. p.at = "handling" /\ p.sid = made + 1 /\ p.new /\ p.did = 0
    BY <1>1, <1>5 DEF Created, Placed
  <2>3. jar' = jar /\ live' = live /\ mine' = mine /\ store' = store
    BY <1>5 DEF Created
  <2>4. Rest'
    BY <2>1, <2>3 DEF Rest
  <2>5. Session(r)' = mine /\ Left(r, req[r])' = mine
    <3>1. heap'[Cell(r, made + 1)] = Empty
      BY <1>2, <1>5, CellFacts DEF Created
    <3> QED
      BY <1>1, <2>1, <2>2, <2>3, <3>1 DEF Session, Left, Cell
  <2> QED
    BY <1>1, <2>1, <2>2, <2>3, <2>4, <2>5 DEF CalmAt
<1> QED
  BY <1>3, <1>4, <1>5

LEMMA CalmDrops ==
  ASSUME TypeInv, PlacesOK, NEW r \in Requests, NEW p \in Request, CalmAt(r), Drops(r, p)
  PROVE  CalmAt(r)' /\ (p.at = "ended" => Rest')
<1>1. Placed(req[r]) /\ req'[r] = p
  BY StepFacts DEF PlacesOK, PlaceOK, RequestStep
<1>2. None \notin live
  BY IdsFacts DEF TypeInv
<1>3. CASE req[r].at \in {"loading", "storing"}
  <2>1. p.at = "failing" /\ Rest /\ jar' = jar
    BY <1>1, <1>3 DEF Drops, CalmAt, AtWork, Placed
  <2>2. Rest'
    BY <2>1 DEF Drops, Rest
  <2> QED
    BY <1>1, <2>1, <2>2 DEF CalmAt, AtWork, Handling
<1>4. CASE req[r].at \in {"answering", "failing"}
  <2>1. p.at = "ended" /\ p.invalidated = req[r].invalidated /\ p.new = req[r].new /\ p.sid = req[r].sid
        /\ live' = live /\ heap' = heap /\ mine' = mine
    BY <1>4 DEF Drops, Agree, AgreeToo
  <2>2. jar' = IF req[r].at = "failing" THEN jar
               ELSE IF p.invalidated THEN None ELSE IF p.new THEN p.sid ELSE jar
    BY <1>4 DEF Drops
  <2>3. Rest'
    <3>1. CASE req[r].at = "failing"
      BY <2>1, <2>2, <3>1 DEF CalmAt, Rest
    <3>2. CASE req[r].at = "answering" /\ p.invalidated
      BY <1>2, <2>1, <2>2, <3>2 DEF CalmAt, Rest
    <3>3. CASE req[r].at = "answering" /\ ~p.invalidated /\ p.new
      BY <2>1, <2>2, <3>3 DEF CalmAt, Rest
    <3>4. CASE req[r].at = "answering" /\ ~p.invalidated /\ ~p.new
      BY <2>1, <2>2, <3>4 DEF CalmAt, Rest
    <3> QED
      BY <1>4, <3>1, <3>2, <3>3, <3>4
  <2> QED
    BY <1>1, <2>1, <2>3 DEF CalmAt, AtWork, Handling
<1> QED
  BY <1>3, <1>4 DEF Drops

LEMMA CalmHandles ==
  ASSUME TypeInv, PlacesOK, NEW r \in Requests, NEW p \in Request, CalmAt(r),
         Touches(r, p) \/ \E d \in Data : Hands(r, p, d)
  PROVE  CalmAt(r)' /\ p.at # "ended"
<1>1. Placed(req[r]) /\ req'[r] = p
  BY StepFacts DEF PlacesOK, PlaceOK, RequestStep
<1>2. /\ heap \in [Ids \cup Requests -> Data] /\ mine \in Data /\ live \subseteq Ids
      /\ Requests \cap Ids = {}
  BY IdsFacts DEF TypeInv
<1>3. /\ Handling(r) /\ AtWork(r) /\ ~req[r].invalidated /\ p.sid = req[r].sid /\ p.new = req[r].new
      /\ Session(r) = Left(r, req[r])
      /\ IF req[r].new THEN jar \notin live /\ jar # req[r].sid /\ mine = Empty
         ELSE jar = req[r].sid /\ jar \in live
      /\ store = "redis" => Rest
      /\ store' = store /\ jar' = jar /\ live' = live /\ mine' = mine
  <2>1. /\ Handling(r) /\ p.sid = req[r].sid /\ p.new = req[r].new
        /\ store' = store /\ jar' = jar /\ live' = live /\ mine' = mine
    BY DEF Touches, Hands, Leaves, Handling, Agree
  <2>2. AtWork(r) /\ ~req[r].invalidated
    BY <1>1, <2>1 DEF AtWork, Placed, Handling
  <2> QED
    BY <2>1, <2>2 DEF CalmAt
<1>4. store = "redis" => Rest'
  <2>1. store = "redis" => \E d : heap' = [heap EXCEPT ![r] = d]
    BY DEF Touches, Hands, Cell
  <2>2. store = "redis" /\ jar \in live => heap'[jar] = heap[jar]
    BY <1>2, <2>1
  <2> QED
    BY <1>3, <2>2 DEF Rest
<1>5. CASE Touches(r, p)
  <2>1. req[r].at = "handling" /\ req[r].did = 0 /\ Session(r) = mine /\ p.did = 1
    BY <1>1, <1>3, <1>5 DEF Touches, Placed, Left
  <2>2. Cell(r, p.sid) \in Ids \cup Requests
    BY <1>3, SessionType
  <2>3. Session(r)' = heap'[Cell(r, p.sid)] /\ Left(r, req[r])' = Left(r, p)
    BY <1>1, <1>3 DEF Session, Cell, Left
  <2>4. heap'[Cell(r, p.sid)] = Left(r, p) /\ p.at \in {"touched", "exchange"}
    <3>1. CASE p.at = "touched"
      <4>1. heap'[Cell(r, p.sid)] = [mine EXCEPT !.items = @ \cup {r}] /\ p.kind = "put"
        BY <1>2, <1>5, <2>1, <2>2, <3>1 DEF Touches
      <4> QED
        BY <2>1, <3>1, <4>1 DEF Left
    <3>2. CASE p.at = "exchange"
      <4>1. heap'[Cell(r, p.sid)] = Consumed(mine) /\ p.kind = "callback"
        BY <1>2, <1>5, <2>1, <2>2, <3>2 DEF Touches
      <4>2. Consumed(mine) = [mine EXCEPT !.state = None, !.login = @ \/ p.did = 2]
        <5>1. mine.login \in BOOLEAN /\ ~(p.did = 2)
          BY <1>2, <2>1 DEF Data
        <5>2. (mine.login \/ p.did = 2) = mine.login
          BY <5>1
        <5>3. [mine EXCEPT !.state = None, !.login = mine.login] = [mine EXCEPT !.state = None]
          BY <1>2 DEF Data
        <5> QED
          BY <5>2, <5>3 DEF Consumed
      <4> QED
        BY <2>1, <3>2, <4>1, <4>2 DEF Left
    <3> QED
      BY <1>5, <3>1, <3>2 DEF Touches
  <2>5. p.at \in {"touched", "exchange"}
    BY <2>4
  <2> QED
    BY <1>1, <1>3, <1>4, <2>3, <2>4, <2>5 DEF CalmAt
<1>6. ASSUME NEW d \in Data, Hands(r, p, d) PROVE CalmAt(r)' /\ p.at # "ended"
  <2>1. heap'[r] = d /\ store = "redis" /\ p.at \in {"storing", "failing"}
    BY <1>2, <1>6 DEF Hands
  <2>2. p.invalidated \/ d = Left(r, p)
    BY <1>3, <1>6 DEF Hands, Leaves
  <2>3. Session(r)' = d /\ Left(r, req[r])' = Left(r, p)
    BY <1>1, <1>3, <2>1 DEF Session, Cell, Left
  <2> QED
    BY <1>1, <1>3, <1>4, <2>1, <2>2, <2>3 DEF CalmAt, AtWork, Handling
<1> QED
  BY <1>5, <1>6

LEMMA CalmEnds ==
  ASSUME TypeInv, PlacesOK, NEW r \in Requests, NEW p \in Request, CalmAt(r),
         Saved(r, p) \/ \E d \in Data : Closes(r, p, d) \/ Keeps(r, p, d)
  PROVE  CalmAt(r)' /\ p.at # "ended"
<1>1. Placed(req[r]) /\ req'[r] = p
  BY StepFacts DEF PlacesOK, PlaceOK, RequestStep
<1>2. /\ heap \in [Ids \cup Requests -> Data] /\ mine \in Data /\ live \subseteq Ids
      /\ Requests \cap Ids = {}
  BY IdsFacts DEF TypeInv
<1>3. p.at \in {"answering", "failing"} /\ (p.at = "failing" <=> p.raised)
  BY DEF Saved, Closes, Keeps
<1> SUFFICES IF p.at = "failing" THEN Rest'
             ELSE IF p.invalidated THEN mine' = Empty
             ELSE IF p.new THEN p.sid \in live' /\ heap'[p.sid] = mine' ELSE Rest'
  BY <1>1, <1>3 DEF CalmAt, AtWork, Handling
<1>4. /\ AtWork(r) /\ p.sid = req[r].sid /\ p.new = req[r].new
      /\ req[r].invalidated \/ Session(r) = Left(r, req[r])
      /\ IF p.new THEN jar \notin live /\ jar # p.sid /\ mine = Empty
         ELSE jar = p.sid /\ jar \in live
      /\ store = "redis" => Rest
      /\ jar' = jar
  <2>1. AtWork(r) /\ p.sid = req[r].sid /\ p.new = req[r].new /\ jar' = jar
    BY DEF Saved, Closes, Keeps, Leaves, AtWork, Agree
  <2> QED
    BY <2>1 DEF CalmAt
<1>5. ASSUME NEW d \in Data, Closes(r, p, d)
      PROVE  Rest' /\ ~p.invalidated /\ ~p.new
  <2>1. Handling(r) /\ ~p.modified /\ ~p.invalidated /\ ~req[r].modified /\ ~req[r].invalidated
    BY <1>1, <1>5 DEF Closes, Leaves, Persists, Placed, Handling, Request
  <2>2. req[r].did = 0 /\ ~p.new
    BY <1>1, <1>4, <2>1 DEF Placed, Handling
  <2>3. Session(r) = mine /\ jar \in live /\ jar = req[r].sid
    BY <1>4, <2>1, <2>2 DEF Left
  <2>4. Rest
    <3>1. store \in {"memory", "redis"}
      BY StoresAssumption DEF TypeInv
    <3> QED
      BY <1>4, <2>3, <3>1 DEF Session, Cell, Rest
  <2> QED
    BY <1>5, <2>1, <2>2, <2>4 DEF Closes, Rest
<1>6. ASSUME NEW d \in Data, Write(r, p, d), p.invalidated \/ d = Left(r, p),
             p.did > 0 => p.kind \in {"put", "authorize", "callback"} \/ p.invalidated
      PROVE  IF p.at = "failing" THEN Rest'
             ELSE IF p.invalidated THEN mine' = Empty
             ELSE IF p.new THEN p.sid \in live' /\ heap'[p.sid] = mine' ELSE Rest'
  <2>1. /\ mine' = Effect(r, p) /\ p.sid \in Ids /\ heap'[p.sid] = d
        /\ live' = IF p.invalidated THEN live \ {p.sid} ELSE live \cup {p.sid}
    BY <1>1, <1>2, <1>4, <1>6 DEF Write, Placed, AtWork, Handling
  <2>2. CASE p.invalidated
    <3>1. mine' = Empty
      BY <1>2, <1>6, <2>1, <2>2, EffectFacts
    <3>2. jar \notin live'
      BY <1>4, <2>1, <2>2
    <3> QED
      BY <1>4, <2>2, <3>1, <3>2 DEF Rest
  <2>3. CASE ~p.invalidated /\ p.new /\ p.raised
    <3>1. mine' = Empty
      BY <1>2, <1>4, <1>6, <2>1, <2>3, EffectFacts
    <3>2. jar \notin live'
      BY <1>4, <2>1, <2>3
    <3> QED
      BY <1>3, <1>4, <2>3, <3>1, <3>2 DEF Rest
  <2>4. CASE ~p.invalidated /\ ~(p.new /\ p.raised)
    <3>1. mine' = d /\ p.sid \in live'
      BY <1>2, <1>6, <2>1, <2>4, EffectFacts
    <3> QED
      BY <1>3, <1>4, <2>1, <2>4, <3>1 DEF Rest
  <2> QED
    BY <2>2, <2>3, <2>4
<1>7. CASE Saved(r, p)
  <2>1. heap[r] \in Data /\ Write(r, p, heap[r]) /\ store = "redis"
    BY <1>1, <1>2, <1>7 DEF Saved, Placed
  <2>2. /\ p.did > 0 => p.kind \in {"put", "authorize", "callback"} \/ p.invalidated
        /\ p.invalidated = req[r].invalidated /\ Left(r, p) = Left(r, req[r])
    BY <1>1, <1>7 DEF Saved, Agree, Placed, Left
  <2>3. p.invalidated \/ heap[r] = Left(r, p)
    BY <1>4, <2>1, <2>2 DEF Session, Cell
  <2> QED
    BY <1>6, <2>1, <2>2, <2>3
<1>8. ASSUME NEW d \in Data, Keeps(r, p, d)
      PROVE  IF p.at = "failing" THEN Rest'
             ELSE IF p.invalidated THEN mine' = Empty
             ELSE IF p.new THEN p.sid \in live' /\ heap'[p.sid] = mine' ELSE Rest'
  <2>1. Leaves(r, p, d) /\ Write(r, p, d)
    BY <1>8 DEF Keeps
  <2>2. p.did > 0 => p.kind \in {"put", "authorize", "callback"} \/ p.invalidated
    BY <2>1, LeavesFits
  <2>3. ~req[r].invalidated
    BY <1>1, <2>1 DEF Leaves, Placed, Handling
  <2>4. p.invalidated \/ d = Left(r, p)
    BY <1>4, <2>1, <2>3 DEF Leaves
  <2> QED
    BY <1>6, <2>1, <2>2, <2>4
<1> QED
  BY <1>5, <1>7, <1>8

LEMMA CalmStep ==
  ASSUME TypeInv, PlacesOK, CalmInv, NEW r \in Requests, NEW p \in Request, RequestStep(r, p)
  PROVE  CalmInv'
<1>1. ASSUME CalmAt(r), req[r].at = "unsent" => Rest
      PROVE  CalmAt(r)' /\ (p.at = "ended" => Rest')
  <2>1. CASE Sent(r, p) \/ Found(r, p) \/ Created(r, p)
    BY <1>1, <2>1, CalmLoad
  <2>2. CASE Drops(r, p)
    BY <1>1, <2>2, CalmDrops
  <2>3. CASE Touches(r, p) \/ \E d \in Data : Hands(r, p, d)
    BY <1>1, <2>3, CalmHandles
  <2>4. CASE Saved(r, p) \/ \E d \in Data : Closes(r, p, d) \/ Keeps(r, p, d)
    BY <1>1, <2>4, CalmEnds
  <2> QED
    BY <2>1, <2>2, <2>3, <2>4 DEF RequestStep
<1> QED
  BY <1>1, CalmKept

-----------------------------------------------------------------------------
(* Sessions and cookies expire between the steps of the requests.          *)

LEMMA Expires ==
  ASSUME TypeInv, PlacesOK, SharedKeeps, CopiesKeep, GoneInv, UsedInv, CalmInv,
         (\E id \in Ids : Expire(id)) \/ CookieExpires
  PROVE  (TypeInv /\ PlacesOK /\ SharedKeeps /\ CopiesKeep /\ GoneInv /\ UsedInv /\ CalmInv)'
<1>1. /\ UNCHANGED <<store, made, heap, req, crossed>> /\ live' \subseteq live
      /\ jar' \in {jar, None} /\ mine' \in {mine, Empty} /\ calm' = (calm /\ Quiet)
  BY DEF Expire, CookieExpires
<1>2. TypeInv'
  BY <1>1, EmptyType DEF TypeInv, Made
<1>3. PlacesOK'
  BY <1>1 DEF PlacesOK, PlaceOK, Placed, Redirected
<1>4. SharedKeeps' /\ CopiesKeep'
  BY <1>1 DEF SharedKeeps, CopiesKeep, CopyKeeps, HasPut, AtWork, Handling, Crossed
<1>5. GoneInv'
  BY <1>1 DEF GoneInv, AtWork, Handling, Crossed
<1>6. UsedInv'
  BY <1>1 DEF UsedInv, StateOK, StateIsUsedOnce, Passed
<1>7. CalmInv'
  <2> SUFFICES ASSUME calm' PROVE CalmInv'
    BY DEF CalmInv
  <2>1. calm /\ Rest /\ \A r \in Requests : ~Underway(r) /\ ~Underway(r)'
    BY <1>1 DEF CalmInv, Quiet, Underway
  <2>2. Rest'
    <3>1. CASE CookieExpires
      BY <2>1, <3>1, IdsFacts DEF CookieExpires, Rest, TypeInv
    <3>2. CASE \E id \in Ids : Expire(id)
      BY <2>1, <3>2 DEF Expire, Rest
    <3> QED
      BY <3>1, <3>2
  <2>3. \A r \in Requests : CalmAt(r)'
    BY <2>1 DEF Underway, CalmAt, AtWork, Handling
  <2> QED
    BY <2>1, <2>2, <2>3 DEF CalmInv
<1> QED
  BY <1>2, <1>3, <1>4, <1>5, <1>6, <1>7

-----------------------------------------------------------------------------
(* The inductive invariant.                                                *)

IInv == TypeInv /\ PlacesOK /\ SharedKeeps /\ CopiesKeep /\ GoneInv /\ UsedInv /\ CalmInv

LEMMA InvInit == Init => IInv
<1> SUFFICES ASSUME Init PROVE IInv
  OBVIOUS
<1>1. \A r \in Requests : req[r] = Unsent
  BY DEF Init
<1>2. Unsent \in Request /\ Empty \in Data
  BY EmptyType DEF Unsent, Request, Places
<1>3. TypeInv
  <2>1. Made = {}
    BY <1>1 DEF Made, Unsent
  <2>2. made = Cardinality(Made)
    BY <2>1, FS_EmptySet DEF Init
  <2>3. \A r \in Requests : req[r].sid = None /\ req[r].asked = None
    BY <1>1 DEF Unsent
  <2> QED
    BY <1>2, <2>2, <2>3 DEF Init, TypeInv
<1>4. PlacesOK
  BY <1>1 DEF PlacesOK, PlaceOK, Placed, Unsent
<1>5. \A r \in Requests : /\ ~HasPut(r) /\ ~req[r].wrote /\ ~Passed(r) /\ ~Underway(r)
                          /\ ~AtWork(r)
  BY <1>1 DEF Unsent, HasPut, Passed, Underway, AtWork, Handling
<1>6. SharedKeeps /\ CopiesKeep /\ GoneInv
  BY <1>5 DEF SharedKeeps, CopiesKeep, CopyKeeps, GoneInv
<1>7. UsedInv
  BY <1>5 DEF UsedInv, StateOK, StateIsUsedOnce, Init, Empty
<1>8. CalmInv
  <2>1. Rest
    BY DEF Init, Rest
  <2>2. \A r \in Requests : CalmAt(r)
    BY <1>5, CalmRest
  <2> QED
    BY <1>5, <2>1, <2>2 DEF CalmInv
<1> QED
  BY <1>3, <1>4, <1>6, <1>7, <1>8 DEF IInv

LEMMA InvStep == IInv /\ [Next]_vars => IInv'
<1> SUFFICES ASSUME TypeInv, PlacesOK, SharedKeeps, CopiesKeep, GoneInv, UsedInv, CalmInv, [Next]_vars
             PROVE  IInv'
  BY DEF IInv
<1>1. ASSUME NEW r \in Requests, NEW p \in Request, RequestStep(r, p) PROVE IInv'
  <2>1. TypeInv' /\ PlacesOK'
    BY <1>1, TypeStep, PlaceStep
  <2>2. SharedKeeps' /\ CopiesKeep'
    BY <1>1, SharedStep, CopiesStep
  <2>3. GoneInv' /\ UsedInv'
    BY <1>1, GoneStep, UsedStep
  <2>4. CalmInv'
    BY <1>1, CalmStep
  <2> QED
    BY <2>1, <2>2, <2>3, <2>4 DEF IInv
<1>2. CASE (\E id \in Ids : Expire(id)) \/ CookieExpires
  BY <1>2, Expires DEF IInv
<1>3. CASE UNCHANGED vars
  <2>1. TypeInv' /\ PlacesOK'
    BY <1>3 DEF vars, TypeInv, Made, PlacesOK, PlaceOK, Placed, Redirected
  <2>2. SharedKeeps' /\ CopiesKeep' /\ GoneInv'
    BY <1>3 DEF vars, SharedKeeps, CopiesKeep, CopyKeeps, GoneInv, HasPut, AtWork, Handling, Crossed
  <2>3. UsedInv'
    BY <1>3 DEF vars, UsedInv, StateOK, StateIsUsedOnce, Passed
  <2>4. CalmInv'
    BY <1>3 DEF vars, CalmInv, CalmAt, Rest, Left, Session, Cell, Quiet, Underway, AtWork, Handling
  <2> QED
    BY <2>1, <2>2, <2>3, <2>4 DEF IInv
<1> QED
  BY <1>1, <1>2, <1>3, StepForms

THEOREM Inductive == Spec => []IInv
BY InvInit, InvStep, PTL DEF Spec

-----------------------------------------------------------------------------
(* The variables keep their types: ids are those that have been made, and  *)
(* no more are made than there are requests.                               *)
THEOREM TypeCorrect == Spec => []TypeOK
<1>1. IInv => TypeOK
  <2> SUFFICES ASSUME TypeInv PROVE TypeOK
    BY DEF IInv
  <2>1. made \in {0} \cup Ids
    BY IdsFacts DEF Ids
  <2>2. \A r \in Requests : /\ req[r].at \in Places /\ req[r].kind \in Kinds \cup {"none"}
                            /\ req[r].sid \in 1..made \cup {None} /\ req[r].did \in 0..2
    BY DEF TypeInv, Request
  <2> QED
    BY <2>1, <2>2 DEF TypeInv, TypeOK
<1> QED
  BY <1>1, Inductive, PTL

(* A browser that sends one request at a time has one session: what a      *)
(* handler finds, once SessionFilter has loaded it, is what the handlers   *)
(* before it left, whatever raised, failed, was closed or expired between. *)
THEOREM SeesWhatWasLeftHolds == Spec => []SeesWhatWasLeft
<1>1. IInv => SeesWhatWasLeft
  <2> SUFFICES ASSUME IInv, NEW r \in Requests, calm, req[r].at = "handling" PROVE Session(r) = mine
    BY DEF SeesWhatWasLeft
  <2>1. ~req[r].invalidated /\ req[r].did = 0
    BY DEF IInv, PlacesOK, PlaceOK, Placed
  <2>2. CalmAt(r) /\ AtWork(r)
    BY DEF IInv, CalmInv, AtWork, Handling
  <2> QED
    BY <2>1, <2>2 DEF CalmAt, Left
<1> QED
  BY <1>1, Inductive, PTL

(* set_attribute(), then the save of SessionFilter: the attribute is in    *)
(* the session while the store has it, unless a request wrote back an      *)
(* older copy, which only Redis makes.                                     *)
THEOREM WritesMeetHolds == Spec => []WritesMeet
<1>1. IInv => WritesMeet
  <2> SUFFICES ASSUME IInv, NEW r \in Requests, req[r].wrote, HasPut(r)
               PROVE  r \in heap[req[r].sid].items \/ (store = "redis" /\ Crossed(r))
    BY DEF WritesMeet, HasPut
  <2>1. store \in {"memory", "redis"}
    BY StoresAssumption DEF IInv, TypeInv
  <2>2. CASE store = "memory"
    BY <2>2 DEF IInv, SharedKeeps
  <2>3. CASE store = "redis"
    BY <2>3 DEF IInv, CopiesKeep, CopyKeeps
  <2> QED
    BY <2>1, <2>2, <2>3
<1> QED
  BY <1>1, Inductive, PTL

(* delete() of either store: the session is back only through a request    *)
(* that had loaded it before and saved it after.                           *)
THEOREM DeletedIsGoneHolds == Spec => []DeletedIsGone
<1>1. IInv => DeletedIsGone
  BY DEF IInv, GoneInv, DeletedIsGone
<1> QED
  BY <1>1, Inductive, PTL

(* Over the memory store no two callbacks pass the check of the state with *)
(* the state of one redirect, however many of them overlap.                *)
THEOREM StateIsUsedOnceHolds == Spec => []StateIsUsedOnce
<1>1. IInv => StateIsUsedOnce
  <2>1. store # "memory" => StateIsUsedOnce
    BY DEF StateIsUsedOnce
  <2> QED
    BY <2>1 DEF IInv, UsedInv
<1> QED
  BY <1>1, Inductive, PTL
=============================================================================
