---------------------------- MODULE HttpSession ----------------------------
(***************************************************************************)
(* The HTTP session of one browser: SessionFilter loads it before the      *)
(* handler of a request and persists it after, the OAuth2 login handler is *)
(* one of its users, requests overlap, and answers come in any order.      *)
(*                                                                         *)
(* In the memory store, sessions are dicts that all requests share: what   *)
(* heap has for an id is the dict of that session.  From Redis each        *)
(* request gets a copy: heap has the server's text of each id and the dict *)
(* of each request.                                                        *)
(*                                                                         *)
(* The lock of the memory store is never held over an await, so its calls  *)
(* take place in the step of the handler that ends; a call of Redis is a   *)
(* step of its own and may fail, before or after the server did it.        *)
(***************************************************************************)
EXTENDS Naturals, FiniteSets

CONSTANTS
  Requests,
  Kinds,     \* the kinds of request to consider
  Stores,    \* "memory", "redis"
  None

Ids == 1..Cardinality(Requests)   \* uuid4(), in the order they are made

ASSUME RequestsAssumption ==
  IsFiniteSet(Requests) /\ Requests \cap Ids = {} /\ None \notin Requests \cup Ids

ASSUME StoresAssumption == Stores \subseteq {"memory", "redis"}

VARIABLES
  store,    \* the SessionStore of this application
  made,     \* how many ids have been made
  live,     \* ids that are in the store and have not expired
  heap,     \* see above
  jar,      \* the session cookie of the browser
  req,      \* the requests
  crossed,  \* history: who wrote the session of a request between its load and its own write
  mine,     \* history: the session as its user has left it
  calm      \* history: requests came one at a time, and nothing expired under one

vars == <<store, made, live, heap, jar, req, crossed, mine, calm>>

(* oauth2_state, by the request that drew it; SECURITY_CONTEXT; and the    *)
(* attributes of other handlers, by the request that set each.             *)
Empty == [state |-> None, login |-> FALSE, items |-> {}]

Unsent == [kind |-> "none", at |-> "unsent", asked |-> None, code |-> None, sid |-> None,
           new |-> FALSE, modified |-> FALSE, invalidated |-> FALSE, raised |-> FALSE,
           did |-> 0, wrote |-> FALSE]

Init ==
  /\ store \in Stores
  /\ made = 0 /\ live = {} /\ jar = None
  /\ heap = [c \in Ids \cup Requests |-> Empty]
  /\ req = [r \in Requests |-> Unsent]
  /\ crossed = [r \in Requests |-> {}]
  /\ mine = Empty /\ calm = TRUE

Underway(r) == req[r].at \notin {"unsent", "ended"}
Handling(r) == req[r].at \in {"handling", "touched", "exchange"}

(* Fault: get() of the memory store returns a copy. *)
CellCopied(r, id) == r

(* The dict behind the session of request r. *)
Cell(r, id) == IF store = "memory" THEN id ELSE r

Session(r) == heap[Cell(r, req[r].sid)]

-----------------------------------------------------------------------------
(* The browser sends a request with the cookie it has; a callback has the  *)
(* state of a redirect the browser was given.                              *)
Send(r, kind, code) ==
  /\ req[r].at = "unsent"
  /\ req' = [req EXCEPT ![r] = [Unsent EXCEPT !.kind = kind, !.at = "loading", !.asked = jar, !.code = code]]
  /\ calm' = (calm /\ \A q \in Requests : ~Underway(q))
  /\ UNCHANGED <<store, made, live, heap, jar, crossed, mine>>

Redirected(q) == req[q].kind = "authorize" /\ req[q].at = "ended" /\ req[q].did = 1

Sends(r) ==
  \E kind \in Kinds : \/ kind # "callback" /\ Send(r, kind, None)
                      \/ kind = "callback" /\ \E q \in Requests : Redirected(q) /\ Send(r, kind, q)

(* Fault: the id of the cookie is kept for the new session. *)
NewIdOfCookie(r) == IF req[r].asked # None THEN req[r].asked ELSE made + 1

NewId(r) == made + 1

(* _load_or_create_session(). *)
Load(r) ==
  /\ req[r].at = "loading"
  /\ LET id == req[r].asked IN
     IF id \in live
     THEN /\ req' = [req EXCEPT ![r].at = "handling", ![r].sid = id]
          /\ heap' = [heap EXCEPT ![Cell(r, id)] = heap[id]]
          /\ UNCHANGED made
     ELSE /\ req' = [req EXCEPT ![r].at = "handling", ![r].sid = NewId(r), ![r].new = TRUE,
                                ![r].modified = TRUE]
          /\ heap' = [heap EXCEPT ![Cell(r, NewId(r))] = Empty]
          /\ made' = made + 1
  /\ UNCHANGED <<store, live, jar, crossed, mine, calm>>

LoadFails(r) ==
  /\ req[r].at = "loading" /\ store = "redis" /\ req[r].asked # None
  /\ req' = [req EXCEPT ![r].at = "failing"]
  /\ UNCHANGED <<store, made, live, heap, jar, crossed, mine, calm>>

-----------------------------------------------------------------------------
(* _persist_session(), and what it means to the user of the session.       *)

(* What the user has done to the session with request q. *)
Effect(r, q) ==
  IF q.invalidated THEN Empty
  ELSE IF (q.new /\ q.raised) \/ q.did = 0 THEN mine
  ELSE CASE q.kind = "put"       -> [mine EXCEPT !.items = @ \cup {r}]
         [] q.kind = "authorize" -> [mine EXCEPT !.state = r]
         [] q.kind = "callback"  -> [mine EXCEPT !.state = None, !.login = @ \/ q.did = 2]

Write(r, q, d) ==
  /\ live' = IF q.invalidated THEN live \ {q.sid} ELSE live \cup {q.sid}
  /\ heap' = [heap EXCEPT ![q.sid] = d]
  /\ crossed' = [p \in Requests |->
       IF p # r /\ req[p].sid = q.sid /\ (Handling(p) \/ req[p].at = "storing")
       THEN crossed[p] \cup {r} ELSE crossed[p]]
  /\ mine' = Effect(r, q)

(* json.dumps() does not know a SecurityContext. *)
Dumps(d) == ~d.login

(* Fault: a session is persisted only if the handler did not raise. *)
PersistsReturned(q) == (q.modified /\ ~q.raised) \/ q.invalidated

Persists(q) == q.modified \/ q.invalidated

(* The handler ends with session d and q as the state of the request.      *)
Ends(r, q, d) ==
  \/ /\ ~Persists(q)
     /\ req' = [req EXCEPT ![r] = [q EXCEPT !.at = IF q.raised THEN "failing" ELSE "answering"]]
     /\ heap' = [heap EXCEPT ![Cell(r, q.sid)] = d]
     /\ UNCHANGED <<live, crossed, mine>>
  \/ /\ Persists(q) /\ store = "memory"
     /\ req' = [req EXCEPT ![r] = [q EXCEPT !.at = IF q.raised THEN "failing" ELSE "answering", !.wrote = TRUE]]
     /\ Write(r, q, d)
  \/ /\ Persists(q) /\ store = "redis"
     /\ req' = [req EXCEPT ![r] = [q EXCEPT !.at = IF q.invalidated \/ Dumps(d) THEN "storing" ELSE "failing"]]
     /\ heap' = [heap EXCEPT ![r] = d]
     /\ UNCHANGED <<live, crossed, mine>>

(* save() or delete() of the Redis store; it may raise although it did it. *)
Saves(r) ==
  /\ req[r].at = "storing"
  /\ \E raised \in {req[r].raised, TRUE} :
       LET q == [req[r] EXCEPT !.raised = raised, !.wrote = TRUE,
                               !.at = IF raised THEN "failing" ELSE "answering"]
       IN  req' = [req EXCEPT ![r] = q] /\ Write(r, q, heap[r])
  /\ UNCHANGED <<store, made, jar, calm>>

StoreFails(r) ==
  /\ req[r].at = "storing"
  /\ req' = [req EXCEPT ![r].at = "failing"]
  /\ UNCHANGED <<store, made, live, heap, jar, crossed, mine, calm>>

-----------------------------------------------------------------------------
(* The handlers.                                                           *)
HandlerEnds(r, q, d) == Ends(r, q, d) /\ UNCHANGED <<store, made, jar, calm>>

(* A handler that leaves the session as it is. *)
Read(r) ==
  /\ req[r].at = "handling" /\ req[r].kind = "read"
  /\ HandlerEnds(r, req[r], Session(r))

(* A handler that sets an attribute, and awaits something after it. *)
Put(r) ==
  /\ req[r].at = "handling" /\ req[r].kind = "put"
  /\ heap' = [heap EXCEPT ![Cell(r, req[r].sid)].items = @ \cup {r}]
  /\ req' = [req EXCEPT ![r].at = "touched", ![r].modified = TRUE, ![r].did = 1]
  /\ UNCHANGED <<store, made, live, jar, crossed, mine, calm>>

Returns(r) ==
  /\ req[r].at = "touched"
  /\ HandlerEnds(r, req[r], Session(r))

(* _handle_authorization(). *)
Authorize(r) ==
  /\ req[r].at = "handling" /\ req[r].kind = "authorize"
  /\ HandlerEnds(r, [req[r] EXCEPT !.modified = TRUE, !.did = 1], [Session(r) EXCEPT !.state = r])

(* Fault: the state is left in the session.                                *)
ConsumedNot(d) == d

Consumed(d) == [d EXCEPT !.state = None]

(* _handle_callback() up to the exchange of the code.                      *)
Refuse(r) ==
  /\ req[r].at = "handling" /\ req[r].kind = "callback"
  /\ Session(r).state # req[r].code
  /\ HandlerEnds(r, req[r], Session(r))

Check(r) ==
  /\ req[r].at = "handling" /\ req[r].kind = "callback"
  /\ Session(r).state = req[r].code
  /\ heap' = [heap EXCEPT ![Cell(r, req[r].sid)] = Consumed(Session(r))]
  /\ req' = [req EXCEPT ![r].at = "exchange", ![r].modified = TRUE, ![r].did = 1]
  /\ UNCHANGED <<store, made, live, jar, crossed, mine, calm>>

(* The provider has answered; it may have refused.                         *)
LogIn(r) ==
  /\ req[r].at = "exchange"
  /\ \/ HandlerEnds(r, [req[r] EXCEPT !.did = 2], [Session(r) EXCEPT !.login = TRUE])
     \/ HandlerEnds(r, req[r], Session(r))

(* _handle_logout(). *)
LogOut(r) ==
  /\ req[r].at = "handling" /\ req[r].kind = "logout"
  /\ HandlerEnds(r, [req[r] EXCEPT !.invalidated = TRUE, !.modified = TRUE, !.did = 1], Session(r))

(* An exception, or a cancellation, leaves the handler at an await.        *)
Raises(r) ==
  /\ Handling(r)
  /\ HandlerEnds(r, [req[r] EXCEPT !.raised = TRUE], Session(r))

-----------------------------------------------------------------------------
(* The browser has the answer: set_cookie, delete_cookie, or neither.      *)
Answer(r) ==
  /\ req[r].at \in {"answering", "failing"}
  /\ req' = [req EXCEPT ![r].at = "ended"]
  /\ jar' = IF req[r].at = "failing" THEN jar
            ELSE IF req[r].invalidated THEN None
            ELSE IF req[r].new THEN req[r].sid ELSE jar
  /\ UNCHANGED <<store, made, live, heap, crossed, mine, calm>>

Quiet == \A r \in Requests : ~Underway(r)

(* The time to live of a stored session ends. *)
Expire(id) ==
  /\ id \in live
  /\ live' = live \ {id}
  /\ mine' = IF id = jar THEN Empty ELSE mine
  /\ calm' = (calm /\ Quiet)
  /\ UNCHANGED <<store, made, heap, jar, req, crossed>>

(* So does max_age of the cookie, which is set once. *)
CookieExpires ==
  /\ jar # None
  /\ jar' = None /\ mine' = Empty
  /\ calm' = (calm /\ Quiet)
  /\ UNCHANGED <<store, made, live, heap, req, crossed>>

Handles(r) == Read(r) \/ Put(r) \/ Returns(r) \/ Authorize(r) \/ Refuse(r) \/ Check(r)
              \/ LogIn(r) \/ LogOut(r)
Persisting(r) == Saves(r) \/ StoreFails(r)

Next ==
  \/ \E r \in Requests : \/ Sends(r) \/ Load(r) \/ LoadFails(r) \/ Handles(r) \/ Raises(r)
                         \/ Persisting(r) \/ Answer(r)
  \/ \E id \in Ids : Expire(id)
  \/ CookieExpires

Spec == Init /\ [][Next]_vars
-----------------------------------------------------------------------------
(* Types.                                                                  *)
Data == [state : Requests \cup {None}, login : BOOLEAN, items : SUBSET Requests]
Places == {"unsent", "loading", "handling", "touched", "exchange", "storing", "answering",
           "failing", "ended"}
TypeOK ==
  /\ store \in Stores /\ made \in {0} \cup Ids /\ live \subseteq 1..made
  /\ jar \in 1..made \cup {None}
  /\ heap \in [Ids \cup Requests -> Data] /\ mine \in Data /\ calm \in BOOLEAN
  /\ crossed \in [Requests -> SUBSET Requests]
  /\ \A r \in Requests : /\ req[r].at \in Places /\ req[r].kind \in Kinds \cup {"none"}
                         /\ req[r].sid \in 1..made \cup {None} /\ req[r].did \in 0..2

(* A browser that sends one request at a time has one session: each        *)
(* handler finds in it what the handlers before it left, over either       *)
(* store, although requests raise, calls of the store fail, sessions are   *)
(* closed and expire, and cookies come and go with the answers.            *)
SeesWhatWasLeft == \A r \in Requests : calm /\ req[r].at = "handling" => Session(r) = mine

(* An attribute that was persisted is missing from its session only if     *)
(* another request wrote back the copy it had loaded before; sessions in   *)
(* memory, which requests share, lose none.                                *)
Crossed(r) == \E q \in Requests : req[q].wrote /\ r \in crossed[q]
WritesMeet ==
  \A r \in Requests :
    req[r].wrote /\ req[r].kind = "put" /\ req[r].did = 1 /\ req[r].sid \in live =>
      r \in heap[req[r].sid].items \/ (store = "redis" /\ Crossed(r))

(* A session that was deleted is back only through a request that was      *)
(* working with it when it was deleted.                                    *)
DeletedIsGone ==
  \A r \in Requests :
    req[r].wrote /\ req[r].invalidated /\ req[r].sid \in live => Crossed(r)

(* Over the memory store one login comes of one redirect, whatever         *)
(* callbacks overlap: the state is consumed before the first await.        *)
Passed(r) == req[r].kind = "callback" /\ req[r].did > 0
StateIsUsedOnce ==
  \A r, q \in Requests :
    store = "memory" /\ Passed(r) /\ Passed(q) /\ req[r].code = req[q].code => r = q

(* Refuted over Redis, where a callback consumes the state of its copy.    *)
StateIsUsedOnceAnywhere ==
  \A r, q \in Requests : Passed(r) /\ Passed(q) /\ req[r].code = req[q].code => r = q

(* Refuted over Redis: a session with a SecurityContext cannot be saved,   *)
(* and the callback that made it fails.                                    *)
LoginIsSaved ==
  \A r \in Requests : req[r].at = "ended" /\ req[r].did = 2 => req[r].wrote

(* Refuted over either store: a request that was under way when the user   *)
(* logged out saves the session again, and its cookie finds it.            *)
LogoutIsFinal == \A r \in Requests : req[r].wrote /\ req[r].invalidated => req[r].sid \notin live
=============================================================================
