--------------------------- MODULE SessionsProofs ---------------------------
(***************************************************************************)
(* Theorems about Sessions, for any number of users, requests and          *)
(* sessions: that a token is exchanged at most once and a logout is final; *)
(* what the row of a session says, and who may delete it; and that the     *)
(* handlers implement SessionLifecycle.  The lemmas about one step are     *)
(* stated of Step, in which a login is only what it does to its request,   *)
(* so that module AuthenticationProofs can use them too, where accounts    *)
(* decide who logs in.                                                     *)
(***************************************************************************)
EXTENDS SessionsRefinement, TLAPS

USE DEF Kinds, Pcs, Replies

(* What the kind and the program counter of a request say of its fields.   *)
Shape(q) ==
    /\ q.pc = "idle" => q = Waiting
    /\ q.pc \in {"find", "delete"} => /\ q.kind \in {"refresh", "logout"}
                                      /\ q.reply # "ok"
    /\ q.pc \in {"idle", "find", "delete", "sign", "update", "purge"}
          => q.fresh = None
    /\ q.pc \in {"insert", "reply"} => q.fresh # None
    /\ q.pc \in {"sign", "insert", "reply"} => q.kind # "logout"
    /\ q.kind \in {"refresh", "logout"} <=> q.presented # None
    /\ q.pc \in {"find", "delete", "sign", "insert", "reply"} => q.user # None
    /\ q.pc \in {"update", "purge"} => q.user # None /\ q.kind = "newPassword"
    /\ q.kind = "logout" => q.fresh = None
    /\ q.pc = "done" => q.reply # "none"
    /\ q.kind = "refresh" /\ q.reply = "ok" => q.fresh # None

ShapeOK == \A r \in Requests : Shape(req[r])

(* No two requests mint the same session.                                  *)
FreshIsUnique ==
    \A r1, r2 \in Requests :
       req[r1].fresh # None /\ req[r1].fresh = req[r2].fresh => r1 = r2

(* A session a client knows was minted by a request that answered.         *)
Answered(d) == \E r \in Requests : req[r].fresh = d /\ req[r].pc = "done"

KnownIsAnswered ==
    /\ \A t \in issued : Answered(t.deviceId)
    /\ \A r \in Requests :
          req[r].presented # None => Answered(req[r].presented)

(* A session is not live before its row is inserted.                       *)
NotLiveYet ==
    \A d \in DeviceIds : Live(d) =>
       \E r \in Requests : req[r].fresh = d /\ req[r].pc \in {"reply", "done"}

(* A session is taken, by a refresh or by a logout, at most once, and it   *)
(* is not live afterwards.                                                 *)
Takers(d) == Exchanges(d) \cup LogoutsOf(d)

TakenOnce ==
    \A d \in DeviceIds :
       /\ \A r1, r2 \in Takers(d) : r1 = r2
       /\ Takers(d) # {} => ~Live(d)

IInv ==
    /\ TypeOK
    /\ ShapeOK
    /\ FreshIsUnique
    /\ KnownIsAnswered
    /\ NotLiveYet
    /\ TakenOnce
-----------------------------------------------------------------------------
(* What a login does to its request: it goes on, or is refused.            *)
Enters(r) ==
    /\ At(r, "idle")
    /\ \E u \in Users :
          \/ Start(r, "login", u, None, "sign", "none")
          \/ \E x \in {"401", "500"} : Start(r, "login", u, None, "done", x)
    /\ UNCHANGED <<now, hash, device, issued>>

(* The steps of a request, one disjunct per operation.                     *)
Step(r) ==
    \/ Enters(r)
    \/ \E u \in Users : GoogleLogin(r, u)
    \/ \E t \in issued, k \in {"refresh", "logout"} : PresentToken(r, k, t)
    \/ \E u \in Users, a \in BOOLEAN : NewPassword(r, u, a)
    \/ FindSession(r)
    \/ DeleteSession(r)
    \/ SignTokens(r)
    \/ InsertDevice(r)
    \/ ReplyTokens(r)
    \/ \E p \in Passwords : UpdatePassword(r, p)
    \/ PurgeDevices(r)
    \/ Abort(r)

(* The steps of no request: the clock, and what others do to passwords.    *)
Quiet ==
    /\ now' \in 0..MaxTime
    /\ hash' \in [Users -> Passwords \cup {None}]
    /\ UNCHANGED <<device, issued, req>>

(* Every step of the handlers is a step of a request, or a quiet one.      *)
LEMMA NextIsStep ==
  ASSUME TypeOK, [Next]_vars
  PROVE  (\E r \in Requests : Step(r)) \/ Quiet
  <1>1. ASSUME NEW r \in Requests, NEW u \in Users, NEW p \in Passwords,
               Login(r, u, p)
        PROVE  Enters(r)
    BY <1>1 DEF Login, Enters
  <1>2. ASSUME Tick PROVE Quiet
    BY <1>2, MaxTimeAssumption DEF Tick, Quiet, TypeOK
  <1>3. ASSUME UNCHANGED vars PROVE Quiet
    BY <1>3 DEF vars, Quiet, TypeOK
  <1> QED BY <1>1, <1>2, <1>3 DEF Next, Step, Arrive, Continue

(* Handlers touch their own request only, and leave it well-typed and      *)
(* well-shaped.                                                            *)
LEMMA TypeInit == Init => TypeOK /\ ShapeOK
  BY LifetimeAssumption, MaxTimeAssumption
  DEF Init, TypeOK, ShapeOK, Shape, Waiting, Request

(* A request that starts is well-typed and well-shaped.                    *)
LEMMA Started ==
  ASSUME req \in [Requests -> Request], NEW r \in Requests,
         NEW kind \in {"login", "google", "newPassword", "refresh", "logout"},
         NEW u \in Users, NEW d \in DeviceIds \cup {None},
         NEW label \in {"find", "sign", "update", "done"},
         NEW reply \in {"none", "400", "401", "500"},
         kind \in {"refresh", "logout"} <=> d # None,
         label = "find" => d # None,
         label = "done" <=> reply # "none",
         label = "sign" => kind # "logout",
         label = "update" => kind = "newPassword",
         Start(r, kind, u, d, label, reply)
  PROVE  /\ req' \in [Requests -> Request] /\ Shape(req[r])'
         /\ req' = [req EXCEPT ![r] = req'[r]]
  BY NoneAssumption DEF Start, Waiting, Request, Shape

(* Every step of a request keeps the types, and touches that request only. *)
LEMMA TypeStep ==
  ASSUME TypeOK, ShapeOK, NEW r \in Requests, Step(r)
  PROVE  TypeOK' /\ Shape(req[r])' /\ req' = [req EXCEPT ![r] = req'[r]]
  <1>a. /\ now \in 0..MaxTime /\ hash \in [Users -> Passwords \cup {None}]
        /\ device \in [DeviceIds -> Row \cup {None}] /\ issued \subseteq Token
        /\ req \in [Requests -> Request] /\ req[r] \in Request
        /\ Shape(req[r]) /\ now \in Nat
    BY MaxTimeAssumption DEF TypeOK, ShapeOK
  <1>1. CASE Enters(r)
    <2>1. ASSUME NEW u \in Users, Start(r, "login", u, None, "sign", "none")
          PROVE  TypeOK' /\ Shape(req[r])' /\ req' = [req EXCEPT ![r] = req'[r]]
      BY <1>a, <1>1, <2>1, Started DEF Enters, TypeOK
    <2>2. ASSUME NEW u \in Users, NEW x \in {"401", "500"},
                 Start(r, "login", u, None, "done", x)
          PROVE  TypeOK' /\ Shape(req[r])' /\ req' = [req EXCEPT ![r] = req'[r]]
      BY <1>a, <1>1, <2>2, Started DEF Enters, TypeOK
    <2> QED BY <1>1, <2>1, <2>2 DEF Enters
  <1>2. ASSUME NEW u \in Users, GoogleLogin(r, u)
        PROVE  TypeOK' /\ Shape(req[r])' /\ req' = [req EXCEPT ![r] = req'[r]]
    BY <1>a, <1>2, Started DEF GoogleLogin, TypeOK
  <1>3. ASSUME NEW t \in issued, NEW k \in {"refresh", "logout"},
               PresentToken(r, k, t)
        PROVE  TypeOK' /\ Shape(req[r])' /\ req' = [req EXCEPT ![r] = req'[r]]
    <2>1. t.userId \in Users /\ t.deviceId \in DeviceIds /\ t.deviceId # None
      BY <1>a, NoneAssumption DEF Token
    <2>2. CASE Start(r, k, t.userId, t.deviceId, "find", "none")
      BY <1>a, <1>3, <2>1, <2>2, Started DEF PresentToken, TypeOK
    <2>3. CASE Start(r, k, t.userId, t.deviceId, "done", "401")
      BY <1>a, <1>3, <2>1, <2>3, Started DEF PresentToken, TypeOK
    <2> QED BY <1>3, <2>2, <2>3 DEF PresentToken
  <1>4. ASSUME NEW u \in Users, NEW a \in BOOLEAN, NewPassword(r, u, a)
        PROVE  TypeOK' /\ Shape(req[r])' /\ req' = [req EXCEPT ![r] = req'[r]]
    <2>1. CASE Start(r, "newPassword", u, None, "update", "none")
      BY <1>a, <1>4, <2>1, Started DEF NewPassword, TypeOK
    <2>2. CASE Start(r, "newPassword", u, None, "done", "400")
      BY <1>a, <1>4, <2>2, Started DEF NewPassword, TypeOK
    <2> QED BY <1>4, <2>1, <2>2 DEF NewPassword
  <1>5. CASE FindSession(r)
    BY <1>a, <1>5 DEF FindSession, Goto, Answer, Refusal, TypeOK, Shape, Request, At
  <1>6. CASE DeleteSession(r)
    BY <1>a, <1>6 DEF DeleteSession, Goto, Answer, TypeOK, Shape, Request, At, Live
  <1>7. CASE SignTokens(r)
    BY <1>a, <1>7, NoneAssumption DEF SignTokens, TypeOK, Shape, Request, At
  <1>8. CASE InsertDevice(r)
    BY <1>a, <1>8 DEF InsertDevice, Goto, TypeOK, Shape, Request, At, Row
  <1>9. CASE ReplyTokens(r)
    BY <1>a, <1>9 DEF ReplyTokens, Answer, TypeOK, Shape, Request, At, Token
  <1>10. ASSUME NEW p \in Passwords, UpdatePassword(r, p)
        PROVE  TypeOK' /\ Shape(req[r])' /\ req' = [req EXCEPT ![r] = req'[r]]
    BY <1>a, <1>10 DEF UpdatePassword, TypeOK, Shape, Request, At, RowsOf
  <1>11. CASE PurgeDevices(r)
    BY <1>a, <1>11 DEF PurgeDevices, Answer, TypeOK, Shape, Request, At
  <1>12. CASE Abort(r)
    BY <1>a, <1>12 DEF Abort, TypeOK, Shape, Request, At
  <1> QED
    BY <1>1, <1>2, <1>3, <1>4, <1>5, <1>6, <1>7, <1>8, <1>9, <1>10, <1>11,
       <1>12 DEF Step
-----------------------------------------------------------------------------
(* How a step of request r bears on what the other invariants look at.     *)
(* A step of one request leaves every other request alone.                 *)
LEMMA OthersKept ==
  ASSUME TypeOK, ShapeOK, NEW r \in Requests, Step(r), NEW q \in Requests, q # r
  PROVE  req'[q] = req[q]
  BY TypeStep DEF TypeOK

(* A request that is done takes no step.                                   *)
LEMMA DoneIsFinal ==
  ASSUME TypeOK, ShapeOK, NEW r \in Requests, Step(r)
  PROVE  req[r].pc # "done"
  BY DEF Step, Enters, GoogleLogin, PresentToken, NewPassword, FindSession,
         DeleteSession, SignTokens, InsertDevice, ReplyTokens, UpdatePassword,
         PurgeDevices, Abort, At, ShapeOK, Shape

(* A session minted by an answered request stays so.                       *)
LEMMA AnsweredStays ==
  ASSUME TypeOK, ShapeOK, NEW r \in Requests, Step(r), NEW d, Answered(d)
  PROVE  Answered(d)'
  <1>1. PICK q \in Requests : req[q].fresh = d /\ req[q].pc = "done"
    BY DEF Answered
  <1>2. req'[q] = req[q]
    BY <1>1, OthersKept, DoneIsFinal
  <1> QED BY <1>1, <1>2 DEF Answered

(* The requests that start.                                                *)
Arrival(r) ==
    /\ req[r] = Waiting
    /\ req'[r].fresh = None
    /\ req'[r].pc \in {"find", "update", "done", "sign"}
    /\ req'[r].pc = "sign" => req'[r].kind \in {"login", "google"}
    /\ req'[r].reply # "ok"
    /\ device' = device /\ issued' = issued
    /\ \/ req'[r].presented = None
       \/ \E t \in issued : /\ req'[r].presented = t.deviceId
                            /\ req'[r].user = t.userId

(* A step is an arrival or one of the steps that follow it.                *)
LEMMA Arrivals ==
  ASSUME TypeOK, ShapeOK, NEW r \in Requests, Step(r)
  PROVE  \/ Arrival(r)
         \/ FindSession(r) \/ DeleteSession(r) \/ SignTokens(r)
         \/ InsertDevice(r) \/ ReplyTokens(r)
         \/ \E p \in Passwords : UpdatePassword(r, p)
         \/ PurgeDevices(r) \/ Abort(r)
  <1>a. req[r].pc = "idle" => req[r] = Waiting
    BY DEF ShapeOK, Shape
  <1>b. req \in [Requests -> Request]
    BY DEF TypeOK
  <1>1. ASSUME Enters(r) PROVE Arrival(r)
    <2>1. req[r] = Waiting /\ device' = device /\ issued' = issued
      BY <1>a, <1>1 DEF Enters, At
    <2>2. ASSUME NEW u \in Users, Start(r, "login", u, None, "sign", "none")
          PROVE  Arrival(r)
      BY <1>b, <2>1, <2>2 DEF Start, Arrival, Waiting
    <2>3. ASSUME NEW u \in Users, NEW x \in {"401", "500"},
                 Start(r, "login", u, None, "done", x)
          PROVE  Arrival(r)
      BY <1>b, <2>1, <2>3 DEF Start, Arrival, Waiting
    <2> QED BY <1>1, <2>2, <2>3 DEF Enters
  <1>2. ASSUME NEW u \in Users, GoogleLogin(r, u) PROVE Arrival(r)
    BY <1>a, <1>b, <1>2 DEF GoogleLogin, At, Start, Arrival, Waiting
  <1>3. ASSUME NEW t \in issued, NEW k \in {"refresh", "logout"},
               PresentToken(r, k, t)
        PROVE  Arrival(r)
    <2>1. req[r] = Waiting /\ device' = device /\ issued' = issued
      BY <1>a, <1>3 DEF PresentToken, At
    <2>2. CASE Start(r, k, t.userId, t.deviceId, "find", "none")
      BY <1>b, <2>1, <2>2 DEF Start, Arrival, Waiting
    <2>3. CASE Start(r, k, t.userId, t.deviceId, "done", "401")
      BY <1>b, <2>1, <2>3 DEF Start, Arrival, Waiting
    <2> QED BY <1>3, <2>2, <2>3 DEF PresentToken
  <1>4. ASSUME NEW u \in Users, NEW a \in BOOLEAN, NewPassword(r, u, a)
        PROVE  Arrival(r)
    BY <1>a, <1>b, <1>4 DEF NewPassword, At, Start, Arrival, Waiting
  <1> QED BY <1>1, <1>2, <1>3, <1>4 DEF Step

(* Going on and answering keep what the request is about.                  *)
LEMMA MovedOn ==
  ASSUME req \in [Requests -> Request], NEW r \in Requests, NEW x,
         Goto(r, x) \/ Answer(r, x)
  PROVE  /\ req'[r].kind = req[r].kind /\ req'[r].user = req[r].user
         /\ req'[r].presented = req[r].presented
         /\ req'[r].fresh = req[r].fresh
  BY DEF Goto, Answer, Request

(* Only SignTokens gives a request a session.                              *)
LEMMA FreshKept ==
  ASSUME TypeOK, ShapeOK, NEW r \in Requests, Step(r), ~SignTokens(r)
  PROVE  req'[r].fresh = req[r].fresh
  <1>b. req \in [Requests -> Request]
    BY DEF TypeOK
  <1>1. CASE Arrival(r)
    BY <1>1 DEF Arrival, Waiting
  <1>2. CASE FindSession(r)
    <2>1. Goto(r, "delete") \/ \E x \in Replies : Answer(r, x)
      BY <1>2 DEF FindSession, Refusal
    <2> QED BY <1>b, <2>1, MovedOn
  <1>3. CASE DeleteSession(r)
    <2>1. Goto(r, "sign") \/ \E x \in Replies : Answer(r, x)
      BY <1>3 DEF DeleteSession
    <2> QED BY <1>b, <2>1, MovedOn
  <1>4. CASE InsertDevice(r)
    BY <1>b, <1>4 DEF InsertDevice, Goto
  <1>5. CASE ReplyTokens(r)
    BY <1>b, <1>5 DEF ReplyTokens, Answer
  <1>6. CASE \E p \in Passwords : UpdatePassword(r, p)
    BY <1>b, <1>6 DEF UpdatePassword
  <1>7. CASE PurgeDevices(r)
    BY <1>b, <1>7 DEF PurgeDevices, Answer
  <1>8. CASE Abort(r)
    BY <1>b, <1>8 DEF Abort
  <1> QED
    BY <1>1, <1>2, <1>3, <1>4, <1>5, <1>6, <1>7, <1>8, Arrivals

(* After its arrival, a request stays one of the same user, about the same *)
(* session.                                                                *)
LEMMA SameRequest ==
  ASSUME TypeOK, ShapeOK, NEW r \in Requests, Step(r), ~Arrival(r)
  PROVE  /\ req'[r].kind = req[r].kind /\ req'[r].user = req[r].user
         /\ req'[r].presented = req[r].presented
  <1>b. req \in [Requests -> Request]
    BY DEF TypeOK
  <1>1. CASE FindSession(r)
    <2>1. Goto(r, "delete") \/ \E x \in Replies : Answer(r, x)
      BY <1>1 DEF FindSession, Refusal
    <2> QED BY <1>b, <2>1, MovedOn
  <1>2. CASE DeleteSession(r)
    <2>1. Goto(r, "sign") \/ \E x \in Replies : Answer(r, x)
      BY <1>2 DEF DeleteSession
    <2> QED BY <1>b, <2>1, MovedOn
  <1>3. CASE SignTokens(r)
    BY <1>b, <1>3 DEF SignTokens
  <1>4. CASE InsertDevice(r)
    BY <1>b, <1>4, MovedOn DEF InsertDevice
  <1>5. CASE ReplyTokens(r)
    BY <1>b, <1>5, MovedOn DEF ReplyTokens
  <1>6. CASE \E p \in Passwords : UpdatePassword(r, p)
    BY <1>b, <1>6 DEF UpdatePassword
  <1>7. CASE PurgeDevices(r)
    BY <1>b, <1>7, MovedOn DEF PurgeDevices
  <1>8. CASE Abort(r)
    BY <1>b, <1>8 DEF Abort
  <1> QED
    BY <1>1, <1>2, <1>3, <1>4, <1>5, <1>6, <1>7, <1>8, Arrivals

(* A request that has come does not wait again.                            *)
LEMMA NeverWaits ==
  ASSUME TypeOK, ShapeOK, NEW r \in Requests, Step(r)
  PROVE  req'[r].pc # "idle"
  <1>b. req \in [Requests -> Request] /\ req[r] \in Request
    BY DEF TypeOK
  <1>1. ASSUME NEW x \in Pcs \ {"idle"}, Goto(r, x) PROVE req'[r].pc # "idle"
    BY <1>b, <1>1 DEF Goto, Request
  <1>2. ASSUME NEW x, Answer(r, x) PROVE req'[r].pc # "idle"
    BY <1>b, <1>2 DEF Answer, Request
  <1>3. CASE SignTokens(r)
    BY <1>b, <1>3 DEF SignTokens
  <1>4. CASE \E p \in Passwords : UpdatePassword(r, p)
    BY <1>b, <1>4 DEF UpdatePassword
  <1>5. CASE Abort(r)
    BY <1>b, <1>5 DEF Abort
  <1>6. CASE Arrival(r)
    BY <1>6 DEF Arrival
  <1>7. CASE FindSession(r)
    BY <1>1, <1>2, <1>7 DEF FindSession
  <1>8. CASE DeleteSession(r)
    BY <1>1, <1>2, <1>8 DEF DeleteSession
  <1>9. CASE InsertDevice(r) \/ ReplyTokens(r) \/ PurgeDevices(r)
    BY <1>1, <1>2, <1>9 DEF InsertDevice, ReplyTokens, PurgeDevices
  <1> QED
    BY <1>3, <1>4, <1>5, <1>6, <1>7, <1>8, <1>9, Arrivals

(* A request only ever presents a session of an issued token.              *)
LEMMA PresentedKept ==
  ASSUME TypeOK, ShapeOK, NEW r \in Requests, Step(r)
  PROVE  \/ req'[r].presented = req[r].presented
         \/ req'[r].presented = None
         \/ \E t \in issued : req'[r].presented = t.deviceId
  BY SameRequest DEF Arrival

-----------------------------------------------------------------------------
(* SignTokens picks an id that no request has minted.                      *)
LEMMA FreshStep ==
  ASSUME IInv, NEW r \in Requests, Step(r)
  PROVE  FreshIsUnique'
  <1> USE DEF IInv
  <1>b. req \in [Requests -> Request]
    BY DEF TypeOK
  <1>1. CASE SignTokens(r)
    <2>1. PICK d \in DeviceIds \ Minted :
             req' = [req EXCEPT ![r].pc = "insert", ![r].fresh = d, ![r].iat = now]
      BY <1>1 DEF SignTokens
    <2>2. req'[r].fresh = d /\ \A q \in Requests : req[q].fresh # d
      BY <1>b, <2>1, NoneAssumption DEF Minted
    <2> QED BY <2>2, OthersKept DEF FreshIsUnique
  <1>2. CASE ~SignTokens(r)
    BY <1>2, OthersKept, FreshKept DEF FreshIsUnique
  <1> QED BY <1>1, <1>2

(* Tokens are issued, and hence presented, after the row is stored.        *)
LEMMA KnownStep ==
  ASSUME IInv, NEW r \in Requests, Step(r)
  PROVE  KnownIsAnswered'
  <1> USE DEF IInv
  <1>b. req \in [Requests -> Request]
    BY DEF TypeOK
  <1>1. ASSUME NEW t \in issued' PROVE Answered(t.deviceId)'
    <2>1. CASE t \in issued
      BY <2>1, AnsweredStays DEF KnownIsAnswered
    <2>2. CASE t \notin issued
      <3>1. ReplyTokens(r)
        BY <2>2, <1>1, Arrivals
        DEF Arrival, FindSession, DeleteSession, SignTokens, InsertDevice,
            UpdatePassword, PurgeDevices, Abort
      <3>2. t.deviceId = req[r].fresh
        BY <3>1, <2>2, <1>1 DEF ReplyTokens
      <3>3. req'[r].fresh = req[r].fresh /\ req'[r].pc = "done"
        BY <1>b, <3>1 DEF ReplyTokens, Answer
      <3> QED BY <3>2, <3>3 DEF Answered
    <2> QED BY <2>1, <2>2
  <1>2. ASSUME NEW q \in Requests, req'[q].presented # None
        PROVE  Answered(req[q].presented)'
    <2>1. CASE req'[q].presented = req[q].presented
      BY <2>1, <1>2, AnsweredStays DEF KnownIsAnswered
    <2>2. CASE req'[q].presented # req[q].presented
      <3>1. PICK t \in issued : req'[q].presented = t.deviceId
        BY <2>2, <1>2, OthersKept, PresentedKept
      <3> QED BY <3>1, AnsweredStays DEF KnownIsAnswered
    <2> QED BY <2>1, <2>2
  <1> QED BY <1>1, <1>2 DEF KnownIsAnswered

(* InsertDevice stores a row for the session of its own request.           *)
LEMMA LiveStep ==
  ASSUME IInv, NEW r \in Requests, Step(r)
  PROVE  NotLiveYet'
  <1> USE DEF IInv
  <1>b. req \in [Requests -> Request] /\ device \in [DeviceIds -> Row \cup {None}]
    BY DEF TypeOK
  <1> SUFFICES ASSUME NEW d \in DeviceIds, Live(d)'
               PROVE  \E q \in Requests : /\ req'[q].fresh = d
                                          /\ req'[q].pc \in {"reply", "done"}
    BY DEF NotLiveYet
  <1>1. CASE Live(d)
    <2>1. PICK q \in Requests : req[q].fresh = d /\ req[q].pc \in {"reply", "done"}
      BY <1>1 DEF NotLiveYet
    <2>2. CASE q # r
      BY <2>1, <2>2, OthersKept
    <2>3. CASE q = r
      <3>1. req[r].pc = "reply" /\ req[r].fresh # None
        BY <2>1, <2>3, DoneIsFinal DEF ShapeOK, Shape
      <3>2. ReplyTokens(r) \/ Abort(r)
        BY <3>1 DEF Step, Enters, GoogleLogin, PresentToken, NewPassword,
           FindSession, DeleteSession, SignTokens, InsertDevice, UpdatePassword,
           PurgeDevices, At
      <3>3. req'[r].fresh = d /\ req'[r].pc \in {"reply", "done"}
        BY <1>b, <2>1, <2>3, <3>2 DEF ReplyTokens, Abort, Answer, Request
      <3> QED BY <3>3
    <2> QED BY <2>2, <2>3
  <1>2. CASE ~Live(d)
    <2>1. InsertDevice(r)
      BY <1>b, <1>2, Arrivals
      DEF Arrival, Live, FindSession, DeleteSession, SignTokens, ReplyTokens,
          UpdatePassword, PurgeDevices, Abort
    <2>2. req[r].fresh = d
      BY <1>b, <1>2, <2>1 DEF InsertDevice, Live
    <2>3. req'[r].fresh = d /\ req'[r].pc = "reply"
      BY <1>b, <2>1, <2>2 DEF InsertDevice, Goto
    <2> QED BY <2>3
  <1> QED BY <1>1, <1>2

-----------------------------------------------------------------------------
(* A step adds a taker to a session only by deleting its live row.         *)
TakenBy(q, d) ==
    /\ q.presented = d
    /\ \/ q.kind = "logout" /\ q.reply = "ok"
       \/ /\ q.kind = "refresh"
          /\ q.pc \in {"sign", "insert", "reply"} \/ q.fresh # None

(* The takers of a session, read off the requests.                         *)
LEMMA TakersAre ==
  ASSUME NEW d
  PROVE  /\ Takers(d) = {q \in Requests : TakenBy(req[q], d)}
         /\ Takers(d)' = {q \in Requests : TakenBy(req'[q], d)}
  BY DEF Takers, Exchanges, LogoutsOf, TakenBy

(* Only DeleteSession takes a session, and only from its live row.         *)
LEMMA TakersGrow ==
  ASSUME IInv, NEW r \in Requests, Step(r), NEW d \in DeviceIds,
         TakenBy(req'[r], d), ~TakenBy(req[r], d)
  PROVE  DeleteSession(r) /\ Live(d) /\ req[r].presented = d
  <1> USE DEF IInv
  <1>b. req \in [Requests -> Request] /\ Shape(req[r])
    BY DEF TypeOK, ShapeOK
  <1>1. ~Arrival(r)
    BY DEF Arrival, TakenBy
  <1>2. ~FindSession(r)
    <2> SUFFICES ASSUME FindSession(r) PROVE FALSE
      OBVIOUS
    <2>1. CASE Goto(r, "delete")
      BY <1>b, <2>1 DEF FindSession, Goto, TakenBy, At, Shape, Request
    <2>2. ASSUME NEW x \in Replies \ {"ok"}, Answer(r, x) PROVE FALSE
      BY <1>b, <2>2 DEF FindSession, Answer, TakenBy, At, Shape, Request
    <2> QED BY <2>1, <2>2 DEF FindSession, Refusal
  <1>3. ~SignTokens(r)
    <2> SUFFICES ASSUME SignTokens(r) PROVE FALSE
      OBVIOUS
    <2>1. req[r].pc = "sign"
      BY DEF SignTokens, At
    <2>2. /\ req'[r].kind = req[r].kind /\ req'[r].reply = req[r].reply
          /\ req'[r].presented = req[r].presented
      BY <1>b DEF SignTokens, Request
    <2> QED BY <1>b, <2>1, <2>2 DEF TakenBy, Shape
  <1>4. ~InsertDevice(r)
    BY <1>b DEF InsertDevice, Goto, TakenBy, At, Shape, Request
  <1>5. ~ReplyTokens(r)
    BY <1>b DEF ReplyTokens, Answer, TakenBy, At, Shape, Request
  <1>6. ASSUME NEW p \in Passwords, UpdatePassword(r, p) PROVE FALSE
    BY <1>b, <1>6 DEF UpdatePassword, TakenBy, At, Shape, Request
  <1>7. ~PurgeDevices(r)
    BY <1>b DEF PurgeDevices, Answer, TakenBy, At, Shape, Request
  <1>8. ~Abort(r)
    BY <1>b DEF Abort, TakenBy, At, Shape, Request
  <1>9. DeleteSession(r)
    BY <1>1, <1>2, <1>3, <1>4, <1>5, <1>6, <1>7, <1>8, Arrivals
  <1>10. req'[r].presented = req[r].presented
    <2>1. Goto(r, "sign") \/ \E x \in Replies : Answer(r, x)
      BY <1>9 DEF DeleteSession
    <2> QED BY <1>b, <2>1, MovedOn
  <1>11. req[r].presented = d
    BY <1>10 DEF TakenBy
  <1>12. Live(d)
    <2> SUFFICES ASSUME ~Live(d) PROVE FALSE
      OBVIOUS
    <2>1. Answer(r, "500")
      BY <1>9, <1>11 DEF DeleteSession
    <2> QED BY <1>b, <1>9, <2>1 DEF DeleteSession, Answer, TakenBy, At, Shape
  <1> QED BY <1>9, <1>11, <1>12

(* Hence a session is taken once, and stays dead after it.                 *)
LEMMA TakenStep ==
  ASSUME IInv, NEW r \in Requests, Step(r)
  PROVE  TakenOnce'
  <1> USE DEF IInv
  <1>b. req \in [Requests -> Request] /\ device \in [DeviceIds -> Row \cup {None}]
    BY DEF TypeOK
  <1> SUFFICES ASSUME NEW d \in DeviceIds
               PROVE  /\ \A q1, q2 \in Takers(d)' : q1 = q2
                      /\ Takers(d)' # {} => ~Live(d)'
    BY DEF TakenOnce
  <1>1. CASE DeleteSession(r) /\ Live(d) /\ req[r].presented = d
    <2>1. Takers(d) = {}
      BY <1>1 DEF TakenOnce
    <2>2. Takers(d)' \subseteq {r}
      BY <2>1, OthersKept, TakersAre
    <2>3. ~Live(d)'
      BY <1>b, <1>1 DEF DeleteSession, Live
    <2> QED BY <2>2, <2>3
  <1>2. CASE ~(DeleteSession(r) /\ Live(d) /\ req[r].presented = d)
    <2>1. Takers(d)' \subseteq Takers(d)
      BY <1>2, TakersGrow, OthersKept, TakersAre
    <2>2. ASSUME Takers(d)' # {}, Live(d)' PROVE FALSE
      <3>1. PICK q \in Requests : TakenBy(req[q], d)
        BY <2>1, <2>2, TakersAre
      <3>2. ~Live(d)
        BY <3>1, TakersAre DEF TakenOnce
      <3>3. InsertDevice(r) /\ req[r].fresh = d
        BY <1>b, <2>2, <3>2, Arrivals
        DEF Arrival, Live, FindSession, DeleteSession, SignTokens,
            InsertDevice, ReplyTokens, UpdatePassword, PurgeDevices, Abort
      <3>4. PICK q2 \in Requests : req[q2].fresh = d /\ req[q2].pc = "done"
        BY <3>1, NoneAssumption DEF TakenBy, KnownIsAnswered, Answered
      <3>5. q2 = r
        BY <3>3, <3>4, NoneAssumption DEF FreshIsUnique
      <3> QED BY <3>3, <3>4, <3>5 DEF InsertDevice, At
    <2> QED BY <2>1, <2>2 DEF TakenOnce
  <1> QED BY <1>1, <1>2

-----------------------------------------------------------------------------
(* The inductive invariant holds when no request has started.              *)
LEMMA InitIInv == Init => IInv
  <1> SUFFICES ASSUME Init PROVE IInv
    OBVIOUS
  <1>1. \A r \in Requests : req[r] = Waiting
    BY DEF Init
  <1>2. FreshIsUnique /\ KnownIsAnswered /\ NotLiveYet
    BY <1>1 DEF Init, Waiting, FreshIsUnique, KnownIsAnswered, NotLiveYet, Live
  <1>3. TakenOnce
    BY <1>1, TakersAre DEF Waiting, TakenBy, TakenOnce
  <1> QED BY <1>2, <1>3, TypeInit DEF IInv

(* A step of a request preserves the inductive invariant, ...              *)
LEMMA IInvStep ==
  ASSUME IInv, NEW r \in Requests, Step(r)
  PROVE  IInv'
  <1>1. TypeOK' /\ ShapeOK'
    BY TypeStep, OthersKept DEF IInv, ShapeOK
  <1> QED BY <1>1, FreshStep, KnownStep, LiveStep, TakenStep DEF IInv

(* ... and so does a quiet one.                                            *)
LEMMA IInvQuiet ==
  ASSUME IInv, Quiet
  PROVE  IInv'
  BY DEF Quiet, IInv, TypeOK, ShapeOK, FreshIsUnique, KnownIsAnswered, Answered,
     NotLiveYet, Live, TakenOnce, Takers, Exchanges, LogoutsOf

(* Every step preserves the inductive invariant.                           *)
LEMMA NextIInv == IInv /\ [Next]_vars => IInv'
  BY IInvStep, IInvQuiet, NextIsStep DEF IInv

(* The inductive invariant holds of every behaviour of the handlers.       *)
THEOREM Inductive == Spec => []IInv
  BY InitIInv, NextIInv, PTL DEF Spec

(* Every variable keeps its type in every handler of Sessions.             *)
THEOREM TypeCorrect == Spec => []TypeOK
  <1>1. IInv => TypeOK
    BY DEF IInv
  <1> QED BY <1>1, Inductive, PTL

(* However many requests carry a refresh token at the same time, one of    *)
(* them at most exchanges it (DeleteDevice within RefreshToken).           *)
THEOREM SingleExchange == Spec => []ExchangedOnce
  <1>1. IInv => ExchangedOnce
    BY DEF IInv, TakenOnce, Takers, ExchangedOnce
  <1> QED BY <1>1, Inductive, PTL

(* A logout answered 204 leaves no way to a session: no refresh took the   *)
(* token of the session it closed, none can any more (DeleteDevice).       *)
THEOREM FinalLogout == Spec => []LogoutIsFinal
  <1>1. ASSUME IInv PROVE LogoutIsFinal
    <2> SUFFICES ASSUME NEW d \in DeviceIds, NEW r \in LogoutsOf(d)
                 PROVE  Exchanges(d) = {} /\ ~Live(d)
      BY DEF LogoutIsFinal
    <2>1. r \in Takers(d)
      BY DEF Takers
    <2>2. ASSUME NEW q \in Exchanges(d) PROVE FALSE
      BY <1>1, <2>1, <2>2 DEF IInv, TakenOnce, Takers, Exchanges, LogoutsOf
    <2> QED BY <1>1, <2>1, <2>2 DEF IInv, TakenOnce
  <1> QED BY <1>1, Inductive, PTL

-----------------------------------------------------------------------------
(* What the row of a session says, and who may delete it.                  *)

(* The row of d has been inserted, and may be gone again.                  *)
Inserted(d) ==
    \E r \in Requests : req[r].fresh = d /\ req[r].pc \in {"reply", "done"}

(* What a request knows of the rows between two of its steps.              *)
Knows(q) ==
    /\ q.pc \in {"sign", "insert", "reply"} => q.kind # "newPassword"
    /\ q.pc = "reply" /\ Live(q.fresh) =>
          device[q.fresh] = [userId |-> q.user, lastActiveDate |-> q.iat]
    /\ q.pc = "delete" /\ Live(q.presented) =>
          device[q.presented].userId = q.user
    /\ \A d \in q.doomed :
          /\ d \in DeviceIds /\ Inserted(d)
          /\ q.pc = "purge" /\ Live(d) => device[d].userId = q.user
          /\ q.kind = "newPassword" /\ q.reply = "ok" => ~Live(d)

KnowsOK == \A r \in Requests : Knows(req[r])

(* The request that opened a session, its token, its row and whoever       *)
(* presents the token agree on whose it is.                                *)
UsersAgree ==
    \A o \in Requests : req[o].fresh # None =>
       /\ \A t \in issued :
             t.deviceId = req[o].fresh => t.userId = req[o].user
       /\ \A r \in Requests :
             req[r].presented = req[o].fresh => req[r].user = req[o].user
       /\ Live(req[o].fresh) => device[req[o].fresh].userId = req[o].user

RowsInv == IInv /\ TokenMatchesRow /\ KnowsOK /\ UsersAgree

-----------------------------------------------------------------------------
(* A row that was stored stays stored, as far as the requests tell.        *)
LEMMA InsertedStays ==
  ASSUME IInv, NEW r \in Requests, Step(r), NEW d, Inserted(d), d # None
  PROVE  Inserted(d)'
  <1> USE DEF IInv
  <1>b. req \in [Requests -> Request]
    BY DEF TypeOK
  <1>1. PICK q \in Requests : req[q].fresh = d /\ req[q].pc \in {"reply", "done"}
    BY DEF Inserted
  <1>2. CASE q # r
    BY <1>1, <1>2, OthersKept DEF Inserted
  <1>3. CASE q = r
    <2>1. req[r].pc = "reply"
      BY <1>1, <1>3, DoneIsFinal
    <2>2. ReplyTokens(r) \/ Abort(r)
      BY <2>1 DEF Step, Enters, GoogleLogin, PresentToken, NewPassword,
         FindSession, DeleteSession, SignTokens, InsertDevice, UpdatePassword,
         PurgeDevices, At
    <2>3. req'[r].fresh = d /\ req'[r].pc \in {"reply", "done"}
      BY <1>b, <1>1, <1>3, <2>2 DEF ReplyTokens, Abort, Answer, Request
    <2> QED BY <2>3 DEF Inserted
  <1> QED BY <1>2, <1>3

(* What a step does to one row.                                            *)
Deletes(r, d) ==
    /\ Live(d) /\ device'[d] = None
    /\ \/ DeleteSession(r) /\ req[r].presented = d
       \/ PurgeDevices(r) /\ d \in RowsOf(req[r].user)

Inserts(r, d) ==
    /\ InsertDevice(r) /\ req[r].fresh = d /\ ~Inserted(d)
    /\ device'[d] = [userId |-> req[r].user, lastActiveDate |-> req[r].iat]

(* A step leaves a row, deletes it, or inserts it.                         *)
LEMMA RowStep ==
  ASSUME IInv, NEW r \in Requests, Step(r), NEW d \in DeviceIds
  PROVE  device'[d] = device[d] \/ Deletes(r, d) \/ Inserts(r, d)
  <1> USE DEF IInv
  <1>b. device \in [DeviceIds -> Row \cup {None}]
    BY DEF TypeOK
  <1>1. CASE DeleteSession(r)
    BY <1>b, <1>1 DEF DeleteSession, Deletes, Live
  <1>2. CASE PurgeDevices(r)
    BY <1>b, <1>2 DEF PurgeDevices, Deletes, Live, RowsOf
  <1>3. CASE InsertDevice(r)
    <2>1. CASE req[r].fresh # d
      BY <1>b, <1>3, <2>1 DEF InsertDevice
    <2>2. CASE req[r].fresh = d
      <3>1. ~Inserted(d)
        BY <1>3, <2>2, NoneAssumption DEF Inserted, FreshIsUnique, InsertDevice, At
      <3> QED BY <1>b, <1>3, <2>2, <3>1 DEF InsertDevice, Inserts
    <2> QED BY <2>1, <2>2
  <1>4. CASE ~DeleteSession(r) /\ ~PurgeDevices(r) /\ ~InsertDevice(r)
    BY <1>4, Arrivals DEF Arrival, FindSession, SignTokens, ReplyTokens,
       UpdatePassword, Abort
  <1> QED BY <1>1, <1>2, <1>3, <1>4

(* Hence a stored row changes in no other way than by being deleted.       *)
LEMMA InsertedRowsLast ==
  ASSUME IInv, NEW r \in Requests, Step(r), NEW d \in DeviceIds,
         Inserted(d), Live(d)'
  PROVE  Live(d) /\ device'[d] = device[d]
  BY RowStep DEF Deletes, Inserts, Live

(* What waiting requests know outlasts the steps of other requests.        *)
LEMMA OthersKnow ==
  ASSUME RowsInv, NEW r \in Requests, Step(r), NEW q \in Requests, q # r
  PROVE  Knows(req[q])'
  <1> USE DEF RowsInv
  <1>a. req'[q] = req[q]
    BY OthersKept DEF IInv
  <1>b. Knows(req[q]) /\ req[q] \in Request /\ Shape(req[q])
    BY DEF KnowsOK, IInv, TypeOK, ShapeOK
  <1>0. \A d \in DeviceIds : Inserted(d) /\ device'[d] # None =>
           device[d] # None /\ device'[d] = device[d]
    BY InsertedRowsLast DEF Live
  <1>1. req[q].pc = "reply" /\ device'[req[q].fresh] # None =>
           /\ device[req[q].fresh] # None
           /\ device'[req[q].fresh] = device[req[q].fresh]
    <2> SUFFICES ASSUME req[q].pc = "reply"
                 PROVE  req[q].fresh \in DeviceIds /\ Inserted(req[q].fresh)
      BY <1>0
    <2> QED BY <1>b DEF Shape, Request, Inserted
  <1>2. req[q].pc = "delete" /\ device'[req[q].presented] # None =>
           /\ device[req[q].presented] # None
           /\ device'[req[q].presented] = device[req[q].presented]
    <2> SUFFICES ASSUME req[q].pc = "delete"
                 PROVE  /\ req[q].presented \in DeviceIds
                        /\ Inserted(req[q].presented)
      BY <1>0
    <2>1. req[q].presented \in DeviceIds /\ req[q].presented # None
      BY <1>b DEF Shape, Request
    <2>2. Answered(req[q].presented)
      BY <2>1 DEF IInv, KnownIsAnswered
    <2> QED BY <2>1, <2>2 DEF Answered, Inserted
  <1>3. ASSUME NEW d \in req[q].doomed
        PROVE  /\ d \in DeviceIds /\ Inserted(d)'
               /\ device'[d] # None => device[d] # None /\ device'[d] = device[d]
    <2>1. d \in DeviceIds /\ Inserted(d) /\ d # None
      BY <1>b, <1>3, NoneAssumption DEF Knows
    <2> QED BY <2>1, <1>0, InsertedStays
  <1> QED BY <1>a, <1>b, <1>1, <1>2, <1>3 DEF Knows, Live

(* A request starts with no doomed session.                                *)
LEMMA StartsInnocent ==
  ASSUME TypeOK, NEW r \in Requests, Step(r), req[r].pc = "idle"
  PROVE  req'[r].doomed = {}
  <1>b. req \in [Requests -> Request]
    BY DEF TypeOK
  <1>1. ASSUME NEW k, NEW u, NEW d, NEW x, NEW y, Start(r, k, u, d, x, y)
        PROVE  req'[r].doomed = {}
    BY <1>b, <1>1 DEF Start, Waiting
  <1>2. ASSUME Enters(r) PROVE req'[r].doomed = {}
    BY <1>1, <1>2 DEF Enters
  <1>3. ASSUME NEW u \in Users, GoogleLogin(r, u)
        PROVE  req'[r].doomed = {}
    BY <1>1, <1>3 DEF GoogleLogin
  <1>4. ASSUME NEW t \in issued, NEW k, PresentToken(r, k, t)
        PROVE  req'[r].doomed = {}
    BY <1>1, <1>4 DEF PresentToken
  <1>5. ASSUME NEW u \in Users, NEW a \in BOOLEAN, NewPassword(r, u, a)
        PROVE  req'[r].doomed = {}
    BY <1>1, <1>5 DEF NewPassword
  <1> QED BY <1>2, <1>3, <1>4, <1>5
    DEF Step, FindSession, DeleteSession, SignTokens, InsertDevice,
        ReplyTokens, UpdatePassword, PurgeDevices, Abort, At

(* The steps of a request that leave its doomed sessions as they are.      *)
LEMMA DoomedLasts ==
  ASSUME RowsInv, NEW r \in Requests, Step(r), NEW d \in req[r].doomed
  PROVE  /\ d \in DeviceIds /\ Inserted(d)'
         /\ device'[d] # None => device[d] # None /\ device'[d] = device[d]
  <1>1. d \in DeviceIds /\ Inserted(d) /\ d # None
    BY NoneAssumption DEF RowsInv, KnowsOK, Knows
  <1> QED BY <1>1, InsertedStays, InsertedRowsLast DEF RowsInv, Live

(* A request learns what it needs to know by its own steps.                *)
LEMMA OwnKnows ==
  ASSUME RowsInv, NEW r \in Requests, Step(r)
  PROVE  Knows(req[r])'
  <1> USE DEF RowsInv
  <1>b. /\ req \in [Requests -> Request] /\ req[r] \in Request
        /\ device \in [DeviceIds -> Row \cup {None}]
        /\ Shape(req[r]) /\ Knows(req[r])
    BY DEF KnowsOK, IInv, TypeOK, ShapeOK
  <1>1. CASE Arrival(r)
    <2>1. req'[r].doomed = {}
      BY <1>1, StartsInnocent DEF Arrival, Waiting, IInv
    <2> QED BY <1>1, <2>1 DEF Arrival, Knows
  <1>2. CASE FindSession(r)
    <2>1. /\ req'[r].doomed = req[r].doomed /\ req'[r].kind # "newPassword"
          /\ req'[r].presented = req[r].presented
          /\ req'[r].user = req[r].user /\ req'[r].pc \in {"delete", "done"}
          /\ req'[r].pc = "delete" =>
                device'[req[r].presented].userId = req[r].user
      BY <1>b, <1>2 DEF FindSession, Goto, Answer, At, Shape, Request
    <2> QED BY <2>1, DoomedLasts DEF Knows
  <1>3. CASE DeleteSession(r)
    <2>1. /\ req'[r].doomed = req[r].doomed /\ req'[r].kind # "newPassword"
          /\ req'[r].pc \in {"sign", "done"}
      BY <1>b, <1>3 DEF DeleteSession, Goto, Answer, At, Shape, Request
    <2> QED BY <2>1, DoomedLasts DEF Knows
  <1>4. CASE SignTokens(r)
    <2>1. /\ req'[r].doomed = req[r].doomed /\ req'[r].kind # "newPassword"
          /\ req'[r].pc = "insert"
      BY <1>b, <1>4 DEF SignTokens, At, Request, Knows
    <2> QED BY <2>1, DoomedLasts DEF Knows
  <1>5. CASE InsertDevice(r)
    <2>1. /\ req'[r].doomed = req[r].doomed /\ req'[r].kind # "newPassword"
          /\ req'[r].pc = "reply" /\ req'[r].user = req[r].user
          /\ req'[r].iat = req[r].iat /\ req'[r].fresh = req[r].fresh
      BY <1>b, <1>5 DEF InsertDevice, Goto, At, Request, Knows
    <2>2. device'[req[r].fresh] =
             [userId |-> req[r].user, lastActiveDate |-> req[r].iat]
      BY <1>b, <1>5 DEF InsertDevice, At, Shape, Request
    <2> QED BY <2>1, <2>2, DoomedLasts DEF Knows
  <1>6. CASE ReplyTokens(r)
    <2>1. /\ req'[r].doomed = req[r].doomed /\ req'[r].kind # "newPassword"
          /\ req'[r].pc = "done"
      BY <1>b, <1>6 DEF ReplyTokens, Answer, At, Request, Knows
    <2> QED BY <2>1, DoomedLasts DEF Knows
  <1>7. ASSUME NEW p \in Passwords, UpdatePassword(r, p)
        PROVE  Knows(req[r])'
    <2>1. /\ req'[r].doomed = RowsOf(req[r].user) /\ req'[r].pc = "purge"
          /\ req'[r].user = req[r].user /\ req'[r].reply = "none"
          /\ device' = device
      BY <1>b, <1>7 DEF UpdatePassword, At, Request
    <2>2. ASSUME NEW d \in RowsOf(req[r].user)
          PROVE  /\ d \in DeviceIds /\ Inserted(d)'
                 /\ device[d].userId = req[r].user
      <3>1. d \in DeviceIds /\ Live(d) /\ device[d].userId = req[r].user
        BY <2>2 DEF RowsOf, Live
      <3>2. Inserted(d) /\ d # None
        BY <3>1, NoneAssumption DEF IInv, NotLiveYet, Inserted
      <3> QED BY <3>1, <3>2, InsertedStays
    <2> QED BY <2>1, <2>2 DEF Knows
  <1>8. CASE PurgeDevices(r)
    <2>1. /\ req'[r].doomed = req[r].doomed /\ req'[r].pc = "done"
          /\ req[r].pc = "purge"
      BY <1>b, <1>8 DEF PurgeDevices, Answer, At, Request
    <2>2. ASSUME NEW d \in req[r].doomed PROVE device'[d] = None
      <3>1. d \in DeviceIds
        BY <1>b, <2>2 DEF Knows
      <3>2. Live(d) => d \in RowsOf(req[r].user)
        BY <1>b, <2>1, <2>2, <3>1 DEF Knows, RowsOf, Live
      <3> QED BY <1>8, <3>1, <3>2 DEF PurgeDevices, Live
    <2> QED BY <2>1, <2>2, DoomedLasts DEF Knows, Live
  <1>9. CASE Abort(r)
    <2>1. /\ req'[r].doomed = req[r].doomed /\ req'[r].pc = req[r].pc
          /\ req'[r].kind = req[r].kind /\ req'[r].user = req[r].user
          /\ req'[r].iat = req[r].iat /\ req'[r].fresh = req[r].fresh
          /\ req'[r].presented = req[r].presented
          /\ req'[r].reply = "lost" /\ device' = device
      BY <1>b, <1>9 DEF Abort, Request
    <2> QED BY <1>b, <2>1, DoomedLasts DEF Knows, Live
  <1> QED
    BY <1>1, <1>2, <1>3, <1>4, <1>5, <1>6, <1>7, <1>8, <1>9, Arrivals DEF IInv

-----------------------------------------------------------------------------
(* A token that is issued agrees with its row when it is, and its row does *)
(* not change afterwards.                                                  *)
LEMMA TokensStep ==
  ASSUME RowsInv, NEW r \in Requests, Step(r)
  PROVE  TokenMatchesRow'
  <1>b. issued \subseteq Token /\ req \in [Requests -> Request]
    BY DEF RowsInv, IInv, TypeOK
  <1> SUFFICES ASSUME NEW t \in issued', Live(t.deviceId)'
               PROVE  device'[t.deviceId] =
                         [userId |-> t.userId, lastActiveDate |-> t.iat]
    BY DEF TokenMatchesRow
  <1>1. CASE t \in issued
    <2>1. t.deviceId \in DeviceIds /\ Inserted(t.deviceId)
      BY <1>b, <1>1
      DEF RowsInv, IInv, KnownIsAnswered, Answered, Inserted, Token
    <2>2. Live(t.deviceId) /\ device'[t.deviceId] = device[t.deviceId]
      BY <2>1, InsertedRowsLast DEF RowsInv
    <2> QED BY <1>1, <2>2 DEF RowsInv, TokenMatchesRow
  <1>2. CASE t \notin issued
    <2>1. ReplyTokens(r)
      BY <1>2, Arrivals
      DEF RowsInv, IInv, Arrival, FindSession, DeleteSession, SignTokens,
          InsertDevice, UpdatePassword, PurgeDevices, Abort
    <2>2. /\ req[r].pc = "reply" /\ device' = device
          /\ t = [userId |-> req[r].user, deviceId |-> req[r].fresh,
                  iat |-> req[r].iat]
      BY <1>2, <2>1 DEF ReplyTokens, At
    <2> QED BY <2>2 DEF RowsInv, KnowsOK, Knows, Live
  <1> QED BY <1>1, <1>2

(* Whose a session is, is settled before its row or its token exist.       *)
LEMMA UsersStep ==
  ASSUME RowsInv, NEW r \in Requests, Step(r)
  PROVE  UsersAgree'
  <1> USE DEF RowsInv, IInv
  <1>b. /\ req \in [Requests -> Request] /\ issued \subseteq Token
        /\ device \in [DeviceIds -> Row \cup {None}]
    BY DEF TypeOK
  <1> SUFFICES ASSUME NEW o \in Requests, req'[o].fresh # None
               PROVE  /\ \A t \in issued' : t.deviceId = req'[o].fresh =>
                            t.userId = req'[o].user
                      /\ \A q \in Requests :
                            req'[q].presented = req'[o].fresh =>
                               req'[q].user = req'[o].user
                      /\ device'[req'[o].fresh] # None =>
                            device'[req'[o].fresh].userId = req'[o].user
    BY DEF UsersAgree, Live
  <1>1. CASE req'[o].fresh = req[o].fresh
    <2>1. req'[o].user = req[o].user /\ req[o].fresh \in DeviceIds
      <3>1. CASE o # r
        BY <1>b, <1>1, <3>1, OthersKept DEF Request
      <3>2. CASE o = r
        <4>1. ~Arrival(r)
          BY <1>1, <3>2 DEF Arrival, Waiting
        <4> QED BY <1>b, <1>1, <3>2, <4>1, SameRequest DEF Request
      <3> QED BY <3>1, <3>2
    <2>2. ASSUME NEW t \in issued', t.deviceId = req[o].fresh
          PROVE  t.userId = req[o].user
      <3>1. CASE t \in issued
        BY <1>1, <2>2, <3>1 DEF UsersAgree
      <3>2. CASE t \notin issued
        <4>1. ReplyTokens(r)
          BY <2>2, <3>2, Arrivals
          DEF Arrival, FindSession, DeleteSession, SignTokens, InsertDevice,
              UpdatePassword, PurgeDevices, Abort
        <4>2. t.deviceId = req[r].fresh /\ t.userId = req[r].user
          BY <2>2, <3>2, <4>1 DEF ReplyTokens
        <4> QED BY <1>1, <2>2, <4>2 DEF FreshIsUnique
      <3> QED BY <3>1, <3>2
    <2>3. ASSUME NEW q \in Requests, req'[q].presented = req[o].fresh
          PROVE  req'[q].user = req[o].user
      <3>1. CASE req'[q].presented = req[q].presented
                 /\ req'[q].user = req[q].user
        BY <1>1, <2>3, <3>1 DEF UsersAgree
      <3>2. CASE q = r /\ Arrival(r)
        <4>1. PICK t \in issued : /\ req'[r].presented = t.deviceId
                                  /\ req'[r].user = t.userId
          BY <1>1, <2>3, <3>2 DEF Arrival
        <4> QED BY <1>1, <2>3, <3>2, <4>1 DEF UsersAgree
      <3> QED BY <3>1, <3>2, OthersKept, SameRequest
    <2>4. ASSUME device'[req[o].fresh] # None
          PROVE  device'[req[o].fresh].userId = req[o].user
      <3>1. CASE device'[req[o].fresh] = device[req[o].fresh]
        BY <1>1, <2>4, <3>1 DEF UsersAgree, Live
      <3>2. CASE Inserts(r, req[o].fresh)
        BY <1>1, <3>2 DEF Inserts, FreshIsUnique
      <3> QED BY <2>1, <2>4, <3>1, <3>2, RowStep DEF Deletes
    <2> QED BY <1>1, <2>1, <2>2, <2>3, <2>4
  <1>2. CASE req'[o].fresh # req[o].fresh
    <2>1. o = r /\ SignTokens(r)
      BY <1>2, OthersKept, FreshKept
    <2>2. PICK d \in DeviceIds \ Minted :
             req' = [req EXCEPT ![r].pc = "insert", ![r].fresh = d,
                                ![r].iat = now]
      BY <2>1 DEF SignTokens
    <2>3. /\ req'[r].fresh = d /\ d # None
          /\ \A q \in Requests : /\ req[q].fresh # d
                                 /\ req'[q].presented = req[q].presented
      BY <1>b, <2>2, NoneAssumption DEF Minted
    <2>4. issued' = issued /\ device' = device
      BY <2>1 DEF SignTokens
    <2>5. /\ \A t \in issued : t.deviceId # d
          /\ \A q \in Requests : req[q].presented # d
          /\ ~Live(d)
      BY <2>3 DEF KnownIsAnswered, Answered, NotLiveYet
    <2> QED BY <2>1, <2>3, <2>4, <2>5 DEF Live
  <1> QED BY <1>1, <1>2

(* No request knows anything, and no token is issued, at first.            *)
LEMMA InitRowsInv == Init => RowsInv
  <1> SUFFICES ASSUME Init PROVE RowsInv
    OBVIOUS
  <1>1. \A r \in Requests : req[r] = Waiting
    BY DEF Init
  <1>2. TokenMatchesRow /\ KnowsOK /\ UsersAgree
    BY <1>1 DEF Init, TokenMatchesRow, KnowsOK, Knows, UsersAgree, Waiting
  <1> QED BY <1>2, InitIInv DEF RowsInv

(* A step of a request keeps what tokens and requests say of rows true.    *)
LEMMA RowsInvStep ==
  ASSUME RowsInv, NEW r \in Requests, Step(r)
  PROVE  RowsInv'
  <1>1. KnowsOK'
    BY OwnKnows, OthersKnow DEF KnowsOK
  <1> QED BY <1>1, IInvStep, TokensStep, UsersStep DEF RowsInv

(* A quiet step touches neither.                                           *)
LEMMA RowsInvQuiet ==
  ASSUME RowsInv, Quiet
  PROVE  RowsInv'
  <1>1. IInv'
    BY IInvQuiet DEF RowsInv
  <1>2. TokenMatchesRow'
    BY DEF Quiet, RowsInv, TokenMatchesRow, Live
  <1>3. KnowsOK'
    BY DEF Quiet, RowsInv, KnowsOK, Knows, Inserted, Live
  <1>4. UsersAgree'
    BY DEF Quiet, RowsInv, UsersAgree, Live
  <1> QED BY <1>1, <1>2, <1>3, <1>4 DEF RowsInv

(* Every step keeps what the tokens and the requests say of the rows true. *)
LEMMA NextRowsInv == RowsInv /\ [Next]_vars => RowsInv'
  BY RowsInvStep, RowsInvQuiet, NextIsStep DEF RowsInv, IInv

(* RowsInv holds of every behaviour of the handlers.                       *)
THEOREM RowsTrue == Spec => []RowsInv
  BY InitRowsInv, NextRowsInv, PTL DEF Spec

(* A genuine refresh token is never rejected because its row says another  *)
(* second or another user (CreateDevice, CheckDeviceCredentials).          *)
THEOREM TokensMatchRows == Spec => []TokenMatchesRow
  <1>1. RowsInv => TokenMatchesRow
    BY DEF RowsInv
  <1> QED BY <1>1, RowsTrue, PTL

(* A new password that was answered has ended every session that was open  *)
(* when the password changed (AuthService.newPassword), whatever requests  *)
(* ran in between.                                                         *)
THEOREM PasswordsEndSessions == Spec => []NewPasswordEndsSessions
  <1>1. RowsInv => NewPasswordEndsSessions
    BY DEF RowsInv, KnowsOK, Knows, NewPasswordEndsSessions
  <1> QED BY <1>1, RowsTrue, PTL

(* No handler stores a row again for a session a client has been given     *)
(* (CreateDevice).                                                         *)
THEOREM ClosedForGood == Spec => NoResurrection
  <1> DEFINE A == \A d \in DeviceIds :
                     (~Live(d) /\ Live(d)') => \A t \in issued : t.deviceId # d
  <1>1. ASSUME RowsInv, [Next]_vars PROVE [A]_vars
    <2>1. ASSUME NEW r \in Requests, Step(r),
                 NEW d \in DeviceIds, ~Live(d), Live(d)'
          PROVE  \A t \in issued : t.deviceId # d
      <3>1. ~Inserted(d)
        BY <1>1, <2>1, RowStep DEF RowsInv, Deletes, Inserts, Live
      <3> QED BY <1>1, <3>1
        DEF RowsInv, IInv, KnownIsAnswered, Answered, Inserted
    <2>2. CASE Quiet
      BY <2>2 DEF Quiet, Live
    <2> QED BY <1>1, <2>1, <2>2, NextIsStep DEF RowsInv, IInv
  <1> QED BY <1>1, RowsTrue, PTL DEF Spec, NoResurrection

(* The request that ends a session is one of the session's user.           *)
LEMMA EndsStep ==
  ASSUME RowsInv, NEW r \in Requests, Step(r),
         NEW d \in DeviceIds, Live(d), ~Live(d)'
  PROVE  req[r].user = device[d].userId /\ req'[r] # req[r]
  <1>b. req \in [Requests -> Request] /\ device \in [DeviceIds -> Row \cup {None}]
    BY DEF RowsInv, IInv, TypeOK
  <1>1. Deletes(r, d)
    <2>1. Inserted(d)
      BY DEF RowsInv, IInv, NotLiveYet, Inserted
    <2> QED BY <2>1, RowStep DEF RowsInv, Inserts, Live
  <1>2. CASE DeleteSession(r) /\ req[r].presented = d
    <2>1. req[r].pc = "delete" /\ req'[r].pc # "delete"
      BY <1>b, <1>2 DEF DeleteSession, At, Goto, Answer, Request
    <2> QED BY <1>2, <2>1 DEF RowsInv, KnowsOK, Knows
  <1>3. CASE PurgeDevices(r) /\ d \in RowsOf(req[r].user)
    <2>1. req[r].pc = "purge" /\ req'[r].pc # "purge"
      BY <1>b, <1>3 DEF PurgeDevices, At, Answer, Request
    <2> QED BY <1>3, <2>1 DEF RowsOf
  <1> QED BY <1>1, <1>2, <1>3 DEF Deletes

(* A session ends by a request of its own user only: the row cannot have   *)
(* passed to another user between the check of DeleteDevice and its        *)
(* deletion, and the purge takes the rows of its user only.                *)
THEOREM OwnersEndSessions == Spec => OnlyOwnersEndSessions
  <1> DEFINE A == \A d \in DeviceIds :
                     (Live(d) /\ ~Live(d)') =>
                        \E r \in Requests : /\ req[r].user = device[d].userId
                                            /\ req'[r] # req[r]
  <1>1. ASSUME RowsInv, [Next]_vars PROVE [A]_vars
    <2>1. CASE Quiet
      BY <2>1 DEF Quiet, Live
    <2> QED BY <1>1, <2>1, EndsStep, NextIsStep DEF RowsInv, IInv
  <1> QED BY <1>1, RowsTrue, PTL DEF Spec, OnlyOwnersEndSessions

-----------------------------------------------------------------------------
(* For module AuthenticationProofs: which requests a session can come      *)
(* from, and which of them a new password leaves.                          *)

(* Request r has a live session, is opening one, or renews a live one.     *)
Watched(r) ==
    \/ req[r].pc \in {"sign", "insert"} /\ req[r].reply = "none"
    \/ req[r].fresh # None /\ Live(req[r].fresh)
    \/ req[r].pc \in {"find", "delete"} /\ Live(req[r].presented)

(* What a request presents was stored before.                              *)
LEMMA PresentedIsInserted ==
  ASSUME IInv, NEW q \in Requests, req[q].pc \in {"find", "delete"}
  PROVE  /\ req[q].presented \in DeviceIds
         /\ Inserted(req[q].presented)
  <1>1. req[q].presented \in DeviceIds /\ req[q].presented # None
    BY DEF IInv, TypeOK, ShapeOK, Shape, Request
  <1>2. Answered(req[q].presented)
    BY <1>1 DEF IInv, KnownIsAnswered
  <1> QED BY <1>1, <1>2 DEF Answered, Inserted

(* A request comes to be watched by arriving, and in no other way.         *)
LEMMA WatchedStep ==
  ASSUME RowsInv, NEW r \in Requests, Step(r), NEW q \in Requests, Watched(q)'
  PROVE  \/ Watched(q) /\ req'[q].user = req[q].user
         \/ q = r /\ Arrival(r)
  <1> USE DEF RowsInv, IInv
  <1>b. /\ req \in [Requests -> Request] /\ req[r] \in Request
        /\ device \in [DeviceIds -> Row \cup {None}] /\ Shape(req[r])
    BY DEF TypeOK, ShapeOK
  <1>1. CASE q # r
    <2>1. req'[q] = req[q] /\ req[q] \in Request
      BY <1>1, <1>b, OthersKept
    <2>2. ASSUME req[q].fresh # None, device'[req[q].fresh] # None
          PROVE  Live(req[q].fresh)
      <3>1. req[q].fresh \in DeviceIds /\ ~Inserts(r, req[q].fresh)
        BY <1>1, <2>1, <2>2 DEF Inserts, FreshIsUnique, Request
      <3> QED BY <2>2, <3>1, RowStep DEF Deletes, Live
    <2>3. ASSUME req[q].pc \in {"find", "delete"},
                 device'[req[q].presented] # None
          PROVE  Live(req[q].presented)
      BY <2>3, PresentedIsInserted, InsertedRowsLast DEF Live
    <2> QED BY <2>1, <2>2, <2>3 DEF Watched, Live
  <1>2. CASE q = r /\ ~Arrival(r)
    <2>1. req'[r].user = req[r].user
      BY <1>2, SameRequest
    <2>2. CASE FindSession(r)
      <3>1. /\ req[r].pc = "find" /\ device' = device /\ req[r].fresh = None
            /\ Goto(r, "delete") \/ \E x \in Replies : Answer(r, x)
        BY <1>b, <2>2 DEF FindSession, Refusal, At, Shape
      <3>2. req'[r].presented = req[r].presented /\ req'[r].fresh = None
        BY <1>b, <3>1, MovedOn
      <3>3. req'[r].pc \in {"delete", "done"}
        BY <1>b, <3>1 DEF Goto, Answer, Request
      <3> QED BY <1>2, <2>1, <3>1, <3>2, <3>3 DEF Watched, Live
    <2>3. CASE DeleteSession(r)
      <3>1. req[r].pc = "delete" /\ req[r].fresh = None
        BY <1>b, <2>3 DEF DeleteSession, At, Shape
      <3>2. CASE Live(req[r].presented)
        BY <1>2, <2>1, <3>1, <3>2 DEF Watched
      <3>3. CASE ~Live(req[r].presented)
        <4>1. Answer(r, "500")
          BY <2>3, <3>3 DEF DeleteSession
        <4>2. req'[r].pc = "done" /\ req'[r].fresh = None
          BY <1>b, <3>1, <4>1 DEF Answer, Request
        <4> QED BY <1>2, <4>2 DEF Watched
      <3> QED BY <3>2, <3>3
    <2>4. CASE SignTokens(r) \/ InsertDevice(r)
      BY <1>2, <2>1, <2>4 DEF SignTokens, InsertDevice, At, Watched
    <2>5. CASE ReplyTokens(r)
      <3>1. /\ device' = device /\ req'[r].pc = "done"
            /\ req'[r].fresh = req[r].fresh
        BY <1>b, <2>5 DEF ReplyTokens, Answer, Request
      <3> QED BY <1>2, <2>1, <3>1 DEF Watched, Live
    <2>6. CASE \E p \in Passwords : UpdatePassword(r, p)
      <3>1. req'[r].pc = "purge" /\ req'[r].fresh = None
        BY <1>b, <2>6 DEF UpdatePassword, At, Shape, Request
      <3> QED BY <1>2, <3>1 DEF Watched
    <2>7. CASE PurgeDevices(r)
      <3>1. req'[r].pc = "done" /\ req'[r].fresh = None
        BY <1>b, <2>7 DEF PurgeDevices, Answer, At, Shape, Request
      <3> QED BY <1>2, <3>1 DEF Watched
    <2>8. CASE Abort(r)
      <3>1. /\ device' = device /\ req'[r].reply = "lost"
            /\ req'[r].fresh = req[r].fresh /\ req'[r].pc = req[r].pc
            /\ req'[r].presented = req[r].presented
        BY <1>b, <2>8 DEF Abort, Request
      <3> QED BY <1>2, <2>1, <3>1 DEF Watched, Live
    <2> QED
      BY <1>2, <2>2, <2>3, <2>4, <2>5, <2>6, <2>7, <2>8, Arrivals
  <1> QED BY <1>1, <1>2

(* Of the user's requests, a purge leaves those that are opening a session *)
(* and have not stored its row.                                            *)
LEMMA PurgeLeaves ==
  ASSUME RowsInv, NEW r \in Requests, PurgeDevices(r),
         NEW q \in Requests, Watched(q)', req[q].user = req[r].user
  PROVE  req[q].pc \in {"sign", "insert"} /\ req[q].reply = "none"
  <1> USE DEF RowsInv, IInv
  <1>b. /\ req \in [Requests -> Request] /\ req[r] \in Request
        /\ device \in [DeviceIds -> Row \cup {None}] /\ Shape(req[r])
        /\ Step(r)
    BY DEF TypeOK, ShapeOK, Step
  <1>1. req'[r].pc = "done" /\ req'[r].fresh = None
    BY <1>b DEF PurgeDevices, Answer, At, Shape, Request
  <1>2. q # r /\ req'[q] = req[q] /\ req[q] \in Request
    BY <1>1, <1>b, OthersKept DEF Watched
  <1>3. \A d \in DeviceIds : d \in RowsOf(req[r].user) => ~Live(d)'
    BY <1>b DEF PurgeDevices, Live
  <1>4. ASSUME req[q].fresh # None PROVE ~Live(req[q].fresh)'
    <2>1. req[q].fresh \in DeviceIds /\ req'[q].fresh = req[q].fresh
      BY <1>2, <1>4 DEF Request
    <2>2. CASE Live(req[q].fresh)
      BY <1>3, <1>4, <2>1, <2>2 DEF UsersAgree, RowsOf, Live
    <2>3. CASE ~Live(req[q].fresh)
      BY <1>b, <2>1, <2>3 DEF PurgeDevices, Live
    <2> QED BY <2>2, <2>3
  <1>5. ASSUME req[q].pc \in {"find", "delete"} PROVE ~Live(req[q].presented)'
    <2>1. req'[q].presented = req[q].presented
      BY <1>2
    <2>2. PICK o \in Requests : /\ req[o].fresh = req[q].presented
                                /\ req[o].fresh \in DeviceIds
                                /\ req[o].fresh # None
      BY <1>5, PresentedIsInserted, NoneAssumption DEF Inserted
    <2>3. CASE Live(req[q].presented)
      <3>1. device[req[q].presented].userId = req[r].user
        BY <2>2, <2>3 DEF UsersAgree
      <3> QED BY <1>3, <2>1, <2>2, <2>3, <3>1 DEF RowsOf, Live
    <2>4. CASE ~Live(req[q].presented)
      BY <1>b, <2>1, <2>2, <2>4 DEF PurgeDevices, Live
    <2> QED BY <2>3, <2>4
  <1> QED BY <1>2, <1>4, <1>5 DEF Watched

(* Request q has changed the password.                                     *)
Changed(q) == q.kind = "newPassword" /\ (q.pc = "purge" \/ q.reply = "ok")

(* A change stays one of the same user, and is past its purge only by it.  *)
LEMMA ChangedStays ==
  ASSUME RowsInv, NEW r \in Requests, Step(r), NEW q \in Requests,
         Changed(req[q])
  PROVE  /\ Changed(req'[q]) /\ req'[q].user = req[q].user
         /\ req[q].pc = "purge" =>
               req'[q].pc = "purge" \/ (q = r /\ PurgeDevices(r))
  <1> USE DEF RowsInv, IInv
  <1>b. /\ req \in [Requests -> Request] /\ req[r] \in Request
    BY DEF TypeOK
  <1>1. CASE q # r
    BY <1>1, OthersKept
  <1>2. CASE q = r
    <2>1. req[r].reply = "none"
      BY DEF Step, Enters, GoogleLogin, PresentToken, NewPassword,
         FindSession, DeleteSession, SignTokens, InsertDevice, ReplyTokens,
         UpdatePassword, PurgeDevices, Abort, At
    <2>2. req[r].pc = "purge"
      BY <1>2, <2>1 DEF Changed
    <2>3. PurgeDevices(r) \/ Abort(r)
      BY <2>2 DEF Step, Enters, GoogleLogin, PresentToken, NewPassword,
         FindSession, DeleteSession, SignTokens, InsertDevice, ReplyTokens,
         UpdatePassword, At
    <2>4. CASE PurgeDevices(r)
      BY <1>2, <1>b, <2>4 DEF PurgeDevices, Answer, Changed, Request
    <2>5. CASE Abort(r)
      BY <1>2, <1>b, <2>2, <2>5 DEF Abort, Changed, Request
    <2> QED BY <2>3, <2>4, <2>5
  <1> QED BY <1>1, <1>2

-----------------------------------------------------------------------------
(* The handlers implement SessionLifecycle.                                *)

USE DEF Stored

(* The step with which request r takes the token of the live session d.    *)
Exchanging(r, d) ==
    /\ DeleteSession(r) /\ req[r].kind = "refresh"
    /\ req[r].presented = d /\ Live(d)

Inserting(r, d) == InsertDevice(r) /\ req[r].fresh = d

(* A session opens by the insertion of its row.                            *)
LEMMA OpenedStep ==
  ASSUME IInv, NEW r \in Requests, Step(r), NEW d \in DeviceIds
  PROVE  Opened(d)' <=> Opened(d) \/ Inserting(r, d)
  <1> USE DEF IInv
  <1>a. /\ req \in [Requests -> Request] /\ req[r] \in Request
        /\ Shape(req[r]) /\ d # None
    BY NoneAssumption DEF TypeOK, ShapeOK
  <1>1. Opened(d) => Opened(d)'
    BY <1>a, InsertedStays DEF Opened, Inserted
  <1>2. ASSUME Inserting(r, d) PROVE Opened(d)'
    <2>1. req'[r].fresh = d /\ req'[r].pc = "reply"
      BY <1>a, <1>2 DEF Inserting, InsertDevice, Goto, Request
    <2> QED BY <2>1 DEF Opened
  <1>3. ASSUME Opened(d)', ~Opened(d) PROVE Inserting(r, d)
    <2>1. PICK q \in Requests : req'[q].fresh = d /\ req'[q].pc \in Stored
      BY <1>3 DEF Opened
    <2>2. q = r
      BY <1>3, <2>1, OthersKept DEF Opened
    <2>3. ~SignTokens(r)
      <3>1. ASSUME NEW e, req' = [req EXCEPT ![r].pc = "insert", ![r].fresh = e,
                                             ![r].iat = now]
            PROVE  req'[r].pc = "insert"
        BY <1>a, <3>1 DEF Request
      <3> QED BY <2>1, <2>2, <3>1 DEF SignTokens
    <2>4. req[r].fresh = d
      BY <2>1, <2>2, <2>3, FreshKept
    <2>5. req[r].pc \notin Stored
      BY <1>3, <2>4 DEF Opened
    <2>6. req[r].pc = "insert"
      BY <1>a, <2>4, <2>5 DEF Shape, TypeOK, Request
    <2>7. InsertDevice(r) \/ Abort(r)
      BY <2>6 DEF Step, Enters, GoogleLogin, PresentToken, NewPassword,
         FindSession, DeleteSession, SignTokens, ReplyTokens, UpdatePassword,
         PurgeDevices, At
    <2>8. ~Abort(r)
      BY <1>a, <2>1, <2>2, <2>6 DEF Abort, Request
    <2> QED BY <2>4, <2>7, <2>8 DEF Inserting
  <1> QED BY <1>1, <1>2, <1>3

(* What a request was about when it has taken a token.                     *)
Takes(q, d) ==
    /\ q.kind = "refresh" /\ q.presented = d
    /\ q.pc \in {"sign", "insert", "reply"} \/ q.fresh # None

(* A token is taken by the deletion of its row.                            *)
LEMMA TakesStep ==
  ASSUME IInv, NEW r \in Requests, Step(r), NEW d \in DeviceIds
  PROVE  /\ Takes(req'[r], d) <=> Takes(req[r], d) \/ Exchanging(r, d)
         /\ Takes(req'[r], d) /\ req'[r].pc \in Stored
               <=> /\ Takes(req[r], d)
                   /\ req[r].pc \in Stored \/ InsertDevice(r)
  <1> USE DEF IInv
  <1>a. /\ req \in [Requests -> Request] /\ req[r] \in Request
        /\ Shape(req[r]) /\ d # None
    BY NoneAssumption DEF TypeOK, ShapeOK
  <1>1. CASE Arrival(r)
    BY <1>1, <1>a DEF Arrival, Waiting, Takes, Exchanging, DeleteSession,
       InsertDevice, At
  <1>2. CASE FindSession(r)
    <2>1. Goto(r, "delete") \/ \E x \in Replies : Answer(r, x)
      BY <1>2 DEF FindSession, Refusal
    <2>2. /\ req'[r].kind = req[r].kind /\ req'[r].presented = req[r].presented
          /\ req'[r].fresh = req[r].fresh /\ req'[r].pc \in {"delete", "done"}
      BY <1>a, <2>1, MovedOn DEF Goto, Answer, Request
    <2> QED BY <1>a, <1>2, <2>2 DEF FindSession, At, Shape, Takes, Exchanging,
            DeleteSession, InsertDevice
  <1>3. CASE DeleteSession(r)
    <2>1. req[r].pc = "delete" /\ req[r].fresh = None
      BY <1>a, <1>3 DEF DeleteSession, At, Shape
    <2>2. ~Takes(req[r], d) /\ ~InsertDevice(r)
      BY <2>1 DEF Takes, InsertDevice, At
    <2>3. /\ req'[r].kind = req[r].kind /\ req'[r].presented = req[r].presented
          /\ req'[r].fresh = req[r].fresh
      <3>1. Goto(r, "sign") \/ \E x \in Replies : Answer(r, x)
        BY <1>3 DEF DeleteSession
      <3> QED BY <1>a, <3>1, MovedOn
    <2>4. CASE Live(req[r].presented) /\ req[r].kind = "refresh"
      <3>1. req'[r].pc = "sign"
        BY <1>a, <1>3, <2>4 DEF DeleteSession, Goto, Request
      <3> QED BY <1>3, <2>1, <2>2, <2>3, <2>4, <3>1 DEF Takes, Exchanging
    <2>5. CASE ~(Live(req[r].presented) /\ req[r].kind = "refresh")
      <3>1. req'[r].pc = "done"
        BY <1>a, <1>3, <2>5 DEF DeleteSession, Answer, Request
      <3> QED BY <1>3, <2>1, <2>2, <2>3, <2>5, <3>1 DEF Takes, Exchanging
    <2> QED BY <2>4, <2>5
  <1>4. CASE SignTokens(r)
    <2>1. /\ req'[r].kind = req[r].kind /\ req'[r].presented = req[r].presented
          /\ req'[r].pc = "insert" /\ req[r].pc = "sign"
      BY <1>a, <1>4 DEF SignTokens, At, Request
    <2> QED BY <2>1 DEF Takes, Exchanging, DeleteSession, InsertDevice, At
  <1>5. CASE InsertDevice(r)
    <2>1. /\ req'[r].kind = req[r].kind /\ req'[r].presented = req[r].presented
          /\ req'[r].pc = "reply" /\ req[r].pc = "insert"
      BY <1>a, <1>5 DEF InsertDevice, Goto, At, Request
    <2> QED BY <1>5, <2>1 DEF Takes, Exchanging, DeleteSession, At
  <1>6. CASE ReplyTokens(r)
    <2>1. /\ req'[r].kind = req[r].kind /\ req'[r].presented = req[r].presented
          /\ req'[r].pc = "done" /\ req[r].pc = "reply"
          /\ req'[r].fresh # None
      BY <1>a, <1>6 DEF ReplyTokens, Answer, At, Request, Shape
    <2> QED BY <2>1 DEF Takes, Exchanging, DeleteSession, InsertDevice, At
  <1>7. CASE (\E p \in Passwords : UpdatePassword(r, p)) \/ PurgeDevices(r)
    <2>1. req'[r].kind = req[r].kind /\ req[r].pc \in {"update", "purge"}
      BY <1>a, <1>7 DEF UpdatePassword, PurgeDevices, Answer, At, Request
    <2> QED BY <1>a, <2>1 DEF Shape, Takes, Exchanging, DeleteSession,
            InsertDevice, At
  <1>8. CASE Abort(r)
    <2>1. /\ req'[r].kind = req[r].kind /\ req'[r].presented = req[r].presented
          /\ req'[r].fresh = req[r].fresh /\ req'[r].pc = req[r].pc
          /\ device' = device /\ req'[r].reply = "lost"
      BY <1>a, <1>8 DEF Abort, Request
    <2>2. ~InsertDevice(r)
      BY <1>a, <2>1 DEF InsertDevice, Goto, At, Request
    <2>3. ~DeleteSession(r)
      BY <1>a, <2>1 DEF DeleteSession, Goto, Answer, At, Request
    <2> QED BY <2>1, <2>2, <2>3 DEF Takes, Exchanging
  <1> QED BY <1>1, <1>2, <1>3, <1>4, <1>5, <1>6, <1>7, <1>8, Arrivals

(* Who holds a session's token, and whether he has stored its successor.   *)
LEMMA ExchangesStep ==
  ASSUME IInv, NEW r \in Requests, Step(r), NEW d \in DeviceIds
  PROVE  /\ Exchanges(d)' = IF Exchanging(r, d) THEN Exchanges(d) \cup {r}
                            ELSE Exchanges(d)
         /\ Replaced(d)' <=> \/ Replaced(d)
                             \/ InsertDevice(r) /\ r \in Exchanges(d)
  <1>1. /\ Exchanges(d) = {q \in Requests : Takes(req[q], d)}
        /\ Exchanges(d)' = {q \in Requests : Takes(req'[q], d)}
    BY DEF Exchanges, Takes
  <1>2. \A q \in Requests : q # r => req'[q] = req[q]
    BY OthersKept DEF IInv
  <1> QED BY <1>1, <1>2, TakesStep DEF Replaced

-----------------------------------------------------------------------------
(* The origin of a session is that of the one request that minted it.      *)
LEMMA OriginIs ==
  ASSUME FreshIsUnique, NEW q \in Requests, req[q].fresh # None,
         req[q].pc \in Stored
  PROVE  Opened(req[q].fresh) /\ Origin(req[q].fresh) = req[q].presented
  BY DEF FreshIsUnique, Opened, Origin

(* The origin of a session is settled when its row is inserted.            *)
LEMMA OriginStep ==
  ASSUME IInv, NEW r \in Requests, Step(r), NEW d \in DeviceIds
  PROVE  Origin(d)' = IF Inserting(r, d) THEN req[r].presented ELSE Origin(d)
  <1> USE DEF IInv
  <1>a. /\ req \in [Requests -> Request] /\ req[r] \in Request
        /\ Shape(req[r]) /\ d # None /\ FreshIsUnique'
    BY NoneAssumption, FreshStep DEF TypeOK, ShapeOK
  <1>0. ASSUME NEW q \in Requests, req'[q].fresh = d, req'[q].pc \in Stored
        PROVE  Origin(d)' = req'[q].presented
    BY <1>a, <1>0 DEF FreshIsUnique, Opened, Origin
  <1>1. CASE Inserting(r, d)
    <2>1. /\ req'[r].fresh = d /\ req'[r].pc = "reply"
          /\ req'[r].presented = req[r].presented
      BY <1>a, <1>1 DEF Inserting, InsertDevice, Goto, Request
    <2> QED BY <1>0, <1>1, <2>1
  <1>2. CASE ~Inserting(r, d) /\ Opened(d)
    <2>1. PICK q \in Requests : req[q].fresh = d /\ req[q].pc \in Stored
      BY <1>2 DEF Opened
    <2>2. Origin(d) = req[q].presented
      BY <1>a, <2>1, OriginIs
    <2>3. CASE q # r
      BY <1>0, <1>2, <2>1, <2>2, <2>3, OthersKept
    <2>4. CASE q = r
      <3>1. req[r].pc = "reply"
        BY <2>1, <2>4, DoneIsFinal
      <3>2. ReplyTokens(r) \/ Abort(r)
        BY <3>1 DEF Step, Enters, GoogleLogin, PresentToken, NewPassword,
           FindSession, DeleteSession, SignTokens, InsertDevice, UpdatePassword,
           PurgeDevices, At
      <3>3. /\ req'[r].fresh = d /\ req'[r].pc \in Stored
            /\ req'[r].presented = req[r].presented
        BY <1>a, <2>1, <2>4, <3>2 DEF ReplyTokens, Abort, Answer, Request
      <3> QED BY <1>0, <1>2, <2>2, <2>4, <3>3
    <2> QED BY <2>3, <2>4
  <1>3. CASE ~Inserting(r, d) /\ ~Opened(d)
    BY <1>3, OpenedStep DEF Origin
  <1> QED BY <1>1, <1>2, <1>3

-----------------------------------------------------------------------------
(* A live session is open, and nobody has taken its token.                 *)
LEMMA LiveIsOpen ==
  ASSUME IInv, NEW d \in DeviceIds, Live(d)
  PROVE  /\ Opened(d) /\ Status(d) = "open"
         /\ Exchanges(d) = {} /\ ~Replaced(d)
  <1>1. Opened(d)
    BY DEF IInv, NotLiveYet, Opened
  <1>2. Exchanges(d) = {}
    BY DEF IInv, TakenOnce, Takers
  <1> QED BY <1>1, <1>2 DEF Status, Replaced

(* Where a step neither inserts nor deletes a row, no status changes.      *)
LEMMA StatusKept ==
  ASSUME IInv, NEW r \in Requests, Step(r), ~InsertDevice(r),
         NEW d \in DeviceIds, device'[d] = device[d]
  PROVE  Status(d)' = Status(d) /\ Origin(d)' = Origin(d)
  <1>1. ~Inserting(r, d)
    BY DEF Inserting
  <1>2. ~Exchanging(r, d)
    BY DEF Exchanging, DeleteSession, Live, IInv, TypeOK
  <1>3. /\ Opened(d)' <=> Opened(d)
        /\ Exchanges(d)' = Exchanges(d)
        /\ Replaced(d)' <=> Replaced(d)
        /\ Origin(d)' = Origin(d)
        /\ Live(d)' <=> Live(d)
    BY <1>1, <1>2, OpenedStep, ExchangesStep, OriginStep DEF Live
  <1> QED BY <1>3 DEF Status

-----------------------------------------------------------------------------
(* The deletion of a live session exchanges it, for a refresh, or closes   *)
(* it, for a logout.                                                       *)
LEMMA DeletionMapped ==
  ASSUME IInv, NEW r \in Requests, DeleteSession(r),
         NEW d \in DeviceIds, req[r].presented = d, Live(d)
  PROVE  Lifecycle!Next
  <1>a. /\ req \in [Requests -> Request] /\ req[r] \in Request
        /\ device \in [DeviceIds -> Row \cup {None}]
        /\ Shape(req[r]) /\ req[r].pc = "delete" /\ Step(r)
    BY DEF IInv, TypeOK, ShapeOK, DeleteSession, At, Step
  <1>b. ~InsertDevice(r)
    BY <1>a DEF InsertDevice, At
  <1>c. \A x \in DeviceIds : device'[x] = IF x = d THEN None ELSE device[x]
    BY <1>a DEF DeleteSession
  <1>1. ASSUME NEW x \in DeviceIds, x # d
        PROVE  Status(x)' = Status(x) /\ Origin(x)' = Origin(x)
    BY <1>1, <1>a, <1>b, <1>c, StatusKept
  <1>2. /\ Opened(d) /\ Status(d) = "open"
        /\ Exchanges(d) = {} /\ ~Replaced(d)
    BY LiveIsOpen
  <1>3. /\ Opened(d)' /\ ~Live(d)' /\ ~Replaced(d)' /\ Origin(d)' = Origin(d)
        /\ Exchanges(d)' = IF Exchanging(r, d) THEN {r} ELSE {}
    BY <1>a, <1>b, <1>c, <1>2, OpenedStep, ExchangesStep, OriginStep
    DEF Live, Inserting
  <1>4. Status(d)' = IF Exchanging(r, d) THEN "exchanged" ELSE "closed"
    BY <1>3 DEF Status
  <1>5. CASE Exchanging(r, d)
    <2>1. Lifecycle!Exchange(d)
      BY <1>b, <1>1, <1>2, <1>3, <1>4, <1>5 DEF Lifecycle!Exchange
    <2> QED BY <1>b, <2>1 DEF Lifecycle!Next
  <1>6. CASE ~Exchanging(r, d)
    <2>1. Lifecycle!Close({d})
      BY <1>b, <1>1, <1>2, <1>3, <1>4, <1>6 DEF Lifecycle!Close
    <2> QED BY <1>b, <2>1 DEF Lifecycle!Next
  <1> QED BY <1>5, <1>6

(* The purge closes the live sessions of the user.                         *)
LEMMA PurgeMapped ==
  ASSUME IInv, NEW r \in Requests, PurgeDevices(r)
  PROVE  Lifecycle!Next
  <1> DEFINE S == RowsOf(req[r].user)
  <1>a. /\ req \in [Requests -> Request] /\ req[r] \in Request
        /\ device \in [DeviceIds -> Row \cup {None}]
        /\ req[r].pc = "purge" /\ Step(r)
    BY DEF IInv, TypeOK, PurgeDevices, At, Step
  <1>b. /\ S \subseteq DeviceIds /\ ~InsertDevice(r) /\ ~DeleteSession(r)
        /\ \A d \in S : Live(d)
    BY <1>a DEF RowsOf, Live, InsertDevice, DeleteSession, At
  <1>c. \A x \in DeviceIds : device'[x] = IF x \in S THEN None ELSE device[x]
    BY <1>a DEF PurgeDevices
  <1> HIDE DEF S
  <1>1. ASSUME NEW x \in DeviceIds \ S
        PROVE  Status(x)' = Status(x) /\ Origin(x)' = Origin(x)
    BY <1>a, <1>b, <1>c, StatusKept
  <1>2. ASSUME NEW d \in S
        PROVE  /\ Status(d) = "open" /\ Status(d)' = "closed"
               /\ Origin(d)' = Origin(d)
    <2>1. /\ d \in DeviceIds /\ Opened(d) /\ Status(d) = "open"
          /\ Exchanges(d) = {} /\ ~Replaced(d)
      BY <1>b, LiveIsOpen
    <2>2. /\ Opened(d)' /\ ~Live(d)' /\ ~Replaced(d)'
          /\ Origin(d)' = Origin(d) /\ Exchanges(d)' = {}
      BY <1>a, <1>b, <1>c, <2>1, OpenedStep, ExchangesStep, OriginStep
      DEF Live, Inserting, Exchanging
    <2> QED BY <2>1, <2>2 DEF Status
  <1>3. Lifecycle!Close(S)
    BY <1>b, <1>1, <1>2 DEF Lifecycle!Close
  <1> QED BY <1>b, <1>3 DEF Lifecycle!Next

(* The insertion of a row opens a session: the successor of the one the    *)
(* request has exchanged, which has no other, or one of its own.           *)
LEMMA InsertionMapped ==
  ASSUME IInv, NEW r \in Requests, InsertDevice(r),
         NEW d \in DeviceIds \cup {None}, req[r].presented = d,
         NEW e \in DeviceIds, req[r].fresh = e
  PROVE  Lifecycle!Next
  <1> USE DEF IInv
  <1>a. /\ req \in [Requests -> Request] /\ req[r] \in Request
        /\ device \in [DeviceIds -> Row \cup {None}]
        /\ Shape(req[r]) /\ req[r].pc = "insert" /\ Step(r)
    BY DEF TypeOK, ShapeOK, InsertDevice, At, Step
  <1>b. e # None /\ req[r].kind # "logout"
    BY <1>a DEF Shape
  <1>c. /\ \A x \in DeviceIds : x # e => device'[x] = device[x]
        /\ device'[e] # None
    <2>1. req[r].user \in Users /\ req[r].iat \in Nat
      BY <1>a DEF Shape, Request
    <2>2. [userId |-> req[r].user, lastActiveDate |-> req[r].iat] # None
      BY <2>1, NoneAssumption
    <2> QED BY <1>a, <2>2 DEF InsertDevice
  <1>d. ~Opened(e) /\ ~DeleteSession(r)
    BY <1>a, <1>b DEF FreshIsUnique, Opened, DeleteSession, At
  <1>e. \A x : r \in Exchanges(x) <=> req[r].kind = "refresh" /\ x = d
    BY <1>a DEF Exchanges
  <1>f. Inserting(r, e) /\ \A x : x # e => ~Inserting(r, x)
    BY DEF Inserting
  <1>1. Status(e) = "unused" /\ Origin(e) = None
    BY <1>d DEF Status, Origin
  <1>2. Status(e)' = "open" /\ Origin(e)' = d
    BY <1>a, <1>b, <1>c, <1>f, OpenedStep, OriginStep DEF Status, Live
  <1>3. ASSUME NEW x \in DeviceIds, x # e
        PROVE  /\ Opened(x)' <=> Opened(x)
               /\ Live(x)' <=> Live(x)
               /\ Exchanges(x)' = Exchanges(x)
               /\ Replaced(x)' <=> Replaced(x) \/ r \in Exchanges(x)
               /\ Origin(x)' = Origin(x)
    BY <1>a, <1>c, <1>d, <1>f, <1>3, OpenedStep, ExchangesStep, OriginStep
    DEF Live, Exchanging
  <1>4. ASSUME NEW x \in DeviceIds, x # e, r \notin Exchanges(x)
        PROVE  Status(x)' = Status(x)
    BY <1>3, <1>4 DEF Status
  <1>5. CASE req[r].kind = "refresh"
    <2>1. d \in DeviceIds /\ d # None /\ r \in Exchanges(d)
      BY <1>a, <1>e, <1>5 DEF Shape
    <2>2. Opened(d)
      BY <2>1 DEF KnownIsAnswered, Answered, Opened
    <2>3. ~Live(d) /\ \A q \in Exchanges(d) : q = r
      BY <2>1 DEF TakenOnce, Takers
    <2>4. ~Replaced(d) /\ d # e
      BY <1>a, <1>d, <2>2, <2>3 DEF Replaced
    <2>5. Status(d) = "exchanged" /\ Status(d)' = "replaced"
      BY <1>3, <2>1, <2>2, <2>3, <2>4 DEF Status
    <2>6. \A x \in DeviceIds \ {d, e} : Status(x)' = Status(x)
      BY <1>4, <1>e
    <2>7. \A x \in DeviceIds \ {e} : Origin(x)' = Origin(x)
      BY <1>3
    <2>8. Lifecycle!Succeed(d, e)
      BY <1>b, <1>1, <1>2, <2>1, <2>4, <2>5, <2>6, <2>7
      DEF Lifecycle!Succeed
    <2> QED BY <1>b, <2>1, <2>8 DEF Lifecycle!Next
  <1>6. CASE req[r].kind # "refresh"
    <2>1. d = None
      BY <1>a, <1>b, <1>6 DEF Shape
    <2>2. \A x \in DeviceIds \ {e} :
             Status(x)' = Status(x) /\ Origin(x)' = Origin(x)
      BY <1>3, <1>4, <1>e, <1>6
    <2>3. Lifecycle!Open(e)
      BY <1>b, <1>1, <1>2, <2>1, <2>2 DEF Lifecycle!Open
    <2> QED BY <1>b, <2>3 DEF Lifecycle!Next
  <1> QED BY <1>5, <1>6

(* The remaining steps are steps of no session.                            *)
LEMMA QuietMapped ==
  ASSUME IInv, NEW r \in Requests, Step(r), ~InsertDevice(r),
         device' = device
  PROVE  UNCHANGED Lifecycle!vars
  BY StatusKept DEF Lifecycle!vars

-----------------------------------------------------------------------------
(* Every behaviour of the handlers is one of the abstract life cycle.      *)
THEOREM HandlersImplementLifecycle == Spec => ImplementsLifecycle
  <1>1. Init => Lifecycle!Init
    <2> SUFFICES ASSUME Init PROVE Lifecycle!Init
      OBVIOUS
    <2>1. \A d \in DeviceIds : ~Opened(d)
      BY DEF Init, Opened, Waiting
    <2>2. \A d \in DeviceIds : Status(d) = "unused" /\ Origin(d) = None
      BY <2>1 DEF Status, Origin
    <2> QED BY <2>2 DEF Lifecycle!Init
  <1>2. IInv /\ [Next]_vars => [Lifecycle!Next]_(Lifecycle!vars)
    <2> SUFFICES ASSUME IInv, [Next]_vars
                 PROVE  Lifecycle!Next \/ UNCHANGED Lifecycle!vars
      OBVIOUS
    <2>1. ASSUME NEW r \in Requests, Step(r)
          PROVE  Lifecycle!Next \/ UNCHANGED Lifecycle!vars
      <3>a. /\ req[r] \in Request /\ Shape(req[r])
            /\ device \in [DeviceIds -> Row \cup {None}]
        BY DEF IInv, TypeOK, ShapeOK
      <3>b. /\ DeleteSession(r) => req[r].presented \in DeviceIds
            /\ InsertDevice(r) => req[r].fresh \in DeviceIds
            /\ req[r].presented \in DeviceIds \cup {None}
        BY <3>a DEF DeleteSession, InsertDevice, At, Shape, Request
      <3>1. CASE DeleteSession(r) /\ Live(req[r].presented)
        BY <3>b, <3>1, DeletionMapped
      <3>2. CASE InsertDevice(r)
        BY <3>b, <3>2, InsertionMapped
      <3>3. CASE PurgeDevices(r)
        BY <3>3, PurgeMapped
      <3>4. CASE DeleteSession(r) /\ ~Live(req[r].presented)
        <4>1. device' = device /\ ~InsertDevice(r)
          BY <3>a, <3>4 DEF DeleteSession, InsertDevice, At, Live
        <4> QED BY <2>1, <4>1, QuietMapped
      <3>5. CASE ~DeleteSession(r) /\ ~InsertDevice(r) /\ ~PurgeDevices(r)
        <4>1. device' = device
          BY <2>1, <3>5, Arrivals
          DEF IInv, Arrival, FindSession, SignTokens, ReplyTokens,
              UpdatePassword, Abort
        <4> QED BY <2>1, <3>5, <4>1, QuietMapped
      <3> QED BY <3>1, <3>2, <3>3, <3>4, <3>5
    <2>2. CASE Quiet
      <3>1. \A d : Status(d)' = Status(d) /\ Origin(d)' = Origin(d)
        BY <2>2 DEF Quiet, Status, Origin, Opened, Live, Replaced, Exchanges
      <3> QED BY <3>1 DEF Lifecycle!vars
    <2> QED BY <2>1, <2>2, NextIsStep DEF IInv
  <1> QED BY <1>1, <1>2, Inductive, PTL DEF Spec, ImplementsLifecycle, Lifecycle!Spec
=============================================================================
