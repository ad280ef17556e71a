------------------------------ MODULE Sessions ------------------------------
(***************************************************************************)
(* The device sessions of the gateway (features/device, features/auth).    *)
(*                                                                         *)
(* A session is a row of the table "Device".  Its refresh token names the  *)
(* row and carries the second it was signed in (iat).  Four HTTP handlers  *)
(* and the Google login open, exchange and close sessions; each handler    *)
(* awaits the database between its steps, so the handlers interleave.  A   *)
(* request is one record of req: its program counter, the session it       *)
(* presented, the session it mints, and its answer.  A request is used     *)
(* once, so req also is the history the properties are stated on.          *)
(***************************************************************************)
EXTENDS Naturals

CONSTANTS
    Users,        \* registered users
    Confirmed,    \* the users whose registration is confirmed
    Passwords,    \* passwords a client can send
    Requests,     \* HTTP requests, each served once
    DeviceIds,    \* the values randomUUID() can return
    Lifetime,     \* lifetime of a refresh token (2000 s in jwt.adapter.ts)
    MaxTime,      \* bound on the clock
    None          \* "no value": a missing row, a null column

ASSUME ConfirmedAssumption == Confirmed \subseteq Users
ASSUME LifetimeAssumption == Lifetime \in Nat \ {0}
ASSUME MaxTimeAssumption == MaxTime \in Nat
ASSUME NoneAssumption ==
    /\ None \notin DeviceIds
    /\ None \notin Users
    /\ None \notin Passwords
    /\ None \notin [userId: Users, lastActiveDate: Nat]

VARIABLES
    now,      \* the clock, in seconds
    hash,     \* User.hashPassword: the user's password, None for Google users
    device,   \* the table Device: the row of each id, None when there is none
    issued,   \* refresh tokens a client has received
    req       \* the requests

vars == <<now, hash, device, issued, req>>

Row == [userId: Users, lastActiveDate: Nat]
Token == [userId: Users, deviceId: DeviceIds, iat: Nat]

Kinds == {"none", "login", "google", "refresh", "logout", "newPassword"}
Pcs == {"idle", "find", "delete", "sign", "insert", "reply", "update",
        "purge", "done"}
Replies == {"none", "ok", "400", "401", "403", "404", "500", "lost"}

Request ==
    [kind: Kinds, pc: Pcs, reply: Replies,
     user: Users \cup {None},            \* whose request it is
     presented: DeviceIds \cup {None},   \* the session of its refresh token
     fresh: DeviceIds \cup {None},       \* the session it mints
     iat: Nat,                           \* when it signed the new token
     doomed: SUBSET DeviceIds]           \* the user's rows at its update

Waiting ==
    [kind |-> "none", pc |-> "idle", reply |-> "none", user |-> None,
     presented |-> None, fresh |-> None, iat |-> 0, doomed |-> {}]

Init ==
    /\ now = 0
    /\ hash \in [Users -> Passwords \cup {None}]
    /\ device = [d \in DeviceIds |-> None]
    /\ issued = {}
    /\ req = [r \in Requests |-> Waiting]

-----------------------------------------------------------------------------
\* A lost request keeps the program counter it was lost at.
At(r, label) == req[r].pc = label /\ req[r].reply = "none"

Goto(r, label) == req' = [req EXCEPT ![r].pc = label]

Answer(r, reply) ==
    req' = [req EXCEPT ![r].pc = "done", ![r].reply = reply]

\* A request of this kind starts; its first database read sends it on to
\* label, or answers it.
Start(r, kind, u, d, label, reply) ==
    req' = [req EXCEPT ![r] = [Waiting EXCEPT !.kind = kind, !.user = u,
                                 !.presented = d, !.pc = label,
                                 !.reply = reply]]

RowsOf(u) == {d \in DeviceIds : device[d] # None /\ device[d].userId = u}

Minted == {req[r].fresh : r \in Requests} \ {None}

Live(d) == device[d] # None

Valid(t) == now < t.iat + Lifetime

-----------------------------------------------------------------------------
(* Steps with a bug, to show what the properties below would catch.        *)

\* deleteById as a deleteMany, which does not throw when the row is gone.
DeleteSessionTwice(r) ==
    /\ At(r, "delete")
    /\ IF req[r].kind = "refresh" THEN Goto(r, "sign") ELSE Answer(r, "ok")
    /\ device' = [device EXCEPT ![req[r].presented] = None]
    /\ UNCHANGED <<now, hash, issued>>

\* A refresh that keeps the id of the session it renews.
SignTokensOfSession(r) ==
    /\ At(r, "sign")
    /\ \E d \in DeviceIds \ Minted :
          req' = [req EXCEPT ![r].pc = "insert", ![r].iat = now,
                             ![r].fresh = IF req[r].kind = "refresh"
                                          THEN req[r].presented ELSE d]
    /\ UNCHANGED <<now, hash, device, issued>>

\* The row dated by the clock, and not by the token it belongs to.
InsertDeviceDatedNow(r) ==
    /\ At(r, "insert")
    /\ device' = [device EXCEPT ![req[r].fresh] =
                    [userId |-> req[r].user, lastActiveDate |-> now]]
    /\ Goto(r, "reply")
    /\ UNCHANGED <<now, hash, issued>>

\* The row stored without its user.
InsertDeviceOfNobody(r) ==
    /\ At(r, "insert")
    /\ device' = [device EXCEPT ![req[r].fresh] =
                    [userId |-> None, lastActiveDate |-> req[r].iat]]
    /\ Goto(r, "reply")
    /\ UNCHANGED <<now, hash, issued>>

\* deleteDevicesByUserId as a delete of one row, or without its filter.
PurgeOneDevice(r) ==
    /\ At(r, "purge")
    /\ IF RowsOf(req[r].user) = {} THEN UNCHANGED device
       ELSE \E d \in RowsOf(req[r].user) : device' = [device EXCEPT ![d] = None]
    /\ Answer(r, "ok")
    /\ UNCHANGED <<now, hash, issued>>

PurgeAllDevices(r) ==
    /\ At(r, "purge")
    /\ device' = [d \in DeviceIds |-> None]
    /\ Answer(r, "ok")
    /\ UNCHANGED <<now, hash, issued>>

-----------------------------------------------------------------------------
(* PasswordAuthGuard: CheckUserCredentials reads the user and compares.    *)
Login(r, u, p) ==
    /\ At(r, "idle")
    /\ IF hash[u] = p /\ u \in Confirmed
         THEN Start(r, "login", u, None, "sign", "none")
         ELSE Start(r, "login", u, None, "done", "401")
    /\ UNCHANGED <<now, hash, device, issued>>

(* GoogleLogin has resolved the user: it goes on to open a session.        *)
GoogleLogin(r, u) ==
    /\ At(r, "idle")
    /\ Start(r, "google", u, None, "sign", "none")
    /\ UNCHANGED <<now, hash, device, issued>>

(* RefreshJwtGuard of refresh-token and logout: the signature and expiry   *)
(* of the token, then CheckDeviceCredentials: the row must exist, belong   *)
(* to the user and carry the token's iat as lastActiveDate.                *)
CheckDeviceCredentials(t) ==
    /\ Valid(t)
    /\ device[t.deviceId] # None
    /\ device[t.deviceId].userId = t.userId
    /\ device[t.deviceId].lastActiveDate = t.iat

PresentToken(r, kind, t) ==
    /\ At(r, "idle")
    /\ IF CheckDeviceCredentials(t)
         THEN Start(r, kind, t.userId, t.deviceId, "find", "none")
         ELSE Start(r, kind, t.userId, t.deviceId, "done", "401")
    /\ UNCHANGED <<now, hash, device, issued>>

(* DeleteDevice, first await: findById.  A refusal is a Result the logout  *)
(* handler throws; RefreshToken returns its bare error instead, and the    *)
(* handler fails on reading the tokens of an undefined value.              *)
Refusal(kind, row) ==
    IF kind = "refresh" THEN "500"
    ELSE IF row = None THEN "404" ELSE "403"

FindSession(r) ==
    /\ At(r, "find")
    /\ LET row == device[req[r].presented]
       IN  IF row # None /\ row.userId = req[r].user
             THEN Goto(r, "delete")
             ELSE Answer(r, Refusal(req[r].kind, row))
    /\ UNCHANGED <<now, hash, device, issued>>

(* DeleteDevice, second await: deleteById.  Prisma's delete throws when    *)
(* the row is gone, so of two concurrent deletions only one goes on.       *)
DeleteSession(r) ==
    /\ At(r, "delete")
    /\ IF ~Live(req[r].presented) THEN Answer(r, "500")
       ELSE IF req[r].kind = "refresh" THEN Goto(r, "sign")
       ELSE Answer(r, "ok")
    /\ device' = [device EXCEPT ![req[r].presented] = None]
    /\ UNCHANGED <<now, hash, issued>>

(* CreateDevice: a new id, and tokens signed now.                          *)
SignTokens(r) ==
    /\ At(r, "sign")
    /\ \E d \in DeviceIds \ Minted :
          req' = [req EXCEPT ![r].pc = "insert", ![r].fresh = d,
                             ![r].iat = now]
    /\ UNCHANGED <<now, hash, device, issued>>

(* CreateDevice: the row is stored.                                        *)
InsertDevice(r) ==
    /\ At(r, "insert")
    /\ device' = [device EXCEPT ![req[r].fresh] =
                    [userId |-> req[r].user, lastActiveDate |-> req[r].iat]]
    /\ Goto(r, "reply")
    /\ UNCHANGED <<now, hash, issued>>

(* The handler sets the refreshToken cookie and answers.                   *)
ReplyTokens(r) ==
    /\ At(r, "reply")
    /\ issued' = issued \cup
          {[userId |-> req[r].user, deviceId |-> req[r].fresh,
            iat |-> req[r].iat]}
    /\ Answer(r, "ok")
    /\ UNCHANGED <<now, hash, device>>

(* NewPassword: the recovery code is looked up; accepted says whether it   *)
(* is known and has not expired (module Accounts).  Only users with        *)
(* registration info, hence a password, have a code.                       *)
NewPassword(r, u, accepted) ==
    /\ At(r, "idle")
    /\ accepted => hash[u] # None
    /\ IF accepted THEN Start(r, "newPassword", u, None, "update", "none")
       ELSE Start(r, "newPassword", u, None, "done", "400")
    /\ UNCHANGED <<now, hash, device, issued>>

UpdatePassword(r, p) ==
    /\ At(r, "update")
    /\ hash' = [hash EXCEPT ![req[r].user] = p]
    /\ req' = [req EXCEPT ![r].pc = "purge", ![r].doomed = RowsOf(req[r].user)]
    /\ UNCHANGED <<now, device, issued>>

(* AuthService.newPassword then deletes every session of the user.         *)
PurgeDevices(r) ==
    /\ At(r, "purge")
    /\ device' = [d \in DeviceIds |->
                    IF d \in RowsOf(req[r].user) THEN None ELSE device[d]]
    /\ Answer(r, "ok")
    /\ UNCHANGED <<now, hash, issued>>

(* The process dies, or the database refuses the next statement: what the  *)
(* request did stays done, the rest of it never happens.                   *)
Abort(r) ==
    /\ req[r].reply = "none"
    /\ req[r].pc # "idle"
    /\ req' = [req EXCEPT ![r].reply = "lost"]
    /\ UNCHANGED <<now, hash, device, issued>>

Tick ==
    /\ now < MaxTime
    /\ now' = now + 1
    /\ UNCHANGED <<hash, device, issued, req>>

Arrive(r) ==
    \/ \E u \in Users, p \in Passwords : Login(r, u, p)
    \/ \E u \in Users : GoogleLogin(r, u)
    \/ \E t \in issued : PresentToken(r, "refresh", t)
    \/ \E t \in issued : PresentToken(r, "logout", t)
    \/ \E u \in Users, accepted \in BOOLEAN : NewPassword(r, u, accepted)

Continue(r) ==
    \/ FindSession(r)
    \/ DeleteSession(r)
    \/ SignTokens(r)
    \/ InsertDevice(r)
    \/ ReplyTokens(r)
    \/ \E p \in Passwords : UpdatePassword(r, p)
    \/ PurgeDevices(r)

Next ==
    \/ \E r \in Requests : Arrive(r) \/ Continue(r) \/ Abort(r)
    \/ Tick

Spec == Init /\ [][Next]_vars

-----------------------------------------------------------------------------
TypeOK ==
    /\ now \in 0..MaxTime
    /\ hash \in [Users -> Passwords \cup {None}]
    /\ device \in [DeviceIds -> Row \cup {None}]
    /\ issued \subseteq Token
    /\ req \in [Requests -> Request]

(* The requests that took the refresh token of d: they deleted its row.    *)
Exchanges(d) ==
    {r \in Requests : /\ req[r].kind = "refresh"
                      /\ req[r].presented = d
                      /\ \/ req[r].pc \in {"sign", "insert", "reply"}
                         \/ req[r].fresh # None}

LogoutsOf(d) ==
    {r \in Requests : /\ req[r].kind = "logout"
                      /\ req[r].presented = d
                      /\ req[r].reply = "ok"}

(* A refresh token is exchanged at most once, however many requests carry  *)
(* it at the same time (DeleteDevice, RefreshToken): never two successors. *)
ExchangedOnce ==
    \A d \in DeviceIds :
       \A r1, r2 \in Exchanges(d) : r1 = r2

(* A logout that was answered 204 is final (DeleteDevice in logout): the   *)
(* session it closed has no successor, and no refresh under way can still  *)
(* open one.                                                               *)
LogoutIsFinal ==
    \A d \in DeviceIds : LogoutsOf(d) # {} => Exchanges(d) = {} /\ ~Live(d)

(* A session that was closed never comes back: once a client holds its     *)
(* token, no handler stores a row under its id again (CreateDevice mints   *)
(* an id for every row and awaits the insert before it answers).           *)
NoResurrection ==
    [][\A d \in DeviceIds :
          (~Live(d) /\ Live(d)') => \A t \in issued : t.deviceId # d]_vars

(* A client's refresh token always agrees with its row: the second it was  *)
(* signed in is the row's lastActiveDate, so CheckDeviceCredentials never  *)
(* rejects a genuine token as EXPIRED_DEVICE, even when the clock advances *)
(* between signing and storing.                                            *)
TokenMatchesRow ==
    \A t \in issued : Live(t.deviceId) =>
       device[t.deviceId] = [userId |-> t.userId, lastActiveDate |-> t.iat]

(* A new password that was answered 204 has ended every session that was   *)
(* open when the password changed (AuthService.newPassword).               *)
NewPasswordEndsSessions ==
    \A r \in Requests :
       (req[r].kind = "newPassword" /\ req[r].reply = "ok") =>
          \A d \in req[r].doomed : ~Live(d)

(* A session ends by a request of its own user only: no refresh, logout or *)
(* new password of one user takes a row of another (the checks of userId   *)
(* in DeleteDevice, the filter of deleteDevicesByUserId).                  *)
OnlyOwnersEndSessions ==
    [][\A d \in DeviceIds :
          (Live(d) /\ ~Live(d)') =>
             \E r \in Requests : /\ req[r].user = device[d].userId
                                 /\ req'[r] # req[r]]_vars

(* The e2e test "Should NOT get new token pairs with old refresh token"    *)
(* expects 401 from a refresh that is refused.  It is not what the handler *)
(* answers when the token is exchanged under it.                           *)
RefusedRefreshIs401 ==
    \A r \in Requests :
       (req[r].kind = "refresh" /\ req[r].pc = "done") =>
          req[r].reply \in {"ok", "401", "lost"}
=============================================================================
