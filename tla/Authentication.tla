---------------------------- MODULE Authentication ----------------------------
(***************************************************************************)
(* Accounts and device sessions together (features/auth, features/user,    *)
(* features/device).                                                       *)
(*                                                                         *)
(* The two components share the User row: a login checks the password that *)
(* module Accounts stores, and a new password, the work of one, ends with  *)
(* the purge of the sessions, the work of the other (AuthService).  A      *)
(* request has a record in each component; that of the one it does not     *)
(* enter stays idle.  The clock of Sessions stands still here: expired     *)
(* tokens are refused at the door.                                         *)
(***************************************************************************)
EXTENDS Naturals

CONSTANTS
    Emails, Names, Passwords, Codes,
    Requests, DeviceIds, None,
    Owner    \* an account made before the run: its e-mail, name, password
             \* and codes, and the requests that made it

ASSUME OwnerAssumption ==
    /\ Owner \in [email: Emails, name: Names, password: Passwords,
                  code: Codes, recovery: Codes,
                  register: Requests, confirm: Requests, recover: Requests]
    /\ Owner.code # Owner.recovery
    /\ Owner.register # Owner.confirm /\ Owner.register # Owner.recover
    /\ Owner.confirm # Owner.recover

VARIABLES
    user, info, expired, sent, mailbox, areq,   \* of Accounts
    now, device, issued, sreq,                  \* of Sessions
    shown   \* history: the password behind each request's session, and the
            \* new passwords whose purge overtook it

accountVars == <<user, info, expired, sent, mailbox, areq>>
sessionVars == <<now, device, issued, sreq>>
vars == <<accountVars, sessionVars, shown>>

Hash == [e \in Emails |-> IF user[e] = None THEN None ELSE user[e].hash]

Acc == INSTANCE Accounts WITH req <- areq

Ses == INSTANCE Sessions WITH
          Users <- Emails, Confirmed <- {}, hash <- Hash, req <- sreq,
          Lifetime <- 1, MaxTime <- 0

ASSUME NoneAssumption ==
    /\ None \notin Emails \cup Names \cup Passwords \cup Codes
    /\ None \notin Requests \cup DeviceIds
    /\ None \notin Acc!UserRow \cup Acc!InfoRow \cup Ses!Row

NoRows == [e \in Emails |-> None]

Nothing == [password |-> None, overtaken |-> {}]

\* What Accounts makes of registering, confirming and recovering Owner, one
\* after the other: three requests, two codes and their mails.
OwnerExists ==
    LET e == Owner.email
        asked == [Acc!Waiting EXCEPT !.email = e, !.pc = "done", !.reply = "ok"]
    IN  /\ user = [NoRows EXCEPT ![e] =
                     [name |-> Owner.name, hash |-> Owner.password]]
        /\ info = [NoRows EXCEPT ![e] =
                     [confirmed |-> TRUE, code |-> Owner.code,
                      recovery |-> Owner.recovery]]
        /\ expired = {}
        /\ sent = {[to |-> e, code |-> Owner.code, about |-> "confirmation"],
                   [to |-> e, code |-> Owner.recovery, about |-> "recovery"]}
        /\ mailbox = sent
        /\ areq = [r \in Requests |->
              CASE r = Owner.register -> [asked EXCEPT !.kind = "register",
                      !.name = Owner.name, !.password = Owner.password,
                      !.fresh = Owner.code]
                [] r = Owner.confirm -> [asked EXCEPT !.kind = "confirm",
                      !.code = Owner.code]
                [] r = Owner.recover -> [asked EXCEPT !.kind = "recover",
                      !.fresh = Owner.recovery, !.about = "recovery"]
                [] OTHER -> Acc!Waiting]

Init ==
    /\ OwnerExists
    /\ now = 0
    /\ device = [d \in DeviceIds |-> None]
    /\ issued = {}
    /\ sreq = [r \in Requests |-> Ses!Waiting]
    /\ shown = [r \in Requests |-> Nothing]

-----------------------------------------------------------------------------
Idle(r) == areq[r].pc = "idle" /\ sreq[r].pc = "idle"

\* The request that minted session d.
Opener(d) == CHOOSE r \in Requests : sreq[r].fresh = d

\* Requests of user e between their check and the insert of their row.
Opening(e) ==
    {r \in Requests : /\ sreq[r].pc \in {"sign", "insert"}
                      /\ sreq[r].reply = "none" /\ sreq[r].user = e}

-----------------------------------------------------------------------------
(* Steps with a bug, to show what the properties below would catch.        *)

\* The purge of all sessions but one, as of "the other devices".
PurgeOthers(r) ==
    /\ Ses!At(r, "purge")
    /\ \E d \in DeviceIds :
          device' = [x \in DeviceIds |->
                       IF x \in Ses!RowsOf(sreq[r].user) \ {d} THEN None
                       ELSE device[x]]
    /\ Ses!Answer(r, "ok")
    /\ shown' = [q \in Requests |->
          IF q \in Opening(sreq[r].user)
            THEN [shown[q] EXCEPT !.overtaken = @ \cup {r}] ELSE shown[q]]
    /\ UNCHANGED <<accountVars, now, issued>>

\* The credentials compared before the account is known to be confirmed.
CheckPasswordOnly(e, p) ==
    IF user[e] = None \/ Hash[e] # p THEN "401" ELSE "none"

-----------------------------------------------------------------------------
(* CheckUserCredentials: the status it refuses with, or none.  A password  *)
(* that matches on an account without registration info makes it throw.    *)
CheckUserCredentials(e, p) ==
    IF user[e] = None \/ Hash[e] # p THEN "401"
    ELSE IF info[e] = None THEN "500"
    ELSE IF ~info[e].confirmed THEN "401"
    ELSE "none"

(* POST login, to the creation of its session.                             *)
Login(r, e, p) ==
    /\ Idle(r)
    /\ UNCHANGED <<accountVars, now, device, issued>>
    /\ LET refusal == CheckUserCredentials(e, p)
       IN  IF refusal = "none"
             THEN /\ Ses!Start(r, "login", e, None, "sign", "none")
                  /\ shown' = [shown EXCEPT ![r].password = p]
             ELSE /\ Ses!Start(r, "login", e, None, "done", refusal)
                  /\ UNCHANGED shown

(* GET google, of a user that it links, confirmed or not, or that it has   *)
(* just created in Accounts.                                               *)
GoogleLogin(r, e) ==
    /\ \/ Idle(r) /\ user[e] # None
       \/ /\ sreq[r].pc = "idle"
          /\ areq[r].kind = "google" /\ areq[r].reply = "ok"
          /\ areq[r].email = e
    /\ UNCHANGED <<accountVars, shown>>
    /\ Ses!GoogleLogin(r, e)

(* POST refresh-token and logout: a session renewed is as good as the one  *)
(* it replaces.                                                            *)
PresentToken(r, kind, t) ==
    /\ Idle(r)
    /\ UNCHANGED accountVars
    /\ Ses!PresentToken(r, kind, t)
    /\ shown' = [shown EXCEPT ![r] = shown[Opener(t.deviceId)]]

SessionStep(r) ==
    /\ UNCHANGED <<accountVars, shown>>
    /\ \/ Ses!FindSession(r)
       \/ Ses!DeleteSession(r)
       \/ Ses!SignTokens(r)
       \/ Ses!InsertDevice(r)
       \/ Ses!ReplyTokens(r)

(* POST new-password: UserFacade.newPassword, in Accounts, ...             *)
NewPassword(r, k, p) ==
    /\ Idle(r)
    /\ Acc!NewPassword(r, k, p)
    /\ IF areq'[r].reply = "400"
         THEN UNCHANGED sessionVars
         ELSE Ses!NewPassword(r, areq'[r].email, TRUE)
    /\ UNCHANGED shown

SetPassword(r) ==
    /\ Acc!SetPassword(r)
    /\ Ses!UpdatePassword(r, areq[r].password)
    /\ UNCHANGED shown

(* ... and then deleteDevicesByUserId, in Sessions.                        *)
PurgeDevices(r) ==
    /\ UNCHANGED accountVars
    /\ Ses!PurgeDevices(r)
    /\ shown' = [q \in Requests |->
          IF q \in Opening(sreq[r].user)
            THEN [shown[q] EXCEPT !.overtaken = @ \cup {r}] ELSE shown[q]]

(* The handlers that concern the account alone.                            *)
AccountStep(r) ==
    /\ UNCHANGED <<sessionVars, shown>>
    /\ \/ /\ Idle(r)
          /\ \/ \E n \in Names, e \in Emails, p \in Passwords :
                   Acc!Register(r, n, e, p)
             \/ \E k \in Acc!KnownCodes : \/ Acc!Confirm(r, k)
                                          \/ Acc!ResendCode(r, k)
                                          \/ Acc!ResendRecovery(r, k)
             \/ \E e \in Emails : Acc!RecoverPassword(r, e)
             \/ \E e \in Emails, n \in Names : Acc!UpdateUser(r, e, n)
             \/ \E e \in Emails, n \in Names : Acc!GoogleLogin(r, e, n)
       \/ Acc!FindByUsername(r) \/ Acc!InsertUser(r) \/ Acc!InsertInfo(r)
       \/ Acc!UpdateConfirmationCode(r) \/ Acc!UpdateRecoveryPassword(r)
       \/ Acc!Emit(r) \/ Acc!SetConfirmed(r) \/ Acc!SetName(r)
       \/ Acc!CreateUserAndProviderUser(r)

(* The process dies in the middle of the request.                          *)
Abort(r) ==
    /\ \/ Acc!Abort(r) \/ UNCHANGED accountVars
    /\ \/ Ses!Abort(r) \/ UNCHANGED sessionVars
    /\ Acc!At(r, "setPassword") => areq' # areq /\ sreq' # sreq
    /\ <<areq, sreq>>' # <<areq, sreq>>
    /\ UNCHANGED shown

Mails == (Acc!Deliver \/ Acc!Expire) /\ UNCHANGED <<sessionVars, shown>>

Next ==
    \/ \E r \in Requests :
          \/ \E e \in Emails, p \in Passwords : Login(r, e, p)
          \/ \E e \in Emails : GoogleLogin(r, e)
          \/ \E t \in issued : PresentToken(r, "refresh", t)
          \/ \E t \in issued : PresentToken(r, "logout", t)
          \/ SessionStep(r)
          \/ \E k \in Acc!KnownCodes, p \in Passwords : NewPassword(r, k, p)
          \/ SetPassword(r)
          \/ PurgeDevices(r)
          \/ AccountStep(r)
          \/ Abort(r)
    \/ Mails

Spec == Init /\ [][Next]_vars

-----------------------------------------------------------------------------
(* The new passwords of user e that have changed the User row.             *)
Changes(e) ==
    {q \in Requests : /\ sreq[q].kind = "newPassword" /\ sreq[q].user = e
                      /\ \/ sreq[q].pc = "purge" \/ sreq[q].reply = "ok"}

(* A session opened with a password the account has no more, or renewed    *)
(* from one, is live only because some new password has not come, or never *)
(* came, to its purge, or because its purge overtook the request that was  *)
(* opening it (AuthService.newPassword): no other order of logins,         *)
(* refreshes and new passwords leaves one behind.                          *)
OldPasswordsAreExplained ==
    \A d \in DeviceIds : Ses!Live(d) =>
       LET r == Opener(d)
           e == device[d].userId
       IN  shown[r].password \notin {None, Hash[e]} =>
              \E q \in Changes(e) : \/ sreq[q].pc = "purge"
                                    \/ q \in shown[r].overtaken

(* Nobody has a session by password before a code mailed to the account's  *)
(* address has confirmed it, however registration, resending and login     *)
(* interleave (CreateUser, ConfirmationRegistration, CheckUserCredentials).*)
SessionsAreConfirmed ==
    \A d \in DeviceIds :
       (Ses!Live(d) /\ shown[Opener(d)].password # None) =>
          \E m \in mailbox :
             /\ m.to = device[d].userId /\ m.about = "confirmation"
             /\ \E q \in Requests : areq[q].kind = "confirm"
                                    /\ areq[q].code = m.code

(* See Sessions: here the recovery code decides whose sessions a new       *)
(* password ends (the user that NewPassword returns to AuthService).       *)
OnlyOwnersEndSessions == Ses!OnlyOwnersEndSessions

(* See Accounts: here on an account that has been recovered once, whose    *)
(* old code still works, and on one that is being registered.              *)
PasswordNeedsRecovery == Acc!PasswordNeedsRecovery
=============================================================================
