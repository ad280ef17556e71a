------------------------------ MODULE Accounts ------------------------------
(***************************************************************************)
(* Registration, confirmation, renaming and password recovery              *)
(* (features/user).                                                        *)
(*                                                                         *)
(* An account is a row of User and, for users who registered, a row of     *)
(* UserRegistrationInfo, written one after the other.  Its e-mail never    *)
(* changes and is unique, so both tables are indexed by it.  Codes reach   *)
(* their owner by mail, which is sent by an event listener after the row   *)
(* is written, and which may be lost or overtaken.  A first Google login   *)
(* makes an account too, without password or registration info; what it    *)
(* links is in ProviderLogin.                                              *)
(***************************************************************************)
CONSTANTS
    Emails, Names, Passwords,
    Codes,        \* the values uuidv4() can return
    Requests,     \* HTTP requests, each served once
    None          \* "no value"

ASSUME NoneAssumption ==
    None \notin Emails \cup Names \cup Passwords \cup Codes \cup Requests

VARIABLES
    user,      \* User: name and hashPassword (None for a Google account)
    info,      \* UserRegistrationInfo
    expired,   \* codes whose expiration date is past
    sent,      \* mails handed to the transport
    mailbox,   \* mails that arrived
    req        \* the requests

vars == <<user, info, expired, sent, mailbox, req>>

UserRow == [name: Names, hash: Passwords \cup {None}]
InfoRow == [confirmed: BOOLEAN, code: Codes, recovery: Codes \cup {None}]

ASSUME RowsAssumption == None \notin UserRow \cup InfoRow

Mail == [to: Emails, code: Codes, about: {"confirmation", "recovery"}]

Request ==
    [kind: {"none", "register", "confirm", "resend", "recover",
            "recoverResend", "newPassword", "rename", "google"},
     pc: {"idle", "byName", "insertUser", "insertInfo", "confirm",
          "newCode", "newRecovery", "emit", "setPassword", "setName",
          "insertGoogle", "done"},
     reply: {"none", "ok", "400", "500", "lost"},
     email: Emails \cup {None},          \* the account it works on
     name: Names \cup {None},
     password: Passwords \cup {None},
     code: Codes \cup {None},            \* the code it was given
     fresh: Codes \cup {None},           \* the code it generates
     about: {"confirmation", "recovery"},
     before: SUBSET Requests]   \* history: who had given somebody else the
                                \* name when a renaming found it free

Waiting ==
    [kind |-> "none", pc |-> "idle", reply |-> "none", email |-> None,
     name |-> None, password |-> None, code |-> None, fresh |-> None,
     about |-> "confirmation", before |-> {}]

Init ==
    /\ user = [e \in Emails |-> None]
    /\ info = [e \in Emails |-> None]
    /\ expired = {}
    /\ sent = {}
    /\ mailbox = {}
    /\ req = [r \in Requests |-> Waiting]

-----------------------------------------------------------------------------
At(r, label) == req[r].pc = label /\ req[r].reply = "none"

Goto(r, label) == req' = [req EXCEPT ![r].pc = label]

Answer(r, reply) ==
    req' = [req EXCEPT ![r].pc = "done", ![r].reply = reply]

\* Request r starts as q; its first query sends it to label, or answers it.
Begin(r, q, label) == req' = [req EXCEPT ![r] = [q EXCEPT !.pc = label]]
Refuse(r, q, reply) ==
    req' = [req EXCEPT ![r] = [q EXCEPT !.pc = "done", !.reply = reply]]

NameTaken(n) == \E e \in Emails : user[e] # None /\ user[e].name = n

\* Request q gave an account other than e the name n, with a registration,
\* which may be on its way to its mail, a renaming or a first Google login.
TookName(q, n, e) ==
    /\ q.kind \in {"register", "rename", "google"}
    /\ q.name = n /\ q.email # e
    /\ q.reply = "ok" \/ q.pc \in {"insertInfo", "emit"}

Generated == {req[r].fresh : r \in Requests} \ {None}

\* The accounts a code is looked up in.
ByCode(k) == {e \in Emails : info[e] # None /\ info[e].code = k}
ByRecovery(k) == {e \in Emails : info[e] # None /\ info[e].recovery = k}

-----------------------------------------------------------------------------
(* Steps with a bug, to show what the properties below would catch.        *)

\* An upsert of the user in place of its insert.
UpsertUser(r) ==
    /\ At(r, "insertUser")
    /\ user' = [user EXCEPT ![req[r].email] =
                  [name |-> req[r].name, hash |-> req[r].password]]
    /\ Goto(r, "insertInfo")
    /\ UNCHANGED <<info, expired, sent, mailbox>>

\* The insert of the registration info left out, or without its code.
InsertUserAlone(r) ==
    /\ At(r, "insertUser")
    /\ user[req[r].email] = None /\ ~NameTaken(req[r].name)
    /\ user' = [user EXCEPT ![req[r].email] =
                  [name |-> req[r].name, hash |-> req[r].password]]
    /\ Answer(r, "ok")
    /\ UNCHANGED <<info, expired, sent, mailbox>>

InsertInfoWithoutCode(r) ==
    /\ At(r, "insertInfo")
    /\ info' = [info EXCEPT ![req[r].email] =
                  [confirmed |-> FALSE, code |-> None, recovery |-> None]]
    /\ Goto(r, "emit")
    /\ UNCHANGED <<user, expired, sent, mailbox>>

\* A new code that starts the registration over.
ResetConfirmation(r) ==
    /\ At(r, "newCode")
    /\ \E k \in Codes \ Generated :
          /\ info' = [info EXCEPT ![req[r].email].code = k,
                                  ![req[r].email].confirmed = FALSE]
          /\ req' = [req EXCEPT ![r].pc = "emit", ![r].fresh = k]
    /\ UNCHANGED <<user, expired, sent, mailbox>>

\* A new recovery code whose event is forgotten.
UpdateRecoverySilently(r) ==
    /\ At(r, "newRecovery")
    /\ \E k \in Codes \ Generated :
          info' = [info EXCEPT ![req[r].email].recovery = k]
    /\ Answer(r, "ok")
    /\ UNCHANGED <<user, expired, sent, mailbox>>

\* A renaming that leaves it to the index to find the name taken.
UpdateUserUnchecked(r, e, n) ==
    /\ At(r, "idle")
    /\ user[e] # None
    /\ LET took == {x \in Requests : TookName(req[x], n, e)}
       IN  Begin(r, [Waiting EXCEPT !.kind = "rename", !.email = e, !.name = n,
                                    !.before = took], "setName")
    /\ UNCHANGED <<user, info, expired, sent, mailbox>>

\* The update of the confirmed account without its filter.
SetEveryoneConfirmed(r) ==
    /\ At(r, "confirm")
    /\ info' = [e \in Emails |-> IF info[e] = None THEN None
                                ELSE [info[e] EXCEPT !.confirmed = TRUE]]
    /\ Answer(r, "ok")
    /\ UNCHANGED <<user, expired, sent, mailbox>>

-----------------------------------------------------------------------------
(* CreateUser, first query: by e-mail.  An unconfirmed account with the    *)
(* same name and password gets a new code.  The comparison throws when the *)
(* account of that name has no password to compare with, or when it has    *)
(* no registration info.                                                   *)
Throws(u, i, n, p) == u.name = n /\ (u.hash = None \/ (u.hash = p /\ i = None))

IsCorrectNotConfirmed(u, i, n, p) ==
    u.name = n /\ u.hash = p /\ i # None /\ ~i.confirmed

Register(r, n, e, p) ==
    /\ At(r, "idle")
    /\ LET q == [Waiting EXCEPT !.kind = "register", !.email = e,
                                !.name = n, !.password = p]
       IN  IF user[e] = None THEN Begin(r, q, "byName")
           ELSE IF Throws(user[e], info[e], n, p) THEN Refuse(r, q, "500")
           ELSE IF IsCorrectNotConfirmed(user[e], info[e], n, p)
           THEN Begin(r, q, "newCode")
           ELSE Refuse(r, q, "400")
    /\ UNCHANGED <<user, info, expired, sent, mailbox>>

FindByUsername(r) ==
    /\ At(r, "byName")
    /\ IF NameTaken(req[r].name) THEN Answer(r, "400") ELSE Goto(r, "insertUser")
    /\ UNCHANGED <<user, info, expired, sent, mailbox>>

(* UserRepository.create inserts the user, against the unique indexes...   *)
InsertUser(r) ==
    /\ At(r, "insertUser")
    /\ IF user[req[r].email] # None \/ NameTaken(req[r].name)
         THEN Answer(r, "500") /\ UNCHANGED user
         ELSE /\ user' = [user EXCEPT ![req[r].email] =
                            [name |-> req[r].name, hash |-> req[r].password]]
              /\ Goto(r, "insertInfo")
    /\ UNCHANGED <<info, expired, sent, mailbox>>

(* ... then, in a second statement, its registration info.                 *)
InsertInfo(r) ==
    /\ At(r, "insertInfo")
    /\ \E k \in Codes \ Generated :
          /\ info' = [info EXCEPT ![req[r].email] =
                        [confirmed |-> FALSE, code |-> k, recovery |-> None]]
          /\ req' = [req EXCEPT ![r].pc = "emit", ![r].fresh = k]
    /\ UNCHANGED <<user, expired, sent, mailbox>>

(* UserService.updateConfirmationCode and updateRecoveryPassword.          *)
UpdateConfirmationCode(r) ==
    /\ At(r, "newCode")
    /\ \E k \in Codes \ Generated :
          /\ info' = [info EXCEPT ![req[r].email].code = k]
          /\ req' = [req EXCEPT ![r].pc = "emit", ![r].fresh = k]
    /\ UNCHANGED <<user, expired, sent, mailbox>>

UpdateRecoveryPassword(r) ==
    /\ At(r, "newRecovery")
    /\ \E k \in Codes \ Generated :
          /\ info' = [info EXCEPT ![req[r].email].recovery = k]
          /\ req' = [req EXCEPT ![r].pc = "emit", ![r].fresh = k,
                                ![r].about = "recovery"]
    /\ UNCHANGED <<user, expired, sent, mailbox>>

(* The event of the written code: its listener sends the mail, and the     *)
(* request is answered without waiting for it.                             *)
Emit(r) ==
    /\ At(r, "emit")
    /\ sent' = sent \cup {[to |-> req[r].email, code |-> req[r].fresh,
                           about |-> req[r].about]}
    /\ Answer(r, "ok")
    /\ UNCHANGED <<user, info, expired, mailbox>>

(* ConfirmationRegistration looks the code up, then confirms the account   *)
(* it found by its id.                                                     *)
Confirm(r, k) ==
    /\ At(r, "idle")
    /\ LET q == [Waiting EXCEPT !.kind = "confirm", !.code = k]
       IN  \/ /\ ByCode(k) = {} /\ Refuse(r, q, "400")
           \/ \E e \in ByCode(k) :
                 IF info[e].confirmed
                   THEN Refuse(r, [q EXCEPT !.email = e], "ok")
                 ELSE IF k \in expired THEN Refuse(r, q, "400")
                 ELSE Begin(r, [q EXCEPT !.email = e], "confirm")
    /\ UNCHANGED <<user, info, expired, sent, mailbox>>

SetConfirmed(r) ==
    /\ At(r, "confirm")
    /\ info' = [info EXCEPT ![req[r].email].confirmed = TRUE]
    /\ Answer(r, "ok")
    /\ UNCHANGED <<user, expired, sent, mailbox>>

(* RegistrationEmailResending: any known code will do, used or expired.    *)
ResendCode(r, k) ==
    /\ At(r, "idle")
    /\ LET q == [Waiting EXCEPT !.kind = "resend", !.code = k]
       IN  \/ ByCode(k) = {} /\ Refuse(r, q, "400")
           \/ \E e \in ByCode(k) : Begin(r, [q EXCEPT !.email = e], "newCode")
    /\ UNCHANGED <<user, info, expired, sent, mailbox>>

(* UserPasswordRecovery: an unconfirmed account gets a confirmation code   *)
(* instead; an account without registration info makes it throw.           *)
RecoverPassword(r, e) ==
    /\ At(r, "idle")
    /\ LET q == [Waiting EXCEPT !.kind = "recover", !.email = e]
       IN  IF user[e] = None THEN Refuse(r, q, "400")
           ELSE IF info[e] = None THEN Refuse(r, q, "500")
           ELSE IF info[e].confirmed THEN Begin(r, q, "newRecovery")
           ELSE Begin(r, q, "newCode")
    /\ UNCHANGED <<user, info, expired, sent, mailbox>>

ResendRecovery(r, k) ==
    /\ At(r, "idle")
    /\ LET q == [Waiting EXCEPT !.kind = "recoverResend", !.code = k]
       IN  \/ ByRecovery(k) = {} /\ Refuse(r, q, "400")
           \/ \E e \in ByRecovery(k) :
                 Begin(r, [q EXCEPT !.email = e], "newRecovery")
    /\ UNCHANGED <<user, info, expired, sent, mailbox>>

(* NewPassword: the code stays in the row and can be used again.           *)
NewPassword(r, k, p) ==
    /\ At(r, "idle")
    /\ LET q == [Waiting EXCEPT !.kind = "newPassword", !.code = k,
                                !.password = p]
       IN  \/ (ByRecovery(k) = {} \/ k \in expired) /\ Refuse(r, q, "400")
           \/ /\ k \notin expired
              /\ \E e \in ByRecovery(k) :
                    Begin(r, [q EXCEPT !.email = e], "setPassword")
    /\ UNCHANGED <<user, info, expired, sent, mailbox>>

SetPassword(r) ==
    /\ At(r, "setPassword")
    /\ user' = [user EXCEPT ![req[r].email].hash = req[r].password]
    /\ Answer(r, "ok")
    /\ UNCHANGED <<info, expired, sent, mailbox>>

(* UpdateUser, of a logged-in user: the new name is looked up, then set    *)
(* against the unique index.  Whoever has a row can be logged in, by       *)
(* Google: its login is linked to the user it finds by e-mail or name,     *)
(* confirmed or not, with or without registration info.                    *)
CanLogIn(e) == user[e] # None

UpdateUser(r, e, n) ==
    /\ At(r, "idle")
    /\ CanLogIn(e)
    /\ LET took == {x \in Requests : TookName(req[x], n, e)}
           q == [Waiting EXCEPT !.kind = "rename", !.email = e, !.name = n,
                                !.before = took]
       IN  IF NameTaken(n) /\ user[e].name # n THEN Refuse(r, q, "400")
           ELSE Begin(r, q, "setName")
    /\ UNCHANGED <<user, info, expired, sent, mailbox>>

SetName(r) ==
    /\ At(r, "setName")
    /\ IF NameTaken(req[r].name) /\ user[req[r].email].name # req[r].name
         THEN Answer(r, "500") /\ UNCHANGED user
         ELSE /\ user' = [user EXCEPT ![req[r].email].name = req[r].name]
              /\ Answer(r, "ok")
    /\ UNCHANGED <<info, expired, sent, mailbox>>

(* The first login of a Google account whose e-mail and display name no    *)
(* user has: the name is made up from a count of the users, so that it may *)
(* be anyone's by now, and the user is created without a password.         *)
GoogleLogin(r, e, n) ==
    /\ At(r, "idle")
    /\ user[e] = None
    /\ Begin(r, [Waiting EXCEPT !.kind = "google", !.email = e, !.name = n],
             "insertGoogle")
    /\ UNCHANGED <<user, info, expired, sent, mailbox>>

CreateUserAndProviderUser(r) ==
    /\ At(r, "insertGoogle")
    /\ IF user[req[r].email] # None \/ NameTaken(req[r].name)
         THEN Answer(r, "500") /\ UNCHANGED user
         ELSE /\ user' = [user EXCEPT ![req[r].email] =
                            [name |-> req[r].name, hash |-> None]]
              /\ Answer(r, "ok")
    /\ UNCHANGED <<info, expired, sent, mailbox>>

(* The process dies, or the database refuses the next statement.           *)
Abort(r) ==
    /\ req[r].pc # "idle" /\ req[r].reply = "none"
    /\ req' = [req EXCEPT ![r].reply = "lost"]
    /\ UNCHANGED <<user, info, expired, sent, mailbox>>

(* Mails arrive in any order, or never: the adapter swallows its errors.   *)
Deliver ==
    /\ \E m \in sent \ mailbox : mailbox' = mailbox \cup {m}
    /\ UNCHANGED <<user, info, expired, sent, req>>

Expire ==
    /\ \E k \in Generated \ expired : expired' = expired \cup {k}
    /\ UNCHANGED <<user, info, sent, mailbox, req>>

\* Clients know the codes they were mailed.
KnownCodes == {m.code : m \in mailbox}

Arrive(r) ==
    \/ \E n \in Names, e \in Emails, p \in Passwords : Register(r, n, e, p)
    \/ \E k \in KnownCodes : \/ Confirm(r, k) \/ ResendCode(r, k)
                             \/ ResendRecovery(r, k)
    \/ \E k \in KnownCodes, p \in Passwords : NewPassword(r, k, p)
    \/ \E e \in Emails : RecoverPassword(r, e)
    \/ \E e \in Emails, n \in Names : UpdateUser(r, e, n)
    \/ \E e \in Emails, n \in Names : GoogleLogin(r, e, n)

Continue(r) ==
    \/ FindByUsername(r) \/ InsertUser(r) \/ InsertInfo(r)
    \/ UpdateConfirmationCode(r) \/ UpdateRecoveryPassword(r) \/ Emit(r)
    \/ SetConfirmed(r) \/ SetPassword(r) \/ SetName(r)
    \/ CreateUserAndProviderUser(r)

Next ==
    \/ \E r \in Requests : Arrive(r) \/ Continue(r) \/ Abort(r)
    \/ Deliver
    \/ Expire

Spec == Init /\ [][Next]_vars

-----------------------------------------------------------------------------
TypeOK ==
    /\ user \in [Emails -> UserRow \cup {None}]
    /\ info \in [Emails -> InfoRow \cup {None}]
    /\ expired \subseteq Codes
    /\ sent \subseteq Mail /\ mailbox \subseteq sent
    /\ req \in [Requests -> Request]

(* An account is confirmed only after a confirmation code has reached its  *)
(* address, and a code mailed for one account never confirms another       *)
(* (ConfirmationRegistration updates by the id it found the code under).   *)
ConfirmedByOwner ==
    \A e \in Emails :
       (info[e] # None /\ info[e].confirmed) =>
          \E r \in Requests :
             /\ req[r].kind = "confirm"
             /\ [to |-> e, code |-> req[r].code, about |-> "confirmation"]
                   \in mailbox

(* The unique index refuses a renaming, with a 500, only when it lost a    *)
(* race: a registration, a renaming or a first Google login gave some      *)
(* other account the name after UpdateUser had found it free.  A name that *)
(* was taken all along is answered 400.  (A statement that fails for any   *)
(* other reason is Abort.)                                                 *)
OnlyRacesAnswer500 ==
    \A r \in Requests :
       (req[r].kind = "rename" /\ req[r].reply = "500") =>
          \E q \in Requests \ req[r].before :
             TookName(req[q], req[r].name, req[r].email)

(* A password changes only through a recovery code that reached the        *)
(* address of its own account, and only to what came with the code:        *)
(* registering again with the same e-mail, name or both never replaces it, *)
(* whatever the interleaving.                                              *)
PasswordNeedsRecovery ==
    [][\A e \in Emails :
          (user[e] # None /\ user'[e].hash # user[e].hash) =>
             \E r \in Requests :
                /\ req[r].kind = "newPassword"
                /\ req[r].password = user'[e].hash
                /\ [to |-> e, code |-> req[r].code, about |-> "recovery"]
                      \in mailbox]_vars

(* A confirmation is never undone: a registration or a resending that read *)
(* the account before it was confirmed still only replaces the code.       *)
ConfirmationIsFinal ==
    [][\A e \in Emails :
          (info[e] # None /\ info[e].confirmed)
             => info'[e] # None /\ info'[e].confirmed]_vars

(* The code an account is waiting for was handed to the mail transport for *)
(* the account's own address, unless the request that wrote it has not     *)
(* come, or never came, to emit it (the event follows the update).         *)
CurrentCodesAreMailed ==
    \A e \in Emails : info[e] # None =>
       /\ \/ [to |-> e, code |-> info[e].code, about |-> "confirmation"] \in sent
          \/ \E r \in Requests : req[r].fresh = info[e].code /\ req[r].pc = "emit"
       /\ \/ info[e].recovery = None
          \/ [to |-> e, code |-> info[e].recovery, about |-> "recovery"] \in sent
          \/ \E r \in Requests : req[r].fresh = info[e].recovery
                                 /\ req[r].pc = "emit"

(* A password without registration info, an account that every later       *)
(* registration, login and recovery throws on, is only ever what a         *)
(* registration leaves between its two inserts (UserRepository.create).    *)
HalfAccountsAreExplained ==
    \A e \in Emails :
       (user[e] # None /\ user[e].hash # None /\ info[e] = None) =>
          \E r \in Requests : /\ req[r].kind = "register"
                              /\ req[r].email = e
                              /\ req[r].pc = "insertInfo"

(* The e2e test "User with this email is already registered" registers an  *)
(* e-mail twice, under two names, and expects 400 from the second.  The    *)
(* handler answers 500 when the first is stored between the look-ups and   *)
(* the insert of the second.                                               *)
SecondRegistrationIs400 ==
    \A r1, r2 \in Requests :
       (/\ req[r1].kind = "register" /\ req[r1].reply = "ok"
        /\ req[r2].kind = "register" /\ req[r2].pc = "done"
        /\ req[r1].email = req[r2].email /\ req[r1].name # req[r2].name)
          => req[r2].reply = "400"
=============================================================================
