------------------------ MODULE AuthenticationProofs ------------------------
(***************************************************************************)
(* Theorems about Authentication, for any number of accounts, sessions and *)
(* requests: what passwords and confirmations have to do with sessions.    *)
(* The steps of either component are those its own proofs are about, so    *)
(* its invariant holds here by its own lemmas (AccP and SesP); what is     *)
(* left to prove is what the two components know of each other.            *)
(***************************************************************************)
EXTENDS Authentication, TLAPS

AccP == INSTANCE AccountsProofs WITH req <- areq

SesP == INSTANCE SessionsProofs WITH
           Users <- Emails, Confirmed <- {}, hash <- Hash, req <- sreq,
           Lifetime <- 1, MaxTime <- 0

(* A password behind a session is one of a user who has confirmed.         *)
ShownOK ==
    \A r \in Requests :
       /\ sreq[r].pc = "idle" => shown[r] = Nothing
       /\ shown[r].password # None =>
             /\ sreq[r].user \in Emails /\ user[sreq[r].user] # None
             /\ AccP!Confirmer(sreq[r].user)

(* The password behind a session, or one being opened, is the account's,   *)
(* or some new password has not purged, or purged too early.               *)
Explained(r) ==
    \/ shown[r].password \in {None, Hash[sreq[r].user]}
    \/ \E q \in Changes(sreq[r].user) : \/ sreq[q].pc = "purge"
                                        \/ q \in shown[r].overtaken

ExplainedOK == \A r \in Requests : SesP!Watched(r) => Explained(r)

TypeOK ==
    shown \in [Requests -> [password: Passwords \cup {None},
                            overtaken: SUBSET Requests]]

IInv ==
    /\ AccP!IInv
    /\ SesP!RowsInv
    /\ TypeOK
    /\ ShownOK
    /\ ExplainedOK

-----------------------------------------------------------------------------
(* The two components take their own steps.                                *)
LEMMA AccountActions ==
  ASSUME NEW r
  PROVE  /\ \A n, e, p : Acc!Register(r, n, e, p) <=> AccP!Register(r, n, e, p)
         /\ \A k : Acc!Confirm(r, k) <=> AccP!Confirm(r, k)
         /\ \A k : Acc!ResendCode(r, k) <=> AccP!ResendCode(r, k)
         /\ \A k : Acc!ResendRecovery(r, k) <=> AccP!ResendRecovery(r, k)
         /\ \A k, p : Acc!NewPassword(r, k, p) <=> AccP!NewPassword(r, k, p)
         /\ \A e : Acc!RecoverPassword(r, e) <=> AccP!RecoverPassword(r, e)
         /\ \A e, n : Acc!UpdateUser(r, e, n) <=> AccP!UpdateUser(r, e, n)
         /\ \A e, n : Acc!GoogleLogin(r, e, n) <=> AccP!GoogleLogin(r, e, n)
         /\ Acc!KnownCodes = AccP!KnownCodes
  BY DEF Acc!Register, AccP!Register, Acc!Confirm, AccP!Confirm,
         Acc!ResendCode, AccP!ResendCode, Acc!ResendRecovery,
         AccP!ResendRecovery, Acc!NewPassword, AccP!NewPassword,
         Acc!RecoverPassword, AccP!RecoverPassword, Acc!UpdateUser,
         AccP!UpdateUser, Acc!GoogleLogin, AccP!GoogleLogin, Acc!KnownCodes, AccP!KnownCodes,
         Acc!At, AccP!At, Acc!Waiting, AccP!Waiting, Acc!Begin, AccP!Begin,
         Acc!Refuse, AccP!Refuse, Acc!Throws, AccP!Throws,
         Acc!IsCorrectNotConfirmed, AccP!IsCorrectNotConfirmed,
         Acc!ByCode, AccP!ByCode, Acc!ByRecovery, AccP!ByRecovery,
         Acc!CanLogIn, AccP!CanLogIn, Acc!NameTaken, AccP!NameTaken,
         Acc!TookName, AccP!TookName

(* So do their requests as they go on.                                     *)
LEMMA AccountOperations ==
  ASSUME NEW r
  PROVE  /\ Acc!FindByUsername(r) <=> AccP!FindByUsername(r)
         /\ Acc!InsertUser(r) <=> AccP!InsertUser(r)
         /\ Acc!InsertInfo(r) <=> AccP!InsertInfo(r)
         /\ Acc!UpdateConfirmationCode(r) <=> AccP!UpdateConfirmationCode(r)
         /\ Acc!UpdateRecoveryPassword(r) <=> AccP!UpdateRecoveryPassword(r)
         /\ Acc!Emit(r) <=> AccP!Emit(r)
         /\ Acc!SetConfirmed(r) <=> AccP!SetConfirmed(r)
         /\ Acc!SetPassword(r) <=> AccP!SetPassword(r)
         /\ Acc!SetName(r) <=> AccP!SetName(r)
         /\ Acc!CreateUserAndProviderUser(r)
               <=> AccP!CreateUserAndProviderUser(r)
         /\ Acc!Abort(r) <=> AccP!Abort(r)
         /\ Acc!Deliver <=> AccP!Deliver
         /\ Acc!Expire <=> AccP!Expire
  BY DEF Acc!FindByUsername, AccP!FindByUsername, Acc!InsertUser,
         AccP!InsertUser, Acc!InsertInfo, AccP!InsertInfo,
         Acc!UpdateConfirmationCode, AccP!UpdateConfirmationCode,
         Acc!UpdateRecoveryPassword, AccP!UpdateRecoveryPassword,
         Acc!Emit, AccP!Emit, Acc!SetConfirmed, AccP!SetConfirmed,
         Acc!SetPassword, AccP!SetPassword, Acc!SetName, AccP!SetName,
         Acc!CreateUserAndProviderUser, AccP!CreateUserAndProviderUser,
         Acc!Abort, AccP!Abort, Acc!Deliver, AccP!Deliver,
         Acc!Expire, AccP!Expire,
         Acc!At, AccP!At, Acc!Goto, AccP!Goto, Acc!Answer, AccP!Answer,
         Acc!NameTaken, AccP!NameTaken, Acc!Generated, AccP!Generated

-----------------------------------------------------------------------------
(* The operations of one request.                                          *)
Operation(r) ==
    \/ \E e \in Emails, p \in Passwords : Login(r, e, p)
    \/ \E e \in Emails : GoogleLogin(r, e)
    \/ \E t \in issued : PresentToken(r, "refresh", t)
    \/ \E t \in issued : PresentToken(r, "logout", t)
    \/ SessionStep(r)
    \/ \E k \in Acc!KnownCodes, p \in Passwords : NewPassword(r, k, p)
    \/ SetPassword(r)
    \/ PurgeDevices(r)
    \/ AccountStep(r)
    \/ Abort(r)

(* What an operation does to the accounts.                                 *)
LEMMA AccountsMove ==
  ASSUME NEW r \in Requests, Operation(r)
  PROVE  AccP!Step(r) \/ UNCHANGED accountVars
  <1> USE AccountActions, AccountOperations
  <1>1. CASE \E e \in Emails, p \in Passwords : Login(r, e, p)
    BY <1>1 DEF Login
  <1>2. CASE \E e \in Emails : GoogleLogin(r, e)
    BY <1>2 DEF GoogleLogin, accountVars
  <1>3. CASE \E t \in issued, k \in {"refresh", "logout"} :
                PresentToken(r, k, t)
    BY <1>3 DEF PresentToken
  <1>4. CASE SessionStep(r)
    BY <1>4 DEF SessionStep, accountVars
  <1>5. CASE \E k \in Acc!KnownCodes, p \in Passwords : NewPassword(r, k, p)
    BY <1>5 DEF NewPassword, AccP!Step, AccP!Arriving
  <1>6. CASE SetPassword(r)
    BY <1>6 DEF SetPassword, AccP!Step, AccP!Continue
  <1>7. CASE PurgeDevices(r)
    BY <1>7 DEF PurgeDevices
  <1>8. CASE AccountStep(r)
    BY <1>8 DEF AccountStep, AccP!Step, AccP!Arriving, AccP!Continue
  <1>9. CASE Abort(r)
    BY <1>9 DEF Abort, AccP!Step
  <1> QED BY <1>1, <1>2, <1>3, <1>4, <1>5, <1>6, <1>7, <1>8, <1>9 DEF Operation

(* What the invariants of the accounts assume of the constants.            *)
LEMMA AccountsConstants ==
  /\ None \notin
        Emails \cup Names \cup Passwords \cup Codes \cup Requests
  /\ None \notin AccP!UserRow \cup AccP!InfoRow
  BY NoneAssumption
  DEF Acc!UserRow, AccP!UserRow, Acc!InfoRow, AccP!InfoRow

(* The invariant of the accounts holds here, by its own proof.             *)
LEMMA AccountsStay ==
  ASSUME AccP!IInv, [Next]_vars
  PROVE  AccP!IInv'
  <1>1. ASSUME NEW r \in Requests, AccP!Step(r) PROVE AccP!IInv'
    BY AccountsConstants, <1>1, AccP!RequestStep
  <1>2. ASSUME AccP!Deliver \/ AccP!Expire \/ UNCHANGED accountVars
        PROVE  AccP!IInv'
    BY AccountsConstants, <1>2, AccP!QuietStep DEF accountVars, AccP!vars
  <1>3. ASSUME Mails PROVE AccP!Deliver \/ AccP!Expire
    BY <1>3, AccountOperations DEF Mails
  <1>4. UNCHANGED vars => UNCHANGED accountVars
    BY DEF vars
  <1> QED BY <1>1, <1>2, <1>3, <1>4, AccountsMove DEF Next, Operation

(* The passwords the sessions are checked against, after any step.         *)
LEMMA HashType ==
  ASSUME AccP!IInv'
  PROVE  Hash' \in [Emails -> Passwords \cup {None}]
  BY DEF Hash, AccP!IInv, AccP!TypeOK, AccP!UserRow

(* The sessions take their own steps, too.                                 *)
LEMMA SessionActions ==
  ASSUME NEW r
  PROVE  /\ \A k, u, d, l, x :
               Ses!Start(r, k, u, d, l, x) <=> SesP!Start(r, k, u, d, l, x)
         /\ \A l : Ses!At(r, l) <=> SesP!At(r, l)
         /\ \A e : Ses!GoogleLogin(r, e) <=> SesP!GoogleLogin(r, e)
         /\ \A k, t : Ses!PresentToken(r, k, t) <=> SesP!PresentToken(r, k, t)
         /\ \A u, a : Ses!NewPassword(r, u, a) <=> SesP!NewPassword(r, u, a)
  BY DEF Ses!GoogleLogin, SesP!GoogleLogin, Ses!PresentToken,
         SesP!PresentToken, Ses!NewPassword, SesP!NewPassword,
         Ses!Start, SesP!Start, Ses!At, SesP!At, Ses!Waiting, SesP!Waiting,
         Ses!CheckDeviceCredentials, SesP!CheckDeviceCredentials,
         Ses!Valid, SesP!Valid

(* So do their requests as they go on.                                     *)
LEMMA SessionOperations ==
  ASSUME NEW r
  PROVE  /\ Ses!FindSession(r) <=> SesP!FindSession(r)
         /\ Ses!DeleteSession(r) <=> SesP!DeleteSession(r)
         /\ Ses!SignTokens(r) <=> SesP!SignTokens(r)
         /\ Ses!InsertDevice(r) <=> SesP!InsertDevice(r)
         /\ Ses!ReplyTokens(r) <=> SesP!ReplyTokens(r)
         /\ \A p : Ses!UpdatePassword(r, p) <=> SesP!UpdatePassword(r, p)
         /\ Ses!PurgeDevices(r) <=> SesP!PurgeDevices(r)
         /\ Ses!Abort(r) <=> SesP!Abort(r)
  BY DEF Ses!FindSession, SesP!FindSession, Ses!DeleteSession,
         SesP!DeleteSession, Ses!SignTokens, SesP!SignTokens,
         Ses!InsertDevice, SesP!InsertDevice, Ses!ReplyTokens,
         SesP!ReplyTokens, Ses!UpdatePassword, SesP!UpdatePassword,
         Ses!PurgeDevices, SesP!PurgeDevices, Ses!Abort, SesP!Abort,
         Ses!At, SesP!At, Ses!Goto, SesP!Goto, Ses!Answer, SesP!Answer,
         Ses!Refusal, SesP!Refusal, Ses!Minted, SesP!Minted,
         Ses!Live, SesP!Live, Ses!RowsOf, SesP!RowsOf

(* The new password of an account is one that its request brought.         *)
LEMMA NewPasswords ==
  ASSUME AccP!IInv, NEW r \in Requests, SetPassword(r)
  PROVE  areq[r].password \in Passwords
  <1>1. /\ areq[r].pc = "setPassword" /\ AccP!Knows(areq[r])
        /\ areq[r].password \in Passwords \cup {None}
    BY DEF SetPassword, Acc!SetPassword, Acc!At, AccP!IInv, AccP!TypeOK,
       AccP!Request, AccP!KnowsOK
  <1> QED BY <1>1 DEF AccP!Knows

(* What an operation does to the sessions: its own step, or nothing.       *)
LEMMA SessionsMove ==
  ASSUME AccP!IInv, SesP!RowsInv, NEW r \in Requests, Operation(r)
  PROVE  SesP!Step(r) \/ SesP!Quiet
  <1> USE SessionActions, SessionOperations
  <1>a. AccP!IInv'
    BY AccountsStay DEF Next, Operation
  <1>b. Hash' \in [Emails -> Passwords \cup {None}]
    BY <1>a, HashType
  <1>c. /\ now \in 0..0 /\ sreq \in [Requests -> SesP!Request]
        /\ \A q \in Requests : SesP!Shape(sreq[q])
    BY DEF SesP!RowsInv, SesP!IInv, SesP!TypeOK, SesP!ShapeOK
  <1>d. UNCHANGED sessionVars => SesP!Quiet
    BY <1>b, <1>c DEF sessionVars, SesP!Quiet
  <1>e. UNCHANGED accountVars => Hash' = Hash
    BY DEF accountVars, Hash
  <1>f. Idle(r) => SesP!At(r, "idle")
    BY <1>c DEF Idle, SesP!At, SesP!Shape, SesP!Waiting
  <1>1. ASSUME NEW e \in Emails, NEW p \in Passwords, Login(r, e, p)
        PROVE  SesP!Step(r)
    <2>1. CheckUserCredentials(e, p) \in {"none", "401", "500"}
      BY DEF CheckUserCredentials
    <2> QED BY <1>e, <1>f, <1>1, <2>1 DEF Login, SesP!Step, SesP!Enters
  <1>2. CASE \E e \in Emails : GoogleLogin(r, e)
    BY <1>2 DEF GoogleLogin, SesP!Step
  <1>3. CASE \E t \in issued, k \in {"refresh", "logout"} :
                PresentToken(r, k, t)
    BY <1>3 DEF PresentToken, SesP!Step
  <1>4. CASE SessionStep(r)
    BY <1>4 DEF SessionStep, SesP!Step
  <1>5. ASSUME NEW k \in Acc!KnownCodes, NEW p \in Passwords,
               NewPassword(r, k, p)
        PROVE  SesP!Step(r) \/ SesP!Quiet
    <2>1. CASE areq'[r].reply = "400"
      BY <1>d, <1>5, <2>1 DEF NewPassword
    <2>2. CASE areq'[r].reply # "400"
      <3>1. areq \in [Requests -> AccP!Request]
        BY DEF AccP!IInv, AccP!TypeOK
      <3>2. PICK e \in Emails : areq'[r].email = e
        BY <1>5, <2>2, <3>1
        DEF NewPassword, Acc!NewPassword, Acc!Refuse, Acc!Begin, Acc!Waiting,
            Acc!ByRecovery
      <3> QED BY <1>5, <2>2, <3>2 DEF NewPassword, SesP!Step
    <2> QED BY <2>1, <2>2
  <1>6. CASE SetPassword(r)
    BY <1>6, NewPasswords DEF SetPassword, SesP!Step
  <1>7. CASE PurgeDevices(r)
    BY <1>7 DEF PurgeDevices, SesP!Step
  <1>8. CASE AccountStep(r)
    BY <1>d, <1>8 DEF AccountStep
  <1>9. CASE Abort(r)
    BY <1>d, <1>9 DEF Abort, SesP!Step
  <1> QED BY <1>1, <1>2, <1>3, <1>4, <1>5, <1>6, <1>7, <1>8, <1>9 DEF Operation

(* What the invariants of the sessions assume of the constants.            *)
LEMMA SessionsConstants ==
  /\ {} \subseteq Emails /\ 1 \in Nat \ {0} /\ 0 \in Nat
  /\ None \notin DeviceIds /\ None \notin Emails /\ None \notin Passwords
  /\ None \notin [userId: Emails, lastActiveDate: Nat]
  BY NoneAssumption DEF Ses!Row

(* The invariant of the sessions holds here, by its own proof.             *)
LEMMA SessionsStay ==
  ASSUME AccP!IInv, SesP!RowsInv, [Next]_vars
  PROVE  SesP!RowsInv'
  <1>1. ASSUME NEW r \in Requests, SesP!Step(r) PROVE SesP!RowsInv'
    BY <1>1, SessionsConstants, SesP!RowsInvStep
  <1>2. ASSUME SesP!Quiet PROVE SesP!RowsInv'
    BY <1>2, SessionsConstants, SesP!RowsInvQuiet
  <1>3. ASSUME Mails \/ UNCHANGED vars PROVE SesP!Quiet
    <2>1. Hash' \in [Emails -> Passwords \cup {None}]
      BY AccountsStay, HashType
    <2>2. UNCHANGED sessionVars /\ now \in 0..0
      BY <1>3 DEF Mails, vars, SesP!RowsInv, SesP!IInv, SesP!TypeOK
    <2> QED BY <2>1, <2>2 DEF sessionVars, SesP!Quiet
  <1> QED BY <1>1, <1>2, <1>3, SessionsMove DEF Next, Operation

-----------------------------------------------------------------------------
(* The account made before the run is one that Accounts can make.          *)
LEMMA OwnerIsReal ==
  ASSUME OwnerExists
  PROVE  AccP!IInv
  <1> USE DEF OwnerExists
  <1> DEFINE e == Owner.email
             asked == [Acc!Waiting EXCEPT !.email = e, !.pc = "done",
                                          !.reply = "ok"]
             mails == {AccP!Letter(e, Owner.code, "confirmation"),
                       AccP!Letter(e, Owner.recovery, "recovery")}
  <1>a. /\ e \in Emails /\ Owner.name \in Names
        /\ Owner.password \in Passwords
        /\ Owner.code \in Codes /\ Owner.recovery \in Codes
        /\ Owner.code # Owner.recovery
        /\ Owner.register \in Requests /\ Owner.confirm \in Requests
        /\ Owner.recover \in Requests
        /\ Owner.register # Owner.confirm /\ Owner.register # Owner.recover
        /\ Owner.confirm # Owner.recover
    BY OwnerAssumption
  <1>b. /\ None \notin Emails /\ None \notin Codes
        /\ None \notin AccP!UserRow /\ None \notin AccP!InfoRow
    BY AccountsConstants
  <1>c. sent = mails /\ mailbox = mails
    BY DEF AccP!Letter
  <1>d. /\ user = [x \in Emails |-> IF x = e
                     THEN [name |-> Owner.name, hash |-> Owner.password]
                     ELSE None]
        /\ info = [x \in Emails |-> IF x = e
                     THEN [confirmed |-> TRUE, code |-> Owner.code,
                           recovery |-> Owner.recovery]
                     ELSE None]
    BY <1>a DEF NoRows
  <1>e. ASSUME NEW r \in Requests
        PROVE  /\ areq[r] \in AccP!Request
               /\ areq[r].pc \in {"idle", "done"}
               /\ areq[r].pc = "idle" => /\ areq[r] = AccP!Waiting
                                         /\ areq[r].fresh = None
               /\ areq[r].fresh = None => areq[r].about = "confirmation"
               /\ areq[r].kind # "rename"
               /\ areq[r].fresh # None =>
                     \/ r = Owner.register /\ areq[r].fresh = Owner.code
                     \/ r = Owner.recover /\ areq[r].fresh = Owner.recovery
    BY <1>a, <1>b DEF Acc!Waiting, AccP!Waiting, AccP!Request
  <1>f. /\ areq[Owner.register].fresh = Owner.code
        /\ areq[Owner.register].email = e
        /\ areq[Owner.register].about = "confirmation"
        /\ areq[Owner.confirm].kind = "confirm"
        /\ areq[Owner.confirm].code = Owner.code
        /\ areq[Owner.recover].fresh = Owner.recovery
        /\ areq[Owner.recover].email = e
        /\ areq[Owner.recover].about = "recovery"
    BY <1>a DEF Acc!Waiting
  <1> HIDE DEF OwnerExists
  <1>1. AccP!TypeOK
    <2>1. expired = {} /\ areq \in [Requests -> AccP!Request]
      BY <1>e DEF OwnerExists
    <2>2. sent \subseteq AccP!Mail
      BY <1>a, <1>c DEF AccP!Mail, AccP!Letter
    <2>3. user \in [Emails -> AccP!UserRow \cup {None}]
      BY <1>a, <1>d DEF AccP!UserRow
    <2>4. info \in [Emails -> AccP!InfoRow \cup {None}]
      BY <1>a, <1>d DEF AccP!InfoRow
    <2> QED BY <1>c, <2>1, <2>2, <2>3, <2>4 DEF AccP!TypeOK
  <1>2. AccP!KnowsOK
    BY <1>e DEF AccP!KnowsOK, AccP!Knows
  <1>3. AccP!FreshIsUnique
    BY <1>a, <1>e DEF AccP!FreshIsUnique
  <1>4. AccP!OneInserter
    BY <1>e DEF AccP!OneInserter
  <1>5. AccP!Written(e, Owner.code, "confirmation")
    BY <1>a, <1>c, <1>f DEF AccP!Written, AccP!Wrote
  <1>6. AccP!Written(e, Owner.recovery, "recovery")
    BY <1>a, <1>c, <1>f DEF AccP!Written, AccP!Wrote
  <1>7. AccP!CodesAreWritten
    <2>1. ASSUME NEW m \in sent PROVE AccP!Written(m.to, m.code, m.about)
      BY <1>c, <1>5, <1>6 DEF AccP!Letter
    <2> QED BY <1>d, <1>5, <1>6, <2>1 DEF AccP!CodesAreWritten
  <1>8. AccP!RowsOK
    BY <1>a, <1>b, <1>d DEF AccP!RowsOK, AccP!UserRow
  <1>9. AccP!HalfAccountsAreExplained
    <2>1. info[e] # None
      <3>1. info[e] \in AccP!InfoRow
        BY <1>a, <1>d DEF AccP!InfoRow
      <3> QED BY <1>b, <3>1
    <2> QED BY <1>d, <2>1 DEF AccP!HalfAccountsAreExplained
  <1>10. AccP!ConfirmedByOwner
    BY <1>a, <1>c, <1>d, <1>f DEF AccP!ConfirmedByOwner, AccP!Letter
  <1> QED
    BY <1>1, <1>2, <1>3, <1>4, <1>7, <1>8, <1>9, <1>10 DEF AccP!IInv

(* The invariant holds at first: nobody has a session.                     *)
LEMMA InitIInv == Init => IInv
  <1> SUFFICES ASSUME Init PROVE IInv
    OBVIOUS
  <1>1. AccP!IInv
    BY OwnerIsReal DEF Init
  <1>2. \A r \in Requests : sreq[r] = SesP!Waiting /\ shown[r] = Nothing
    BY DEF Init, Ses!Waiting, SesP!Waiting
  <1>3. SesP!Init
    <2>1. Hash \in [Emails -> Passwords \cup {None}]
      BY <1>1 DEF Hash, AccP!IInv, AccP!TypeOK, AccP!UserRow
    <2> QED BY <2>1 DEF Init, SesP!Init, Ses!Waiting, SesP!Waiting
  <1>4. SesP!RowsInv
    BY <1>3, SessionsConstants, SesP!InitRowsInv
  <1>5. TypeOK
    BY DEF Init, TypeOK, Nothing
  <1>6. ShownOK
    BY <1>2 DEF ShownOK, Nothing
  <1>7. ExplainedOK
    BY <1>2 DEF ExplainedOK, Explained, Nothing
  <1> QED BY <1>1, <1>4, <1>5, <1>6, <1>7 DEF IInv

-----------------------------------------------------------------------------
(* What the history of a request says outlasts the steps of the others.    *)

(* A request is one user's from its arrival on, and does not wait again.   *)
LEMMA UserKept ==
  ASSUME SesP!RowsInv, NEW r \in Requests, SesP!Step(r) \/ SesP!Quiet,
         NEW q \in Requests
  PROVE  /\ sreq[q].pc # "idle" => sreq'[q].user = sreq[q].user
         /\ sreq'[q].pc = "idle" => sreq[q].pc = "idle"
  <1> USE SessionsConstants
  <1>1. CASE SesP!Quiet
    BY <1>1 DEF SesP!Quiet
  <1>2. CASE SesP!Step(r)
    <2>1. /\ SesP!TypeOK /\ SesP!ShapeOK
      BY DEF SesP!RowsInv, SesP!IInv
    <2>2. CASE q # r
      BY <1>2, <2>1, <2>2, SesP!OthersKept
    <2>3. CASE q = r
      <3>1. SesP!Arrival(r) => sreq[r].pc = "idle"
        BY DEF SesP!Arrival, SesP!Waiting
      <3> QED
        BY <1>2, <2>1, <2>3, <3>1, SesP!SameRequest, SesP!NeverWaits
    <2> QED BY <2>2, <2>3
  <1> QED BY <1>1, <1>2

(* A user who has confirmed stays one.                                     *)
LEMMA UsersStay ==
  ASSUME AccP!IInv, [Next]_vars, NEW e \in Emails
  PROVE  /\ user[e] # None => user'[e] # None
         /\ AccP!Confirmer(e) => AccP!Confirmer(e)'
  <1>1. ASSUME NEW r \in Requests, AccP!Step(r)
        PROVE  /\ user[e] # None => user'[e] # None
               /\ AccP!Confirmer(e) => AccP!Confirmer(e)'
    BY AccountsConstants, <1>1, AccP!RowsStay, AccP!ConfirmerStays
  <1>2. CASE AccP!Deliver \/ AccP!Expire
    BY <1>2 DEF AccP!Deliver, AccP!Expire, AccP!Confirmer
  <1>3. CASE UNCHANGED accountVars
    BY <1>3 DEF accountVars, AccP!Confirmer
  <1>4. CASE Mails \/ UNCHANGED vars
    BY <1>2, <1>3, <1>4, AccountOperations DEF Mails, vars
  <1> QED BY <1>1, <1>3, <1>4, AccountsMove DEF Next, Operation

(* A login that goes on is one of a confirmed user, with the password of   *)
(* the moment (CheckUserCredentials).                                      *)
LEMMA LoginStep ==
  ASSUME IInv, NEW r \in Requests, NEW e \in Emails, NEW p \in Passwords,
         Login(r, e, p)
  PROVE  \/ shown' = shown
         \/ /\ shown' = [shown EXCEPT ![r].password = p]
            /\ sreq'[r].user = e /\ sreq'[r].pc = "sign"
            /\ user[e] # None /\ Hash[e] = p /\ AccP!Confirmer(e)
  <1>1. CASE CheckUserCredentials(e, p) # "none"
    BY <1>1 DEF Login
  <1>2. CASE CheckUserCredentials(e, p) = "none"
    <2>1. /\ user[e] # None /\ Hash[e] = p
          /\ info[e] # None /\ info[e].confirmed
      BY <1>2 DEF CheckUserCredentials
    <2>2. AccP!Confirmer(e)
      BY <2>1 DEF IInv, AccP!IInv, AccP!ConfirmedByOwner, AccP!Confirmer,
         AccP!Letter
    <2>3. sreq \in [Requests -> SesP!Request]
      BY DEF IInv, SesP!RowsInv, SesP!IInv, SesP!TypeOK
    <2>4. sreq'[r].user = e /\ sreq'[r].pc = "sign"
      BY <1>2, <2>3 DEF Login, Ses!Start, Ses!Waiting
    <2> QED BY <1>2, <2>1, <2>2, <2>4 DEF Login
  <1> QED BY <1>1, <1>2

(* A token presented is one of the session's own user, so its session      *)
(* passes on what is known of the one who opened it.                       *)
LEMMA RenewStep ==
  ASSUME IInv, NEW r \in Requests, NEW t \in issued,
         NEW k \in {"refresh", "logout"}, PresentToken(r, k, t)
  PROVE  \E o \in Requests :
            /\ sreq[o].fresh = t.deviceId /\ sreq[o].fresh # None
            /\ shown' = [shown EXCEPT ![r] = shown[o]]
            /\ sreq[o].pc # "idle" /\ sreq'[r].user = sreq[o].user
            /\ sreq'[r].presented = sreq[o].fresh /\ sreq'[r].fresh = None
            /\ sreq'[r].pc \in {"find", "done"} /\ device' = device
  <1> DEFINE o == Opener(t.deviceId)
  <1>a. /\ sreq \in [Requests -> SesP!Request] /\ t \in SesP!Token
        /\ \A q \in Requests : SesP!Shape(sreq[q])
    BY DEF IInv, SesP!RowsInv, SesP!IInv, SesP!TypeOK, SesP!ShapeOK
  <1>1. \E q \in Requests : sreq[q].fresh = t.deviceId
    BY DEF IInv, SesP!RowsInv, SesP!IInv, SesP!KnownIsAnswered, SesP!Answered
  <1>2. o \in Requests /\ sreq[o].fresh = t.deviceId
    BY <1>1 DEF Opener
  <1>3. sreq[o].fresh # None
    BY <1>a, <1>2, NoneAssumption DEF SesP!Token
  <1>4. sreq[o].pc # "idle"
    BY <1>a, <1>2, <1>3 DEF SesP!Shape, SesP!Waiting
  <1>5. sreq[o].user = t.userId
    BY <1>2, <1>3 DEF IInv, SesP!RowsInv, SesP!UsersAgree
  <1>6. /\ sreq'[r].user = t.userId /\ sreq'[r].presented = t.deviceId
        /\ sreq'[r].fresh = None /\ sreq'[r].pc \in {"find", "done"}
    BY <1>a DEF PresentToken, Ses!PresentToken, Ses!Start, Ses!Waiting
  <1>7. device' = device /\ shown' = [shown EXCEPT ![r] = shown[o]]
    BY DEF PresentToken, Ses!PresentToken
  <1> QED BY <1>2, <1>3, <1>4, <1>5, <1>6, <1>7

(* Only logins, renewals and purges write the history.                     *)
LEMMA ShownMoves ==
  ASSUME NEW r \in Requests, Operation(r)
  PROVE  \/ shown' = shown
         \/ \E e \in Emails, p \in Passwords : Login(r, e, p)
         \/ \E t \in issued, k \in {"refresh", "logout"} :
               PresentToken(r, k, t)
         \/ PurgeDevices(r)
  BY DEF Operation, GoogleLogin, SessionStep, NewPassword, SetPassword,
         AccountStep, Abort

-----------------------------------------------------------------------------
(* The password behind a session stays one of a user who has confirmed.    *)
LEMMA Vouched ==
  ASSUME IInv, [Next]_vars, NEW o \in Requests, shown[o].password # None
  PROVE  \E e \in Emails : /\ sreq[o].user = e /\ user'[e] # None
                           /\ AccP!Confirmer(e)'
  BY UsersStay DEF IInv, ShownOK

(* A request whose history is that of another, or its own as it was, and   *)
(* whose user is the same, keeps what ShownOK says of it.                  *)
LEMMA ShownPasses ==
  ASSUME IInv, [Next]_vars, NEW q \in Requests, NEW o \in Requests,
         shown'[q].password = shown[o].password,
         shown[o].password # None => sreq'[q].user = sreq[o].user
  PROVE  shown'[q].password # None =>
            /\ sreq'[q].user \in Emails /\ user'[sreq'[q].user] # None
            /\ AccP!Confirmer(sreq[q].user)'
  BY Vouched

(* Every operation keeps the history well-typed, and ShownOK.              *)
LEMMA ShownStep ==
  ASSUME IInv, NEW r \in Requests, Operation(r)
  PROVE  TypeOK' /\ ShownOK'
  <1> USE DEF IInv
  <1>a. [Next]_vars
    BY DEF Next, Operation
  <1>b. SesP!Step(r) \/ SesP!Quiet
    BY SessionsMove
  <1>c. /\ shown \in [Requests -> [password: Passwords \cup {None},
                                   overtaken: SUBSET Requests]]
    BY DEF TypeOK
  <1>d. ASSUME NEW q \in Requests, shown[q].password # None
        PROVE  sreq'[q].user = sreq[q].user
    <2>1. sreq[q].pc # "idle"
      BY <1>d DEF ShownOK, Nothing
    <2> QED BY <1>b, <2>1, UserKept
  <1>e. ASSUME NEW q \in Requests, shown'[q] = shown[q]
        PROVE  /\ sreq'[q].pc = "idle" => shown'[q] = Nothing
               /\ shown'[q].password # None =>
                     /\ sreq'[q].user \in Emails /\ user'[sreq'[q].user] # None
                     /\ AccP!Confirmer(sreq[q].user)'
    <2>1. sreq'[q].pc = "idle" => shown'[q] = Nothing
      BY <1>b, <1>e, UserKept DEF ShownOK
    <2> QED BY <1>a, <1>d, <1>e, <2>1, ShownPasses
  <1>1. CASE shown' = shown
    BY <1>c, <1>e, <1>1 DEF TypeOK, ShownOK, Nothing
  <1>2. ASSUME NEW e \in Emails, NEW p \in Passwords, Login(r, e, p),
               shown' # shown
        PROVE  TypeOK' /\ ShownOK'
    <2>1. /\ shown' = [shown EXCEPT ![r].password = p]
          /\ sreq'[r].user = e /\ sreq'[r].pc = "sign"
          /\ user[e] # None /\ AccP!Confirmer(e)
      BY <1>2, LoginStep
    <2>2. user'[e] # None /\ AccP!Confirmer(e)'
      BY <1>a, <2>1, UsersStay
    <2>3. TypeOK'
      BY <1>c, <2>1 DEF TypeOK
    <2>4. \A q \in Requests : q # r => shown'[q] = shown[q]
      BY <1>c, <2>1
    <2> QED BY <1>e, <2>1, <2>2, <2>3, <2>4 DEF ShownOK, Nothing
  <1>3. ASSUME NEW t \in issued, NEW k \in {"refresh", "logout"},
               PresentToken(r, k, t)
        PROVE  TypeOK' /\ ShownOK'
    <2>1. PICK o \in Requests :
             /\ shown' = [shown EXCEPT ![r] = shown[o]]
             /\ sreq'[r].user = sreq[o].user
             /\ sreq'[r].pc \in {"find", "done"}
      BY <1>3, RenewStep
    <2>2. TypeOK'
      BY <1>c, <2>1 DEF TypeOK
    <2>3. \A q \in Requests : q # r => shown'[q] = shown[q]
      BY <1>c, <2>1
    <2>4. shown'[r] = shown[o]
      BY <1>c, <2>1
    <2>5. shown'[r].password # None =>
             /\ sreq'[r].user \in Emails /\ user'[sreq'[r].user] # None
             /\ AccP!Confirmer(sreq[r].user)'
      BY <1>a, <2>1, <2>4, ShownPasses
    <2> QED BY <1>e, <2>1, <2>2, <2>3, <2>5 DEF ShownOK, Nothing
  <1>4. CASE PurgeDevices(r)
    <2>1. ASSUME NEW q \in Requests
          PROVE  /\ shown'[q].password = shown[q].password
                 /\ sreq[q].pc = "idle" => shown'[q] = shown[q]
                 /\ shown'[q] \in [password: Passwords \cup {None},
                                   overtaken: SUBSET Requests]
      BY <1>c, <1>4 DEF PurgeDevices, Opening
    <2>2. TypeOK'
      <3>1. shown' = [q \in Requests |-> shown'[q]]
        BY <1>4 DEF PurgeDevices
      <3> QED BY <2>1, <3>1 DEF TypeOK
    <2>3. ASSUME NEW q \in Requests, sreq'[q].pc = "idle"
          PROVE  shown'[q] = Nothing
      BY <1>b, <2>1, <2>3, UserKept DEF ShownOK
    <2>4. ASSUME NEW q \in Requests, shown'[q].password # None
          PROVE  /\ sreq'[q].user \in Emails /\ user'[sreq'[q].user] # None
                 /\ AccP!Confirmer(sreq[q].user)'
      BY <1>a, <1>d, <2>1, <2>4, ShownPasses
    <2> QED BY <2>2, <2>3, <2>4 DEF ShownOK, Nothing
  <1> QED BY <1>1, <1>2, <1>3, <1>4, ShownMoves

-----------------------------------------------------------------------------
(* The explanations of old passwords outlast every step.                   *)

(* Nobody comes to be watched but by arriving.                             *)
LEMMA WatchedBefore ==
  ASSUME SesP!RowsInv, NEW r \in Requests, SesP!Step(r) \/ SesP!Quiet,
         NEW q \in Requests, SesP!Watched(q)'
  PROVE  \/ SesP!Watched(q) /\ sreq'[q].user = sreq[q].user
         \/ q = r /\ sreq[r].pc = "idle" /\ SesP!Step(r)
  <1>1. CASE SesP!Quiet
    BY <1>1 DEF SesP!Quiet, SesP!Watched, SesP!Live
  <1>2. CASE SesP!Step(r)
    BY <1>2, SessionsConstants, SesP!WatchedStep DEF SesP!Arrival, SesP!Waiting
  <1> QED BY <1>1, <1>2

(* A password that was changed stays changed.                              *)
LEMMA ChangesStay ==
  ASSUME SesP!RowsInv, NEW r \in Requests, SesP!Step(r) \/ SesP!Quiet,
         NEW e, NEW c \in Changes(e)
  PROVE  /\ c \in Changes(e)'
         /\ sreq[c].pc = "purge" =>
               sreq'[c].pc = "purge" \/ (c = r /\ SesP!PurgeDevices(r))
  <1>1. c \in Requests /\ SesP!Changed(sreq[c]) /\ sreq[c].user = e
    BY DEF Changes, SesP!Changed
  <1>2. CASE SesP!Quiet
    BY <1>2 DEF SesP!Quiet, Changes
  <1>3. CASE SesP!Step(r)
    <2>1. /\ SesP!Changed(sreq'[c]) /\ sreq'[c].user = e
          /\ sreq[c].pc = "purge" =>
                sreq'[c].pc = "purge" \/ (c = r /\ SesP!PurgeDevices(r))
      BY <1>1, <1>3, SessionsConstants, SesP!ChangedStays
    <2> QED BY <1>1, <2>1 DEF Changes, SesP!Changed
  <1> QED BY <1>2, <1>3

(* Only a new password changes one.                                        *)
LEMMA HashKept ==
  ASSUME IInv, NEW r \in Requests, Operation(r), ~SetPassword(r),
         NEW e \in Emails, user[e] # None
  PROVE  Hash'[e] = Hash[e]
  <1>1. user' = user \/ ~AccP!SetPassword(r)
    BY DEF Operation, Login, GoogleLogin, PresentToken, SessionStep,
       NewPassword, Acc!NewPassword, PurgeDevices, AccountStep, Abort,
       Acc!Abort, accountVars, Idle, AccP!SetPassword, AccP!At,
       Acc!FindByUsername, Acc!InsertUser, Acc!InsertInfo,
       Acc!UpdateConfirmationCode, Acc!UpdateRecoveryPassword, Acc!Emit,
       Acc!SetConfirmed, Acc!SetName, Acc!CreateUserAndProviderUser, Acc!At
  <1>2. CASE user' = user
    BY <1>2 DEF Hash
  <1>3. CASE AccP!Step(r) /\ ~AccP!SetPassword(r)
    <2>1. user'[e].hash = user[e].hash /\ user'[e] # None
      BY AccountsConstants, <1>3, AccP!PasswordStep, AccP!RowsStay DEF IInv
    <2> QED BY <2>1 DEF Hash
  <1> QED BY <1>1, <1>2, <1>3, AccountsMove DEF accountVars

(* What explains the password of request o explains that of a request that *)
(* takes it over, of the same user, unless the password changes now or the *)
(* explanation was about to purge.                                         *)
LEMMA PassedOn ==
  ASSUME SesP!RowsInv, NEW r \in Requests, SesP!Step(r) \/ SesP!Quiet,
         ~SesP!PurgeDevices(r),
         NEW o \in Requests, NEW q \in Requests, Explained(o),
         sreq'[q].user = sreq[o].user, shown'[q].password = shown[o].password,
         shown[o].overtaken \subseteq shown'[q].overtaken,
         shown[o].password # None => Hash'[sreq[o].user] = Hash[sreq[o].user]
  PROVE  Explained(q)'
  <1>1. CASE shown[o].password \in {None, Hash[sreq[o].user]}
    BY <1>1 DEF Explained
  <1>2. CASE shown[o].password \notin {None, Hash[sreq[o].user]}
    <2>1. PICK e : e = sreq[o].user
      OBVIOUS
    <2>2. PICK c \in Changes(e) :
             sreq[c].pc = "purge" \/ c \in shown[o].overtaken
      BY <1>2, <2>1 DEF Explained
    <2>3. /\ c \in Changes(e)'
          /\ sreq'[c].pc = "purge" \/ c \in shown'[q].overtaken
      BY <2>2, ChangesStay
    <2>4. sreq'[q].user = e
      BY <2>1
    <2> QED BY <2>3, <2>4 DEF Explained, Changes
  <1> QED BY <1>1, <1>2

(* A new password leaves no session behind unexplained: it explains those  *)
(* it finds itself, until its purge; those its purge does not find were    *)
(* being opened.                                                           *)
LEMMA ExplainedStep ==
  ASSUME IInv, NEW r \in Requests, Operation(r)
  PROVE  ExplainedOK'
  <1> USE DEF IInv
  <1>b. SesP!Step(r) \/ SesP!Quiet
    BY SessionsMove
  <1>c. /\ shown \in [Requests -> [password: Passwords \cup {None},
                                   overtaken: SUBSET Requests]]
        /\ sreq \in [Requests -> SesP!Request]
    BY DEF TypeOK, SesP!RowsInv, SesP!IInv, SesP!TypeOK
  <1> SUFFICES ASSUME NEW q \in Requests, SesP!Watched(q)'
               PROVE  Explained(q)'
    BY DEF ExplainedOK
  <1>d. \/ SesP!Watched(q) /\ sreq'[q].user = sreq[q].user
        \/ q = r /\ sreq[r].pc = "idle" /\ SesP!Step(r)
    BY <1>b, WatchedBefore
  <1>e. ASSUME ~SetPassword(r), NEW o \in Requests, shown[o].password # None
        PROVE  Hash'[sreq[o].user] = Hash[sreq[o].user]
    <2>1. sreq[o].user \in Emails /\ user[sreq[o].user] # None
      BY <1>e DEF ShownOK
    <2> QED BY <1>e, <2>1, HashKept
  <1>1. ASSUME ~SetPassword(r), ~SesP!PurgeDevices(r), shown'[q] = shown[q]
        PROVE  Explained(q)'
    <2>1. CASE SesP!Watched(q) /\ sreq'[q].user = sreq[q].user
      <3>1. Explained(q)
        BY <2>1 DEF ExplainedOK
      <3> QED BY <1>b, <1>e, <1>1, <2>1, <3>1, PassedOn
    <2>2. CASE q = r /\ sreq[r].pc = "idle"
      <3>1. shown'[q].password = None
        BY <1>1, <2>2 DEF ShownOK, Nothing
      <3> QED BY <3>1 DEF Explained
    <2> QED BY <1>d, <2>1, <2>2
  <1>2. ASSUME NEW e \in Emails, NEW p \in Passwords, Login(r, e, p)
        PROVE  Explained(q)'
    <2>1. ~SetPassword(r) /\ ~SesP!PurgeDevices(r)
      BY <1>2 DEF Login, Idle, SetPassword, Acc!SetPassword, Acc!At,
         SesP!PurgeDevices, SesP!At
    <2>2. CASE shown'[q] = shown[q]
      BY <1>1, <2>1, <2>2
    <2>3. CASE shown'[q] # shown[q]
      <3>1. /\ shown' = [shown EXCEPT ![r].password = p]
            /\ sreq'[r].user = e /\ user[e] # None /\ Hash[e] = p
        BY <1>2, <2>3, LoginStep
      <3>2. q = r /\ shown'[q].password = p
        BY <1>c, <2>3, <3>1
      <3>3. Hash'[e] = p
        BY <2>1, <3>1, HashKept
      <3> QED BY <3>1, <3>2, <3>3 DEF Explained
    <2> QED BY <2>2, <2>3
  <1>3. ASSUME NEW t \in issued, NEW k \in {"refresh", "logout"},
               PresentToken(r, k, t)
        PROVE  Explained(q)'
    <2>1. ~SetPassword(r) /\ ~SesP!PurgeDevices(r)
      BY <1>3 DEF PresentToken, Idle, SetPassword, Acc!SetPassword, Acc!At,
         SesP!PurgeDevices, SesP!At
    <2>2. PICK o \in Requests :
             /\ sreq[o].fresh = t.deviceId /\ sreq[o].fresh # None
             /\ shown' = [shown EXCEPT ![r] = shown[o]]
             /\ sreq'[r].user = sreq[o].user
             /\ sreq'[r].presented = sreq[o].fresh /\ sreq'[r].fresh = None
             /\ sreq'[r].pc \in {"find", "done"} /\ device' = device
      BY <1>3, RenewStep
    <2>3. CASE q # r
      BY <1>c, <1>1, <2>1, <2>2, <2>3
    <2>4. CASE q = r
      <3>1. SesP!Watched(o)
        BY <2>2, <2>4 DEF SesP!Watched, SesP!Live
      <3>2. Explained(o) /\ shown'[q] = shown[o]
        BY <1>c, <2>2, <2>4, <3>1 DEF ExplainedOK
      <3> QED BY <1>b, <1>e, <2>1, <2>2, <2>4, <3>2, PassedOn
    <2> QED BY <2>3, <2>4
  <1>4. CASE SetPassword(r)
    <2>1. PICK p : /\ SesP!UpdatePassword(r, p) /\ p \in Passwords
                   /\ shown' = shown
      BY <1>4, SessionOperations, NewPasswords DEF SetPassword
    <2>2. /\ sreq[r].pc = "update" /\ ~SesP!PurgeDevices(r)
          /\ Hash' = [Hash EXCEPT ![sreq[r].user] = p]
          /\ sreq'[r].pc = "purge" /\ sreq'[r].user = sreq[r].user
          /\ sreq'[r].kind = sreq[r].kind
      BY <1>c, <2>1 DEF SesP!UpdatePassword, SesP!PurgeDevices, SesP!At
    <2>3. SesP!Watched(q) /\ sreq'[q].user = sreq[q].user
      BY <1>d, <2>2
    <2>4. Explained(q)
      BY <2>3 DEF ExplainedOK
    <2>5. CASE Hash'[sreq[q].user] = Hash[sreq[q].user]
      BY <1>b, <2>1, <2>2, <2>3, <2>4, <2>5, PassedOn
    <2>6. CASE Hash'[sreq[q].user] # Hash[sreq[q].user]
      <3>1. sreq[q].user = sreq[r].user
        BY <2>2, <2>6
      <3>2. sreq'[r].kind = "newPassword"
        BY <2>2 DEF SesP!RowsInv, SesP!IInv, SesP!ShapeOK, SesP!Shape
      <3> QED BY <2>2, <2>3, <3>1, <3>2 DEF Explained, Changes
    <2> QED BY <2>5, <2>6
  <1>5. CASE PurgeDevices(r)
    <2>1. /\ SesP!PurgeDevices(r) /\ ~SetPassword(r)
          /\ SesP!Step(r)
      BY <1>5, SessionOperations
      DEF PurgeDevices, SetPassword, Ses!UpdatePassword, Ses!PurgeDevices,
          Ses!At, SesP!Step
    <2>2. sreq[r].pc = "purge" /\ sreq[r].kind = "newPassword"
      BY <2>1 DEF SesP!PurgeDevices, SesP!At, SesP!RowsInv, SesP!IInv,
         SesP!ShapeOK, SesP!Shape
    <2>3. SesP!Watched(q) /\ sreq'[q].user = sreq[q].user
      BY <1>d, <2>2
    <2>4. PICK e : e = sreq[q].user
      OBVIOUS
    <2>5. /\ shown'[q].password = shown[q].password
          /\ shown[q].overtaken \subseteq shown'[q].overtaken
          /\ q \in Opening(sreq[r].user) => r \in shown'[q].overtaken
      BY <1>c, <1>5 DEF PurgeDevices
    <2>6. CASE shown[q].password \in {None, Hash[sreq[q].user]}
      BY <1>e, <2>1, <2>3, <2>5, <2>6 DEF Explained
    <2>7. CASE shown[q].password \notin {None, Hash[sreq[q].user]}
      <3>1. PICK c \in Changes(e) :
               sreq[c].pc = "purge" \/ c \in shown[q].overtaken
        BY <2>3, <2>4, <2>7 DEF ExplainedOK, Explained
      <3>2. /\ c \in Changes(e)'
            /\ sreq[c].pc = "purge" => sreq'[c].pc = "purge" \/ c = r
        BY <1>b, <3>1, ChangesStay
      <3>3. CASE c = r
        <4>1. sreq[q].user = sreq[r].user
          BY <2>4, <3>1, <3>3 DEF Changes
        <4>2. sreq[q].pc \in {"sign", "insert"} /\ sreq[q].reply = "none"
          BY <2>1, <4>1, SessionsConstants, SesP!PurgeLeaves
        <4>3. r \in shown'[q].overtaken
          BY <2>5, <4>1, <4>2 DEF Opening
        <4> QED BY <2>3, <2>4, <3>2, <3>3, <4>3 DEF Explained
      <3>4. CASE c # r
        BY <2>3, <2>4, <2>5, <3>1, <3>2, <3>4 DEF Explained
      <3> QED BY <3>3, <3>4
    <2> QED BY <2>6, <2>7
  <1>6. CASE shown' = shown /\ ~SetPassword(r) /\ ~PurgeDevices(r)
    <2>1. ~SesP!PurgeDevices(r)
      <3> SUFFICES ASSUME SesP!PurgeDevices(r) PROVE FALSE
        OBVIOUS
      <3>1. sreq[r].pc = "purge" /\ sreq'[r].pc = "done"
        BY <1>c DEF SesP!PurgeDevices, SesP!At, SesP!Answer, SesP!Request
      <3>2. UNCHANGED sessionVars \/ SessionStep(r) \/ Ses!Abort(r)
        BY <1>6, <3>1
        DEF Operation, Login, GoogleLogin, PresentToken, NewPassword, Idle,
            AccountStep, Abort
      <3>3. ~SessionStep(r)
        BY <3>1 DEF SessionStep, Ses!FindSession, Ses!DeleteSession,
           Ses!SignTokens, Ses!InsertDevice, Ses!ReplyTokens, Ses!At
      <3>4. Ses!Abort(r) => sreq'[r].pc = sreq[r].pc
        BY <1>c DEF Ses!Abort, SesP!Request
      <3> QED BY <3>1, <3>2, <3>3, <3>4 DEF sessionVars
    <2> QED BY <1>1, <1>6, <2>1
  <1> QED BY <1>2, <1>3, <1>4, <1>5, <1>6, ShownMoves

(* IInv is inductive: mails concern neither sessions nor passwords.        *)
LEMMA NextIInv == IInv /\ [Next]_vars => IInv'
  <1> SUFFICES ASSUME IInv, [Next]_vars PROVE IInv'
    OBVIOUS
  <1>1. AccP!IInv' /\ SesP!RowsInv'
    BY AccountsStay, SessionsStay DEF IInv
  <1>2. ASSUME NEW r \in Requests, Operation(r)
        PROVE  TypeOK' /\ ShownOK' /\ ExplainedOK'
    BY <1>2, ShownStep, ExplainedStep
  <1>3. CASE Mails \/ UNCHANGED vars
    <2>1. UNCHANGED <<user, sessionVars, shown>>
      BY <1>3 DEF Mails, Acc!Deliver, Acc!Expire, vars, accountVars
    <2>2. ASSUME NEW q \in Requests, shown'[q].password # None
          PROVE  /\ sreq'[q].user \in Emails /\ user'[sreq'[q].user] # None
                 /\ AccP!Confirmer(sreq[q].user)'
      BY <2>1, <2>2, ShownPasses DEF sessionVars
    <2>3. TypeOK' /\ ShownOK'
      BY <2>1, <2>2 DEF IInv, TypeOK, ShownOK, Nothing, sessionVars
    <2>4. ExplainedOK'
      BY <2>1 DEF IInv, ExplainedOK, Explained, Changes, Hash, sessionVars,
         SesP!Watched, SesP!Live
    <2> QED BY <1>1, <2>3, <2>4 DEF IInv
  <1> QED BY <1>1, <1>2, <1>3 DEF Next, Operation, IInv

(* IInv holds of every behaviour.                                          *)
THEOREM Inductive == Spec => []IInv
  BY InitIInv, NextIInv, PTL DEF Spec

(* The request that opened a live session is that session's user's.        *)
LEMMA OpenerIs ==
  ASSUME IInv, NEW d \in DeviceIds, Ses!Live(d)
  PROVE  /\ Opener(d) \in Requests /\ sreq[Opener(d)].user = device[d].userId
         /\ SesP!Watched(Opener(d))
  <1>1. SesP!Live(d) /\ d # None
    BY NoneAssumption DEF Ses!Live, SesP!Live
  <1>2. \E r \in Requests : sreq[r].fresh = d
    BY <1>1 DEF IInv, SesP!RowsInv, SesP!IInv, SesP!NotLiveYet
  <1>3. Opener(d) \in Requests /\ sreq[Opener(d)].fresh = d
    BY <1>2 DEF Opener
  <1> QED
    BY <1>1, <1>3 DEF IInv, SesP!RowsInv, SesP!UsersAgree, SesP!Watched

(* A session with an old password is live only because a new password has  *)
(* not come to its purge, or because its purge came too early              *)
(* (AuthService.newPassword): whatever the number of logins, refreshes and *)
(* new passwords, no order of them leaves one behind otherwise.            *)
THEOREM OldPasswords == Spec => []OldPasswordsAreExplained
  <1>1. ASSUME IInv PROVE OldPasswordsAreExplained
    BY <1>1, OpenerIs
    DEF IInv, ExplainedOK, Explained, OldPasswordsAreExplained
  <1> QED BY <1>1, Inductive, PTL

(* Whoever has a session by password has used a code mailed to the         *)
(* account's address (ConfirmationRegistration, CheckUserCredentials).     *)
THEOREM ConfirmedSessions == Spec => []SessionsAreConfirmed
  <1>1. ASSUME IInv PROVE SessionsAreConfirmed
    <2>1. ASSUME NEW d \in DeviceIds, Ses!Live(d),
                 shown[Opener(d)].password # None
          PROVE  AccP!Confirmer(device[d].userId)
      BY <1>1, <2>1, OpenerIs DEF IInv, ShownOK
    <2>2. ASSUME NEW e, AccP!Confirmer(e)
          PROVE  \E m \in mailbox :
                    /\ m.to = e /\ m.about = "confirmation"
                    /\ \E q \in Requests : areq[q].kind = "confirm"
                                           /\ areq[q].code = m.code
      BY <2>2 DEF AccP!Confirmer, AccP!Letter
    <2> QED BY <2>1, <2>2 DEF SessionsAreConfirmed
  <1> QED BY <1>1, Inductive, PTL

(* A session ends by a request of its own user only, also where a recovery *)
(* code decides whose sessions a new password ends.                        *)
THEOREM OwnersEndSessions == Spec => OnlyOwnersEndSessions
  <1> DEFINE A == \A d \in DeviceIds :
                     (Ses!Live(d) /\ ~Ses!Live(d)') =>
                        \E r \in Requests : /\ sreq[r].user = device[d].userId
                                            /\ sreq'[r] # sreq[r]
  <1>1. ASSUME IInv, [Next]_vars PROVE [A]_(Ses!vars)
    <2>1. ASSUME NEW r \in Requests, SesP!Step(r), NEW d \in DeviceIds,
                 Ses!Live(d), ~Ses!Live(d)'
          PROVE  sreq[r].user = device[d].userId /\ sreq'[r] # sreq[r]
      BY <1>1, <2>1, SessionsConstants, SesP!EndsStep
      DEF IInv, Ses!Live, SesP!Live
    <2>2. CASE SesP!Quiet
      BY <2>2 DEF SesP!Quiet, Ses!Live
    <2>3. CASE Mails \/ UNCHANGED vars
      BY <2>3 DEF Mails, vars, sessionVars, Ses!Live
    <2> QED BY <1>1, <2>1, <2>2, <2>3, SessionsMove DEF Next, Operation, IInv
  <1> QED
    BY <1>1, Inductive, PTL DEF Spec, OnlyOwnersEndSessions,
       Ses!OnlyOwnersEndSessions

(* A password is replaced only by the holder of a recovery code mailed to  *)
(* its account, also on an account that has been recovered before.         *)
THEOREM PasswordsNeedRecovery == Spec => PasswordNeedsRecovery
  <1> DEFINE A == \A e \in Emails :
           (user[e] # None /\ user'[e].hash # user[e].hash) =>
              \E r \in Requests :
                 /\ areq[r].kind = "newPassword"
                 /\ areq[r].password = user'[e].hash
                 /\ [to |-> e, code |-> areq[r].code, about |-> "recovery"]
                       \in mailbox
  <1>1. ASSUME IInv, [Next]_vars PROVE [A]_(Acc!vars)
    <2>1. ASSUME NEW r \in Requests, AccP!Step(r) PROVE A
      BY AccountsConstants, <1>1, <2>1, AccP!PasswordStep DEF IInv, AccP!Letter
    <2>2. CASE UNCHANGED user
      BY <2>2
    <2>3. Mails \/ UNCHANGED vars \/ UNCHANGED accountVars => UNCHANGED user
      BY DEF Mails, Acc!Deliver, Acc!Expire, vars, accountVars
    <2> QED BY <1>1, <2>1, <2>2, <2>3, AccountsMove DEF Next, Operation
  <1> QED
    BY <1>1, Inductive, PTL DEF Spec, PasswordNeedsRecovery,
       Acc!PasswordNeedsRecovery
=============================================================================
