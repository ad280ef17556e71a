--------------------------- MODULE AccountsProofs ---------------------------
(***************************************************************************)
(* Theorems about Accounts, for any number of accounts, requests and codes.*)
(***************************************************************************)
EXTENDS AccountsRefinement, TLAPS

Letter(e, k, a) == [to |-> e, code |-> k, about |-> a]

(* The other accounts that bear the name n of account e.                   *)
Rivals(n, e) ==
    {x \in Emails \ {e} : user[x] # None /\ user[x].name = n}

(* Some other account was given the name n that account e asks for, by     *)
(* none of the requests b.                                                 *)
Outrun(n, e, b) == \E r \in Requests \ b : TookName(req[r], n, e)

(* The requests b gave it to one.                                          *)
Taken(n, e, b) == \A r \in b : r \in Requests /\ TookName(req[r], n, e)

(* What a request knows, and may rely on, at each of its steps.            *)
Knows(q) ==
    /\ q.pc = "idle" => q = Waiting
    /\ q.pc \notin {"emit", "done"} => q.fresh = None
    /\ q.pc = "emit" => q.fresh # None
    /\ q.fresh = None => q.about = "confirmation"
    /\ q.pc \notin {"idle", "done"} => q.email # None
    /\ q.pc \in {"byName", "insertUser", "insertInfo"} =>
          q.kind = "register" /\ q.name # None /\ q.password # None
    /\ q.pc = "insertGoogle" => q.kind = "google" /\ q.name # None
    /\ q.pc = "insertInfo" => user[q.email] # None /\ info[q.email] = None
    /\ q.pc \in {"confirm", "newCode", "newRecovery", "setPassword"} =>
          info[q.email] # None
    /\ q.pc = "confirm" =>
          /\ q.kind = "confirm"
          /\ Letter(q.email, q.code, "confirmation") \in mailbox
    /\ q.pc = "setPassword" =>
          /\ q.kind = "newPassword" /\ q.password # None
          /\ Letter(q.email, q.code, "recovery") \in mailbox
    /\ q.pc = "setName" =>
          /\ q.kind = "rename" /\ q.name # None /\ user[q.email] # None
          /\ Taken(q.name, q.email, q.before)
          /\ Rivals(q.name, q.email) # {} =>
                Outrun(q.name, q.email, q.before)
    /\ q.kind = "rename" /\ q.reply = "500" =>
          Outrun(q.name, q.email, q.before)

KnowsOK == \A r \in Requests : Knows(req[r])

(* No two requests generate the same code.                                 *)
FreshIsUnique ==
    \A r1, r2 \in Requests :
       req[r1].fresh # None /\ req[r1].fresh = req[r2].fresh => r1 = r2

(* One registration at most is between the two inserts of an account.      *)
OneInserter ==
    \A r1, r2 \in Requests :
       /\ req[r1].pc = "insertInfo" /\ req[r2].pc = "insertInfo"
       /\ req[r1].email = req[r2].email
       => r1 = r2

(* Request r generated code k for account e, and has mailed it if it is    *)
(* past the event.                                                         *)
Wrote(q, e, k, a) ==
    /\ q.fresh = k /\ q.email = e /\ q.about = a
    /\ q.pc = "emit" \/ Letter(e, k, a) \in sent

Written(e, k, a) == \E r \in Requests : Wrote(req[r], e, k, a)

(* The codes in the rows, and in the mails, are those generated for them.  *)
CodesAreWritten ==
    /\ \A e \in Emails : info[e] # None =>
          /\ Written(e, info[e].code, "confirmation")
          /\ info[e].recovery # None => Written(e, info[e].recovery, "recovery")
    /\ \A m \in sent : Written(m.to, m.code, m.about)

(* An account has a user before it has registration info, and no two       *)
(* users share a name.                                                     *)
RowsOK ==
    /\ \A e \in Emails : info[e] # None => user[e] # None
    /\ \A e1, e2 \in Emails :
          /\ user[e1] # None /\ user[e2] # None /\ user[e1].name = user[e2].name
          => e1 = e2

IInv ==
    /\ TypeOK
    /\ KnowsOK
    /\ FreshIsUnique
    /\ OneInserter
    /\ CodesAreWritten
    /\ RowsOK
    /\ HalfAccountsAreExplained
    /\ ConfirmedByOwner

-----------------------------------------------------------------------------
(* The operations of one request, the arrivals first.                      *)
Arriving(r) ==
    \/ \E n \in Names, e \in Emails, p \in Passwords : Register(r, n, e, p)
    \/ \E k \in KnownCodes : Confirm(r, k)
    \/ \E k \in KnownCodes : ResendCode(r, k)
    \/ \E k \in KnownCodes : ResendRecovery(r, k)
    \/ \E k \in KnownCodes, p \in Passwords : NewPassword(r, k, p)
    \/ \E e \in Emails : RecoverPassword(r, e)
    \/ \E e \in Emails, n \in Names : UpdateUser(r, e, n)
    \/ \E e \in Emails, n \in Names : GoogleLogin(r, e, n)

Step(r) == Arriving(r) \/ Continue(r) \/ Abort(r)

(* The next-state relation, by the operations of one request.              *)
LEMMA NextIsStep == Next <=> (\E r \in Requests : Step(r)) \/ Deliver \/ Expire
  BY DEF Next, Step, Arrive, Arriving

(* What an arriving request has learnt from its first query.               *)
Begun(q) ==
    /\ q.fresh = None /\ q.about = "confirmation"
    /\ q.pc \in {"byName", "newCode", "newRecovery", "confirm", "setPassword",
                 "setName", "insertGoogle", "done"}
    /\ q.pc # "done" => q.email \in Emails
    /\ q.pc = "insertGoogle" => q.kind = "google" /\ q.name \in Names
    /\ q.pc = "byName" =>
          q.kind = "register" /\ q.name \in Names /\ q.password \in Passwords
    /\ q.pc \in {"confirm", "newCode", "newRecovery", "setPassword"} =>
          info[q.email] # None
    /\ q.pc = "confirm" =>
          /\ q.kind = "confirm"
          /\ Letter(q.email, q.code, "confirmation") \in mailbox
    /\ q.pc = "setPassword" =>
          /\ q.kind = "newPassword" /\ q.password \in Passwords
          /\ Letter(q.email, q.code, "recovery") \in mailbox
    /\ q.pc = "setName" =>
          /\ q.kind = "rename" /\ q.name \in Names /\ user[q.email] # None
          /\ Rivals(q.name, q.email) = {}
          /\ Taken(q.name, q.email, q.before)
    /\ ~(q.kind = "rename" /\ q.reply = "500")

Arrival(r) ==
    /\ req[r] = Waiting
    /\ req' = [req EXCEPT ![r] = req'[r]]
    /\ req'[r] \in Request /\ Begun(req'[r])
    /\ UNCHANGED <<user, info, expired, sent, mailbox>>

(* A code that arrived, and is in a row, was mailed for that row: it was   *)
(* generated once.                                                         *)
LEMMA CodesFindTheirOwner ==
  ASSUME TypeOK, FreshIsUnique, CodesAreWritten, NEW k \in KnownCodes,
         NEW e \in Emails, info[e] # None
  PROVE  /\ k \in Codes
         /\ info[e].code = k => Letter(e, k, "confirmation") \in mailbox
         /\ info[e].recovery = k => Letter(e, k, "recovery") \in mailbox
  <1>1. PICK m \in mailbox : m.code = k
    BY DEF KnownCodes
  <1>2. m \in sent /\ m \in Mail /\ m = Letter(m.to, k, m.about)
    BY <1>1 DEF TypeOK, Mail, Letter
  <1>3. k \in Codes /\ k # None
    BY <1>1, <1>2, NoneAssumption DEF Mail
  <1>4. PICK q \in Requests : Wrote(req[q], m.to, k, m.about)
    BY <1>1, <1>2 DEF CodesAreWritten, Written
  <1>5. ASSUME NEW a, Written(e, k, a) PROVE Letter(e, k, a) \in mailbox
    <2>1. PICK p \in Requests : Wrote(req[p], e, k, a)
      BY <1>5 DEF Written
    <2>2. p = q
      BY <1>3, <1>4, <2>1 DEF FreshIsUnique, Wrote
    <2> QED BY <1>1, <1>2, <1>4, <2>1, <2>2 DEF Wrote
  <1> QED BY <1>3, <1>5 DEF CodesAreWritten

(* The eight ways in which a request arrives.                              *)
LEMMA Arrivals ==
  ASSUME IInv, NEW r \in Requests, Arriving(r)
  PROVE  Arrival(r)
  <1> USE DEF IInv
  <1>a. req \in [Requests -> Request] /\ KnownCodes \subseteq Codes
    <2>1. \A m \in mailbox : m \in Mail
      BY DEF TypeOK
    <2>2. \A m \in mailbox : m.code \in Codes
      BY <2>1 DEF Mail
    <2> QED BY <2>2 DEF TypeOK, KnownCodes
  <1>b. req[r].pc = "idle" => req[r] = Waiting
    BY DEF KnowsOK, Knows
  <1>c. Waiting \in Request
    BY DEF Waiting, Request
  <1>1. ASSUME NEW n \in Names, NEW e \in Emails, NEW p \in Passwords,
               Register(r, n, e, p)
        PROVE  Arrival(r)
    <2> DEFINE q == [Waiting EXCEPT !.kind = "register", !.email = e,
                                    !.name = n, !.password = p]
    <2>1. /\ req[r] = Waiting
          /\ UNCHANGED <<user, info, expired, sent, mailbox>>
      BY <1>a, <1>b, <1>1 DEF Register, At
    <2>2. CASE Begin(r, q, "byName")
      <3>1. /\ req' = [req EXCEPT ![r] = req'[r]] /\ req'[r] \in Request
            /\ req'[r].fresh = None /\ req'[r].about = "confirmation"
            /\ req'[r].kind = "register" /\ req'[r].pc = "byName"
            /\ req'[r].email = e /\ req'[r].name = n /\ req'[r].password = p
        BY <1>a, <2>1, <2>2 DEF Begin, Waiting, Request
      <3> QED BY <2>1, <3>1 DEF Arrival, Begun
    <2>3. CASE Begin(r, q, "newCode") /\ info[e] # None
      <3>1. /\ req' = [req EXCEPT ![r] = req'[r]] /\ req'[r] \in Request
            /\ req'[r].fresh = None /\ req'[r].about = "confirmation"
            /\ req'[r].kind = "register" /\ req'[r].pc = "newCode"
            /\ req'[r].email = e
        BY <1>a, <2>1, <2>3 DEF Begin, Waiting, Request
      <3> QED BY <2>1, <2>3, <3>1 DEF Arrival, Begun
    <2>4. ASSUME NEW x \in {"400", "500"}, Refuse(r, q, x) PROVE Arrival(r)
      <3>1. /\ req' = [req EXCEPT ![r] = req'[r]] /\ req'[r] \in Request
            /\ req'[r].fresh = None /\ req'[r].about = "confirmation"
            /\ req'[r].kind = "register" /\ req'[r].pc = "done"
            /\ req'[r].reply = x
        BY <1>a, <2>1, <2>4 DEF Refuse, Waiting, Request
      <3> QED BY <2>1, <2>4, <3>1 DEF Arrival, Begun
    <2> QED BY <1>1, <2>2, <2>3, <2>4 DEF Register, IsCorrectNotConfirmed
  <1>2. ASSUME NEW k \in KnownCodes, Confirm(r, k)
        PROVE  Arrival(r)
    <2> DEFINE q == [Waiting EXCEPT !.kind = "confirm", !.code = k]
    <2>1. /\ req[r] = Waiting /\ k \in Codes
          /\ UNCHANGED <<user, info, expired, sent, mailbox>>
      BY <1>a, <1>b, <1>2 DEF Confirm, At
    <2>2. CASE Refuse(r, q, "400")
      <3>1. /\ req' = [req EXCEPT ![r] = req'[r]] /\ req'[r] \in Request
            /\ req'[r].fresh = None /\ req'[r].about = "confirmation"
            /\ req'[r].kind = "confirm" /\ req'[r].pc = "done"
            /\ req'[r].reply = "400"
        BY <1>a, <2>1, <2>2 DEF Refuse, Waiting, Request
      <3> QED BY <2>1, <2>2, <3>1 DEF Arrival, Begun
    <2>3. ASSUME NEW e \in ByCode(k), Refuse(r, [q EXCEPT !.email = e], "ok")
          PROVE  Arrival(r)
      <3>0. e \in Emails
        BY DEF ByCode
      <3>1. /\ req' = [req EXCEPT ![r] = req'[r]] /\ req'[r] \in Request
            /\ req'[r].fresh = None /\ req'[r].about = "confirmation"
            /\ req'[r].kind = "confirm" /\ req'[r].pc = "done"
            /\ req'[r].reply = "ok"
        BY <1>a, <2>1, <2>3, <3>0 DEF Refuse, Waiting, Request
      <3> QED BY <2>1, <3>1 DEF Arrival, Begun
    <2>4. ASSUME NEW e \in ByCode(k),
                 Begin(r, [q EXCEPT !.email = e], "confirm")
          PROVE  Arrival(r)
      <3>0. /\ e \in Emails /\ info[e] # None
            /\ Letter(e, k, "confirmation") \in mailbox
        BY <2>4, CodesFindTheirOwner DEF ByCode
      <3>1. /\ req' = [req EXCEPT ![r] = req'[r]] /\ req'[r] \in Request
            /\ req'[r].fresh = None /\ req'[r].about = "confirmation"
            /\ req'[r].kind = "confirm" /\ req'[r].pc = "confirm"
            /\ req'[r].email = e /\ req'[r].code = k
            /\ req'[r].reply = "none"
        BY <1>a, <2>1, <2>4, <3>0 DEF Begin, Waiting, Request
      <3> QED BY <2>1, <3>0, <3>1 DEF Arrival, Begun
    <2> QED BY <1>2, <2>2, <2>3, <2>4 DEF Confirm
  <1>3. ASSUME NEW k \in KnownCodes, ResendCode(r, k)
        PROVE  Arrival(r)
    <2> DEFINE q == [Waiting EXCEPT !.kind = "resend", !.code = k]
    <2>1. /\ req[r] = Waiting /\ k \in Codes
          /\ UNCHANGED <<user, info, expired, sent, mailbox>>
      BY <1>a, <1>b, <1>3 DEF ResendCode, At
    <2>2. CASE Refuse(r, q, "400")
      <3>1. /\ req' = [req EXCEPT ![r] = req'[r]] /\ req'[r] \in Request
            /\ req'[r].fresh = None /\ req'[r].about = "confirmation"
            /\ req'[r].kind = "resend" /\ req'[r].pc = "done"
            /\ req'[r].reply = "400"
        BY <1>a, <2>1, <2>2 DEF Refuse, Waiting, Request
      <3> QED BY <2>1, <2>2, <3>1 DEF Arrival, Begun
    <2>3. ASSUME NEW e \in ByCode(k),
                 Begin(r, [q EXCEPT !.email = e], "newCode")
          PROVE  Arrival(r)
      <3>0. e \in Emails /\ info[e] # None
        BY DEF ByCode
      <3>1. /\ req' = [req EXCEPT ![r] = req'[r]] /\ req'[r] \in Request
            /\ req'[r].fresh = None /\ req'[r].about = "confirmation"
            /\ req'[r].kind = "resend" /\ req'[r].pc = "newCode"
            /\ req'[r].email = e
            /\ req'[r].reply = "none"
        BY <1>a, <2>1, <2>3, <3>0 DEF Begin, Waiting, Request
      <3> QED BY <2>1, <3>0, <3>1 DEF Arrival, Begun
    <2> QED BY <1>3, <2>2, <2>3 DEF ResendCode
  <1>4. ASSUME NEW k \in KnownCodes, ResendRecovery(r, k)
        PROVE  Arrival(r)
    <2> DEFINE q == [Waiting EXCEPT !.kind = "recoverResend", !.code = k]
    <2>1. /\ req[r] = Waiting /\ k \in Codes
          /\ UNCHANGED <<user, info, expired, sent, mailbox>>
      BY <1>a, <1>b, <1>4 DEF ResendRecovery, At
    <2>2. CASE Refuse(r, q, "400")
      <3>1. /\ req' = [req EXCEPT ![r] = req'[r]] /\ req'[r] \in Request
            /\ req'[r].fresh = None /\ req'[r].about = "confirmation"
            /\ req'[r].kind = "recoverResend" /\ req'[r].pc = "done"
            /\ req'[r].reply = "400"
        BY <1>a, <2>1, <2>2 DEF Refuse, Waiting, Request
      <3> QED BY <2>1, <2>2, <3>1 DEF Arrival, Begun
    <2>3. ASSUME NEW e \in ByRecovery(k),
                 Begin(r, [q EXCEPT !.email = e], "newRecovery")
          PROVE  Arrival(r)
      <3>0. e \in Emails /\ info[e] # None
        BY DEF ByRecovery
      <3>1. /\ req' = [req EXCEPT ![r] = req'[r]] /\ req'[r] \in Request
            /\ req'[r].fresh = None /\ req'[r].about = "confirmation"
            /\ req'[r].kind = "recoverResend" /\ req'[r].pc = "newRecovery"
            /\ req'[r].email = e
            /\ req'[r].reply = "none"
        BY <1>a, <2>1, <2>3, <3>0 DEF Begin, Waiting, Request
      <3> QED BY <2>1, <3>0, <3>1 DEF Arrival, Begun
    <2> QED BY <1>4, <2>2, <2>3 DEF ResendRecovery
  <1>5. ASSUME NEW k \in KnownCodes, NEW p \in Passwords, NewPassword(r, k, p)
        PROVE  Arrival(r)
    <2> DEFINE q == [Waiting EXCEPT !.kind = "newPassword", !.code = k,
                                    !.password = p]
    <2>1. /\ req[r] = Waiting /\ k \in Codes
          /\ UNCHANGED <<user, info, expired, sent, mailbox>>
      BY <1>a, <1>b, <1>5 DEF NewPassword, At
    <2>2. CASE Refuse(r, q, "400")
      <3>1. /\ req' = [req EXCEPT ![r] = req'[r]] /\ req'[r] \in Request
            /\ req'[r].fresh = None /\ req'[r].about = "confirmation"
            /\ req'[r].kind = "newPassword" /\ req'[r].pc = "done"
            /\ req'[r].reply = "400"
        BY <1>a, <2>1, <2>2 DEF Refuse, Waiting, Request
      <3> QED BY <2>1, <2>2, <3>1 DEF Arrival, Begun
    <2>3. ASSUME NEW e \in ByRecovery(k),
                 Begin(r, [q EXCEPT !.email = e], "setPassword")
          PROVE  Arrival(r)
      <3>0. /\ e \in Emails /\ info[e] # None
            /\ Letter(e, k, "recovery") \in mailbox
        BY <2>3, CodesFindTheirOwner DEF ByRecovery
      <3>1. /\ req' = [req EXCEPT ![r] = req'[r]] /\ req'[r] \in Request
            /\ req'[r].fresh = None /\ req'[r].about = "confirmation"
            /\ req'[r].kind = "newPassword" /\ req'[r].pc = "setPassword"
            /\ req'[r].email = e /\ req'[r].code = k /\ req'[r].password = p
            /\ req'[r].reply = "none"
        BY <1>a, <2>1, <2>3, <3>0 DEF Begin, Waiting, Request
      <3> QED BY <2>1, <3>0, <3>1 DEF Arrival, Begun
    <2> QED BY <1>5, <2>2, <2>3 DEF NewPassword
  <1>6. ASSUME NEW e \in Emails, RecoverPassword(r, e)
        PROVE  Arrival(r)
    <2> DEFINE q == [Waiting EXCEPT !.kind = "recover", !.email = e]
    <2>1. /\ req[r] = Waiting
          /\ UNCHANGED <<user, info, expired, sent, mailbox>>
      BY <1>a, <1>b, <1>6 DEF RecoverPassword, At
    <2>2. ASSUME NEW x \in {"400", "500"}, Refuse(r, q, x) PROVE Arrival(r)
      <3>1. /\ req' = [req EXCEPT ![r] = req'[r]] /\ req'[r] \in Request
            /\ req'[r].fresh = None /\ req'[r].about = "confirmation"
            /\ req'[r].kind = "recover" /\ req'[r].pc = "done"
            /\ req'[r].reply = x
        BY <1>a, <2>1, <2>2 DEF Refuse, Waiting, Request
      <3> QED BY <2>1, <2>2, <3>1 DEF Arrival, Begun
    <2>3. ASSUME NEW l \in {"newCode", "newRecovery"}, Begin(r, q, l),
                 info[e] # None
          PROVE  Arrival(r)
      <3>1. /\ req' = [req EXCEPT ![r] = req'[r]] /\ req'[r] \in Request
            /\ req'[r].fresh = None /\ req'[r].about = "confirmation"
            /\ req'[r].kind = "recover" /\ req'[r].pc = l
            /\ req'[r].email = e
        BY <1>a, <2>1, <2>3 DEF Begin, Waiting, Request
      <3> QED BY <2>1, <2>3, <3>1 DEF Arrival, Begun
    <2> QED BY <1>6, <2>2, <2>3 DEF RecoverPassword
  <1>7. ASSUME NEW e \in Emails, NEW n \in Names, UpdateUser(r, e, n)
        PROVE  Arrival(r)
    <2> DEFINE took == {x \in Requests : TookName(req[x], n, e)}
               q == [Waiting EXCEPT !.kind = "rename", !.email = e,
                                    !.name = n, !.before = took]
    <2>1. /\ req[r] = Waiting /\ user[e] # None
          /\ UNCHANGED <<user, info, expired, sent, mailbox>>
      BY <1>a, <1>b, <1>7 DEF UpdateUser, At, CanLogIn
    <2>2. CASE Refuse(r, q, "400")
      <3>1. /\ req' = [req EXCEPT ![r] = req'[r]] /\ req'[r] \in Request
            /\ req'[r].fresh = None /\ req'[r].about = "confirmation"
            /\ req'[r].kind = "rename" /\ req'[r].pc = "done"
            /\ req'[r].reply = "400"
        BY <1>a, <2>1, <2>2 DEF Refuse, Waiting, Request
      <3> QED BY <2>1, <2>2, <3>1 DEF Arrival, Begun
    <2>3. CASE Begin(r, q, "setName") /\ ~(NameTaken(n) /\ user[e].name # n)
      <3>1. /\ req' = [req EXCEPT ![r] = req'[r]] /\ req'[r] \in Request
            /\ req'[r].fresh = None /\ req'[r].about = "confirmation"
            /\ req'[r].kind = "rename" /\ req'[r].pc = "setName"
            /\ req'[r].email = e /\ req'[r].name = n
            /\ req'[r].reply = "none" /\ req'[r].before = took
        BY <1>a, <2>1, <2>3 DEF Begin, Waiting, Request
      <3>2. \A x \in Emails \ {e} : ~(user[x] # None /\ user[x].name = n)
        BY <2>1, <2>3 DEF NameTaken, RowsOK
      <3> QED BY <2>1, <3>1, <3>2 DEF Arrival, Begun, Rivals, Taken
    <2> QED BY <1>7, <2>2, <2>3 DEF UpdateUser
  <1>8. ASSUME NEW e \in Emails, NEW n \in Names, GoogleLogin(r, e, n)
        PROVE  Arrival(r)
    <2>1. /\ req[r] = Waiting
          /\ UNCHANGED <<user, info, expired, sent, mailbox>>
      BY <1>a, <1>b, <1>8 DEF GoogleLogin, At
    <2>2. /\ req' = [req EXCEPT ![r] = req'[r]] /\ req'[r] \in Request
          /\ req'[r].fresh = None /\ req'[r].about = "confirmation"
          /\ req'[r].kind = "google" /\ req'[r].pc = "insertGoogle"
          /\ req'[r].email = e /\ req'[r].name = n
      BY <1>a, <1>8, <2>1 DEF GoogleLogin, Begin, Waiting, Request
    <2> QED BY <2>1, <2>2 DEF Arrival, Begun
  <1> QED BY <1>1, <1>2, <1>3, <1>4, <1>5, <1>6, <1>7, <1>8 DEF Arriving

-----------------------------------------------------------------------------
(* Answering, or going on, keeps the requests well-typed.                  *)
LEMMA AnswerType ==
  ASSUME req \in [Requests -> Request], NEW r \in Requests,
         \/ \E x \in {"ok", "400", "500"} : Answer(r, x)
         \/ \E x \in {"insertUser", "insertInfo"} : Goto(r, x)
  PROVE  req' \in [Requests -> Request] /\ req' = [req EXCEPT ![r] = req'[r]]
  BY DEF Answer, Goto, Request

(* A step touches its own request only, and leaves everything well-typed.  *)
LEMMA TypeStep ==
  ASSUME IInv, NEW r \in Requests, Step(r)
  PROVE  /\ TypeOK'
         /\ req' = [req EXCEPT ![r] = req'[r]]
         /\ expired' = expired /\ mailbox' = mailbox /\ sent \subseteq sent'
  <1> USE DEF IInv
  <1>a. /\ user \in [Emails -> UserRow \cup {None}]
        /\ info \in [Emails -> InfoRow \cup {None}]
        /\ sent \subseteq Mail /\ mailbox \subseteq sent
        /\ req \in [Requests -> Request] /\ req[r] \in Request
        /\ Knows(req[r])
    BY DEF TypeOK, KnowsOK
  <1>1. CASE Arriving(r)
    BY <1>1, <1>a, Arrivals DEF Arrival, TypeOK
  <1>2. CASE FindByUsername(r)
    BY <1>2, <1>a, AnswerType DEF FindByUsername, TypeOK
  <1>3. CASE InsertUser(r)
    <2>1. /\ req[r].name \in Names /\ req[r].password \in Passwords
      BY <1>3, <1>a DEF InsertUser, At, Knows, Request
    <2>2. [name |-> req[r].name, hash |-> req[r].password] \in UserRow
      BY <2>1 DEF UserRow
    <2>3. user' \in [Emails -> UserRow \cup {None}]
      BY <1>3, <1>a, <2>2 DEF InsertUser
    <2> QED BY <1>3, <1>a, <2>3, AnswerType DEF InsertUser, TypeOK
  <1>4. CASE InsertInfo(r)
    <2>1. PICK k \in Codes \ Generated :
             /\ info' = [info EXCEPT ![req[r].email] =
                           [confirmed |-> FALSE, code |-> k, recovery |-> None]]
             /\ req' = [req EXCEPT ![r].pc = "emit", ![r].fresh = k]
      BY <1>4 DEF InsertInfo
    <2>2. info' \in [Emails -> InfoRow \cup {None}]
      BY <1>a, <2>1 DEF InfoRow
    <2>3. req' \in [Requests -> Request] /\ req' = [req EXCEPT ![r] = req'[r]]
      BY <1>a, <2>1 DEF Request
    <2> QED BY <1>4, <1>a, <2>2, <2>3 DEF InsertInfo, TypeOK
  <1>5. CASE UpdateConfirmationCode(r)
    <2>1. PICK k \in Codes \ Generated :
             /\ info' = [info EXCEPT ![req[r].email].code = k]
             /\ req' = [req EXCEPT ![r].pc = "emit", ![r].fresh = k]
      BY <1>5 DEF UpdateConfirmationCode
    <2>2. info[req[r].email] \in InfoRow
      BY <1>a, <1>5 DEF UpdateConfirmationCode, At, Knows, Request
    <2>3. info' \in [Emails -> InfoRow \cup {None}]
      BY <1>a, <2>1, <2>2 DEF InfoRow
    <2>4. req' \in [Requests -> Request] /\ req' = [req EXCEPT ![r] = req'[r]]
      BY <1>a, <2>1 DEF Request
    <2> QED BY <1>5, <1>a, <2>3, <2>4 DEF UpdateConfirmationCode, TypeOK
  <1>6. CASE UpdateRecoveryPassword(r)
    <2>1. PICK k \in Codes \ Generated :
             /\ info' = [info EXCEPT ![req[r].email].recovery = k]
             /\ req' = [req EXCEPT ![r].pc = "emit", ![r].fresh = k,
                                   ![r].about = "recovery"]
      BY <1>6 DEF UpdateRecoveryPassword
    <2>2. info[req[r].email] \in InfoRow
      BY <1>a, <1>6 DEF UpdateRecoveryPassword, At, Knows, Request
    <2>3. info' \in [Emails -> InfoRow \cup {None}]
      BY <1>a, <2>1, <2>2 DEF InfoRow
    <2>4. req' \in [Requests -> Request] /\ req' = [req EXCEPT ![r] = req'[r]]
      <3> DEFINE q == [req[r] EXCEPT !.pc = "emit", !.fresh = k,
                                     !.about = "recovery"]
      <3>1. q \in Request
        <4>1. ASSUME NEW x \in Request, NEW y \in Codes
              PROVE  [x EXCEPT !.pc = "emit", !.fresh = y] \in Request
          BY DEF Request
        <4>2. ASSUME NEW x \in Request
              PROVE  [x EXCEPT !.about = "recovery"] \in Request
          BY DEF Request
        <4> QED BY <1>a, <4>1, <4>2
      <3>2. req' = [req EXCEPT ![r] = q]
        BY <1>a, <2>1 DEF Request
      <3> HIDE DEF q
      <3> QED BY <1>a, <3>1, <3>2
    <2> QED BY <1>6, <1>a, <2>3, <2>4 DEF UpdateRecoveryPassword, TypeOK
  <1>7. CASE Emit(r)
    <2>1. sent' \subseteq Mail /\ sent \subseteq sent'
      BY <1>7, <1>a DEF Emit, At, Knows, Mail, Request
    <2> QED BY <1>7, <1>a, <2>1, AnswerType DEF Emit, TypeOK
  <1>8. CASE SetConfirmed(r)
    <2>1. info[req[r].email] \in InfoRow
      BY <1>a, <1>8 DEF SetConfirmed, At, Knows, Request
    <2>2. info' \in [Emails -> InfoRow \cup {None}]
      BY <1>8, <1>a, <2>1 DEF SetConfirmed, InfoRow
    <2> QED BY <1>8, <1>a, <2>2, AnswerType DEF SetConfirmed, TypeOK
  <1>9. CASE SetPassword(r)
    <2>1. /\ req[r].email \in Emails /\ req[r].password \in Passwords
          /\ info[req[r].email] # None
      BY <1>a, <1>9 DEF SetPassword, At, Knows, Request
    <2>2. user[req[r].email] \in UserRow
      BY <1>a, <2>1 DEF RowsOK
    <2>3. user' \in [Emails -> UserRow \cup {None}]
      BY <1>9, <1>a, <2>1, <2>2 DEF SetPassword, UserRow
    <2> QED BY <1>9, <1>a, <2>3, AnswerType DEF SetPassword, TypeOK
  <1>10. CASE SetName(r)
    <2>1. user[req[r].email] \in UserRow /\ req[r].name \in Names
      BY <1>a, <1>10 DEF SetName, At, Knows, Request
    <2>2. user' \in [Emails -> UserRow \cup {None}]
      BY <1>10, <1>a, <2>1 DEF SetName, UserRow
    <2> QED BY <1>10, <1>a, <2>2, AnswerType DEF SetName, TypeOK
  <1>11. CASE CreateUserAndProviderUser(r)
    <2>1. req[r].name \in Names
      BY <1>11, <1>a DEF CreateUserAndProviderUser, At, Knows, Request
    <2>2. [name |-> req[r].name, hash |-> None] \in UserRow
      BY <2>1 DEF UserRow
    <2>3. user' \in [Emails -> UserRow \cup {None}]
      BY <1>11, <1>a, <2>2 DEF CreateUserAndProviderUser
    <2> QED BY <1>11, <1>a, <2>3, AnswerType
        DEF CreateUserAndProviderUser, TypeOK
  <1>12. CASE Abort(r)
    BY <1>12, <1>a DEF Abort, TypeOK, Request
  <1> QED
    BY <1>1, <1>2, <1>3, <1>4, <1>5, <1>6, <1>7, <1>8, <1>9, <1>10, <1>11,
       <1>12
    DEF Step, Continue

(* A step of one request leaves every other request alone.                 *)
LEMMA OthersKept ==
  ASSUME IInv, NEW r \in Requests, Step(r), NEW q \in Requests, q # r
  PROVE  req'[q] = req[q]
  BY TypeStep DEF IInv, TypeOK

(* A request stays about what it arrived for.                              *)
LEMMA Onward ==
  ASSUME IInv, NEW r \in Requests, Continue(r) \/ Abort(r)
  PROVE  /\ req'[r].kind = req[r].kind /\ req'[r].email = req[r].email
         /\ req'[r].name = req[r].name /\ req'[r].code = req[r].code
         /\ req'[r].password = req[r].password
  <1>a. req \in [Requests -> Request] /\ req[r] \in Request
    BY DEF IInv, TypeOK
  <1>1. CASE FindByUsername(r)
    BY <1>1, <1>a DEF FindByUsername, Answer, Goto, Request
  <1>2. CASE InsertUser(r)
    BY <1>2, <1>a DEF InsertUser, Answer, Goto, Request
  <1>3. CASE InsertInfo(r) \/ UpdateConfirmationCode(r)
    <2>1. PICK k : req' = [req EXCEPT ![r].pc = "emit", ![r].fresh = k]
      BY <1>3 DEF InsertInfo, UpdateConfirmationCode
    <2> QED BY <1>a, <2>1 DEF Request
  <1>4. CASE UpdateRecoveryPassword(r)
    <2>1. PICK k : req' = [req EXCEPT ![r].pc = "emit", ![r].fresh = k,
                                      ![r].about = "recovery"]
      BY <1>4 DEF UpdateRecoveryPassword
    <2> QED BY <1>a, <2>1 DEF Request
  <1>5. CASE Emit(r) \/ SetConfirmed(r) \/ SetPassword(r) \/ SetName(r)
    BY <1>5, <1>a DEF Emit, SetConfirmed, SetPassword, SetName, Answer, Request
  <1>6. CASE CreateUserAndProviderUser(r)
    BY <1>6, <1>a DEF CreateUserAndProviderUser, Answer, Request
  <1>7. CASE Abort(r)
    BY <1>7, <1>a DEF Abort, Request
  <1> QED BY <1>1, <1>2, <1>3, <1>4, <1>5, <1>6, <1>7 DEF Continue

-----------------------------------------------------------------------------
(* What a step does to the row of user e.                                  *)
Inserts(r, e) ==
    /\ InsertUser(r) /\ req[r].email = e
    /\ user[e] = None /\ ~NameTaken(req[r].name)
    /\ user'[e] = [name |-> req[r].name, hash |-> req[r].password]
    /\ req'[r].pc = "insertInfo"

Creates(r, e) ==
    /\ CreateUserAndProviderUser(r) /\ req[r].email = e
    /\ user[e] = None /\ ~NameTaken(req[r].name)
    /\ user'[e] = [name |-> req[r].name, hash |-> None]
    /\ req'[r].reply = "ok"

Recovers(r, e) ==
    /\ SetPassword(r) /\ req[r].email = e /\ user[e] # None
    /\ user'[e] = [user[e] EXCEPT !.hash = req[r].password]

Renames(r, e) ==
    /\ SetName(r) /\ req[r].email = e /\ user[e] # None
    /\ ~NameTaken(req[r].name) \/ user[e].name = req[r].name
    /\ user'[e] = [user[e] EXCEPT !.name = req[r].name]
    /\ req'[r].reply = "ok"

(* A step leaves the row of a user, or does one of the four things to it.  *)
LEMMA UserStep ==
  ASSUME IInv, NEW r \in Requests, Step(r), NEW e \in Emails
  PROVE  \/ user'[e] = user[e] \/ Inserts(r, e) \/ Creates(r, e)
         \/ Recovers(r, e) \/ Renames(r, e)
  <1> USE DEF IInv
  <1>a. /\ user \in [Emails -> UserRow \cup {None}]
        /\ req \in [Requests -> Request] /\ req[r] \in Request
        /\ Knows(req[r])
    BY DEF TypeOK, KnowsOK
  <1>1. CASE InsertUser(r)
    <2>1. CASE req[r].email = e /\ user[e] = None /\ ~NameTaken(req[r].name)
      <3>1. req'[r].pc = "insertInfo"
        BY <1>1, <1>a, <2>1 DEF InsertUser, Goto, Request
      <3> QED BY <1>1, <1>a, <2>1, <3>1 DEF InsertUser, Inserts
    <2> QED BY <1>1, <1>a, <2>1 DEF InsertUser
  <1>2. CASE SetPassword(r)
    <2>1. req[r].email \in Emails /\ info[req[r].email] # None
      BY <1>2, <1>a DEF SetPassword, At, Knows, Request
    <2>2. user[req[r].email] # None
      BY <2>1 DEF RowsOK
    <2> QED BY <1>2, <1>a, <2>1, <2>2 DEF SetPassword, Recovers
  <1>3. CASE SetName(r)
    <2>1. req[r].email \in Emails /\ user[req[r].email] # None
      BY <1>3, <1>a DEF SetName, At, Knows, Request
    <2>2. CASE user' = user
      BY <2>2
    <2>3. CASE user' # user
      <3>1. Answer(r, "ok") /\ user' = [user EXCEPT ![req[r].email].name = req[r].name]
        BY <1>3, <2>3 DEF SetName
      <3>2. req'[r].reply = "ok"
        BY <1>a, <3>1 DEF Answer, Request
      <3> QED BY <1>3, <1>a, <2>1, <2>3, <3>1, <3>2 DEF SetName, Renames
    <2> QED BY <2>2, <2>3
  <1>4. CASE CreateUserAndProviderUser(r)
    <2>1. CASE req[r].email = e /\ user[e] = None /\ ~NameTaken(req[r].name)
      <3>1. req'[r].reply = "ok"
        BY <1>4, <1>a, <2>1 DEF CreateUserAndProviderUser, Answer, Request
      <3> QED BY <1>4, <1>a, <2>1, <3>1 DEF CreateUserAndProviderUser, Creates
    <2> QED BY <1>4, <1>a, <2>1 DEF CreateUserAndProviderUser
  <1>5. CASE /\ ~InsertUser(r) /\ ~SetPassword(r) /\ ~SetName(r)
             /\ ~CreateUserAndProviderUser(r)
    BY <1>5, Arrivals
    DEF Step, Continue, Arrival, FindByUsername, InsertInfo,
        UpdateConfirmationCode, UpdateRecoveryPassword, Emit, SetConfirmed, Abort
  <1> QED BY <1>1, <1>2, <1>3, <1>4, <1>5

(* What a step does to the registration info of account e.                 *)
Completes(r, e) ==
    /\ InsertInfo(r) /\ req[r].email = e
    /\ info[e] = None /\ user[e] # None
    /\ info'[e] = [confirmed |-> FALSE, code |-> req'[r].fresh,
                   recovery |-> None]
    /\ req'[r].about = "confirmation"

Recodes(r, e) ==
    /\ req[r].email = e /\ info[e] # None
    /\ \/ /\ UpdateConfirmationCode(r) /\ req'[r].about = "confirmation"
          /\ info'[e] = [info[e] EXCEPT !.code = req'[r].fresh]
       \/ /\ UpdateRecoveryPassword(r) /\ req'[r].about = "recovery"
          /\ info'[e] = [info[e] EXCEPT !.recovery = req'[r].fresh]

Confirms(r, e) ==
    /\ SetConfirmed(r) /\ req[r].email = e /\ info[e] # None
    /\ info'[e] = [info[e] EXCEPT !.confirmed = TRUE]

(* The steps that generate a code make one that nobody has.                *)
Generating(r) ==
    InsertInfo(r) \/ UpdateConfirmationCode(r) \/ UpdateRecoveryPassword(r)

(* A request that generates a code goes on to emit it, under its own       *)
(* account, and nobody generated that code before.                         *)
LEMMA GeneratingStep ==
  ASSUME IInv, NEW r \in Requests, Generating(r)
  PROVE  /\ req'[r].fresh \in Codes \ Generated
         /\ req'[r].pc = "emit" /\ req'[r].reply = "none"
         /\ req[r].reply = "none" /\ req[r].email \in Emails
         /\ \/ UpdateRecoveryPassword(r) /\ req'[r].about = "recovery"
            \/ ~UpdateRecoveryPassword(r) /\ req'[r].about = "confirmation"
  <1>a. /\ req \in [Requests -> Request] /\ req[r] \in Request
        /\ Knows(req[r])
    BY DEF IInv, TypeOK, KnowsOK
  <1>1. CASE InsertInfo(r) \/ UpdateConfirmationCode(r)
    <2>1. PICK k \in Codes \ Generated :
             req' = [req EXCEPT ![r].pc = "emit", ![r].fresh = k]
      BY <1>1 DEF InsertInfo, UpdateConfirmationCode
    <2>2. /\ req[r].pc \in {"insertInfo", "newCode"}
          /\ req[r].reply = "none"
      BY <1>1 DEF InsertInfo, UpdateConfirmationCode, At
    <2>3. req[r].fresh = None /\ req[r].email \in Emails
      BY <1>a, <2>2 DEF Knows, Request
    <2>4. req[r].about = "confirmation"
      BY <1>a, <2>3 DEF Knows
    <2>5. ~UpdateRecoveryPassword(r)
      BY <2>2 DEF UpdateRecoveryPassword, At
    <2> QED BY <1>a, <2>1, <2>2, <2>3, <2>4, <2>5 DEF Request
  <1>2. CASE UpdateRecoveryPassword(r)
    <2>1. PICK k \in Codes \ Generated :
             req' = [req EXCEPT ![r].pc = "emit", ![r].fresh = k,
                                ![r].about = "recovery"]
      BY <1>2 DEF UpdateRecoveryPassword
    <2>2. req[r].reply = "none" /\ req[r].email \in Emails
      BY <1>2, <1>a DEF UpdateRecoveryPassword, At, Knows, Request
    <2> QED BY <1>a, <1>2, <2>1, <2>2 DEF Request
  <1> QED BY <1>1, <1>2 DEF Generating

(* A step leaves a registration info, or does one of three things to it.   *)
LEMMA InfoStep ==
  ASSUME IInv, NEW r \in Requests, Step(r), NEW e \in Emails
  PROVE  info'[e] = info[e] \/ Completes(r, e) \/ Recodes(r, e) \/ Confirms(r, e)
  <1> USE DEF IInv
  <1>a. /\ info \in [Emails -> InfoRow \cup {None}]
        /\ req \in [Requests -> Request] /\ req[r] \in Request
        /\ Knows(req[r])
    BY DEF TypeOK, KnowsOK
  <1>1. CASE InsertInfo(r)
    <2>1. PICK k \in Codes \ Generated :
             /\ info' = [info EXCEPT ![req[r].email] =
                           [confirmed |-> FALSE, code |-> k, recovery |-> None]]
             /\ req' = [req EXCEPT ![r].pc = "emit", ![r].fresh = k]
      BY <1>1 DEF InsertInfo
    <2>2. req'[r].fresh = k /\ req'[r].about = "confirmation"
      <3>1. req[r].about = "confirmation"
        BY <1>1, <1>a DEF InsertInfo, At, Knows
      <3>2. req'[r].fresh = k /\ req'[r].about = req[r].about
        BY <1>a, <2>1 DEF Request
      <3> QED BY <3>1, <3>2
    <2>3. user[req[r].email] # None /\ info[req[r].email] = None
      BY <1>1, <1>a DEF InsertInfo, At, Knows
    <2> QED BY <1>1, <1>a, <2>1, <2>2, <2>3 DEF Completes
  <1>2. CASE UpdateConfirmationCode(r)
    <2>1. PICK k \in Codes \ Generated :
             /\ info' = [info EXCEPT ![req[r].email].code = k]
             /\ req' = [req EXCEPT ![r].pc = "emit", ![r].fresh = k]
      BY <1>2 DEF UpdateConfirmationCode
    <2>2. req'[r].fresh = k /\ req'[r].about = "confirmation"
      <3>1. req[r].about = "confirmation"
        BY <1>2, <1>a DEF UpdateConfirmationCode, At, Knows
      <3>2. req'[r].fresh = k /\ req'[r].about = req[r].about
        BY <1>a, <2>1 DEF Request
      <3> QED BY <3>1, <3>2
    <2>3. info[req[r].email] # None
      BY <1>2, <1>a DEF UpdateConfirmationCode, At, Knows
    <2> QED BY <1>2, <1>a, <2>1, <2>2, <2>3 DEF Recodes
  <1>3. CASE UpdateRecoveryPassword(r)
    <2>1. PICK k \in Codes \ Generated :
             /\ info' = [info EXCEPT ![req[r].email].recovery = k]
             /\ req' = [req EXCEPT ![r].pc = "emit", ![r].fresh = k,
                                   ![r].about = "recovery"]
      BY <1>3 DEF UpdateRecoveryPassword
    <2>2. req'[r].fresh = k /\ req'[r].about = "recovery"
      BY <1>a, <2>1 DEF Request
    <2>3. info[req[r].email] # None
      BY <1>3, <1>a DEF UpdateRecoveryPassword, At, Knows
    <2> QED BY <1>3, <1>a, <2>1, <2>2, <2>3 DEF Recodes
  <1>4. CASE SetConfirmed(r)
    <2>1. info[req[r].email] # None
      BY <1>4, <1>a DEF SetConfirmed, At, Knows
    <2> QED BY <1>4, <1>a, <2>1 DEF SetConfirmed, Confirms
  <1>5. CASE ~Generating(r) /\ ~SetConfirmed(r)
    BY <1>5, Arrivals
    DEF Generating, Step, Continue, Arrival, FindByUsername, InsertUser, Emit,
        SetPassword, SetName, CreateUserAndProviderUser, Abort
  <1> QED BY <1>1, <1>2, <1>3, <1>4, <1>5 DEF Generating

-----------------------------------------------------------------------------
(* A code, once generated, stays with its request.                         *)
LEMMA FreshKept ==
  ASSUME IInv, NEW r \in Requests, Step(r), ~Generating(r)
  PROVE  req'[r].fresh = req[r].fresh /\ req'[r].about = req[r].about
  <1>a. req \in [Requests -> Request] /\ req[r] \in Request
    BY DEF IInv, TypeOK
  <1>1. CASE Arriving(r)
    BY <1>1, Arrivals DEF Arrival, Begun, Waiting
  <1>2. CASE Abort(r)
    BY <1>2, <1>a DEF Abort, Request
  <1>3. CASE Continue(r)
    <2>1. \/ \E x \in {"ok", "400", "500"} : Answer(r, x)
          \/ \E x \in {"insertUser", "insertInfo"} : Goto(r, x)
      BY <1>3 DEF Generating, Continue, FindByUsername, InsertUser, Emit,
         SetConfirmed, SetPassword, SetName, CreateUserAndProviderUser
    <2> QED BY <1>a, <2>1 DEF Answer, Goto, Request
  <1> QED BY <1>1, <1>2, <1>3 DEF Step

(* Hence who wrote a code has written it for ever, and mails it.           *)
LEMMA WrittenStays ==
  ASSUME IInv, NEW r \in Requests, Step(r),
         NEW e, NEW k, k # None, NEW a, Written(e, k, a)
  PROVE  Written(e, k, a)'
  <1> USE DEF IInv
  <1>a. /\ req \in [Requests -> Request] /\ req[r] \in Request
        /\ Knows(req[r]) /\ sent \subseteq sent'
    BY TypeStep DEF TypeOK, KnowsOK
  <1>1. PICK q \in Requests : Wrote(req[q], e, k, a)
    BY DEF Written
  <1>2. CASE q # r
    BY <1>a, <1>1, <1>2, OthersKept DEF Written, Wrote
  <1>3. CASE q = r
    <2>1. req[r].fresh # None /\ req[r].pc \in {"emit", "done"}
      BY <1>a, <1>1, <1>3 DEF Knows, Wrote
    <2>0. ~Arriving(r)
      BY <2>1, Arrivals DEF Arrival, Waiting
    <2>2. Emit(r) \/ Abort(r)
      BY <2>0, <2>1
      DEF Step, Continue, FindByUsername, InsertUser, InsertInfo,
          UpdateConfirmationCode, UpdateRecoveryPassword, SetConfirmed,
          SetPassword, SetName, CreateUserAndProviderUser, At
    <2>3. ~Generating(r)
      BY <2>1 DEF Generating, InsertInfo, UpdateConfirmationCode,
         UpdateRecoveryPassword, At
    <2>4. /\ req'[r].fresh = k /\ req'[r].about = a /\ req'[r].email = e
      BY <1>1, <1>3, <2>2, <2>3, FreshKept, Onward DEF Continue, Wrote
    <2>5. CASE Emit(r)
      BY <1>1, <1>3, <2>4, <2>5 DEF Emit, Letter, Wrote, Written
    <2>6. CASE Abort(r)
      <3>1. req'[r].pc = req[r].pc
        BY <1>a, <2>6 DEF Abort, Request
      <3> QED BY <1>a, <1>1, <1>3, <2>4, <3>1 DEF Wrote, Written
    <2> QED BY <2>2, <2>5, <2>6
  <1> QED BY <1>2, <1>3

(* A request that took a name keeps its claim.                             *)
LEMMA ClaimStays ==
  ASSUME IInv, NEW r \in Requests, Step(r), NEW n, NEW e,
         NEW q \in Requests, TookName(req[q], n, e)
  PROVE  TookName(req[q], n, e)'
  <1>a. req \in [Requests -> Request] /\ req[r] \in Request /\ Knows(req[r])
    BY DEF IInv, TypeOK, KnowsOK
  <1>2. CASE q # r
    BY <1>2, OthersKept DEF TookName
  <1>3. CASE q = r
    <2>1. ~Arriving(r)
      BY <1>3, Arrivals DEF Arrival, Waiting, TookName
    <2>2. req[r].pc \in {"insertInfo", "emit"}
      BY <1>3, <2>1
      DEF TookName, Step, Continue, FindByUsername, InsertUser, InsertInfo,
          UpdateConfirmationCode, UpdateRecoveryPassword, Emit, SetConfirmed,
          SetPassword, SetName, CreateUserAndProviderUser, Abort, At
    <2>3. /\ req'[r].kind = req[r].kind /\ req'[r].name = n
          /\ req'[r].email = req[r].email
      BY <1>3, <2>1, Onward DEF Step, TookName
    <2>4. InsertInfo(r) \/ Emit(r) \/ Abort(r)
      BY <2>1, <2>2
      DEF Step, Continue, FindByUsername, InsertUser, UpdateConfirmationCode,
          UpdateRecoveryPassword, SetConfirmed, SetPassword, SetName,
          CreateUserAndProviderUser, At
    <2>5. req'[r].reply = "ok" \/ req'[r].pc \in {"insertInfo", "emit"}
      <3>1. CASE InsertInfo(r)
        BY <3>1, GeneratingStep DEF Generating
      <3>2. CASE Emit(r)
        BY <1>a, <3>2 DEF Emit, Answer, Request
      <3>3. CASE Abort(r)
        BY <1>a, <2>2, <3>3 DEF Abort, Request
      <3> QED BY <2>4, <3>1, <3>2, <3>3
    <2> QED BY <1>3, <2>3, <2>5 DEF TookName
  <1> QED BY <1>2, <1>3

(* And what requests took stays taken by them.                             *)
LEMMA OutrunStays ==
  ASSUME IInv, NEW r \in Requests, Step(r), NEW n, NEW e, NEW b
  PROVE  /\ Outrun(n, e, b) => Outrun(n, e, b)'
         /\ Taken(n, e, b) => Taken(n, e, b)'
  BY ClaimStays DEF Outrun, Taken

(* A new rival for a name is one who was just given it.                    *)
LEMMA RivalsStep ==
  ASSUME IInv, NEW r \in Requests, Step(r), NEW n, NEW e, NEW b,
         Taken(n, e, b), Rivals(n, e)' # {}
  PROVE  Rivals(n, e) # {} \/ Outrun(n, e, b)'
  <1>a. /\ req[r] \in Request /\ Knows(req[r])
        /\ user \in [Emails -> UserRow \cup {None}]
    BY DEF IInv, TypeOK, KnowsOK
  <1>1. PICK x \in Emails \ {e} : user'[x] # None /\ user'[x].name = n
    BY DEF Rivals
  <1>2. CASE user'[x] = user[x]
    BY <1>1, <1>2 DEF Rivals
  <1>3. CASE Inserts(r, x)
    <2>1. req[r].kind = "register" /\ req[r].name = n /\ req[r].email # e
      BY <1>a, <1>1, <1>3 DEF Inserts, InsertUser, At, Knows
    <2>2. /\ req'[r].kind = req[r].kind /\ req'[r].name = req[r].name
          /\ req'[r].email = req[r].email /\ req'[r].pc = "insertInfo"
      BY <1>3, Onward DEF Inserts, Continue
    <2>3. r \notin b
      BY <1>3 DEF Inserts, InsertUser, At, Taken, TookName
    <2> QED BY <2>1, <2>2, <2>3 DEF Outrun, TookName
  <1>4. CASE Creates(r, x)
    <2>1. req[r].kind = "google" /\ req[r].name = n /\ req[r].email # e
      BY <1>a, <1>1, <1>4
      DEF Creates, CreateUserAndProviderUser, At, Knows
    <2>2. /\ req'[r].kind = req[r].kind /\ req'[r].name = req[r].name
          /\ req'[r].email = req[r].email /\ req'[r].reply = "ok"
      BY <1>4, Onward DEF Creates, Continue
    <2>3. r \notin b
      BY <1>4 DEF Creates, CreateUserAndProviderUser, At, Taken, TookName
    <2> QED BY <2>1, <2>2, <2>3 DEF Outrun, TookName
  <1>5. CASE Renames(r, x)
    <2>1. req[r].kind = "rename" /\ req[r].name = n /\ req[r].email # e
      <3>1. user[x] \in UserRow
        BY <1>a, <1>5 DEF Renames
      <3> QED BY <1>a, <1>1, <1>5, <3>1 DEF Renames, SetName, At, Knows, UserRow
    <2>2. /\ req'[r].kind = req[r].kind /\ req'[r].name = req[r].name
          /\ req'[r].email = req[r].email /\ req'[r].reply = "ok"
      BY <1>5, Onward DEF Renames, Continue
    <2>3. r \notin b
      BY <1>5 DEF Renames, SetName, At, Taken, TookName
    <2> QED BY <2>1, <2>2, <2>3 DEF Outrun, TookName
  <1>6. CASE Recovers(r, x)
    <2>1. user[x] \in UserRow
      BY <1>a, <1>6 DEF Recovers
    <2> QED BY <1>1, <1>6, <2>1 DEF Recovers, Rivals, UserRow
  <1> QED BY <1>2, <1>3, <1>4, <1>5, <1>6, UserStep

(* Accounts are never deleted.                                             *)
LEMMA RowsStay ==
  ASSUME IInv, NEW r \in Requests, Step(r), NEW e \in Emails
  PROVE  /\ user[e] # None => user'[e] # None
         /\ info[e] # None => info'[e] # None
  <1>a. /\ user[e] \in UserRow \cup {None} /\ info[e] \in InfoRow \cup {None}
        /\ req[r] \in Request /\ req'[r] \in Request /\ Knows(req[r])
    BY TypeStep DEF IInv, TypeOK, KnowsOK
  <1>1. ASSUME Inserts(r, e) \/ Creates(r, e) PROVE user[e] = None
    BY <1>1 DEF Inserts, Creates
  <1>2. ASSUME Recovers(r, e) PROVE user'[e] # None
    <2>1. req[r].password \in Passwords
      BY <1>a, <1>2 DEF Recovers, SetPassword, At, Knows, Request
    <2>2. user'[e] \in UserRow
      BY <1>a, <1>2, <2>1 DEF Recovers, UserRow
    <2> QED BY <2>2, RowsAssumption
  <1>3. ASSUME Renames(r, e) PROVE user'[e] # None
    <2>1. req[r].name \in Names
      BY <1>a, <1>3 DEF Renames, SetName, At, Knows, Request
    <2>2. user'[e] \in UserRow
      BY <1>a, <1>3, <2>1 DEF Renames, UserRow
    <2> QED BY <2>2, RowsAssumption
  <1>4. ASSUME Completes(r, e) PROVE info[e] = None
    BY <1>4 DEF Completes
  <1>5. ASSUME Recodes(r, e) PROVE info'[e] # None
    <2>1. req'[r].fresh \in Codes
      BY <1>5, GeneratingStep DEF Recodes, Generating
    <2>2. info'[e] \in InfoRow
      BY <1>a, <1>5, <2>1 DEF Recodes, InfoRow
    <2> QED BY <2>2, RowsAssumption
  <1>6. ASSUME Confirms(r, e) PROVE info'[e] # None
    <2>1. info'[e] \in InfoRow
      BY <1>a, <1>6 DEF Confirms, InfoRow
    <2> QED BY <2>1, RowsAssumption
  <1> QED BY <1>1, <1>2, <1>3, <1>4, <1>5, <1>6, UserStep, InfoStep

-----------------------------------------------------------------------------
(* What waiting requests rely on outlasts the steps of the others.         *)
LEMMA OthersKnow ==
  ASSUME IInv, NEW r \in Requests, Step(r), NEW q \in Requests, q # r
  PROVE  Knows(req[q])'
  <1> USE DEF IInv
  <1>a. /\ req'[q] = req[q] /\ req[q] \in Request /\ Knows(req[q])
        /\ mailbox' = mailbox
    BY OthersKept, TypeStep DEF TypeOK, KnowsOK
  <1>b. req[q].email # None => req[q].email \in Emails
    BY <1>a DEF Request
  <1>1. ASSUME req[q].pc = "insertInfo"
        PROVE  user'[req[q].email] # None /\ info'[req[q].email] = None
    <2>1. /\ req[q].email \in Emails /\ user[req[q].email] # None
          /\ info[req[q].email] = None
      BY <1>a, <1>b, <1>1 DEF Knows
    <2>2. ~Completes(r, req[q].email)
      BY <1>1 DEF Completes, InsertInfo, At, OneInserter
    <2> QED BY <2>1, <2>2, RowsStay, InfoStep DEF Recodes, Confirms
  <1>2. ASSUME req[q].pc \in {"confirm", "newCode", "newRecovery", "setPassword"}
        PROVE  info'[req[q].email] # None
    BY <1>a, <1>b, <1>2, RowsStay DEF Knows
  <1>3. ASSUME req[q].pc = "setName"
        PROVE  /\ user'[req[q].email] # None
               /\ Taken(req[q].name, req[q].email, req[q].before)'
               /\ Rivals(req[q].name, req[q].email)' # {} =>
                     Outrun(req[q].name, req[q].email, req[q].before)'
    <2>1. user'[req[q].email] # None
      BY <1>a, <1>b, <1>3, RowsStay DEF Knows
    <2>2. PICK n, e, b :
             n = req[q].name /\ e = req[q].email /\ b = req[q].before
      OBVIOUS
    <2>3. Taken(n, e, b) /\ (Rivals(n, e) # {} => Outrun(n, e, b))
      BY <1>a, <1>3, <2>2 DEF Knows
    <2>4. Taken(n, e, b)' /\ (Rivals(n, e)' # {} => Outrun(n, e, b)')
      BY <2>3, RivalsStep, OutrunStays
    <2>5. req'[q].name = n /\ req'[q].email = e /\ req'[q].before = b
      BY <1>a, <2>2
    <2> QED BY <2>1, <2>4, <2>5
  <1>4. ASSUME req[q].kind = "rename", req[q].reply = "500"
        PROVE  Outrun(req[q].name, req[q].email, req[q].before)'
    <2>2. PICK n, e, b :
             n = req[q].name /\ e = req[q].email /\ b = req[q].before
      OBVIOUS
    <2>3. Outrun(n, e, b)
      BY <1>a, <1>4, <2>2 DEF Knows
    <2>4. Outrun(n, e, b)'
      BY <2>3, OutrunStays
    <2>5. req'[q].name = n /\ req'[q].email = e /\ req'[q].before = b
      BY <1>a, <2>2
    <2> QED BY <2>4, <2>5
  <1> QED BY <1>a, <1>1, <1>2, <1>3, <1>4 DEF Knows

(* A request enters the window between the two inserts of an account that  *)
(* did not exist.                                                          *)
LEMMA EntersWindow ==
  ASSUME IInv, NEW r \in Requests, Step(r), req'[r].pc = "insertInfo",
         req[r].pc # "insertInfo"
  PROVE  /\ Inserts(r, req[r].email) /\ req[r].email \in Emails
         /\ req'[r].email = req[r].email /\ req'[r].kind = "register"
         /\ req'[r].reply = "none"
  <1> USE DEF IInv
  <1>a. /\ req \in [Requests -> Request] /\ req[r] \in Request /\ Knows(req[r])
    BY DEF TypeOK, KnowsOK
  <1>1. ~Arriving(r)
    BY Arrivals DEF Arrival, Begun
  <1>2. ~Abort(r)
    BY <1>a DEF Abort, Request
  <1>3. ~Generating(r)
    BY GeneratingStep
  <1>4. ~FindByUsername(r)
    BY <1>a DEF FindByUsername, Answer, Goto, Request
  <1>5. ~(\/ Emit(r) \/ SetConfirmed(r) \/ SetPassword(r) \/ SetName(r)
          \/ CreateUserAndProviderUser(r))
    BY <1>a DEF Emit, SetConfirmed, SetPassword, SetName,
       CreateUserAndProviderUser, Answer, Request
  <1>6. InsertUser(r)
    BY <1>1, <1>2, <1>3, <1>4, <1>5 DEF Step, Continue, Generating
  <1>7. req[r].email \in Emails /\ req[r].kind = "register" /\ req[r].reply = "none"
    BY <1>6, <1>a DEF InsertUser, At, Knows, Request
  <1>8. user[req[r].email] = None /\ ~NameTaken(req[r].name) /\ Goto(r, "insertInfo")
    BY <1>6, <1>a DEF InsertUser, Answer, Request
  <1>9. user'[req[r].email] = [name |-> req[r].name, hash |-> req[r].password]
    BY <1>6, <1>7, <1>8 DEF InsertUser, TypeOK
  <1>10. req'[r].kind = "register" /\ req'[r].email = req[r].email /\ req'[r].reply = "none"
    BY <1>a, <1>7, <1>8 DEF Goto, Request
  <1> QED BY <1>6, <1>7, <1>8, <1>9, <1>10 DEF Inserts

(* A request learns what it relies on by its own steps.                    *)
LEMMA OwnKnows ==
  ASSUME IInv, NEW r \in Requests, Step(r)
  PROVE  Knows(req[r])'
  <1> USE DEF IInv
  <1>a. /\ req \in [Requests -> Request] /\ req[r] \in Request
        /\ req'[r] \in Request /\ Knows(req[r]) /\ mailbox' = mailbox
    BY TypeStep DEF TypeOK, KnowsOK
  <1>1. CASE Arriving(r)
    <2>1. Begun(req'[r]) /\ UNCHANGED <<user, info, mailbox>>
      BY <1>1, Arrivals DEF Arrival
    <2>2. PICK q \in Request : q = req'[r]
      BY <1>a
    <2>3. Begun(q) /\ q.pc # "idle" /\ ~(q.kind = "rename" /\ q.reply = "500")
      BY <2>1, <2>2 DEF Begun
    <2>4. q.pc = "setName" => /\ Rivals(q.name, q.email)' = {}
                              /\ Taken(q.name, q.email, q.before)'
      <3>1. q.pc = "setName" => /\ Rivals(q.name, q.email) = {}
                                /\ Taken(q.name, q.email, q.before)
        BY <2>3 DEF Begun
      <3> QED BY <2>1, <3>1, OutrunStays DEF Rivals
    <2>5. Knows(q)'
      BY <2>1, <2>3, <2>4, NoneAssumption DEF Begun, Knows
    <2> QED BY <2>2, <2>5
  <1>2. CASE FindByUsername(r)
    <2>1. /\ req'[r].pc \in {"insertUser", "done"} /\ req'[r].kind = "register"
          /\ req'[r].fresh = None /\ req'[r].about = "confirmation"
          /\ req'[r].email = req[r].email /\ req'[r].name = req[r].name
          /\ req'[r].password = req[r].password
          /\ req[r].pc = "byName"
      BY <1>a, <1>2 DEF FindByUsername, At, Answer, Goto, Knows, Request
    <2> QED BY <1>a, <2>1 DEF Knows
  <1>3. CASE InsertUser(r)
    <2>1. /\ req'[r].pc \in {"insertInfo", "done"} /\ req'[r].kind = "register"
          /\ req'[r].fresh = None /\ req'[r].about = "confirmation"
          /\ req'[r].email = req[r].email /\ req'[r].name = req[r].name
          /\ req'[r].password = req[r].password
          /\ req[r].pc = "insertUser"
      BY <1>a, <1>3 DEF InsertUser, At, Answer, Goto, Knows, Request
    <2>2. ASSUME req'[r].pc = "insertInfo"
          PROVE  user'[req[r].email] # None /\ info'[req[r].email] = None
      <3>1. Inserts(r, req[r].email) /\ req[r].email \in Emails
        BY <2>1, <2>2, EntersWindow
      <3>2. [name |-> req[r].name, hash |-> req[r].password] \in UserRow
        BY <1>a, <2>1 DEF Knows, Request, UserRow
      <3>3. info[req[r].email] = None /\ info' = info
        BY <1>3, <3>1 DEF Inserts, InsertUser, RowsOK
      <3> QED BY <3>1, <3>2, <3>3, RowsAssumption DEF Inserts
    <2> QED BY <1>a, <2>1, <2>2 DEF Knows
  <1>4. CASE Generating(r)
    <2>1. /\ req'[r].pc = "emit" /\ req'[r].fresh # None
          /\ req'[r].reply = "none" /\ req'[r].email # None
      BY <1>4, GeneratingStep, Onward, NoneAssumption DEF Generating, Continue
    <2> QED BY <1>a, <2>1 DEF Knows
  <1>5. CASE Emit(r) \/ SetConfirmed(r) \/ SetPassword(r)
    <2>1. /\ req'[r].pc = "done" /\ req'[r].reply = "ok"
          /\ req'[r].fresh = req[r].fresh /\ req'[r].about = req[r].about
      BY <1>a, <1>5 DEF Emit, SetConfirmed, SetPassword, Answer, Request
    <2> QED BY <1>a, <2>1 DEF Knows
  <1>6. CASE SetName(r)
    <2>1. /\ req'[r].pc = "done" /\ req'[r].fresh = req[r].fresh
          /\ req'[r].about = req[r].about
          /\ req[r].pc = "setName" /\ req[r].email \in Emails
      BY <1>a, <1>6 DEF SetName, At, Answer, Knows, Request
    <2>2. PICK n, e, b : /\ n = req[r].name /\ e = req[r].email
                         /\ req'[r].name = n /\ req'[r].email = e
                         /\ b = req[r].before /\ req'[r].before = b
      BY <1>a, <1>6, Onward DEF Continue, SetName, Answer, Request
    <2>3. ASSUME req'[r].reply = "500" PROVE Outrun(n, e, b)'
      <3>1. NameTaken(n) /\ user[e].name # n
        BY <1>a, <1>6, <2>2, <2>3 DEF SetName, Answer, Request
      <3>2. Rivals(n, e) # {}
        BY <3>1 DEF NameTaken, Rivals
      <3>3. Outrun(n, e, b)
        BY <1>a, <2>1, <2>2, <3>2 DEF Knows
      <3> QED BY <3>3, OutrunStays
    <2> QED BY <1>a, <2>1, <2>2, <2>3 DEF Knows
  <1>7. CASE Abort(r)
    <2>1. /\ req'[r] = [req[r] EXCEPT !.reply = "lost"]
          /\ UNCHANGED <<user, info, mailbox>> /\ req[r].pc # "idle"
      BY <1>a, <1>7 DEF Abort
    <2>2. /\ req'[r].kind = req[r].kind /\ req'[r].pc = req[r].pc
          /\ req'[r].reply = "lost" /\ req'[r].email = req[r].email
          /\ req'[r].name = req[r].name /\ req'[r].password = req[r].password
          /\ req'[r].code = req[r].code /\ req'[r].fresh = req[r].fresh
          /\ req'[r].about = req[r].about /\ req'[r].before = req[r].before
      BY <1>a, <2>1 DEF Request
    <2>3. PICK n, e, b :
             n = req[r].name /\ e = req[r].email /\ b = req[r].before
      OBVIOUS
    <2>4. req[r].pc = "setName" =>
             Taken(n, e, b)' /\ (Rivals(n, e)' # {} => Outrun(n, e, b)')
      <3>1. req[r].pc = "setName" =>
               Taken(n, e, b) /\ (Rivals(n, e) # {} => Outrun(n, e, b))
        BY <1>a, <2>3 DEF Knows
      <3> QED BY <3>1, RivalsStep, OutrunStays
    <2> QED BY <1>a, <2>1, <2>2, <2>3, <2>4 DEF Knows
  <1>8. CASE CreateUserAndProviderUser(r)
    <2>1. /\ req'[r].pc = "done" /\ req'[r].kind = "google"
          /\ req'[r].fresh = req[r].fresh /\ req'[r].about = req[r].about
      BY <1>a, <1>8 DEF CreateUserAndProviderUser, At, Answer, Knows, Request
    <2> QED BY <1>a, <2>1 DEF Knows
  <1> QED BY <1>1, <1>2, <1>3, <1>4, <1>5, <1>6, <1>7, <1>8
    DEF Step, Continue, Generating

-----------------------------------------------------------------------------
(* A code is generated once.                                               *)
LEMMA FreshStep ==
  ASSUME IInv, NEW r \in Requests, Step(r)
  PROVE  FreshIsUnique'
  <1>1. CASE Generating(r)
    <2>1. /\ req'[r].fresh \notin Generated /\ req'[r].fresh # None
      BY <1>1, GeneratingStep, NoneAssumption
    <2>2. \A q \in Requests : req[q].fresh # req'[r].fresh
      BY <2>1 DEF Generated
    <2> QED BY <2>2, OthersKept DEF IInv, FreshIsUnique
  <1>2. CASE ~Generating(r)
    BY <1>2, FreshKept, OthersKept DEF IInv, FreshIsUnique
  <1> QED BY <1>1, <1>2

(* The unique index lets one registration into the window.                 *)
LEMMA InserterStep ==
  ASSUME IInv, NEW r \in Requests, Step(r)
  PROVE  OneInserter'
  <1> USE DEF IInv
  <1>1. CASE req'[r].pc # "insertInfo"
    BY <1>1, OthersKept DEF OneInserter
  <1>2. CASE req'[r].pc = "insertInfo" /\ req[r].pc = "insertInfo"
    <2>1. ~Arriving(r)
      BY <1>2, Arrivals DEF Arrival, Waiting
    <2>2. req'[r].email = req[r].email
      BY <2>1, Onward DEF Step
    <2> QED BY <1>2, <2>2, OthersKept DEF OneInserter
  <1>3. CASE req'[r].pc = "insertInfo" /\ req[r].pc # "insertInfo"
    <2>1. user[req[r].email] = None /\ req'[r].email = req[r].email
      BY <1>3, EntersWindow DEF Inserts
    <2>2. \A q \in Requests : req[q].pc = "insertInfo" => user[req[q].email] # None
      BY DEF KnowsOK, Knows
    <2> QED BY <1>3, <2>1, <2>2, OthersKept DEF OneInserter
  <1> QED BY <1>1, <1>2, <1>3

(* Whoever generates a code writes it into the row of its account.         *)
LEMMA CodesStep ==
  ASSUME IInv, NEW r \in Requests, Step(r)
  PROVE  CodesAreWritten'
  <1> USE DEF IInv
  <1>a. /\ info \in [Emails -> InfoRow \cup {None}] /\ sent \subseteq Mail
        /\ req \in [Requests -> Request] /\ req[r] \in Request /\ Knows(req[r])
    BY DEF TypeOK, KnowsOK
  <1>1. ASSUME Generating(r), NEW k, NEW a, NEW e,
               k = req'[r].fresh, a = req'[r].about, e = req[r].email
        PROVE  Written(e, k, a)'
    <2>1. req'[r].email = e /\ req'[r].pc = "emit"
      BY <1>1, GeneratingStep, Onward DEF Generating, Continue
    <2> QED BY <1>1, <2>1 DEF Written, Wrote
  <1>2. ASSUME NEW e \in Emails, info'[e] # None, NEW k, NEW l,
               k = info'[e].code, l = info'[e].recovery
        PROVE  /\ Written(e, k, "confirmation")'
               /\ l # None => Written(e, l, "recovery")'
    <2>1. ASSUME info[e] # None, NEW x, NEW y,
                 x = info[e].code, y = info[e].recovery
          PROVE  /\ Written(e, x, "confirmation")'
                 /\ y # None => Written(e, y, "recovery")'
      <3>1. x # None
        BY <1>a, <2>1, NoneAssumption DEF InfoRow
      <3> QED BY <2>1, <3>1, WrittenStays DEF CodesAreWritten
    <2>2. CASE info'[e] = info[e]
      BY <1>2, <2>1, <2>2
    <2>3. CASE Completes(r, e)
      BY <1>1, <1>2, <2>3 DEF Completes, Generating
    <2>4. CASE Recodes(r, e)
      <3>1. info[e] \in InfoRow /\ info[e] # None
        BY <1>a, <2>4 DEF Recodes
      <3>2. \/ /\ req'[r].about = "confirmation" /\ k = req'[r].fresh
               /\ l = info[e].recovery
            \/ /\ req'[r].about = "recovery" /\ l = req'[r].fresh
               /\ k = info[e].code
        BY <1>2, <2>4, <3>1 DEF Recodes, InfoRow
      <3> QED BY <1>1, <2>1, <2>4, <3>1, <3>2 DEF Recodes, Generating
    <2>5. CASE Confirms(r, e)
      <3>1. info[e] \in InfoRow /\ info[e] # None
        BY <1>a, <2>5 DEF Confirms
      <3>2. k = info[e].code /\ l = info[e].recovery
        BY <1>2, <2>5, <3>1 DEF Confirms, InfoRow
      <3> QED BY <2>1, <3>1, <3>2
    <2> QED BY <2>2, <2>3, <2>4, <2>5, InfoStep
  <1>3. ASSUME NEW m \in sent' PROVE Written(m.to, m.code, m.about)'
    <2>1. CASE m \in sent
      <3>1. m.code # None /\ Written(m.to, m.code, m.about)
        BY <1>a, <2>1, NoneAssumption DEF Mail, CodesAreWritten
      <3> QED BY <3>1, WrittenStays
    <2>2. CASE m \notin sent
      <3>1. Emit(r)
        BY <1>3, <2>2, Arrivals
        DEF Step, Continue, Arrival, FindByUsername, InsertUser, InsertInfo,
            UpdateConfirmationCode, UpdateRecoveryPassword, SetConfirmed,
            SetPassword, SetName, CreateUserAndProviderUser, Abort
      <3>2. /\ m.to = req[r].email /\ m.code = req[r].fresh
            /\ m.about = req[r].about /\ m = Letter(m.to, m.code, m.about)
        BY <1>3, <2>2, <3>1 DEF Emit, Letter
      <3>3. /\ req'[r].email = req[r].email /\ req'[r].fresh = req[r].fresh
            /\ req'[r].about = req[r].about
        BY <1>a, <3>1 DEF Emit, Answer, Request
      <3> QED BY <1>3, <3>2, <3>3 DEF Written, Wrote
    <2> QED BY <2>1, <2>2
  <1>4. ASSUME NEW e \in Emails, info'[e] # None
        PROVE  /\ Written(e, info[e].code, "confirmation")'
               /\ info'[e].recovery # None =>
                     Written(e, info[e].recovery, "recovery")'
    <2>1. PICK k, l : k = info'[e].code /\ l = info'[e].recovery
      OBVIOUS
    <2> QED BY <1>2, <1>4, <2>1
  <1> QED BY <1>3, <1>4 DEF CodesAreWritten

(* Users keep their names apart, and come before their registration info.  *)
LEMMA RowsStep ==
  ASSUME IInv, NEW r \in Requests, Step(r)
  PROVE  RowsOK'
  <1> USE DEF IInv
  <1>a. user \in [Emails -> UserRow \cup {None}]
    BY DEF TypeOK
  <1>1. ASSUME NEW e \in Emails, info'[e] # None PROVE user'[e] # None
    BY <1>1, RowsStay, InfoStep DEF RowsOK, Completes, Recodes, Confirms
  <1>2. ASSUME NEW e \in Emails, user'[e] # None
        PROVE  \/ user[e] # None /\ user'[e].name = user[e].name
               \/ /\ user'[e].name = req[r].name /\ ~NameTaken(req[r].name)
                  /\ req[r].email = e
    <2>1. ASSUME Recovers(r, e) PROVE user'[e].name = user[e].name
      <3>1. user[e] \in UserRow
        BY <1>a, <2>1 DEF Recovers
      <3> QED BY <2>1, <3>1 DEF Recovers, UserRow
    <2>2. ASSUME Renames(r, e)
          PROVE  \/ user'[e].name = user[e].name
                 \/ user'[e].name = req[r].name /\ ~NameTaken(req[r].name)
      <3>1. user[e] \in UserRow
        BY <1>a, <2>2 DEF Renames
      <3> QED BY <2>2, <3>1 DEF Renames, UserRow
    <2>3. ASSUME Inserts(r, e) \/ Creates(r, e)
          PROVE  /\ user'[e].name = req[r].name /\ ~NameTaken(req[r].name)
                 /\ req[r].email = e
      BY <2>3 DEF Inserts, Creates
    <2>4. ASSUME Recovers(r, e) \/ Renames(r, e)
          PROVE  user[e] # None /\ req[r].email = e
      BY <2>4 DEF Recovers, Renames
    <2>5. ASSUME Renames(r, e)
          PROVE  user[e].name = req[r].name \/ ~NameTaken(req[r].name)
      BY <2>5 DEF Renames
    <2> QED BY <1>2, <2>1, <2>2, <2>3, <2>4, <2>5, UserStep
  <1>3. ASSUME NEW e1 \in Emails, NEW e2 \in Emails, user'[e1] # None,
               user'[e2] # None, user'[e1].name = user'[e2].name
        PROVE  e1 = e2
    BY <1>2, <1>3 DEF NameTaken, RowsOK
  <1> QED BY <1>1, <1>3 DEF RowsOK

(* A password comes without registration info in the window only.          *)
LEMMA HalfStep ==
  ASSUME IInv, NEW r \in Requests, Step(r)
  PROVE  HalfAccountsAreExplained'
  <1> USE DEF IInv
  <1>a. /\ user \in [Emails -> UserRow \cup {None}] /\ req[r] \in Request
        /\ Knows(req[r])
    BY DEF TypeOK, KnowsOK
  <1> SUFFICES ASSUME NEW e \in Emails, user'[e] # None,
                      user'[e].hash # None, info'[e] = None
               PROVE  \E q \in Requests : /\ req'[q].kind = "register"
                                          /\ req'[q].email = e
                                          /\ req'[q].pc = "insertInfo"
    BY DEF HalfAccountsAreExplained
  <1>1. info[e] = None
    BY RowsStay
  <1>2. CASE Inserts(r, e)
    <2>1. /\ req[r].kind = "register" /\ req[r].email = e
          /\ req'[r].pc = "insertInfo"
      BY <1>a, <1>2 DEF Inserts, InsertUser, At, Knows
    <2>2. req'[r].kind = "register" /\ req'[r].email = e
      BY <1>2, <2>1, Onward DEF Inserts, Continue
    <2> QED BY <2>1, <2>2
  <1>3. CASE ~Inserts(r, e)
    <2>1. ~Recovers(r, e)
      BY <1>a, <1>1 DEF Recovers, SetPassword, At, Knows
    <2>2. user[e] # None /\ user[e].hash # None
      <3>1. ASSUME Renames(r, e)
            PROVE  user[e] # None /\ user'[e].hash = user[e].hash
        <4>1. user[e] \in UserRow /\ user[e] # None
          BY <1>a, <3>1 DEF Renames
        <4> QED BY <3>1, <4>1 DEF Renames, UserRow
      <3>2. ~Creates(r, e)
        BY DEF Creates
      <3> QED BY <1>3, <2>1, <3>1, <3>2, UserStep
    <2>3. PICK q \in Requests : /\ req[q].kind = "register" /\ req[q].email = e
                                /\ req[q].pc = "insertInfo"
      BY <1>1, <2>2 DEF HalfAccountsAreExplained
    <2>4. CASE q # r
      BY <2>3, <2>4, OthersKept
    <2>5. CASE q = r
      <3>1. ~Arriving(r)
        BY <2>3, <2>5, Arrivals DEF Arrival, Waiting
      <3>2. InsertInfo(r) \/ Abort(r)
        BY <2>3, <2>5, <3>1
        DEF Step, Continue, FindByUsername, InsertUser, UpdateConfirmationCode,
            UpdateRecoveryPassword, Emit, SetConfirmed, SetPassword, SetName,
            CreateUserAndProviderUser, At
      <3>3. ~InsertInfo(r)
        <4> SUFFICES ASSUME InsertInfo(r) PROVE FALSE
          OBVIOUS
        <4>1. PICK k \in Codes : info' = [info EXCEPT ![e] =
                 [confirmed |-> FALSE, code |-> k, recovery |-> None]]
          BY <2>3, <2>5 DEF InsertInfo
        <4>2. [confirmed |-> FALSE, code |-> k, recovery |-> None] \in InfoRow
          BY DEF InfoRow
        <4> QED BY <4>1, <4>2, RowsAssumption DEF TypeOK
      <3>4. /\ req'[r].pc = "insertInfo" /\ req'[r].kind = "register"
            /\ req'[r].email = e
        BY <2>3, <2>5, <3>2, <3>3 DEF Abort, TypeOK, Request
      <3> QED BY <3>4
    <2> QED BY <2>4, <2>5
  <1> QED BY <1>2, <1>3

(* The owner of account e has used a code mailed to its address.           *)
Confirmer(e) ==
    \E q \in Requests :
       /\ req[q].kind = "confirm"
       /\ Letter(e, req[q].code, "confirmation") \in mailbox

(* Nothing takes that back: requests stay what they are, mails stay.       *)
LEMMA ConfirmerStays ==
  ASSUME IInv, NEW r \in Requests, Step(r), NEW e, Confirmer(e)
  PROVE  Confirmer(e)'
  <1>1. PICK q \in Requests :
           /\ req[q].kind = "confirm"
           /\ Letter(e, req[q].code, "confirmation") \in mailbox
    BY DEF Confirmer
  <1>2. ~(q = r /\ Arriving(r))
    BY <1>1, Arrivals DEF Arrival, Waiting
  <1>3. req'[q].kind = req[q].kind /\ req'[q].code = req[q].code
    BY <1>2, OthersKept, Onward DEF Step
  <1>4. mailbox' = mailbox
    BY TypeStep
  <1> QED BY <1>1, <1>3, <1>4 DEF Confirmer

(* An account is confirmed by a request that held its code.                *)
LEMMA ConfirmedStep ==
  ASSUME IInv, NEW r \in Requests, Step(r)
  PROVE  ConfirmedByOwner'
  <1> USE DEF IInv
  <1>a. /\ info \in [Emails -> InfoRow \cup {None}] /\ Knows(req[r])
    BY DEF TypeOK, KnowsOK
  <1>1. ASSUME NEW e \in Emails, info'[e] # None, info'[e].confirmed
        PROVE  Confirmer(e)'
    <2>1. CASE Confirms(r, e)
      <3>1. Confirmer(e)
        BY <1>a, <2>1 DEF Confirms, SetConfirmed, At, Knows, Confirmer
      <3> QED BY <3>1, ConfirmerStays
    <2>2. CASE ~Confirms(r, e)
      <3>1. info[e] # None /\ info[e].confirmed
        <4>1. ~Completes(r, e)
          BY <1>1 DEF Completes
        <4>2. ASSUME Recodes(r, e)
              PROVE  info[e] # None /\ info'[e].confirmed = info[e].confirmed
          <5>1. info[e] \in InfoRow /\ info[e] # None
            BY <1>a, <4>2 DEF Recodes
          <5> QED BY <4>2, <5>1 DEF Recodes, InfoRow
        <4> QED BY <1>1, <2>2, <4>1, <4>2, InfoStep
      <3>2. Confirmer(e)
        BY <3>1 DEF ConfirmedByOwner, Letter, Confirmer
      <3> QED BY <3>2, ConfirmerStays
    <2> QED BY <2>1, <2>2
  <1> QED BY <1>1 DEF ConfirmedByOwner, Letter, Confirmer

-----------------------------------------------------------------------------
(* At first no request has come, and the tables are empty.                 *)
LEMMA InitIInv == Init => IInv
  <1> SUFFICES ASSUME Init PROVE IInv
    OBVIOUS
  <1> USE DEF Init
  <1>a. Waiting \in Request
    BY DEF Waiting, Request
  <1>b. \A r \in Requests : req[r] = Waiting
    OBVIOUS
  <1>c. /\ Waiting.pc = "idle" /\ Waiting.fresh = None
        /\ Waiting.about = "confirmation" /\ Waiting.kind = "none"
    BY DEF Waiting
  <1>1. TypeOK
    BY <1>a DEF TypeOK
  <1>2. KnowsOK
    BY <1>b, <1>c DEF KnowsOK, Knows
  <1>3. FreshIsUnique /\ OneInserter
    BY <1>b, <1>c DEF FreshIsUnique, OneInserter
  <1>4. CodesAreWritten /\ ConfirmedByOwner
    BY DEF CodesAreWritten, ConfirmedByOwner
  <1>5. RowsOK /\ HalfAccountsAreExplained
    BY DEF RowsOK, HalfAccountsAreExplained
  <1> QED BY <1>1, <1>2, <1>3, <1>4, <1>5 DEF IInv

(* The steps outside the requests: mails arrive, codes expire.             *)
LEMMA QuietStep ==
  ASSUME IInv, Deliver \/ Expire \/ UNCHANGED vars
  PROVE  IInv'
  <1> USE DEF IInv
  <1>a. /\ UNCHANGED <<user, info, sent, req>>
        /\ mailbox \subseteq mailbox' /\ mailbox' \subseteq sent
        /\ expired' \subseteq Codes
    <2>1. CASE Deliver
      BY <2>1 DEF Deliver, TypeOK
    <2>2. CASE Expire
      <3>1. Generated \subseteq Codes
        BY DEF Generated, TypeOK, Request
      <3> QED BY <2>2, <3>1 DEF Expire, TypeOK
    <2>3. CASE UNCHANGED vars
      BY <2>3 DEF vars, TypeOK
    <2> QED BY <2>1, <2>2, <2>3
  <1>1. TypeOK'
    BY <1>a DEF TypeOK
  <1>2. KnowsOK'
    <2>1. ASSUME NEW n, NEW e PROVE Rivals(n, e)' = Rivals(n, e)
      BY <1>a DEF Rivals
    <2>2. ASSUME NEW n, NEW e, NEW b
          PROVE  /\ Outrun(n, e, b)' = Outrun(n, e, b)
                 /\ Taken(n, e, b)' = Taken(n, e, b)
      BY <1>a DEF Outrun, Taken, TookName
    <2>3. ASSUME NEW q, Knows(q) PROVE Knows(q)'
      BY <1>a, <2>1, <2>2, <2>3 DEF Knows
    <2> QED BY <1>a, <2>3 DEF KnowsOK
  <1>3. FreshIsUnique' /\ OneInserter' /\ RowsOK' /\ HalfAccountsAreExplained'
    BY <1>a DEF FreshIsUnique, OneInserter, RowsOK, HalfAccountsAreExplained
  <1>4. CodesAreWritten'
    BY <1>a DEF CodesAreWritten, Written, Wrote
  <1>5. ConfirmedByOwner'
    BY <1>a DEF ConfirmedByOwner
  <1> QED BY <1>1, <1>2, <1>3, <1>4, <1>5

(* Every step of a request keeps the invariant.                            *)
LEMMA RequestStep ==
  ASSUME IInv, NEW r \in Requests, Step(r)
  PROVE  IInv'
  <1>1. KnowsOK'
    <2>1. ASSUME NEW q \in Requests PROVE Knows(req[q])'
      BY OthersKnow, OwnKnows
    <2> QED BY <2>1 DEF KnowsOK
  <1> QED
    BY <1>1, TypeStep, FreshStep, InserterStep, CodesStep, RowsStep, HalfStep,
       ConfirmedStep
    DEF IInv

(* The inductive invariant of the accounts.                                *)
THEOREM Inductive == Spec => []IInv
  <1>1. ASSUME IInv, [Next]_vars PROVE IInv'
    BY <1>1, NextIsStep, RequestStep, QuietStep
  <1> QED BY <1>1, InitIInv, PTL DEF Spec

(* Rows, mails and requests keep their shape: no handler updates a row that*)
(* is not there, nor writes a code or a name that it does not have.        *)
THEOREM TypeCorrect == Spec => []TypeOK
  BY Inductive, PTL DEF IInv

(* Nobody confirms an account without the code mailed to its address.      *)
THEOREM ConfirmedByOwners == Spec => []ConfirmedByOwner
  BY Inductive, PTL DEF IInv

(* A password without registration info is a registration cut between its  *)
(* two inserts.                                                            *)
THEOREM HalfAccountsExplained == Spec => []HalfAccountsAreExplained
  BY Inductive, PTL DEF IInv

(* The codes of an account are mailed to it, or are about to be.           *)
THEOREM CodesAreMailed == Spec => []CurrentCodesAreMailed
  <1>1. ASSUME IInv PROVE CurrentCodesAreMailed
    BY <1>1 DEF IInv, CodesAreWritten, CurrentCodesAreMailed, Written, Wrote,
       Letter
  <1> QED BY <1>1, Inductive, PTL

(* A renaming answered 500 was overtaken by the one who took the name.     *)
THEOREM LostRacesOnly == Spec => []OnlyRacesAnswer500
  <1>1. ASSUME IInv PROVE OnlyRacesAnswer500
    BY <1>1
    DEF IInv, KnowsOK, Knows, Outrun, TookName, OnlyRacesAnswer500
  <1> QED BY <1>1, Inductive, PTL

(* The statements that follow a confirmation leave it as it is.            *)
LEMMA ConfirmationStays ==
  ASSUME IInv, NEW r \in Requests, Step(r), NEW e \in Emails,
         info[e] # None, info[e].confirmed
  PROVE  info'[e] # None /\ info'[e].confirmed
  <1>1. info'[e] # None
    BY RowsStay
  <1>2. info[e] \in InfoRow
    BY DEF IInv, TypeOK
  <1>3. ~Completes(r, e)
    BY DEF Completes
  <1>4. ASSUME Recodes(r, e) \/ Confirms(r, e) PROVE info'[e].confirmed
    BY <1>2, <1>4 DEF Recodes, Confirms, InfoRow
  <1> QED BY <1>1, <1>3, <1>4, InfoStep

(* No interleaving of registrations, resendings and recoveries takes a     *)
(* confirmation back.                                                      *)
THEOREM ConfirmationLasts == Spec => ConfirmationIsFinal
  <1> DEFINE Lasts == \A e \in Emails :
               (info[e] # None /\ info[e].confirmed)
                  => info'[e] # None /\ info'[e].confirmed
  <1>1. ASSUME IInv, Next PROVE Lasts
    <2>1. CASE Deliver \/ Expire
      BY <2>1 DEF Deliver, Expire
    <2> QED BY <1>1, <2>1, ConfirmationStays, NextIsStep
  <1>2. ASSUME IInv, [Next]_vars PROVE [Lasts]_vars
    BY <1>1, <1>2
  <1>3. [][Lasts]_vars => ConfirmationIsFinal
    BY PTL DEF ConfirmationIsFinal
  <1> QED BY <1>2, <1>3, Inductive, PTL DEF Spec

(* A request that changes a password is a new password, and its account    *)
(* was mailed the recovery code it came with.                              *)
LEMMA PasswordStep ==
  ASSUME IInv, NEW r \in Requests, Step(r), NEW e \in Emails,
         user[e] # None, user'[e].hash # user[e].hash
  PROVE  /\ SetPassword(r) /\ req[r].kind = "newPassword"
         /\ req[r].password = user'[e].hash
         /\ Letter(e, req[r].code, "recovery") \in mailbox
  <1>1. user[e] \in UserRow /\ Knows(req[r])
    BY DEF IInv, TypeOK, KnowsOK
  <1>2. ~Inserts(r, e) /\ ~Creates(r, e)
    BY DEF Inserts, Creates
  <1>3. ~Renames(r, e)
    BY <1>1 DEF Renames, UserRow
  <1>4. Recovers(r, e)
    BY <1>2, <1>3, UserStep
  <1>5. user'[e].hash = req[r].password
    BY <1>1, <1>4 DEF Recovers, UserRow
  <1> QED BY <1>1, <1>4, <1>5 DEF Recovers, SetPassword, At, Knows

(* A password is only ever replaced by the holder of a recovery code.      *)
THEOREM PasswordsNeedRecovery == Spec => PasswordNeedsRecovery
  <1> DEFINE Needs == \A e \in Emails :
               (user[e] # None /\ user'[e].hash # user[e].hash) =>
                  \E r \in Requests :
                     /\ req[r].kind = "newPassword"
                     /\ req[r].password = user'[e].hash
                     /\ [to |-> e, code |-> req[r].code, about |-> "recovery"]
                           \in mailbox
  <1>1. ASSUME IInv, Next PROVE Needs
    <2>1. CASE Deliver \/ Expire
      BY <2>1 DEF Deliver, Expire
    <2> QED BY <1>1, <2>1, PasswordStep, NextIsStep DEF Letter
  <1>2. ASSUME IInv, [Next]_vars PROVE [Needs]_vars
    BY <1>1, <1>2
  <1>3. [][Needs]_vars => PasswordNeedsRecovery
    BY PTL DEF PasswordNeedsRecovery
  <1> QED BY <1>2, <1>3, Inductive, PTL DEF Spec

-----------------------------------------------------------------------------
(* The life cycle of accounts.  What a request may rely on besides Knows:  *)
(* the account whose password it recovers is confirmed, the one it         *)
(* completes has a password.                                               *)
Standing(q) ==
    /\ q.pc = "insertInfo" => user[q.email].hash # None
    /\ q.pc \in {"newRecovery", "setPassword"} => info[q.email].confirmed

(* Registration info is that of a user with a password, and only confirmed *)
(* accounts are sent a recovery code.                                      *)
LifeOK ==
    /\ \A e \in Emails : info[e] # None =>
          /\ user[e].hash # None
          /\ info[e].recovery # None => info[e].confirmed
    /\ \A r \in Requests : Standing(req[r])

(* An account keeps its password, or keeps having none.                    *)
LEMMA HashStays ==
  ASSUME IInv, LifeOK, NEW r \in Requests, Step(r), NEW e \in Emails,
         user[e] # None
  PROVE  /\ user'[e] # None
         /\ user'[e].hash = None <=> user[e].hash = None
  <1>1. user[e] \in UserRow /\ Knows(req[r])
    BY DEF IInv, TypeOK, KnowsOK
  <1>2. ~Inserts(r, e) /\ ~Creates(r, e)
    BY DEF Inserts, Creates
  <1>3. ASSUME Recovers(r, e) PROVE user[e].hash # None /\ user'[e].hash # None
    <2>1. /\ req[r].email = e /\ req[r].password # None /\ info[e] # None
          /\ user'[e] = [user[e] EXCEPT !.hash = req[r].password]
      BY <1>1, <1>3 DEF Recovers, SetPassword, At, Knows
    <2> QED BY <1>1, <2>1 DEF LifeOK, UserRow
  <1>4. ASSUME Renames(r, e) PROVE user'[e].hash = user[e].hash
    BY <1>1, <1>4 DEF Renames, UserRow
  <1> QED BY <1>2, <1>3, <1>4, UserStep, RowsStay

(* What a request relies on is not taken from it by another's step.        *)
LEMMA StandingStays ==
  ASSUME IInv, LifeOK, NEW r \in Requests, Step(r),
         NEW q \in Request, Knows(q), Standing(q)
  PROVE  Standing(q)'
  <1>1. q.pc \notin {"idle", "done"} => q.email \in Emails
    BY DEF Knows, Request
  <1>2. CASE q.pc = "insertInfo"
    BY <1>1, <1>2, HashStays DEF Standing, Knows
  <1>3. CASE q.pc \in {"newRecovery", "setPassword"}
    BY <1>1, <1>3, ConfirmationStays DEF Standing, Knows
  <1> QED BY <1>2, <1>3 DEF Standing

(* A request arrives at an account that stands as it should.               *)
LEMMA StandingArrives ==
  ASSUME IInv, LifeOK, NEW r \in Requests, Arriving(r)
  PROVE  Standing(req'[r])
  <1>a. /\ req \in [Requests -> Request] /\ req[r] = Waiting
        /\ Begun(req'[r])
    BY Arrivals DEF IInv, TypeOK, Arrival
  <1>b. KnownCodes \subseteq Codes
    <2>1. \A m \in mailbox : m.code \in Codes
      BY DEF IInv, TypeOK, Mail
    <2> QED BY <2>1 DEF KnownCodes
  <1>1. req'[r].pc # "insertInfo"
    BY <1>a DEF Begun
  <1>2. ASSUME NEW n \in Names, NEW e \in Emails, NEW p \in Passwords,
               Register(r, n, e, p)
        PROVE  req'[r].pc \in {"byName", "newCode", "done"}
    BY <1>a, <1>2 DEF Register, Begin, Refuse, Waiting
  <1>3. ASSUME NEW k \in KnownCodes, Confirm(r, k)
        PROVE  req'[r].pc \in {"confirm", "done"}
    <2>1. CASE \E q \in Request, x \in {"ok", "400"} : Refuse(r, q, x)
      BY <1>a, <2>1 DEF Refuse, Request
    <2>2. CASE \E q \in Request : Begin(r, q, "confirm")
      BY <1>a, <2>2 DEF Begin, Request
    <2>3. \A e \in ByCode(k) :
             LET q == [Waiting EXCEPT !.kind = "confirm", !.code = k]
             IN  q \in Request /\ [q EXCEPT !.email = e] \in Request
      BY <1>b DEF Waiting, Request, ByCode
    <2>4. [Waiting EXCEPT !.kind = "confirm", !.code = k] \in Request
      BY <1>b DEF Waiting, Request
    <2> QED BY <1>3, <2>1, <2>2, <2>3, <2>4 DEF Confirm
  <1>4. ASSUME NEW k \in KnownCodes, ResendCode(r, k)
        PROVE  req'[r].pc \in {"newCode", "done"}
    BY <1>a, <1>4 DEF ResendCode, Begin, Refuse, Waiting
  <1>5. ASSUME NEW k \in KnownCodes, ResendRecovery(r, k),
               req'[r].pc = "newRecovery"
        PROVE  info[req'[r].email].confirmed
    <2>1. PICK e \in ByRecovery(k) : req'[r].email = e
      BY <1>a, <1>5 DEF ResendRecovery, Begin, Refuse, Waiting
    <2> QED BY <1>b, <2>1, NoneAssumption DEF ByRecovery, LifeOK
  <1>6. ASSUME NEW k \in KnownCodes, NEW p \in Passwords, NewPassword(r, k, p),
               req'[r].pc = "setPassword"
        PROVE  info[req'[r].email].confirmed
    <2>1. PICK e \in ByRecovery(k) : req'[r].email = e
      BY <1>a, <1>6 DEF NewPassword, Begin, Refuse, Waiting
    <2> QED BY <1>b, <2>1, NoneAssumption DEF ByRecovery, LifeOK
  <1>7. ASSUME NEW e \in Emails, RecoverPassword(r, e),
               req'[r].pc \in {"newRecovery", "setPassword"}
        PROVE  /\ info[req'[r].email].confirmed
               /\ req'[r].pc = "newRecovery"
    BY <1>a, <1>7 DEF RecoverPassword, Begin, Refuse, Waiting
  <1>8. ASSUME NEW e \in Emails, NEW n \in Names, UpdateUser(r, e, n)
        PROVE  req'[r].pc \in {"setName", "done"}
    BY <1>a, <1>8 DEF UpdateUser, Begin, Refuse, Waiting
  <1>9. ASSUME NEW k \in KnownCodes, ResendRecovery(r, k)
        PROVE  req'[r].pc \in {"newRecovery", "done"}
    BY <1>a, <1>9 DEF ResendRecovery, Begin, Refuse, Waiting
  <1>10. ASSUME NEW k \in KnownCodes, NEW p \in Passwords, NewPassword(r, k, p)
         PROVE  req'[r].pc \in {"setPassword", "done"}
    BY <1>a, <1>10 DEF NewPassword, Begin, Refuse, Waiting
  <1>11. ASSUME NEW e \in Emails, NEW n \in Names, GoogleLogin(r, e, n)
         PROVE  req'[r].pc = "insertGoogle"
    BY <1>a, <1>11 DEF GoogleLogin, Begin, Waiting
  <1> QED BY <1>1, <1>2, <1>3, <1>4, <1>5, <1>6, <1>7, <1>8, <1>9, <1>10, <1>11
    DEF Arriving, Standing

(* A request that goes on has inserted the password it completes.          *)
LEMMA StandingGoesOn ==
  ASSUME IInv, LifeOK, NEW r \in Requests, Continue(r) \/ Abort(r)
  PROVE  Standing(req[r])'
  <1>a. /\ req \in [Requests -> Request] /\ Knows(req[r]) /\ Step(r)
        /\ req[r] \in Request /\ Standing(req[r])
    BY DEF IInv, TypeOK, KnowsOK, LifeOK, Step
  <1>b. PICK q, n : q = req[r] /\ n = req'[r]
    OBVIOUS
  <1>c. Standing(q)' /\ n.email = q.email
    BY <1>a, <1>b, StandingStays, Onward
  <1> SUFFICES Standing(n)'
    BY <1>b DEF Standing
  <1>1. CASE Abort(r)
    <2>1. n.pc = q.pc
      BY <1>a, <1>b, <1>1 DEF Abort, Request
    <2> QED BY <1>c, <2>1 DEF Standing
  <1>2. CASE InsertUser(r)
    <2>1. CASE n.pc = "insertInfo"
      <3>1. /\ user' = [user EXCEPT ![q.email] =
                          [name |-> q.name, hash |-> q.password]]
            /\ q.email \in Emails /\ q.password # None
        BY <1>a, <1>b, <1>2, <2>1 DEF InsertUser, Answer, At, Knows, Request
      <3>2. user'[q.email].hash # None
        BY <3>1 DEF IInv, TypeOK
      <3> QED BY <1>c, <2>1, <3>2 DEF Standing
    <2>2. CASE n.pc # "insertInfo"
      <3>1. n.pc = "done"
        BY <1>a, <1>b, <1>2, <2>2 DEF InsertUser, Answer, Goto, Request
      <3> QED BY <3>1 DEF Standing
    <2> QED BY <2>1, <2>2
  <1>3. CASE ~InsertUser(r) /\ ~Abort(r)
    <2>1. n.pc \in {"insertUser", "emit", "done"}
      <3>1. CASE \E x : Answer(r, x)
        BY <1>a, <1>b, <3>1 DEF Answer, Request
      <3>2. CASE Goto(r, "insertUser")
        BY <1>a, <1>b, <3>2 DEF Goto, Request
      <3>3. CASE InsertInfo(r)
        BY <1>a, <1>b, <3>3 DEF InsertInfo, Request
      <3>4. CASE UpdateConfirmationCode(r)
        BY <1>a, <1>b, <3>4 DEF UpdateConfirmationCode, Request
      <3>5. CASE UpdateRecoveryPassword(r)
        BY <1>a, <1>b, <3>5 DEF UpdateRecoveryPassword, Request
      <3> QED BY <1>3, <3>1, <3>2, <3>3, <3>4, <3>5
        DEF Continue, FindByUsername, Emit, SetConfirmed, SetPassword, SetName,
            CreateUserAndProviderUser
    <2> QED BY <2>1 DEF Standing
  <1> QED BY <1>1, <1>2, <1>3

(* Every step keeps the accounts standing as the requests rely on.         *)
LEMMA LifeStep ==
  ASSUME IInv, LifeOK, NEW r \in Requests, Step(r)
  PROVE  LifeOK'
  <1>a. /\ info \in [Emails -> InfoRow \cup {None}] /\ req[r] \in Request
        /\ Knows(req[r]) /\ Standing(req[r])
    BY DEF IInv, TypeOK, KnowsOK, LifeOK
  <1>1. ASSUME NEW e \in Emails, info'[e] # None
        PROVE  /\ user'[e].hash # None
               /\ info'[e].recovery # None => info'[e].confirmed
    <2>1. CASE info[e] # None
      <3>1. user'[e].hash # None
        BY <2>1, HashStays DEF IInv, RowsOK, LifeOK
      <3>2. ASSUME info'[e].recovery # None PROVE info'[e].confirmed
        <4>1. info[e] \in InfoRow /\ ~Completes(r, e)
          BY <1>a, <2>1 DEF Completes
        <4>2. CASE info[e].confirmed
          BY <2>1, <4>2, ConfirmationStays
        <4>3. ASSUME UpdateRecoveryPassword(r), req[r].email = e
              PROVE  info[e].confirmed
          BY <1>a, <4>3 DEF UpdateRecoveryPassword, At, Standing
        <4>4. CASE info[e].recovery = None
          <5>1. Recodes(r, e) \/ Confirms(r, e)
            BY <3>2, <4>1, <4>4, InfoStep
          <5>2. CASE Confirms(r, e)
            BY <4>1, <5>2 DEF Confirms, InfoRow
          <5>3. CASE Recodes(r, e)
            BY <3>2, <4>1, <4>2, <4>3, <4>4, <5>3 DEF Recodes, InfoRow
          <5> QED BY <5>1, <5>2, <5>3
        <4> QED BY <2>1, <4>2, <4>4 DEF LifeOK
      <3> QED BY <3>1, <3>2
    <2>2. CASE info[e] = None
      <3>1. Completes(r, e)
        BY <1>1, <2>2, InfoStep DEF Recodes, Confirms
      <3>2. user[e] # None /\ user[e].hash # None
        BY <1>a, <3>1 DEF Completes, InsertInfo, At, Standing
      <3> QED BY <3>1, <3>2, HashStays DEF Completes
    <2> QED BY <2>1, <2>2
  <1>2. ASSUME NEW q \in Requests PROVE Standing(req[q])'
    <2>1. CASE q # r
      <3>1. PICK x \in Request : x = req[q] /\ x = req'[q]
        BY <2>1, OthersKept DEF IInv, TypeOK
      <3>2. Standing(x)'
        BY <3>1, StandingStays DEF IInv, KnowsOK, LifeOK
      <3> QED BY <3>1, <3>2 DEF Standing
    <2>2. CASE q = r /\ Arriving(r)
      <3>1. UNCHANGED <<user, info>>
        BY <2>2, Arrivals DEF Arrival
      <3> QED BY <2>2, <3>1, StandingArrives DEF Standing
    <2> QED BY <2>1, <2>2, StandingGoesOn DEF Step
  <1> QED BY <1>1, <1>2 DEF LifeOK

(* At first there are no accounts.                                         *)
LEMMA InitLife == Init => LifeOK
  <1> SUFFICES ASSUME Init PROVE LifeOK
    OBVIOUS
  <1>1. \A r \in Requests : req[r].pc = "idle"
    BY DEF Init, Waiting
  <1> QED BY <1>1 DEF Init, LifeOK, Standing

(* The invariant that the life cycle needs.                                *)
THEOREM LivesAreInOrder == Spec => []LifeOK
  <1>1. ASSUME IInv, LifeOK, [Next]_vars PROVE LifeOK'
    <2>1. CASE Deliver \/ Expire \/ UNCHANGED vars
      <3>1. UNCHANGED <<user, info, req>>
        BY <2>1 DEF Deliver, Expire, vars
      <3> QED BY <1>1, <3>1 DEF LifeOK, Standing
    <2> QED BY <1>1, <2>1, LifeStep, NextIsStep
  <1> QED BY <1>1, InitLife, Inductive, PTL DEF Spec

-----------------------------------------------------------------------------
(* Rows that no statement has written are seen as they were.               *)
LEMMA SameSeen ==
  ASSUME NEW e, user'[e] = user[e], info'[e] = info[e]
  PROVE  /\ Status(e)' = Status(e) /\ NameOf(e)' = NameOf(e)
         /\ PasswordOf(e)' = PasswordOf(e)
  BY DEF Status, NameOf, PasswordOf

(* A request writes rows of its own account only.                          *)
LEMMA OwnRowsOnly ==
  ASSUME IInv, NEW r \in Requests, Step(r), NEW e \in Emails,
         e # req[r].email
  PROVE  user'[e] = user[e] /\ info'[e] = info[e]
  BY UserStep, InfoStep
  DEF Inserts, Creates, Recovers, Renames, Completes, Recodes, Confirms

(* A name that no user has is free in the life cycle too.                  *)
LEMMA FreeNames ==
  ASSUME TypeOK, NEW n \in Names, ~NameTaken(n)
  PROVE  Lifecycle!Free(n)
  BY NoneAssumption DEF NameTaken, Lifecycle!Free, NameOf

(* The insert of a user is a registration.                                 *)
LEMMA InsertMapped ==
  ASSUME IInv, LifeOK, NEW r \in Requests, Step(r), NEW e \in Emails,
         Inserts(r, e)
  PROVE  Lifecycle!Next
  <1> DEFINE n == req[r].name
             p == req[r].password
  <1>a. /\ req[r] \in Request /\ Knows(req[r])
        /\ user[e] = None /\ info[e] = None
    BY DEF IInv, TypeOK, KnowsOK, RowsOK, Inserts
  <1>b. n \in Names /\ p \in Passwords /\ p # None
    BY <1>a DEF Inserts, InsertUser, At, Knows, Request
  <1>1. Status(e) = "none"
    BY <1>a DEF Status
  <1>2. user'[e] # None /\ user'[e].name = n /\ user'[e].hash = p
    BY <1>a, RowsAssumption, <1>b DEF Inserts, UserRow
  <1>3. info'[e] = None
    BY <1>a, InfoStep DEF Inserts, Completes, Recodes, Confirms
  <1>4. Status(e)' = "half" /\ NameOf(e)' = n /\ PasswordOf(e)' = p
    BY <1>b, <1>2, <1>3 DEF Status, NameOf, PasswordOf
  <1>5. Lifecycle!Free(n)
    BY <1>b, FreeNames DEF IInv, Inserts
  <1>6. \A x \in Emails \ {e} :
           /\ Status(x)' = Status(x) /\ NameOf(x)' = NameOf(x)
           /\ PasswordOf(x)' = PasswordOf(x)
    BY OwnRowsOnly, SameSeen DEF Inserts
  <1>7. Lifecycle!Register(e, n, p)
    BY <1>1, <1>4, <1>5, <1>6 DEF Lifecycle!Register
  <1> QED BY <1>b, <1>7 DEF Lifecycle!Next

(* The creation of a user without a password is a first Google login.      *)
LEMMA CreationMapped ==
  ASSUME IInv, NEW r \in Requests, Step(r), NEW e \in Emails, Creates(r, e)
  PROVE  Lifecycle!Next
  <1> DEFINE n == req[r].name
  <1>a. /\ req[r] \in Request /\ Knows(req[r])
        /\ user[e] = None /\ info[e] = None
    BY DEF IInv, TypeOK, KnowsOK, RowsOK, Creates
  <1>b. n \in Names
    BY <1>a DEF Creates, CreateUserAndProviderUser, At, Knows, Request
  <1>1. Status(e) = "none" /\ PasswordOf(e) = None
    BY <1>a DEF Status, PasswordOf
  <1>2. user'[e] # None /\ user'[e].name = n /\ user'[e].hash = None
    BY <1>a, <1>b, RowsAssumption DEF Creates, UserRow
  <1>3. info'[e] = None
    BY <1>a DEF Creates, CreateUserAndProviderUser
  <1>4. /\ Status(e)' = "google" /\ NameOf(e)' = n
        /\ PasswordOf(e)' = PasswordOf(e)
    BY <1>1, <1>2, <1>3 DEF Status, NameOf, PasswordOf
  <1>5. Lifecycle!Free(n)
    BY <1>b, FreeNames DEF IInv, Creates
  <1>6. \A x \in Emails \ {e} :
           /\ Status(x)' = Status(x) /\ NameOf(x)' = NameOf(x)
           /\ PasswordOf(x)' = PasswordOf(x)
    BY OwnRowsOnly, SameSeen DEF Creates
  <1>7. Lifecycle!MakeGoogle(e, n)
    BY <1>1, <1>4, <1>5, <1>6 DEF Lifecycle!MakeGoogle
  <1> QED BY <1>b, <1>7 DEF Lifecycle!Next

(* The insert of its registration info completes it.                       *)
LEMMA CompletionMapped ==
  ASSUME IInv, LifeOK, NEW r \in Requests, Step(r), NEW e \in Emails,
         Completes(r, e)
  PROVE  Lifecycle!Next
  <1>a. /\ Knows(req[r]) /\ Standing(req[r])
        /\ user[e] # None /\ info[e] = None /\ user' = user
    BY DEF IInv, KnowsOK, LifeOK, Completes, InsertInfo
  <1>1. user[e].hash # None
    BY <1>a DEF Completes, InsertInfo, At, Standing
  <1>2. Status(e) = "half"
    BY <1>a, <1>1 DEF Status
  <1>3. info'[e] # None /\ ~info'[e].confirmed
    <2>1. PICK k \in Codes : info' = [info EXCEPT ![e] =
             [confirmed |-> FALSE, code |-> k, recovery |-> None]]
      BY DEF Completes, InsertInfo
    <2>2. /\ [confirmed |-> FALSE, code |-> k, recovery |-> None] \in InfoRow
          /\ info'[e] = [confirmed |-> FALSE, code |-> k, recovery |-> None]
      BY <2>1 DEF InfoRow, IInv, TypeOK
    <2>3. info'[e] # None
      BY <2>2, RowsAssumption
    <2>4. info'[e].confirmed = FALSE
      BY <2>2
    <2> QED BY <2>3, <2>4
  <1>4. Status(e)' = "registered"
    BY <1>a, <1>3 DEF Status
  <1>5. \A x \in Emails :
           NameOf(x)' = NameOf(x) /\ PasswordOf(x)' = PasswordOf(x)
    BY <1>a DEF NameOf, PasswordOf
  <1>6. \A x \in Emails \ {e} : Status(x)' = Status(x)
    BY OwnRowsOnly, SameSeen DEF Completes
  <1>7. Lifecycle!Complete(e)
    BY <1>2, <1>4, <1>5, <1>6 DEF Lifecycle!Complete
  <1> QED BY <1>7 DEF Lifecycle!Next

(* A confirmation confirms, or finds that another one has come first.      *)
LEMMA ConfirmationMapped ==
  ASSUME IInv, LifeOK, NEW r \in Requests, Step(r), NEW e \in Emails,
         Confirms(r, e)
  PROVE  [Lifecycle!Next]_Lifecycle!vars
  <1>a. /\ info[e] \in InfoRow /\ info[e] # None /\ user[e] # None
        /\ user' = user
    BY DEF IInv, TypeOK, RowsOK, Confirms, SetConfirmed
  <1>1. info'[e] # None /\ info'[e].confirmed
    BY <1>a, RowsStay DEF Confirms, InfoRow
  <1>2. Status(e) = (IF info[e].confirmed THEN "confirmed" ELSE "registered")
    BY <1>a DEF Status
  <1>3. Status(e)' = "confirmed"
    BY <1>a, <1>1 DEF Status
  <1>4. \A x \in Emails :
           NameOf(x)' = NameOf(x) /\ PasswordOf(x)' = PasswordOf(x)
    BY <1>a DEF NameOf, PasswordOf
  <1>5. \A x \in Emails \ {e} : Status(x)' = Status(x)
    BY OwnRowsOnly, SameSeen DEF Confirms
  <1>6. CASE info[e].confirmed
    <2>1. UNCHANGED Lifecycle!vars
      BY <1>2, <1>3, <1>4, <1>5, <1>6 DEF Lifecycle!vars
    <2> QED BY <2>1
  <1>7. CASE ~info[e].confirmed
    <2>1. Lifecycle!Confirm(e)
      BY <1>2, <1>3, <1>4, <1>5, <1>7 DEF Lifecycle!Confirm
    <2> QED BY <2>1 DEF Lifecycle!Next
  <1> QED BY <1>6, <1>7

(* A new password recovers a confirmed account.                            *)
LEMMA RecoveryMapped ==
  ASSUME IInv, LifeOK, NEW r \in Requests, Step(r), NEW e \in Emails,
         Recovers(r, e)
  PROVE  Lifecycle!Next
  <1> DEFINE p == req[r].password
  <1>a. /\ user[e] \in UserRow /\ user[e] # None /\ info' = info
        /\ req[r] \in Request /\ Knows(req[r]) /\ Standing(req[r])
        /\ req[r].pc = "setPassword" /\ req[r].email = e
    BY DEF IInv, TypeOK, KnowsOK, LifeOK, Recovers, SetPassword, At
  <1>1. info[e] # None /\ info[e].confirmed /\ p \in Passwords
    BY <1>a DEF Knows, Standing, Request
  <1>2. /\ user'[e] # None /\ user'[e].hash = p
        /\ user'[e].name = user[e].name
    BY <1>a, RowsStay DEF Recovers, UserRow
  <1>3. /\ Status(e) = "confirmed" /\ Status(e)' = "confirmed"
        /\ NameOf(e)' = NameOf(e) /\ PasswordOf(e)' = p
    BY <1>a, <1>1, <1>2 DEF Status, NameOf, PasswordOf
  <1>4. \A x \in Emails \ {e} :
           /\ Status(x)' = Status(x) /\ NameOf(x)' = NameOf(x)
           /\ PasswordOf(x)' = PasswordOf(x)
    BY OwnRowsOnly, SameSeen DEF Recovers
  <1>5. Lifecycle!Recover(e, p)
    BY <1>3, <1>4 DEF Lifecycle!Recover
  <1> QED BY <1>1, <1>5 DEF Lifecycle!Next

(* A renaming that is not refused takes a free name, or changes nothing.   *)
LEMMA RenamingMapped ==
  ASSUME IInv, LifeOK, NEW r \in Requests, Step(r), NEW e \in Emails,
         Renames(r, e)
  PROVE  [Lifecycle!Next]_Lifecycle!vars
  <1> DEFINE n == req[r].name
  <1>a. /\ user[e] \in UserRow /\ user[e] # None /\ info' = info
        /\ info[e] \in InfoRow \cup {None}
        /\ req[r] \in Request /\ Knows(req[r])
        /\ req[r].pc = "setName" /\ req[r].email = e
    BY DEF IInv, TypeOK, KnowsOK, Renames, SetName, At
  <1>1. n \in Names
    BY <1>a DEF Knows, Request
  <1>2. /\ user'[e] # None /\ user'[e].hash = user[e].hash
        /\ user'[e].name = n
    BY <1>a, RowsStay DEF Renames, UserRow
  <1>3. /\ Status(e)' = Status(e) /\ NameOf(e)' = n /\ NameOf(e) = user[e].name
        /\ PasswordOf(e)' = PasswordOf(e)
    BY <1>a, <1>2 DEF Status, NameOf, PasswordOf
  <1>4. Status(e) # "none"
    BY <1>a DEF Status
  <1>5. \A x \in Emails \ {e} :
           /\ Status(x)' = Status(x) /\ NameOf(x)' = NameOf(x)
           /\ PasswordOf(x)' = PasswordOf(x)
    BY OwnRowsOnly, SameSeen DEF Renames
  <1>6. CASE user[e].name = n
    <2>1. UNCHANGED Lifecycle!vars
      BY <1>3, <1>5, <1>6 DEF Lifecycle!vars
    <2> QED BY <2>1
  <1>7. CASE user[e].name # n
    <2>1. Lifecycle!Free(n)
      BY <1>1, <1>7, FreeNames DEF IInv, Renames
    <2>2. Lifecycle!Rename(e, n)
      BY <1>3, <1>4, <1>5, <2>1 DEF Lifecycle!Rename
    <2> QED BY <1>1, <2>2 DEF Lifecycle!Next
  <1> QED BY <1>6, <1>7

(* A step that writes neither a user nor a confirmation is not seen.       *)
LEMMA QuietMapped ==
  ASSUME IInv, user' = user,
         \A e \in Emails : \/ info'[e] = info[e]
                           \/ /\ info[e] # None /\ info'[e] # None
                              /\ info'[e].confirmed = info[e].confirmed
  PROVE  UNCHANGED Lifecycle!vars
  <1>1. \A e \in Emails :
           /\ Status(e)' = Status(e) /\ NameOf(e)' = NameOf(e)
           /\ PasswordOf(e)' = PasswordOf(e)
    BY DEF Status, NameOf, PasswordOf
  <1> QED BY <1>1 DEF Lifecycle!vars

(* Each step of a request is one of the life cycle, or is not seen.        *)
LEMMA StepMapped ==
  ASSUME IInv, LifeOK, NEW r \in Requests, Step(r)
  PROVE  [Lifecycle!Next]_Lifecycle!vars
  <1>1. CASE \E e \in Emails : Inserts(r, e)
    BY <1>1, InsertMapped
  <1>2. CASE \E e \in Emails : Completes(r, e)
    BY <1>2, CompletionMapped
  <1>3. CASE \E e \in Emails : Confirms(r, e)
    BY <1>3, ConfirmationMapped
  <1>4. CASE \E e \in Emails : Recovers(r, e)
    BY <1>4, RecoveryMapped
  <1>5. CASE \E e \in Emails : Renames(r, e)
    BY <1>5, RenamingMapped
  <1>6. CASE \E e \in Emails : Creates(r, e)
    BY <1>6, CreationMapped
  <1>7. CASE \A e \in Emails :
                /\ ~Inserts(r, e) /\ ~Creates(r, e) /\ ~Recovers(r, e)
                /\ ~Renames(r, e) /\ ~Completes(r, e) /\ ~Confirms(r, e)
    <2>1. user' = user
      <3>1. \A e \in Emails : user'[e] = user[e]
        BY <1>7, UserStep
      <3>2. TypeOK /\ TypeOK'
        BY TypeStep DEF IInv
      <3> QED BY <3>1, <3>2 DEF TypeOK
    <2>2. ASSUME NEW e \in Emails, info'[e] # info[e]
          PROVE  /\ info[e] # None /\ info'[e] # None
                 /\ info'[e].confirmed = info[e].confirmed
      <3>1. Recodes(r, e) /\ info[e] # None /\ info[e] \in InfoRow
        BY <1>7, <2>2, InfoStep DEF Recodes, IInv, TypeOK
      <3> QED BY <3>1, RowsStay DEF Recodes, InfoRow
    <2>3. UNCHANGED Lifecycle!vars
      BY <2>1, <2>2, QuietMapped
    <2> QED BY <2>3
  <1> QED BY <1>1, <1>2, <1>3, <1>4, <1>5, <1>6, <1>7

(* The life cycle starts without accounts too.                             *)
LEMMA InitMapped == Init => Lifecycle!Init
  BY DEF Init, Lifecycle!Init, Status, NameOf, PasswordOf

(* The handlers implement the abstract life cycle: whatever interleaves,   *)
(* an account is made once, confirmed after it is complete and for good,   *)
(* and changes its password only when confirmed.                           *)
THEOREM HandlersImplementLifecycle == Spec => ImplementsLifecycle
  <1>1. ASSUME IInv, LifeOK, [Next]_vars
        PROVE  [Lifecycle!Next]_Lifecycle!vars
    <2>1. CASE Deliver \/ Expire \/ UNCHANGED vars
      <3>1. user' = user /\ info' = info
        BY <2>1 DEF Deliver, Expire, vars
      <3> QED BY <1>1, <3>1, QuietMapped
    <2> QED BY <1>1, <2>1, StepMapped, NextIsStep
  <1> QED BY <1>1, InitMapped, Inductive, LivesAreInOrder, PTL
    DEF Spec, ImplementsLifecycle, Lifecycle!Spec
=============================================================================
