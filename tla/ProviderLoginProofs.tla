------------------------- MODULE ProviderLoginProofs -------------------------
(***************************************************************************)
(* Theorems about ProviderLogin, for any number of users, Google accounts  *)
(* and requests: whose user a login through Google opens.                  *)
(***************************************************************************)
EXTENDS ProviderLogin, FiniteSetTheorems, TLAPS

(* What a request has learnt stays true while other requests go on.        *)
Knows(q) ==
    /\ q.pc # "idle" => q.google # None
    /\ q.pc = "idle" => q.reply = "none"
    /\ q.found = "name" => q.pc \in {"link", "done"}
    /\ q.pc = "create" => q.client # None
    /\ q.pc \in {"update", "link"} => q.user # None /\ user[q.user] # None
    /\ q.pc = "link" /\ q.found # "name" =>
          user[q.user].email = profile[q.google].email
    /\ q.pc = "update" \/ q.reply = "ok" =>
          q.user # None /\ link[q.user] = q.google

KnowsOK == \A r \in Requests : Knows(req[r])

EmailsAreUnique ==
    \A i, j \in Existing : user[i].email = user[j].email => i = j

(* A user is linked to the Google account that has his e-mail, unless a    *)
(* request of that account has found a user by display name.               *)
NamedBy(g) == \E r \in Requests : req[r].google = g /\ req[r].found = "name"

LinksAreExplained ==
    \A i \in Ids : link[i] # None =>
       /\ user[i] # None
       /\ user[i].email = profile[link[i]].email \/ NamedBy(link[i])

IInv ==
    /\ TypeOK
    /\ IsFiniteSet(Existing)
    /\ KnowsOK
    /\ EmailsAreUnique
    /\ LinksAreExplained

-----------------------------------------------------------------------------
(* A step is a request's or another user's.                                *)
Step(r) == (\E g \in GoogleIds : GoogleLogin(r, g)) \/ Continue(r) \/ Abort(r)

Others ==
    \/ \E n \in AnyName, e \in Emails : Register(n, e)
    \/ \E i \in Ids, n \in AnyName : Rename(i, n)

(* The next-state relation, by who takes the step.                         *)
LEMMA NextIsStep == Next <=> (\E r \in Requests : Step(r)) \/ Others
  BY DEF Next, Step, Others

(* Counting finitely many users gives a natural number.                    *)
LEMMA CountIsNat ==
  ASSUME IInv
  PROVE  Cardinality(ClientUsers) \in Nat
  <1>1. ClientUsers \subseteq Existing
    BY DEF ClientUsers
  <1> QED BY <1>1, FS_Subset, FS_CardinalityType DEF IInv

(* What a user does by himself leaves requests, links and e-mails alone.   *)
LEMMA OthersStep ==
  ASSUME IInv, Others
  PROVE  /\ TypeOK' /\ UNCHANGED <<profile, link, req>>
         /\ \A i \in Existing : user'[i] # None /\ user'[i].email = user[i].email
         /\ \A i, j \in Existing' : user'[i].email = user'[j].email => i = j
         /\ \E k \in Ids : Existing' \subseteq Existing \cup {k}
  <1> USE DEF IInv
  <1>a. user \in [Ids -> Row \cup {None}]
    BY DEF TypeOK
  <1>1. ASSUME NEW n \in AnyName, NEW e \in Emails, Register(n, e)
        PROVE  /\ TypeOK' /\ UNCHANGED <<profile, link, req>>
               /\ \A i \in Existing : user'[i] # None /\ user'[i].email = user[i].email
               /\ \A i, j \in Existing' : user'[i].email = user'[j].email => i = j
               /\ \E k \in Ids : Existing' \subseteq Existing \cup {k}
    <2>1. PICK k \in Ids \ Existing :
             user' = [user EXCEPT ![k] = [name |-> n, email |-> e]]
      BY <1>1 DEF Register
    <2>2. TypeOK' /\ UNCHANGED <<profile, link, req>>
      BY <1>1, <2>1 DEF Register, TypeOK, Row
    <2>3. \A i \in Ids : i # k => user'[i] = user[i]
      BY <1>a, <2>1
    <2>4. user'[k].email = e
      BY <1>a, <2>1
    <2>5. Existing' \subseteq Existing \cup {k}
      BY <2>3 DEF Existing
    <2>6. \A i \in Existing : user'[i] # None /\ user'[i].email = user[i].email
      BY <2>1, <2>3 DEF Existing
    <2>7. \A i \in Existing : user'[i].email # e
      BY <1>1, <2>6 DEF Register, EmailsInUse
    <2> QED BY <2>1, <2>2, <2>4, <2>5, <2>6, <2>7 DEF EmailsAreUnique
  <1>2. ASSUME NEW k \in Ids, NEW n \in AnyName, Rename(k, n)
        PROVE  /\ TypeOK' /\ UNCHANGED <<profile, link, req>>
               /\ \A i \in Existing : user'[i] # None /\ user'[i].email = user[i].email
               /\ \A i, j \in Existing' : user'[i].email = user'[j].email => i = j
               /\ \E k2 \in Ids : Existing' \subseteq Existing \cup {k2}
    <2>1. user' = [user EXCEPT ![k].name = n] /\ user[k] \in Row
      BY <1>a, <1>2 DEF Rename
    <2>2. TypeOK' /\ UNCHANGED <<profile, link, req>>
      BY <1>2, <2>1 DEF Rename, TypeOK, Row
    <2>3. \A i \in Ids : i # k => user'[i] = user[i]
      BY <1>a, <2>1
    <2>4. user'[k] \in Row /\ user'[k].email = user[k].email
      BY <1>a, <2>1 DEF Row
    <2>5. None \notin Row /\ user[k] # None
      BY <1>2, NoneAssumption DEF Rename, Row, AnyName, Clients
    <2>6. \A i \in Existing : user'[i] # None /\ user'[i].email = user[i].email
      BY <2>3, <2>4, <2>5 DEF Existing
    <2>7. Existing' \subseteq Existing
      BY <2>3, <2>5 DEF Existing
    <2> QED BY <2>2, <2>6, <2>7 DEF EmailsAreUnique
  <1> QED BY <1>1, <1>2 DEF Others

(* A request that goes on keeps its Google account, and what it has found. *)
Kept(r) ==
    /\ req' \in [Requests -> Request]
    /\ \A q \in Requests : q # r => req'[q] = req[q]
    /\ req[r].pc # "idle" => req'[r].google = req[r].google
    /\ req[r].found = "name" => req'[r].found = "name"
    /\ req[r].pc = "idle" => req'[r].google # None

(* No step of a request changes which Google account it is for.            *)
LEMMA RequestKept ==
  ASSUME IInv, NEW r \in Requests, Step(r)
  PROVE  Kept(r)
  <1>a. req \in [Requests -> Request] /\ req[r] \in Request /\ Knows(req[r])
    BY DEF IInv, TypeOK, KnowsOK
  <1>b. ASSUME NEW x, req[r].pc # "idle",
               \/ Goto(r, x) /\ x \in {"byEmail", "byName", "count"}
               \/ Answer(r, x) /\ x \in {"ok", "500"}
        PROVE  Kept(r)
    BY <1>a, <1>b DEF Goto, Answer, Request, Kept
  <1>c. ASSUME NEW i \in Ids, NEW how \in {"provider", "email", "name"},
               NEW x \in {"update", "link"}, Found(r, i, how, x),
               req[r].pc # "idle", req[r].found # "name"
        PROVE  Kept(r)
    <2>1. req'[r] = [req[r] EXCEPT !.user = i, !.found = how, !.pc = x]
      BY <1>a, <1>c DEF Found
    <2>2. req'[r] \in Request /\ req'[r].google = req[r].google
      BY <1>a, <2>1 DEF Request
    <2>3. \A q \in Requests : q # r => req'[q] = req[q]
      BY <1>a, <1>c DEF Found
    <2>4. req' \in [Requests -> Request]
      BY <1>a, <1>c, <2>2, <2>3 DEF Found
    <2> QED BY <1>c, <2>2, <2>3, <2>4 DEF Kept
  <1>1. ASSUME NEW g \in GoogleIds, GoogleLogin(r, g) PROVE Kept(r)
    <2>1. PICK pc \in {"findProvider", "done"},
               reply \in {"none", "401", "403", "500"} :
            req' = [req EXCEPT ![r] =
                      [google |-> g, pc |-> pc, reply |-> reply, user |-> None,
                       found |-> "no", client |-> None]]
      BY <1>1 DEF GoogleLogin, Waiting
    <2>2. g # None
      BY NoneAssumption
    <2>3. req[r].pc = "idle" /\ req[r].found # "name"
      BY <1>a, <1>1 DEF GoogleLogin, At, Knows
    <2> QED BY <1>a, <2>1, <2>2, <2>3 DEF Request, Kept
  <1>2. CASE FindProvider(r)
    <2>1. Goto(r, "byEmail") \/ \E i \in Ids : Found(r, i, "provider", "update")
      BY <1>2 DEF FindProvider
    <2>2. req[r].pc # "idle" /\ req[r].found # "name"
      BY <1>a, <1>2 DEF FindProvider, At, Knows
    <2> QED BY <1>b, <1>c, <2>1, <2>2
  <1>3. CASE UpdateProvider(r)
    BY <1>a, <1>3 DEF UpdateProvider, Answer, At, Request, Kept
  <1>4. CASE FindByEmail(r)
    <2>1. Goto(r, "byName") \/ \E i \in Ids : Found(r, i, "email", "link")
      BY <1>4 DEF FindByEmail, FindByUsernameOrEmail, Existing
    <2>2. req[r].pc # "idle" /\ req[r].found # "name"
      BY <1>a, <1>4 DEF FindByEmail, At, Knows
    <2> QED BY <1>b, <1>c, <2>1, <2>2
  <1>5. CASE FindByName(r)
    <2>1. Goto(r, "count") \/ \E i \in Ids : Found(r, i, "name", "link")
      BY <1>5 DEF FindByName, FindByUsernameOrEmail, Existing
    <2>2. req[r].pc # "idle" /\ req[r].found # "name"
      BY <1>a, <1>5 DEF FindByName, At, Knows
    <2> QED BY <1>b, <1>c, <2>1, <2>2
  <1>6. CASE NumberClientUsers(r)
    <2>1. Cardinality(ClientUsers) + 1 \in Clients
      BY <1>6, CountIsNat, MaxClientsAssumption DEF NumberClientUsers, Clients
    <2> QED BY <1>a, <1>6, <2>1 DEF NumberClientUsers, At, Request, Kept
  <1>7. CASE CreateUserAndProviderUser(r)
    <2>1. \/ Answer(r, "500")
          \/ \E i \in Ids :
                req' = [req EXCEPT ![r].user = i, ![r].pc = "done",
                                   ![r].found = "created", ![r].reply = "ok"]
      BY <1>7 DEF CreateUserAndProviderUser
    <2>2. req[r].pc # "idle" /\ req[r].found # "name"
      BY <1>a, <1>7 DEF CreateUserAndProviderUser, At, Knows
    <2>3. ASSUME NEW i \in Ids,
                 req' = [req EXCEPT ![r].user = i, ![r].pc = "done",
                                    ![r].found = "created", ![r].reply = "ok"]
          PROVE  Kept(r)
      <3>1. req'[r] = [req[r] EXCEPT !.user = i, !.pc = "done",
                                     !.found = "created", !.reply = "ok"]
        BY <1>a, <2>3
      <3>2. req'[r] \in Request /\ req'[r].google = req[r].google
        BY <1>a, <3>1 DEF Request
      <3>3. \A q \in Requests : q # r => req'[q] = req[q]
        BY <1>a, <2>3
      <3>4. req' \in [Requests -> Request]
        BY <1>a, <2>3, <3>2, <3>3
      <3> QED BY <2>2, <3>2, <3>3, <3>4 DEF Kept
    <2> QED BY <1>b, <2>1, <2>2, <2>3
  <1>8. CASE LinkProviderUser(r)
    <2>1. (Answer(r, "500") \/ Answer(r, "ok")) /\ req[r].pc = "link"
      BY <1>8 DEF LinkProviderUser, At
    <2> QED BY <1>b, <2>1
  <1>9. CASE Abort(r)
    BY <1>a, <1>9 DEF Abort, Request, Kept
  <1> QED BY <1>1, <1>2, <1>3, <1>4, <1>5, <1>6, <1>7, <1>8, <1>9
          DEF Step, Continue

(* The step that creates a user and his link, and the one that adds a link.*)
Creates(r, i) ==
    /\ i \in Ids \ Existing
    /\ req[r].pc = "create" /\ req[r].google # None
    /\ req[r].client # None /\ req[r].client \notin NamesInUse
    /\ profile[req[r].google].email \notin EmailsInUse
    /\ user' = [user EXCEPT ![i] = [name |-> req[r].client,
                                   email |-> profile[req[r].google].email]]
    /\ link' = [link EXCEPT ![i] = req[r].google]
    /\ req'[r].user = i /\ req'[r].pc = "done"

Links(r) ==
    /\ req[r].pc = "link" /\ link[req[r].user] = None
    /\ user' = user
    /\ link' = [link EXCEPT ![req[r].user] = req[r].google]
    /\ req'[r].user = req[r].user /\ req'[r].pc = "done"

(* A request leaves the tables, creates one user with a link, or links one.*)
LEMMA TablesStep ==
  ASSUME IInv, NEW r \in Requests, Step(r)
  PROVE  /\ UNCHANGED <<profile, chosen>>
         /\ \/ UNCHANGED <<user, link>>
            \/ \E i \in Ids : Creates(r, i)
            \/ Links(r)
  <1>a. req \in [Requests -> Request] /\ Knows(req[r])
    BY DEF IInv, TypeOK, KnowsOK
  <1>1. CASE CreateUserAndProviderUser(r)
    <2>1. req[r].client # None /\ req[r].google # None
      BY <1>a, <1>1 DEF CreateUserAndProviderUser, At, Knows
    <2>2. CASE Answer(r, "500") /\ UNCHANGED <<user, link>>
      BY <1>1, <2>2 DEF CreateUserAndProviderUser
    <2>3. ASSUME NEW i \in Ids \ Existing,
                 req' = [req EXCEPT ![r].user = i, ![r].pc = "done",
                                    ![r].found = "created", ![r].reply = "ok"]
          PROVE  req'[r].user = i /\ req'[r].pc = "done"
      BY <1>a, <2>3 DEF Request
    <2> QED BY <1>1, <2>1, <2>2, <2>3
            DEF CreateUserAndProviderUser, Creates, At
  <1>2. CASE LinkProviderUser(r)
    BY <1>a, <1>2 DEF LinkProviderUser, Links, Answer, At, Request
  <1> QED BY <1>1, <1>2
    DEF Step, Continue, GoogleLogin, FindProvider, UpdateProvider,
        FindByEmail, FindByName, NumberClientUsers, Abort

(* Users are never deleted, and neither their e-mails nor their links      *)
(* change.                                                                 *)
Stable ==
    /\ profile' = profile
    /\ \A i \in Existing : user'[i] # None /\ user'[i].email = user[i].email
    /\ \A i \in Ids : link[i] # None => link'[i] = link[i]

(* Every step keeps the types and the stable columns, and adds at most one *)
(* user, under an e-mail nobody has.                                       *)
LEMMA TablesStay ==
  ASSUME IInv, NEW r \in Requests, Step(r)
  PROVE  /\ TypeOK' /\ Stable
         /\ \A i, j \in Existing' : user'[i].email = user'[j].email => i = j
         /\ \E k \in Ids \cup {None} : Existing' \subseteq Existing \cup {k}
  <1> USE DEF IInv
  <1>a. /\ profile \in [GoogleIds -> [name: DisplayNames, email: Emails]]
        /\ user \in [Ids -> Row \cup {None}]
        /\ link \in [Ids -> GoogleIds \cup {None}] /\ chosen \in BOOLEAN
        /\ req[r] \in Request /\ Knows(req[r])
    BY DEF TypeOK, KnowsOK
  <1>b. req' \in [Requests -> Request] /\ UNCHANGED <<profile, chosen>>
    BY RequestKept, TablesStep DEF Kept
  <1>c. None \notin Row
    BY NoneAssumption DEF Row, AnyName, Clients
  <1>1. CASE UNCHANGED <<user, link>>
    <2>1. Existing' = Existing
      BY <1>1 DEF Existing
    <2> QED BY <1>a, <1>b, <1>1, <2>1 DEF TypeOK, Stable, Existing, EmailsAreUnique
  <1>2. ASSUME NEW k \in Ids, Creates(r, k)
        PROVE  /\ TypeOK' /\ Stable
               /\ \A i, j \in Existing' : user'[i].email = user'[j].email => i = j
               /\ Existing' \subseteq Existing \cup {k}
    <2>1. req[r].google \in GoogleIds /\ req[r].client \in Clients
      BY <1>a, <1>2 DEF Creates, Request
    <2> DEFINE row == [name |-> req[r].client,
                       email |-> profile[req[r].google].email]
    <2>2. row \in Row /\ row.email \notin EmailsInUse
      BY <1>a, <1>2, <2>1 DEF Row, AnyName, Creates
    <2> HIDE DEF row
    <2>3. user' = [user EXCEPT ![k] = row] /\ user[k] = None
      BY <1>2 DEF Creates, row, Existing
    <2>4. link' = [link EXCEPT ![k] = req[r].google] /\ link[k] = None
      BY <1>2, <2>3 DEF Creates, LinksAreExplained
    <2>5. TypeOK'
      BY <1>a, <1>b, <2>1, <2>2, <2>3, <2>4 DEF TypeOK
    <2>6. Existing' \subseteq Existing \cup {k}
      BY <1>a, <2>3 DEF Existing
    <2>7. \A i \in Existing : user'[i] = user[i] /\ user[i] # None
      BY <1>a, <2>3 DEF Existing
    <2>8. Stable
      BY <1>a, <1>b, <2>4, <2>7 DEF Stable
    <2>9. \A i \in Existing : user'[i].email # user'[k].email
      BY <1>a, <2>2, <2>3, <2>7 DEF EmailsInUse
    <2> QED BY <2>5, <2>6, <2>7, <2>8, <2>9 DEF EmailsAreUnique
  <1>3. CASE Links(r)
    <2>1. Existing' = Existing
      BY <1>3 DEF Links, Existing
    <2>2. req[r].google \in GoogleIds
      BY <1>a, <1>3 DEF Links, Knows, Request
    <2>3. TypeOK'
      BY <1>a, <1>b, <1>3, <2>2 DEF Links, TypeOK
    <2>4. \A i \in Ids : link[i] # None => link'[i] = link[i]
      BY <1>a, <1>3 DEF Links
    <2> QED BY <1>b, <1>3, <2>1, <2>3, <2>4
            DEF Links, Stable, Existing, EmailsAreUnique
  <1> QED BY <1>1, <1>2, <1>3, TablesStep

-----------------------------------------------------------------------------
(* What a request has learnt outlasts the steps of others.                 *)
LEMMA KnowsStays ==
  ASSUME IInv, Stable, NEW q \in Requests, req'[q] = req[q]
  PROVE  Knows(req[q])'
  <1>a. req[q] \in Request /\ Knows(req[q])
    BY DEF IInv, TypeOK, KnowsOK
  <1>1. req[q].user # None /\ user[req[q].user] # None =>
           /\ user'[req[q].user] # None
           /\ user'[req[q].user].email = user[req[q].user].email
    BY <1>a DEF Stable, Existing, Request
  <1>2. req[q].user # None /\ link[req[q].user] = req[q].google
        /\ req[q].google # None => link'[req[q].user] = req[q].google
    BY <1>a DEF Stable, Request
  <1> QED BY <1>a, <1>1, <1>2 DEF Knows, Stable

(* A request learns what it knows by its own steps.                        *)
LEMMA OwnKnows ==
  ASSUME IInv, NEW r \in Requests, Step(r)
  PROVE  Knows(req[r])'
  <1> USE DEF IInv
  <1>a. req \in [Requests -> Request] /\ req[r] \in Request /\ Knows(req[r])
    BY DEF TypeOK, KnowsOK
  <1>1. ASSUME NEW g \in GoogleIds, GoogleLogin(r, g) PROVE Knows(req[r])'
    <2>1. PICK pc \in {"findProvider", "done"},
               reply \in {"none", "401", "403", "500"} :
            req' = [req EXCEPT ![r] =
                      [google |-> g, pc |-> pc, reply |-> reply, user |-> None,
                       found |-> "no", client |-> None]]
      BY <1>1 DEF GoogleLogin, Waiting
    <2>2. g # None
      BY NoneAssumption
    <2> QED BY <1>a, <2>1, <2>2 DEF Knows
  <1>2. CASE FindProvider(r)
    <2>1. CASE Goto(r, "byEmail")
      BY <1>a, <1>2, <2>1 DEF FindProvider, At, Goto, Request, Knows
    <2>2. ASSUME NEW i \in Ids, link[i] = req[r].google,
                 Found(r, i, "provider", "update")
          PROVE  Knows(req[r])'
      <3>1. /\ req'[r].user = i /\ req'[r].pc = "update"
            /\ req'[r].found = "provider" /\ req'[r].google = req[r].google
            /\ req'[r].reply = "none" /\ req[r].google # None
        BY <1>a, <1>2, <2>2 DEF FindProvider, At, Found, Request, Knows
      <3>2. i # None /\ user[i] # None
        BY <2>2, <3>1, NoneAssumption DEF LinksAreExplained
      <3> QED BY <1>2, <2>2, <3>1, <3>2 DEF FindProvider, Knows
    <2> QED BY <1>2, <2>1, <2>2 DEF FindProvider
  <1>3. CASE UpdateProvider(r)
    BY <1>a, <1>3 DEF UpdateProvider, Answer, At, Request, Knows
  <1>4. CASE FindByEmail(r)
    <2>1. CASE Goto(r, "byName")
      BY <1>a, <1>4, <2>1 DEF FindByEmail, At, Goto, Request, Knows
    <2>2. ASSUME NEW i \in FindByUsernameOrEmail(profile[req[r].google].email),
                 Found(r, i, "email", "link")
          PROVE  Knows(req[r])'
      <3>1. /\ req'[r].user = i /\ req'[r].pc = "link"
            /\ req'[r].found = "email" /\ req'[r].google = req[r].google
            /\ req'[r].reply = "none" /\ req[r].google # None
        BY <1>a, <1>4, <2>2 DEF FindByEmail, At, Found, Request, Knows
      <3>2. /\ i # None /\ user[i] # None
            /\ user[i].email = profile[req[r].google].email
        <4>1. i \in Ids /\ user[i] # None /\ user[i] \in Row
          BY <2>2 DEF FindByUsernameOrEmail, Existing, TypeOK
        <4>2. profile[req[r].google].email \in Emails
          BY <1>a, <3>1 DEF TypeOK, Request
        <4>3. user[i].name \in Names \cup Prefixed \cup Nat
          BY <4>1 DEF Row, AnyName, Clients
        <4>4. user[i].name # profile[req[r].google].email
          BY <4>2, <4>3, NamesAssumption
        <4> QED BY <2>2, <4>1, <4>4, NoneAssumption DEF FindByUsernameOrEmail
      <3> QED BY <1>4, <3>1, <3>2 DEF FindByEmail, Knows
    <2> QED BY <1>4, <2>1, <2>2 DEF FindByEmail
  <1>5. CASE FindByName(r)
    <2>1. CASE Goto(r, "count")
      BY <1>a, <1>5, <2>1 DEF FindByName, At, Goto, Request, Knows
    <2>2. ASSUME NEW i \in FindByUsernameOrEmail(profile[req[r].google].name),
                 Found(r, i, "name", "link")
          PROVE  Knows(req[r])'
      <3>1. /\ req'[r].user = i /\ req'[r].pc = "link"
            /\ req'[r].found = "name" /\ req'[r].google = req[r].google
            /\ req'[r].reply = "none" /\ req[r].google # None
        BY <1>a, <1>5, <2>2 DEF FindByName, At, Found, Request, Knows
      <3>2. i # None /\ user[i] # None
        BY <2>2, NoneAssumption DEF FindByUsernameOrEmail, Existing
      <3> QED BY <1>5, <3>1, <3>2 DEF FindByName, Knows
    <2> QED BY <1>5, <2>1, <2>2 DEF FindByName
  <1>6. CASE NumberClientUsers(r)
    <2>1. /\ req'[r].client = Cardinality(ClientUsers) + 1
          /\ req'[r].pc = "create" /\ req'[r].found = req[r].found
          /\ req'[r].reply = "none" /\ req'[r].google = req[r].google
          /\ req[r].google # None /\ req[r].found # "name"
      BY <1>a, <1>6 DEF NumberClientUsers, At, Request, Knows
    <2>2. Cardinality(ClientUsers) + 1 # None
      BY CountIsNat, NoneAssumption
    <2> QED BY <2>1, <2>2 DEF Knows
  <1>7. CASE CreateUserAndProviderUser(r)
    <2>0. req[r].google # None
      BY <1>a, <1>7 DEF CreateUserAndProviderUser, At, Knows
    <2>1. CASE Answer(r, "500")
      <3>1. /\ req'[r].pc = "done" /\ req'[r].reply = "500"
            /\ req'[r].google = req[r].google
        BY <1>a, <2>1 DEF Answer, Request
      <3> QED BY <2>0, <3>1 DEF Knows
    <2>2. ASSUME NEW i \in Ids, link' = [link EXCEPT ![i] = req[r].google],
                 req' = [req EXCEPT ![r].user = i, ![r].pc = "done",
                                    ![r].found = "created", ![r].reply = "ok"]
          PROVE  Knows(req[r])'
      <3>1. /\ req'[r].pc = "done" /\ req'[r].found = "created"
            /\ req'[r].user = i /\ req'[r].google = req[r].google
        BY <1>a, <2>2 DEF Request
      <3>2. link'[i] = req[r].google /\ i # None
        BY <2>2, NoneAssumption DEF TypeOK
      <3> QED BY <2>0, <3>1, <3>2 DEF Knows
    <2> QED BY <1>7, <2>1, <2>2 DEF CreateUserAndProviderUser
  <1>8. CASE LinkProviderUser(r)
    <2>1. /\ req[r].pc = "link" /\ req[r].user \in Ids /\ req[r].user # None
          /\ req[r].google # None
      BY <1>a, <1>8 DEF LinkProviderUser, At, Knows, Request
    <2>2. /\ req'[r].pc = "done" /\ req'[r].user = req[r].user
          /\ req'[r].google = req[r].google
          /\ req'[r].reply = "ok" => link'[req[r].user] = req[r].google
      BY <1>a, <1>8, <2>1 DEF LinkProviderUser, Answer, Request, TypeOK
    <2> QED BY <2>1, <2>2 DEF Knows
  <1>9. CASE Abort(r)
    <2>1. /\ req'[r].pc = req[r].pc /\ req'[r].user = req[r].user
          /\ req'[r].google = req[r].google /\ req'[r].found = req[r].found
          /\ req'[r].client = req[r].client /\ req'[r].reply = "lost"
          /\ req[r].pc # "idle" /\ UNCHANGED <<profile, user, link>>
      BY <1>a, <1>9 DEF Abort, Request
    <2> QED BY <1>a, <2>1 DEF Knows
  <1> QED BY <1>1, <1>2, <1>3, <1>4, <1>5, <1>6, <1>7, <1>8, <1>9
          DEF Step, Continue

-----------------------------------------------------------------------------
(* A look-up by display name, once made, stays part of the history.        *)
LEMMA NamedStays ==
  ASSUME IInv, NEW r \in Requests, Step(r), NEW g, NamedBy(g)
  PROVE  NamedBy(g)'
  <1>1. PICK q \in Requests : req[q].google = g /\ req[q].found = "name"
    BY DEF NamedBy
  <1>2. req[q].pc # "idle"
    BY <1>1 DEF IInv, KnowsOK, Knows
  <1>3. req'[q].google = g /\ req'[q].found = "name"
    BY <1>1, <1>2, RequestKept DEF Kept
  <1> QED BY <1>3 DEF NamedBy

(* A link is made for a user of the account's e-mail, or for one found by  *)
(* name.                                                                   *)
LEMMA ExplainedStep ==
  ASSUME IInv, NEW r \in Requests, Step(r)
  PROVE  LinksAreExplained'
  <1> USE DEF IInv
  <1>a. /\ user \in [Ids -> Row \cup {None}]
        /\ link \in [Ids -> GoogleIds \cup {None}]
        /\ req[r] \in Request /\ Knows(req[r]) /\ profile' = profile
    BY TablesStep DEF TypeOK, KnowsOK
  <1> SUFFICES ASSUME NEW i \in Ids, NEW g, g = link'[i], g # None
               PROVE  /\ user'[i] # None
                      /\ user'[i].email = profile[g].email \/ NamedBy(g)'
    BY <1>a DEF LinksAreExplained, NamedBy
  <1>1. CASE link[i] # None
    <2>1. /\ g = link[i] /\ user[i] # None
          /\ user'[i] # None /\ user'[i].email = user[i].email
      BY <1>1, TablesStay DEF Stable, LinksAreExplained, Existing
    <2>2. user[i].email = profile[g].email \/ NamedBy(g)
      BY <2>1 DEF LinksAreExplained
    <2> QED BY <2>1, <2>2, NamedStays
  <1>2. CASE link[i] = None
    <2>1. CASE Creates(r, i)
      <3>1. /\ user'[i] = [name |-> req[r].client,
                           email |-> profile[req[r].google].email]
            /\ g = req[r].google
        BY <1>a, <2>1 DEF Creates
      <3>2. user'[i] # None
        BY <1>a, <3>1, <2>1, TablesStay, NoneAssumption
        DEF Creates, TypeOK, Row, AnyName, Clients, Request
      <3> QED BY <3>1, <3>2
    <2>2. CASE Links(r) /\ req[r].user = i
      <3>1. /\ g = req[r].google /\ user'[i] = user[i] /\ user[i] # None
            /\ req[r].pc = "link"
        BY <1>a, <2>2 DEF Links, Knows
      <3>2. CASE req[r].found = "name"
        <4>1. NamedBy(g)
          BY <3>1, <3>2 DEF NamedBy
        <4> QED BY <3>1, <4>1, NamedStays
      <3>3. CASE req[r].found # "name"
        BY <1>a, <2>2, <3>1, <3>3 DEF Knows
      <3> QED BY <3>1, <3>2, <3>3
    <2>3. Creates(r, i) \/ (Links(r) /\ req[r].user = i)
      <3>1. link'[i] # link[i]
        BY <1>2
      <3>2. CASE Links(r)
        BY <1>a, <3>1, <3>2 DEF Links
      <3>3. ASSUME NEW k \in Ids, Creates(r, k) PROVE k = i
        BY <1>a, <3>1, <3>3 DEF Creates
      <3> QED BY <3>1, <3>2, <3>3, TablesStep
    <2> QED BY <2>1, <2>2, <2>3
  <1> QED BY <1>1, <1>2

(* A step adds one user at most.                                           *)
LEMMA StaysFinite ==
  ASSUME IsFiniteSet(Existing), NEW k, Existing' \subseteq Existing \cup {k}
  PROVE  IsFiniteSet(Existing)'
  <1>1. IsFiniteSet(Existing \cup {k})
    BY FS_AddElement
  <1> QED BY <1>1, FS_Subset

(* The inductive invariant holds of empty tables.                          *)
LEMMA InitIInv == Init => IInv
  <1> SUFFICES ASSUME Init PROVE IInv
    OBVIOUS
  <1>1. Existing = {} /\ \A r \in Requests : req[r] = Waiting
    BY DEF Init, Existing
  <1>2. TypeOK
    BY DEF Init, TypeOK, Request, Waiting
  <1>3. KnowsOK
    BY <1>1 DEF KnowsOK, Knows, Waiting
  <1>4. EmailsAreUnique /\ LinksAreExplained
    BY <1>1 DEF Init, EmailsAreUnique, LinksAreExplained
  <1>5. IsFiniteSet(Existing)
    BY <1>1, FS_EmptySet
  <1> QED BY <1>2, <1>3, <1>4, <1>5 DEF IInv

(* Every step preserves the inductive invariant, and the links there are.  *)
LEMMA NextIInv ==
  ASSUME IInv, [Next]_vars
  PROVE  IInv' /\ \A i \in Ids : link[i] # None => link'[i] = link[i]
  <1>1. ASSUME NEW r \in Requests, Step(r)
        PROVE  IInv' /\ \A i \in Ids : link[i] # None => link'[i] = link[i]
    <2>1. Stable
      BY <1>1, TablesStay
    <2>2. KnowsOK'
      <3>1. ASSUME NEW q \in Requests PROVE Knows(req[q])'
        <4>1. CASE q = r
          BY <1>1, <4>1, OwnKnows
        <4>2. CASE q # r
          <5>1. req'[q] = req[q]
            BY <1>1, <4>2, RequestKept DEF Kept
          <5> QED BY <2>1, <5>1, KnowsStays
        <4> QED BY <4>1, <4>2
      <3> QED BY <3>1 DEF KnowsOK
    <2>3. IsFiniteSet(Existing)'
      BY <1>1, TablesStay, StaysFinite DEF IInv
    <2>4. EmailsAreUnique' /\ TypeOK'
      BY <1>1, TablesStay DEF EmailsAreUnique
    <2>5. LinksAreExplained'
      BY <1>1, ExplainedStep
    <2> QED BY <2>1, <2>2, <2>3, <2>4, <2>5 DEF IInv, Stable
  <1>2. CASE Others
    <2>1. Stable /\ UNCHANGED <<profile, link, req>>
      BY <1>2, OthersStep DEF Stable
    <2>2. KnowsOK'
      BY <2>1, KnowsStays DEF KnowsOK
    <2>3. IsFiniteSet(Existing)'
      BY <1>2, OthersStep, StaysFinite DEF IInv
    <2>4. EmailsAreUnique' /\ TypeOK'
      BY <1>2, OthersStep DEF EmailsAreUnique
    <2>5. LinksAreExplained'
      BY <2>1 DEF IInv, LinksAreExplained, NamedBy, Stable, Existing
    <2> QED BY <2>1, <2>2, <2>3, <2>4, <2>5 DEF IInv
  <1>3. CASE UNCHANGED vars
    BY <1>3 DEF vars, IInv, TypeOK, Existing, KnowsOK, Knows, EmailsAreUnique,
       LinksAreExplained, NamedBy
  <1> QED BY <1>1, <1>2, <1>3, NextIsStep

(* The inductive invariant holds of every behaviour of the logins.         *)
THEOREM Inductive == Spec => []IInv
  <1>1. IInv /\ [Next]_vars => IInv'
    BY NextIInv
  <1> QED BY <1>1, InitIInv, PTL DEF Spec

(* Every variable keeps its type in every step of ProviderLogin.           *)
THEOREM TypeCorrect == Spec => []TypeOK
  <1>1. IInv => TypeOK
    BY DEF IInv
  <1> QED BY <1>1, Inductive, PTL

(* However many logins interleave, one that is answered with tokens opened *)
(* the user its Google account is linked to (BaseProvideLoginUseCase).     *)
THEOREM LoginsOpenLinkedUsers == Spec => []LoginsAreLinked
  <1>1. IInv => LoginsAreLinked
    BY DEF IInv, KnowsOK, Knows, LoginsAreLinked
  <1> QED BY <1>1, Inductive, PTL

(* No login replaces the Google account of a user (linkProviderUser).      *)
THEOREM LinksLast == Spec => LinksAreFinal
  <1> DEFINE A == \A i \in Ids : link[i] # None => link'[i] = link[i]
  <1>1. IInv /\ [Next]_vars => [A]_vars
    BY NextIInv
  <1> QED BY <1>1, Inductive, PTL DEF Spec, LinksAreFinal

(* One Google account opens two users only after a look-up by display name *)
(* (LinkProviderUserToExistingUser).                                       *)
THEOREM SplitsAreByName == Spec => []SplitOnlyByName
  <1>1. ASSUME IInv PROVE SplitOnlyByName
    <2> SUFFICES ASSUME NEW i \in Ids, NEW j \in Ids, i # j,
                        link[i] # None, link[i] = link[j]
                 PROVE  NamedBy(link[i])
      BY DEF SplitOnlyByName, NamedBy
    <2>1. i \in Existing /\ j \in Existing
      BY <1>1 DEF IInv, LinksAreExplained, Existing
    <2> QED BY <1>1, <2>1 DEF IInv, LinksAreExplained, EmailsAreUnique
  <1> QED BY <1>1, Inductive, PTL

-----------------------------------------------------------------------------
(* The names client<N> have no gaps, and a request that has counted them   *)
(* has counted no further than there are.                                  *)
Counted == {user[i].name : i \in ClientUsers}

DenseInv ==
    ~chosen =>
       /\ Counted = 1..Cardinality(ClientUsers)
       /\ \A r \in Requests : req[r].pc = "create" =>
             req[r].client \in 1..(Cardinality(ClientUsers) + 1)

(* A request that creates a user takes the next number.                    *)
LEMMA DenseCreation ==
  ASSUME IInv, DenseInv, ~chosen, NEW r \in Requests, Step(r),
         NEW k \in Ids, Creates(r, k)
  PROVE  /\ Counted' = 1..Cardinality(ClientUsers)'
         /\ Cardinality(ClientUsers)' = Cardinality(ClientUsers) + 1
  <1> DEFINE N == Cardinality(ClientUsers)
  <1>a. user \in [Ids -> Row \cup {None}]
    BY DEF IInv, TypeOK
  <1>1. N \in Nat /\ IsFiniteSet(ClientUsers)
    <2>1. ClientUsers \subseteq Existing
      BY DEF ClientUsers
    <2> QED BY <2>1, CountIsNat, FS_Subset DEF IInv
  <1>2. Counted = 1..N /\ req[r].client \in 1..(N + 1)
    BY DEF DenseInv, Creates
  <1>3. req[r].client = N + 1
    <2>1. req[r].client \notin Counted
      BY DEF Creates, NamesInUse, Counted, ClientUsers
    <2> QED BY <1>1, <1>2, <2>1
  <1>4. /\ k \notin ClientUsers /\ user'[k].name = N + 1 /\ user'[k] # None
        /\ \A i \in Ids : i # k => user'[i] = user[i]
    <2>1. user'[k] = [name |-> req[r].client,
                      email |-> profile[req[r].google].email]
      BY <1>a DEF Creates
    <2>2. user'[k] # None
      <3>1. user'[k] \in Row \cup {None} /\ k \notin Existing
        BY TablesStay DEF TypeOK, Creates
      <3>2. profile[req[r].google].email \in Emails
        BY DEF IInv, TypeOK, Request, Creates
      <3> QED BY <1>1, <1>3, <2>1, <3>2, NoneAssumption
    <2> QED BY <1>a, <1>3, <2>1, <2>2 DEF Creates, ClientUsers
  <1>5. ClientUsers' = ClientUsers \cup {k}
    BY <1>1, <1>4 DEF ClientUsers, Existing, StartsWithClient
  <1>6. Cardinality(ClientUsers)' = N + 1
    BY <1>1, <1>4, <1>5, FS_AddElement
  <1>7. Counted' = Counted \cup {N + 1}
    <2>1. \A i \in ClientUsers : user'[i].name = user[i].name
      BY <1>4 DEF ClientUsers, Existing
    <2>2. Counted' = {user'[i].name : i \in ClientUsers \cup {k}}
      BY <1>5 DEF Counted
    <2> QED BY <1>4, <2>1, <2>2 DEF Counted
  <1> QED BY <1>1, <1>2, <1>6, <1>7

(* A request comes to create by counting only.                             *)
LEMMA CountsStep ==
  ASSUME IInv, NEW r \in Requests, Step(r), req'[r].pc = "create"
  PROVE  /\ UNCHANGED user
         /\ \/ req'[r].client = Cardinality(ClientUsers) + 1
            \/ req[r].pc = "create" /\ req'[r].client = req[r].client
  <1>a. req \in [Requests -> Request]
    BY DEF IInv, TypeOK
  <1>1. CASE NumberClientUsers(r)
    BY <1>a, <1>1 DEF NumberClientUsers, Request
  <1>2. CASE Abort(r)
    BY <1>a, <1>2 DEF Abort, Request
  <1>3. CASE \E g \in GoogleIds : GoogleLogin(r, g)
    BY <1>a, <1>3 DEF GoogleLogin, Waiting
  <1>4. CASE FindProvider(r) \/ FindByEmail(r) \/ FindByName(r)
    <2>1. \/ \E x \in {"byEmail", "byName", "count"} : Goto(r, x)
          \/ \E i, how : \E x \in {"update", "link"} : Found(r, i, how, x)
      BY <1>4 DEF FindProvider, FindByEmail, FindByName
    <2>2. ASSUME NEW x, Goto(r, x) PROVE req'[r].pc = x
      BY <1>a, <2>2 DEF Goto, Request
    <2>3. ASSUME NEW i, NEW how, NEW x, Found(r, i, how, x) PROVE req'[r].pc = x
      BY <1>a, <2>3 DEF Found, Request
    <2> QED BY <2>1, <2>2, <2>3
  <1>5. CASE UpdateProvider(r) \/ LinkProviderUser(r)
    BY <1>a, <1>5 DEF UpdateProvider, LinkProviderUser, Answer, Request
  <1>6. CASE CreateUserAndProviderUser(r)
    <2>1. ~Answer(r, "500")
      BY <1>a DEF Answer, Request
    <2>2. ASSUME NEW i,
                 req' = [req EXCEPT ![r].user = i, ![r].pc = "done",
                                    ![r].found = "created", ![r].reply = "ok"]
          PROVE  req'[r].pc = "done"
      BY <1>a, <2>2 DEF Request
    <2> QED BY <1>6, <2>1, <2>2 DEF CreateUserAndProviderUser
  <1> QED BY <1>1, <1>2, <1>3, <1>4, <1>5, <1>6 DEF Step, Continue

(* Every step keeps the names without gaps.                                *)
LEMMA NextDense == IInv /\ DenseInv /\ [Next]_vars => DenseInv'
  <1> SUFFICES ASSUME IInv, DenseInv, [Next]_vars PROVE DenseInv'
    OBVIOUS
  <1>a. Cardinality(ClientUsers) \in Nat
    BY CountIsNat
  <1>1. ASSUME NEW r \in Requests, Step(r), ~chosen' PROVE DenseInv'
    <2>1. ~chosen
      BY <1>1, TablesStep
    <2>2. CASE \E k \in Ids : Creates(r, k)
      <3>1. /\ Counted' = 1..Cardinality(ClientUsers)'
            /\ Cardinality(ClientUsers)' = Cardinality(ClientUsers) + 1
            /\ req'[r].pc = "done"
        BY <1>1, <2>1, <2>2, DenseCreation DEF Creates
      <3>2. \A q \in Requests : q # r => req'[q] = req[q]
        BY <1>1, RequestKept DEF Kept
      <3> QED BY <1>a, <2>1, <3>1, <3>2 DEF DenseInv
    <2>3. CASE UNCHANGED user
      <3>1. ClientUsers' = ClientUsers /\ Counted' = Counted
        BY <2>3 DEF ClientUsers, Existing, Counted
      <3>2. \A q \in Requests : q # r => req'[q] = req[q]
        BY <1>1, RequestKept DEF Kept
      <3>3. req'[r].pc = "create" =>
               req'[r].client \in 1..(Cardinality(ClientUsers) + 1)
        BY <1>a, <1>1, <2>1, CountsStep DEF DenseInv
      <3> QED BY <2>1, <3>1, <3>2, <3>3 DEF DenseInv
    <2> QED BY <1>1, <2>2, <2>3, TablesStep DEF Links
  <1>2. ASSUME Others, ~chosen' PROVE DenseInv'
    <2>0. user \in [Ids -> Row \cup {None}] /\ UNCHANGED req
      BY <1>2, OthersStep DEF IInv, TypeOK
    <2>1. /\ ~chosen
          /\ \A i \in Ids : user'[i] # user[i] =>
                /\ user[i] # None => ~StartsWithClient(user[i].name)
                /\ user'[i] # None => ~StartsWithClient(user'[i].name)
      <3>1. ASSUME NEW n \in AnyName, NEW e \in Emails, Register(n, e)
            PROVE  /\ ~chosen
                   /\ \A i \in Ids : user'[i] # user[i] =>
                         /\ user[i] # None => ~StartsWithClient(user[i].name)
                         /\ user'[i] # None => ~StartsWithClient(user'[i].name)
        <4>1. ~chosen /\ ~StartsWithClient(n)
          BY <1>2, <3>1 DEF Register
        <4>2. PICK k \in Ids \ Existing :
                 user' = [user EXCEPT ![k] = [name |-> n, email |-> e]]
          BY <3>1 DEF Register
        <4>3. user'[k].name = n /\ user[k] = None
          BY <2>0, <4>2 DEF Existing
        <4>4. \A i \in Ids : i # k => user'[i] = user[i]
          BY <2>0, <4>2
        <4> QED BY <4>1, <4>3, <4>4
      <3>2. ASSUME NEW k \in Ids, NEW n \in AnyName, Rename(k, n)
            PROVE  /\ ~chosen
                   /\ \A i \in Ids : user'[i] # user[i] =>
                         /\ user[i] # None => ~StartsWithClient(user[i].name)
                         /\ user'[i] # None => ~StartsWithClient(user'[i].name)
        <4>1. /\ ~chosen /\ ~StartsWithClient(n) /\ ~StartsWithClient(user[k].name)
              /\ user[k] \in Row
          BY <1>2, <2>0, <3>2 DEF Rename
        <4>2. \A i \in Ids : i # k => user'[i] = user[i]
          BY <2>0, <3>2 DEF Rename
        <4>3. user'[k] = [user[k] EXCEPT !.name = n]
          BY <2>0, <3>2 DEF Rename
        <4>4. user'[k].name = n
          BY <4>1, <4>3 DEF Row
        <4> QED BY <4>1, <4>2, <4>4
      <3> QED BY <1>2, <3>1, <3>2 DEF Others
    <2>2. ClientUsers' = ClientUsers
      BY <2>1 DEF ClientUsers, Existing
    <2>3. Counted' = Counted
      BY <2>1, <2>2 DEF Counted, ClientUsers, Existing
    <2> QED BY <2>0, <2>1, <2>2, <2>3 DEF DenseInv
  <1>3. CASE UNCHANGED vars
    BY <1>3 DEF vars, DenseInv, Counted, ClientUsers, Existing
  <1>4. CASE chosen'
    BY <1>4 DEF DenseInv
  <1> QED BY <1>1, <1>2, <1>3, <1>4, NextIsStep

(* As long as no user picks or leaves a name that starts with "client" by  *)
(* himself, such names are client1 to client<N> without gaps               *)
(* (numberClientUsers).                                                    *)
THEOREM ClientsAreDense == Spec => []ClientNamesAreDense
  <1>1. Init => DenseInv
    <2> SUFFICES ASSUME Init PROVE DenseInv
      OBVIOUS
    <2>1. ClientUsers = {} /\ Counted = {}
      BY DEF Init, ClientUsers, Existing, Counted
    <2>2. \A r \in Requests : req[r].pc = "idle"
      BY DEF Init, Waiting
    <2> QED BY <2>1, <2>2, FS_EmptySet DEF DenseInv
  <1>2. DenseInv => ClientNamesAreDense
    BY DEF DenseInv, ClientNamesAreDense, Counted
  <1> QED BY <1>1, <1>2, NextDense, Inductive, PTL DEF Spec
=============================================================================
