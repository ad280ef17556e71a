---------------------------- MODULE ProviderLogin ----------------------------
(***************************************************************************)
(* Login through Google (features/auth, LinkProviderUserToExistingUser).   *)
(*                                                                         *)
(* A Google account is looked up in UserProvider, then in User by its      *)
(* e-mail and by its display name, and is linked to the user found, or to  *)
(* a new user called client<N>.  Every look-up is a query of its own, so   *)
(* logins, registrations and renamings interleave between them; only the   *)
(* unique indexes of User.name, User.email and UserProvider.userId hold    *)
(* them apart.  The name client<N> is the number N here.                   *)
(***************************************************************************)
EXTENDS Naturals, FiniteSets

CONSTANTS
    Ids,          \* the ids of users
    Emails,
    Names,        \* names that do not start with "client"
    Prefixed,     \* names that do, but are not client<N>
    GoogleIds,    \* Google accounts
    DisplayNames, \* what Google calls its users: anything, a name or an
                  \* e-mail that some user has among it
    MaxClients,   \* bound on the N of client<N>
    Requests,     \* HTTP requests, each served once
    None          \* "no value"

ASSUME MaxClientsAssumption == MaxClients \in Nat
\* No name is an e-mail: see LookupsFindTheOwner of module Forms.
ASSUME NamesAssumption ==
    /\ (Names \cup Prefixed) \cap Nat = {}
    /\ Emails \cap (Names \cup Prefixed \cup Nat) = {}
ASSUME NoneAssumption ==
    /\ None \notin Ids \cup Emails \cup Names \cup Prefixed \cup GoogleIds \cup Nat
    /\ None \notin [name: Names \cup Prefixed \cup Nat, email: Emails]

VARIABLES
    profile,   \* e-mail and display name of each Google account
    user,      \* User
    link,      \* UserProvider, by its unique userId
    chosen,    \* whether a user has ever taken or left a name that starts
               \* with "client"
    req        \* the requests

vars == <<profile, user, link, chosen, req>>

Clients == 1..MaxClients

AnyName == Names \cup Prefixed \cup Clients

Row == [name: AnyName, email: Emails]

Request ==
    [google: GoogleIds \cup {None},
     pc: {"idle", "findProvider", "update", "byEmail", "byName", "count",
          "create", "link", "done"},
     reply: {"none", "ok", "401", "403", "500", "lost"},
     user: Ids \cup {None},        \* the user it found, or created
     found: {"no", "provider", "email", "name", "created"},
     client: Clients \cup {None}]  \* the name it counted out

Waiting == [google |-> None, pc |-> "idle", reply |-> "none", user |-> None,
            found |-> "no", client |-> None]

Init ==
    /\ profile \in [GoogleIds -> [name: DisplayNames, email: Emails]]
    /\ \A g, h \in GoogleIds : profile[g].email = profile[h].email => g = h
    /\ user = [i \in Ids |-> None]
    /\ link = [i \in Ids |-> None]
    /\ chosen = FALSE
    /\ req = [r \in Requests |-> Waiting]

-----------------------------------------------------------------------------
At(r, label) == req[r].pc = label /\ req[r].reply = "none"

Goto(r, label) == req' = [req EXCEPT ![r].pc = label]

Answer(r, reply) ==
    req' = [req EXCEPT ![r].pc = "done", ![r].reply = reply]

\* The query found user i: the request goes on to label with it.
Found(r, i, how, label) ==
    req' = [req EXCEPT ![r].user = i, ![r].found = how, ![r].pc = label]

Existing == {i \in Ids : user[i] # None}

NamesInUse == {user[i].name : i \in Existing}
EmailsInUse == {user[i].email : i \in Existing}

FindByUsernameOrEmail(x) ==
    {i \in Existing : user[i].name = x \/ user[i].email = x}

StartsWithClient(n) == n \in Prefixed \cup Nat

ClientUsers == {i \in Existing : StartsWithClient(user[i].name)}

-----------------------------------------------------------------------------
(* Steps with a bug, to show what the properties below would catch.        *)

\* The next client's number taken from the number of all users, or the
\* number of the last one.
CountEveryone(r) ==
    /\ At(r, "count")
    /\ Cardinality(Existing) < MaxClients
    /\ req' = [req EXCEPT ![r].pc = "create",
                          ![r].client = Cardinality(Existing) + 1]
    /\ UNCHANGED <<profile, user, link, chosen>>

CountFromZero(r) ==
    /\ At(r, "count")
    /\ req' = [req EXCEPT ![r].pc = "create",
                          ![r].client = Cardinality(ClientUsers)]
    /\ UNCHANGED <<profile, user, link, chosen>>

\* The e-mail left out of the new user.
CreateUserWithoutEmail(r) ==
    /\ At(r, "create")
    /\ req[r].client \notin NamesInUse
    /\ \E i \in Ids \ Existing :
          /\ user' = [user EXCEPT ![i] =
                        [name |-> req[r].client, email |-> None]]
          /\ link' = [link EXCEPT ![i] = req[r].google]
          /\ req' = [req EXCEPT ![r].user = i, ![r].found = "created",
                                ![r].pc = "done", ![r].reply = "ok"]
    /\ UNCHANGED <<profile, chosen>>

\* The link left as it is, or replaced, when the user has one already.
LinkIfAbsent(r) ==
    /\ At(r, "link")
    /\ link' = IF link[req[r].user] # None THEN link
               ELSE [link EXCEPT ![req[r].user] = req[r].google]
    /\ Answer(r, "ok")
    /\ UNCHANGED <<profile, user, chosen>>

UpsertLink(r) ==
    /\ At(r, "link")
    /\ link' = [link EXCEPT ![req[r].user] = req[r].google]
    /\ Answer(r, "ok")
    /\ UNCHANGED <<profile, user, chosen>>

-----------------------------------------------------------------------------
(* GoogleLogin: the code is exchanged for the Google user.  No code is 401,*)
(* refused tokens and an unverified e-mail are 403; a failure of the user  *)
(* query returns the error of the tokens, which is undefined, and a        *)
(* network error has no response to log: both end as 500.                  *)
GoogleLogin(r, g) ==
    /\ At(r, "idle")
    /\ LET q == [Waiting EXCEPT !.google = g]
       IN  \/ req' = [req EXCEPT ![r] = [q EXCEPT !.pc = "findProvider"]]
           \/ \E refusal \in {"401", "403", "500"} :
                 req' = [req EXCEPT ![r] = [q EXCEPT !.pc = "done",
                                                     !.reply = refusal]]
    /\ UNCHANGED <<profile, user, link, chosen>>

FindProvider(r) ==
    /\ At(r, "findProvider")
    /\ LET linked == {i \in Ids : link[i] = req[r].google}
       IN  \/ linked = {} /\ Goto(r, "byEmail")
           \/ \E i \in linked : Found(r, i, "provider", "update")
    /\ UNCHANGED <<profile, user, link, chosen>>

(* The name and e-mail of the UserProvider row are refreshed, which no     *)
(* query reads; then CreateDevice opens a session (module Sessions).       *)
UpdateProvider(r) ==
    /\ At(r, "update")
    /\ Answer(r, "ok")
    /\ UNCHANGED <<profile, user, link, chosen>>

(* LinkProviderUserToExistingUser: by e-mail, then by display name.        *)
FindByEmail(r) ==
    /\ At(r, "byEmail")
    /\ LET owners == FindByUsernameOrEmail(profile[req[r].google].email)
       IN  \/ owners = {} /\ Goto(r, "byName")
           \/ \E i \in owners : Found(r, i, "email", "link")
    /\ UNCHANGED <<profile, user, link, chosen>>

FindByName(r) ==
    /\ At(r, "byName")
    /\ LET owners == FindByUsernameOrEmail(profile[req[r].google].name)
       IN  \/ owners = {} /\ Goto(r, "count")
           \/ \E i \in owners : Found(r, i, "name", "link")
    /\ UNCHANGED <<profile, user, link, chosen>>

(* The number of users whose name starts with "client" makes the next name.*)
NumberClientUsers(r) ==
    /\ At(r, "count")
    /\ Cardinality(ClientUsers) < MaxClients
    /\ req' = [req EXCEPT ![r].pc = "create",
                          ![r].client = Cardinality(ClientUsers) + 1]
    /\ UNCHANGED <<profile, user, link, chosen>>

(* One nested insert of the user and of its provider row.                  *)
CreateUserAndProviderUser(r) ==
    /\ At(r, "create")
    /\ LET email == profile[req[r].google].email
       IN  IF req[r].client \in NamesInUse \/ email \in EmailsInUse
             THEN Answer(r, "500") /\ UNCHANGED <<user, link>>
             ELSE \E i \in Ids \ Existing :
                     /\ user' = [user EXCEPT ![i] =
                                   [name |-> req[r].client, email |-> email]]
                     /\ link' = [link EXCEPT ![i] = req[r].google]
                     /\ req' = [req EXCEPT ![r].user = i, ![r].pc = "done",
                                           ![r].found = "created",
                                           ![r].reply = "ok"]
    /\ UNCHANGED <<profile, chosen>>

LinkProviderUser(r) ==
    /\ At(r, "link")
    /\ IF link[req[r].user] # None
         THEN Answer(r, "500") /\ UNCHANGED link
         ELSE /\ link' = [link EXCEPT ![req[r].user] = req[r].google]
              /\ Answer(r, "ok")
    /\ UNCHANGED <<profile, user, chosen>>

(* Another user registers, or changes his name (module Accounts).          *)
Register(n, e) ==
    /\ n \notin NamesInUse /\ e \notin EmailsInUse
    /\ \E i \in Ids \ Existing :
          user' = [user EXCEPT ![i] = [name |-> n, email |-> e]]
    /\ chosen' = (chosen \/ StartsWithClient(n))
    /\ UNCHANGED <<profile, link, req>>

Rename(i, n) ==
    /\ user[i] # None /\ n \notin NamesInUse
    /\ user' = [user EXCEPT ![i].name = n]
    /\ chosen' = (chosen \/ StartsWithClient(n)
                         \/ StartsWithClient(user[i].name))
    /\ UNCHANGED <<profile, link, req>>

Abort(r) ==
    /\ req[r].pc # "idle" /\ req[r].reply = "none"
    /\ req' = [req EXCEPT ![r].reply = "lost"]
    /\ UNCHANGED <<profile, user, link, chosen>>

Continue(r) ==
    \/ FindProvider(r) \/ UpdateProvider(r)
    \/ FindByEmail(r) \/ FindByName(r)
    \/ NumberClientUsers(r) \/ CreateUserAndProviderUser(r)
    \/ LinkProviderUser(r)

Next ==
    \/ \E r \in Requests : Continue(r) \/ Abort(r)
    \/ \E r \in Requests, g \in GoogleIds : GoogleLogin(r, g)
    \/ \E n \in AnyName, e \in Emails : Register(n, e)
    \/ \E i \in Ids, n \in AnyName : Rename(i, n)

Spec == Init /\ [][Next]_vars

-----------------------------------------------------------------------------
TypeOK ==
    /\ profile \in [GoogleIds -> [name: DisplayNames, email: Emails]]
    /\ user \in [Ids -> Row \cup {None}]
    /\ link \in [Ids -> GoogleIds \cup {None}]
    /\ chosen \in BOOLEAN
    /\ req \in [Requests -> Request]

(* A login that was answered with tokens logged in a user the Google       *)
(* account is linked to, however the look-ups of BaseProvideLoginUseCase   *)
(* and the link interleave with other logins.                              *)
LoginsAreLinked ==
    \A r \in Requests :
       req[r].reply = "ok" => link[req[r].user] = req[r].google

(* A user keeps the Google account he was linked to first: a later login   *)
(* that finds him by e-mail or name fails on the unique userId.            *)
LinksAreFinal ==
    [][\A i \in Ids : link[i] # None => link'[i] = link[i]]_vars

(* A Google account ends up with two users only if a look-up by display    *)
(* name was part of it: the e-mail alone identifies one user, and of two   *)
(* logins that race to create or to link him one fails.                    *)
SplitOnlyByName ==
    \A i, j \in Ids :
       (i # j /\ link[i] # None /\ link[i] = link[j]) =>
          \E r \in Requests : req[r].google = link[i] /\ req[r].found = "name"

(* As long as no user takes or leaves a name that starts with "client" by  *)
(* himself, the names that do are client1 to client<N> without gaps, so    *)
(* that the name a login counts out is free when it counts                 *)
(* (numberClientUsers).                                                    *)
ClientNamesAreDense ==
    ~chosen => {user[i].name : i \in ClientUsers} = 1..Cardinality(ClientUsers)
=============================================================================
