# Verification of the blogger platform

TLA+ models of the inctagram back end: the HTTP gateway
(`apps/inctagram-gateway`, NestJS, CQRS, Prisma over PostgreSQL) and the
upload-files microservice (`apps/inctagram-upload-files`, Mongo and S3), checked
by TLC on small instances; every safety property those runs check is also proved
with TLAPS, for instances of any size.

`PROJECT.json` holds the tables: which lines each definition models (`map`),
the runs, the faults each property is shown to catch (`mutants`), the hazards
of the code, the disagreements found (`findings`), the theorems.

## The system

| component | state it keeps | operations | module |
|---|---|---|---|
| Device sessions (`features/device`, `features/auth`) | table `Device`: one row per session, `lastActiveDate` = `iat` of its refresh token; `User.hashPassword` | login, refresh-token, logout, new-password | `Sessions` |
| Accounts (`features/user`) | tables `User`, `UserRegistrationInfo`; mails on their way | register, confirm, resend code, recover, resend recovery, new password, rename, first Google login | `Accounts` |
| Google login (`features/auth`, `features/user`) | tables `User`, `UserProvider` | look-up, link, create `client<N>` | `ProviderLogin` |
| Avatars and user views (`features/user`) | `User.avatarId` | upload, delete, view | `Avatars` |
| Posts and their views (`features/post`) | tables `Post`, `PostImage` | upload image, create, update, delete, get | `Posts` |
| File service (`inctagram-upload-files`) | Mongo documents, S3 objects | `upload_file`, `delete_file`, `delete_files`, `get_file_url(s)`, `update_owner_id_file` | `FileService` |
| File service adapter (`core/adapters`) | none: an RPC with a 10 s timeout | upload, delete, deleteFiles, updateOwnerId, getFilesInfo | within `Posts`, `Avatars` |
| Mail (`core/email-manager`, `infrastructure`) | none: listeners of events, errors swallowed | three mails | within `Accounts` |
| Input validation (DTOs, decorators, `pipesSetup`) | none: what is stored passed one of several copies of the rules | the forms of registration, new password, login, recovery, profile | `Forms` |
| `AuthService`, guards (`features/auth`) | the `User` row that accounts and sessions share | login, new password, across both components | `Authentication` |
| Filters, configuration, swagger, payments stub | none | | not modelled |

How they interact. Handlers of the gateway share PostgreSQL and nothing else:
every `await` of a query lets another handler run, and only deletions and
creations of posts use a transaction. `Posts` and `Avatars` talk to the file
service by RPC; the gateway may give a call up that the service still serves.
Accounts emit events after a write; listeners send mail without being awaited.
`AuthService.newPassword` is the one handler that works on two components: it
changes the password (Accounts) and deletes the sessions (Device).

What is hard in it: requests that interleave between a look-up and the write it
justified (a token presented twice, two registrations of one e-mail, a post
deleted under an update); two stores written one after the other with no
transaction over both (user and registration info, S3 and Mongo, Mongo and
PostgreSQL); timeouts that leave the other side working; crashes in between;
mails lost or overtaken; the transaction's 5 s against the RPC's 10 s.

What makes each component correct:

- sessions: a token is exchanged once, a closed session stays closed, a
  genuine token is accepted, a new password ends the sessions there were;
- accounts: only the owner of an address confirms it and replaces a password,
  a confirmation is final, codes go to the account they are for;
- Google login: tokens are for a user the Google account is linked to, links
  are final, names handed out are free;
- file service: documents have their objects except where a failure explains
  it, deletions delete what they name and nothing else;
- accounts and sessions together: a session whose password the account no longer
  has is explained by a purge that is missing or came first, and nobody has a
  session by password on an account that its address has not confirmed;
- forms: what one form stores no other form refuses for ever, and a look-up by
  e-mail finds that account alone;
- posts: a deleted post leaves no documents and never comes back, a file goes only
  when somebody deletes a post of his own that lists it (nobody checks that he
  uploaded it: the ids are the client's), answers tell what was committed, every
  request ends;
- avatars: rows and files agree except where a failure explains it, and the file of
  an avatar goes only by a deletion of the user who uploaded it.

## The modules

Each component has one module with its state, one action per step between two
awaits, and its properties at the end. Requests (and RPC messages) are served
once: `req[r]` holds a request's program counter, its locals and its answer, and
stays as history when it is answered, which is what the properties refer to. A
request that is lost (the process dies, or the database refuses a statement)
keeps the program counter it was lost at with the reply `"lost"`; an exception
that nothing handles (which the gateway answers 500) and a crash leave the same
state, so one action, `Abort`, stands for both. In `Posts` they are apart, because
a property is about what a 500 means: `QueryFails` and `CommitFails` are the
exceptions, `Crash` the crash.

- `Sessions`. `Login`, `GoogleLogin`, `PresentToken` (the guards) start a
  request; `FindSession`, `DeleteSession` are DeleteDevice; `SignTokens`,
  `InsertDevice`, `ReplyTokens` are CreateDevice and the answer; `NewPassword`,
  `UpdatePassword`, `PurgeDevices` are new-password; `Tick` is the clock, in
  seconds as the tokens' `iat`. A token is the triple it carries, the password
  hash is the password. `SessionLifecycle` is what sessions promise in the
  abstract: opened once, then exchanged for at most one successor, or closed.
  `SessionsRefinement` reads that status off the table and the requests.
  Theorems in `SessionsProofs`.
- `Accounts`. Both tables are indexed by e-mail, which is unique and never
  changes. `InsertUser` and `InsertInfo` are the two statements of
  `UserRepository.create`; `UpdateConfirmationCode`, `UpdateRecoveryPassword`
  and `Emit` separate the write from the event; `Deliver` is the arrival of a
  mail. Expiry is a set of codes whose date is past. The tables start empty; users
  without a password are made by first Google logins (`GoogleLogin`,
  `CreateUserAndProviderUser`), whose name may be any, since the count it is made
  from may be stale. A Google login is linked to whatever user it finds, confirmed
  or not, with or without registration info, so that every row can be renamed
  (`CanLogIn`). A renaming's record keeps, in `before`, the requests that had
  given the name to another account when it was found free (`TookName`): a history
  field that no step reads, so that `OnlyRacesAnswer500` can ask for a rival that
  came after the look-up. A registration repeated before its confirmation answers
  ok and counts as one. `AccountLifecycle` is what accounts promise in the abstract: made
  once, by a registration or by Google, completed, confirmed for good, only then
  given another password; `AccountsRefinement` reads that off the two tables.
  Theorems in `AccountsProofs`.
- `Authentication` composes `Accounts` and `Sessions` (`Acc == INSTANCE Accounts`,
  `Ses == INSTANCE Sessions` with the password column as its `hash`). A request
  has a record in each. The login guard reads the account and opens a session; a
  new password takes a step of `Accounts`, `SetPassword` (the same statement in
  both), and then the purge of `Sessions`; a Google login opens a session of any
  user there is, or of the one it has just made in `Accounts`. `shown` is a history variable: the
  password a session was opened with, carried over by refreshes. `OwnerExists`
  starts from an account that is registered, confirmed and has asked for a
  recovery code, as three requests of `Accounts` leave it. Theorems in
  `AuthenticationProofs`.
- `ProviderLogin`. Every look-up is an action, since logins, registrations
  and renamings interleave between them. `client<N>` is the number N; `Prefixed`
  are other names that start with `client` (clientele), which are counted too
  (`StartsWithClient`). A display name may be a user name or an e-mail, and is
  looked up as either. The profile Google returns is fixed for an account; the exchange with Google is its
  outcomes 401, 403, 500 or a profile. Theorems in `ProviderLoginProofs`.
- `FileService`. A call goes through the awaits of its use case, and each may
  throw. A document and the object of the same upload share their name, so the two stores
  are two sets of ids. Ids a client makes up are `Foreign`; those that are not
  ObjectIds, on which Mongoose throws, `Malformed`. Theorems in
  `FileServiceProofs`.
- `Posts` and `Avatars` each compose a gateway component with `FileService`
  (`FS == INSTANCE FileService`): sending an RPC is `FS!Receive` in the same
  step, after which the service takes its own steps whether or not the request
  still waits. In `Posts`, `lock` is the row lock of an open transaction.
  The view of a post (`GetPostView`, `GetFilesInfo`) is a request of its own and
  the end of a creation and an update; the view of a user (`GetUserView`,
  `GetFileUrl`) asks for the URL of the avatar that the row had. Theorems in
  `PostsProofs` and `AvatarsProofs`.
- `Forms` is about data, not about interleaving: a request is one step, and a
  text is what the rules see of it (length, classes of characters, spaces at its
  ends, whether it is an e-mail). Each DTO is the set of fields it refuses; the
  handlers around them are those of `Accounts` and `ProviderLogin` in one step.
  Google login makes up any name of `Clients`: which one is the matter of
  `ProviderLogin`.
  `today` is a clock in years, for the age check. Theorems in `FormsProofs`.

What the models leave out of the code they model: validation of images (rejects
before anything happens), the columns of a user's profile other than name and
date of birth, descriptions of posts, addresses and titles of devices, access
tokens (stateless, not tied to sessions), wording of answers and mails.

Operators under the heading "Steps with a bug" are not part of any
specification: each is an action with a plausible fault, and putting it in place
of the action makes TLC report the property it is listed with in `PROJECT.json`.

## The runs

| run | instance | shows |
|---|---|---|
| `sessions` | 1 user, 4 requests, 3 session ids, lifetime 1 of clock 0..1 | `ExchangedOnce`, `LogoutIsFinal`, `NoResurrection`, `TokenMatchesRow`, `NewPasswordEndsSessions`; the handlers implement `SessionLifecycle` |
| `sessions_refused` | 1 user, 3 requests | counterexample: a refused refresh is answered 500 |
| `accounts` | 2 e-mails, names, codes; 1 password; 4 requests | `ConfirmedByOwner`, `HalfAccountsAreExplained`, `CurrentCodesAreMailed`, `OnlyRacesAnswer500`; the handlers implement `AccountLifecycle` |
| `accounts_race` | 1 e-mail, 2 names, 2 requests | counterexample: a second registration is answered 500 |
| `provider_login` | 2 users, e-mails and Google accounts; names n1, clientele, client1, client2; display names n1, e1; 3 requests | `LoginsAreLinked`, `LinksAreFinal`, `SplitOnlyByName`, `ClientNamesAreDense` |
| `files` | 2 files, 1 malformed id, 4 messages | `DocumentHasObject`, `OrphansAreExplained`, `UploadedStays`, `DeletedIsGone` |
| `files_rollback` | 1 file, 2 messages | counterexample: a failed `delete_files` has deleted the documents |
| `posts` | 1 uploaded file, 1 malformed id, 2 users, 2 posts, 3 requests | `DeletedPostsLeaveNoDocuments`, `OnlyAuthorsRemoveFiles`, `AnswersAreTrue`, `DeletionIsFinal` |
| `posts_liveness` | 2 files, 1 user, 1 post, 3 requests, 2 messages | `EveryRequestEnds` |
| `avatars` | 2 files, 2 users, 4 requests, 4 messages | `DanglingAvatarsAreExplained`, `OwnersRemoveAvatars`, `DeletedAvatarsAreGone` |
| `authentication` | an account made before; 2 e-mails, names, passwords; 1 code to generate, 2 session ids, 3 requests | `OldPasswordsAreExplained`, `SessionsAreConfirmed`, `OnlyOwnersEndSessions`, `PasswordNeedsRecovery` |
| `forms` | 9 texts, 2 of them e-mails, 1 year of birth, clock 13..14 | `FormsAgree`, `LookupsFindTheOwner`, `ProfilesAreOfAge` |

Bounds. Requests, codes, ids and messages are used once, so the number of
requests bounds the length of a behaviour; no other bound is needed but
`MaxTime` (the clock) and `MaxClients` (N). Each conflict the properties are about takes two
requests on one object, on top of those that set it up: a session is opened,
refreshed twice at the same time, and logged out or purged (four requests); two
registrations or renamings race for a name while a third account takes or leaves
it (four); a post is created, then deleted under another request (three). In
`authentication` the three requests that make the account to be recovered are
done at the start, so that a login, a refresh and a new password, or two new
passwords and a login, run beside it; it has two passwords, where `accounts` makes
do with one (a first password against none). In `forms` each rule has a text that just
passes it and one that just fails it: 30 and 31 characters, an e-mail of 51,
passwords of 6 and 20, one with outer spaces, one with a line break. Interchangeable
values are declared symmetric in the runs without liveness. Deadlock is not checked: a
behaviour ends when all requests are spent.

Fairness. Only `posts_liveness` assumes any: weak fairness of a handler's own
steps (`Continue`), which the event loop and its timers justify: a promise that
is resolved, or a `timeout(10000)` or Prisma's 5 s that is over, is served. Nothing is assumed of
clients, of the file service, of mails, or of the absence of crashes.

The violated runs each quote a test or comment of the repository; the findings
in `PROJECT.json` tell what the code does instead.

What the runs showed that no test of the repository states, and that the
properties therefore name as exceptions:

- login refuses e-mails of more than 50 characters, registration takes them
  (`FormsAgree`): such an account can be confirmed, never logged in to;
- a login, or a refresh that has taken its token, may store its session after
  the purge of a new password, and keeps it (`OldPasswordsAreExplained`);
- the first Google login of a user finds any account of his e-mail or display name,
  also one that nobody has confirmed, and opens it (`CanLogIn`, `LoginsAreLinked`);
- a name like `clientele` makes the count that names Google accounts too high, and
  giving one up too low (`ClientNamesAreDense`);
- the recovery code works again until it expires or is replaced (`NewPassword` in
  `Accounts`), and the file of a replaced avatar is never deleted (`SaveAvatar`).

Comments and messages that differ from the rules, without effect on any property:
a user name may have 30 characters where the message of its rule says 20, and the
password rule refuses `` ` `` and `~` though its message lists them.

## The proofs

Eight modules, each about one component for any values of its constants. The
assumptions are those the component's module names; TLC evaluates them in the
runs. They say that

- `None` is no value of the data nor a row (`NoneAssumption`, in `Accounts` also
  `RowsAssumption`), and in `ProviderLogin` that no name is a number or an e-mail
  (`NamesAssumption`; the second is `LookupsFindTheOwner` of `Forms`);
- foreign ids are no document's (`ForeignAssumption`, `MalformedAssumption`, for
  `Posts` `FilesAssumption`), and the files uploaded before are files
  (`UploadedAssumption`);
- bounds on time, years and names are natural numbers (`LifetimeAssumption`,
  `MaxTimeAssumption`, `YearAssumption`, `MaxClientsAssumption`);
- a text that is an e-mail has an `@` and at least three characters, and no text has
  more classes of characters than characters (`TextsAssumption`); a name that
  Google login makes up is "client" and the digits of a count, of which PostgreSQL's
  bigint allows 19 (`ClientsAssumption`);
- the account that `Authentication` starts from used three requests and two codes
  (`OwnerAssumption`).

Every module has the same shape: an inductive invariant `IInv` whose parts are
named; a lemma that splits `Next` into the steps of one request; lemmas that say
what such a step does to one row (`UserStep`, `InfoStep`, `RowStep`, `CommitStep`)
and that other requests keep what they know (`OthersKnow`, `KnowsStays`,
`KnowsLasts`); a lemma for each part of the invariant; the theorems.

- `SessionsProofs`: `TypeCorrect`, `SingleExchange` (`ExchangedOnce`),
  `FinalLogout` (`LogoutIsFinal`). `ExchangedOnce` is not inductive: a state in
  which a second request is about to delete a session that a first has already
  taken, yet whose row is back, satisfies it and leads out of it. `IInv` rules such
  states out: `FreshIsUnique` (two requests never mint the same id),
  `KnownIsAnswered` (an id a client holds comes from a request that is done),
  `NotLiveYet` (a row exists only once its minter has inserted it), `TakenOnce`
  (at most one refresh or logout has taken a session, which is dead since). It
  rests on `TakersGrow`: only `DeleteSession` takes a session, and only from a live
  row, because Prisma's `delete` throws on a missing one.

  `TokensMatchRows`, `PasswordsEndSessions`, `ClosedForGood` (`NoResurrection`)
  and `OwnersEndSessions` need more. `RowsInv` adds to `IInv` what a request
  knows between two awaits: the row it is about to delete is its own user's, the
  rows it is about to purge were all stored before it set the password, and a
  session handed on stays with its user (`UsersAgree`). `InsertedStays` (a row once
  stored is not stored again) then turns "deleted" into "deleted for good".

  `HandlersImplementLifecycle` is that `Sessions` implements `SessionLifecycle`
  under the mapping of `SessionsRefinement`. The lemmas `OpenedStep`, `TakesStep`,
  `ExchangesStep` and `OriginStep` say how a step changes what the mapping is built
  from; then a deletion maps to `Exchange` or `Close`, a purge to `Close`, an
  insertion to `Open` or `Succeed` (`DeletionMapped`, `PurgeMapped`,
  `InsertionMapped`), and every other step to a stutter (`QuietMapped`).
- `AccountsProofs`: `TypeCorrect`, `ConfirmedByOwners`, `HalfAccountsExplained`,
  `CodesAreMailed`, `LostRacesOnly` (`OnlyRacesAnswer500`), `ConfirmationLasts`
  (`ConfirmationIsFinal`), `PasswordsNeedRecovery`. Codes are the crux: a client
  that presents a code read it in a mail, the mail was sent by the request that
  generated it (`CodesAreWritten`), and no two requests generate the same code
  (`FreshIsUnique`); so the row the code is found in belongs to the address it was
  mailed to (`CodesFindTheirOwner`). `OneInserter` is the unique index on e-mails:
  a second registration cannot enter the window between the two inserts. A
  renaming remembers, in `Knows`, that whoever has its name now took it after the
  look-up, by registration, renaming or Google (`RivalsStep`, `OutrunStays`); what
  was taken when it looked stays taken and does not count (`Taken`, `ClaimStays`).

  `HandlersImplementLifecycle` is that `Accounts` implements `AccountLifecycle`.
  It takes a second invariant (`LifeOK`, theorem `LivesAreInOrder`) about requests
  that act on what they read one await earlier: the account whose password is about
  to be replaced is confirmed, the one about to be completed has a password
  (`Standing`). It lasts under the steps of others because a confirmation is not
  undone (`ConfirmationStays`) and an account without password stays without
  (`HashStays`). Each statement that writes a row is then a step of the abstract
  accounts (`InsertMapped`, `CreationMapped`, `CompletionMapped`,
  `ConfirmationMapped`, `RecoveryMapped`, `RenamingMapped`), or a stutter when it
  confirms or names an account as it was; new codes are not seen (`QuietMapped`).
- `AuthenticationProofs`: `OldPasswords` (`OldPasswordsAreExplained`),
  `ConfirmedSessions` (`SessionsAreConfirmed`), `OwnersEndSessions`
  (`OnlyOwnersEndSessions`), `PasswordsNeedRecovery` (`PasswordNeedsRecovery`). The
  module takes both components' proofs over (`AccP`, `SesP`): every step of the
  composition is a step of the accounts or none, and one of the sessions or none
  (`AccountsMove`, `SessionsMove`), so their invariants hold here by their own lemmas
  (`AccountsStay`, `SessionsStay`), from the account made before on (`OwnerIsReal`).
  Two parts are about both: `ShownOK`, that a password behind a session was shown
  for an account whose confirmer exists, and `ExplainedOK`, that every session that
  is live, or on its way, has the account's password or an explanation. The second
  is not inductive for live sessions alone: it has to speak of the requests that
  have taken a session and not yet stored its successor (`Watched`), since a purge
  passes them by. `ExplainedStep` shows that a change of password explains all the
  sessions it finds until its own purge, and that whatever its purge leaves was
  being opened (`PurgeLeaves`).
- `PostsProofs`: `TypeCorrect`, `DeletionsTakeTheDocuments`
  (`DeletedPostsLeaveNoDocuments`), `RemovalsAreTheAuthors`
  (`OnlyAuthorsRemoveFiles`), `AnswersAreTrueAlways`, `DeletionIsFinalAlways`. A
  deletion commits after its call has answered, and nothing stores the documents
  again: their uploads were over before the post was created (`Known`,
  `NothingStoredAgain`), so that a call which has passed the documents leaves them
  gone (`GoneOK`), also when the request has given it up or its transaction is
  over. The images a deletion names were read before its transaction; they are those
  of the creation or, when another deletion came first, none (`Knows`), and a post is
  created once (`CreatesApart`), which is what ties the call to the author's own
  post (`CallsAreAwaited`, `RemovedByCall`). A creation has left nothing while it
  awaits its call, and when it ends in a 502 or in the 500 of an expired transaction
  (`NothingLeft`); the 500 of a failing view query or of a failing commit says
  nothing of the row, and `AnswersAreTrue` claims nothing of it.
- `FormsProofs`: `OnlyCheckedIsStored`, `FormsAgreeAlways` (`FormsAgree`),
  `OwnersAreFound` (`LookupsFindTheOwner`), `AgeIsChecked` (`ProfilesAreOfAge`).
  The invariant is the first of them: what an account holds has passed the rules of
  the form that stored it, or is a name made up for a Google account. The others
  compare those rules with the rules of the forms that read it.
- `ProviderLoginProofs`: `TypeCorrect`, `LoginsOpenLinkedUsers`, `LinksLast`,
  `SplitsAreByName`, `ClientsAreDense`. The last counts: until a user takes or
  gives up a name that starts with `client` (`chosen`), those names are
  `1..N`, a creation adds the user who makes them `1..N+1`, because the unique index
  refuses every other (facts on cardinality from `FiniteSetTheorems`).
- `FileServiceProofs`: `TypeCorrect`, `DocumentsHaveObjects`, `OrphansExplained`,
  `UploadsStay`, `DeletedStaysGone`. The invariant says how far each call has come
  with its files (`Progress`), that two uploads never name the same file, and that
  a file other messages name was saved already (`NamedIsSaved`), so that nothing
  stores it again after its deletion.
- `AvatarsProofs`: `TypeCorrect`, `DeletionsAreDone` (`DeletedAvatarsAreGone`),
  `OwnersRemove` (`OwnersRemoveAvatars`), `DanglingExplained`
  (`DanglingAvatarsAreExplained`). The invariant ties a request to the call it
  awaits, and says that a file is in the row of its uploader only, from his upload
  on; the calls of the service go on after their request has given them up.

Only model-checked is `EveryRequestEnds`: liveness under fairness, like `ENABLED`,
is out of the prover's reach. The runs that expect a violation have nothing to
prove.

## Not modelled

- Exceptions and filters: the format of answers. The status codes are in the
  models.
- Configuration, Prisma and module wiring: runs once, at start-up.
- API documentation: decorators without behaviour.
- Payments service: a generated stub.
- Access tokens, in part: they are checked against nothing that changes.
- Mail, in part: texts of the mails.
- `updateOwnerId` of the file repository builds a query and never runs it; the
  model gives the message no effect, and no property is about it because nothing
  reads the owner.

## Plan

Done: all components that keep state, the composition of accounts and sessions,
the forms, the life cycles of sessions and of accounts as abstract specifications
with their refinements proved, and a theorem for every safety property. Left, in
this order:

1. An abstract file service (a set of stored files) that `FileService` implements
   up to explained orphans.
2. The life cycle of a post (created, changed by its author, deleted for good) as
   an abstract specification, and its refinement by `Posts`.
