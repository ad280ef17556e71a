-------------------------------- MODULE Posts --------------------------------
(***************************************************************************)
(* The posts of the gateway (features/post) over the file service.         *)
(*                                                                         *)
(* Creating and deleting a post each run one Prisma interactive            *)
(* transaction that awaits an RPC to the file service before it commits.   *)
(* The RPC gives up after 10 s, the transaction after 5 s; the service     *)
(* serves the message whatever the gateway has decided meanwhile.          *)
(***************************************************************************)
CONSTANTS
    Files, Foreign, Malformed, Calls,   \* of FileService
    Uploaded,     \* files already stored when the behaviour begins
    Users, PostIds,
    Requests,     \* HTTP requests, each served once
    None          \* "no value"

ASSUME FilesAssumption ==                   \* of FileService
    Files \cap Foreign = {} /\ Malformed \subseteq Foreign
ASSUME UploadedAssumption == Uploaded \subseteq Files
ASSUME NoneAssumption ==
    /\ None \notin Users \cup PostIds \cup Calls \cup Requests
    /\ None \notin [author: Users, isDeleted: BOOLEAN,
                    images: SUBSET (Files \cup Foreign)]

VARIABLES
    docs, objects, call,   \* of FileService
    posts,                 \* committed rows of Post, with their PostImage rows
    lock,                  \* the request whose transaction locks the post's row
    req                    \* the requests

FS == INSTANCE FileService

fileVars == <<docs, objects, call>>
vars == <<docs, objects, call, posts, lock, req>>

Row == [author: Users, isDeleted: BOOLEAN, images: SUBSET (Files \cup Foreign)]

Request ==
    [kind: {"none", "upload", "create", "delete", "update", "get"},
     pc: {"idle", "images", "begin", "await", "update", "view", "urls",
          "done"},
     reply: {"none", "ok", "403", "404", "500", "502", "lost"},
     user: Users \cup {None}, post: PostIds \cup {None},
     images: SUBSET (Files \cup Foreign),  \* the post's images, as it knows them
     call: Calls \cup {None},              \* the RPC it awaits
     tx: {"none", "open", "expired"}]

Waiting ==
    [kind |-> "none", pc |-> "idle", reply |-> "none", user |-> None,
     post |-> None, images |-> {}, call |-> None, tx |-> "none"]

Init ==
    /\ docs = Uploaded
    /\ objects = Uploaded
    /\ call = [c \in Calls |-> FS!Unsent]
    /\ posts = [p \in PostIds |-> None]
    /\ lock = [p \in PostIds |-> None]
    /\ req = [r \in Requests |-> Waiting]

-----------------------------------------------------------------------------
At(r, label) == req[r].pc = label /\ req[r].reply = "none"

Answer(r, reply) ==
    req' = [req EXCEPT ![r].pc = "done", ![r].reply = reply]

\* The row locks r holds go with its transaction.
Release(r) ==
    lock' = [p \in PostIds |-> IF lock[p] = r THEN None ELSE lock[p]]

Known == Uploaded \cup FS!Known

\* An RPC is sent: the request goes on once it is answered, or given up.
Ask(r, c, cmd, ids, q) ==
    /\ FS!Receive(c, cmd, ids)
    /\ req' = [req EXCEPT ![r] = [q EXCEPT !.pc = "await", !.call = c]]

Reply(r) == call[req[r].call].reply

\* deleteFiles looks at no more than that there is an answer, updateOwnerId
\* at its isSuccess too.
Accepted(r) ==
    \/ Reply(r) = "ok"
    \/ Reply(r) = "isSuccess:false" /\ req[r].kind = "delete"

-----------------------------------------------------------------------------
(* Steps with a bug, to show what the properties below would catch.        *)

\* The author's check left out.
FindPostOfAnyone(r, kind, u, p) ==
    /\ At(r, "idle")
    /\ LET q == [Waiting EXCEPT !.kind = kind, !.user = u, !.post = p]
       IN  req' = [req EXCEPT ![r] =
              IF posts[p] = None THEN [q EXCEPT !.pc = "done", !.reply = "404"]
              ELSE [q EXCEPT !.pc = IF kind = "delete" THEN "images"
                                    ELSE "update"]]
    /\ UNCHANGED <<docs, objects, call, posts, lock>>

\* A post stored without its author.
CommittedOfNobody(r) ==
    IF req[r].kind = "create"
      THEN [author |-> None, isDeleted |-> FALSE, images |-> req[r].images]
      ELSE [posts[req[r].post] EXCEPT !.isDeleted = TRUE, !.images = {}]

\* The error of a commit after the timeout swallowed.
CommitExpiredSilently(r) ==
    /\ At(r, "await") /\ req[r].tx = "expired"
    /\ Accepted(r)
    /\ Answer(r, "ok")
    /\ UNCHANGED <<docs, objects, call, posts, lock>>

\* The Err of deleteFiles not looked at: the deletion commits.
RpcFailsAndCommits(r) ==
    /\ At(r, "await") /\ Reply(r) = "error"
    /\ posts' = IF req[r].kind = "delete" /\ req[r].tx = "open"
                THEN [posts EXCEPT ![req[r].post].isDeleted = TRUE]
                ELSE posts
    /\ Answer(r, "502")
    /\ Release(r)
    /\ UNCHANGED <<docs, objects, call>>

\* No timeout on the RPC.
RpcNeverTimesOut(r) ==
    /\ At(r, "await") /\ req[r].call = None
    /\ Answer(r, "502")
    /\ UNCHANGED <<docs, objects, call, posts, lock>>

\* An update that writes the whole row back as it read it.
UpdateWholePost(r) ==
    /\ At(r, "update")
    /\ lock[req[r].post] = None
    /\ req' = [req EXCEPT ![r].pc = "view"]
    /\ posts' = [posts EXCEPT ![req[r].post].isDeleted = FALSE]
    /\ UNCHANGED <<docs, objects, call, lock>>

-----------------------------------------------------------------------------
(* UploadImagePost: a valid image is sent to the file service.             *)
UploadImagePost(r, u) ==
    /\ At(r, "idle")
    /\ \E c \in Calls, f \in Files \ (FS!Minted \cup Uploaded) :
          Ask(r, c, "upload_file", {f},
              [Waiting EXCEPT !.kind = "upload", !.user = u])
    /\ UNCHANGED <<posts, lock>>

(* CreatePost opens a transaction, inserts the post with the image ids the *)
(* client gave, and asks the service to record their owner.                *)
CreatePost(r, u, p, ids) ==
    /\ At(r, "idle")
    /\ \A q \in Requests : req[q].kind = "create" => req[q].post # p
    /\ \E c \in Calls :
          Ask(r, c, "update_owner_id_file", ids,
              [Waiting EXCEPT !.kind = "create", !.user = u, !.post = p,
                              !.images = ids, !.tx = "open"])
    /\ UNCHANGED <<posts, lock>>

(* DeletePost and UpdatePost find the post, deleted or not, and check its  *)
(* author.                                                                 *)
FindPost(r, kind, u, p) ==
    /\ At(r, "idle")
    /\ LET q == [Waiting EXCEPT !.kind = kind, !.user = u, !.post = p]
       IN  req' = [req EXCEPT ![r] =
              IF posts[p] = None THEN [q EXCEPT !.pc = "done", !.reply = "404"]
              ELSE IF posts[p].author # u
              THEN [q EXCEPT !.pc = "done", !.reply = "403"]
              ELSE [q EXCEPT !.pc = IF kind = "delete" THEN "images"
                                    ELSE "update"]]
    /\ UNCHANGED <<docs, objects, call, posts, lock>>

FindImages(r) ==
    /\ At(r, "images")
    /\ req' = [req EXCEPT ![r].pc = "begin",
                          ![r].images = posts[req[r].post].images]
    /\ UNCHANGED <<docs, objects, call, posts, lock>>

(* The transaction marks the post deleted and drops its images, which      *)
(* locks its row until the end, and asks the service to delete the files.  *)
BeginDelete(r) ==
    /\ At(r, "begin")
    /\ lock[req[r].post] = None
    /\ lock' = [lock EXCEPT ![req[r].post] = r]
    /\ \E c \in Calls : Ask(r, c, "delete_files", req[r].images,
                            [req[r] EXCEPT !.tx = "open"])
    /\ UNCHANGED posts

(* An upload answers the id; a transaction whose RPC is answered commits,  *)
(* unless it has expired.                                                  *)
Committed(r) ==
    IF req[r].kind = "create"
      THEN [author |-> req[r].user, isDeleted |-> FALSE,
            images |-> req[r].images]
      ELSE [posts[req[r].post] EXCEPT !.isDeleted = TRUE, !.images = {}]

UploadAnswered(r) ==
    /\ At(r, "await") /\ req[r].kind = "upload"
    /\ Accepted(r)
    /\ Answer(r, "ok")
    /\ UNCHANGED <<docs, objects, call, posts, lock>>

Commit(r) ==
    /\ At(r, "await") /\ req[r].tx = "open"
    /\ Accepted(r)
    /\ posts' = [posts EXCEPT ![req[r].post] = Committed(r)]
    /\ IF req[r].kind = "create" THEN req' = [req EXCEPT ![r].pc = "view"]
       ELSE Answer(r, "ok")
    /\ Release(r)
    /\ UNCHANGED fileVars

CommitExpired(r) ==
    /\ At(r, "await") /\ req[r].tx = "expired"
    /\ Accepted(r)
    /\ Answer(r, "500")
    /\ UNCHANGED <<docs, objects, call, posts, lock>>

(* The RPC throws in the service, or its 10 s are over, the 5 s of the     *)
(* transaction long before: the adapter makes an Err of either, and the    *)
(* callback throws, which rolls the transaction back.                      *)
RpcFails(r) ==
    /\ At(r, "await")
    /\ Reply(r) \notin {"none", "lost"} /\ ~Accepted(r)
    /\ Answer(r, "502")
    /\ Release(r)
    /\ UNCHANGED <<docs, objects, call, posts>>

RpcTimesOut(r) ==
    /\ At(r, "await") /\ req[r].tx # "open"
    /\ Answer(r, "502")
    /\ UNCHANGED <<docs, objects, call, posts, lock>>

(* Prisma rolls the transaction back after its 5 s.  The callback, if it   *)
(* awaits the RPC, finds out when it returns.                              *)
TxExpires(r) ==
    /\ \/ /\ At(r, "await") /\ req[r].tx = "open"
          /\ req' = [req EXCEPT ![r].tx = "expired"]
       \/ At(r, "begin") /\ Answer(r, "500")
    /\ Release(r)
    /\ UNCHANGED <<docs, objects, call, posts>>

(* UpdatePost changes the description alone, once the row is not locked.   *)
UpdatePost(r) ==
    /\ At(r, "update")
    /\ lock[req[r].post] = None
    /\ req' = [req EXCEPT ![r].pc = "view"]
    /\ UNCHANGED <<docs, objects, call, posts, lock>>

(* getPostViewById: of an author's post that is not deleted, for itself or *)
(* after a creation or an update.                                          *)
GetPost(r, u, p) ==
    /\ At(r, "idle")
    /\ req' = [req EXCEPT ![r] = [Waiting EXCEPT !.kind = "get", !.user = u,
                                     !.post = p, !.pc = "view"]]
    /\ UNCHANGED <<docs, objects, call, posts, lock>>

Visible(p, u) ==
    posts[p] # None /\ posts[p].author = u /\ ~posts[p].isDeleted

GetPostView(r) ==
    /\ At(r, "view")
    /\ IF Visible(req[r].post, req[r].user)
         THEN req' = [req EXCEPT ![r].pc = "urls"]
         ELSE Answer(r, "404")
    /\ UNCHANGED <<docs, objects, call, posts, lock>>

(* Then the URLs of its images: whatever the service answers, and if it    *)
(* does not in 10 s, there is a view.  The question changes nothing in the *)
(* service, so no call stands for it.                                      *)
GetFilesInfo(r) ==
    /\ At(r, "urls")
    /\ Answer(r, "ok")
    /\ UNCHANGED <<docs, objects, call, posts, lock>>

(* A statement of Prisma throws, which is answered 500: the look-up of the *)
(* images, the deletion's first statement, the update, or the view's query *)
(* after the commit of a creation.  (A request whose first statement fails *)
(* is one that never came.)                                                *)
QueryFails(r) ==
    /\ \E label \in {"images", "begin", "update", "view"} : At(r, label)
    /\ Answer(r, "500")
    /\ UNCHANGED <<docs, objects, call, posts, lock>>

(* The commit throws, which does not say whether PostgreSQL has done it.   *)
CommitFails(r) ==
    /\ At(r, "await") /\ req[r].tx = "open"
    /\ Accepted(r)
    /\ posts' \in {posts, [posts EXCEPT ![req[r].post] = Committed(r)]}
    /\ Answer(r, "500")
    /\ Release(r)
    /\ UNCHANGED fileVars

(* The gateway dies: PostgreSQL rolls the open transaction back.           *)
Crash(r) ==
    /\ req[r].pc # "idle" /\ req[r].reply = "none"
    /\ req' = [req EXCEPT ![r].reply = "lost"]
    /\ Release(r)
    /\ UNCHANGED <<docs, objects, call, posts>>

Arrive(r) ==
    \E u \in Users :
       \/ UploadImagePost(r, u)
       \/ \E p \in PostIds, ids \in SUBSET Known \ {{}} : CreatePost(r, u, p, ids)
       \/ \E p \in PostIds : \/ FindPost(r, "delete", u, p)
                             \/ FindPost(r, "update", u, p)
                             \/ GetPost(r, u, p)

Continue(r) ==
    \/ FindImages(r) \/ BeginDelete(r)
    \/ UploadAnswered(r) \/ Commit(r) \/ CommitExpired(r)
    \/ RpcFails(r) \/ RpcTimesOut(r) \/ TxExpires(r)
    \/ UpdatePost(r) \/ GetPostView(r) \/ GetFilesInfo(r)

FileServiceStep == (\E c \in Calls : FS!Serve(c)) /\ UNCHANGED <<posts, lock, req>>

Fail(r) == QueryFails(r) \/ CommitFails(r) \/ Crash(r)

Next ==
    \/ \E r \in Requests : Arrive(r) \/ Continue(r) \/ Fail(r)
    \/ FileServiceStep

Spec == Init /\ [][Next]_vars

(* A handler that can take its next step takes it, timers included; nobody *)
(* is obliged to send a request, and the service to answer.                *)
FairSpec == Spec /\ \A r \in Requests : WF_vars(Continue(r))

-----------------------------------------------------------------------------
TypeOK ==
    /\ FS!TypeOK
    /\ posts \in [PostIds -> Row \cup {None}]
    /\ lock \in [PostIds -> Requests \cup {None}]
    /\ req \in [Requests -> Request]

CreationOf(p) == CHOOSE r \in Requests : req[r].kind = "create" /\ req[r].post = p

ImagesOnceOf(p) == req[CreationOf(p)].images

(* A deleted post leaves no file documents behind: its deletion committed  *)
(* only after the service had answered for every image it had (DeletePost  *)
(* awaits deleteFiles inside the transaction).                             *)
DeletedPostsLeaveNoDocuments ==
    \A p \in PostIds :
       posts[p] # None /\ posts[p].isDeleted => ImagesOnceOf(p) \cap docs = {}

(* Only an author removes files: when an uploaded file is gone, a user who *)
(* listed it in a post of his own asked for that post's deletion, whether  *)
(* the deletion went through or not (DeletePost checks authorId before it  *)
(* touches anything; the files of a rolled back deletion stay removed).    *)
OnlyAuthorsRemoveFiles ==
    \A f \in Uploaded \ docs :
       \E r \in Requests :
          /\ req[r].kind = "delete" /\ req[r].call # None
          /\ posts[req[r].post].author = req[r].user
          /\ f \in ImagesOnceOf(req[r].post)

(* The answer tells what happened to the post: created and deleted are     *)
(* answered with success only when they are committed, and a creation that *)
(* is answered 502, or 500 because its transaction had expired, has left   *)
(* nothing.  (It is there, or may be, after a 500 of the view's query or   *)
(* of the commit itself.)  A post is shown to its author alone.            *)
AnswersAreTrue ==
    \A r \in Requests :
       /\ req[r].kind = "delete" /\ req[r].reply = "ok"
             => posts[req[r].post].isDeleted
       /\ req[r].kind = "create" /\ req[r].reply = "ok"
             => posts[req[r].post] # None
       /\ req[r].kind = "create"
          /\ (req[r].reply = "502"
                \/ (req[r].reply = "500" /\ req[r].tx = "expired"))
             => posts[req[r].post] = None
       /\ req[r].kind = "create" /\ req[r].reply = "404"
             => posts[req[r].post].isDeleted
       /\ req[r].kind \in {"get", "update"} /\ req[r].reply = "ok"
             => posts[req[r].post].author = req[r].user

(* A deleted post never comes back, with its images or without: an update  *)
(* that read it before the deletion writes its description only.           *)
DeletionIsFinal ==
    [][\A p \in PostIds :
          (posts[p] # None /\ posts[p].isDeleted)
             => posts'[p] # None /\ posts'[p].isDeleted /\ posts'[p].images = {}]_vars

(* Every request is answered, or lost in a crash, though the service may   *)
(* never answer and though transactions wait for each other's locks.       *)
EveryRequestEnds ==
    \A r \in Requests : req[r].pc # "idle" ~> req[r].reply # "none"
=============================================================================
