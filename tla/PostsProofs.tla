----------------------------- MODULE PostsProofs -----------------------------
(***************************************************************************)
(* Theorems about Posts, for any number of users, posts, files, requests   *)
(* and calls: the rows of the gateway and the documents of the file        *)
(* service, whichever transactions expire and whichever RPCs are given up. *)
(***************************************************************************)
EXTENDS Posts, TLAPS

USE DEF FS!Cmds, FS!Pcs, FS!Replies, FS!FirstStep, FS!AfterFind

(* What a call says: the gateway uploads files, records their owner and    *)
(* deletes the files of a post.                                            *)
Shape(q) ==
    /\ q.pc = "idle" => q = FS!Unsent
    /\ q.cmd = "none" => q.pc = "idle"
    /\ q.cmd \in {"none", "upload_file", "delete_files",
                  "update_owner_id_file"}
    /\ q.cmd = "upload_file" => /\ q.pc \in {"put", "save", "done"}
                                /\ q.ids \subseteq Files \ Uploaded
    /\ q.cmd = "delete_files" =>
          q.pc \in {"find", "deleteMany", "deleteImages", "done"}
    /\ q.cmd = "update_owner_id_file" => q.pc \in {"read", "done"}
    /\ q.reply \in {"ok", "isSuccess:false"} => q.pc = "done"

ShapeOK == \A c \in Calls : Shape(call[c])

(* The files of a deletion are known, so nothing uploads them again; they  *)
(* are gone once it has passed the documents.                              *)
Gone(q) ==
    q.cmd = "delete_files" =>
       /\ q.ids \subseteq Known
       /\ q.pc \in {"deleteImages", "done"} => q.ids \cap docs = {}

GoneOK == \A c \in Calls : Gone(call[c])

(* Every upload is of a file of its own.                                   *)
UploadsApart ==
    \A c1, c2 \in FS!Uploads :
       call[c1].ids \cap call[c2].ids # {} => c1 = c2

(* A file that is gone was named by a deletion, which a request asked for. *)
RemovedByCall ==
    \A f \in Uploaded \ docs :
       \E c \in Calls : call[c].cmd = "delete_files" /\ f \in call[c].ids

CallsAreAwaited ==
    \A c \in Calls : call[c].cmd = "delete_files" =>
       \E r \in Requests : req[r].kind = "delete" /\ req[r].call = c

(* The creation of a post, of which there is one, and what is left of it   *)
(* in the row.                                                             *)
Creates(q, p) == q.kind = "create" /\ q.post = p

CreatesApart ==
    \A p \in PostIds : \A r1, r2 \in Requests :
       Creates(req[r1], p) /\ Creates(req[r2], p) => r1 = r2

Created(p, ids) ==
    \E r \in Requests : Creates(req[r], p) /\ req[r].images = ids

PostsOK ==
    \A p \in PostIds : posts[p] # None =>
       /\ \E ids : Created(p, ids)
       /\ IF posts[p].isDeleted
            THEN /\ posts[p].images = {}
                 /\ \A ids : Created(p, ids) => ids \cap docs = {}
            ELSE Created(p, posts[p].images)

Owns(q) ==
    /\ q.user # None /\ q.post # None
    /\ posts[q.post] # None /\ posts[q.post].author = q.user

(* A creation that has left nothing, or nothing yet.                       *)
NothingLeft(q) ==
    \/ q.pc = "await"
    \/ q.reply = "502"
    \/ q.reply = "500" /\ q.tx = "expired"

(* What a request has done, and what it relies on.                         *)
Knows(q) ==
    /\ q.pc = "idle" => q = Waiting
    /\ q.pc = "done" => q.reply # "none"
    /\ q.reply \notin {"none", "lost"} => q.pc = "done"
    /\ q.images \subseteq Known
    /\ q.pc \in {"images", "begin"} => q.kind = "delete" /\ q.call = None
    /\ q.pc = "update" => q.kind = "update"
    /\ q.pc \in {"view", "urls"} => q.kind \in {"create", "update", "get"}
    /\ q.pc = "await" => /\ q.kind \in {"upload", "create", "delete"}
                         /\ q.call # None
                         /\ (q.kind = "upload") <=> (q.tx = "none")
    /\ q.kind = "create" =>
          /\ q.user # None /\ q.post # None
          /\ q.pc \in {"await", "view", "urls", "done"}
          /\ NothingLeft(q) => posts[q.post] = None
          /\ q.pc \in {"view", "urls"} => q.tx # "expired"
          /\ q.pc \in {"view", "urls"} \/ q.reply \in {"ok", "404"} => Owns(q)
          /\ q.reply = "404" => posts[q.post].isDeleted
    /\ q.kind = "delete" =>
          /\ q.pc \in {"images", "begin", "await", "done"}
          /\ q.pc # "done" \/ q.call # None => Owns(q)
          /\ q.pc \in {"begin", "await"} \/ q.call # None =>
                \/ Created(q.post, q.images)
                \/ q.images = {} /\ posts[q.post].isDeleted
          /\ q.call # None => /\ call[q.call].cmd = "delete_files"
                              /\ call[q.call].ids = q.images
          /\ q.reply = "ok" => Owns(q) /\ posts[q.post].isDeleted
    /\ q.kind = "update"
       /\ (q.pc \in {"update", "view", "urls"} \/ q.reply = "ok") => Owns(q)
    /\ q.kind = "get" => /\ q.user # None /\ q.post # None
                         /\ q.pc = "urls" \/ q.reply = "ok" => Owns(q)

KnowsOK == \A r \in Requests : Knows(req[r])

IInv ==
    /\ TypeOK
    /\ ShapeOK
    /\ GoneOK
    /\ UploadsApart
    /\ RemovedByCall
    /\ CallsAreAwaited
    /\ CreatesApart
    /\ PostsOK
    /\ KnowsOK
-----------------------------------------------------------------------------
(* The steps of one request, those that send an RPC apart.                 *)
Asks(r) ==
    \/ \E u \in Users : UploadImagePost(r, u)
    \/ \E u \in Users, p \in PostIds, ids \in SUBSET Known \ {{}} :
          CreatePost(r, u, p, ids)
    \/ BeginDelete(r)

GoesOn(r) ==
    \/ \E kind \in {"delete", "update"}, u \in Users, p \in PostIds :
          FindPost(r, kind, u, p)
    \/ \E u \in Users, p \in PostIds : GetPost(r, u, p)
    \/ FindImages(r) \/ UploadAnswered(r) \/ Commit(r) \/ CommitExpired(r)
    \/ RpcFails(r) \/ RpcTimesOut(r) \/ TxExpires(r)
    \/ UpdatePost(r) \/ GetPostView(r) \/ GetFilesInfo(r)
    \/ QueryFails(r) \/ CommitFails(r) \/ Crash(r)

Serves(c) == FS!Serve(c) /\ UNCHANGED <<posts, lock, req>>

(* The next-state relation, by who takes the step.                         *)
LEMMA NextIsStep ==
  Next => \/ \E r \in Requests : Asks(r) \/ GoesOn(r)
          \/ \E c \in Calls : Serves(c)
  BY DEF Next, Arrive, Continue, Fail, FileServiceStep, Asks, GoesOn, Serves

(* What every step leaves of the calls that were sent.                     *)
CallsGoOn ==
    \A c \in Calls : call[c].pc # "idle" =>
       /\ call'[c].cmd = call[c].cmd /\ call'[c].ids = call[c].ids
       /\ call'[c].pc # "idle"
       /\ call[c].reply # "none" => call'[c].reply = call[c].reply

(* What a step of the service does to the documents.                       *)
Stores(c) ==
    /\ call[c].cmd = "upload_file" /\ call[c].pc = "save"
    /\ docs' = docs \cup call[c].ids

Removes(c) == call[c].cmd = "delete_files" /\ docs' = docs \ call[c].ids

FindsNothing(c) ==
    /\ docs' = docs
    /\ call[c].cmd = "delete_files" =>
          \/ call'[c].pc \notin {"deleteImages", "done"}
          \/ call[c].pc = "deleteImages"
          \/ call[c].ids \cap docs = {}

(* A step of the service: one call goes on.                                *)
LEMMA ServeStep ==
  ASSUME IInv, NEW c \in Calls, FS!Serve(c)
  PROVE  /\ call' \in [Calls -> FS!Call]
         /\ docs' \subseteq Files /\ objects' \subseteq Files
         /\ \A d \in Calls : d # c => call'[d] = call[d]
         /\ Shape(call'[c])
         /\ call[c].pc # "idle" /\ call'[c].pc # "idle"
         /\ call[c].reply = "none"
         /\ call'[c].cmd = call[c].cmd /\ call'[c].ids = call[c].ids
         /\ Stores(c) \/ Removes(c) \/ FindsNothing(c)
  <1>a. /\ call \in [Calls -> FS!Call] /\ call[c] \in FS!Call
        /\ docs \subseteq Files /\ objects \subseteq Files
        /\ Shape(call[c])
    BY DEF IInv, TypeOK, FS!TypeOK, ShapeOK
  <1>b. ASSUME NEW x \in {"save", "deleteImages"}, FS!Goto(c, x)
        PROVE  /\ call' \in [Calls -> FS!Call]
               /\ \A d \in Calls : d # c => call'[d] = call[d]
               /\ call'[c].cmd = call[c].cmd /\ call'[c].ids = call[c].ids
               /\ call'[c].reply = call[c].reply /\ call'[c].pc = x
    BY <1>a, <1>b DEF FS!Goto, FS!Call
  <1>c. ASSUME NEW x \in {"ok", "isSuccess:false"}, FS!Answer(c, x)
        PROVE  /\ call' \in [Calls -> FS!Call]
               /\ \A d \in Calls : d # c => call'[d] = call[d]
               /\ call'[c].cmd = call[c].cmd /\ call'[c].ids = call[c].ids
               /\ call'[c].reply = x /\ call'[c].pc = "done"
    BY <1>a, <1>c DEF FS!Answer, FS!Call
  <1>d. ASSUME FS!Fails(c) \/ call' = [call EXCEPT ![c].reply = "lost"]
        PROVE  /\ call' \in [Calls -> FS!Call]
               /\ \A d \in Calls : d # c => call'[d] = call[d]
               /\ call'[c].cmd = call[c].cmd /\ call'[c].ids = call[c].ids
               /\ call'[c].reply \in {"error", "lost"}
               /\ call'[c].pc = call[c].pc
    BY <1>a, <1>d DEF FS!Fails, FS!Call
  <1>1. CASE FS!Put(c)
    BY <1>1, <1>a, <1>b DEF FS!Put, FS!At, Shape, FindsNothing
  <1>2. CASE FS!Save(c)
    BY <1>2, <1>a, <1>c DEF FS!Save, FS!At, Shape, Stores
  <1>3. CASE FS!Find(c)
    <2>0. call[c].cmd = "delete_files" /\ call[c].reply = "none"
      BY <1>3, <1>a DEF FS!Find, FS!At, Shape
    <2>1. CASE FS!Fails(c)
      BY <1>3, <1>a, <1>d, <2>1 DEF FS!Find, FS!At, Shape, FindsNothing
    <2>2. CASE FS!Answer(c, "isSuccess:false") /\ call[c].ids \cap docs = {}
      BY <1>3, <1>a, <1>c, <2>2 DEF FS!Find, FS!At, Shape, FindsNothing
    <2>3. CASE call' = [call EXCEPT ![c].pc = FS!AfterFind[call[c].cmd],
                                    ![c].found = call[c].ids \cap docs]
      <3>3. PICK x, g : /\ x = FS!AfterFind[call[c].cmd]
                        /\ g = call[c].ids \cap docs
        OBVIOUS
      <3> DEFINE n == [call[c] EXCEPT !.pc = x, !.found = g]
      <3>4. x = "deleteMany" /\ g \subseteq Files
        BY <1>a, <2>0, <3>3
      <3>5. call' = [call EXCEPT ![c] = n]
        <4>1. call' = [call EXCEPT ![c].pc = x, ![c].found = g]
          BY <2>3, <3>3
        <4> QED BY <1>a, <4>1
      <3>6. /\ n \in FS!Call
            /\ n.cmd = call[c].cmd /\ n.ids = call[c].ids
            /\ n.reply = "none" /\ n.pc = "deleteMany"
        BY <1>a, <2>0, <3>4 DEF FS!Call
      <3> HIDE DEF n
      <3>7. /\ call' \in [Calls -> FS!Call]
            /\ \A d \in Calls : d # c => call'[d] = call[d]
            /\ call'[c] = n
        BY <1>a, <3>5, <3>6
      <3> QED BY <1>3, <1>a, <2>0, <3>6, <3>7
        DEF FS!Find, FS!At, Shape, FindsNothing
    <2> QED BY <1>3, <2>1, <2>2, <2>3 DEF FS!Find
  <1>4. CASE FS!DeleteAvatar(c) \/ FS!DeleteFile(c)
    BY <1>4, <1>a DEF FS!DeleteAvatar, FS!DeleteFile, FS!At, Shape
  <1>5. CASE FS!DeleteMany(c)
    BY <1>5, <1>a, <1>b DEF FS!DeleteMany, FS!At, Shape, Removes
  <1>6. CASE FS!DeleteImages(c)
    <2>1. objects' \subseteq Files /\ docs' = docs
          /\ call[c].pc = "deleteImages" /\ call[c].reply = "none"
      BY <1>6, <1>a DEF FS!DeleteImages, FS!At
    <2>2. FS!Answer(c, "ok") \/ FS!Fails(c)
      BY <1>6 DEF FS!DeleteImages
    <2> QED BY <1>a, <1>c, <1>d, <2>1, <2>2 DEF Shape, FindsNothing
  <1>7. CASE FS!Read(c)
    <2>1. /\ call[c].cmd = "update_owner_id_file" /\ FS!Answer(c, "ok")
          /\ UNCHANGED <<docs, objects>> /\ call[c].reply = "none"
      BY <1>7, <1>a DEF FS!Read, FS!At, Shape
    <2> QED BY <1>7, <1>a, <1>c, <2>1 DEF FS!Read, FS!At, Shape, FindsNothing
  <1>8. CASE FS!Throw(c) \/ FS!Lose(c)
    BY <1>8, <1>a, <1>d DEF FS!Throw, FS!Lose, Shape, FindsNothing
  <1> QED BY <1>1, <1>2, <1>3, <1>4, <1>5, <1>6, <1>7, <1>8 DEF FS!Serve

-----------------------------------------------------------------------------
(* A step that sends an RPC: call c begins, request r awaits it.           *)
Begins(c, cmd, ids) ==
    /\ call[c] = FS!Unsent
    /\ call' \in [Calls -> FS!Call]
    /\ \A d \in Calls : d # c => call'[d] = call[d]
    /\ call'[c].cmd = cmd /\ call'[c].ids = ids /\ call'[c].reply = "none"
    /\ call'[c].pc \in {"put", "find", "read"} /\ Shape(call'[c])

AsksUpload(q, n, cmd, ids) ==
    /\ q = Waiting /\ cmd = "upload_file"
    /\ \E f \in Files \ (FS!Minted \cup Uploaded) : ids = {f}
    /\ n.kind = "upload" /\ n.images = {} /\ n.tx = "none"

AsksCreate(q, n, cmd, ids) ==
    /\ q = Waiting /\ cmd = "update_owner_id_file" /\ ids \subseteq Known
    /\ n.kind = "create" /\ n.user \in Users /\ n.post \in PostIds
    /\ n.images = ids /\ n.tx = "open"
    /\ \A r \in Requests : ~Creates(req[r], n.post)

AsksDelete(q, n, cmd, ids) ==
    /\ q.pc = "begin" /\ q.reply = "none" /\ cmd = "delete_files"
    /\ n.kind = q.kind /\ n.user = q.user /\ n.post = q.post
    /\ n.images = q.images /\ ids = q.images /\ n.tx = "open"

Asked(r, c, cmd, ids) ==
    /\ Begins(c, cmd, ids)
    /\ req'[r].pc = "await" /\ req'[r].reply = "none" /\ req'[r].call = c
    /\ \/ AsksUpload(req[r], req'[r], cmd, ids)
       \/ AsksCreate(req[r], req'[r], cmd, ids)
       \/ AsksDelete(req[r], req'[r], cmd, ids)

(* Each kind of RPC begins in this way.                                    *)
LEMMA AskStep ==
  ASSUME IInv, NEW r \in Requests, Asks(r)
  PROVE  /\ req' \in [Requests -> Request]
         /\ \A q \in Requests : q # r => req'[q] = req[q]
         /\ UNCHANGED <<docs, objects, posts>>
         /\ lock' \in [PostIds -> Requests \cup {None}]
         /\ \E c, cmd, ids : c \in Calls /\ Asked(r, c, cmd, ids)
  <1>a. /\ call \in [Calls -> FS!Call] /\ req \in [Requests -> Request]
        /\ lock \in [PostIds -> Requests \cup {None}]
        /\ ShapeOK /\ Knows(req[r]) /\ req[r] \in Request
    BY DEF IInv, TypeOK, FS!TypeOK, KnowsOK
  <1>b. Waiting \in Request
    BY DEF Waiting, Request
  <1>1. ASSUME NEW c \in Calls,
               NEW cmd \in {"upload_file", "update_owner_id_file",
                            "delete_files"},
               NEW ids \in SUBSET (Files \cup Foreign), NEW q \in Request,
               cmd = "upload_file" => ids \subseteq Files \ Uploaded,
               Ask(r, c, cmd, ids, q)
        PROVE  /\ Begins(c, cmd, ids)
               /\ UNCHANGED <<docs, objects>>
               /\ req' \in [Requests -> Request]
               /\ \A s \in Requests : s # r => req'[s] = req[s]
               /\ req'[r].pc = "await" /\ req'[r].reply = q.reply
               /\ req'[r].call = c /\ req'[r].kind = q.kind
               /\ req'[r].user = q.user /\ req'[r].post = q.post
               /\ req'[r].images = q.images /\ req'[r].tx = q.tx
    <2>1. /\ FS!Receive(c, cmd, ids)
          /\ req' = [req EXCEPT ![r] = [q EXCEPT !.pc = "await", !.call = c]]
      BY <1>1 DEF Ask
    <2>2. call[c] = FS!Unsent /\ UNCHANGED <<docs, objects>>
      BY <1>a, <2>1 DEF FS!Receive, FS!At, ShapeOK, Shape
    <2>3. /\ call' \in [Calls -> FS!Call]
          /\ \A d \in Calls : d # c => call'[d] = call[d]
          /\ call'[c].cmd = cmd /\ call'[c].ids = ids
          /\ call'[c].reply = "none" /\ call'[c].pc = FS!FirstStep[cmd]
      <3>1. PICK x \in {"put", "find", "read"} : x = FS!FirstStep[cmd]
        BY <1>1
      <3> DEFINE n == [FS!Unsent EXCEPT !.cmd = cmd, !.ids = ids, !.pc = x]
      <3>2. /\ n \in FS!Call
            /\ n.cmd = cmd /\ n.ids = ids /\ n.reply = "none" /\ n.pc = x
        BY <1>1 DEF FS!Unsent, FS!Call
      <3>3. call' = [call EXCEPT ![c] = n]
        BY <2>1, <3>1 DEF FS!Receive
      <3> HIDE DEF n
      <3> QED BY <1>a, <3>1, <3>2, <3>3
    <2>4. call'[c].pc \in {"put", "find", "read"} /\ Shape(call'[c])
      BY <1>1, <2>3 DEF Shape
    <2>5. /\ req' \in [Requests -> Request]
          /\ \A s \in Requests : s # r => req'[s] = req[s]
          /\ req'[r].pc = "await" /\ req'[r].reply = q.reply
          /\ req'[r].call = c /\ req'[r].kind = q.kind
          /\ req'[r].user = q.user /\ req'[r].post = q.post
          /\ req'[r].images = q.images /\ req'[r].tx = q.tx
      BY <1>1, <1>a, <2>1 DEF Request
    <2> QED BY <2>2, <2>3, <2>4, <2>5 DEF Begins
  <1>2. ASSUME NEW u \in Users, UploadImagePost(r, u)
        PROVE  /\ req' \in [Requests -> Request]
               /\ \A q \in Requests : q # r => req'[q] = req[q]
               /\ UNCHANGED <<docs, objects, posts, lock>>
               /\ \E c, cmd, ids : c \in Calls /\ Asked(r, c, cmd, ids)
    <2> DEFINE q == [Waiting EXCEPT !.kind = "upload", !.user = u]
    <2>1. PICK c \in Calls, f \in Files \ (FS!Minted \cup Uploaded) :
             Ask(r, c, "upload_file", {f}, q)
      BY <1>2 DEF UploadImagePost
    <2>2. req[r] = Waiting /\ UNCHANGED <<posts, lock>>
      BY <1>2, <1>a DEF UploadImagePost, At, Knows
    <2>3. /\ q \in Request /\ q.kind = "upload" /\ q.reply = "none"
          /\ q.images = {} /\ q.tx = "none"
      BY DEF Waiting, Request
    <2> HIDE DEF q
    <2>4. PICK ids \in SUBSET (Files \cup Foreign) :
             ids = {f} /\ ids \subseteq Files \ Uploaded
      OBVIOUS
    <2>5. Asked(r, c, "upload_file", ids)
      <3>1. Ask(r, c, "upload_file", ids, q)
        BY <2>1, <2>4
      <3>2. /\ Begins(c, "upload_file", ids)
            /\ req'[r].pc = "await" /\ req'[r].reply = "none"
            /\ req'[r].call = c /\ req'[r].kind = "upload"
            /\ req'[r].images = {} /\ req'[r].tx = "none"
        BY <1>1, <2>3, <2>4, <3>1
      <3>3. AsksUpload(req[r], req'[r], "upload_file", ids)
        BY <2>2, <2>4, <3>2 DEF AsksUpload
      <3> QED BY <3>2, <3>3 DEF Asked
    <2>6. \E x, cmd, y : x \in Calls /\ Asked(r, x, cmd, y)
      BY <2>5
    <2> QED BY <1>1, <2>1, <2>2, <2>3, <2>4, <2>6
  <1>3. ASSUME NEW u \in Users, NEW p \in PostIds,
               NEW ids \in SUBSET Known \ {{}}, CreatePost(r, u, p, ids)
        PROVE  /\ req' \in [Requests -> Request]
               /\ \A q \in Requests : q # r => req'[q] = req[q]
               /\ UNCHANGED <<docs, objects, posts, lock>>
               /\ \E c, cmd, x : c \in Calls /\ Asked(r, c, cmd, x)
    <2> DEFINE q == [Waiting EXCEPT !.kind = "create", !.user = u, !.post = p,
                                    !.images = ids, !.tx = "open"]
    <2>1. PICK c \in Calls : Ask(r, c, "update_owner_id_file", ids, q)
      BY <1>3 DEF CreatePost
    <2>2. /\ req[r] = Waiting /\ UNCHANGED <<posts, lock>>
          /\ \A s \in Requests : ~Creates(req[s], p)
      BY <1>3, <1>a DEF CreatePost, At, Knows, Creates
    <2>3. ids \subseteq Known /\ ids \subseteq Files \cup Foreign
      BY <1>a, UploadedAssumption DEF Known, FS!Known, FS!Call, FS!Uploads
    <2>4. /\ q \in Request /\ q.kind = "create" /\ q.reply = "none"
          /\ q.images = ids /\ q.tx = "open" /\ q.user = u /\ q.post = p
      BY <2>3 DEF Waiting, Request
    <2> HIDE DEF q
    <2> QED BY <1>1, <2>1, <2>2, <2>3, <2>4 DEF Asked, AsksCreate
  <1>4. ASSUME BeginDelete(r)
        PROVE  /\ req' \in [Requests -> Request]
               /\ \A q \in Requests : q # r => req'[q] = req[q]
               /\ UNCHANGED <<docs, objects, posts>>
               /\ lock' \in [PostIds -> Requests \cup {None}]
               /\ \E c, cmd, ids : c \in Calls /\ Asked(r, c, cmd, ids)
    <2> DEFINE q == [req[r] EXCEPT !.tx = "open"]
    <2>1. PICK c \in Calls : Ask(r, c, "delete_files", req[r].images, q)
      BY <1>4 DEF BeginDelete
    <2>2. /\ req[r].pc = "begin" /\ req[r].reply = "none" /\ UNCHANGED posts
          /\ lock' \in [PostIds -> Requests \cup {None}]
      BY <1>4, <1>a DEF BeginDelete, At
    <2>3. /\ q \in Request /\ q.kind = req[r].kind /\ q.reply = req[r].reply
          /\ q.images = req[r].images /\ q.tx = "open"
          /\ q.user = req[r].user /\ q.post = req[r].post
          /\ req[r].images \subseteq Files \cup Foreign
      BY <1>a DEF Request
    <2> HIDE DEF q
    <2> QED BY <1>1, <2>1, <2>2, <2>3 DEF Asked, AsksDelete
  <1> QED BY <1>a, <1>2, <1>3, <1>4 DEF Asks
-----------------------------------------------------------------------------
(* A step that sends nothing: a request starts, goes on or ends; at most   *)
(* it commits the row of its post.                                         *)
Commits(r) ==
    /\ req[r].pc = "await" /\ req[r].reply = "none"
    /\ req[r].kind \in {"create", "delete"} /\ Accepted(r)
    /\ posts' = [posts EXCEPT ![req[r].post] = Committed(r)]

Starts(q, n) ==
    /\ q = Waiting /\ n.images = {} /\ n.call = None
    /\ n.user \in Users /\ n.post \in PostIds
    /\ \/ n.kind = "get" /\ n.pc = "view" /\ n.reply = "none"
       \/ /\ n.kind \in {"delete", "update"}
          /\ n.pc = "done" /\ n.reply \in {"403", "404"}
       \/ /\ n.kind = "delete" /\ n.pc = "images" /\ n.reply = "none"
          /\ posts[n.post] # None /\ posts[n.post].author = n.user
       \/ /\ n.kind = "update" /\ n.pc = "update" /\ n.reply = "none"
          /\ posts[n.post] # None /\ posts[n.post].author = n.user

\* The same request, further on.
SameRequest(q, n) ==
    /\ q.pc \notin {"idle", "done"} /\ q.reply = "none"
    /\ n.kind = q.kind /\ n.user = q.user /\ n.post = q.post
    /\ n.call = q.call

Moves(q, n) ==
    /\ SameRequest(q, n) /\ n.images = q.images
    /\ n.tx = q.tx \/ (q.pc = "await" /\ q.tx # "none" /\ n.tx = "expired")
    /\ \/ n.pc = q.pc /\ n.reply \in {"none", "lost"}
       \/ /\ q.pc \in {"begin", "await"}
          /\ n.pc = "done" /\ n.reply \in {"500", "502"}
       \/ /\ q.pc \in {"images", "update", "view"}
          /\ n.pc = "done" /\ n.reply = "500"
       \/ /\ q.pc = "await" /\ q.kind = "upload"
          /\ n.pc = "done" /\ n.reply = "ok"
       \/ q.pc = "update" /\ n.pc = "view" /\ n.reply = "none"
       \/ /\ q.pc = "view" /\ Visible(q.post, q.user)
          /\ n.pc = "urls" /\ n.reply = "none"
       \/ /\ q.pc = "view" /\ ~Visible(q.post, q.user)
          /\ n.pc = "done" /\ n.reply = "404"
       \/ q.pc = "urls" /\ n.pc = "done" /\ n.reply = "ok"

LearnsImages(q, n) ==
    /\ SameRequest(q, n) /\ q.pc = "images"
    /\ n.images = posts[q.post].images /\ n.pc = "begin" /\ n.reply = "none"

Committing(q, n) ==
    /\ SameRequest(q, n) /\ n.images = q.images
    /\ n.tx = "open"
    /\ \/ q.kind = "create" /\ n.pc = "view" /\ n.reply = "none"
       \/ q.kind = "delete" /\ n.pc = "done" /\ n.reply = "ok"
       \/ n.pc = "done" /\ n.reply = "500"

(* The steps of a request that send nothing.                               *)
LEMMA GoStep ==
  ASSUME IInv, NEW r \in Requests, GoesOn(r)
  PROVE  /\ req' \in [Requests -> Request]
         /\ \A q \in Requests : q # r => req'[q] = req[q]
         /\ UNCHANGED <<docs, objects, call>>
         /\ lock' \in [PostIds -> Requests \cup {None}]
         /\ \/ /\ posts' = posts
               /\ \/ Starts(req[r], req'[r])
                  \/ Moves(req[r], req'[r])
                  \/ LearnsImages(req[r], req'[r])
            \/ Commits(r) /\ Committing(req[r], req'[r])
  <1>a. /\ req \in [Requests -> Request] /\ req[r] \in Request
        /\ posts \in [PostIds -> Row \cup {None}]
        /\ lock \in [PostIds -> Requests \cup {None}]
        /\ Knows(req[r])
    BY DEF IInv, TypeOK, KnowsOK
  <1>b. Waiting \in Request
    BY DEF Waiting, Request
  <1>c. Release(r) => lock' \in [PostIds -> Requests \cup {None}]
    BY <1>a DEF Release
  <1>d. ASSUME NEW x \in {"ok", "404", "500", "502"}, Answer(r, x)
        PROVE  /\ req' \in [Requests -> Request]
               /\ \A q \in Requests : q # r => req'[q] = req[q]
               /\ req'[r].kind = req[r].kind /\ req'[r].user = req[r].user
               /\ req'[r].post = req[r].post /\ req'[r].call = req[r].call
               /\ req'[r].images = req[r].images /\ req'[r].tx = req[r].tx
               /\ req'[r].pc = "done" /\ req'[r].reply = x
    BY <1>a, <1>d DEF Answer, Request
  <1>e. ASSUME NEW x \in {"view", "urls"}, req' = [req EXCEPT ![r].pc = x]
        PROVE  /\ req' \in [Requests -> Request]
               /\ \A q \in Requests : q # r => req'[q] = req[q]
               /\ req'[r].kind = req[r].kind /\ req'[r].user = req[r].user
               /\ req'[r].post = req[r].post /\ req'[r].call = req[r].call
               /\ req'[r].images = req[r].images /\ req'[r].tx = req[r].tx
               /\ req'[r].pc = x /\ req'[r].reply = req[r].reply
    BY <1>a, <1>e DEF Request
  <1>1. ASSUME NEW kind \in {"delete", "update"}, NEW u \in Users,
               NEW p \in PostIds, FindPost(r, kind, u, p)
        PROVE  /\ req' \in [Requests -> Request]
               /\ \A q \in Requests : q # r => req'[q] = req[q]
               /\ UNCHANGED <<docs, objects, call, posts, lock>>
               /\ Starts(req[r], req'[r])
    <2>1. req[r] = Waiting /\ UNCHANGED <<docs, objects, call, posts, lock>>
      BY <1>1, <1>a DEF FindPost, At, Knows
    <2>2. ASSUME NEW n \in Request, req' = [req EXCEPT ![r] = n]
          PROVE  /\ req' \in [Requests -> Request] /\ req'[r] = n
                 /\ \A q \in Requests : q # r => req'[q] = req[q]
      BY <1>a, <2>2
    <2> DEFINE q == [Waiting EXCEPT !.kind = kind, !.user = u, !.post = p]
    <2>3. CASE posts[p] = None
      <3> DEFINE n == [q EXCEPT !.pc = "done", !.reply = "404"]
      <3>1. /\ n \in Request /\ n.kind = kind /\ n.user = u /\ n.post = p
            /\ n.call = None /\ n.images = {} /\ n.pc = "done"
            /\ n.reply = "404"
        BY DEF Waiting, Request
      <3>2. req' = [req EXCEPT ![r] = n]
        BY <1>1, <2>3 DEF FindPost
      <3> HIDE DEF n
      <3> QED BY <2>1, <2>2, <3>1, <3>2 DEF Starts
    <2>4. CASE posts[p] # None /\ posts[p].author # u
      <3> DEFINE n == [q EXCEPT !.pc = "done", !.reply = "403"]
      <3>1. /\ n \in Request /\ n.kind = kind /\ n.user = u /\ n.post = p
            /\ n.call = None /\ n.images = {} /\ n.pc = "done"
            /\ n.reply = "403"
        BY DEF Waiting, Request
      <3>2. req' = [req EXCEPT ![r] = n]
        BY <1>1, <2>4 DEF FindPost
      <3> HIDE DEF n
      <3> QED BY <2>1, <2>2, <3>1, <3>2 DEF Starts
    <2>5. CASE posts[p] # None /\ posts[p].author = u
      <3> DEFINE x == IF kind = "delete" THEN "images" ELSE "update"
                 n == [q EXCEPT !.pc = x]
      <3>1. req' = [req EXCEPT ![r] = n]
        BY <1>1, <2>5 DEF FindPost
      <3>2. /\ x \in {"images", "update"}
            /\ x = "images" <=> kind = "delete"
        OBVIOUS
      <3> HIDE DEF x
      <3>3. /\ n \in Request /\ n.kind = kind /\ n.user = u /\ n.post = p
            /\ n.call = None /\ n.images = {} /\ n.pc = x
            /\ n.reply = "none"
        BY <3>2 DEF Waiting, Request
      <3> HIDE DEF n
      <3> QED BY <2>1, <2>2, <2>5, <3>1, <3>2, <3>3 DEF Starts
    <2> QED BY <2>3, <2>4, <2>5
  <1>2. ASSUME NEW u \in Users, NEW p \in PostIds, GetPost(r, u, p)
        PROVE  /\ req' \in [Requests -> Request]
               /\ \A q \in Requests : q # r => req'[q] = req[q]
               /\ UNCHANGED <<docs, objects, call, posts, lock>>
               /\ Starts(req[r], req'[r])
    <2>1. req[r] = Waiting /\ UNCHANGED <<docs, objects, call, posts, lock>>
      BY <1>2, <1>a DEF GetPost, At, Knows
    <2>2. /\ req' \in [Requests -> Request]
          /\ \A q \in Requests : q # r => req'[q] = req[q]
          /\ req'[r].kind = "get" /\ req'[r].user = u
          /\ req'[r].post = p /\ req'[r].call = None
          /\ req'[r].images = {} /\ req'[r].pc = "view"
          /\ req'[r].reply = "none"
      BY <1>2, <1>a DEF GetPost, Waiting, Request
    <2> QED BY <2>1, <2>2 DEF Starts
  <1>3. CASE FindImages(r)
    <2>0. req[r].pc = "images" /\ req[r].reply = "none"
          /\ UNCHANGED <<docs, objects, call, posts, lock>>
      BY <1>3 DEF FindImages, At
    <2>1. PICK ids \in SUBSET (Files \cup Foreign) :
             ids = posts[req[r].post].images
      BY <1>a, <2>0 DEF Knows, Owns, Request, Row
    <2>2. req' = [req EXCEPT ![r].pc = "begin", ![r].images = ids]
      BY <1>3, <2>1 DEF FindImages
    <2>3. /\ req' \in [Requests -> Request]
          /\ \A q \in Requests : q # r => req'[q] = req[q]
          /\ req'[r].kind = req[r].kind /\ req'[r].user = req[r].user
          /\ req'[r].post = req[r].post /\ req'[r].call = req[r].call
          /\ req'[r].images = ids /\ req'[r].pc = "begin"
          /\ req'[r].reply = "none"
      BY <1>a, <2>0, <2>2 DEF Request
    <2> QED BY <1>a, <2>0, <2>1, <2>3 DEF LearnsImages, SameRequest
  <1>4. CASE UploadAnswered(r)
    BY <1>4, <1>a, <1>d DEF UploadAnswered, At, Moves, SameRequest
  <1>5. CASE Commit(r)
    <2>1. /\ req[r].pc = "await" /\ req[r].reply = "none" /\ Accepted(r)
          /\ req[r].kind \in {"create", "delete"} /\ Release(r)
          /\ req[r].tx = "open"
          /\ posts' = [posts EXCEPT ![req[r].post] = Committed(r)]
          /\ UNCHANGED <<docs, objects, call>>
      BY <1>5, <1>a DEF Commit, At, Knows, fileVars
    <2>2. CASE req[r].kind = "create"
      <3>1. req' = [req EXCEPT ![r].pc = "view"]
        BY <1>5, <2>2 DEF Commit
      <3> QED BY <1>c, <1>e, <2>1, <2>2, <3>1
        DEF Commits, Committing, SameRequest
    <2>3. CASE req[r].kind = "delete"
      <3>1. Answer(r, "ok")
        BY <1>5, <2>3 DEF Commit
      <3> QED BY <1>c, <1>d, <2>1, <2>3, <3>1
        DEF Commits, Committing, SameRequest
    <2> QED BY <2>1, <2>2, <2>3
  <1>6. CASE CommitExpired(r)
    BY <1>6, <1>a, <1>d DEF CommitExpired, At, Moves, SameRequest
  <1>7. CASE RpcFails(r)
    BY <1>7, <1>a, <1>c, <1>d DEF RpcFails, At, Moves, SameRequest
  <1>8. CASE RpcTimesOut(r)
    BY <1>8, <1>a, <1>d DEF RpcTimesOut, At, Moves, SameRequest
  <1>9. CASE TxExpires(r)
    <2>1. CASE At(r, "begin") /\ Answer(r, "500")
      BY <1>9, <1>a, <1>c, <1>d, <2>1 DEF TxExpires, At, Moves, SameRequest
    <2>2. CASE /\ At(r, "await") /\ req[r].tx = "open"
               /\ req' = [req EXCEPT ![r].tx = "expired"]
      <3>1. /\ req' \in [Requests -> Request]
            /\ \A q \in Requests : q # r => req'[q] = req[q]
            /\ req'[r].kind = req[r].kind /\ req'[r].user = req[r].user
            /\ req'[r].post = req[r].post /\ req'[r].call = req[r].call
            /\ req'[r].images = req[r].images /\ req'[r].tx = "expired"
            /\ req'[r].pc = req[r].pc /\ req'[r].reply = req[r].reply
        BY <1>a, <2>2 DEF Request
      <3> QED BY <1>9, <1>c, <2>2, <3>1 DEF TxExpires, At, Moves, SameRequest
    <2> QED BY <1>9, <2>1, <2>2 DEF TxExpires
  <1>10. CASE UpdatePost(r)
    BY <1>10, <1>a, <1>e DEF UpdatePost, At, Moves, SameRequest
  <1>11. CASE GetPostView(r)
    BY <1>11, <1>a, <1>d, <1>e DEF GetPostView, At, Moves, SameRequest
  <1>12. CASE GetFilesInfo(r)
    BY <1>12, <1>a, <1>d DEF GetFilesInfo, At, Moves, SameRequest
  <1>13. CASE Crash(r)
    <2>1. /\ req' \in [Requests -> Request]
          /\ \A q \in Requests : q # r => req'[q] = req[q]
          /\ req'[r].kind = req[r].kind /\ req'[r].user = req[r].user
          /\ req'[r].post = req[r].post /\ req'[r].call = req[r].call
          /\ req'[r].images = req[r].images /\ req'[r].tx = req[r].tx
          /\ req'[r].pc = req[r].pc /\ req'[r].reply = "lost"
      BY <1>13, <1>a DEF Crash, Request
    <2>2. req[r].pc # "done"
      BY <1>13, <1>a DEF Crash, Knows
    <2> QED BY <1>13, <1>c, <2>1, <2>2 DEF Crash, Moves, SameRequest
  <1>14. CASE QueryFails(r)
    BY <1>14, <1>a, <1>d DEF QueryFails, At, Moves, SameRequest
  <1>15. CASE CommitFails(r)
    <2>1. /\ req[r].pc = "await" /\ req[r].reply = "none" /\ Accepted(r)
          /\ req[r].kind \in {"create", "delete"} /\ Release(r)
          /\ req[r].tx = "open" /\ Answer(r, "500")
          /\ UNCHANGED <<docs, objects, call>>
      BY <1>15, <1>a DEF CommitFails, At, Knows, fileVars
    <2>2. CASE posts' = posts
      BY <1>c, <1>d, <2>1, <2>2 DEF Moves, SameRequest
    <2>3. CASE posts' = [posts EXCEPT ![req[r].post] = Committed(r)]
      BY <1>c, <1>d, <2>1, <2>3 DEF Commits, Committing, SameRequest
    <2> QED BY <1>15, <2>2, <2>3 DEF CommitFails
  <1> QED BY <1>a, <1>1, <1>2, <1>3, <1>4, <1>5, <1>6, <1>7, <1>8, <1>9,
      <1>10, <1>11, <1>12, <1>13, <1>14, <1>15 DEF GoesOn
-----------------------------------------------------------------------------
(* A step, whoever takes it.                                               *)
Stepped ==
    \/ \E r \in Requests : Asks(r) \/ GoesOn(r)
    \/ \E c \in Calls : Serves(c)

(* No step forgets what was asked or answered.                             *)
LEMMA StepsGoOn ==
  ASSUME IInv, Stepped
  PROVE  CallsGoOn
  <1>1. ASSUME NEW r \in Requests, Asks(r) PROVE CallsGoOn
    <2>1. FS!Unsent.pc = "idle"
      BY DEF FS!Unsent
    <2>2. PICK c \in Calls : /\ call[c] = FS!Unsent
                             /\ \A d \in Calls : d # c => call'[d] = call[d]
      BY <1>1, AskStep DEF Asked, Begins
    <2> QED BY <2>1, <2>2 DEF CallsGoOn
  <1>2. ASSUME NEW r \in Requests, GoesOn(r) PROVE CallsGoOn
    BY <1>2, GoStep DEF CallsGoOn
  <1>3. ASSUME NEW c \in Calls, Serves(c) PROVE CallsGoOn
    BY <1>3, ServeStep DEF CallsGoOn, Serves
  <1> QED BY <1>1, <1>2, <1>3 DEF Stepped

(* The uploads that answered id x.                                         *)
Uploaders(x) ==
    \E c \in Calls : /\ call[c].cmd = "upload_file" /\ call[c].reply = "ok"
                     /\ x \in call[c].ids

(* The ids a client can name, before a step and after it.                  *)
LEMMA KnownAre ==
  /\ \A x : x \in Known <=> (x \in Uploaded \cup Foreign \/ Uploaders(x))
  /\ \A x : x \in Known' <=> (x \in Uploaded \cup Foreign \/ Uploaders(x)')
  BY DEF Known, FS!Known, FS!Uploads, Uploaders

(* A client knows no less after a step.                                    *)
LEMMA KnownGrows ==
  ASSUME IInv, CallsGoOn
  PROVE  Known \subseteq Known'
  <1>1. ASSUME NEW x, Uploaders(x) PROVE Uploaders(x)'
    <2>1. PICK c \in Calls : /\ call[c].cmd = "upload_file"
                             /\ call[c].reply = "ok" /\ x \in call[c].ids
      BY <1>1 DEF Uploaders
    <2>2. call[c].pc # "idle"
      BY <2>1 DEF IInv, ShapeOK, Shape, FS!Unsent
    <2> QED BY <2>1, <2>2 DEF CallsGoOn, Uploaders
  <1> QED BY <1>1, KnownAre

(* What a client can name, no upload under way stores.                     *)
LEMMA NothingStoredAgain ==
  ASSUME IInv, Stepped
  PROVE  Known \cap docs' \subseteq docs
  <1>1. ASSUME NEW c \in Calls, Serves(c), Stores(c), NEW x \in call[c].ids
        PROVE  x \notin Known
    <2>1. /\ x \in Files \ Uploaded /\ x \notin Foreign
          /\ call[c].reply = "none"
      BY <1>1, ServeStep, FilesAssumption
      DEF Serves, Stores, IInv, ShapeOK, Shape
    <2>2. ASSUME NEW d \in Calls, call[d].cmd = "upload_file",
                 call[d].reply = "ok", x \in call[d].ids
          PROVE  FALSE
      <3>1. d = c
        BY <1>1, <2>2 DEF IInv, UploadsApart, Stores, FS!Uploads
      <3> QED BY <2>1, <2>2, <3>1
    <2> QED BY <2>1, <2>2, KnownAre DEF Uploaders
  <1>2. ASSUME NEW r \in Requests, Asks(r) \/ GoesOn(r) PROVE docs' = docs
    BY <1>2, AskStep, GoStep
  <1>3. ASSUME NEW c \in Calls, Serves(c), ~Stores(c)
        PROVE  docs' \subseteq docs
    BY <1>3, ServeStep DEF Serves, Removes, FindsNothing
  <1>4. ASSUME NEW c \in Calls, Serves(c), Stores(c)
        PROVE  Known \cap docs' \subseteq docs
    BY <1>1, <1>4 DEF Stores
  <1> QED BY <1>2, <1>3, <1>4 DEF Stepped

-----------------------------------------------------------------------------
(* The calls keep their shape, and deletions what they have done.          *)
LEMMA CallsStep ==
  ASSUME IInv, Stepped
  PROVE  ShapeOK' /\ GoneOK' /\ UploadsApart' /\ RemovedByCall'
  <1>a. CallsGoOn /\ Known \subseteq Known' /\ Known \cap docs' \subseteq docs
    BY StepsGoOn, KnownGrows, NothingStoredAgain
  <1>b. /\ \A c \in Calls : Shape(call[c]) /\ Gone(call[c])
        /\ \A c \in Calls : call[c].cmd # "none" => call[c].pc # "idle"
    BY DEF IInv, ShapeOK, GoneOK, Shape, FS!Unsent
  <1>1. ASSUME NEW r \in Requests, GoesOn(r)
        PROVE  ShapeOK' /\ GoneOK' /\ UploadsApart' /\ RemovedByCall'
    <2>1. UNCHANGED <<docs, call>>
      BY <1>1, GoStep
    <2> QED BY <1>a, <2>1 DEF IInv, ShapeOK, Shape, GoneOK, Gone,
            UploadsApart, RemovedByCall, FS!Uploads
  <1>2. ASSUME NEW r \in Requests, Asks(r)
        PROVE  ShapeOK' /\ GoneOK' /\ UploadsApart' /\ RemovedByCall'
    <2>1. PICK c, cmd, ids : c \in Calls /\ Asked(r, c, cmd, ids)
      BY <1>2, AskStep
    <2>2. /\ call[c] = FS!Unsent /\ docs' = docs
          /\ \A d \in Calls : d # c => call'[d] = call[d]
          /\ call'[c].cmd = cmd /\ call'[c].ids = ids
          /\ call'[c].pc \in {"put", "find", "read"} /\ Shape(call'[c])
      BY <1>2, <2>1, AskStep DEF Asked, Begins
    <2>3. ShapeOK'
      BY <1>b, <2>2 DEF ShapeOK, Shape
    <2>4. GoneOK'
      <3>1. cmd = "delete_files" => ids \subseteq Known
        BY <2>1
        DEF Asked, AsksUpload, AsksCreate, AsksDelete, IInv, KnowsOK, Knows
      <3>2. Gone(call[c])'
        BY <1>a, <2>2, <3>1 DEF Gone
      <3>3. ASSUME NEW d \in Calls, d # c PROVE Gone(call[d])'
        BY <1>a, <1>b, <2>2, <3>3 DEF Gone
      <3> QED BY <3>2, <3>3 DEF GoneOK
    <2>5. UploadsApart'
      <3>1. call[c].cmd = "none"
        BY <2>2 DEF FS!Unsent
      <3>2. ASSUME cmd = "upload_file"
            PROVE  \A d \in FS!Uploads : ids \cap call[d].ids = {}
        BY <2>1, <3>2
        DEF Asked, AsksUpload, AsksCreate, AsksDelete, FS!Minted
      <3> QED BY <2>2, <3>1, <3>2 DEF IInv, UploadsApart, FS!Uploads
    <2>6. RemovedByCall'
      <3>1. call[c].cmd = "none"
        BY <2>2 DEF FS!Unsent
      <3> QED BY <2>2, <3>1 DEF IInv, RemovedByCall
    <2> QED BY <2>3, <2>4, <2>5, <2>6
  <1>3. ASSUME NEW c \in Calls, Serves(c)
        PROVE  ShapeOK' /\ GoneOK' /\ UploadsApart' /\ RemovedByCall'
    <2>1. /\ \A d \in Calls : d # c => call'[d] = call[d]
          /\ Shape(call'[c])
          /\ call'[c].cmd = call[c].cmd /\ call'[c].ids = call[c].ids
          /\ Stores(c) \/ Removes(c) \/ FindsNothing(c)
      BY <1>3, ServeStep DEF Serves
    <2>2. ShapeOK'
      BY <1>b, <2>1 DEF ShapeOK, Shape
    <2>3. GoneOK'
      <3>1. ASSUME NEW d \in Calls, d # c PROVE Gone(call[d])'
        BY <1>a, <1>b, <2>1, <3>1 DEF Gone
      <3>2. Gone(call[c])'
        <4>1. CASE Stores(c)
          BY <2>1, <4>1 DEF Gone, Stores
        <4>2. CASE Removes(c)
          BY <1>a, <1>b, <2>1, <4>2 DEF Gone, Removes
        <4>3. CASE FindsNothing(c)
          BY <1>a, <1>b, <2>1, <4>3 DEF Gone, FindsNothing
        <4> QED BY <2>1, <4>1, <4>2, <4>3
      <3> QED BY <3>1, <3>2 DEF GoneOK
    <2>4. UploadsApart'
      BY <2>1 DEF IInv, UploadsApart, FS!Uploads
    <2>5. RemovedByCall'
      <3> SUFFICES ASSUME NEW f \in Uploaded \ docs'
                   PROVE  \E d \in Calls : /\ call'[d].cmd = "delete_files"
                                           /\ f \in call'[d].ids
        BY DEF RemovedByCall
      <3>1. CASE f \notin docs
        BY <2>1, <3>1 DEF IInv, RemovedByCall
      <3>2. CASE f \in docs
        BY <2>1, <3>2 DEF Stores, Removes, FindsNothing
      <3> QED BY <3>1, <3>2
    <2> QED BY <2>2, <2>3, <2>4, <2>5
  <1> QED BY <1>1, <1>2, <1>3 DEF Stepped

(* Whoever takes a step, the requests that were made stay what they are.   *)
RequestsGoOn ==
    \A r \in Requests : req[r].kind # "none" =>
       /\ req'[r].kind = req[r].kind /\ req'[r].user = req[r].user
       /\ req'[r].post = req[r].post
       /\ req[r].call # None => req'[r].call = req[r].call
       /\ req[r].kind = "create" => req'[r].images = req[r].images

(* No step changes what a request asks for.                                *)
LEMMA StepsKeepRequests ==
  ASSUME IInv, Stepped
  PROVE  RequestsGoOn
  <1>a. /\ \A r \in Requests : Knows(req[r])
        /\ Waiting.kind = "none"
    BY DEF IInv, KnowsOK, Waiting
  <1>1. ASSUME NEW r \in Requests, Asks(r) PROVE RequestsGoOn
    <2>1. PICK c, cmd, ids : c \in Calls /\ Asked(r, c, cmd, ids)
      BY <1>1, AskStep
    <2>2. \A q \in Requests : q # r => req'[q] = req[q]
      BY <1>1, AskStep
    <2> QED BY <1>a, <2>1, <2>2
      DEF Asked, AsksUpload, AsksCreate, AsksDelete, RequestsGoOn, Knows
  <1>2. ASSUME NEW r \in Requests, GoesOn(r) PROVE RequestsGoOn
    <2>1. /\ \A q \in Requests : q # r => req'[q] = req[q]
          /\ \/ Starts(req[r], req'[r]) \/ Moves(req[r], req'[r])
             \/ LearnsImages(req[r], req'[r])
             \/ Committing(req[r], req'[r])
      BY <1>2, GoStep
    <2> QED BY <1>a, <2>1
      DEF Starts, Moves, LearnsImages, Committing, SameRequest, RequestsGoOn,
          Knows
  <1>3. ASSUME NEW c \in Calls, Serves(c) PROVE RequestsGoOn
    BY <1>3 DEF Serves, RequestsGoOn
  <1> QED BY <1>1, <1>2, <1>3 DEF Stepped

(* A deletion's request awaits its call to the end.                        *)
LEMMA AwaitedStep ==
  ASSUME IInv, Stepped
  PROVE  CallsAreAwaited'
  <1>a. /\ RequestsGoOn /\ CallsAreAwaited /\ NoneAssumption
        /\ \A r \in Requests : Knows(req[r])
    BY StepsKeepRequests, NoneAssumption DEF IInv, KnowsOK
  <1>b. ASSUME NEW d \in Calls, call[d].cmd = "delete_files"
        PROVE  \E r \in Requests : req'[r].kind = "delete" /\ req'[r].call = d
    <2>1. PICK r \in Requests : req[r].kind = "delete" /\ req[r].call = d
      BY <1>a, <1>b DEF CallsAreAwaited
    <2>2. req[r].call # None
      BY <2>1, NoneAssumption
    <2> QED BY <1>a, <2>1, <2>2 DEF RequestsGoOn
  <1>1. ASSUME NEW r \in Requests, Asks(r) PROVE CallsAreAwaited'
    <2>1. PICK c, cmd, ids : c \in Calls /\ Asked(r, c, cmd, ids)
      BY <1>1, AskStep
    <2>2. /\ \A d \in Calls : d # c => call'[d] = call[d]
          /\ call'[c].cmd = cmd /\ req'[r].call = c
      BY <2>1 DEF Asked, Begins
    <2>3. cmd = "delete_files" => req'[r].kind = "delete"
      BY <1>a, <2>1
      DEF Asked, AsksUpload, AsksCreate, AsksDelete, Knows
    <2> QED BY <1>b, <2>2, <2>3 DEF CallsAreAwaited
  <1>2. ASSUME NEW r \in Requests, GoesOn(r) PROVE CallsAreAwaited'
    <2>1. call' = call
      BY <1>2, GoStep
    <2> QED BY <1>b, <2>1 DEF CallsAreAwaited
  <1>3. ASSUME NEW c \in Calls, Serves(c) PROVE CallsAreAwaited'
    <2>1. \A d \in Calls : call'[d].cmd = call[d].cmd
      BY <1>3, ServeStep DEF Serves
    <2> QED BY <1>b, <2>1 DEF CallsAreAwaited
  <1> QED BY <1>1, <1>2, <1>3 DEF Stepped

-----------------------------------------------------------------------------
(* A post's creation, once there is one, is the only one and keeps its     *)
(* images.                                                                 *)
CreationsGoOn ==
    \A p \in PostIds :
       /\ \A ids : Created(p, ids) => Created(p, ids)'
       /\ \A ids, old : Created(p, old) /\ Created(p, ids)' => ids = old

LEMMA CreatesStep ==
  ASSUME IInv, Stepped
  PROVE  CreatesApart' /\ CreationsGoOn
  <1>a. RequestsGoOn /\ CreatesApart
    BY StepsKeepRequests DEF IInv
  <1>b. /\ \A r \in Requests : Knows(req[r])
        /\ Waiting.kind = "none"
    BY DEF IInv, KnowsOK, Waiting
  <1>c. ASSUME NEW p \in PostIds, NEW r \in Requests, Creates(req[r], p)
        PROVE  Creates(req'[r], p) /\ req'[r].images = req[r].images
    BY <1>a, <1>c DEF RequestsGoOn, Creates
  <1>d. ASSUME NEW p \in PostIds, NEW r \in Requests, Creates(req'[r], p),
               ~Creates(req[r], p)
        PROVE  /\ \A q \in Requests : ~Creates(req[q], p)
               /\ \A q \in Requests : q # r => req'[q] = req[q]
    <2>1. CASE Asks(r)
      <3>1. PICK c, cmd, ids : c \in Calls /\ Asked(r, c, cmd, ids)
        BY <2>1, AskStep
      <3>2. AsksCreate(req[r], req'[r], cmd, ids)
        BY <1>b, <1>d, <3>1
        DEF Asked, AsksUpload, AsksDelete, Creates, Knows
      <3> QED BY <1>d, <2>1, <3>2, AskStep DEF AsksCreate, Creates
    <2>2. CASE GoesOn(r)
      <3>1. \/ Starts(req[r], req'[r]) \/ Moves(req[r], req'[r])
            \/ LearnsImages(req[r], req'[r]) \/ Committing(req[r], req'[r])
        BY <2>2, GoStep
      <3> QED BY <1>d, <3>1
        DEF Starts, Moves, LearnsImages, Committing, SameRequest, Creates
    <2>3. CASE req'[r] = req[r]
      BY <1>d, <2>3
    <2>4. Asks(r) \/ GoesOn(r) \/ req'[r] = req[r]
      BY AskStep, GoStep DEF Stepped, Serves
    <2> QED BY <2>1, <2>2, <2>3, <2>4
  <1>1. CreatesApart'
    <2> SUFFICES ASSUME NEW p \in PostIds, NEW r1 \in Requests,
                        NEW r2 \in Requests, Creates(req'[r1], p),
                        Creates(req'[r2], p)
                 PROVE  r1 = r2
      BY DEF CreatesApart, Creates
    <2>1. CASE Creates(req[r1], p) /\ Creates(req[r2], p)
      BY <1>a, <2>1 DEF CreatesApart
    <2>2. CASE ~Creates(req[r1], p)
      BY <1>d, <2>2
    <2>3. CASE ~Creates(req[r2], p)
      BY <1>d, <2>3
    <2> QED BY <2>1, <2>2, <2>3
  <1>2. ASSUME NEW p \in PostIds
        PROVE  /\ \A ids : Created(p, ids) => Created(p, ids)'
               /\ \A ids, old : Created(p, old) /\ Created(p, ids)'
                                   => ids = old
    <2>1. ASSUME NEW ids, Created(p, ids) PROVE Created(p, ids)'
      BY <1>c, <2>1 DEF Created, Creates
    <2>2. ASSUME NEW ids, NEW old, Created(p, old), Created(p, ids)'
          PROVE  ids = old
      <3>1. PICK r \in Requests : Creates(req[r], p) /\ req[r].images = old
        BY <2>2 DEF Created
      <3>2. PICK s \in Requests : Creates(req'[s], p) /\ req'[s].images = ids
        BY <2>2 DEF Created, Creates
      <3>3. Creates(req'[r], p) /\ req'[r].images = old
        BY <1>c, <3>1
      <3>4. r = s
        BY <1>1, <3>2, <3>3 DEF CreatesApart, Creates
      <3> QED BY <3>2, <3>3, <3>4
    <2> QED BY <2>1, <2>2
  <1> QED BY <1>1, <1>2 DEF CreationsGoOn

(* Two creations of a post are one, and name ids a client can name.        *)
LEMMA CreatedOnce ==
  ASSUME IInv, NEW p \in PostIds, NEW ids, Created(p, ids)
  PROVE  /\ ids \subseteq Known
         /\ \A old : Created(p, old) => old = ids
  BY DEF IInv, KnowsOK, Knows, CreatesApart, Created

-----------------------------------------------------------------------------
(* A commit inserts the row of a post, or marks it deleted.                *)
LEMMA CommitStep ==
  ASSUME IInv, NEW r \in Requests, Commits(r)
  PROVE  /\ req[r].post \in PostIds
         /\ posts' \in [PostIds -> Row \cup {None}]
         /\ \A p \in PostIds : p # req[r].post => posts'[p] = posts[p]
         /\ posts'[req[r].post] # None
         /\ posts'[req[r].post].author = req[r].user
         /\ req[r].kind = "create" =>
               /\ posts[req[r].post] = None
               /\ posts'[req[r].post].isDeleted = FALSE
               /\ posts'[req[r].post].images = req[r].images
         /\ req[r].kind = "delete" =>
               /\ Owns(req[r])
               /\ posts'[req[r].post].isDeleted = TRUE
               /\ posts'[req[r].post].images = {}
  <1> DEFINE p == req[r].post
  <1>1. /\ posts \in [PostIds -> Row \cup {None}]
        /\ req[r] \in Request /\ Knows(req[r])
        /\ posts' = [posts EXCEPT ![p] = Committed(r)]
        /\ req[r].pc = "await" /\ req[r].kind \in {"create", "delete"}
    BY DEF IInv, TypeOK, KnowsOK, Commits
  <1>2. CASE req[r].kind = "create"
    <2> DEFINE n == [author |-> req[r].user, isDeleted |-> FALSE,
                     images |-> req[r].images]
    <2>1. /\ p \in PostIds /\ posts[p] = None /\ req[r].user \in Users
          /\ req[r].images \subseteq Files \cup Foreign
      BY <1>1, <1>2 DEF Knows, Request, NothingLeft
    <2>2. /\ n \in Row /\ n.author = req[r].user /\ n.isDeleted = FALSE
          /\ n.images = req[r].images
      BY <2>1 DEF Row
    <2>3. Committed(r) = n
      BY <1>2 DEF Committed
    <2> HIDE DEF n
    <2>4. n # None
      BY <2>2, NoneAssumption DEF Row
    <2>5. /\ posts' \in [PostIds -> Row \cup {None}] /\ posts'[p] = n
          /\ \A x \in PostIds : x # p => posts'[x] = posts[x]
      BY <1>1, <2>1, <2>2, <2>3
    <2> QED BY <1>2, <2>1, <2>2, <2>4, <2>5
  <1>3. CASE req[r].kind = "delete"
    <2> DEFINE n == [posts[p] EXCEPT !.isDeleted = TRUE, !.images = {}]
    <2>1. /\ p \in PostIds /\ posts[p] \in Row /\ posts[p].author = req[r].user
          /\ Owns(req[r])
      BY <1>1, <1>3 DEF Knows, Owns, Request
    <2>2. /\ n \in Row /\ n.author = posts[p].author /\ n.isDeleted = TRUE
          /\ n.images = {}
      BY <2>1 DEF Row
    <2>3. Committed(r) = n
      BY <1>3 DEF Committed
    <2> HIDE DEF n
    <2>4. n # None
      BY <2>2, NoneAssumption DEF Row
    <2>5. /\ posts' \in [PostIds -> Row \cup {None}] /\ posts'[p] = n
          /\ \A x \in PostIds : x # p => posts'[x] = posts[x]
      BY <1>1, <2>1, <2>2, <2>3
    <2> QED BY <1>3, <2>1, <2>2, <2>4, <2>5
  <1> QED BY <1>1, <1>2, <1>3

(* What every step leaves of a post that was created.                      *)
PostsGoOn ==
    \A p \in PostIds : posts[p] # None =>
       /\ posts'[p] # None /\ posts'[p].author = posts[p].author
       /\ posts[p].isDeleted => posts'[p].isDeleted /\ posts'[p].images = {}

(* Rows are inserted and marked deleted, and nothing else.                 *)
LEMMA PostsStep ==
  ASSUME IInv, Stepped
  PROVE  posts' \in [PostIds -> Row \cup {None}] /\ PostsGoOn
  <1>a. /\ posts \in [PostIds -> Row \cup {None}] /\ PostsOK
    BY DEF IInv, TypeOK
  <1>1. CASE posts' = posts
    BY <1>1, <1>a DEF PostsGoOn, PostsOK
  <1>2. ASSUME NEW r \in Requests, Commits(r)
        PROVE  posts' \in [PostIds -> Row \cup {None}] /\ PostsGoOn
    <2>1. posts' \in [PostIds -> Row \cup {None}]
      BY <1>2, CommitStep
    <2> SUFFICES ASSUME NEW p \in PostIds, posts[p] # None
                 PROVE  /\ posts'[p] # None
                        /\ posts'[p].author = posts[p].author
                        /\ posts[p].isDeleted =>
                              posts'[p].isDeleted /\ posts'[p].images = {}
      BY <2>1 DEF PostsGoOn
    <2>2. CASE p # req[r].post
      BY <1>2, <1>a, <2>2, CommitStep DEF PostsOK
    <2>3. CASE p = req[r].post
      BY <1>2, <2>3, CommitStep DEF Owns, Commits
    <2> QED BY <2>2, <2>3
  <1>3. posts' = posts \/ \E r \in Requests : Commits(r)
    BY AskStep, GoStep DEF Stepped, Serves
  <1> QED BY <1>1, <1>2, <1>3

(* A deletion commits when the documents of the post's images are gone.    *)
LEMMA CommittedDeletion ==
  ASSUME IInv, NEW r \in Requests, Commits(r), req[r].kind = "delete",
         NEW ids, Created(req[r].post, ids)
  PROVE  ids \cap docs = {}
  <1>1. /\ Knows(req[r]) /\ req[r].post \in PostIds /\ Owns(req[r])
        /\ req[r].pc = "await" /\ Accepted(r)
    BY CommitStep DEF IInv, KnowsOK, Commits
  <1>2. CASE posts[req[r].post].isDeleted
    BY <1>1, <1>2 DEF IInv, PostsOK, Owns
  <1>3. CASE Created(req[r].post, req[r].images)
    <2>1. ids = req[r].images
      BY <1>1, <1>3, CreatedOnce
    <2>2. PICK c \in Calls : c = req[r].call
      BY <1>1 DEF Knows, IInv, TypeOK, Request
    <2>3. /\ call[c].cmd = "delete_files" /\ call[c].ids = ids
          /\ call[c].reply \in {"ok", "isSuccess:false"}
      BY <1>1, <2>1, <2>2 DEF Knows, Accepted, Reply
    <2>4. Shape(call[c]) /\ Gone(call[c])
      BY DEF IInv, ShapeOK, GoneOK
    <2> QED BY <2>3, <2>4 DEF Shape, Gone
  <1> QED BY <1>1, <1>2, <1>3 DEF Knows

(* Every post has its creation, and a deleted one no documents.            *)
LEMMA PostsOKStep ==
  ASSUME IInv, Stepped
  PROVE  PostsOK'
  <1>a. PostsOK /\ CreationsGoOn /\ Known \cap docs' \subseteq docs
    BY CreatesStep, NothingStoredAgain DEF IInv
  <1>b. posts' = posts \/ \E r \in Requests : Commits(r) /\ docs' = docs
                                /\ Committing(req[r], req'[r])
    BY AskStep, GoStep DEF Stepped, Serves
  <1> SUFFICES ASSUME NEW p \in PostIds, posts'[p] # None
               PROVE  /\ \E ids : Created(p, ids)'
                      /\ IF posts'[p].isDeleted
                           THEN /\ posts'[p].images = {}
                                /\ \A ids : Created(p, ids)' =>
                                               ids \cap docs' = {}
                           ELSE Created(p, posts[p].images)'
    BY DEF PostsOK
  <1>1. CASE posts'[p] = posts[p]
    <2>1. PICK old : Created(p, old)
      BY <1>1, <1>a DEF PostsOK
    <2>2. old \subseteq Known /\ Created(p, old)'
          /\ \A ids : Created(p, ids)' => ids = old
      BY <1>a, <2>1, CreatedOnce DEF CreationsGoOn
    <2>3. CASE posts[p].isDeleted
      BY <1>1, <1>a, <2>1, <2>2, <2>3 DEF PostsOK
    <2>4. CASE ~posts[p].isDeleted
      <3>1. Created(p, posts[p].images)
        BY <1>1, <1>a, <2>4 DEF PostsOK
      <3>2. posts[p].images = old
        BY <2>1, <3>1, CreatedOnce
      <3>3. Created(p, posts[p].images)'
        BY <1>1, <2>2, <3>2 DEF Created
      <3> QED BY <1>1, <2>2, <2>4, <3>3
    <2> QED BY <2>3, <2>4
  <1>2. ASSUME NEW r \in Requests, Commits(r), docs' = docs,
               Committing(req[r], req'[r]), p = req[r].post
        PROVE  /\ \E ids : Created(p, ids)'
               /\ IF posts'[p].isDeleted
                    THEN /\ posts'[p].images = {}
                         /\ \A ids : Created(p, ids)' => ids \cap docs' = {}
                    ELSE Created(p, posts[p].images)'
    <2>1. CASE req[r].kind = "create"
      <3>1. Created(p, req[r].images)'
        BY <1>2, <2>1 DEF Committing, SameRequest, Created, Creates
      <3>2. posts'[p].isDeleted = FALSE /\ posts'[p].images = req[r].images
        BY <1>2, <2>1, CommitStep
      <3>3. Created(p, posts[p].images)'
        BY <1>2, <2>1, <3>2 DEF Committing, SameRequest, Created, Creates
      <3> QED BY <3>1, <3>2, <3>3
    <2>2. CASE req[r].kind = "delete"
      <3>1. /\ posts[p] # None
            /\ posts'[p].isDeleted = TRUE /\ posts'[p].images = {}
        BY <1>2, <2>2, CommitStep DEF Owns
      <3>2. PICK old : Created(p, old)
        BY <1>a, <3>1 DEF PostsOK
      <3>3. old \cap docs = {}
        BY <1>2, <2>2, <3>2, CommittedDeletion
      <3>4. Created(p, old)' /\ \A ids : Created(p, ids)' => ids = old
        BY <1>a, <3>2 DEF CreationsGoOn
      <3> QED BY <1>2, <3>1, <3>3, <3>4
    <2> QED BY <1>2, <2>1, <2>2 DEF Commits
  <1> QED BY <1>1, <1>2, <1>b, CommitStep

-----------------------------------------------------------------------------
(* What a request knows stays true while others take steps, but for a      *)
(* pending creation, whose post must not have been inserted meanwhile.     *)
LEMMA KnowsLasts ==
  ASSUME IInv, Stepped, NEW q \in Request, Knows(q),
         q.kind = "create" /\ posts[q.post] = None => posts'[q.post] = None
  PROVE  Knows(q)'
  <1>a. /\ CallsGoOn /\ PostsGoOn /\ CreationsGoOn
        /\ Known \subseteq Known'
    BY StepsGoOn, PostsStep, CreatesStep, KnownGrows
  <1>1. Owns(q) => Owns(q)' /\ (posts[q.post].isDeleted =>
                                   posts'[q.post].isDeleted)
    BY <1>a DEF Owns, PostsGoOn, Request
  <1>2. q.kind = "create" =>
          /\ q.user # None /\ q.post # None
          /\ q.pc \in {"await", "view", "urls", "done"}
          /\ NothingLeft(q) => posts'[q.post] = None
          /\ q.pc \in {"view", "urls"} => q.tx # "expired"
          /\ q.pc \in {"view", "urls"} \/ q.reply \in {"ok", "404"} => Owns(q)'
          /\ q.reply = "404" => posts'[q.post].isDeleted
    BY <1>1 DEF Knows
  <1>3. q.kind = "delete" =>
          /\ q.pc \in {"images", "begin", "await", "done"}
          /\ q.pc # "done" \/ q.call # None => Owns(q)'
          /\ q.pc \in {"begin", "await"} \/ q.call # None =>
                \/ Created(q.post, q.images)'
                \/ q.images = {} /\ posts'[q.post].isDeleted
          /\ q.call # None => /\ call'[q.call].cmd = "delete_files"
                              /\ call'[q.call].ids = q.images
          /\ q.reply = "ok" => Owns(q)' /\ posts'[q.post].isDeleted
    <2> SUFFICES ASSUME q.kind = "delete"
                 PROVE  /\ q.pc \in {"images", "begin", "await", "done"}
                        /\ q.pc # "done" \/ q.call # None => Owns(q)'
                        /\ q.pc \in {"begin", "await"} \/ q.call # None =>
                              \/ Created(q.post, q.images)'
                              \/ q.images = {} /\ posts'[q.post].isDeleted
                        /\ q.call # None =>
                              /\ call'[q.call].cmd = "delete_files"
                              /\ call'[q.call].ids = q.images
                        /\ q.reply = "ok" =>
                              Owns(q)' /\ posts'[q.post].isDeleted
      OBVIOUS
    <2>1. ASSUME q.call # None
          PROVE  /\ call'[q.call].cmd = "delete_files"
                 /\ call'[q.call].ids = q.images
      <3>1. /\ q.call \in Calls /\ call[q.call].cmd = "delete_files"
            /\ call[q.call].ids = q.images
        BY <2>1 DEF Knows, Request
      <3>2. call[q.call].pc # "idle"
        BY <3>1 DEF IInv, ShapeOK, Shape, FS!Unsent
      <3> QED BY <1>a, <3>1, <3>2 DEF CallsGoOn
    <2>2. ASSUME q.pc \in {"begin", "await"} \/ q.call # None
          PROVE  \/ Created(q.post, q.images)'
                 \/ q.images = {} /\ posts'[q.post].isDeleted
      <3>1. Owns(q) /\ q.post \in PostIds
        BY <2>2 DEF Knows, Owns, Request
      <3>2. \/ Created(q.post, q.images)
            \/ q.images = {} /\ posts[q.post].isDeleted
        BY <2>2 DEF Knows
      <3>3. Created(q.post, q.images) => Created(q.post, q.images)'
        BY <1>a, <3>1 DEF CreationsGoOn
      <3> QED BY <1>1, <3>1, <3>2, <3>3
    <2> QED BY <1>1, <2>1, <2>2 DEF Knows
  <1>4. q.images \subseteq Known'
    BY <1>a DEF Knows
  <1> QED BY <1>1, <1>2, <1>3, <1>4 DEF Knows

(* A request that sends an RPC knows what it will rely on.                 *)
LEMMA AskingKnows ==
  ASSUME IInv, NEW r \in Requests, Asks(r)
  PROVE  Knows(req[r])'
  <1>a. /\ Stepped /\ req[r] \in Request /\ Knows(req[r])
        /\ req'[r] \in Request
    BY AskStep DEF Stepped, IInv, TypeOK, KnowsOK
  <1>b. /\ CallsGoOn /\ PostsGoOn /\ CreationsGoOn /\ posts' = posts
        /\ Known \subseteq Known'
    BY <1>a, StepsGoOn, PostsStep, CreatesStep, KnownGrows, AskStep
  <1>1. PICK c, cmd, ids : c \in Calls /\ Asked(r, c, cmd, ids)
    BY AskStep
  <1>2. /\ req'[r].pc = "await" /\ req'[r].reply = "none"
        /\ req'[r].call = c /\ c # None
        /\ call'[c].cmd = cmd /\ call'[c].ids = ids
    BY <1>1, NoneAssumption DEF Asked, Begins
  <1>3. CASE AsksUpload(req[r], req'[r], cmd, ids)
    BY <1>2, <1>3 DEF AsksUpload, Knows
  <1>4. CASE AsksCreate(req[r], req'[r], cmd, ids)
    <2>1. posts[req'[r].post] = None
      <3>1. \A s : ~Created(req'[r].post, s)
        BY <1>4 DEF AsksCreate, Created
      <3> QED BY <1>4, <3>1 DEF AsksCreate, IInv, PostsOK
    <2>2. req'[r].images \subseteq Known'
      BY <1>b, <1>4 DEF AsksCreate
    <2> QED BY <1>b, <1>2, <1>4, <2>1, <2>2, NoneAssumption
      DEF AsksCreate, Knows
  <1>5. CASE AsksDelete(req[r], req'[r], cmd, ids)
    <2>1. /\ req[r].kind = "delete" /\ Owns(req[r])
          /\ \/ Created(req[r].post, req[r].images)
             \/ req[r].images = {} /\ posts[req[r].post].isDeleted
          /\ req[r].images \subseteq Known'
      BY <1>a, <1>b, <1>5 DEF AsksDelete, Knows
    <2>2. PICK p, old : /\ p \in PostIds /\ p = req[r].post
                         /\ old = req[r].images
      BY <1>a, <2>1 DEF Owns, Request
    <2>3. Created(p, old)' \/ (old = {} /\ posts'[p].isDeleted)
      BY <1>b, <2>1, <2>2 DEF CreationsGoOn
    <2>4. Owns(req[r])'
      BY <1>b, <1>5, <2>1 DEF AsksDelete, Owns
    <2>5. /\ req'[r].kind = "delete" /\ req'[r].post = p
          /\ req'[r].images = old /\ ids = old /\ req'[r].tx = "open"
          /\ cmd = "delete_files"
      BY <1>5, <2>1, <2>2 DEF AsksDelete
    <2>6. Created(req[r].post, req[r].images)'
             \/ (req'[r].images = {} /\ posts'[req'[r].post].isDeleted)
      BY <2>3, <2>5 DEF Created
    <2> QED BY <1>2, <2>1, <2>2, <2>4, <2>5, <2>6 DEF Knows
  <1> QED BY <1>1, <1>3, <1>4, <1>5 DEF Asked

(* A request that goes on has done what it says.                           *)
LEMMA GoingOnKnows ==
  ASSUME IInv, NEW r \in Requests, GoesOn(r)
  PROVE  Knows(req[r])'
  <1>a. /\ Stepped /\ req[r] \in Request /\ Knows(req[r])
        /\ req'[r] \in Request /\ call' = call
    BY GoStep DEF Stepped, IInv, TypeOK, KnowsOK
  <1>b. /\ PostsGoOn /\ CreationsGoOn /\ Known \subseteq Known'
    BY <1>a, StepsGoOn, PostsStep, CreatesStep, KnownGrows
  <1>c. PICK q \in Request, n \in Request : q = req[r] /\ n = req'[r]
    BY <1>a
  <1>d. Knows(q)
    BY <1>a, <1>c
  <1>e. Owns(q) => Owns(q)'
    BY <1>b, <1>c DEF Owns, PostsGoOn, Request
  <1> SUFFICES Knows(n)'
    BY <1>c DEF Knows, Owns, Created
  <1>1. CASE posts' = posts /\ Starts(q, n)
    BY <1>1, NoneAssumption DEF Starts, Knows, Owns, NothingLeft
  <1>2. CASE posts' = posts /\ LearnsImages(q, n)
    <2>1. /\ q.kind = "delete" /\ Owns(q) /\ q.post \in PostIds
          /\ q.call = None
      BY <1>2, <1>d DEF LearnsImages, SameRequest, Knows, Owns, Request
    <2>2. PICK p, old :
             /\ p \in PostIds /\ posts[p] # None
             /\ p = q.post /\ old = posts[p].images
      BY <2>1 DEF Owns
    <2>3. /\ old \subseteq Known
          /\ Created(p, old) \/ (old = {} /\ posts[p].isDeleted)
      <3>1. Created(p, old) \/ (old = {} /\ posts[p].isDeleted)
        BY <2>2 DEF IInv, PostsOK
      <3> QED BY <2>2, <3>1, CreatedOnce
    <2>4. /\ old \subseteq Known'
          /\ Created(p, old)' \/ (old = {} /\ posts'[p].isDeleted)
      BY <1>2, <1>b, <2>2, <2>3 DEF CreationsGoOn
    <2>5. /\ n.kind = "delete" /\ n.post = p /\ n.images = old
          /\ n.call = None /\ n.pc = "begin" /\ n.reply = "none"
      BY <1>2, <2>1, <2>2 DEF LearnsImages, SameRequest
    <2>6. Created(n.post, n.images)'
             \/ (n.images = {} /\ posts'[n.post].isDeleted)
      BY <2>4, <2>5
    <2>7. Owns(n)'
      BY <1>2, <1>e, <2>1 DEF LearnsImages, SameRequest, Owns
    <2> QED BY <2>4, <2>5, <2>6, <2>7 DEF Knows, NothingLeft
  <1>3. CASE posts' = posts /\ Moves(q, n)
    <2>1. Knows(q)'
      BY <1>3, <1>a, <1>d, KnowsLasts
    <2>2. /\ SameRequest(q, n) /\ n.images = q.images
          /\ n.tx = q.tx \/ (q.pc = "await" /\ q.tx # "none"
                               /\ n.tx = "expired")
      BY <1>3 DEF Moves
    <2>3. Owns(q)' => Owns(n)'
      BY <2>2 DEF SameRequest, Owns
    <2>4. CASE n.pc = q.pc /\ n.reply \in {"none", "lost"}
      BY <2>1, <2>2, <2>3, <2>4 DEF SameRequest, Knows, NothingLeft
    <2>5. CASE q.pc \in {"begin", "await"} /\ n.pc = "done"
               /\ n.reply \in {"500", "502"}
      BY <2>1, <2>2, <2>3, <2>5 DEF SameRequest, Knows, NothingLeft
    <2>11. CASE q.pc \in {"images", "update", "view"} /\ n.pc = "done"
                /\ n.reply = "500"
      BY <2>1, <2>2, <2>3, <2>11 DEF SameRequest, Knows, NothingLeft
    <2>6. CASE q.pc = "await" /\ q.kind = "upload" /\ n.pc = "done"
               /\ n.reply = "ok"
      BY <2>1, <2>2, <2>6 DEF SameRequest, Knows, NothingLeft
    <2>7. CASE q.pc = "update" /\ n.pc = "view" /\ n.reply = "none"
      BY <2>1, <2>2, <2>3, <2>7 DEF SameRequest, Knows, NothingLeft
    <2>8. CASE q.pc = "view" /\ Visible(q.post, q.user) /\ n.pc = "urls"
               /\ n.reply = "none"
      <3>1. Owns(q)'
        BY <1>3, <2>1, <2>8 DEF Visible, Knows, Owns
      <3> QED BY <2>1, <2>2, <2>3, <2>8, <3>1
        DEF SameRequest, Knows, NothingLeft
    <2>9. CASE q.pc = "view" /\ ~Visible(q.post, q.user) /\ n.pc = "done"
               /\ n.reply = "404"
      <3>1. q.kind = "create" => Owns(q)' /\ posts'[q.post].isDeleted
        BY <1>3, <2>1, <2>9 DEF Visible, Knows, Owns
      <3> QED BY <2>1, <2>2, <2>3, <2>9, <3>1
        DEF SameRequest, Knows, NothingLeft
    <2>10. CASE q.pc = "urls" /\ n.pc = "done" /\ n.reply = "ok"
      BY <2>1, <2>2, <2>3, <2>10 DEF SameRequest, Knows, NothingLeft
    <2> QED BY <1>3, <2>4, <2>5, <2>6, <2>7, <2>8, <2>9, <2>10, <2>11
       DEF Moves
  <1>4. CASE Commits(r) /\ Committing(q, n)
    <2>0. /\ SameRequest(q, n) /\ n.images = q.images
          /\ q.post \in PostIds /\ q.user # None /\ q.post # None
          /\ posts'[q.post] # None /\ posts'[q.post].author = q.user
      <3>1. q.user # None /\ q.post # None
        BY <1>4, <1>c, <1>d DEF Commits, Knows, Owns
      <3> QED BY <1>4, <1>c, <3>1, CommitStep DEF Committing
    <2>1. Owns(n)' /\ n.images \subseteq Known'
      BY <1>b, <1>d, <2>0 DEF SameRequest, Owns, Knows
    <2>2. CASE q.kind = "create"
      BY <1>4, <2>0, <2>1, <2>2 DEF Committing, SameRequest, Knows, NothingLeft
    <2>3. CASE q.kind = "delete"
      <3>1. Knows(q)'
        BY <1>a, <1>d, <2>3, KnowsLasts
      <3>2. posts'[q.post].isDeleted
        BY <1>4, <1>c, <2>3, CommitStep
      <3> QED BY <1>4, <2>0, <2>1, <2>3, <3>1, <3>2
        DEF Committing, SameRequest, Knows, NothingLeft
    <2> QED BY <1>4, <1>c, <2>2, <2>3 DEF Commits
  <1> QED BY <1>c, <1>1, <1>2, <1>3, <1>4, GoStep

(* What the requests know stays true.                                      *)
LEMMA KnowsStep ==
  ASSUME IInv, Stepped
  PROVE  KnowsOK'
  <1>a. \A r \in Requests : req[r] \in Request /\ Knows(req[r])
    BY DEF IInv, TypeOK, KnowsOK
  <1> SUFFICES ASSUME NEW r \in Requests
               PROVE  Knows(req[r])'
    BY DEF KnowsOK
  <1>1. CASE Asks(r)
    BY <1>1, AskingKnows
  <1>2. CASE GoesOn(r)
    BY <1>2, GoingOnKnows
  <1>3. CASE ~Asks(r) /\ ~GoesOn(r)
    <2>1. req'[r] = req[r]
      BY <1>3, AskStep, GoStep DEF Stepped, Serves
    <2>2. PICK q \in Request : q = req[r] /\ Knows(q)
      BY <1>a
    <2>3. ASSUME q.kind = "create", posts[q.post] = None
          PROVE  posts'[q.post] = None
      <3>1. ASSUME NEW s \in Requests, Commits(s), s # r
            PROVE  posts'[q.post] = None
        <4>1. q.post \in PostIds
          BY <2>2, <2>3 DEF Knows, Request
        <4>2. req[s].post # q.post
          <5>1. CASE req[s].kind = "create"
            BY <2>2, <2>3, <3>1, <4>1, <5>1 DEF IInv, CreatesApart, Creates
          <5>2. CASE req[s].kind = "delete"
            BY <2>3, <3>1, <5>2, CommitStep DEF Owns
          <5> QED BY <3>1, <5>1, <5>2 DEF Commits
        <4> QED BY <2>3, <3>1, <4>1, <4>2, CommitStep
      <3>2. posts' = posts \/ \E s \in Requests : Commits(s) /\ s # r
        BY <1>3, AskStep, GoStep DEF Stepped, Serves
      <3> QED BY <2>3, <3>1, <3>2
    <2>4. Knows(q)'
      BY <2>2, <2>3, KnowsLasts
    <2> QED BY <2>1, <2>2, <2>4 DEF Knows, Owns, Created
  <1> QED BY <1>1, <1>2, <1>3

-----------------------------------------------------------------------------
(* The types.                                                              *)
LEMMA TypeStep ==
  ASSUME IInv, Stepped
  PROVE  TypeOK'
  <1>a. TypeOK /\ posts' \in [PostIds -> Row \cup {None}]
    BY PostsStep DEF IInv
  <1>1. ASSUME NEW r \in Requests, Asks(r) PROVE TypeOK'
    <2>1. call' \in [Calls -> FS!Call]
      BY <1>1, AskStep DEF Asked, Begins
    <2> QED BY <1>1, <1>a, <2>1, AskStep DEF TypeOK, FS!TypeOK
  <1>2. ASSUME NEW r \in Requests, GoesOn(r) PROVE TypeOK'
    BY <1>2, <1>a, GoStep DEF TypeOK, FS!TypeOK
  <1>3. ASSUME NEW c \in Calls, Serves(c) PROVE TypeOK'
    BY <1>3, <1>a, ServeStep DEF TypeOK, FS!TypeOK, Serves
  <1> QED BY <1>1, <1>2, <1>3 DEF Stepped

(* The invariant holds when no request has been made.                      *)
LEMMA InitIInv == Init => IInv
  <1> SUFFICES ASSUME Init
               PROVE  IInv
    OBVIOUS
  <1>a. /\ docs = Uploaded /\ objects = Uploaded
        /\ call \in [Calls -> FS!Call] /\ \A c \in Calls : call[c] = FS!Unsent
        /\ posts \in [PostIds -> {None}] /\ lock \in [PostIds -> {None}]
        /\ req \in [Requests -> Request]
        /\ \A r \in Requests : req[r] = Waiting
    BY DEF Init, FS!Unsent, FS!Call, Waiting, Request
  <1>1. TypeOK
    BY <1>a, UploadedAssumption DEF TypeOK, FS!TypeOK
  <1>2. ShapeOK /\ GoneOK /\ UploadsApart /\ RemovedByCall /\ CallsAreAwaited
    BY <1>a
    DEF ShapeOK, Shape, GoneOK, Gone, UploadsApart, RemovedByCall,
        CallsAreAwaited, FS!Uploads, FS!Unsent
  <1>3. CreatesApart /\ PostsOK
    BY <1>a DEF CreatesApart, Creates, PostsOK, Waiting
  <1>4. KnowsOK
    BY <1>a DEF KnowsOK, Knows, Waiting
  <1> QED BY <1>1, <1>2, <1>3, <1>4 DEF IInv

(* Every step preserves the invariant.                                     *)
LEMMA NextIInv == IInv /\ [Next]_vars => IInv'
  <1> SUFFICES ASSUME IInv, [Next]_vars
               PROVE  IInv'
    OBVIOUS
  <1>1. CASE Stepped
    BY <1>1, TypeStep, CallsStep, AwaitedStep, CreatesStep, PostsOKStep,
       KnowsStep
    DEF IInv
  <1>2. CASE UNCHANGED vars
    <2>1. UNCHANGED <<docs, objects, call, posts, lock, req>>
      BY <1>2 DEF vars
    <2>2. TypeOK' /\ ShapeOK' /\ UploadsApart' /\ RemovedByCall'
          /\ CallsAreAwaited'
      BY <2>1
      DEF IInv, TypeOK, FS!TypeOK, ShapeOK, UploadsApart, RemovedByCall,
          CallsAreAwaited, FS!Uploads
    <2>3. GoneOK' /\ CreatesApart' /\ PostsOK'
      BY <2>1
      DEF IInv, GoneOK, Gone, Known, FS!Known, FS!Uploads, CreatesApart,
          PostsOK, Created
    <2>4. KnowsOK'
      BY <2>1
      DEF IInv, KnowsOK, Knows, Known, FS!Known, FS!Uploads, Owns, Created
    <2> QED BY <2>2, <2>3, <2>4 DEF IInv
  <1> QED BY <1>1, <1>2, NextIsStep DEF Stepped

(* IInv holds of every behaviour.                                          *)
LEMMA InductiveInvariant == Spec => []IInv
  BY InitIInv, NextIInv, PTL DEF Spec

-----------------------------------------------------------------------------
(* Documents, rows and requests keep the shapes the two databases and the  *)
(* handlers give them.                                                     *)
THEOREM TypeCorrect == Spec => []TypeOK
  <1>1. IInv => TypeOK
    BY DEF IInv
  <1> QED BY <1>1, InductiveInvariant, PTL

(* The creation a property chooses is the one there is.                    *)
LEMMA TheCreation ==
  ASSUME IInv, NEW p \in PostIds, NEW ids, Created(p, ids)
  PROVE  ImagesOnceOf(p) = ids
  <1>1. PICK r \in Requests : Creates(req[r], p) /\ req[r].images = ids
    BY DEF Created
  <1>2. CreationOf(p) \in Requests /\ Creates(req[CreationOf(p)], p)
    BY <1>1 DEF CreationOf, Creates
  <1>3. CreationOf(p) = r
    BY <1>1, <1>2 DEF IInv, CreatesApart
  <1> QED BY <1>1, <1>3 DEF ImagesOnceOf

(* A deleted post has left no document of its images: DeletePost commits   *)
(* when deleteFiles has answered, and nothing uploads those ids again.     *)
THEOREM DeletionsTakeTheDocuments == Spec => []DeletedPostsLeaveNoDocuments
  <1>1. ASSUME IInv PROVE DeletedPostsLeaveNoDocuments
    <2> SUFFICES ASSUME NEW p \in PostIds, posts[p] # None,
                        posts[p].isDeleted
                 PROVE  ImagesOnceOf(p) \cap docs = {}
      BY DEF DeletedPostsLeaveNoDocuments
    <2>1. PICK ids : Created(p, ids)
      BY <1>1 DEF IInv, PostsOK
    <2>2. ids \cap docs = {}
      BY <1>1, <2>1 DEF IInv, PostsOK
    <2> QED BY <1>1, <2>1, <2>2, TheCreation
  <1> QED BY <1>1, InductiveInvariant, PTL

(* A file that is gone was named by a call that a deletion awaits; the     *)
(* call names the images of the creation of a post, and the request is its *)
(* author's.                                                               *)
THEOREM RemovalsAreTheAuthors == Spec => []OnlyAuthorsRemoveFiles
  <1>1. ASSUME IInv PROVE OnlyAuthorsRemoveFiles
    <2> SUFFICES ASSUME NEW f \in Uploaded \ docs
                 PROVE  \E r \in Requests :
                           /\ req[r].kind = "delete" /\ req[r].call # None
                           /\ posts[req[r].post].author = req[r].user
                           /\ f \in ImagesOnceOf(req[r].post)
      BY DEF OnlyAuthorsRemoveFiles
    <2>1. PICK c \in Calls : call[c].cmd = "delete_files"
                             /\ f \in call[c].ids
      BY <1>1 DEF IInv, RemovedByCall
    <2>2. PICK r \in Requests : req[r].kind = "delete" /\ req[r].call = c
      BY <1>1, <2>1 DEF IInv, CallsAreAwaited
    <2>3. /\ Knows(req[r]) /\ req[r] \in Request /\ req[r].call # None
      BY <1>1, <2>2, NoneAssumption DEF IInv, KnowsOK, TypeOK
    <2>4. /\ Owns(req[r]) /\ req[r].post \in PostIds
          /\ f \in req[r].images
      BY <2>1, <2>2, <2>3 DEF Knows, Owns, Request
    <2>5. Created(req[r].post, req[r].images)
      BY <2>2, <2>3, <2>4 DEF Knows
    <2> QED BY <1>1, <2>2, <2>3, <2>4, <2>5, TheCreation DEF Owns
  <1> QED BY <1>1, InductiveInvariant, PTL

(* The answers are true of the rows, although an answer is sent after the  *)
(* commit and a transaction may have expired before it.                    *)
THEOREM AnswersAreTrueAlways == Spec => []AnswersAreTrue
  <1>1. ASSUME IInv PROVE AnswersAreTrue
    <2> SUFFICES ASSUME NEW r \in Requests
                 PROVE
          /\ req[r].kind = "delete" /\ req[r].reply = "ok"
                => posts[req[r].post].isDeleted
          /\ req[r].kind = "create" /\ req[r].reply = "ok"
                => posts[req[r].post] # None
          /\ req[r].kind = "create"
             /\ (req[r].reply = "502"
                   \/ (req[r].reply = "500" /\ req[r].tx = "expired"))
                => posts[req[r].post] = None
          /\ req[r].kind = "create" /\ req[r].reply = "404"
                => posts[req[r].post].isDeleted
          /\ req[r].kind \in {"get", "update"} /\ req[r].reply = "ok"
                => posts[req[r].post].author = req[r].user
      BY DEF AnswersAreTrue
    <2> QED BY <1>1 DEF IInv, KnowsOK, Knows, Owns, NothingLeft
  <1> QED BY <1>1, InductiveInvariant, PTL

(* No step of anybody brings a deleted post back.                          *)
THEOREM DeletionIsFinalAlways == Spec => DeletionIsFinal
  <1>1. ASSUME IInv, [Next]_vars
        PROVE  [\A p \in PostIds :
                  (posts[p] # None /\ posts[p].isDeleted)
                     => posts'[p] # None /\ posts'[p].isDeleted
                           /\ posts'[p].images = {}]_vars
    <2>1. CASE Next
      BY <1>1, <2>1, NextIsStep, PostsStep DEF Stepped, PostsGoOn
    <2>2. CASE UNCHANGED vars
      BY <2>2
    <2> QED BY <1>1, <2>1, <2>2
  <1> QED BY <1>1, InductiveInvariant, PTL DEF Spec, DeletionIsFinal
=============================================================================
