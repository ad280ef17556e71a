---------------------------- MODULE AvatarsProofs ----------------------------
(***************************************************************************)
(* Theorems about Avatars, for any number of users, files and requests:    *)
(* the rows of the gateway and the documents of the file service, whichever*)
(* requests overlap, fail or give their RPC up.                            *)
(***************************************************************************)
EXTENDS Avatars, TLAPS

USE DEF FS!Cmds, FS!Pcs, FS!Replies, FS!FirstStep, FS!AfterFind

(* What a call says: the gateway sends uploads and deletions of one file.  *)
Shape(q) ==
    /\ q.pc = "idle" => q = FS!Unsent
    /\ q.pc # "idle" => \E f \in Files : q.ids = {f}
    /\ q.cmd \in {"none", "upload_file", "delete_file"}
    /\ q.cmd = "upload_file" => q.pc \in {"put", "save", "done"}
    /\ q.cmd = "delete_file" =>
          q.pc \in {"find", "deleteAvatar", "deleteFile", "done"}
    /\ q.cmd = "none" => q.pc = "idle"
    /\ q.pc \in {"deleteAvatar", "deleteFile"} => q.found = q.ids
    /\ q.reply \in {"ok", "isSuccess:false"} => q.pc = "done"

ShapeOK == \A c \in Calls : Shape(call[c])

(* A deletion that was answered is over: its file is not stored.           *)
Gone(q) ==
    q.cmd = "delete_file" /\ q.reply \in {"ok", "isSuccess:false"} =>
       q.ids \cap docs = {}

GoneOK == \A c \in Calls : Gone(call[c])

(* User u uploaded file f: the service stored it, and the row was written. *)
Stored(q, u, f) ==
    /\ q.kind = "upload" /\ q.user = u /\ q.file = f /\ q.pc = "done"
    /\ call[q.call].reply = "ok"

UploadedBy(u, f) == \E r \in Requests : Stored(req[r], u, f)

(* What a request has asked the service, and what it relies on.            *)
Knows(q) ==
    /\ q.pc = "idle" => q = Waiting
    /\ q.kind \in {"upload", "delete"} => q.user # None
    /\ q.call # None => q.kind \in {"upload", "delete"} /\ q.file # None
    /\ q.kind = "upload" =>
          /\ q.file # None /\ q.call # None
          /\ call[q.call].cmd = "upload_file" /\ call[q.call].ids = {q.file}
          /\ q.pc \in {"await", "save", "done"}
    /\ q.pc = "save" => q.kind = "upload" /\ call[q.call].reply = "ok"
    /\ q.pc = "clear" =>
          /\ q.kind = "delete" /\ q.file # None
          /\ call[q.call].reply \in {"ok", "isSuccess:false"}
    /\ q.pc \in {"save", "clear"} => q.call # None
    /\ q.pc = "await" => q.kind \in {"upload", "delete"} /\ q.file # None
    /\ q.pc = "url" => q.kind = "view"
    /\ q.kind = "delete" /\ q.file # None =>
          /\ q.call # None
          /\ call[q.call].cmd = "delete_file" /\ call[q.call].ids = {q.file}
          /\ UploadedBy(q.user, q.file)
          /\ q.reply = "ok" =>
                /\ call[q.call].reply \in {"ok", "isSuccess:false"}
                /\ avatar[q.user] # q.file
    /\ q.reply \in {"ok", "404", "502"} => q.pc = "done"
    /\ q.pc = "done" => q.reply # "none"

KnowsOK == \A r \in Requests : Knows(req[r])

(* Every call was sent by a request.                                       *)
CallsAreAwaited ==
    \A c \in Calls : call[c].pc # "idle" => \E r \in Requests : req[r].call = c

(* Every upload is of a file of its own.                                   *)
UploadsApart ==
    \A r1, r2 \in Requests :
       /\ req[r1].kind = "upload" /\ req[r2].kind = "upload"
       /\ req[r1].file = req[r2].file
       => r1 = r2

AvatarsAreUploaded ==
    \A u \in Users : avatar[u] # None => UploadedBy(u, avatar[u])

(* A file that the service has stored is there, or was to be deleted.      *)
Deletion(f) == \E r \in Requests : req[r].kind = "delete" /\ req[r].file = f

StoredOrDeleted ==
    \A r \in Requests :
       req[r].kind = "upload" /\ call[req[r].call].reply = "ok" =>
          req[r].file \in docs \/ Deletion(req[r].file)

IInv ==
    /\ TypeOK
    /\ ShapeOK
    /\ GoneOK
    /\ KnowsOK
    /\ CallsAreAwaited
    /\ UploadsApart
    /\ AvatarsAreUploaded
    /\ StoredOrDeleted
-----------------------------------------------------------------------------
(* The steps of one request, those that send an RPC apart.                 *)
Asks(r) ==
    \/ \E u \in Users : UploadAvatar(r, u)
    \/ \E u \in Users : DeleteAvatar(r, u) /\ avatar[u] # None

GoesOn(r) ==
    \/ \E u \in Users : DeleteAvatar(r, u) /\ avatar[u] = None
    \/ \E u \in Users : GetUserView(r, u)
    \/ UploadAnswered(r) \/ SaveAvatar(r) \/ DeletionAnswered(r)
    \/ ClearAvatar(r) \/ GetFileUrl(r) \/ RpcFails(r) \/ Abort(r)

Serves(c) == FS!Serve(c) /\ UNCHANGED <<avatar, req>>

(* The next-state relation, by who takes the step.                         *)
LEMMA NextIsStep ==
  Next <=> \/ \E r \in Requests : Asks(r) \/ GoesOn(r)
           \/ \E c \in Calls : Serves(c)
  BY DEF Next, Asks, GoesOn, Serves

(* What every step leaves of the calls that were sent.                     *)
CallsGoOn ==
    \A c \in Calls : call[c].pc # "idle" =>
       /\ call'[c].cmd = call[c].cmd /\ call'[c].ids = call[c].ids
       /\ call'[c].pc # "idle"
       /\ call[c].reply # "none" => call'[c].reply = call[c].reply

(* A step of the service: one call goes on.  It is answered with success   *)
(* when it has stored its file, or deleted it, or not found it.            *)
LEMMA ServeStep ==
  ASSUME IInv, NEW c \in Calls, FS!Serve(c)
  PROVE  /\ call' \in [Calls -> FS!Call]
         /\ docs' \subseteq Files /\ objects' \subseteq Files
         /\ \A d \in Calls : d # c => call'[d] = call[d]
         /\ Shape(call'[c])
         /\ call[c].pc # "idle" /\ call'[c].pc # "idle"
         /\ call[c].reply = "none"
         /\ call'[c].cmd = call[c].cmd /\ call'[c].ids = call[c].ids
         /\ \/ /\ docs' = docs /\ call'[c].reply # "ok"
               /\ call'[c].reply = "isSuccess:false" =>
                     call[c].ids \cap docs = {}
            \/ /\ call[c].cmd = "upload_file" /\ call[c].pc = "save"
               /\ docs' = docs \cup call[c].ids
            \/ /\ call[c].cmd = "delete_file"
               /\ docs' = docs \ call[c].ids
  <1>a. /\ call \in [Calls -> FS!Call] /\ call[c] \in FS!Call
        /\ docs \subseteq Files /\ objects \subseteq Files
        /\ Shape(call[c])
    BY DEF IInv, TypeOK, FS!TypeOK, ShapeOK
  <1>b. ASSUME NEW x \in {"save", "deleteFile"}, FS!Goto(c, x)
        PROVE  /\ call' \in [Calls -> FS!Call]
               /\ \A d \in Calls : d # c => call'[d] = call[d]
               /\ call'[c].cmd = call[c].cmd /\ call'[c].ids = call[c].ids
               /\ call'[c].reply = call[c].reply /\ call'[c].pc = x
               /\ call'[c].found = call[c].found
    BY <1>a, <1>b DEF FS!Goto, FS!Call
  <1>c. ASSUME NEW x \in {"ok", "isSuccess:false"}, FS!Answer(c, x)
        PROVE  /\ call' \in [Calls -> FS!Call]
               /\ \A d \in Calls : d # c => call'[d] = call[d]
               /\ call'[c].cmd = call[c].cmd /\ call'[c].ids = call[c].ids
               /\ call'[c].reply = x /\ call'[c].pc = "done"
               /\ call'[c].found = call[c].found
    BY <1>a, <1>c DEF FS!Answer, FS!Call
  <1>d. ASSUME FS!Fails(c) \/ call' = [call EXCEPT ![c].reply = "lost"]
        PROVE  /\ call' \in [Calls -> FS!Call]
               /\ \A d \in Calls : d # c => call'[d] = call[d]
               /\ call'[c].cmd = call[c].cmd /\ call'[c].ids = call[c].ids
               /\ call'[c].reply \in {"error", "lost"}
               /\ call'[c].pc = call[c].pc
               /\ call'[c].found = call[c].found
    BY <1>a, <1>d DEF FS!Fails, FS!Call
  <1>1. CASE FS!Put(c)
    BY <1>1, <1>a, <1>b DEF FS!Put, FS!At, Shape
  <1>2. CASE FS!Save(c)
    BY <1>2, <1>a, <1>c DEF FS!Save, FS!At, Shape
  <1>3. CASE FS!Find(c)
    <2>1. CASE FS!Fails(c)
      BY <1>3, <1>a, <1>d, <2>1 DEF FS!Find, FS!At, Shape
    <2>2. CASE FS!Answer(c, "isSuccess:false") /\ call[c].ids \cap docs = {}
      BY <1>3, <1>a, <1>c, <2>2 DEF FS!Find, FS!At, Shape
    <2>3. CASE /\ call[c].ids \cap docs # {}
               /\ call' = [call EXCEPT ![c].pc = FS!AfterFind[call[c].cmd],
                                       ![c].found = call[c].ids \cap docs]
      <3>1. call[c].cmd = "delete_file" /\ call[c].reply = "none"
        BY <1>3, <1>a DEF FS!Find, FS!At, Shape
      <3>2. call[c].ids \cap docs = call[c].ids
        BY <1>3, <1>a, <2>3 DEF FS!Find, FS!At, Shape
      <3>3. PICK x, g : /\ x = FS!AfterFind[call[c].cmd]
                        /\ g = call[c].ids \cap docs
        OBVIOUS
      <3> DEFINE n == [call[c] EXCEPT !.pc = x, !.found = g]
      <3>4. x = "deleteAvatar" /\ g = call[c].ids /\ g \subseteq Files
        BY <1>a, <3>1, <3>2, <3>3
      <3>5. call' = [call EXCEPT ![c] = n]
        <4>1. call' = [call EXCEPT ![c].pc = x, ![c].found = g]
          BY <2>3, <3>3
        <4> QED BY <1>a, <4>1
      <3>6. /\ n \in FS!Call
            /\ n.cmd = call[c].cmd /\ n.ids = call[c].ids
            /\ n.reply = "none" /\ n.pc = "deleteAvatar" /\ n.found = n.ids
        BY <1>a, <3>1, <3>4 DEF FS!Call
      <3> HIDE DEF n
      <3>7. /\ call' \in [Calls -> FS!Call]
            /\ \A d \in Calls : d # c => call'[d] = call[d]
            /\ call'[c] = n
        BY <1>a, <3>5, <3>6
      <3> QED BY <1>3, <1>a, <3>1, <3>6, <3>7 DEF FS!Find, FS!At, Shape
    <2> QED BY <1>3, <2>1, <2>2, <2>3 DEF FS!Find
  <1>4. CASE FS!DeleteAvatar(c)
    BY <1>4, <1>a, <1>b DEF FS!DeleteAvatar, FS!At, Shape
  <1>5. CASE FS!DeleteFile(c)
    BY <1>5, <1>a, <1>c DEF FS!DeleteFile, FS!At, Shape
  <1>6. CASE FS!DeleteMany(c) \/ FS!DeleteImages(c) \/ FS!Read(c)
    BY <1>6, <1>a DEF FS!DeleteMany, FS!DeleteImages, FS!Read, FS!At, Shape
  <1>7. CASE FS!Throw(c) \/ FS!Lose(c)
    BY <1>7, <1>a, <1>d DEF FS!Throw, FS!Lose, Shape
  <1> QED BY <1>1, <1>2, <1>3, <1>4, <1>5, <1>6, <1>7 DEF FS!Serve

(* A step that sends an RPC: the call begins, the request awaits it.       *)
Asked(r, kind, u, cmd, f, c) ==
    /\ call[c] = FS!Unsent
    /\ req'[r].kind = kind /\ req'[r].pc = "await" /\ req'[r].reply = "none"
    /\ req'[r].user = u /\ req'[r].file = f /\ req'[r].call = c
    /\ call'[c].cmd = cmd /\ call'[c].ids = {f} /\ call'[c].reply = "none"
    /\ call'[c].pc # "idle" /\ Shape(call'[c])
    /\ \/ kind = "upload" /\ cmd = "upload_file" /\ f \notin FS!Minted
       \/ kind = "delete" /\ cmd = "delete_file" /\ f = avatar[u]

(* Either kind of RPC begins in this way.                                  *)
LEMMA AskStep ==
  ASSUME IInv, NEW r \in Requests, Asks(r)
  PROVE  /\ req[r] = Waiting
         /\ req' \in [Requests -> Request]
         /\ \A q \in Requests : q # r => req'[q] = req[q]
         /\ call' \in [Calls -> FS!Call]
         /\ UNCHANGED <<docs, objects, avatar>>
         /\ \E kind \in {"upload", "delete"}, u \in Users,
               cmd \in {"upload_file", "delete_file"}, f \in Files,
               c \in Calls :
               /\ Asked(r, kind, u, cmd, f, c)
               /\ \A d \in Calls : d # c => call'[d] = call[d]
  <1>a. /\ call \in [Calls -> FS!Call] /\ req \in [Requests -> Request]
        /\ ShapeOK /\ Knows(req[r]) /\ avatar \in [Users -> Files \cup {None}]
    BY DEF IInv, TypeOK, FS!TypeOK, KnowsOK
  <1>b. Waiting \in Request
    BY DEF Waiting, Request
  <1>1. ASSUME NEW kind \in {"upload", "delete"}, NEW u \in Users,
               NEW cmd \in {"upload_file", "delete_file"}, NEW f \in Files,
               Ask(r, kind, u, cmd, f), At(r, "idle"), UNCHANGED avatar,
               \/ kind = "upload" /\ cmd = "upload_file" /\ f \notin FS!Minted
               \/ kind = "delete" /\ cmd = "delete_file" /\ f = avatar[u]
        PROVE  /\ req[r] = Waiting
               /\ req' \in [Requests -> Request]
               /\ \A q \in Requests : q # r => req'[q] = req[q]
               /\ call' \in [Calls -> FS!Call]
               /\ UNCHANGED <<docs, objects>>
               /\ \E c \in Calls :
                     /\ Asked(r, kind, u, cmd, f, c)
                     /\ \A d \in Calls : d # c => call'[d] = call[d]
    <2>1. PICK c \in Calls :
             /\ FS!Receive(c, cmd, {f})
             /\ req' = [req EXCEPT ![r] =
                          [Waiting EXCEPT !.kind = kind, !.pc = "await",
                                          !.user = u, !.file = f, !.call = c]]
      BY <1>1 DEF Ask
    <2>2. call[c] = FS!Unsent /\ UNCHANGED <<docs, objects>>
      BY <1>a, <2>1 DEF FS!Receive, FS!At, ShapeOK, Shape
    <2>3. /\ call' \in [Calls -> FS!Call]
          /\ \A d \in Calls : d # c => call'[d] = call[d]
          /\ call'[c].cmd = cmd /\ call'[c].ids = {f}
          /\ call'[c].reply = "none" /\ call'[c].pc = FS!FirstStep[cmd]
          /\ call'[c].found = {}
      <3>1. PICK x \in {"put", "find"} : x = FS!FirstStep[cmd]
        BY <1>1
      <3> DEFINE n == [FS!Unsent EXCEPT !.cmd = cmd, !.ids = {f}, !.pc = x]
      <3>2. /\ n \in FS!Call
            /\ n.cmd = cmd /\ n.ids = {f} /\ n.reply = "none" /\ n.pc = x
            /\ n.found = {}
        BY <1>1 DEF FS!Unsent, FS!Call
      <3>3. call' = [call EXCEPT ![c] = n]
        BY <2>1, <3>1 DEF FS!Receive
      <3> HIDE DEF n
      <3> QED BY <1>a, <3>1, <3>2, <3>3
    <2>4. call'[c].pc \in {"put", "find"} /\ Shape(call'[c])
      BY <1>1, <2>3 DEF Shape
    <2>5. /\ req' \in [Requests -> Request]
          /\ \A q \in Requests : q # r => req'[q] = req[q]
          /\ req'[r].kind = kind /\ req'[r].pc = "await"
          /\ req'[r].reply = "none" /\ req'[r].user = u /\ req'[r].file = f
          /\ req'[r].call = c
      BY <1>1, <1>a, <2>1 DEF Waiting, Request
    <2>6. req[r] = Waiting
      BY <1>1, <1>a DEF At, Knows
    <2> QED BY <1>1, <2>2, <2>3, <2>4, <2>5, <2>6 DEF Asked
  <1>2. ASSUME NEW u \in Users, UploadAvatar(r, u)
        PROVE  /\ At(r, "idle") /\ UNCHANGED avatar
               /\ \E f \in Files \ FS!Minted :
                     Ask(r, "upload", u, "upload_file", f)
    BY <1>2 DEF UploadAvatar
  <1>3. ASSUME NEW u \in Users, DeleteAvatar(r, u), avatar[u] # None
        PROVE  /\ At(r, "idle") /\ UNCHANGED avatar /\ avatar[u] \in Files
               /\ Ask(r, "delete", u, "delete_file", avatar[u])
    BY <1>3, <1>a DEF DeleteAvatar
  <1>4. CASE \E u \in Users : UploadAvatar(r, u)
    <2>1. PICK u \in Users : UploadAvatar(r, u)
      BY <1>4
    <2>2. PICK f \in Files \ FS!Minted : Ask(r, "upload", u, "upload_file", f)
      BY <1>2, <2>1
    <2> QED BY <1>1, <1>2, <2>1, <2>2
  <1>5. CASE \E u \in Users : DeleteAvatar(r, u) /\ avatar[u] # None
    <2>1. PICK u \in Users : DeleteAvatar(r, u) /\ avatar[u] # None
      BY <1>5
    <2>2. PICK f \in Files : f = avatar[u]
      BY <1>3, <2>1
    <2> QED BY <1>1, <1>3, <2>1, <2>2
  <1> QED BY <1>4, <1>5 DEF Asks
-----------------------------------------------------------------------------
(* A step that sends nothing: it may write one row, and answer.            *)
Saves(r) ==
    /\ req[r].pc = "save"
    /\ avatar' = [avatar EXCEPT ![req[r].user] = req[r].file]
    /\ req'[r].pc = "done" /\ req'[r].kind = req[r].kind
    /\ req'[r].user = req[r].user /\ req'[r].file = req[r].file
    /\ req'[r].call = req[r].call

Clears(r) ==
    /\ req[r].pc = "clear"
    /\ avatar' = [avatar EXCEPT ![req[r].user] = None]

(* What a request that goes on says of itself afterwards.                  *)
OnItsWay(r) ==
    \/ /\ req[r] = Waiting /\ req'[r].call = None
       /\ \/ /\ req'[r].kind = "delete" /\ req'[r].file = None
             /\ req'[r].pc = "done" /\ req'[r].reply = "ok"
             /\ req'[r].user # None
          \/ /\ req'[r].kind = "view"
             /\ \/ req'[r].pc = "done" /\ req'[r].reply = "ok"
                \/ req'[r].pc = "url" /\ req'[r].reply = "none"
    \/ /\ req[r].pc \notin {"idle", "done"} /\ req[r].reply = "none"
       /\ req'[r].kind = req[r].kind /\ req'[r].user = req[r].user
       /\ req'[r].call = req[r].call
       /\ req'[r].file = req[r].file \/ req[r].kind = "view"
       /\ \/ /\ req'[r].pc = "done" /\ req'[r].reply \in {"404", "502"}
          \/ /\ req'[r].pc = req[r].pc /\ req'[r].reply = "lost"
          \/ /\ req[r].pc = "await" /\ req[r].kind = "upload"
             /\ Reply(r) = "ok"
             /\ req'[r].pc = "save" /\ req'[r].reply = "none"
          \/ /\ req[r].pc = "await" /\ req[r].kind = "delete"
             /\ Reply(r) \in {"ok", "isSuccess:false"}
             /\ req'[r].pc = "clear" /\ req'[r].reply = "none"
          \/ /\ req[r].pc \in {"save", "url"}
             /\ req'[r].pc = "done" /\ req'[r].reply = "ok"
          \/ /\ Clears(r) /\ req'[r].pc = "done" /\ req'[r].reply = "ok"

(* The steps of a request that send nothing.                               *)
LEMMA GoStep ==
  ASSUME IInv, NEW r \in Requests, GoesOn(r)
  PROVE  /\ req' \in [Requests -> Request]
         /\ \A q \in Requests : q # r => req'[q] = req[q]
         /\ UNCHANGED <<docs, objects, call>>
         /\ OnItsWay(r)
         /\ avatar' = avatar \/ Saves(r) \/ Clears(r)
  <1>a. /\ req \in [Requests -> Request] /\ req[r] \in Request
        /\ Knows(req[r]) /\ avatar \in [Users -> Files \cup {None}]
    BY DEF IInv, TypeOK, KnowsOK
  <1>b. Waiting \in Request
    BY DEF Waiting, Request
  <1>c. ASSUME NEW x \in {"save", "clear"}, Goto(r, x)
        PROVE  /\ req' \in [Requests -> Request]
               /\ \A q \in Requests : q # r => req'[q] = req[q]
               /\ req'[r].kind = req[r].kind /\ req'[r].user = req[r].user
               /\ req'[r].call = req[r].call /\ req'[r].file = req[r].file
               /\ req'[r].pc = x /\ req'[r].reply = req[r].reply
    BY <1>a, <1>c DEF Goto, Request
  <1>d. ASSUME NEW x \in {"ok", "404", "502"}, Answer(r, x)
        PROVE  /\ req' \in [Requests -> Request]
               /\ \A q \in Requests : q # r => req'[q] = req[q]
               /\ req'[r].kind = req[r].kind /\ req'[r].user = req[r].user
               /\ req'[r].call = req[r].call /\ req'[r].file = req[r].file
               /\ req'[r].pc = "done" /\ req'[r].reply = x
    BY <1>a, <1>d DEF Answer, Request
  <1>1. ASSUME NEW u \in Users, DeleteAvatar(r, u), avatar[u] = None
        PROVE  /\ req' \in [Requests -> Request]
               /\ \A q \in Requests : q # r => req'[q] = req[q]
               /\ UNCHANGED <<docs, objects, call, avatar>> /\ OnItsWay(r)
    <2>1. /\ req' = [req EXCEPT ![r] = [Waiting EXCEPT
                        !.kind = "delete", !.user = u, !.pc = "done",
                        !.reply = "ok"]]
          /\ UNCHANGED <<docs, objects, call, avatar>> /\ req[r] = Waiting
      BY <1>1, <1>a DEF DeleteAvatar, At, Knows
    <2>2. /\ req' \in [Requests -> Request]
          /\ \A q \in Requests : q # r => req'[q] = req[q]
          /\ req'[r].kind = "delete" /\ req'[r].user = u
          /\ req'[r].file = None /\ req'[r].call = None
          /\ req'[r].pc = "done" /\ req'[r].reply = "ok"
      BY <1>a, <2>1 DEF Waiting, Request
    <2> QED BY <2>1, <2>2, NoneAssumption DEF OnItsWay
  <1>2. ASSUME NEW u \in Users, GetUserView(r, u)
        PROVE  /\ req' \in [Requests -> Request]
               /\ \A q \in Requests : q # r => req'[q] = req[q]
               /\ UNCHANGED <<docs, objects, call, avatar>> /\ OnItsWay(r)
    <2>1. req[r] = Waiting /\ UNCHANGED <<docs, objects, call, avatar>>
      BY <1>2, <1>a DEF GetUserView, At, Knows
    <2>2. PICK f \in Files \cup {None} : f = avatar[u]
      BY <1>a
    <2>3. CASE f = None
      <3>1. req' = [req EXCEPT ![r] =
                      [Waiting EXCEPT !.kind = "view", !.user = u,
                                      !.pc = "done", !.reply = "ok"]]
        BY <1>2, <2>2, <2>3 DEF GetUserView, Waiting
      <3>2. /\ req' \in [Requests -> Request]
            /\ \A q \in Requests : q # r => req'[q] = req[q]
            /\ req'[r].kind = "view" /\ req'[r].call = None
            /\ req'[r].pc = "done" /\ req'[r].reply = "ok"
        BY <1>a, <3>1 DEF Waiting, Request
      <3> QED BY <2>1, <3>2 DEF OnItsWay
    <2>4. CASE f # None
      <3>1. req' = [req EXCEPT ![r] =
                      [Waiting EXCEPT !.kind = "view", !.user = u,
                                      !.pc = "url", !.file = f]]
        BY <1>2, <2>2, <2>4 DEF GetUserView, Waiting
      <3>2. /\ req' \in [Requests -> Request]
            /\ \A q \in Requests : q # r => req'[q] = req[q]
            /\ req'[r].kind = "view" /\ req'[r].call = None
            /\ req'[r].pc = "url" /\ req'[r].reply = "none"
        BY <1>a, <2>2, <3>1 DEF Waiting, Request
      <3> QED BY <2>1, <3>2 DEF OnItsWay
    <2> QED BY <2>3, <2>4
  <1>3. CASE UploadAnswered(r)
    BY <1>3, <1>a, <1>c DEF UploadAnswered, At, OnItsWay
  <1>4. CASE SaveAvatar(r)
    BY <1>4, <1>a, <1>d DEF SaveAvatar, At, OnItsWay, Saves
  <1>5. CASE DeletionAnswered(r)
    BY <1>5, <1>a, <1>c DEF DeletionAnswered, At, OnItsWay
  <1>6. CASE ClearAvatar(r)
    BY <1>6, <1>a, <1>d DEF ClearAvatar, At, OnItsWay, Clears
  <1>7. CASE GetFileUrl(r)
    <2>1. req[r].pc = "url" /\ req[r].reply = "none" /\ req[r].kind = "view"
      BY <1>7, <1>a DEF GetFileUrl, At, Knows
    <2>2. CASE req' = [req EXCEPT ![r].pc = "done", ![r].reply = "ok",
                                  ![r].file = None]
      <3>1. /\ req' \in [Requests -> Request]
            /\ \A q \in Requests : q # r => req'[q] = req[q]
            /\ req'[r].kind = req[r].kind /\ req'[r].user = req[r].user
            /\ req'[r].call = req[r].call
            /\ req'[r].pc = "done" /\ req'[r].reply = "ok"
        BY <1>a, <2>2 DEF Request
      <3> QED BY <1>7, <2>1, <3>1 DEF GetFileUrl, OnItsWay
    <2>3. CASE Answer(r, "ok")
      BY <1>7, <1>d, <2>1, <2>3 DEF GetFileUrl, OnItsWay
    <2> QED BY <1>7, <2>2, <2>3 DEF GetFileUrl
  <1>8. CASE RpcFails(r)
    BY <1>8, <1>a, <1>d DEF RpcFails, At, OnItsWay
  <1>9. CASE Abort(r)
    <2>1. /\ req' \in [Requests -> Request]
          /\ \A q \in Requests : q # r => req'[q] = req[q]
          /\ req'[r].kind = req[r].kind /\ req'[r].user = req[r].user
          /\ req'[r].call = req[r].call /\ req'[r].file = req[r].file
          /\ req'[r].pc = req[r].pc /\ req'[r].reply = "lost"
      BY <1>9, <1>a DEF Abort, Request
    <2>2. req[r].pc # "done"
      BY <1>9, <1>a DEF Abort, Knows
    <2> QED BY <1>9, <2>1, <2>2 DEF Abort, OnItsWay
  <1> QED BY <1>1, <1>2, <1>3, <1>4, <1>5, <1>6, <1>7, <1>8, <1>9 DEF GoesOn

(* Done requests stay as they are, and the calls go on, in every step.     *)
DoneStays == \A q \in Requests : req[q].pc = "done" => req'[q] = req[q]

(* Three kinds of step, and none forgets what was asked or answered.       *)
LEMMA StepsGoOn ==
  ASSUME IInv,
         \/ \E r \in Requests : Asks(r) \/ GoesOn(r)
         \/ \E c \in Calls : Serves(c)
  PROVE  CallsGoOn /\ DoneStays
  <1>1. ASSUME NEW r \in Requests, Asks(r) PROVE CallsGoOn /\ DoneStays
    <2>1. Waiting.pc = "idle" /\ FS!Unsent.pc = "idle"
      BY DEF Waiting, FS!Unsent
    <2>2. /\ req[r] = Waiting
          /\ \A q \in Requests : q # r => req'[q] = req[q]
      BY <1>1, AskStep
    <2>3. PICK c \in Calls : /\ call[c] = FS!Unsent
                             /\ \A d \in Calls : d # c => call'[d] = call[d]
      BY <1>1, AskStep DEF Asked
    <2> QED BY <2>1, <2>2, <2>3 DEF CallsGoOn, DoneStays
  <1>2. ASSUME NEW r \in Requests, GoesOn(r) PROVE CallsGoOn /\ DoneStays
    <2>1. req[r].pc # "done"
      BY <1>2, GoStep DEF OnItsWay, Waiting
    <2> QED BY <1>2, <2>1, GoStep DEF CallsGoOn, DoneStays
  <1>3. ASSUME NEW c \in Calls, Serves(c) PROVE CallsGoOn /\ DoneStays
    BY <1>3, ServeStep DEF CallsGoOn, DoneStays, Serves
  <1> QED BY <1>1, <1>2, <1>3

(* A request's call was sent.                                              *)
LEMMA CallIsSent ==
  ASSUME IInv, NEW r \in Requests, req[r].call # None
  PROVE  req[r].call \in Calls
  BY DEF IInv, TypeOK, Request

(* A call with a command was sent.                                         *)
LEMMA SentCalls ==
  ASSUME IInv, NEW c \in Calls, call[c].cmd \in {"upload_file", "delete_file"}
  PROVE  call[c].pc # "idle"
  BY DEF IInv, ShapeOK, Shape, FS!Unsent

(* An upload, once in the row, was made for ever.                          *)
LEMMA UploadStays ==
  ASSUME IInv, CallsGoOn, DoneStays, NEW u, NEW f, UploadedBy(u, f)
  PROVE  UploadedBy(u, f)'
  <1>1. PICK r \in Requests : Stored(req[r], u, f)
    BY DEF UploadedBy
  <1>2. /\ Knows(req[r]) /\ req'[r] = req[r] /\ req[r].call \in Calls
        /\ call[req[r].call].pc # "idle"
    BY <1>1, CallIsSent, SentCalls DEF IInv, KnowsOK, Knows, Stored, DoneStays
  <1>3. call'[req[r].call].reply = "ok"
    BY <1>1, <1>2 DEF CallsGoOn, Stored
  <1> QED BY <1>1, <1>2, <1>3 DEF Stored, UploadedBy
-----------------------------------------------------------------------------
(* Deletions that are over leave the row alone: only the upload of the     *)
(* very file could put it back, and that is over too.                      *)
LEMMA ClearedStays ==
  ASSUME IInv, NEW r \in Requests, GoesOn(r), NEW q \in Requests,
         req[q].kind = "delete", req[q].file # None, req[q].reply = "ok"
  PROVE  avatar'[req[q].user] # req[q].file
  <1>a. /\ avatar \in [Users -> Files \cup {None}]
        /\ req \in [Requests -> Request]
        /\ Knows(req[q]) /\ Knows(req[r])
    BY DEF IInv, TypeOK, KnowsOK
  <1>b. /\ avatar[req[q].user] # req[q].file /\ req[q].user \in Users
        /\ UploadedBy(req[q].user, req[q].file)
    BY <1>a DEF Knows, Request
  <1>1. CASE Saves(r)
    <2>1. PICK p \in Requests : Stored(req[p], req[q].user, req[q].file)
      BY <1>b DEF UploadedBy
    <2>2. req[r].kind = "upload" /\ p # r
      BY <1>1, <1>a, <2>1 DEF Saves, Knows, Stored
    <2>3. req[r].file # req[q].file
      BY <2>1, <2>2 DEF IInv, UploadsApart, Stored
    <2> QED BY <1>1, <1>a, <1>b, <2>3 DEF Saves
  <1>2. CASE Clears(r)
    BY <1>2, <1>a, <1>b DEF Clears
  <1> QED BY <1>1, <1>2, <1>b, GoStep

(* What a request knows stays true while others go on.                     *)
LEMMA KnowsStays ==
  ASSUME IInv, CallsGoOn, DoneStays, NEW q \in Requests, req'[q] = req[q],
         req[q].kind = "delete" /\ req[q].file # None /\ req[q].reply = "ok"
            => avatar'[req[q].user] # req[q].file
  PROVE  Knows(req[q])'
  <1>a. Knows(req[q])
    BY DEF IInv, KnowsOK
  <1>1. ASSUME req[q].call # None,
               call[req[q].call].cmd \in {"upload_file", "delete_file"}
        PROVE  /\ call'[req[q].call].cmd = call[req[q].call].cmd
               /\ call'[req[q].call].ids = call[req[q].call].ids
               /\ call[req[q].call].reply # "none" =>
                     call'[req[q].call].reply = call[req[q].call].reply
    BY <1>1, CallIsSent, SentCalls DEF CallsGoOn
  <1>2. UploadedBy(req[q].user, req[q].file) =>
           UploadedBy(req[q].user, req[q].file)'
    <2>1. PICK u, f : u = req[q].user /\ f = req[q].file
      OBVIOUS
    <2>2. UploadedBy(u, f) => UploadedBy(u, f)'
      BY UploadStays
    <2> QED BY <2>1, <2>2
  <1> QED BY <1>a, <1>1, <1>2 DEF Knows

(* A request that has sent its RPC knows what it asked.                    *)
LEMMA AskerKnows ==
  ASSUME IInv, NEW r \in Requests, Asks(r)
  PROVE  Knows(req[r])'
  <1>1. PICK kind \in {"upload", "delete"}, u \in Users,
             cmd \in {"upload_file", "delete_file"}, f \in Files, c \in Calls :
           Asked(r, kind, u, cmd, f, c)
    BY AskStep
  <1>2. kind = "delete" => UploadedBy(u, f)'
    <2>1. kind = "delete" => f = avatar[u] /\ f # None
      BY <1>1, NoneAssumption DEF Asked
    <2>2. kind = "delete" => UploadedBy(u, f)
      BY <2>1 DEF IInv, AvatarsAreUploaded
    <2> QED BY <2>2, StepsGoOn, UploadStays
  <1>3. f # None /\ u # None /\ c # None
    BY NoneAssumption
  <1> QED BY <1>1, <1>2, <1>3 DEF Asked, Knows

(* A request that goes on knows what it was answered.                      *)
LEMMA OwnKnows ==
  ASSUME IInv, NEW r \in Requests, GoesOn(r)
  PROVE  Knows(req[r])'
  <1>a. /\ Knows(req[r]) /\ OnItsWay(r) /\ call' = call
        /\ req \in [Requests -> Request] /\ req[r] \in Request
        /\ avatar \in [Users -> Files \cup {None}]
    BY GoStep DEF IInv, TypeOK, KnowsOK
  <1>1. CASE req[r] = Waiting
    BY <1>a, <1>1 DEF OnItsWay, Waiting, Knows
  <1>2. CASE req[r] # Waiting
    <2>1. /\ req[r].pc \notin {"idle", "done"} /\ req[r].reply = "none"
          /\ req'[r].kind = req[r].kind /\ req'[r].user = req[r].user
          /\ req'[r].call = req[r].call
          /\ req'[r].file = req[r].file \/ req[r].kind = "view"
      BY <1>a, <1>2 DEF OnItsWay
    <2>2. req[r].kind # "view" /\ UploadedBy(req[r].user, req[r].file) =>
             UploadedBy(req[r].user, req[r].file)'
      <3>1. PICK u, f : u = req[r].user /\ f = req[r].file
        OBVIOUS
      <3>2. UploadedBy(u, f) => UploadedBy(u, f)'
        BY StepsGoOn, UploadStays
      <3>3. req[r].kind # "view" => req'[r].user = u /\ req'[r].file = f
        BY <2>1, <3>1
      <3> QED BY <3>1, <3>2, <3>3
    <2> QED BY <1>a, <2>1, <2>2 DEF OnItsWay, Clears, Reply, Knows, Request
  <1> QED BY <1>1, <1>2

(* Every request of the next state knows what it did before.               *)
LEMMA AllKnow ==
  ASSUME IInv,
         \/ \E r \in Requests : Asks(r) \/ GoesOn(r)
         \/ \E c \in Calls : Serves(c)
  PROVE  KnowsOK'
  <1>a. CallsGoOn /\ DoneStays
    BY StepsGoOn
  <1>b. ASSUME NEW q \in Requests, req[q].kind = "delete",
               req[q].file # None, req[q].reply = "ok", avatar' = avatar
        PROVE  avatar'[req[q].user] # req[q].file
    BY <1>b DEF IInv, KnowsOK, Knows
  <1> SUFFICES ASSUME NEW q \in Requests PROVE Knows(req[q])'
    BY DEF KnowsOK
  <1>1. ASSUME NEW r \in Requests, Asks(r) PROVE Knows(req[q])'
    <2>1. CASE q = r
      BY <1>1, <2>1, AskerKnows
    <2>2. CASE q # r
      <3>1. req'[q] = req[q] /\ avatar' = avatar
        BY <1>1, <2>2, AskStep
      <3> QED BY <1>a, <1>b, <3>1, KnowsStays
    <2> QED BY <2>1, <2>2
  <1>2. ASSUME NEW r \in Requests, GoesOn(r) PROVE Knows(req[q])'
    <2>1. CASE q = r
      BY <1>2, <2>1, OwnKnows
    <2>2. CASE q # r
      <3>1. req'[q] = req[q]
        BY <1>2, <2>2, GoStep
      <3>2. req[q].kind = "delete" /\ req[q].file # None /\ req[q].reply = "ok"
               => avatar'[req[q].user] # req[q].file
        BY <1>2, ClearedStays
      <3> QED BY <1>a, <3>1, <3>2, KnowsStays
    <2> QED BY <2>1, <2>2
  <1>3. ASSUME NEW c \in Calls, Serves(c) PROVE Knows(req[q])'
    <2>1. req'[q] = req[q] /\ avatar' = avatar
      BY <1>3 DEF Serves
    <2> QED BY <1>a, <1>b, <2>1, KnowsStays
  <1> QED BY <1>1, <1>2, <1>3
-----------------------------------------------------------------------------
(* A call in the service is awaited by the request it was sent for.        *)
LEMMA CallHasRequest ==
  ASSUME IInv, NEW c \in Calls, call[c].pc # "idle"
  PROVE  \E r \in Requests :
            /\ req[r].call = c /\ call[c].ids = {req[r].file}
            /\ \/ req[r].kind = "upload" /\ call[c].cmd = "upload_file"
               \/ /\ req[r].kind = "delete" /\ call[c].cmd = "delete_file"
                  /\ UploadedBy(req[r].user, req[r].file)
  <1>1. PICK r \in Requests : req[r].call = c
    BY DEF IInv, CallsAreAwaited
  <1>2. Knows(req[r]) /\ c # None
    BY NoneAssumption DEF IInv, KnowsOK
  <1> QED BY <1>1, <1>2 DEF Knows

(* No call stores a file again that a deletion names.                      *)
LEMMA SavesAreNew ==
  ASSUME IInv, NEW c \in Calls, NEW d \in Calls,
         call[c].cmd = "upload_file", call[c].reply = "none",
         call[d].cmd = "delete_file"
  PROVE  call[c].ids \cap call[d].ids = {}
  <1>1. PICK s \in Requests :
           /\ req[s].call = c /\ call[c].ids = {req[s].file}
           /\ req[s].kind = "upload"
    BY CallHasRequest, SentCalls
  <1>2. PICK r \in Requests :
           /\ call[d].ids = {req[r].file}
           /\ UploadedBy(req[r].user, req[r].file)
    BY CallHasRequest, SentCalls
  <1>3. PICK p \in Requests : Stored(req[p], req[r].user, req[r].file)
    BY <1>2 DEF UploadedBy
  <1>4. s # p
    BY <1>1, <1>3 DEF Stored
  <1>5. req[s].file # req[p].file
    BY <1>1, <1>3, <1>4 DEF IInv, UploadsApart, Stored
  <1> QED BY <1>1, <1>2, <1>3, <1>5 DEF Stored

(* Deletions that were answered stay done, whatever the service does next. *)
LEMMA GoneStays ==
  ASSUME IInv,
         \/ \E r \in Requests : Asks(r) \/ GoesOn(r)
         \/ \E c \in Calls : Serves(c)
  PROVE  GoneOK' /\ ShapeOK'
  <1>a. ShapeOK /\ GoneOK
    BY DEF IInv
  <1>1. ASSUME NEW r \in Requests, Asks(r) PROVE GoneOK' /\ ShapeOK'
    <2>1. PICK c \in Calls :
             /\ call'[c].reply = "none" /\ Shape(call'[c])
             /\ \A d \in Calls : d # c => call'[d] = call[d]
      BY <1>1, AskStep DEF Asked
    <2>2. docs' = docs
      BY <1>1, AskStep
    <2> QED BY <1>a, <2>1, <2>2 DEF GoneOK, Gone, ShapeOK, Shape
  <1>2. ASSUME NEW r \in Requests, GoesOn(r) PROVE GoneOK' /\ ShapeOK'
    BY <1>a, <1>2, GoStep DEF GoneOK, Gone, ShapeOK, Shape
  <1>3. ASSUME NEW c \in Calls, Serves(c) PROVE GoneOK' /\ ShapeOK'
    <2>a. FS!Serve(c)
      BY <1>3 DEF Serves
    <2>1. ShapeOK'
      BY <1>a, <2>a, ServeStep DEF ShapeOK, Shape
    <2>2. Gone(call[c])'
      BY <2>a, ServeStep DEF Gone
    <2>3. ASSUME NEW d \in Calls, d # c PROVE Gone(call[d])'
      <3>1. call'[d] = call[d] /\ Gone(call[d])
        BY <1>a, <2>a, <2>3, ServeStep DEF GoneOK
      <3>2. CASE call[d].cmd = "delete_file"
        <4>1. /\ call[c].reply = "none"
              /\ \/ docs' \subseteq docs
                 \/ /\ call[c].cmd = "upload_file"
                    /\ docs' = docs \cup call[c].ids
          BY <2>a, ServeStep
        <4>2. call[c].cmd = "upload_file" => call[c].ids \cap call[d].ids = {}
          BY <3>2, <4>1, SavesAreNew
        <4> QED BY <3>1, <4>1, <4>2 DEF Gone
      <3>3. CASE call[d].cmd # "delete_file"
        BY <3>1, <3>3 DEF Gone
      <3> QED BY <3>2, <3>3
    <2>4. GoneOK'
      BY <2>2, <2>3 DEF GoneOK
    <2> QED BY <2>1, <2>4
  <1> QED BY <1>1, <1>2, <1>3

(* The shape of the rows, requests and calls.                              *)
LEMMA TypeStays ==
  ASSUME IInv,
         \/ \E r \in Requests : Asks(r) \/ GoesOn(r)
         \/ \E c \in Calls : Serves(c)
  PROVE  TypeOK'
  <1>a. TypeOK
    BY DEF IInv
  <1>1. ASSUME NEW r \in Requests, Asks(r) PROVE TypeOK'
    BY <1>a, <1>1, AskStep DEF TypeOK, FS!TypeOK
  <1>2. ASSUME NEW r \in Requests, GoesOn(r) PROVE TypeOK'
    <2>1. /\ Knows(req[r]) /\ req[r] \in Request
      BY <1>a DEF IInv, KnowsOK, TypeOK
    <2>2. Saves(r) => req[r].user \in Users /\ req[r].file \in Files
      BY <2>1 DEF Saves, Knows, Request
    <2>3. Clears(r) => req[r].user \in Users
      BY <2>1 DEF Clears, Knows, Request
    <2>4. avatar' \in [Users -> Files \cup {None}]
      BY <1>a, <1>2, <2>2, <2>3, GoStep DEF TypeOK, Saves, Clears
    <2> QED BY <1>a, <1>2, <2>4, GoStep DEF TypeOK, FS!TypeOK
  <1>3. ASSUME NEW c \in Calls, Serves(c) PROVE TypeOK'
    BY <1>a, <1>3, ServeStep DEF TypeOK, FS!TypeOK, Serves
  <1> QED BY <1>1, <1>2, <1>3
-----------------------------------------------------------------------------
(* What every step keeps of the requests that have a call or a file.       *)
LEMMA RequestsKeep ==
  ASSUME IInv, NEW r \in Requests, GoesOn(r)
  PROVE  /\ req[r].kind \in {"upload", "delete"} =>
               /\ req'[r].kind = req[r].kind /\ req'[r].user = req[r].user
               /\ req'[r].file = req[r].file
         /\ req[r].call # None => req'[r].call = req[r].call
         /\ req'[r].kind = "upload" => req[r].kind = "upload"
  <1>1. OnItsWay(r)
    BY GoStep
  <1>2. Waiting.kind = "none" /\ Waiting.call = None
    BY DEF Waiting
  <1> QED BY <1>1, <1>2 DEF OnItsWay

(* A call stays with the request it was sent for.                          *)
LEMMA StillAwaited ==
  ASSUME IInv,
         \/ \E r \in Requests : Asks(r) \/ GoesOn(r)
         \/ \E c \in Calls : Serves(c)
  PROVE  CallsAreAwaited'
  <1>a. CallsAreAwaited
    BY DEF IInv
  <1> SUFFICES ASSUME NEW d \in Calls, call'[d].pc # "idle"
               PROVE  \E p \in Requests : req'[p].call = d
    BY DEF CallsAreAwaited
  <1>1. ASSUME NEW r \in Requests, Asks(r)
        PROVE  \E p \in Requests : req'[p].call = d
    <2>1. PICK c \in Calls :
             /\ req'[r].call = c
             /\ \A e \in Calls : e # c => call'[e] = call[e]
      BY <1>1, AskStep DEF Asked
    <2>2. CASE d # c
      <3>1. PICK p \in Requests : req[p].call = d
        BY <1>a, <2>1, <2>2 DEF CallsAreAwaited
      <3>2. p # r
        BY <1>1, <3>1, AskStep, NoneAssumption DEF Waiting
      <3> QED BY <1>1, <3>1, <3>2, AskStep
    <2> QED BY <2>1, <2>2
  <1>2. ASSUME NEW r \in Requests, GoesOn(r)
        PROVE  \E p \in Requests : req'[p].call = d
    <2>1. PICK p \in Requests : req[p].call = d
      BY <1>a, <1>2, GoStep DEF CallsAreAwaited
    <2>2. p = r => req'[p].call = d
      BY <1>2, <2>1, RequestsKeep, NoneAssumption
    <2> QED BY <1>2, <2>1, <2>2, GoStep
  <1>3. ASSUME NEW c \in Calls, Serves(c)
        PROVE  \E p \in Requests : req'[p].call = d
    <2>1. call[d].pc # "idle"
      BY <1>3, ServeStep DEF Serves
    <2> QED BY <1>a, <1>3, <2>1 DEF CallsAreAwaited, Serves
  <1> QED BY <1>1, <1>2, <1>3

(* The file of an upload has its id from the service: it is new.           *)
LEMMA StillApart ==
  ASSUME IInv,
         \/ \E r \in Requests : Asks(r) \/ GoesOn(r)
         \/ \E c \in Calls : Serves(c)
  PROVE  UploadsApart'
  <1>a. UploadsApart
    BY DEF IInv
  <1>b. ASSUME NEW q \in Requests, req[q].kind = "upload"
        PROVE  req[q].file \in FS!Minted
    <2>1. /\ req[q].call \in Calls
          /\ call[req[q].call].cmd = "upload_file"
          /\ call[req[q].call].ids = {req[q].file}
      BY <1>b, CallIsSent DEF IInv, KnowsOK, Knows
    <2> QED BY <2>1 DEF FS!Minted, FS!Uploads
  <1>1. ASSUME NEW r \in Requests, Asks(r) PROVE UploadsApart'
    <2>1. \A q \in Requests : q # r => req'[q] = req[q]
      BY <1>1, AskStep
    <2>2. req'[r].kind = "upload" => req'[r].file \notin FS!Minted
      BY <1>1, AskStep DEF Asked
    <2> QED BY <1>a, <1>b, <2>1, <2>2 DEF UploadsApart
  <1>2. ASSUME NEW r \in Requests, GoesOn(r) PROVE UploadsApart'
    <2>1. \A q \in Requests : req'[q].kind = "upload" =>
             req[q].kind = "upload" /\ req'[q].file = req[q].file
      BY <1>2, GoStep, RequestsKeep
    <2> QED BY <1>a, <2>1 DEF UploadsApart
  <1>3. ASSUME NEW c \in Calls, Serves(c) PROVE UploadsApart'
    BY <1>a, <1>3 DEF UploadsApart, Serves
  <1> QED BY <1>1, <1>2, <1>3

(* A row is pointed only at a file that its user has uploaded.             *)
LEMMA StillUploaded ==
  ASSUME IInv,
         \/ \E r \in Requests : Asks(r) \/ GoesOn(r)
         \/ \E c \in Calls : Serves(c)
  PROVE  AvatarsAreUploaded'
  <1>a. /\ AvatarsAreUploaded
        /\ avatar \in [Users -> Files \cup {None}]
    BY DEF IInv, TypeOK
  <1>b. ASSUME NEW u, NEW f, UploadedBy(u, f) PROVE UploadedBy(u, f)'
    BY <1>b, StepsGoOn, UploadStays
  <1>c. ASSUME NEW u \in Users, avatar'[u] = avatar[u], avatar'[u] # None
        PROVE  UploadedBy(u, avatar[u])'
    <2>1. PICK f : f = avatar[u]
      OBVIOUS
    <2>2. UploadedBy(u, f)'
      BY <1>a, <1>b, <1>c, <2>1 DEF AvatarsAreUploaded
    <2> QED BY <1>c, <2>1, <2>2
  <1>1. CASE avatar' = avatar
    BY <1>1, <1>c DEF AvatarsAreUploaded
  <1>2. ASSUME NEW r \in Requests, GoesOn(r), Saves(r)
        PROVE  AvatarsAreUploaded'
    <2>1. PICK v, f : v = req[r].user /\ f = req[r].file
      OBVIOUS
    <2>2. Knows(req[r]) /\ call' = call
      BY <1>2, GoStep DEF IInv, KnowsOK
    <2>3. Stored(req[r], v, f)'
      BY <1>2, <2>1, <2>2 DEF Saves, Knows, Stored
    <2>4. UploadedBy(v, f)'
      BY <2>3 DEF UploadedBy
    <2>5. ASSUME NEW u \in Users, avatar'[u] # None
          PROVE  UploadedBy(u, avatar[u])'
      <3>1. CASE u = v
        <4>1. avatar'[u] = f
          BY <1>2, <1>a, <2>1, <3>1 DEF Saves
        <4> QED BY <2>4, <3>1, <4>1
      <3>2. CASE u # v
        <4>1. avatar'[u] = avatar[u]
          BY <1>2, <1>a, <2>1, <3>2 DEF Saves
        <4> QED BY <1>c, <2>5, <4>1
      <3> QED BY <3>1, <3>2
    <2> QED BY <2>5 DEF AvatarsAreUploaded
  <1>3. ASSUME NEW r \in Requests, Clears(r) PROVE AvatarsAreUploaded'
    <2>1. \A u \in Users : avatar'[u] # None => avatar'[u] = avatar[u]
      BY <1>3, <1>a DEF Clears
    <2> QED BY <1>c, <2>1 DEF AvatarsAreUploaded
  <1>4. \/ avatar' = avatar
        \/ \E r \in Requests : GoesOn(r) /\ (Saves(r) \/ Clears(r))
    BY AskStep, GoStep DEF Serves
  <1> QED BY <1>1, <1>2, <1>3, <1>4

(* What was stored is there, or a deletion has named it.                   *)
LEMMA StillStored ==
  ASSUME IInv,
         \/ \E r \in Requests : Asks(r) \/ GoesOn(r)
         \/ \E c \in Calls : Serves(c)
  PROVE  StoredOrDeleted'
  <1>a. StoredOrDeleted
    BY DEF IInv
  <1>b. ASSUME NEW q \in Requests, req[q].kind = "upload"
        PROVE  /\ req[q].call \in Calls
               /\ call[req[q].call].cmd = "upload_file"
               /\ call[req[q].call].ids = {req[q].file}
    BY <1>b, CallIsSent DEF IInv, KnowsOK, Knows
  <1>1. ASSUME NEW r \in Requests, Asks(r) PROVE StoredOrDeleted'
    <2>1. PICK c \in Calls :
             /\ req[r] = Waiting /\ req'[r].call = c
             /\ call[c] = FS!Unsent /\ call'[c].reply = "none"
             /\ \A d \in Calls : d # c => call'[d] = call[d]
      BY <1>1, AskStep DEF Asked
    <2>2. /\ \A q \in Requests : q # r => req'[q] = req[q]
          /\ docs' = docs
      BY <1>1, AskStep
    <2>3. \A f : Deletion(f) => Deletion(f)'
      BY <2>1, <2>2 DEF Deletion, Waiting
    <2>4. ASSUME NEW q \in Requests, req'[q].kind = "upload",
                 call'[req'[q].call].reply = "ok"
          PROVE  /\ req'[q] = req[q]
                 /\ req[q].file \in docs' \/ Deletion(req[q].file)
      <3>1. q # r
        BY <2>1, <2>4
      <3>2. req'[q] = req[q] /\ req[q].kind = "upload"
        BY <2>2, <2>4, <3>1
      <3>3. call[req[q].call].reply = "ok"
        BY <1>b, <2>1, <2>4, <3>2
      <3> QED BY <1>a, <2>2, <3>2, <3>3 DEF StoredOrDeleted
    <2> QED BY <2>3, <2>4 DEF StoredOrDeleted
  <1>2. ASSUME NEW r \in Requests, GoesOn(r) PROVE StoredOrDeleted'
    <2>1. /\ \A q \in Requests : q # r => req'[q] = req[q]
          /\ docs' = docs /\ call' = call
      BY <1>2, GoStep
    <2>2. \A f : Deletion(f) => Deletion(f)'
      BY <1>2, <2>1, RequestsKeep DEF Deletion
    <2>3. ASSUME NEW q \in Requests, req'[q].kind = "upload",
                 call'[req'[q].call].reply = "ok"
          PROVE  /\ req'[q].file = req[q].file
                 /\ req[q].file \in docs' \/ Deletion(req[q].file)
      <3>1. req[q].kind = "upload" /\ req'[q].file = req[q].file
        BY <1>2, <2>1, <2>3, RequestsKeep
      <3>2. req'[q].call = req[q].call
        BY <1>2, <1>b, <2>1, <3>1, RequestsKeep, NoneAssumption
      <3> QED BY <1>a, <2>1, <2>3, <3>1, <3>2 DEF StoredOrDeleted
    <2> QED BY <2>2, <2>3 DEF StoredOrDeleted
  <1>3. ASSUME NEW c \in Calls, Serves(c) PROVE StoredOrDeleted'
    <2>1. req' = req /\ FS!Serve(c)
      BY <1>3 DEF Serves
    <2>2. ASSUME NEW q \in Requests, req[q].kind = "upload",
                 call'[req[q].call].reply = "ok"
          PROVE  req[q].file \in docs' \/ Deletion(req[q].file)
      <3>a. req[q].call \in Calls
        BY <1>b, <2>2
      <3>1. CASE req[q].call = c
        <4>1. call[c].cmd = "upload_file" /\ call[c].ids = {req[q].file}
          BY <1>b, <2>2, <3>1
        <4>2. docs' = docs \cup call[c].ids
          BY <2>1, <2>2, <3>1, <4>1, ServeStep
        <4> QED BY <4>1, <4>2
      <3>2. CASE req[q].call # c
        <4>1. call'[req[q].call] = call[req[q].call]
          BY <2>1, <3>a, <3>2, ServeStep
        <4>2. req[q].file \in docs \/ Deletion(req[q].file)
          BY <1>a, <2>2, <4>1 DEF StoredOrDeleted
        <4>3. CASE req[q].file \in docs /\ req[q].file \notin docs'
          <5>1. /\ call[c].cmd = "delete_file" /\ call[c].pc # "idle"
                /\ req[q].file \in call[c].ids
            BY <2>1, <4>3, ServeStep
          <5> QED BY <5>1, CallHasRequest DEF Deletion
        <4> QED BY <4>2, <4>3
      <3> QED BY <3>1, <3>2
    <2> QED BY <2>1, <2>2 DEF StoredOrDeleted, Deletion
  <1> QED BY <1>1, <1>2, <1>3
-----------------------------------------------------------------------------
(* The invariant is inductive.                                             *)
THEOREM Inductive == Spec => []IInv
  <1>1. Init => IInv
    <2> SUFFICES ASSUME Init PROVE IInv
      OBVIOUS
    <2>1. /\ docs = {} /\ objects = {} /\ call = [c \in Calls |-> FS!Unsent]
          /\ avatar = [u \in Users |-> None]
          /\ req = [r \in Requests |-> Waiting]
      BY DEF Init, FS!Init
    <2>2. TypeOK
      BY <2>1 DEF TypeOK, FS!TypeOK, FS!Unsent, FS!Call, Waiting, Request
    <2>3. ShapeOK /\ GoneOK /\ CallsAreAwaited
      BY <2>1 DEF ShapeOK, Shape, GoneOK, Gone, CallsAreAwaited, FS!Unsent
    <2>4. KnowsOK
      BY <2>1 DEF KnowsOK, Knows, Waiting
    <2>5. UploadsApart /\ AvatarsAreUploaded /\ StoredOrDeleted
      BY <2>1 DEF UploadsApart, AvatarsAreUploaded, StoredOrDeleted, Waiting
    <2> QED BY <2>2, <2>3, <2>4, <2>5 DEF IInv
  <1>2. IInv /\ [Next]_vars => IInv'
    <2> SUFFICES ASSUME IInv, [Next]_vars PROVE IInv'
      OBVIOUS
    <2>1. CASE Next
      <3>1. \/ \E r \in Requests : Asks(r) \/ GoesOn(r)
            \/ \E c \in Calls : Serves(c)
        BY <2>1, NextIsStep
      <3>2. TypeOK' /\ ShapeOK' /\ GoneOK' /\ KnowsOK'
        BY <3>1, TypeStays, GoneStays, AllKnow
      <3>3. /\ CallsAreAwaited' /\ UploadsApart'
            /\ AvatarsAreUploaded' /\ StoredOrDeleted'
        BY <3>1, StillAwaited, StillApart, StillUploaded, StillStored
      <3> QED BY <3>2, <3>3 DEF IInv
    <2>2. CASE UNCHANGED vars
      <3>1. /\ docs' = docs /\ objects' = objects /\ call' = call
            /\ avatar' = avatar /\ req' = req
        BY <2>2 DEF vars
      <3>2. TypeOK' /\ ShapeOK' /\ GoneOK'
        BY <3>1 DEF IInv, TypeOK, FS!TypeOK, ShapeOK, Shape, GoneOK, Gone
      <3>3. KnowsOK'
        <4>1. CallsGoOn /\ DoneStays
          BY <3>1 DEF CallsGoOn, DoneStays
        <4>2. \A q \in Requests :
                 req[q].kind = "delete" /\ req[q].file # None
                    /\ req[q].reply = "ok"
                    => avatar'[req[q].user] # req[q].file
          BY <3>1 DEF IInv, KnowsOK, Knows
        <4>3. \A q \in Requests : Knows(req[q])'
          BY <3>1, <4>1, <4>2, KnowsStays
        <4> QED BY <4>3 DEF KnowsOK
      <3>4. CallsAreAwaited' /\ UploadsApart'
        BY <3>1 DEF IInv, CallsAreAwaited, UploadsApart
      <3>5. AvatarsAreUploaded'
        BY <3>1 DEF IInv, AvatarsAreUploaded, UploadedBy, Stored
      <3>6. StoredOrDeleted'
        BY <3>1 DEF IInv, StoredOrDeleted, Deletion
      <3> QED BY <3>2, <3>3, <3>4, <3>5, <3>6 DEF IInv
    <2> QED BY <2>1, <2>2
  <1> QED BY <1>1, <1>2, PTL DEF Spec

(* Rows, requests and the service's stores keep their shape.               *)
THEOREM TypeCorrect == Spec => []TypeOK
  <1>1. IInv => TypeOK
    BY DEF IInv
  <1> QED BY <1>1, Inductive, PTL

(* A deletion answered 204 has removed the document it found in the row,   *)
(* and neither a late RPC nor a late upload brings it back.                *)
THEOREM DeletionsAreDone == Spec => []DeletedAvatarsAreGone
  <1>1. IInv => DeletedAvatarsAreGone
    <2> SUFFICES ASSUME IInv, NEW r \in Requests, req[r].kind = "delete",
                        req[r].reply = "ok", req[r].file # None
                 PROVE  /\ req[r].file \notin docs
                        /\ avatar[req[r].user] # req[r].file
      BY DEF DeletedAvatarsAreGone
    <2>1. Knows(req[r]) /\ req[r].call \in Calls
      BY CallIsSent DEF IInv, KnowsOK, Knows
    <2>2. Gone(call[req[r].call])
      BY <2>1 DEF IInv, GoneOK
    <2> QED BY <2>1, <2>2 DEF Gone, Knows
  <1> QED BY <1>1, Inductive, PTL

(* Whoever asks for the deletion of a file is the user who uploaded it.    *)
LEMMA DeletersUploaded ==
  ASSUME IInv, NEW d \in Requests, req[d].kind = "delete",
         NEW p \in Requests, req[p].kind = "upload",
         req[d].file # None, req[d].file = req[p].file
  PROVE  req[d].user = req[p].user
  <1>1. UploadedBy(req[d].user, req[d].file)
    BY DEF IInv, KnowsOK, Knows
  <1>2. PICK s \in Requests : Stored(req[s], req[d].user, req[d].file)
    BY <1>1 DEF UploadedBy
  <1>3. s = p
    BY <1>2 DEF IInv, UploadsApart, Stored
  <1> QED BY <1>2, <1>3 DEF Stored

(* The stored file of an upload goes only by a deletion of its own user.   *)
THEOREM OwnersRemove == Spec => []OwnersRemoveAvatars
  <1>1. IInv => OwnersRemoveAvatars
    <2> SUFFICES ASSUME IInv, NEW r \in Requests, req[r].kind = "upload",
                        Reply(r) = "ok", req[r].file \notin docs
                 PROVE  \E d \in Requests : /\ req[d].kind = "delete"
                                            /\ req[d].user = req[r].user
                                            /\ req[d].file = req[r].file
      BY DEF OwnersRemoveAvatars
    <2>1. PICK d \in Requests :
             req[d].kind = "delete" /\ req[d].file = req[r].file
      BY DEF IInv, StoredOrDeleted, Deletion, Reply
    <2>2. req[r].file # None
      BY DEF IInv, KnowsOK, Knows
    <2> QED BY <2>1, <2>2, DeletersUploaded
  <1> QED BY <1>1, Inductive, PTL

(* A row that points at no document is what an unfinished deletion by its  *)
(* own user has left.                                                      *)
THEOREM DanglingExplained == Spec => []DanglingAvatarsAreExplained
  <1>1. IInv => DanglingAvatarsAreExplained
    <2> SUFFICES ASSUME IInv, NEW u \in Users,
                        avatar[u] \notin docs \cup {None}
                 PROVE  \E r \in Requests : /\ req[r].kind = "delete"
                                            /\ req[r].user = u
                                            /\ req[r].file = avatar[u]
                                            /\ req[r].reply # "ok"
      BY DEF DanglingAvatarsAreExplained
    <2>1. PICK p \in Requests : Stored(req[p], u, avatar[u])
      BY DEF IInv, AvatarsAreUploaded, UploadedBy
    <2>2. PICK d \in Requests :
             req[d].kind = "delete" /\ req[d].file = avatar[u]
      BY <2>1 DEF IInv, StoredOrDeleted, Deletion, Stored
    <2>3. req[d].user = u
      BY <2>1, <2>2, DeletersUploaded DEF Stored
    <2>4. req[d].reply # "ok"
      BY <2>2, <2>3 DEF IInv, KnowsOK, Knows
    <2> QED BY <2>2, <2>3, <2>4
  <1> QED BY <1>1, Inductive, PTL
=============================================================================
