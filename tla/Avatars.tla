------------------------------- MODULE Avatars -------------------------------
(***************************************************************************)
(* The avatars of the gateway (features/user) over the file service.       *)
(*                                                                         *)
(* User.avatarId names a document of the file service.  An upload stores   *)
(* the file, then points the row at it; a deletion removes the file it     *)
(* read from the row, then clears the row.  Nothing holds the two stores   *)
(* together, and an RPC is given up after 10 s though it may still be      *)
(* served.                                                                 *)
(***************************************************************************)
CONSTANTS
    Files, Foreign, Malformed, Calls,   \* of FileService
    Users,
    Requests,     \* HTTP requests, each served once
    None          \* "no value"

ASSUME NoneAssumption == None \notin Users \cup Files \cup Calls

VARIABLES
    docs, objects, call,   \* of FileService
    avatar,                \* User.avatarId
    req                    \* the requests

FS == INSTANCE FileService

vars == <<docs, objects, call, avatar, req>>

Request ==
    [kind: {"none", "upload", "delete", "view"},
     pc: {"idle", "await", "save", "clear", "url", "done"},
     reply: {"none", "ok", "404", "502", "lost"},
     user: Users \cup {None},
     file: Files \cup {None},    \* the file it uploads, read or shows
     call: Calls \cup {None}]    \* the RPC it awaits

Waiting == [kind |-> "none", pc |-> "idle", reply |-> "none", user |-> None,
            file |-> None, call |-> None]

Init ==
    /\ FS!Init
    /\ avatar = [u \in Users |-> None]
    /\ req = [r \in Requests |-> Waiting]

-----------------------------------------------------------------------------
At(r, label) == req[r].pc = label /\ req[r].reply = "none"

Goto(r, label) == req' = [req EXCEPT ![r].pc = label]

Answer(r, reply) ==
    req' = [req EXCEPT ![r].pc = "done", ![r].reply = reply]

\* An RPC about file f is sent, and awaited.
Ask(r, kind, u, cmd, f) ==
    \E c \in Calls :
       /\ FS!Receive(c, cmd, {f})
       /\ req' = [req EXCEPT ![r] =
                    [Waiting EXCEPT !.kind = kind, !.pc = "await",
                                    !.user = u, !.file = f, !.call = c]]

Reply(r) == call[req[r].call].reply

-----------------------------------------------------------------------------
(* Steps with a bug, to show what the properties below would catch.        *)

\* A deletion of the file the client names.
DeleteAvatarNamed(r, u) ==
    /\ At(r, "idle")
    /\ \E f \in FS!Known : Ask(r, "delete", u, "delete_file", f)
    /\ UNCHANGED avatar

\* The Err of an upload, or of a deletion, not looked at.
UploadUnchecked(r) ==
    /\ At(r, "await") /\ req[r].kind = "upload"
    /\ Reply(r) \in {"ok", "error"}
    /\ Goto(r, "save")
    /\ UNCHANGED <<docs, objects, call, avatar>>

DeletionUnchecked(r) ==
    /\ At(r, "await") /\ req[r].kind = "delete"
    /\ Reply(r) \in {"ok", "isSuccess:false", "error"}
    /\ Goto(r, "clear")
    /\ UNCHANGED <<docs, objects, call, avatar>>

\* The row pointed at something other than the document.
SaveAvatarByCall(r) ==
    /\ At(r, "save")
    /\ avatar' = [avatar EXCEPT ![req[r].user] = req[r].call]
    /\ Answer(r, "ok")
    /\ UNCHANGED <<docs, objects, call>>

-----------------------------------------------------------------------------
(* UploadAvatarUser: a valid image is sent to the file service...          *)
UploadAvatar(r, u) ==
    /\ At(r, "idle")
    /\ \E f \in Files \ FS!Minted : Ask(r, "upload", u, "upload_file", f)
    /\ UNCHANGED avatar

UploadAnswered(r) ==
    /\ At(r, "await") /\ req[r].kind = "upload"
    /\ Reply(r) = "ok"
    /\ Goto(r, "save")
    /\ UNCHANGED <<docs, objects, call, avatar>>

(* ... and the row is pointed at it; any error of the update is 404.  The  *)
(* file of the avatar before it stays in the service.                      *)
SaveAvatar(r) ==
    /\ At(r, "save")
    /\ \/ /\ avatar' = [avatar EXCEPT ![req[r].user] = req[r].file]
          /\ Answer(r, "ok")
       \/ UNCHANGED avatar /\ Answer(r, "404")
    /\ UNCHANGED <<docs, objects, call>>

(* DeleteAvatarUser: the file in the row, if there is one, is deleted...   *)
DeleteAvatar(r, u) ==
    /\ At(r, "idle")
    /\ IF avatar[u] # None
         THEN Ask(r, "delete", u, "delete_file", avatar[u])
         ELSE /\ req' = [req EXCEPT ![r] = [Waiting EXCEPT
                            !.kind = "delete", !.user = u, !.pc = "done",
                            !.reply = "ok"]]
              /\ UNCHANGED <<docs, objects, call>>
    /\ UNCHANGED avatar

(* ... found or not, and then the row is cleared, whatever it says by now. *)
DeletionAnswered(r) ==
    /\ At(r, "await") /\ req[r].kind = "delete"
    /\ Reply(r) \in {"ok", "isSuccess:false"}
    /\ Goto(r, "clear")
    /\ UNCHANGED <<docs, objects, call, avatar>>

ClearAvatar(r) ==
    /\ At(r, "clear")
    /\ avatar' = [avatar EXCEPT ![req[r].user] = None]
    /\ Answer(r, "ok")
    /\ UNCHANGED <<docs, objects, call>>

(* getUserViewById, of GET me, PUT user and registration: the URL of the   *)
(* avatar in the row is asked for, and the view is answered whatever       *)
(* becomes of the question, which changes nothing in the service.          *)
GetUserView(r, u) ==
    /\ At(r, "idle")
    /\ LET q == [Waiting EXCEPT !.kind = "view", !.user = u]
       IN  req' = [req EXCEPT ![r] =
              IF avatar[u] = None THEN [q EXCEPT !.pc = "done", !.reply = "ok"]
              ELSE [q EXCEPT !.pc = "url", !.file = avatar[u]]]
    /\ UNCHANGED <<docs, objects, call, avatar>>

GetFileUrl(r) ==
    /\ At(r, "url")
    /\ \/ req' = [req EXCEPT ![r].pc = "done", ![r].reply = "ok",
                             ![r].file = None]
       \/ req[r].file \in docs /\ Answer(r, "ok")
    /\ UNCHANGED <<docs, objects, call, avatar>>

(* The service throws, or does not answer in time, which it may do later.  *)
RpcFails(r) ==
    /\ At(r, "await")
    /\ Answer(r, "502")
    /\ UNCHANGED <<docs, objects, call, avatar>>

(* The gateway dies, or its database refuses the statement.                *)
Abort(r) ==
    /\ req[r].pc # "idle" /\ req[r].reply = "none"
    /\ req' = [req EXCEPT ![r].reply = "lost"]
    /\ UNCHANGED <<docs, objects, call, avatar>>

Next ==
    \/ \E r \in Requests, u \in Users :
          UploadAvatar(r, u) \/ DeleteAvatar(r, u) \/ GetUserView(r, u)
    \/ \E r \in Requests :
          \/ UploadAnswered(r) \/ SaveAvatar(r)
          \/ DeletionAnswered(r) \/ ClearAvatar(r)
          \/ GetFileUrl(r)
          \/ RpcFails(r) \/ Abort(r)
    \/ (\E c \in Calls : FS!Serve(c)) /\ UNCHANGED <<avatar, req>>

Spec == Init /\ [][Next]_vars

-----------------------------------------------------------------------------
TypeOK ==
    /\ FS!TypeOK
    /\ avatar \in [Users -> Files \cup {None}]
    /\ req \in [Requests -> Request]

(* An avatar whose document is gone is only ever what an unfinished        *)
(* deletion of it has left: one that is under way, was lost, or was        *)
(* answered with an error after the service had deleted the file.          *)
DanglingAvatarsAreExplained ==
    \A u \in Users : avatar[u] \notin docs \cup {None} =>
       \E r \in Requests : /\ req[r].kind = "delete" /\ req[r].user = u
                           /\ req[r].file = avatar[u]
                           /\ req[r].reply # "ok"

(* The stored file of an avatar goes only by a deletion of its own user,   *)
(* who then had it as avatar: no upload and no other user removes it, and  *)
(* a deletion that is overtaken by an upload spares the new file.          *)
OwnersRemoveAvatars ==
    \A r \in Requests :
       (/\ req[r].kind = "upload" /\ req[r].pc \in {"save", "done"}
        /\ Reply(r) = "ok" /\ req[r].file \notin docs)
          => \E d \in Requests : /\ req[d].kind = "delete"
                                 /\ req[d].user = req[r].user
                                 /\ req[d].file = req[r].file

(* A deletion that was answered 204 has removed the avatar it found, from  *)
(* both stores, and no request that is still under way brings it back.     *)
DeletedAvatarsAreGone ==
    \A r \in Requests :
       (/\ req[r].kind = "delete" /\ req[r].reply = "ok"
        /\ req[r].file # None)
          => req[r].file \notin docs /\ avatar[req[r].user] # req[r].file
=============================================================================
