----------------------------- MODULE FileService -----------------------------
(***************************************************************************)
(* The upload-files microservice: a collection of documents (Mongo) that   *)
(* describe the objects of a bucket (S3).  Every message of the gateway is *)
(* a call served in several awaited steps, each of which may fail; the     *)
(* process may also die between two of them.  Document and object of one   *)
(* upload are both named by the document's id.                             *)
(***************************************************************************)
CONSTANTS
    Files,       \* the ids Mongo gives to documents
    Foreign,     \* ids clients make up: no document ever has them
    Malformed,   \* those of them that are not ObjectIds at all
    Calls        \* RPC messages, each served once

ASSUME ForeignAssumption == Files \cap Foreign = {}
ASSUME MalformedAssumption == Malformed \subseteq Foreign

VARIABLES
    docs,        \* ids of the stored documents
    objects,     \* the objects in the bucket
    call         \* the calls

vars == <<docs, objects, call>>

Cmds == {"none", "upload_file", "delete_file", "delete_files",
         "get_files_url", "update_owner_id_file"}
Pcs == {"idle", "put", "save", "find", "deleteAvatar", "deleteFile",
        "deleteMany", "deleteImages", "read", "done"}
Replies == {"none", "ok", "isSuccess:false", "error", "lost"}

Call ==
    [cmd: Cmds, pc: Pcs, reply: Replies,
     ids: SUBSET (Files \cup Foreign),   \* the ids it names, or mints
     found: SUBSET Files]                \* the documents it found

Unsent == [cmd |-> "none", pc |-> "idle", reply |-> "none",
           ids |-> {}, found |-> {}]

Init ==
    /\ docs = {}
    /\ objects = {}
    /\ call = [c \in Calls |-> Unsent]

-----------------------------------------------------------------------------
\* A failed or lost call keeps the program counter it stopped at.
At(c, label) == call[c].pc = label /\ call[c].reply = "none"

Goto(c, label) == call' = [call EXCEPT ![c].pc = label]

Fails(c) == call' = [call EXCEPT ![c].reply = "error"]

Answer(c, reply) ==
    call' = [call EXCEPT ![c].pc = "done", ![c].reply = reply]

Uploads == {c \in Calls : call[c].cmd = "upload_file"}

Minted == UNION {call[c].ids : c \in Uploads}

\* The ids a client can name: those an upload returned, and made-up ones.
Known ==
    Foreign \cup UNION {call[c].ids : c \in {u \in Uploads : call[u].reply = "ok"}}

FirstStep == [upload_file |-> "put", delete_file |-> "find",
              delete_files |-> "find", get_files_url |-> "read",
              update_owner_id_file |-> "read"]

(* Steps with a bug, to show what the properties below would catch.        *)

\* UploadFile going on to its save when S3 has refused the object.
PutUnchecked(c) ==
    /\ At(c, "put")
    /\ objects' \in {objects, objects \cup call[c].ids}
    /\ Goto(c, "save")
    /\ UNCHANGED docs

\* Every id taken for a document's.
FindAll(c) ==
    /\ At(c, "find")
    /\ call' = [call EXCEPT ![c].found = call[c].ids,
                            ![c].pc = IF call[c].cmd = "delete_file"
                                      THEN "deleteAvatar" ELSE "deleteMany"]
    /\ UNCHANGED <<docs, objects>>

\* DeleteFile going on to its document when S3 has kept the object.
DeleteAvatarUnchecked(c) ==
    /\ At(c, "deleteAvatar")
    /\ objects' \in {objects, objects \ call[c].found}
    /\ Goto(c, "deleteFile")
    /\ UNCHANGED docs

\* deleteMany without its filter, and deleteOne in its place.
DeleteEverything(c) ==
    /\ At(c, "deleteMany")
    /\ docs' = {}
    /\ Goto(c, "deleteImages")
    /\ UNCHANGED objects

DeleteOne(c) ==
    /\ At(c, "deleteMany")
    /\ \E f \in call[c].found : docs' = docs \ {f}
    /\ Goto(c, "deleteImages")
    /\ UNCHANGED objects

-----------------------------------------------------------------------------
(* A message arrives.                                                      *)
Receive(c, cmd, ids) ==
    /\ At(c, "idle")
    /\ call' = [call EXCEPT ![c] = [Unsent EXCEPT !.cmd = cmd, !.ids = ids,
                                      !.pc = FirstStep[cmd]]]
    /\ UNCHANGED <<docs, objects>>

\* UploadFile: the object first, then its document.
Put(c) ==
    /\ At(c, "put")
    /\ objects' = objects \cup call[c].ids
    /\ Goto(c, "save")
    /\ UNCHANGED docs

Save(c) ==
    /\ At(c, "save")
    /\ docs' = docs \cup call[c].ids
    /\ Answer(c, "ok")
    /\ UNCHANGED objects

\* DeleteFile and DeleteFiles look their documents up; an id that is not an
\* ObjectId makes the query throw.
AfterFind == [delete_file |-> "deleteAvatar", delete_files |-> "deleteMany"]

Find(c) ==
    /\ At(c, "find")
    /\ LET found == call[c].ids \cap docs
       IN  IF call[c].ids \cap Malformed # {} THEN Fails(c)
           ELSE IF found = {} THEN Answer(c, "isSuccess:false")
           ELSE call' = [call EXCEPT ![c].pc = AfterFind[call[c].cmd],
                                     ![c].found = found]
    /\ UNCHANGED <<docs, objects>>

\* DeleteFile: the object first, then its document.
DeleteAvatar(c) ==
    /\ At(c, "deleteAvatar")
    /\ objects' = objects \ call[c].found
    /\ Goto(c, "deleteFile")
    /\ UNCHANGED docs

DeleteFile(c) ==
    /\ At(c, "deleteFile")
    /\ docs' = docs \ call[c].found
    /\ Answer(c, "ok")
    /\ UNCHANGED objects

\* DeleteFiles: the documents, outside the session's transaction.
DeleteMany(c) ==
    /\ At(c, "deleteMany")
    /\ docs' = docs \ call[c].ids
    /\ Goto(c, "deleteImages")
    /\ UNCHANGED objects

\* DeleteFiles: then the objects.  DeleteObjects reports the keys it could
\* not delete in its answer, which nobody reads; it may also throw.
\* Neither commit nor abort of the empty transaction changes anything.
DeleteImages(c) ==
    /\ At(c, "deleteImages")
    /\ \E gone \in SUBSET call[c].found : objects' = objects \ gone
    /\ Answer(c, "ok") \/ Fails(c)
    /\ UNCHANGED docs

\* get_file_url and get_files_url answer for the documents they find, and
\* throw when there is none; updateOwnerId builds a query it never runs.
Read(c) ==
    /\ At(c, "read")
    /\ IF call[c].cmd = "update_owner_id_file" THEN Answer(c, "ok")
       ELSE IF call[c].ids \cap Malformed # {} \/ call[c].ids \cap docs = {}
       THEN Fails(c)
       ELSE call' = [call EXCEPT ![c].pc = "done", ![c].reply = "ok",
                                 ![c].found = call[c].ids \cap docs]
    /\ UNCHANGED <<docs, objects>>

(* The store refuses the statement of the current step.                    *)
Throw(c) ==
    /\ call[c].pc \notin {"idle", "done"}
    /\ call[c].reply = "none"
    /\ Fails(c)
    /\ UNCHANGED <<docs, objects>>

(* The process dies: the call is never answered.                           *)
Lose(c) ==
    /\ call[c].pc \notin {"idle", "done"}
    /\ call[c].reply = "none"
    /\ call' = [call EXCEPT ![c].reply = "lost"]
    /\ UNCHANGED <<docs, objects>>

\* What the service does of its own accord.
Serve(c) ==
    \/ Put(c) \/ Save(c)
    \/ Find(c) \/ DeleteAvatar(c) \/ DeleteFile(c)
    \/ DeleteMany(c) \/ DeleteImages(c)
    \/ Read(c)
    \/ Throw(c) \/ Lose(c)

\* What the gateway may send: an upload mints an id, other messages name some.
Send(c) ==
    \/ \E f \in Files \ Minted : Receive(c, "upload_file", {f})
    \/ \E f \in Known : Receive(c, "delete_file", {f})
    \/ \E ids \in SUBSET Known :
          \/ Receive(c, "delete_files", ids)
          \/ Receive(c, "get_files_url", ids)
          \/ Receive(c, "update_owner_id_file", ids)

Next == \E c \in Calls : Send(c) \/ Serve(c)

Spec == Init /\ [][Next]_vars

-----------------------------------------------------------------------------
TypeOK ==
    /\ docs \subseteq Files
    /\ objects \subseteq Files
    /\ call \in [Calls -> Call]

Deletes == {c \in Calls : call[c].cmd \in {"delete_file", "delete_files"}}

(* A document without its object, whose URL leads nowhere, is only ever    *)
(* the middle of a delete_file that was interrupted after S3 and before    *)
(* Mongo, which the same message sent again repairs (UploadFile puts the   *)
(* object first, DeleteFiles removes the documents first).                 *)
DocumentHasObject ==
    \A f \in docs \ objects :
       \E c \in Deletes : /\ call[c].cmd = "delete_file"
                          /\ f \in call[c].found
                          /\ call[c].pc = "deleteFile"

(* An object without document, which nothing can delete any more, comes    *)
(* only from an upload that did not reach its save, or from a delete_files *)
(* that removed the documents and then failed in S3: never from a          *)
(* delete_file, wherever it is interrupted.                                *)
OrphansAreExplained ==
    \A f \in objects \ docs :
       \/ \E c \in Uploads : f \in call[c].ids /\ call[c].pc = "save"
       \/ \E c \in Deletes : /\ call[c].cmd = "delete_files"
                             /\ f \in call[c].found
                             /\ call[c].pc \in {"deleteImages", "done"}

(* A file whose upload was answered stays, document and object, as long as *)
(* no delete message named it.                                             *)
UploadedStays ==
    \A c \in Uploads : call[c].reply = "ok" =>
       \/ call[c].ids \subseteq docs \cap objects
       \/ \E d \in Deletes : call[c].ids \cap call[d].found # {}

(* A file whose deletion was answered with success has no document any     *)
(* more, and after delete_file no object either, whatever other deletions  *)
(* of it ran at the same time.                                             *)
DeletedIsGone ==
    \A c \in Deletes : call[c].reply = "ok" =>
       /\ call[c].found \cap docs = {}
       /\ call[c].cmd = "delete_file" => call[c].found \cap objects = {}

(* What the comment in DeleteFiles says: "If any operation fails, rollback *)
(* the transaction".  A failed delete_files leaves its documents in place, *)
(* unless another message deletes them.                                    *)
FailedDeleteFilesRollsBack ==
    \A c \in Deletes :
       (call[c].cmd = "delete_files" /\ call[c].reply = "error") =>
          \A f \in call[c].found \ docs :
             \E d \in Deletes \ {c} : f \in call[d].found
=============================================================================
