-------------------------- MODULE FileServiceProofs --------------------------
(***************************************************************************)
(* Theorems about FileService, for any number of files and messages: what  *)
(* the two stores hold, whichever calls fail, die or overlap.              *)
(***************************************************************************)
EXTENDS FileService, TLAPS

USE DEF Cmds, Pcs, Replies, FirstStep, AfterFind

(* What the command and the program counter of a call say of its fields.   *)
Shape(q) ==
    /\ q.pc = "idle" => q = Unsent
    /\ q.pc \in {"put", "save"} => q.cmd = "upload_file"
    /\ q.pc = "find" => q.cmd \in {"delete_file", "delete_files"}
    /\ q.pc \in {"deleteAvatar", "deleteFile"} => q.cmd = "delete_file"
    /\ q.pc \in {"deleteMany", "deleteImages"} => q.cmd = "delete_files"
    /\ q.pc = "read" => q.cmd \in {"get_files_url", "update_owner_id_file"}
    /\ q.cmd = "upload_file" => /\ q.ids \subseteq Files
                                /\ q.pc = "done" => q.reply = "ok"
    /\ q.reply = "ok" => q.pc = "done"
    /\ q.found \subseteq q.ids
    /\ q.pc \in {"put", "save", "find", "read"} => q.found = {}
    /\ q.pc = "done" => q.reply # "none"

ShapeOK == \A c \in Calls : Shape(call[c])

(* No two uploads name the same file.                                      *)
UploadsApart ==
    \A c1, c2 \in Uploads : call[c1].ids \cap call[c2].ids # {} => c1 = c2

(* The upload of f is over: nothing will store f again.                    *)
Saved(f) == \E c \in Uploads : f \in call[c].ids /\ call[c].pc = "done"

(* What is stored was uploaded, and what other messages name was saved.    *)
StoredIsUploaded ==
    /\ \A f \in docs : Saved(f)
    /\ \A f \in objects :
          \E c \in Uploads : f \in call[c].ids /\ call[c].pc \in {"save", "done"}

NamedIsSaved ==
    \A c \in Calls : call[c].cmd # "upload_file" =>
       \A f \in call[c].ids \cap Files : Saved(f)

(* How far a call has come with its files.                                 *)
Progress(q) ==
    /\ q.pc = "save" => q.ids \subseteq objects
    /\ q.pc = "deleteMany" => q.ids \cap docs \subseteq q.found
    /\ q.pc = "deleteImages" => q.found \cap docs = {}
    /\ q.pc = "deleteFile" => q.found \cap objects = {}
    /\ q.cmd \in {"delete_file", "delete_files"} /\ q.reply = "ok" =>
          q.found \cap docs = {}
    /\ q.cmd = "delete_file" /\ q.reply = "ok" => q.found \cap objects = {}

ProgressOK == \A c \in Calls : Progress(call[c])

(* UploadedStays, file by file.                                            *)
FoundBy(f) == \E d \in Deletes : f \in call[d].found

StaysOrFound ==
    \A c \in Uploads : call[c].reply = "ok" =>
       \A f \in call[c].ids : f \in docs \cap objects \/ FoundBy(f)

IInv ==
    /\ TypeOK
    /\ ShapeOK
    /\ UploadsApart
    /\ StoredIsUploaded
    /\ NamedIsSaved
    /\ ProgressOK
    /\ StaysOrFound
    /\ DocumentHasObject
    /\ OrphansAreExplained

-----------------------------------------------------------------------------
(* The messages that may arrive, and the steps, one disjunct per await.    *)
Sendable(cmd, ids) ==
    \/ cmd = "upload_file" /\ \E f \in Files \ Minted : ids = {f}
    \/ /\ cmd \in {"delete_file", "delete_files", "get_files_url",
                   "update_owner_id_file"}
       /\ ids \subseteq Known

Step(c) ==
    \/ \E cmd \in Cmds, ids \in SUBSET (Files \cup Foreign) :
          Receive(c, cmd, ids) /\ Sendable(cmd, ids)
    \/ Put(c) \/ Save(c) \/ Find(c) \/ DeleteAvatar(c) \/ DeleteFile(c)
    \/ DeleteMany(c) \/ DeleteImages(c) \/ Read(c) \/ Throw(c) \/ Lose(c)

(* The next-state relation, flattened to the steps.                        *)
LEMMA NextIsStep ==
  ASSUME TypeOK, Next
  PROVE  \E c \in Calls : Step(c)
  <1>1. Known \subseteq Files \cup Foreign
    BY DEF TypeOK, Call, Known, Uploads
  <1>2. PICK c \in Calls : Send(c) \/ Serve(c)
    BY DEF Next
  <1>3. ASSUME NEW f \in Files \ Minted, Receive(c, "upload_file", {f})
        PROVE  Step(c)
    <2>1. {f} \in SUBSET (Files \cup Foreign) /\ Sendable("upload_file", {f})
      BY DEF Sendable
    <2> QED BY <1>3, <2>1 DEF Step
  <1>4. ASSUME NEW ids \in SUBSET Known,
               NEW cmd \in {"delete_file", "delete_files", "get_files_url",
                            "update_owner_id_file"},
               Receive(c, cmd, ids)
        PROVE  Step(c)
    <2>1. ids \in SUBSET (Files \cup Foreign) /\ Sendable(cmd, ids)
      BY <1>1 DEF Sendable
    <2> QED BY <1>4, <2>1 DEF Step
  <1>5. CASE Send(c)
    <2>1. ASSUME NEW f \in Known, Receive(c, "delete_file", {f}) PROVE Step(c)
      <3>1. {f} \in SUBSET Known
        OBVIOUS
      <3> QED BY <1>4, <2>1, <3>1
    <2> QED BY <1>3, <1>4, <1>5, <2>1 DEF Send
  <1>6. CASE Serve(c)
    BY <1>6 DEF Serve, Step
  <1> QED BY <1>2, <1>5, <1>6

(* A call that arrives is well-typed and well-shaped, and has done nothing.*)
Arrival(c, cmd, ids) ==
    /\ call[c] = Unsent
    /\ call'[c] = [cmd |-> cmd, pc |-> FirstStep[cmd], reply |-> "none",
                   ids |-> ids, found |-> {}]
    /\ docs' = docs /\ objects' = objects

(* A message that arrives does nothing else yet.                           *)
LEMMA Arrives ==
  ASSUME TypeOK, ShapeOK, NEW c \in Calls, NEW cmd, NEW ids,
         Receive(c, cmd, ids)
  PROVE  Arrival(c, cmd, ids)
  BY DEF TypeOK, ShapeOK, Shape, Receive, At, Arrival, Unsent

(* Steps touch their own call only, and leave it well-typed and            *)
(* well-shaped.                                                            *)
LEMMA TypeStep ==
  ASSUME TypeOK, ShapeOK, NEW c \in Calls, Step(c)
  PROVE  TypeOK' /\ Shape(call[c])' /\ call' = [call EXCEPT ![c] = call'[c]]
  <1>a. /\ docs \subseteq Files /\ objects \subseteq Files
        /\ call \in [Calls -> Call] /\ call[c] \in Call /\ Shape(call[c])
    BY DEF TypeOK, ShapeOK
  <1>1. ASSUME NEW cmd \in Cmds, NEW ids \in SUBSET (Files \cup Foreign),
               Receive(c, cmd, ids), Sendable(cmd, ids)
        PROVE  TypeOK' /\ Shape(call[c])' /\ call' = [call EXCEPT ![c] = call'[c]]
    <2>1. Arrival(c, cmd, ids) /\ call' = [call EXCEPT ![c] = call'[c]]
      BY <1>a, <1>1, Arrives DEF Receive
    <2>2. call'[c] \in Call
      BY <1>1, <2>1 DEF Arrival, Call, Sendable
    <2>3. Shape(call'[c])
      BY <1>1, <2>1 DEF Arrival, Shape, Sendable
    <2> QED BY <1>a, <2>1, <2>2, <2>3 DEF TypeOK, Arrival
  <1>2. CASE Put(c)
    BY <1>a, <1>2 DEF Put, Goto, At, TypeOK, Call, Shape
  <1>3. CASE Save(c)
    BY <1>a, <1>3 DEF Save, Answer, At, TypeOK, Call, Shape
  <1>4. CASE Find(c)
    BY <1>a, <1>4 DEF Find, Fails, Answer, At, TypeOK, Call, Shape
  <1>5. CASE DeleteAvatar(c)
    BY <1>a, <1>5 DEF DeleteAvatar, Goto, At, TypeOK, Call, Shape
  <1>6. CASE DeleteFile(c)
    BY <1>a, <1>6 DEF DeleteFile, Answer, At, TypeOK, Call, Shape
  <1>7. CASE DeleteMany(c)
    BY <1>a, <1>7 DEF DeleteMany, Goto, At, TypeOK, Call, Shape
  <1>8. CASE DeleteImages(c)
    BY <1>a, <1>8 DEF DeleteImages, Answer, Fails, At, TypeOK, Call, Shape
  <1>9. CASE Read(c)
    BY <1>a, <1>9 DEF Read, Answer, Fails, At, TypeOK, Call, Shape
  <1>10. CASE Throw(c) \/ Lose(c)
    BY <1>a, <1>10 DEF Throw, Lose, Fails, TypeOK, Call, Shape
  <1> QED
    BY <1>1, <1>2, <1>3, <1>4, <1>5, <1>6, <1>7, <1>8, <1>9, <1>10 DEF Step

-----------------------------------------------------------------------------
(* A step of one call leaves every other call alone.                       *)
LEMMA OthersKept ==
  ASSUME TypeOK, ShapeOK, NEW c \in Calls, Step(c), NEW q \in Calls, q # c
  PROVE  call'[q] = call[q]
  BY TypeStep DEF TypeOK

(* A step is an arrival or goes on with a call that has arrived, whose     *)
(* command and files stay what they are.                                   *)
Started(c) ==
    \E cmd \in Cmds, ids \in SUBSET (Files \cup Foreign) :
       Arrival(c, cmd, ids) /\ Sendable(cmd, ids)

GoesOn(c) ==
    /\ call[c].pc \notin {"idle", "done"}
    /\ call'[c].cmd = call[c].cmd
    /\ call'[c].ids = call[c].ids
    /\ call[c].found \subseteq call'[c].found

(* A step starts a call on ids its command admits, or goes on with one,    *)
(* which keeps its command and its ids.                                    *)
LEMMA StartedOrGoesOn ==
  ASSUME TypeOK, ShapeOK, NEW c \in Calls, Step(c)
  PROVE  \/ Started(c)
         \/ /\ GoesOn(c)
            /\ \/ Put(c) \/ Save(c) \/ Find(c) \/ DeleteAvatar(c)
               \/ DeleteFile(c) \/ DeleteMany(c) \/ DeleteImages(c)
               \/ Read(c) \/ Throw(c) \/ Lose(c)
  <1>a. call \in [Calls -> Call] /\ call[c] \in Call /\ Shape(call[c])
    BY DEF TypeOK, ShapeOK
  <1>1. ASSUME NEW cmd \in Cmds, NEW ids \in SUBSET (Files \cup Foreign),
               Receive(c, cmd, ids), Sendable(cmd, ids)
        PROVE  Started(c)
    BY <1>1, Arrives DEF Started
  <1>2. CASE Put(c) \/ Save(c) \/ DeleteAvatar(c) \/ DeleteFile(c) \/ DeleteMany(c)
    BY <1>a, <1>2 DEF Put, Save, DeleteAvatar, DeleteFile, DeleteMany, Goto,
       Answer, At, GoesOn, Call
  <1>3. CASE Find(c)
    BY <1>a, <1>3 DEF Find, Fails, Answer, At, GoesOn, Call, Shape
  <1>4. CASE Read(c)
    BY <1>a, <1>4 DEF Read, Fails, Answer, At, GoesOn, Call, Shape
  <1>5. CASE DeleteImages(c) \/ Throw(c) \/ Lose(c)
    BY <1>a, <1>5 DEF DeleteImages, Throw, Lose, Fails, Answer, At, GoesOn, Call
  <1> QED BY <1>1, <1>2, <1>3, <1>4, <1>5 DEF Step

(* What has arrived is an upload of a new file, or names known ones.       *)
LEMMA StartedAs ==
  ASSUME NEW c \in Calls, Started(c)
  PROVE  /\ call[c].pc = "idle" /\ docs' = docs /\ objects' = objects
         /\ call'[c].reply = "none" /\ call'[c].found = {}
         /\ call'[c].pc \in {"put", "find", "read"}
         /\ \/ /\ call'[c].cmd = "upload_file"
               /\ \A f \in call'[c].ids : f \notin Minted
            \/ call'[c].cmd # "upload_file" /\ call'[c].ids \subseteq Known
  <1>1. PICK cmd \in Cmds, ids \in SUBSET (Files \cup Foreign) :
           Arrival(c, cmd, ids) /\ Sendable(cmd, ids)
    BY DEF Started
  <1>2. /\ call[c].pc = "idle" /\ docs' = docs /\ objects' = objects
        /\ call'[c].reply = "none" /\ call'[c].found = {}
        /\ call'[c].cmd = cmd /\ call'[c].ids = ids
        /\ call'[c].pc = FirstStep[cmd]
    BY <1>1 DEF Arrival, Unsent
  <1> QED BY <1>1, <1>2 DEF Sendable

(* An upload that is over stays so.                                        *)
LEMMA SavedStays ==
  ASSUME TypeOK, ShapeOK, NEW c \in Calls, Step(c), NEW f, Saved(f)
  PROVE  Saved(f)'
  <1>1. PICK u \in Uploads : f \in call[u].ids /\ call[u].pc = "done"
    BY DEF Saved
  <1>2. u # c
    BY <1>1, StartedOrGoesOn, StartedAs DEF GoesOn
  <1> QED BY <1>1, <1>2, OthersKept DEF Saved, Uploads

(* What a step may add to the stores, and what it may take from them.      *)
LEMMA StoresStep ==
  ASSUME IInv, NEW c \in Calls, Step(c), NEW f
  PROVE  /\ f \in docs' /\ f \notin docs => Save(c) /\ f \in call[c].ids
         /\ f \in objects' /\ f \notin objects => Put(c) /\ f \in call[c].ids
         /\ f \in docs /\ f \notin docs' =>
               (DeleteFile(c) \/ DeleteMany(c)) /\ f \in call[c].found
         /\ f \in objects /\ f \notin objects' =>
               (DeleteAvatar(c) \/ DeleteImages(c)) /\ f \in call[c].found
  <1>a. Progress(call[c])
    BY DEF IInv, ProgressOK
  <1>1. CASE Started(c)
    BY <1>1, StartedAs
  <1>2. CASE DeleteMany(c)
    BY <1>a, <1>2 DEF DeleteMany, At, Progress
  <1>3. CASE ~DeleteMany(c) /\ ~Started(c)
    BY <1>3, StartedOrGoesOn
    DEF IInv, Put, Save, Find, DeleteAvatar, DeleteFile, DeleteImages, Read,
        Throw, Lose
  <1> QED BY <1>1, <1>2, <1>3

(* A file whose upload is over is never stored again.                      *)
LEMMA SavedOnce ==
  ASSUME IInv, NEW c \in Calls, Step(c), NEW f, Saved(f)
  PROVE  (f \in docs' => f \in docs) /\ (f \in objects' => f \in objects)
  <1>1. PICK u \in Uploads : f \in call[u].ids /\ call[u].pc = "done"
    BY DEF Saved
  <1>2. ASSUME Put(c) \/ Save(c), f \in call[c].ids PROVE FALSE
    <2>1. call[c].pc \in {"put", "save"}
      BY <1>2 DEF Put, Save, At
    <2>2. c \in Uploads
      BY <2>1 DEF IInv, ShapeOK, Shape, Uploads
    <2> QED BY <1>1, <1>2, <2>1, <2>2 DEF IInv, UploadsApart
  <1> QED BY <1>2, StoresStep

(* What a delete has found is the files of uploads that are over.          *)
LEMMA FoundIsSaved ==
  ASSUME IInv, NEW c \in Calls, call[c].cmd # "upload_file",
         NEW f \in call[c].found
  PROVE  Saved(f)
  BY DEF IInv, TypeOK, Call, ShapeOK, Shape, NamedIsSaved

-----------------------------------------------------------------------------
(* An upload mints an id that no upload has.                               *)
LEMMA ApartStep ==
  ASSUME IInv, NEW c \in Calls, Step(c)
  PROVE  UploadsApart'
  <1> USE DEF IInv
  <1>1. ASSUME NEW q \in Uploads', NEW f \in call'[q].ids
        PROVE  \/ q \in Uploads /\ f \in call[q].ids
               \/ q = c /\ f \notin Minted
    <2>1. CASE q # c
      BY <1>1, <2>1, OthersKept DEF Uploads
    <2>2. CASE q = c
      BY <1>1, <2>2, StartedOrGoesOn, StartedAs DEF Uploads, GoesOn
    <2> QED BY <2>1, <2>2
  <1> SUFFICES ASSUME NEW c1 \in Uploads', NEW c2 \in Uploads',
                      NEW f \in call'[c1].ids, f \in call'[c2].ids
               PROVE  c1 = c2
    BY DEF UploadsApart
  <1> QED BY <1>1 DEF Minted, UploadsApart

(* What is stored has been uploaded.                                       *)
LEMMA StoredStep ==
  ASSUME IInv, NEW c \in Calls, Step(c)
  PROVE  StoredIsUploaded'
  <1> USE DEF IInv
  <1>a. call \in [Calls -> Call] /\ call[c] \in Call /\ Shape(call[c])
    BY DEF TypeOK, ShapeOK
  <1>1. ASSUME NEW f \in docs' PROVE Saved(f)'
    <2>1. CASE f \in docs
      BY <2>1, SavedStays DEF StoredIsUploaded
    <2>2. CASE f \notin docs
      <3>1. Save(c) /\ f \in call[c].ids
        BY <1>1, <2>2, StoresStep
      <3>2. call'[c].cmd = "upload_file" /\ call'[c].pc = "done"
            /\ call'[c].ids = call[c].ids
        BY <1>a, <3>1 DEF Save, Answer, At, Call, Shape
      <3> QED BY <3>1, <3>2 DEF Saved, Uploads
    <2> QED BY <2>1, <2>2
  <1>2. ASSUME NEW f \in objects'
        PROVE  \E u \in Uploads' : /\ f \in call'[u].ids
                                   /\ call'[u].pc \in {"save", "done"}
    <2>1. CASE f \in objects
      <3>1. PICK u \in Uploads : f \in call[u].ids /\ call[u].pc \in {"save", "done"}
        BY <2>1 DEF StoredIsUploaded
      <3>2. CASE u # c
        BY <3>1, <3>2, OthersKept DEF Uploads
      <3>3. CASE u = c
        <4>1. GoesOn(c) /\ (Save(c) \/ Throw(c) \/ Lose(c))
          BY <3>1, <3>3, StartedOrGoesOn, StartedAs
          DEF GoesOn, Put, Find, DeleteAvatar,
              DeleteFile, DeleteMany, DeleteImages, Read, At
        <4>2. call'[c].pc \in {"save", "done"}
          BY <1>a, <3>1, <3>3, <4>1 DEF Save, Throw, Lose, Answer, Fails, Call
        <4> QED BY <3>1, <3>3, <4>1, <4>2 DEF GoesOn, Uploads
      <3> QED BY <3>2, <3>3
    <2>2. CASE f \notin objects
      <3>1. Put(c) /\ f \in call[c].ids
        BY <1>2, <2>2, StoresStep
      <3>2. call'[c].cmd = "upload_file" /\ call'[c].pc = "save"
            /\ call'[c].ids = call[c].ids
        BY <1>a, <3>1 DEF Put, Goto, At, Call, Shape
      <3> QED BY <3>1, <3>2 DEF Uploads
    <2> QED BY <2>1, <2>2
  <1> QED BY <1>1, <1>2 DEF StoredIsUploaded

(* Clients only name files that an upload has returned, or made-up ids.    *)
LEMMA NamedStep ==
  ASSUME IInv, NEW c \in Calls, Step(c)
  PROVE  NamedIsSaved'
  <1> USE DEF IInv
  <1> SUFFICES ASSUME NEW q \in Calls, call'[q].cmd # "upload_file",
                      NEW f \in call'[q].ids, f \in Files
               PROVE  Saved(f)
    BY SavedStays DEF NamedIsSaved
  <1>1. CASE q # c
    BY <1>1, OthersKept DEF NamedIsSaved
  <1>2. CASE q = c /\ GoesOn(c)
    BY <1>2 DEF GoesOn, NamedIsSaved
  <1>3. CASE q = c /\ Started(c)
    <2>1. f \in Known
      BY <1>3, StartedAs
    <2>2. PICK u \in Uploads : call[u].reply = "ok" /\ f \in call[u].ids
      BY <2>1, ForeignAssumption DEF Known
    <2> QED BY <2>2 DEF Saved, ShapeOK, Shape, Uploads
  <1> QED BY <1>1, <1>2, <1>3, StartedOrGoesOn

-----------------------------------------------------------------------------
(* What a call has achieved outlasts the steps of other calls: the files   *)
(* it names are neither stored again nor, under an upload, removed.        *)
LEMMA OthersProgress ==
  ASSUME IInv, NEW c \in Calls, Step(c), NEW q \in Calls, q # c
  PROVE  Progress(call[q])'
  <1> USE DEF IInv
  <1>a. /\ call'[q] = call[q] /\ Progress(call[q])
        /\ call[q] \in Call /\ Shape(call[q])
        /\ call[c] \in Call /\ Shape(call[c])
    BY OthersKept DEF ProgressOK, TypeOK, ShapeOK
  <1>1. call[q].pc = "save" => call[q].ids \subseteq objects'
    <2> SUFFICES ASSUME call[q].pc = "save", NEW f \in call[q].ids,
                        f \notin objects'
                 PROVE  FALSE
      OBVIOUS
    <2>1. /\ DeleteAvatar(c) \/ DeleteImages(c)
          /\ f \in call[c].found
      BY <1>a, StoresStep DEF Progress
    <2>2. call[c].cmd # "upload_file"
      BY <1>a, <2>1 DEF DeleteAvatar, DeleteImages, At, Shape
    <2>3. Saved(f)
      BY <2>1, <2>2, FoundIsSaved
    <2>4. q \in Uploads
      BY <1>a DEF Shape, Uploads
    <2> QED BY <2>3, <2>4 DEF Saved, UploadsApart
  <1>2. call[q].pc = "deleteMany" => call[q].ids \cap docs' \subseteq call[q].found
    <2> SUFFICES ASSUME call[q].pc = "deleteMany",
                        NEW f \in call[q].ids, f \in docs'
                 PROVE  f \in call[q].found
      OBVIOUS
    <2>1. f \in Files
      BY TypeStep DEF TypeOK
    <2>2. Saved(f)
      BY <1>a, <2>1 DEF NamedIsSaved, Shape
    <2> QED BY <1>a, <2>2, SavedOnce DEF Progress
  <1>3. ASSUME NEW f \in call[q].found, call[q].cmd # "upload_file"
        PROVE  (f \in docs' => f \in docs) /\ (f \in objects' => f \in objects)
    BY <1>3, FoundIsSaved, SavedOnce
  <1> QED BY <1>a, <1>1, <1>2, <1>3 DEF Progress, Shape

(* A call makes progress by its own steps.                                 *)
LEMMA OwnProgress ==
  ASSUME IInv, NEW c \in Calls, Step(c)
  PROVE  Progress(call[c])'
  <1>a. /\ call \in [Calls -> Call] /\ call[c] \in Call
        /\ Shape(call[c]) /\ Progress(call[c])
    BY DEF IInv, TypeOK, ShapeOK, ProgressOK
  <1>1. CASE Started(c)
    BY <1>1, StartedAs DEF Progress
  <1>2. CASE Put(c)
    BY <1>a, <1>2 DEF Put, Goto, At, Call, Shape, Progress
  <1>3. CASE Save(c)
    BY <1>a, <1>3 DEF Save, Answer, At, Call, Shape, Progress
  <1>4. CASE Find(c)
    BY <1>a, <1>4 DEF Find, Fails, Answer, At, Call, Shape, Progress
  <1>5. CASE DeleteAvatar(c)
    BY <1>a, <1>5 DEF DeleteAvatar, Goto, At, Call, Shape, Progress
  <1>6. CASE DeleteFile(c)
    BY <1>a, <1>6 DEF DeleteFile, Answer, At, Call, Shape, Progress
  <1>7. CASE DeleteMany(c)
    BY <1>a, <1>7 DEF DeleteMany, Goto, At, Call, Shape, Progress
  <1>8. CASE DeleteImages(c)
    BY <1>a, <1>8 DEF DeleteImages, Answer, Fails, At, Call, Shape, Progress
  <1>9. CASE Read(c)
    BY <1>a, <1>9 DEF Read, Answer, Fails, At, Call, Shape, Progress
  <1>10. CASE Throw(c) \/ Lose(c)
    BY <1>a, <1>10 DEF Throw, Lose, Fails, Call, Shape, Progress
  <1> QED
    BY <1>1, <1>2, <1>3, <1>4, <1>5, <1>6, <1>7, <1>8, <1>9, <1>10,
       StartedOrGoesOn DEF IInv

(* What a delete has found stays found.                                    *)
LEMMA FoundStays ==
  ASSUME IInv, NEW c \in Calls, Step(c), NEW f, FoundBy(f)
  PROVE  FoundBy(f)'
  <1> USE DEF IInv
  <1>1. PICK d \in Deletes : f \in call[d].found
    BY DEF FoundBy
  <1>2. CASE d # c
    BY <1>1, <1>2, OthersKept DEF FoundBy, Deletes
  <1>3. CASE d = c
    <2>1. call[c].pc # "idle"
      BY <1>1, <1>3 DEF ShapeOK, Shape, Unsent
    <2>2. GoesOn(c)
      BY <2>1, StartedOrGoesOn, StartedAs
    <2> QED BY <1>1, <1>3, <2>2 DEF GoesOn, FoundBy, Deletes
  <1> QED BY <1>2, <1>3

(* Only a delete takes a file away, and only one it has found.             *)
LEMMA StaysStep ==
  ASSUME IInv, NEW c \in Calls, Step(c)
  PROVE  StaysOrFound'
  <1> USE DEF IInv
  <1>a. call \in [Calls -> Call] /\ call[c] \in Call /\ Shape(call[c])
    BY DEF TypeOK, ShapeOK
  <1> SUFFICES ASSUME NEW q \in Calls, call'[q].cmd = "upload_file",
                      call'[q].reply = "ok", NEW f \in call'[q].ids
               PROVE  f \in docs' \cap objects' \/ FoundBy(f)'
    BY DEF StaysOrFound, Uploads
  <1>1. CASE q # c
    <2>1. f \in docs \cap objects \/ FoundBy(f)
      BY <1>1, OthersKept DEF StaysOrFound, Uploads
    <2>2. CASE FoundBy(f)
      BY <2>2, FoundStays
    <2>3. CASE f \in docs \cap objects /\ f \notin docs' \cap objects'
      <3>1. /\ DeleteFile(c) \/ DeleteMany(c) \/ DeleteAvatar(c) \/ DeleteImages(c)
            /\ f \in call[c].found
        BY <2>3, StoresStep
      <3>2. FoundBy(f)
        BY <1>a, <3>1
        DEF DeleteFile, DeleteMany, DeleteAvatar, DeleteImages, At, Shape,
            FoundBy, Deletes
      <3> QED BY <3>2, FoundStays
    <2> QED BY <2>1, <2>2, <2>3
  <1>2. CASE q = c
    <2>1. call'[c].reply # "none" /\ GoesOn(c)
      BY <1>2, StartedOrGoesOn, StartedAs
    <2>2. call[c].cmd = "upload_file"
      BY <1>2, <2>1 DEF GoesOn
    <2>3. Put(c) \/ Save(c) \/ Throw(c) \/ Lose(c)
      BY <1>a, <2>1, <2>2, StartedOrGoesOn, StartedAs
      DEF GoesOn, Find, DeleteAvatar, DeleteFile, DeleteMany, DeleteImages,
          Read, At, Shape
    <2>4. ~Put(c) /\ ~Throw(c) /\ ~Lose(c)
      BY <1>a, <1>2 DEF Put, Throw, Lose, Goto, Fails, At, Call
    <2>5. Save(c) /\ call[c].ids \subseteq objects
      BY <2>3, <2>4 DEF Save, At, ProgressOK, Progress
    <2> QED BY <1>2, <2>1, <2>5 DEF Save, GoesOn
  <1> QED BY <1>1, <1>2

(* DeleteAvatar alone takes the object of a document.                      *)
LEMMA DocumentStep ==
  ASSUME IInv, NEW c \in Calls, Step(c)
  PROVE  DocumentHasObject'
  <1> USE DEF IInv
  <1>a. /\ call \in [Calls -> Call] /\ call[c] \in Call
        /\ Shape(call[c]) /\ Progress(call[c])
    BY DEF TypeOK, ShapeOK, ProgressOK
  <1> SUFFICES ASSUME NEW f \in docs', f \notin objects'
               PROVE  \E d \in Calls : /\ call'[d].cmd = "delete_file"
                                      /\ f \in call'[d].found
                                      /\ call'[d].pc = "deleteFile"
    BY DEF DocumentHasObject, Deletes
  <1>1. f \in docs
    <2> SUFFICES ASSUME Save(c), f \in call[c].ids PROVE FALSE
      BY StoresStep
    <2> QED BY <1>a DEF Save, At, Progress
  <1>2. CASE f \in objects
    <2>1. /\ DeleteAvatar(c) \/ DeleteImages(c)
          /\ f \in call[c].found
      BY <1>2, StoresStep
    <2>2. ~DeleteImages(c)
      BY <1>a, <1>1, <2>1 DEF DeleteImages, At, Progress
    <2>3. DeleteAvatar(c)
      BY <2>1, <2>2
    <2>4. /\ call'[c].cmd = "delete_file" /\ call'[c].pc = "deleteFile"
          /\ call'[c].found = call[c].found
      BY <1>a, <2>3 DEF DeleteAvatar, Goto, At, Call, Shape
    <2> QED BY <2>1, <2>4
  <1>3. CASE f \notin objects
    <2>1. PICK d \in Deletes : /\ call[d].cmd = "delete_file"
                              /\ f \in call[d].found
                              /\ call[d].pc = "deleteFile"
      BY <1>1, <1>3 DEF DocumentHasObject
    <2>2. CASE d # c
      BY <2>1, <2>2, OthersKept DEF Deletes
    <2>3. CASE d = c
      <3>1. GoesOn(c) /\ (DeleteFile(c) \/ Throw(c) \/ Lose(c))
        BY <2>1, <2>3, StartedOrGoesOn, StartedAs
        DEF Put, Save, Find, DeleteAvatar, DeleteMany, DeleteImages, Read, At
      <3>2. ~DeleteFile(c)
        BY <2>1, <2>3 DEF DeleteFile
      <3>3. call'[c].pc = call[c].pc
        BY <1>a, <3>1, <3>2 DEF Throw, Lose, Fails, Call
      <3> QED BY <2>1, <2>3, <3>1, <3>3 DEF GoesOn
    <2> QED BY <2>2, <2>3
  <1> QED BY <1>2, <1>3

(* DeleteMany alone takes the document of an object, and only an upload's  *)
(* first step stores an object that has none.                              *)
Explains(q, f) ==
    \/ q.cmd = "upload_file" /\ f \in q.ids /\ q.pc = "save"
    \/ /\ q.cmd = "delete_files" /\ f \in q.found
       /\ q.pc \in {"deleteImages", "done"}

(* An object stays without document only as long as something explains it. *)
LEMMA OrphanStep ==
  ASSUME IInv, NEW c \in Calls, Step(c)
  PROVE  OrphansAreExplained'
  <1> USE DEF IInv
  <1>a. /\ call \in [Calls -> Call] /\ call[c] \in Call
        /\ Shape(call[c]) /\ Progress(call[c])
    BY DEF TypeOK, ShapeOK, ProgressOK
  <1> SUFFICES ASSUME NEW f \in objects', f \notin docs'
               PROVE  \E q \in Calls : Explains(call'[q], f)
    BY DEF OrphansAreExplained, Explains, Uploads, Deletes
  <1>1. CASE f \notin objects
    <2>1. Put(c) /\ f \in call[c].ids
      BY <1>1, StoresStep
    <2>2. /\ call'[c].cmd = "upload_file" /\ call'[c].pc = "save"
          /\ call'[c].ids = call[c].ids
      BY <1>a, <2>1 DEF Put, Goto, At, Call, Shape
    <2> QED BY <2>1, <2>2 DEF Explains
  <1>2. CASE f \in objects /\ f \in docs
    <2>1. (DeleteFile(c) \/ DeleteMany(c)) /\ f \in call[c].found
      BY <1>2, StoresStep
    <2>2. ~DeleteFile(c)
      BY <1>a, <1>2, <2>1 DEF DeleteFile, At, Progress
    <2>3. DeleteMany(c)
      BY <2>1, <2>2
    <2>4. /\ call'[c].cmd = "delete_files" /\ call'[c].pc = "deleteImages"
          /\ call'[c].found = call[c].found
      BY <1>a, <2>3 DEF DeleteMany, Goto, At, Call, Shape
    <2> QED BY <2>1, <2>4 DEF Explains
  <1>3. CASE f \in objects /\ f \notin docs
    <2>1. PICK q \in Calls : Explains(call[q], f)
      BY <1>3 DEF OrphansAreExplained, Explains, Uploads, Deletes
    <2>2. CASE q # c
      BY <2>1, <2>2, OthersKept
    <2>3. CASE q = c
      <3>1. GoesOn(c) /\ (Save(c) \/ DeleteImages(c) \/ Throw(c) \/ Lose(c))
        BY <2>1, <2>3, StartedOrGoesOn, StartedAs
        DEF Explains, GoesOn, Put, Find, DeleteAvatar, DeleteFile, DeleteMany,
            Read, At
      <3>2. ~Save(c)
        BY <1>a, <2>1, <2>3 DEF Explains, Save, At, Shape
      <3>3. \/ call'[c].pc = call[c].pc
            \/ call[c].cmd = "delete_files" /\ call'[c].pc = "done"
        BY <1>a, <3>1, <3>2
        DEF DeleteImages, Throw, Lose, Fails, Answer, At, Call, Shape
      <3> QED BY <2>1, <2>3, <3>1, <3>3 DEF GoesOn, Explains
    <2> QED BY <2>2, <2>3
  <1> QED BY <1>1, <1>2, <1>3

-----------------------------------------------------------------------------
(* The inductive invariant holds of empty stores and unsent messages.      *)
LEMMA InitIInv == Init => IInv
  <1> SUFFICES ASSUME Init PROVE IInv
    OBVIOUS
  <1>1. docs = {} /\ objects = {} /\ \A c \in Calls : call[c] = Unsent
    BY DEF Init
  <1>2. TypeOK
    BY DEF Init, TypeOK, Call, Unsent
  <1>3. ShapeOK /\ ProgressOK
    BY <1>1 DEF ShapeOK, Shape, ProgressOK, Progress, Unsent
  <1>4. UploadsApart /\ StoredIsUploaded /\ NamedIsSaved /\ StaysOrFound
    BY <1>1 DEF UploadsApart, StoredIsUploaded, NamedIsSaved, StaysOrFound,
       Uploads, Unsent
  <1>5. DocumentHasObject /\ OrphansAreExplained
    BY <1>1 DEF DocumentHasObject, OrphansAreExplained
  <1> QED BY <1>2, <1>3, <1>4, <1>5 DEF IInv

(* Every step preserves the inductive invariant.                           *)
LEMMA NextIInv == IInv /\ [Next]_vars => IInv'
  <1> SUFFICES ASSUME IInv, [Next]_vars PROVE IInv'
    OBVIOUS
  <1>1. ASSUME NEW c \in Calls, Step(c) PROVE IInv'
    <2>1. TypeOK' /\ ShapeOK'
      BY <1>1, TypeStep, OthersKept DEF IInv, ShapeOK
    <2>2. ProgressOK'
      BY <1>1, OwnProgress, OthersProgress DEF ProgressOK
    <2> QED BY <1>1, <2>1, <2>2, ApartStep, StoredStep, NamedStep, StaysStep,
               DocumentStep, OrphanStep DEF IInv
  <1>2. CASE UNCHANGED vars
    BY <1>2 DEF vars, IInv, TypeOK, ShapeOK, UploadsApart, Uploads,
       StoredIsUploaded, Saved, NamedIsSaved, ProgressOK, Progress,
       StaysOrFound, FoundBy, Deletes, DocumentHasObject, OrphansAreExplained
  <1> QED BY <1>1, <1>2, NextIsStep DEF IInv

(* The inductive invariant holds of every behaviour of the service.        *)
THEOREM Inductive == Spec => []IInv
  BY InitIInv, NextIInv, PTL DEF Spec

(* Every variable keeps its type in every step of FileService.             *)
THEOREM TypeCorrect == Spec => []TypeOK
  <1>1. IInv => TypeOK
    BY DEF IInv
  <1> QED BY <1>1, Inductive, PTL

(* Whatever fails, a document lacks its object only in the middle of an    *)
(* interrupted delete_file (UploadFile, DeleteFile, DeleteFiles).          *)
THEOREM DocumentsHaveObjects == Spec => []DocumentHasObject
  <1>1. IInv => DocumentHasObject
    BY DEF IInv
  <1> QED BY <1>1, Inductive, PTL

(* Whatever fails, an object without document comes from an upload that    *)
(* did not reach its save or from a delete_files that failed in S3.        *)
THEOREM OrphansExplained == Spec => []OrphansAreExplained
  <1>1. IInv => OrphansAreExplained
    BY DEF IInv
  <1> QED BY <1>1, Inductive, PTL

(* A file whose upload was answered stays until a delete has found it.     *)
THEOREM UploadsStay == Spec => []UploadedStays
  <1>1. ASSUME IInv PROVE UploadedStays
    BY <1>1 DEF IInv, StaysOrFound, FoundBy, UploadedStays
  <1> QED BY <1>1, Inductive, PTL

(* A file whose deletion was answered with success is gone for good.       *)
THEOREM DeletedStaysGone == Spec => []DeletedIsGone
  <1>1. ASSUME IInv PROVE DeletedIsGone
    BY <1>1 DEF IInv, ProgressOK, Progress, DeletedIsGone, Deletes
  <1> QED BY <1>1, Inductive, PTL
=============================================================================
