------------------------------- MODULE MediaUpload -------------------------------
(***************************************************************************)
(* Uploads: the handlers uploadMedia and getMedia of                       *)
(* src/internal/transport/http/media.go, UploadFile of media.go, the       *)
(* statements of store/record_store.go and the local file storage.         *)
(*                                                                         *)
(* An upload inserts a record without a file name, writes the file under   *)
(* the id the database gave the record, and then updates the record with   *)
(* the name and the link made of that id: three steps no transaction       *)
(* joins, and uploads interleave between them.  Name and link are unique   *)
(* columns.                                                                *)
(***************************************************************************)
EXTENDS Integers, FiniteSets

CONSTANTS Slot,        \* places for requests in flight: bounds their number
          Id,          \* the ids of the table: bounds the number of records
          Faults,      \* the kinds of faults that may happen
          MaxFaults,   \* bound on their number
          None         \* an absent record, a free slot

VARIABLES media,       \* table media
          files,       \* the directory files, by the id the name is made of
          req,         \* the requests in flight
          lost,        \* history: the ids whose file could not be written
          faults       \* history: how many faults so far

vars == <<media, files, req, lost, faults>>

\* named: the name and the link have been made; both are '' before.
Record == [type : {"image", "sound"}, named : BOOLEAN]

\* An upload: the type its form says, and the kind of its extension.
Upload == [type : {"image", "sound", "other"}, ext : {"image", "sound", "other"}]
Request == [upload : Upload \cup {None},   \* None: getMedia
            id : Id \cup {None},
            pc : {"insert", "create", "copy", "update", "get", "reply"},
            row : Record \cup {None},
            err : {None, "invalid", "not_found", "unknown"}]

ASSUME NoneAssumption ==
  None \notin Record \cup Upload \cup Request \cup Id \cup {"invalid", "not_found", "unknown"}

ASSUME FaultsAssumption ==
  Faults \subseteq {"disconnect", "statement", "file", "crash"} /\ MaxFaults \in Nat

TypeOK ==
  /\ media \in [Id -> Record \cup {None}]
  /\ files \in [Id -> {"absent", "partial", "whole"}]
  /\ req \in [Slot -> Request \cup {None}]
  /\ lost \subseteq Id
  /\ faults \in 0..MaxFaults

Init ==
  /\ media = [i \in Id |-> None]
  /\ files = [i \in Id |-> "absent"]
  /\ req = [r \in Slot |-> None]
  /\ lost = {} /\ faults = 0
--------------------------------------------------------------------------------
At(r, pc) == req[r] # None /\ req[r].pc = pc
GoTo(r, pc) == req' = [req EXCEPT ![r].pc = pc]
Refuse(r, e) == req' = [req EXCEPT ![r].pc = "reply", ![r].err = e]

MutAccepts(u) == u.ext = u.type

\* The type is one of two, and the kind of the extension.  A ".wav" is none of
\* the extensions: the list says ".wav,".  The size is not looked at, for the
\* bound given to ParseMultipartForm is on what it keeps in memory.
Accepts(u) == u.type \in {"image", "sound"} /\ u.ext = u.type

SubmitUpload(r, u) ==
  /\ req[r] = None
  /\ req' = [req EXCEPT ![r] =
       [upload |-> u, id |-> None, row |-> None,
        pc |-> IF Accepts(u) THEN "insert" ELSE "reply",
        err |-> IF Accepts(u) THEN None ELSE "invalid"]]
  /\ UNCHANGED <<media, files, lost, faults>>

SubmitGet(r, i) ==
  /\ req[r] = None
  /\ req' = [req EXCEPT ![r] =
       [upload |-> None, id |-> i, row |-> None, pc |-> "get", err |-> None]]
  /\ UNCHANGED <<media, files, lost, faults>>

\* The record of another upload has no name yet, or never got one: '' is a
\* value like others to the unique constraints.
Nameless == \E i \in Id : media[i] # None /\ ~media[i].named

\* INSERT, with '' for name and link, and a new id.
InsertRecord(r, i) ==
  /\ At(r, "insert")
  /\ ~Nameless /\ media[i] = None
  /\ media' = [media EXCEPT ![i] = [type |-> req[r].upload.type, named |-> FALSE]]

InsertMedia(r) ==
  /\ \/ \E i \in Id : /\ InsertRecord(r, i)
                      /\ req' = [req EXCEPT ![r].pc = "create", ![r].id = i]
     \/ /\ At(r, "insert") /\ Nameless
        /\ Refuse(r, "unknown")
        /\ UNCHANGED media
  /\ UNCHANGED <<files, lost, faults>>

MutCreateFile(r) ==
  /\ At(r, "create")
  /\ files' = [files EXCEPT ![req[r].id] = "partial"]
  /\ GoTo(r, "update")
  /\ UNCHANGED <<media, lost, faults>>

\* OpenFile, and then io.Copy.
CreateFile(r) ==
  /\ At(r, "create")
  /\ files' = [files EXCEPT ![req[r].id] = "partial"]
  /\ GoTo(r, "copy")
  /\ UNCHANGED <<media, lost, faults>>

CopyFile(r) ==
  /\ At(r, "copy")
  /\ files' = [files EXCEPT ![req[r].id] = "whole"]
  /\ GoTo(r, "update")
  /\ UNCHANGED <<media, lost, faults>>

\* UPDATE with the name and the link.
UpdateRecord(r) ==
  /\ At(r, "update")
  /\ media' = [media EXCEPT ![req[r].id].named = TRUE]

UpdateMedia(r) ==
  /\ UpdateRecord(r)
  /\ req' = [req EXCEPT ![r].pc = "reply", ![r].row = media'[req[r].id]]
  /\ UNCHANGED <<files, lost, faults>>

GetMedia(r) ==
  /\ At(r, "get")
  /\ \/ media[req[r].id] = None /\ Refuse(r, "not_found")
     \/ /\ media[req[r].id] # None
        /\ req' = [req EXCEPT ![r].pc = "reply", ![r].row = media[req[r].id]]
  /\ UNCHANGED <<media, files, lost, faults>>

Reply(r) ==
  /\ At(r, "reply")
  /\ req' = [req EXCEPT ![r] = None]
  /\ UNCHANGED <<media, files, lost, faults>>
--------------------------------------------------------------------------------
Fault(kind) ==
  /\ kind \in Faults /\ faults < MaxFaults
  /\ faults' = faults + 1

Write(r) == UpdateRecord(r) \/ \E i \in Id : InsertRecord(r, i)

\* The connection of the client is lost.  A statement on its way may still be
\* executed, but no later one is; the file is written all the same.
Disconnect(r) ==
  /\ Fault("disconnect")
  /\ req[r] # None
  /\ Write(r) \/ UNCHANGED media
  /\ files' = IF req[r].pc \in {"create", "copy"}
              THEN [files EXCEPT ![req[r].id] = "whole"] ELSE files
  /\ req' = [req EXCEPT ![r] = None]
  /\ UNCHANGED lost

\* A statement fails, or its result is lost.
StatementFails(r) ==
  /\ Fault("statement")
  /\ req[r] # None /\ req[r].pc \in {"insert", "update", "get"}
  /\ Write(r) \/ UNCHANGED media
  /\ Refuse(r, "unknown")
  /\ UNCHANGED <<files, lost>>

MutFileFails(r) ==
  /\ Fault("file")
  /\ At(r, "create") \/ At(r, "copy")
  /\ lost' = lost \cup {req[r].id}
  /\ Refuse(r, "unknown")
  /\ UNCHANGED <<media, files>>

\* The file cannot be created or the disk is full: UploadFile overwrites the
\* error with that of UpdateMedia and goes on.
FileFails(r) ==
  /\ Fault("file")
  /\ At(r, "create") \/ At(r, "copy")
  /\ lost' = lost \cup {req[r].id}
  /\ GoTo(r, "update")
  /\ UNCHANGED <<media, files>>

Crash ==
  /\ Fault("crash")
  /\ req' = [r \in Slot |-> None]
  /\ UNCHANGED <<media, files, lost>>

Handle(r) ==
  \/ InsertMedia(r) \/ CreateFile(r) \/ CopyFile(r) \/ UpdateMedia(r)
  \/ GetMedia(r) \/ Reply(r)

Next ==
  \/ \E r \in Slot :
       \/ \E u \in Upload : SubmitUpload(r, u)
       \/ \E i \in Id : SubmitGet(r, i)
       \/ Handle(r) \/ Disconnect(r) \/ StatementFails(r) \/ FileFails(r)
  \/ Crash

Spec == Init /\ [][Next]_vars

\* The server runs each handler to its end.
FairSpec == Spec /\ \A r \in Slot : WF_vars(Handle(r))
--------------------------------------------------------------------------------
(***************************************************************************)
(* Whoever is given a link, by the upload or by getMedia, finds the whole  *)
(* file under it, unless the storage failed when it was written: a record  *)
(* is named only when its file is there, whoever crashed or left between.  *)
(***************************************************************************)
LinkMeansFile ==
  /\ \A i \in Id :
       media[i] # None => (media[i].named => files[i] = "whole" \/ i \in lost)
  /\ \A r \in Slot :
       At(r, "reply") /\ req[r].row # None => media[req[r].id] # None

(***************************************************************************)
(* No upload keeps the others out for long: the record without a name that *)
(* makes their INSERT fail gets its name, also when its file could not be  *)
(* written.  It needs clients that stay, statements that do not fail and a *)
(* process that does not stop: no fault but those of the files in lost.    *)
(***************************************************************************)
GetsItsName == Nameless ~> ~Nameless \/ faults > Cardinality(lost)

(***************************************************************************)
(* Uploads do not depend on one another: the schema gives a record without *)
(* a file name the name NULL (migrations/5_add_media.up.sql:5), of which   *)
(* a unique column takes any number.                                       *)
(***************************************************************************)
NoConflict ==
  [][\A r \in Slot :
       At(r, "insert") /\ req'[r] # None /\ req'[r].pc = "reply" => faults' # faults]_vars
================================================================================
