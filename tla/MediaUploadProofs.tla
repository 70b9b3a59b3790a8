---------------------------- MODULE MediaUploadProofs ----------------------------
(***************************************************************************)
(* Proofs about MediaUpload, for any number of requests, records and       *)
(* faults.                                                                 *)
(***************************************************************************)
EXTENDS MediaUpload, TLAPS

\* The upload has its record, and has not named it yet.
Storing(x) == x # None /\ x.pc \in {"create", "copy", "update"}

\* What a request is by the time it stands before a statement.
RequestOK(x) ==
  /\ x.pc = "insert" => x.upload # None /\ x.upload.type \in {"image", "sound"}
  /\ x.pc \in {"create", "copy", "update", "get"} => x.id # None
  /\ x.pc # "reply" => x.row = None
  /\ x.row # None => x.id # None

\* The record of an upload in flight is its own, and has no name; by the time it
\* gets one the file is whole, or is known to be lost.
StoredBy(x) ==
  Storing(x) =>
    /\ media[x.id] # None /\ ~media[x.id].named
    /\ x.pc = "update" => files[x.id] = "whole" \/ x.id \in lost

OwnRecord ==
  \A r, s \in Slot : r # s /\ Storing(req[r]) /\ Storing(req[s]) => req[r].id # req[s].id

TypeInv == TypeOK /\ \A r \in Slot : req[r] # None => RequestOK(req[r])

MediaInv == TypeInv /\ LinkMeansFile /\ OwnRecord /\ \A r \in Slot : StoredBy(req[r])

LEMMA ARequest ==
  ASSUME TypeInv, NEW r \in Slot, req[r] # None
  PROVE  req[r] \in Request /\ RequestOK(req[r])
BY DEF TypeInv, TypeOK

\* Nobody else has the record of an upload in flight.
LEMMA Apart ==
  ASSUME MediaInv, NEW r \in Slot, Storing(req[r]), NEW s \in Slot \ {r}, Storing(req[s])
  PROVE  /\ req[r].id \in Id /\ req[s].id \in Id
         /\ req[r].id # req[s].id
<1>1. req[r].id \in Id /\ req[s].id \in Id
  BY ARequest DEF MediaInv, Storing, Request, RequestOK
<1> QED
  BY <1>1 DEF MediaInv, OwnRecord

\* One request becomes y, the records and files of the other uploads in flight
\* stay as they are, and no record goes away.
LEMMA OneMoves ==
  ASSUME MediaInv, NEW r \in Slot, NEW y \in Request \cup {None},
         req' = [req EXCEPT ![r] = y],
         y # None => RequestOK(y),
         media' \in [Id -> Record \cup {None}],
         files' \in [Id -> {"absent", "partial", "whole"}],
         lost \subseteq lost', lost' \subseteq Id, faults' \in 0..MaxFaults,
         \A i \in Id : media[i] # None => media'[i] # None,
         \A i \in Id : media'[i] # None /\ media'[i].named => files'[i] = "whole" \/ i \in lost',
         StoredBy(y)',
         \A s \in Slot \ {r} : Storing(req[s]) =>
           /\ media'[req[s].id] = media[req[s].id] /\ files'[req[s].id] = files[req[s].id]
           /\ Storing(y) => req[s].id # y.id,
         y # None /\ y.pc = "reply" /\ y.row # None => media'[y.id] # None
  PROVE  MediaInv'
<1>1. /\ req \in [Slot -> Request \cup {None}] /\ req'[r] = y
      /\ \A s \in Slot \ {r} : req'[s] = req[s]
  BY DEF MediaInv, TypeInv, TypeOK
<1>2. TypeInv'
  BY <1>1 DEF MediaInv, TypeInv, TypeOK
<1>3. LinkMeansFile'
  <2>1. ASSUME NEW s \in Slot, At(s, "reply")', req'[s].row # None
        PROVE  media'[req'[s].id] # None
    <3>1. CASE s = r
      BY <1>1, <2>1, <3>1 DEF At
    <3>2. CASE s # r
      <4>1. At(s, "reply") /\ req'[s] = req[s] /\ media[req[s].id] # None
        BY <1>1, <2>1, <3>2 DEF At, MediaInv, LinkMeansFile
      <4>2. req[s].id \in Id
        BY <2>1, <4>1, ARequest DEF At, MediaInv, Request, RequestOK
      <4> QED
        BY <4>1, <4>2
    <3> QED
      BY <3>1, <3>2
  <2> QED
    BY <2>1 DEF LinkMeansFile
<1>4. OwnRecord'
  BY <1>1 DEF MediaInv, OwnRecord
<1>5. ASSUME NEW s \in Slot
      PROVE  StoredBy(req[s])'
  <2>1. CASE s = r
    BY <1>1, <2>1
  <2>2. CASE s # r
    BY <1>1, <2>2 DEF MediaInv, StoredBy
  <2> QED
    BY <2>1, <2>2
<1> QED
  BY <1>2, <1>3, <1>4, <1>5 DEF MediaInv

\* A request moves, and the records, the files and what is lost stay.
LEMMA RequestMoves ==
  ASSUME MediaInv, NEW r \in Slot, NEW y \in Request \cup {None},
         req' = [req EXCEPT ![r] = y],
         y # None => RequestOK(y),
         UNCHANGED <<media, files, lost>>, faults' \in 0..MaxFaults,
         StoredBy(y),
         Storing(y) => Storing(req[r]) /\ y.id = req[r].id,
         y # None /\ y.pc = "reply" /\ y.row # None => media[y.id] # None
  PROVE  MediaInv'
<1>1. media \in [Id -> Record \cup {None}] /\ files \in [Id -> {"absent", "partial", "whole"}]
      /\ lost \subseteq Id
  BY DEF MediaInv, TypeInv, TypeOK
<1>2. \A i \in Id : media'[i] # None /\ media'[i].named => files'[i] = "whole" \/ i \in lost'
  BY DEF MediaInv, LinkMeansFile
<1>3. StoredBy(y)'
  BY DEF StoredBy
<1>4. \A s \in Slot \ {r} : Storing(req[s]) /\ Storing(y) => req[s].id # y.id
  BY Apart
<1> QED
  BY <1>1, <1>2, <1>3, <1>4, OneMoves

LEMMA FaultsStay ==
  ASSUME MediaInv, faults' = faults \/ (\E kind : Fault(kind))
  PROVE  faults' \in 0..MaxFaults
BY FaultsAssumption DEF MediaInv, TypeInv, TypeOK, Fault
--------------------------------------------------------------------------------
(* The two statements that write the table.                                *)

LEMMA Inserted ==
  ASSUME MediaInv, NEW r \in Slot, NEW i \in Id, InsertRecord(r, i)
  PROVE  /\ media' \in [Id -> Record \cup {None}]
         /\ media[i] = None /\ media'[i] # None /\ ~media'[i].named
         /\ \A j \in Id \ {i} : media'[j] = media[j]
<1>1. PICK rec : rec = [type |-> req[r].upload.type, named |-> FALSE]
  OBVIOUS
<1>2. rec \in Record
  BY <1>1, ARequest DEF MediaInv, InsertRecord, At, RequestOK, Record
<1>3. rec # None /\ ~rec.named
  BY <1>1, <1>2, NoneAssumption
<1>4. media \in [Id -> Record \cup {None}] /\ media' = [media EXCEPT ![i] = rec]
  BY <1>1 DEF InsertRecord, MediaInv, TypeInv, TypeOK
<1> QED
  BY <1>2, <1>3, <1>4 DEF InsertRecord

LEMMA Updated ==
  ASSUME MediaInv, NEW r \in Slot, UpdateRecord(r)
  PROVE  /\ media' \in [Id -> Record \cup {None}]
         /\ req[r].id \in Id /\ media'[req[r].id] \in Record
         /\ \A j \in Id \ {req[r].id} : media'[j] = media[j]
         /\ files[req[r].id] = "whole" \/ req[r].id \in lost
<1>1. PICK i : i = req[r].id
  OBVIOUS
<1>2. /\ Storing(req[r]) /\ req[r].pc = "update" /\ i \in Id
      /\ media[i] # None /\ (files[i] = "whole" \/ i \in lost)
  BY <1>1, ARequest DEF MediaInv, UpdateRecord, At, Storing, StoredBy, Request, RequestOK
<1>3. media \in [Id -> Record \cup {None}]
  BY DEF MediaInv, TypeInv, TypeOK
<1>4. PICK rec : rec = [media[i] EXCEPT !.named = TRUE]
  OBVIOUS
<1>5. rec \in Record
  BY <1>2, <1>3, <1>4 DEF Record
<1>6. media' = [media EXCEPT ![i] = rec]
  BY <1>1, <1>3, <1>4 DEF UpdateRecord
<1> QED
  BY <1>1, <1>2, <1>3, <1>5, <1>6

\* Either leaves the other uploads in flight alone, and names no record whose
\* file is not there.
LEMMA Written ==
  ASSUME MediaInv, NEW r \in Slot, Write(r) \/ UNCHANGED media
  PROVE  /\ media' \in [Id -> Record \cup {None}]
         /\ \A i \in Id : media[i] # None => media'[i] # None
         /\ \A i \in Id : media'[i] # None /\ media'[i].named => files[i] = "whole" \/ i \in lost
         /\ \A s \in Slot \ {r} : Storing(req[s]) => media'[req[s].id] = media[req[s].id]
<1>0. /\ \A s \in Slot : Storing(req[s]) => req[s].id \in Id /\ media[req[s].id] # None
      /\ \A i \in Id : media[i] # None /\ media[i].named => files[i] = "whole" \/ i \in lost
      /\ media \in [Id -> Record \cup {None}]
  BY ARequest
  DEF MediaInv, LinkMeansFile, StoredBy, Storing, Request, RequestOK, TypeInv, TypeOK
<1>1. ASSUME NEW i \in Id, InsertRecord(r, i)
      PROVE  /\ \A s \in Slot : Storing(req[s]) => req[s].id # i
             /\ \A j \in Id : media[j] # None => media'[j] # None
             /\ \A j \in Id : media'[j] # None /\ media'[j].named => files[j] = "whole" \/ j \in lost
  BY <1>0, <1>1, Inserted
<1>2. ASSUME UpdateRecord(r)
      PROVE  /\ \A s \in Slot \ {r} : Storing(req[s]) => req[s].id # req[r].id
             /\ \A j \in Id : media[j] # None => media'[j] # None
             /\ \A j \in Id : media'[j] # None /\ media'[j].named => files[j] = "whole" \/ j \in lost
  <2>1. Storing(req[r])
    BY <1>2 DEF UpdateRecord, At, Storing
  <2>2. \A s \in Slot \ {r} : Storing(req[s]) => req[s].id # req[r].id
    BY <2>1, Apart
  <2>3. media'[req[r].id] # None
    BY <1>2, Updated, NoneAssumption
  <2> QED
    BY <1>0, <1>2, <2>2, <2>3, Updated
<1>3. CASE UNCHANGED media
  BY <1>0, <1>3
<1>4. CASE \E i \in Id : InsertRecord(r, i)
  BY <1>0, <1>1, <1>4, Inserted
<1>5. CASE UpdateRecord(r)
  BY <1>0, <1>2, <1>5, Updated
<1> QED
  BY <1>3, <1>4, <1>5 DEF Write
--------------------------------------------------------------------------------
(* One lemma per action.                                                   *)

LEMMA SubmitUploadKeeps ==
  ASSUME MediaInv, NEW r \in Slot, NEW u \in Upload, SubmitUpload(r, u)
  PROVE  MediaInv'
<1>1. PICK y : y = [upload |-> u, id |-> None, row |-> None,
                    pc |-> IF Accepts(u) THEN "insert" ELSE "reply",
                    err |-> IF Accepts(u) THEN None ELSE "invalid"]
  OBVIOUS
<1>2. y \in Request /\ ~Storing(y) /\ y.row = None
  BY <1>1 DEF Request, Storing
<1>3. u # None
  BY NoneAssumption
<1>4. RequestOK(y)
  BY <1>1, <1>3 DEF RequestOK, Accepts
<1>5. req' = [req EXCEPT ![r] = y]
  BY <1>1 DEF SubmitUpload
<1> QED
  BY <1>2, <1>4, <1>5, FaultsStay, RequestMoves DEF SubmitUpload, StoredBy

LEMMA SubmitGetKeeps ==
  ASSUME MediaInv, NEW r \in Slot, NEW i \in Id, SubmitGet(r, i)
  PROVE  MediaInv'
<1>1. PICK y : y = [upload |-> None, id |-> i, row |-> None, pc |-> "get", err |-> None]
  OBVIOUS
<1>2. y \in Request /\ ~Storing(y) /\ y.row = None
  BY <1>1 DEF Request, Storing
<1>3. RequestOK(y)
  BY <1>1, NoneAssumption DEF RequestOK
<1>4. req' = [req EXCEPT ![r] = y]
  BY <1>1 DEF SubmitGet
<1> QED
  BY <1>2, <1>3, <1>4, FaultsStay, RequestMoves DEF SubmitGet, StoredBy

\* A request that is answered with an error, whatever it wrote.
LEMMA RefuseKeeps ==
  ASSUME MediaInv, NEW r \in Slot, req[r] # None, req[r].pc # "reply",
         NEW e \in {"unknown", "not_found"}, Refuse(r, e),
         Write(r) \/ UNCHANGED media,
         UNCHANGED <<files, lost>>, faults' \in 0..MaxFaults
  PROVE  MediaInv'
<1>1. PICK x : x = req[r]
  OBVIOUS
<1>2. PICK y : y = [x EXCEPT !.pc = "reply", !.err = e]
  OBVIOUS
<1>3. x \in Request /\ RequestOK(x) /\ x.row = None
  BY <1>1, ARequest DEF MediaInv, RequestOK
<1>4. y \in Request /\ y.pc = "reply" /\ y.row = None /\ ~Storing(y)
  BY <1>2, <1>3 DEF Request, Storing
<1>5. RequestOK(y)
  BY <1>4 DEF RequestOK
<1>6. req' = [req EXCEPT ![r] = y]
  BY <1>1, <1>2 DEF Refuse, MediaInv, TypeInv, TypeOK
<1>7. files \in [Id -> {"absent", "partial", "whole"}] /\ lost \subseteq Id
  BY DEF MediaInv, TypeInv, TypeOK
<1> QED
  BY <1>4, <1>5, <1>6, <1>7, Written, OneMoves DEF StoredBy

LEMMA InsertMediaKeeps ==
  ASSUME MediaInv, NEW r \in Slot, InsertMedia(r)
  PROVE  MediaInv'
<1>1. PICK x : x = req[r]
  OBVIOUS
<1>2. x # None /\ x \in Request /\ RequestOK(x) /\ x.pc = "insert" /\ x.row = None
  BY <1>1, ARequest DEF MediaInv, InsertMedia, InsertRecord, At, RequestOK
<1>3. faults' \in 0..MaxFaults /\ UNCHANGED <<files, lost>>
  BY FaultsStay DEF InsertMedia
<1>4. ASSUME NEW i \in Id, InsertRecord(r, i),
             req' = [req EXCEPT ![r].pc = "create", ![r].id = i]
      PROVE  MediaInv'
  <2>1. PICK y : y = [x EXCEPT !.pc = "create", !.id = i]
    OBVIOUS
  <2>2. y \in Request /\ y.pc = "create" /\ y.id = i /\ y.row = None
    BY <1>2, <2>1 DEF Request
  <2>3. RequestOK(y)
    BY <2>2, NoneAssumption DEF RequestOK
  <2>4. req' = [req EXCEPT ![r] = y]
    BY <1>1, <1>4, <2>1 DEF MediaInv, TypeInv, TypeOK
  <2>5. StoredBy(y)'
    BY <1>4, <2>2, Inserted DEF StoredBy
  <2>6. \A s \in Slot : Storing(req[s]) => req[s].id # y.id
    BY <1>4, <2>2, Inserted DEF MediaInv, StoredBy
  <2>7. files \in [Id -> {"absent", "partial", "whole"}] /\ lost \subseteq Id
    BY DEF MediaInv, TypeInv, TypeOK
  <2>8. Write(r)
    BY <1>4 DEF Write
  <2> QED
    BY <1>3, <2>2, <2>3, <2>4, <2>5, <2>6, <2>7, <2>8, Written, OneMoves
<1>5. CASE Refuse(r, "unknown") /\ UNCHANGED media
  BY <1>1, <1>2, <1>3, <1>5, RefuseKeeps
<1> QED
  BY <1>4, <1>5 DEF InsertMedia

\* A file is written, as far as it gets: another upload's is another file, and a
\* record that is named has its own.
LEMMA FileMoves ==
  ASSUME MediaInv, NEW r \in Slot, At(r, "create") \/ At(r, "copy"),
         NEW pc \in {"copy", "update"}, req' = [req EXCEPT ![r].pc = pc],
         UNCHANGED media, faults' \in 0..MaxFaults,
         \/ /\ lost' = lost
            /\ \E f \in {"partial", "whole"} : /\ files' = [files EXCEPT ![req[r].id] = f]
                                               /\ pc = "update" => f = "whole"
         \/ lost' = lost \cup {req[r].id} /\ UNCHANGED files
  PROVE  MediaInv'
<1>1. PICK x : x = req[r]
  OBVIOUS
<1>2. PICK y : y = [x EXCEPT !.pc = pc]
  OBVIOUS
<1>3. PICK i : i = x.id
  OBVIOUS
<1>4. /\ x \in Request /\ RequestOK(x) /\ x.row = None /\ i \in Id /\ Storing(x)
      /\ media[i] # None /\ ~media[i].named
  BY <1>1, <1>3, ARequest DEF MediaInv, At, Storing, StoredBy, Request, RequestOK
<1>5. y \in Request /\ y.pc = pc /\ y.id = i /\ y.row = None
  BY <1>2, <1>3, <1>4 DEF Request
<1>6. RequestOK(y)
  BY <1>4, <1>5, NoneAssumption DEF RequestOK
<1>7. req' = [req EXCEPT ![r] = y]
  BY <1>1, <1>2 DEF MediaInv, TypeInv, TypeOK
<1>8. /\ media \in [Id -> Record \cup {None}]
      /\ files \in [Id -> {"absent", "partial", "whole"}] /\ lost \subseteq Id
      /\ \A j \in Id : media[j] # None /\ media[j].named => files[j] = "whole" \/ j \in lost
  BY DEF MediaInv, LinkMeansFile, TypeInv, TypeOK
<1>9. /\ files' \in [Id -> {"absent", "partial", "whole"}]
      /\ lost \subseteq lost' /\ lost' \subseteq Id
      /\ \A j \in Id \ {i} : files'[j] = files[j]
      /\ pc = "update" => files'[i] = "whole" \/ i \in lost'
  BY <1>1, <1>3, <1>4, <1>8
<1>10. StoredBy(y)'
  BY <1>4, <1>5, <1>9 DEF StoredBy
<1>11. \A j \in Id : media'[j] # None /\ media'[j].named => files'[j] = "whole" \/ j \in lost'
  BY <1>4, <1>8, <1>9
<1>12. \A s \in Slot \ {r} : Storing(req[s]) => req[s].id \in Id \ {i}
  BY <1>1, <1>3, <1>4, Apart
<1>13. \A s \in Slot \ {r} : Storing(req[s]) =>
         /\ media'[req[s].id] = media[req[s].id] /\ files'[req[s].id] = files[req[s].id]
         /\ Storing(y) => req[s].id # y.id
  BY <1>5, <1>9, <1>12
<1>14. /\ media' \in [Id -> Record \cup {None}]
       /\ \A j \in Id : media[j] # None => media'[j] # None
  BY <1>8
<1> QED
  BY <1>5, <1>6, <1>7, <1>9, <1>10, <1>11, <1>13, <1>14, OneMoves

LEMMA UpdateMediaKeeps ==
  ASSUME MediaInv, NEW r \in Slot, UpdateMedia(r)
  PROVE  MediaInv'
<1>1. PICK x : x = req[r]
  OBVIOUS
<1>2. PICK i : i = x.id
  OBVIOUS
<1>3. /\ x \in Request /\ RequestOK(x) /\ i \in Id
      /\ media'[i] \in Record /\ Write(r)
  BY <1>1, <1>2, ARequest, Updated
  DEF MediaInv, UpdateMedia, UpdateRecord, At, Write
<1>4. PICK y : y = [x EXCEPT !.pc = "reply", !.row = media'[i]]
  OBVIOUS
<1>5. y \in Request /\ y.pc = "reply" /\ y.id = i
  BY <1>2, <1>3, <1>4 DEF Request
<1>6. RequestOK(y) /\ ~Storing(y)
  BY <1>3, <1>5, NoneAssumption DEF RequestOK, Storing
<1>7. req' = [req EXCEPT ![r] = y]
  BY <1>1, <1>2, <1>4 DEF UpdateMedia, MediaInv, TypeInv, TypeOK
<1>8. /\ files \in [Id -> {"absent", "partial", "whole"}] /\ lost \subseteq Id
      /\ faults' \in 0..MaxFaults /\ UNCHANGED <<files, lost>>
  BY FaultsStay DEF UpdateMedia, MediaInv, TypeInv, TypeOK
<1>9. media'[i] # None
  BY <1>3, NoneAssumption
<1> QED
  BY <1>3, <1>5, <1>6, <1>7, <1>8, <1>9, Written, OneMoves DEF StoredBy

LEMMA GetMediaKeeps ==
  ASSUME MediaInv, NEW r \in Slot, GetMedia(r)
  PROVE  MediaInv'
<1>1. PICK x : x = req[r]
  OBVIOUS
<1>2. /\ x # None /\ x \in Request /\ RequestOK(x) /\ x.pc = "get" /\ x.id \in Id
      /\ faults' \in 0..MaxFaults
  BY <1>1, ARequest, FaultsStay DEF MediaInv, GetMedia, At, Request, RequestOK
<1>3. CASE Refuse(r, "not_found")
  BY <1>1, <1>2, <1>3, RefuseKeeps DEF GetMedia
<1>4. CASE /\ media[x.id] # None
           /\ req' = [req EXCEPT ![r].pc = "reply", ![r].row = media[x.id]]
  <2>1. media[x.id] \in Record
    BY <1>2, <1>4 DEF MediaInv, TypeInv, TypeOK
  <2>2. PICK y : y = [x EXCEPT !.pc = "reply", !.row = media[x.id]]
    OBVIOUS
  <2>3. y \in Request /\ y.pc = "reply" /\ y.id = x.id
    BY <1>2, <2>1, <2>2 DEF Request
  <2>4. RequestOK(y) /\ ~Storing(y)
    BY <1>2, <2>3, NoneAssumption DEF RequestOK, Storing
  <2>5. req' = [req EXCEPT ![r] = y]
    BY <1>1, <1>4, <2>2 DEF MediaInv, TypeInv, TypeOK
  <2> QED
    BY <1>2, <1>4, <2>3, <2>4, <2>5, RequestMoves DEF GetMedia, StoredBy
<1> QED
  BY <1>1, <1>3, <1>4 DEF GetMedia

LEMMA DisconnectKeeps ==
  ASSUME MediaInv, NEW r \in Slot, Disconnect(r)
  PROVE  MediaInv'
<1>1. PICK x : x = req[r]
  OBVIOUS
<1>2. PICK i : i = x.id
  OBVIOUS
<1>3. /\ x # None /\ x \in Request /\ faults' \in 0..MaxFaults /\ lost' = lost
      /\ Write(r) \/ UNCHANGED media
      /\ lost \subseteq Id /\ files \in [Id -> {"absent", "partial", "whole"}]
  BY <1>1, ARequest, FaultsStay DEF Disconnect, MediaInv, TypeInv, TypeOK
<1>4. CASE x.pc \in {"create", "copy"}
  <2>1. Storing(x) /\ i \in Id /\ files' = [files EXCEPT ![i] = "whole"]
    BY <1>1, <1>2, <1>3, <1>4, ARequest
    DEF Disconnect, MediaInv, Storing, Request, RequestOK
  <2>2. \A s \in Slot \ {r} : Storing(req[s]) => req[s].id \in Id \ {i}
    BY <1>1, <1>2, <2>1, Apart
  <2>3. /\ files' \in [Id -> {"absent", "partial", "whole"}]
        /\ files'[i] = "whole" /\ \A j \in Id \ {i} : files'[j] = files[j]
    BY <1>3, <2>1
  <2>4. \A s \in Slot \ {r} : Storing(req[s]) =>
          media'[req[s].id] = media[req[s].id] /\ files'[req[s].id] = files[req[s].id]
    BY <1>3, <2>2, <2>3, Written
  <2>5. \A j \in Id : media'[j] # None /\ media'[j].named => files'[j] = "whole" \/ j \in lost'
    BY <1>3, <2>1, <2>3, Written
  <2>6. ~Storing(None) /\ StoredBy(None)'
    BY DEF Storing, StoredBy
  <2>7. req' = [req EXCEPT ![r] = None]
    BY DEF Disconnect
  <2>8. /\ media' \in [Id -> Record \cup {None}]
        /\ \A j \in Id : media[j] # None => media'[j] # None
    BY <1>3, Written
  <2> QED
    BY <1>3, <2>3, <2>4, <2>5, <2>6, <2>7, <2>8, OneMoves
<1>5. CASE x.pc \notin {"create", "copy"}
  <2>1. files' = files
    BY <1>1, <1>5 DEF Disconnect
  <2> QED
    BY <1>3, <2>1, Written, OneMoves DEF Disconnect, StoredBy, Storing
<1> QED
  BY <1>4, <1>5

LEMMA NextMedia ==
  ASSUME MediaInv, [Next]_vars
  PROVE  MediaInv'
<1>1. CASE UNCHANGED vars
  BY <1>1 DEF vars, MediaInv, TypeInv, TypeOK, LinkMeansFile, OwnRecord, StoredBy, At
<1>2. ASSUME NEW r \in Slot, Handle(r)
      PROVE  MediaInv'
  <2>1. CASE CreateFile(r)
    BY <2>1, FileMoves, FaultsStay DEF CreateFile, GoTo
  <2>2. CASE CopyFile(r)
    BY <2>2, FileMoves, FaultsStay DEF CopyFile, GoTo
  <2>3. CASE Reply(r)
    BY <2>3, RequestMoves, FaultsStay DEF Reply, StoredBy, Storing
  <2> QED
    BY <1>2, <2>1, <2>2, <2>3, InsertMediaKeeps, UpdateMediaKeeps, GetMediaKeeps
    DEF Handle
<1>3. ASSUME NEW r \in Slot, StatementFails(r)
      PROVE  MediaInv'
  BY <1>3, RefuseKeeps, FaultsStay DEF StatementFails
<1>4. ASSUME NEW r \in Slot, FileFails(r)
      PROVE  MediaInv'
  BY <1>4, FileMoves, FaultsStay DEF FileFails, GoTo
<1>5. CASE Crash
  BY <1>5, FaultsStay
  DEF Crash, MediaInv, TypeInv, TypeOK, LinkMeansFile, OwnRecord, StoredBy, Storing, At
<1> QED
  BY <1>1, <1>2, <1>3, <1>4, <1>5, SubmitUploadKeeps, SubmitGetKeeps, DisconnectKeeps
  DEF Next

LEMMA InitMedia == Init => MediaInv
BY FaultsAssumption
DEF Init, MediaInv, TypeInv, TypeOK, LinkMeansFile, OwnRecord, StoredBy, Storing, At

LEMMA MediaInvariant == Spec => []MediaInv
BY InitMedia, NextMedia, PTL DEF Spec

(* Type correctness of the table, the directory and the requests.          *)
THEOREM TypeCorrect == Spec => []TypeOK
<1>1. MediaInv => TypeOK
  BY DEF MediaInv, TypeInv
<1> QED
  BY <1>1, MediaInvariant, PTL

(***************************************************************************)
(* A record has a name only when its file is whole or was lost by the      *)
(* storage, and an answer shows a record that is there: for any number of  *)
(* uploads between one another's three steps, and any faults.              *)
(***************************************************************************)
THEOREM LinksWork == Spec => []LinkMeansFile
<1>1. MediaInv => LinkMeansFile
  BY DEF MediaInv
<1> QED
  BY <1>1, MediaInvariant, PTL
================================================================================
