------------------------------ MODULE QuestAuthoring ------------------------------
(***************************************************************************)
(* The owner's side of the quests service: the handlers createQuest,       *)
(* getQuest, updateQuest, deleteQuest and sendQuest of                     *)
(* src/internal/transport/http/quests.go, with the methods of quests.go    *)
(* and the statements of store.go they run, and the goroutine that mails   *)
(* an invitation.                                                          *)
(*                                                                         *)
(* As in QuestProgress there is one action per statement, for no           *)
(* transaction spans two of them: a quest row is written by one statement, *)
(* its steps are deleted by the next and inserted by a third.  The SELECT  *)
(* of the recipients that ends each GetQuest returns nothing the handlers  *)
(* decide on, and is part of the SELECT of the steps.                      *)
(***************************************************************************)
EXTENDS QuestTables, ErrorValues

CONSTANTS Slot,        \* places for requests in flight: bounds their number
          Overlap,     \* may a user send a request before the answer to the
                       \* one before?
          MaxFaults,   \* bound on lost connections, crashes, failures
          Body,        \* the quests a client can send
          Mailing      \* the environment variable MAILING_ENABLED is "true"

VARIABLES req,         \* the requests in flight
          used,        \* the quest ids handed out: an uuid is never reused
          mail,        \* the goroutines that mail an invitation, by assignment
          sent,        \* history: the invitations mailed
          faults       \* history: how many faults so far

tables == <<quests, steps, asg>>
vars == <<quests, steps, asg, req, used, mail, sent, faults>>

\* accepts: what the tables let through of the quest, all of it, its row but
\* not its steps, or nothing.  refusal: the condition the rest of it raises (the
\* same sort number twice, one that is no int4, a description too long).
BodyType == [content : Content, described : BOOLEAN, steps : StepMaps,
             accepts : {"all", "row", "none"}, refusal : Conditions]

\* wrote: history, has the request written anything yet?
Request == [op : {"create", "get", "update", "delete", "send"},
            user : User, quest : Quest \cup {None}, body : BodyType \cup {None},
            to : User \cup {None},
            pc : {"quest", "steps", "insert_quest", "insert_steps",
                  "update_quest", "delete_steps", "delete_quest", "recheck",
                  "insert_assignment", "user", "reply"},
            row : Row \cup {None}, steps : StepMaps \cup {None},
            err : ErrorValue \cup {None}, wrote : BOOLEAN]

ASSUME BodyAssumption ==
  /\ Body \subseteq BodyType
  /\ \A b \in Body : b.accepts = "row" => DOMAIN b.steps # {}

ASSUME NoneAssumption ==
  None \notin Request \cup BodyType \cup ErrorValue \cup User \cup Quest

ASSUME FaultsAssumption == MaxFaults \in Nat

\* The rows of two step sets with different sort numbers.
Both(m, n) == [k \in DOMAIN m \cup DOMAIN n |-> IF k \in DOMAIN m THEN m[k] ELSE n[k]]

ASSUME MixAssumption ==
  /\ NoSteps \in StepMaps
  /\ \A m, n \in StepMaps : DOMAIN m \cap DOMAIN n = {} => Both(m, n) \in StepMaps

\* Any of the rows of a step set are a step set.
ASSUME PartsAssumption ==
  \A m \in StepMaps : \A S \in SUBSET DOMAIN m : [k \in S |-> m[k]] \in StepMaps

TypeOK ==
  /\ TablesOK
  /\ req \in [Slot -> Request \cup {None}]
  /\ used \subseteq Quest
  /\ mail \subseteq Key /\ sent \subseteq Key
  /\ faults \in 0..MaxFaults

Init ==
  /\ quests = [q \in Quest |-> None]
  /\ steps = [q \in Quest |-> NoSteps]
  /\ asg = [k \in Key |-> None]
  /\ req = [r \in Slot |-> None]
  /\ used = {} /\ mail = {} /\ sent = {}
  /\ faults = 0
--------------------------------------------------------------------------------
(* The statements that write, when the database accepts them.              *)

At(r, pc) == req[r] # None /\ req[r].pc = pc

QuestOf(r) == req[r].quest
KeyOf(r) == <<req[r].quest, req[r].to>>

\* INSERT INTO quests ... RETURNING *
InsertRow(r) ==
  /\ At(r, "insert_quest") /\ req[r].body.accepts # "none"
  /\ quests' = [quests EXCEPT ![QuestOf(r)] =
       [owner |-> req[r].user, content |-> req[r].body.content,
        described |-> req[r].body.described]]
  /\ UNCHANGED <<steps, asg>>

\* Without the foreign key.
MutRowsAccepted(r) ==
  /\ req[r].body.accepts = "all"
  /\ DOMAIN steps[QuestOf(r)] \cap DOMAIN req[r].body.steps = {}

\* The quest is there (foreign key), no step breaks a constraint, and no step
\* of the quest has the sort number of another.
RowsAccepted(r) ==
  /\ quests[QuestOf(r)] # None
  /\ req[r].body.accepts = "all"
  /\ DOMAIN steps[QuestOf(r)] \cap DOMAIN req[r].body.steps = {}

\* INSERT INTO steps: all rows of one statement, or none.
InsertRows(r) ==
  /\ At(r, "insert_steps") /\ RowsAccepted(r)
  /\ steps' = [steps EXCEPT ![QuestOf(r)] = Both(@, req[r].body.steps)]
  /\ UNCHANGED <<quests, asg>>

\* UPDATE quests ... WHERE id: the owner stays, and is not looked at.
UpdateRow(r) ==
  /\ At(r, "update_quest")
  /\ quests[QuestOf(r)] # None /\ req[r].body.accepts # "none"
  /\ quests' = [quests EXCEPT ![QuestOf(r)] =
       [@ EXCEPT !.content = req[r].body.content,
                 !.described = req[r].body.described]]
  /\ UNCHANGED <<steps, asg>>

MutDeleteRows(r) == At(r, "delete_steps") /\ UNCHANGED tables

\* DELETE FROM steps WHERE quest_id
DeleteRows(r) ==
  /\ At(r, "delete_steps")
  /\ steps' = [steps EXCEPT ![QuestOf(r)] = NoSteps]
  /\ UNCHANGED <<quests, asg>>

\* ON DELETE CASCADE.
MutRestricted(q) == FALSE

\* An assignment refers to the quest: ON DELETE RESTRICT.
Restricted(q) == \E u \in User : asg[<<q, u>>] # None

\* DELETE FROM quests WHERE id AND owner, which cascades to the steps.
DeleteRow(r) ==
  /\ At(r, "delete_quest")
  /\ quests[QuestOf(r)] # None /\ quests[QuestOf(r)].owner = req[r].user
  /\ ~Restricted(QuestOf(r))
  /\ quests' = [quests EXCEPT ![QuestOf(r)] = None]
  /\ steps' = [steps EXCEPT ![QuestOf(r)] = NoSteps]
  /\ UNCHANGED asg

\* An INSERT that says ON CONFLICT DO UPDATE.
MutInsertedOnce(r) == quests[QuestOf(r)] # None

\* The quest is there, and its primary key lets a recipient in only once.
InsertedOnce(r) == quests[QuestOf(r)] # None /\ asg[KeyOf(r)] = None

\* INSERT INTO quest_to_email
InsertAsg(r) ==
  /\ At(r, "insert_assignment") /\ InsertedOnce(r)
  /\ asg' = [asg EXCEPT ![KeyOf(r)] = NewAssignment]
  /\ UNCHANGED <<quests, steps>>

Write(r) == InsertRow(r) \/ InsertRows(r) \/ UpdateRow(r) \/ DeleteRows(r)
            \/ DeleteRow(r) \/ InsertAsg(r)
--------------------------------------------------------------------------------
(* The handlers, one action per statement they wait for.                   *)

GoTo(r, pc) == req' = [req EXCEPT ![r].pc = pc]
Wrote(r, pc) == req' = [req EXCEPT ![r].pc = pc, ![r].wrote = TRUE]
Refuse(r, e) == req' = [req EXCEPT ![r].pc = "reply", ![r].err = e, ![r].row = None]

\* A quest json.Marshal rejects is answered with an error, when all is done.
Marshalled(content) == IF content \in Unwritable THEN Failure ELSE None

\* The answer to a request whose last statement has written.
Done(r) ==
  req' = [req EXCEPT ![r].pc = "reply", ![r].wrote = TRUE,
                     ![r].err = Marshalled(req[r].body.content)]

\* A user sends a request: the route is matched, the token checked, the body
\* parsed.  The id of a quest to be created is handed out here; the id in the
\* path of another request may be no uuid (None).
Submit(r, op, u, q, b, to) ==
  /\ req[r] = None
  /\ ~Overlap => \A s \in Slot : req[s] # None => req[s].user # u
  /\ op \in {"create", "update"} <=> b # None
  /\ op = "send" <=> to # None
  /\ op = "create" => q # None /\ q \notin used
  /\ used' = IF op = "create" THEN used \cup {q} ELSE used
  /\ req' = [req EXCEPT ![r] =
       [op |-> op, user |-> u, quest |-> q, body |-> b, to |-> to,
        pc |-> IF op = "create" THEN "insert_quest" ELSE "quest",
        row |-> None, steps |-> None, err |-> None, wrote |-> FALSE]]
  /\ UNCHANGED <<tables, mail, sent, faults>>

Rest == UNCHANGED <<used, mail, sent, faults>>

InsertQuest(r) ==
  /\ \/ /\ InsertRow(r)
        /\ IF DOMAIN req[r].body.steps = {} THEN Done(r) ELSE Wrote(r, "insert_steps")
     \/ /\ At(r, "insert_quest") /\ req[r].body.accepts = "none"
        /\ Refuse(r, CheckWriteError(Of(req[r].body.refusal, "none")))
        /\ UNCHANGED tables
  /\ Rest

\* A row that breaks a rule fails as it is inserted, the foreign key when all
\* rows of the statement are.
RowsError(r) ==
  CASE req[r].body.accepts # "all" -> Of(req[r].body.refusal, "none")
    [] req[r].body.accepts = "all" /\ quests[QuestOf(r)] # None
         -> Of("unique_violation", "none")
    [] OTHER -> Of("foreign_key_violation", "none")

\* updateSteps.  UpdateQuest passes its error through checkWriteError again.
InsertSteps(r) ==
  /\ \/ InsertRows(r) /\ Done(r)
     \/ /\ At(r, "insert_steps") /\ ~RowsAccepted(r)
        /\ LET e == CheckWriteError(RowsError(r)) IN
             Refuse(r, IF req[r].op = "update" THEN CheckWriteError(e) ELSE e)
        /\ UNCHANGED tables
  /\ Rest

\* The first SELECT of getQuestWithAuthCheck.
ReadQuest(r) ==
  /\ At(r, "quest")
  /\ \/ QuestOf(r) = None /\ Refuse(r, SelectError(NoUuid))
     \/ /\ QuestOf(r) # None /\ quests[QuestOf(r)] = None
        /\ Refuse(r, SelectError(NoRows))
     \/ /\ QuestOf(r) # None /\ quests[QuestOf(r)] # None
        /\ req' = [req EXCEPT ![r].pc = "steps", ![r].row = quests[QuestOf(r)]]
  /\ UNCHANGED tables /\ Rest

MutForbidden(r) == req[r].op # "update" /\ req[r].row.owner # req[r].user

Forbidden(r) == req[r].row.owner # req[r].user

MutSendable(m) == TRUE

Sendable(m) == m # NoSteps

ErrForbidden == Wrap("forbidden", Wrap("no_access", Failure))
ErrNoSteps == Wrap("validation", Wrap("no_steps", Failure))

\* The quest that was read is used no more.
GoOn(r, pc) == req' = [req EXCEPT ![r].pc = pc, ![r].row = None]

\* The answer to a get with the steps that were read.
Show(r, m) ==
  req' = [req EXCEPT ![r].pc = "reply", ![r].steps = m,
                     ![r].err = Marshalled(req[r].row.content)]

\* The SELECT of the steps, the comparison of the owner with the user, and how
\* each handler goes on.
ReadSteps(r) ==
  /\ At(r, "steps")
  /\ LET m == steps[QuestOf(r)] IN
     \/ Forbidden(r) /\ Refuse(r, ErrForbidden)
     \/ ~Forbidden(r) /\ req[r].op = "get" /\ Show(r, m)
     \/ ~Forbidden(r) /\ req[r].op = "update" /\ GoOn(r, "update_quest")
     \/ ~Forbidden(r) /\ req[r].op = "delete" /\ GoOn(r, "delete_quest")
     \/ ~Forbidden(r) /\ req[r].op = "send" /\ ~Sendable(m) /\ Refuse(r, ErrNoSteps)
     \/ ~Forbidden(r) /\ req[r].op = "send" /\ Sendable(m) /\ GoOn(r, "recheck")
  /\ UNCHANGED tables /\ Rest

UpdateQuest(r) ==
  /\ \/ UpdateRow(r) /\ Wrote(r, "delete_steps")
     \/ /\ At(r, "update_quest")
        /\ \/ /\ quests[QuestOf(r)] = None
              /\ Refuse(r, Wrap("not_found", Failure))
           \/ /\ quests[QuestOf(r)] # None /\ req[r].body.accepts = "none"
              /\ Refuse(r, CheckWriteError(Of(req[r].body.refusal, "none")))
        /\ UNCHANGED tables
  /\ Rest

\* The saved steps are gone before the new ones are tried.
DeleteSteps(r) ==
  /\ DeleteRows(r)
  /\ IF DOMAIN req[r].body.steps = {} THEN Done(r) ELSE Wrote(r, "insert_steps")
  /\ Rest

DeleteQuest(r) ==
  /\ \/ DeleteRow(r) /\ Wrote(r, "reply")
     \/ /\ At(r, "delete_quest")
        /\ \/ /\ quests[QuestOf(r)] = None
              /\ Refuse(r, Wrap("not_deleted", Wrap("not_found", Failure)))
           \/ /\ quests[QuestOf(r)] # None /\ Restricted(QuestOf(r))
              /\ Refuse(r, DeleteError(Of("foreign_key_violation", "quest_to_email")))
        /\ UNCHANGED tables
  /\ Rest

\* CreateAssignment reads the quest once more and checks the owner again, but
\* not the steps.
Recheck(r) ==
  /\ At(r, "recheck")
  /\ \/ quests[QuestOf(r)] = None /\ Refuse(r, SelectError(NoRows))
     \/ quests[QuestOf(r)] # None /\ GoTo(r, "insert_assignment")
  /\ UNCHANGED tables /\ Rest

CreateAssignment(r) ==
  /\ \/ InsertAsg(r) /\ Wrote(r, "user")
     \/ /\ At(r, "insert_assignment") /\ ~InsertedOnce(r)
        /\ Refuse(r, CheckWriteError(
             IF quests[QuestOf(r)] = None THEN Of("foreign_key_violation", "none")
             ELSE Of("unique_violation", "quest_id_email_unique")))
        /\ UNCHANGED tables
  /\ Rest

\* GetUser reads the sender's name, and the goroutine is started.
Invite(r) ==
  /\ At(r, "user")
  /\ mail' = IF Mailing THEN mail \cup {KeyOf(r)} ELSE mail
  /\ GoTo(r, "reply")
  /\ UNCHANGED <<tables, used, sent, faults>>

\* The goroutine that mails uses the context of the request.
MutReply(r) ==
  /\ At(r, "reply")
  /\ req' = [req EXCEPT ![r] = None]
  /\ mail' = mail \ {KeyOf(r)}
  /\ UNCHANGED <<tables, used, sent, faults>>

Reply(r) ==
  /\ At(r, "reply")
  /\ req' = [req EXCEPT ![r] = None]
  /\ UNCHANGED tables /\ Rest

SendEmail(k) ==
  /\ k \in mail
  /\ mail' = mail \ {k} /\ sent' = sent \cup {k}
  /\ UNCHANGED <<tables, req, used, faults>>
--------------------------------------------------------------------------------
Fault ==
  /\ faults < MaxFaults
  /\ faults' = faults + 1
  /\ UNCHANGED <<used, sent>>

\* The connection of the client is lost and the request context cancelled.  A
\* statement that is on its way may still be executed.
Disconnect(r) ==
  /\ Fault
  /\ req[r] # None
  /\ Write(r) \/ UNCHANGED tables
  /\ req' = [req EXCEPT ![r] = None]
  /\ UNCHANGED mail

\* A statement fails, or its result is lost.
StatementFails(r) ==
  /\ Fault
  /\ req[r] # None /\ req[r].pc # "reply"
  /\ \E written \in BOOLEAN :
       /\ IF written THEN Write(r) ELSE UNCHANGED tables
       /\ req' = [req EXCEPT ![r].pc = "reply", ![r].err = Wrap("unknown", Failure),
                            ![r].row = None, ![r].wrote = @ \/ written]
  /\ UNCHANGED mail

\* The rows of m that arrived before the connection broke: the first comes with
\* the result of the query, and the last is missing.
Parts(m) == {[k \in S |-> m[k]] : S \in (SUBSET DOMAIN m) \ {{}, DOMAIN m}}

\* The connection breaks while the steps arrive.  Next ends the loop, nobody
\* asks rows.Err, and the rest of the request runs on another connection.  Only
\* a get looks at more than whether there are steps.
CutSteps(r) ==
  /\ Fault
  /\ At(r, "steps") /\ ~Forbidden(r) /\ req[r].op = "get"
  /\ \E m \in Parts(steps[QuestOf(r)]) : Show(r, m)
  /\ UNCHANGED <<tables, mail>>

\* The mail server refuses an invitation, which is only logged.
MailFails(k) ==
  /\ Fault
  /\ k \in mail
  /\ mail' = mail \ {k}
  /\ UNCHANGED <<tables, req>>

\* The process stops: its requests and goroutines are gone.  (A statement that
\* is executed all the same is a Disconnect just before.)
Crash ==
  /\ Fault
  /\ req' = [r \in Slot |-> None]
  /\ mail' = {}
  /\ UNCHANGED tables

Handle(r) ==
  \/ InsertQuest(r) \/ InsertSteps(r)
  \/ ReadQuest(r) \/ ReadSteps(r)
  \/ UpdateQuest(r) \/ DeleteSteps(r) \/ DeleteQuest(r)
  \/ Recheck(r) \/ CreateAssignment(r) \/ Invite(r)
  \/ Reply(r)

SendRequest(r) ==
  \E op \in {"create", "get", "update", "delete", "send"}, u \in User,
     q \in Quest \cup {None}, b \in Body \cup {None}, to \in User \cup {None} : Submit(r, op, u, q, b, to)

Step ==
  \/ \E r \in Slot : \/ SendRequest(r) \/ Handle(r)
                     \/ Disconnect(r) \/ StatementFails(r) \/ CutSteps(r)
  \/ \E k \in Key : SendEmail(k) \/ MailFails(k)

Next == Step \/ Crash

Spec == Init /\ [][Next]_vars
--------------------------------------------------------------------------------
SentTo(q) == \E u \in User : asg[<<q, u>>] # None

(***************************************************************************)
(* Steps and assignments belong to a quest that is there, whichever of its *)
(* owner's requests overtook the others: one that inserts steps or sends   *)
(* the quest may find it deleted since it looked.                          *)
(***************************************************************************)
NoOrphans ==
  \A q \in Quest : quests[q] = None => steps[q] = NoSteps /\ ~SentTo(q)

(***************************************************************************)
(* Nobody is invited twice to a quest, or without having it: however often *)
(* a quest is sent and whatever fails, a mail is on its way only to a      *)
(* recipient who has the assignment and got no mail before.                *)
(***************************************************************************)
InviteOnce ==
  /\ mail \cap sent = {}
  /\ \A k \in mail \cup sent : asg[k] # None

(***************************************************************************)
(* A quest that was sent stays, as the schema says ("restrict quest        *)
(* deletion when it is send to someone"): its recipients never lose it.    *)
(***************************************************************************)
SentStays == [][\A q \in Quest : SentTo(q) => quests'[q] # None]_vars

(***************************************************************************)
(* A quest changes hands never, and changes at all only by a request of    *)
(* its owner: the owner is compared several statements before the one that *)
(* writes, and UPDATE and the statements on steps do not look at him.      *)
(***************************************************************************)
OnlyOwner ==
  [][\A q \in Quest :
       quests[q] # None /\ (quests'[q] # quests[q] \/ steps'[q] # steps[q]) =>
         /\ \E r \in Slot : /\ req[r] # None /\ req'[r] # req[r]
                            /\ req[r].quest = q /\ req[r].user = quests[q].owner
         /\ quests'[q] # None => quests'[q].owner = quests[q].owner]_vars

(***************************************************************************)
(* The status of an answer tells what was done, through every translation  *)
(* of the error on its way: after 403 and 404 the request has changed      *)
(* nothing, after 400 it has, at most, saved a quest without its steps, in *)
(* a create or an update.  Only 500 leaves open how far it came.           *)
(***************************************************************************)
StatusTells ==
  \A r \in Slot :
    At(r, "reply") /\ req[r].err # None =>
      /\ StatusOf(req[r].err) \in {403, 404} => ~req[r].wrote
      /\ StatusOf(req[r].err) = 400 /\ req[r].wrote => req[r].op \in {"create", "update"}

\* The row an accepted body leaves.
RowOf(r) == [owner |-> req[r].user, content |-> req[r].body.content,
             described |-> req[r].body.described]

(***************************************************************************)
(* What a client is told is what was done, and what an owner is shown is   *)
(* what is stored, row and steps alike, though several statements read or  *)
(* wrote them; of steps whose reading was cut short he sees a part.  It    *)
(* needs owners that wait for an answer before they send the next request. *)
(***************************************************************************)
DoneAsAnswered ==
  \A r \in Slot :
    At(r, "reply") /\ req[r].err = None =>
      LET q == QuestOf(r) IN
      /\ req[r].op \in {"create", "update"} =>
           quests[q] = RowOf(r) /\ steps[q] = req[r].body.steps
      /\ req[r].op = "get" =>
           /\ quests[q] = req[r].row
           /\ \/ req[r].steps = steps[q]
              \/ faults > 0 /\ req[r].steps \in Parts(steps[q])
      /\ req[r].op = "delete" => quests[q] = None
      /\ req[r].op = "send" => asg[KeyOf(r)] # None

(***************************************************************************)
(* The steps of a quest are those of one request, or none: UpdateQuest     *)
(* deletes the steps and inserts "new regardless of already created steps" *)
(* (quests.go:170).  A refused or interrupted update may leave a quest     *)
(* without steps, but never with some of the old and some of the new.      *)
(***************************************************************************)
WholeSteps ==
  \A q \in Quest : steps[q] \in {NoSteps} \cup {b.steps : b \in Body}

(***************************************************************************)
(* A quest is sent only while it has steps: "can't send quest: no steps    *)
(* found inside a quest" (transport/http/quests.go:203).                   *)
(***************************************************************************)
SentWithSteps ==
  [][\A k \in Key : asg[k] = None /\ asg'[k] # None => steps[k[1]] # NoSteps]_vars
================================================================================
