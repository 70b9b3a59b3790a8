------------------------------ MODULE QuestProgress ------------------------------
(***************************************************************************)
(* The recipient's side of the quests service: the handlers start, next    *)
(* and status of src/internal/transport/http/quests.go, the methods        *)
(* StartQuest, CheckAnswer and GetAssignment they call, and the statements *)
(* these run against the tables quests, steps and quest_to_email.          *)
(*                                                                         *)
(* No transaction spans two statements, so there is one action per         *)
(* statement, and the requests in flight (the slots) interleave between    *)
(* any two of them.  What a handler does with a result before its next     *)
(* statement is local to it and belongs to the action that read the        *)
(* result.  The SELECT of the recipients at the end of the store's         *)
(* GetQuest returns nothing these handlers look at and is part of          *)
(* ReadSteps.                                                              *)
(*                                                                         *)
(* This module leaves the tables quests and steps as they are: the owner   *)
(* does not edit the quest while recipients walk through it.               *)
(***************************************************************************)
EXTENDS QuestTables

CONSTANTS Slot,        \* places for requests in flight: bounds their number
          Overlap,     \* may a recipient send a request before the answer
                       \* to the one before, on the same assignment?
          MaxFaults    \* bound on lost connections and failing statements

VARIABLES req,         \* the requests in flight
          solved,      \* history: the steps a recipient answered right
          got,         \* history: the recipients handed the rewards
          faults       \* history: how many faults so far

vars == <<quests, steps, asg, req, solved, got, faults>>

Line == [status : Statuses, prev : SUBSET Sort, list : SUBSET Sort,
         success : {"none", "yes", "no"}, rewards : Content \cup {None}]
Panics == {"nil_description", "nil_head", "nil_rows"}
Errors == {"not_found", "no_steps", "already_started", "already_finished",
           "not_in_progress", "unknown"} \cup Panics
Request == [op : {"start", "check", "status"}, user : User, quest : Quest,
            answer : Answer \cup {None},
            pc : {"quest", "steps", "assignment", "update", "reply"},
            row : Row \cup {None}, steps : StepMaps \cup {None},
            line : Line \cup {None}, err : Errors \cup {None}]

ASSUME NoneAssumption == None \notin Request \cup Line \cup Errors

ASSUME FaultsAssumption == MaxFaults \in Nat

TypeOK ==
  /\ TablesOK
  /\ req \in [Slot -> Request \cup {None}]
  /\ solved \in [Key -> SUBSET Sort]
  /\ got \in [Key -> BOOLEAN]
  /\ faults \in 0..MaxFaults

\* Some quests exist, with or without steps, and some are sent: an assignment
\* refers to a quest that exists, and starts from the defaults of its columns.
Init ==
  /\ quests \in [Quest -> Row \cup {None}]
  /\ steps \in [Quest -> StepMaps]
  /\ asg \in [Key -> {None, NewAssignment}]
  /\ \A q \in Quest : quests[q] = None =>
       /\ DOMAIN steps[q] = {}
       /\ \A u \in User : asg[<<q, u>>] = None
  /\ req = [r \in Slot |-> None]
  /\ solved = [k \in Key |-> {}]
  /\ got = [k \in Key |-> FALSE]
  /\ faults = 0
--------------------------------------------------------------------------------
\* The assignment a request is about.
KeyOf(r) == <<req[r].quest, req[r].user>>

At(r, pc) == req[r] # None /\ req[r].pc = pc

\* A recipient sends a request: the route is matched, the token checked and
\* the body parsed before the first statement.
Submit(r, op, u, q, a) ==
  /\ req[r] = None
  /\ ~Overlap => \A s \in Slot : req[s] # None => KeyOf(s) # <<q, u>>
  /\ op = "check" <=> a # None
  /\ req' = [req EXCEPT ![r] =
       [op |-> op, user |-> u, quest |-> q, answer |-> a, pc |-> "quest",
        row |-> None, steps |-> None, line |-> None, err |-> None]]
  /\ UNCHANGED <<quests, steps, asg, solved, got, faults>>

\* The handler returns with an error, or panics.
Refuse(r, e) == req' = [req EXCEPT ![r].pc = "reply", ![r].err = e]

\* The handler has a quest line to return, once it has saved it or at once.
Return(r, ql) == req' = [req EXCEPT ![r].pc = "reply", ![r].line = ql]
Save(r, ql) == req' = [req EXCEPT ![r].pc = "update", ![r].line = ql]

\* SELECT * FROM quests WHERE id = $1
ReadQuest(r) ==
  /\ At(r, "quest")
  /\ \/ /\ quests[req[r].quest] = None
        /\ Refuse(r, "not_found")
     \/ /\ quests[req[r].quest] # None
        /\ req' = [req EXCEPT ![r].pc = "steps",
                              ![r].row = quests[req[r].quest]]
  /\ UNCHANGED <<quests, steps, asg, solved, got, faults>>

\* SELECT * FROM steps WHERE quest_id = $1, and the check of its result that
\* each of the three methods starts with.
ReadSteps(r) ==
  /\ At(r, "steps")
  /\ \/ /\ DOMAIN steps[req[r].quest] = {}
        /\ Refuse(r, "no_steps")
     \/ /\ DOMAIN steps[req[r].quest] # {}
        /\ req' = [req EXCEPT ![r].pc = "assignment",
                              ![r].steps = steps[req[r].quest]]
  /\ UNCHANGED <<quests, steps, asg, solved, got, faults>>

\* The assignment is not there, or the quest line cannot be built: the column
\* description is nullable and NewQuestLine dereferences it.
NotAssigned(r) == asg[KeyOf(r)] = None /\ Refuse(r, "not_found")
NotDescribed(r) == ~req[r].row.described /\ Refuse(r, "nil_description")

\* status: the line as it is.
GetAssignment(r) ==
  /\ At(r, "assignment") /\ req[r].op = "status"
  /\ \/ NotAssigned(r)
     \/ /\ asg[KeyOf(r)] # None
        /\ \/ NotDescribed(r)
           \/ /\ req[r].row.described
              /\ Return(r, NewQuestLine(req[r].steps, asg[KeyOf(r)].cur,
                                        asg[KeyOf(r)].status))
  /\ UNCHANGED <<quests, steps, asg, solved, got, faults>>

MutStartQuest(r) ==
  /\ At(r, "assignment") /\ req[r].op = "start"
  /\ \/ NotAssigned(r)
     \/ /\ asg[KeyOf(r)] # None
        /\ asg[KeyOf(r)].status = "in_progress"
        /\ Refuse(r, "already_started")
     \/ /\ asg[KeyOf(r)] # None
        /\ asg[KeyOf(r)].status # "in_progress"
        /\ \/ NotDescribed(r)
           \/ /\ req[r].row.described
              /\ Save(r, NewQuestLine(req[r].steps, Least(DOMAIN req[r].steps),
                                      "in_progress"))
  /\ UNCHANGED <<quests, steps, asg, solved, got, faults>>

\* start: refused unless not started; the line starts at the first step.
StartQuest(r) ==
  /\ At(r, "assignment") /\ req[r].op = "start"
  /\ \/ NotAssigned(r)
     \/ /\ asg[KeyOf(r)] # None
        /\ asg[KeyOf(r)].status = "in_progress"
        /\ Refuse(r, "already_started")
     \/ /\ asg[KeyOf(r)] # None
        /\ asg[KeyOf(r)].status = "finished"
        /\ Refuse(r, "already_finished")
     \/ /\ asg[KeyOf(r)] # None
        /\ asg[KeyOf(r)].status = "not_started"
        /\ \/ NotDescribed(r)
           \/ /\ req[r].row.described
              /\ Save(r, NewQuestLine(req[r].steps, Least(DOMAIN req[r].steps),
                                      "in_progress"))
  /\ UNCHANGED <<quests, steps, asg, solved, got, faults>>

\* The line after a right answer.
Passed(ql, row) ==
  IF IsLastStep(ql)
  THEN [ql EXCEPT !.success = "yes", !.status = "finished",
                  !.rewards = row.content]
  ELSE Advance([ql EXCEPT !.success = "yes"])

\* next: the answer is compared with the head of the line, which the code
\* dereferences without looking whether there is one.
Check(r, ql) ==
  \/ /\ ql.list = {}
     /\ Refuse(r, "nil_head")
     /\ UNCHANGED solved
  \/ /\ ql.list # {}
     /\ ~CheckIfAnswerCorrect(ql, req[r].steps, req[r].answer)
     /\ Return(r, [ql EXCEPT !.success = "no"])
     /\ UNCHANGED solved
  \/ /\ ql.list # {}
     /\ CheckIfAnswerCorrect(ql, req[r].steps, req[r].answer)
     /\ Save(r, Passed(ql, req[r].row))
     /\ solved' = [solved EXCEPT ![KeyOf(r)] = @ \cup {HeadOf(ql)}]

CheckAnswer(r) ==
  /\ At(r, "assignment") /\ req[r].op = "check"
  /\ \/ NotAssigned(r) /\ UNCHANGED solved
     \/ /\ asg[KeyOf(r)] # None
        /\ asg[KeyOf(r)].status # "in_progress"
        /\ Refuse(r, "not_in_progress")
        /\ UNCHANGED solved
     \/ /\ asg[KeyOf(r)] # None
        /\ asg[KeyOf(r)].status = "in_progress"
        /\ \/ NotDescribed(r) /\ UNCHANGED solved
           \/ /\ req[r].row.described
              /\ Check(r, NewQuestLine(req[r].steps, asg[KeyOf(r)].cur,
                                       asg[KeyOf(r)].status))
  /\ UNCHANGED <<quests, steps, asg, got, faults>>

\* UPDATE quest_to_email SET status, current_step WHERE email and quest_id: no
\* row is no error, and the WHERE does not look at the status that was read.
Written(r) ==
  IF asg[KeyOf(r)] = None THEN asg
  ELSE [asg EXCEPT ![KeyOf(r)] =
         [status |-> req[r].line.status, cur |-> CurrentStep(req[r].line)]]

UpdateAssignment(r) ==
  /\ At(r, "update")
  /\ asg' = Written(r)
  /\ req' = [req EXCEPT ![r].pc = "reply"]
  /\ UNCHANGED <<quests, steps, solved, got, faults>>

\* The recipient gets the answer.  After a panic net/http closes the
\* connection instead, and a line json.Marshal rejects becomes an error.
Reply(r) ==
  /\ At(r, "reply")
  /\ req' = [req EXCEPT ![r] = None]
  /\ got' = IF req[r].err = None /\ req[r].line.rewards \notin Unwritable \cup {None}
            THEN [got EXCEPT ![KeyOf(r)] = TRUE] ELSE got
  /\ UNCHANGED <<quests, steps, asg, solved, faults>>
--------------------------------------------------------------------------------
\* The connection of the recipient is lost, or the server stops: the request
\* context is cancelled, the handler ends and nobody reads its answer.  A
\* statement that is on its way may still be executed.
Disconnect(r) ==
  /\ faults < MaxFaults
  /\ req[r] # None
  /\ asg' \in {asg} \cup (IF At(r, "update") THEN {Written(r)} ELSE {})
  /\ req' = [req EXCEPT ![r] = None]
  /\ faults' = faults + 1
  /\ UNCHANGED <<quests, steps, solved, got>>

\* A statement fails.  UpdateAssignment then closes rows that are nil.
StatementFails(r) ==
  /\ faults < MaxFaults
  /\ \/ /\ req[r] # None
        /\ req[r].pc \in {"quest", "steps", "assignment"}
        /\ Refuse(r, "unknown")
        /\ UNCHANGED asg
     \/ /\ At(r, "update")
        /\ Refuse(r, "nil_rows")
        /\ asg' \in {asg, Written(r)}
  /\ faults' = faults + 1
  /\ UNCHANGED <<quests, steps, solved, got>>

Handle(r) ==
  \/ ReadQuest(r) \/ ReadSteps(r)
  \/ GetAssignment(r) \/ StartQuest(r) \/ CheckAnswer(r)
  \/ UpdateAssignment(r) \/ Reply(r)

SendRequest(r) ==
  \E op \in {"start", "check", "status"}, u \in User, q \in Quest,
     a \in Answer \cup {None} : Submit(r, op, u, q, a)

Next ==
  \E r \in Slot :
    SendRequest(r) \/ Handle(r) \/ Disconnect(r) \/ StatementFails(r)

Spec == Init /\ [][Next]_vars

(***************************************************************************)
(* Fairness.  The server runs each handler to its end and the database     *)
(* answers each statement, but for MaxFaults faults.  A recipient is       *)
(* diligent: as long as it stays possible he keeps starting his quests,    *)
(* trying each answer and asking for the status.                           *)
(***************************************************************************)
Diligent(u, q) ==
  \A a \in Answer \cup {None}, op \in {"start", "check", "status"} :
    SF_vars(\E r \in Slot : Submit(r, op, u, q, a))

FairSpec ==
  /\ Spec
  /\ \A r \in Slot : WF_vars(Handle(r))
  /\ \A u \in User, q \in Quest : Diligent(u, q)
--------------------------------------------------------------------------------
Quiet(k) == asg[k] = None \/ asg[k].status = "not_started"

StepsBefore(k, n) == {j \in DOMAIN steps[k[1]] : j < n}

(***************************************************************************)
(* An assignment never runs ahead of the right answers its recipient gave: *)
(* it stands at a step of the quest whose predecessors he solved, and it   *)
(* is finished only when he solved all of them.  Several StartQuest and    *)
(* CheckAnswer of one recipient may interleave between reading and writing *)
(* the row, and their writes may be late.                                  *)
(***************************************************************************)
NoSkip ==
  \A k \in Key :
    /\ ~Quiet(k) /\ asg[k].status = "in_progress" =>
         /\ asg[k].cur \in DOMAIN steps[k[1]]
         /\ StepsBefore(k, asg[k].cur) \subseteq solved[k]
    /\ ~Quiet(k) /\ asg[k].status = "finished" =>
         DOMAIN steps[k[1]] \subseteq solved[k]

(***************************************************************************)
(* No answer of a started quest gives away more than was earned: previous  *)
(* questions are solved ones, the question shown comes right after them,   *)
(* and rewards are in it only when the recipient solved the whole quest.   *)
(***************************************************************************)
RepliesEarned ==
  \A r \in Slot :
    At(r, "reply") /\ req[r].err = None /\ req[r].line.status # "not_started" =>
      /\ req[r].line.prev \subseteq solved[KeyOf(r)]
      /\ \A n \in Shown(req[r].line) : StepsBefore(KeyOf(r), n) \subseteq solved[KeyOf(r)]
      /\ req[r].line.rewards # None =>
           DOMAIN steps[req[r].quest] \subseteq solved[KeyOf(r)]

(***************************************************************************)
(* CheckAnswer never meets a line without a head: while the owner leaves   *)
(* the steps alone, every position an interleaving of requests can leave   *)
(* in the table is the sort number of a step.                              *)
(***************************************************************************)
NoNilHead == \A r \in Slot : req[r] # None => req[r].err # "nil_head"

(***************************************************************************)
(* What a recipient is told is what is stored: the line in an answer is    *)
(* the one the table would give, also when a statement failed, so nobody   *)
(* is shown progress that was not saved.  It needs recipients that wait    *)
(* for an answer before they send the next request.                        *)
(***************************************************************************)
RepliesStored ==
  \A r \in Slot :
    At(r, "reply") /\ req[r].err = None =>
      LET a == asg[KeyOf(r)]
          ql == NewQuestLine(steps[req[r].quest], a.cur, a.status)
      IN  /\ req[r].line.status = a.status
          /\ req[r].line.list = ql.list
          /\ req[r].line.prev = ql.prev

(***************************************************************************)
(* A finished quest stays finished: StartQuest refuses it with "quest      *)
(* already finished", CheckAnswer with "quest not in progress".            *)
(***************************************************************************)
FinishedIsFinal ==
  [][\A k \in Key : ~Quiet(k) /\ asg[k].status = "finished" => asg'[k] = asg[k]]_vars

\* The steps an assignment counts as solved.
Done(k) ==
  IF Quiet(k) THEN {}
  ELSE IF asg[k].status = "finished" THEN DOMAIN steps[k[1]]
  ELSE StepsBefore(k, asg[k].cur)

Run == INSTANCE QuestRun WITH
  plan <- [k \in Key |-> DOMAIN steps[k[1]]],
  begun <- [k \in Key |-> ~Quiet(k)],
  done <- [k \in Key |-> Done(k)]

(***************************************************************************)
(* When recipients wait for their answers, the handlers implement the      *)
(* promise of QuestRun, whatever statements fail or connections are lost:  *)
(* a quest is begun once, and each write of the row counts exactly the     *)
(* next step as solved.                                                    *)
(***************************************************************************)
RefinesRun == Run!Spec

\* Each step of the quest has an answer, and the handlers can build its line.
Solvable(q) ==
  /\ quests[q] # None /\ quests[q].described
  /\ DOMAIN steps[q] # {}
  /\ \A n \in DOMAIN steps[q] : steps[q][n] # {}

(***************************************************************************)
(* A diligent recipient of a solvable quest finishes it, in spite of lost  *)
(* connections and failing statements: wherever a fault leaves the row,    *)
(* the handlers accept a request that goes on from there.                  *)
(***************************************************************************)
Finishes ==
  \A k \in Key :
    asg[k] # None /\ Solvable(k[1]) ~>
      (asg[k] # None /\ asg[k].status = "finished")

(***************************************************************************)
(* A diligent recipient of a solvable quest is handed its rewards and      *)
(* final message, if these can be written and nothing fails: the answer to *)
(* his last right answer is the only one that has them.                    *)
(***************************************************************************)
GetsRewards ==
  \A k \in Key :
    asg[k] # None /\ Solvable(k[1]) /\ quests[k[1]].content \notin Unwritable ~>
      got[k] \/ faults > 0
================================================================================
