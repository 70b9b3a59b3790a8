-------------------------------- MODULE QuestRows --------------------------------
(***************************************************************************)
(* What the lists of quests can rely on: the rows of the tables quests and *)
(* quest_to_email, each changed by one statement at a time, and nothing of *)
(* the requests that run these statements.  QuestSystem implements it;     *)
(* QuestLists reads it page by page.                                       *)
(***************************************************************************)
EXTENDS Integers

CONSTANTS User, Quest,
          Kind,   \* what a list shows of a quest
          None    \* an absent row

VARIABLES rows,   \* the quests there are, with owner and kind
          status  \* the status of each quest that was sent, by recipient

State == <<rows, status>>

RowsType ==
  /\ rows \in [Quest -> [owner : User, kind : Kind] \cup {None}]
  /\ status \in [Quest \X User -> {"not_started", "in_progress", "finished", None}]

RowsInit ==
  /\ rows = [q \in Quest |-> None]
  /\ status = [k \in Quest \X User |-> None]

Create(q, u, kind) ==
  /\ rows[q] = None
  /\ rows' = [rows EXCEPT ![q] = [owner |-> u, kind |-> kind]]
  /\ UNCHANGED status

\* The owner stays.
Edit(q, kind) ==
  /\ rows[q] # None
  /\ rows' = [rows EXCEPT ![q].kind = kind]
  /\ UNCHANGED status

\* A quest that was sent is not deleted.
Delete(q) ==
  /\ rows[q] # None
  /\ \A u \in User : status[<<q, u>>] = None
  /\ rows' = [rows EXCEPT ![q] = None]
  /\ UNCHANGED status

Send(q, u) ==
  /\ rows[q] # None /\ status[<<q, u>>] = None
  /\ status' = [status EXCEPT ![<<q, u>>] = "not_started"]
  /\ UNCHANGED rows

\* A quest that was sent is started, and one that is started finished.
Start(q, u) ==
  /\ status[<<q, u>>] = "not_started"
  /\ status' = [status EXCEPT ![<<q, u>>] = "in_progress"]
  /\ UNCHANGED rows

Finish(q, u) ==
  /\ status[<<q, u>>] = "in_progress"
  /\ status' = [status EXCEPT ![<<q, u>>] = "finished"]
  /\ UNCHANGED rows

RowsNext ==
  \E q \in Quest, u \in User :
    \/ \E kind \in Kind : Create(q, u, kind) \/ Edit(q, kind)
    \/ Delete(q) \/ Send(q, u) \/ Start(q, u) \/ Finish(q, u)

Spec == RowsInit /\ [][RowsNext]_State
================================================================================
