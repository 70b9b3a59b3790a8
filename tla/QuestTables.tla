------------------------------- MODULE QuestTables -------------------------------
(***************************************************************************)
(* The tables of the quests service (migrations/) and their columns, as    *)
(* far as a handler's behaviour depends on them.  QuestProgress and        *)
(* QuestAuthoring are the statements the handlers of the recipients and of *)
(* the owners run against them.                                            *)
(*                                                                         *)
(* A recipient is named by the e-mail address he has an account for: the   *)
(* column users.email is unique and no handler changes it, so the joins    *)
(* and sub-selects on it find the same user each time.  An address without *)
(* an account is a user who sends no requests.                             *)
(***************************************************************************)
EXTENDS QuestLine

CONSTANTS User, Quest, Answer,
          StepMaps,    \* the step sets a quest can have
          Content,     \* final message and rewards of a quest
          Unwritable   \* the contents whose rewards json.Marshal rejects

VARIABLES quests,      \* table quests: its rows
          steps,       \* table steps: per quest, sort number |-> answers
          asg          \* table quest_to_email, by <<quest, user>>

Key == Quest \X User
Sort == UNION {DOMAIN m : m \in StepMaps}

\* Rewards are stored as the JSON text of the request, but a JSON string loses
\* its quotes on the way in and is not JSON any more on the way out: such a
\* content is stored, and each answer it is part of becomes an error.
\* described: the nullable column description has a value.
Row == [owner : User, content : Content, described : BOOLEAN]
Assignment == [status : Statuses, cur : Sort \cup {0, -1}]

\* The column current_step is nullable: without its default.
MutNewAssignment == [status |-> "not_started", cur |-> None]

NewAssignment == [status |-> "not_started", cur |-> 0]

NoSteps == [k \in {} |-> {}]

\* A step set is finite, so each part of it has a first step.
ASSUME StepMapsAssumption ==
  \A m \in StepMaps :
    /\ DOMAIN m \subseteq Int
    /\ m \in [DOMAIN m -> SUBSET Answer]
    /\ \A S \in SUBSET DOMAIN m : S # {} => \E k \in S : \A j \in S : k <= j

ASSUME TablesAssumption ==
  None \notin Answer \cup Content \cup Row \cup Assignment \cup StepMaps

ASSUME ContentAssumption == Unwritable \subseteq Content

TablesOK ==
  /\ quests \in [Quest -> Row \cup {None}]
  /\ steps \in [Quest -> StepMaps]
  /\ asg \in [Key -> Assignment \cup {None}]
================================================================================
