------------------------------- MODULE QuestSystem -------------------------------
(***************************************************************************)
(* The quests service as a whole: owners create, edit, delete and send     *)
(* quests while recipients walk through them.  The two sides share the     *)
(* tables, and nothing else: no lock and no version tells a recipient's    *)
(* handler that the steps it read, or the position it writes, belong to a  *)
(* quest that was edited since.                                            *)
(***************************************************************************)
EXTENDS QuestTables

CONSTANTS OwnerSlot, PlayerSlot, Overlap, MaxFaults, Body, Mailing

VARIABLES oreq, used, mail, sent,    \* see QuestAuthoring
          preq, solved, got,         \* see QuestProgress
          cut,                       \* history: the recipients a part of whose
                                     \* steps was lost on the way
          faults                     \* of both

\* The two sides, each with what is proved about it: QuestAuthoringProofs and
\* QuestProgressProofs extend QuestAuthoring and QuestProgress by theorems, which
\* QuestSystemProofs uses, and change none of their actions.
Owners == INSTANCE QuestAuthoringProofs WITH Slot <- OwnerSlot, req <- oreq
Players == INSTANCE QuestProgressProofs WITH Slot <- PlayerSlot, req <- preq

ASSUME OwnersAssumption ==
  /\ Owners!StepMapsAssumption /\ Owners!TablesAssumption /\ Owners!ContentAssumption
  /\ Owners!BodyAssumption /\ Owners!NoneAssumption /\ Owners!FaultsAssumption
  /\ Owners!MixAssumption /\ Owners!PartsAssumption

ASSUME PlayersAssumption ==
  /\ Players!StepMapsAssumption /\ Players!TablesAssumption
  /\ Players!ContentAssumption /\ Players!NoneAssumption /\ Players!FaultsAssumption

\* What a list shows of a quest is told from a row that is not there.
ASSUME KindAssumption == None \notin [owner : User, kind : Content \X BOOLEAN]

vars == <<quests, steps, asg, oreq, used, mail, sent, preq, solved, got, cut, faults>>

Init == Owners!Init /\ Players!Init /\ cut = {}

OwnerStep == Owners!Step /\ UNCHANGED <<preq, solved, got, cut>>

PlayerStep == Players!Next /\ UNCHANGED <<oreq, used, mail, sent, cut>>

\* The connection breaks while the steps arrive, and the recipient's request
\* goes on with a part of them (see CutSteps of QuestAuthoring).
CutSteps(r) ==
  /\ faults < MaxFaults /\ faults' = faults + 1
  /\ Players!At(r, "steps")
  /\ \E m \in Owners!Parts(steps[preq[r].quest]) :
       preq' = [preq EXCEPT ![r].pc = "assignment", ![r].steps = m]
  /\ cut' = cut \cup {Players!KeyOf(r)}
  /\ UNCHANGED <<quests, steps, asg, oreq, used, mail, sent, solved, got>>

\* The process stops with all of its requests.
Crash ==
  /\ Owners!Crash
  /\ preq' = [r \in PlayerSlot |-> None]
  /\ UNCHANGED <<solved, got, cut>>

Next ==
  \/ OwnerStep \/ PlayerStep \/ Crash
  \/ \E r \in PlayerSlot : CutSteps(r)

Spec == Init /\ [][Next]_vars

\* The server runs the handlers of the owners, and the goroutines that mail, to
\* their end.
OwnerHandles(r) == Owners!Handle(r) /\ UNCHANGED <<preq, solved, got, cut>>
SendEmail(k) == Owners!SendEmail(k) /\ UNCHANGED <<preq, solved, got, cut>>

FairSpec ==
  /\ Spec
  /\ \A r \in OwnerSlot : WF_vars(OwnerHandles(r))
  /\ \A k \in Key : WF_vars(SendEmail(k))
--------------------------------------------------------------------------------
(***************************************************************************)
(* Whatever the owner does to the quest meanwhile, a recipient never loses *)
(* progress: an assignment stays, one that is begun moves to later steps   *)
(* only, and a finished one stays as it is; also when he is shown a part   *)
(* of the steps.  It needs recipients that wait for an answer before they  *)
(* send the next request.                                                  *)
(***************************************************************************)
NeverBack ==
  [][\A k \in Key :
       /\ asg[k] # None => asg'[k] # None
       /\ asg[k] # None /\ asg'[k] # asg[k] /\ asg[k].status = "in_progress" =>
            \/ asg'[k].status = "in_progress" /\ asg'[k].cur > asg[k].cur
            \/ asg'[k].status = "finished" /\ asg'[k].cur >= asg[k].cur
       /\ asg[k] # None /\ asg[k].status = "finished" => asg'[k] = asg[k]]_vars

(***************************************************************************)
(* An owner who edits the quest cannot make it end in the middle: who has  *)
(* finished answered right the last step of a quest as it was saved, never *)
(* of one with its steps half replaced.  Who was handed a part of the      *)
(* steps, by a connection that broke, can finish before the end.           *)
(***************************************************************************)
FinishedAtAnEnd ==
  \A k \in Key \ cut :
    asg[k] # None /\ asg[k].status = "finished" =>
      /\ asg[k].cur \in solved[k]
      /\ \E b \in Body : /\ asg[k].cur \in DOMAIN b.steps
                         /\ \A n \in DOMAIN b.steps : n <= asg[k].cur

(***************************************************************************)
(* Whoever has been given a quest is mailed his invitation when nothing    *)
(* fails, though he may already be through it and its owner edit it before *)
(* the mail is written.                                                    *)
(***************************************************************************)
Informed == \A k \in Key : asg[k] # None ~> k \in sent \/ faults > 0

(***************************************************************************)
(* The promises to the owner hold with recipients on the way: what he is   *)
(* told is what was done, and what is sent has steps.                      *)
(***************************************************************************)
DoneAsAnswered == Owners!DoneAsAnswered
SentWithSteps == Owners!SentWithSteps

Rows == INSTANCE QuestRows WITH
  Kind <- Content \X BOOLEAN,
  rows <- [q \in Quest |->
    IF quests[q] = None THEN None
    ELSE [owner |-> quests[q].owner, kind |-> <<quests[q].content, quests[q].described>>]],
  status <- [k \in Key |-> IF asg[k] = None THEN None ELSE asg[k].status]

(***************************************************************************)
(* Seen through its tables, the whole service does no more than QuestRows  *)
(* says, in spite of crashes and lost connections and of writes that are   *)
(* many statements later than the checks they rest on: it deletes no quest *)
(* that was sent, sends none that is not there, keeps each owner, and      *)
(* takes each recipient from not started over in progress to finished.     *)
(***************************************************************************)
RefinesRows == Rows!Spec
================================================================================
