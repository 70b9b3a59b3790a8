------------------------------- MODULE QuestLine -------------------------------
(***************************************************************************)
(* The quest line: what a recipient sees of a quest, and how an answer     *)
(* moves him along it (src/internal/quests/model/model.go).                *)
(*                                                                         *)
(* The steps of one quest are a function from the sort number of a step to *)
(* the set of answers it accepts.  The table steps has a unique constraint *)
(* on (quest_id, sort), so what one SELECT returns is such a function.     *)
(* The linked list of the code is sorted by sort number, so here it is the *)
(* set of the sort numbers it holds; LinkedList.tla checks that the        *)
(* pointer version builds and walks exactly this set in that order.        *)
(*                                                                         *)
(* A definition named Mut... is a faulty variant of the definition after   *)
(* it: the runs show that the properties notice the fault.                 *)
(***************************************************************************)
EXTENDS Integers, FiniteSets

CONSTANT Norm,   \* answer |-> its form under ToLower and TrimSpace
         None    \* a nil pointer, an absent row, a free slot

Statuses == {"not_started", "in_progress", "finished"}

Least(S) == CHOOSE k \in S : \A j \in S : k <= j

HeadOf(ql) == Least(ql.list)

\* The steps below the current one are the previous questions, the others are
\* the list whose head is the current question.
NewQuestLine(steps, currentStep, status) ==
  [status  |-> status,
   prev    |-> {k \in DOMAIN steps : k < currentStep},
   list    |-> {k \in DOMAIN steps : k >= currentStep},
   success |-> "none",
   rewards |-> None]

\* The first accepted answer that differs ends the loop.
MutCheckEach(ql, steps, answer) ==
  \A correctAnswer \in steps[HeadOf(ql)] : Norm[answer] = Norm[correctAnswer]

CheckIfAnswerCorrect(ql, steps, answer) ==
  \E correctAnswer \in steps[HeadOf(ql)] : Norm[answer] = Norm[correctAnswer]

\* head.next.next is tested for nil.
MutIsLastStep(ql) == \A j, k \in ql.list \ {HeadOf(ql)} : j = k

IsLastStep(ql) == ql.list = {HeadOf(ql)}

\* Next of the code: no action on the last step.
Advance(ql) ==
  IF IsLastStep(ql) THEN ql
  ELSE [ql EXCEPT !.prev = @ \cup {HeadOf(ql)}, !.list = @ \ {HeadOf(ql)}]

\* The index of the current question instead of its sort number.
MutCurrentIndex(ql) == Cardinality(ql.prev)

\* The position after the current question.
MutCurrentAfter(ql) == IF ql.list = {} THEN -1 ELSE HeadOf(ql) + 1

CurrentStep(ql) == IF ql.list = {} THEN -1 ELSE HeadOf(ql)

MutShowAll(ql) == ql.list

\* MarshalJSON writes the head of the list and none of the nodes after it.
Shown(ql) == IF ql.list = {} THEN {} ELSE {HeadOf(ql)}
================================================================================
