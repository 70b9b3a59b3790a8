----------------------------- MODULE MCQuestSystem -----------------------------
(* A small instance of QuestSystem for TLC.                                *)
EXTENDS QuestSystem

MCNorm == [a \in Answer |-> a]

Right == {CHOOSE a \in Answer : TRUE}

MCSteps(S) == [k \in S |-> Right]

MCStepMaps == {MCSteps(S) : S \in SUBSET {1, 5, 9}}

MCQuest(S, accepts, refusal) ==
  [content |-> CHOOSE c \in Content : TRUE, described |-> TRUE, steps |-> MCSteps(S),
   accepts |-> accepts, refusal |-> refusal]

\* Two quests that replace one another: step 5 is the last of one and the first
\* of the other.  One without steps, one whose steps are rejected, and one that
\* is rejected as a whole.
MCBody ==
  {MCQuest({1, 5}, "all", "other"), MCQuest({5, 9}, "all", "other"),
   MCQuest({}, "all", "other"), MCQuest({9}, "row", "unique_violation"),
   MCQuest({}, "none", "string_data_right_truncation")}
================================================================================
