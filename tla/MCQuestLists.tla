------------------------------ MODULE MCQuestLists ------------------------------
(* A small instance of QuestLists for TLC.                                 *)
EXTENDS QuestLists

\* The quests in the order of their times: a numbering, as good as any other.
MCBorn == LET s == SetToSeq(Quest) IN [q \in Quest |-> CHOOSE i \in DOMAIN s : s[i] = q]
================================================================================
