---------------------------- MODULE MCQuestAuthoring ----------------------------
(* Small instances of QuestAuthoring for TLC.                              *)
EXTENDS QuestAuthoring, TLC

MCNorm == [a \in Answer |-> a]

\* Two steps a quest may have, each alone or both.
MCStepMaps == {<< >>, 1 :> Answer, 5 :> Answer, 1 :> Answer @@ 5 :> Answer}

Saved(content, described, ms) ==
  [content |-> content, described |-> described, steps |-> ms,
   accepts |-> "all", refusal |-> "other"]

Gift == CHOOSE c \in Content : c \notin Unwritable
Text == CHOOSE c \in Content : c \in Unwritable

\* Two accepted quests with different steps, one with a sort number that is no
\* int4.
MCBody ==
  {Saved(Gift, TRUE, 1 :> Answer), Saved(Text, FALSE, 5 :> Answer),
   [Saved(Text, FALSE, 5 :> Answer) EXCEPT !.accepts = "row",
                                           !.refusal = "numeric_value_out_of_range"]}

\* Each quest was created, with its steps, and the create answered; nothing else
\* has happened since.
Created(u, b) ==
  /\ quests = [q \in Quest |->
       [owner |-> u, content |-> b.content, described |-> b.described]]
  /\ steps = [q \in Quest |-> b.steps]
  /\ asg = [k \in Key |-> None]
  /\ req = [r \in Slot |-> None]
  /\ used = Quest /\ mail = {} /\ sent = {}
  /\ faults = 0

CreatedInit == \E u \in User, b \in {c \in Body : c.accepts = "all"} : Created(u, b)

CreatedSpec == CreatedInit /\ [][Next]_vars

Symmetry == Permutations(Slot) \cup Permutations(User)
================================================================================
