---------------------------- MODULE MCQuestProgress ----------------------------
(* Small instances of QuestProgress for TLC.                               *)
EXTENDS QuestProgress, TLC

\* Three answers; the second is the first in other letter case.
MCAnswer == {"rome", "Rome", "oslo"}
MCNorm == "rome" :> "rome" @@ "Rome" :> "rome" @@ "oslo" :> "oslo"

\* No steps; one step nobody can solve; a step at 0, the default of
\* current_step; three steps, with gaps and a negative sort number.
MCStepMaps ==
  {<< >>, 4 :> {}, 0 :> {"rome"},
   -2 :> {"oslo"} @@ 3 :> {"rome"} @@ 7 :> {"oslo", "rome"}}

MCSolvableMaps ==
  {<< >>, -2 :> {"oslo"} @@ 3 :> {"rome"} @@ 7 :> {"oslo", "rome"}}

Symmetry == Permutations(Slot)
================================================================================
