-------------------------------- MODULE QuestRun --------------------------------
(***************************************************************************)
(* What the service promises of a recipient's way through a quest, without *)
(* requests, statements or a position to resume at: each assignment is     *)
(* begun once, and then its steps are solved one at a time, in the order   *)
(* of their sort numbers, each for good.  A run that has solved every step *)
(* is over.                                                                *)
(***************************************************************************)
EXTENDS Integers

CONSTANT Key          \* the assignments

VARIABLES plan,       \* [Key -> the sort numbers of the steps of its quest]
          begun,      \* [Key -> BOOLEAN]
          done        \* [Key -> the steps solved so far]

vars == <<plan, begun, done>>

Init ==
  /\ plan \in [Key -> SUBSET Int]
  /\ begun = [k \in Key |-> FALSE]
  /\ done = [k \in Key |-> {}]

Begin(k) ==
  /\ ~begun[k]
  /\ plan[k] # {}
  /\ begun' = [begun EXCEPT ![k] = TRUE]
  /\ UNCHANGED <<plan, done>>

\* n is the first step that is not solved.
Solve(k, n) ==
  /\ begun[k]
  /\ n \in plan[k] \ done[k]
  /\ \A m \in plan[k] \ done[k] : n <= m
  /\ done' = [done EXCEPT ![k] = @ \cup {n}]
  /\ UNCHANGED <<plan, begun>>

Next == \E k \in Key : Begin(k) \/ \E n \in plan[k] : Solve(k, n)

Spec == Init /\ [][Next]_vars
================================================================================
