------------------------------ MODULE MCLinkedList ------------------------------
(* Every order of every set of at most four steps, every position.         *)
EXTENDS LinkedList

MCSort == {-1, 0, 3, 4}
MCPosition == -1..5
MCNorm == [a \in {} |-> a]
================================================================================
