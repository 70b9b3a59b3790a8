------------------------------- MODULE LinkedList -------------------------------
(***************************************************************************)
(* NewQuestLine, Insert and Next as the code computes them: the steps, in  *)
(* the order the database returned them, are sorted; one loop puts each of *)
(* them among the previous questions or at the end of a linked list; right *)
(* answers then move the head of that list.  A node is named by the sort   *)
(* number it holds.  The line in the set form of QuestLine is kept beside  *)
(* the pointers, and the invariants compare the two.                       *)
(***************************************************************************)
EXTENDS QuestLine, Sequences, SequencesExt

CONSTANTS Sort,       \* sort numbers
          Position    \* values of current_step

ASSUME SortAssumption ==
  Sort \subseteq Int /\ IsFiniteSet(Sort) /\ Position \subseteq Int /\ None \notin Int

VARIABLES input,      \* the sort numbers of the quest
          rows,       \* the steps that the loop has still to visit
          current,    \* currentStep
          pc,
          previous,   \* PreviousQuestions
          head, next, len,   \* the list: Head, the next pointers, len
          ptr, i,     \* the locals of Insert
          ql          \* the line in the form of QuestLine

vars == <<input, rows, current, pc, previous, head, next, len, ptr, i, ql>>

Init ==
  /\ input \in (SUBSET Sort) \ {{}}
  /\ rows \in SetToSeqs(input)
  /\ current \in Position \cup {None}
  /\ pc = "sort"
  /\ previous = << >>
  /\ head = None /\ next = [n \in Sort |-> None] /\ len = 0
  /\ ptr = None /\ i = 0
  /\ ql = None

MutSortSlice ==
  /\ pc = "sort"
  /\ current' = IF current = None THEN rows[1] ELSE current
  /\ pc' = "loop"
  /\ UNCHANGED <<input, rows, previous, head, next, len, ptr, i, ql>>

\* The orders sort.Slice may leave the steps of a set in: there is one.
Sorted(S) == {s \in SetToSeqs(S) : \A j, k \in DOMAIN s : j < k => s[j] < s[k]}

\* sort.Slice, and the position of the first step when there is none yet.
SortSlice ==
  /\ pc = "sort"
  /\ rows' \in Sorted(input)
  /\ current' = IF current = None THEN rows'[1] ELSE current
  /\ pc' = "loop"
  /\ UNCHANGED <<input, previous, head, next, len, ptr, i, ql>>

\* One turn of the loop over the steps, up to the walk in Insert.
Visit ==
  /\ pc = "loop" /\ rows # << >>
  /\ \/ /\ Head(rows) < current
        /\ previous' = Append(previous, Head(rows))
        /\ rows' = Tail(rows)
        /\ UNCHANGED <<pc, head, len, ptr, i>>
     \/ /\ Head(rows) >= current /\ len = 0
        /\ head' = Head(rows) /\ len' = 1
        /\ rows' = Tail(rows)
        /\ UNCHANGED <<pc, previous, ptr, i>>
     \/ /\ Head(rows) >= current /\ len > 0
        /\ pc' = "insert" /\ ptr' = head /\ i' = 0
        /\ UNCHANGED <<rows, previous, head, len>>
  /\ UNCHANGED <<input, current, next, ql>>

\* The new node is not counted.
MutInsert ==
  /\ pc = "insert" /\ i < len
  /\ \/ /\ next[ptr] = None
        /\ next' = [next EXCEPT ![ptr] = Head(rows)]
        /\ pc' = "loop" /\ rows' = Tail(rows)
        /\ UNCHANGED <<len, ptr, i>>
     \/ /\ next[ptr] # None
        /\ ptr' = next[ptr] /\ i' = i + 1
        /\ UNCHANGED <<next, len, pc, rows>>
  /\ UNCHANGED <<input, current, previous, head, ql>>

\* One turn of Insert's walk to the last node.
Insert ==
  /\ pc = "insert" /\ i < len
  /\ \/ /\ next[ptr] = None
        /\ next' = [next EXCEPT ![ptr] = Head(rows)]
        /\ len' = len + 1
        /\ pc' = "loop" /\ rows' = Tail(rows)
        /\ UNCHANGED <<ptr, i>>
     \/ /\ next[ptr] # None
        /\ ptr' = next[ptr] /\ i' = i + 1
        /\ UNCHANGED <<next, len, pc, rows>>
  /\ UNCHANGED <<input, current, previous, head, ql>>

\* NewQuestLine returns; QuestLine gives the same line at once.
Return ==
  /\ pc = "loop" /\ rows = << >>
  /\ pc' = "built"
  /\ ql' = NewQuestLine([k \in input |-> {}], current, "in_progress")
  /\ UNCHANGED <<input, rows, current, previous, head, next, len, ptr, i>>

\* The head moves and the old one is lost.
MutNext ==
  /\ pc = "built" /\ head # None
  /\ next[head] # None
  /\ head' = next[head]
  /\ ql' = Advance(ql)
  /\ UNCHANGED <<input, rows, current, pc, previous, next, len, ptr, i>>

\* Next, which CheckAnswer calls when the head is not the last step.
NextQuestion ==
  /\ pc = "built" /\ head # None
  /\ next[head] # None
  /\ previous' = Append(previous, head)
  /\ head' = next[head]
  /\ ql' = Advance(ql)
  /\ UNCHANGED <<input, rows, current, pc, next, len, ptr, i>>

Next == SortSlice \/ Visit \/ Insert \/ Return \/ NextQuestion

Spec == Init /\ [][Next]_vars
--------------------------------------------------------------------------------
\* The nodes from head on are those of s, one after the other.
Chain(s) ==
  /\ head = IF s = << >> THEN None ELSE s[1]
  /\ \A j \in DOMAIN s : next[s[j]] = IF j = Len(s) THEN None ELSE s[j + 1]

(***************************************************************************)
(* Insert finds the last node before its bound runs out, or it would drop  *)
(* a question: with len nodes in the list the walk stops at one of them.   *)
(***************************************************************************)
InsertFindsTheEnd == pc = "insert" => i < len /\ ptr # None

(***************************************************************************)
(* Whatever the order of the result set and the position: the previous     *)
(* questions and then the list are all the steps of the quest, in the      *)
(* order of their sort numbers, while right answers move the head.         *)
(***************************************************************************)
InOrder ==
  pc = "built" =>
    \E s \in Sorted(input) : \E n \in 0..Len(s) :
      previous = SubSeq(s, 1, n) /\ Chain(SubSeq(s, n + 1, Len(s)))

(***************************************************************************)
(* The set form used by the other modules says the same as the pointers:   *)
(* the same previous questions, the others in the list, the same head and  *)
(* the same last step.                                                     *)
(***************************************************************************)
SameLine ==
  pc = "built" =>
    /\ ql.prev = ToSet(previous)
    /\ ql.list = input \ ToSet(previous)
    /\ CurrentStep(ql) = (IF head = None THEN -1 ELSE head)
    /\ head # None => (IsLastStep(ql) <=> next[head] = None)
================================================================================
