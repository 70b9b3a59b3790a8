CONSTANTS
  None = None
  Norm <- MCNorm
  Sort <- MCSort
  Position <- MCPosition
SPECIFICATION Spec
\* The run ends when the head is at the last question.
CHECK_DEADLOCK FALSE
INVARIANTS InsertFindsTheEnd InOrder SameLine
