\* A client walks through his lists of up to three quests, one or two to a page,
\* while two things happen: a change of the tables, a fault, or one of each.
CONSTANTS
  None = None
  User = {ann}
  Quest = {q1, q2, q3}
  Kind = {fine, odd}
  Unwritable = {odd}
  Undescribed = {odd}
  DefaultLimit = 2
  LimitCap = 3
  Param = {None, 1, 3}
  Born <- MCBorn
  MaxClock = 3
  MaxEvents = 2
SPECIFICATION FairSpec
INVARIANTS TypeOK ListsOnce CountFits
PROPERTIES WalkEnds
CHECK_DEADLOCK FALSE
