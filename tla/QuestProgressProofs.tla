--------------------------- MODULE QuestProgressProofs ---------------------------
(***************************************************************************)
(* Proofs about QuestProgress, for every set of users, quests, step sets   *)
(* and requests in flight.                                                 *)
(***************************************************************************)
EXTENDS QuestProgress, TLAPS

--------------------------------------------------------------------------------
(* Facts about the quest line.                                             *)

\* A non-empty set of steps of a quest has a first one, and Least is it.
LEMMA LeastOfSteps ==
  ASSUME NEW m \in StepMaps, NEW S \in SUBSET DOMAIN m, S # {}
  PROVE  /\ Least(S) \in S
         /\ \A j \in S : Least(S) <= j
<1>1. \E k \in S : \A j \in S : k <= j
  BY StepMapsAssumption
<1>2. QED
  BY <1>1 DEF Least

\* The sort numbers of a quest are integers, and positions of the table.
LEMMA StepsAreSorts ==
  ASSUME NEW m \in StepMaps
  PROVE  DOMAIN m \subseteq Sort /\ DOMAIN m \subseteq Int
BY StepMapsAssumption DEF Sort

LEMMA SortsAreInts == Sort \subseteq Int
BY StepMapsAssumption DEF Sort

\* The line built from the steps of a quest is well formed.
LEMMA NewLineType ==
  ASSUME NEW m \in StepMaps, NEW c, NEW st \in Statuses
  PROVE  NewQuestLine(m, c, st) \in Line
BY StepsAreSorts DEF NewQuestLine, Line

\* The line after a right answer, field by field: the last step finishes the
\* quest, any other moves from the list to the previous questions.
LEMMA PassedFields ==
  ASSUME NEW ql \in Line, NEW row \in Row
  PROVE  /\ IsLastStep(ql) =>
              Passed(ql, row) =
                [status |-> "finished", prev |-> ql.prev, list |-> ql.list,
                 success |-> "yes", rewards |-> row.content]
         /\ ~IsLastStep(ql) =>
              Passed(ql, row) =
                [status |-> ql.status, prev |-> ql.prev \cup {HeadOf(ql)},
                 list |-> ql.list \ {HeadOf(ql)}, success |-> "yes",
                 rewards |-> ql.rewards]
<1> DEFINE yes == [ql EXCEPT !.success = "yes"]
<1>1. yes = [status |-> ql.status, prev |-> ql.prev, list |-> ql.list,
             success |-> "yes", rewards |-> ql.rewards]
  BY DEF Line
<1>2. HeadOf(yes) = HeadOf(ql) /\ (IsLastStep(yes) <=> IsLastStep(ql))
  BY <1>1 DEF HeadOf, IsLastStep
<1>3. CASE IsLastStep(ql)
  BY <1>3 DEF Passed, Line
<1>4. CASE ~IsLastStep(ql)
  <2>1. Passed(ql, row) = Advance(yes)
    BY <1>4 DEF Passed
  <2>2. Advance(yes) = [yes EXCEPT !.prev = @ \cup {HeadOf(ql)},
                                   !.list = @ \ {HeadOf(ql)}]
    BY <1>2, <1>4 DEF Advance
  <2> HIDE DEF yes
  <2>3. QED
    BY <1>1, <1>4, <2>1, <2>2
<1>5. QED
  BY <1>3, <1>4

\* The line after a right answer is well formed.
LEMMA PassedType ==
  ASSUME NEW m \in StepMaps, NEW ql \in Line, NEW row \in Row,
         ql.list # {}, ql.list \subseteq DOMAIN m
  PROVE  Passed(ql, row) \in Line /\ Passed(ql, row).list # {}
<1>1. HeadOf(ql) \in ql.list
  BY LeastOfSteps DEF HeadOf
<1>2. HeadOf(ql) \in Sort
  BY <1>1 DEF Line
<1>3. CASE IsLastStep(ql)
  BY <1>3, PassedFields DEF Line, Row, Statuses
<1>4. CASE ~IsLastStep(ql)
  <2>1. ql.list \ {HeadOf(ql)} # {}
    BY <1>1, <1>4 DEF IsLastStep
  <2>2. QED
    BY <1>2, <1>4, <2>1, PassedFields DEF Line, Row, Statuses
<1>5. QED
  BY <1>3, <1>4

--------------------------------------------------------------------------------
(* Type correctness.                                                       *)

\* What a request has read by the time it stands before a statement.
HasRead(x) ==
  /\ x.pc \in {"steps", "assignment", "update"} => x.row # None
  /\ x.pc \in {"assignment", "update"} => x.steps # None /\ DOMAIN x.steps # {}
  /\ x.pc = "update" => /\ x.line # None /\ x.line.list # {}
                        /\ x.line.list \subseteq DOMAIN x.steps
  /\ x.pc = "reply" /\ x.err = None => x.line # None

TypeInv == TypeOK /\ \A r \in Slot : req[r] # None => HasRead(req[r])

\* Replacing one request by a well-formed one keeps the requests well formed.
LEMMA ReplaceRequest ==
  ASSUME TypeInv, NEW r \in Slot, NEW x,
         x \in Request => HasRead(x), x \in Request \cup {None},
         req' = [req EXCEPT ![r] = x]
  PROVE  /\ req' \in [Slot -> Request \cup {None}]
         /\ \A s \in Slot : req'[s] # None => HasRead(req'[s])
         /\ req'[r] = x
         /\ \A s \in Slot \ {r} : req'[s] = req[s]
BY DEF TypeInv, TypeOK, TablesOK

\* The requests after a handler returns with an error.
LEMMA RefuseType ==
  ASSUME TypeInv, NEW r \in Slot, req[r] # None, NEW e \in Errors, Refuse(r, e)
  PROVE  /\ req' \in [Slot -> Request \cup {None}]
         /\ \A s \in Slot : req'[s] # None => HasRead(req'[s])
<1> DEFINE x == [req[r] EXCEPT !.pc = "reply", !.err = e]
<1>1. req[r] \in Request
  BY DEF TypeInv, TypeOK, TablesOK
<1>2. x \in Request /\ x.pc = "reply" /\ x.err = e
  BY <1>1 DEF Request
<1>3. e # None
  BY NoneAssumption, TablesAssumption
<1>4. HasRead(x)
  BY <1>2, <1>3 DEF HasRead
<1>5. req' = [req EXCEPT ![r] = x]
  BY DEF Refuse, TypeInv, TypeOK, TablesOK
<1> HIDE DEF x
<1>6. QED
  BY <1>2, <1>4, <1>5, ReplaceRequest

\* The requests after a handler has a line to answer with, saved or not.
LEMMA LineType ==
  ASSUME TypeInv, NEW r \in Slot, req[r] # None, NEW ql \in Line,
         \/ Return(r, ql)
         \/ /\ Save(r, ql)
            /\ req[r].row # None /\ req[r].steps # None
            /\ DOMAIN req[r].steps # {}
            /\ ql.list # {} /\ ql.list \subseteq DOMAIN req[r].steps
  PROVE  /\ req' \in [Slot -> Request \cup {None}]
         /\ \A s \in Slot : req'[s] # None => HasRead(req'[s])
<1>1. req[r] \in Request /\ ql # None
  BY NoneAssumption, TablesAssumption DEF TypeInv, TypeOK, TablesOK
<1>2. CASE Return(r, ql)
  <2> DEFINE x == [req[r] EXCEPT !.pc = "reply", !.line = ql]
  <2>1. x \in Request /\ x.pc = "reply" /\ x.line = ql
    BY <1>1 DEF Request
  <2>2. HasRead(x)
    BY <2>1, <1>1 DEF HasRead
  <2>3. req' = [req EXCEPT ![r] = x]
    BY <1>2 DEF Return, TypeInv, TypeOK, TablesOK
  <2> HIDE DEF x
  <2>4. QED
    BY <2>1, <2>2, <2>3, ReplaceRequest
<1>3. CASE Save(r, ql)
  <2> DEFINE x == [req[r] EXCEPT !.pc = "update", !.line = ql]
  <2>1. /\ x \in Request /\ x.pc = "update" /\ x.line = ql
        /\ x.row = req[r].row /\ x.steps = req[r].steps
    BY <1>1 DEF Request
  <2>2. CASE /\ req[r].row # None /\ req[r].steps # None
             /\ DOMAIN req[r].steps # {}
             /\ ql.list # {} /\ ql.list \subseteq DOMAIN req[r].steps
    <3>1. HasRead(x)
      BY <2>1, <2>2, <1>1 DEF HasRead
    <3>2. req' = [req EXCEPT ![r] = x]
      BY <1>3 DEF Save, TypeInv, TypeOK, TablesOK
    <3> HIDE DEF x
    <3>3. QED
      BY <2>1, <3>1, <3>2, ReplaceRequest
  <2>3. CASE Return(r, ql)
    BY <1>2, <2>3
  <2>4. QED
    BY <2>2, <2>3
<1>4. QED
  BY <1>2, <1>3

LEMMA SubmitType ==
  ASSUME TypeInv, NEW r \in Slot, SendRequest(r)
  PROVE  TypeInv'
<1>1. PICK op \in {"start", "check", "status"}, u \in User, q \in Quest,
           a \in Answer \cup {None} : Submit(r, op, u, q, a)
  BY DEF SendRequest
<1> DEFINE x == [op |-> op, user |-> u, quest |-> q, answer |-> a,
                 pc |-> "quest", row |-> None, steps |-> None,
                 line |-> None, err |-> None]
<1>2. x \in Request /\ HasRead(x)
  BY DEF Request, HasRead
<1>3. req' = [req EXCEPT ![r] = x]
  BY <1>1 DEF Submit
<1> HIDE DEF x
<1>4. /\ req' \in [Slot -> Request \cup {None}]
      /\ \A s \in Slot : req'[s] # None => HasRead(req'[s])
  BY <1>2, <1>3, ReplaceRequest
<1>5. QED
  BY <1>1, <1>4 DEF TypeInv, TypeOK, TablesOK, Submit

LEMMA ReadQuestType ==
  ASSUME TypeInv, NEW r \in Slot, ReadQuest(r)
  PROVE  TypeInv'
<1>1. req[r] \in Request /\ req[r] # None /\ req[r].pc = "quest"
  BY DEF ReadQuest, At, TypeInv, TypeOK, TablesOK
<1>2. /\ req' \in [Slot -> Request \cup {None}]
      /\ \A s \in Slot : req'[s] # None => HasRead(req'[s])
  <2>1. CASE Refuse(r, "not_found")
    BY <1>1, <2>1, RefuseType DEF Errors
  <2>2. CASE /\ quests[req[r].quest] # None
             /\ req' = [req EXCEPT ![r].pc = "steps",
                                   ![r].row = quests[req[r].quest]]
    <3> DEFINE row == quests[req[r].quest]
               x == [req[r] EXCEPT !.pc = "steps", !.row = row]
    <3>1. row \in Row /\ row # None
      BY <1>1, <2>2 DEF TypeInv, TypeOK, TablesOK, Request
    <3>2. x \in Request /\ x.pc = "steps" /\ x.row = row
      BY <1>1, <3>1 DEF Request
    <3>3. HasRead(x)
      BY <3>1, <3>2 DEF HasRead
    <3>4. req' = [req EXCEPT ![r] = x]
      BY <2>2 DEF TypeInv, TypeOK, TablesOK
    <3> HIDE DEF x
    <3>5. QED
      BY <3>2, <3>3, <3>4, ReplaceRequest
  <2>3. QED
    BY <2>1, <2>2 DEF ReadQuest
<1>3. QED
  BY <1>2 DEF TypeInv, TypeOK, TablesOK, ReadQuest

LEMMA ReadStepsType ==
  ASSUME TypeInv, NEW r \in Slot, ReadSteps(r)
  PROVE  TypeInv'
<1>1. req[r] \in Request /\ req[r] # None /\ req[r].pc = "steps" /\ HasRead(req[r])
  BY DEF ReadSteps, At, TypeInv, TypeOK, TablesOK
<1>2. /\ req' \in [Slot -> Request \cup {None}]
      /\ \A s \in Slot : req'[s] # None => HasRead(req'[s])
  <2>1. CASE Refuse(r, "no_steps")
    BY <1>1, <2>1, RefuseType DEF Errors
  <2>2. CASE /\ DOMAIN steps[req[r].quest] # {}
             /\ req' = [req EXCEPT ![r].pc = "assignment",
                                   ![r].steps = steps[req[r].quest]]
    <3> DEFINE m == steps[req[r].quest]
               x == [req[r] EXCEPT !.pc = "assignment", !.steps = m]
    <3>1. m \in StepMaps /\ m # None /\ DOMAIN m # {}
      BY <1>1, <2>2, NoneAssumption, TablesAssumption DEF TypeInv, TypeOK, TablesOK, Request
    <3>2. /\ x \in Request /\ x.pc = "assignment" /\ x.steps = m
          /\ x.row = req[r].row
      BY <1>1, <3>1 DEF Request
    <3>3. HasRead(x)
      BY <1>1, <3>1, <3>2 DEF HasRead
    <3>4. req' = [req EXCEPT ![r] = x]
      BY <2>2 DEF TypeInv, TypeOK, TablesOK
    <3> HIDE DEF x
    <3>5. QED
      BY <3>2, <3>3, <3>4, ReplaceRequest
  <2>3. QED
    BY <2>1, <2>2 DEF ReadSteps
<1>3. QED
  BY <1>2 DEF TypeInv, TypeOK, TablesOK, ReadSteps

\* The line built at the assignment has the steps that were read in it.
LEMMA NewLineAt ==
  ASSUME NEW m \in StepMaps, NEW c \in Int, NEW st \in Statuses
  PROVE  LET ql == NewQuestLine(m, c, st)
         IN  /\ ql \in Line
             /\ ql.status = st /\ ql.rewards = None
             /\ ql.prev = {k \in DOMAIN m : k < c}
             /\ ql.list = {k \in DOMAIN m : k >= c}
             /\ ql.list \subseteq DOMAIN m
BY NewLineType DEF NewQuestLine

\* What holds of a request that stands before the SELECT of its assignment.
LEMMA AtAssignment ==
  ASSUME TypeInv, NEW r \in Slot, At(r, "assignment")
  PROVE  /\ req[r] \in Request /\ req[r] # None /\ req[r].pc = "assignment"
         /\ req[r].row \in Row /\ req[r].row # None
         /\ req[r].steps \in StepMaps /\ req[r].steps # None
         /\ DOMAIN req[r].steps # {}
         /\ KeyOf(r) \in Key
         /\ asg[KeyOf(r)] # None =>
              /\ asg[KeyOf(r)] \in Assignment
              /\ asg[KeyOf(r)].cur \in Int
              /\ asg[KeyOf(r)].status \in Statuses
<1>1. req[r] \in Request /\ req[r] # None /\ HasRead(req[r]) /\ req[r].pc = "assignment"
  BY DEF At, TypeInv, TypeOK, TablesOK
<1>2. KeyOf(r) \in Key
  BY <1>1 DEF KeyOf, Key, Request
<1>3. asg[KeyOf(r)] \in Assignment \cup {None}
  BY <1>2 DEF TypeInv, TypeOK, TablesOK
<1>4. ASSUME NEW a \in Assignment
      PROVE  a.cur \in Int /\ a.status \in Statuses
  <2>1. a.status \in Statuses /\ a.cur \in Sort \cup {0, -1}
    BY DEF Assignment
  <2>2. Sort \cup {0, -1} \subseteq Int
    BY SortsAreInts
  <2>3. QED
    BY <2>1, <2>2
<1>5. QED
  BY <1>1, <1>2, <1>3, <1>4 DEF HasRead, Request

LEMMA GetAssignmentType ==
  ASSUME TypeInv, NEW r \in Slot, GetAssignment(r)
  PROVE  TypeInv'
<1> DEFINE ql == NewQuestLine(req[r].steps, asg[KeyOf(r)].cur, asg[KeyOf(r)].status)
<1>1. At(r, "assignment")
  BY DEF GetAssignment
<1>2. /\ req' \in [Slot -> Request \cup {None}]
      /\ \A s \in Slot : req'[s] # None => HasRead(req'[s])
  <2>1. CASE NotAssigned(r) \/ NotDescribed(r)
    BY <1>1, <2>1, AtAssignment, RefuseType
    DEF NotAssigned, NotDescribed, Errors, Panics
  <2>2. CASE asg[KeyOf(r)] # None /\ Return(r, ql)
    <3>1. ql \in Line
      BY <1>1, <2>2, AtAssignment, NewLineAt
    <3> HIDE DEF ql
    <3>2. QED
      BY <1>1, <2>2, <3>1, AtAssignment, LineType
  <2>3. QED
    BY <2>1, <2>2 DEF GetAssignment
<1>3. QED
  BY <1>2 DEF TypeInv, TypeOK, TablesOK, GetAssignment

\* The line a quest is started with holds all of its steps.
LEMMA StartLine ==
  ASSUME NEW m \in StepMaps, DOMAIN m # {}
  PROVE  LET ql == NewQuestLine(m, Least(DOMAIN m), "in_progress")
         IN  /\ ql \in Line /\ ql.status = "in_progress" /\ ql.rewards = None
             /\ ql.prev = {} /\ ql.list = DOMAIN m
<1>1. /\ Least(DOMAIN m) \in DOMAIN m
      /\ \A j \in DOMAIN m : Least(DOMAIN m) <= j
  BY LeastOfSteps
<1>2. DOMAIN m \subseteq Int
  BY StepsAreSorts
<1>3. \A j \in DOMAIN m : ~(j < Least(DOMAIN m)) /\ j >= Least(DOMAIN m)
  BY <1>1, <1>2
<1>4. "in_progress" \in Statuses
  BY DEF Statuses
<1>5. QED
  BY <1>1, <1>2, <1>3, <1>4, NewLineAt

LEMMA StartQuestType ==
  ASSUME TypeInv, NEW r \in Slot, StartQuest(r)
  PROVE  TypeInv'
<1> DEFINE ql == NewQuestLine(req[r].steps, Least(DOMAIN req[r].steps), "in_progress")
<1>1. At(r, "assignment")
  BY DEF StartQuest
<1>2. /\ req' \in [Slot -> Request \cup {None}]
      /\ \A s \in Slot : req'[s] # None => HasRead(req'[s])
  <2>1. CASE \E e \in Errors : Refuse(r, e)
    BY <1>1, <2>1, AtAssignment, RefuseType
  <2>2. CASE Save(r, ql)
    <3>1. ql \in Line /\ ql.list = DOMAIN req[r].steps
      BY <1>1, AtAssignment, StartLine
    <3> HIDE DEF ql
    <3>2. QED
      BY <1>1, <2>2, <3>1, AtAssignment, LineType
  <2>3. QED
    BY <2>1, <2>2 DEF StartQuest, NotAssigned, NotDescribed, Errors, Panics
<1>3. QED
  BY <1>2 DEF TypeInv, TypeOK, TablesOK, StartQuest

\* The list after a right answer holds only steps of the quest.
LEMMA PassedList ==
  ASSUME NEW ql \in Line, NEW row \in Row
  PROVE  Passed(ql, row).list \subseteq ql.list
BY PassedFields

LEMMA CheckAnswerType ==
  ASSUME TypeInv, NEW r \in Slot, CheckAnswer(r)
  PROVE  TypeInv'
<1> DEFINE ql == NewQuestLine(req[r].steps, asg[KeyOf(r)].cur, asg[KeyOf(r)].status)
<1>1. At(r, "assignment")
  BY DEF CheckAnswer
<1>2. CASE (\E e \in Errors : Refuse(r, e)) /\ UNCHANGED solved
  BY <1>1, <1>2, AtAssignment, RefuseType DEF TypeInv, TypeOK, TablesOK, CheckAnswer
<1>3. CASE asg[KeyOf(r)] # None /\ Check(r, ql)
  <2>1. ql \in Line /\ ql.list \subseteq DOMAIN req[r].steps
    BY <1>1, <1>3, AtAssignment, NewLineAt
  <2> HIDE DEF ql
  <2>2. CASE Refuse(r, "nil_head") /\ UNCHANGED solved
    BY <1>1, <2>2, AtAssignment, RefuseType
    DEF TypeInv, TypeOK, TablesOK, CheckAnswer, Errors, Panics
  <2>3. CASE Return(r, [ql EXCEPT !.success = "no"]) /\ UNCHANGED solved
    <3>1. [ql EXCEPT !.success = "no"] \in Line
      BY <2>1 DEF Line
    <3>2. QED
      BY <1>1, <2>3, <3>1, AtAssignment, LineType DEF TypeInv, TypeOK, TablesOK, CheckAnswer
  <2>4. CASE /\ ql.list # {}
             /\ Save(r, Passed(ql, req[r].row))
             /\ solved' = [solved EXCEPT ![KeyOf(r)] = @ \cup {HeadOf(ql)}]
    <3>1. /\ Passed(ql, req[r].row) \in Line
          /\ Passed(ql, req[r].row).list # {}
          /\ Passed(ql, req[r].row).list \subseteq DOMAIN req[r].steps
      BY <1>1, <2>1, <2>4, AtAssignment, PassedType, PassedList
    <3>2. HeadOf(ql) \in Sort
      BY <1>1, <2>1, <2>4, AtAssignment, LeastOfSteps DEF HeadOf, Line
    <3>3. solved' \in [Key -> SUBSET Sort]
      BY <2>4, <3>2 DEF TypeInv, TypeOK, TablesOK
    <3>4. QED
      BY <1>1, <2>4, <3>1, <3>3, AtAssignment, LineType DEF TypeInv, TypeOK, TablesOK, CheckAnswer
  <2>5. QED
    BY <1>3, <2>2, <2>3, <2>4 DEF Check
<1>4. QED
  BY <1>2, <1>3 DEF CheckAnswer, NotAssigned, NotDescribed, Errors, Panics

\* What holds of a request that stands before the UPDATE of its assignment.
LEMMA AtUpdate ==
  ASSUME TypeInv, NEW r \in Slot, At(r, "update")
  PROVE  /\ req[r] \in Request /\ req[r] # None /\ req[r].pc = "update"
         /\ req[r].line \in Line /\ req[r].line # None
         /\ req[r].steps \in StepMaps
         /\ req[r].line.list # {}
         /\ req[r].line.list \subseteq DOMAIN req[r].steps
         /\ KeyOf(r) \in Key
         /\ CurrentStep(req[r].line) = HeadOf(req[r].line)
         /\ HeadOf(req[r].line) \in req[r].line.list
         /\ HeadOf(req[r].line) \in Sort
         /\ \A j \in req[r].line.list : HeadOf(req[r].line) <= j
<1>1. req[r] \in Request /\ req[r] # None /\ HasRead(req[r]) /\ req[r].pc = "update"
  BY DEF At, TypeInv, TypeOK, TablesOK
<1>2. KeyOf(r) \in Key
  BY <1>1 DEF KeyOf, Key, Request
<1>3. /\ req[r].line \in Line /\ req[r].line # None
      /\ req[r].steps \in StepMaps
      /\ req[r].line.list # {} /\ req[r].line.list \subseteq DOMAIN req[r].steps
  BY <1>1 DEF HasRead, Request
<1>4. /\ HeadOf(req[r].line) \in req[r].line.list
      /\ \A j \in req[r].line.list : HeadOf(req[r].line) <= j
  BY <1>3, LeastOfSteps DEF HeadOf
<1>5. HeadOf(req[r].line) \in Sort
  BY <1>3, <1>4 DEF Line
<1>6. QED
  BY <1>1, <1>2, <1>3, <1>4, <1>5 DEF CurrentStep

LEMMA WrittenType ==
  ASSUME TypeInv, NEW r \in Slot, At(r, "update")
  PROVE  /\ Written(r) \in [Key -> Assignment \cup {None}]
         /\ asg[KeyOf(r)] # None =>
              Written(r) = [asg EXCEPT ![KeyOf(r)] =
                             [status |-> req[r].line.status,
                              cur |-> HeadOf(req[r].line)]]
         /\ asg[KeyOf(r)] = None => Written(r) = asg
<1>1. req[r].line.status \in Statuses
  BY AtUpdate DEF Line
<1>2. [status |-> req[r].line.status, cur |-> HeadOf(req[r].line)] \in Assignment
  BY <1>1, AtUpdate DEF Assignment
<1>3. asg \in [Key -> Assignment \cup {None}]
  BY DEF TypeInv, TypeOK, TablesOK
<1>4. QED
  BY <1>2, <1>3, AtUpdate DEF Written

LEMMA UpdateAssignmentType ==
  ASSUME TypeInv, NEW r \in Slot, UpdateAssignment(r)
  PROVE  TypeInv'
<1>1. At(r, "update")
  BY DEF UpdateAssignment
<1> DEFINE x == [req[r] EXCEPT !.pc = "reply"]
<1>2. x \in Request /\ x.pc = "reply" /\ x.line = req[r].line
  BY <1>1, AtUpdate DEF Request
<1>3. HasRead(x)
  BY <1>1, <1>2, AtUpdate DEF HasRead
<1>4. req' = [req EXCEPT ![r] = x]
  BY DEF UpdateAssignment, TypeInv, TypeOK, TablesOK
<1> HIDE DEF x
<1>5. /\ req' \in [Slot -> Request \cup {None}]
      /\ \A s \in Slot : req'[s] # None => HasRead(req'[s])
  BY <1>2, <1>3, <1>4, ReplaceRequest
<1>6. asg' \in [Key -> Assignment \cup {None}]
  BY <1>1, WrittenType DEF UpdateAssignment
<1>7. QED
  BY <1>5, <1>6 DEF TypeInv, TypeOK, TablesOK, UpdateAssignment

\* A slot that becomes free leaves the requests well formed.
LEMMA FreeSlotType ==
  ASSUME TypeInv, NEW r \in Slot, req' = [req EXCEPT ![r] = None]
  PROVE  /\ req' \in [Slot -> Request \cup {None}]
         /\ \A s \in Slot : req'[s] # None => HasRead(req'[s])
<1>1. None \notin Request
  BY NoneAssumption, TablesAssumption
<1>2. QED
  BY <1>1, ReplaceRequest

LEMMA ReplyType ==
  ASSUME TypeInv, NEW r \in Slot, Reply(r)
  PROVE  TypeInv'
<1>1. got' \in [Key -> BOOLEAN]
  BY DEF Reply, TypeInv, TypeOK, TablesOK
<1>2. req' = [req EXCEPT ![r] = None]
  BY DEF Reply
<1>3. QED
  BY <1>1, <1>2, FreeSlotType DEF TypeInv, TypeOK, TablesOK, Reply

LEMMA DisconnectType ==
  ASSUME TypeInv, NEW r \in Slot, Disconnect(r)
  PROVE  TypeInv'
<1>1. asg' \in [Key -> Assignment \cup {None}]
  BY WrittenType DEF Disconnect, TypeInv, TypeOK, TablesOK
<1>2. faults' \in 0..MaxFaults
  BY FaultsAssumption DEF Disconnect, TypeInv, TypeOK, TablesOK
<1>3. req' = [req EXCEPT ![r] = None]
  BY DEF Disconnect
<1>4. QED
  BY <1>1, <1>2, <1>3, FreeSlotType DEF TypeInv, TypeOK, TablesOK, Disconnect

LEMMA StatementFailsType ==
  ASSUME TypeInv, NEW r \in Slot, StatementFails(r)
  PROVE  TypeInv'
<1>1. asg' \in [Key -> Assignment \cup {None}]
  BY WrittenType DEF StatementFails, TypeInv, TypeOK, TablesOK
<1>2. faults' \in 0..MaxFaults
  BY FaultsAssumption DEF StatementFails, TypeInv, TypeOK, TablesOK
<1>3. req[r] # None /\ (Refuse(r, "unknown") \/ Refuse(r, "nil_rows"))
  BY DEF StatementFails, At
<1>4. /\ req' \in [Slot -> Request \cup {None}]
      /\ \A s \in Slot : req'[s] # None => HasRead(req'[s])
  BY <1>3, RefuseType DEF Errors, Panics
<1>5. QED
  BY <1>1, <1>2, <1>4 DEF TypeInv, TypeOK, TablesOK, StatementFails

LEMMA InitType == Init => TypeInv
<1>1. 0 \in 0..MaxFaults
  BY FaultsAssumption
<1>2. NewAssignment \in Assignment
  BY DEF NewAssignment, Assignment, Statuses
<1>3. QED
  BY <1>1, <1>2 DEF Init, TypeInv, TypeOK, TablesOK

LEMMA NextType ==
  ASSUME TypeInv, [Next]_vars
  PROVE  TypeInv'
<1>1. ASSUME NEW r \in Slot, SendRequest(r)
      PROVE  TypeInv'
  BY <1>1, SubmitType
<1>2. ASSUME NEW r \in Slot, Handle(r)
      PROVE  TypeInv'
  BY <1>2, ReadQuestType, ReadStepsType, GetAssignmentType, StartQuestType,
     CheckAnswerType, UpdateAssignmentType, ReplyType DEF Handle
<1>3. ASSUME NEW r \in Slot, Disconnect(r) \/ StatementFails(r)
      PROVE  TypeInv'
  BY <1>3, DisconnectType, StatementFailsType
<1>4. CASE UNCHANGED vars
  BY <1>4 DEF vars, TypeInv, TypeOK, TablesOK
<1>5. QED
  BY <1>1, <1>2, <1>3, <1>4 DEF Next

(***************************************************************************)
(* The tables, the requests in flight and what these have read are always  *)
(* well formed; so no handler gets to a statement without the data of the  *)
(* ones before.                                                            *)
(***************************************************************************)
THEOREM TypeCorrect == Spec => []TypeOK
<1>1. Spec => []TypeInv
  BY InitType, NextType, PTL DEF Spec
<1>2. TypeInv => TypeOK
  BY DEF TypeInv
<1>3. QED
  BY <1>1, <1>2, PTL

--------------------------------------------------------------------------------
(* No recipient gets ahead of his right answers.                           *)

(***************************************************************************)
(* NoSkip is not inductive: a late UpdateAssignment writes a line that was *)
(* computed long before, when the row may have stood elsewhere.  The       *)
(* inductive invariant says that the line each request carries is earned   *)
(* by itself, whatever the row says by now; this lasts, since solved only  *)
(* grows and the steps stay.                                               *)
(***************************************************************************)
LineEarned(k, ql) ==
  /\ ql.prev \subseteq solved[k]
  /\ ql.list # {} => /\ HeadOf(ql) \in DOMAIN steps[k[1]]
                     /\ StepsBefore(k, HeadOf(ql)) \subseteq solved[k]
  /\ ql.status = "finished" \/ ql.rewards # None => DOMAIN steps[k[1]] \subseteq solved[k]

Carries(r) ==
  \/ At(r, "update")
  \/ At(r, "reply") /\ req[r].err = None /\ req[r].line.status # "not_started"

RequestOK(r) ==
  req[r] # None =>
    /\ req[r].pc \in {"assignment", "update"} => req[r].steps = steps[req[r].quest]
    /\ req[r].pc = "update" => req[r].line.status # "not_started"
    /\ Carries(r) => LineEarned(KeyOf(r), req[r].line)
    /\ req[r].err # "nil_head"

ProgressInv == TypeInv /\ NoSkip /\ \A r \in Slot : RequestOK(r)

LEMMA LineEarnedLasts ==
  ASSUME NEW k \in Key, NEW ql, LineEarned(k, ql),
         steps' = steps, solved[k] \subseteq solved'[k]
  PROVE  LineEarned(k, ql)'
BY DEF LineEarned, StepsBefore

\* A step that changes one request, and no row, keeps the invariant when that
\* request ends up well.
LEMMA OneRequest ==
  ASSUME ProgressInv, TypeInv', NEW r \in Slot,
         steps' = steps, \A k \in Key : solved[k] \subseteq solved'[k],
         \A s \in Slot \ {r} : req'[s] = req[s],
         RequestOK(r)', asg' = asg \/ NoSkip'
  PROVE  ProgressInv'
<1>1. ASSUME NEW s \in Slot
      PROVE  RequestOK(s)'
  <2>1. CASE s = r
    BY <2>1
  <2>2. CASE s # r
    <3>1. req'[s] = req[s] /\ RequestOK(s)
      BY <2>2 DEF ProgressInv
    <3>2. CASE req[s] = None
      BY <3>1, <3>2 DEF RequestOK
    <3>3. CASE req[s] # None
      <4>1. KeyOf(s) \in Key /\ KeyOf(s)' = KeyOf(s) /\ (Carries(s)' <=> Carries(s))
        BY <3>1, <3>3 DEF ProgressInv, TypeInv, TypeOK, TablesOK, KeyOf, Key, Request, Carries, At
      <4>2. Carries(s)' => LineEarned(KeyOf(s), req[s].line)'
        BY <3>1, <3>3, <4>1, LineEarnedLasts DEF RequestOK
      <4>3. QED
        BY <3>1, <3>3, <4>1, <4>2 DEF RequestOK, LineEarned
    <3>4. QED
      BY <3>2, <3>3
  <2>3. QED
    BY <2>1, <2>2
<1>2. NoSkip'
  <2>1. CASE asg' = asg
    BY <2>1 DEF ProgressInv, NoSkip, Quiet, StepsBefore
  <2>2. QED
    BY <2>1
<1>3. QED
  BY <1>1, <1>2 DEF ProgressInv

\* After a refusal for another reason than a missing head, a request is well.
LEMMA RefuseOK ==
  ASSUME TypeInv, NEW r \in Slot, req[r] # None,
         NEW e \in Errors \ {"nil_head"}, Refuse(r, e)
  PROVE  RequestOK(r)' /\ \A s \in Slot \ {r} : req'[s] = req[s]
<1>1. req[r] \in Request /\ e # None
  BY NoneAssumption, TablesAssumption DEF TypeInv, TypeOK, TablesOK
<1>2. req'[r].pc = "reply" /\ req'[r].err = e
  BY <1>1 DEF Refuse, TypeInv, TypeOK, TablesOK, Request
<1>3. ~Carries(r)'
  BY <1>1, <1>2 DEF Carries, At
<1>4. \A s \in Slot \ {r} : req'[s] = req[s]
  BY DEF Refuse, TypeInv, TypeOK, TablesOK
<1>5. QED
  BY <1>2, <1>3, <1>4 DEF RequestOK

LEMMA SubmitKeeps ==
  ASSUME ProgressInv, TypeInv', NEW r \in Slot, SendRequest(r)
  PROVE  ProgressInv'
<1>1. PICK op \in {"start", "check", "status"}, u \in User, q \in Quest,
           a \in Answer \cup {None} : Submit(r, op, u, q, a)
  BY DEF SendRequest
<1>2. /\ \A s \in Slot \ {r} : req'[s] = req[s]
      /\ req'[r].pc = "quest" /\ req'[r].err = None
  BY <1>1 DEF Submit, ProgressInv, TypeInv, TypeOK, TablesOK
<1>3. None # "nil_head"
  BY NoneAssumption, TablesAssumption DEF Errors, Panics
<1>4. RequestOK(r)'
  BY <1>2, <1>3 DEF RequestOK, Carries, At
<1>5. QED
  BY <1>1, <1>2, <1>4, OneRequest DEF Submit

LEMMA ReadQuestKeeps ==
  ASSUME ProgressInv, TypeInv', NEW r \in Slot, ReadQuest(r)
  PROVE  ProgressInv'
<1>1. req[r] \in Request /\ req[r] # None
  BY DEF ReadQuest, At, ProgressInv, TypeInv, TypeOK, TablesOK
<1>2. RequestOK(r)' /\ \A s \in Slot \ {r} : req'[s] = req[s]
  <2>1. CASE Refuse(r, "not_found")
    BY <1>1, <2>1, RefuseOK DEF ProgressInv, Errors
  <2>2. CASE req' = [req EXCEPT ![r].pc = "steps", ![r].row = quests[req[r].quest]]
    <3>1. /\ req'[r].pc = "steps" /\ req'[r].err = req[r].err
          /\ \A s \in Slot \ {r} : req'[s] = req[s]
      BY <1>1, <2>2 DEF ProgressInv, TypeInv, TypeOK, TablesOK, Request
    <3>2. QED
      BY <1>1, <3>1 DEF ProgressInv, RequestOK, Carries, At
  <2>3. QED
    BY <2>1, <2>2 DEF ReadQuest
<1>3. QED
  BY <1>2, OneRequest DEF ReadQuest

LEMMA ReadStepsKeeps ==
  ASSUME ProgressInv, TypeInv', NEW r \in Slot, ReadSteps(r)
  PROVE  ProgressInv'
<1>1. req[r] \in Request /\ req[r] # None
  BY DEF ReadSteps, At, ProgressInv, TypeInv, TypeOK, TablesOK
<1>2. RequestOK(r)' /\ \A s \in Slot \ {r} : req'[s] = req[s]
  <2>1. CASE Refuse(r, "no_steps")
    BY <1>1, <2>1, RefuseOK DEF ProgressInv, Errors
  <2>2. CASE req' = [req EXCEPT ![r].pc = "assignment", ![r].steps = steps[req[r].quest]]
    <3>1. /\ req'[r].pc = "assignment" /\ req'[r].err = req[r].err
          /\ req'[r].quest = req[r].quest /\ req'[r].steps = steps[req[r].quest]
          /\ \A s \in Slot \ {r} : req'[s] = req[s]
      BY <1>1, <2>2 DEF ProgressInv, TypeInv, TypeOK, TablesOK, Request
    <3>2. steps' = steps
      BY DEF ReadSteps
    <3>3. QED
      BY <1>1, <3>1, <3>2 DEF ProgressInv, RequestOK, Carries, At
  <2>3. QED
    BY <2>1, <2>2 DEF ReadSteps
<1>3. QED
  BY <1>2, OneRequest DEF ReadSteps

\* After a handler has a line to answer with, a request is well when the line
\* is earned and the line is saved only for a quest that is started.
LEMMA LineOK ==
  ASSUME TypeInv, NEW r \in Slot, req[r] # None, RequestOK(r), steps' = steps,
         req[r].pc = "assignment",
         NEW k, k = KeyOf(r),
         NEW ql \in Line, ql.status # "not_started" => LineEarned(k, ql)',
         Return(r, ql) \/ (Save(r, ql) /\ ql.status # "not_started")
  PROVE  RequestOK(r)' /\ \A s \in Slot \ {r} : req'[s] = req[s]
<1>1. req[r] \in Request
  BY DEF TypeInv, TypeOK, TablesOK
<1>2. /\ req'[r].line = ql /\ req'[r].err = req[r].err
      /\ req'[r].steps = req[r].steps
      /\ req'[r].quest = req[r].quest /\ req'[r].user = req[r].user
      /\ req'[r].pc = "reply" \/ (req'[r].pc = "update" /\ ql.status # "not_started")
      /\ \A s \in Slot \ {r} : req'[s] = req[s]
  BY <1>1 DEF Return, Save, TypeInv, TypeOK, TablesOK, Request
<1>3. KeyOf(r)' = k
  BY <1>2 DEF KeyOf
<1>4. Carries(r)' => ql.status # "not_started"
  BY <1>2 DEF Carries, At
<1>5. Carries(r)' => LineEarned(KeyOf(r), req[r].line)'
  BY <1>2, <1>3, <1>4
<1>6. QED
  BY <1>2, <1>4, <1>5 DEF RequestOK

\* The line at the stored position is earned.
LEMMA StoredLine ==
  ASSUME ProgressInv, NEW r \in Slot, At(r, "assignment"), asg[KeyOf(r)] # None,
         asg[KeyOf(r)].status # "not_started"
  PROVE  LET ql == NewQuestLine(req[r].steps, asg[KeyOf(r)].cur, asg[KeyOf(r)].status)
         IN  /\ ql \in Line /\ ql.list \subseteq DOMAIN req[r].steps
             /\ LineEarned(KeyOf(r), ql)
             /\ ql.status = "in_progress" =>
                  /\ HeadOf(ql) = asg[KeyOf(r)].cur
                  /\ ql.list # {}
<1> DEFINE k == KeyOf(r)
           m == req[r].steps
           c == asg[k].cur
           ql == NewQuestLine(m, c, asg[k].status)
<1>1. /\ m \in StepMaps /\ DOMAIN m \subseteq Int /\ c \in Int
      /\ asg[k].status \in Statuses /\ k \in Key /\ m = steps[k[1]]
  BY AtAssignment, StepsAreSorts DEF ProgressInv, RequestOK, KeyOf
<1>2. /\ ql \in Line /\ ql.status = asg[k].status /\ ql.rewards = None
      /\ ql.prev = {j \in DOMAIN m : j < c}
      /\ ql.list = {j \in DOMAIN m : j >= c}
      /\ ql.list \subseteq DOMAIN m
  BY <1>1, NewLineAt
<1> HIDE DEF ql
<1>3. /\ ql.list # {} => /\ HeadOf(ql) \in ql.list
                         /\ \A j \in ql.list : HeadOf(ql) <= j
  BY <1>1, <1>2, LeastOfSteps DEF HeadOf
<1>4. ASSUME asg[k].status = "finished"
      PROVE  LineEarned(k, ql)
  <2>1. DOMAIN m \subseteq solved[k]
    BY <1>1, <1>4 DEF ProgressInv, NoSkip, Quiet
  <2>2. QED
    BY <1>1, <1>2, <1>3, <2>1 DEF LineEarned, StepsBefore
<1>5. ASSUME asg[k].status = "in_progress"
      PROVE  LineEarned(k, ql) /\ HeadOf(ql) = c /\ ql.list # {}
  <2>1. c \in DOMAIN m /\ StepsBefore(k, c) \subseteq solved[k]
    BY <1>1, <1>5 DEF ProgressInv, NoSkip, Quiet
  <2>2. c \in ql.list
    BY <1>1, <1>2, <2>1
  <2>3. HeadOf(ql) = c
    BY <1>1, <1>2, <1>3, <2>2
  <2>4. ql.prev = StepsBefore(k, c)
    BY <1>1, <1>2 DEF StepsBefore
  <2>5. ql.status = "in_progress"
    BY <1>2, <1>5
  <2>6. QED
    BY <1>1, <1>2, <2>1, <2>2, <2>3, <2>4, <2>5 DEF LineEarned
<1>6. asg[k].status \in {"in_progress", "finished"}
  BY <1>1 DEF Statuses
<1>7. QED
  BY <1>2, <1>4, <1>5, <1>6 DEF ql

LEMMA GetAssignmentKeeps ==
  ASSUME ProgressInv, TypeInv', NEW r \in Slot, GetAssignment(r)
  PROVE  ProgressInv'
<1>1. At(r, "assignment") /\ TypeInv /\ RequestOK(r)
  BY DEF GetAssignment, ProgressInv
<1>2. RequestOK(r)' /\ \A s \in Slot \ {r} : req'[s] = req[s]
  <2>1. CASE NotAssigned(r) \/ NotDescribed(r)
    BY <1>1, <2>1, AtAssignment, RefuseOK DEF NotAssigned, NotDescribed, Errors, Panics
  <2>2. PICK k : k = KeyOf(r)
    OBVIOUS
  <2>3. PICK ql : ql = NewQuestLine(req[r].steps, asg[k].cur, asg[k].status)
    OBVIOUS
  <2>4. CASE asg[k] # None /\ Return(r, ql)
    <3>1. ql \in Line /\ ql.status = asg[k].status /\ k \in Key
      BY <1>1, <2>2, <2>3, <2>4, AtAssignment, NewLineAt
    <3>2. ql.status # "not_started" => LineEarned(k, ql)
      BY <1>1, <2>2, <2>3, <2>4, <3>1, StoredLine
    <3>3. ql.status # "not_started" => LineEarned(k, ql)'
      BY <3>1, <3>2, LineEarnedLasts DEF GetAssignment
    <3>4. steps' = steps
      BY DEF GetAssignment
    <3>5. QED
      BY <1>1, <2>2, <2>4, <3>1, <3>3, <3>4, AtAssignment, LineOK
  <2>5. QED
    BY <2>1, <2>2, <2>3, <2>4 DEF GetAssignment
<1>3. QED
  BY <1>2, OneRequest DEF GetAssignment

LEMMA StartQuestKeeps ==
  ASSUME ProgressInv, TypeInv', NEW r \in Slot, StartQuest(r)
  PROVE  ProgressInv'
<1>1. At(r, "assignment") /\ TypeInv /\ RequestOK(r)
  BY DEF StartQuest, ProgressInv
<1>2. PICK k : k = KeyOf(r)
  OBVIOUS
<1>3. PICK m : m = req[r].steps
  OBVIOUS
<1>4. PICK ql : ql = NewQuestLine(m, Least(DOMAIN m), "in_progress")
  OBVIOUS
<1>5. RequestOK(r)' /\ \A s \in Slot \ {r} : req'[s] = req[s]
  <2>1. CASE \E e \in Errors \ {"nil_head"} : Refuse(r, e)
    BY <1>1, <2>1, AtAssignment, RefuseOK
  <2>2. CASE Save(r, ql)
    <3>1. /\ ql \in Line /\ ql.status = "in_progress" /\ ql.rewards = None
          /\ ql.prev = {} /\ ql.list = DOMAIN m
          /\ m \in StepMaps /\ DOMAIN m # {} /\ m = steps[k[1]] /\ k \in Key
      BY <1>1, <1>2, <1>3, <1>4, AtAssignment, StartLine DEF RequestOK, KeyOf
    <3>2. /\ HeadOf(ql) \in DOMAIN m
          /\ \A j \in DOMAIN m : HeadOf(ql) <= j
      BY <3>1, LeastOfSteps DEF HeadOf
    <3>3. DOMAIN m \subseteq Int
      BY <3>1, StepsAreSorts
    <3>4. StepsBefore(k, HeadOf(ql)) = {}
      BY <3>1, <3>2, <3>3 DEF StepsBefore
    <3>5. LineEarned(k, ql)
      BY <3>1, <3>2, <3>4 DEF LineEarned
    <3>6. LineEarned(k, ql)'
      BY <3>1, <3>5, LineEarnedLasts DEF StartQuest
    <3>7. steps' = steps
      BY DEF StartQuest
    <3>8. QED
      BY <1>1, <1>2, <2>2, <3>1, <3>6, <3>7, AtAssignment, LineOK
  <2>3. QED
    BY <1>3, <1>4, <2>1, <2>2
    DEF StartQuest, NotAssigned, NotDescribed, Errors, Panics
<1>6. QED
  BY <1>5, OneRequest DEF StartQuest

\* A right answer at the head earns the line after it.
LEMMA PassedEarned ==
  ASSUME NEW k \in Key, NEW m \in StepMaps, m = steps[k[1]], steps' = steps,
         NEW ql \in Line, ql.list # {}, ql.rewards = None, ql.status = "in_progress",
         ql.prev \cup ql.list = DOMAIN m, LineEarned(k, ql),
         ql.prev = StepsBefore(k, HeadOf(ql)),
         NEW row \in Row,
         solved'[k] = solved[k] \cup {HeadOf(ql)}
  PROVE  /\ LineEarned(k, Passed(ql, row))'
         /\ Passed(ql, row) \in Line /\ Passed(ql, row).list # {}
         /\ Passed(ql, row).status # "not_started"
<1> DEFINE h == HeadOf(ql)
           new == Passed(ql, row)
<1>1. h \in ql.list /\ DOMAIN m \subseteq Int
  BY LeastOfSteps, StepsAreSorts DEF HeadOf
<1>2. new \in Line /\ new.list # {}
  BY PassedType
<1>3. CASE IsLastStep(ql)
  <2>1. /\ new.status = "finished" /\ new.prev = ql.prev /\ new.list = ql.list
    BY <1>3, PassedFields
  <2>2. HeadOf(new) = h
    BY <2>1 DEF HeadOf
  <2>3. DOMAIN m \subseteq solved'[k]
    BY <1>3 DEF IsLastStep, LineEarned
  <2> HIDE DEF new
  <2>4. QED
    BY <1>1, <1>2, <2>1, <2>2, <2>3 DEF LineEarned, StepsBefore, new
<1>4. CASE ~IsLastStep(ql)
  <2>1. /\ new.status = "in_progress" /\ new.rewards = None
        /\ new.prev = ql.prev \cup {h} /\ new.list = ql.list \ {h}
    BY <1>4, PassedFields
  <2>2. /\ HeadOf(new) \in new.list
        /\ \A j \in new.list : HeadOf(new) <= j
    BY <1>2, <2>1, LeastOfSteps DEF HeadOf
  <2>3. \A j \in DOMAIN m : j < HeadOf(new) => j \in ql.prev \cup {h}
    BY <1>1, <2>1, <2>2
  <2>4. ql.prev \cup {h} \subseteq solved'[k]
    BY DEF LineEarned
  <2> HIDE DEF new
  <2>5. QED
    BY <1>2, <2>1, <2>2, <2>3, <2>4 DEF LineEarned, StepsBefore, new
<1>5. QED
  BY <1>3, <1>4

LEMMA CheckAnswerKeeps ==
  ASSUME ProgressInv, TypeInv', NEW r \in Slot, CheckAnswer(r)
  PROVE  ProgressInv'
<1>1. At(r, "assignment") /\ TypeInv /\ RequestOK(r)
  BY DEF CheckAnswer, ProgressInv
<1>2. PICK k : k = KeyOf(r)
  OBVIOUS
<1>3. PICK m : m = req[r].steps
  OBVIOUS
<1>4. PICK ql : ql = NewQuestLine(m, asg[k].cur, asg[k].status)
  OBVIOUS
<1>5. PICK row : row = req[r].row
  OBVIOUS
<1>6. k \in Key /\ m \in StepMaps /\ m = steps[k[1]] /\ row \in Row /\ steps' = steps
  BY <1>1, <1>2, <1>3, <1>5, AtAssignment DEF CheckAnswer, RequestOK, KeyOf
<1>7. CASE UNCHANGED solved /\ \E e \in Errors \ {"nil_head"} : Refuse(r, e)
  BY <1>1, <1>7, AtAssignment, RefuseOK, OneRequest DEF CheckAnswer
<1>8. CASE asg[k] # None /\ asg[k].status = "in_progress" /\ Check(r, ql)
  <2>1. /\ ql \in Line /\ ql.status = "in_progress" /\ ql.rewards = None
        /\ ql.prev = {j \in DOMAIN m : j < asg[k].cur}
        /\ ql.list = {j \in DOMAIN m : j >= asg[k].cur}
        /\ DOMAIN m \subseteq Int /\ asg[k].cur \in Int
    BY <1>1, <1>2, <1>3, <1>4, <1>6, <1>8, AtAssignment, NewLineAt, StepsAreSorts
  <2>2. LineEarned(k, ql) /\ HeadOf(ql) = asg[k].cur /\ ql.list # {}
    BY <1>1, <1>2, <1>3, <1>4, <1>8, <2>1, StoredLine
  <2>3. ql.prev \cup ql.list = DOMAIN m /\ ql.prev = StepsBefore(k, HeadOf(ql))
    BY <1>6, <2>1, <2>2 DEF StepsBefore
  <2>4. CASE Return(r, [ql EXCEPT !.success = "no"]) /\ UNCHANGED solved
    <3>1. PICK no : no = [ql EXCEPT !.success = "no"]
      OBVIOUS
    <3>2. /\ no \in Line /\ no.status = ql.status /\ no.prev = ql.prev
          /\ no.list = ql.list /\ no.rewards = ql.rewards
      BY <2>1, <3>1 DEF Line
    <3>3. LineEarned(k, no)
      BY <2>2, <3>2 DEF LineEarned, HeadOf
    <3>4. LineEarned(k, no)'
      BY <1>6, <2>4, <3>3, LineEarnedLasts
    <3>5. RequestOK(r)' /\ \A s \in Slot \ {r} : req'[s] = req[s]
      BY <1>1, <1>2, <1>6, <2>4, <3>1, <3>2, <3>4, AtAssignment, LineOK
    <3>6. QED
      BY <2>4, <3>5, OneRequest DEF CheckAnswer
  <2>5. CASE /\ Save(r, Passed(ql, row))
             /\ solved' = [solved EXCEPT ![KeyOf(r)] = @ \cup {HeadOf(ql)}]
    <3>1. PICK new : new = Passed(ql, row)
      OBVIOUS
    <3>2. /\ solved'[k] = solved[k] \cup {HeadOf(ql)}
          /\ \A x \in Key : solved[x] \subseteq solved'[x]
      BY <1>1, <1>2, <1>6, <2>5 DEF TypeInv, TypeOK, TablesOK
    <3>3. LineEarned(k, new)' /\ new \in Line /\ new.status # "not_started"
      BY <1>6, <2>1, <2>2, <2>3, <3>1, <3>2, PassedEarned
    <3>4. RequestOK(r)' /\ \A s \in Slot \ {r} : req'[s] = req[s]
      BY <1>1, <1>2, <1>6, <2>5, <3>1, <3>3, AtAssignment, LineOK
    <3>5. QED
      BY <3>2, <3>4, OneRequest DEF CheckAnswer
  <2>6. QED
    BY <1>5, <1>8, <2>2, <2>4, <2>5 DEF Check
<1>9. QED
  BY <1>2, <1>3, <1>4, <1>7, <1>8
  DEF CheckAnswer, NotAssigned, NotDescribed, Errors, Panics

\* The UPDATE of an earned line leaves no row ahead of the right answers.
LEMMA WrittenEarned ==
  ASSUME ProgressInv, NEW r \in Slot, At(r, "update"),
         steps' = steps, solved' = solved, asg' = Written(r)
  PROVE  NoSkip'
<1> DEFINE w == KeyOf(r)
           ql == req[r].line
<1>1. /\ LineEarned(w, ql) /\ ql.status # "not_started" /\ ql.list # {}
  BY AtUpdate DEF ProgressInv, RequestOK, Carries, At
<1>2. /\ asg[w] # None => asg' = [asg EXCEPT ![w] =
                             [status |-> ql.status, cur |-> HeadOf(ql)]]
      /\ asg[w] = None => asg' = asg
      /\ asg \in [Key -> Assignment \cup {None}] /\ w \in Key
  BY WrittenType, AtUpdate DEF ProgressInv, TypeInv, TypeOK, TablesOK
<1> HIDE DEF ql, w
<1>3. ASSUME NEW k \in Key
      PROVE  /\ (~Quiet(k))' /\ asg'[k].status = "in_progress" =>
                 /\ asg'[k].cur \in DOMAIN steps'[k[1]]
                 /\ StepsBefore(k, asg[k].cur)' \subseteq solved'[k]
             /\ (~Quiet(k))' /\ asg'[k].status = "finished" =>
                 DOMAIN steps'[k[1]] \subseteq solved'[k]
  <2>1. CASE k = w /\ asg[w] # None
    BY <1>1, <1>2, <2>1 DEF LineEarned, StepsBefore
  <2>2. CASE k # w \/ asg[w] = None
    <3>1. asg'[k] = asg[k]
      BY <1>2, <2>2
    <3>2. QED
      BY <3>1 DEF ProgressInv, NoSkip, Quiet, StepsBefore
  <2>3. QED
    BY <2>1, <2>2
<1>4. QED
  BY <1>3 DEF NoSkip

LEMMA UpdateAssignmentKeeps ==
  ASSUME ProgressInv, TypeInv', NEW r \in Slot, UpdateAssignment(r)
  PROVE  ProgressInv'
<1>1. /\ At(r, "update") /\ TypeInv /\ RequestOK(r) /\ req[r] \in Request
      /\ steps' = steps /\ solved' = solved
  BY DEF UpdateAssignment, ProgressInv, TypeInv, TypeOK, TablesOK, At
<1>2. PICK k : k = KeyOf(r)
  OBVIOUS
<1>3. PICK ql : ql = req[r].line
  OBVIOUS
<1>4. NoSkip'
  BY <1>1, WrittenEarned DEF UpdateAssignment
<1>5. /\ req'[r].pc = "reply" /\ req'[r].err = req[r].err /\ req'[r].line = ql
      /\ req'[r].quest = req[r].quest /\ req'[r].user = req[r].user
      /\ \A s \in Slot \ {r} : req'[s] = req[s]
  BY <1>1, <1>3 DEF UpdateAssignment, TypeInv, TypeOK, TablesOK, Request
<1>6. LineEarned(k, ql)'
  BY <1>1, <1>2, <1>3, AtUpdate, LineEarnedLasts DEF RequestOK, Carries, At
<1>7. KeyOf(r)' = k
  BY <1>2, <1>5 DEF KeyOf
<1>8. RequestOK(r)'
  BY <1>1, <1>5, <1>6, <1>7 DEF RequestOK, At
<1>9. QED
  BY <1>1, <1>4, <1>5, <1>8, OneRequest

LEMMA ReplyKeeps ==
  ASSUME ProgressInv, TypeInv', NEW r \in Slot, Reply(r)
  PROVE  ProgressInv'
<1>1. RequestOK(r)' /\ \A s \in Slot \ {r} : req'[s] = req[s]
  BY DEF Reply, RequestOK, ProgressInv, TypeInv, TypeOK, TablesOK
<1>2. QED
  BY <1>1, OneRequest DEF Reply

LEMMA DisconnectKeeps ==
  ASSUME ProgressInv, TypeInv', NEW r \in Slot, Disconnect(r)
  PROVE  ProgressInv'
<1>1. RequestOK(r)' /\ \A s \in Slot \ {r} : req'[s] = req[s]
  BY DEF Disconnect, RequestOK, ProgressInv, TypeInv, TypeOK, TablesOK
<1>2. asg' = asg \/ NoSkip'
  BY WrittenEarned DEF Disconnect
<1>3. QED
  BY <1>1, <1>2, OneRequest DEF Disconnect

LEMMA StatementFailsKeeps ==
  ASSUME ProgressInv, TypeInv', NEW r \in Slot, StatementFails(r)
  PROVE  ProgressInv'
<1>1. asg' = asg \/ NoSkip'
  BY WrittenEarned DEF StatementFails
<1>2. req[r] # None /\ (Refuse(r, "unknown") \/ Refuse(r, "nil_rows"))
  BY DEF StatementFails, At
<1>3. RequestOK(r)' /\ \A s \in Slot \ {r} : req'[s] = req[s]
  BY <1>2, RefuseOK DEF ProgressInv, Errors, Panics
<1>4. QED
  BY <1>1, <1>3, OneRequest DEF StatementFails

LEMMA InitProgress == Init => ProgressInv
<1>1. Init => NoSkip
  BY DEF Init, NoSkip, Quiet, NewAssignment
<1>2. Init => \A r \in Slot : RequestOK(r)
  BY DEF Init, RequestOK
<1>3. QED
  BY <1>1, <1>2, InitType DEF ProgressInv

LEMMA NextProgress ==
  ASSUME ProgressInv, [Next]_vars
  PROVE  ProgressInv'
<1>1. TypeInv'
  BY NextType DEF ProgressInv
<1>2. ASSUME NEW r \in Slot, SendRequest(r)
      PROVE  ProgressInv'
  BY <1>1, <1>2, SubmitKeeps
<1>3. ASSUME NEW r \in Slot, Handle(r)
      PROVE  ProgressInv'
  BY <1>1, <1>3, ReadQuestKeeps, ReadStepsKeeps, GetAssignmentKeeps, StartQuestKeeps,
     CheckAnswerKeeps, UpdateAssignmentKeeps, ReplyKeeps DEF Handle
<1>4. ASSUME NEW r \in Slot, Disconnect(r) \/ StatementFails(r)
      PROVE  ProgressInv'
  BY <1>1, <1>4, DisconnectKeeps, StatementFailsKeeps
<1>5. CASE UNCHANGED vars
  <2>1. NoSkip'
    BY <1>5 DEF vars, ProgressInv, NoSkip, Quiet, StepsBefore
  <2>2. \A r \in Slot : RequestOK(r)'
    BY <1>5 DEF vars, ProgressInv, RequestOK, Carries, At, LineEarned, StepsBefore, KeyOf
  <2>3. QED
    BY <1>1, <2>1, <2>2 DEF ProgressInv
<1>6. QED
  BY <1>2, <1>3, <1>4, <1>5 DEF Next

THEOREM ProgressInvariant == Spec => []ProgressInv
BY InitProgress, NextProgress, PTL DEF Spec

(***************************************************************************)
(* However the requests of the recipients overlap and whatever fails, no   *)
(* assignment runs ahead of the right answers given to it.                 *)
(***************************************************************************)
THEOREM NeverSkips == Spec => []NoSkip
<1>1. ProgressInv => NoSkip
  BY DEF ProgressInv
<1>2. QED
  BY <1>1, ProgressInvariant, PTL

(***************************************************************************)
(* No answer shows a question, or the rewards, before they are earned.     *)
(***************************************************************************)
THEOREM RepliesAreEarned == Spec => []RepliesEarned
<1>1. ProgressInv => RepliesEarned
  <2>1. SUFFICES ASSUME ProgressInv, NEW r \in Slot, At(r, "reply"), req[r].err = None,
                        req[r].line.status # "not_started"
                 PROVE  /\ req[r].line.prev \subseteq solved[KeyOf(r)]
                        /\ \A n \in Shown(req[r].line) :
                             StepsBefore(KeyOf(r), n) \subseteq solved[KeyOf(r)]
                        /\ req[r].line.rewards # None =>
                             DOMAIN steps[req[r].quest] \subseteq solved[KeyOf(r)]
    BY DEF RepliesEarned
  <2>2. LineEarned(KeyOf(r), req[r].line)
    BY <2>1 DEF ProgressInv, RequestOK, Carries, At
  <2>3. QED
    BY <2>2 DEF LineEarned, Shown, KeyOf
<1>2. QED
  BY <1>1, ProgressInvariant, PTL

(***************************************************************************)
(* While the steps stay, CheckAnswer never dereferences a missing head.    *)
(***************************************************************************)
THEOREM HeadIsThere == Spec => []NoNilHead
<1>1. ProgressInv => NoNilHead
  BY DEF ProgressInv, RequestOK, NoNilHead
<1>2. QED
  BY <1>1, ProgressInvariant, PTL
--------------------------------------------------------------------------------
(***************************************************************************)
(* The handlers implement QuestRun when each recipient waits for an answer *)
(* before he sends the next request.                                       *)
(*                                                                         *)
(* A handler reads the row, computes and writes it back.  That is one step *)
(* of QuestRun, taken by the write, because nobody moves the row between   *)
(* the two: it has one request in flight (Alone), and so what the handler  *)
(* read is still what the row says (Fresh).                                *)
(***************************************************************************)
Alone ==
  \A r, s \in Slot : req[r] # None /\ req[s] # None /\ r # s => KeyOf(r) # KeyOf(s)

After(k) == {j \in DOMAIN steps[k[1]] : j > asg[k].cur}

\* The line goes one step on from the row as it is.
FreshLine(k, ql) ==
  /\ asg[k] # None
  /\ \/ /\ asg[k].status = "not_started" /\ ql.status = "in_progress"
        /\ ql.list = DOMAIN steps[k[1]]
     \/ /\ asg[k].status = "in_progress" /\ ql.status = "in_progress"
        /\ ql.list = After(k)
     \/ /\ asg[k].status = "in_progress" /\ ql.status = "finished"
        /\ After(k) = {}

Fresh(r) == At(r, "update") => FreshLine(KeyOf(r), req[r].line)

RunInv == ProgressInv /\ Alone /\ \A r \in Slot : Fresh(r)

--------------------------------------------------------------------------------
\* A request that stays where it is stays fresh, when its row stays.
LEMMA FreshLasts ==
  ASSUME TypeInv, NEW r \in Slot, Fresh(r), req'[r] = req[r], steps' = steps,
         req[r] # None => asg'[KeyOf(r)] = asg[KeyOf(r)]
  PROVE  Fresh(r)'
BY DEF Fresh, FreshLine, After, At, KeyOf

\* Each step changes one request; the request it serves stays about the same
\* assignment, and the row of another assignment stays.
LEMMA StepOfOne ==
  ASSUME TypeInv, NEW r \in Slot,
         Handle(r) \/ Disconnect(r) \/ StatementFails(r)
  PROVE  /\ req[r] # None
         /\ \A s \in Slot \ {r} : req'[s] = req[s]
         /\ req'[r] # None => KeyOf(r)' = KeyOf(r)
         /\ \A k \in Key : k # KeyOf(r) => asg'[k] = asg[k]
         /\ steps' = steps
<1>1. req[r] # None /\ steps' = steps
  BY DEF Handle, Disconnect, StatementFails, ReadQuest, ReadSteps, GetAssignment,
     StartQuest, CheckAnswer, UpdateAssignment, Reply, At
<1>2. req[r] \in Request /\ req \in [Slot -> Request \cup {None}]
  BY <1>1 DEF TypeInv, TypeOK
<1>3. \A k \in Key : k # KeyOf(r) => Written(r)[k] = asg[k]
  BY DEF Written, TypeInv, TypeOK, TablesOK
<1>4. \A k \in Key : k # KeyOf(r) => asg'[k] = asg[k]
  BY <1>3 DEF Handle, Disconnect, StatementFails, ReadQuest, ReadSteps, GetAssignment,
     StartQuest, CheckAnswer, UpdateAssignment, Reply
<1> DEFINE Same == /\ \A s \in Slot \ {r} : req'[s] = req[s]
                   /\ req'[r] # None => KeyOf(r)' = KeyOf(r)
<1>5. ASSUME NEW e, Refuse(r, e) PROVE Same
  BY <1>2, <1>5 DEF Refuse, KeyOf, Request
<1>6. ASSUME NEW ql, Return(r, ql) \/ Save(r, ql) PROVE Same
  BY <1>2, <1>6 DEF Return, Save, KeyOf, Request
<1>7. ASSUME req' = [req EXCEPT ![r] = None] PROVE Same
  BY <1>2, <1>7
<1>8. ReadQuest(r) => Same
  BY <1>2, <1>5 DEF ReadQuest, KeyOf, Request
<1>9. ReadSteps(r) => Same
  BY <1>2, <1>5 DEF ReadSteps, KeyOf, Request
<1>10. UpdateAssignment(r) => Same
  BY <1>2 DEF UpdateAssignment, KeyOf, Request
<1> HIDE DEF Same
<1>11. GetAssignment(r) => Same
  BY <1>5, <1>6 DEF GetAssignment, NotAssigned, NotDescribed
<1>12. StartQuest(r) => Same
  BY <1>5, <1>6 DEF StartQuest, NotAssigned, NotDescribed
<1>13. CheckAnswer(r) => Same
  BY <1>5, <1>6 DEF CheckAnswer, Check, NotAssigned, NotDescribed
<1>14. Reply(r) \/ Disconnect(r) => Same
  BY <1>7 DEF Reply, Disconnect
<1>15. StatementFails(r) => Same
  BY <1>5 DEF StatementFails
<1>16. Same
  BY <1>8, <1>9, <1>10, <1>11, <1>12, <1>13, <1>14, <1>15 DEF Handle
<1>17. QED
  BY <1>1, <1>4, <1>16 DEF Same

\* With ~Overlap a recipient has one request in flight on an assignment.
LEMMA AloneKeeps ==
  ASSUME ~Overlap, TypeInv, Alone, NEW r \in Slot,
         SendRequest(r) \/ Handle(r) \/ Disconnect(r) \/ StatementFails(r)
  PROVE  Alone'
<1>1. CASE SendRequest(r)
  <2>1. PICK op \in {"start", "check", "status"}, u \in User, q \in Quest,
             a \in Answer \cup {None} : Submit(r, op, u, q, a)
    BY <1>1 DEF SendRequest
  <2>2. /\ \A s \in Slot \ {r} : req'[s] = req[s]
        /\ KeyOf(r)' = <<q, u>>
        /\ \A s \in Slot : req[s] # None => KeyOf(s) # <<q, u>>
    BY <2>1 DEF Submit, TypeInv, TypeOK, KeyOf
  <2>3. \A s \in Slot \ {r} : req[s] # None => KeyOf(s)' = KeyOf(s)
    BY <2>2 DEF KeyOf
  <2>4. QED
    BY <2>2, <2>3 DEF Alone
<1>2. CASE Handle(r) \/ Disconnect(r) \/ StatementFails(r)
  <2>1. /\ req[r] # None
        /\ \A s \in Slot \ {r} : req'[s] = req[s]
        /\ req'[r] # None => KeyOf(r)' = KeyOf(r)
    BY <1>2, StepOfOne
  <2>2. \A s \in Slot \ {r} : KeyOf(s)' = KeyOf(s)
    BY <2>1 DEF KeyOf
  <2>3. QED
    BY <2>1, <2>2 DEF Alone
<1>3. QED
  BY <1>1, <1>2

\* The line StartQuest or CheckAnswer is about to write goes one step on.
LEMMA SaveIsFresh ==
  ASSUME ProgressInv, NEW r \in Slot, NEW ql \in Line,
         At(r, "assignment"), FreshLine(KeyOf(r), ql), Save(r, ql),
         asg' = asg, steps' = steps
  PROVE  Fresh(r)'
<1>1. PICK k : k = KeyOf(r)
  OBVIOUS
<1>2. req'[r].line = ql /\ KeyOf(r)' = k
  BY <1>1 DEF Save, At, KeyOf, ProgressInv, TypeInv, TypeOK, Request
<1>3. FreshLine(k, ql)'
  BY <1>1 DEF FreshLine, After
<1>4. QED
  BY <1>2, <1>3 DEF Fresh

LEMMA StartQuestFresh ==
  ASSUME ProgressInv, NEW r \in Slot, StartQuest(r)
  PROVE  Fresh(r)'
<1>1. /\ At(r, "assignment") /\ TypeInv /\ RequestOK(r)
      /\ asg' = asg /\ steps' = steps
  BY DEF StartQuest, ProgressInv
<1>2. PICK m : m = req[r].steps
  OBVIOUS
<1>3. PICK ql : ql = NewQuestLine(m, Least(DOMAIN m), "in_progress")
  OBVIOUS
<1>4. /\ m \in StepMaps /\ DOMAIN m # {} /\ m = steps[KeyOf(r)[1]]
      /\ req[r] \in Request
  BY <1>1, <1>2, AtAssignment DEF RequestOK, KeyOf
<1>5. ql \in Line /\ ql.status = "in_progress" /\ ql.list = DOMAIN m
  BY <1>3, <1>4, StartLine
<1>6. CASE \E e \in Errors : Refuse(r, e)
  BY <1>4, <1>6 DEF Refuse, Fresh, At, ProgressInv, TypeInv, TypeOK, Request
<1>7. CASE asg[KeyOf(r)] # None /\ asg[KeyOf(r)].status = "not_started" /\ Save(r, ql)
  <2>1. FreshLine(KeyOf(r), ql)
    BY <1>4, <1>5, <1>7 DEF FreshLine
  <2>2. QED
    BY <1>1, <1>5, <1>7, <2>1, SaveIsFresh
<1>8. QED
  BY <1>2, <1>3, <1>6, <1>7 DEF StartQuest, NotAssigned, NotDescribed, Errors, Panics

LEMMA CheckAnswerFresh ==
  ASSUME ProgressInv, NEW r \in Slot, CheckAnswer(r)
  PROVE  Fresh(r)'
<1>1. /\ At(r, "assignment") /\ TypeInv /\ RequestOK(r)
      /\ asg' = asg /\ steps' = steps /\ req[r] \in Request /\ req[r] # None
  BY AtAssignment DEF CheckAnswer, ProgressInv
<1>2. PICK k : k = KeyOf(r)
  OBVIOUS
<1>3. PICK m : m = req[r].steps
  OBVIOUS
<1>4. PICK ql : ql = NewQuestLine(m, asg[k].cur, asg[k].status)
  OBVIOUS
<1>5. PICK row : row = req[r].row
  OBVIOUS
<1>6. CASE \E e \in Errors : Refuse(r, e)
  BY <1>1, <1>6 DEF Refuse, Fresh, At, ProgressInv, TypeInv, TypeOK, Request
<1>7. CASE Return(r, [ql EXCEPT !.success = "no"])
  BY <1>1, <1>7 DEF Return, Fresh, At, ProgressInv, TypeInv, TypeOK, Request
<1>8. CASE /\ asg[k] # None /\ asg[k].status = "in_progress" /\ ql.list # {}
           /\ Save(r, Passed(ql, row))
  <2>1. /\ k \in Key /\ m \in StepMaps /\ m = steps[k[1]] /\ row \in Row
        /\ DOMAIN m \subseteq Int /\ asg[k].cur \in Int
    BY <1>1, <1>2, <1>3, <1>5, <1>8, AtAssignment, StepsAreSorts DEF RequestOK, KeyOf
  <2>2. /\ ql \in Line /\ ql.status = "in_progress"
        /\ ql.list = {j \in DOMAIN m : j >= asg[k].cur}
    BY <1>1, <1>2, <1>3, <1>4, <1>8, <2>1, AtAssignment, NewLineAt
  <2>3. HeadOf(ql) = asg[k].cur
    BY <1>1, <1>2, <1>3, <1>4, <1>8, <2>2, StoredLine
  <2>4. After(k) = ql.list \ {HeadOf(ql)}
    BY <2>1, <2>2, <2>3 DEF After
  <2>5. PICK new : new = Passed(ql, row)
    OBVIOUS
  <2>6. new \in Line
    BY <2>1, <2>2, <2>5, <1>8, PassedType
  <2>7. CASE IsLastStep(ql)
    <3>1. new.status = "finished" /\ After(k) = {}
      BY <2>1, <2>2, <2>4, <2>5, <2>7, PassedFields DEF IsLastStep
    <3>2. FreshLine(k, new)
      BY <1>8, <3>1 DEF FreshLine
    <3>3. QED
      BY <1>1, <1>2, <1>8, <2>5, <2>6, <3>2, SaveIsFresh
  <2>8. CASE ~IsLastStep(ql)
    <3>1. new.status = "in_progress" /\ new.list = After(k)
      BY <2>1, <2>2, <2>4, <2>5, <2>8, PassedFields
    <3>2. FreshLine(k, new)
      BY <1>8, <3>1 DEF FreshLine
    <3>3. QED
      BY <1>1, <1>2, <1>8, <2>5, <2>6, <3>2, SaveIsFresh
  <2>9. QED
    BY <2>7, <2>8
<1>9. QED
  BY <1>2, <1>3, <1>4, <1>5, <1>6, <1>7, <1>8
  DEF CheckAnswer, Check, NotAssigned, NotDescribed, Errors, Panics

LEMMA OthersFresh ==
  ASSUME RunInv, NEW r \in Slot,
         SendRequest(r) \/ Handle(r) \/ Disconnect(r) \/ StatementFails(r),
         NEW s \in Slot \ {r}
  PROVE  Fresh(s)'
<1>1. req'[s] = req[s] /\ steps' = steps
  BY StepOfOne DEF SendRequest, Submit, RunInv, ProgressInv, TypeInv, TypeOK
<1>2. ASSUME req[s] # None
      PROVE  asg'[KeyOf(s)] = asg[KeyOf(s)]
  <2>1. CASE SendRequest(r)
    BY <2>1 DEF SendRequest, Submit
  <2>2. CASE Handle(r) \/ Disconnect(r) \/ StatementFails(r)
    <3>1. req[r] # None /\ \A k \in Key : k # KeyOf(r) => asg'[k] = asg[k]
      BY <2>2, StepOfOne DEF RunInv, ProgressInv
    <3>2. KeyOf(s) # KeyOf(r) /\ KeyOf(s) \in Key
      BY <1>2, <3>1
      DEF RunInv, Alone, ProgressInv, TypeInv, TypeOK, KeyOf, Key, Request
    <3>3. QED
      BY <3>1, <3>2
  <2>3. QED
    BY <2>1, <2>2
<1>3. QED
  BY <1>1, <1>2, FreshLasts DEF RunInv, ProgressInv

\* The requests that leave their slot elsewhere than before the UPDATE.
LEMMA NotBeforeUpdate ==
  ASSUME TypeInv, NEW r \in Slot,
         \/ SendRequest(r) \/ ReadQuest(r) \/ ReadSteps(r) \/ GetAssignment(r)
         \/ UpdateAssignment(r) \/ Reply(r) \/ Disconnect(r) \/ StatementFails(r)
  PROVE  ~At(r, "update")'
<1>1. ASSUME NEW e, req[r] # None, Refuse(r, e)
      PROVE  ~At(r, "update")'
  BY <1>1 DEF Refuse, At, TypeInv, TypeOK, Request
<1>2. ASSUME NEW ql, req[r] # None, Return(r, ql)
      PROVE  ~At(r, "update")'
  BY <1>2 DEF Return, At, TypeInv, TypeOK, Request
<1>3. CASE SendRequest(r)
  BY <1>3 DEF SendRequest, Submit, At, TypeInv, TypeOK
<1>4. CASE ReadQuest(r)
  BY <1>1, <1>4 DEF ReadQuest, At, TypeInv, TypeOK, Request
<1>5. CASE ReadSteps(r)
  BY <1>1, <1>5 DEF ReadSteps, At, TypeInv, TypeOK, Request
<1>6. CASE GetAssignment(r)
  <2>1. req[r] # None
    BY <1>6 DEF GetAssignment, At
  <2>2. QED
    BY <1>1, <1>2, <1>6, <2>1 DEF GetAssignment, NotAssigned, NotDescribed
<1>7. CASE UpdateAssignment(r)
  BY <1>7 DEF UpdateAssignment, At, TypeInv, TypeOK, Request
<1>8. CASE Reply(r) \/ Disconnect(r)
  BY <1>8 DEF Reply, Disconnect, At, TypeInv, TypeOK
<1>9. CASE StatementFails(r)
  <2>1. req[r] # None
    BY <1>9 DEF StatementFails, At
  <2>2. QED
    BY <1>1, <1>9, <2>1 DEF StatementFails
<1>10. QED
  BY <1>3, <1>4, <1>5, <1>6, <1>7, <1>8, <1>9

LEMMA NextRunInv ==
  ASSUME ~Overlap, RunInv, [Next]_vars
  PROVE  RunInv'
<1>1. ProgressInv'
  BY NextProgress DEF RunInv
<1>2. ASSUME NEW r \in Slot,
             SendRequest(r) \/ Handle(r) \/ Disconnect(r) \/ StatementFails(r)
      PROVE  RunInv'
  <2>1. Alone'
    BY <1>2, AloneKeeps DEF RunInv, ProgressInv
  <2>2. Fresh(r)'
    BY <1>2, StartQuestFresh, CheckAnswerFresh, NotBeforeUpdate
    DEF Handle, RunInv, ProgressInv, Fresh
  <2>3. \A s \in Slot \ {r} : Fresh(s)'
    BY <1>2, OthersFresh
  <2>4. QED
    BY <1>1, <2>1, <2>2, <2>3 DEF RunInv
<1>3. CASE UNCHANGED vars
  BY <1>1, <1>3 DEF vars, RunInv, Alone, Fresh, FreshLine, After, At, KeyOf
<1>4. QED
  BY <1>2, <1>3 DEF Next

LEMMA InitRunInv == Init => RunInv
<1>1. Init => Alone /\ \A r \in Slot : Fresh(r)
  BY DEF Init, Alone, Fresh, At
<1>2. QED
  BY <1>1, InitProgress DEF RunInv
--------------------------------------------------------------------------------
(* The write of a fresh line is a step of QuestRun.                        *)

\* A step that leaves the rows alone is a stutter of QuestRun.
LEMMA RowsStay ==
  ASSUME asg' = asg, steps' = steps
  PROVE  UNCHANGED Run!vars
<1>1. \A k \in Key : /\ DOMAIN steps'[k[1]] = DOMAIN steps[k[1]]
                     /\ Quiet(k)' = Quiet(k)
                     /\ Done(k)' = Done(k)
  BY DEF Quiet, Done, StepsBefore
<1>2. QED
  BY <1>1 DEF Run!vars

\* Which steps count as solved after the write of a fresh line, and that the
\* abstract run begins, or solves its next step.
LEMMA WriteIsAStep ==
  ASSUME RunInv, NEW r \in Slot, At(r, "update"), asg' = Written(r), steps' = steps
  PROVE  Run!Next
<1>1. PICK k : k = KeyOf(r)
  OBVIOUS
<1>2. PICK ql : ql = req[r].line
  OBVIOUS
<1>3. PICK m : m = steps[k[1]]
  OBVIOUS
<1>4. /\ TypeInv /\ k \in Key /\ m \in StepMaps /\ DOMAIN m \subseteq Int
      /\ ql \in Line /\ ql.list # {}
      /\ req[r].steps = m /\ ql.list \subseteq DOMAIN m
      /\ HeadOf(ql) \in ql.list /\ \A j \in ql.list : HeadOf(ql) <= j
      /\ FreshLine(k, ql)
  <2>1. /\ TypeInv /\ RequestOK(r) /\ Fresh(r)
    BY DEF RunInv, ProgressInv
  <2>2. k \in Key /\ req[r].steps = m /\ req[r].steps \in StepMaps
    BY <1>1, <1>3, <2>1, AtUpdate DEF RequestOK, KeyOf
  <2>3. QED
    BY <1>1, <1>2, <2>1, <2>2, AtUpdate, StepsAreSorts DEF Fresh
<1>5. /\ asg' = [asg EXCEPT ![k] = [status |-> ql.status, cur |-> HeadOf(ql)]]
      /\ asg \in [Key -> Assignment \cup {None}]
  BY <1>1, <1>2, <1>4, WrittenType DEF FreshLine, TypeInv, TypeOK, TablesOK
<1>6. \A j \in Key \ {k} : Quiet(j)' = Quiet(j) /\ Done(j)' = Done(j)
  BY <1>5 DEF Quiet, Done, StepsBefore
<1>7. /\ asg'[k] # None /\ asg'[k].status = ql.status /\ asg'[k].cur = HeadOf(ql)
  <2>1. asg'[k] = [status |-> ql.status, cur |-> HeadOf(ql)]
    BY <1>4, <1>5
  <2>2. asg'[k] \in Assignment \cup {None}
    BY <1>1, <1>4, WrittenType
  <2>3. asg'[k] \in Assignment
    BY <1>4, <2>1, AtUpdate DEF Assignment, Line, TypeInv
  <2>4. QED
    BY <2>1, <2>3, TablesAssumption
<1>8. CASE asg[k].status = "not_started"
  <2>1. ql.status = "in_progress" /\ ql.list = DOMAIN m
    BY <1>3, <1>4, <1>8 DEF FreshLine
  <2>2. Quiet(k) /\ ~Quiet(k)'
    BY <1>7, <1>8, <2>1 DEF Quiet
  <2>3. Done(k) = {} /\ Done(k)' = {}
    BY <1>3, <1>4, <1>7, <2>1, <2>2 DEF Done, StepsBefore
  <2>4. Run!Begin(k)
    BY <1>3, <1>4, <1>6, <2>1, <2>2, <2>3 DEF Run!Begin
  <2>5. QED
    BY <1>4, <2>4 DEF Run!Next
<1>9. CASE asg[k].status = "in_progress"
  <2>1. PICK c : c = asg[k].cur
    OBVIOUS
  <2>2. /\ c \in DOMAIN m /\ ~Quiet(k) /\ ~Quiet(k)'
        /\ Done(k) = {j \in DOMAIN m : j < c}
        /\ After(k) = {j \in DOMAIN m : j > c}
    BY <1>3, <1>4, <1>7, <1>9, <2>1
    DEF RunInv, ProgressInv, NoSkip, Quiet, Done, StepsBefore, After, FreshLine
  <2>3. Done(k)' = Done(k) \cup {c}
    <3>1. CASE ql.status = "in_progress" /\ ql.list = After(k)
      BY <1>3, <1>4, <1>7, <2>2, <3>1 DEF Done, StepsBefore
    <3>2. CASE ql.status = "finished" /\ After(k) = {}
      BY <1>3, <1>4, <1>7, <2>2, <3>2 DEF Done
    <3>3. QED
      BY <1>4, <1>9, <3>1, <3>2 DEF FreshLine
  <2>4. /\ c \in DOMAIN m \ Done(k)
        /\ \A j \in DOMAIN m \ Done(k) : c <= j
    BY <1>4, <2>2
  <2>5. Run!Solve(k, c)
    BY <1>3, <1>4, <1>6, <2>2, <2>3, <2>4 DEF Run!Solve
  <2>6. QED
    BY <1>3, <1>4, <2>2, <2>5 DEF Run!Next
<1>10. QED
  BY <1>4, <1>8, <1>9 DEF FreshLine

LEMMA RunInit == Init => Run!Init
<1>1. SUFFICES ASSUME Init PROVE Run!Init
  OBVIOUS
<1>2. \A k \in Key : /\ DOMAIN steps[k[1]] \subseteq Int
                     /\ Quiet(k) /\ Done(k) = {}
  BY <1>1, StepsAreSorts DEF Init, Key, Quiet, Done, NewAssignment
<1>3. QED
  BY <1>2 DEF Run!Init

LEMMA RunStep ==
  ASSUME RunInv, [Next]_vars
  PROVE  [Run!Next]_(Run!vars)
<1>1. ASSUME NEW r \in Slot,
             SendRequest(r) \/ Handle(r) \/ Disconnect(r) \/ StatementFails(r)
      PROVE  /\ steps' = steps
             /\ asg' = asg \/ (At(r, "update") /\ asg' = Written(r))
  BY <1>1 DEF SendRequest, Submit, Handle, Disconnect, StatementFails, ReadQuest,
     ReadSteps, GetAssignment, StartQuest, CheckAnswer, UpdateAssignment, Reply
<1>2. CASE Next
  BY <1>1, <1>2, RowsStay, WriteIsAStep DEF Next
<1>3. CASE UNCHANGED vars
  BY <1>3, RowsStay DEF vars
<1>4. QED
  BY <1>2, <1>3

(***************************************************************************)
(* When no recipient sends a request before the answer to the one before,  *)
(* the handlers implement QuestRun: a quest is begun once, and each write  *)
(* of the row solves exactly its next step, whatever fails.                *)
(***************************************************************************)
THEOREM Refinement ==
  ASSUME ~Overlap
  PROVE  Spec => RefinesRun
<1>1. Spec => []RunInv
  BY InitRunInv, NextRunInv, PTL DEF Spec
<1>2. QED
  BY <1>1, RunInit, RunStep, PTL DEF Spec, RefinesRun, Run!Spec
--------------------------------------------------------------------------------
(* What a recipient is told is what is stored.                             *)

\* The line is the steps of the quest, divided at its head.
Divides(ql, m) ==
  /\ ql.list = {j \in DOMAIN m : j >= HeadOf(ql)}
  /\ ql.prev = {j \in DOMAIN m : j < HeadOf(ql)}

\* The line is the one of a row.
IsRow(ql, m, a) ==
  /\ a # None /\ ql.status = a.status
  /\ ql.list = {j \in DOMAIN m : j >= a.cur}
  /\ ql.prev = {j \in DOMAIN m : j < a.cur}

\* The line that is to be written has the form of a row, and the one that is
\* answered is the row: nobody moves it while the answer waits (Alone).
Faithful(r) ==
  /\ At(r, "update") => Divides(req[r].line, steps[KeyOf(r)[1]])
  /\ At(r, "reply") /\ req[r].err = None =>
       IsRow(req[r].line, steps[KeyOf(r)[1]], asg[KeyOf(r)])

StoredInv == RunInv /\ \A r \in Slot : Faithful(r)

\* The row of another request in flight stays.
LEMMA OthersRows ==
  ASSUME RunInv, NEW r \in Slot,
         SendRequest(r) \/ Handle(r) \/ Disconnect(r) \/ StatementFails(r),
         NEW s \in Slot \ {r}, req[s] # None
  PROVE  req'[s] = req[s] /\ steps' = steps /\ asg'[KeyOf(s)] = asg[KeyOf(s)]
<1>1. req'[s] = req[s] /\ steps' = steps
  BY StepOfOne DEF SendRequest, Submit, RunInv, ProgressInv, TypeInv, TypeOK
<1>2. CASE SendRequest(r)
  BY <1>1, <1>2 DEF SendRequest, Submit
<1>3. CASE Handle(r) \/ Disconnect(r) \/ StatementFails(r)
  <2>1. req[r] # None /\ \A k \in Key : k # KeyOf(r) => asg'[k] = asg[k]
    BY <1>3, StepOfOne DEF RunInv, ProgressInv
  <2>2. KeyOf(s) # KeyOf(r) /\ KeyOf(s) \in Key
    BY <2>1 DEF RunInv, Alone, ProgressInv, TypeInv, TypeOK, KeyOf, Key, Request
  <2> QED
    BY <1>1, <2>1, <2>2
<1> QED
  BY <1>2, <1>3

LEMMA OthersFaithful ==
  ASSUME StoredInv, NEW r \in Slot,
         SendRequest(r) \/ Handle(r) \/ Disconnect(r) \/ StatementFails(r),
         NEW s \in Slot \ {r}
  PROVE  Faithful(s)'
<1>1. CASE req[s] # None
  <2>1. req'[s] = req[s] /\ steps' = steps /\ asg'[KeyOf(s)] = asg[KeyOf(s)]
    BY <1>1, OthersRows DEF StoredInv
  <2> QED
    BY <1>1, <2>1 DEF StoredInv, Faithful, Divides, IsRow, At, KeyOf
<1>2. CASE req[s] = None
  <2>1. req'[s] = req[s]
    BY StepOfOne DEF SendRequest, Submit, StoredInv, RunInv, ProgressInv, TypeInv, TypeOK
  <2> QED
    BY <1>2, <2>1 DEF Faithful, At
<1> QED
  BY <1>1, <1>2

\* A request that is refused or gone says nothing of the row.
LEMMA RefuseFaithful ==
  ASSUME TypeInv, NEW r \in Slot, req[r] # None, NEW e \in Errors, Refuse(r, e)
  PROVE  Faithful(r)'
<1>1. req[r] \in Request /\ e # None
  BY NoneAssumption, TablesAssumption DEF TypeInv, TypeOK
<1>2. req'[r].pc = "reply" /\ req'[r].err = e
  BY <1>1 DEF Refuse, TypeInv, TypeOK, Request
<1> QED
  BY <1>1, <1>2 DEF Faithful, At

\* A line built from the row, or the same with the answer found wrong.
LEMMA ReturnFaithful ==
  ASSUME ProgressInv, NEW r \in Slot, At(r, "assignment"), asg[KeyOf(r)] # None,
         NEW ql, ql = NewQuestLine(req[r].steps, asg[KeyOf(r)].cur, asg[KeyOf(r)].status),
         Return(r, ql) \/ Return(r, [ql EXCEPT !.success = "no"]),
         asg' = asg, steps' = steps
  PROVE  Faithful(r)'
<1>1. PICK k : k = KeyOf(r)
  OBVIOUS
<1>2. PICK m : m = steps[k[1]]
  OBVIOUS
<1>3. req[r] \in Request /\ req[r].pc = "assignment" /\ req[r].steps = m
  BY <1>1, <1>2, AtAssignment DEF ProgressInv, RequestOK, KeyOf, At
<1>4. IsRow(ql, m, asg[k]) /\ IsRow([ql EXCEPT !.success = "no"], m, asg[k])
  BY <1>1, <1>3 DEF IsRow, NewQuestLine
<1>5. PICK new : new \in {ql, [ql EXCEPT !.success = "no"]} /\ Return(r, new)
  OBVIOUS
<1>6. req'[r].pc = "reply" /\ req'[r].line = new /\ KeyOf(r)' = k
  BY <1>1, <1>3, <1>5 DEF Return, ProgressInv, TypeInv, TypeOK, KeyOf, Request
<1>7. IsRow(new, m, asg[k])
  BY <1>4, <1>5
<1> QED
  BY <1>1, <1>2, <1>6, <1>7 DEF Faithful, At

LEMMA SaveFaithful ==
  ASSUME ProgressInv, NEW r \in Slot, At(r, "assignment"), NEW ql,
         Divides(ql, req[r].steps), Save(r, ql), steps' = steps
  PROVE  Faithful(r)'
<1>1. PICK m : m = req[r].steps
  OBVIOUS
<1>2. req[r] \in Request /\ req[r].pc = "assignment" /\ m = steps[KeyOf(r)[1]]
  BY <1>1, AtAssignment DEF ProgressInv, RequestOK, KeyOf, At
<1>3. req'[r].pc = "update" /\ req'[r].line = ql /\ KeyOf(r)' = KeyOf(r)
  BY <1>2 DEF Save, ProgressInv, TypeInv, TypeOK, KeyOf, Request
<1> QED
  BY <1>1, <1>2, <1>3 DEF Faithful, At

\* The line a quest is started with.
LEMMA StartDivides ==
  ASSUME NEW m \in StepMaps, DOMAIN m # {}
  PROVE  Divides(NewQuestLine(m, Least(DOMAIN m), "in_progress"), m)
<1>1. PICK ql : ql = NewQuestLine(m, Least(DOMAIN m), "in_progress")
  OBVIOUS
<1>2. HeadOf(ql) = Least(DOMAIN m)
  BY <1>1, StartLine DEF HeadOf
<1> QED
  BY <1>1, <1>2 DEF Divides, NewQuestLine

\* The line after a right answer: if it is not the last the head moves by one.
LEMMA PassedDivides ==
  ASSUME NEW m \in StepMaps, NEW ql \in Line, NEW row \in Row,
         Divides(ql, m), ql.list # {}
  PROVE  Divides(Passed(ql, row), m)
<1>1. DOMAIN m \subseteq Int /\ ql.list \subseteq DOMAIN m
  BY StepsAreSorts DEF Divides
<1>2. PICK h : h = HeadOf(ql)
  OBVIOUS
<1>3. h \in ql.list
  BY <1>1, <1>2, LeastOfSteps DEF HeadOf
<1>4. PICK new : new = Passed(ql, row)
  OBVIOUS
<1>5. CASE IsLastStep(ql)
  <2>1. new.list = ql.list /\ new.prev = ql.prev
    BY <1>4, <1>5, PassedFields
  <2>2. HeadOf(new) = h
    BY <1>2, <2>1 DEF HeadOf
  <2> QED
    BY <1>2, <1>4, <2>1, <2>2 DEF Divides
<1>6. CASE ~IsLastStep(ql)
  <2>1. new.list = ql.list \ {h} /\ new.prev = ql.prev \cup {h}
    BY <1>2, <1>4, <1>6, PassedFields
  <2>2. new.list # {}
    BY <1>2, <1>3, <1>6, <2>1 DEF IsLastStep
  <2>3. PICK g : g = HeadOf(new)
    OBVIOUS
  <2>4. g \in new.list /\ \A j \in new.list : g <= j
    BY <1>1, <2>1, <2>2, <2>3, LeastOfSteps DEF HeadOf
  <2>5. /\ ql.list = {j \in DOMAIN m : j >= h} /\ ql.prev = {j \in DOMAIN m : j < h}
    BY <1>2 DEF Divides
  <2>6. new.list = {j \in DOMAIN m : j >= g}
    BY <1>1, <1>3, <2>1, <2>4, <2>5
  <2>7. new.prev = {j \in DOMAIN m : j < g}
    BY <1>1, <1>3, <2>1, <2>4, <2>5
  <2> QED
    BY <1>4, <2>3, <2>6, <2>7 DEF Divides
<1> QED
  BY <1>5, <1>6

LEMMA GetAssignmentFaithful ==
  ASSUME StoredInv, NEW r \in Slot, GetAssignment(r)
  PROVE  Faithful(r)'
<1>1. /\ At(r, "assignment") /\ asg' = asg /\ steps' = steps /\ ProgressInv /\ TypeInv
      /\ req[r] # None
  BY DEF GetAssignment, StoredInv, RunInv, ProgressInv, At
<1>2. CASE \E e \in Errors : Refuse(r, e)
  BY <1>1, <1>2, RefuseFaithful
<1>3. CASE /\ asg[KeyOf(r)] # None
           /\ Return(r, NewQuestLine(req[r].steps, asg[KeyOf(r)].cur, asg[KeyOf(r)].status))
  BY <1>1, <1>3, ReturnFaithful
<1> QED
  BY <1>2, <1>3 DEF GetAssignment, NotAssigned, NotDescribed, Errors, Panics

LEMMA StartQuestFaithful ==
  ASSUME StoredInv, NEW r \in Slot, StartQuest(r)
  PROVE  Faithful(r)'
<1>1. /\ At(r, "assignment") /\ steps' = steps /\ ProgressInv /\ TypeInv /\ req[r] # None
  BY DEF StartQuest, StoredInv, RunInv, ProgressInv, At
<1>2. CASE \E e \in Errors : Refuse(r, e)
  BY <1>1, <1>2, RefuseFaithful
<1>3. CASE Save(r, NewQuestLine(req[r].steps, Least(DOMAIN req[r].steps), "in_progress"))
  <2>1. req[r].steps \in StepMaps /\ DOMAIN req[r].steps # {}
    BY <1>1, AtAssignment
  <2> QED
    BY <1>1, <1>3, <2>1, StartDivides, SaveFaithful
<1> QED
  BY <1>2, <1>3 DEF StartQuest, NotAssigned, NotDescribed, Errors, Panics

LEMMA CheckAnswerFaithful ==
  ASSUME StoredInv, NEW r \in Slot, CheckAnswer(r)
  PROVE  Faithful(r)'
<1>1. /\ At(r, "assignment") /\ asg' = asg /\ steps' = steps /\ ProgressInv /\ TypeInv
      /\ req[r] # None
  BY DEF CheckAnswer, StoredInv, RunInv, ProgressInv, At
<1>2. PICK a : a = asg[KeyOf(r)]
  OBVIOUS
<1>3. PICK m : m = req[r].steps
  OBVIOUS
<1>4. PICK ql : ql = NewQuestLine(m, a.cur, a.status)
  OBVIOUS
<1>5. CASE \E e \in Errors : Refuse(r, e)
  BY <1>1, <1>5, RefuseFaithful
<1>6. CASE a # None /\ Return(r, [ql EXCEPT !.success = "no"])
  BY <1>1, <1>2, <1>3, <1>4, <1>6, ReturnFaithful
<1>7. CASE /\ a # None /\ a.status = "in_progress" /\ ql.list # {}
           /\ Save(r, Passed(ql, req[r].row))
  <2>1. m \in StepMaps /\ req[r].row \in Row
    BY <1>1, <1>3, AtAssignment
  <2>2. ql.status = "in_progress"
    BY <1>4, <1>7 DEF NewQuestLine
  <2>3. ql \in Line /\ HeadOf(ql) = a.cur
    BY <1>1, <1>2, <1>3, <1>4, <1>7, <2>2, StoredLine
  <2>4. Divides(ql, m)
    BY <1>4, <2>3 DEF Divides, NewQuestLine
  <2>5. Divides(Passed(ql, req[r].row), m)
    BY <1>7, <2>1, <2>3, <2>4, PassedDivides
  <2> QED
    BY <1>1, <1>3, <1>7, <2>5, SaveFaithful
<1> QED
  BY <1>2, <1>3, <1>4, <1>5, <1>6, <1>7
  DEF CheckAnswer, Check, NotAssigned, NotDescribed, Errors, Panics

LEMMA UpdateAssignmentFaithful ==
  ASSUME StoredInv, NEW r \in Slot, UpdateAssignment(r)
  PROVE  Faithful(r)'
<1>1. At(r, "update") /\ asg' = Written(r) /\ steps' = steps /\ TypeInv
  BY DEF UpdateAssignment, StoredInv, RunInv, ProgressInv
<1>2. PICK k : k = KeyOf(r)
  OBVIOUS
<1>3. PICK ql : ql = req[r].line
  OBVIOUS
<1>4. PICK m : m = steps[k[1]]
  OBVIOUS
<1>5. /\ req[r] \in Request /\ ql \in Line /\ k \in Key
      /\ Divides(ql, m) /\ asg[k] # None
  BY <1>1, <1>2, <1>3, <1>4, AtUpdate
  DEF StoredInv, Faithful, RunInv, Fresh, FreshLine
<1>6. PICK a : a = [status |-> ql.status, cur |-> HeadOf(ql)]
  OBVIOUS
<1>7. asg' = [asg EXCEPT ![k] = a] /\ asg \in [Key -> Assignment \cup {None}]
  BY <1>1, <1>2, <1>3, <1>5, <1>6, WrittenType DEF TypeInv, TypeOK, TablesOK
<1>8. a \in Assignment
  BY <1>1, <1>3, <1>5, <1>6, AtUpdate DEF Assignment, Line
<1>9. asg'[k] = a /\ a # None
  BY <1>5, <1>7, <1>8, TablesAssumption
<1>10. IsRow(ql, m, a)
  BY <1>5, <1>6, <1>9 DEF IsRow, Divides
<1>11. req'[r].pc = "reply" /\ req'[r].line = ql /\ KeyOf(r)' = k
  BY <1>1, <1>2, <1>3, <1>5 DEF UpdateAssignment, TypeInv, TypeOK, KeyOf, Request
<1> QED
  BY <1>1, <1>4, <1>9, <1>10, <1>11 DEF Faithful, At

LEMMA OtherStepsFaithful ==
  ASSUME TypeInv, NEW r \in Slot,
         SendRequest(r) \/ ReadQuest(r) \/ ReadSteps(r) \/ Reply(r) \/ Disconnect(r)
           \/ StatementFails(r)
  PROVE  Faithful(r)'
<1>1. CASE SendRequest(r)
  BY <1>1 DEF SendRequest, Submit, Faithful, At, TypeInv, TypeOK
<1>2. CASE ReadQuest(r)
  <2>1. req[r] \in Request /\ req[r] # None
    BY <1>2 DEF ReadQuest, At, TypeInv, TypeOK
  <2>2. CASE Refuse(r, "not_found")
    BY <2>1, <2>2, RefuseFaithful DEF Errors
  <2>3. CASE req' = [req EXCEPT ![r].pc = "steps", ![r].row = quests[req[r].quest]]
    BY <2>1, <2>3 DEF Faithful, At, TypeInv, TypeOK, Request
  <2> QED
    BY <1>2, <2>2, <2>3 DEF ReadQuest
<1>3. CASE ReadSteps(r)
  <2>1. req[r] \in Request /\ req[r] # None
    BY <1>3 DEF ReadSteps, At, TypeInv, TypeOK
  <2>2. CASE Refuse(r, "no_steps")
    BY <2>1, <2>2, RefuseFaithful DEF Errors
  <2>3. CASE req' = [req EXCEPT ![r].pc = "assignment", ![r].steps = steps[req[r].quest]]
    BY <2>1, <2>3 DEF Faithful, At, TypeInv, TypeOK, Request
  <2> QED
    BY <1>3, <2>2, <2>3 DEF ReadSteps
<1>4. CASE Reply(r) \/ Disconnect(r)
  BY <1>4 DEF Reply, Disconnect, Faithful, At, TypeInv, TypeOK
<1>5. CASE StatementFails(r)
  <2>1. req[r] # None /\ (Refuse(r, "unknown") \/ Refuse(r, "nil_rows"))
    BY <1>5 DEF StatementFails, At
  <2> QED
    BY <2>1, RefuseFaithful DEF Errors, Panics
<1> QED
  BY <1>1, <1>2, <1>3, <1>4, <1>5

LEMMA NextStored ==
  ASSUME ~Overlap, StoredInv, [Next]_vars
  PROVE  StoredInv'
<1>1. RunInv'
  BY NextRunInv DEF StoredInv
<1>2. ASSUME NEW r \in Slot,
             SendRequest(r) \/ Handle(r) \/ Disconnect(r) \/ StatementFails(r)
      PROVE  StoredInv'
  <2>1. Faithful(r)'
    BY <1>2, GetAssignmentFaithful, StartQuestFaithful, CheckAnswerFaithful,
       UpdateAssignmentFaithful, OtherStepsFaithful
    DEF Handle, StoredInv, RunInv, ProgressInv
  <2>2. \A s \in Slot \ {r} : Faithful(s)'
    BY <1>2, OthersFaithful
  <2> QED
    BY <1>1, <2>1, <2>2 DEF StoredInv
<1>3. CASE UNCHANGED vars
  BY <1>1, <1>3 DEF vars, StoredInv, Faithful, Divides, IsRow, At, KeyOf
<1> QED
  BY <1>2, <1>3 DEF Next

(***************************************************************************)
(* When no recipient sends a request before the answer to the one before,  *)
(* the line in an answer is the one the stored row gives, whatever         *)
(* statements fail and connections are lost.                               *)
(***************************************************************************)
THEOREM AnswersAreStored ==
  ASSUME ~Overlap
  PROVE  Spec => []RepliesStored
<1>1. Init => StoredInv
  BY InitRunInv DEF Init, StoredInv, Faithful, At
<1>2. StoredInv /\ [Next]_vars => StoredInv'
  BY NextStored
<1>3. ASSUME StoredInv
      PROVE  RepliesStored
  <2>1. SUFFICES ASSUME NEW r \in Slot, At(r, "reply"), req[r].err = None,
                        NEW ql, ql = NewQuestLine(steps[req[r].quest], asg[KeyOf(r)].cur,
                                                  asg[KeyOf(r)].status)
                 PROVE  /\ req[r].line.status = asg[KeyOf(r)].status
                        /\ req[r].line.list = ql.list /\ req[r].line.prev = ql.prev
    BY DEF RepliesStored
  <2>2. IsRow(req[r].line, steps[req[r].quest], asg[KeyOf(r)])
    BY <1>3, <2>1 DEF StoredInv, Faithful, KeyOf
  <2> QED
    BY <2>1, <2>2 DEF IsRow, NewQuestLine
<1> QED
  BY <1>1, <1>2, <1>3, PTL DEF Spec
--------------------------------------------------------------------------------
(* While the owner edits the quest.  A request goes on with the steps it   *)
(* has read, which may be gone by now, and the position of a row may be    *)
(* that of no step.  What a recipient is about to write still goes on from *)
(* his row, and ends the quest only where the steps he read end.           *)

GoesOn(k, ql) ==
  /\ asg[k] # None
  /\ \/ asg[k].status = "not_started" /\ ql.status = "in_progress"
     \/ /\ asg[k].status = "in_progress" /\ ql.status = "in_progress"
        /\ \A j \in ql.list : j > asg[k].cur
     \/ /\ asg[k].status = "in_progress" /\ ql.status = "finished"
        /\ \A j \in ql.list : j >= asg[k].cur

Ends(k, ql, m) ==
  ql.status = "finished" =>
    /\ HeadOf(ql) \in solved[k] /\ HeadOf(ql) \in DOMAIN m
    /\ \A n \in DOMAIN m : n <= HeadOf(ql)

Walks(r) ==
  At(r, "update") =>
    GoesOn(KeyOf(r), req[r].line) /\ Ends(KeyOf(r), req[r].line, req[r].steps)

WalkInv == TypeInv /\ Alone /\ \A r \in Slot : Walks(r)

\* A request that stays where it is, when its row stays.
LEMMA WalksLasts ==
  ASSUME TypeInv, NEW r \in Slot, Walks(r), req'[r] = req[r],
         \A k \in Key : solved[k] \subseteq solved'[k],
         req[r] # None /\ asg[KeyOf(r)] # None => asg'[KeyOf(r)] = asg[KeyOf(r)]
  PROVE  Walks(r)'
<1>1. CASE At(r, "update")
  <2>1. KeyOf(r) \in Key /\ KeyOf(r)' = KeyOf(r) /\ req[r] # None
    BY <1>1, AtUpdate DEF KeyOf
  <2>2. PICK k : k = KeyOf(r)
    OBVIOUS
  <2>3. asg'[k] = asg[k] /\ solved[k] \subseteq solved'[k] /\ asg[k] # None
    BY <1>1, <2>1, <2>2 DEF Walks, GoesOn
  <2> QED
    BY <1>1, <2>1, <2>2, <2>3 DEF Walks, GoesOn, Ends
<1> QED
  BY <1>1 DEF Walks, At

\* The line StartQuest or CheckAnswer is about to write.
LEMMA SaveWalks ==
  ASSUME TypeInv, NEW r \in Slot, req[r] # None, NEW ql \in Line, Save(r, ql),
         NEW k, k = KeyOf(r), NEW m, m = req[r].steps,
         GoesOn(k, ql), Ends(k, ql, m)', asg' = asg
  PROVE  Walks(r)'
<1>1. req'[r].line = ql /\ KeyOf(r)' = k /\ req'[r].steps = m
  BY DEF Save, KeyOf, TypeInv, TypeOK, Request
<1>2. GoesOn(k, ql)'
  BY DEF GoesOn
<1> QED
  BY <1>1, <1>2 DEF Walks

LEMMA StartQuestWalks ==
  ASSUME TypeInv, NEW r \in Slot, StartQuest(r)
  PROVE  Walks(r)'
<1>1. At(r, "assignment") /\ req[r] # None /\ req[r] \in Request /\ asg' = asg
  BY AtAssignment DEF StartQuest
<1>2. CASE \E e \in Errors : Refuse(r, e)
  BY <1>1, <1>2 DEF Refuse, Walks, At, TypeInv, TypeOK, Request
<1>3. PICK ql : ql = NewQuestLine(req[r].steps, Least(DOMAIN req[r].steps), "in_progress")
  OBVIOUS
<1>4. CASE asg[KeyOf(r)] # None /\ asg[KeyOf(r)].status = "not_started" /\ Save(r, ql)
  <2>1. ql \in Line /\ ql.status = "in_progress"
    BY <1>1, <1>3, AtAssignment, StartLine
  <2>2. PICK k, m : k = KeyOf(r) /\ m = req[r].steps
    OBVIOUS
  <2>3. GoesOn(k, ql) /\ Ends(k, ql, m)'
    BY <1>4, <2>1, <2>2 DEF GoesOn, Ends
  <2> QED
    BY <1>1, <1>4, <2>1, <2>2, <2>3, SaveWalks
<1> QED
  BY <1>2, <1>3, <1>4 DEF StartQuest, NotAssigned, NotDescribed, Errors, Panics

LEMMA CheckAnswerWalks ==
  ASSUME TypeInv, NEW r \in Slot, CheckAnswer(r)
  PROVE  Walks(r)'
<1>1. At(r, "assignment") /\ req[r] # None /\ req[r] \in Request /\ asg' = asg
  BY AtAssignment DEF CheckAnswer
<1>2. PICK k, m, row : k = KeyOf(r) /\ m = req[r].steps /\ row = req[r].row
  OBVIOUS
<1>3. PICK c : c = asg[k].cur
  OBVIOUS
<1>4. PICK ql : ql = NewQuestLine(m, c, asg[k].status)
  OBVIOUS
<1>5. CASE \E e \in Errors : Refuse(r, e)
  BY <1>1, <1>5 DEF Refuse, Walks, At, TypeInv, TypeOK, Request
<1>6. CASE Return(r, [ql EXCEPT !.success = "no"])
  BY <1>1, <1>6 DEF Return, Walks, At, TypeInv, TypeOK, Request
<1>7. CASE /\ asg[k] # None /\ asg[k].status = "in_progress" /\ ql.list # {}
           /\ Save(r, Passed(ql, row))
           /\ solved' = [solved EXCEPT ![k] = @ \cup {HeadOf(ql)}]
  <2>1. PICK h : h = HeadOf(ql)
    OBVIOUS
  <2>2. /\ k \in Key /\ m \in StepMaps /\ row \in Row /\ c \in Int
        /\ DOMAIN m \subseteq Int
    BY <1>1, <1>2, <1>3, <1>7, AtAssignment, StepsAreSorts
  <2>3. /\ ql \in Line /\ ql.status = "in_progress"
        /\ ql.list = {j \in DOMAIN m : j >= c}
    BY <1>1, <1>2, <1>3, <1>4, <1>7, <2>2, AtAssignment, NewLineAt
  <2>4. h \in ql.list /\ \A j \in ql.list : h <= j
    BY <1>7, <2>1, <2>2, <2>3, LeastOfSteps DEF HeadOf
  <2>5. PICK new : new = Passed(ql, row)
    OBVIOUS
  <2>6. new \in Line
    BY <1>7, <2>2, <2>3, <2>5, PassedType
  <2>7. CASE IsLastStep(ql)
    <3>1. new.status = "finished" /\ new.list = ql.list /\ ql.list = {h}
      BY <2>1, <2>2, <2>3, <2>5, <2>7, PassedFields DEF IsLastStep
    <3>2. HeadOf(new) = h
      BY <2>1, <3>1 DEF HeadOf
    <3>3. GoesOn(k, new)
      BY <1>3, <1>7, <2>3, <3>1 DEF GoesOn
    <3>4. h \in solved'[k]
      BY <1>7, <2>1, <2>2 DEF TypeInv, TypeOK
    <3>5. \A n \in DOMAIN m : n <= h
      BY <2>2, <2>3, <2>4, <3>1
    <3>6. Ends(k, new, m)'
      BY <2>3, <2>4, <3>2, <3>4, <3>5 DEF Ends
    <3> QED
      BY <1>1, <1>2, <1>7, <2>5, <2>6, <3>3, <3>6, SaveWalks
  <2>8. CASE ~IsLastStep(ql)
    <3>1. new.status = "in_progress" /\ new.list = ql.list \ {h}
      BY <2>1, <2>2, <2>3, <2>5, <2>8, PassedFields
    <3>2. \A j \in new.list : j > c
      BY <2>2, <2>3, <2>4, <3>1
    <3>3. GoesOn(k, new) /\ Ends(k, new, m)'
      BY <1>3, <1>7, <3>1, <3>2 DEF GoesOn, Ends
    <3> QED
      BY <1>1, <1>2, <1>7, <2>5, <2>6, <3>3, SaveWalks
  <2> QED
    BY <2>7, <2>8
<1> QED
  BY <1>2, <1>3, <1>4, <1>5, <1>6, <1>7
  DEF CheckAnswer, Check, NotAssigned, NotDescribed, Errors, Panics

\* The right answers of a recipient stay.
LEMMA SolvedGrows ==
  ASSUME TypeInv, [Next]_vars
  PROVE  \A k \in Key : solved[k] \subseteq solved'[k]
<1>1. ASSUME NEW r \in Slot, CheckAnswer(r)
      PROVE  \A k \in Key : solved[k] \subseteq solved'[k]
  BY <1>1 DEF CheckAnswer, Check, TypeInv, TypeOK
<1>2. CASE UNCHANGED solved
  BY <1>2
<1> QED
  BY <1>1, <1>2 DEF Next, vars, SendRequest, Submit, Handle, ReadQuest, ReadSteps,
     GetAssignment, StartQuest, UpdateAssignment, Reply, Disconnect, StatementFails

LEMMA NextWalk ==
  ASSUME ~Overlap, WalkInv, [Next]_vars
  PROVE  WalkInv'
<1>0. TypeInv /\ TypeInv' /\ \A k \in Key : solved[k] \subseteq solved'[k]
  BY NextType, SolvedGrows DEF WalkInv
<1>1. ASSUME NEW r \in Slot,
             SendRequest(r) \/ Handle(r) \/ Disconnect(r) \/ StatementFails(r)
      PROVE  WalkInv'
  <2>1. Alone'
    BY <1>0, <1>1, AloneKeeps DEF WalkInv
  <2>2. Walks(r)'
    <3>1. CASE StartQuest(r) \/ CheckAnswer(r)
      BY <1>0, <3>1, StartQuestWalks, CheckAnswerWalks
    <3>2. CASE ~At(r, "update")'
      BY <3>2 DEF Walks
    <3> QED
      BY <1>0, <1>1, <3>1, <3>2, NotBeforeUpdate DEF Handle
  <2>3. ASSUME NEW s \in Slot \ {r}
        PROVE  Walks(s)'
    <3>1. CASE SendRequest(r)
      <4>1. req'[s] = req[s] /\ asg' = asg
        BY <1>0, <2>3, <3>1 DEF SendRequest, Submit, TypeInv, TypeOK
      <4> QED
        BY <1>0, <4>1, WalksLasts DEF WalkInv
    <3>2. CASE Handle(r) \/ Disconnect(r) \/ StatementFails(r)
      <4>1. /\ req[r] # None /\ req'[s] = req[s]
            /\ \A k \in Key : k # KeyOf(r) => asg'[k] = asg[k]
        BY <1>0, <2>3, <3>2, StepOfOne
      <4>2. req[s] # None => KeyOf(s) # KeyOf(r) /\ KeyOf(s) \in Key
        BY <1>0, <2>3, <4>1 DEF WalkInv, Alone, TypeInv, TypeOK, KeyOf, Key, Request
      <4> QED
        BY <1>0, <4>1, <4>2, WalksLasts DEF WalkInv
    <3> QED
      BY <1>1, <3>1, <3>2
  <2> QED
    BY <1>0, <2>1, <2>2, <2>3 DEF WalkInv
<1>2. CASE UNCHANGED vars
  BY <1>0, <1>2 DEF vars, WalkInv, Alone, Walks, GoesOn, Ends, At, KeyOf
<1> QED
  BY <1>1, <1>2 DEF Next

\* What a step of the recipients does to the tables: at most one row is written,
\* with the line of a request that stands before its UPDATE.
LEMMA RowWritten ==
  ASSUME TypeInv, [Next]_vars
  PROVE  /\ quests' = quests /\ steps' = steps
         /\ \/ asg' = asg
            \/ \E r \in Slot :
                 /\ At(r, "update") /\ asg[KeyOf(r)] # None
                 /\ asg' = [asg EXCEPT ![KeyOf(r)] =
                              [status |-> req[r].line.status, cur |-> HeadOf(req[r].line)]]
<1>1. quests' = quests /\ steps' = steps
  BY DEF Next, vars, SendRequest, Submit, Handle, ReadQuest, ReadSteps,
     GetAssignment, StartQuest, CheckAnswer, UpdateAssignment, Reply, Disconnect, StatementFails
<1>2. asg' = asg \/ \E r \in Slot : At(r, "update") /\ asg' = Written(r)
  BY DEF Next, vars, SendRequest, Submit, Handle, ReadQuest, ReadSteps,
     GetAssignment, StartQuest, CheckAnswer, UpdateAssignment, Reply, Disconnect, StatementFails
<1> QED
  BY <1>1, <1>2, WrittenType

\* The steps a request goes on with are those it has read.
LEMMA StepsRead ==
  ASSUME TypeInv, [Next]_vars, NEW r \in Slot, req'[r] # None, req'[r].steps # None
  PROVE  /\ req[r] # None /\ KeyOf(r)' = KeyOf(r)
         /\ \/ req'[r].steps = req[r].steps
            \/ req'[r].steps = steps[KeyOf(r)[1]] /\ DOMAIN steps[KeyOf(r)[1]] # {}
<1> DEFINE Kept == /\ req[r] # None /\ KeyOf(r)' = KeyOf(r)
                   /\ \/ req'[r].steps = req[r].steps
                      \/ /\ req'[r].steps = steps[KeyOf(r)[1]]
                         /\ DOMAIN steps[KeyOf(r)[1]] # {}
<1>0. req \in [Slot -> Request \cup {None}]
  BY DEF TypeInv, TypeOK
<1>1. CASE UNCHANGED req
  BY <1>1 DEF KeyOf
<1>2. ASSUME NEW s \in Slot, SendRequest(s)
      PROVE  Kept
  <2>1. s # r
    BY <1>0, <1>2 DEF SendRequest, Submit
  <2>2. req'[r] = req[r]
    BY <1>0, <1>2, <2>1 DEF SendRequest, Submit
  <2> QED
    BY <2>2 DEF KeyOf
<1>3. ASSUME NEW s \in Slot, s # r, Handle(s) \/ Disconnect(s) \/ StatementFails(s)
      PROVE  Kept
  BY <1>3, StepOfOne DEF KeyOf
<1>4. CASE Handle(r) \/ Disconnect(r) \/ StatementFails(r)
  <2>1. req[r] # None /\ req[r] \in Request /\ KeyOf(r)' = KeyOf(r)
    BY <1>0, <1>4, StepOfOne
  <2>2. ASSUME NEW e, Refuse(r, e) PROVE req'[r].steps = req[r].steps
    BY <1>0, <2>1, <2>2 DEF Refuse, Request
  <2>3. ASSUME NEW ql, Return(r, ql) \/ Save(r, ql) PROVE req'[r].steps = req[r].steps
    BY <1>0, <2>1, <2>3 DEF Return, Save, Request
  <2>4. CASE ReadSteps(r)
    BY <1>0, <2>1, <2>2, <2>4 DEF ReadSteps, Request, KeyOf
  <2>5. CASE ReadQuest(r) \/ UpdateAssignment(r) \/ Reply(r) \/ Disconnect(r)
    BY <1>0, <2>1, <2>2, <2>5 DEF ReadQuest, UpdateAssignment, Reply, Disconnect, Request
  <2>6. CASE GetAssignment(r) \/ StartQuest(r)
    BY <2>1, <2>2, <2>3, <2>6 DEF GetAssignment, StartQuest, NotAssigned, NotDescribed
  <2>7. CASE CheckAnswer(r)
    BY <2>1, <2>2, <2>3, <2>7 DEF CheckAnswer, Check, NotAssigned, NotDescribed
  <2>8. CASE StatementFails(r)
    BY <2>1, <2>2, <2>8 DEF StatementFails
  <2> QED
    BY <1>4, <2>1, <2>4, <2>5, <2>6, <2>7, <2>8 DEF Handle
<1> HIDE DEF Kept
<1>5. ASSUME NEW s \in Slot,
             SendRequest(s) \/ Handle(s) \/ Disconnect(s) \/ StatementFails(s)
      PROVE  Kept
  BY <1>2, <1>3, <1>4, <1>5 DEF Kept
<1>6. Kept
  BY <1>1, <1>5 DEF Next, vars, Kept
<1> QED
  BY <1>6 DEF Kept

LEMMA FaultsGrow ==
  ASSUME TypeInv, [Next]_vars
  PROVE  faults \in Nat /\ faults' \in Nat /\ faults' >= faults
<1>1. faults' = faults \/ faults' = faults + 1
  BY DEF Next, vars, SendRequest, Submit, Handle, ReadQuest, ReadSteps,
     GetAssignment, StartQuest, CheckAnswer, UpdateAssignment, Reply, Disconnect, StatementFails
<1> QED
  BY <1>1, FaultsAssumption DEF TypeInv, TypeOK
================================================================================
