---------------------------- MODULE QuestSystemProofs ----------------------------
(***************************************************************************)
(* Proofs about QuestSystem: what QuestAuthoringProofs and                 *)
(* QuestProgressProofs prove of each side alone, put together.             *)
(*                                                                         *)
(* A step of one side is for the other a step of its tables.  The owners   *)
(* leave each assignment that is there as it is, so what a recipient is    *)
(* about to write still goes on from his row (Players!WalkInv); the        *)
(* recipients write nothing but assignments that are there, so what an     *)
(* owner has read and written still stands (Owners!WaitInv).  What couples *)
(* the two is that the steps a recipient goes on with are those of one     *)
(* quest as it was saved (Snapshot).                                       *)
(***************************************************************************)
EXTENDS QuestSystem, TLAPS

Snapshot(r) ==
  preq[r] # None /\ preq[r].steps # None /\ Players!KeyOf(r) \notin cut =>
    \E b \in Body : preq[r].steps = b.steps

SystemInv ==
  /\ Owners!WaitInv
  /\ Players!WalkInv
  /\ \A r \in PlayerSlot : Snapshot(r)
  /\ FinishedAtAnEnd

\* The operators the modules share are the same on both sides.
LEMMA SameNames ==
  /\ Owners!Key = Key /\ Players!Key = Key
  /\ Owners!Statuses = Statuses /\ Players!Statuses = Statuses
  /\ Owners!Row = Row /\ Players!Row = Row
  /\ Owners!Sort = Sort /\ Players!Sort = Sort
  /\ Owners!Assignment = Assignment /\ Players!Assignment = Assignment
  /\ Owners!NewAssignment = NewAssignment /\ Players!NewAssignment = NewAssignment
  /\ Owners!NoSteps = NoSteps /\ Players!NoSteps = NoSteps
<1>1. /\ Owners!Key = Key /\ Players!Key = Key
      /\ Owners!Statuses = Statuses /\ Players!Statuses = Statuses
      /\ Owners!Row = Row /\ Players!Row = Row
      /\ Owners!Sort = Sort /\ Players!Sort = Sort
      /\ Owners!NewAssignment = NewAssignment /\ Players!NewAssignment = NewAssignment
      /\ Owners!NoSteps = NoSteps /\ Players!NoSteps = NoSteps
  BY DEF Owners!Key, Key, Players!Key, Owners!Statuses, Statuses, Players!Statuses,
     Owners!Row, Row, Players!Row, Owners!Sort, Sort, Players!Sort,
     Owners!NewAssignment, NewAssignment, Players!NewAssignment,
     Owners!NoSteps, NoSteps, Players!NoSteps
<1> QED
  BY <1>1 DEF Owners!Assignment, Assignment, Players!Assignment

LEMMA SameTables ==
  /\ (Owners!TablesOK <=> TablesOK) /\ (Players!TablesOK <=> TablesOK)
  /\ (Owners!TablesOK' <=> TablesOK') /\ (Players!TablesOK' <=> TablesOK')
BY SameNames DEF Owners!TablesOK, TablesOK, Players!TablesOK

--------------------------------------------------------------------------------
LEMMA InitSystem == Init => SystemInv
<1>1. Init => Owners!WaitInv
  BY OwnersAssumption, Owners!InitWait DEF Init
<1>2. Init => Players!WalkInv
  BY PlayersAssumption, Players!InitType DEF Init, Players!WalkInv, Players!Init,
     Players!Alone, Players!Walks, Players!At
<1>3. Init => FinishedAtAnEnd
  BY SameNames DEF Init, Owners!Init, FinishedAtAnEnd
<1>4. Init => \A r \in PlayerSlot : Snapshot(r)
  BY DEF Init, Players!Init, Snapshot
<1> QED
  BY <1>1, <1>2, <1>3, <1>4 DEF SystemInv
--------------------------------------------------------------------------------
(* The steps of the owners.                                                *)

LEMMA WaitType ==
  ASSUME Owners!WaitInv
  PROVE  /\ Owners!AuthorInv /\ Owners!TypeInv /\ Owners!TypeOK
         /\ TablesOK /\ faults \in 0..MaxFaults
<1>1. Owners!AuthorInv /\ Owners!TypeInv /\ Owners!TypeOK
  BY DEF Owners!WaitInv, Owners!AuthorInv, Owners!TypeInv
<1> QED
  BY <1>1, SameTables DEF Owners!TypeOK

LEMMA OwnersNext ==
  ASSUME ~Overlap, Owners!WaitInv, Owners!Next
  PROVE  /\ Owners!WaitInv' /\ TablesOK' /\ faults' \in 0..MaxFaults
         /\ \/ quests' = quests /\ asg' = asg
            \/ Owners!QuestSaved \/ Owners!QuestDeleted \/ Owners!QuestSent
<1>1. [Owners!Next]_(Owners!vars)
  OBVIOUS
<1>2. Owners!WaitInv'
  BY <1>1, OwnersAssumption, Owners!NextWait
<1>3. Owners!AuthorInv
  BY WaitType
<1>4. TablesOK' /\ faults' \in 0..MaxFaults
  BY <1>2, SameTables
  DEF Owners!WaitInv, Owners!AuthorInv, Owners!TypeInv, Owners!TypeOK
<1> QED
  BY <1>1, <1>2, <1>3, <1>4, OwnersAssumption, Owners!RowStatements

\* The owners leave each assignment that is there, and add new ones.
LEMMA OwnersKeep ==
  ASSUME ~Overlap, Owners!WaitInv, Owners!Next, NEW k \in Key
  PROVE  /\ asg[k] # None => asg'[k] = asg[k]
         /\ asg[k] = None => asg'[k] \in {None, NewAssignment}
<1>1. asg \in [Key -> Assignment \cup {None}]
  BY WaitType DEF TablesOK
<1>2. CASE asg' = asg
  BY <1>2
<1>3. CASE Owners!QuestSent
  <2>1. PICK j \in Key : asg[j] = None /\ asg' = [asg EXCEPT ![j] = NewAssignment]
    BY <1>3, SameNames DEF Owners!QuestSent
  <2> QED
    BY <1>1, <2>1
<1> QED
  BY <1>2, <1>3, OwnersNext DEF Owners!QuestSaved, Owners!QuestDeleted

\* Requests of recipients that stay while the tables change under them.
LEMMA PlayersStay ==
  ASSUME Players!WalkInv, TablesOK', faults' \in 0..MaxFaults,
         UNCHANGED <<preq, solved, got>>,
         \A k \in Key : asg[k] # None => asg'[k] = asg[k]
  PROVE  Players!WalkInv'
<1>1. Players!TypeInv /\ Players!Alone /\ \A r \in PlayerSlot : Players!Walks(r)
  BY DEF Players!WalkInv
<1>2. Players!TypeInv'
  BY <1>1, SameTables DEF Players!TypeInv, Players!TypeOK, Players!HasRead
<1>3. Players!Alone'
  BY <1>1 DEF Players!Alone, Players!KeyOf
<1>4. ASSUME NEW r \in PlayerSlot
      PROVE  Players!Walks(r)'
  <2>1. ASSUME preq[r] # None
        PROVE  Players!KeyOf(r) \in Key
    BY <1>1, <2>1, SameNames
    DEF Players!TypeInv, Players!TypeOK, Players!KeyOf, Players!Key, Players!Request
  <2> QED
    BY <1>1, <2>1, SameNames, PlayersAssumption, Players!WalksLasts
<1> QED
  BY <1>2, <1>3, <1>4 DEF Players!WalkInv

\* Who has finished stays where he is.
LEMMA FinishedStays ==
  ASSUME FinishedAtAnEnd, asg \in [Key -> Assignment \cup {None}],
         UNCHANGED <<solved, cut>>,
         \A k \in Key : /\ asg[k] # None => asg'[k] = asg[k]
                        /\ asg[k] = None => asg'[k] \in {None, NewAssignment}
  PROVE  FinishedAtAnEnd'
BY DEF FinishedAtAnEnd, NewAssignment

LEMMA OwnerSteps ==
  ASSUME ~Overlap, SystemInv, OwnerStep
  PROVE  SystemInv'
<1>1. Owners!Next /\ UNCHANGED <<preq, solved, got, cut>>
  BY DEF OwnerStep, Owners!Next
<1>2. Owners!WaitInv /\ Players!WalkInv /\ Owners!WaitInv'
  BY <1>1, OwnersNext DEF SystemInv
<1>3. \A k \in Key : /\ asg[k] # None => asg'[k] = asg[k]
                     /\ asg[k] = None => asg'[k] \in {None, NewAssignment}
  BY <1>1, <1>2, OwnersKeep
<1>4. /\ TablesOK' /\ faults' \in 0..MaxFaults
      /\ asg \in [Key -> Assignment \cup {None}]
  BY <1>1, <1>2, OwnersNext, WaitType DEF TablesOK
<1>5. Players!WalkInv'
  BY <1>1, <1>2, <1>3, <1>4, PlayersStay
<1>6. FinishedAtAnEnd'
  BY <1>1, <1>3, <1>4, FinishedStays DEF SystemInv
<1>7. \A r \in PlayerSlot : Snapshot(r)'
  BY <1>1 DEF SystemInv, Snapshot, Players!KeyOf
<1> QED
  BY <1>2, <1>5, <1>6, <1>7 DEF SystemInv

\* The process stops.
LEMMA CrashSteps ==
  ASSUME ~Overlap, SystemInv, Crash
  PROVE  SystemInv'
<1>1. Owners!Next /\ preq' = [r \in PlayerSlot |-> None] /\ UNCHANGED <<solved, got, cut>>
  BY DEF Crash, Owners!Next
<1>2. Owners!WaitInv /\ Players!WalkInv /\ Owners!WaitInv'
  BY <1>1, OwnersNext DEF SystemInv
<1>3. \A k \in Key : /\ asg[k] # None => asg'[k] = asg[k]
                     /\ asg[k] = None => asg'[k] \in {None, NewAssignment}
  BY <1>1, <1>2, OwnersKeep
<1>4. /\ TablesOK' /\ faults' \in 0..MaxFaults
      /\ asg \in [Key -> Assignment \cup {None}]
  BY <1>1, <1>2, OwnersNext, WaitType DEF TablesOK
<1>5. Players!TypeInv'
  BY <1>1, <1>2, <1>4, SameTables DEF Players!WalkInv, Players!TypeInv, Players!TypeOK
<1>6. Players!WalkInv'
  BY <1>1, <1>5 DEF Players!WalkInv, Players!Alone, Players!Walks, Players!At
<1>7. FinishedAtAnEnd'
  BY <1>1, <1>3, <1>4, FinishedStays DEF SystemInv
<1>8. \A r \in PlayerSlot : Snapshot(r)'
  BY <1>1 DEF Snapshot
<1> QED
  BY <1>2, <1>6, <1>7, <1>8 DEF SystemInv
--------------------------------------------------------------------------------
(* The steps of the recipients.                                            *)

\* What a recipient's step does to the tables, and to the counter of faults.
LEMMA PlayersNext ==
  ASSUME ~Overlap, Players!WalkInv, [Players!Next]_(Players!vars)
  PROVE  /\ Players!WalkInv'
         /\ quests' = quests /\ steps' = steps
         /\ \A k \in Key : solved[k] \subseteq solved'[k]
         /\ \/ asg' = asg
            \/ \E r \in PlayerSlot :
                 /\ Players!At(r, "update") /\ asg[Players!KeyOf(r)] # None
                 /\ asg' = [asg EXCEPT ![Players!KeyOf(r)] =
                              [status |-> preq[r].line.status,
                               cur |-> Players!HeadOf(preq[r].line)]]
         /\ faults \in Nat /\ faults' \in Nat /\ faults' >= faults
<1>1. Players!TypeInv
  BY DEF Players!WalkInv
<1>2. Players!WalkInv'
  BY PlayersAssumption, Players!NextWalk
<1>3. \A k \in Key : solved[k] \subseteq solved'[k]
  BY <1>1, SameNames, PlayersAssumption, Players!SolvedGrows
<1>4. faults \in Nat /\ faults' \in Nat /\ faults' >= faults
  BY <1>1, PlayersAssumption, Players!FaultsGrow
<1> QED
  BY <1>1, <1>2, <1>3, <1>4, PlayersAssumption, Players!RowWritten

\* The owners' side of a step that writes nothing but assignments that are there.
LEMMA OwnersStay ==
  ASSUME Owners!WaitInv, TablesOK', faults' \in 0..MaxFaults, faults' >= faults,
         UNCHANGED <<quests, steps, oreq, used, mail, sent>>,
         \A k \in Key : asg[k] # None <=> asg'[k] # None
  PROVE  Owners!WaitInv'
<1>1. Owners!AuthorInv /\ Owners!TypeOK /\ faults \in 0..MaxFaults /\ MaxFaults \in Nat
  BY WaitType, OwnersAssumption DEF Owners!FaultsAssumption
<1>2. Owners!TypeOK'
  BY <1>1, SameTables DEF Owners!TypeOK
<1>3. Owners!AuthorInv'
  BY <1>1, <1>2, SameNames, OwnersAssumption, Owners!AuthorStays
<1>4. /\ Owners!Waiting' /\ Owners!WholeSteps'
      /\ \A s \in OwnerSlot : Owners!Holds(s)'
  BY <1>1, SameNames, OwnersAssumption, Owners!TablesStay
<1> QED
  BY <1>3, <1>4 DEF Owners!WaitInv

\* What holds of a recipient's request that stands before its UPDATE.
LEMMA AtUpdate ==
  ASSUME SystemInv, NEW r \in PlayerSlot, Players!At(r, "update")
  PROVE  /\ preq[r] # None /\ Players!KeyOf(r) \in Key
         /\ preq[r].steps \in StepMaps /\ preq[r].steps # None
         /\ [status |-> preq[r].line.status, cur |-> Players!HeadOf(preq[r].line)] # None
         /\ preq[r].line.status \in Statuses
         /\ Players!GoesOn(Players!KeyOf(r), preq[r].line)
         /\ Players!Ends(Players!KeyOf(r), preq[r].line, preq[r].steps)
         /\ Players!HeadOf(preq[r].line) \in preq[r].line.list
         /\ Players!HeadOf(preq[r].line) \in Int
<1>1. Players!TypeInv /\ Players!Walks(r)
  BY DEF SystemInv, Players!WalkInv
<1>2. /\ preq[r] # None /\ Players!KeyOf(r) \in Key /\ preq[r].line \in Players!Line
      /\ preq[r].steps \in StepMaps
      /\ Players!HeadOf(preq[r].line) \in preq[r].line.list
      /\ Players!HeadOf(preq[r].line) \in Sort
  BY <1>1, SameNames, PlayersAssumption, Players!AtUpdate
<1>3. preq[r].line.status \in Statuses
  BY <1>2, SameNames DEF Players!Line
<1>4. [status |-> preq[r].line.status, cur |-> Players!HeadOf(preq[r].line)] \in Assignment
  BY <1>2, <1>3 DEF Assignment
<1>5. Sort \subseteq Int
  BY StepMapsAssumption DEF Sort
<1> QED
  BY <1>1, <1>2, <1>3, <1>4, <1>5, TablesAssumption DEF Players!Walks

\* The rows of the recipients go on, from not started over in progress to
\* finished, whoever edits the quest.
GoneOn(k) ==
  \/ asg'[k] = asg[k]
  \/ /\ asg[k] # None /\ asg'[k] # None
     /\ \/ asg[k].status = "not_started" /\ asg'[k].status = "in_progress"
        \/ /\ asg[k].status = "in_progress" /\ asg'[k].status = "in_progress"
           /\ asg'[k].cur > asg[k].cur
        \/ /\ asg[k].status = "in_progress" /\ asg'[k].status = "finished"
           /\ asg'[k].cur >= asg[k].cur

LEMMA RowsGoOn ==
  ASSUME ~Overlap, SystemInv, PlayerStep, NEW k \in Key
  PROVE  GoneOn(k)
<1>1. Players!WalkInv /\ asg \in [Key -> Assignment \cup {None}]
  BY WaitType DEF SystemInv, TablesOK
<1>2. CASE asg' = asg
  BY <1>2 DEF GoneOn
<1>3. ASSUME NEW r \in PlayerSlot, Players!At(r, "update"), asg[Players!KeyOf(r)] # None,
             asg' = [asg EXCEPT ![Players!KeyOf(r)] =
                       [status |-> preq[r].line.status,
                        cur |-> Players!HeadOf(preq[r].line)]]
      PROVE  GoneOn(k)
  <2>1. CASE k # Players!KeyOf(r)
    BY <1>1, <1>3, <2>1 DEF GoneOn
  <2>2. CASE k = Players!KeyOf(r)
    <3>1. asg'[k] = [status |-> preq[r].line.status,
                     cur |-> Players!HeadOf(preq[r].line)]
      BY <1>1, <1>3, <2>2
    <3> QED
      BY <1>3, <2>2, <3>1, AtUpdate DEF GoneOn, Players!GoesOn
  <2> QED
    BY <2>1, <2>2
<1> QED
  BY <1>1, <1>2, <1>3, PlayersNext DEF PlayerStep

\* A recipient who finishes answered right the last of the steps he has read.
LEMMA FinishStep ==
  ASSUME ~Overlap, SystemInv, PlayerStep, NEW k \in Key \ cut,
         asg'[k] # None, asg'[k].status = "finished"
  PROVE  /\ asg'[k].cur \in solved'[k]
         /\ \E b \in Body : /\ asg'[k].cur \in DOMAIN b.steps
                            /\ \A n \in DOMAIN b.steps : n <= asg'[k].cur
<1>1. /\ Players!WalkInv /\ asg \in [Key -> Assignment \cup {None}]
      /\ [Players!Next]_(Players!vars)
  BY WaitType DEF SystemInv, TablesOK, PlayerStep
<1>2. solved[k] \subseteq solved'[k]
  BY <1>1, PlayersNext
<1>3. CASE asg'[k] = asg[k]
  BY <1>2, <1>3 DEF SystemInv, FinishedAtAnEnd
<1>4. ASSUME NEW r \in PlayerSlot, Players!At(r, "update"), k = Players!KeyOf(r),
             asg'[k] = [status |-> preq[r].line.status,
                        cur |-> Players!HeadOf(preq[r].line)]
      PROVE  /\ asg'[k].cur \in solved'[k]
             /\ \E b \in Body : /\ asg'[k].cur \in DOMAIN b.steps
                                /\ \A n \in DOMAIN b.steps : n <= asg'[k].cur
  <2>1. PICK h : h = Players!HeadOf(preq[r].line)
    OBVIOUS
  <2>2. asg'[k].cur = h /\ preq[r].line.status = "finished"
    BY <1>4, <2>1
  <2>3. /\ h \in solved[k] /\ h \in DOMAIN preq[r].steps
        /\ \A n \in DOMAIN preq[r].steps : n <= h
    BY <1>4, <2>1, <2>2, AtUpdate DEF Players!Ends
  <2>4. \E b \in Body : preq[r].steps = b.steps
    BY <1>4, AtUpdate DEF SystemInv, Snapshot
  <2> QED
    BY <1>2, <2>2, <2>3, <2>4
<1>5. CASE asg'[k] # asg[k]
  <2>1. PICK r \in PlayerSlot :
          /\ Players!At(r, "update")
          /\ asg' = [asg EXCEPT ![Players!KeyOf(r)] =
                       [status |-> preq[r].line.status,
                        cur |-> Players!HeadOf(preq[r].line)]]
    BY <1>1, <1>5, PlayersNext
  <2>2. k = Players!KeyOf(r)
    BY <1>1, <1>5, <2>1
  <2> QED
    BY <1>1, <1>4, <2>1, <2>2
<1> QED
  BY <1>3, <1>5

LEMMA PlayerSteps ==
  ASSUME ~Overlap, SystemInv, PlayerStep
  PROVE  SystemInv'
<1>1. /\ Owners!WaitInv /\ Players!WalkInv /\ [Players!Next]_(Players!vars)
      /\ UNCHANGED <<oreq, used, mail, sent, cut>>
  BY DEF SystemInv, PlayerStep
<1>2. /\ Players!WalkInv' /\ quests' = quests /\ steps' = steps /\ faults' >= faults
  BY <1>1, PlayersNext
<1>3. TablesOK' /\ faults' \in 0..MaxFaults
  BY <1>2, SameTables DEF Players!WalkInv, Players!TypeInv, Players!TypeOK
<1>4. \A k \in Key : asg[k] # None <=> asg'[k] # None
  BY RowsGoOn DEF GoneOn
<1>5. Owners!WaitInv'
  BY <1>1, <1>2, <1>3, <1>4, OwnersStay
<1>6. FinishedAtAnEnd'
  BY <1>1, FinishStep DEF FinishedAtAnEnd
<1>7. ASSUME NEW r \in PlayerSlot
      PROVE  Snapshot(r)'
  <2>1. SUFFICES ASSUME preq'[r] # None, preq'[r].steps # None,
                        Players!KeyOf(r)' \notin cut'
                 PROVE  \E b \in Body : preq'[r].steps = b.steps
    BY DEF Snapshot
  <2>2. Players!TypeInv
    BY <1>1 DEF Players!WalkInv
  <2>3. /\ preq[r] # None /\ Players!KeyOf(r)' = Players!KeyOf(r)
        /\ \/ preq'[r].steps = preq[r].steps
           \/ /\ preq'[r].steps = steps[Players!KeyOf(r)[1]]
              /\ DOMAIN steps[Players!KeyOf(r)[1]] # {}
    BY <1>1, <2>1, <2>2, PlayersAssumption, Players!StepsRead
  <2>4. CASE preq'[r].steps = preq[r].steps
    BY <1>1, <2>1, <2>3, <2>4 DEF SystemInv, Snapshot
  <2>5. CASE /\ preq'[r].steps = steps[Players!KeyOf(r)[1]]
             /\ DOMAIN steps[Players!KeyOf(r)[1]] # {}
    <3>1. Players!KeyOf(r)[1] \in Quest
      BY <2>2, <2>3 DEF Players!TypeInv, Players!TypeOK, Players!KeyOf, Players!Request
    <3>2. DOMAIN NoSteps = {}
      BY DEF NoSteps
    <3> QED
      BY <1>1, <2>5, <3>1, <3>2, SameNames DEF Owners!WaitInv, Owners!WholeSteps
  <2> QED
    BY <2>3, <2>4, <2>5
<1> QED
  BY <1>2, <1>5, <1>6, <1>7 DEF SystemInv

\* The connection breaks while a recipient's request reads the steps.
LEMMA CutStepsSteps ==
  ASSUME SystemInv, NEW r \in PlayerSlot, CutSteps(r)
  PROVE  SystemInv'
<1>1. /\ Owners!WaitInv /\ Players!TypeInv /\ Players!Alone
      /\ \A s \in PlayerSlot : Players!Walks(s) /\ Snapshot(s)
  BY DEF SystemInv, Players!WalkInv
<1>2. /\ TablesOK /\ faults \in Nat /\ faults' \in 0..MaxFaults /\ faults' >= faults
      /\ faults' = faults + 1
  BY <1>1, WaitType, OwnersAssumption DEF CutSteps, Owners!FaultsAssumption
<1>3. Owners!WaitInv'
  <2>1. TablesOK'
    BY <1>2 DEF CutSteps, TablesOK
  <2> QED
    BY <1>1, <1>2, <2>1, OwnersStay DEF CutSteps
<1>4. /\ preq[r] # None /\ preq[r] \in Players!Request /\ Players!HasRead(preq[r])
      /\ preq[r].pc = "steps" /\ preq \in [PlayerSlot -> Players!Request \cup {None}]
  BY <1>1 DEF CutSteps, Players!At, Players!TypeInv, Players!TypeOK
<1>5. PICK m \in Owners!Parts(steps[preq[r].quest]) :
        preq' = [preq EXCEPT ![r].pc = "assignment", ![r].steps = m]
  BY DEF CutSteps
<1>6. m \in StepMaps /\ DOMAIN m # {} /\ m # None
  <2>1. steps[preq[r].quest] \in StepMaps
    BY <1>2, <1>4 DEF TablesOK, Players!Request
  <2>2. PICK S \in SUBSET DOMAIN steps[preq[r].quest] :
          S # {} /\ m = [k \in S |-> steps[preq[r].quest][k]]
    BY <1>5 DEF Owners!Parts
  <2>3. m \in StepMaps
    BY <2>1, <2>2, OwnersAssumption DEF Owners!PartsAssumption
  <2> QED
    BY <2>2, <2>3, TablesAssumption
<1>7. PICK x : x = [preq[r] EXCEPT !.pc = "assignment", !.steps = m]
  OBVIOUS
<1>8. /\ x \in Players!Request /\ x.pc = "assignment" /\ x.steps = m
      /\ x.row = preq[r].row /\ x.quest = preq[r].quest /\ x.user = preq[r].user
  BY <1>4, <1>6, <1>7 DEF Players!Request
<1>9. Players!HasRead(x)
  BY <1>4, <1>6, <1>8 DEF Players!HasRead
<1>10. preq' = [preq EXCEPT ![r] = x]
  BY <1>4, <1>5, <1>7
<1>11. /\ preq' \in [PlayerSlot -> Players!Request \cup {None}]
       /\ \A s \in PlayerSlot : preq'[s] # None => Players!HasRead(preq'[s])
       /\ preq'[r] = x /\ \A s \in PlayerSlot \ {r} : preq'[s] = preq[s]
  BY <1>1, <1>8, <1>9, <1>10, PlayersAssumption, Players!ReplaceRequest
<1>12. Players!TypeInv'
  BY <1>1, <1>2, <1>11 DEF CutSteps, Players!TypeInv, Players!TypeOK, Players!TablesOK
<1>13. Players!KeyOf(r)' = Players!KeyOf(r) /\ \A s \in PlayerSlot : preq'[s] # None => preq[s] # None
  BY <1>4, <1>8, <1>11 DEF Players!KeyOf
<1>14. \A s \in PlayerSlot \ {r} : Players!KeyOf(s)' = Players!KeyOf(s)
  BY <1>11 DEF Players!KeyOf
<1>15. Players!Alone'
  BY <1>1, <1>13, <1>14 DEF Players!Alone
<1>16. ASSUME NEW s \in PlayerSlot
       PROVE  Players!Walks(s)' /\ Snapshot(s)'
  <2>1. CASE s = r
    BY <1>8, <1>11, <1>13, <2>1 DEF CutSteps, Snapshot, Players!Walks, Players!At
  <2>2. CASE s # r
    <3>1. preq'[s] = preq[s] /\ Players!KeyOf(s)' = Players!KeyOf(s)
      BY <1>11, <1>14, <2>2
    <3>2. Players!Walks(s)'
      BY <1>1, <3>1, PlayersAssumption, Players!WalksLasts DEF CutSteps
    <3>3. Snapshot(s)'
      BY <1>1, <3>1 DEF CutSteps, Snapshot
    <3> QED
      BY <3>2, <3>3
  <2> QED
    BY <2>1, <2>2
<1>17. FinishedAtAnEnd'
  BY DEF SystemInv, FinishedAtAnEnd, CutSteps
<1> QED
  BY <1>3, <1>12, <1>15, <1>16, <1>17 DEF SystemInv, Players!WalkInv

LEMMA SystemStays == SystemInv /\ UNCHANGED vars => SystemInv'
<1> SUFFICES ASSUME SystemInv, UNCHANGED vars PROVE SystemInv'
  OBVIOUS
<1>1. /\ Owners!WaitInv /\ Players!WalkInv /\ TablesOK' /\ faults' \in 0..MaxFaults
      /\ faults \in 0..MaxFaults /\ faults' >= faults
  BY WaitType, OwnersAssumption DEF SystemInv, vars, TablesOK, Owners!FaultsAssumption
<1>2. Owners!WaitInv'
  BY <1>1, OwnersStay DEF vars
<1>3. Players!WalkInv'
  BY <1>1, PlayersStay DEF vars
<1> QED
  BY <1>2, <1>3 DEF SystemInv, vars, FinishedAtAnEnd, Snapshot, Players!KeyOf

LEMMA NextSystem ==
  ASSUME ~Overlap, SystemInv, [Next]_vars
  PROVE  SystemInv'
BY OwnerSteps, PlayerSteps, CrashSteps, CutStepsSteps, SystemStays DEF Next

LEMMA SystemInvariant ==
  ASSUME ~Overlap
  PROVE  Spec => []SystemInv
BY InitSystem, NextSystem, PTL DEF Spec

(***************************************************************************)
(* An owner who edits the quest cannot make it end in the middle: whoever  *)
(* has finished, and was not handed a part of the steps, answered right    *)
(* the last step of a quest as it was saved.                               *)
(***************************************************************************)
THEOREM EndsAtAnEnd ==
  ASSUME ~Overlap
  PROVE  Spec => []FinishedAtAnEnd
<1>1. SystemInv => FinishedAtAnEnd
  BY DEF SystemInv
<1> QED
  BY <1>1, SystemInvariant, PTL

(***************************************************************************)
(* What owners are told is what was done, with recipients on the way.      *)
(***************************************************************************)
THEOREM AnswersAreTrue ==
  ASSUME ~Overlap
  PROVE  Spec => []DoneAsAnswered
<1>1. SystemInv => DoneAsAnswered
  BY OwnersAssumption, Owners!HoldsTells DEF SystemInv, DoneAsAnswered
<1> QED
  BY <1>1, SystemInvariant, PTL
--------------------------------------------------------------------------------
(* What every step does to the rows.                                       *)

\* Whatever happens, an assignment that is there goes on or stays.
LEMMA RowsNeverGoBack ==
  ASSUME ~Overlap, SystemInv, [Next]_vars, NEW k \in Key, asg[k] # None
  PROVE  GoneOn(k)
<1>0. Owners!WaitInv
  BY DEF SystemInv
<1>1. CASE Owners!Next
  BY <1>0, <1>1, OwnersKeep DEF GoneOn
<1>2. CASE PlayerStep
  BY <1>2, RowsGoOn
<1>3. CASE (\E r \in PlayerSlot : CutSteps(r)) \/ UNCHANGED vars
  BY <1>3 DEF CutSteps, vars, GoneOn
<1> QED
  BY <1>1, <1>2, <1>3 DEF Next, OwnerStep, Crash, Owners!Next

(***************************************************************************)
(* Whatever the owner does to the quest meanwhile, recipients that wait    *)
(* for their answers never lose progress.                                  *)
(***************************************************************************)
THEOREM NoWayBack ==
  ASSUME ~Overlap
  PROVE  Spec => NeverBack
<1>1. ASSUME SystemInv, [Next]_vars, NEW k \in Key
      PROVE  /\ asg[k] # None => asg'[k] # None
             /\ asg[k] # None /\ asg'[k] # asg[k] /\ asg[k].status = "in_progress" =>
                  \/ asg'[k].status = "in_progress" /\ asg'[k].cur > asg[k].cur
                  \/ asg'[k].status = "finished" /\ asg'[k].cur >= asg[k].cur
             /\ asg[k] # None /\ asg[k].status = "finished" => asg'[k] = asg[k]
  BY <1>1, RowsNeverGoBack DEF GoneOn
<1>2. SystemInv /\ [Next]_vars =>
        [\A k \in Key :
           /\ asg[k] # None => asg'[k] # None
           /\ asg[k] # None /\ asg'[k] # asg[k] /\ asg[k].status = "in_progress" =>
                \/ asg'[k].status = "in_progress" /\ asg'[k].cur > asg[k].cur
                \/ asg'[k].status = "finished" /\ asg'[k].cur >= asg[k].cur
           /\ asg[k] # None /\ asg[k].status = "finished" => asg'[k] = asg[k]]_vars
  BY <1>1
<1> QED
  BY <1>2, SystemInvariant, PTL DEF Spec, NeverBack

(***************************************************************************)
(* A quest is sent only while it has steps, with recipients on the way.    *)
(***************************************************************************)
THEOREM StepsAreSent ==
  ASSUME ~Overlap
  PROVE  Spec => SentWithSteps
<1>1. ASSUME SystemInv, [Next]_vars, NEW k \in Owners!Key,
             asg[k] = None, asg'[k] # None
      PROVE  steps[k[1]] # Owners!NoSteps
  <2>1. Owners!WaitInv /\ k \in Key
    BY <1>1, SameNames DEF SystemInv
  <2>2. CASE Owners!Next
    <3>1. [Owners!Next]_(Owners!vars)
      BY <2>2
    <3> QED
      BY <1>1, <2>1, <3>1, OwnersAssumption, Owners!StepSends
  <2>3. CASE PlayerStep
    BY <1>1, <2>1, <2>3, RowsGoOn DEF GoneOn
  <2>4. CASE (\E r \in PlayerSlot : CutSteps(r)) \/ UNCHANGED vars
    BY <1>1, <2>4 DEF CutSteps, vars
  <2> QED
    BY <1>1, <2>2, <2>3, <2>4 DEF Next, OwnerStep, Crash, Owners!Next
<1>2. SystemInv /\ [Next]_vars =>
        [\A k \in Owners!Key :
           asg[k] = None /\ asg'[k] # None => steps[k[1]] # Owners!NoSteps]_(Owners!vars)
  BY <1>1
<1> QED
  BY <1>2, SystemInvariant, PTL DEF Spec, SentWithSteps, Owners!SentWithSteps
--------------------------------------------------------------------------------
(* The service implements QuestRows: each of its steps is a step of one    *)
(* row, or changes nothing that is seen there.                             *)

Kinds == Content \X BOOLEAN
KindOf(row) == <<row.content, row.described>>
RowsSeen ==
  [q \in Quest |-> IF quests[q] = None THEN None
                   ELSE [owner |-> quests[q].owner, kind |-> KindOf(quests[q])]]
StatusSeen == [k \in Key |-> IF asg[k] = None THEN None ELSE asg[k].status]

LEMMA RowsState ==
  /\ Rows!State = <<RowsSeen, StatusSeen>>
  /\ Rows!State' = <<RowsSeen, StatusSeen>>'
BY DEF Rows!State, RowsSeen, StatusSeen, KindOf

\* A row that is there is seen.
LEMMA RowIsSeen ==
  ASSUME NEW row \in Row
  PROVE  [owner |-> row.owner, kind |-> KindOf(row)] # None
<1>1. [owner |-> row.owner, kind |-> KindOf(row)] \in [owner : User, kind : Content \X BOOLEAN]
  BY DEF Row, KindOf
<1> QED
  BY <1>1, KindAssumption

LEMMA SavedIsSeen ==
  ASSUME TablesOK, asg' = asg, NEW q \in Quest, NEW row \in Row,
         quests' = [quests EXCEPT ![q] = row],
         quests[q] # None => row.owner = quests[q].owner
  PROVE  Rows!RowsNext
<1>1. PICK seen : seen = [owner |-> row.owner, kind |-> KindOf(row)]
  OBVIOUS
<1>2. row # None /\ seen # None /\ row.owner \in User /\ KindOf(row) \in Content \X BOOLEAN
  BY <1>1, RowIsSeen, TablesAssumption DEF Row, KindOf
<1>3. RowsSeen' = [RowsSeen EXCEPT ![q] = seen]
  BY <1>1, <1>2 DEF RowsSeen, TablesOK
<1>4. StatusSeen' = StatusSeen
  BY DEF StatusSeen
<1>5. CASE quests[q] = None
  <2>1. RowsSeen[q] = None
    BY <1>5 DEF RowsSeen
  <2>2. Rows!Create(q, row.owner, KindOf(row))
    BY <1>1, <1>3, <1>4, <2>1 DEF Rows!Create, RowsSeen, StatusSeen, KindOf
  <2> QED
    BY <1>2, <2>2 DEF Rows!RowsNext
<1>6. CASE quests[q] # None
  <2>1. RowsSeen[q] = [owner |-> row.owner, kind |-> KindOf(quests[q])]
    BY <1>6 DEF RowsSeen
  <2>2. RowsSeen[q] # None
    BY <1>2, <1>6, <2>1, RowIsSeen DEF TablesOK
  <2>3. RowsSeen' = [RowsSeen EXCEPT ![q].kind = KindOf(row)]
    <3>1. [RowsSeen[q] EXCEPT !.kind = KindOf(row)] = seen
      BY <1>1, <2>1
    <3> QED
      BY <1>3, <3>1
  <2>4. Rows!Edit(q, KindOf(row))
    BY <1>4, <2>2, <2>3 DEF Rows!Edit, RowsSeen, StatusSeen, KindOf
  <2> QED
    BY <1>2, <2>4 DEF Rows!RowsNext
<1> QED
  BY <1>5, <1>6

LEMMA DeletedIsSeen ==
  ASSUME TablesOK, asg' = asg, NEW q \in Quest,
         quests[q] # None, \A u \in User : asg[<<q, u>>] = None,
         quests' = [quests EXCEPT ![q] = None]
  PROVE  Rows!RowsNext
<1>1. quests[q] \in Row /\ quests[q].owner \in User
  BY DEF TablesOK, Row
<1>2. RowsSeen[q] # None
  BY <1>1, RowIsSeen DEF RowsSeen
<1>3. \A u \in User : StatusSeen[<<q, u>>] = None
  BY DEF StatusSeen, Key
<1>4. RowsSeen' = [RowsSeen EXCEPT ![q] = None]
  BY DEF RowsSeen, TablesOK
<1>5. StatusSeen' = StatusSeen
  BY DEF StatusSeen
<1>6. Rows!Delete(q)
  BY <1>2, <1>3, <1>4, <1>5 DEF Rows!Delete, RowsSeen, StatusSeen, KindOf
<1> QED
  BY <1>1, <1>6 DEF Rows!RowsNext

\* The write of one assignment, sent, started or finished.
LEMMA WrittenIsSeen ==
  ASSUME TablesOK, quests' = quests, NEW q \in Quest, NEW u \in User,
         NEW a \in Assignment, asg' = [asg EXCEPT ![<<q, u>>] = a],
         \/ quests[q] # None /\ asg[<<q, u>>] = None /\ a.status = "not_started"
         \/ /\ asg[<<q, u>>] # None
            /\ \/ asg[<<q, u>>].status = "not_started" /\ a.status = "in_progress"
               \/ asg[<<q, u>>].status = "in_progress" /\ a.status = "in_progress"
               \/ asg[<<q, u>>].status = "in_progress" /\ a.status = "finished"
  PROVE  Rows!RowsNext \/ UNCHANGED Rows!State
<1>1. PICK k : k = <<q, u>>
  OBVIOUS
<1>2. k \in Key /\ a # None /\ asg \in [Key -> Assignment \cup {None}]
  BY <1>1, TablesAssumption DEF Key, TablesOK
<1>3. StatusSeen' = [StatusSeen EXCEPT ![k] = a.status]
  BY <1>1, <1>2 DEF StatusSeen
<1>4. RowsSeen' = RowsSeen
  BY DEF RowsSeen
<1>5. CASE quests[q] # None /\ asg[k] = None /\ a.status = "not_started"
  <2>1. RowsSeen[q] # None /\ StatusSeen[k] = None
    BY <1>2, <1>5, RowIsSeen DEF RowsSeen, StatusSeen, TablesOK
  <2>2. Rows!Send(q, u)
    BY <1>1, <1>3, <1>4, <1>5, <2>1 DEF Rows!Send, RowsSeen, StatusSeen, KindOf
  <2> QED
    BY <2>2 DEF Rows!RowsNext
<1>6. ASSUME asg[k] # None
      PROVE  StatusSeen[k] = asg[k].status
  BY <1>2, <1>6 DEF StatusSeen
<1>7. CASE asg[k] # None /\ asg[k].status = "not_started" /\ a.status = "in_progress"
  <2>1. Rows!Start(q, u)
    BY <1>1, <1>3, <1>4, <1>6, <1>7 DEF Rows!Start, RowsSeen, StatusSeen, KindOf
  <2> QED
    BY <2>1 DEF Rows!RowsNext
<1>8. CASE asg[k] # None /\ asg[k].status = "in_progress" /\ a.status = "finished"
  <2>1. Rows!Finish(q, u)
    BY <1>1, <1>3, <1>4, <1>6, <1>8 DEF Rows!Finish, RowsSeen, StatusSeen, KindOf
  <2> QED
    BY <2>1 DEF Rows!RowsNext
<1>9. CASE asg[k] # None /\ asg[k].status = "in_progress" /\ a.status = "in_progress"
  <2>1. StatusSeen[k] = a.status
    BY <1>6, <1>9
  <2>2. [StatusSeen EXCEPT ![k] = StatusSeen[k]] = StatusSeen
    BY DEF StatusSeen
  <2> QED
    BY <1>3, <1>4, <2>1, <2>2, RowsState
<1> QED
  BY <1>1, <1>5, <1>7, <1>8, <1>9

LEMMA StepIsSeen ==
  ASSUME ~Overlap, SystemInv, [Next]_vars
  PROVE  Rows!RowsNext \/ UNCHANGED Rows!State
<1>0. Owners!WaitInv /\ Players!WalkInv /\ TablesOK /\ TablesOK'
  <2>1. Owners!WaitInv /\ Players!WalkInv /\ Owners!WaitInv'
    BY NextSystem DEF SystemInv
  <2>2. Owners!TablesOK'
    BY <2>1 DEF Owners!WaitInv, Owners!AuthorInv, Owners!TypeInv, Owners!TypeOK
  <2> QED
    BY <2>1, <2>2, WaitType, SameTables
<1>1. CASE quests' = quests /\ asg' = asg
  BY <1>1, RowsState DEF RowsSeen, StatusSeen
<1>2. CASE Owners!QuestSaved
  BY <1>0, <1>2, SameNames, SavedIsSeen DEF Owners!QuestSaved
<1>3. CASE Owners!QuestDeleted
  BY <1>0, <1>3, DeletedIsSeen DEF Owners!QuestDeleted, Owners!SentTo
<1>4. ASSUME NEW k \in Key, NEW a \in Assignment, quests' = quests,
             asg' = [asg EXCEPT ![k] = a],
             \/ quests[k[1]] # None /\ asg[k] = None /\ a.status = "not_started"
             \/ asg[k] # None /\ asg'[k] # asg[k] /\ GoneOn(k)
      PROVE  Rows!RowsNext \/ UNCHANGED Rows!State
  <2>1. PICK q \in Quest, u \in User : k = <<q, u>>
    BY DEF Key
  <2>2. asg'[k] = a
    BY <1>0, <1>4 DEF TablesOK
  <2> QED
    BY <1>0, <1>4, <2>1, <2>2, WrittenIsSeen DEF GoneOn
<1>5. CASE Owners!QuestSent
  <2>1. NewAssignment \in Assignment /\ NewAssignment.status = "not_started"
    BY DEF NewAssignment, Assignment, Statuses
  <2> QED
    BY <1>4, <1>5, <2>1, SameNames DEF Owners!QuestSent
<1>6. CASE PlayerStep
  <2>1. quests' = quests /\ [Players!Next]_(Players!vars)
    BY <1>0, <1>6, PlayersNext DEF PlayerStep
  <2>2. CASE asg' # asg
    <3>1. PICK r \in PlayerSlot :
            /\ Players!At(r, "update") /\ asg[Players!KeyOf(r)] # None
            /\ asg' = [asg EXCEPT ![Players!KeyOf(r)] =
                         [status |-> preq[r].line.status,
                          cur |-> Players!HeadOf(preq[r].line)]]
      BY <1>0, <2>1, <2>2, PlayersNext
    <3>2. PICK k, a : /\ k = Players!KeyOf(r)
                      /\ a = [status |-> preq[r].line.status,
                              cur |-> Players!HeadOf(preq[r].line)]
      OBVIOUS
    <3>3. k \in Key /\ a # None /\ GoneOn(k)
      BY <1>6, <3>1, <3>2, AtUpdate, RowsGoOn
    <3>4. asg'[k] = a /\ a \in Assignment
      BY <1>0, <3>1, <3>2, <3>3 DEF TablesOK
    <3>5. asg'[k] # asg[k]
      BY <1>0, <2>2, <3>1, <3>2, <3>3, <3>4 DEF TablesOK
    <3> QED
      BY <1>4, <2>1, <3>1, <3>2, <3>3, <3>4, <3>5
  <2> QED
    BY <1>1, <2>1, <2>2
<1>7. CASE Owners!Next
  BY <1>0, <1>1, <1>2, <1>3, <1>5, <1>7, OwnersNext
<1>8. CASE (\E r \in PlayerSlot : CutSteps(r)) \/ UNCHANGED vars
  BY <1>1, <1>8 DEF CutSteps, vars
<1> QED
  BY <1>6, <1>7, <1>8 DEF Next, OwnerStep, Crash, Owners!Next

(***************************************************************************)
(* Seen through its tables the whole service implements QuestRows, with    *)
(* crashes and lost connections, and with writes that come statements      *)
(* later than the checks they rest on.                                     *)
(***************************************************************************)
THEOREM RowsRefined ==
  ASSUME ~Overlap
  PROVE  Spec => RefinesRows
<1>1. Init => Rows!RowsInit
  BY SameNames DEF Init, Owners!Init, Rows!RowsInit, Key
<1>2. SystemInv /\ [Next]_vars => [Rows!RowsNext]_(Rows!State)
  BY StepIsSeen
<1> QED
  BY <1>1, <1>2, SystemInvariant, PTL DEF Spec, RefinesRows, Rows!Spec
================================================================================
