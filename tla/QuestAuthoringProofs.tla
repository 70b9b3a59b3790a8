-------------------------- MODULE QuestAuthoringProofs --------------------------
(***************************************************************************)
(* Proofs about QuestAuthoring, for every set of users, quests, bodies and *)
(* requests in flight, with or without Overlap, and any number of faults.  *)
(***************************************************************************)
EXTENDS QuestAuthoring, TLAPS

--------------------------------------------------------------------------------
(* The error values a handler answers with: chains of constants of any     *)
(* length.                                                                 *)

LEMMA WrapFacts ==
  ASSUME NEW e \in ErrorValue, NEW m \in Message
  PROVE  /\ Wrap(m, e) \in ErrorValue
         /\ Wrap(m, e).cause = e.cause
         /\ TextOf(Wrap(m, e)) = m
         /\ \A n \in Message : Is(Wrap(m, e), n) <=> n = m \/ Is(e, n)
<1> DEFINE w == Wrap(m, e)
<1>0. e.msgs \in Seq(Message) /\ e.cause \in Cause
  BY DEF ErrorValue
<1>1. /\ w \in ErrorValue /\ w.cause = e.cause
      /\ w.msgs = <<m>> \o e.msgs
  <2>1. <<m>> \o e.msgs \in Seq(Message)
    BY <1>0
  <2>2. w = [msgs |-> <<m>> \o e.msgs, cause |-> e.cause]
    BY DEF Wrap
  <2> HIDE DEF w
  <2> QED
    BY <1>0, <2>1, <2>2 DEF ErrorValue
<1>3. /\ DOMAIN w.msgs = 1..(Len(e.msgs) + 1)
      /\ w.msgs[1] = m
      /\ \A i \in DOMAIN e.msgs : w.msgs[i + 1] = e.msgs[i]
  BY <1>0, <1>1
<1>4. TextOf(w) = m
  BY <1>0, <1>1, <1>3 DEF TextOf
<1>5. ASSUME NEW n \in Message PROVE Is(w, n) <=> n = m \/ Is(e, n)
  <2>1. ASSUME Is(w, n), n # m PROVE Is(e, n)
    <3>1. PICK i \in 1..(Len(e.msgs) + 1) : w.msgs[i] = n
      BY <1>3, <2>1 DEF Is
    <3>2. i # 1
      BY <1>3, <2>1, <3>1
    <3>3. i - 1 \in DOMAIN e.msgs /\ w.msgs[(i - 1) + 1] = e.msgs[i - 1]
      BY <1>0, <1>3, <3>2
    <3>4. e.msgs[i - 1] = n
      BY <3>1, <3>3
    <3> QED
      BY <3>3, <3>4 DEF Is
  <2>2. n = m => Is(w, n)
    BY <1>0, <1>3 DEF Is
  <2>3. ASSUME Is(e, n) PROVE Is(w, n)
    <3>1. PICK i \in DOMAIN e.msgs : e.msgs[i] = n
      BY <2>3 DEF Is
    <3>2. i + 1 \in 1..(Len(e.msgs) + 1) /\ w.msgs[i + 1] = n
      BY <1>0, <1>3, <3>1
    <3> QED
      BY <1>3, <3>2 DEF Is
  <2> QED
    BY <2>1, <2>2, <2>3
<1> QED
  BY <1>1, <1>4, <1>5

LEMMA InvalidFacts ==
  ASSUME NEW e \in ErrorValue
  PROVE  /\ Invalid(e) \in ErrorValue
         /\ Invalid(e).cause = e.cause
         /\ TextOf(Invalid(e)) = Detail(e.cause)
         /\ StatusOf(Invalid(e)) = 400
<1>1. /\ Detail(e.cause) \in Message /\ "validation" \in Message
  BY DEF Detail, Message
<1>2. CASE Detail(e.cause) = "validation"
  BY <1>1, <1>2, WrapFacts DEF Invalid, StatusOf
<1>3. CASE Detail(e.cause) # "validation"
  <2> DEFINE w == Wrap("validation", e)
  <2>1. w \in ErrorValue /\ w.cause = e.cause /\ Is(w, "validation")
    BY <1>1, WrapFacts
  <2>2. Invalid(e) = Wrap(Detail(e.cause), w)
    BY <1>3 DEF Invalid
  <2> HIDE DEF w
  <2> QED
    BY <1>1, <2>1, <2>2, WrapFacts DEF StatusOf
<1> QED
  BY <1>2, <1>3

(* UpdateQuest hands what updateSteps has made of an error to              *)
(* checkWriteError again (store.go:247): the client is given the status    *)
(* and the text he would be given for it once, whatever the database said. *)
THEOREM CheckedTwice ==
  \A e \in ErrorValue :
    /\ StatusOf(CheckWriteError(CheckWriteError(e))) = StatusOf(CheckWriteError(e))
    /\ TextOf(CheckWriteError(CheckWriteError(e))) = TextOf(CheckWriteError(e))
<1> SUFFICES ASSUME NEW e \in ErrorValue
             PROVE  /\ StatusOf(CheckWriteError(CheckWriteError(e))) = StatusOf(CheckWriteError(e))
                    /\ TextOf(CheckWriteError(CheckWriteError(e))) = TextOf(CheckWriteError(e))
  OBVIOUS
<1>1. CASE Blamed(e.cause)
  <2>1. CheckWriteError(e) = Invalid(e)
    BY <1>1 DEF CheckWriteError
  <2>2. CheckWriteError(Invalid(e)) = Invalid(Invalid(e))
    BY <1>1, InvalidFacts DEF CheckWriteError
  <2> QED
    BY <2>1, <2>2, InvalidFacts
<1>2. CASE ~Blamed(e.cause)
  <2> DEFINE w == Wrap("unknown", e)
  <2>1. "unknown" \in Message /\ {"invalid_request", "validation", "not_found", "forbidden"} \subseteq Message
    BY DEF Message
  <2>2. CheckWriteError(e) = w /\ w \in ErrorValue /\ w.cause = e.cause
    BY <1>2, <2>1, WrapFacts DEF CheckWriteError
  <2>3. CheckWriteError(w) = Wrap("unknown", w)
    BY <1>2, <2>2 DEF CheckWriteError
  <2>4. TextOf(w) = "unknown" /\ TextOf(Wrap("unknown", w)) = "unknown"
    BY <2>1, <2>2, WrapFacts
  <2>5. \A n \in Message : Is(Wrap("unknown", w), n) <=> Is(w, n)
    BY <2>1, <2>2, WrapFacts
  <2>6. StatusOf(Wrap("unknown", w)) = StatusOf(w)
    BY <2>1, <2>5 DEF StatusOf
  <2> HIDE DEF w
  <2> QED
    BY <2>2, <2>3, <2>4, <2>6
<1> QED
  BY <1>1, <1>2

LEMMA OfFacts ==
  ASSUME NEW c \in Conditions, NEW n \in Names
  PROVE  /\ Of(c, n) \in ErrorValue
         /\ \A m : ~Is(Of(c, n), m)
<1>1. Of(c, n) = [msgs |-> << >>, cause |-> [condition |-> c, name |-> n]]
  BY DEF Of
<1>2. << >> \in Seq(Message)
  OBVIOUS
<1>3. [condition |-> c, name |-> n] \in Cause
  BY DEF Cause
<1>4. Of(c, n) \in ErrorValue
  BY <1>1, <1>2, <1>3 DEF ErrorValue
<1>5. DOMAIN Of(c, n).msgs = {}
  BY <1>1
<1> QED
  BY <1>4, <1>5 DEF Is

LEMMA NamedErrors ==
  /\ NoRows \in ErrorValue /\ NoUuid \in ErrorValue /\ Failure \in ErrorValue
  /\ StatusOf(Failure) = 500
<1>1. /\ {"no_rows", "invalid_text_representation", "other"} \subseteq Conditions
      /\ {"none", "uuid"} \subseteq Names
  BY DEF Conditions, Names
<1> QED
  BY <1>1, OfFacts DEF NoRows, NoUuid, Failure, StatusOf

LEMMA UnknownStatus ==
  ASSUME NEW c \in Conditions, NEW n \in Names
  PROVE  /\ Wrap("unknown", Of(c, n)) \in ErrorValue
         /\ StatusOf(Wrap("unknown", Of(c, n))) = 500
<1>1. /\ "unknown" \in Message
      /\ {"invalid_request", "validation", "not_found", "forbidden"} \subseteq Message
  BY DEF Message
<1>2. /\ Wrap("unknown", Of(c, n)) \in ErrorValue
      /\ \A m \in Message : Is(Wrap("unknown", Of(c, n)), m) <=> m = "unknown"
  BY <1>1, OfFacts, WrapFacts
<1> QED
  BY <1>1, <1>2 DEF StatusOf

\* What a write the database refuses is answered with, also when UpdateQuest
\* passes it through checkWriteError twice: 400 or 500.
LEMMA WriteErrors ==
  ASSUME NEW c \in Conditions, NEW n \in Names, NEW e, e = Of(c, n)
  PROVE  /\ CheckWriteError(e) \in ErrorValue
         /\ CheckWriteError(CheckWriteError(e)) \in ErrorValue
         /\ StatusOf(CheckWriteError(e)) \in {400, 500}
         /\ StatusOf(CheckWriteError(CheckWriteError(e))) \in {400, 500}
<1>1. e \in ErrorValue
  BY OfFacts
<1>2. \A f \in ErrorValue : CheckWriteError(f) \in ErrorValue
  BY InvalidFacts, WrapFacts DEF CheckWriteError, Message
<1>3. StatusOf(CheckWriteError(e)) \in {400, 500}
  BY <1>1, InvalidFacts, UnknownStatus DEF CheckWriteError
<1> QED
  BY <1>1, <1>2, <1>3, CheckedTwice

LEMMA ReadErrors ==
  SelectError(NoRows) \in ErrorValue /\ SelectError(NoUuid) \in ErrorValue
<1>1. \A e \in ErrorValue : /\ Wrap("not_found", e) \in ErrorValue
                            /\ Wrap("unknown", e) \in ErrorValue
                            /\ Invalid(e) \in ErrorValue
  BY WrapFacts, InvalidFacts DEF Message
<1>2. ASSUME NEW e \in ErrorValue PROVE SelectError(e) \in ErrorValue
  <2> DEFINE uuid == e.cause = [condition |-> "invalid_text_representation", name |-> "uuid"]
  <2>1. CASE e.cause.condition = "no_rows"
    <3>1. ~uuid
      BY <2>1
    <3> QED
      BY <1>1, <2>1, <3>1 DEF SelectError
  <2>2. CASE uuid
    <3>1. e.cause.condition # "no_rows"
      BY <2>2
    <3> QED
      BY <1>1, <2>2, <3>1 DEF SelectError
  <2>3. CASE e.cause.condition # "no_rows" /\ ~uuid
    BY <1>1, <2>3 DEF SelectError
  <2> QED
    BY <2>1, <2>2, <2>3
<1> QED
  BY <1>2, NamedErrors

LEMMA OtherErrors ==
  /\ ErrForbidden \in ErrorValue /\ ErrNoSteps \in ErrorValue
  /\ Wrap("not_found", Failure) \in ErrorValue
  /\ Wrap("not_deleted", Wrap("not_found", Failure)) \in ErrorValue
  /\ DeleteError(Of("foreign_key_violation", "quest_to_email")) \in ErrorValue
<1>1. Message = Message \cup {"forbidden", "no_access", "validation", "no_steps",
                  "not_found", "not_deleted", "already_sent"}
  BY DEF Message
<1>2. \A e \in ErrorValue, m \in Message : Wrap(m, e) \in ErrorValue
  BY WrapFacts
<1>3. PICK e : e = Of("foreign_key_violation", "quest_to_email")
  OBVIOUS
<1>4. e \in ErrorValue /\ e.cause = [condition |-> "foreign_key_violation",
                                     name |-> "quest_to_email"]
  BY <1>3, OfFacts DEF Of, Conditions, Names
<1>5. DeleteError(e) = Wrap("already_sent", Wrap("validation", e))
  <2>1. /\ e.cause # [condition |-> "invalid_text_representation", name |-> "uuid"]
        /\ e.cause.name = "quest_to_email"
    BY <1>4
  <2> QED
    BY <2>1, Zenon DEF DeleteError
<1> QED
  BY <1>1, <1>2, <1>3, <1>4, <1>5, NamedErrors DEF ErrForbidden, ErrNoSteps

LEMMA RowsErrorIs ==
  ASSUME NEW r, req[r].body.refusal \in Conditions
  PROVE  \E c \in Conditions : RowsError(r) = Of(c, "none")
<1>1. "unique_violation" \in Conditions /\ "foreign_key_violation" \in Conditions
  BY DEF Conditions
<1>2. \/ RowsError(r) = Of(req[r].body.refusal, "none")
      \/ RowsError(r) = Of("unique_violation", "none")
      \/ RowsError(r) = Of("foreign_key_violation", "none")
  BY Zenon DEF RowsError
<1> QED
  BY <1>1, <1>2
--------------------------------------------------------------------------------
(* Type correctness, and what a request is and has done by the time it     *)
(* stands before a statement.                                              *)

\* Past the comparison of the owner with the user, or about a quest of one's own
\* making.
Past == {"update_quest", "delete_steps", "insert_steps", "delete_quest", "recheck",
         "insert_assignment", "user"}

RouteOK(x) ==
  /\ x.op \in {"create", "update"} <=> x.body # None
  /\ x.op = "send" <=> x.to # None
  /\ x.pc \notin {"quest", "reply"} => x.quest # None
  /\ x.pc = "steps" => x.row # None
  /\ x.pc = "insert_quest" => x.op = "create"
  /\ x.pc \in {"quest", "steps"} => x.op # "create"
  /\ x.pc = "insert_steps" => x.op \in {"create", "update"}
  /\ x.pc \in {"update_quest", "delete_steps"} => x.op = "update"
  /\ x.pc = "delete_quest" => x.op = "delete"
  /\ x.pc \in {"recheck", "insert_assignment", "user"} => x.op = "send"
  /\ x.pc # "reply" => x.err = None
  /\ x.wrote => x.pc \in {"delete_steps", "insert_steps", "user", "reply"}

\* The error e may be the answer to a request that has, or has not, written.
MayAnswer(e, op, wrote) ==
  /\ StatusOf(e) \in {403, 404} => ~wrote
  /\ StatusOf(e) = 400 /\ wrote => op \in {"create", "update"}

RequestOK(x) ==
  RouteOK(x) /\ (x.pc = "reply" /\ x.err # None => MayAnswer(x.err, x.op, x.wrote))

TypeInv == TypeOK /\ \A r \in Slot : req[r] # None => RequestOK(req[r])

RequestsOK ==
  /\ req \in [Slot -> Request \cup {None}]
  /\ \A r \in Slot : req[r] # None => RequestOK(req[r])

\* One request goes on, and stays the request of the same user about the same
\* quest.
Like(x, y) ==
  y.op = x.op /\ y.user = x.user /\ y.quest = x.quest /\ y.body = x.body /\ y.to = x.to

Goes(r, y) ==
  /\ y \in Request /\ RequestOK(y) /\ Like(req[r], y)
  /\ req' = [req EXCEPT ![r] = y]

LEMMA GoesType ==
  ASSUME TypeInv, NEW r \in Slot, NEW y, Goes(r, y)
  PROVE  /\ RequestsOK'
         /\ req'[r] = y /\ y # None
         /\ \A s \in Slot \ {r} : req'[s] = req[s]
<1>1. req \in [Slot -> Request \cup {None}]
  BY DEF TypeInv, TypeOK
<1>2. y # None
  BY NoneAssumption DEF Goes
<1> QED
  BY <1>1, <1>2 DEF Goes, RequestsOK, TypeInv

LEMMA ARequest ==
  ASSUME TypeInv, NEW r \in Slot, req[r] # None
  PROVE  req[r] \in Request /\ RequestOK(req[r])
BY DEF TypeInv, TypeOK

\* A handler returns with an error.
LEMMA RefuseGoes ==
  ASSUME TypeInv, NEW r \in Slot, req[r] # None, NEW e \in ErrorValue, Refuse(r, e),
         MayAnswer(e, req[r].op, req[r].wrote)
  PROVE  \E y : Goes(r, y) /\ y.pc = "reply" /\ y.err # None
<1>1. PICK x : x = req[r]
  OBVIOUS
<1>2. PICK y : y = [x EXCEPT !.pc = "reply", !.err = e, !.row = None]
  OBVIOUS
<1>3. x \in Request /\ RequestOK(x)
  BY <1>1, ARequest
<1>4. /\ y \in Request /\ Like(x, y)
      /\ y.pc = "reply" /\ y.err = e /\ y.wrote = x.wrote
  BY <1>2, <1>3 DEF Request, Like
<1>5. RequestOK(y)
  BY <1>1, <1>3, <1>4 DEF RequestOK, RouteOK, Like
<1>6. req' = [req EXCEPT ![r] = y]
  BY <1>1, <1>2 DEF Refuse, TypeInv, TypeOK
<1>7. y.err # None
  BY <1>4, NoneAssumption
<1> QED
  BY <1>1, <1>4, <1>5, <1>6, <1>7 DEF Goes

\* A refusal that comes before anything is written.
LEMMA RefuseUnwritten ==
  ASSUME TypeInv, NEW r \in Slot, req[r] # None, NEW e \in ErrorValue, Refuse(r, e),
         req[r].pc \notin {"delete_steps", "insert_steps", "user", "reply"}
  PROVE  \E y : Goes(r, y) /\ y.pc = "reply" /\ y.err # None
<1>1. ~req[r].wrote
  BY ARequest DEF RequestOK, RouteOK, Request
<1>2. MayAnswer(e, req[r].op, req[r].wrote)
  BY <1>1 DEF MayAnswer
<1> QED
  BY <1>2, RefuseGoes

\* A handler goes on to another statement, having written or not.
LEMMA GoGoes ==
  ASSUME TypeInv, NEW r \in Slot, req[r] # None,
         NEW pc \in Past \cup {"reply"}, NEW row \in {req[r].row, None},
         NEW w \in BOOLEAN, NEW y,
         y = [req[r] EXCEPT !.pc = pc, !.row = row, !.wrote = w],
         pc # "reply" => RouteOK(y),
         req[r].pc # "reply",
         req' = [req EXCEPT ![r] = y]
  PROVE  Goes(r, y)
<1>1. PICK x : x = req[r]
  OBVIOUS
<1>2. x \in Request /\ RequestOK(x)
  BY <1>1, ARequest
<1>3. /\ y \in Request /\ Like(x, y)
      /\ y.pc = pc /\ y.err = x.err /\ y.wrote = w
  <2>1. row \in Row \cup {None}
    BY <1>1, <1>2 DEF Request
  <2>2. y = [x EXCEPT !.pc = pc, !.row = row, !.wrote = w]
    BY <1>1
  <2>3. CASE w = TRUE
    BY <1>2, <2>1, <2>2, <2>3 DEF Request, Like, Past
  <2>4. CASE w = FALSE
    BY <1>2, <2>1, <2>2, <2>4 DEF Request, Like, Past
  <2> QED
    BY <2>3, <2>4
<1>4. CASE pc # "reply"
  BY <1>1, <1>3, <1>4 DEF RequestOK, Goes
<1>5. CASE pc = "reply"
  <2>1. RouteOK(y)
    BY <1>2, <1>3, <1>5 DEF RequestOK, RouteOK, Like
  <2>2. y.err = None
    BY <1>1, <1>2, <1>3, <1>5 DEF RequestOK, RouteOK
  <2> QED
    BY <1>1, <1>3, <2>1, <2>2 DEF RequestOK, Goes
<1> QED
  BY <1>4, <1>5
--------------------------------------------------------------------------------
(* What a step of a request does: how it leaves the request, where it came *)
(* from, and that it writes by one of the statements or not at all.        *)

\* The last statement before the answer y, when nothing went wrong.
EndsWith(r, y) ==
  \/ (InsertRow(r) \/ DeleteRows(r)) /\ DOMAIN req[r].body.steps = {}
  \/ InsertRows(r) \/ DeleteRow(r) \/ At(r, "user")
  \/ /\ At(r, "steps") /\ ~Forbidden(r) /\ req[r].op = "get" /\ y.row = req[r].row
     /\ \/ y.steps = steps[QuestOf(r)]
        \/ faults' > 0 /\ y.steps \in Parts(steps[QuestOf(r)])

Follows(r, y) ==
  /\ y.pc \notin {req[r].pc, "quest", "insert_quest"}
  /\ y.pc = "steps" => /\ At(r, "quest") /\ QuestOf(r) # None
                       /\ quests[QuestOf(r)] # None /\ y.row = quests[QuestOf(r)]
  /\ y.pc \in {"update_quest", "delete_quest", "recheck"} =>
       At(r, "steps") /\ ~Forbidden(r)
  /\ y.pc = "recheck" => Sendable(steps[QuestOf(r)])
  /\ y.pc = "delete_steps" => UpdateRow(r)
  /\ y.pc = "insert_steps" => DeleteRows(r) \/ InsertRow(r)
  /\ y.pc = "insert_assignment" => At(r, "recheck")
  /\ y.pc = "user" => InsertAsg(r)
  /\ y.pc = "reply" /\ y.err = None => EndsWith(r, y)

Moves(r) ==
  /\ req[r] # None
  /\ Write(r) \/ UNCHANGED tables
  /\ used' = used /\ sent' = sent
  /\ \/ req' = [req EXCEPT ![r] = None]
     \/ \E y : Goes(r, y) /\ Follows(r, y)
  /\ \/ mail' = mail
     \/ At(r, "user") /\ mail' = mail \cup {KeyOf(r)}

\* An error follows on any statement.
LEMMA ErrorFollows ==
  ASSUME NEW r \in Slot, req[r].pc # "reply",
         \E y : Goes(r, y) /\ y.pc = "reply" /\ y.err # None
  PROVE  \E y : Goes(r, y) /\ Follows(r, y)
BY DEF Follows

LEMMA Answered ==
  ASSUME TypeInv, NEW r \in Slot, req[r] # None, req[r].pc # "reply",
         NEW e \in ErrorValue, Refuse(r, e),
         MayAnswer(e, req[r].op, req[r].wrote)
  PROVE  \E y : Goes(r, y) /\ Follows(r, y)
BY RefuseGoes, ErrorFollows

LEMMA AnsweredUnwritten ==
  ASSUME TypeInv, NEW r \in Slot, req[r] # None, NEW e \in ErrorValue, Refuse(r, e),
         req[r].pc \notin {"delete_steps", "insert_steps", "user", "reply"}
  PROVE  \E y : Goes(r, y) /\ Follows(r, y)
BY RefuseUnwritten, ErrorFollows

\* The last statement has written, and the quest is marshalled.
LEMMA DoneGoes ==
  ASSUME TypeInv, NEW r \in Slot, req[r] # None, req[r].pc # "reply", Done(r),
         \/ (InsertRow(r) \/ DeleteRows(r)) /\ DOMAIN req[r].body.steps = {}
         \/ InsertRows(r)
  PROVE  \E y : Goes(r, y) /\ Follows(r, y)
<1>1. PICK x : x = req[r]
  OBVIOUS
<1>2. PICK e : e = Marshalled(x.body.content)
  OBVIOUS
<1>3. PICK y : y = [x EXCEPT !.pc = "reply", !.wrote = TRUE, !.err = e]
  OBVIOUS
<1>4. x \in Request /\ RequestOK(x)
  BY <1>1, ARequest
<1>5. e = None \/ (e = Failure /\ e \in ErrorValue /\ StatusOf(e) = 500)
  BY <1>2, NamedErrors DEF Marshalled
<1>6. /\ y \in Request /\ Like(x, y)
      /\ y.pc = "reply" /\ y.err = e /\ y.wrote = TRUE
  BY <1>3, <1>4, <1>5 DEF Request, Like
<1>7. RequestOK(y)
  BY <1>4, <1>5, <1>6 DEF RequestOK, RouteOK, Like, MayAnswer
<1>8. req' = [req EXCEPT ![r] = y]
  BY <1>1, <1>2, <1>3 DEF Done, TypeInv, TypeOK
<1>9. Follows(r, y)
  BY <1>6 DEF Follows, EndsWith
<1> QED
  BY <1>1, <1>6, <1>7, <1>8, <1>9 DEF Goes

\* A get is answered with the steps that arrived.
LEMMA ShowGoes ==
  ASSUME TypeInv, NEW r \in Slot, At(r, "steps"), NEW m \in StepMaps, Show(r, m),
         ~Forbidden(r), req[r].op = "get",
         \/ m = steps[QuestOf(r)]
         \/ faults' > 0 /\ m \in Parts(steps[QuestOf(r)])
  PROVE  \E y : Goes(r, y) /\ Follows(r, y)
<1>1. PICK x : x = req[r]
  OBVIOUS
<1>2. PICK e : e = Marshalled(x.row.content)
  OBVIOUS
<1>3. PICK y : y = [x EXCEPT !.pc = "reply", !.steps = m, !.err = e]
  OBVIOUS
<1>4. x \in Request /\ RequestOK(x)
  BY <1>1, ARequest DEF At
<1>5. e = None \/ (e = Failure /\ e \in ErrorValue /\ StatusOf(e) = 500)
  BY <1>2, NamedErrors DEF Marshalled
<1>6. /\ y \in Request /\ Like(x, y)
      /\ y.pc = "reply" /\ y.err = e /\ y.row = x.row /\ y.steps = m
  <2>1. e \in ErrorValue \cup {None}
    BY <1>5
  <2> QED
    BY <1>3, <1>4, <2>1 DEF Request, Like
<1>7. RequestOK(y)
  BY <1>4, <1>5, <1>6 DEF Request, RequestOK, RouteOK, Like, MayAnswer
<1>8. req' = [req EXCEPT ![r] = y]
  BY <1>1, <1>2, <1>3 DEF Show, TypeInv, TypeOK
<1>9. Follows(r, y)
  BY <1>1, <1>6 DEF Follows, EndsWith, At
<1> QED
  BY <1>1, <1>6, <1>7, <1>8, <1>9 DEF Goes

\* A handler has written and goes on.
LEMMA WroteGoes ==
  ASSUME TypeInv, NEW r \in Slot, req[r] # None,
         NEW pc \in {"delete_steps", "insert_steps", "user", "reply"}, Wrote(r, pc),
         pc \in {"delete_steps"} => req[r].op = "update",
         pc \in {"insert_steps"} => req[r].op \in {"create", "update"},
         pc \in {"user"} => req[r].op = "send",
         req[r].pc # "reply", pc # "reply" => req[r].quest # None
  PROVE  \E y : Goes(r, y) /\ y.pc = pc
<1>1. PICK x : x = req[r]
  OBVIOUS
<1>2. PICK y : y = [x EXCEPT !.pc = pc, !.wrote = TRUE]
  OBVIOUS
<1>3. x \in Request /\ RequestOK(x)
  BY <1>1, ARequest
<1>4. /\ y \in Request /\ Like(x, y)
      /\ y.pc = pc /\ y.err = x.err /\ y.wrote = TRUE
  BY <1>2, <1>3 DEF Request, Like
<1>5. RequestOK(y)
  BY <1>1, <1>3, <1>4 DEF RequestOK, RouteOK, Like
<1>6. req' = [req EXCEPT ![r] = y]
  BY <1>1, <1>2 DEF Wrote, TypeInv, TypeOK
<1> QED
  BY <1>1, <1>4, <1>5, <1>6 DEF Goes

LEMMA InsertQuestMoves ==
  ASSUME TypeInv, NEW r \in Slot, InsertQuest(r)
  PROVE  Moves(r)
<1>1. /\ req[r] # None /\ At(r, "insert_quest")
      /\ req[r] \in Request /\ RequestOK(req[r])
      /\ req[r].op = "create" /\ req[r].quest # None
      /\ req[r].body \in BodyType
  BY ARequest DEF InsertQuest, InsertRow, At, RequestOK, RouteOK, Request
<1>2. /\ Write(r) \/ UNCHANGED tables
      /\ used' = used /\ sent' = sent /\ mail' = mail
  BY DEF InsertQuest, Write, Rest
<1>3. ASSUME InsertRow(r), DOMAIN req[r].body.steps = {}, Done(r)
      PROVE  \E y : Goes(r, y) /\ Follows(r, y)
  BY <1>1, <1>3, DoneGoes DEF At
<1>4. ASSUME InsertRow(r), Wrote(r, "insert_steps")
      PROVE  \E y : Goes(r, y) /\ Follows(r, y)
  <2>1. \E y : Goes(r, y) /\ y.pc = "insert_steps"
    BY <1>1, <1>4, WroteGoes DEF At
  <2> QED
    BY <1>1, <1>4, <2>1 DEF Follows, At
<1>5. ASSUME Refuse(r, CheckWriteError(Of(req[r].body.refusal, "none")))
      PROVE  \E y : Goes(r, y) /\ Follows(r, y)
  <2>1. CheckWriteError(Of(req[r].body.refusal, "none")) \in ErrorValue
    BY <1>1, WriteErrors DEF BodyType, Names
  <2> QED
    BY <1>1, <1>5, <2>1, AnsweredUnwritten DEF At
<1>6. \E y : Goes(r, y) /\ Follows(r, y)
  BY <1>3, <1>4, <1>5 DEF InsertQuest
<1> QED
  BY <1>1, <1>2, <1>6 DEF Moves

LEMMA InsertStepsMoves ==
  ASSUME TypeInv, NEW r \in Slot, InsertSteps(r)
  PROVE  Moves(r)
<1>1. /\ req[r] # None /\ At(r, "insert_steps")
      /\ req[r] \in Request /\ RequestOK(req[r])
      /\ req[r].op \in {"create", "update"}
      /\ req[r].body \in BodyType
  BY ARequest DEF InsertSteps, InsertRows, At, RequestOK, RouteOK, Request
<1>2. /\ Write(r) \/ UNCHANGED tables
      /\ used' = used /\ sent' = sent /\ mail' = mail
  BY DEF InsertSteps, Write, Rest
<1>3. ASSUME InsertRows(r), Done(r)
      PROVE  \E y : Goes(r, y) /\ Follows(r, y)
  BY <1>1, <1>3, DoneGoes DEF At
<1>4. PICK c \in Conditions : RowsError(r) = Of(c, "none")
  BY <1>1, RowsErrorIs DEF BodyType
<1>5. PICK e : e = CheckWriteError(RowsError(r))
  OBVIOUS
<1>6. PICK f : f = IF req[r].op = "update" THEN CheckWriteError(e) ELSE e
  OBVIOUS
<1>7. f \in ErrorValue /\ StatusOf(f) \in {400, 500}
  BY <1>4, <1>5, <1>6, WriteErrors DEF Names
<1>8. MayAnswer(f, req[r].op, req[r].wrote)
  BY <1>1, <1>7 DEF MayAnswer
<1>9. ASSUME Refuse(r, f)
      PROVE  \E y : Goes(r, y) /\ Follows(r, y)
  BY <1>1, <1>7, <1>8, <1>9, Answered DEF At
<1>10. \E y : Goes(r, y) /\ Follows(r, y)
  BY <1>3, <1>5, <1>6, <1>9 DEF InsertSteps
<1> QED
  BY <1>1, <1>2, <1>10 DEF Moves

LEMMA ReadQuestMoves ==
  ASSUME TypeInv, NEW r \in Slot, ReadQuest(r)
  PROVE  Moves(r)
<1>1. /\ req[r] # None /\ At(r, "quest")
      /\ req[r] \in Request /\ RequestOK(req[r])
      /\ req[r].op # "create"
  BY ARequest DEF ReadQuest, At, RequestOK, RouteOK
<1>2. /\ UNCHANGED tables
      /\ used' = used /\ sent' = sent /\ mail' = mail
  BY DEF ReadQuest, Rest
<1>3. ASSUME NEW e \in ErrorValue, Refuse(r, e)
      PROVE  \E y : Goes(r, y) /\ Follows(r, y)
  BY <1>1, <1>3, AnsweredUnwritten DEF At
<1>4. ASSUME QuestOf(r) # None, quests[QuestOf(r)] # None,
             req' = [req EXCEPT ![r].pc = "steps", ![r].row = quests[QuestOf(r)]]
      PROVE  \E y : Goes(r, y) /\ Follows(r, y)
  <2>1. PICK x : x = req[r]
    OBVIOUS
  <2>2. PICK row : row = quests[QuestOf(r)]
    OBVIOUS
  <2>3. PICK y : y = [x EXCEPT !.pc = "steps", !.row = row]
    OBVIOUS
  <2>4. row \in Row /\ row # None
    BY <1>1, <1>4, <2>2 DEF QuestOf, Request, TypeInv, TypeOK, TablesOK
  <2>5. /\ y \in Request /\ Like(x, y) /\ y.pc = "steps" /\ y.row = row
        /\ y.err = x.err
    BY <1>1, <2>1, <2>3, <2>4 DEF Request, Like
  <2>6. ~x.wrote /\ x.err = None
    BY <1>1, <2>1 DEF RequestOK, RouteOK, At
  <2>7. ~y.wrote
    BY <1>1, <2>1, <2>3, <2>6 DEF Request
  <2>8. RequestOK(y)
    BY <1>1, <1>4, <2>1, <2>4, <2>5, <2>6, <2>7 DEF RequestOK, RouteOK, Like, QuestOf
  <2>9. req' = [req EXCEPT ![r] = y]
    BY <1>4, <2>1, <2>2, <2>3 DEF TypeInv, TypeOK
  <2>10. Goes(r, y)
    BY <2>1, <2>5, <2>8, <2>9 DEF Goes
  <2>11. Follows(r, y)
    BY <1>1, <1>4, <2>2, <2>5 DEF Follows, At
  <2> QED
    BY <2>10, <2>11
<1>5. \E y : Goes(r, y) /\ Follows(r, y)
  BY <1>3, <1>4, ReadErrors DEF ReadQuest
<1> QED
  BY <1>1, <1>2, <1>5 DEF Moves

\* GoOn, with the request that was read compared.
LEMMA GoOnGoes ==
  ASSUME TypeInv, NEW r \in Slot, At(r, "steps"), ~Forbidden(r),
         NEW pc \in {"update_quest", "delete_quest", "recheck"}, GoOn(r, pc),
         pc = "update_quest" => req[r].op = "update",
         pc = "delete_quest" => req[r].op = "delete",
         pc = "recheck" => req[r].op = "send" /\ Sendable(steps[QuestOf(r)])
  PROVE  \E y : Goes(r, y) /\ Follows(r, y)
<1>1. PICK x : x = req[r]
  OBVIOUS
<1>2. PICK y : y = [x EXCEPT !.pc = pc, !.row = None]
  OBVIOUS
<1>3. x \in Request /\ RequestOK(x) /\ x.pc = "steps"
  BY <1>1, ARequest DEF At
<1>4. /\ y \in Request /\ Like(x, y) /\ y.pc = pc /\ y.err = x.err
      /\ y.wrote = x.wrote
  BY <1>2, <1>3 DEF Request, Like
<1>5. ~y.wrote /\ x.err = None /\ x.quest # None
  BY <1>3, <1>4 DEF RequestOK, RouteOK
<1>6. RequestOK(y)
  BY <1>1, <1>3, <1>4, <1>5 DEF RequestOK, RouteOK, Like
<1>7. req' = [req EXCEPT ![r] = y]
  BY <1>1, <1>2 DEF GoOn, TypeInv, TypeOK
<1>8. Goes(r, y)
  BY <1>1, <1>4, <1>6, <1>7 DEF Goes
<1>9. Follows(r, y)
  BY <1>1, <1>3, <1>4 DEF Follows
<1> QED
  BY <1>8, <1>9

LEMMA ReadStepsMoves ==
  ASSUME TypeInv, NEW r \in Slot, ReadSteps(r)
  PROVE  Moves(r)
<1>1. /\ req[r] # None /\ At(r, "steps")
      /\ req[r] \in Request /\ req[r].quest \in Quest
  BY ARequest DEF ReadSteps, At, RequestOK, RouteOK, Request
<1>2. /\ UNCHANGED tables
      /\ used' = used /\ sent' = sent /\ mail' = mail
  BY DEF ReadSteps, Rest
<1>3. PICK m : m = steps[QuestOf(r)]
  OBVIOUS
<1>4. m \in StepMaps
  BY <1>1, <1>3 DEF QuestOf, TypeInv, TypeOK, TablesOK
<1>5. ASSUME NEW e \in ErrorValue, Refuse(r, e)
      PROVE  \E y : Goes(r, y) /\ Follows(r, y)
  BY <1>1, <1>5, AnsweredUnwritten DEF At
<1>6. ~Forbidden(r) /\ req[r].op = "get" /\ Show(r, m) => \E y : Goes(r, y) /\ Follows(r, y)
  BY <1>1, <1>3, <1>4, ShowGoes
<1>7. \E y : Goes(r, y) /\ Follows(r, y)
  BY <1>1, <1>3, <1>5, <1>6, OtherErrors, GoOnGoes DEF ReadSteps
<1> QED
  BY <1>1, <1>2, <1>7 DEF Moves

LEMMA UpdateQuestMoves ==
  ASSUME TypeInv, NEW r \in Slot, UpdateQuest(r)
  PROVE  Moves(r)
<1>1. /\ req[r] # None /\ At(r, "update_quest")
      /\ req[r] \in Request /\ RequestOK(req[r])
      /\ req[r].op = "update" /\ req[r].quest # None
      /\ req[r].body \in BodyType
  BY ARequest DEF UpdateQuest, UpdateRow, At, RequestOK, RouteOK, Request
<1>2. /\ Write(r) \/ UNCHANGED tables
      /\ used' = used /\ sent' = sent /\ mail' = mail
  BY DEF UpdateQuest, Write, Rest
<1>3. ASSUME UpdateRow(r), Wrote(r, "delete_steps")
      PROVE  \E y : Goes(r, y) /\ Follows(r, y)
  <2>1. \E y : Goes(r, y) /\ y.pc = "delete_steps"
    BY <1>1, <1>3, WroteGoes DEF At
  <2> QED
    BY <1>1, <1>3, <2>1 DEF Follows, At
<1>4. ASSUME NEW e \in ErrorValue, Refuse(r, e)
      PROVE  \E y : Goes(r, y) /\ Follows(r, y)
  BY <1>1, <1>4, AnsweredUnwritten DEF At
<1>5. /\ Wrap("not_found", Failure) \in ErrorValue
      /\ CheckWriteError(Of(req[r].body.refusal, "none")) \in ErrorValue
  BY <1>1, OtherErrors, WriteErrors DEF BodyType, Names
<1>6. \E y : Goes(r, y) /\ Follows(r, y)
  BY <1>3, <1>4, <1>5 DEF UpdateQuest
<1> QED
  BY <1>1, <1>2, <1>6 DEF Moves

LEMMA DeleteStepsMoves ==
  ASSUME TypeInv, NEW r \in Slot, DeleteSteps(r)
  PROVE  Moves(r)
<1>1. /\ req[r] # None /\ At(r, "delete_steps")
      /\ req[r] \in Request /\ RequestOK(req[r])
      /\ req[r].op = "update" /\ req[r].quest # None
  BY ARequest DEF DeleteSteps, DeleteRows, At, RequestOK, RouteOK
<1>2. /\ Write(r) /\ DeleteRows(r)
      /\ used' = used /\ sent' = sent /\ mail' = mail
  BY DEF DeleteSteps, Write, Rest
<1>3. ASSUME Done(r), DOMAIN req[r].body.steps = {}
      PROVE  \E y : Goes(r, y) /\ Follows(r, y)
  BY <1>1, <1>2, <1>3, DoneGoes DEF At
<1>4. ASSUME Wrote(r, "insert_steps")
      PROVE  \E y : Goes(r, y) /\ Follows(r, y)
  <2>1. \E y : Goes(r, y) /\ y.pc = "insert_steps"
    BY <1>1, <1>4, WroteGoes DEF At
  <2> QED
    BY <1>1, <1>2, <2>1 DEF Follows, At
<1>5. \E y : Goes(r, y) /\ Follows(r, y)
  BY <1>3, <1>4 DEF DeleteSteps
<1> QED
  BY <1>1, <1>2, <1>5 DEF Moves

LEMMA DeleteQuestMoves ==
  ASSUME TypeInv, NEW r \in Slot, DeleteQuest(r)
  PROVE  Moves(r)
<1>1. /\ req[r] # None /\ At(r, "delete_quest")
      /\ req[r] \in Request /\ RequestOK(req[r])
  BY ARequest DEF DeleteQuest, DeleteRow, At
<1>2. /\ Write(r) \/ UNCHANGED tables
      /\ used' = used /\ sent' = sent /\ mail' = mail
  BY DEF DeleteQuest, Write, Rest
<1>3. ASSUME DeleteRow(r), Wrote(r, "reply")
      PROVE  \E y : Goes(r, y) /\ Follows(r, y)
  <2>1. \E y : Goes(r, y) /\ y.pc = "reply"
    BY <1>1, <1>3, WroteGoes DEF At
  <2> QED
    BY <1>1, <1>3, <2>1 DEF Follows, EndsWith, At
<1>4. ASSUME NEW e \in ErrorValue, Refuse(r, e)
      PROVE  \E y : Goes(r, y) /\ Follows(r, y)
  BY <1>1, <1>4, AnsweredUnwritten DEF At
<1>5. \E y : Goes(r, y) /\ Follows(r, y)
  BY <1>3, <1>4, OtherErrors DEF DeleteQuest
<1> QED
  BY <1>1, <1>2, <1>5 DEF Moves

LEMMA RecheckMoves ==
  ASSUME TypeInv, NEW r \in Slot, Recheck(r)
  PROVE  Moves(r)
<1>1. /\ req[r] # None /\ At(r, "recheck")
      /\ req[r] \in Request /\ RequestOK(req[r])
      /\ req[r].op = "send" /\ req[r].quest # None
  BY ARequest DEF Recheck, At, RequestOK, RouteOK
<1>2. /\ UNCHANGED tables
      /\ used' = used /\ sent' = sent /\ mail' = mail
  BY DEF Recheck, Rest
<1>3. ASSUME GoTo(r, "insert_assignment")
      PROVE  \E y : Goes(r, y) /\ Follows(r, y)
  <2>1. PICK x : x = req[r]
    OBVIOUS
  <2>2. PICK y : y = [x EXCEPT !.pc = "insert_assignment"]
    OBVIOUS
  <2>3. /\ y \in Request /\ Like(x, y) /\ y.pc = "insert_assignment"
        /\ y.err = x.err /\ y.wrote = x.wrote
    BY <1>1, <2>1, <2>2 DEF Request, Like
  <2>4. ~y.wrote /\ x.err = None
    BY <1>1, <2>1, <2>3 DEF RequestOK, RouteOK, At
  <2>5. RequestOK(y)
    BY <1>1, <2>1, <2>3, <2>4 DEF RequestOK, RouteOK, Like, At
  <2>6. req' = [req EXCEPT ![r] = y]
    BY <1>3, <2>1, <2>2 DEF GoTo, TypeInv, TypeOK
  <2> QED
    BY <1>1, <2>1, <2>3, <2>5, <2>6 DEF Goes, Follows, At
<1>4. ASSUME NEW e \in ErrorValue, Refuse(r, e)
      PROVE  \E y : Goes(r, y) /\ Follows(r, y)
  BY <1>1, <1>4, AnsweredUnwritten DEF At
<1>5. \E y : Goes(r, y) /\ Follows(r, y)
  BY <1>3, <1>4, ReadErrors DEF Recheck
<1> QED
  BY <1>1, <1>2, <1>5 DEF Moves

LEMMA CreateAssignmentMoves ==
  ASSUME TypeInv, NEW r \in Slot, CreateAssignment(r)
  PROVE  Moves(r)
<1>1. /\ req[r] # None /\ At(r, "insert_assignment")
      /\ req[r] \in Request /\ RequestOK(req[r])
      /\ req[r].op = "send" /\ req[r].quest # None
  BY ARequest DEF CreateAssignment, InsertAsg, At, RequestOK, RouteOK
<1>2. /\ Write(r) \/ UNCHANGED tables
      /\ used' = used /\ sent' = sent /\ mail' = mail
  BY DEF CreateAssignment, Write, Rest
<1>3. ASSUME InsertAsg(r), Wrote(r, "user")
      PROVE  \E y : Goes(r, y) /\ Follows(r, y)
  <2>1. \E y : Goes(r, y) /\ y.pc = "user"
    BY <1>1, <1>3, WroteGoes DEF At
  <2> QED
    BY <1>1, <1>3, <2>1 DEF Follows, At
<1>4. ASSUME NEW e \in ErrorValue, Refuse(r, e)
      PROVE  \E y : Goes(r, y) /\ Follows(r, y)
  BY <1>1, <1>4, AnsweredUnwritten DEF At
<1>5. PICK e : e = IF quests[QuestOf(r)] = None THEN Of("foreign_key_violation", "none")
                   ELSE Of("unique_violation", "quest_id_email_unique")
  OBVIOUS
<1>6. CheckWriteError(e) \in ErrorValue
  BY <1>5, WriteErrors DEF Conditions, Names
<1>7. \E y : Goes(r, y) /\ Follows(r, y)
  BY <1>3, <1>4, <1>5, <1>6 DEF CreateAssignment
<1> QED
  BY <1>1, <1>2, <1>7 DEF Moves

LEMMA InviteMoves ==
  ASSUME TypeInv, NEW r \in Slot, Invite(r)
  PROVE  Moves(r)
<1>1. /\ req[r] # None /\ At(r, "user")
      /\ req[r] \in Request /\ RequestOK(req[r])
  BY ARequest DEF Invite, At
<1>2. /\ UNCHANGED tables /\ used' = used /\ sent' = sent
      /\ mail' = mail \/ mail' = mail \cup {KeyOf(r)}
  BY DEF Invite
<1>3. PICK x : x = req[r]
  OBVIOUS
<1>4. PICK y : y = [x EXCEPT !.pc = "reply"]
  OBVIOUS
<1>5. y \in Request /\ Like(x, y) /\ y.pc = "reply" /\ y.err = x.err
  BY <1>1, <1>3, <1>4 DEF Request, Like
<1>6. y.err = None
  BY <1>1, <1>3, <1>5 DEF RequestOK, RouteOK, At
<1>7. RequestOK(y)
  BY <1>1, <1>3, <1>5, <1>6 DEF RequestOK, RouteOK, Like, At
<1>8. req' = [req EXCEPT ![r] = y]
  BY <1>3, <1>4 DEF Invite, GoTo, TypeInv, TypeOK
<1>9. Goes(r, y) /\ Follows(r, y)
  BY <1>1, <1>3, <1>5, <1>7, <1>8 DEF Goes, Follows, EndsWith, At
<1> QED
  BY <1>1, <1>2, <1>9 DEF Moves

LEMMA FailsMoves ==
  ASSUME TypeInv, NEW r \in Slot, StatementFails(r)
  PROVE  Moves(r)
<1>1. /\ req[r] # None /\ req[r].pc # "reply"
      /\ req[r] \in Request /\ RequestOK(req[r])
  BY ARequest DEF StatementFails
<1>2. used' = used /\ sent' = sent /\ mail' = mail
  BY DEF StatementFails, Fault
<1>3. PICK written \in BOOLEAN :
        /\ IF written THEN Write(r) ELSE UNCHANGED tables
        /\ req' = [req EXCEPT ![r].pc = "reply", ![r].err = Wrap("unknown", Failure),
                              ![r].row = None, ![r].wrote = @ \/ written]
  BY DEF StatementFails
<1>4. PICK x : x = req[r]
  OBVIOUS
<1>5. PICK e : e = Wrap("unknown", Failure)
  OBVIOUS
<1>6. PICK w : w = (x.wrote \/ written)
  OBVIOUS
<1>7. PICK y : y = [x EXCEPT !.pc = "reply", !.err = e, !.row = None, !.wrote = w]
  OBVIOUS
<1>8. e \in ErrorValue /\ StatusOf(e) = 500
  BY <1>5, UnknownStatus DEF Failure, Conditions, Names
<1>9. /\ y \in Request /\ Like(x, y) /\ y.pc = "reply" /\ y.err = e
  <2>1. w = TRUE \/ w = FALSE
    BY <1>6, Zenon
  <2>2. CASE w = TRUE
    BY <1>1, <1>4, <1>7, <1>8, <2>2 DEF Request, Like
  <2>3. CASE w = FALSE
    BY <1>1, <1>4, <1>7, <1>8, <2>3 DEF Request, Like
  <2> QED
    BY <2>1, <2>2, <2>3
<1>10. RequestOK(y)
  BY <1>1, <1>4, <1>8, <1>9 DEF RequestOK, RouteOK, Like, MayAnswer
<1>11. req' = [req EXCEPT ![r] = y]
  BY <1>3, <1>4, <1>5, <1>6, <1>7 DEF TypeInv, TypeOK
<1>12. Goes(r, y) /\ Follows(r, y)
  BY <1>1, <1>4, <1>8, <1>9, <1>10, <1>11, NoneAssumption DEF Goes, Follows
<1> QED
  BY <1>1, <1>2, <1>3, <1>12 DEF Moves

LEMMA CutStepsMoves ==
  ASSUME TypeInv, NEW r \in Slot, CutSteps(r)
  PROVE  Moves(r)
<1>1. /\ req[r] # None /\ At(r, "steps") /\ req[r].quest \in Quest
      /\ UNCHANGED tables
      /\ used' = used /\ sent' = sent /\ mail' = mail
  BY ARequest DEF CutSteps, Fault, At, RequestOK, RouteOK, Request
<1>2. PICK m \in Parts(steps[QuestOf(r)]) : Show(r, m)
  BY DEF CutSteps
<1>3. steps[QuestOf(r)] \in StepMaps
  BY <1>1 DEF QuestOf, TypeInv, TypeOK, TablesOK
<1>4. m \in StepMaps
  BY <1>3, PartsAssumption DEF Parts
<1>5. faults' > 0
  BY FaultsAssumption DEF CutSteps, Fault, TypeInv, TypeOK
<1>6. \E y : Goes(r, y) /\ Follows(r, y)
  BY <1>1, <1>2, <1>4, <1>5, ShowGoes DEF CutSteps
<1> QED
  BY <1>1, <1>6 DEF Moves

\* A step of a request that is in flight.
StepOf(r) == Handle(r) \/ Disconnect(r) \/ StatementFails(r) \/ CutSteps(r)

LEMMA StepMoves ==
  ASSUME TypeInv, NEW r \in Slot, StepOf(r)
  PROVE  Moves(r)
<1>1. CASE Reply(r)
  BY <1>1 DEF Reply, Rest, Moves, At
<1>2. CASE Disconnect(r)
  BY <1>2 DEF Disconnect, Fault, Moves
<1> QED
  BY <1>1, <1>2, InsertQuestMoves, InsertStepsMoves, ReadQuestMoves, ReadStepsMoves,
     UpdateQuestMoves, DeleteStepsMoves, DeleteQuestMoves, RecheckMoves,
     CreateAssignmentMoves, InviteMoves, FailsMoves, CutStepsMoves
  DEF StepOf, Handle
--------------------------------------------------------------------------------
(* The tables stay well formed.                                            *)

LEMMA WriteType ==
  ASSUME TypeInv, NEW r \in Slot, Write(r) \/ UNCHANGED tables
  PROVE  TablesOK'
<1>0. TablesOK
  BY DEF TypeInv, TypeOK
<1>1. CASE UNCHANGED tables
  BY <1>0, <1>1 DEF tables, TablesOK
<1>2. CASE Write(r)
  <2>1. /\ req[r] # None /\ req[r] \in Request /\ RequestOK(req[r])
        /\ req[r].pc \notin {"quest", "reply"}
    BY <1>2, ARequest DEF Write, InsertRow, InsertRows, UpdateRow, DeleteRows, DeleteRow,
       InsertAsg, At
  <2>2. /\ QuestOf(r) \in Quest /\ req[r].user \in User
        /\ req[r].op \in {"create", "update"} => req[r].body \in BodyType
        /\ req[r].op = "send" => KeyOf(r) \in Key
    BY <2>1 DEF QuestOf, KeyOf, Key, Request, RequestOK, RouteOK
  <2>3. CASE InsertRow(r)
    <3>1. req[r].op = "create"
      BY <2>1, <2>3 DEF InsertRow, At, RequestOK, RouteOK
    <3> QED
      BY <1>0, <2>2, <2>3, <3>1 DEF InsertRow, TablesOK, Row, BodyType
  <2>4. CASE UpdateRow(r)
    <3>1. req[r].op = "update" /\ quests[QuestOf(r)] \in Row
      BY <1>0, <2>1, <2>2, <2>4 DEF UpdateRow, At, RequestOK, RouteOK, TablesOK
    <3>2. req[r].body.content \in Content /\ req[r].body.described \in BOOLEAN
      BY <2>2, <3>1 DEF BodyType
    <3>3. [quests[QuestOf(r)] EXCEPT !.content = req[r].body.content,
                                     !.described = req[r].body.described] \in Row
      BY <3>1, <3>2 DEF Row
    <3> QED
      BY <1>0, <2>2, <2>4, <3>3 DEF UpdateRow, TablesOK
  <2>5. CASE InsertRows(r)
    <3>1. req[r].op \in {"create", "update"}
      BY <2>1, <2>5 DEF InsertRows, At, RequestOK, RouteOK
    <3>2. /\ steps[QuestOf(r)] \in StepMaps /\ req[r].body.steps \in StepMaps
          /\ DOMAIN steps[QuestOf(r)] \cap DOMAIN req[r].body.steps = {}
      BY <1>0, <2>2, <2>5, <3>1 DEF InsertRows, RowsAccepted, TablesOK, BodyType
    <3>3. Both(steps[QuestOf(r)], req[r].body.steps) \in StepMaps
      BY <3>2, MixAssumption
    <3> QED
      BY <1>0, <2>2, <2>5, <3>3 DEF InsertRows, TablesOK
  <2>6. CASE DeleteRows(r) \/ DeleteRow(r)
    BY <1>0, <2>2, <2>6, MixAssumption DEF DeleteRows, DeleteRow, TablesOK
  <2>7. CASE InsertAsg(r)
    <3>1. req[r].op = "send"
      BY <2>1, <2>7 DEF InsertAsg, At, RequestOK, RouteOK
    <3>2. NewAssignment \in Assignment
      BY DEF NewAssignment, Assignment, Statuses
    <3> QED
      BY <1>0, <2>2, <2>7, <3>1, <3>2 DEF InsertAsg, TablesOK
  <2> QED
    BY <1>2, <2>3, <2>4, <2>5, <2>6, <2>7 DEF Write
<1> QED
  BY <1>1, <1>2
--------------------------------------------------------------------------------
(* A new request: it stands before its first statement, and the id of a    *)
(* quest to be created was not handed out before.                          *)

Comes(r, y) ==
  /\ req[r] = None
  /\ y \in Request /\ RequestOK(y) /\ y.body \in Body \cup {None}
  /\ ~Overlap => \A s \in Slot : req[s] # None => req[s].user # y.user
  /\ req' = [req EXCEPT ![r] = y]
  /\ \/ y.pc = "quest" /\ used' = used
     \/ y.pc = "insert_quest" /\ y.quest \notin used /\ used' = used \cup {y.quest}

LEMMA SubmitComes ==
  ASSUME TypeInv, NEW r \in Slot, SendRequest(r)
  PROVE  /\ \E y : Comes(r, y)
         /\ UNCHANGED <<quests, steps, asg, mail, sent, faults>>
<1>1. PICK op \in {"create", "get", "update", "delete", "send"}, u \in User,
           q \in Quest \cup {None}, b \in Body \cup {None}, to \in User \cup {None} :
             Submit(r, op, u, q, b, to)
  BY DEF SendRequest
<1>2. PICK pc : pc = IF op = "create" THEN "insert_quest" ELSE "quest"
  OBVIOUS
<1>3. PICK y : y = [op |-> op, user |-> u, quest |-> q, body |-> b, to |-> to, pc |-> pc,
                    row |-> None, steps |-> None, err |-> None, wrote |-> FALSE]
  OBVIOUS
<1>4. b \in BodyType \cup {None}
  BY BodyAssumption
<1>5. y \in Request
  BY <1>2, <1>3, <1>4 DEF Request
<1>6. RequestOK(y)
  BY <1>1, <1>2, <1>3 DEF Submit, RequestOK, RouteOK
<1>7. req' = [req EXCEPT ![r] = y]
  BY <1>1, <1>2, <1>3 DEF Submit
<1>8. Comes(r, y)
  BY <1>1, <1>2, <1>3, <1>5, <1>6, <1>7 DEF Submit, Comes
<1> QED
  BY <1>1, <1>8 DEF Submit, tables

\* All steps of the specification, by what they do.
LEMMA Steps ==
  ASSUME TypeInv, Next
  PROVE  \/ \E r \in Slot : /\ \E y : Comes(r, y)
                            /\ UNCHANGED <<quests, steps, asg, mail, sent, faults>>
         \/ \E r \in Slot : StepOf(r)
         \/ \E k \in mail : /\ mail' = mail \ {k}
                            /\ sent' = sent \/ sent' = sent \cup {k}
                            /\ UNCHANGED <<quests, steps, asg, req, used>>
         \/ /\ req' = [r \in Slot |-> None] /\ mail' = {}
            /\ UNCHANGED <<quests, steps, asg, used, sent>>
<1>1. CASE \E r \in Slot : SendRequest(r)
  BY <1>1, SubmitComes
<1>2. CASE \E r \in Slot : StepOf(r)
  BY <1>2
<1>3. CASE \E k \in Key : SendEmail(k) \/ MailFails(k)
  BY <1>3 DEF SendEmail, MailFails, Fault, tables
<1>4. CASE Crash
  BY <1>4 DEF Crash, Fault, tables
<1> QED
  BY <1>1, <1>2, <1>3, <1>4 DEF Next, Step, StepOf

LEMMA FaultsCounted ==
  ASSUME TypeInv, Next
  PROVE  faults' \in 0..MaxFaults /\ faults' >= faults
<1>1. faults \in 0..MaxFaults /\ MaxFaults \in Nat
  BY FaultsAssumption DEF TypeInv, TypeOK
<1>2. faults' = faults \/ (faults < MaxFaults /\ faults' = faults + 1)
  <2>1. ASSUME NEW r \in Slot, SendRequest(r)
        PROVE  faults' = faults
    BY <2>1, SubmitComes
  <2>2. ASSUME NEW r \in Slot, Handle(r)
        PROVE  faults' = faults
    BY <2>2 DEF Handle, InsertQuest, InsertSteps, ReadQuest, ReadSteps, UpdateQuest,
       DeleteSteps, DeleteQuest, Recheck, CreateAssignment, Invite, Reply, Rest
  <2> QED
    BY <2>1, <2>2
    DEF Next, Step, Disconnect, StatementFails, CutSteps, SendEmail, MailFails, Crash, Fault
<1> QED
  BY <1>1, <1>2

LEMMA MovesType ==
  ASSUME TypeInv, NEW r \in Slot, Moves(r)
  PROVE  TablesOK' /\ RequestsOK' /\ used' = used /\ mail' \subseteq Key /\ sent' = sent
<1>1. TablesOK'
  BY WriteType DEF Moves
<1>2. RequestsOK'
  BY GoesType DEF Moves, RequestsOK, TypeInv, TypeOK
<1>3. mail' \subseteq Key
  <2>1. At(r, "user") => KeyOf(r) \in Key
    BY ARequest DEF At, KeyOf, Key, Request, RequestOK, RouteOK
  <2> QED
    BY <2>1 DEF Moves, TypeInv, TypeOK
<1> QED
  BY <1>1, <1>2, <1>3 DEF Moves

LEMMA TypeIsStable == TypeInv /\ UNCHANGED vars => TypeInv'
BY DEF TypeInv, TypeOK, TablesOK, vars

LEMMA NextType ==
  ASSUME TypeInv, [Next]_vars
  PROVE  TypeInv'
<1>1. CASE UNCHANGED vars
  BY <1>1, TypeIsStable
<1>2. CASE Next
  <2>0. faults' \in 0..MaxFaults
    BY <1>2, FaultsCounted
  <2>1. ASSUME NEW r \in Slot, NEW y, Comes(r, y),
               UNCHANGED <<quests, steps, asg, mail, sent, faults>>
        PROVE  TypeInv'
    <3>1. y # None
      BY <2>1, NoneAssumption DEF Comes
    <3>2. used' \subseteq Quest
      BY <2>1 DEF Comes, Request, RequestOK, RouteOK, TypeInv, TypeOK
    <3> QED
      BY <2>0, <2>1, <3>1, <3>2 DEF Comes, TypeInv, TypeOK, TablesOK
  <2>2. ASSUME NEW r \in Slot, StepOf(r)
        PROVE  TypeInv'
    BY <2>0, <2>2, StepMoves, MovesType DEF RequestsOK, TypeInv, TypeOK
  <2>3. ASSUME NEW k \in mail, mail' = mail \ {k}, sent' = sent \/ sent' = sent \cup {k},
               UNCHANGED <<quests, steps, asg, req, used>>
        PROVE  TypeInv'
    BY <2>0, <2>3 DEF TypeInv, TypeOK, TablesOK
  <2>4. ASSUME req' = [r \in Slot |-> None], mail' = {},
               UNCHANGED <<quests, steps, asg, used, sent>>
        PROVE  TypeInv'
    BY <2>0, <2>4 DEF TypeInv, TypeOK, TablesOK
  <2> QED
    BY <1>2, <2>1, <2>2, <2>3, <2>4, Steps
<1> QED
  BY <1>1, <1>2

LEMMA InitType == Init => TypeInv
BY MixAssumption, FaultsAssumption DEF Init, TypeInv, TypeOK, TablesOK

(* Type correctness, with the owner's requests about quests that are there *)
(* or not, overlapping or not.                                             *)
THEOREM TypeCorrect == Spec => []TypeOK
<1>1. Spec => []TypeInv
  BY InitType, NextType, PTL DEF Spec
<1>2. TypeInv => TypeOK
  BY DEF TypeInv
<1> QED
  BY <1>1, <1>2, PTL

(***************************************************************************)
(* The status of an answer tells what was done: 403 and 404 that nothing   *)
(* was changed, 400 that at most a quest was saved without its steps.      *)
(***************************************************************************)
THEOREM StatusesTell == Spec => []StatusTells
<1>1. Spec => []TypeInv
  BY InitType, NextType, PTL DEF Spec
<1>2. TypeInv => StatusTells
  BY DEF TypeInv, RequestOK, MayAnswer, StatusTells, At
<1> QED
  BY <1>1, <1>2, PTL
--------------------------------------------------------------------------------
(* Ids, owners and invitations: what the requests in flight have to do     *)
(* with the tables and with one another.                                   *)

\* The request has looked at its quest, or is about to create it.
Busy(r) == req[r] # None /\ req[r].pc \notin {"quest", "reply"}

\* An id is handed out once: until the quest is created, no other request gets
\* beyond looking for it.
Handed ==
  /\ \A q \in Quest : quests[q] # None => q \in used
  /\ \A r \in Slot : Busy(r) => QuestOf(r) \in used
  /\ \A r \in Slot : At(r, "insert_quest") => quests[QuestOf(r)] = None
  /\ \A r, s \in Slot :
       r # s /\ At(r, "insert_quest") /\ Busy(s) => QuestOf(s) # QuestOf(r)

\* What a request read or compared of the owner is still so, if the quest is
\* still there.
OwnerKnown(r) ==
  Busy(r) /\ quests[QuestOf(r)] # None =>
    /\ req[r].pc = "steps" => req[r].row.owner = quests[QuestOf(r)].owner
    /\ req[r].pc \in Past => req[r].user = quests[QuestOf(r)].owner

\* A request about to start the goroutine that mails is the only one of its
\* recipient, and the first.
Inviting ==
  /\ \A r \in Slot : At(r, "user") => asg[KeyOf(r)] # None /\ KeyOf(r) \notin mail \cup sent
  /\ \A r, s \in Slot : r # s /\ At(r, "user") /\ At(s, "user") => KeyOf(r) # KeyOf(s)

AuthorInv ==
  /\ TypeInv
  /\ NoOrphans
  /\ Handed
  /\ \A r \in Slot : OwnerKnown(r)
  /\ InviteOnce /\ Inviting

LEMMA BusyQuest ==
  ASSUME TypeInv, NEW r \in Slot, Busy(r)
  PROVE  /\ QuestOf(r) \in Quest
         /\ At(r, "user") \/ At(r, "insert_assignment") => KeyOf(r) \in Key
BY ARequest DEF Busy, At, QuestOf, KeyOf, Key, Request, RequestOK, RouteOK

\* One statement writes quests, the one the request stands before.
LEMMA WriteAt ==
  ASSUME NEW r \in Slot, Write(r)
  PROVE  /\ Busy(r) /\ req[r].pc # "steps" /\ ~At(r, "recheck") /\ ~At(r, "user")
         /\ InsertRow(r) <=> At(r, "insert_quest")
         /\ InsertAsg(r) <=> At(r, "insert_assignment")
         /\ DeleteRow(r) <=> At(r, "delete_quest")
BY DEF Write, InsertRow, InsertRows, UpdateRow, DeleteRows, DeleteRow, InsertAsg, At, Busy

\* A quest that is there after a step was there, with its owner, or it has been
\* created by the user of the request.
LEMMA WriteOwners ==
  ASSUME TypeInv, Handed, NEW r \in Slot, Write(r) \/ UNCHANGED tables,
         NEW q \in Quest, quests'[q] # None
  PROVE  \/ quests[q] # None /\ quests'[q].owner = quests[q].owner
         \/ /\ quests[q] = None /\ InsertRow(r) /\ At(r, "insert_quest")
            /\ q = QuestOf(r) /\ quests'[q].owner = req[r].user
<1>0. quests \in [Quest -> Row \cup {None}] /\ quests' \in [Quest -> Row \cup {None}]
  BY WriteType DEF TypeInv, TypeOK, TablesOK
<1>1. CASE UNCHANGED tables
  BY <1>1 DEF tables
<1>2. CASE InsertRow(r)
  <2>1. At(r, "insert_quest") /\ Busy(r)
    BY <1>2 DEF InsertRow, At, Busy
  <2>2. QuestOf(r) \in Quest /\ quests[QuestOf(r)] = None
    BY <2>1, BusyQuest DEF Handed
  <2> QED
    BY <1>0, <1>2, <2>1, <2>2 DEF InsertRow
<1>3. CASE UpdateRow(r)
  <2>1. QuestOf(r) \in Quest
    BY <1>3, BusyQuest DEF UpdateRow, At, Busy
  <2>2. quests[QuestOf(r)] \in Row
    BY <1>0, <1>3, <2>1 DEF UpdateRow
  <2> QED
    BY <1>0, <1>3, <2>1, <2>2 DEF UpdateRow, Row
<1>4. CASE InsertRows(r) \/ DeleteRows(r) \/ InsertAsg(r)
  BY <1>4 DEF InsertRows, DeleteRows, InsertAsg
<1>5. CASE DeleteRow(r)
  BY <1>0, <1>5 DEF DeleteRow
<1> QED
  BY <1>1, <1>2, <1>3, <1>4, <1>5 DEF Write

\* The requests after a step, as far as Handed depends on them.
LEMMA MovesBusy ==
  ASSUME TypeInv, NEW r \in Slot, Moves(r), NEW s \in Slot
  PROVE  /\ At(s, "insert_quest")' => s # r /\ At(s, "insert_quest") /\ req'[s] = req[s]
         /\ Busy(s)' => /\ QuestOf(s)' = QuestOf(s) /\ KeyOf(s)' = KeyOf(s)
                        /\ Busy(s) \/ (s = r /\ QuestOf(s) \in Quest /\ quests[QuestOf(s)] # None)
<1>1. CASE req' = [req EXCEPT ![r] = None]
  BY <1>1 DEF At, Busy, QuestOf, KeyOf, TypeInv, TypeOK
<1>2. ASSUME NEW y, Goes(r, y), Follows(r, y)
      PROVE  /\ At(s, "insert_quest")' => s # r /\ At(s, "insert_quest") /\ req'[s] = req[s]
             /\ Busy(s)' => /\ QuestOf(s)' = QuestOf(s) /\ KeyOf(s)' = KeyOf(s)
                            /\ Busy(s) \/ (s = r /\ QuestOf(s) \in Quest /\ quests[QuestOf(s)] # None)
  <2>1. /\ req'[r] = y /\ \A t \in Slot \ {r} : req'[t] = req[t]
        /\ req[r] \in Request
    BY <1>2, GoesType, ARequest DEF Moves
  <2>2. CASE s # r
    BY <2>1, <2>2 DEF At, Busy, QuestOf, KeyOf
  <2>3. CASE s = r
    <3>1. y.pc # "insert_quest" /\ y.quest = req[r].quest /\ y.to = req[r].to
      BY <1>2 DEF Goes, Like, Follows
    <3>2. /\ ~At(r, "insert_quest")'
          /\ QuestOf(r)' = QuestOf(r) /\ KeyOf(r)' = KeyOf(r)
      BY <2>1, <3>1 DEF At, QuestOf, KeyOf
    <3>3. ASSUME ~Busy(r), Busy(r)'
          PROVE  QuestOf(r) \in Quest /\ quests[QuestOf(r)] # None
      <4>1. req[r].pc \in {"quest", "reply"} /\ y.pc \notin {"quest", "reply"}
        BY <2>1, <3>3 DEF Busy, Moves
      <4>2. y.pc \in {"steps", "insert_quest", "insert_steps", "update_quest",
                      "delete_steps", "delete_quest", "recheck", "insert_assignment",
                      "user"}
        BY <1>2, <4>1 DEF Goes, Request
      <4>3. y.pc = "steps"
        BY <1>2, <4>1, <4>2 DEF Follows, At, InsertRow, UpdateRow, DeleteRows, InsertAsg
      <4> QED
        BY <1>2, <2>1, <4>3 DEF Follows, QuestOf, Request
    <3> QED
      BY <2>3, <3>2, <3>3
  <2> QED
    BY <2>2, <2>3
<1> QED
  BY <1>1, <1>2 DEF Moves

LEMMA MovesHanded ==
  ASSUME TypeInv, Handed, NEW r \in Slot, Moves(r)
  PROVE  Handed'
<1>0. used' = used /\ (Write(r) \/ UNCHANGED tables)
  BY DEF Moves
<1>1. ASSUME NEW q \in Quest, quests'[q] # None
      PROVE  q \in used'
  BY <1>0, <1>1, WriteOwners DEF Handed, Busy, At
<1>2. ASSUME NEW s \in Slot, Busy(s)'
      PROVE  QuestOf(s)' \in used'
  BY <1>0, <1>2, MovesBusy DEF Handed
<1>3. ASSUME NEW s \in Slot, At(s, "insert_quest")'
      PROVE  quests'[QuestOf(s)'] = None
  <2>1. s # r /\ At(s, "insert_quest") /\ QuestOf(s)' = QuestOf(s) /\ Busy(s)
    BY <1>3, MovesBusy DEF QuestOf, At, Busy
  <2>2. QuestOf(s) \in Quest /\ quests[QuestOf(s)] = None
    BY <2>1, BusyQuest DEF Handed
  <2>3. At(r, "insert_quest") => QuestOf(r) # QuestOf(s)
    BY <2>1 DEF Handed
  <2> QED
    BY <1>0, <2>1, <2>2, <2>3, WriteOwners
<1>4. ASSUME NEW s \in Slot, NEW t \in Slot, s # t, At(s, "insert_quest")', Busy(t)'
      PROVE  QuestOf(t)' # QuestOf(s)'
  <2>1. At(s, "insert_quest") /\ QuestOf(s)' = QuestOf(s) /\ quests[QuestOf(s)] = None
    BY <1>4, MovesBusy DEF QuestOf, Handed
  <2>2. QuestOf(t)' = QuestOf(t) /\ (Busy(t) \/ quests[QuestOf(t)] # None)
    BY <1>4, MovesBusy
  <2> QED
    BY <1>4, <2>1, <2>2 DEF Handed
<1> QED
  BY <1>1, <1>2, <1>3, <1>4 DEF Handed

\* The request that moves.
LEMMA MoverKnows ==
  ASSUME TypeInv, Handed, NEW r \in Slot, OwnerKnown(r), Moves(r)
  PROVE  OwnerKnown(r)'
<1>0. Write(r) \/ UNCHANGED tables
  BY DEF Moves
<1>1. CASE req' = [req EXCEPT ![r] = None]
  BY <1>1 DEF OwnerKnown, Busy, TypeInv, TypeOK
<1>2. ASSUME NEW y, Goes(r, y), Follows(r, y)
      PROVE  OwnerKnown(r)'
  <2>1. PICK x : x = req[r]
    OBVIOUS
  <2>2. PICK q : q = x.quest
    OBVIOUS
  <2>3. /\ x # None /\ x \in Request /\ req'[r] = y /\ y.quest = q /\ y.user = x.user
        /\ QuestOf(r) = q /\ QuestOf(r)' = q
    BY <1>2, <2>1, <2>2, GoesType, ARequest DEF Moves, Goes, Like, QuestOf
  <2> SUFFICES ASSUME Busy(r)', quests'[q] # None
               PROVE  /\ y.pc = "steps" => y.row.owner = quests'[q].owner
                      /\ y.pc \in Past => y.user = quests'[q].owner
    BY <2>3 DEF OwnerKnown
  <2>4. q \in Quest /\ (Busy(r) \/ quests[q] # None)
    BY <2>3, MovesBusy, BusyQuest
  <2>5. CASE y.pc = "steps"
    <3>1. At(r, "quest") /\ y.row = quests[q]
      BY <1>2, <2>3, <2>5 DEF Follows
    <3>2. UNCHANGED tables
      BY <1>0, <3>1, WriteAt DEF At, Busy
    <3> QED
      BY <2>5, <3>1, <3>2 DEF tables, Past
  <2>6. CASE y.pc \in {"update_quest", "delete_quest", "recheck"}
    <3>1. At(r, "steps") /\ x.row.owner = x.user
      BY <1>2, <2>1, <2>6 DEF Follows, Forbidden
    <3>2. UNCHANGED tables
      BY <1>0, <3>1, WriteAt DEF At
    <3>3. Busy(r) /\ quests[q] # None
      BY <3>1, <3>2 DEF At, Busy, tables
    <3>4. x.row.owner = quests[q].owner
      BY <2>1, <2>3, <3>1, <3>3 DEF OwnerKnown, At
    <3> QED
      BY <2>3, <2>6, <3>1, <3>2, <3>4 DEF tables
  <2>7. CASE InsertRow(r)
    <3>1. At(r, "insert_quest") /\ quests[q] = None
      BY <2>3, <2>7 DEF InsertRow, Handed
    <3>2. quests'[q].owner = x.user
      BY <1>0, <2>1, <2>4, <3>1, WriteOwners
    <3>3. y.pc # "steps"
      BY <1>2, <3>1 DEF Follows, At
    <3> QED
      BY <2>3, <3>2, <3>3
  <2>8. CASE ~InsertRow(r) /\ y.pc \in {"delete_steps", "insert_steps",
                                        "insert_assignment", "user"}
    <3>1. x.pc \in Past /\ x.pc \notin {"quest", "reply"}
      BY <1>2, <2>1, <2>8 DEF Follows, At, UpdateRow, DeleteRows, InsertAsg, Past
    <3>2. quests[q] # None /\ quests'[q].owner = quests[q].owner
      BY <1>0, <2>4, <2>8, WriteOwners
    <3>3. x.user = quests[q].owner
      BY <2>1, <2>3, <3>1, <3>2 DEF OwnerKnown, Busy
    <3> QED
      BY <2>3, <2>8, <3>2, <3>3
  <2> QED
    BY <2>5, <2>6, <2>7, <2>8 DEF Past
<1> QED
  BY <1>1, <1>2 DEF Moves

LEMMA MovesKnown ==
  ASSUME TypeInv, Handed, NEW r \in Slot, Moves(r), NEW s \in Slot, OwnerKnown(s)
  PROVE  OwnerKnown(s)'
<1>1. CASE s = r
  BY <1>1, MoverKnows
<1>2. CASE s # r
  <2>1. req'[s] = req[s] /\ (Write(r) \/ UNCHANGED tables)
    BY <1>2, GoesType DEF Moves, TypeInv, TypeOK
  <2> SUFFICES ASSUME Busy(s), quests'[QuestOf(s)] # None
               PROVE  /\ quests[QuestOf(s)] # None
                      /\ quests'[QuestOf(s)].owner = quests[QuestOf(s)].owner
    BY <2>1 DEF OwnerKnown, Busy, QuestOf
  <2>2. QuestOf(s) \in Quest
    BY BusyQuest
  <2>3. At(r, "insert_quest") => QuestOf(s) # QuestOf(r)
    BY <1>2 DEF Handed
  <2> QED
    BY <2>1, <2>2, <2>3, WriteOwners
<1> QED
  BY <1>1, <1>2

\* A step of a request leaves no orphans.
LEMMA MovesNoOrphans ==
  ASSUME TypeInv, NoOrphans, NEW r \in Slot, Moves(r)
  PROVE  NoOrphans'
<1>0. quests \in [Quest -> Row \cup {None}] /\ steps \in [Quest -> StepMaps]
      /\ asg \in [Key -> Assignment \cup {None}]
  BY DEF TypeInv, TypeOK, TablesOK
<1>1. CASE UNCHANGED tables
  BY <1>1 DEF tables, NoOrphans, SentTo
<1>2. CASE Write(r)
  <2>1. QuestOf(r) \in Quest /\ TablesOK'
    BY <1>2, WriteAt, BusyQuest, WriteType
  <2>2. CASE InsertRow(r)
    <3>1. \A q \in Quest : q # QuestOf(r) => quests'[q] = quests[q]
      BY <1>0, <2>2 DEF InsertRow
    <3>2. quests'[QuestOf(r)] # None
      <4>1. quests'[QuestOf(r)] = [owner |-> req[r].user, content |-> req[r].body.content,
                                   described |-> req[r].body.described]
        BY <1>0, <2>1, <2>2 DEF InsertRow
      <4>2. req[r] \in Request /\ req[r].body \in BodyType
        BY <1>2, <2>2, ARequest, WriteAt DEF At, Request, RequestOK, RouteOK
      <4>3. quests'[QuestOf(r)] \in Row
        BY <4>1, <4>2 DEF Row, Request, BodyType
      <4> QED
        BY <4>3, TablesAssumption
    <3> QED
      BY <2>2, <3>1, <3>2 DEF InsertRow, NoOrphans, SentTo
  <2>3. CASE UpdateRow(r)
    <3>1. \A q \in Quest : q # QuestOf(r) => quests'[q] = quests[q]
      BY <1>0, <2>3 DEF UpdateRow
    <3>2. steps' = steps /\ asg' = asg /\ quests[QuestOf(r)] # None
      BY <2>3 DEF UpdateRow
    <3>3. quests'[QuestOf(r)] # None
      <4>1. quests[QuestOf(r)] \in Row
        BY <1>0, <2>1, <3>2
      <4>2. req[r] \in Request /\ req[r].body \in BodyType
        BY <1>2, <2>3, ARequest DEF UpdateRow, At, Request, RequestOK, RouteOK
      <4>3. req[r].body.content \in Content /\ req[r].body.described \in BOOLEAN
        BY <4>2 DEF BodyType
      <4>4. [quests[QuestOf(r)] EXCEPT !.content = req[r].body.content,
                                       !.described = req[r].body.described] \in Row
        BY <4>1, <4>3 DEF Row
      <4> QED
        BY <1>0, <2>1, <2>3, <4>4, TablesAssumption DEF UpdateRow
    <3> QED
      BY <3>1, <3>2, <3>3 DEF NoOrphans, SentTo
  <2>4. CASE InsertRows(r)
    BY <1>0, <2>1, <2>4 DEF InsertRows, RowsAccepted, NoOrphans, SentTo
  <2>5. CASE DeleteRows(r)
    BY <1>0, <2>1, <2>5 DEF DeleteRows, NoOrphans, SentTo
  <2>6. CASE DeleteRow(r)
    BY <1>0, <2>1, <2>6 DEF DeleteRow, Restricted, NoOrphans, SentTo
  <2>7. CASE InsertAsg(r)
    <3>1. \A q \in Quest, u \in User : q # QuestOf(r) => asg'[<<q, u>>] = asg[<<q, u>>]
      BY <1>0, <2>1, <2>7 DEF InsertAsg, KeyOf, QuestOf, Key
    <3> QED
      BY <2>7, <3>1 DEF InsertAsg, InsertedOnce, NoOrphans, SentTo
  <2> QED
    BY <1>2, <2>2, <2>3, <2>4, <2>5, <2>6, <2>7 DEF Write
<1> QED
  BY <1>1, <1>2 DEF Moves

\* An assignment that is there stays, and a new one is that of the request.
LEMMA MovesAssignments ==
  ASSUME TypeInv, NEW r \in Slot, Moves(r), NEW k \in Key
  PROVE  /\ asg[k] # None => asg'[k] = asg[k]
         /\ asg'[k] # asg[k] => /\ InsertAsg(r) /\ At(r, "insert_assignment")
                                /\ k = KeyOf(r) /\ asg[k] = None
<1>0. asg \in [Key -> Assignment \cup {None}]
  BY DEF TypeInv, TypeOK, TablesOK
<1>1. CASE InsertAsg(r)
  <2>1. At(r, "insert_assignment") /\ asg[KeyOf(r)] = None
    BY <1>1 DEF InsertAsg, InsertedOnce
  <2>2. KeyOf(r) \in Key
    BY <2>1, BusyQuest DEF At, Busy
  <2> QED
    BY <1>0, <1>1, <2>1, <2>2 DEF InsertAsg
<1>2. CASE ~InsertAsg(r)
  BY <1>2 DEF Moves, Write, InsertRow, InsertRows, UpdateRow, DeleteRows, DeleteRow, tables
<1> QED
  BY <1>1, <1>2

LEMMA MovesInviting ==
  ASSUME TypeInv, InviteOnce, Inviting, NEW r \in Slot, Moves(r)
  PROVE  InviteOnce' /\ Inviting'
<1>1. /\ mail \cap sent = {} /\ sent' = sent
      /\ \A k \in mail \cup sent : k \in Key /\ asg[k] # None
  BY DEF InviteOnce, Moves, TypeInv, TypeOK
<1>2. \A k \in mail \cup sent : asg'[k] # None
  BY <1>1, MovesAssignments
<1>3. At(r, "user") => /\ KeyOf(r) \in Key /\ KeyOf(r) \notin mail \cup sent
                       /\ asg[KeyOf(r)] # None /\ asg'[KeyOf(r)] # None
  BY BusyQuest, MovesAssignments DEF Inviting, At, Busy
<1>4. InviteOnce'
  BY <1>1, <1>2, <1>3 DEF InviteOnce, Moves
<1>5. ASSUME NEW s \in Slot, At(s, "user")'
      PROVE  /\ KeyOf(s)' = KeyOf(s) /\ KeyOf(s) \in Key
             /\ \/ s # r /\ At(s, "user")
                \/ s = r /\ InsertAsg(r) /\ asg[KeyOf(s)] = None /\ asg'[KeyOf(s)] # None
  <2>1. Busy(s)'
    BY <1>5 DEF At, Busy
  <2>2. CASE s # r
    <3>1. req'[s] = req[s]
      BY <2>2, GoesType DEF Moves, TypeInv, TypeOK
    <3>2. At(s, "user") /\ KeyOf(s)' = KeyOf(s)
      BY <1>5, <3>1 DEF At, KeyOf
    <3> QED
      BY <2>2, <3>2, BusyQuest DEF At, Busy
  <2>3. CASE s = r
    <3>1. PICK y : Goes(r, y) /\ Follows(r, y) /\ req'[r] = y
      BY <1>5, <2>3, GoesType DEF Moves, At, TypeInv, TypeOK
    <3>2. InsertAsg(r)
      BY <1>5, <2>3, <3>1 DEF Follows, At
    <3>3. At(r, "insert_assignment") /\ asg[KeyOf(r)] = None
      BY <3>2 DEF InsertAsg, InsertedOnce
    <3>4. KeyOf(r) \in Key /\ KeyOf(r)' = KeyOf(r)
      BY <2>1, <2>3, <3>3, MovesBusy, BusyQuest DEF At, Busy
    <3>5. asg'[KeyOf(r)] = NewAssignment
      BY <3>2, <3>4 DEF InsertAsg, TypeInv, TypeOK, TablesOK
    <3>6. NewAssignment # None
      <4>1. NewAssignment \in Assignment
        BY DEF NewAssignment, Assignment, Statuses
      <4> QED
        BY <4>1, TablesAssumption
    <3> QED
      BY <2>3, <3>2, <3>3, <3>4, <3>5, <3>6
  <2> QED
    BY <2>2, <2>3
<1>6. ASSUME NEW s \in Slot, At(s, "user")'
      PROVE  asg'[KeyOf(s)'] # None /\ KeyOf(s)' \notin mail' \cup sent'
  <2>1. asg'[KeyOf(s)'] # None
    BY <1>5, <1>6, MovesAssignments DEF Inviting
  <2>2. KeyOf(s) \notin mail \cup sent
    BY <1>1, <1>5, <1>6 DEF Inviting
  <2>3. At(r, "user") => KeyOf(s) # KeyOf(r)
    BY <1>3, <1>5, <1>6 DEF Inviting
  <2>4. KeyOf(s) \notin mail' \cup sent'
    BY <1>1, <2>2, <2>3 DEF Moves
  <2> QED
    BY <1>5, <1>6, <2>1, <2>4
<1>7. ASSUME NEW s \in Slot, NEW t \in Slot, s # t, At(s, "user")', At(t, "user")'
      PROVE  KeyOf(s)' # KeyOf(t)'
  BY <1>5, <1>7 DEF Inviting
<1> QED
  BY <1>4, <1>6, <1>7 DEF Inviting

\* A new request knows nothing yet.
LEMMA ComesKeeps ==
  ASSUME AuthorInv, NEW r \in Slot, NEW y, Comes(r, y),
         UNCHANGED <<quests, steps, asg, mail, sent, faults>>
  PROVE  /\ NoOrphans' /\ Handed' /\ InviteOnce' /\ Inviting'
         /\ \A s \in Slot : OwnerKnown(s)'
<1>1. /\ req'[r] = y /\ y \in Request /\ y # None
      /\ \A s \in Slot \ {r} : req'[s] = req[s]
  BY NoneAssumption DEF Comes, AuthorInv, TypeInv, TypeOK
<1>2. NoOrphans'
  BY DEF AuthorInv, NoOrphans, SentTo
<1>3. \A s \in Slot : At(s, "user")' => s # r /\ At(s, "user") /\ KeyOf(s)' = KeyOf(s)
  BY <1>1 DEF Comes, At, KeyOf
<1>4. InviteOnce' /\ Inviting'
  BY <1>3 DEF AuthorInv, InviteOnce, Inviting
<1>5. \A s \in Slot : Busy(s)' => \/ s # r /\ Busy(s) /\ req'[s] = req[s]
                                  \/ s = r /\ y.pc = "insert_quest" /\ y.quest \notin used
                                     /\ used' = used \cup {y.quest}
  BY <1>1 DEF Comes, Busy
<1>6. \A s \in Slot : OwnerKnown(s)'
  <2>1. ASSUME NEW s \in Slot PROVE OwnerKnown(s)'
    <3>1. CASE s # r
      BY <1>1, <3>1 DEF AuthorInv, OwnerKnown, Busy, QuestOf
    <3>2. CASE s = r
      BY <1>1, <1>5, <3>2 DEF OwnerKnown, Past
    <3> QED
      BY <3>1, <3>2
  <2> QED
    BY <2>1
<1>7. Handed'
  <2>1. used \subseteq used'
    BY DEF Comes
  <2>2. \A q \in Quest : quests'[q] # None => q \in used /\ q \in used'
    BY <2>1 DEF AuthorInv, Handed
  <2>3. \A s \in Slot : Busy(s)' => QuestOf(s)' \in used'
    BY <1>1, <1>5, <2>1 DEF AuthorInv, Handed, QuestOf
  <2>4. \A s \in Slot : At(s, "insert_quest")' => quests'[QuestOf(s)'] = None
    <3>1. ASSUME NEW s \in Slot, At(s, "insert_quest")'
          PROVE  quests'[QuestOf(s)'] = None
      <4>1. CASE s # r
        BY <1>1, <3>1, <4>1 DEF AuthorInv, Handed, QuestOf, At
      <4>2. CASE s = r
        <5>1. y.quest \notin used /\ QuestOf(r)' = y.quest /\ y.quest \in Quest
          BY <1>1, <3>1, <4>2 DEF Comes, At, QuestOf, Request, RequestOK, RouteOK
        <5> QED
          BY <2>2, <4>2, <5>1
      <4> QED
        BY <4>1, <4>2
    <3> QED
      BY <3>1
  <2>5. ASSUME NEW s \in Slot, NEW t \in Slot, s # t, At(s, "insert_quest")', Busy(t)'
        PROVE  QuestOf(t)' # QuestOf(s)'
    <3>1. CASE s # r /\ t # r
      BY <1>1, <2>5, <3>1 DEF AuthorInv, Handed, QuestOf, At, Busy
    <3>2. CASE s = r
      <4>1. QuestOf(s)' \notin used
        BY <1>1, <2>5, <3>2 DEF Comes, At, QuestOf
      <4>2. QuestOf(t)' \in used
        BY <1>1, <1>5, <2>5, <3>2 DEF AuthorInv, Handed, QuestOf
      <4> QED
        BY <4>1, <4>2
    <3>3. CASE t = r
      <4>1. QuestOf(t)' \notin used
        BY <1>1, <1>5, <2>5, <3>3 DEF QuestOf
      <4>2. At(s, "insert_quest") /\ Busy(s) /\ QuestOf(s)' = QuestOf(s)
        BY <1>1, <2>5, <3>3 DEF At, Busy, QuestOf
      <4>3. QuestOf(s) \in used
        BY <4>2 DEF AuthorInv, Handed
      <4> QED
        BY <4>1, <4>2, <4>3
    <3> QED
      BY <3>1, <3>2, <3>3
  <2> QED
    BY <2>2, <2>3, <2>4, <2>5 DEF Handed
<1> QED
  BY <1>2, <1>4, <1>6, <1>7

LEMMA NextAuthor ==
  ASSUME AuthorInv, [Next]_vars
  PROVE  AuthorInv'
<1>0. TypeInv /\ TypeInv'
  BY NextType DEF AuthorInv
<1>1. CASE UNCHANGED vars
  BY <1>0, <1>1 DEF vars, AuthorInv, NoOrphans, SentTo, Handed, OwnerKnown, InviteOnce,
     Inviting, At, Busy, QuestOf, KeyOf
<1>2. CASE Next
  <2>1. ASSUME NEW r \in Slot, NEW y, Comes(r, y),
               UNCHANGED <<quests, steps, asg, mail, sent, faults>>
        PROVE  AuthorInv'
    BY <1>0, <2>1, ComesKeeps DEF AuthorInv
  <2>2. ASSUME NEW r \in Slot, StepOf(r)
        PROVE  AuthorInv'
    <3>1. Moves(r)
      BY <1>0, <2>2, StepMoves
    <3> QED
      BY <1>0, <3>1, MovesHanded, MovesKnown, MovesNoOrphans, MovesInviting DEF AuthorInv
  <2>3. ASSUME NEW k \in mail, mail' = mail \ {k}, sent' = sent \/ sent' = sent \cup {k},
               UNCHANGED <<quests, steps, asg, req, used>>
        PROVE  AuthorInv'
    <3>1. InviteOnce' /\ mail' \cup sent' \subseteq mail \cup sent
      BY <2>3 DEF AuthorInv, InviteOnce
    <3>2. Inviting'
      BY <2>3, <3>1 DEF AuthorInv, Inviting, At, KeyOf
    <3> QED
      BY <1>0, <2>3, <3>1, <3>2
      DEF AuthorInv, NoOrphans, SentTo, Handed, OwnerKnown, At, Busy, QuestOf
  <2>4. ASSUME req' = [r \in Slot |-> None], mail' = {},
               UNCHANGED <<quests, steps, asg, used, sent>>
        PROVE  AuthorInv'
    BY <1>0, <2>4 DEF AuthorInv, NoOrphans, SentTo, Handed, OwnerKnown, InviteOnce,
       Inviting, At, Busy
  <2> QED
    BY <1>0, <1>2, <2>1, <2>2, <2>3, <2>4, Steps
<1> QED
  BY <1>1, <1>2

LEMMA InitAuthor == Init => AuthorInv
<1> SUFFICES ASSUME Init PROVE AuthorInv
  OBVIOUS
<1>1. NoOrphans
  BY DEF Init, NoOrphans, SentTo, Key
<1> QED
  BY <1>1, InitType DEF Init, AuthorInv, Handed, OwnerKnown, InviteOnce, Inviting, At, Busy

LEMMA AuthorInvariant == Spec => []AuthorInv
BY InitAuthor, NextAuthor, PTL DEF Spec
--------------------------------------------------------------------------------
(***************************************************************************)
(* Steps and assignments belong to a quest that is there, whichever of its *)
(* owner's requests overtook the others.                                   *)
(***************************************************************************)
THEOREM Orphans == Spec => []NoOrphans
BY AuthorInvariant, PTL DEF AuthorInv

(***************************************************************************)
(* Nobody is invited twice to a quest, or without having it.               *)
(***************************************************************************)
THEOREM Invitations == Spec => []InviteOnce
BY AuthorInvariant, PTL DEF AuthorInv

\* Only the DELETE of the quest takes it away, and not once it was sent.
LEMMA StepSentStays ==
  ASSUME AuthorInv, [Next]_vars, NEW q \in Quest, SentTo(q)
  PROVE  quests'[q] # None
<1>1. quests[q] # None /\ TypeInv /\ quests \in [Quest -> Row \cup {None}]
      /\ None \notin Row
  BY TablesAssumption DEF AuthorInv, NoOrphans, TypeInv, TypeOK, TablesOK
<1>2. ASSUME NEW r \in Slot, Moves(r)
      PROVE  quests'[q] # None
  <2>1. CASE DeleteRow(r)
    <3>1. q # QuestOf(r)
      BY <2>1 DEF DeleteRow, Restricted, SentTo
    <3> QED
      BY <1>1, <2>1, <3>1 DEF DeleteRow
  <2>2. CASE InsertRow(r)
    <3>1. quests[QuestOf(r)] = None
      BY <2>2 DEF InsertRow, AuthorInv, Handed
    <3> QED
      BY <1>1, <2>2, <3>1 DEF InsertRow
  <2>3. CASE UpdateRow(r)
    <3>1. CASE q # QuestOf(r)
      BY <1>1, <2>3, <3>1 DEF UpdateRow
    <3>2. CASE q = QuestOf(r)
      <4>1. req[r] \in Request /\ req[r].body \in BodyType
        BY <1>1, <2>3, ARequest DEF UpdateRow, At, Request, RequestOK, RouteOK
      <4>2. req[r].body.content \in Content /\ req[r].body.described \in BOOLEAN
        BY <4>1 DEF BodyType
      <4>3. [quests[q] EXCEPT !.content = req[r].body.content,
                              !.described = req[r].body.described] \in Row
        BY <1>1, <4>2 DEF Row
      <4> QED
        BY <1>1, <2>3, <3>2, <4>3 DEF UpdateRow
    <3> QED
      BY <3>1, <3>2
  <2> QED
    BY <1>1, <1>2, <2>1, <2>2, <2>3
    DEF Moves, Write, InsertRows, DeleteRows, InsertAsg, tables
<1> QED
  BY <1>1, <1>2, Steps, StepMoves DEF vars, tables

(***************************************************************************)
(* A quest that was sent stays: its recipients never lose it, though the   *)
(* DELETE of its owner may come many statements after the last look at it. *)
(***************************************************************************)
THEOREM SentQuestStays == Spec => SentStays
<1>1. AuthorInv /\ [Next]_vars =>
        [\A q \in Quest : SentTo(q) => quests'[q] # None]_vars
  BY StepSentStays
<1> QED
  BY <1>1, AuthorInvariant, PTL DEF Spec, SentStays

\* The step that changes a quest or its steps is one of a request of its owner.
LEMMA StepOfOwner ==
  ASSUME AuthorInv, NEW r \in Slot, Moves(r), NEW q \in Quest,
         quests[q] # None, quests'[q] # quests[q] \/ steps'[q] # steps[q]
  PROVE  /\ req[r] # None /\ req'[r] # req[r]
         /\ req[r].quest = q /\ req[r].user = quests[q].owner
<1>1. TypeInv /\ quests \in [Quest -> Row \cup {None}] /\ steps \in [Quest -> StepMaps]
  BY DEF AuthorInv, TypeInv, TypeOK, TablesOK
<1>2. Write(r) /\ Busy(r)
  BY WriteAt DEF Moves, tables
<1>3. q = QuestOf(r) /\ ~InsertRow(r)
  <2>1. q = QuestOf(r)
    BY <1>1, <1>2
    DEF Write, InsertRow, InsertRows, UpdateRow, DeleteRows, DeleteRow, InsertAsg
  <2> QED
    BY <2>1 DEF InsertRow, AuthorInv, Handed
<1>4. req[r].pc \in Past
  BY <1>2, <1>3
  DEF Write, InsertRows, UpdateRow, DeleteRows, DeleteRow, InsertAsg, At, Past
<1>5. req[r].user = quests[q].owner
  BY <1>2, <1>3, <1>4 DEF AuthorInv, OwnerKnown
<1>6. req'[r] # req[r]
  <2>1. CASE req' = [req EXCEPT ![r] = None]
    BY <1>1, <2>1 DEF Moves, TypeInv, TypeOK
  <2>2. ASSUME NEW y, Goes(r, y), Follows(r, y)
        PROVE  req'[r] # req[r]
    BY <1>1, <2>2, GoesType DEF Follows
  <2> QED
    BY <2>1, <2>2 DEF Moves
<1> QED
  BY <1>2, <1>3, <1>5, <1>6 DEF Moves, QuestOf

OwnersStep ==
  \A q \in Quest :
    quests[q] # None /\ (quests'[q] # quests[q] \/ steps'[q] # steps[q]) =>
      /\ \E r \in Slot : /\ req[r] # None /\ req'[r] # req[r]
                         /\ req[r].quest = q /\ req[r].user = quests[q].owner
      /\ quests'[q] # None => quests'[q].owner = quests[q].owner

(***************************************************************************)
(* A quest never changes hands, and changes only by a request of its       *)
(* owner, though no statement that writes looks at him but the DELETE.     *)
(***************************************************************************)
THEOREM OwnersOnly == Spec => OnlyOwner
<1>1. ASSUME AuthorInv, [Next]_vars PROVE [OwnersStep]_vars
  <2>1. ASSUME NEW r \in Slot, StepOf(r)
        PROVE  OwnersStep
    <3>1. Moves(r) /\ TypeInv /\ Handed
      BY <1>1, <2>1, StepMoves DEF AuthorInv
    <3>2. Write(r) \/ UNCHANGED tables
      BY <3>1 DEF Moves
    <3>3. \A q \in Quest : quests[q] # None /\ quests'[q] # None =>
                             quests'[q].owner = quests[q].owner
      BY <3>1, <3>2, WriteOwners
    <3> QED
      BY <1>1, <3>1, <3>3, StepOfOwner DEF OwnersStep
  <2>2. ASSUME UNCHANGED <<quests, steps>>
        PROVE  OwnersStep
    BY <2>2 DEF OwnersStep
  <2>3. TypeInv
    BY <1>1 DEF AuthorInv
  <2> QED
    BY <1>1, <2>1, <2>2, <2>3, Steps
<1>2. AuthorInv /\ [Next]_vars => [OwnersStep]_vars
  BY <1>1
<1> QED
  BY <1>2, AuthorInvariant, PTL DEF Spec, OnlyOwner, OwnersStep
--------------------------------------------------------------------------------
(* Owners who wait for an answer before they send the next request: then   *)
(* nobody writes a quest between two statements of a request of its owner, *)
(* and what he has read and written so far still stands.                   *)

Waiting ==
  \A r, s \in Slot : req[r] # None /\ req[s] # None /\ r # s => req[r].user # req[s].user

Owned(r) == quests[QuestOf(r)] # None /\ quests[QuestOf(r)].owner = req[r].user

\* What an answer without an error says.  The id of a quest that was deleted is
\* not handed out again.
Told(r) ==
  LET q == QuestOf(r) IN
  /\ q \in Quest
  /\ req[r].op \in {"create", "update"} =>
       quests[q] = RowOf(r) /\ steps[q] = req[r].body.steps
  /\ req[r].op = "get" =>
       /\ Owned(r) /\ quests[q] = req[r].row
       /\ \/ req[r].steps = steps[q]
          \/ faults > 0 /\ req[r].steps \in Parts(steps[q])
  /\ req[r].op = "delete" =>
       /\ quests[q] = None /\ q \in used
       /\ \A s \in Slot : At(s, "insert_quest") => QuestOf(s) # q
  /\ req[r].op = "send" => asg[KeyOf(r)] # None

Holds(r) ==
  req[r] # None =>
    /\ req[r].body \in Body \cup {None}
    /\ req[r].pc = "steps" /\ ~Forbidden(r) => quests[QuestOf(r)] = req[r].row
    /\ req[r].pc \in Past => Owned(r)
    /\ req[r].pc \in {"delete_steps", "insert_steps"} => quests[QuestOf(r)] = RowOf(r)
    /\ req[r].pc = "insert_steps" => steps[QuestOf(r)] = NoSteps
    /\ req[r].pc \in {"recheck", "insert_assignment"} => steps[QuestOf(r)] # NoSteps
    /\ req[r].pc = "reply" /\ req[r].err = None => Told(r)

WaitInv == AuthorInv /\ Waiting /\ (\A r \in Slot : Holds(r)) /\ WholeSteps

\* A statement writes no other quest than that of its request.
LEMMA OtherQuests ==
  ASSUME TypeInv, NEW r \in Slot, Write(r) \/ UNCHANGED tables,
         NEW q \in Quest, q # QuestOf(r)
  PROVE  quests'[q] = quests[q] /\ steps'[q] = steps[q]
BY DEF Write, InsertRow, InsertRows, UpdateRow, DeleteRows, DeleteRow, InsertAsg, tables,
   TypeInv, TypeOK, TablesOK

\* The rows of an accepted body added to none are the steps of the body.
LEMMA BothNone ==
  ASSUME NEW m \in StepMaps
  PROVE  Both(NoSteps, m) = m /\ (DOMAIN m = {} => m = NoSteps)
<1>1. m = [k \in DOMAIN m |-> m[k]] /\ DOMAIN NoSteps = {}
  BY StepMapsAssumption DEF NoSteps
<1>2. Both(NoSteps, m) = [k \in DOMAIN m |-> m[k]]
  BY <1>1 DEF Both
<1>3. DOMAIN m = {} => [k \in DOMAIN m |-> m[k]] = [k \in {} |-> {}]
  OBVIOUS
<1> QED
  BY <1>1, <1>2, <1>3 DEF NoSteps

\* What each statement leaves of the quest of its request.
LEMMA WrittenQuest ==
  ASSUME TypeInv, NEW r \in Slot, Write(r), NEW q, q = QuestOf(r)
  PROVE  /\ InsertRow(r) => quests'[q] = RowOf(r) /\ quests'[q] # None /\ steps' = steps
         /\ UpdateRow(r) =>
              /\ quests[q].owner = req[r].user => quests'[q] = RowOf(r)
              /\ quests'[q] # None /\ steps' = steps
         /\ InsertRows(r) =>
              /\ quests' = quests
              /\ steps[q] = NoSteps => steps'[q] = req[r].body.steps
         /\ DeleteRows(r) => quests' = quests /\ steps'[q] = NoSteps
         /\ DeleteRow(r) => quests[q] # None /\ quests'[q] = None
         /\ InsertAsg(r) => quests' = quests /\ steps' = steps
<1>1. /\ q \in Quest /\ req[r] # None /\ req[r] \in Request /\ RequestOK(req[r])
      /\ quests \in [Quest -> Row \cup {None}] /\ steps \in [Quest -> StepMaps]
  BY ARequest, WriteAt, BusyQuest DEF Busy, TypeInv, TypeOK, TablesOK
<1>2. req[r].op \in {"create", "update"} => req[r].body \in BodyType
  BY <1>1 DEF Request, RequestOK, RouteOK
<1>3. ASSUME req[r].op \in {"create", "update"}
      PROVE  RowOf(r) \in Row /\ RowOf(r) # None
  <2>1. RowOf(r) \in Row
    BY <1>1, <1>2, <1>3 DEF RowOf, Row, BodyType, Request
  <2> QED
    BY <2>1, TablesAssumption
<1>4. ASSUME InsertRow(r)
      PROVE  quests'[q] = RowOf(r) /\ quests'[q] # None /\ steps' = steps
  <2>1. req[r].op = "create"
    BY <1>1, <1>4 DEF InsertRow, At, RequestOK, RouteOK
  <2> QED
    BY <1>1, <1>3, <1>4, <2>1 DEF InsertRow, RowOf
<1>5. ASSUME UpdateRow(r)
      PROVE  /\ quests[q].owner = req[r].user => quests'[q] = RowOf(r)
             /\ quests'[q] # None /\ steps' = steps
  <2>1. req[r].op = "update" /\ quests[q] \in Row /\ req[r].body \in BodyType
    BY <1>1, <1>2, <1>5 DEF UpdateRow, At, RequestOK, RouteOK
  <2>2. PICK row : row = [quests[q] EXCEPT !.content = req[r].body.content,
                                           !.described = req[r].body.described]
    OBVIOUS
  <2>3. /\ row = [owner |-> quests[q].owner, content |-> req[r].body.content,
                  described |-> req[r].body.described]
        /\ row \in Row
    BY <2>1, <2>2 DEF Row, BodyType
  <2>4. quests'[q] = row /\ steps' = steps
    BY <1>1, <1>5, <2>2 DEF UpdateRow
  <2> QED
    BY <2>3, <2>4, TablesAssumption DEF RowOf
<1>6. ASSUME InsertRows(r)
      PROVE  /\ quests' = quests
             /\ steps[q] = NoSteps => steps'[q] = req[r].body.steps
  <2>1. req[r].op \in {"create", "update"}
    BY <1>1, <1>6 DEF InsertRows, At, RequestOK, RouteOK
  <2>2. Both(NoSteps, req[r].body.steps) = req[r].body.steps
    BY <1>2, <2>1, BothNone DEF BodyType
  <2> QED
    BY <1>1, <1>6, <2>2 DEF InsertRows
<1> QED
  BY <1>1, <1>4, <1>5, <1>6 DEF DeleteRows, DeleteRow, InsertAsg

\* The request that moves.
LEMMA MoverHolds ==
  ASSUME AuthorInv, WholeSteps, NEW r \in Slot, Moves(r), Holds(r), faults' >= faults
  PROVE  Holds(r)'
<1>0. TypeInv /\ Handed /\ (Write(r) \/ UNCHANGED tables)
  BY DEF AuthorInv, Moves
<1>1. CASE req' = [req EXCEPT ![r] = None]
  BY <1>0, <1>1 DEF Holds, TypeInv, TypeOK
<1>2. ASSUME NEW y, Goes(r, y), Follows(r, y)
      PROVE  Holds(r)'
  <2>1. PICK x : x = req[r]
    OBVIOUS
  <2>2. PICK q : q = QuestOf(r)
    OBVIOUS
  <2>3. /\ x # None /\ x \in Request /\ RequestOK(x)
        /\ req'[r] = y /\ y \in Request /\ RequestOK(y) /\ Like(x, y)
        /\ QuestOf(r)' = q /\ RowOf(r)' = RowOf(r) /\ KeyOf(r)' = KeyOf(r)
    BY <1>0, <1>2, <2>1, <2>2, GoesType, ARequest
    DEF Moves, Goes, Like, QuestOf, RowOf, KeyOf
  <2>4. y.body \in Body \cup {None}
    BY <2>1, <2>3 DEF Holds, Like
  <2>5. ASSUME y.pc = "steps"
        PROVE  quests'[q] = y.row
    <3>1. At(r, "quest") /\ y.row = quests[q]
      BY <1>2, <2>2, <2>5 DEF Follows
    <3>2. UNCHANGED tables
      BY <1>0, <3>1, WriteAt DEF At, Busy
    <3> QED
      BY <3>1, <3>2 DEF tables
  <2>6. CASE y.pc \in {"update_quest", "delete_quest", "recheck"}
    <3>1. At(r, "steps") /\ ~Forbidden(r) /\ (y.pc = "recheck" => steps[q] # NoSteps)
      BY <1>2, <2>2, <2>6 DEF Follows, Sendable
    <3>2. UNCHANGED tables
      BY <1>0, <3>1, WriteAt DEF At
    <3>3. x.row # None /\ quests[q] = x.row /\ x.row.owner = x.user
      BY <2>1, <2>2, <2>3, <3>1 DEF Holds, At, Forbidden, RequestOK, RouteOK
    <3>4. Owned(r)'
      BY <2>1, <2>3, <3>2, <3>3 DEF Owned, tables, Like
    <3> QED
      BY <2>3, <2>4, <2>6, <3>1, <3>2, <3>4 DEF Holds, tables
  <2>7. CASE y.pc = "insert_assignment"
    <3>1. At(r, "recheck")
      BY <1>2, <2>7 DEF Follows
    <3>2. UNCHANGED tables
      BY <1>0, <3>1, WriteAt
    <3>3. Owned(r) /\ steps[q] # NoSteps
      BY <2>2, <3>1 DEF Holds, At, Past
    <3>4. Owned(r)'
      BY <2>1, <2>2, <2>3, <3>2, <3>3 DEF Owned, tables, Like
    <3> QED
      BY <2>3, <2>4, <2>7, <3>2, <3>3, <3>4 DEF Holds, tables
  <2>8. CASE y.pc = "delete_steps"
    <3>1. UpdateRow(r)
      BY <1>2, <2>8 DEF Follows
    <3>2. Write(r) /\ At(r, "update_quest")
      BY <3>1 DEF Write, UpdateRow
    <3>3. Owned(r)
      BY <3>2 DEF Holds, At, Past
    <3>4. quests'[q] = RowOf(r) /\ quests'[q] # None
      BY <1>0, <2>2, <3>1, <3>2, <3>3, WrittenQuest DEF Owned
    <3>5. Owned(r)'
      BY <2>1, <2>3, <3>4 DEF Owned, RowOf, Like
    <3> QED
      BY <2>3, <2>4, <2>8, <3>4, <3>5 DEF Holds
  <2>9. CASE y.pc = "insert_steps"
    <3>1. DeleteRows(r) \/ InsertRow(r)
      BY <1>2, <2>9 DEF Follows
    <3>2. Write(r) /\ Busy(r) /\ q \in Quest
      BY <1>0, <2>2, <3>1, WriteAt, BusyQuest DEF Write
    <3>3. quests'[q] = RowOf(r) /\ quests'[q] # None /\ steps'[q] = NoSteps
      <4>1. CASE InsertRow(r)
        <5>1. quests[q] = None
          BY <1>0, <2>2, <3>2, <4>1, WriteAt DEF Handed
        <5>2. steps[q] = NoSteps
          BY <3>2, <5>1 DEF AuthorInv, NoOrphans
        <5> QED
          BY <1>0, <2>2, <3>2, <4>1, <5>2, WrittenQuest
      <4>2. CASE DeleteRows(r)
        <5>1. Owned(r) /\ quests[q] = RowOf(r)
          BY <2>2, <4>2 DEF DeleteRows, Holds, At, Past
        <5> QED
          BY <1>0, <2>2, <3>2, <4>2, <5>1, WrittenQuest DEF Owned
      <4> QED
        BY <3>1, <4>1, <4>2
    <3>4. Owned(r)'
      BY <2>1, <2>3, <3>3 DEF Owned, RowOf, Like
    <3> QED
      BY <2>3, <2>4, <2>9, <3>3, <3>4 DEF Holds
  <2>10. CASE y.pc = "user"
    <3>1. InsertAsg(r) /\ At(r, "insert_assignment")
      BY <1>2, <2>10 DEF Follows, InsertAsg
    <3>2. Owned(r) /\ Write(r)
      BY <3>1 DEF Holds, At, Past, Write
    <3>3. quests' = quests
      BY <3>1 DEF InsertAsg
    <3>4. Owned(r)'
      BY <2>1, <2>2, <2>3, <3>2, <3>3 DEF Owned, Like
    <3> QED
      BY <2>3, <2>4, <2>10, <3>4 DEF Holds
  <2>11. CASE y.pc = "reply" /\ y.err = None
    <3>1. EndsWith(r, y)
      BY <1>2, <2>11 DEF Follows
    <3>2. Told(r)'
      <4>1. CASE (InsertRow(r) \/ DeleteRows(r)) /\ DOMAIN x.body.steps = {}
        <5>1. Write(r) /\ Busy(r) /\ q \in Quest
          BY <1>0, <2>2, <4>1, WriteAt, BusyQuest DEF Write
        <5>2. x.op \in {"create", "update"} /\ x.body \in BodyType
          BY <2>1, <2>3, <4>1
          DEF InsertRow, DeleteRows, At, RequestOK, RouteOK, Request
        <5>3. x.body.steps = NoSteps
          BY <4>1, <5>2, BothNone DEF BodyType
        <5>4. quests'[q] = RowOf(r) /\ steps'[q] = NoSteps
          <6>1. CASE InsertRow(r)
            <7>1. quests[q] = None
              BY <1>0, <2>2, <5>1, <6>1, WriteAt DEF Handed
            <7>2. steps[q] = NoSteps
              BY <5>1, <7>1 DEF AuthorInv, NoOrphans
            <7> QED
              BY <1>0, <2>2, <5>1, <6>1, <7>2, WrittenQuest
          <6>2. CASE DeleteRows(r)
            <7>1. quests[q] = RowOf(r)
              BY <2>2, <6>2 DEF DeleteRows, Holds, At
            <7> QED
              BY <1>0, <2>2, <5>1, <6>2, <7>1, WrittenQuest
          <6> QED
            BY <4>1, <6>1, <6>2
        <5> QED
          BY <2>1, <2>3, <5>1, <5>2, <5>3, <5>4 DEF Told, Like
      <4>2. CASE InsertRows(r)
        <5>1. At(r, "insert_steps") /\ Write(r) /\ Busy(r) /\ q \in Quest
          BY <1>0, <2>2, <4>2, WriteAt, BusyQuest DEF Write, InsertRows
        <5>2. quests[q] = RowOf(r) /\ steps[q] = NoSteps
          BY <2>2, <5>1 DEF Holds, At
        <5>3. quests'[q] = RowOf(r) /\ steps'[q] = x.body.steps
          BY <1>0, <2>1, <2>2, <4>2, <5>1, <5>2, WrittenQuest
        <5>4. x.op \in {"create", "update"}
          BY <2>1, <2>3, <5>1 DEF At, RequestOK, RouteOK
        <5> QED
          BY <2>1, <2>3, <5>1, <5>3, <5>4 DEF Told, Like
      <4>3. CASE DeleteRow(r)
        <5>1. At(r, "delete_quest") /\ Write(r) /\ Busy(r) /\ q \in Quest
          BY <1>0, <2>2, <4>3, WriteAt, BusyQuest DEF Write, DeleteRow
        <5>2. quests[q] # None /\ quests'[q] = None
          BY <1>0, <2>2, <4>3, <5>1, WrittenQuest
        <5>3. q \in used'
          BY <1>0, <5>1, <5>2 DEF Handed, Moves
        <5>4. \A s \in Slot : At(s, "insert_quest")' => QuestOf(s)' # q
          <6>1. ASSUME NEW s \in Slot, At(s, "insert_quest")'
                PROVE  QuestOf(s)' # q
            <7>1. At(s, "insert_quest") /\ QuestOf(s)' = QuestOf(s)
              BY <1>0, <6>1, MovesBusy DEF QuestOf
            <7> QED
              BY <1>0, <5>2, <7>1 DEF Handed
          <6> QED
            BY <6>1
        <5>5. x.op = "delete"
          BY <2>1, <2>3, <5>1 DEF At, RequestOK, RouteOK
        <5> QED
          BY <2>1, <2>3, <5>1, <5>2, <5>3, <5>4, <5>5 DEF Told, Like
      <4>4. CASE At(r, "user")
        <5>1. UNCHANGED tables /\ KeyOf(r) \in Key /\ q \in Quest /\ x.op = "send"
          BY <1>0, <2>1, <2>2, <2>3, <4>4, WriteAt, BusyQuest
          DEF At, Busy, RequestOK, RouteOK
        <5>2. asg'[KeyOf(r)] # None
          BY <4>4, <5>1 DEF AuthorInv, Inviting, tables
        <5> QED
          BY <2>1, <2>3, <5>1, <5>2 DEF Told, Like
      <4>5. CASE /\ At(r, "steps") /\ ~Forbidden(r) /\ x.op = "get" /\ y.row = x.row
                 /\ \/ y.steps = steps[q]
                    \/ faults' > 0 /\ y.steps \in Parts(steps[q])
        <5>1. UNCHANGED tables /\ q \in Quest
          BY <1>0, <2>2, <4>5, WriteAt, BusyQuest DEF At, Busy
        <5>2. x.row # None /\ quests[q] = x.row /\ x.row.owner = x.user
          BY <2>1, <2>2, <2>3, <4>5 DEF Holds, At, Forbidden, RequestOK, RouteOK
        <5>3. Owned(r)'
          BY <2>1, <2>3, <5>1, <5>2 DEF Owned, tables, Like
        <5> QED
          BY <2>1, <2>3, <4>5, <5>1, <5>2, <5>3 DEF Told, Like, tables
      <4> QED
        BY <2>1, <2>2, <3>1, <4>1, <4>2, <4>3, <4>4, <4>5 DEF EndsWith
    <3> QED
      BY <2>3, <2>4, <2>11, <3>2 DEF Holds, Past
  <2>12. CASE y.pc \in {"quest", "insert_quest"} \/ (y.pc = "reply" /\ y.err # None)
    BY <1>2, <2>3, <2>4, <2>12 DEF Follows, Holds, Past
  <2>13. CASE y.pc = "steps"
    BY <2>3, <2>4, <2>5, <2>13 DEF Holds, Past
  <2> QED
    BY <2>3, <2>6, <2>7, <2>8, <2>9, <2>10, <2>11, <2>12, <2>13 DEF Request
<1> QED
  BY <1>1, <1>2 DEF Moves

\* A step of another request leaves the quest of an owner who waits alone.
LEMMA OthersLeave ==
  ASSUME AuthorInv, Waiting, NEW r \in Slot, Moves(r), NEW s \in Slot \ {r},
         req[s] # None, Owned(s), QuestOf(s) \in Quest
  PROVE  quests'[QuestOf(s)] = quests[QuestOf(s)] /\ steps'[QuestOf(s)] = steps[QuestOf(s)]
<1>1. SUFFICES ASSUME \/ quests'[QuestOf(s)] # quests[QuestOf(s)]
                      \/ steps'[QuestOf(s)] # steps[QuestOf(s)]
               PROVE  FALSE
  OBVIOUS
<1>2. req[r] # None /\ req[r].user = quests[QuestOf(s)].owner
  BY <1>1, StepOfOwner DEF Owned
<1>3. req[r].user = req[s].user
  BY <1>2 DEF Owned
<1> QED
  BY <1>2, <1>3 DEF Waiting

LEMMA OthersHold ==
  ASSUME AuthorInv, Waiting, NEW r \in Slot, Moves(r), NEW s \in Slot \ {r}, Holds(s),
         faults \in Nat, faults' \in Nat, faults' >= faults
  PROVE  Holds(s)'
<1>0. TypeInv /\ Handed /\ (Write(r) \/ UNCHANGED tables) /\ used' = used
  BY DEF AuthorInv, Moves
<1>1. req'[s] = req[s]
  BY <1>0, GoesType DEF Moves, TypeInv, TypeOK
<1>2. PICK q : q = QuestOf(s)
  OBVIOUS
<1>3. QuestOf(s)' = q /\ KeyOf(s)' = KeyOf(s) /\ RowOf(s)' = RowOf(s)
  BY <1>1, <1>2 DEF QuestOf, KeyOf, RowOf
<1> SUFFICES ASSUME req[s] # None
             PROVE  Holds(s)'
  BY <1>1 DEF Holds
<1>4. req[s] \in Request /\ RequestOK(req[s])
  BY <1>0, ARequest
<1>5. Owned(s) /\ q \in Quest =>
        quests'[q] = quests[q] /\ steps'[q] = steps[q] /\ Owned(s)'
  <2>1. ASSUME Owned(s), q \in Quest
        PROVE  quests'[q] = quests[q] /\ steps'[q] = steps[q] /\ Owned(s)'
    <3>1. quests'[q] = quests[q] /\ steps'[q] = steps[q]
      BY <1>2, <2>1, OthersLeave
    <3>2. Owned(s)'
      BY <1>1, <1>2, <1>3, <2>1, <3>1 DEF Owned
    <3> QED
      BY <3>1, <3>2
  <2> QED
    BY <2>1
<1>6. CASE req[s].pc = "steps" /\ ~Forbidden(s)
  <2>1. q \in Quest /\ quests[q] = req[s].row /\ Owned(s)
    BY <1>2, <1>4, <1>6 DEF Holds, Owned, Forbidden, QuestOf, Request, RequestOK, RouteOK
  <2> QED
    BY <1>1, <1>3, <1>5, <1>6, <2>1 DEF Holds, Past
<1>7. CASE req[s].pc \in Past
  <2>1. q \in Quest /\ Owned(s)
    BY <1>2, <1>4, <1>7 DEF Holds, Past, QuestOf, Request, RequestOK, RouteOK
  <2> QED
    BY <1>1, <1>2, <1>3, <1>5, <1>7, <2>1 DEF Holds, Past
<1>8. CASE req[s].pc = "reply" /\ req[s].err = None
  <2>1. Told(s) /\ q \in Quest
    BY <1>2, <1>8 DEF Holds, Told
  <2>2. Told(s)'
    <3>1. CASE req[s].op \in {"create", "update"}
      <4>1. quests[q] = RowOf(s) /\ steps[q] = req[s].body.steps
        BY <1>2, <2>1, <3>1 DEF Told
      <4>2. RowOf(s) \in Row /\ RowOf(s) # None
        BY <1>0, <1>4, <2>1, <3>1, <4>1, TablesAssumption
        DEF RowOf, Row, BodyType, Request, RequestOK, RouteOK
      <4>3. Owned(s)
        BY <1>2, <4>1, <4>2 DEF Owned, RowOf
      <4> QED
        BY <1>1, <1>3, <1>5, <2>1, <3>1, <4>1, <4>3 DEF Told
    <3>2. CASE req[s].op = "get"
      BY <1>1, <1>2, <1>3, <1>5, <2>1, <3>2 DEF Told
    <3>3. CASE req[s].op = "delete"
      <4>1. /\ quests[q] = None /\ q \in used
            /\ \A t \in Slot : At(t, "insert_quest") => QuestOf(t) # q
        BY <1>2, <2>1, <3>3 DEF Told
      <4>2. quests'[q] = None
        BY <1>0, <2>1, <4>1, WriteOwners
      <4>3. ASSUME NEW t \in Slot, At(t, "insert_quest")'
            PROVE  QuestOf(t)' # q
        <5>1. At(t, "insert_quest") /\ QuestOf(t)' = QuestOf(t)
          BY <1>0, <4>3, MovesBusy DEF QuestOf
        <5> QED
          BY <4>1, <5>1
      <4> QED
        BY <1>0, <1>1, <1>3, <2>1, <3>3, <4>1, <4>2, <4>3 DEF Told
    <3>4. CASE req[s].op = "send"
      <4>1. asg[KeyOf(s)] # None /\ KeyOf(s) \in Key
        BY <1>2, <1>4, <2>1, <3>4 DEF Told, KeyOf, QuestOf, Key, Request, RequestOK, RouteOK
      <4>2. asg'[KeyOf(s)] # None
        BY <1>0, <4>1, MovesAssignments
      <4> QED
        BY <1>1, <1>3, <2>1, <3>4, <4>2 DEF Told
    <3> QED
      BY <1>4, <3>1, <3>2, <3>3, <3>4 DEF Request
  <2> QED
    BY <1>1, <1>8, <2>2 DEF Holds, Past
<1>9. CASE /\ req[s].pc \notin Past
           /\ ~(req[s].pc = "steps" /\ ~Forbidden(s))
           /\ ~(req[s].pc = "reply" /\ req[s].err = None)
  <2>1. Forbidden(s)' = Forbidden(s)
    BY <1>1 DEF Forbidden
  <2> QED
    BY <1>1, <1>9, <2>1 DEF Holds, Past
<1> QED
  BY <1>6, <1>7, <1>8, <1>9

\* The steps of a quest stay those of one body.
LEMMA MovesWhole ==
  ASSUME AuthorInv, WholeSteps, NEW r \in Slot, Moves(r), Holds(r)
  PROVE  WholeSteps'
<1>0. TypeInv /\ (Write(r) \/ UNCHANGED tables)
  BY DEF AuthorInv, Moves
<1> SUFFICES ASSUME NEW q \in Quest
             PROVE  steps'[q] \in {NoSteps} \cup {b.steps : b \in Body}
  BY DEF WholeSteps
<1>1. CASE q # QuestOf(r) \/ UNCHANGED tables
  BY <1>0, <1>1, OtherQuests DEF WholeSteps, tables
<1>2. CASE q = QuestOf(r) /\ Write(r)
  <2>1. CASE InsertRows(r)
    <3>1. At(r, "insert_steps")
      BY <2>1 DEF InsertRows
    <3>2. req[r].body \in Body /\ steps[q] = NoSteps
      BY <1>0, <1>2, <3>1, ARequest DEF Holds, At, RequestOK, RouteOK
    <3> QED
      BY <1>0, <1>2, <2>1, <3>2, WrittenQuest
  <2>2. CASE InsertRow(r) \/ UpdateRow(r) \/ InsertAsg(r)
    BY <2>2 DEF WholeSteps, InsertRow, UpdateRow, InsertAsg
  <2>3. CASE DeleteRows(r)
    BY <1>0, <1>2, <2>3, WrittenQuest
  <2>4. CASE DeleteRow(r)
    BY <1>0, <1>2, <2>4 DEF DeleteRow, TypeInv, TypeOK, TablesOK
  <2> QED
    BY <1>2, <2>1, <2>2, <2>3, <2>4 DEF Write
<1> QED
  BY <1>0, <1>1, <1>2

LEMMA ComesWaiting ==
  ASSUME ~Overlap, TypeInv, Waiting, NEW r \in Slot, NEW y, Comes(r, y)
  PROVE  Waiting'
<1>1. req'[r] = y /\ \A s \in Slot \ {r} : req'[s] = req[s]
  BY DEF Comes, TypeInv, TypeOK
<1>2. \A s \in Slot : req[s] # None => req[s].user # y.user
  BY DEF Comes
<1> QED
  BY <1>1, <1>2 DEF Waiting

LEMMA MovesWaiting ==
  ASSUME TypeInv, Waiting, NEW r \in Slot, Moves(r)
  PROVE  Waiting'
<1>1. req[r] # None
  BY DEF Moves
<1>2. CASE req' = [req EXCEPT ![r] = None]
  BY <1>2 DEF Waiting, TypeInv, TypeOK
<1>3. ASSUME NEW y, Goes(r, y)
      PROVE  Waiting'
  <2>1. req'[r] = y /\ y.user = req[r].user /\ \A s \in Slot \ {r} : req'[s] = req[s]
    BY <1>3, GoesType DEF Goes, Like
  <2> QED
    BY <1>1, <2>1 DEF Waiting
<1> QED
  BY <1>2, <1>3 DEF Moves

LEMMA ComesHold ==
  ASSUME AuthorInv, \A s \in Slot : Holds(s), NEW r \in Slot, NEW y, Comes(r, y),
         UNCHANGED <<quests, steps, asg, mail, sent, faults>>
  PROVE  \A s \in Slot : Holds(s)'
<1>1. req'[r] = y /\ \A s \in Slot \ {r} : req'[s] = req[s]
  BY DEF Comes, AuthorInv, TypeInv, TypeOK
<1>2. Holds(r)'
  BY <1>1 DEF Comes, Holds, Past
<1>3. ASSUME NEW s \in Slot \ {r}
      PROVE  Holds(s)'
  <2>1. /\ req'[s] = req[s] /\ QuestOf(s)' = QuestOf(s) /\ KeyOf(s)' = KeyOf(s)
        /\ RowOf(s)' = RowOf(s) /\ Owned(s)' = Owned(s) /\ Forbidden(s)' = Forbidden(s)
    BY <1>1 DEF QuestOf, KeyOf, RowOf, Owned, Forbidden
  <2>2. Told(s) => Told(s)'
    <3>1. ASSUME NEW t \in Slot, At(t, "insert_quest")'
          PROVE  \/ At(t, "insert_quest") /\ QuestOf(t)' = QuestOf(t)
                 \/ QuestOf(t)' \notin used
      BY <1>1, <3>1 DEF Comes, At, QuestOf
    <3>2. used \subseteq used'
      BY DEF Comes
    <3> QED
      BY <2>1, <3>1, <3>2 DEF Told
  <2> QED
    BY <2>1, <2>2 DEF Holds
<1> QED
  BY <1>2, <1>3

\* A step that leaves the tables and the requests alone, but for assignments
\* that stay there or not there: those of the recipients are such.
LEMMA TablesStay ==
  ASSUME WaitInv, UNCHANGED <<quests, steps, req, used>>,
         faults \in Nat, faults' \in Nat, faults' >= faults,
         \A k \in Key : asg[k] # None => asg'[k] # None
  PROVE  Waiting' /\ (\A s \in Slot : Holds(s)') /\ WholeSteps'
<1>1. Waiting' /\ WholeSteps'
  BY DEF WaitInv, Waiting, WholeSteps
<1>2. ASSUME NEW s \in Slot
      PROVE  Holds(s)'
  <2>1. /\ req'[s] = req[s] /\ QuestOf(s)' = QuestOf(s) /\ KeyOf(s)' = KeyOf(s)
        /\ RowOf(s)' = RowOf(s) /\ Owned(s)' = Owned(s) /\ Forbidden(s)' = Forbidden(s)
    BY DEF QuestOf, KeyOf, RowOf, Owned, Forbidden
  <2>2. \A t \in Slot : At(t, "insert_quest")' => At(t, "insert_quest") /\ QuestOf(t)' = QuestOf(t)
    BY DEF At, QuestOf
  <2>3. req[s] # None /\ req[s].op = "send" /\ Told(s) => asg'[KeyOf(s)] # None
    <3>1. ASSUME req[s] # None, req[s].op = "send", Told(s)
          PROVE  asg'[KeyOf(s)] # None
      <4>1. req[s] \in Request /\ RequestOK(req[s])
        BY <3>1, ARequest DEF WaitInv, AuthorInv
      <4>2. KeyOf(s) \in Key /\ asg[KeyOf(s)] # None
        BY <3>1, <4>1 DEF Told, KeyOf, QuestOf, Key, Request, RequestOK, RouteOK
      <4> QED
        BY <4>2
    <3> QED
      BY <3>1
  <2>4. req[s] # None /\ Told(s) => Told(s)'
    BY <2>1, <2>2, <2>3 DEF Told
  <2> QED
    BY <2>1, <2>4 DEF WaitInv, Holds
<1> QED
  BY <1>1, <1>2

LEMMA NextWait ==
  ASSUME ~Overlap, WaitInv, [Next]_vars
  PROVE  WaitInv'
<1>0. TypeInv /\ AuthorInv /\ AuthorInv'
  BY NextAuthor DEF WaitInv, AuthorInv
<1>1. faults \in Nat /\ faults' \in Nat
  BY <1>0, FaultsAssumption DEF AuthorInv, TypeInv, TypeOK
<1>2. CASE UNCHANGED vars
  BY <1>0, <1>1, <1>2, TablesStay DEF vars, WaitInv
<1>3. CASE Next
  <2>0. faults' >= faults
    BY <1>0, <1>3, FaultsCounted
  <2>1. ASSUME NEW r \in Slot, NEW y, Comes(r, y),
               UNCHANGED <<quests, steps, asg, mail, sent, faults>>
        PROVE  WaitInv'
    <3>1. WholeSteps'
      BY <2>1 DEF WaitInv, WholeSteps
    <3>2. Waiting' /\ \A s \in Slot : Holds(s)'
      BY <1>0, <2>1, ComesWaiting, ComesHold DEF WaitInv
    <3> QED
      BY <1>0, <3>1, <3>2 DEF WaitInv
  <2>2. ASSUME NEW r \in Slot, StepOf(r)
        PROVE  WaitInv'
    <3>1. Moves(r)
      BY <1>0, <2>2, StepMoves
    <3>2. Holds(r)' /\ WholeSteps' /\ Waiting'
      BY <1>0, <2>0, <3>1, MoverHolds, MovesWhole, MovesWaiting DEF WaitInv
    <3>3. \A s \in Slot \ {r} : Holds(s)'
      BY <1>0, <1>1, <2>0, <3>1, OthersHold DEF WaitInv
    <3> QED
      BY <1>0, <3>2, <3>3 DEF WaitInv
  <2>3. ASSUME NEW k \in mail, UNCHANGED <<quests, steps, asg, req, used>>
        PROVE  WaitInv'
    BY <1>0, <1>1, <2>0, <2>3, TablesStay DEF WaitInv
  <2>4. ASSUME req' = [r \in Slot |-> None], UNCHANGED <<quests, steps, asg, used, sent>>
        PROVE  WaitInv'
    BY <1>0, <2>4 DEF WaitInv, Waiting, Holds, WholeSteps
  <2> QED
    BY <1>0, <1>3, <2>1, <2>2, <2>3, <2>4, Steps
<1> QED
  BY <1>2, <1>3

LEMMA InitWait == Init => WaitInv
BY InitAuthor DEF Init, WaitInv, Waiting, Holds, WholeSteps

\* An owner is told what was done.
LEMMA HoldsTells ==
  ASSUME WaitInv
  PROVE  DoneAsAnswered
<1>1. ASSUME NEW r \in Slot, At(r, "reply"), req[r].err = None
      PROVE  Told(r)
  BY <1>1 DEF WaitInv, Holds, At
<1> QED
  BY <1>1 DEF DoneAsAnswered, Told

\* A quest that is sent has steps.
LEMMA StepSends ==
  ASSUME WaitInv, [Next]_vars, NEW k \in Key, asg[k] = None, asg'[k] # None
  PROVE  steps[k[1]] # NoSteps
<1>0. TypeInv
  BY DEF WaitInv, AuthorInv
<1>1. PICK r \in Slot : StepOf(r)
  BY <1>0, Steps DEF vars
<1>2. At(r, "insert_assignment") /\ k = KeyOf(r)
  BY <1>0, <1>1, StepMoves, MovesAssignments
<1>3. steps[QuestOf(r)] # NoSteps
  BY <1>2 DEF WaitInv, Holds, At
<1> QED
  BY <1>2, <1>3 DEF KeyOf, QuestOf

(***************************************************************************)
(* The steps of a quest are those of one body, or none, when owners wait   *)
(* for their answers: UpdateQuest mixes steps only with those of a request *)
(* that overlaps it.                                                       *)
(***************************************************************************)
THEOREM StepsOfOneBody ==
  ASSUME ~Overlap
  PROVE  Spec => []WholeSteps
<1>1. Spec => []WaitInv
  BY InitWait, NextWait, PTL DEF Spec
<1> QED
  BY <1>1, PTL DEF WaitInv

(***************************************************************************)
(* What owners who wait are told is what was done, and what they are shown *)
(* is what is stored.                                                      *)
(***************************************************************************)
THEOREM AnswersAreTrue ==
  ASSUME ~Overlap
  PROVE  Spec => []DoneAsAnswered
<1>1. Spec => []WaitInv
  BY InitWait, NextWait, PTL DEF Spec
<1>2. WaitInv => DoneAsAnswered
  BY HoldsTells
<1> QED
  BY <1>1, <1>2, PTL
--------------------------------------------------------------------------------
(* What a step of the owners does to the rows of quests and assignments,   *)
(* if anything: it creates, edits or deletes one quest, or sends one.      *)

QuestSaved ==
  /\ asg' = asg
  /\ \E q \in Quest, row \in Row :
       /\ quests' = [quests EXCEPT ![q] = row]
       /\ quests[q] # None => row.owner = quests[q].owner

QuestDeleted ==
  /\ asg' = asg
  /\ \E q \in Quest : /\ quests[q] # None /\ ~SentTo(q)
                      /\ quests' = [quests EXCEPT ![q] = None]

QuestSent ==
  /\ quests' = quests
  /\ \E k \in Key : /\ quests[k[1]] # None /\ asg[k] = None
                    /\ asg' = [asg EXCEPT ![k] = NewAssignment]

LEMMA RowStatements ==
  ASSUME AuthorInv, [Next]_vars
  PROVE  (quests' = quests /\ asg' = asg) \/ QuestSaved \/ QuestDeleted \/ QuestSent
<1>0. TypeInv /\ quests \in [Quest -> Row \cup {None}]
  BY DEF AuthorInv, TypeInv, TypeOK, TablesOK
<1>1. ASSUME NEW r \in Slot, Write(r)
      PROVE  (quests' = quests /\ asg' = asg) \/ QuestSaved \/ QuestDeleted \/ QuestSent
  <2>1. PICK q : q = QuestOf(r)
    OBVIOUS
  <2>2. q \in Quest /\ req[r] \in Request /\ RequestOK(req[r])
    BY <1>0, <1>1, <2>1, WriteAt, BusyQuest, ARequest DEF Busy
  <2>3. CASE InsertRow(r)
    <3>1. req[r].op = "create" /\ quests[q] = None
      BY <1>1, <2>1, <2>2, <2>3, WriteAt DEF AuthorInv, Handed, InsertRow, At, RequestOK, RouteOK
    <3>2. PICK row : row = [owner |-> req[r].user, content |-> req[r].body.content,
                            described |-> req[r].body.described]
      OBVIOUS
    <3>3. row \in Row
      BY <2>2, <3>1, <3>2 DEF Row, Request, RequestOK, RouteOK, BodyType
    <3> QED
      BY <2>1, <2>2, <2>3, <3>1, <3>2, <3>3 DEF InsertRow, QuestSaved
  <2>4. CASE UpdateRow(r)
    <3>1. req[r].op = "update" /\ quests[q] # None /\ quests[q] \in Row
      BY <1>0, <2>1, <2>2, <2>4 DEF UpdateRow, At, RequestOK, RouteOK
    <3>2. PICK row : row = [quests[q] EXCEPT !.content = req[r].body.content,
                                             !.described = req[r].body.described]
      OBVIOUS
    <3>3. row \in Row /\ row.owner = quests[q].owner
      BY <2>2, <3>1, <3>2 DEF Row, Request, RequestOK, RouteOK, BodyType
    <3> QED
      BY <2>1, <2>2, <2>4, <3>1, <3>2, <3>3 DEF UpdateRow, QuestSaved
  <2>5. CASE DeleteRow(r)
    BY <2>1, <2>2, <2>5 DEF DeleteRow, Restricted, SentTo, QuestDeleted
  <2>6. CASE InsertAsg(r)
    <3>1. KeyOf(r) \in Key /\ KeyOf(r)[1] = q
      BY <1>0, <1>1, <2>1, <2>6, WriteAt, BusyQuest DEF KeyOf, QuestOf
    <3> QED
      BY <2>1, <2>6, <3>1 DEF InsertAsg, InsertedOnce, QuestSent
  <2> QED
    BY <1>1, <2>3, <2>4, <2>5, <2>6 DEF Write, InsertRows, DeleteRows
<1> QED
  BY <1>0, <1>1, Steps, StepMoves DEF Moves, vars, tables

\* As TablesStay, for the invariant that does not need owners who wait.
LEMMA AuthorStays ==
  ASSUME AuthorInv, TypeOK', UNCHANGED <<quests, steps, req, used, mail, sent>>,
         \A k \in Key : asg[k] # None <=> asg'[k] # None
  PROVE  AuthorInv'
<1>1. TypeInv /\ TypeInv'
  BY DEF AuthorInv, TypeInv
<1>2. \A q \in Quest : SentTo(q)' <=> SentTo(q)
  BY DEF SentTo, Key
<1>3. NoOrphans'
  BY <1>2 DEF AuthorInv, NoOrphans
<1>4. Handed' /\ \A r \in Slot : OwnerKnown(r)'
  BY DEF AuthorInv, Handed, OwnerKnown, Busy, At, QuestOf
<1>5. InviteOnce'
  BY <1>1 DEF AuthorInv, InviteOnce, TypeInv, TypeOK
<1>6. Inviting'
  <2>1. \A r \in Slot : At(r, "user") => KeyOf(r) \in Key
    BY <1>1, BusyQuest DEF At, Busy
  <2>2. \A r \in Slot : (At(r, "user")' <=> At(r, "user")) /\ KeyOf(r)' = KeyOf(r)
    BY DEF At, KeyOf
  <2> QED
    BY <2>1, <2>2 DEF AuthorInv, Inviting
<1> QED
  BY <1>1, <1>3, <1>4, <1>5, <1>6 DEF AuthorInv
================================================================================
