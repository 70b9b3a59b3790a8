------------------------------- MODULE QuestLists -------------------------------
(***************************************************************************)
(* The lists: GET /quests/created and GET /quests/available, which hand    *)
(* out the quests of an owner, or those sent to a recipient, one page at a *)
(* time (getQuestsByUser and getAvailableQuests of transport/http, and     *)
(* GetQuestsByUser and GetQuestsAvailable of the store).                   *)
(*                                                                         *)
(* A client walks through a list: he asks for the page at his offset, adds *)
(* the length of the page to the offset, and stops when it has come to the *)
(* total_count of the answer.  Each page and each count is a statement of  *)
(* its own, and the tables change meanwhile as QuestRows says.  Requests   *)
(* for lists only read, so one client is as good as many.                  *)
(*                                                                         *)
(* The lists are in the order of created_at.  saveQuest takes the time     *)
(* before it sends the INSERT, so quests come to the table in another      *)
(* order than that of their times, and two times may be the same.          *)
(***************************************************************************)
EXTENDS Router, ErrorValues, SequencesExt, FiniteSetsExt

CONSTANTS User, Quest, Kind, None,   \* see QuestRows
          Unwritable,    \* kinds with rewards json.Marshal rejects
          Undescribed,   \* kinds without a description
          DefaultLimit,  \* 50 in the code
          LimitCap,      \* 1000 in the code
          Param,         \* the limits a client asks for, None to leave it out
          Born,          \* created_at of the quests there are at first
          MaxClock,      \* bound on the times
          MaxEvents      \* bound on changes of the tables and faults together

VARIABLES rows, status,  \* see QuestRows
          created,       \* column created_at, kept for a deleted quest
          pending,       \* created_at of a quest that is not inserted yet
          clock,
          walk,          \* the client's walk through a list, with its history
          req,           \* his request in flight
          events         \* how many changes of the tables and faults so far

Rows == INSTANCE QuestRows

vars == <<rows, status, created, pending, clock, walk, req, events>>
tables == <<rows, status, created, pending, clock>>

Time == 1..MaxClock
Lists == {"created", "available", "finished"}

\* listed: how often each quest was on a page, but 2 for more.  due: the quests
\* there since the walk began, while none before them has left the list.  firm:
\* these, while none has come before them.
Walk == [user : User, list : Lists, limit : Nat, open : BOOLEAN, offset : Nat,
         listed : [Quest -> 0..2], due : SUBSET Quest, firm : SUBSET Quest]

\* ill: has the page a quest json.Marshal rejects?  still: history, has the list
\* been the same since the request began?
Request == [pc : {"getQuestsByUser", "getAvailableQuests", "page", "count", "reply"},
            page : Seq(Quest), ill : BOOLEAN, cut : BOOLEAN, total : Nat,
            status : {200, 500}, still : BOOLEAN]

ASSUME ListAssumption ==
  /\ IsFiniteSet(Quest) /\ Quest # {} /\ MaxClock \in Nat
  /\ None \notin Nat \cup {"not_started", "in_progress", "finished"} /\ None \notin Walk
  /\ Unwritable \subseteq Kind /\ Undescribed \subseteq Kind
  /\ DefaultLimit \in Nat \ {0} /\ LimitCap \in Nat \ {0}
  /\ Param \subseteq Nat \cup {None}
  /\ Born \in [Quest -> Time] /\ IsInjective(Born)
  /\ MaxEvents \in Nat

TypeOK ==
  /\ Rows!RowsType
  /\ created \in [Quest -> Time \cup {None}] /\ pending \in [Quest -> Time \cup {None}]
  /\ clock \in Time
  /\ walk \in Walk \cup {None} /\ req \in Request \cup {None}
  /\ events \in 0..MaxEvents

\* Some quests are there, sent or not, and some on their way.  They can be read
\* until an owner edits them, or creates others.
Init ==
  /\ rows \in [Quest -> [owner : User, kind : Kind \ (Unwritable \cup Undescribed)]
                        \cup {None}]
  /\ status \in [Quest \X User -> {"not_started", "in_progress", "finished", None}]
  /\ \A k \in Quest \X User : rows[k[1]] = None => status[k] = None
  /\ created = [q \in Quest |-> IF rows[q] = None THEN None ELSE Born[q]]
  /\ \E S \in SUBSET {q \in Quest : rows[q] = None} :
       pending = [q \in Quest |-> IF q \in S THEN Born[q] ELSE None]
  /\ clock = Max(Range(Born))
  /\ walk = None /\ req = None
  /\ events = 0
--------------------------------------------------------------------------------
(* The statements that read.                                               *)

\* WHERE owner, or WHERE email and status.
On(list, u) ==
  CASE list = "created" -> {q \in Quest : rows[q] # None /\ rows[q].owner = u}
    [] list = "available" ->
         {q \in Quest : status[<<q, u>>] \in {"not_started", "in_progress"}}
    [] list = "finished" -> {q \in Quest : status[<<q, u>>] = "finished"}

Here == On(walk.list, walk.user)

\* Any order.
MutOrders(S) == SetToSeqs(S)

\* ORDER BY created_at ASC: quests of one time in any order, and each statement
\* has its own.
Orders(S) ==
  {s \in SetToSeqs(S) : \A i, j \in DOMAIN s : i < j => created[s[i]] <= created[s[j]]}

\* OFFSET and LIMIT
Page(s, offset, limit) == SubSeq(s, offset + 1, Min({offset + limit, Len(s)}))

\* Without the default.
MutLimit(list, param) ==
  IF list # "created" /\ param # None /\ param >= LimitCap THEN DefaultLimit
  ELSE param

\* A limit from 1000 on is replaced by the default, but for a list of created.
Limit(list, param) ==
  IF param = None THEN DefaultLimit
  ELSE IF list # "created" /\ param >= LimitCap THEN DefaultLimit
  ELSE param

\* SELECT count(*) without the condition on the status.
MutCount ==
  IF walk.list = "created" THEN Cardinality(Here)
  ELSE Cardinality({q \in Quest : status[<<q, walk.user>>] # None})

\* SELECT count(*) with the condition of the page.
Count == Cardinality(Here)
--------------------------------------------------------------------------------
(* The handlers, one action per statement they wait for.                   *)

Walking == walk # None /\ walk.open

At(pc) == req # None /\ req.pc = pc

Answer(s) == req' = [req EXCEPT !.pc = "reply", !.status = s]

Unknown == StatusOf(Wrap("unknown", Failure))

Read == UNCHANGED <<tables, walk, events>>

\* The request reaches its handler.  One that is not admitted, or whose limit or
\* offset is no number or below 0, is answered with an error and changes nothing.
Ask(token, contentType) ==
  LET route == Route("GET", <<"quests", IF walk.list = "created" THEN "created"
                                        ELSE "available">>)
  IN  /\ Walking /\ req = None
      /\ Admit(route, token, contentType) = 200
      /\ req' = [pc |-> route.handler, page |-> << >>, ill |-> FALSE, cut |-> FALSE,
                 total |-> 0, status |-> 200, still |-> TRUE]
      /\ Read

Pages == {Page(s, walk.offset, walk.limit) : s \in Orders(Here)}

Has(page, kinds) == \E i \in DOMAIN page : rows[page[i]].kind \in kinds

\* The page of GetQuestsByUser, and the SELECT of the recipients, which changes
\* nothing a client's walk depends on.
CreatedPage ==
  /\ At("getQuestsByUser")
  /\ \E page \in Pages :
       req' = [req EXCEPT !.pc = "count", !.page = page, !.ill = Has(page, Unwritable)]
  /\ Read

\* GetUser: the address of the recipient.
AvailableUser ==
  /\ At("getAvailableQuests")
  /\ req' = [req EXCEPT !.pc = "page"]
  /\ Read

\* The page of GetQuestsAvailable.  A description that is NULL has no place in a
\* string, and the whole page is an error.
AvailablePage ==
  /\ At("page")
  /\ \E page \in Pages :
       \/ Has(page, Undescribed) /\ Answer(Unknown)
       \/ /\ ~Has(page, Undescribed)
          /\ req' = [req EXCEPT !.pc = "count", !.page = page]
  /\ Read

CountList ==
  /\ At("count")
  /\ req' = [req EXCEPT !.pc = "reply", !.total = Count,
               !.status = IF req.ill THEN StatusOf(Failure) ELSE 200]
  /\ Read

Seen == [q \in Quest |->
  Min({2, walk.listed[q] + Cardinality({i \in DOMAIN req.page : req.page[i] = q})})]

\* After an error he asks for the same page again.
Reply ==
  /\ At("reply")
  /\ req' = None
  /\ walk' = IF req.status # 200 THEN walk
             ELSE [walk EXCEPT !.offset = @ + Len(req.page), !.listed = Seen,
                               !.open = walk.offset + Len(req.page) < req.total]
  /\ UNCHANGED <<tables, events>>

Handle == CreatedPage \/ AvailableUser \/ AvailablePage \/ CountList \/ Reply

\* The quests whose time no other of the list has.
Alone(S) == {q \in S : \A p \in S \ {q} : created[p] # created[q]}

Begin(u, list, param) ==
  /\ walk = None
  /\ walk' = [user |-> u, list |-> list, limit |-> Limit(list, param),
              open |-> TRUE, offset |-> 0, listed |-> [q \in Quest |-> 0],
              due |-> Alone(On(list, u)), firm |-> Alone(On(list, u))]
  /\ UNCHANGED <<tables, req, events>>
--------------------------------------------------------------------------------
Event == events < MaxEvents /\ events' = events + 1

\* A statement fails, or the client loses the answer.
StatementFails ==
  /\ Event /\ req # None /\ req.pc # "reply"
  /\ Answer(Unknown)
  /\ UNCHANGED <<tables, walk>>

Disconnect == Event /\ req # None /\ req' = None /\ UNCHANGED <<tables, walk>>

\* The connection breaks while the quests arrive, and GetQuestsByUser takes those
\* it has for all of them.  (SelectContext, which reads the other list, does ask
\* for the error.)
CutPage ==
  /\ Event /\ At("getQuestsByUser")
  /\ \E page \in Pages : \E n \in 1..(Len(page) - 1) :
       LET part == SubSeq(page, 1, n) IN
       req' = [req EXCEPT !.pc = "count", !.page = part, !.cut = TRUE,
                          !.ill = Has(part, Unwritable)]
  /\ UNCHANGED <<tables, walk>>
--------------------------------------------------------------------------------
(* The writers.  The tables are any at first, so what changes before the   *)
(* walk is left out.                                                       *)

\* saveQuest takes the time.
Stamp(q) ==
  /\ Walking /\ created[q] = None /\ pending[q] = None
  /\ \E tick \in {0, 1} :
       /\ clock + tick \in Time
       /\ clock' = clock + tick
       /\ pending' = [pending EXCEPT ![q] = clock']
  /\ UNCHANGED <<rows, status, created, walk, req, events>>

\* INSERT INTO quests
Insert(q, u, kind) ==
  /\ pending[q] # None
  /\ Rows!Create(q, u, kind)
  /\ created' = [created EXCEPT ![q] = pending[q]]
  /\ pending' = [pending EXCEPT ![q] = None]

Change ==
  \/ \E q \in Quest, u \in User, kind \in Kind : Insert(q, u, kind)
  \/ /\ \E q \in Quest, u \in User, kind \in Kind :
          \/ Rows!Edit(q, kind) \/ Rows!Delete(q)
          \/ Rows!Send(q, u) \/ Rows!Start(q, u) \/ Rows!Finish(q, u)
     /\ UNCHANGED <<created, pending>>

\* What a change does to the history of a walk through this list.
Watched(list, u) ==
  LET left == On(list, u) \ On(list, u)'
      come == On(list, u)' \ On(list, u)
  IN  /\ walk' = [walk EXCEPT
           !.due = {q \in @ : /\ \A p \in left : created[q] < created[p]
                              /\ \A p \in come : created[q] # created'[p]},
           !.firm = {q \in @ : \A p \in come : created[q] < created'[p]}]
      /\ req' = IF req = None THEN req
                ELSE [req EXCEPT !.still = @ /\ left = {} /\ come = {}]

Writer ==
  /\ Event /\ Walking
  /\ Change
  /\ \E list \in {walk.list}, u \in {walk.user} : Watched(list, u)
  /\ UNCHANGED clock
--------------------------------------------------------------------------------
ContentTypes == {"none", "json", "other", "malformed"}

Next ==
  \/ \E u \in User, list \in Lists, param \in Param : Begin(u, list, param)
  \/ \E token \in BOOLEAN, contentType \in ContentTypes : Ask(token, contentType)
  \/ Handle
  \/ StatementFails \/ Disconnect \/ CutPage
  \/ \E q \in Quest : Stamp(q)
  \/ Writer

Spec == Init /\ [][Next]_vars

\* The server runs each handler to its end, and the client who walks keeps asking
\* with his token.
FairSpec == Spec /\ WF_vars(Handle) /\ SF_vars(Ask(TRUE, "none"))
--------------------------------------------------------------------------------
(***************************************************************************)
(* A walk through a list misses nothing and shows nothing twice as far as  *)
(* offsets can do it, whichever statement of whichever page the writers    *)
(* come between, and also when a page is cut short: a quest that is there  *)
(* all the time is listed unless one before it leaves the list meanwhile,  *)
(* and is listed once unless one comes before it.                          *)
(***************************************************************************)
ListsOnce ==
  walk # None =>
    /\ ~walk.open => \A q \in walk.due : walk.listed[q] > 0
    /\ \A q \in walk.firm : walk.listed[q] < 2

(***************************************************************************)
(* The page and the total_count of an answer, read by two statements, fit  *)
(* together when the list has not changed: the count is of the same list,  *)
(* and the page is what its limit and offset leave of it.                  *)
(***************************************************************************)
CountFits ==
  At("reply") /\ req.status = 200 /\ req.still =>
    /\ req.total = Cardinality(Here)
    /\ req.cut \/ Len(req.page) = Max({0, Min({walk.limit, req.total - walk.offset})})

\* Quests that make their page an error, as long as they are as they are.
Unreadable ==
  {q \in Here : rows[q].kind \in IF walk.list = "created" THEN Unwritable ELSE Undescribed}

(***************************************************************************)
(* A client who asks for at least one quest at a time comes to the end of  *)
(* his list, or to a quest that cannot be read: requests reach the handler *)
(* of their list, the count does not run away from the pages, and a page   *)
(* that was cut short or lost is asked for again.                          *)
(***************************************************************************)
WalkEnds ==
  Walking /\ walk.limit > 0 ~> ~Walking \/ Unreadable # {}
================================================================================
