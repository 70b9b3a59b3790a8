# TLA+ models of quest-app-backend

The repository is the backend of *Questy*: users write quests (a list of
questions with accepted answers, and rewards at the end), send them to friends
by e-mail address, and the friends walk through them one question at a time.
It is a Go HTTP server (gorilla/mux) on a PostgreSQL or CockroachDB database.

This directory holds TLA+ modules that model the server handler by handler and
statement by statement, TLC configurations that check them on small instances,
and TLAPS proofs of the results that matter most. Paths below are relative to
`src/`.

To check: `tlc -config <cfg> <module>` for each row of [Runs](#runs), and
`tlapm` of each of the eight modules `…Proofs.tla`.

## 1. Inventory

| Component | State | Operations | Talks to |
|---|---|---|---|
| **quest progress** (`internal/quests/quests.go`, `store/store.go`, `transport/http/quests.go`) | table `quest_to_email`: status and current step of each (quest, recipient) | `start`, `next`, `status` | reads `quests`, `steps`; writes one row |
| **quest line** (`internal/quests/model/model.go`) | a sorted linked list built for one request | `NewQuestLine`, `Insert`, `CheckIfAnswerCorrect`, `IsLastStep`, `Next`, `CurrentStep`, `MarshalJSON` | called by quest progress |
| **quest authoring** (same files) | tables `quests`, `steps`, `quest_to_email` | `createQuest`, `getQuest`, `updateQuest`, `deleteQuest`, `sendQuest` | the users service, a goroutine that mails (`core/helpers/mailing.go`) |
| **quest lists** (same files) | none; a client's walk is his own | `getQuestsByUser`, `getAvailableQuests` | read `quests`, `quest_to_email`, `users` |
| **users, authentication** (`internal/users`, `transport/http/auth.go`, `users.go`, `middlwares.go`) | table `users`, the tokens clients hold | `register`, `login`, `getCurrentUser`, `updateUser` | every other handler takes the user from the token |
| **media** (`internal/media`, `transport/http/media.go`) | table `media`, the directory `files` | `uploadMedia`, `getMedia` | the local file storage |
| **application lifecycle** (`cmd/server/main.go`, `core/app`, `core/listeners/http`) | goroutines, the list of shutdown functions | start, serve, signal, listener failure, shutdown | the database driver |
| **database driver, migrations** (`core/drivers/psql`, `migrations/`, vendored golang-migrate) | `schema_migrations`, `schema_lock`, the schema, the connection pool | `Connect`, `Migrate`, `RevertMigrations`, `Close` | the database |
| **router, middleware, responses** (`transport/http/http.go`, `errors.go`, `middlwares.go`) | none | routes, token check, content types, answers | all handlers |
| **error values** (`internal/core/errors`, `checkWriteError` of the stores, `handleError`) | the `err` of a handler | `Wrap`, `Is`, status and text of an answer | all handlers |
| configuration, logging, tracing, events | none that lasts | | |

**How they interact.** Each request is one goroutine of net/http. It has no
state but the database: there is no lock, no cache, and *no transaction* in the
service's own code. A handler runs two to six statements, computes something
between them, and relies on what it has read being still true. So every
component meets the others only in the tables, and every pair of statements is
a place where another request, a lost connection or the end of the process can
come between. A lost connection cancels the request's context and with it the
handler's next statement.

**What is hard.** `PROJECT.json` lists each hazard with its line; by kind:

- *read, compute, write without comparing*: `start` and `next` write a row
  decided on an older read; `updateUser` writes back an address it has read;
- *several statements that belong together*: the quest row and its steps, the
  check before sending and the send, the media record, its file and its name;
- *late or lost answers*: rewards are in one answer only; an invitation is
  mailed after the assignment is saved;
- *two shutdowns at once* in one process, and two processes that migrate and
  purge one database under a lock that outlives its holder;
- *rows that stop coming*: nobody asks `rows.Err()`, so what arrived before a
  connection broke is taken for all there is;
- *pages by offset*: the list moves between two pages, its order is of times
  taken before the INSERT, and its count is a statement of its own;
- *errors translated on their way*: by constants wrapped around them in three
  layers, some of them twice;
- *boundaries*: sort numbers are any integers, 0 is also the default of the
  position, a list that is walked with a bound.

**What makes each part correct.** Progress: never ahead of the right answers,
never backwards, recoverable after any fault. Authoring: rows belong together,
only the owner changes a quest, a sent quest stays, one invitation each, and an
answer, its status included, tells what was done. Lists: nothing that stays in
place is missed or shown twice, and walking them ends.
Accounts: answered changes stand, logins follow the password. Media: a link
means a file, if the storage did not fail. Lifecycle: one migration at a time, and a version that is true.

## 2. Modules and the code

One action stands for one SQL statement *and everything the handler does with
its result* before it waits for the next: that is local to the request. A
request in flight is a record in the function `req` (`pc` names the statement it
waits for), a table is a function from its key to a row or `None`. `Submit…`
actions are clients, `Reply` is the answer, and faults are counted against
`MaxFaults`: `Disconnect`, `StatementFails`, `Crash` (`Kill`), and rows cut short
(`CutSteps`, `CutPage`). A statement that fails, or whose client is gone, may
have been executed.

| Module | What it is |
|---|---|
| `QuestLine` | the quest line in set form: previous questions, and the list whose least element is the head |
| `LinkedList` | `NewQuestLine`, `Insert` and `Next` with the pointers of the code, beside the set form |
| `QuestTables` | the tables `quests`, `steps`, `quest_to_email`, shared by the modules of the quests |
| `QuestProgress` | the handlers `start`, `next`, `status` |
| `QuestRun` | abstract specification: an assignment is begun once, then its steps are solved one by one, in order, for good |
| `QuestAuthoring` | the handlers of the owner, and the goroutine that mails |
| `QuestSystem` | `QuestProgress` and `QuestAuthoring` composed on the same tables |
| `QuestRows` | abstract specification: what the rows of quests and assignments may do, whatever runs on them |
| `QuestLists` | the two lists, walked through page by page while the tables change as `QuestRows` says |
| `Router` | operators: routes, their order, the middleware of their groups |
| `ErrorValues` | operators: chains of error constants, what the stores make of the database's errors, status and text of an answer |
| `Accounts` | register, login, profile read and update |
| `MediaUpload` | upload and read of media, the file storage |
| `AppLifecycle` | processes, their two goroutines, the migrations and their lock |
| `MC…` | the constants of the checked instances |
| `…Proofs` | the theorems of the module they are named after, with their invariants and lemmas |

A module of proofs EXTENDS the one it is about. `QuestSystem` instantiates those
of its two sides, `Owners == INSTANCE QuestAuthoringProofs` and
`Players == INSTANCE QuestProgressProofs`, so that `QuestSystemProofs` cites their
lemmas; TLC ignores proofs. `QuestAuthoringProofs` has what is proved of
`ErrorValues` too.

`QuestProgress` — `ReadQuest`, `ReadSteps` are the SELECTs of `store.GetQuest`;
`GetAssignment`, `StartQuest`, `CheckAnswer` the SELECT of the assignment
with what the method of that name decides on it; `UpdateAssignment` the UPDATE.
Errors and panics are named: a description that is NULL is dereferenced
(`model.go:240`), as is the head of an empty list (`model.go:184`), and the rows
of a failed UPDATE (`store.go:290`). The history `solved` records which steps a
recipient has answered right, `got` who was handed rewards. Answers differ only
up to letter case and blanks (`Norm`).

`QuestAuthoring` — `InsertQuest`, `InsertSteps`, `UpdateQuest`, `DeleteSteps`,
`DeleteQuest`, `CreateAssignment` are the writing statements with the
constraints that decide what they do: the unique sort number of a quest, the
foreign keys (CASCADE from quests to steps, RESTRICT from `quest_to_email`), the
primary key of an assignment. `Recheck` is the second reading of the quest in
`CreateAssignment`, `Invite` the read of the sender's name that starts the
goroutine, `SendEmail` that goroutine. What the constraints let through of a
body is its field `accepts`, and `refusal` the condition the rest raises. The
error of a request is an `ErrorValue`, built up by the operators of
`ErrorValues` at the places where the code wraps it; a quest id that is no uuid is
`None`. `CutSteps` is the connection that breaks while the steps arrive, which
the loop over them does not notice; in `QuestSystem` it also happens to
recipients. `wrote` records whether a request has changed anything.

`ErrorValues` — a value is the constants wrapped around a cause, the outermost
first, and the cause is the condition of the database with the name the code
looks for in its text. `Is` compares constants as `errors.Is` does along the
chain. `CheckWriteError` of the quests store covers the one of the users
store, which has the same cases but for one.

`QuestLists` — `Begin`, `Ask` and `Reply` are the client, who adds the length of
each page to his offset until it reaches the `total_count`; `CreatedPage`,
`AvailableUser`, `AvailablePage`, `CountList` the statements. Requests for lists
only read, so one client shows all there is, and his request finds its handler
through `Router`. The writers are the actions of `QuestRows`, which `QuestSystem`
implements (`RefinesRows`); `Stamp` takes the time of a quest before `Insert`
puts it in the table. `due` and `firm` are history: the quests that no change
before them has moved.

`Accounts` — a password is what its bcrypt hash is a hash of; first, last and
nickname are one field; tokens do not expire within a run. The histories `known` and `seen`
keep what a client can know of each field: the values sent since the last
answered one.

`MediaUpload` — `InsertMedia`, then `CreateFile` and `CopyFile` of the storage,
then `UpdateMedia` with name and link. `FileFails` models that `UploadFile`
overwrites the storage's error (`media.go:48`). `.wav` files are refused, for
the list of extensions says `".wav,"`.

`AppLifecycle` — main starts, connects, takes the migrations' lock twice (once
in `WithInstance` for the table of versions, once in `Up`), runs each migration
between marking its version dirty and clean, and serves. `err` is what a run
returns if its unlock succeeds; `unlockErr` is what is left of it if the unlock
fails, and `Return` lets a run up with `ErrNoChange` serve, as
`migrations.go:34-36` does, so a process may serve and leave the row of the lock
behind. The signal goroutine
exists only after that; a signal before is a `Kill`. Both goroutines call the
shutdown functions, last registered first: purge, then close the pool. A
migration's file is one statement sent in one call, hence one atomic action. A
statement a killed process still has executed is part of `Kill`; one that
comes later still is a later `Kill`, since a dead process changes nothing in
between and, when it held it, the row of the lock keeps others out.

## 3. Runs

| Run | Instance | Properties | What it shows |
|---|---|---|---|
| ProgressOverlap | 1 recipient, 1 quest, 3 requests in flight, 4 step sets (none; unsolvable; at sort 0; three with gaps and a negative one), 1 fault | `TypeOK` `NoSkip` `RepliesEarned` `NoNilHead` | overlapping and late writes cannot take anyone ahead of his right answers or show what was not earned |
| ProgressWaiting | 1 recipient who waits for each answer, 2 slots, writable and unwritable rewards, 2 faults, fairness | `RepliesStored` `RefinesRun` `Finishes` `GetsRewards` | what is told is stored; the handlers implement `QuestRun`; he who keeps trying finishes; without faults he gets the rewards |
| LinkedList | all orders of up to 4 sort numbers, every position in -1..5 and none | `InsertFindsTheEnd` `InOrder` `SameLine` | the pointer code equals the set form |
| AuthorOverlap | 2 users, 1 quest, 2 requests in flight of any user, 3 bodies (two accepted ones with different steps, one with a sort number that is no int4), ids that are no uuid, 1 fault | `TypeOK` `NoOrphans` `InviteOnce` `StatusTells` `OnlyOwner` `SentStays` | no interleaving or fault leaves rows without their quest, invites twice, lets a stranger write or loses a sent quest, and no status hides what was written |
| System | an owner who edits and a recipient who plays, each waiting for answers; 5 bodies (two that replace one another, one without steps, one whose steps and one which as a whole is refused), 1 fault | `FinishedAtAnEnd` `DoneAsAnswered` `NeverBack` `Informed` `SentWithSteps` `RefinesRows` | edits in the middle never move progress back or end a quest in its middle; each answer tells what is stored; the service implements `QuestRows` |
| Lists | 1 user, 3 quests of which any are there, sent or on their way, 3 times, pages of 1 or 2, limits at the cap, 2 changes or faults | `TypeOK` `ListsOnce` `CountFits` `WalkEnds` | lists are complete and without repetition as far as offsets allow, counts belong to their pages, and a walk ends |
| LifeTwo | 2 processes, each with or without purge, 2 migrations, any database an earlier release left, 2 faults of any kind | `TypeOK` `OneMigrator` `VersionHonest` `ServesMigrated` `LastLeavesClear` `StartsServe` | the lock works though anyone deletes its row; versions are true; who serves is fully migrated unless *another* process purges; a failure-free start serves |
| MediaFaults | 2 requests, 3 records, 2 faults of any kind | `TypeOK` `LinkMeansFile` `GetsItsName` | links lead to whole files, but for those whose storage failed |
| Accounts | 2 requests, 2 accounts, 5 bodies, 1 fault | `TypeOK` `ChangesStand` `PasswordDecides` `EmailKept` | no lost profile change, no stale login |
| ProgressRestart | 1 recipient, 2 requests, no fault | `FinishedIsFinal` **violated** | finding 1 |
| AuthorMixed | 1 quest whose create was answered, its owner, 2 requests, no fault | `WholeSteps` **violated** | finding 2 |
| MediaConflict | 2 uploads, no fault | `NoConflict` **violated** | finding 3 |

**Why these bounds are enough.** A row of `quest_to_email` is shared by the
requests of one recipient only, so one recipient and one quest show all
interference inside `QuestProgress`; a lost update needs two requests, three
let a write be overtaken by two others. Three steps have a first, a middle and
a last. A quest is edited by requests for this quest only; two users are an
owner and a stranger (or recipient). Two migrations have a first and a last,
and both are reached from each side. Faults act once each; two let a second hit
the recovery from the first. In `Lists` two events are a change and a fault, or
two changes, on either side of a page; three quests are one before, at and
behind a page's edge. Where a theorem exists the bound does not
matter. Symmetry is used with safety properties only.

**Fairness.** Weak fairness of each handler and goroutine: net/http runs a
handler until it returns, the database answers a statement or fails it, and
nothing blocks (no action of a handler can be disabled by another, but
for `Closed` replacing the step when the pool was closed). The recipient in
`Finishes` and `GetsRewards` is *diligent*: strong fairness of his sending each
request that he can send again and again. So is the client of
`WalkEnds`, who asks for the next page again and again with his token; the
changes of the tables are bounded, as a list that grows faster than it is read
has no end. The code does not make them so; the properties say that the code
lets someone who is go on. No fairness on
faults, signals, starts or other clients.

**Deadlock** is checked except where the system may stop: `LinkedList` ends at
the last question, and the table of `MediaUpload` may be full of records (its
ids bound the number of uploads).

Every property of a passing run has a mutant (`PROJECT.json`): a definition
named `Mut…`, placed before the definition it replaces, with a mistake someone
could make in that code.

### Findings

1. *A finished quest can be started again* (`ProgressRestart`). `StartQuest`
   refuses it with "quest already finished" (`quests.go:79`), but `start` and
   `next` decide on a row read earlier and the UPDATE only looks at quest and
   e-mail: a slow request that overlaps the last right answer sets the quest
   back to `in_progress`. (`NoSkip` still holds: nothing is gained.)
2. *Two updates mix their steps* (`AuthorMixed`). "deletes them and insert new
   regardless of already created steps" (`quests.go:170`) is two statements: both
   DELETEs may come before both INSERTs. The run starts with a quest whose create
   was answered, so the two are updates. (An update that overlaps the create does
   the same, between its INSERT of the quest and that of the steps.)
3. *Uploads collide* (`MediaConflict`). The schema has NULL as the name of a
   record without a file; `InsertMedia` inserts `''`, which is unique: while one
   upload lies between its INSERT and its UPDATE each other upload fails, and
   after a crash in between all do.

Also met while modelling, and visible in the models, without a run of their own:

- the answer with the rewards is the only one that has them (`quests.go:124`):
  when it is lost they cannot be had, hence `faults > 0` in `GetsRewards`;
- a quest can be sent while an update has deleted its steps
  (`transport/http/quests.go:202`), hence `SentWithSteps` only for owners who wait;
- no loop over rows asks `rows.Err()` (`store.go:113`, `:157`): a recipient whose
  steps were cut short can finish before the end and be handed the rewards,
  hence `Key \ cut` in `FinishedAtAnEnd`; `NeverBack` and `RefinesRows` hold all the
  same;
- one quest without a description makes every page of its recipients' lists it
  is on an error (`model.go:143`), and one with rewards that are no JSON those of
  its owner (`model.go:98`), hence `Unreadable` in `WalkEnds`;
- a number that does not fit its column, and a foreign key that is gone, are the
  client's doing but answered with 500 (`store.go:437`);
- a listener that fails and a signal run the shutdown functions twice at a time
  (`app.go:84`): the second closes the pool under the purge of the first, hence
  `LastLeavesClear` without such a failure;
- an update of nothing but the password dereferences a nil pointer
  (`transport/http/users.go:86`), action `GetUser`;
- a registration with an empty password passes the constraint against it, for
  its hash is not empty (`users/users.go:72`), action `InsertUser`;
- the size of an upload is not limited, although the comment on
  `ParseMultipartForm` says so (`transport/http/media.go:24`);
- a process serves although its unlock failed, if it found nothing to migrate:
  `unlockErr` joins the two errors, and `errors.Is` finds `ErrNoChange` among them
  (`psql/migrations.go:35`); the row of the lock may stay, and every later start
  and purge is refused;
- a limit of 1000 or more is answered with a page of 50 in one list and taken as
  it is in the other (`transport/http/quests.go:112`);
- `quest already started` and its like are none of the errors `handleError`
  knows, so they are answered with status 500.

## 4. Proofs

TLC checks instances; the theorems hold for every value of the constants: any
numbers of users, quests, requests in flight, bodies, faults, processes,
migrations and steps. Every safety property of a passing run, invariant or
action property, is stated by a theorem.

| Module | Theorems | State | Argument |
|---|---|---|---|
| `QuestProgressProofs` | `TypeCorrect` | `TypeOK` | `TypeInv`: types, and that a request which waits for its n-th statement has the results of the others |
| | `NeverSkips`, `RepliesAreEarned`, `HeadIsThere` | `NoSkip`, `RepliesEarned`, `NoNilHead` | `ProgressInv` |
| | `AnswersAreStored` | `~Overlap` implies `RepliesStored` | `StoredInv` |
| | `Refinement` | `~Overlap` implies `RefinesRun` | `RunInv`, then one step of `QuestRun` per UPDATE |
| `LinkedListProofs` | `NoneDropped`, `StepsInOrder`, `OneLine` | `InsertFindsTheEnd`, `InOrder`, `SameLine` | `ListInv` |
| `QuestAuthoringProofs` | `TypeCorrect`, `StatusesTell` | `TypeOK`, `StatusTells` | `TypeInv`: types, and what each kind of request has written by the time it stands before a statement |
| | `Orphans`, `Invitations`, `SentQuestStays`, `OwnersOnly` | `NoOrphans`, `InviteOnce`, `SentStays`, `OnlyOwner` | `AuthorInv` |
| | `StepsOfOneBody`, `AnswersAreTrue` | `~Overlap` implies `WholeSteps` and `DoneAsAnswered`: what owners who wait for each answer are told is what was done | `WaitInv` |
| | `CheckedTwice` | an error that passes through `checkWriteError` twice, as that of an update's steps does, ends with the status and text it has after once | what `Wrap` does to `Is` and `TextOf`, for chains of any length |
| `QuestSystemProofs` | `EndsAtAnEnd`, `NoWayBack`, `AnswersAreTrue`, `StepsAreSent` | `~Overlap` implies `FinishedAtAnEnd`, `NeverBack`, `DoneAsAnswered`, `SentWithSteps` | `SystemInv` |
| | `RowsRefined` | `~Overlap` implies `RefinesRows` | `SystemInv`, then at most one step of `QuestRows` per statement |
| `QuestListsProofs` | `TypeCorrect`, `ListedOnce`, `CountsFit` | `TypeOK`, `ListsOnce`, `CountFits` | `ListsInv` |
| | `FirstMatch` | the route of each list is the first of the sixteen that fits its request | the patterns, one by one |
| `MediaUploadProofs` | `TypeCorrect`, `LinksWork` | `TypeOK`, `LinkMeansFile` | `MediaInv` |
| `AccountsProofs` | `TypeCorrect`, `NoLostChange`, `LoginsDecided`, `EmailForEver` | `TypeOK`, `ChangesStand`, `PasswordDecides`, `EmailKept` | `AccountInv` |
| `AppLifecycleProofs` | `TypeCorrect`, `OneAtATime`, `Honest` | `TypeOK`, `OneMigrator`, `VersionHonest` | `IInv` |
| | `Served` | `ServesMigrated` | `IInv` and `Upward` |
| | `NothingLeft` | `LastLeavesClear` | `IInv` and `Orderly` |

*`ProgressInv`.* `NoSkip` is not inductive: `UpdateAssignment` writes a line that
was computed long before, when the row may have stood elsewhere. The invariant
says that each line a request carries is *earned by itself* (`LineEarned`): its
previous questions are solved, its head is a step whose predecessors are solved,
and it is finished only if all are. That lasts, for `solved` only grows
and the steps stay, so whichever write comes last leaves a row that is earned.

*`RunInv`.* The write is a step of `QuestRun` only if the row is still what the
handler read. `Alone`: one request per assignment (from `~Overlap`). `Fresh`:
the line about to be written goes exactly one step on from the row as it is.
*`StoredInv`* adds `Faithful`: the line that waits to be written divides the
steps at its head, as a row does, and the line that waits to be answered *is*
the row.

*`WalkInv`.* Under owners who edit, the previous questions of a line and the
steps of its quest come apart, and `Fresh` is false. What is left is `Walks`: the
line about to be written goes on from the row as it is, and to its end only if
its head was the last of the steps the request read, and was answered right.

*`ListInv`.* The loop, the list and the pointers are described by one order `s`
of the steps and two positions in it: the first `a` steps are the previous
questions, those up to `b` are the nodes of the list, each pointing to the next,
and the rest is to come. `Insert` walks inside `a + 1..b` and finds `b`. Nothing
is proved by recursion over the list; the order is an element of `Sorted(input)`.

*`AuthorInv`.* `NoOrphans` needs the foreign keys only, the others need to know
what a request has a right to assume when its statement runs. `Handed`: the id
of a quest about to be inserted is nobody else's. `OwnerKnown`: the owner that a
request read, or has compared its user with, still owns the quest *if it is
still there*, since ids are handed out once. `Inviting`: a request on its way to
start the goroutine that mails is the only one of its recipient, has his
assignment, and nobody has mailed before, which is what the primary key
of `quest_to_email` gives to one request only.

*`WaitInv`.* With one request per owner (`Waiting`), `Holds` says of each
statement what those before it have left: the row as it was read, the quest as
the body says, no steps between the two statements of an update, and, for an
answer, everything it tells (`Told`). `WholeSteps` then is inductive.

*`SystemInv`.* `Owners!WaitInv` and `Players!WalkInv`, proved of the two modules
alone and used here as lemmas: a step of one side is, for the other, a step of
its tables (owners leave every assignment that is there as it is; recipients
write nothing else). What couples the two is `Snapshot`: the steps a recipient
goes on with are those of one body, because `WholeSteps` held when he read them,
unless the connection cut them short. From that and `Ends` a finished recipient
has answered the last step of a quest as it was saved (`FinishedAtAnEnd`, itself
part of the invariant).

*`ListsInv`.* `Place(q)` is the number of quests listed before `q`. `DueOK`: a quest that
no departure before it has moved was shown, or is on the page in hand, or its place is at
or behind the offset; once the count is in, it says so too. `FirmOK`: a quest
that no arrival before it has moved is, once shown, before the offset for as long as
it is there. A page is an interval of places, so the client's `offset + length`
keeps both. `PageOK` gives `CountFits` what the length of the page was when
it was read.

*`MediaInv`.* `OwnRecord`: uploads in flight have different records. `StoredBy`:
each of them is without a name, and by the time it gets one the file is whole or
its loss is known.

*`AccountInv`.* `ChangesStand` speaks of the values that could have been set
(`known`), `PasswordDecides` of those a request could have seen (`seen`). They
relate through requests in flight: `Hears`, whoever deals with an account has
what the others may still write among his `seen`; `KnownShows` and `SeesRow`, the
row is always among both; `Stands`, an update that was executed finds its fields
as it set them, or as one that overlaps it did; `AnswerHolds`, the same for what
an answer says.

*`IInv`.* `OneMigrator` alone is not inductive, since `UnlockRow` deletes the row
whoever inserted it. `LockTaken`: whoever believes he holds the lock finds it
taken, also after a lost result of an INSERT (then the row is there and nobody
believes). `Stands` says what the tables are between two statements of a
migration, which makes `VersionHonest` hold again when it is marked clean. A
killed or failing goroutine leaves the version dirty whenever the schema is not
what it says. `Upward(p)`, where `p` alone may purge: the runs of all others go
up, and any run up that is about to unlock without an error, or with
`ErrNoChange`, leaves all migrations applied. It serves then even if the unlock
fails. The second half needs no assumption on purges, for the lock
keeps the others from writing in between (`UnlockKeeps`); the first keeps them
from going down while `p` serves (`ServingKeeps`), and `p` itself goes down only
when it no longer does.

*`Orderly`* holds when every process purges and nothing has failed. `Calm`: the
two goroutines of a process are never busy at once, and its pool is open until
the purge is over. The row of the lock then has its holder, who is in a run and
so belongs to a process with its purge still before it (`Due`). A process that is
refused the lock therefore leaves one behind that is due; one that has purged
leaves an empty database; so when nobody is due any more, it is empty.

*Assumptions* are the ASSUMEs of the modules; TLC evaluates them in every run.
The marks `None` are not values, and `MaxFaults` is a natural number. A step set
is a function on integers each of whose non-empty parts has a least element
(sort numbers are `int4`); any of the rows of a step set are one
(`PartsAssumption`: what `CutSteps` leaves), and so are those of two with
different sort numbers (`MixAssumption`: what two updates leave). The sort numbers
of a quest in `LinkedList`, and the quests in `QuestLists`, are finitely many
(`SortAssumption`, `ListAssumption`); no two quests have the same time, limits are
positive, offsets natural. There is at least one migration. `QuestSystem`
assumes what its two sides do. `~Overlap` is a constant of `QuestProgress`,
`QuestAuthoring` and `QuestSystem`: a user waits for the answer, or the loss, of a
request before he sends the next (a recipient: the next about the same quest).
The theorems that need it say so; the runs
`ProgressRestart` and `AuthorMixed` show that they do.

*Only model-checked*: liveness, out of the prover's reach under fairness:
`Finishes`, `GetsRewards`, `Informed`, `GetsItsName`, `StartsServe`, `WalkEnds`. And
the three runs with a violation, which are counterexamples; that of `WholeSteps`
in AuthorMixed is what `StepsOfOneBody` excludes for owners who wait.

## 5. Abstractions, and what is not modelled

- A client whose connection is lost sends his next request on that assignment
  when the cancelled statement is over (it was executed with the `Disconnect`,
  or never). Without `~Overlap` this assumption is not used.
- The SELECT of the recipients in `GetQuest` and the joins on e-mail addresses:
  an account's address never changes (`EmailKept`), so a recipient is a user.
- A quest's content is its rewards and final message; texts, themes and types of
  questions do nothing to the flow. Rewards that are a JSON string lose their quotes when stored,
  and every later answer that has them fails (`Unwritable`).
- Errors are values with a status in `QuestAuthoring` and `QuestLists`; in
  `QuestProgress`, `Accounts` and `MediaUpload` an error is its name.
- `QuestLists` has no requests that are refused before they reach a statement
  (no token, another content type, a limit or offset that is no number or
  negative): they are answered with an error and change nothing. What a list
  shows with each quest (recipients, owner's name, number of steps) is left out.
- Not modelled: `createUser`, `deleteUser`, `searchUsers` (on no route),
  `/health`, CORS, configuration, logging, tracing, the `events` stub (its
  `Produce` does nothing), the contents of the migrations, serving of files (done
  outside).
- Requests that are served while the database is purged under them; a purge by
  a second process that could not bind its port.

## 6. Plan

Done, in this order: `QuestLine`, `QuestTables`, `QuestProgress` with
`QuestRun` and their proofs; `LinkedList`; `QuestAuthoring`; `QuestSystem`;
`AppLifecycle` with its proofs; `MediaUpload`; `Accounts`; `ErrorValues`, `Router`,
`QuestRows` and `QuestLists`; rows cut short; a purge of a process's own in
`ServesMigrated`.

The proofs of `QuestAuthoring`, `MediaUpload`, `Accounts`, `QuestSystem`, `QuestLists`,
`LinkedList`, `RepliesStored` and `LastLeavesClear` followed; no safety property
is left without one.

Next:

1. `QuestProgress` with overlapping requests: what the rows may do without
   `~Overlap` as an abstract specification weaker than `QuestRun` (a row may
   fall back, to where it has been, and never runs ahead);
2. `Router`: that each of the routes is reached by some request.

Further models, if the code grows towards them: `AppLifecycle` composed with the
tables, so that statements meet missing tables during a purge (a development
setting today); an abstract specification of authoring in which a quest and its
steps are replaced at once, when updates run in a transaction.
