------------------------------ MODULE AppLifecycle ------------------------------
(***************************************************************************)
(* A process of the service from its start to its exit: Start and shutdown *)
(* of src/internal/core/app/app.go, appStart of src/cmd/server/main.go,    *)
(* and the migrations they run (src/internal/core/drivers/psql, on top of  *)
(* the vendored golang-migrate and its driver for CockroachDB).            *)
(*                                                                         *)
(* A process has two goroutines that matter here: main, which connects,    *)
(* migrates the database up, serves, and shuts the process down when its   *)
(* listener fails; and the one that waits for SIGINT or SIGTERM and then   *)
(* shuts it down as well.  Nothing keeps the two from shutting down at the *)
(* same time.  There is one action per statement sent to the database.     *)
(*                                                                         *)
(* The lock of the migrations is a row of a table, not a lock of a         *)
(* session: it outlives the process that took it.                          *)
(***************************************************************************)
EXTENDS Integers, Sequences

CONSTANTS Proc,        \* processes on one database
          Last,        \* the number of migrations
          Faults,      \* the kinds of faults that may happen
          MaxFaults    \* bound on their number

ASSUME LastAssumption == Last \in Nat \ {0}

ASSUME FaultsAssumption ==
  Faults \subseteq {"kill", "statement", "listener"} /\ MaxFaults \in Nat

VARIABLES locked,          \* table schema_lock has its row
          version, dirty,  \* table schema_migrations; 0 stands for no version
          applied,         \* the migrations the schema contains
          purge,           \* the processes with the setting purge_on_restart
          open,            \* the connection pool of a process is open
          go,              \* the goroutines
          faults           \* history: how many faults so far

db == <<locked, version, dirty, applied>>
vars == <<locked, version, dirty, applied, purge, open, go, faults>>

Thread == Proc \X {"main", "signal"}
Main(p) == <<p, "main">>
Signalled(p) == <<p, "signal">>

\* dir, v, err: of a run of migrations, its direction, the version it stands at
\* and what it returns if its unlock succeeds: no error, ErrNoChange, or another.
\* next: the next shutdown function.
Goroutine ==
  [pc : {"off", "connect", "ensure", "release", "lock", "read", "mark", "run",
         "clean", "unlock", "serve", "wait", "shutdown"},
   dir : {"up", "down"}, v : 0..Last, err : {"none", "no_change", "failed"},
   next : Nat]

Off == [pc |-> "off", dir |-> "up", v |-> 0, err |-> "none", next |-> 1]
Leaving ==
  [pc |-> "shutdown", dir |-> "down", v |-> 0, err |-> "none", next |-> 1]

TypeOK ==
  /\ locked \in BOOLEAN /\ dirty \in BOOLEAN
  /\ version \in 0..Last
  /\ applied \subseteq 1..Last
  /\ purge \subseteq Proc
  /\ open \in [Proc -> BOOLEAN]
  /\ go \in [Thread -> Goroutine]
  /\ faults \in 0..MaxFaults

\* No process, and an empty database or one an earlier release has migrated.
Init ==
  /\ locked = FALSE /\ dirty = FALSE
  /\ version \in 0..Last /\ applied = 1..version
  /\ purge \in SUBSET Proc
  /\ open = [p \in Proc |-> FALSE]
  /\ go = [t \in Thread |-> Off]
  /\ faults = 0
--------------------------------------------------------------------------------
MutOnShutdown(fs, f) == Append(fs, f)

\* The function registered last is called first.
OnShutdown(fs, f) == <<f>> \o fs

\* Those that touch the database, as initDatabase and appStart register them.
shutdownFuncs == OnShutdown(OnShutdown(<< >>, "close"), "purge")

At(t, pc) == go[t].pc = pc
GoTo(t, pc) == go' = [go EXCEPT ![t].pc = pc]

\* The process is gone, both goroutines with it.
Stop(p) ==
  /\ go' = [t \in Thread |-> IF t[1] = p THEN Off ELSE go[t]]
  /\ open' = [open EXCEPT ![p] = FALSE]

\* shutdown of the code begins, in one goroutine.
ShutDown(t) == go' = [go EXCEPT ![t] = Leaving]

\* Migrate returned nil: the signal goroutine is started, and the listener.
Serve(p) == go' = [go EXCEPT ![Main(p)].pc = "serve", ![Signalled(p)].pc = "wait"]

MutReturn(t, err) ==
  IF go[t].dir = "down"
  THEN go' = [go EXCEPT ![t].pc = "shutdown", ![t].next = @ + 1] /\ UNCHANGED open
  ELSE Serve(t[1]) /\ UNCHANGED open

\* A run of migrations is over.  A start that fails is fatal, unless the error
\* is, or wraps, ErrNoChange; a purge that fails is logged, and the next shutdown
\* function called.
Return(t, err) ==
  IF go[t].dir = "down"
  THEN go' = [go EXCEPT ![t].pc = "shutdown", ![t].next = @ + 1] /\ UNCHANGED open
  ELSE IF err # "failed" THEN Serve(t[1]) /\ UNCHANGED open
  ELSE Stop(t[1])

Up(t) == go[t].dir = "up"

MutTarget(t) == go[t].v + 1

\* The version a migration leads to.
Target(t) == IF Up(t) THEN go[t].v + 1 ELSE go[t].v - 1

\* The version at which a run of migrations ends.
End(t) == IF Up(t) THEN Last ELSE 0

\* The goroutine at version v, with the next migration to do, or none.
Proceed(t, v) ==
  [go[t] EXCEPT !.v = v, !.pc = IF v = End(t) THEN "unlock" ELSE "mark"]

\* The run has nothing more to do than to unlock, and an error to return.
EndWith(t, err) == go' = [go EXCEPT ![t].pc = "unlock", ![t].err = err]

\* The error of a run whose unlock fails: the run's own is kept beside it, and
\* errors.Is still finds it there.
unlockErr(err) == IF err = "no_change" THEN err ELSE "failed"
--------------------------------------------------------------------------------
(* The statements that write, when the database executes them.             *)

MutLockRow(t) ==
  /\ go[t].pc \in {"ensure", "lock"}
  /\ locked' = TRUE
  /\ UNCHANGED <<version, dirty, applied>>

\* SELECT and INSERT in one transaction.
LockRow(t) ==
  /\ go[t].pc \in {"ensure", "lock"} /\ ~locked
  /\ locked' = TRUE
  /\ UNCHANGED <<version, dirty, applied>>

MutUnlockRow(t) == go[t].pc \in {"release", "unlock"} /\ UNCHANGED db

\* DELETE, whoever inserted the row.
UnlockRow(t) ==
  /\ go[t].pc \in {"release", "unlock"}
  /\ locked' = FALSE
  /\ UNCHANGED <<version, dirty, applied>>

\* The target version, before and after its migration.
SetVersion(t) ==
  /\ go[t].pc \in {"mark", "clean"}
  /\ version' = Target(t) /\ dirty' = At(t, "mark")
  /\ UNCHANGED <<locked, applied>>

\* The file of the migration, in one statement.
RunFile(t) ==
  /\ At(t, "run")
  /\ applied' = IF Up(t) THEN applied \cup {go[t].v + 1} ELSE applied \ {go[t].v}
  /\ UNCHANGED <<locked, version, dirty>>

Write(t) == LockRow(t) \/ UnlockRow(t) \/ SetVersion(t) \/ RunFile(t)
--------------------------------------------------------------------------------
(* The steps of a run of migrations, up in main or down in a shutdown.     *)

\* WithInstance takes the lock to see that the table of versions is there.
Ensure(t) ==
  /\ At(t, "ensure") /\ open[t[1]]
  /\ \/ LockRow(t) /\ GoTo(t, "release") /\ UNCHANGED open
     \/ locked /\ Return(t, "failed") /\ UNCHANGED db
  /\ UNCHANGED <<purge, faults>>

Release(t) ==
  /\ At(t, "release") /\ open[t[1]]
  /\ UnlockRow(t) /\ GoTo(t, "lock")
  /\ UNCHANGED <<open, purge, faults>>

\* Up and Down start alike.
Lock(t) ==
  /\ At(t, "lock") /\ open[t[1]]
  /\ \/ LockRow(t) /\ GoTo(t, "read") /\ UNCHANGED open
     \/ locked /\ Return(t, "failed") /\ UNCHANGED db
  /\ UNCHANGED <<purge, faults>>

MutVersion(t) ==
  /\ At(t, "read") /\ open[t[1]]
  /\ \/ version = End(t) /\ EndWith(t, "no_change")
     \/ version # End(t) /\ go' = [go EXCEPT ![t] = Proceed(t, version)]
  /\ UNCHANGED <<db, open, purge, faults>>

\* A dirty version is an error, and so is ErrNoChange, for the run that finds
\* nothing to do.
Version(t) ==
  /\ At(t, "read") /\ open[t[1]]
  /\ \/ dirty /\ EndWith(t, "failed")
     \/ ~dirty /\ version = End(t) /\ EndWith(t, "no_change")
     \/ ~dirty /\ version # End(t) /\ go' = [go EXCEPT ![t] = Proceed(t, version)]
  /\ UNCHANGED <<db, open, purge, faults>>

\* runMigrations, for each migration.
Mark(t) ==
  /\ At(t, "mark") /\ open[t[1]]
  /\ SetVersion(t) /\ GoTo(t, "run")
  /\ UNCHANGED <<open, purge, faults>>

Run(t) ==
  /\ At(t, "run") /\ open[t[1]]
  /\ RunFile(t) /\ GoTo(t, "clean")
  /\ UNCHANGED <<open, purge, faults>>

Clean(t) ==
  /\ At(t, "clean") /\ open[t[1]]
  /\ SetVersion(t)
  /\ go' = [go EXCEPT ![t] = Proceed(t, Target(t))]
  /\ UNCHANGED <<open, purge, faults>>

Unlock(t) ==
  /\ At(t, "unlock") /\ open[t[1]]
  /\ UnlockRow(t) /\ Return(t, go[t].err)
  /\ UNCHANGED <<purge, faults>>

\* An error ends the run, but an attempt to unlock is made if it has the lock.
Abort(t) ==
  \/ go[t].pc \in {"ensure", "release", "lock"} /\ Return(t, "failed")
  \/ At(t, "unlock") /\ Return(t, unlockErr(go[t].err))
  \/ /\ go[t].pc \in {"read", "mark", "run", "clean"}
     /\ EndWith(t, "failed")
     /\ UNCHANGED open

\* The other goroutine has closed the pool.
Closed(t) ==
  /\ ~open[t[1]]
  /\ Abort(t)
  /\ UNCHANGED <<db, purge, faults>>
--------------------------------------------------------------------------------
Start(p) ==
  /\ At(Main(p), "off")
  /\ GoTo(Main(p), "connect")
  /\ UNCHANGED <<db, open, purge, faults>>

Connect(p) ==
  /\ At(Main(p), "connect")
  /\ open' = [open EXCEPT ![p] = TRUE]
  /\ GoTo(Main(p), "ensure")
  /\ UNCHANGED <<db, purge, faults>>

\* SIGINT or SIGTERM, once the goroutine waits for it.
Signal(p) ==
  /\ At(Signalled(p), "wait")
  /\ ShutDown(Signalled(p))
  /\ UNCHANGED <<db, open, purge, faults>>

\* The next shutdown function, or the end: os.Exit in the signal goroutine, the
\* return from main in the other.
CallNext(t) ==
  /\ At(t, "shutdown")
  /\ \/ /\ go[t].next > Len(shutdownFuncs)
        /\ Stop(t[1])
     \/ /\ go[t].next <= Len(shutdownFuncs)
        /\ shutdownFuncs[go[t].next] = "purge"
        /\ IF t[1] \in purge THEN GoTo(t, "ensure") ELSE go' = [go EXCEPT ![t].next = @ + 1]
        /\ UNCHANGED open
     \/ /\ go[t].next <= Len(shutdownFuncs)
        /\ shutdownFuncs[go[t].next] = "close"
        /\ go' = [go EXCEPT ![t].next = @ + 1]
        /\ open' = [open EXCEPT ![t[1]] = FALSE]
  /\ UNCHANGED <<db, purge, faults>>
--------------------------------------------------------------------------------
Fault(kind) ==
  /\ kind \in Faults /\ faults < MaxFaults
  /\ faults' = faults + 1
  /\ UNCHANGED purge

\* A process ends at once, also by a signal before its goroutine waits for one.
\* A statement that is on its way may still be executed.
Kill(p) ==
  /\ Fault("kill")
  /\ ~At(Main(p), "off")
  /\ Stop(p)
  /\ UNCHANGED db \/ \E t \in Thread : t[1] = p /\ open[p] /\ Write(t)

\* The database cannot be reached, rejects a statement, or its result is lost.
StatementFails(t) ==
  /\ Fault("statement")
  /\ \/ At(t, "connect") /\ Stop(t[1]) /\ UNCHANGED db
     \/ open[t[1]] /\ Abort(t) /\ (UNCHANGED db \/ Write(t))

\* ListenAndServe returns, as when the port is taken.
ListenerFails(p) ==
  /\ Fault("listener")
  /\ At(Main(p), "serve")
  /\ ShutDown(Main(p))
  /\ UNCHANGED <<db, open>>

Proceeds(t) ==
  \/ Ensure(t) \/ Release(t) \/ Lock(t) \/ Version(t) \/ Mark(t) \/ Run(t)
  \/ Clean(t) \/ Unlock(t) \/ Closed(t) \/ CallNext(t)

Next ==
  \/ \E p \in Proc : Start(p) \/ Connect(p) \/ Signal(p) \/ Kill(p) \/ ListenerFails(p)
  \/ \E t \in Thread : Proceeds(t) \/ StatementFails(t)

Spec == Init /\ [][Next]_vars

\* Each goroutine runs on, and the database answers.
FairSpec ==
  /\ Spec
  /\ \A p \in Proc : WF_vars(Connect(p))
  /\ \A t \in Thread : WF_vars(Proceeds(t))
--------------------------------------------------------------------------------
\* The goroutine has inserted the row of the lock and not tried to delete it.
Holds(t) == go[t].pc \in {"release", "read", "mark", "run", "clean", "unlock"}

(***************************************************************************)
(* No two goroutines migrate at a time, of one process or of two, though   *)
(* the row of the lock is deleted by anyone who thinks he has inserted it. *)
(***************************************************************************)
OneMigrator == \A t, u \in Thread : Holds(t) /\ Holds(u) => t = u

(***************************************************************************)
(* A version that is not dirty tells the truth: the schema contains        *)
(* exactly the migrations up to it, wherever processes were killed or      *)
(* statements failed, and whoever ran up and down before.                  *)
(***************************************************************************)
VersionHonest == ~dirty => applied = 1..version

(***************************************************************************)
(* A process that serves, and has not been told to stop, finds the tables  *)
(* of all migrations ("Run our migrations which will update the DB or      *)
(* create it", main.go:49), if no other process is to purge the database;  *)
(* neither what purges it left half done itself, before it was started     *)
(* again, nor an unlock that failed before it served does harm.            *)
(***************************************************************************)
ServesMigrated ==
  \A p \in Proc :
    purge \subseteq {p} /\ At(Main(p), "serve") /\ At(Signalled(p), "wait") =>
      applied = 1..Last

Gone(p) == At(Main(p), "off")

(***************************************************************************)
(* "Temp for development so database is cleared on shutdown" (main.go:56): *)
(* when nothing fails, the last process to leave leaves an empty database, *)
(* though starts and shutdowns of others have kept it from the lock.       *)
(***************************************************************************)
LastLeavesClear ==
  [][purge = Proc /\ faults' = 0 =>
       ((\E p \in Proc : ~Gone(p)) /\ (\A p \in Proc : Gone(p)') => applied' = {})]_vars

(***************************************************************************)
(* A process that starts alone comes to serve when nothing fails, however  *)
(* often others were started, refused the lock, stopped, and purged the    *)
(* database before.                                                        *)
(***************************************************************************)
StartsServe ==
  \A p \in Proc :
    At(Main(p), "connect") ~>
      At(Main(p), "serve") \/ faults > 0 \/ \E q \in Proc \ {p} : ~Gone(q)
================================================================================
