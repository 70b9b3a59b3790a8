--------------------------- MODULE AppLifecycleProofs ---------------------------
(***************************************************************************)
(* Proofs about AppLifecycle, for every set of processes, every number of  *)
(* migrations and every bound on the faults.                               *)
(***************************************************************************)
EXTENDS AppLifecycle, TLAPS

\* Whoever believes he has the lock finds it taken.
LockTaken == \A t \in Thread : Holds(t) => locked

\* What a goroutine between two statements of a migration knows of the tables.
Stands(t) ==
  /\ At(t, "mark") => ~dirty /\ version = go[t].v /\ go[t].v # End(t)
  /\ At(t, "run") =>
       dirty /\ version = Target(t) /\ applied = 1..go[t].v /\ go[t].v # End(t)
  /\ At(t, "clean") =>
       dirty /\ version = Target(t) /\ applied = 1..Target(t) /\ go[t].v # End(t)

IInv ==
  /\ TypeOK
  /\ LockTaken
  /\ OneMigrator
  /\ \A t \in Thread : Stands(t)
  /\ VersionHonest


\* Goroutines other than t stay as they are, or step out of a run.
Others(t) == \A u \in Thread : u # t => go'[u] = go[u] \/ ~Holds(u)'

LEMMA ThreadFacts ==
  /\ \A p \in Proc : Main(p) \in Thread /\ Signalled(p) \in Thread
  /\ \A t \in Thread : t[1] \in Proc
BY DEF Thread, Main, Signalled

LEMMA OffType == Off \in Goroutine
BY LastAssumption DEF Off, Goroutine

--------------------------------------------------------------------------------
(* Helpers of the actions: the types they leave, and who is left in a run.  *)

LEMMA StopType ==
  ASSUME TypeOK, NEW p \in Proc, Stop(p)
  PROVE  /\ go' \in [Thread -> Goroutine] /\ open' \in [Proc -> BOOLEAN]
         /\ \A t \in Thread : go'[t] = go[t] \/ ~Holds(t)'
         /\ \A t \in Thread : t[1] = p => ~Holds(t)'
<1>1. go' = [t \in Thread |-> IF t[1] = p THEN Off ELSE go[t]]
  BY DEF Stop
<1>2. open' \in [Proc -> BOOLEAN]
  BY DEF Stop, TypeOK
<1>3. go' \in [Thread -> Goroutine]
  BY <1>1, OffType DEF TypeOK
<1>4. \A t \in Thread : t[1] = p => go'[t] = Off
  BY <1>1
<1>5. \A t \in Thread : t[1] # p => go'[t] = go[t]
  BY <1>1
<1>6. \A t \in Thread : t[1] = p => ~Holds(t)'
  BY <1>4 DEF Holds, Off
<1> QED
  BY <1>2, <1>3, <1>5, <1>6

LEMMA GoToType ==
  ASSUME TypeOK, NEW t \in Thread, NEW pc, GoTo(t, pc),
         pc \in {"off", "connect", "ensure", "release", "lock", "read", "mark", "run",
                 "clean", "unlock", "serve", "wait", "shutdown"}
  PROVE  /\ go' \in [Thread -> Goroutine]
         /\ go'[t] = [go[t] EXCEPT !.pc = pc] /\ go'[t].pc = pc
         /\ \A u \in Thread : u # t => go'[u] = go[u]
BY DEF TypeOK, GoTo, Goroutine

LEMMA ShutDownType ==
  ASSUME TypeOK, NEW t \in Thread, ShutDown(t)
  PROVE  /\ go' \in [Thread -> Goroutine]
         /\ go'[t].pc = "shutdown"
         /\ \A u \in Thread : u # t => go'[u] = go[u]
<1>1. Leaving \in Goroutine /\ Leaving.pc = "shutdown"
  BY LastAssumption DEF Leaving, Goroutine
<1> QED
  BY <1>1 DEF TypeOK, ShutDown

LEMMA ReturnType ==
  ASSUME TypeOK, NEW t \in Thread, NEW err, Return(t, err)
  PROVE  /\ go' \in [Thread -> Goroutine] /\ open' \in [Proc -> BOOLEAN]
         /\ Others(t)
         /\ ~Holds(t)'
<1>1. t[1] \in Proc /\ t \in {Main(t[1]), Signalled(t[1])}
  BY DEF Thread, Main, Signalled
<1>2. CASE go[t].dir = "down"
  <2>1. go' = [go EXCEPT ![t].pc = "shutdown", ![t].next = @ + 1] /\ open' = open
    BY <1>2 DEF Return
  <2>2. go' \in [Thread -> Goroutine]
    BY <2>1 DEF TypeOK, Goroutine
  <2>3. go'[t].pc = "shutdown" /\ \A u \in Thread : u # t => go'[u] = go[u]
    BY <2>1 DEF TypeOK, Goroutine
  <2> QED
    BY <1>2, <2>1, <2>2, <2>3 DEF TypeOK, Others, Holds
<1>3. CASE go[t].dir # "down" /\ err # "failed"
  <2>1. /\ go' = [go EXCEPT ![Main(t[1])].pc = "serve", ![Signalled(t[1])].pc = "wait"]
        /\ open' = open
    BY <1>3 DEF Return, Serve
  <2>2. Main(t[1]) \in Thread /\ Signalled(t[1]) \in Thread
    BY <1>1, ThreadFacts
  <2>3. go' \in [Thread -> Goroutine]
    BY <2>1, <2>2 DEF TypeOK, Goroutine
  <2>4. \A u \in Thread :
          /\ u \notin {Main(t[1]), Signalled(t[1])} => go'[u] = go[u]
          /\ u \in {Main(t[1]), Signalled(t[1])} => go'[u].pc \in {"serve", "wait"}
    BY <2>1, <2>2 DEF TypeOK, Goroutine
  <2> QED
    BY <1>1, <1>3, <2>1, <2>3, <2>4 DEF TypeOK, Others, Holds
<1>4. CASE go[t].dir # "down" /\ err = "failed"
  <2>1. Stop(t[1])
    BY <1>4 DEF Return
  <2> QED
    BY <1>1, <1>4, <2>1, StopType DEF Others
<1> QED
  BY <1>2, <1>3, <1>4

LEMMA EndWithType ==
  ASSUME TypeOK, NEW t \in Thread, NEW err \in {"no_change", "failed"}, EndWith(t, err)
  PROVE  /\ go' \in [Thread -> Goroutine]
         /\ go'[t].pc = "unlock" /\ go'[t].err = err
         /\ go'[t].dir = go[t].dir /\ go'[t].next = go[t].next
         /\ \A u \in Thread : u # t => go'[u] = go[u]
<1> DEFINE g == [go[t] EXCEPT !.pc = "unlock", !.err = err]
<1>1. go \in [Thread -> Goroutine]
  BY DEF TypeOK
<1>2. go[t] \in Goroutine
  BY <1>1
<1>3. /\ g \in Goroutine /\ g.pc = "unlock" /\ g.err = err
      /\ g.dir = go[t].dir /\ g.next = go[t].next
  BY <1>2 DEF Goroutine
<1>4. go' = [go EXCEPT ![t] = g]
  BY <1>1 DEF EndWith
<1> HIDE DEF g
<1> QED
  BY <1>1, <1>3, <1>4

LEMMA AbortType ==
  ASSUME TypeOK, NEW t \in Thread, Abort(t)
  PROVE  /\ go' \in [Thread -> Goroutine] /\ open' \in [Proc -> BOOLEAN]
         /\ Others(t)
         /\ \/ ~Holds(t)'
            \/ go[t].pc \in {"read", "mark", "run", "clean"} /\ go'[t].pc = "unlock"
<1>1. ASSUME NEW err, Return(t, err)
      PROVE  go' \in [Thread -> Goroutine] /\ open' \in [Proc -> BOOLEAN]
             /\ Others(t) /\ ~Holds(t)'
  BY <1>1, ReturnType
<1>2. CASE /\ go[t].pc \in {"read", "mark", "run", "clean"}
           /\ EndWith(t, "failed")
           /\ UNCHANGED open
  <2>1. /\ go' \in [Thread -> Goroutine] /\ go'[t].pc = "unlock"
        /\ \A u \in Thread : u # t => go'[u] = go[u]
    BY <1>2, EndWithType
  <2> QED
    BY <1>2, <2>1 DEF TypeOK, Others
<1> QED
  BY <1>1, <1>2 DEF Abort

--------------------------------------------------------------------------------
(* The steps that leave the tables alone.                                   *)

LEMMA Aside ==
  ASSUME IInv, TypeOK', UNCHANGED db,
         \A t \in Thread : go'[t] = go[t] \/ ~Holds(t)'
  PROVE  IInv'
<1>1. \A t \in Thread : Holds(t)' => Holds(t) /\ go'[t] = go[t]
  BY DEF Holds
<1>2. LockTaken'
  BY <1>1 DEF IInv, LockTaken, db
<1>3. OneMigrator'
  BY <1>1 DEF IInv, OneMigrator
<1>4. \A t \in Thread : Stands(t)'
  <2>1. TAKE t \in Thread
  <2>2. CASE ~Holds(t)'
    BY <2>2 DEF Holds, Stands, At
  <2>3. CASE Holds(t)'
    <3>1. go'[t] = go[t] /\ Stands(t)
      BY <1>1, <2>3 DEF IInv
    <3> QED
      BY <3>1 DEF Stands, At, Target, Up, End, db
  <2> QED
    BY <2>2, <2>3
<1>5. VersionHonest'
  BY DEF IInv, VersionHonest, db
<1> QED
  BY <1>2, <1>3, <1>4, <1>5 DEF IInv

(* A write of t that takes t out of its run, or to its end.                 *)

LEMMA Written ==
  ASSUME IInv, TypeOK', NEW t \in Thread, Write(t), Others(t),
         \/ ~Holds(t)'
         \/ go[t].pc \in {"ensure", "lock"} /\ go'[t].pc \in {"release", "read"}
         \/ go[t].pc \in {"mark", "run", "clean"} /\ go'[t].pc = "unlock"
  PROVE  IInv'
<1> USE DEF IInv
<1>1. \A u \in Thread : u # t /\ Holds(u)' => Holds(u) /\ go'[u] = go[u]
  BY DEF Others, Holds
<1>2. CASE LockRow(t)
  <2>1. locked' /\ \A u \in Thread : ~Holds(u)
    BY <1>2 DEF LockRow, LockTaken
  <2>2. \A u \in Thread : Holds(u)' => u = t
    BY <1>1, <2>1
  <2>3. \A u \in Thread : Stands(u)'
    BY <1>2, <2>2 DEF Stands, At, Holds, LockRow
  <2> QED
    BY <1>2, <2>1, <2>2, <2>3 DEF LockTaken, OneMigrator, VersionHonest, LockRow
<1>3. CASE UnlockRow(t)
  <2>1. Holds(t)
    BY <1>3 DEF UnlockRow, Holds
  <2>2. ~Holds(t)'
    BY <1>3 DEF UnlockRow
  <2>3. \A u \in Thread : ~Holds(u)'
    BY <1>1, <2>1, <2>2 DEF OneMigrator
  <2>4. \A u \in Thread : Stands(u)'
    BY <2>3 DEF Stands, At, Holds
  <2> QED
    BY <1>3, <2>3, <2>4 DEF LockTaken, OneMigrator, VersionHonest, UnlockRow
<1>4. CASE SetVersion(t) \/ RunFile(t)
  <2>1. Holds(t) /\ locked' = locked
    BY <1>4 DEF SetVersion, RunFile, Holds, At
  <2>2. \A u \in Thread : Holds(u)' => u = t
    BY <1>1, <2>1 DEF OneMigrator
  <2>3. \A u \in Thread : Stands(u)'
    <3>1. go'[t].pc \notin {"mark", "run", "clean"}
      BY <1>4 DEF SetVersion, RunFile, At, Holds
    <3> QED
      BY <2>2, <3>1 DEF Stands, At, Holds
  <2>4. VersionHonest'
    <3>1. CASE At(t, "mark") /\ SetVersion(t)
      BY <3>1 DEF SetVersion, VersionHonest
    <3>2. CASE At(t, "run") /\ RunFile(t)
      BY <3>2 DEF RunFile, VersionHonest, Stands
    <3>3. CASE At(t, "clean") /\ SetVersion(t)
      BY <3>3 DEF SetVersion, VersionHonest, Stands
    <3> QED
      BY <1>4, <3>1, <3>2, <3>3 DEF SetVersion, RunFile, At
  <2> QED
    BY <2>1, <2>2, <2>3, <2>4 DEF LockTaken, OneMigrator
<1> QED
  BY <1>2, <1>3, <1>4 DEF Write

--------------------------------------------------------------------------------
(* One lemma for each kind of step.                                         *)

LEMMA TargetInRange ==
  ASSUME IInv, NEW t \in Thread, go[t].pc \in {"mark", "run", "clean"}
  PROVE  Target(t) \in 0..Last /\ go[t].v \in 0..Last /\ go[t].dir \in {"up", "down"}
<1>1. go[t] \in Goroutine /\ go[t].v # End(t)
  BY DEF IInv, TypeOK, Stands, At
<1> QED
  BY <1>1, LastAssumption DEF Goroutine, Target, End, Up

LEMMA WriteType ==
  ASSUME IInv, NEW t \in Thread, Write(t)
  PROVE  /\ locked' \in BOOLEAN /\ dirty' \in BOOLEAN
         /\ version' \in 0..Last /\ applied' \subseteq 1..Last
<1> USE DEF IInv, TypeOK
<1>1. CASE LockRow(t) \/ UnlockRow(t)
  BY <1>1 DEF LockRow, UnlockRow
<1>2. CASE SetVersion(t)
  BY <1>2, TargetInRange DEF SetVersion, At
<1>3. CASE RunFile(t)
  <2>1. Up(t) => go[t].v + 1 \in 1..Last
    BY <1>3, TargetInRange, LastAssumption DEF RunFile, At, Target
  <2> QED
    BY <1>3, <2>1 DEF RunFile
<1> QED
  BY <1>1, <1>2, <1>3 DEF Write

LEMMA ProceedType ==
  ASSUME TypeOK, NEW t \in Thread, NEW v \in 0..Last,
         go' = [go EXCEPT ![t] = Proceed(t, v)]
  PROVE  /\ go' \in [Thread -> Goroutine]
         /\ \A u \in Thread : u # t => go'[u] = go[u]
         /\ go'[t].v = v /\ go'[t].dir = go[t].dir /\ go'[t].err = go[t].err
         /\ go'[t].pc = IF v = End(t) THEN "unlock" ELSE "mark"
<1>1. /\ Proceed(t, v) \in Goroutine
      /\ Proceed(t, v).v = v /\ Proceed(t, v).dir = go[t].dir /\ Proceed(t, v).err = go[t].err
      /\ Proceed(t, v).pc = IF v = End(t) THEN "unlock" ELSE "mark"
  BY DEF TypeOK, Proceed, Goroutine, End
<1> HIDE DEF Proceed
<1> QED
  BY <1>1 DEF TypeOK

LEMMA EnsureStep ==
  ASSUME IInv, NEW t \in Thread, Ensure(t) \/ Lock(t)
  PROVE  IInv'
<1>1. CASE LockRow(t) /\ (GoTo(t, "release") \/ GoTo(t, "read")) /\ UNCHANGED <<open, purge, faults>>
  <2>1. /\ go' \in [Thread -> Goroutine] /\ go'[t].pc \in {"release", "read"}
        /\ \A u \in Thread : u # t => go'[u] = go[u]
    BY <1>1, GoToType DEF IInv
  <2>2. TypeOK'
    BY <1>1, <2>1, WriteType DEF Write, IInv, TypeOK
  <2> QED
    BY <1>1, <2>1, <2>2, Written DEF Write, Others, LockRow
<1>2. CASE Return(t, "failed") /\ UNCHANGED db /\ UNCHANGED <<purge, faults>>
  BY <1>2, ReturnType, Aside DEF IInv, TypeOK, Others, db
<1> QED
  BY <1>1, <1>2 DEF Ensure, Lock

LEMMA ReleaseStep ==
  ASSUME IInv, NEW t \in Thread, Release(t)
  PROVE  IInv'
<1>1. /\ go' \in [Thread -> Goroutine] /\ go'[t].pc = "lock"
      /\ \A u \in Thread : u # t => go'[u] = go[u]
  BY GoToType DEF Release, IInv
<1>2. TypeOK' /\ ~Holds(t)'
  BY <1>1, WriteType DEF Release, Write, IInv, TypeOK, Holds
<1> QED
  BY <1>1, <1>2, Written DEF Release, Write, Others

LEMMA UnlockStep ==
  ASSUME IInv, NEW t \in Thread, Unlock(t)
  PROVE  IInv'
<1>1. /\ go' \in [Thread -> Goroutine] /\ open' \in [Proc -> BOOLEAN]
      /\ Others(t) /\ ~Holds(t)'
  BY ReturnType DEF Unlock, IInv
<1>2. TypeOK'
  BY <1>1, WriteType DEF Unlock, Write, IInv, TypeOK
<1> QED
  BY <1>1, <1>2, Written DEF Unlock, Write

LEMMA VersionStep ==
  ASSUME IInv, NEW t \in Thread, Version(t)
  PROVE  IInv'
<1>1. CASE EndWith(t, "failed") \/ EndWith(t, "no_change")
  <2>1. go' \in [Thread -> Goroutine] /\ go'[t].pc = "unlock"
    BY <1>1, EndWithType DEF IInv
  <2>2. \A u \in Thread : u # t => go'[u] = go[u]
    BY <1>1, EndWithType DEF IInv
  <2>3. TypeOK'
    BY <2>1 DEF Version, IInv, TypeOK, db
  <2>4. LockTaken' /\ OneMigrator' /\ VersionHonest'
    BY <2>1, <2>2 DEF Version, IInv, LockTaken, OneMigrator, VersionHonest, Holds, At, db
  <2>5. ASSUME NEW u \in Thread PROVE Stands(u)'
    <3>1. CASE u = t
      BY <2>1, <3>1 DEF Stands, At
    <3>2. CASE u # t
      BY <2>2, <3>2 DEF Version, IInv, Stands, At, Target, Up, End, db
    <3> QED
      BY <3>1, <3>2
  <2> QED
    BY <2>3, <2>4, <2>5 DEF IInv
<1>2. CASE ~dirty /\ go' = [go EXCEPT ![t] = Proceed(t, version)]
  <2>1. /\ go' \in [Thread -> Goroutine]
        /\ \A u \in Thread : u # t => go'[u] = go[u]
        /\ go'[t].v = version /\ go'[t].dir = go[t].dir
        /\ go'[t].pc = IF version = End(t) THEN "unlock" ELSE "mark"
    BY <1>2, ProceedType DEF IInv, TypeOK
  <2>2. TypeOK'
    BY <2>1 DEF Version, IInv, TypeOK, db
  <2>3. LockTaken' /\ OneMigrator' /\ VersionHonest'
    BY <2>1 DEF Version, IInv, LockTaken, OneMigrator, VersionHonest, Holds, At, db
  <2>4. ASSUME NEW u \in Thread PROVE Stands(u)'
    <3>1. CASE u = t
      BY <1>2, <2>1, <3>1 DEF Version, Stands, At, End, Up, db
    <3>2. CASE u # t
      BY <2>1, <3>2 DEF Version, IInv, Stands, At, Target, Up, End, db
    <3> QED
      BY <3>1, <3>2
  <2> QED
    BY <2>2, <2>3, <2>4 DEF IInv
<1> QED
  BY <1>1, <1>2 DEF Version

LEMMA MarkStep ==
  ASSUME IInv, NEW t \in Thread, Mark(t)
  PROVE  IInv'
<1>1. /\ go' \in [Thread -> Goroutine] /\ go'[t] = [go[t] EXCEPT !.pc = "run"]
      /\ \A u \in Thread : u # t => go'[u] = go[u]
  BY GoToType DEF Mark, IInv
<1>2. go'[t].pc = "run" /\ go'[t].v = go[t].v /\ go'[t].dir = go[t].dir
  BY <1>1 DEF IInv, TypeOK, Goroutine
<1>3. Holds(t) /\ Holds(t)' /\ locked' = locked /\ applied' = applied
  BY <1>2 DEF Mark, At, Holds, SetVersion
<1>4. TypeOK'
  BY <1>1, WriteType DEF Mark, Write, IInv, TypeOK
<1>5. LockTaken' /\ OneMigrator'
  BY <1>1, <1>3 DEF IInv, LockTaken, OneMigrator, Holds
<1>6. dirty' = TRUE /\ version' = Target(t) /\ applied = 1..go[t].v /\ go[t].v # End(t)
  BY DEF Mark, SetVersion, IInv, Stands, VersionHonest, At
<1>7. ASSUME NEW u \in Thread PROVE Stands(u)'
  <2>1. CASE u = t
    BY <1>2, <1>3, <1>6, <2>1 DEF Stands, At, Target, Up, End
  <2>2. CASE u # t
    BY <1>1, <1>3, <2>2 DEF IInv, OneMigrator, Holds, Stands, At
  <2> QED
    BY <2>1, <2>2
<1> QED
  BY <1>4, <1>5, <1>6, <1>7 DEF IInv, VersionHonest

\* A migration takes the schema from the versions up to v to those up to the
\* target.
LEMMA NextSchema ==
  ASSUME NEW v \in Nat
  PROVE  /\ (1..v) \cup {v + 1} = 1..(v + 1)
         /\ v # 0 => (1..v) \ {v} = 1..(v - 1)
<1>1. (1..v) \cup {v + 1} = 1..(v + 1)
  OBVIOUS
<1>2. v # 0 => (1..v) \ {v} = 1..(v - 1)
  OBVIOUS
<1> QED
  BY <1>1, <1>2

LEMMA RunStep ==
  ASSUME IInv, NEW t \in Thread, Run(t)
  PROVE  IInv'
<1>1. /\ go' \in [Thread -> Goroutine] /\ go'[t] = [go[t] EXCEPT !.pc = "clean"]
      /\ \A u \in Thread : u # t => go'[u] = go[u]
  BY GoToType DEF Run, IInv
<1>2. go'[t].pc = "clean" /\ go'[t].v = go[t].v /\ go'[t].dir = go[t].dir
  BY <1>1 DEF IInv, TypeOK, Goroutine
<1>3. /\ Holds(t) /\ Holds(t)'
      /\ locked' = locked /\ version' = version /\ dirty' = dirty
  BY <1>2 DEF Run, At, Holds, RunFile
<1>4. TypeOK'
  BY <1>1, WriteType DEF Run, Write, IInv, TypeOK
<1>5. LockTaken' /\ OneMigrator'
  BY <1>1, <1>3 DEF IInv, LockTaken, OneMigrator, Holds
<1>6. dirty /\ version = Target(t) /\ applied = 1..go[t].v /\ go[t].v # End(t)
  BY DEF Run, RunFile, IInv, Stands
<1>7. applied' = 1..Target(t)
  <2>1. go[t].v \in Nat /\ (~Up(t) => go[t].v # 0)
    BY <1>6, TargetInRange, LastAssumption DEF Run, At, End
  <2> QED
    BY <1>6, <2>1, NextSchema DEF Run, RunFile, Target
<1>8. ASSUME NEW u \in Thread PROVE Stands(u)'
  <2>1. CASE u = t
    BY <1>2, <1>3, <1>6, <1>7, <2>1 DEF Stands, At, Target, Up, End
  <2>2. CASE u # t
    BY <1>1, <1>3, <2>2 DEF IInv, OneMigrator, Holds, Stands, At
  <2> QED
    BY <2>1, <2>2
<1> QED
  BY <1>3, <1>4, <1>5, <1>6, <1>8 DEF IInv, VersionHonest

LEMMA CleanStep ==
  ASSUME IInv, NEW t \in Thread, Clean(t)
  PROVE  IInv'
<1>1. /\ go' \in [Thread -> Goroutine]
      /\ \A u \in Thread : u # t => go'[u] = go[u]
      /\ go'[t].v = Target(t) /\ go'[t].dir = go[t].dir
      /\ go'[t].pc = IF Target(t) = End(t) THEN "unlock" ELSE "mark"
  BY TargetInRange, ProceedType DEF Clean, At, IInv
<1>2. Holds(t) /\ Holds(t)' /\ locked' = locked /\ applied' = applied
  BY <1>1 DEF Clean, At, Holds, SetVersion
<1>3. TypeOK'
  BY <1>1, WriteType DEF Clean, Write, IInv, TypeOK
<1>4. LockTaken' /\ OneMigrator'
  BY <1>1, <1>2 DEF IInv, LockTaken, OneMigrator, Holds
<1>5. dirty' = FALSE /\ version' = Target(t) /\ applied = 1..Target(t)
  BY DEF Clean, SetVersion, IInv, Stands, At
<1>6. ASSUME NEW u \in Thread PROVE Stands(u)'
  <2>1. CASE u = t
    BY <1>1, <1>5, <2>1 DEF Stands, At, End, Up
  <2>2. CASE u # t
    BY <1>1, <1>2, <2>2 DEF IInv, OneMigrator, Holds, Stands, At
  <2> QED
    BY <2>1, <2>2
<1> QED
  BY <1>2, <1>3, <1>4, <1>5, <1>6 DEF IInv, VersionHonest

LEMMA CallNextStep ==
  ASSUME IInv, NEW t \in Thread, CallNext(t)
  PROVE  IInv'
<1>1. t[1] \in Proc /\ UNCHANGED db /\ UNCHANGED <<purge, faults>>
  BY ThreadFacts DEF CallNext
<1>2. CASE Stop(t[1])
  BY <1>1, <1>2, StopType, Aside DEF IInv, TypeOK, db
<1>3. CASE GoTo(t, "ensure") /\ UNCHANGED open
  <2>1. /\ go' \in [Thread -> Goroutine] /\ go'[t].pc = "ensure"
        /\ \A u \in Thread : u # t => go'[u] = go[u]
    BY <1>3, GoToType DEF IInv
  <2> QED
    BY <1>1, <1>3, <2>1, Aside DEF IInv, TypeOK, db, Holds
<1>4. CASE /\ go' = [go EXCEPT ![t].next = @ + 1]
           /\ open' = open \/ open' = [open EXCEPT ![t[1]] = FALSE]
  <2>1. /\ go' \in [Thread -> Goroutine] /\ go'[t].pc = "shutdown"
        /\ \A u \in Thread : u # t => go'[u] = go[u]
    <3> DEFINE g == [go[t] EXCEPT !.next = @ + 1]
    <3>0. go[t] \in Goroutine /\ go[t].pc = "shutdown"
      BY DEF CallNext, At, IInv, TypeOK
    <3>1. g \in Goroutine /\ g.pc = "shutdown"
      BY <3>0 DEF Goroutine
    <3>2. go' = [go EXCEPT ![t] = g]
      BY <1>4 DEF IInv, TypeOK
    <3> HIDE DEF g
    <3> QED
      BY <3>1, <3>2 DEF IInv, TypeOK
  <2> QED
    BY <1>1, <1>4, <2>1, Aside DEF IInv, TypeOK, db, Holds
<1> QED
  BY <1>2, <1>3, <1>4 DEF CallNext

LEMMA ProcessStep ==
  ASSUME IInv, NEW p \in Proc, Start(p) \/ Connect(p) \/ Signal(p) \/ ListenerFails(p)
  PROVE  IInv'
<1>1. Main(p) \in Thread /\ Signalled(p) \in Thread /\ UNCHANGED db
  BY ThreadFacts DEF Start, Connect, Signal, ListenerFails
<1>2. open' \in [Proc -> BOOLEAN] /\ purge' = purge /\ faults' \in 0..MaxFaults
  <2>1. CASE Start(p) \/ Signal(p)
    BY <2>1 DEF Start, Signal, IInv, TypeOK
  <2>2. CASE Connect(p)
    BY <2>2 DEF Connect, IInv, TypeOK
  <2>3. CASE ListenerFails(p)
    BY <2>3, FaultsAssumption DEF ListenerFails, Fault, IInv, TypeOK
  <2> QED
    BY <2>1, <2>2, <2>3
<1>3. CASE Start(p) \/ Connect(p)
  <2>1. PICK pc \in {"connect", "ensure"} : GoTo(Main(p), pc)
    BY <1>3 DEF Start, Connect
  <2>2. /\ go' \in [Thread -> Goroutine] /\ go'[Main(p)].pc = pc
        /\ \A u \in Thread : u # Main(p) => go'[u] = go[u]
    BY <1>1, <2>1, GoToType DEF IInv
  <2> QED
    BY <1>1, <1>2, <2>2, Aside DEF IInv, TypeOK, db, Holds
<1>4. CASE Signal(p) \/ ListenerFails(p)
  <2>1. PICK t \in Thread : ShutDown(t)
    BY <1>1, <1>4 DEF Signal, ListenerFails
  <2>2. /\ go' \in [Thread -> Goroutine] /\ go'[t].pc = "shutdown"
        /\ \A u \in Thread : u # t => go'[u] = go[u]
    BY <2>1, ShutDownType DEF IInv
  <2> QED
    BY <1>1, <1>2, <2>2, Aside DEF IInv, TypeOK, db, Holds
<1> QED
  BY <1>3, <1>4

LEMMA KillStep ==
  ASSUME IInv, NEW p \in Proc, Kill(p)
  PROVE  IInv'
<1>1. /\ go' \in [Thread -> Goroutine] /\ open' \in [Proc -> BOOLEAN]
      /\ \A t \in Thread : go'[t] = go[t] \/ ~Holds(t)'
      /\ \A t \in Thread : t[1] = p => ~Holds(t)'
  BY StopType DEF Kill, IInv
<1>2. faults' \in 0..MaxFaults /\ purge' = purge
  BY FaultsAssumption DEF Kill, Fault, IInv, TypeOK
<1>3. CASE UNCHANGED db
  BY <1>1, <1>2, <1>3, Aside DEF IInv, TypeOK, db
<1>4. CASE \E t \in Thread : t[1] = p /\ Write(t)
  <2>1. PICK t \in Thread : t[1] = p /\ Write(t)
    BY <1>4
  <2>2. TypeOK'
    BY <1>1, <1>2, <2>1, WriteType DEF IInv, TypeOK
  <2> QED
    BY <1>1, <2>1, <2>2, Written DEF Others
<1> QED
  BY <1>3, <1>4 DEF Kill

LEMMA FailStep ==
  ASSUME IInv, NEW t \in Thread, StatementFails(t) \/ Closed(t)
  PROVE  IInv'
<1>1. faults' \in 0..MaxFaults /\ purge' = purge /\ t[1] \in Proc
  BY FaultsAssumption, ThreadFacts DEF StatementFails, Closed, Fault, IInv, TypeOK
<1>2. CASE Stop(t[1]) /\ UNCHANGED db
  BY <1>1, <1>2, StopType, Aside DEF IInv, TypeOK, db
<1>3. CASE Abort(t)
  <2>1. /\ go' \in [Thread -> Goroutine] /\ open' \in [Proc -> BOOLEAN] /\ Others(t)
        /\ \/ ~Holds(t)'
           \/ go[t].pc \in {"read", "mark", "run", "clean"} /\ go'[t].pc = "unlock"
    BY <1>3, AbortType DEF IInv
  <2>2. CASE Write(t)
    <3>1. TypeOK'
      BY <1>1, <2>1, <2>2, WriteType DEF IInv, TypeOK
    <3>2. go[t].pc # "read"
      BY <2>2 DEF Write, LockRow, UnlockRow, SetVersion, RunFile, At
    <3> QED
      BY <2>1, <2>2, <3>1, <3>2, Written
  <2>3. CASE UNCHANGED db
    <3>1. TypeOK'
      BY <1>1, <2>1, <2>3 DEF IInv, TypeOK, db
    <3>2. CASE ~Holds(t)'
      BY <2>1, <2>3, <3>1, <3>2, Aside DEF Others
    <3>3. CASE go[t].pc \in {"read", "mark", "run", "clean"} /\ go'[t].pc = "unlock"
      <4>1. LockTaken' /\ OneMigrator' /\ VersionHonest'
        BY <2>1, <2>3, <3>3
        DEF IInv, Others, LockTaken, OneMigrator, VersionHonest, Holds, db
      <4>2. ASSUME NEW u \in Thread PROVE Stands(u)'
        <5>1. CASE u = t \/ ~Holds(u)'
          BY <3>3, <5>1 DEF Stands, At, Holds
        <5>2. CASE u # t /\ Holds(u)'
          BY <2>1, <2>3, <5>2 DEF IInv, Others, Stands, At, Target, Up, End, db
        <5> QED
          BY <5>1, <5>2
      <4> QED
        BY <3>1, <4>1, <4>2 DEF IInv
    <3> QED
      BY <2>1, <3>2, <3>3
  <2> QED
    BY <1>3, <2>2, <2>3 DEF StatementFails, Closed
<1> QED
  BY <1>2, <1>3 DEF StatementFails, Closed

LEMMA Initially == Init => IInv
<1> SUFFICES ASSUME Init PROVE IInv
  OBVIOUS
<1>1. TypeOK
  <2>1. version \in 0..Last /\ applied \subseteq 1..Last
    BY LastAssumption DEF Init
  <2>2. go \in [Thread -> Goroutine] /\ open \in [Proc -> BOOLEAN]
    BY OffType DEF Init
  <2>3. faults \in 0..MaxFaults
    BY FaultsAssumption DEF Init
  <2> QED
    BY <2>1, <2>2, <2>3 DEF Init, TypeOK
<1>2. \A t \in Thread : ~Holds(t) /\ Stands(t)
  BY DEF Init, Off, Holds, Stands, At
<1> QED
  BY <1>1, <1>2 DEF Init, IInv, LockTaken, OneMigrator, VersionHonest

LEMMA Inductive == IInv /\ [Next]_vars => IInv'
<1> SUFFICES ASSUME IInv, [Next]_vars PROVE IInv'
  OBVIOUS
<1>1. CASE UNCHANGED vars
  BY <1>1, Aside DEF vars, db, IInv, TypeOK
<1>2. CASE \E p \in Proc : Start(p) \/ Connect(p) \/ Signal(p) \/ ListenerFails(p)
  BY <1>2, ProcessStep
<1>3. CASE \E p \in Proc : Kill(p)
  BY <1>3, KillStep
<1>4. CASE \E t \in Thread : StatementFails(t)
  BY <1>4, FailStep
<1>5. CASE \E t \in Thread : Proceeds(t)
  BY <1>5, EnsureStep, ReleaseStep, VersionStep, MarkStep, RunStep, CleanStep,
     UnlockStep, FailStep, CallNextStep DEF Proceeds
<1> QED
  BY <1>1, <1>2, <1>3, <1>4, <1>5 DEF Next

THEOREM Invariance == Spec => []IInv
BY Initially, Inductive, PTL DEF Spec

--------------------------------------------------------------------------------
(* Whatever the processes do, the variables keep their types.               *)
THEOREM TypeCorrect == Spec => []TypeOK
<1>1. IInv => TypeOK
  BY DEF IInv
<1> QED
  BY <1>1, Invariance, PTL

(* The row in the lock table keeps two migrations from running at a time,   *)
(* for any number of processes and any faults.                              *)
THEOREM OneAtATime == Spec => []OneMigrator
<1>1. IInv => OneMigrator
  BY DEF IInv
<1> QED
  BY <1>1, Invariance, PTL

(* A version that is not dirty is the truth about the schema, for any       *)
(* number of migrations.                                                    *)
THEOREM Honest == Spec => []VersionHonest
<1>1. IInv => VersionHonest
  BY DEF IInv
<1> QED
  BY <1>1, Invariance, PTL

--------------------------------------------------------------------------------
(* Only a process with the purge goes down, and not while it serves.  So the *)
(* database stays complete while the one process that may purge serves.     *)

Complete == ~dirty /\ version = Last

\* Of a goroutine when p alone may purge.
Rising(p, t) ==
  /\ t[1] # p /\ go[t].pc \notin {"serve", "wait", "shutdown"} => Up(t)
  /\ At(t, "unlock") /\ go[t].err # "failed" /\ Up(t) => Complete

Upward(p) == \A t \in Thread : Rising(p, t)

Serving(p) == At(Main(p), "serve") /\ At(Signalled(p), "wait")

\* Of a goroutine that a step has put where it is.
Arrives(t) == go[t].pc \in {"serve", "wait"} => Complete

LEMMA Writer ==
  ASSUME Next
  PROVE  UNCHANGED db \/ \E t \in Thread : Write(t)
<1>1. CASE \E p \in Proc : Start(p) \/ Connect(p) \/ Signal(p) \/ Kill(p) \/ ListenerFails(p)
  BY <1>1 DEF Start, Connect, Signal, Kill, ListenerFails
<1>2. CASE \E t \in Thread : Proceeds(t) \/ StatementFails(t)
  BY <1>2 DEF Proceeds, StatementFails, Ensure, Release, Lock, Version, Mark, Run, Clean,
              Unlock, Closed, CallNext, Write
<1> QED
  BY <1>1, <1>2 DEF Next

\* Whoever unlocks has kept the others from writing.
LEMMA UnlockKeeps ==
  ASSUME IInv, Complete, NEW u \in Thread, At(u, "unlock"), Next
  PROVE  Complete'
<1>1. ASSUME UNCHANGED db PROVE Complete'
  BY <1>1 DEF Complete, db
<1>2. ASSUME NEW t \in Thread, Write(t) PROVE Complete'
  <2>1. ~At(t, "mark") /\ ~At(t, "run") /\ ~At(t, "clean")
    BY DEF IInv, OneMigrator, Holds, At
  <2> QED
    BY <1>2, <2>1 DEF Write, LockRow, UnlockRow, SetVersion, RunFile, Complete, At
<1> QED
  BY <1>1, <1>2, Writer

\* While p serves nobody goes down.
LEMMA ServingKeeps ==
  ASSUME IInv, Complete, NEW p \in Proc, Upward(p), Serving(p), Next
  PROVE  Complete'
<1>1. ASSUME UNCHANGED db PROVE Complete'
  BY <1>1 DEF Complete, db
<1>2. ASSUME NEW t \in Thread, Write(t) PROVE Complete'
  <2>1. CASE t[1] = p
    <3>1. t \in {Main(p), Signalled(p)}
      BY <2>1 DEF Thread, Main, Signalled
    <3> QED
      BY <1>2, <3>1 DEF Serving, Write, LockRow, UnlockRow, SetVersion, RunFile, At
  <2>2. CASE t[1] # p
    <3>1. ~At(t, "mark") /\ ~At(t, "run") /\ ~At(t, "clean")
      BY <2>2 DEF IInv, Upward, Rising, Complete, Stands, End, At
    <3> QED
      BY <1>2, <3>1 DEF Write, LockRow, UnlockRow, SetVersion, RunFile, Complete, At
  <2> QED
    BY <2>1, <2>2
<1> QED
  BY <1>1, <1>2, Writer

\* Where a step can put a goroutine u.
LEMMA AfterStop ==
  ASSUME NEW p, NEW q \in Proc, NEW u \in Thread, Stop(q), go'[u] # go[u]
  PROVE  Rising(p, u)' /\ Arrives(u)'
BY DEF Stop, Rising, Arrives, Up, At, Off

LEMMA AfterReturn ==
  ASSUME TypeOK, NEW p, NEW t \in Thread, NEW u \in Thread, NEW err, Return(t, err),
         go'[u] # go[u], err # "failed" /\ Up(t) => Complete'
  PROVE  Rising(p, u)' /\ Arrives(u)'
<1>1. t[1] \in Proc /\ Main(t[1]) \in Thread /\ Signalled(t[1]) \in Thread
  BY ThreadFacts
<1>2. CASE go[t].dir = "down"
  <2>1. u = t /\ go'[t].pc = "shutdown"
    BY <1>2 DEF Return, TypeOK, Goroutine
  <2> QED
    BY <2>1 DEF Rising, Arrives, At
<1>3. CASE go[t].dir # "down" /\ err # "failed"
  <2>1. u \in {Main(t[1]), Signalled(t[1])} /\ go'[u].pc \in {"serve", "wait"}
    BY <1>1, <1>3 DEF Return, Serve, TypeOK, Goroutine
  <2>2. Up(t)
    BY <1>3 DEF Up, TypeOK, Goroutine
  <2> QED
    BY <1>3, <2>1, <2>2 DEF Rising, Arrives, At
<1>4. CASE go[t].dir # "down" /\ err = "failed"
  BY <1>1, <1>4, AfterStop DEF Return
<1> QED
  BY <1>2, <1>3, <1>4

LEMMA AfterGoTo ==
  ASSUME TypeOK, NEW p, Upward(p), NEW t \in Thread, NEW u \in Thread, NEW pc, GoTo(t, pc),
         go'[u] # go[u], pc \in {"connect", "ensure", "release", "lock", "read", "run", "clean"},
         t[1] = p \/ go[t].pc \notin {"serve", "wait", "shutdown"}
  PROVE  Rising(p, u)' /\ Arrives(u)'
<1>1. u = t /\ go'[t].pc = pc /\ go'[t].dir = go[t].dir
  BY GoToType DEF TypeOK, Goroutine, GoTo
<1> QED
  BY <1>1 DEF Upward, Rising, Arrives, Up, At

LEMMA AfterProceed ==
  ASSUME TypeOK, NEW p, Upward(p), NEW t \in Thread, NEW u \in Thread, NEW v \in 0..Last,
         go' = [go EXCEPT ![t] = Proceed(t, v)], go'[u] # go[u],
         go[t].pc \in {"read", "clean"}, v = Last => Complete'
  PROVE  Rising(p, u)' /\ Arrives(u)'
<1>1. /\ u = t /\ go'[t].dir = go[t].dir
      /\ go'[t].pc = IF v = End(t) THEN "unlock" ELSE "mark"
  BY ProceedType
<1>2. t[1] # p => Up(t)
  BY DEF Upward, Rising
<1> QED
  BY <1>1, <1>2 DEF Rising, Arrives, Up, At, End

LEMMA AfterAbort ==
  ASSUME TypeOK, NEW p, Upward(p), NEW t \in Thread, NEW u \in Thread, Abort(t),
         go'[u] # go[u],
         At(t, "unlock") /\ go[t].err # "failed" /\ Up(t) => Complete'
  PROVE  Rising(p, u)' /\ Arrives(u)'
<1>1. CASE Return(t, "failed")
  BY <1>1, AfterReturn
<1>2. CASE At(t, "unlock") /\ Return(t, unlockErr(go[t].err))
  <2>1. unlockErr(go[t].err) # "failed" => go[t].err # "failed"
    BY DEF unlockErr
  <2> QED
    BY <1>2, <2>1, AfterReturn
<1>3. CASE go[t].pc \in {"read", "mark", "run", "clean"} /\ EndWith(t, "failed")
  <2>1. u = t /\ go'[t].dir = go[t].dir /\ go'[t].err = "failed" /\ go'[t].pc = "unlock"
    BY <1>3, EndWithType
  <2> QED
    BY <1>3, <2>1 DEF Upward, Rising, Arrives, Up, At
<1> QED
  BY <1>1, <1>2, <1>3 DEF Abort

LEMMA Arrival ==
  ASSUME IInv, NEW p \in Proc, purge \subseteq {p}, Upward(p), Next,
         NEW u \in Thread, go'[u] # go[u]
  PROVE  Rising(p, u)' /\ Arrives(u)'
<1>0. TypeOK
  BY DEF IInv
<1>1. ASSUME NEW q \in Proc,
             Start(q) \/ Connect(q) \/ Signal(q) \/ Kill(q) \/ ListenerFails(q)
      PROVE  Rising(p, u)' /\ Arrives(u)'
  <2>1. CASE Start(q) \/ Connect(q)
    BY <1>0, <1>1, <2>1, ThreadFacts, AfterGoTo DEF Start, Connect, At
  <2>2. CASE Signal(q) \/ ListenerFails(q)
    <3>1. PICK t \in Thread : ShutDown(t)
      BY <2>2, ThreadFacts DEF Signal, ListenerFails
    <3>2. u = t /\ go'[t].pc = "shutdown"
      BY <1>0, <1>1, <3>1, ShutDownType
    <3> QED
      BY <3>2 DEF Rising, Arrives, At
  <2>3. CASE Kill(q)
    BY <1>1, <2>3, AfterStop DEF Kill
  <2> QED
    BY <1>1, <2>1, <2>2, <2>3
<1>2. ASSUME NEW t \in Thread, Proceeds(t) \/ StatementFails(t)
      PROVE  Rising(p, u)' /\ Arrives(u)'
  <2>1. CASE Ensure(t) \/ Release(t) \/ Lock(t) \/ Mark(t) \/ Run(t)
    BY <1>0, <1>2, <2>1, AfterGoTo, AfterReturn DEF Ensure, Release, Lock, Mark, Run, At
  <2>2. CASE Version(t)
    <3>1. t[1] # p => Up(t)
      BY <2>2 DEF Version, Upward, Rising, At
    <3>2. CASE dirty /\ EndWith(t, "failed")
      <4>1. u = t /\ go'[t].dir = go[t].dir /\ go'[t].err = "failed" /\ go'[t].pc = "unlock"
        BY <1>0, <1>2, <3>2, EndWithType
      <4> QED
        BY <3>1, <4>1 DEF Rising, Arrives, Up, At
    <3>3. CASE ~dirty /\ version = End(t) /\ EndWith(t, "no_change")
      <4>1. u = t /\ go'[t].dir = go[t].dir /\ go'[t].pc = "unlock"
        BY <1>0, <1>2, <3>3, EndWithType
      <4>2. Up(t) => Complete'
        BY <2>2, <3>3 DEF Version, End, Complete, db
      <4> QED
        BY <3>1, <4>1, <4>2 DEF Rising, Arrives, Up, At
    <3>4. CASE ~dirty /\ go' = [go EXCEPT ![t] = Proceed(t, version)]
      <4>1. version = Last => Complete'
        BY <2>2, <3>4 DEF Version, Complete, db
      <4> QED
        BY <1>0, <1>2, <2>2, <3>4, <4>1, AfterProceed DEF Version, At, TypeOK
    <3> QED
      BY <2>2, <3>2, <3>3, <3>4 DEF Version
  <2>3. CASE Clean(t)
    <3>1. Target(t) \in 0..Last
      BY <2>3, TargetInRange DEF Clean, At
    <3>2. Target(t) = Last => Complete'
      BY <2>3 DEF Clean, SetVersion, Complete, At
    <3> QED
      BY <1>0, <1>2, <2>3, <3>1, <3>2, AfterProceed DEF Clean, At
  <2>4. CASE Unlock(t)
    <3>1. go[t].err # "failed" /\ Up(t) => Complete'
      BY <2>4 DEF Unlock, UnlockRow, Upward, Rising, Complete
    <3> QED
      BY <1>0, <1>2, <2>4, <3>1, AfterReturn DEF Unlock
  <2>0. At(t, "unlock") /\ go[t].err # "failed" /\ Up(t) => Complete'
    BY UnlockKeeps DEF Upward, Rising
  <2>5. CASE Closed(t)
    BY <1>0, <1>2, <2>0, <2>5, AfterAbort DEF Closed
  <2>6. CASE StatementFails(t)
    BY <1>0, <1>2, <2>0, <2>6, AfterAbort, AfterStop, ThreadFacts DEF StatementFails
  <2>7. CASE CallNext(t)
    <3>1. CASE Stop(t[1])
      BY <3>1, AfterStop, ThreadFacts
    <3>2. CASE go' = [go EXCEPT ![t].next = @ + 1]
      <4>1. u = t /\ go'[t].pc = "shutdown"
        BY <1>0, <1>2, <2>7, <3>2 DEF CallNext, At, TypeOK, Goroutine
      <4> QED
        BY <4>1 DEF Rising, Arrives, At
    <3>3. CASE t[1] \in purge /\ GoTo(t, "ensure")
      BY <1>0, <3>3, AfterGoTo
    <3> QED
      BY <2>7, <3>1, <3>2, <3>3 DEF CallNext
  <2> QED
    BY <1>2, <2>1, <2>2, <2>3, <2>4, <2>5, <2>6, <2>7 DEF Proceeds
<1> QED
  BY <1>1, <1>2 DEF Next

LEMMA UpwardStep ==
  ASSUME IInv, NEW p \in Proc, purge \subseteq {p}, Upward(p), Serving(p) => Complete, Next
  PROVE  Upward(p)' /\ (Serving(p) => Complete)'
<1>1. ASSUME NEW u \in Thread PROVE Rising(p, u)'
  <2>1. CASE go'[u] = go[u]
    BY <2>1, UnlockKeeps DEF Upward, Rising, Up, At
  <2> QED
    BY <2>1, Arrival
<1>2. ASSUME Serving(p)' PROVE Complete'
  <2>1. CASE go'[Main(p)] = go[Main(p)] /\ go'[Signalled(p)] = go[Signalled(p)]
    <3>1. Serving(p)
      BY <1>2, <2>1 DEF Serving, At
    <3> QED
      BY <3>1, ServingKeeps
  <2>2. CASE go'[Main(p)] # go[Main(p)]
    BY <1>2, <2>2, Arrival, ThreadFacts DEF Serving, Arrives, At
  <2>3. CASE go'[Signalled(p)] # go[Signalled(p)]
    BY <1>2, <2>3, Arrival, ThreadFacts DEF Serving, Arrives, At
  <2> QED
    BY <2>1, <2>2, <2>3
<1> QED
  BY <1>1, <1>2 DEF Upward

LEMMA PurgeStays == [Next]_vars => purge' = purge
<1> SUFFICES ASSUME [Next]_vars PROVE purge' = purge
  OBVIOUS
<1>1. CASE UNCHANGED vars
  BY <1>1 DEF vars
<1>2. ASSUME NEW p \in Proc, Start(p) \/ Connect(p) \/ Signal(p) \/ Kill(p) \/ ListenerFails(p)
      PROVE  purge' = purge
  BY <1>2 DEF Start, Connect, Signal, Kill, ListenerFails, Fault
<1>3. ASSUME NEW t \in Thread, Proceeds(t) \/ StatementFails(t)
      PROVE  purge' = purge
  BY <1>3 DEF Proceeds, StatementFails, Ensure, Release, Lock, Version, Mark, Run, Clean,
              Unlock, Closed, CallNext, Fault
<1> QED
  BY <1>1, <1>2, <1>3 DEF Next

(* Where no other process purges, a process that serves, and was not told   *)
(* to stop, finds the tables of every migration, whatever other processes   *)
(* and faults do, and whatever its own purges left before it was started.   *)
THEOREM Served == Spec => []ServesMigrated
<1> DEFINE J == \A p \in Proc :
                  purge \subseteq {p} => Upward(p) /\ (Serving(p) => Complete)
<1>1. Init => J
  BY ThreadFacts DEF Init, Off, Upward, Rising, Serving, Up, At
<1>2. IInv /\ J /\ [Next]_vars => J'
  <2> SUFFICES ASSUME IInv, J, [Next]_vars, NEW p \in Proc, purge' \subseteq {p}
               PROVE  Upward(p)' /\ (Serving(p) => Complete)'
    OBVIOUS
  <2>1. purge \subseteq {p}
    BY PurgeStays
  <2>2. CASE UNCHANGED vars
    BY <2>1, <2>2 DEF vars, Upward, Rising, Serving, Up, At, Complete
  <2>3. CASE Next
    BY <2>1, <2>3, UpwardStep
  <2> QED
    BY <2>2, <2>3
<1>3. IInv /\ J => ServesMigrated
  BY DEF IInv, VersionHonest, Serving, Complete, ServesMigrated
<1> HIDE DEF J
<1> QED
  BY <1>1, <1>2, <1>3, Invariance, PTL DEF Spec
--------------------------------------------------------------------------------
(* Without a fault, and when every process purges: a process shuts down in  *)
(* one goroutine only, the row of the lock has its owner, and whoever has   *)
(* not called his purge yet, or is in it, still clears the database.        *)

Migrating == {"ensure", "release", "lock", "read", "mark", "run", "clean", "unlock"}

\* The process has its purge before it.
Due(p) ==
  ~Gone(p) /\ ~(At(Signalled(p), "shutdown") /\ go[Signalled(p)].next > 1)

\* The two goroutines of a process, and its pool.
Calm(p) ==
  /\ go[Main(p)].pc \in Migrating \cup {"off", "connect", "serve"}
  /\ Up(Main(p)) /\ go[Main(p)].err # "failed" /\ go[Signalled(p)].err # "failed"
  /\ go[Signalled(p)].pc \in Migrating \cup {"off", "wait", "shutdown"}
  /\ ~At(Signalled(p), "off") => At(Main(p), "serve")
  /\ go[Signalled(p)].pc \in Migrating =>
       ~Up(Signalled(p)) /\ go[Signalled(p)].next = 1
  /\ At(Signalled(p), "shutdown") =>
       ~Up(Signalled(p)) /\ go[Signalled(p)].next \in 1..3
  /\ \/ open[p] = TRUE
     \/ go[Main(p)].pc \in {"off", "connect"}
     \/ At(Signalled(p), "shutdown") /\ go[Signalled(p)].next = 3

\* A run down that is about to unlock has removed every migration.
Emptied(t) == At(t, "unlock") /\ ~Up(t) => applied = {}

Orderly ==
  /\ \A p \in Proc : Calm(p)
  /\ locked => \E t \in Thread : Holds(t)
  /\ dirty => \E t \in Thread : go[t].pc \in {"run", "clean"}
  /\ \A t \in Thread : Emptied(t)
  /\ (\E p \in Proc : ~Gone(p)) /\ (\A p \in Proc : ~Due(p)) => applied = {}

\* A step that no process survives with a purge before it leaves it empty.
Clears == (\A p \in Proc : ~Due(p)') => applied' = {}

\* The step is one of process p.
Within(p) ==
  \A q \in Proc : q # p =>
    /\ go'[Main(q)] = go[Main(q)] /\ go'[Signalled(q)] = go[Signalled(q)]
    /\ open'[q] = open[q]

LEMMA ShutdownOrder ==
  /\ Len(shutdownFuncs) = 2
  /\ shutdownFuncs[1] = "purge" /\ shutdownFuncs[2] = "close"
<1>1. << >> \in Seq({"purge", "close"})
  OBVIOUS
<1>2. <<"close">> \in Seq({"purge", "close"})
  OBVIOUS
<1>3. <<"purge">> \in Seq({"purge", "close"})
  OBVIOUS
<1>4. (<<"close">> \o << >>) = <<"close">>
  BY <1>1, <1>2
<1>5. shutdownFuncs = (<<"purge">> \o <<"close">>)
  BY <1>4 DEF shutdownFuncs, OnShutdown
<1> QED
  BY <1>2, <1>3, <1>5

LEMMA TwoThreads ==
  \A t \in Thread : t[1] \in Proc /\ (t = Main(t[1]) \/ t = Signalled(t[1]))
BY DEF Thread, Main, Signalled

LEMMA Distinct ==
  \A p, q \in Proc :
    /\ Main(p) # Signalled(q)
    /\ Main(p)[1] = p /\ Signalled(p)[1] = p
    /\ p # q => Main(p) # Main(q) /\ Signalled(p) # Signalled(q)
BY DEF Main, Signalled

\* Whoever holds the lock, or is in a run, belongs to a process with its purge
\* before it, and its other goroutine is idle.
LEMMA InARun ==
  ASSUME NEW t \in Thread, go[t].pc \in Migrating, Calm(t[1])
  PROVE  /\ Due(t[1])
         /\ open[t[1]] = TRUE
         /\ \A u \in Thread : u[1] = t[1] /\ go[u].pc \in Migrating => u = t
         /\ t = Main(t[1]) => Up(t) /\ At(Signalled(t[1]), "off")
         /\ t = Signalled(t[1]) =>
              ~Up(t) /\ go[t].next = 1 /\ At(Main(t[1]), "serve")
<1>1. CASE t = Main(t[1])
  <2>1. At(Signalled(t[1]), "off") /\ Up(t) /\ open[t[1]] = TRUE
    BY <1>1 DEF Calm, At, Migrating
  <2>2. \A u \in Thread : u[1] = t[1] /\ go[u].pc \in Migrating => u = t
    BY <1>1, <2>1, TwoThreads DEF At, Migrating
  <2> QED
    BY <1>1, <2>1, <2>2, TwoThreads, Distinct DEF Due, Gone, At, Migrating
<1>2. CASE t = Signalled(t[1])
  <2>1. At(Main(t[1]), "serve") /\ ~Up(t) /\ go[t].next = 1 /\ open[t[1]] = TRUE
    BY <1>2 DEF Calm, At, Migrating
  <2>2. \A u \in Thread : u[1] = t[1] /\ go[u].pc \in Migrating => u = t
    BY <1>2, <2>1, TwoThreads DEF At, Migrating
  <2> QED
    BY <1>2, <2>1, <2>2, TwoThreads, Distinct DEF Due, Gone, At, Migrating
<1> QED
  BY <1>1, <1>2, TwoThreads

\* The others as they were.
LEMMA OthersCalm ==
  ASSUME NEW p \in Proc, Within(p), Orderly, Calm(p)'
  PROVE  /\ \A q \in Proc : Calm(q)'
         /\ \A q \in Proc : q # p => (Due(q)' <=> Due(q)) /\ (Gone(q)' <=> Gone(q))
         /\ \A u \in Thread : u[1] # p => go'[u] = go[u]
<1>1. ASSUME NEW q \in Proc, q # p
      PROVE  Calm(q)' /\ (Due(q)' <=> Due(q)) /\ (Gone(q)' <=> Gone(q))
  <2>1. /\ go'[Main(q)] = go[Main(q)] /\ go'[Signalled(q)] = go[Signalled(q)]
        /\ open'[q] = open[q]
    BY <1>1 DEF Within
  <2>2. Calm(q)
    BY DEF Orderly
  <2> QED
    BY <2>1, <2>2 DEF Calm, Up, At, Due, Gone
<1>2. \A u \in Thread : u[1] # p => go'[u] = go[u]
  BY TwoThreads DEF Within
<1> QED
  BY <1>1, <1>2

\* A step of t from one statement of its run to the next.
LEMMA RunsOn ==
  ASSUME IInv, Orderly, NEW t \in Thread,
         go[t].pc \in Migrating, go'[t].pc \in Migrating,
         go'[t].dir = go[t].dir, go'[t].err # "failed", go'[t].next = go[t].next,
         \A u \in Thread : u # t => go'[u] = go[u],
         open' = open,
         locked' => Holds(t)',
         dirty' => \/ go'[t].pc \in {"run", "clean"}
                   \/ dirty /\ go[t].pc \notin {"run", "clean"},
         Emptied(t)',
         applied' = applied \/ Holds(t)
  PROVE  Orderly' /\ Clears
<1> DEFINE p == t[1]
<1>1. p \in Proc /\ Main(p) \in Thread /\ Signalled(p) \in Thread
  BY TwoThreads, ThreadFacts
<1>2. Calm(p)
  BY <1>1 DEF Orderly
<1>3. Within(p)
  BY <1>1, ThreadFacts, TwoThreads, Distinct DEF Within
<1>4. Calm(p)' /\ Due(p)'
  <2>1. CASE t = Main(p)
    <3>1. At(Signalled(p), "off") /\ open[p] = TRUE /\ go'[Signalled(p)] = go[Signalled(p)]
      BY <1>1, <1>2, <2>1, InARun, Distinct
    <3>2. Calm(p)'
      BY <1>2, <2>1, <3>1 DEF Calm, Up, At, Migrating
    <3> QED
      BY <2>1, <3>1, <3>2 DEF Due, Gone, At, Migrating
  <2>2. CASE t = Signalled(p)
    <3>1. At(Main(p), "serve") /\ open[p] = TRUE /\ go'[Main(p)] = go[Main(p)]
          /\ ~Up(t) /\ go[t].next = 1
      BY <1>1, <1>2, <2>2, InARun, Distinct
    <3>2. Calm(p)'
      BY <1>2, <2>2, <3>1 DEF Calm, Up, At, Migrating
    <3> QED
      BY <2>2, <3>1, <3>2 DEF Due, Gone, At, Migrating
  <2> QED
    BY <2>1, <2>2, TwoThreads
<1>5. \A q \in Proc : Calm(q)'
  BY <1>1, <1>3, <1>4, OthersCalm
<1>6. dirty' => \E u \in Thread : go'[u].pc \in {"run", "clean"}
  BY DEF Orderly
<1>7. ASSUME NEW u \in Thread PROVE Emptied(u)'
  <2>1. CASE u # t /\ applied' = applied
    BY <2>1 DEF Orderly, Emptied, Up, At
  <2>2. CASE u # t /\ Holds(t)
    BY <2>2 DEF IInv, OneMigrator, Holds, Emptied, At
  <2> QED
    BY <2>1, <2>2
<1> QED
  BY <1>1, <1>4, <1>5, <1>6, <1>7 DEF Orderly, Clears

LEMMA OrderlyRun ==
  ASSUME IInv, Orderly, NEW t \in Thread,
         \/ Release(t) \/ Version(t) \/ Mark(t) \/ Run(t) \/ Clean(t)
         \/ (Ensure(t) \/ Lock(t)) /\ LockRow(t)
  PROVE  Orderly' /\ Clears
<1>0. TypeOK
  BY DEF IInv
<1>9. go[t].err # "failed"
  <2>1. t[1] \in Proc /\ t \in {Main(t[1]), Signalled(t[1])}
    BY TwoThreads
  <2>2. Calm(t[1])
    BY <2>1 DEF Orderly
  <2> QED
    BY <2>1, <2>2 DEF Calm
<1>1. ASSUME NEW pc, GoTo(t, pc), pc \in Migrating
      PROVE  /\ go'[t].pc = pc /\ go'[t].dir = go[t].dir
             /\ go'[t].err # "failed" /\ go'[t].next = go[t].next
             /\ \A u \in Thread : u # t => go'[u] = go[u]
  <2>1. /\ go'[t] = [go[t] EXCEPT !.pc = pc]
        /\ \A u \in Thread : u # t => go'[u] = go[u]
    BY <1>0, <1>1, GoToType DEF Migrating
  <2>2. go[t] \in Goroutine
    BY <1>0 DEF TypeOK
  <2> QED
    BY <1>9, <2>1, <2>2 DEF Goroutine
<1>2. CASE (Ensure(t) \/ Lock(t)) /\ LockRow(t)
  <2>1. PICK pc \in {"release", "read"} : GoTo(t, pc) /\ open' = open
    BY <1>2 DEF Ensure, Lock, LockRow
  <2>2. go[t].pc \in {"ensure", "lock"} /\ dirty' = dirty /\ applied' = applied
    BY <1>2 DEF LockRow
  <2>3. Emptied(t)' /\ Holds(t)'
    BY <1>1, <2>1 DEF Emptied, Holds, At, Migrating
  <2> QED
    BY <1>1, <2>1, <2>2, <2>3, RunsOn DEF Migrating
<1>3. CASE Release(t)
  <2>1. /\ GoTo(t, "lock") /\ open' = open /\ go[t].pc = "release"
        /\ locked' = FALSE /\ dirty' = dirty /\ applied' = applied
    BY <1>3 DEF Release, UnlockRow, At
  <2>2. Emptied(t)'
    BY <1>1, <2>1 DEF Emptied, At, Migrating
  <2> QED
    BY <1>1, <2>1, <2>2, RunsOn DEF Migrating
<1>4. CASE Mark(t)
  <2>1. /\ GoTo(t, "run") /\ open' = open /\ go[t].pc = "mark" /\ applied' = applied
    BY <1>4 DEF Mark, SetVersion, At
  <2>2. Emptied(t)' /\ Holds(t)'
    BY <1>1, <2>1 DEF Emptied, Holds, At, Migrating
  <2> QED
    BY <1>1, <2>1, <2>2, RunsOn DEF Migrating
<1>5. CASE Run(t)
  <2>1. /\ GoTo(t, "clean") /\ open' = open /\ go[t].pc = "run" /\ Holds(t)
    BY <1>5 DEF Run, At, Holds
  <2>2. Emptied(t)' /\ Holds(t)'
    BY <1>1, <2>1 DEF Emptied, Holds, At, Migrating
  <2> QED
    BY <1>1, <2>1, <2>2, RunsOn DEF Migrating
<1>6. ASSUME NEW v \in 0..Last, go' = [go EXCEPT ![t] = Proceed(t, v)]
      PROVE  /\ go'[t].pc \in {"unlock", "mark"} /\ go'[t].dir = go[t].dir
             /\ go'[t].err # "failed" /\ go'[t].next = go[t].next
             /\ \A u \in Thread : u # t => go'[u] = go[u]
             /\ At(t, "unlock")' => v = End(t)
  <2>1. /\ \A u \in Thread : u # t => go'[u] = go[u]
        /\ go'[t].dir = go[t].dir /\ go'[t].err = go[t].err
        /\ go'[t].pc = IF v = End(t) THEN "unlock" ELSE "mark"
    BY <1>0, <1>6, ProceedType
  <2>2. go'[t] = Proceed(t, v)
    BY <1>0, <1>6 DEF TypeOK
  <2>3. Proceed(t, v).next = go[t].next
    BY <1>0 DEF TypeOK, Proceed, Goroutine
  <2> QED
    BY <1>9, <2>1, <2>2, <2>3 DEF At
<1>7. CASE Version(t)
  <2>1. go[t].pc = "read" /\ Holds(t) /\ open' = open /\ UNCHANGED db
    BY <1>7 DEF Version, At, Holds
  <2>2. ~dirty
    BY <2>1 DEF IInv, OneMigrator, Orderly, Holds
  <2>3. /\ go'[t].pc \in {"unlock", "mark"} /\ go'[t].dir = go[t].dir
        /\ go'[t].err # "failed" /\ go'[t].next = go[t].next
        /\ \A u \in Thread : u # t => go'[u] = go[u]
        /\ At(t, "unlock")' => version = End(t)
    <3>1. version \in 0..Last
      BY <1>0 DEF TypeOK
    <3>2. CASE go' = [go EXCEPT ![t] = Proceed(t, version)]
      BY <1>6, <3>1, <3>2
    <3>3. CASE version = End(t) /\ EndWith(t, "no_change")
      BY <1>0, <3>3, EndWithType DEF At
    <3> QED
      BY <1>7, <2>2, <3>2, <3>3 DEF Version
  <2>4. Emptied(t)'
    <3>1. SUFFICES ASSUME At(t, "unlock")', ~Up(t)' PROVE applied' = {}
      BY DEF Emptied
    <3>2. version = 0
      BY <2>3, <3>1 DEF End, Up
    <3> QED
      BY <2>1, <2>2, <3>2 DEF IInv, VersionHonest, db
  <2>5. Holds(t)'
    BY <2>3 DEF Holds
  <2> QED
    BY <2>1, <2>3, <2>4, <2>5, RunsOn DEF Migrating, db
<1>8. CASE Clean(t)
  <2>1. /\ go[t].pc = "clean" /\ Holds(t) /\ open' = open
        /\ dirty' = FALSE /\ applied' = applied
    BY <1>8 DEF Clean, SetVersion, At, Holds
  <2>2. go' = [go EXCEPT ![t] = Proceed(t, Target(t))] /\ Target(t) \in 0..Last
    BY <1>8, <2>1, TargetInRange DEF Clean
  <2>3. Emptied(t)'
    <3>1. SUFFICES ASSUME At(t, "unlock")', ~Up(t)' PROVE applied' = {}
      BY DEF Emptied
    <3>2. Target(t) = 0
      BY <1>6, <2>2, <3>1 DEF End, Up
    <3> QED
      BY <2>1, <3>2 DEF IInv, Stands, At
  <2>4. Holds(t)'
    BY <1>6, <2>2 DEF Holds
  <2> QED
    BY <1>6, <2>1, <2>2, <2>3, <2>4, RunsOn DEF Migrating
<1> QED
  BY <1>2, <1>3, <1>4, <1>5, <1>7, <1>8

\* A step of p that takes no run on and leaves the schema alone.
LEMMA Settles ==
  ASSUME Orderly, NEW p \in Proc, Within(p), Calm(p)',
         locked' => \E t \in Thread : Holds(t)',
         dirty' = dirty, applied' = applied,
         \A t \in Thread : t[1] = p => go[t].pc \notin {"run", "clean"},
         \A t \in Thread : t[1] = p => ~At(t, "unlock")',
         \/ \E q \in Proc : Due(q)'
         \/ applied = {}
         \/ ~Gone(p) /\ ~Due(p)
  PROVE  Orderly' /\ Clears
<1>1. /\ \A q \in Proc : Calm(q)'
      /\ \A q \in Proc : q # p => (Due(q)' <=> Due(q))
      /\ \A u \in Thread : u[1] # p => go'[u] = go[u]
  BY OthersCalm
<1>2. dirty' => \E t \in Thread : go'[t].pc \in {"run", "clean"}
  <2>1. SUFFICES ASSUME dirty PROVE \E t \in Thread : go'[t].pc \in {"run", "clean"}
    OBVIOUS
  <2>2. PICK t \in Thread : go[t].pc \in {"run", "clean"}
    BY <2>1 DEF Orderly
  <2>3. go'[t] = go[t]
    BY <1>1, <2>2
  <2> QED
    BY <2>2, <2>3
<1>3. ASSUME NEW t \in Thread PROVE Emptied(t)'
  <2>1. CASE t[1] = p
    BY <2>1 DEF Emptied
  <2>2. CASE t[1] # p
    BY <1>1, <2>2 DEF Orderly, Emptied, At, Up
  <2> QED
    BY <2>1, <2>2
<1>4. Clears
  <2>1. SUFFICES ASSUME \A q \in Proc : ~Due(q)' PROVE applied' = {}
    BY DEF Clears
  <2>2. CASE ~Gone(p) /\ ~Due(p)
    <3>1. \A q \in Proc : ~Due(q)
      BY <1>1, <2>1, <2>2
    <3> QED
      BY <2>2, <3>1 DEF Orderly
  <2> QED
    BY <2>1, <2>2
<1> QED
  BY <1>1, <1>2, <1>3, <1>4 DEF Orderly, Clears

LEMMA StopCalm ==
  ASSUME NEW p \in Proc, Stop(p), open \in [Proc -> BOOLEAN]
  PROVE  /\ Within(p) /\ Calm(p)'
         /\ \A t \in Thread : t[1] = p => go'[t].pc = "off"
<1>1. go' = [t \in Thread |-> IF t[1] = p THEN Off ELSE go[t]]
  BY DEF Stop
<1>2. \A q \in Proc : q # p => open'[q] = open[q]
  BY DEF Stop
<1>3. \A q \in Proc : q # p => go'[Main(q)] = go[Main(q)] /\ go'[Signalled(q)] = go[Signalled(q)]
  BY <1>1, ThreadFacts, Distinct
<1>4. go'[Main(p)] = Off /\ go'[Signalled(p)] = Off
  BY <1>1, ThreadFacts, Distinct
<1>5. Calm(p)'
  BY <1>4 DEF Calm, Off, Up, At, Migrating
<1>6. \A t \in Thread : t[1] = p => go'[t].pc = "off"
  BY <1>1 DEF Off
<1> QED
  BY <1>2, <1>3, <1>5, <1>6 DEF Within

\* A shutdown that is over with its purge, done or refused.
LEMMA PurgeOver ==
  ASSUME TypeOK, Orderly, NEW t \in Thread, go[t].pc \in Migrating, ~Up(t), NEW err, Return(t, err)
  PROVE  /\ Within(t[1]) /\ Calm(t[1])' /\ t = Signalled(t[1])
         /\ go'[t].pc = "shutdown"
         /\ go'[Main(t[1])] = go[Main(t[1])] /\ At(Main(t[1]), "serve")
<1> DEFINE p == t[1]
<1>1. p \in Proc /\ Calm(p)
  BY TwoThreads DEF Orderly
<1>2. t = Signalled(p) /\ At(Main(p), "serve") /\ go[t].next = 1 /\ open[p] = TRUE
  BY <1>1, InARun, TwoThreads
<1>3. go[t] \in Goroutine /\ go[t].dir = "down"
  BY DEF TypeOK, Up, Goroutine
<1>4. go' = [go EXCEPT ![t].pc = "shutdown", ![t].next = @ + 1] /\ open' = open
  BY <1>3 DEF Return
<1>5. go'[t].pc = "shutdown" /\ go'[t].next = 2 /\ go'[t].dir = "down" /\ go'[t].err = go[t].err
  BY <1>2, <1>3, <1>4 DEF TypeOK, Goroutine
<1>6. \A u \in Thread : u # t => go'[u] = go[u]
  BY <1>4 DEF TypeOK
<1>7. go'[Main(p)] = go[Main(p)]
  BY <1>1, <1>2, <1>6, ThreadFacts, Distinct
<1>8. Within(p)
  BY <1>1, <1>2, <1>4, <1>6, ThreadFacts, Distinct DEF Within
<1>9. Calm(p)'
  <2>1. /\ go'[Signalled(p)].pc = "shutdown" /\ go'[Signalled(p)].next = 2
        /\ ~Up(Signalled(p))'
    BY <1>2, <1>5 DEF Up
  <2>2. go'[Signalled(p)].err # "failed"
    BY <1>1, <1>2, <1>5 DEF Calm
  <2>3. /\ go'[Main(p)].pc = "serve" /\ go'[Main(p)].err # "failed" /\ Up(Main(p))'
        /\ open'[p] = TRUE
    BY <1>1, <1>2, <1>4, <1>7 DEF Calm, Up, At
  <2> QED
    BY <2>1, <2>2, <2>3 DEF Calm, At, Migrating
<1> QED
  BY <1>2, <1>5, <1>7, <1>8, <1>9

\* Whoever is refused the lock finds another process that holds it.
LEMMA OrderlyRefused ==
  ASSUME IInv, Orderly, NEW t \in Thread, Ensure(t) \/ Lock(t), ~LockRow(t)
  PROVE  Orderly' /\ Clears
<1> DEFINE p == t[1]
<1>1. /\ locked /\ Return(t, "failed") /\ UNCHANGED db /\ go[t].pc \in {"ensure", "lock"}
      /\ TypeOK
  BY DEF Ensure, Lock, At, IInv
<1>2. PICK u \in Thread : Holds(u)
  BY <1>1 DEF Orderly
<1>3. p \in Proc /\ u[1] \in Proc /\ Calm(p) /\ Calm(u[1])
  BY TwoThreads DEF Orderly
<1>4. u[1] # p
  BY <1>1, <1>2, <1>3, InARun DEF Holds, Migrating
<1>5. Due(u[1])
  BY <1>2, <1>3, InARun DEF Holds, Migrating
<1>6. Within(p) /\ Calm(p)' /\ \A v \in Thread : v[1] = p => ~At(v, "unlock")'
  <2>1. CASE Up(t)
    <3>1. Stop(p)
      BY <1>1, <2>1 DEF Return, Up
    <3> QED
      BY <1>1, <1>3, <3>1, StopCalm DEF TypeOK, At
  <2>2. CASE ~Up(t)
    BY <1>1, <2>2, PurgeOver, TwoThreads DEF Migrating, At
  <2> QED
    BY <2>1, <2>2
<1>7. Due(u[1])' /\ go'[u] = go[u]
  BY <1>3, <1>4, <1>5, <1>6, OthersCalm
<1>8. Holds(u)'
  BY <1>2, <1>7 DEF Holds
<1>9. \A v \in Thread : v[1] = p => go[v].pc \notin {"run", "clean"}
  BY <1>1, <1>3, InARun DEF Migrating
<1> QED
  BY <1>1, <1>3, <1>6, <1>7, <1>8, <1>9, Settles DEF db

LEMMA OrderlyUnlock ==
  ASSUME IInv, Orderly, NEW t \in Thread, Unlock(t)
  PROVE  Orderly' /\ Clears
<1> DEFINE p == t[1]
<1>1. /\ go[t].pc = "unlock" /\ locked' = FALSE /\ dirty' = dirty /\ applied' = applied
      /\ Return(t, go[t].err) /\ TypeOK
  BY DEF Unlock, UnlockRow, At, IInv
<1>2. p \in Proc /\ Calm(p) /\ Main(p) \in Thread /\ Signalled(p) \in Thread
  BY TwoThreads, ThreadFacts DEF Orderly
<1>3. \A v \in Thread : v[1] = p => go[v].pc \notin {"run", "clean"}
  BY <1>1, <1>2, InARun DEF Migrating
<1>4. CASE ~Up(t)
  <2>1. /\ Within(p) /\ Calm(p)' /\ t = Signalled(p) /\ go'[t].pc = "shutdown"
        /\ go'[Main(p)] = go[Main(p)] /\ At(Main(p), "serve")
    BY <1>1, <1>4, PurgeOver DEF Migrating
  <2>2. applied = {}
    BY <1>1, <1>4 DEF Orderly, Emptied, At
  <2>3. \A v \in Thread : v[1] = p => ~At(v, "unlock")'
    BY <2>1, TwoThreads DEF At
  <2> QED
    BY <1>1, <1>2, <1>3, <2>1, <2>2, <2>3, Settles
<1>5. CASE Up(t)
  <2>1. t = Main(p) /\ At(Signalled(p), "off") /\ go[t].err # "failed" /\ open[p] = TRUE
    BY <1>1, <1>2, <1>5, InARun, TwoThreads DEF Calm, Migrating
  <2>2. /\ go' = [go EXCEPT ![Main(p)].pc = "serve", ![Signalled(p)].pc = "wait"]
        /\ open' = open
    BY <1>1, <1>5, <2>1 DEF Return, Serve, Up
  <2>3. /\ go'[Main(p)].pc = "serve" /\ go'[Signalled(p)].pc = "wait"
        /\ go'[Main(p)].dir = go[Main(p)].dir
        /\ go'[Main(p)].err = go[Main(p)].err
        /\ go'[Signalled(p)].err = go[Signalled(p)].err
    BY <1>1, <1>2, <2>2, Distinct DEF TypeOK, Goroutine
  <2>4. \A v \in Thread : v # Main(p) /\ v # Signalled(p) => go'[v] = go[v]
    BY <1>1, <1>2, <2>2 DEF TypeOK
  <2>5. Within(p)
    BY <1>2, <2>2, <2>4, ThreadFacts, Distinct DEF Within
  <2>6. Calm(p)'
    BY <1>2, <2>1, <2>2, <2>3 DEF Calm, Up, At, Migrating
  <2>7. Due(p)'
    BY <2>3 DEF Due, Gone, At
  <2>8. \A v \in Thread : v[1] = p => ~At(v, "unlock")'
    BY <2>3, TwoThreads DEF At
  <2> QED
    BY <1>1, <1>2, <1>3, <2>5, <2>6, <2>7, <2>8, Settles
<1> QED
  BY <1>4, <1>5

LEMMA OrderlyProcess ==
  ASSUME IInv, Orderly, NEW p \in Proc, Start(p) \/ Connect(p) \/ Signal(p)
  PROVE  Orderly' /\ Clears
<1>1. /\ Main(p) \in Thread /\ Signalled(p) \in Thread /\ Calm(p) /\ UNCHANGED db
      /\ go \in [Thread -> Goroutine] /\ open \in [Proc -> BOOLEAN]
  BY ThreadFacts DEF IInv, TypeOK, Orderly, Start, Connect, Signal
<1>2. CASE Start(p) \/ Connect(p)
  <2>1. PICK pc \in {"connect", "ensure"} : GoTo(Main(p), pc)
    BY <1>2 DEF Start, Connect
  <2>2. /\ go[Main(p)].pc \in {"off", "connect"} /\ At(Signalled(p), "off")
        /\ pc = "ensure" => open'[p] = TRUE
        /\ \A q \in Proc : q # p => open'[q] = open[q]
    BY <1>1, <1>2, <2>1 DEF Start, Connect, Calm, At, GoTo, Goroutine
  <2>3. /\ go'[Main(p)] = [go[Main(p)] EXCEPT !.pc = pc]
        /\ \A u \in Thread : u # Main(p) => go'[u] = go[u]
    BY <1>1, <2>1 DEF GoTo
  <2>4. /\ go'[Main(p)].pc = pc /\ go'[Main(p)].dir = go[Main(p)].dir
        /\ go'[Main(p)].err = go[Main(p)].err
    BY <1>1, <2>3 DEF Goroutine
  <2>5. go'[Signalled(p)] = go[Signalled(p)]
    BY <1>1, <2>3, Distinct
  <2>6. Calm(p)' /\ Due(p)'
    BY <1>1, <2>2, <2>4, <2>5 DEF Calm, Due, Gone, Up, At, Migrating
  <2>7. Within(p)
    BY <2>2, <2>3, ThreadFacts, Distinct DEF Within
  <2>8. /\ \A u \in Thread : u[1] = p => go[u].pc \notin {"run", "clean"}
        /\ \A u \in Thread : u[1] = p => ~At(u, "unlock")'
    BY <2>2, <2>4, <2>5, TwoThreads DEF At
  <2>9. ASSUME locked' PROVE \E u \in Thread : Holds(u)'
    <3>1. PICK u \in Thread : Holds(u)
      BY <1>1, <2>9 DEF Orderly, db
    <3> QED
      BY <2>2, <2>3, <3>1 DEF Holds
  <2> QED
    BY <1>1, <2>6, <2>7, <2>8, <2>9, Settles DEF db
<1>3. CASE Signal(p)
  <2>1. /\ At(Signalled(p), "wait") /\ go' = [go EXCEPT ![Signalled(p)] = Leaving]
        /\ open' = open
    BY <1>3 DEF Signal, ShutDown
  <2>2. /\ go'[Signalled(p)] = Leaving
        /\ \A u \in Thread : u # Signalled(p) => go'[u] = go[u]
    BY <1>1, <2>1
  <2>3. /\ go'[Signalled(p)].pc = "shutdown" /\ go'[Signalled(p)].next = 1
        /\ go'[Signalled(p)].err # "failed" /\ ~Up(Signalled(p))'
    BY <2>2 DEF Leaving, Up
  <2>4. go'[Main(p)] = go[Main(p)] /\ At(Main(p), "serve") /\ open[p] = TRUE
    BY <1>1, <2>1, <2>2, Distinct DEF Calm, At
  <2>5. Calm(p)' /\ Due(p)'
    BY <1>1, <2>1, <2>3, <2>4 DEF Calm, Due, Gone, Up, At, Migrating
  <2>6. Within(p)
    BY <2>1, <2>2, ThreadFacts, Distinct DEF Within
  <2>7. /\ \A u \in Thread : u[1] = p => go[u].pc \notin {"run", "clean"}
        /\ \A u \in Thread : u[1] = p => ~At(u, "unlock")'
    BY <2>1, <2>3, <2>4, TwoThreads DEF At
  <2>8. ASSUME locked' PROVE \E u \in Thread : Holds(u)'
    <3>1. PICK u \in Thread : Holds(u)
      BY <1>1, <2>8 DEF Orderly, db
    <3> QED
      BY <2>1, <2>2, <3>1 DEF Holds, At
  <2> QED
    BY <1>1, <2>5, <2>6, <2>7, <2>8, Settles DEF db
<1> QED
  BY <1>2, <1>3

LEMMA OrderlyCallNext ==
  ASSUME IInv, Orderly, purge = Proc, NEW t \in Thread, CallNext(t)
  PROVE  Orderly' /\ Clears
<1> DEFINE p == t[1]
<1>1. /\ p \in Proc /\ Calm(p) /\ UNCHANGED db /\ go[t].pc = "shutdown"
      /\ go \in [Thread -> Goroutine] /\ open \in [Proc -> BOOLEAN]
  BY TwoThreads DEF IInv, TypeOK, Orderly, CallNext, At
<1>2. /\ t = Signalled(p) /\ At(Main(p), "serve") /\ ~Up(t) /\ go[t].next \in 1..3
      /\ go[t].err # "failed"
  BY <1>1, TwoThreads DEF Calm, At, Migrating
<1>3. t # Main(p) /\ Main(p) \in Thread
  BY <1>1, <1>2, ThreadFacts, Distinct
<1>4. \A u \in Thread : u[1] = p => go[u].pc \notin Migrating
  BY <1>1, <1>2, TwoThreads DEF At, Migrating
<1>5. ASSUME locked, \A u \in Thread : u[1] # p => go'[u] = go[u]
      PROVE  \E u \in Thread : Holds(u)'
  <2>1. PICK u \in Thread : Holds(u)
    BY <1>5 DEF Orderly
  <2>2. u[1] # p
    BY <1>4, <2>1 DEF Holds, Migrating
  <2> QED
    BY <1>5, <2>1, <2>2 DEF Holds
<1>6. CASE go[t].next = 3
  <2>1. Stop(p)
    BY <1>6, ShutdownOrder DEF CallNext
  <2>2. /\ Within(p) /\ Calm(p)'
        /\ \A u \in Thread : u[1] = p => go'[u].pc = "off"
    BY <1>1, <2>1, StopCalm
  <2>3. ~Gone(p) /\ ~Due(p)
    BY <1>1, <1>2, <1>6 DEF Gone, Due, At
  <2>4. \A u \in Thread : u[1] # p => go'[u] = go[u]
    BY <1>1, <2>2, OthersCalm
  <2> QED
    BY <1>1, <1>4, <1>5, <2>2, <2>3, <2>4, Settles DEF db, Migrating, At
<1>7. CASE go[t].next = 2
  <2>1. go' = [go EXCEPT ![t].next = @ + 1] /\ open' = [open EXCEPT ![p] = FALSE]
    BY <1>7, ShutdownOrder DEF CallNext
  <2>2. \A u \in Thread : u # t => go'[u] = go[u]
    BY <1>1, <2>1
  <2>3. /\ go'[t].pc = "shutdown" /\ go'[t].next = 3 /\ go'[t].dir = go[t].dir
        /\ go'[t].err = go[t].err
    BY <1>1, <1>7, <2>1 DEF Goroutine
  <2>4. go'[Main(p)] = go[Main(p)]
    BY <1>3, <2>2
  <2>5. Within(p)
    BY <1>1, <1>2, <2>1, <2>2, ThreadFacts, Distinct DEF Within
  <2>6. Calm(p)'
    BY <1>1, <1>2, <2>3, <2>4 DEF Calm, Up, At, Migrating
  <2>7. \A u \in Thread : u[1] = p => ~At(u, "unlock")'
    BY <1>2, <2>3, <2>4, TwoThreads DEF At
  <2>8. ~Gone(p) /\ ~Due(p)
    BY <1>1, <1>2, <1>7 DEF Gone, Due, At
  <2>9. \A u \in Thread : u[1] # p => go'[u] = go[u]
    BY <2>2
  <2> QED
    BY <1>1, <1>4, <1>5, <2>5, <2>6, <2>7, <2>8, <2>9, Settles DEF db, Migrating
<1>8. CASE go[t].next = 1
  <2>1. GoTo(t, "ensure") /\ open' = open
    BY <1>1, <1>8, ShutdownOrder DEF CallNext
  <2>2. \A u \in Thread : u # t => go'[u] = go[u]
    BY <1>1, <2>1 DEF GoTo
  <2>3. /\ go'[t].pc = "ensure" /\ go'[t].next = 1 /\ go'[t].dir = go[t].dir
        /\ go'[t].err = go[t].err
    BY <1>1, <1>8, <2>1 DEF GoTo, Goroutine
  <2>4. go'[Main(p)] = go[Main(p)]
    BY <1>3, <2>2
  <2>5. Within(p)
    BY <1>1, <1>2, <2>1, <2>2, ThreadFacts, Distinct DEF Within
  <2>6. Calm(p)'
    BY <1>1, <1>2, <1>8, <2>1, <2>3, <2>4 DEF Calm, Up, At, Migrating
  <2>7. \A u \in Thread : u[1] = p => ~At(u, "unlock")'
    BY <1>2, <2>3, <2>4, TwoThreads DEF At
  <2>8. Due(p)'
    BY <1>2, <2>3, <2>4 DEF Gone, Due, At
  <2>9. \A u \in Thread : u[1] # p => go'[u] = go[u]
    BY <2>2
  <2> QED
    BY <1>1, <1>4, <1>5, <2>5, <2>6, <2>7, <2>8, <2>9, Settles DEF db, Migrating
<1> QED
  BY <1>2, <1>6, <1>7, <1>8

LEMMA OrderlyStep ==
  ASSUME IInv, Orderly, purge = Proc, faults' = 0, Next
  PROVE  Orderly' /\ Clears
<1>1. faults \in Nat
  BY FaultsAssumption DEF IInv, TypeOK
<1>2. CASE \E p \in Proc : Start(p) \/ Connect(p) \/ Signal(p)
  BY <1>2, OrderlyProcess
<1>3. CASE \/ \E p \in Proc : Kill(p) \/ ListenerFails(p)
           \/ \E t \in Thread : StatementFails(t)
  BY <1>1, <1>3 DEF Kill, ListenerFails, StatementFails, Fault
<1>4. ASSUME NEW t \in Thread, Proceeds(t) PROVE Orderly' /\ Clears
  <2>1. ~Closed(t)
    <3>1. SUFFICES ASSUME Closed(t) PROVE FALSE
      OBVIOUS
    <3>2. go[t].pc \in Migrating
      BY <3>1 DEF Closed, Abort, Migrating, At
    <3> QED
      BY <3>1, <3>2, InARun, TwoThreads DEF Orderly, Closed
  <2>2. CASE Ensure(t) \/ Lock(t)
    BY <2>2, OrderlyRun, OrderlyRefused
  <2> QED
    BY <1>4, <2>1, <2>2, OrderlyRun, OrderlyUnlock, OrderlyCallNext DEF Proceeds
<1> QED
  BY <1>2, <1>3, <1>4 DEF Next

LEMMA FaultsGrow ==
  ASSUME IInv, Next, faults' = 0
  PROVE  faults = 0
<1>1. faults \in Nat
  BY FaultsAssumption DEF IInv, TypeOK
<1>2. CASE faults' = faults
  BY <1>2
<1>3. CASE faults' = faults + 1
  BY <1>1, <1>3
<1>4. ASSUME NEW p \in Proc, Start(p) \/ Connect(p) \/ Signal(p) \/ Kill(p) \/ ListenerFails(p)
      PROVE  faults' = faults \/ faults' = faults + 1
  BY <1>4 DEF Start, Connect, Signal, Kill, ListenerFails, Fault
<1>5. ASSUME NEW t \in Thread, Proceeds(t) \/ StatementFails(t)
      PROVE  faults' = faults \/ faults' = faults + 1
  BY <1>5 DEF Proceeds, StatementFails, Ensure, Release, Lock, Version, Mark, Run, Clean,
              Unlock, Closed, CallNext, Fault
<1> QED
  BY <1>2, <1>3, <1>4, <1>5 DEF Next

(* When every process purges on its way out and nothing fails, the last one *)
(* to leave leaves an empty database, for any number of processes, however  *)
(* their starts and shutdowns keep one another from the lock.               *)
THEOREM NothingLeft == Spec => LastLeavesClear
<1> DEFINE J == purge = Proc /\ faults = 0 => Orderly
           A == purge = Proc /\ faults' = 0 =>
                  ((\E p \in Proc : ~Gone(p)) /\ (\A p \in Proc : Gone(p)') => applied' = {})
<1>1. Init => J
  <2>1. SUFFICES ASSUME Init PROVE Orderly
    OBVIOUS
  <2>2. \A t \in Thread : go[t] = Off
    BY <2>1 DEF Init
  <2>3. \A t \in Thread : At(t, "off") /\ Up(t) /\ go[t].err # "failed"
    BY <2>2 DEF Off, Up, At
  <2>4. \A p \in Proc : Calm(p) /\ Gone(p)
    BY <2>3, ThreadFacts DEF Calm, Gone, At, Up, Migrating
  <2>5. \A t \in Thread : Emptied(t)
    BY <2>3 DEF Emptied, At
  <2> QED
    BY <2>1, <2>4, <2>5 DEF Init, Orderly
<1>2. IInv /\ J /\ [Next]_vars => J' /\ [A]_vars
  <2> SUFFICES ASSUME IInv, J, [Next]_vars PROVE J' /\ [A]_vars
    OBVIOUS
  <2>1. purge' = purge
    BY PurgeStays
  <2>2. CASE UNCHANGED vars
    <3>1. Orderly => Orderly'
      BY <2>2 DEF vars, Orderly, Calm, Due, Gone, Emptied, Up, At, Holds
    <3> QED
      BY <2>2, <3>1 DEF vars
  <2>3. CASE Next
    <3>1. CASE purge = Proc /\ faults' = 0
      <4>1. Orderly' /\ Clears
        BY <2>3, <3>1, FaultsGrow, OrderlyStep
      <4>2. (\A p \in Proc : Gone(p)') => \A p \in Proc : ~Due(p)'
        BY DEF Due
      <4> QED
        BY <4>1, <4>2 DEF Clears
    <3>2. CASE ~(purge = Proc /\ faults' = 0)
      BY <2>1, <3>2
    <3> QED
      BY <3>1, <3>2
  <2> QED
    BY <2>2, <2>3
<1> QED
  BY <1>1, <1>2, Invariance, PTL DEF Spec, LastLeavesClear
================================================================================
