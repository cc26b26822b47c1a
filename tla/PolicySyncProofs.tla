-------------------------- MODULE PolicySyncProofs --------------------------
(***************************************************************************)
(* Proofs about SchedulerLock and PolicySync, which extends it.  The run   *)
(* of the day holds the lock for at least LockAtLeast ticks after it has   *)
(* taken it, so while a replica still has to fire, no later than Skew      *)
(* ticks into the day, the lock is held.  The steps of PolicySync are      *)
(* steps of the lock or leave it alone, so it keeps what the lock          *)
(* promises.                                                               *)
(***************************************************************************)
EXTENDS PolicySync, TLAPS

(***************************************************************************)
(* The lock                                                                *)
(***************************************************************************)
\* The lock of today's run lasts at least until the clock shows LockAtLeast.
LeastCovers == started > 0 /\ clock <= Skew => lock.least + clock >= LockAtLeast

\* No replica fires later than Skew ticks into the day.
DueInTime == due # {} => clock <= Skew

LockInv ==
    /\ LockTypeOK
    /\ lock.least <= lock.until
    /\ LeastCovers
    /\ DueInTime

\* While a replica has to fire on a day on which the job has started, the lock is held.
LEMMA InvCovers == LockInv => LockCovers
  BY TimeAssumption, SMT
  DEF LockInv, LockTypeOK, Lock, LeastCovers, DueInTime, LockCovers, Expired

LEMMA InvInit == LockInit => LockInv
  BY TimeAssumption, SMT
  DEF LockInit, LockInv, LockTypeOK, Lock, LeastCovers, DueInTime

LEMMA FireKeepsInv ==
  ASSUME LockInv, NEW r \in Replicas, Fire(r)
  PROVE  LockInv'
  <1>1. CASE Expired
    BY <1>1, TimeAssumption, SMT
    DEF LockInv, LockTypeOK, Lock, LeastCovers, DueInTime, Fire, Taken
  <1>2. CASE ~Expired
    BY <1>2, TimeAssumption, SMT
    DEF LockInv, LockTypeOK, Lock, LeastCovers, DueInTime, Fire
  <1> QED BY <1>1, <1>2

LEMMA ReturnKeepsInv ==
  ASSUME LockInv, NEW r \in Replicas, Return(r)
  PROVE  LockInv'
  BY TimeAssumption, SMT
  DEF LockInv, LockTypeOK, Lock, LeastCovers, DueInTime, Return, GivenBack

LEMMA TickKeepsInv ==
  ASSUME LockInv, Tick
  PROVE  LockInv'
  <1>1. /\ lock'.by = lock.by
        /\ lock'.until = Less(lock.until)
        /\ lock'.least = Less(lock.least)
    BY DEF LockInv, LockTypeOK, Lock, Tick
  <1>2. lock' \in Lock /\ lock'.least <= lock'.until
    <2>1. /\ lock.by \in Replicas \cup {Nobody}
          /\ lock.until \in 0 .. LockAtMost
          /\ lock.least \in 0 .. LockAtLeast
          /\ lock.least <= lock.until
          /\ lock' = [lock EXCEPT !.until = Less(@), !.least = Less(@)]
      BY DEF LockInv, LockTypeOK, Lock, Tick
    <2>2. /\ Less(lock.until) \in 0 .. LockAtMost
          /\ Less(lock.least) \in 0 .. LockAtLeast
          /\ Less(lock.least) <= Less(lock.until)
      BY <2>1, TimeAssumption, SMT DEF Less
    <2>3. lock' = [by |-> lock.by, until |-> Less(lock.until), least |-> Less(lock.least)]
      BY <2>1 DEF LockInv, LockTypeOK, Lock
    <2> QED BY <1>1, <2>1, <2>2, <2>3 DEF Lock
  <1>3. CASE clock + 1 = Day
    BY <1>2, <1>3, TimeAssumption, SMT
    DEF LockInv, LockTypeOK, LeastCovers, DueInTime, Tick
  <1>4. CASE clock + 1 # Day
    <2>1. LockTypeOK'
      BY <1>2, <1>4, TimeAssumption, SMT DEF LockInv, LockTypeOK, Tick
    <2>2. LeastCovers'
      BY <1>1, <1>4, TimeAssumption, SMT
      DEF LockInv, LockTypeOK, Lock, LeastCovers, Tick, Less
    <2>3. DueInTime'
      BY <1>4, TimeAssumption, SMT DEF LockInv, LockTypeOK, DueInTime, Tick
    <2> QED BY <1>2, <2>1, <2>2, <2>3 DEF LockInv
  <1> QED BY <1>3, <1>4

LEMMA StepKeepsInv == LockInv /\ [LockNext]_lockVars => LockInv'
  <1> SUFFICES ASSUME LockInv, [LockNext]_lockVars PROVE LockInv'
    OBVIOUS
  <1>1. CASE Tick
    BY <1>1, TickKeepsInv
  <1>2. ASSUME NEW r \in Replicas, Fire(r) PROVE LockInv'
    BY <1>2, FireKeepsInv
  <1>3. ASSUME NEW r \in Replicas, Return(r) PROVE LockInv'
    BY <1>3, ReturnKeepsInv
  <1>4. ASSUME NEW r \in Replicas, Miss(r) \/ Stop(r) \/ Restart(r) PROVE LockInv'
    BY <1>4, SMT DEF LockInv, LockTypeOK, LeastCovers, DueInTime, Miss, Stop, Restart
  <1>5. CASE UNCHANGED lockVars
    BY <1>5 DEF LockInv, LockTypeOK, LeastCovers, DueInTime, lockVars
  <1> QED BY <1>1, <1>2, <1>3, <1>4, <1>5 DEF LockNext

LEMMA LockInvHolds == LockSpec => []LockInv
  BY InvInit, StepKeepsInv, PTL DEF LockSpec

\* The variables of the scheduler lock keep their types.
THEOREM LockTypeCorrect == LockSpec => []LockTypeOK
  <1>1. LockInv => LockTypeOK
    BY DEF LockInv
  <1> QED BY <1>1, LockInvHolds, PTL

\* Whatever the number of replicas, the length of a run and the replicas that stop under it, the
\* lock does not expire before every replica has fired.
THEOREM LockHeldUntilAllFired == LockSpec => []LockCovers
  BY LockInvHolds, InvCovers, PTL

LEMMA StepStartsOnce == LockInv /\ [LockNext]_lockVars => [Daily!Start \/ Daily!NewDay]_started
  <1> SUFFICES ASSUME LockInv, [LockNext]_lockVars, started' # started
               PROVE  Daily!Start \/ Daily!NewDay
    OBVIOUS
  <1>1. CASE Tick
    BY <1>1 DEF Tick, Daily!NewDay
  <1>2. ASSUME NEW r \in Replicas, Fire(r) PROVE Daily!Start
    <2>1. due # {} /\ Expired /\ started' = started + 1
      BY <1>2 DEF Fire
    <2>2. started = 0
      BY <2>1, InvCovers, SMT DEF LockCovers, LockInv, LockTypeOK
    <2> QED BY <2>1, <2>2 DEF Daily!Start
  <1>3. ASSUME NEW r \in Replicas, Miss(r) \/ Return(r) \/ Stop(r) \/ Restart(r) PROVE FALSE
    BY <1>3 DEF Miss, Return, Stop, Restart
  <1>4. CASE UNCHANGED lockVars
    BY <1>4 DEF lockVars
  <1> QED BY <1>1, <1>2, <1>3, <1>4 DEF LockNext

\* The lock implements its promise (SchedulerLockConfig.java:9): the job starts at most once a day.
THEOREM StartsOncePerDay == LockSpec => OncePerDay
  <1>1. LockInit => Daily!Init
    BY DEF LockInit, Daily!Init
  <1> QED BY <1>1, LockInvHolds, StepStartsOnce, PTL DEF LockSpec, OncePerDay, Daily!Spec

-----------------------------------------------------------------------------
(***************************************************************************)
(* The synchronisation                                                     *)
(***************************************************************************)
LEMMA NextIsLockStep == [Next]_vars => [LockNext]_lockVars
  <1> SUFFICES ASSUME [Next]_vars PROVE [LockNext]_lockVars
    OBVIOUS
  <1>1. CASE Time \/ Publish
    BY <1>1 DEF Time, Publish, LockNext
  <1>2. ASSUME NEW r \in Replicas,
               Schedule(r) \/ ReturnFromSchedule(r) \/ StopReplica(r) \/ RestartReplica(r)
        PROVE  LockNext
    BY <1>2
    DEF Schedule, FireSchedule, MissSchedule, ReturnFromSchedule, StopReplica, RestartReplica, LockNext
  <1>3. ASSUME NEW q \in Requests, RequestSync(q) PROVE UNCHANGED lockVars
    BY <1>3 DEF RequestSync
  <1>4. ASSUME NEW t \in Threads, Work(t) \/ RefuseUrl(t) \/ Fail(t) \/ LoseDatabase(t)
        PROVE  UNCHANGED lockVars
    BY <1>4 DEF Work, Begin, Fetch, ImportRow, Finish, RefuseUrl, Fail, LoseDatabase
  <1>5. ASSUME NEW p \in Policies, EditPolicy(p) PROVE UNCHANGED lockVars
    BY <1>5 DEF EditPolicy
  <1>6. CASE UNCHANGED vars
    BY <1>6 DEF vars
  <1> QED BY <1>1, <1>2, <1>3, <1>4, <1>5, <1>6 DEF Next

\* The synchronisation uses the lock as the lock is specified.
THEOREM SyncUsesLock == Spec => LockSpec
  <1>1. Init => LockInit
    BY DEF Init
  <1> QED BY <1>1, NextIsLockStep, PTL DEF Spec, LockSpec

\* The nightly import starts at most once a day, on whichever replica, whatever runs, requests,
\* failures and stops happen beside it.
THEOREM SyncOncePerDay == Spec => OncePerDay
  BY SyncUsesLock, StartsOncePerDay

\* The lock of the nightly import does not expire before every replica has fired.
THEOREM SyncLockCovers == Spec => []LockCovers
  BY SyncUsesLock, LockHeldUntilAllFired

-----------------------------------------------------------------------------
\* The scheduler thread of a replica is inside scheduled() on that replica while its run goes on.
WorkingRuns == \A r \in Replicas : run[r] # Idle => r \in working /\ run[r].on = r

\* A run that imports has a list.
ImportHasList == \A t \in Threads : run[t].at = "import" => run[t].list \in Lists

RunInv == WorkingRuns /\ ImportHasList /\ RunningHasRun

Inv == TypeOK /\ RunInv

LEMMA ReplicaThreads == Replicas \subseteq Threads /\ Requests \subseteq Threads
  BY DEF Threads

LEMMA InitInv == Init => Inv
  <1> SUFFICES ASSUME Init PROVE Inv
    OBVIOUS
  <1>1. LockTypeOK
    BY InvInit DEF Init, LockInv
  <1>2. 1 \in Lists
    BY ListAssumption, SMT DEF Lists
  <1> QED BY <1>1, <1>2, ReplicaThreads DEF Init, Inv, RunInv, TypeOK, WorkingRuns, ImportHasList, RunningHasRun, Idle

\* A step that changes the run of one thread only, to a state of the right type that does not leave
\* a log row behind and, for a scheduler thread, keeps to its replica.
LEMMA RunStep ==
  ASSUME Inv, NEW t \in Threads, NEW new \in {Idle} \cup Run,
         run' = [run EXCEPT ![t] = new],
         t \in open' => new.at \in {"fetch", "import"} \/ used' \cap {"stop", "database"} # {},
         new.at = "import" => new.list \in Lists,
         t \in Replicas /\ new # Idle => t \in working' /\ new.on = t,
         working \ {t} \subseteq working',
         open' \ {t} \subseteq open, used \subseteq used'
  PROVE  run' \in [Threads -> {Idle} \cup Run] /\ RunInv'
  <1>1. run' \in [Threads -> {Idle} \cup Run]
    BY DEF Inv, TypeOK
  <1>2. run'[t] = new /\ \A u \in Threads \ {t} : run'[u] = run[u]
    BY DEF Inv, TypeOK
  <1>3. WorkingRuns' /\ ImportHasList'
    BY <1>2, ReplicaThreads DEF Inv, RunInv, WorkingRuns, ImportHasList, Lists
  <1>4. ASSUME NEW u \in open'
        PROVE  run'[u].at \in {"fetch", "import"} \/ used' \cap {"stop", "database"} # {}
    <2>1. CASE u = t
      BY <1>2, <1>4, <2>1
    <2>2. CASE u # t
      <3>1. u \in open /\ u \in Threads
        BY <1>4, <2>2 DEF Inv, TypeOK
      <3> QED BY <1>2, <2>2, <3>1 DEF Inv, RunInv, RunningHasRun
    <2> QED BY <2>1, <2>2
  <1> QED BY <1>1, <1>3, <1>4 DEF RunInv, RunningHasRun

LEMMA CalledIsRun ==
  ASSUME NEW r \in Replicas
  PROVE  [at |-> "waiting", on |-> r, list |-> 0, todo |-> {}] \in Run
  BY DEF Run

LEMMA ScheduleKeepsInv ==
  ASSUME Inv, LockTypeOK', NEW r \in Replicas, Schedule(r)
  PROVE  Inv'
  <1>1. CASE MissSchedule(r)
    BY <1>1 DEF Inv, RunInv, TypeOK, WorkingRuns, ImportHasList, RunningHasRun, Lists, MissSchedule, Miss, syncVars
  <1>2. CASE FireSchedule(r)
    <2>1. UNCHANGED <<source, policy, open, success, used>> /\ r \notin working
      BY <1>2 DEF FireSchedule, Fire
    <2>2. CASE ~Expired
      BY <1>2, <2>1, <2>2 DEF FireSchedule, Fire, Inv, RunInv, TypeOK, WorkingRuns, ImportHasList, RunningHasRun, Lists
    <2>3. CASE Expired
      <3>1. /\ run' = [run EXCEPT ![r] = [at |-> "waiting", on |-> r, list |-> 0, todo |-> {}]]
            /\ working' = working \cup {r}
        BY <1>2, <2>3 DEF FireSchedule, Called, Fire
      <3>2. r \in open => used' \cap {"stop", "database"} # {}
        <4>1. run[r] = Idle
          BY <2>1 DEF Inv, RunInv, WorkingRuns
        <4> QED BY <2>1, <4>1 DEF Inv, RunInv, RunningHasRun, Idle
      <3>3. run' \in [Threads -> {Idle} \cup Run] /\ RunInv'
        BY <2>1, <3>1, <3>2, ReplicaThreads, CalledIsRun, RunStep
      <3> QED BY <2>1, <3>3 DEF Inv, TypeOK
    <2> QED BY <2>2, <2>3
  <1> QED BY <1>1, <1>2 DEF Schedule

LEMMA RequestKeepsInv ==
  ASSUME Inv, LockTypeOK', NEW q \in Requests, RequestSync(q)
  PROVE  Inv'
  <1>1. UNCHANGED <<source, policy, open, success, used>> /\ run[q] = Idle /\ UNCHANGED working
    BY DEF RequestSync, lockVars
  <1>2. PICK r \in Replicas :
          run' = [run EXCEPT ![q] = [at |-> "waiting", on |-> r, list |-> 0, todo |-> {}]]
    BY DEF RequestSync, Called, Inv, TypeOK, LockTypeOK
  <1>3. q \in open => used' \cap {"stop", "database"} # {}
    BY <1>1 DEF Inv, RunInv, RunningHasRun, Idle
  <1>4. q \notin Replicas
    BY RequestAssumption
  <1>5. run' \in [Threads -> {Idle} \cup Run] /\ RunInv'
    BY <1>1, <1>2, <1>3, <1>4, ReplicaThreads, CalledIsRun, RunStep
  <1> QED BY <1>1, <1>5 DEF Inv, TypeOK

\* A thread inside synchronize() is a run with all its parts.
LEMMA BusyIsRun ==
  ASSUME Inv, NEW t \in Threads, run[t].at \in {"waiting", "fetch", "import", "return"}
  PROVE  run[t] \in Run /\ run[t] # Idle
  BY DEF Inv, TypeOK, Idle

\* Leaving synchronize() leaves no row RUNNING that the thread has closed.
LEMMA LeaveStep ==
  ASSUME Inv, NEW t \in Threads, run[t].at \in {"waiting", "fetch", "import"}, Leave(t),
         UNCHANGED working, open' \subseteq open, used \subseteq used',
         t \in open' => used' \cap {"stop", "database"} # {}
  PROVE  run' \in [Threads -> {Idle} \cup Run] /\ RunInv'
  <1>1. run[t] \in Run /\ run[t] # Idle
    BY BusyIsRun
  <1>2. CASE t \in Replicas
    <2> DEFINE new == [run[t] EXCEPT !.at = "return"]
    <2>1. run' = [run EXCEPT ![t] = new]
      BY <1>2 DEF Leave, Goto
    <2>2. new \in Run /\ new.on = run[t].on /\ new.at = "return"
      BY <1>1 DEF Run
    <2>3. t \in working /\ run[t].on = t
      BY <1>1, <1>2 DEF Inv, RunInv, WorkingRuns
    <2> HIDE DEF new
    <2> QED BY <2>1, <2>2, <2>3, RunStep
  <1>3. CASE t \notin Replicas
    BY <1>3, RunStep DEF Leave, Idle
  <1> QED BY <1>2, <1>3

\* A thread that goes on inside synchronize() stays on its replica.
LEMMA ContinueStep ==
  ASSUME Inv, NEW t \in Threads, run[t].at \in {"waiting", "fetch", "import"},
         NEW new \in Run, new.on = run[t].on, new.at \in {"fetch", "import"},
         new.at = "import" => new.list \in Lists,
         run' = [run EXCEPT ![t] = new],
         UNCHANGED <<working, used>>, open' \subseteq open \cup {t}
  PROVE  run' \in [Threads -> {Idle} \cup Run] /\ RunInv'
  <1>1. run[t] \in Run /\ run[t] # Idle
    BY BusyIsRun
  <1>2. t \in Replicas => t \in working /\ run[t].on = t
    BY <1>1 DEF Inv, RunInv, WorkingRuns
  <1> QED BY <1>2, RunStep

\* A row imported from a list is a row.
LEMMA ImportedIsRow ==
  ASSUME NEW p, NEW list \in {0} \cup Lists PROVE Imported(p, list) \in Row
  BY DEF Imported, Row

LEMMA WorkKeepsInv ==
  ASSUME Inv, LockTypeOK', NEW t \in Threads, Work(t)
  PROVE  Inv'
  <1>1. CASE Begin(t)
    <2> DEFINE new == [run[t] EXCEPT !.at = "fetch"]
    <2>1. run[t] \in Run /\ run[t].at = "waiting"
      BY <1>1, BusyIsRun DEF Begin
    <2>2. new \in Run /\ new.on = run[t].on /\ new.at = "fetch"
      BY <2>1 DEF Run
    <2>3. /\ run' = [run EXCEPT ![t] = new]
          /\ open' = open \cup {t}
          /\ UNCHANGED <<working, used, source, policy, success>>
      BY <1>1 DEF Begin, Goto, lockVars
    <2> HIDE DEF new
    <2>4. run' \in [Threads -> {Idle} \cup Run] /\ RunInv'
      BY <2>1, <2>2, <2>3, ContinueStep
    <2> QED BY <2>3, <2>4 DEF Inv, TypeOK
  <1>2. CASE Fetch(t)
    <2> DEFINE new == [run[t] EXCEPT !.at = "import", !.list = source, !.todo = Listed[source]]
    <2>1. run[t] \in Run /\ run[t].at = "fetch"
      BY <1>2, BusyIsRun DEF Fetch
    <2>2. new \in Run /\ new.on = run[t].on /\ new.at = "import" /\ new.list \in Lists
      BY <2>1, ListAssumption DEF Run, Inv, TypeOK
    <2>3. /\ run' = [run EXCEPT ![t] = new]
          /\ UNCHANGED <<working, used, source, policy, open, success>>
      BY <1>2, <2>1 DEF Fetch, lockVars, Run
    <2> HIDE DEF new
    <2>4. run' \in [Threads -> {Idle} \cup Run] /\ RunInv'
      BY <2>1, <2>2, <2>3, ContinueStep
    <2> QED BY <2>3, <2>4 DEF Inv, TypeOK
  <1>3. CASE ImportRow(t)
    <2>1. run[t] \in Run /\ run[t].at = "import"
      BY <1>3, BusyIsRun DEF ImportRow
    <2>2. PICK p \in run[t].todo :
            /\ policy' = [policy EXCEPT ![p] = Imported(p, run[t].list)]
            /\ run' = [run EXCEPT ![t].todo = @ \ {p}]
      BY <1>3 DEF ImportRow
    <2> DEFINE new == [run[t] EXCEPT !.todo = @ \ {p}]
    <2>3. new \in Run /\ new.on = run[t].on /\ new.at = "import" /\ new.list \in Lists
      BY <2>1 DEF Run, Inv, RunInv, ImportHasList
    <2>4. run' = [run EXCEPT ![t] = new] /\ UNCHANGED <<working, used, source, open, success>>
      BY <1>3, <2>2 DEF ImportRow, lockVars
    <2> HIDE DEF new
    <2>5. run' \in [Threads -> {Idle} \cup Run] /\ RunInv'
      BY <2>1, <2>3, <2>4, ContinueStep
    <2>6. policy' \in [Policies -> {Absent} \cup Row]
      <3>1. run[t].list \in {0} \cup Lists
        BY <2>1 DEF Run
      <3> QED BY <2>2, <3>1, ImportedIsRow DEF Inv, TypeOK
    <2> QED BY <2>4, <2>5, <2>6 DEF Inv, TypeOK
  <1>4. CASE Finish(t)
    <2>1. run[t] \in Run /\ run[t].at = "import"
      BY <1>4, BusyIsRun DEF Finish
    <2>2. /\ open' = open \ {t}
          /\ success' = success \cup {run[t].list}
          /\ Leave(t)
          /\ UNCHANGED <<working, used, source, policy>>
      BY <1>4 DEF Finish, lockVars
    <2>3. run' \in [Threads -> {Idle} \cup Run] /\ RunInv'
      BY <2>1, <2>2, LeaveStep
    <2>4. run[t].list \in Lists
      BY <2>1 DEF Inv, RunInv, ImportHasList
    <2> QED BY <2>2, <2>3, <2>4 DEF Inv, TypeOK
  <1> QED BY <1>1, <1>2, <1>3, <1>4 DEF Work

LEMMA FaultKeepsInv ==
  ASSUME Inv, LockTypeOK', NEW t \in Threads, RefuseUrl(t) \/ Fail(t) \/ LoseDatabase(t)
  PROVE  Inv'
  <1>1. CASE RefuseUrl(t)
    <2>1. /\ run[t].at = "waiting"
          /\ Leave(t)
          /\ UNCHANGED <<working, source, policy, open, success>>
          /\ used \subseteq used' /\ used' \subseteq FaultKinds
      BY <1>1 DEF RefuseUrl, lockVars, Spend, Inv, TypeOK, FaultKinds
    <2>2. t \in open' => used' \cap {"stop", "database"} # {}
      BY <2>1 DEF Inv, RunInv, RunningHasRun
    <2>3. run' \in [Threads -> {Idle} \cup Run] /\ RunInv'
      BY <2>1, <2>2, LeaveStep
    <2> QED BY <2>1, <2>3 DEF Inv, TypeOK
  <1>2. CASE Fail(t)
    <2>1. /\ run[t].at \in {"fetch", "import"}
          /\ Leave(t)
          /\ open' = open \ {t}
          /\ UNCHANGED <<working, source, policy, success>>
          /\ used \subseteq used' /\ used' \subseteq FaultKinds
      BY <1>2 DEF Fail, LogFailure, lockVars, Spend, Inv, TypeOK, FaultKinds
    <2>2. run' \in [Threads -> {Idle} \cup Run] /\ RunInv'
      BY <2>1, LeaveStep
    <2> QED BY <2>1, <2>2 DEF Inv, TypeOK
  <1>3. CASE LoseDatabase(t)
    <2>1. /\ run[t].at \in {"fetch", "import"}
          /\ Leave(t)
          /\ UNCHANGED <<working, source, policy, open, success>>
          /\ used \subseteq used' /\ used' \subseteq FaultKinds /\ "database" \in used'
      BY <1>3 DEF LoseDatabase, lockVars, Spend, Inv, TypeOK, FaultKinds
    <2>2. run' \in [Threads -> {Idle} \cup Run] /\ RunInv'
      BY <2>1, LeaveStep
    <2> QED BY <2>1, <2>2 DEF Inv, TypeOK
  <1> QED BY <1>1, <1>2, <1>3

LEMMA ReplicaKeepsInv ==
  ASSUME Inv, LockTypeOK', NEW r \in Replicas,
         ReturnFromSchedule(r) \/ StopReplica(r) \/ RestartReplica(r)
  PROVE  Inv'
  <1>1. CASE RestartReplica(r)
    BY <1>1
    DEF RestartReplica, Restart, syncVars, Inv, RunInv, TypeOK, WorkingRuns, ImportHasList, RunningHasRun, Lists
  <1>2. CASE ReturnFromSchedule(r)
    <2>1. /\ run[r].at = "return" /\ run' = [run EXCEPT ![r] = Idle]
          /\ working' = working \ {r}
          /\ UNCHANGED <<source, policy, open, success, used>>
      BY <1>2 DEF ReturnFromSchedule, Return
    <2>2. r \in open' => used' \cap {"stop", "database"} # {}
      BY <2>1 DEF Inv, RunInv, RunningHasRun
    <2>3. run' \in [Threads -> {Idle} \cup Run] /\ RunInv'
      BY <2>1, <2>2, ReplicaThreads, RunStep DEF Idle
    <2> QED BY <2>1, <2>3 DEF Inv, TypeOK
  <1>3. CASE StopReplica(r)
    <2>1. /\ run' = [t \in Threads |-> IF run[t] # Idle /\ run[t].on = r THEN Idle ELSE run[t]]
          /\ working' = working \ {r}
          /\ UNCHANGED <<source, policy, open, success>>
          /\ "stop" \in used' /\ used' \subseteq FaultKinds
      BY <1>3 DEF StopReplica, Stop, Spend, Inv, TypeOK, FaultKinds
    <2>2. run' \in [Threads -> {Idle} \cup Run] /\ ImportHasList'
      BY <2>1 DEF Inv, RunInv, TypeOK, ImportHasList, Idle, Lists
    <2>3. WorkingRuns'
      BY <2>1, ReplicaThreads DEF Inv, RunInv, WorkingRuns
    <2>4. RunningHasRun'
      BY <2>1 DEF RunningHasRun
    <2> QED BY <2>1, <2>2, <2>3, <2>4 DEF Inv, RunInv, TypeOK
  <1> QED BY <1>1, <1>2, <1>3

LEMMA EnvironmentKeepsInv ==
  ASSUME Inv, LockTypeOK', Time \/ Publish \/ (\E p \in Policies : EditPolicy(p)) \/ UNCHANGED vars
  PROVE  Inv'
  <1>1. CASE Time \/ UNCHANGED vars
    <2>1. UNCHANGED <<working, syncVars>>
      BY <1>1 DEF Time, Tick, vars, lockVars
    <2> QED
      BY <2>1 DEF syncVars, Inv, RunInv, TypeOK, WorkingRuns, ImportHasList, RunningHasRun, Lists
  <1>2. CASE Publish
    <2>1. UNCHANGED <<working, policy, run, open, success, used>>
      BY <1>2 DEF Publish, lockVars
    <2>2. source' \in Lists
      BY <1>2, ListAssumption, SMT DEF Publish, Inv, TypeOK, Lists
    <2> QED
      BY <2>1, <2>2 DEF Inv, RunInv, TypeOK, WorkingRuns, ImportHasList, RunningHasRun, Lists
  <1>3. ASSUME NEW p \in Policies, EditPolicy(p) PROVE Inv'
    <2>1. UNCHANGED <<working, source, run, open, success>>
      BY <1>3 DEF EditPolicy, lockVars
    <2>2. used \subseteq used' /\ used' \subseteq FaultKinds
      BY <1>3 DEF EditPolicy, Spend, Inv, TypeOK, FaultKinds
    <2>3. policy' \in [Policies -> {Absent} \cup Row]
      BY <1>3 DEF EditPolicy, Inv, TypeOK, Row
    <2> QED
      BY <2>1, <2>2, <2>3
      DEF Inv, RunInv, TypeOK, WorkingRuns, ImportHasList, RunningHasRun, Lists
  <1> QED BY <1>1, <1>2, <1>3

LEMMA NextKeepsInv == Inv /\ LockTypeOK' /\ [Next]_vars => Inv'
  <1> SUFFICES ASSUME Inv, LockTypeOK', [Next]_vars PROVE Inv'
    OBVIOUS
  <1> QED
    BY ScheduleKeepsInv, RequestKeepsInv, WorkKeepsInv, FaultKeepsInv, ReplicaKeepsInv,
       EnvironmentKeepsInv
    DEF Next

LEMMA InvHolds == Spec => []Inv
  <1>1. Spec => []LockTypeOK
    BY SyncUsesLock, LockTypeCorrect
  <1> QED BY <1>1, InitInv, NextKeepsInv, PTL DEF Spec

\* Every variable of the synchronisation keeps its type.
THEOREM TypeCorrect == Spec => []TypeOK
  BY InvHolds, PTL DEF Inv

\* Whatever the replicas, requests and policies, a log row that says RUNNING belongs to a run in
\* progress, unless the replica or the database failed under the run.
THEOREM RunningRowsHaveRuns == Spec => []RunningHasRun
  <1>1. Inv => RunningHasRun
    BY DEF Inv, RunInv
  <1> QED BY <1>1, InvHolds, PTL
-----------------------------------------------------------------------------
(***************************************************************************)
(* What a success means.  The monitor leaves one run at a time on a        *)
(* replica, so while runs overlap on no other replica there is one run at  *)
(* all.  The list it fetches is the newest of the source, no older than    *)
(* any list that has been logged as SUCCESS, and nobody else writes a      *)
(* policy before it ends.                                                  *)
(***************************************************************************)
Busy(t) == run[t].at \in {"fetch", "import"}
Has(p, list) == policy[p] # Absent /\ policy[p].list >= list /\ policy[p].enabled

OneOnReplica == \A t, u \in Threads : Busy(t) /\ Busy(u) /\ run[t].on = run[u].on => t = u

\* No run has a list that the source has not published yet.
NotAhead ==
    /\ \A list \in success : list <= source
    /\ \A t \in Threads : run[t].at = "import" => run[t].list <= source

OrderInv == OneOnReplica /\ NotAhead

SuccessHas == \A list \in success : \A p \in Listed[list] : Has(p, list)

\* A run that imports has a list no older than those of the successful runs, and has written what
\* it has done of it.
ImportHas(t) ==
    run[t].at = "import" =>
        /\ \A list \in success : list <= run[t].list
        /\ \A p \in Listed[run[t].list] \ run[t].todo : Has(p, run[t].list)

ImportInv == "edit" \notin used => SuccessHas /\ \A t \in Threads : ImportHas(t)

LEMMA InitImport == Init => OrderInv /\ ImportInv
  BY DEF Init, OrderInv, OneOnReplica, NotAhead, ImportInv, SuccessHas, ImportHas, Busy, Idle

LEMMA ListsAreNumbers == Lists \subseteq Nat
  BY ListAssumption DEF Lists

\* A step that moves no run into synchronize(), logs no success and writes no policy, unless it is
\* an administrator's edit.
Calm ==
    /\ \A t \in Threads : run'[t] = run[t] \/ ~Busy(t)'
    /\ source <= source' /\ UNCHANGED success
    /\ used \subseteq used'
    /\ UNCHANGED policy \/ "edit" \in used'

LEMMA CalmKeeps ==
  ASSUME Inv, Inv', OrderInv, Calm
  PROVE  OrderInv' /\ (ImportInv => ImportInv')
  <1>1. /\ source \in Nat /\ source' \in Nat /\ success \subseteq Nat
        /\ \A t \in Threads : run[t].at = "import" => run[t].list \in Nat
    BY ListsAreNumbers DEF Inv, TypeOK, RunInv, ImportHasList
  <1>2. \A t \in Threads : Busy(t)' => Busy(t) /\ run'[t] = run[t]
    BY DEF Calm, Busy
  <1>3. OneOnReplica'
    <2> SUFFICES ASSUME NEW t \in Threads, NEW u \in Threads, Busy(t)', Busy(u)', run'[t].on = run'[u].on
                 PROVE  t = u
      BY DEF OneOnReplica
    <2> QED BY <1>2 DEF OrderInv, OneOnReplica
  <1>4. \A t \in Threads : run'[t].at = "import" => run'[t] = run[t]
    BY DEF Calm, Busy
  <1>5. NotAhead'
    <2>1. \A list \in success' : list <= source'
      <3> SUFFICES ASSUME NEW list \in success PROVE list <= source'
        BY DEF Calm
      <3>1. list \in Nat /\ list <= source /\ source <= source'
        BY <1>1 DEF OrderInv, NotAhead, Calm
      <3> QED BY <1>1, <3>1, SMT
    <2>2. ASSUME NEW t \in Threads, run'[t].at = "import" PROVE run'[t].list <= source'
      <3>1. /\ run'[t] = run[t] /\ run[t].list \in Nat /\ run[t].list <= source /\ source <= source'
        BY <1>1, <1>4, <2>2 DEF OrderInv, NotAhead, Calm
      <3> QED BY <1>1, <3>1, SMT
    <2> QED BY <2>1, <2>2 DEF NotAhead
  <1>6. ASSUME ImportInv, "edit" \notin used' PROVE SuccessHas' /\ \A t \in Threads : ImportHas(t)'
    <2>1. /\ UNCHANGED <<policy, success>> /\ SuccessHas
          /\ \A t \in Threads : ImportHas(t)
      BY <1>6 DEF Calm, ImportInv
    <2>2. SuccessHas'
      BY <2>1 DEF SuccessHas, Has
    <2>3. ASSUME NEW t \in Threads PROVE ImportHas(t)'
      BY <1>4, <2>1 DEF ImportHas, Has
    <2> QED BY <2>2, <2>3
  <1> QED BY <1>3, <1>5, <1>6 DEF OrderInv, ImportInv

LEMMA LeaveIsCalm ==
  ASSUME Inv, NEW t \in Threads, Leave(t), run[t] \in Run
  PROVE  \A u \in Threads : run'[u] = run[u] \/ ~Busy(u)'
  <1>1. CASE t \in Replicas
    <2>1. run' = [run EXCEPT ![t].at = "return"]
      BY <1>1 DEF Leave, Goto
    <2>2. run'[t].at = "return" /\ \A u \in Threads \ {t} : run'[u] = run[u]
      BY <2>1 DEF Inv, TypeOK, Run
    <2> QED BY <2>2 DEF Busy
  <1>2. CASE t \notin Replicas
    <2>1. run'[t].at = "idle" /\ \A u \in Threads \ {t} : run'[u] = run[u]
      BY <1>2 DEF Leave, Inv, TypeOK, Idle
    <2> QED BY <2>1 DEF Busy
  <1> QED BY <1>1, <1>2

LEMMA CalledIsCalm ==
  ASSUME Inv, NEW t \in Threads, NEW r, Called(t, r)
  PROVE  \A u \in Threads : run'[u] = run[u] \/ ~Busy(u)'
  <1>1. run'[t].at = "waiting" /\ \A u \in Threads \ {t} : run'[u] = run[u]
    BY DEF Called, Inv, TypeOK
  <1> QED BY <1>1 DEF Busy

\* Every step but the four of synchronize() itself is calm.
LEMMA OtherStepsAreCalm ==
  ASSUME Inv, [Next]_vars, \A t \in Threads : ~Work(t)
  PROVE  Calm
  <1>0. source \in Nat /\ source <= source
    BY ListsAreNumbers, SMT DEF Inv, TypeOK
  <1>1. ASSUME UNCHANGED syncVars PROVE Calm
    BY <1>0, <1>1 DEF Calm, syncVars
  <1>2. ASSUME NEW r \in Replicas, FireSchedule(r) PROVE Calm
    <2>1. \A u \in Threads : run'[u] = run[u] \/ ~Busy(u)'
      BY <1>2, CalledIsCalm, ReplicaThreads DEF FireSchedule
    <2> QED BY <1>0, <1>2, <2>1 DEF Calm, FireSchedule
  <1>3. ASSUME NEW r \in Replicas, ReturnFromSchedule(r) PROVE Calm
    <2>1. \A u \in Threads : run'[u] = run[u] \/ ~Busy(u)'
      <3>1. run'[r].at = "idle" /\ \A u \in Threads \ {r} : run'[u] = run[u]
        BY <1>3, ReplicaThreads DEF ReturnFromSchedule, Inv, TypeOK, Idle
      <3> QED BY <3>1 DEF Busy
    <2> QED BY <1>0, <1>3, <2>1 DEF Calm, ReturnFromSchedule
  <1>4. ASSUME NEW r \in Replicas, StopReplica(r) PROVE Calm
    <2>1. \A u \in Threads : run'[u] = run[u] \/ ~Busy(u)'
      <3>1. \A u \in Threads : run'[u] = run[u] \/ run'[u].at = "idle"
        BY <1>4 DEF StopReplica, Idle
      <3> QED BY <3>1 DEF Busy
    <2> QED BY <1>0, <1>4, <2>1 DEF Calm, StopReplica, Spend
  <1>5. ASSUME NEW q \in Requests, RequestSync(q) PROVE Calm
    <2>1. \A u \in Threads : run'[u] = run[u] \/ ~Busy(u)'
      BY <1>5, CalledIsCalm, ReplicaThreads DEF RequestSync
    <2> QED BY <1>0, <1>5, <2>1 DEF Calm, RequestSync
  <1>6. ASSUME NEW t \in Threads, RefuseUrl(t) \/ Fail(t) \/ LoseDatabase(t) PROVE Calm
    <2>1. run[t].at \in {"waiting", "fetch", "import"} /\ Leave(t)
      BY <1>6 DEF RefuseUrl, Fail, LoseDatabase
    <2>2. run[t] \in Run
      BY <2>1, BusyIsRun
    <2>3. \A u \in Threads : run'[u] = run[u] \/ ~Busy(u)'
      BY <2>1, <2>2, LeaveIsCalm
    <2> QED BY <1>0, <1>6, <2>3 DEF Calm, RefuseUrl, Fail, LoseDatabase, Spend
  <1>7. ASSUME NEW p \in Policies, EditPolicy(p) PROVE Calm
    BY <1>0, <1>7 DEF Calm, EditPolicy, Spend
  <1>8. CASE Publish
    <2>1. source <= source'
      BY <1>0, <1>8, SMT DEF Publish
    <2> QED BY <1>8, <2>1 DEF Calm, Publish
  <1>9. ASSUME NEW r \in Replicas, MissSchedule(r) \/ RestartReplica(r) PROVE Calm
    BY <1>1, <1>9 DEF MissSchedule, RestartReplica
  <1> QED
    BY <1>1, <1>2, <1>3, <1>4, <1>5, <1>6, <1>7, <1>8, <1>9 DEF Next, Schedule, Time, vars

\* synchronize() waits for the monitor of its replica.
LEMMA BeginKeeps ==
  ASSUME Inv, OrderInv, NEW t \in Threads, Begin(t)
  PROVE  OrderInv' /\ (ImportInv => ImportInv')
  <1>1. run[t] \in Run
    BY BusyIsRun DEF Begin
  <1>2. /\ run'[t].at = "fetch" /\ run'[t].on = run[t].on
        /\ \A u \in Threads \ {t} : run'[u] = run[u]
        /\ UNCHANGED <<source, policy, success, used>>
    BY <1>1 DEF Begin, Goto, Inv, TypeOK, Run
  <1>3. \A u \in Threads \ {t} : Busy(u)' => run'[u].on # run'[t].on
    BY <1>2 DEF Begin, MonitorFree, Busy
  <1>4. OneOnReplica'
    <2> SUFFICES ASSUME NEW u \in Threads, NEW v \in Threads, Busy(u)', Busy(v)', run'[u].on = run'[v].on
                 PROVE  u = v
      BY DEF OneOnReplica
    <2>1. CASE u # t /\ v # t
      BY <1>2, <2>1 DEF OrderInv, OneOnReplica, Busy
    <2>2. CASE u = t \/ v = t
      BY <1>3, <2>2
    <2> QED BY <2>1, <2>2
  <1>5. \A u \in Threads : run'[u].at = "import" => run'[u] = run[u]
    BY <1>2
  <1>6. NotAhead'
    BY <1>2, <1>5 DEF OrderInv, NotAhead
  <1>7. ImportInv => ImportInv'
    BY <1>2, <1>5 DEF ImportInv, SuccessHas, ImportHas, Has
  <1> QED BY <1>4, <1>6, <1>7 DEF OrderInv

\* While runs overlap on one replica only, a run inside synchronize() is the only one.
LEMMA OnlyRun ==
  ASSUME OneReplica, OrderInv, NEW t \in Threads, NEW u \in Threads, Busy(t), Busy(u)
  PROVE  t = u
  BY DEF OneReplica, OrderInv, OneOnReplica, Busy

\* The steps inside synchronize() keep a run on its replica.
LEMMA StaysAlone ==
  ASSUME OrderInv, NEW t \in Threads, Busy(t), run'[t].on = run[t].on,
         \A u \in Threads \ {t} : run'[u] = run[u]
  PROVE  OneOnReplica'
  <1> SUFFICES ASSUME NEW u \in Threads, NEW v \in Threads, Busy(u)', Busy(v)', run'[u].on = run'[v].on
               PROVE  u = v
    BY DEF OneOnReplica
  <1>1. \A w \in Threads : Busy(w)' => Busy(w) /\ run'[w].on = run[w].on
    BY DEF Busy
  <1> QED BY <1>1 DEF OrderInv, OneOnReplica

LEMMA FetchKeeps ==
  ASSUME Inv, OrderInv, NEW t \in Threads, Fetch(t)
  PROVE  OrderInv' /\ (OneReplica /\ ImportInv => ImportInv')
  <1>1. run[t] \in Run /\ Busy(t)
    BY BusyIsRun DEF Fetch, Busy
  <1>2. /\ run'[t].at = "import" /\ run'[t].on = run[t].on /\ run'[t].list = source
        /\ run'[t].todo = Listed[source]
        /\ \A u \in Threads \ {t} : run'[u] = run[u]
        /\ UNCHANGED <<source, policy, success, used>>
    BY <1>1 DEF Fetch, Inv, TypeOK, Run
  <1>3. OneOnReplica'
    BY <1>1, <1>2, StaysAlone
  <1>4. source \in Nat
    BY ListsAreNumbers DEF Inv, TypeOK
  <1>5. NotAhead'
    <2>1. source <= source
      BY <1>4, SMT
    <2> QED BY <1>2, <2>1 DEF OrderInv, NotAhead
  <1>6. ASSUME OneReplica, ImportInv, "edit" \notin used' PROVE SuccessHas' /\ \A u \in Threads : ImportHas(u)'
    <2>1. SuccessHas /\ \A u \in Threads : ImportHas(u)
      BY <1>2, <1>6 DEF ImportInv
    <2>2. SuccessHas'
      BY <1>2, <2>1 DEF SuccessHas, Has
    <2>3. ImportHas(t)'
      BY <1>2 DEF ImportHas, OrderInv, NotAhead
    <2>4. \A u \in Threads \ {t} : ImportHas(u)'
      BY <1>2, <2>1 DEF ImportHas, Has
    <2> QED BY <2>2, <2>3, <2>4
  <1> QED BY <1>3, <1>5, <1>6 DEF OrderInv, ImportInv

LEMMA ImportKeeps ==
  ASSUME Inv, OrderInv, NEW t \in Threads, ImportRow(t)
  PROVE  OrderInv' /\ (OneReplica /\ ImportInv => ImportInv')
  <1>1. run[t] \in Run /\ Busy(t) /\ run[t].at = "import"
    BY BusyIsRun DEF ImportRow, Busy
  <1>2. PICK p \in run[t].todo :
          /\ policy' = [policy EXCEPT ![p] = Imported(p, run[t].list)]
          /\ run' = [run EXCEPT ![t].todo = @ \ {p}]
    BY DEF ImportRow
  <1>3. /\ run'[t].at = "import" /\ run'[t].on = run[t].on /\ run'[t].list = run[t].list
        /\ run'[t].todo = run[t].todo \ {p}
        /\ \A u \in Threads \ {t} : run'[u] = run[u]
        /\ UNCHANGED <<source, success, used>>
    BY <1>1, <1>2 DEF ImportRow, Inv, TypeOK, Run
  <1>4. OneOnReplica'
    BY <1>1, <1>3, StaysAlone
  <1>5. NotAhead'
    BY <1>1, <1>3 DEF OrderInv, NotAhead
  <1>6. /\ policy'[p] = Imported(p, run[t].list) /\ \A q \in Policies \ {p} : policy'[q] = policy[q]
        /\ p \in Policies
    BY <1>1, <1>2 DEF Inv, TypeOK, Run
  <1>7. PICK list \in Nat : list = run[t].list /\ list \in Lists
    BY <1>1, ListsAreNumbers DEF Inv, RunInv, ImportHasList
  <1>8. policy'[p].list = list /\ policy'[p].enabled /\ policy'[p] # Absent
    <2>1. policy'[p] = [list |-> list, enabled |-> TRUE]
      BY <1>6, <1>7 DEF Imported
    <2>2. policy'[p] \in Row
      BY <1>7, <2>1 DEF Row
    <2>3. policy'[p].list = list /\ policy'[p].enabled
      BY <2>1
    <2>4. policy'[p] # Absent
      BY <2>2, AbsentAssumption
    <2> QED BY <2>3, <2>4
  <1>9. ASSUME OneReplica, ImportInv, "edit" \notin used' PROVE SuccessHas' /\ \A u \in Threads : ImportHas(u)'
    <2>1. SuccessHas /\ ImportHas(t)
      BY <1>3, <1>9 DEF ImportInv
    <2>2. \A l \in success : l \in Nat /\ l \in Lists /\ l <= list
      BY <1>1, <1>7, <2>1, ListsAreNumbers DEF ImportHas, Inv, TypeOK
    <2>3. \A l \in Nat : l <= list => Has(p, l)'
      BY <1>8, SMT DEF Has
    <2>4. SuccessHas'
      <3> SUFFICES ASSUME NEW l \in success, NEW q \in Listed[l] PROVE Has(q, l)'
        BY <1>3 DEF SuccessHas
      <3>1. q \in Policies
        BY <2>2, ListAssumption
      <3>2. CASE q = p
        BY <2>2, <2>3, <3>2
      <3>3. CASE q # p
        BY <1>6, <2>1, <3>1, <3>3 DEF SuccessHas, Has
      <3> QED BY <3>2, <3>3
    <2>5. ImportHas(t)'
      <3>1. ASSUME NEW q \in Listed[list] \ (run[t].todo \ {p}) PROVE Has(q, list)'
        <4>1. q \in Policies
          BY <1>7, ListAssumption
        <4>2. CASE q = p
          BY <1>7, <2>3, <4>2
        <4>3. CASE q # p
          BY <1>1, <1>6, <1>7, <2>1, <3>1, <4>1, <4>3 DEF ImportHas, Has
        <4> QED BY <4>2, <4>3
      <3> QED BY <1>3, <1>7, <2>2, <3>1 DEF ImportHas
    <2>6. \A u \in Threads \ {t} : ImportHas(u)'
      <3>1. \A u \in Threads \ {t} : ~Busy(u)
        BY <1>1, <1>9, OnlyRun
      <3> QED BY <1>3, <3>1 DEF ImportHas, Busy
    <2> QED BY <2>4, <2>5, <2>6
  <1> QED BY <1>4, <1>5, <1>9 DEF OrderInv, ImportInv

LEMMA FinishKeeps ==
  ASSUME Inv, OrderInv, NEW t \in Threads, Finish(t)
  PROVE  OrderInv' /\ (OneReplica /\ ImportInv => ImportInv')
  <1>1. run[t] \in Run /\ Busy(t) /\ run[t].at = "import" /\ run[t].todo = {}
    BY BusyIsRun DEF Finish, Busy, AllImported
  <1>2. \A u \in Threads : run'[u] = run[u] \/ ~Busy(u)'
    BY <1>1, LeaveIsCalm DEF Finish
  <1>3. success' = success \cup {run[t].list} /\ UNCHANGED <<source, policy, used>>
    BY DEF Finish
  <1>4. OneOnReplica'
    BY <1>2 DEF OrderInv, OneOnReplica, Busy
  <1>5. NotAhead'
    BY <1>1, <1>2, <1>3 DEF OrderInv, NotAhead, Busy
  <1>6. ASSUME OneReplica, ImportInv, "edit" \notin used' PROVE SuccessHas' /\ \A u \in Threads : ImportHas(u)'
    <2>1. SuccessHas /\ ImportHas(t)
      BY <1>3, <1>6 DEF ImportInv
    <2>2. SuccessHas'
      BY <1>1, <1>3, <2>1 DEF SuccessHas, ImportHas, Has
    <2>3. \A u \in Threads : ~Busy(u)'
      <3>1. ~Busy(t)'
        <4>1. run'[t].at # "fetch" /\ run'[t].at # "import"
          BY <1>1 DEF Finish, Leave, Goto, Idle, Inv, TypeOK, Run
        <4> QED BY <4>1 DEF Busy
      <3> QED BY <1>1, <1>2, <1>6, <3>1, OnlyRun DEF Busy
    <2>4. \A u \in Threads : ImportHas(u)'
      BY <2>3 DEF ImportHas, Busy
    <2> QED BY <2>2, <2>4
  <1> QED BY <1>4, <1>5, <1>6 DEF OrderInv, ImportInv

LEMMA ImportStep ==
  Inv /\ Inv' /\ OrderInv /\ [Next]_vars => OrderInv' /\ (OneReplica /\ ImportInv => ImportInv')
  <1> SUFFICES ASSUME Inv, Inv', OrderInv, [Next]_vars
               PROVE  OrderInv' /\ (OneReplica /\ ImportInv => ImportInv')
    OBVIOUS
  <1>1. ASSUME NEW t \in Threads, Work(t) PROVE OrderInv' /\ (OneReplica /\ ImportInv => ImportInv')
    BY <1>1, BeginKeeps, FetchKeeps, ImportKeeps, FinishKeeps DEF Work
  <1>2. CASE \A t \in Threads : ~Work(t)
    BY <1>2, OtherStepsAreCalm, CalmKeeps
  <1> QED BY <1>1, <1>2

\* On each replica at most one run is inside synchronize(), and no run is ahead of the source.
THEOREM RunsAreSerialised == Spec => []OneOnReplica
  <1>1. OrderInv => OneOnReplica
    BY DEF OrderInv
  <1> QED BY <1>1, InvHolds, InitImport, ImportStep, PTL DEF Spec

\* For any number of replicas, requests, lists and policies: as long as runs overlap on one replica
\* only and no administrator edits a policy, a run logged as SUCCESS has imported its whole list,
\* and no later run puts a policy of it back to an older list or leaves it disabled.
THEOREM SuccessMeansImported == Spec => SuccessIsImported
  <1> DEFINE AllImportedLists ==
        "edit" \notin used => \A list \in success : \A p \in Listed[list] :
            policy[p] # Absent /\ policy[p].list >= list /\ policy[p].enabled
  <1>1. ImportInv => AllImportedLists
    BY DEF ImportInv, SuccessHas, Has
  <1> QED BY <1>1, InvHolds, InitImport, ImportStep, PTL DEF Spec, SuccessIsImported
=============================================================================
