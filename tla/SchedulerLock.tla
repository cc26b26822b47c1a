--------------------------- MODULE SchedulerLock ---------------------------
(***************************************************************************)
(* The lock that keeps a scheduled job from running on every replica.      *)
(*                                                                         *)
(* @Scheduled fires once a day on each replica, at the same time of day by *)
(* the replica's own clock and when its scheduler thread is free.          *)
(* @SchedulerLock (ShedLock over the shedlock table, database time) lets   *)
(* the method run only if the lock row has expired, takes it for           *)
(* lockAtMostFor, and gives it back when the method returns, not before    *)
(* lockAtLeastFor.  Time passes in ticks of the database clock; the moments *)
(* at which the replicas fire lie within Skew ticks of each other.         *)
(***************************************************************************)
EXTENDS Naturals

CONSTANTS
    Replicas,
    Nobody,        \* locked_by before the first run
    Day,           \* ticks from one firing to the next
    Skew,          \* how far the clocks of two replicas may differ
    LockAtLeast,   \* lockAtLeastFor
    LockAtMost     \* lockAtMostFor

ASSUME ReplicaAssumption == Nobody \notin Replicas
ASSUME TimeAssumption ==
    /\ Day \in Nat /\ Skew \in Nat /\ LockAtLeast \in Nat /\ LockAtMost \in Nat
    /\ Skew < Day
    /\ Skew < LockAtLeast
    /\ LockAtLeast <= LockAtMost

VARIABLES
    clock,     \* ticks since the earliest moment of today's firing
    due,       \* replicas that have not fired today
    up,        \* replicas that are running
    working,   \* replicas whose scheduler thread is inside the scheduled method
    lock,      \* the row of the shedlock table
    started    \* scheduled runs started today

lockVars == <<clock, due, up, working, lock, started>>

\* until and least count the ticks to lock_until and to locked_at + lockAtLeastFor.
Lock == [by : Replicas \cup {Nobody}, until : 0 .. LockAtMost, least : 0 .. LockAtLeast]

LockInit ==
    /\ clock = 0
    /\ due = Replicas
    /\ up = Replicas
    /\ working = {}
    /\ lock = [by |-> Nobody, until |-> 0, least |-> 0]
    /\ started = 0

-----------------------------------------------------------------------------
Expired == lock.until = 0

\* Mutant: lockAtLeastFor is left out.
TakenBriefly(r) == [by |-> r, until |-> LockAtMost, least |-> 0]

Taken(r) == [by |-> r, until |-> LockAtMost, least |-> LockAtLeast]

\* The firing of replica r: it runs the job if it gets the lock, else does nothing.
Fire(r) ==
    /\ r \in (due \cap up) \ working
    /\ due' = due \ {r}
    /\ IF Expired
       THEN /\ lock' = Taken(r)
            /\ working' = working \cup {r}
            /\ started' = started + 1
       ELSE UNCHANGED <<lock, working, started>>
    /\ UNCHANGED <<clock, up>>

\* A replica that is down, or whose scheduler thread is still busy, misses its moment.
Miss(r) ==
    /\ r \in due
    /\ r \notin up \/ r \in working
    /\ due' = due \ {r}
    /\ UNCHANGED <<clock, up, working, lock, started>>

\* UPDATE ... WHERE locked_by = this replica: another holder's lock is left alone.
GivenBack(r) == IF lock.by = r THEN [lock EXCEPT !.until = lock.least] ELSE lock

Return(r) ==
    /\ r \in working
    /\ working' = working \ {r}
    /\ lock' = GivenBack(r)
    /\ UNCHANGED <<clock, due, up, started>>

Stop(r) ==
    /\ r \in up
    /\ up' = up \ {r}
    /\ working' = working \ {r}
    /\ UNCHANGED <<clock, due, lock, started>>

Restart(r) ==
    /\ r \notin up
    /\ up' = up \cup {r}
    /\ UNCHANGED <<clock, due, working, lock, started>>

Less(n) == IF n = 0 THEN 0 ELSE n - 1

\* No moment of firing is later than Skew.
Tick ==
    /\ clock = Skew => due = {}
    /\ lock' = [lock EXCEPT !.until = Less(@), !.least = Less(@)]
    /\ IF clock + 1 = Day
       THEN clock' = 0 /\ due' = Replicas /\ started' = 0
       ELSE clock' = clock + 1 /\ UNCHANGED <<due, started>>
    /\ UNCHANGED <<up, working>>

LockNext ==
    \/ Tick
    \/ \E r \in Replicas : Fire(r) \/ Miss(r) \/ Return(r) \/ Stop(r) \/ Restart(r)

LockSpec == LockInit /\ [][LockNext]_lockVars

-----------------------------------------------------------------------------
\* Every variable stays in its type.
LockTypeOK ==
    /\ clock \in 0 .. Day - 1
    /\ due \subseteq Replicas /\ up \subseteq Replicas /\ working \subseteq Replicas
    /\ lock \in Lock
    /\ started \in Nat

\* From the first start of a day until every replica has fired the lock does not expire,
\* whatever the length of the run, a replica that stops, or a run of the day before.
LockCovers == started > 0 /\ due # {} => ~Expired

\* "Only one of the two replicas runs the schedule" (SchedulerLockConfig.java:9): the job starts
\* at most once a day.
Daily == INSTANCE DailyJob
OncePerDay == Daily!Spec
=============================================================================
