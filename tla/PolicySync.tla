----------------------------- MODULE PolicySync -----------------------------
(***************************************************************************)
(* The import of software policies from an external list                   *)
(* (SoftwarePolicySyncService.synchronize), started every night under the  *)
(* scheduler lock and, without it, by an administrator.                    *)
(*                                                                         *)
(* The method is synchronized, which excludes the other threads of its     *)
(* replica only.  Every statement commits on its own: the log row, each    *)
(* imported policy, the end of the log row.  A list is known by its number *)
(* and imports that number into every policy it names; 0 is what an        *)
(* administrator entered.  Policies without an external key, which the     *)
(* import never touches, are left out.                                     *)
(***************************************************************************)
EXTENDS SchedulerLock, FiniteSets

CONSTANTS
    Requests,     \* POST /sync requests that may be in progress together
    Policies,     \* external keys
    LastList,     \* bound on the lists the source publishes
    Listed,       \* the policies of each list; rows without a name are not among them
    Absent,       \* no row
    Faults,       \* the kinds of disturbance that may happen
    MostFaults    \* bound on the kinds of disturbance in one behaviour, each happening once

FaultKinds == {"url", "fail", "database", "stop", "edit"}
Lists == 1 .. LastList
Threads == Replicas \cup Requests

ASSUME RequestAssumption == Replicas \cap Requests = {}
ASSUME ListAssumption == LastList \in Nat \ {0} /\ Listed \in [Lists -> SUBSET Policies]
ASSUME FaultAssumption == Faults \subseteq FaultKinds /\ MostFaults \in Nat

VARIABLES
    source,  \* the list the source serves now
    policy,  \* the rows of software_policy that have an external key
    run,     \* what each thread is doing: the scheduler threads and the requests
    open,    \* threads whose newest row in software_policy_sync_log says RUNNING
    success, \* lists of the rows that say SUCCESS
    used     \* the disturbances so far

syncVars == <<source, policy, run, open, success, used>>
vars == <<lockVars, syncVars>>

Idle == [at |-> "idle"]
Run == [at : {"waiting", "fetch", "import", "return"}, on : Replicas, list : {0} \cup Lists, todo : SUBSET Policies]
Row == [list : {0} \cup Lists, enabled : BOOLEAN]

ASSUME AbsentAssumption == Absent \notin Row

Init ==
    /\ LockInit
    /\ source = 1
    /\ policy = [p \in Policies |-> Absent]
    /\ run = [t \in Threads |-> Idle]
    /\ open = {}
    /\ success = {}
    /\ used = {}

-----------------------------------------------------------------------------
Spend(k) == k \in Faults \ used /\ Cardinality(used) < MostFaults /\ used' = used \cup {k}
Called(t, r) == run' = [run EXCEPT ![t] = [at |-> "waiting", on |-> r, list |-> 0, todo |-> {}]]

\* scheduled(): the nightly firing.
FireSchedule(r) ==
    /\ Fire(r)
    /\ IF Expired THEN Called(r, r) ELSE UNCHANGED run
    /\ UNCHANGED <<source, policy, open, success, used>>

MissSchedule(r) == Miss(r) /\ UNCHANGED syncVars

\* POST /sync on some replica.
RequestSync(q) ==
    /\ run[q] = Idle
    /\ \E r \in up : Called(q, r)
    /\ UNCHANGED <<lockVars, source, policy, open, success, used>>

\* Mutant: the method is not synchronized.
NoMonitor(r) == TRUE

\* The monitor of the service object of replica r.
MonitorFree(r) == \A t \in Threads : run[t].at \in {"fetch", "import"} => run[t].on # r

Goto(t, p) == run' = [run EXCEPT ![t].at = p]

\* synchronize() returns or throws: a request is answered, scheduled() goes on to release the lock.
Leave(t) == IF t \in Replicas THEN Goto(t, "return") ELSE run' = [run EXCEPT ![t] = Idle]

Begin(t) ==
    /\ run[t].at = "waiting"
    /\ MonitorFree(run[t].on)
    /\ open' = open \cup {t}
    /\ Goto(t, "fetch")
    /\ UNCHANGED <<lockVars, source, policy, success, used>>

\* The address is refused, or its host does not resolve, before anything is logged.
RefuseUrl(t) ==
    /\ run[t].at = "waiting"
    /\ MonitorFree(run[t].on)
    /\ Spend("url")
    /\ Leave(t)
    /\ UNCHANGED <<lockVars, source, policy, open, success>>

Fetch(t) ==
    /\ run[t].at = "fetch"
    /\ run' = [run EXCEPT ![t].at = "import", ![t].list = source, ![t].todo = Listed[source]]
    /\ UNCHANGED <<lockVars, source, policy, open, success, used>>

\* Mutant: the conflict leaves the enabled column alone.
KeptSwitch(p, list) ==
    [list |-> list, enabled |-> policy[p] = Absent \/ policy[p].enabled]

\* ON CONFLICT DO UPDATE overwrites every column and enables the row.
Imported(p, list) == [list |-> list, enabled |-> TRUE]

ImportRow(t) ==
    /\ run[t].at = "import"
    /\ \E p \in run[t].todo :
         /\ policy' = [policy EXCEPT ![p] = Imported(p, run[t].list)]
         /\ run' = [run EXCEPT ![t].todo = @ \ {p}]
    /\ UNCHANGED <<lockVars, source, open, success, used>>

AllImported(t) == run[t].todo = {}

Finish(t) ==
    /\ run[t].at = "import"
    /\ AllImported(t)
    /\ open' = open \ {t}
    /\ success' = success \cup {run[t].list}
    /\ Leave(t)
    /\ UNCHANGED <<lockVars, source, policy, used>>

\* Mutant: the exception is passed on without a word in the log.
LogNothing(t) == UNCHANGED open

LogFailure(t) == open' = open \ {t}

\* No answer in time, one that cannot be read, or a row that is refused: what has been imported stays.
Fail(t) ==
    /\ run[t].at \in {"fetch", "import"}
    /\ Spend("fail")
    /\ LogFailure(t)
    /\ Leave(t)
    /\ UNCHANGED <<lockVars, source, policy, success>>

\* The database is gone, and with it the statement that would record the failure.
LoseDatabase(t) ==
    /\ run[t].at \in {"fetch", "import"}
    /\ Spend("database")
    /\ Leave(t)
    /\ UNCHANGED <<lockVars, source, policy, open, success>>

\* scheduled() has ended: ShedLock gives the lock back.
ReturnFromSchedule(r) ==
    /\ run[r].at = "return"
    /\ Return(r)
    /\ run' = [run EXCEPT ![r] = Idle]
    /\ UNCHANGED <<source, policy, open, success, used>>

-----------------------------------------------------------------------------
StopReplica(r) ==
    /\ Spend("stop")
    /\ Stop(r)
    /\ run' = [t \in Threads |-> IF run[t] # Idle /\ run[t].on = r THEN Idle ELSE run[t]]
    /\ UNCHANGED <<source, policy, open, success>>

RestartReplica(r) == Restart(r) /\ UNCHANGED syncVars

Publish ==
    /\ source < LastList
    /\ source' = source + 1
    /\ UNCHANGED <<lockVars, policy, run, open, success, used>>

\* An administrator edits, disables or deletes an imported policy.  The row is found by source and
\* key, so an edit that renames the source leaves the import without a row, as a deletion does.
EditPolicy(p) ==
    /\ policy[p] # Absent
    /\ Spend("edit")
    /\ \/ \E e \in BOOLEAN : policy' = [policy EXCEPT ![p] = [list |-> 0, enabled |-> e]]
       \/ policy' = [policy EXCEPT ![p] = Absent]
    /\ UNCHANGED <<lockVars, source, run, open, success>>

Time == Tick /\ UNCHANGED syncVars

Schedule(r) == FireSchedule(r) \/ MissSchedule(r)
Work(t) == Begin(t) \/ Fetch(t) \/ ImportRow(t) \/ Finish(t)

Next ==
    \/ Time \/ Publish
    \/ \E r \in Replicas : Schedule(r) \/ ReturnFromSchedule(r) \/ StopReplica(r) \/ RestartReplica(r)
    \/ \E q \in Requests : RequestSync(q)
    \/ \E t \in Threads : Work(t) \/ RefuseUrl(t) \/ Fail(t) \/ LoseDatabase(t)
    \/ \E p \in Policies : EditPolicy(p)

Spec == Init /\ [][Next]_vars

\* Time passes, a schedule fires or is missed, threads run on (the connection and the answer of
\* the source are limited to 5 and 15 seconds), and a replica that stops is started again.
Fairness ==
    /\ WF_vars(Time)
    /\ \A r \in Replicas : WF_vars(Schedule(r)) /\ WF_vars(ReturnFromSchedule(r)) /\ WF_vars(RestartReplica(r))
    /\ \A t \in Threads : WF_vars(Work(t))

FairSpec == Spec /\ Fairness

-----------------------------------------------------------------------------
\* Every variable stays in its type.
TypeOK ==
    /\ LockTypeOK
    /\ source \in Lists
    /\ policy \in [Policies -> {Absent} \cup Row]
    /\ run \in [Threads -> {Idle} \cup Run]
    /\ open \subseteq Threads
    /\ success \subseteq Lists
    /\ used \subseteq FaultKinds

\* A log row stays RUNNING only while its run is in progress, unless the replica or the database
\* failed under it.
RunningHasRun ==
    \A t \in open : run[t].at \in {"fetch", "import"} \/ used \cap {"stop", "database"} # {}

\* Runs on two replicas overlap.  Neither the lock, which a request does not take, nor the
\* monitor prevents this.
OneReplica ==
    \A t, u \in Threads : run[t].at \in {"fetch", "import"} /\ run[u].at \in {"fetch", "import"} =>
        run[t].on = run[u].on

\* As long as runs overlap on one replica only, a run that is logged as SUCCESS has imported its
\* whole list, and no policy of it is put back to an older list afterwards.
SuccessIsImported ==
    []OneReplica =>
        []("edit" \notin used => \A list \in success : \A p \in Listed[list] :
              policy[p] # Absent /\ policy[p].list >= list /\ policy[p].enabled)

\* Every policy of the present list ends up imported from it and enabled, whatever fails, stops or
\* was edited before.
PoliciesArrive ==
    \A p \in Policies :
        <>[](p \in Listed[source] => policy[p] = [list |-> source, enabled |-> TRUE])
=============================================================================
