-------------------------- MODULE VersionHistory --------------------------
(***************************************************************************)
(* The version a device reports and the update history kept of it.         *)
(*                                                                         *)
(* POST /register and POST /heartbeat (AgentController) compare the        *)
(* reported version with the agent row, write a row of                     *)
(* agent_update_history when it differs, and then store it in the agent    *)
(* row.  Every statement commits on its own, the two backend replicas      *)
(* share no lock, and a request outlives the client that gave up on it or  *)
(* was replaced by an update.  A step is one SQL statement; versions are   *)
(* numbered in the order a device installs them.                           *)
(***************************************************************************)
EXTENDS Naturals, Sequences

CONSTANTS
    Devices,
    Requests,       \* requests that may be in progress together
    LastVersion,    \* bound on the versions a device installs
    NoVersion,      \* no agent row; the from_version of a registration
    AbortBudget     \* requests cut short by the end of their replica

ASSUME LastVersionAssumption == LastVersion \in Nat \ {0}
ASSUME NoVersionAssumption == NoVersion \notin Nat
ASSUME AbortAssumption == AbortBudget \in Nat

Versions == 1 .. LastVersion

VARIABLES
    running,   \* version of the service on a device
    enrolled,  \* devices a registration has been answered to: they hold a device token
    agent,     \* version column of the agent row, NoVersion if there is no row
    history,   \* agent_update_history, oldest first
    request,   \* the requests in progress
    aborted,   \* requests cut short so far
    cutShort   \* history: versions whose first registration was cut short before its entry

vars == <<running, enrolled, agent, history, request, aborted, cutShort>>

Idle == [at |-> "idle"]
Busy == [at : {"find", "insert", "registered", "compare", "update", "check", "renew"},
         device : Devices, version : Versions, found : Versions \cup {NoVersion}]
Entry == [from : Versions \cup {NoVersion}, to : Versions]

Init ==
    /\ running = [d \in Devices |-> 1]
    /\ enrolled = {}
    /\ agent = [d \in Devices |-> NoVersion]
    /\ history = [d \in Devices |-> <<>>]
    /\ request = [r \in Requests |-> Idle]
    /\ aborted = 0
    /\ cutShort = [d \in Devices |-> {}]

-----------------------------------------------------------------------------
Advance(r, p) == request' = [request EXCEPT ![r].at = p]
Answer(r) == request' = [request EXCEPT ![r] = Idle]
Enroll(r) == Answer(r) /\ enrolled' = enrolled \cup {request[r].device}

\* Mutant: the two version columns are swapped.
RecordSwapped(d, from, to) == history' = [history EXCEPT ![d] = Append(@, [from |-> to, to |-> from])]

Record(d, from, to) == history' = [history EXCEPT ![d] = Append(@, [from |-> from, to |-> to])]

Send(r, d, p) ==
    /\ request[r] = Idle
    /\ request' = [request EXCEPT ![r] = [at |-> p, device |-> d, version |-> running[d], found |-> NoVersion]]
    /\ UNCHANGED <<running, enrolled, agent, history, aborted, cutShort>>

\* The self-update of the device: the process that sent the earlier requests is gone.
Upgrade(d) ==
    /\ running[d] < LastVersion
    /\ running' = [running EXCEPT ![d] = @ + 1]
    /\ UNCHANGED <<enrolled, agent, history, request, aborted, cutShort>>

\* register
SendRegister(r, d) == Send(r, d, "find")

LookUpAgent(r) ==
    /\ request[r].at = "find"
    /\ LET found == agent[request[r].device]
       IN  request' = [request EXCEPT ![r].found = found,
                                      ![r].at = IF found = NoVersion THEN "insert" ELSE "compare"]
    /\ UNCHANGED <<running, enrolled, agent, history, aborted, cutShort>>

\* agent_key is unique: of two first registrations the later INSERT fails.
InsertAgent(r) ==
    /\ request[r].at = "insert"
    /\ LET d == request[r].device
       IN  IF agent[d] = NoVersion
           THEN agent' = [agent EXCEPT ![d] = request[r].version] /\ Advance(r, "registered")
           ELSE Answer(r) /\ UNCHANGED agent
    /\ UNCHANGED <<running, enrolled, history, aborted, cutShort>>

RecordRegistration(r) ==
    /\ request[r].at = "registered"
    /\ Record(request[r].device, NoVersion, request[r].version)
    /\ Enroll(r)
    /\ UNCHANGED <<running, agent, aborted, cutShort>>

\* Mutant: the test is inverted.
RecordSame(d, from, to) ==
    IF from = to THEN Record(d, from, to) ELSE UNCHANGED history

RecordChange(d, from, to) ==
    IF from # to THEN Record(d, from, to) ELSE UNCHANGED history

\* The version found by the look-up, not the present one, is what the report is compared with.
CompareVersion(r) ==
    /\ request[r].at = "compare"
    /\ RecordChange(request[r].device, request[r].found, request[r].version)
    /\ Advance(r, "update")
    /\ UNCHANGED <<running, enrolled, agent, aborted, cutShort>>

\* heartbeat, of a device that holds a token
SendHeartbeat(r, d) == d \in enrolled /\ Send(r, d, "check")

\* INSERT ... SELECT version FROM agent WHERE version <> ? reads the row as it is now.
PresentVersion(r) == agent[request[r].device]

\* Mutant: a heartbeat only shows that the device is alive.
OnlySeen(r) ==
    /\ request[r].at = "check"
    /\ Answer(r)
    /\ UNCHANGED <<running, enrolled, agent, history, aborted, cutShort>>

CheckVersion(r) ==
    /\ request[r].at = "check"
    /\ RecordChange(request[r].device, PresentVersion(r), request[r].version)
    /\ Advance(r, "renew")
    /\ UNCHANGED <<running, enrolled, agent, aborted, cutShort>>

ReportedVersion(r) == request[r].version

UpdateAgent(r) ==
    /\ \/ request[r].at = "update" /\ Enroll(r)
       \/ request[r].at = "renew" /\ Answer(r) /\ UNCHANGED enrolled
    /\ agent' = [agent EXCEPT ![request[r].device] = ReportedVersion(r)]
    /\ UNCHANGED <<running, history, aborted, cutShort>>

\* The replica ends, or a statement fails.
Abort(r) ==
    /\ request[r] # Idle
    /\ aborted < AbortBudget
    /\ aborted' = aborted + 1
    /\ cutShort' = IF request[r].at = "registered"
                   THEN [cutShort EXCEPT ![request[r].device] = @ \cup {request[r].version}]
                   ELSE cutShort
    /\ Answer(r)
    /\ UNCHANGED <<running, enrolled, agent, history>>

-----------------------------------------------------------------------------
Serve(r) ==
    \/ LookUpAgent(r) \/ InsertAgent(r) \/ RecordRegistration(r) \/ CompareVersion(r)
    \/ CheckVersion(r) \/ UpdateAgent(r)

\* What the service of a device keeps sending: registrations until one is answered, then heartbeats.
Report(r, d) == (d \notin enrolled /\ SendRegister(r, d)) \/ SendHeartbeat(r, d)

Next ==
    \/ \E d \in Devices : Upgrade(d)
    \/ \E r \in Requests : Serve(r) \/ Abort(r)
    \/ \E r \in Requests, d \in Devices : SendRegister(r, d) \/ SendHeartbeat(r, d)

Spec == Init /\ [][Next]_vars

\* Requests are answered, and the service never stops reporting.
Fairness ==
    /\ \A r \in Requests : WF_vars(Serve(r))
    /\ \A d \in Devices : SF_vars(\E r \in Requests : Report(r, d))

FairSpec == Spec /\ Fairness

-----------------------------------------------------------------------------
\* Every variable stays in its type.
TypeOK ==
    /\ running \in [Devices -> Versions] /\ enrolled \subseteq Devices
    /\ agent \in [Devices -> Versions \cup {NoVersion}]
    /\ history \in [Devices -> Seq(Entry)]
    /\ request \in [Requests -> {Idle} \cup Busy]
    /\ aborted \in Nat
    /\ cutShort \in [Devices -> SUBSET Versions]

Recorded(d) == {history[d][i].to : i \in 1 .. Len(history[d])}

\* The version shown for a device (AssetController.assets, agent_version) has an entry in the
\* update history, whatever registrations and heartbeats overlap or are cut short.  The first
\* registration is the exception: it inserts the row first, and the version it inserted has no
\* entry while it is about to write it, nor ever if it was cut short in between.
ShownIsRecorded ==
    \A d \in Devices :
        \/ agent[d] \in Recorded(d) \cup cutShort[d] \cup {NoVersion}
        \/ \E r \in Requests : /\ request[r].at = "registered"
                               /\ request[r].device = d /\ request[r].version = agent[d]

\* Two requests of one device are at work together.  The code does not prevent this.
NoOverlap ==
    \A q, r \in Requests :
        request[q] # Idle /\ request[r] # Idle /\ request[q].device = request[r].device => q = r

Chain(h) == \A i \in 2 .. Len(h) : h[i].from = h[i - 1].to

\* Without overlap and interruption the history of a device reads as a chain of changes that
\* ends in the version shown.
SerialHistoryIsChain ==
    []NoOverlap =>
        [](aborted = 0 => \A d \in Devices :
              /\ Chain(history[d])
              /\ (\A r \in Requests : request[r] = Idle) /\ agent[d] # NoVersion =>
                    /\ history[d] # <<>>
                    /\ history[d][Len(history[d])].to = agent[d])

\* A device ends up shown with the version it runs, also when requests of the version before
\* its update are processed late.
VersionSettles == \A d \in Devices : <>[](agent[d] = running[d])
=============================================================================
