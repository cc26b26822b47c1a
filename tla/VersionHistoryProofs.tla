------------------------ MODULE VersionHistoryProofs ------------------------
(***************************************************************************)
(* Proofs about VersionHistory: type correctness, and that the version     *)
(* shown for a device is in its update history, for every number of        *)
(* devices, of requests in progress and of versions.                       *)
(***************************************************************************)
EXTENDS VersionHistory, TLAPS

THEOREM InitType == Init => TypeOK
BY LastVersionAssumption DEF Init, TypeOK, Versions, Entry

LEMMA RecordType ==
    ASSUME TypeOK, NEW d \in Devices, NEW from \in Versions \cup {NoVersion}, NEW to \in Versions,
           Record(d, from, to)
    PROVE  history' \in [Devices -> Seq(Entry)]
<1>1. PICK x \in Entry : history' = [history EXCEPT ![d] = Append(@, x)]
  BY DEF Record, Entry
<1>2. \A s \in Seq(Entry) : Append(s, x) \in Seq(Entry)
  BY <1>1
<1> QED
  BY <1>1, <1>2 DEF TypeOK

LEMMA BusyFields ==
    ASSUME TypeOK, NEW r \in Requests, request[r] # Idle
    PROVE  /\ request[r] \in Busy
           /\ request[r].device \in Devices /\ request[r].version \in Versions
           /\ request[r].found \in Versions \cup {NoVersion}
BY DEF TypeOK, Busy

LEMMA StepType == TypeOK /\ [Next]_vars => TypeOK'
<1> SUFFICES ASSUME TypeOK, [Next]_vars PROVE TypeOK'
    OBVIOUS
<1> USE LastVersionAssumption, AbortAssumption
<1>1. ASSUME NEW d \in Devices, Upgrade(d) PROVE TypeOK'
  BY <1>1 DEF Upgrade, TypeOK, Versions
<1>2. ASSUME NEW r \in Requests, NEW d \in Devices, SendRegister(r, d) \/ SendHeartbeat(r, d)
      PROVE TypeOK'
  <2>1. PICK p \in {"find", "check"} : Send(r, d, p)
    BY <1>2 DEF SendRegister, SendHeartbeat
  <2>2. [at |-> p, device |-> d, version |-> running[d], found |-> NoVersion] \in Busy
    BY DEF TypeOK, Busy
  <2> QED
    BY <2>1, <2>2 DEF Send, TypeOK
<1>3. ASSUME NEW r \in Requests, LookUpAgent(r) PROVE TypeOK'
  <2>0. request[r].at = "find"
    BY <1>3 DEF LookUpAgent
  <2>1. request[r] # Idle
    BY <2>0 DEF Idle
  <2>2. request[r] \in Busy /\ request[r].device \in Devices
    BY <2>1, BusyFields
  <2>3. agent[request[r].device] \in Versions \cup {NoVersion}
    BY <2>2 DEF TypeOK
  <2> QED
    BY <1>3, <2>2, <2>3 DEF LookUpAgent, TypeOK, Busy
<1>4. ASSUME NEW r \in Requests, InsertAgent(r) PROVE TypeOK'
  <2>1. request[r] # Idle
    BY <1>4 DEF InsertAgent, Idle
  <2>2. request[r] \in Busy /\ request[r].device \in Devices /\ request[r].version \in Versions
    BY <2>1, BusyFields
  <2> QED
    <3>1. /\ request' = [request EXCEPT ![r].at = "registered"] \/ request' = [request EXCEPT ![r] = Idle]
          /\ agent' = [agent EXCEPT ![request[r].device] = request[r].version] \/ agent' = agent
          /\ UNCHANGED <<running, enrolled, history, aborted, cutShort>>
      BY <1>4 DEF InsertAgent, Advance, Answer
    <3>2. request' \in [Requests -> {Idle} \cup Busy]
      <4>1. [request[r] EXCEPT !.at = "registered"] \in Busy
        BY <2>2 DEF Busy
      <4>2. CASE request' = [request EXCEPT ![r].at = "registered"]
        BY <4>1, <4>2 DEF TypeOK
      <4>3. CASE request' = [request EXCEPT ![r] = Idle]
        BY <4>3 DEF TypeOK
      <4> QED
        BY <3>1, <4>2, <4>3
    <3> QED
      BY <2>2, <3>1, <3>2 DEF TypeOK
<1>5. ASSUME NEW r \in Requests, RecordRegistration(r) PROVE TypeOK'
  <2>1. request[r] # Idle
    BY <1>5 DEF RecordRegistration, Idle
  <2>2. request[r].device \in Devices /\ request[r].version \in Versions
    BY <2>1, BusyFields
  <2>3. history' \in [Devices -> Seq(Entry)]
    BY <1>5, <2>2, RecordType DEF RecordRegistration
  <2> QED
    BY <1>5, <2>2, <2>3 DEF RecordRegistration, Enroll, Answer, TypeOK
<1>6. ASSUME NEW r \in Requests, CompareVersion(r) PROVE TypeOK'
  <2>1. request[r] # Idle
    BY <1>6 DEF CompareVersion, Idle
  <2>2. request[r] \in Busy /\ request[r].device \in Devices /\ request[r].version \in Versions
        /\ request[r].found \in Versions \cup {NoVersion}
    BY <2>1, BusyFields
  <2>3. history' \in [Devices -> Seq(Entry)]
    BY <1>6, <2>2, RecordType DEF CompareVersion, RecordChange, TypeOK
  <2> QED
    BY <1>6, <2>2, <2>3 DEF CompareVersion, Advance, TypeOK, Busy
<1>7. ASSUME NEW r \in Requests, CheckVersion(r) PROVE TypeOK'
  <2>1. request[r] # Idle
    BY <1>7 DEF CheckVersion, Idle
  <2>2. request[r] \in Busy /\ request[r].device \in Devices /\ request[r].version \in Versions
    BY <2>1, BusyFields
  <2>3. PresentVersion(r) \in Versions \cup {NoVersion}
    BY <2>2 DEF PresentVersion, TypeOK
  <2>4. history' \in [Devices -> Seq(Entry)]
    BY <1>7, <2>2, <2>3, RecordType DEF CheckVersion, RecordChange, TypeOK
  <2> QED
    BY <1>7, <2>2, <2>4 DEF CheckVersion, Advance, TypeOK, Busy
<1>8. ASSUME NEW r \in Requests, UpdateAgent(r) PROVE TypeOK'
  <2>1. request[r] # Idle
    BY <1>8 DEF UpdateAgent, Idle
  <2>2. request[r].device \in Devices /\ request[r].version \in Versions
    BY <2>1, BusyFields
  <2> QED
    BY <1>8, <2>2 DEF UpdateAgent, ReportedVersion, Enroll, Answer, TypeOK
<1>9. ASSUME NEW r \in Requests, Abort(r) PROVE TypeOK'
  <2>1. request[r].device \in Devices /\ request[r].version \in Versions
    BY <1>9, BusyFields DEF Abort
  <2>2. cutShort' \in [Devices -> SUBSET Versions]
    <3>1. cutShort[request[r].device] \cup {request[r].version} \in SUBSET Versions
      BY <2>1 DEF TypeOK
    <3> QED
      BY <1>9, <3>1 DEF Abort, TypeOK
  <2> QED
    BY <1>9, <2>2 DEF Abort, Answer, TypeOK
<1>10. CASE UNCHANGED vars
  BY <1>10 DEF vars, TypeOK
<1> QED
  BY <1>1, <1>2, <1>3, <1>4, <1>5, <1>6, <1>7, <1>8, <1>9, <1>10 DEF Next, Serve

\* Every variable stays in its type, for any devices, requests and versions.
THEOREM TypeCorrect == Spec => []TypeOK
BY InitType, StepType, PTL DEF Spec

-----------------------------------------------------------------------------
(***************************************************************************)
(* The version a request is about to store, or has found in the row, is    *)
(* covered as the shown one is: by an entry, by a first registration that  *)
(* is about to write it, or by one that was cut short before it did.       *)
(***************************************************************************)
Covered(d, v) ==
    \/ v \in Recorded(d) \cup cutShort[d] \cup {NoVersion}
    \/ \E r \in Requests : /\ request[r].at = "registered"
                           /\ request[r].device = d /\ request[r].version = v

ShownCovered == \A d \in Devices : Covered(d, agent[d])

RequestCovered ==
    \A r \in Requests :
        /\ request[r].at = "compare" => Covered(request[r].device, request[r].found)
        /\ request[r].at \in {"update", "renew"} => Covered(request[r].device, request[r].version)

IInv == TypeOK /\ ShownCovered /\ RequestCovered

LEMMA RecordKeeps ==
    ASSUME TypeOK, NEW d \in Devices, NEW from \in Versions \cup {NoVersion}, NEW to \in Versions,
           Record(d, from, to)
    PROVE  /\ \A e \in Devices : Recorded(e) \subseteq Recorded(e)'
           /\ to \in Recorded(d)'
<1>1. PICK x \in Entry : x.to = to /\ history' = [history EXCEPT ![d] = Append(@, x)]
  BY DEF Record, Entry
<1>2. history \in [Devices -> Seq(Entry)]
  BY DEF TypeOK
<1>3. ASSUME NEW e \in Devices, NEW v \in Recorded(e) PROVE v \in Recorded(e)'
  <2>1. PICK i \in 1 .. Len(history[e]) : v = history[e][i].to
    BY <1>3 DEF Recorded
  <2>2. i \in 1 .. Len(history'[e]) /\ history'[e][i] = history[e][i]
    BY <1>1, <1>2, <2>1
  <2> QED
    BY <2>1, <2>2 DEF Recorded
<1>4. to \in Recorded(d)'
  <2>1. Len(history'[d]) \in 1 .. Len(history'[d]) /\ history'[d][Len(history'[d])] = x
    BY <1>1, <1>2
  <2> QED
    BY <1>1, <2>1 DEF Recorded
<1> QED
  BY <1>3, <1>4

\* What is covered stays covered when no entry is lost and no pending registration disappears.
LEMMA CoveredStays ==
    ASSUME NEW d, NEW v, Covered(d, v),
           Recorded(d) \subseteq Recorded(d)',
           cutShort[d] \subseteq cutShort'[d],
           \A r \in Requests : request[r].at = "registered" => request'[r] = request[r]
    PROVE  Covered(d, v)'
BY DEF Covered

LEMMA InitInv == Init => IInv
BY InitType DEF Init, IInv, ShownCovered, RequestCovered, Covered, Idle

LEMMA StepInv == IInv /\ [Next]_vars => IInv'
<1> SUFFICES ASSUME IInv, [Next]_vars PROVE IInv'
    OBVIOUS
<1>0. TypeOK /\ TypeOK'
  BY StepType DEF IInv
<1>1. aborted \in Nat /\ aborted' \in Nat /\ agent \in [Devices -> Versions \cup {NoVersion}]
      /\ request \in [Requests -> {Idle} \cup Busy]
  BY <1>0 DEF TypeOK
<1> SUFFICES ShownCovered' /\ RequestCovered'
    BY <1>0 DEF IInv
<1>2. ShownCovered /\ RequestCovered
  BY DEF IInv
<1>3. ASSUME NEW d \in Devices, Upgrade(d) PROVE ShownCovered' /\ RequestCovered'
  BY <1>2, <1>3 DEF Upgrade, ShownCovered, RequestCovered, Covered, Recorded
<1>4. ASSUME NEW r \in Requests, NEW d \in Devices, SendRegister(r, d) \/ SendHeartbeat(r, d)
      PROVE ShownCovered' /\ RequestCovered'
  <2>1. PICK p \in {"find", "check"} : Send(r, d, p)
    BY <1>4 DEF SendRegister, SendHeartbeat
  <2>2. /\ request[r].at = "idle" /\ request'[r].at \in {"find", "check"}
        /\ \A q \in Requests \ {r} : request'[q] = request[q]
    <3>1. request[r] = Idle
      BY <2>1 DEF Send
    <3>2. request' = [request EXCEPT ![r] = [at |-> p, device |-> d, version |-> running[d], found |-> NoVersion]]
      BY <2>1 DEF Send
    <3> QED
      BY <1>1, <2>1, <3>1, <3>2 DEF Idle
  <2>3. ASSUME NEW e, NEW v, Covered(e, v) PROVE Covered(e, v)'
    <3>1. Recorded(e) = Recorded(e)' /\ cutShort' = cutShort
      BY <2>1 DEF Send, Recorded
    <3> QED
      BY <2>2, <2>3, <3>1, CoveredStays
  <2> QED
    BY <1>2, <2>1, <2>2, <2>3 DEF Send, ShownCovered, RequestCovered
<1>5. ASSUME NEW r \in Requests, LookUpAgent(r) PROVE ShownCovered' /\ RequestCovered'
  <2>0. request[r] # Idle /\ request[r].at = "find"
    <3>1. request[r].at = "find"
      BY <1>5 DEF LookUpAgent
    <3> QED
      BY <3>1 DEF Idle
  <2>1. request[r] \in Busy /\ request[r].device \in Devices
    BY <2>0, BusyFields, <1>0
  <2>2. /\ request'[r].at \in {"insert", "compare"} /\ request'[r].device = request[r].device
        /\ request'[r].found = agent[request[r].device]
        /\ \A q \in Requests \ {r} : request'[q] = request[q]
    BY <1>5, <1>1, <2>1 DEF LookUpAgent, Busy
  <2>3. ASSUME NEW e, NEW v, Covered(e, v) PROVE Covered(e, v)'
    <3>1. Recorded(e) = Recorded(e)' /\ cutShort' = cutShort
      BY <1>5 DEF LookUpAgent, Recorded
    <3> QED
      BY <2>0, <2>2, <2>3, <3>1, CoveredStays
  <2> QED
    BY <1>2, <1>5, <2>1, <2>2, <2>3 DEF LookUpAgent, ShownCovered, RequestCovered
<1>6. ASSUME NEW r \in Requests, InsertAgent(r) PROVE ShownCovered' /\ RequestCovered'
  <2>0. request[r] # Idle /\ request[r].at = "insert"
    BY <1>6 DEF InsertAgent, Idle
  <2>1. PICK d \in Devices, v \in Versions :
          request[r] \in Busy /\ request[r].device = d /\ request[r].version = v
    BY <2>0, BusyFields, <1>0
  <2>2. \A q \in Requests \ {r} : request'[q] = request[q]
    BY <1>6, <1>1 DEF InsertAgent, Advance, Answer
  <2>3. ASSUME NEW e, NEW w, Covered(e, w) PROVE Covered(e, w)'
    <3>1. Recorded(e) = Recorded(e)' /\ cutShort' = cutShort
      BY <1>6 DEF InsertAgent, Recorded
    <3> QED
      BY <2>0, <2>2, <2>3, <3>1, CoveredStays
  <2>4. CASE agent[d] = NoVersion
    <3>1. /\ request'[r].at = "registered" /\ request'[r].device = d /\ request'[r].version = v
          /\ agent' = [agent EXCEPT ![d] = v]
      <4>1. request' = [request EXCEPT ![r].at = "registered"] /\ agent' = [agent EXCEPT ![d] = v]
        BY <1>6, <2>1, <2>4 DEF InsertAgent, Advance
      <4> QED
        BY <1>1, <2>1, <4>1 DEF Busy
    <3>2. Covered(d, v)'
      <4>1. \E q \in Requests : request'[q].at = "registered" /\ request'[q].device = d /\ request'[q].version = v
        BY <3>1
      <4> QED
        BY <4>1 DEF Covered
    <3>3. ShownCovered'
      <4> SUFFICES ASSUME NEW e \in Devices PROVE Covered(e, agent[e])'
          BY DEF ShownCovered
      <4>1. CASE e = d
        <5>1. agent'[e] = v
          BY <1>1, <3>1, <4>1
        <5> QED
          BY <3>2, <4>1, <5>1 DEF Covered, Recorded
      <4>2. CASE e # d
        <5>1. agent'[e] = agent[e]
          BY <1>1, <3>1, <4>2
        <5>2. PICK w : w = agent[e] /\ Covered(e, w)
          BY <1>2 DEF ShownCovered
        <5>3. Covered(e, w)'
          BY <2>3, <5>2
        <5> QED
          BY <5>1, <5>2, <5>3 DEF Covered, Recorded
      <4> QED
        BY <4>1, <4>2
    <3> QED
      BY <1>2, <2>2, <2>3, <3>1, <3>3 DEF ShownCovered, RequestCovered
  <2>5. CASE agent[d] # NoVersion
    <3>1. request'[r].at = "idle" /\ agent' = agent
      BY <1>6, <1>1, <2>1, <2>5 DEF InsertAgent, Answer, Idle
    <3> QED
      BY <1>2, <2>2, <2>3, <3>1 DEF ShownCovered, RequestCovered
  <2> QED
    BY <2>4, <2>5
<1>7. ASSUME NEW r \in Requests, RecordRegistration(r) PROVE ShownCovered' /\ RequestCovered'
  <2>0. request[r] # Idle /\ request[r].at = "registered"
    BY <1>7 DEF RecordRegistration, Idle
  <2>1. PICK d \in Devices, v \in Versions : request[r].device = d /\ request[r].version = v
    BY <2>0, BusyFields, <1>0
  <2>2. /\ request'[r].at = "idle" /\ agent' = agent /\ cutShort' = cutShort
        /\ \A q \in Requests \ {r} : request'[q] = request[q]
    BY <1>7, <1>1 DEF RecordRegistration, Enroll, Answer, Idle
  <2>3. (\A e \in Devices : Recorded(e) \subseteq Recorded(e)') /\ v \in Recorded(d)'
    <3>1. Record(d, NoVersion, v)
      BY <1>7, <2>1 DEF RecordRegistration
    <3> QED
      BY <1>0, <2>1, <3>1, RecordKeeps
  <2>4. ASSUME NEW e \in Devices, NEW w, Covered(e, w) PROVE Covered(e, w)'
    <3>1. CASE \E q \in Requests : request[q].at = "registered" /\ request[q].device = e /\ request[q].version = w
      BY <2>1, <2>2, <2>3, <3>1 DEF Covered
    <3>2. CASE w \in Recorded(e) \cup cutShort[e] \cup {NoVersion}
      BY <2>2, <2>3, <3>2 DEF Covered
    <3> QED
      BY <2>4, <3>1, <3>2 DEF Covered
  <2>5. \A q \in Requests : request[q].at # "idle" => request[q].device \in Devices
    BY <1>0, BusyFields DEF Idle
  <2> QED
    BY <1>2, <2>2, <2>4, <2>5 DEF ShownCovered, RequestCovered
<1>8. ASSUME NEW r \in Requests, CompareVersion(r) \/ CheckVersion(r)
      PROVE  ShownCovered' /\ RequestCovered'
  <2>0. request[r] # Idle /\ request[r].at \in {"compare", "check"}
    BY <1>8 DEF CompareVersion, CheckVersion, Idle
  <2>1. PICK d \in Devices, v \in Versions, from \in Versions \cup {NoVersion} :
          /\ request[r] \in Busy /\ request[r].device = d /\ request[r].version = v
          /\ from = IF request[r].at = "compare" THEN request[r].found ELSE agent[d]
    BY <1>0, <1>1, <2>0, BusyFields
  <2>2. /\ request'[r].at \in {"update", "renew"} /\ request'[r].device = d /\ request'[r].version = v
        /\ agent' = agent /\ cutShort' = cutShort
        /\ \A q \in Requests \ {r} : request'[q] = request[q]
    <3>1. /\ request' = [request EXCEPT ![r].at = IF request[r].at = "compare" THEN "update" ELSE "renew"]
          /\ UNCHANGED <<agent, cutShort>>
      BY <1>8, <2>0 DEF CompareVersion, CheckVersion, Advance
    <3> QED
      BY <1>1, <2>1, <3>1 DEF Busy
  <2>3. RecordChange(d, from, v)
    BY <1>8, <2>0, <2>1 DEF CompareVersion, CheckVersion, PresentVersion
  <2>4. \A e \in Devices : Recorded(e) \subseteq Recorded(e)'
    BY <1>0, <2>1, <2>3, RecordKeeps DEF RecordChange, Recorded
  <2>5. ASSUME NEW e \in Devices, NEW w, Covered(e, w) PROVE Covered(e, w)'
    BY <2>0, <2>2, <2>4, <2>5, CoveredStays
  <2>6. Covered(d, v)'
    <3>1. CASE from = v
      <4>1. Covered(d, v)
        BY <1>2, <2>0, <2>1, <3>1 DEF ShownCovered, RequestCovered
      <4> QED
        BY <2>1, <2>5, <4>1
    <3>2. CASE from # v
      <4>1. v \in Recorded(d)'
        BY <1>0, <2>1, <2>3, <3>2, RecordKeeps DEF RecordChange
      <4> QED
        BY <4>1 DEF Covered
    <3> QED
      BY <3>1, <3>2
  <2>7. \A q \in Requests : request[q].at # "idle" => request[q].device \in Devices
    BY <1>0, BusyFields DEF Idle
  <2>8. ShownCovered'
    BY <1>2, <2>2, <2>5 DEF ShownCovered
  <2>9. RequestCovered'
    <3> SUFFICES ASSUME NEW q \in Requests
                 PROVE  (/\ request[q].at = "compare" => Covered(request[q].device, request[q].found)
                         /\ request[q].at \in {"update", "renew"} =>
                              Covered(request[q].device, request[q].version))'
        BY DEF RequestCovered
    <3>1. CASE q = r
      <4>1. Covered(request[q].device, request[q].version)'
        BY <2>2, <2>6, <3>1 DEF Covered, Recorded
      <4> QED
        BY <2>2, <3>1, <4>1
    <3>2. CASE q # r
      BY <1>2, <2>2, <2>5, <2>7, <3>2 DEF RequestCovered
    <3> QED
      BY <3>1, <3>2
  <2> QED
    BY <2>8, <2>9
<1>9. ASSUME NEW r \in Requests, UpdateAgent(r) PROVE ShownCovered' /\ RequestCovered'
  <2>0. request[r] # Idle /\ request[r].at \in {"update", "renew"}
    BY <1>9 DEF UpdateAgent, Idle
  <2>1. PICK d \in Devices, v \in Versions : request[r].device = d /\ request[r].version = v
    BY <2>0, BusyFields, <1>0
  <2>2. /\ request'[r].at = "idle" /\ agent' = [agent EXCEPT ![d] = v] /\ UNCHANGED <<history, cutShort>>
        /\ \A q \in Requests \ {r} : request'[q] = request[q]
    BY <1>9, <1>1, <2>1 DEF UpdateAgent, ReportedVersion, Enroll, Answer, Idle
  <2>3. ASSUME NEW e, NEW w, Covered(e, w) PROVE Covered(e, w)'
    <3>1. Recorded(e) = Recorded(e)'
      BY <2>2 DEF Recorded
    <3> QED
      BY <2>0, <2>2, <2>3, <3>1, CoveredStays
  <2>4. Covered(d, v)'
    BY <1>2, <2>0, <2>1, <2>3 DEF RequestCovered
  <2>5. ShownCovered'
    <3> SUFFICES ASSUME NEW e \in Devices PROVE Covered(e, agent[e])'
        BY DEF ShownCovered
    <3>1. CASE e = d
      <4>1. agent'[e] = v
        BY <1>1, <2>2, <3>1
      <4> QED
        BY <2>4, <3>1, <4>1 DEF Covered, Recorded
    <3>2. CASE e # d
      <4>1. agent'[e] = agent[e]
        BY <1>1, <2>2, <3>2
      <4>2. PICK w : w = agent[e] /\ Covered(e, w)
        BY <1>2 DEF ShownCovered
      <4>3. Covered(e, w)'
        BY <2>3, <4>2
      <4> QED
        BY <4>1, <4>2, <4>3 DEF Covered, Recorded
    <3> QED
      BY <3>1, <3>2
  <2> QED
    BY <1>2, <2>2, <2>3, <2>5 DEF ShownCovered, RequestCovered
<1>10. ASSUME NEW r \in Requests, Abort(r) PROVE ShownCovered' /\ RequestCovered'
  <2>1. request[r] \in Busy /\ request[r].device \in Devices
    BY <1>0, <1>10, BusyFields DEF Abort
  <2>2. /\ request'[r].at = "idle" /\ UNCHANGED <<agent, history>>
        /\ \A q \in Requests \ {r} : request'[q] = request[q]
    BY <1>1, <1>10 DEF Abort, Answer, Idle
  <2>3. /\ \A e \in Devices : cutShort[e] \subseteq cutShort'[e]
        /\ request[r].at = "registered" => request[r].version \in cutShort'[request[r].device]
    <3>1. cutShort \in [Devices -> SUBSET Versions]
      BY <1>0 DEF TypeOK
    <3>2. CASE request[r].at = "registered"
      <4>1. cutShort' = [cutShort EXCEPT ![request[r].device] = @ \cup {request[r].version}]
        BY <1>10, <3>2 DEF Abort
      <4> QED
        BY <2>1, <3>1, <4>1
    <3>3. CASE request[r].at # "registered"
      BY <1>10, <3>3 DEF Abort
    <3> QED
      BY <3>2, <3>3
  <2>4. ASSUME NEW e \in Devices, NEW w, Covered(e, w) PROVE Covered(e, w)'
    <3>1. Recorded(e) = Recorded(e)'
      BY <2>2 DEF Recorded
    <3>2. CASE \E q \in Requests \ {r} : /\ request[q].at = "registered"
                                       /\ request[q].device = e /\ request[q].version = w
      BY <2>2, <3>2 DEF Covered
    <3>3. CASE request[r].at = "registered" /\ request[r].device = e /\ request[r].version = w
      BY <2>3, <3>3 DEF Covered
    <3>4. CASE w \in Recorded(e) \cup cutShort[e] \cup {NoVersion}
      BY <2>3, <3>1, <3>4 DEF Covered
    <3> QED
      BY <2>4, <3>2, <3>3, <3>4 DEF Covered
  <2>5. \A q \in Requests : request[q].at # "idle" => request[q].device \in Devices
    BY <1>0, BusyFields DEF Idle
  <2> QED
    BY <1>2, <2>2, <2>4, <2>5 DEF ShownCovered, RequestCovered
<1>11. CASE UNCHANGED vars
  BY <1>2, <1>11 DEF vars, ShownCovered, RequestCovered, Covered, Recorded
<1> QED
  BY <1>3, <1>4, <1>5, <1>6, <1>7, <1>8, <1>9, <1>10, <1>11 DEF Next, Serve

LEMMA InvShown == IInv => ShownIsRecorded
BY DEF IInv, ShownCovered, Covered, ShownIsRecorded

\* The version shown for a device is in its update history, whatever registrations and heartbeats
\* overlap or are cut short, except for the version of a first registration that is about to write
\* its entry or was cut short before it (AgentController.register, AgentController.heartbeat).
THEOREM ShownStaysRecorded == Spec => []ShownIsRecorded
BY InitInv, StepInv, InvShown, PTL DEF Spec

-----------------------------------------------------------------------------
(* Requests of a device that do not overlap and are not cut short.         *)

\* What the history of a device says that it runs.
LastTo(d) == IF history[d] = <<>> THEN NoVersion ELSE history[d][Len(history[d])].to

\* Between the entry and the row a request has written one of the two only.
Writing(r) == request[r].at \in {"registered", "update", "renew"}

\* What the steps so far of a request have left in the row and the history of its device.
RequestTells(r) ==
    /\ request[r].at = "registered" =>
          agent[request[r].device] = request[r].version /\ history[request[r].device] = <<>>
    /\ request[r].at \in {"update", "renew"} => LastTo(request[r].device) = request[r].version
    /\ request[r].at = "compare" => request[r].found = agent[request[r].device]

HistoryTells(d) ==
    /\ Chain(history[d])
    /\ agent[d] = LastTo(d) \/ \E r \in Requests : Writing(r) /\ request[r].device = d

SerialInv ==
    aborted = 0 => (\A r \in Requests : RequestTells(r)) /\ (\A d \in Devices : HistoryTells(d))

\* An entry that continues a chain makes a chain.
LEMMA ChainAppend ==
    ASSUME NEW h \in Seq(Entry), NEW e \in Entry, Chain(h),
           h # <<>> => h[Len(h)].to = e.from
    PROVE  Chain(Append(h, e))
<1> SUFFICES ASSUME NEW i \in 2 .. Len(h) + 1
             PROVE  Append(h, e)[i].from = Append(h, e)[i - 1].to
  BY DEF Chain
<1>1. CASE i = Len(h) + 1
  BY <1>1
<1>2. CASE i # Len(h) + 1
  <2>1. i \in 2 .. Len(h) /\ Append(h, e)[i] = h[i] /\ Append(h, e)[i - 1] = h[i - 1]
    BY <1>2
  <2> QED
    BY <2>1 DEF Chain
<1> QED
  BY <1>1, <1>2

\* A change recorded from what the history says last continues it.
LEMMA RecordContinues ==
    ASSUME TypeOK, NEW d \in Devices, NEW to \in Versions, Chain(history[d]),
           Record(d, LastTo(d), to)
    PROVE  /\ Chain(history'[d]) /\ LastTo(d)' = to
           /\ \A e \in Devices : e # d => history'[e] = history[e]
<1> DEFINE h == history[d]
           x == [from |-> LastTo(d), to |-> to]
<1>1. h \in Seq(Entry)
  BY DEF TypeOK
<1>2. h # <<>> => h[Len(h)] \in Entry
  BY <1>1
<1>3. LastTo(d) \in Versions \cup {NoVersion}
  BY <1>2 DEF LastTo, Entry
<1>4. x \in Entry /\ x.from = LastTo(d) /\ x.to = to
  BY <1>3 DEF Entry
<1>5. history' = [history EXCEPT ![d] = Append(h, x)]
  BY DEF Record
<1>6. history'[d] = Append(h, x) /\ \A e \in Devices : e # d => history'[e] = history[e]
  BY <1>5 DEF TypeOK
<1>7. h # <<>> => h[Len(h)].to = x.from
  BY <1>4 DEF LastTo
<1> HIDE DEF x
<1>8. Chain(Append(h, x))
  BY <1>1, <1>4, <1>7, ChainAppend
<1>9. Append(h, x) # <<>> /\ Append(h, x)[Len(Append(h, x))] = x
  BY <1>1, <1>4
<1>10. LastTo(d)' = to
  BY <1>4, <1>6, <1>9 DEF LastTo
<1> QED
  BY <1>6, <1>8, <1>10

LEMMA ChangeContinues ==
    ASSUME TypeOK, NEW d \in Devices, NEW to \in Versions, Chain(history[d]),
           RecordChange(d, LastTo(d), to)
    PROVE  /\ Chain(history'[d]) /\ LastTo(d)' = to
           /\ \A e \in Devices : e # d => history'[e] = history[e]
<1>1. CASE LastTo(d) = to
  <2>1. history' = history
    BY <1>1 DEF RecordChange
  <2> QED
    BY <1>1, <2>1 DEF LastTo
<1>2. CASE LastTo(d) # to
  BY <1>2, RecordContinues DEF RecordChange
<1> QED
  BY <1>1, <1>2

\* A step of the one request of a device: what holds of the others and of their devices stays.
LEMMA SerialFrame ==
    ASSUME TypeOK, TypeOK', NoOverlap, aborted = 0, SerialInv,
           NEW r \in Requests, NEW d \in Devices, request[r] # Idle, request[r].device = d,
           \A q \in Requests : q # r => request'[q] = request[q],
           \A e \in Devices : e # d => agent'[e] = agent[e] /\ history'[e] = history[e],
           RequestTells(r)',
           Chain(history'[d]),
           LastTo(d)' = agent'[d] \/ (Writing(r)' /\ request'[r].device = d)
    PROVE  SerialInv'
<1>1. ASSUME NEW q \in Requests PROVE RequestTells(q)'
  <2>1. CASE q = r
    BY <2>1
  <2>2. CASE q # r /\ request[q] # Idle
    <3>1. request[q].device \in Devices /\ request[q].device # d /\ request'[q] = request[q]
      BY <2>2, BusyFields DEF NoOverlap
    <3> QED
      BY <3>1 DEF SerialInv, RequestTells, LastTo
  <2>3. CASE q # r /\ request[q] = Idle
    BY <2>3 DEF RequestTells, Idle
  <2> QED
    BY <2>1, <2>2, <2>3
<1>2. ASSUME NEW e \in Devices PROVE HistoryTells(e)'
  <2>1. CASE e = d
    BY <2>1 DEF HistoryTells
  <2>2. CASE e # d
    <3>1. HistoryTells(e) /\ agent'[e] = agent[e] /\ history'[e] = history[e]
      BY <2>2 DEF SerialInv
    <3>2. \A q \in Requests : Writing(q) /\ request[q].device = e =>
            request'[q] = request[q]
      BY <2>2
    <3> QED
      BY <3>1, <3>2 DEF HistoryTells, LastTo, Writing
  <2> QED
    BY <2>1, <2>2
<1> QED
  BY <1>1, <1>2 DEF SerialInv

\* A device whose one request has not begun to write is shown as its history says.
LEMMA ShownBefore ==
    ASSUME NoOverlap, aborted = 0, SerialInv, NEW r \in Requests, NEW d \in Devices,
           request[r] # Idle, request[r].device = d, ~Writing(r)
    PROVE  Chain(history[d]) /\ agent[d] = LastTo(d)
<1>1. \A q \in Requests : Writing(q) => request[q] # Idle
  BY DEF Writing, Idle
<1> QED
  BY <1>1 DEF SerialInv, HistoryTells, NoOverlap

LEMMA SerialServe ==
    ASSUME TypeOK, TypeOK', NoOverlap, aborted = 0, SerialInv, NEW r \in Requests, Serve(r)
    PROVE  SerialInv'
<1>1. request[r] # Idle
  BY DEF Serve, LookUpAgent, InsertAgent, RecordRegistration, CompareVersion, CheckVersion,
         UpdateAgent, Idle
<1>2. PICK d \in Devices : request[r].device = d
  BY <1>1, BusyFields
<1>3. request[r].version \in Versions /\ request[r].found \in Versions \cup {NoVersion}
  BY <1>1, BusyFields
<1>4. ASSUME NEW p, Advance(r, p)
      PROVE  /\ request'[r].at = p /\ request'[r].device = d
             /\ request'[r].version = request[r].version /\ request'[r].found = request[r].found
             /\ \A q \in Requests : q # r => request'[q] = request[q]
  BY <1>1, <1>2, <1>4, BusyFields DEF Advance, TypeOK, Busy
<1>5. Answer(r) => request'[r] = Idle /\ \A q \in Requests : q # r => request'[q] = request[q]
  BY DEF Answer, TypeOK
<1>6. request'[r] = Idle => RequestTells(r)'
  BY DEF RequestTells, Idle
<1>7. NoVersion \notin Versions
  BY NoVersionAssumption, LastVersionAssumption DEF Versions
<1>8. CASE LookUpAgent(r)
  <2>1. ~Writing(r) /\ UNCHANGED <<agent, history, aborted>>
    BY <1>8 DEF LookUpAgent, Writing
  <2>2. Chain(history[d]) /\ agent[d] = LastTo(d)
    BY <1>1, <1>2, <2>1, ShownBefore
  <2>3. /\ request'[r].at \in {"insert", "compare"} /\ request'[r].found = agent[d]
        /\ request'[r].device = d
        /\ \A q \in Requests : q # r => request'[q] = request[q]
    BY <1>1, <1>2, <1>8, BusyFields DEF LookUpAgent, TypeOK, Busy
  <2>4. RequestTells(r)'
    BY <2>1, <2>3 DEF RequestTells
  <2>5. LastTo(d)' = agent'[d]
    BY <2>1, <2>2 DEF LastTo
  <2> QED
    BY <1>1, <1>2, <2>1, <2>2, <2>3, <2>4, <2>5, SerialFrame
<1>9. CASE InsertAgent(r)
  <2>1. ~Writing(r) /\ UNCHANGED <<history, aborted>>
    BY <1>9 DEF InsertAgent, Writing
  <2>2. Chain(history[d]) /\ agent[d] = LastTo(d)
    BY <1>1, <1>2, <2>1, ShownBefore
  <2>3. CASE agent[d] = NoVersion
    <3>1. Advance(r, "registered") /\ agent' = [agent EXCEPT ![d] = request[r].version]
      BY <1>2, <1>9, <2>3 DEF InsertAgent
    <3>2. history[d] = <<>>
      <4>1. history[d] # <<>> => history[d][Len(history[d])] \in Entry
        BY DEF TypeOK
      <4> QED
        BY <1>7, <2>2, <2>3, <4>1 DEF LastTo, Entry
    <3>3. agent'[d] = request[r].version /\ \A e \in Devices : e # d => agent'[e] = agent[e]
      BY <3>1 DEF TypeOK
    <3>4. RequestTells(r)' /\ Writing(r)'
      BY <1>4, <2>1, <3>1, <3>2, <3>3 DEF RequestTells, Writing
    <3> QED
      BY <1>1, <1>2, <1>4, <2>1, <2>2, <3>1, <3>3, <3>4, SerialFrame
  <2>4. CASE agent[d] # NoVersion
    <3>1. Answer(r) /\ UNCHANGED agent
      BY <1>2, <1>9, <2>4 DEF InsertAgent
    <3>2. LastTo(d)' = agent'[d]
      BY <2>1, <2>2, <3>1 DEF LastTo
    <3> QED
      BY <1>1, <1>2, <1>5, <1>6, <2>1, <2>2, <3>1, <3>2, SerialFrame
  <2> QED
    BY <2>3, <2>4
<1>10. CASE RecordRegistration(r)
  <2>1. /\ request[r].at = "registered" /\ Record(d, NoVersion, request[r].version)
        /\ Answer(r) /\ UNCHANGED <<agent, aborted>>
    BY <1>2, <1>10 DEF RecordRegistration, Enroll
  <2>2. agent[d] = request[r].version /\ history[d] = <<>>
    BY <1>2, <2>1 DEF SerialInv, RequestTells
  <2>3. LastTo(d) = NoVersion /\ Chain(history[d])
    BY <2>2 DEF LastTo, SerialInv, HistoryTells
  <2>4. /\ Chain(history'[d]) /\ LastTo(d)' = request[r].version
        /\ \A e \in Devices : e # d => history'[e] = history[e]
    BY <1>3, <2>1, <2>3, RecordContinues
  <2> QED
    BY <1>1, <1>2, <1>5, <1>6, <2>1, <2>2, <2>4, SerialFrame
<1>11. CASE CompareVersion(r) \/ CheckVersion(r)
  <2>1. ~Writing(r) /\ UNCHANGED <<agent, aborted>>
    BY <1>11 DEF CompareVersion, CheckVersion, Writing
  <2>2. Chain(history[d]) /\ agent[d] = LastTo(d)
    BY <1>1, <1>2, <2>1, ShownBefore
  <2>3. PICK p \in {"update", "renew"} :
          RecordChange(d, LastTo(d), request[r].version) /\ Advance(r, p)
    BY <1>2, <1>11, <2>2 DEF CompareVersion, CheckVersion, PresentVersion, SerialInv, RequestTells
  <2>4. /\ Chain(history'[d]) /\ LastTo(d)' = request[r].version
        /\ \A e \in Devices : e # d => history'[e] = history[e]
    BY <1>3, <2>2, <2>3, ChangeContinues
  <2>5. RequestTells(r)' /\ Writing(r)' /\ request'[r].device = d
    BY <1>4, <2>3, <2>4 DEF RequestTells, Writing
  <2> QED
    BY <1>1, <1>2, <1>4, <2>1, <2>3, <2>4, <2>5, SerialFrame
<1>12. CASE UpdateAgent(r)
  <2>1. /\ request[r].at \in {"update", "renew"} /\ Answer(r)
        /\ agent' = [agent EXCEPT ![d] = request[r].version]
        /\ UNCHANGED <<history, aborted>>
    BY <1>2, <1>12 DEF UpdateAgent, Enroll, ReportedVersion
  <2>2. agent'[d] = request[r].version /\ \A e \in Devices : e # d => agent'[e] = agent[e]
    BY <2>1 DEF TypeOK
  <2>3. LastTo(d)' = agent'[d] /\ Chain(history'[d])
    BY <1>2, <2>1, <2>2 DEF SerialInv, RequestTells, HistoryTells, LastTo
  <2> QED
    BY <1>1, <1>2, <1>5, <1>6, <2>1, <2>2, <2>3, SerialFrame
<1> QED
  BY <1>8, <1>9, <1>10, <1>11, <1>12 DEF Serve

LEMMA SerialStep ==
    TypeOK /\ TypeOK' /\ NoOverlap /\ SerialInv /\ [Next]_vars => SerialInv'
<1> SUFFICES ASSUME TypeOK, TypeOK', NoOverlap, SerialInv, [Next]_vars, aborted' = 0
             PROVE  SerialInv'
  BY DEF SerialInv
<1>1. aborted = 0
  <2>1. aborted' = aborted \/ aborted' = aborted + 1
    BY DEF Next, vars, Upgrade, Serve, LookUpAgent, InsertAgent, RecordRegistration,
           CompareVersion, CheckVersion, UpdateAgent, Abort, SendRegister, SendHeartbeat, Send
  <2> QED
    BY <2>1, SMT DEF TypeOK
<1>2. ASSUME NEW r \in Requests, Serve(r) PROVE SerialInv'
  BY <1>1, <1>2, SerialServe
<1>3. ASSUME NEW r \in Requests, Abort(r) PROVE FALSE
  BY <1>1, <1>3 DEF Abort
<1>4. ASSUME NEW d \in Devices, Upgrade(d) PROVE SerialInv'
  BY <1>4 DEF Upgrade, SerialInv, RequestTells, HistoryTells, LastTo, Writing
<1>5. ASSUME NEW r \in Requests, NEW d \in Devices, SendRegister(r, d) \/ SendHeartbeat(r, d)
      PROVE  SerialInv'
  <2>1. PICK p \in {"find", "check"} : Send(r, d, p)
    BY <1>5 DEF SendRegister, SendHeartbeat
  <2>2. /\ request[r] = Idle /\ request'[r].at = p /\ UNCHANGED <<agent, history, aborted>>
        /\ \A q \in Requests : q # r => request'[q] = request[q]
    BY <2>1 DEF Send, TypeOK
  <2>3. \A q \in Requests : RequestTells(q)'
    BY <1>1, <2>2 DEF SerialInv, RequestTells, LastTo
  <2>4. \A q \in Requests : Writing(q) => request'[q] = request[q]
    BY <2>2 DEF Writing, Idle
  <2>5. \A e \in Devices : HistoryTells(e)'
    BY <1>1, <2>2, <2>4 DEF SerialInv, HistoryTells, LastTo, Writing
  <2> QED
    BY <2>3, <2>5 DEF SerialInv
<1>6. CASE UNCHANGED vars
  BY <1>6 DEF vars, SerialInv, RequestTells, HistoryTells, LastTo, Writing
<1> QED
  BY <1>2, <1>3, <1>4, <1>5, <1>6 DEF Next

LEMMA InitSerial == Init => SerialInv
<1> SUFFICES ASSUME Init PROVE SerialInv
  OBVIOUS
<1>1. \A r \in Requests : RequestTells(r)
  BY DEF Init, Idle, RequestTells
<1>2. \A d \in Devices : Chain(history[d]) /\ agent[d] = LastTo(d)
  <2> SUFFICES ASSUME NEW d \in Devices PROVE Chain(history[d]) /\ agent[d] = LastTo(d)
    OBVIOUS
  <2>1. history[d] = <<>> /\ agent[d] = NoVersion
    BY DEF Init
  <2>2. Chain(<<>>)
    BY DEF Chain
  <2> QED
    BY <2>1, <2>2 DEF LastTo
<1> QED
  BY <1>1, <1>2 DEF SerialInv, HistoryTells

\* Without overlapping and interrupted requests the update history of a device is a chain of
\* changes from its registration on, and at rest it ends in the version shown
\* (AgentController.register, AgentController.heartbeat).
THEOREM SerialHistoryReadsAsChain == Spec => SerialHistoryIsChain
<1> DEFINE ReadsAsChain ==
      aborted = 0 => \A d \in Devices :
          /\ Chain(history[d])
          /\ (\A r \in Requests : request[r] = Idle) /\ agent[d] # NoVersion =>
                /\ history[d] # <<>>
                /\ history[d][Len(history[d])].to = agent[d]
<1>1. SerialInv => ReadsAsChain
  <2> SUFFICES ASSUME SerialInv, aborted = 0, NEW d \in Devices
               PROVE  /\ Chain(history[d])
                      /\ (\A r \in Requests : request[r] = Idle) /\ agent[d] # NoVersion =>
                            /\ history[d] # <<>>
                            /\ history[d][Len(history[d])].to = agent[d]
    OBVIOUS
  <2>1. HistoryTells(d)
    BY DEF SerialInv
  <2>2. (\A r \in Requests : request[r] = Idle) => \A r \in Requests : ~Writing(r)
    BY DEF Writing, Idle
  <2> QED
    BY <2>1, <2>2 DEF HistoryTells, LastTo
<1> QED
  BY <1>1, TypeCorrect, InitSerial, SerialStep, PTL DEF Spec, SerialHistoryIsChain
=============================================================================
