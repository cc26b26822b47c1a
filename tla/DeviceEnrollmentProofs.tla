----------------------- MODULE DeviceEnrollmentProofs -----------------------
(***************************************************************************)
(* Proofs about DeviceEnrollment.  Type correctness holds for any number   *)
(* of loops; the other invariants hold for any number of loops as long as  *)
(* their recoveries do not overlap (SerialRecovery).  Two loops that       *)
(* recover at once do break them.                                          *)
(***************************************************************************)
EXTENDS DeviceEnrollment, FiniteSetTheorems, TLAPS

LEMMA ConstantsType ==
    /\ Startup \in Actors /\ Loops \subseteq Actors
    /\ FaultBudget \in [FaultKinds -> Nat]
    /\ UnauthorizedThreshold \in Nat /\ UnauthorizedThreshold > 0
BY LoopsAssumption, ThresholdAssumption, BudgetAssumption DEF Actors

LEMMA InitType == Init => TypeOK
<1> SUFFICES ASSUME Init PROVE TypeOK
    OBVIOUS
<1>1. file \in AgentFile /\ file.dev \in Nat
  <2>1. FreshFile \in AgentFile /\ BatFile \in AgentFile
    BY DEF FreshFile, BatFile, AgentFile, NoToken
  <2> QED
    BY <2>1 DEF Init, AgentFile
<1>2. pc \in [Actors -> Places] /\ health \in [Actors -> Outcomes]
    BY DEF Init, Down, Unset, Places, Outcomes
<1>3. options \in Options /\ box \in [Actors -> Options]
    BY DEF Init, NoOptions, Options, NoToken
<1>4. env \in BOOLEAN
    BY EnvAssumption DEF Init
<1>5. seen \in [Loops -> 0 .. UnauthorizedThreshold] /\ unauthorized \in 0 .. UnauthorizedThreshold
    BY ConstantsType DEF Init
<1>6. used \in [FaultKinds -> Nat] /\ orphans \in Nat
    BY DEF Init
<1>7. issued \in Nat /\ serverToken \in Nat /\ delivered \in Nat
    BY <1>1 DEF Init
<1> QED
    BY <1>1, <1>2, <1>3, <1>4, <1>5, <1>6, <1>7 DEF TypeOK

\* What the phases an actor can enter are, and what a start of the service yields.
LEMMA RunningType ==
    /\ \A o \in Options : Running(o) \in [Actors -> Places]
    /\ Down \in [Actors -> Places]
BY DEF Running, Down, Places

LEMMA SpendType ==
    ASSUME TypeOK, NEW k \in FaultKinds, Spend(k)
    PROVE  used' \in [FaultKinds -> Nat] /\ used'[k] > 0
           /\ \A j \in FaultKinds : used[j] > 0 => used'[j] > 0
BY DEF TypeOK, Spend

LEMMA FaultKindsMembers ==
    /\ "revoke" \in FaultKinds /\ "lost" \in FaultKinds /\ "crash" \in FaultKinds
    /\ "torn" \in FaultKinds /\ "io" \in FaultKinds /\ "undecryptable" \in FaultKinds
    /\ "reinstall" \in FaultKinds /\ "stale" \in FaultKinds
BY DEF FaultKinds

LEMMA LoadType == TypeOK => \A r \in BOOLEAN : Load(r) \in Options
BY DEF TypeOK, Load, Options, AgentFile, NoToken

LEMMA DropType ==
    ASSUME TypeOK, NEW a \in Actors, Drop(a)
    PROVE  box' \in [Actors -> Options] /\ \A b \in Actors \ {a} : box'[b] = box[b]
<1>1. NoOptions \in Options
  BY DEF NoOptions, Options, NoToken
<1> QED
  BY <1>1 DEF Drop, Hold, TypeOK

LEMMA StepType == TypeOK /\ [Next]_vars => TypeOK'
<1> SUFFICES ASSUME TypeOK, [Next]_vars PROVE TypeOK'
    OBVIOUS
<1> USE ConstantsType, FaultKindsMembers
<1>1. CASE Boot
  <2>1. PICK r \in BOOLEAN :
          /\ IF r THEN UNCHANGED used ELSE Spend("undecryptable")
          /\ options' = Load(r)
          /\ IF file.ok /\ file.plain
             THEN /\ pc' = [Down EXCEPT ![Startup] = "migrating"]
                  /\ Hold(Startup, Load(r))
             ELSE /\ pc' = Running(Load(r))
                  /\ UNCHANGED box
    BY <1>1 DEF Boot
  <2>2. used' \in [FaultKinds -> Nat]
    BY <2>1, SpendType DEF TypeOK
  <2>3. Load(r) \in Options
    BY LoadType
  <2>4. pc' \in [Actors -> Places]
    BY <2>1, <2>3, RunningType DEF Places, Writing
  <2>5. box' \in [Actors -> Options]
    BY <2>1, <2>3 DEF TypeOK, Hold
  <2> QED
    BY <1>1, <2>1, <2>2, <2>3, <2>4, <2>5 DEF Boot, TypeOK, server
<1>2. CASE RetryStartup
    BY <1>2, RunningType DEF RetryStartup, TypeOK, server, memory
<1>3. ASSUME NEW l \in Loops, LoopStep(l) PROVE TypeOK'
  <2>1. CASE LoopCalls(l)
    BY <2>1 DEF LoopCalls, Goto, Hold, TypeOK, Places, server, memory
  <2>2. CASE ServerAuthenticates(l)
    BY <2>2, DropType DEF ServerAuthenticates, Goto, TypeOK, Places, server, memory
  <2>3. CASE OperationSucceeds(l)
    BY <2>3 DEF OperationSucceeds, Goto, Report, TypeOK, Places, Outcomes, server
  <2>4. CASE LoadUnauthorized(l)
    BY <2>4 DEF LoadUnauthorized, Goto, TypeOK, Places, server, memory
  <2>5. CASE StoreUnauthorized(l)
    BY <2>5 DEF StoreUnauthorized, Incremented, Goto, TypeOK, Places, server
  <2>6. CASE DecideRecovery(l)
    BY <2>6 DEF DecideRecovery, Goto, Report, TypeOK, Places, Outcomes, server
  <2>7. CASE RecoverDeviceToken(l)
    BY <2>7 DEF RecoverDeviceToken, ReportReenroll, Goto, Report, TypeOK, Places, Outcomes, server
  <2>8. CASE ClearDeviceToken(l)
    <3>1. PICK o \in Options : options' = Cleared(o)
      BY <2>8 DEF ClearDeviceToken, TypeOK, Options
    <3>2. options' \in Options
      BY <3>1 DEF Cleared, NoToken, Options
    <3>3. used' \in [FaultKinds -> Nat]
      BY <2>8, SpendType DEF ClearDeviceToken, TypeOK
    <3> QED
      BY <2>8, <3>2, <3>3 DEF ClearDeviceToken, Goto, TypeOK, Places, Writing, server
  <2> QED
    BY <1>3, <2>1, <2>2, <2>3, <2>4, <2>5, <2>6, <2>7, <2>8 DEF LoopStep
<1>4. ASSUME NEW a \in Actors, EnrollStep(a) PROVE TypeOK'
  <2>1. CASE WriteFile(a)
    <3>1. pc' \in [Actors -> Places]
      BY <2>1, RunningType DEF WriteFile, AfterWrite, Writing, Places, TypeOK
    <3>2. file' \in AgentFile
      BY <2>1 DEF WriteFile, Written, AgentFile, Options, TypeOK
    <3> QED
      BY <2>1, <3>1, <3>2, DropType DEF WriteFile, TypeOK, server, memory
  <2>2. CASE EnsureRegistered(a)
    BY <2>2 DEF EnsureRegistered, RegistrationFailed, Goto, Report, TypeOK, Places, Outcomes, server
  <2>3. CASE ServerRegisters(a)
    BY <2>3 DEF ServerRegisters, IssueToken, Goto, Hold, TypeOK, Places, Options, memory
  <2>4. CASE StoreDeviceToken(a)
    BY <2>4 DEF StoreDeviceToken, Stored, Goto, Hold, TypeOK, Places, Writing, Options, server
  <2>5. CASE RegistrationSucceeds(a)
    BY <2>5 DEF RegistrationSucceeds, ReportEnrolled, Report, Goto, TypeOK, Places, Outcomes, server
  <2> QED
    BY <1>4, <2>1, <2>2, <2>3, <2>4, <2>5 DEF EnrollStep
<1>5. CASE FaultStep
  <2>1. ASSUME NEW l \in Loops, OperationFails(l) PROVE TypeOK'
    BY <2>1, SpendType, DropType DEF OperationFails, Goto, Report, TypeOK, Places, Outcomes, server
  <2>2. ASSUME NEW a \in Actors, WriteFails(a) PROVE TypeOK'
    <3>1. used' \in [FaultKinds -> Nat] /\ file' \in AgentFile
      <4>1. TornFile \in AgentFile
        BY DEF TornFile, AgentFile, NoToken
      <4>2. used' = used \/ \E k \in {"io", "torn"} : Spend(k)
        BY <2>2 DEF WriteFails
      <4>3. used' \in [FaultKinds -> Nat]
        BY <4>2, SpendType DEF TypeOK
      <4>4. file' = file \/ file' = TornFile
        BY <2>2 DEF WriteFails
      <4> QED
        BY <4>1, <4>3, <4>4 DEF TypeOK
    <3>2. pc' \in [Actors -> Places] /\ options' \in Options
          /\ unauthorized' \in 0 .. UnauthorizedThreshold /\ health' \in [Actors -> Outcomes]
      <4>1. CASE pc[a] = "clearing" /\ Goto(a, "dead") /\ UNCHANGED memory
        BY <4>1 DEF Goto, memory, TypeOK, Places
      <4>2. CASE RegistrationFailed(a) /\ UNCHANGED <<options, unauthorized>>
        BY <4>2 DEF RegistrationFailed, Goto, Report, TypeOK, Places, Outcomes
      <4>3. CASE pc' = Down /\ options' = NoOptions /\ UNCHANGED <<unauthorized, health>>
        BY <4>3, RunningType DEF NoOptions, NoToken, Options, TypeOK, Down, Places
      <4> QED
        BY <2>2, <4>1, <4>2, <4>3 DEF WriteFails
    <3> QED
      BY <2>2, <3>1, <3>2, DropType DEF WriteFails, TypeOK, server
  <2>3. ASSUME NEW a \in Actors, RegistrationFails(a) PROVE TypeOK'
    BY <2>3, SpendType, DropType
       DEF RegistrationFails, RegistrationFailed, Goto, Report, TypeOK, Places, Outcomes
  <2>4. CASE Revoke
    BY <2>4, SpendType DEF Revoke, TypeOK, memory
  <2>5. CASE LateRegistration
    BY <2>5 DEF LateRegistration, IssueToken, TypeOK, memory
  <2>6. ASSUME ProcessEnds, file' \in AgentFile, used' \in [FaultKinds -> Nat] PROVE TypeOK'
    <3>1. pc' \in [Actors -> Places] /\ health' \in [Actors -> Outcomes]
          /\ box' \in [Actors -> Options] /\ options' \in Options
      BY <2>6 DEF ProcessEnds, Down, Unset, NoOptions, NoToken, Options, Places, Outcomes
    <3>2. orphans' \in Nat
      <4> DEFINE R == {a \in Actors : pc[a] = "registering"}
      <4>1. IsFiniteSet(R)
        BY FS_Subset, FS_AddElement, LoopsAssumption DEF Actors
      <4>2. Cardinality(R) \in Nat
        BY <4>1, FS_CardinalityType
      <4>3. orphans' = orphans + Cardinality(R)
        BY <2>6 DEF ProcessEnds
      <4> QED
        BY <4>2, <4>3 DEF TypeOK
    <3> QED
      BY <2>6, <3>1, <3>2 DEF ProcessEnds, TypeOK
  <2>7. CASE Crash
    BY <2>6, <2>7, SpendType DEF Crash, TypeOK
  <2>8. CASE TornWrite
    BY <2>6, <2>8, SpendType DEF TornWrite, TornFile, AgentFile, NoToken
  <2>9. CASE Reinstall
    BY <2>9, SpendType DEF Reinstall, TypeOK, AgentFile, server, memory
  <2> QED
    BY <1>5, <2>1, <2>2, <2>3, <2>4, <2>5, <2>7, <2>8, <2>9 DEF FaultStep
<1>6. CASE UNCHANGED vars
    BY <1>6 DEF vars, TypeOK
<1> QED
    BY <1>1, <1>2, <1>3, <1>4, <1>5, <1>6 DEF Next

\* Every variable keeps its type, for any set of loops, threshold and fault budget.
THEOREM TypeCorrect == Spec => []TypeOK
BY InitType, StepType, PTL DEF Spec

-----------------------------------------------------------------------------
(* Loops whose recoveries do not overlap.                                  *)

\* The startup registration and the loops never work at the same time.
Phase ==
    /\ \A l \in Loops : pc[l] \notin {"migrating", "retry", "done"}
    /\ pc[Startup] # "done" => \A l \in Loops : pc[l] = "off"
    /\ pc[Startup] \notin {"clear", "clearing"}

\* The registration token is kept until the answer is stored, what is being written is what
\* memory holds, and an answer under way is newer than everything delivered.
Secret ==
    \A a \in Actors :
        /\ pc[a] \in {"clear", "clearing", "registering", "registered"} => options.reg
        /\ pc[a] \in Writing => box[a] = options
        /\ pc[a] = "registered" => box[a].dev > delivered /\ box[a].dev <= issued
        /\ pc[a] \in {"storing", "migrating"} => options.dev # NoToken

Cause == used["torn"] > 0 \/ used["undecryptable"] > 0

\* A registration token in memory is also in agent.json or the environment, and agent.json
\* without any credential has a cause.
FileSecret ==
    /\ options.reg => ~file.ok \/ file.reg \/ env
    /\ file.ok /\ file.plain => file.dev # NoToken
    /\ ~file.ok => used["torn"] > 0
    /\ (file.ok /\ ~file.reg /\ ~env /\ file.dev = NoToken) => Cause

IInv ==
    /\ TypeOK /\ Phase /\ Secret /\ delivered <= issued /\ FileSecret
    /\ HeldIsNewest /\ CredentialLossHasCause /\ DiskKeepsUp

\* Nothing an acting service does starts from the state in which it is down.
LEMMA ActorUp ==
    ASSUME TypeOK, NEW a \in Actors, pc[a] # "off"
    PROVE  pc # Down
BY DEF TypeOK, Down

\* The frame of a step that moves one actor between phases and leaves the credentials, in
\* memory and on disk, alone.
LEMMA QuietStep ==
    ASSUME SerialRecovery, IInv, TypeOK',
           NEW a \in Actors, NEW p \in Places,
           pc[a] \notin Writing \cup {"off", "done"},
           p \notin Writing \cup {"registered", "off", "done"},
           p \in {"clear", "registering"} => options.reg,
           a \in Loops => p # "retry",
           a = Startup => p # "clear",
           Goto(a, p),
           UNCHANGED <<options, file, env, delivered>>,
           issued' = issued,
           \A b \in Actors \ {a} : box'[b] = box[b],
           \A k \in FaultKinds : used[k] > 0 => used'[k] > 0
    PROVE  IInv'
<1>1. pc'[a] = p /\ \A b \in Actors \ {a} : pc'[b] = pc[b]
  BY DEF IInv, TypeOK, Goto
<1>2. Phase'
  BY <1>1, ConstantsType DEF IInv, Phase, Actors, Writing
<1>3. Secret'
  BY <1>1 DEF IInv, Secret, Writing
<1>4. (delivered <= issued)' /\ HeldIsNewest'
  BY DEF IInv, HeldIsNewest
<1>5. FileSecret'
  BY FaultKindsMembers DEF IInv, FileSecret, Cause
<1>6. CredentialLossHasCause'
  BY ActorUp, FaultKindsMembers DEF IInv, CredentialLossHasCause
<1>7. DiskKeepsUp'
  <2>1. (\A b \in Actors : pc'[b] \notin Writing) => \A b \in Actors : pc[b] \notin Writing
    BY <1>1
  <2>2. used'["io"] = 0 => used["io"] = 0
    BY FaultKindsMembers DEF IInv, TypeOK
  <2>3. used'["undecryptable"] = 0 => used["undecryptable"] = 0
    BY FaultKindsMembers DEF IInv, TypeOK
  <2> QED
    BY <2>1, <2>2, <2>3, ActorUp DEF IInv, DiskKeepsUp
<1> QED
  BY <1>2, <1>3, <1>4, <1>5, <1>6, <1>7 DEF IInv

LEMMA InitInv == Init => IInv
<1> SUFFICES ASSUME Init PROVE IInv
  OBVIOUS
<1>1. TypeOK
  BY InitType
<1>2. \A a \in Actors : pc[a] = "off"
  BY DEF Init, Down
<1>3. file = FreshFile \/ file = BatFile
  BY DEF Init
<1>4. options = NoOptions /\ delivered = issued /\ delivered = file.dev
  BY DEF Init
<1>5. Phase /\ Secret
  BY <1>2, ConstantsType DEF Phase, Secret, Writing
<1>6. FileSecret /\ HeldIsNewest
  BY <1>3, <1>4 DEF FileSecret, HeldIsNewest, FreshFile, BatFile, NoOptions, NoToken
<1>7. CredentialLossHasCause /\ DiskKeepsUp
  BY DEF Init, CredentialLossHasCause, DiskKeepsUp
<1> QED
  BY <1>1, <1>4, <1>5, <1>6, <1>7 DEF IInv, TypeOK

\* A step that leaves the phases and the process's memory alone.
LEMMA OutsideStep ==
    ASSUME IInv, TypeOK', UNCHANGED <<pc, box, options, env, delivered>>,
           issued' >= issued,
           \A k \in FaultKinds : used[k] > 0 => used'[k] > 0,
           file' = file \/ (pc = Down /\ file' = [file EXCEPT !.reg = TRUE] /\ file.ok)
    PROVE  IInv'
<1>1. Phase'
  BY DEF IInv, Phase
<1>2. Secret'
  BY DEF IInv, Secret, TypeOK, Options
<1>3. (delivered <= issued)'
  BY DEF IInv, TypeOK
<1>4. used'["io"] = 0 => used["io"] = 0
  BY FaultKindsMembers DEF IInv, TypeOK
<1>5. used'["undecryptable"] = 0 => used["undecryptable"] = 0
  BY FaultKindsMembers DEF IInv, TypeOK
<1>6. CASE file' = file
  BY <1>1, <1>2, <1>3, <1>4, <1>5, <1>6, FaultKindsMembers
     DEF IInv, FileSecret, Cause, HeldIsNewest, CredentialLossHasCause, DiskKeepsUp
<1>7. CASE pc = Down /\ file' = [file EXCEPT !.reg = TRUE] /\ file.ok
  <2>1. file'.reg = TRUE /\ file'.ok /\ file'.dev = file.dev /\ file'.plain = file.plain
    BY <1>7 DEF IInv, TypeOK, AgentFile
  <2> QED
    BY <1>1, <1>2, <1>3, <1>7, <2>1, FaultKindsMembers
       DEF IInv, FileSecret, Cause, HeldIsNewest, CredentialLossHasCause, DiskKeepsUp
<1> QED
  BY <1>6, <1>7

\* The end of the process forgets the memory; the file is as it was, or torn.
LEMMA EndStep ==
    ASSUME IInv, TypeOK', ProcessEnds,
           \A k \in FaultKinds : used[k] > 0 => used'[k] > 0,
           file' = file \/ (~file'.ok /\ used'["torn"] > 0)
    PROVE  IInv'
<1>1. pc' = Down /\ options' = NoOptions /\ \A a \in Actors : pc'[a] = "off"
  BY DEF ProcessEnds, Down
<1>2. Phase' /\ Secret'
  BY <1>1, ConstantsType DEF Phase, Secret, Writing
<1>3. (delivered <= issued)'
  BY DEF IInv, ProcessEnds
<1>4. FileSecret'
  BY <1>1, FaultKindsMembers DEF IInv, FileSecret, Cause, NoOptions, ProcessEnds
<1>5. HeldIsNewest'
  BY <1>1 DEF IInv, HeldIsNewest, NoOptions, ProcessEnds
<1>6. CredentialLossHasCause' /\ DiskKeepsUp'
  BY <1>1 DEF CredentialLossHasCause, DiskKeepsUp
<1> QED
  BY <1>2, <1>3, <1>4, <1>5, <1>6 DEF IInv

LEMMA BootStep == ASSUME SerialRecovery, IInv, TypeOK', Boot PROVE IInv'
<1> USE FaultKindsMembers, ConstantsType
<1>1. PICK r \in BOOLEAN :
        /\ IF r THEN UNCHANGED used ELSE Spend("undecryptable")
        /\ options' = Load(r)
        /\ IF file.ok /\ file.plain
           THEN /\ pc' = [Down EXCEPT ![Startup] = "migrating"]
                /\ Hold(Startup, Load(r))
           ELSE /\ pc' = Running(Load(r))
                /\ UNCHANGED box
  BY DEF Boot
<1>2. UNCHANGED <<file, env, delivered, issued>> /\ delivered <= issued
  BY DEF Boot, IInv, server
<1>3. /\ options'.reg = (env \/ (file.ok /\ file.reg))
      /\ options'.dev = IF file.ok /\ (file.plain \/ r) THEN file.dev ELSE NoToken
  BY <1>1 DEF Load
<1>4. \A k \in FaultKinds : used[k] > 0 => used'[k] > 0
  BY <1>1, SpendType DEF IInv
<1>5. r \/ used'["undecryptable"] > 0
  BY <1>1, SpendType DEF IInv
<1>6. CASE file.ok /\ file.plain
  <2>1. pc'[Startup] = "migrating" /\ \A a \in Actors \ {Startup} : pc'[a] = "off"
    BY <1>1, <1>6 DEF Down
  <2>2. box'[Startup] = options'
    BY <1>1, <1>6 DEF Hold, IInv, TypeOK
  <2>3. options'.dev # NoToken
    BY <1>3, <1>6 DEF IInv, FileSecret
  <2>4. Phase'
    BY <2>1, LoopsAssumption DEF Phase
  <2>5. Secret'
    BY <2>1, <2>2, <2>3 DEF Secret, Writing
  <2>6. DiskKeepsUp'
    BY <2>1 DEF DiskKeepsUp, Writing
  <2>7. CredentialLossHasCause'
    BY <2>3 DEF CredentialLossHasCause
  <2> QED
    BY <1>2, <1>3, <1>4, <1>6, <2>4, <2>5, <2>6, <2>7 DEF IInv, FileSecret, Cause, HeldIsNewest
<1>7. CASE ~(file.ok /\ file.plain)
  <2>1. pc' = Running(options')
    BY <1>1, <1>7
  <2>2. /\ options'.dev = NoToken =>
             pc'[Startup] = "ensure" /\ \A a \in Actors \ {Startup} : pc'[a] = "off"
        /\ options'.dev # NoToken =>
             pc'[Startup] = "done" /\ \A a \in Actors \ {Startup} : pc'[a] = "idle"
    BY <2>1 DEF Running
  <2>3. Phase' /\ Secret'
    BY <2>2, LoopsAssumption DEF Phase, Secret, Writing
  <2>4. CredentialLossHasCause'
    BY <1>2, <1>3, <1>4, <1>5 DEF IInv, CredentialLossHasCause, FileSecret, Cause
  <2>5. DiskKeepsUp'
    <3>1. used'["undecryptable"] = 0 => r
      BY <1>5
    <3>2. file.ok /\ r => options'.dev = file.dev
      BY <1>3
    <3>3. file.ok /\ file.reg => options'.reg
      BY <1>3
    <3>4. options'.reg => file.reg \/ env
      BY <1>3
    <3> QED
      BY <1>2, <3>1, <3>2, <3>3, <3>4 DEF DiskKeepsUp
  <2> QED
    BY <1>2, <1>3, <1>4, <2>3, <2>4, <2>5 DEF IInv, FileSecret, Cause, HeldIsNewest
<1> QED
  BY <1>6, <1>7

\* Whoever changes the credentials is alone in doing so.
LEMMA ActsAlone ==
    ASSUME SerialRecovery, Phase, NEW a \in Actors, pc[a] \in Recovering \cup {"migrating"}
    PROVE  /\ \A b \in Actors \ {a} : pc[b] \notin Recovering \cup {"migrating"}
           /\ \A b \in Actors \ {a} : pc[b] \notin Writing
           /\ a = Startup => \A b \in Loops : pc[b] = "off"
           /\ a # Startup => pc[Startup] = "done"
<1>1. Writing \subseteq Recovering \cup {"migrating"}
  BY DEF Writing, Recovering
<1>2. \A b \in Actors \ {a} : pc[b] \notin Recovering \cup {"migrating"}
  <2>1. CASE a = Startup
    BY <2>1 DEF Phase, Actors, Recovering
  <2>2. CASE a # Startup
    BY <2>2 DEF Phase, Actors, Recovering, SerialRecovery
  <2> QED
    BY <2>1, <2>2
<1>3. a = Startup => \A b \in Loops : pc[b] = "off"
  BY DEF Phase, Recovering
<1>4. a # Startup => pc[Startup] = "done"
  BY DEF Phase, Actors, Recovering
<1> QED
  BY <1>1, <1>2, <1>3, <1>4

LEMMA LoopStepInv ==
    ASSUME SerialRecovery, IInv, TypeOK', NEW l \in Loops, LoopStep(l) PROVE IInv'
<1> USE ConstantsType, LoopsAssumption
<1>1. CASE LoopCalls(l)
  <2>1. \A b \in Actors \ {l} : box'[b] = box[b]
    BY <1>1 DEF LoopCalls, Hold, IInv, TypeOK
  <2> QED
    BY <1>1, <2>1, QuietStep DEF LoopCalls, Places, Writing, server, memory
<1>2. CASE ServerAuthenticates(l)
  <2>1. PICK p \in {"accepted", "denied"} : Goto(l, p)
    BY <1>2 DEF ServerAuthenticates
  <2>2. \A b \in Actors \ {l} : box'[b] = box[b]
    BY <1>2, DropType DEF ServerAuthenticates, IInv
  <2> QED
    BY <1>2, <2>1, <2>2, QuietStep DEF ServerAuthenticates, Places, Writing, server, memory
<1>3. CASE OperationSucceeds(l)
  BY <1>3, QuietStep DEF OperationSucceeds, Places, Writing, server
<1>4. CASE LoadUnauthorized(l)
  BY <1>4, QuietStep DEF LoadUnauthorized, Places, Writing, server, memory
<1>5. CASE StoreUnauthorized(l)
  BY <1>5, QuietStep DEF StoreUnauthorized, Places, Writing, server
<1>6. CASE DecideRecovery(l)
  <2>1. PICK p \in {"idle", "recovering"} : Goto(l, p)
    BY <1>6 DEF DecideRecovery
  <2> QED
    BY <1>6, <2>1, QuietStep DEF DecideRecovery, Places, Writing, server
<1>7. CASE RecoverDeviceToken(l)
  <2>1. PICK p \in {"idle", "clear"} : Goto(l, p) /\ (p = "clear" => options.reg)
    BY <1>7 DEF RecoverDeviceToken
  <2> QED
    BY <1>7, <2>1, QuietStep DEF RecoverDeviceToken, Places, Writing, server
<1>8. CASE ClearDeviceToken(l)
  <2>1. pc[l] = "clear" /\ pc'[l] = "clearing" /\ \A b \in Actors \ {l} : pc'[b] = pc[b]
    BY <1>8 DEF ClearDeviceToken, Goto, IInv, TypeOK
  <2>2. box'[l] = options'
    BY <1>8 DEF ClearDeviceToken, IInv, TypeOK
  <2>3. options.reg /\ options' = Cleared(options) /\ used' = used
    BY <1>8 DEF ClearDeviceToken, IInv, Secret
  <2>4. UNCHANGED <<file, env, delivered, issued>>
    BY <1>8 DEF ClearDeviceToken, server
  <2>9. options'.reg = options.reg /\ options'.dev = NoToken
    BY <2>3 DEF Cleared, IInv, TypeOK, Options
  <2>5. Phase'
    BY <2>1 DEF IInv, Phase, Actors
  <2>6. Secret'
    <3>1. \A b \in Actors \ {l} : pc'[b] \notin Recovering \cup {"migrating"}
      BY <2>1, ActsAlone DEF IInv, Recovering
    <3> QED
      BY <2>1, <2>2, <2>3, <2>9, <3>1 DEF Secret, Writing, Recovering
  <2>7. FileSecret' /\ HeldIsNewest' /\ (delivered <= issued)'
    BY <2>3, <2>4, <2>9 DEF IInv, FileSecret, Cause, HeldIsNewest
  <2>8. CredentialLossHasCause' /\ DiskKeepsUp'
    BY <2>1, <2>3, <2>9 DEF CredentialLossHasCause, DiskKeepsUp, Writing
  <2> QED
    BY <2>5, <2>6, <2>7, <2>8 DEF IInv
<1> QED
  BY <1>1, <1>2, <1>3, <1>4, <1>5, <1>6, <1>7, <1>8 DEF LoopStep

LEMMA WriteFileStep ==
    ASSUME SerialRecovery, IInv, TypeOK', NEW a \in Actors, WriteFile(a) PROVE IInv'
<1> USE ConstantsType
<1>1. box[a] = options /\ pc[a] \in Writing /\ UNCHANGED <<options, env, delivered, issued, used>>
  BY DEF WriteFile, IInv, Secret, server, memory
<1>2. file'.ok /\ file'.reg = options.reg /\ file'.dev = options.dev /\ ~file'.plain
  BY <1>1 DEF WriteFile, Written
<1>3. options.dev # NoToken \/ options.reg
  BY <1>1 DEF IInv, Secret, Writing
<1>4. FileSecret' /\ HeldIsNewest' /\ (delivered <= issued)'
  BY <1>1, <1>2, <1>3 DEF IInv, FileSecret, HeldIsNewest
<1>5. CredentialLossHasCause'
  BY <1>1, <1>3 DEF CredentialLossHasCause
<1>6. DiskKeepsUp'
  BY <1>1, <1>2 DEF DiskKeepsUp
<1>7. Phase' /\ Secret'
  <2>1. CASE pc[a] \in {"clearing", "storing"}
    <3>1. PICK p \in {"ensure", "enrolled"} : pc' = [pc EXCEPT ![a] = p]
      BY <2>1 DEF WriteFile, AfterWrite
    <3>2. pc'[a] = p /\ \A b \in Actors \ {a} : pc'[b] = pc[b]
      BY <3>1 DEF IInv, TypeOK
    <3>3. \A b \in Actors \ {a} : pc[b] \notin Recovering \cup {"migrating"}
      BY <2>1, ActsAlone DEF IInv, Recovering
    <3>4. Phase'
      BY <2>1, <3>1, <3>2 DEF IInv, Phase, Actors
    <3>5. Secret'
      BY <3>1, <3>2, <3>3 DEF Secret, Writing, Recovering
    <3> QED
      BY <3>4, <3>5
  <2>2. CASE pc[a] = "migrating"
    <3>1. pc' = Running(options)
      BY <2>2 DEF WriteFile, AfterWrite
    <3>2. pc'[Startup] = "done" /\ \A b \in Actors \ {Startup} : pc'[b] = "idle"
      BY <2>2, <3>1 DEF Running, IInv, Secret
    <3> QED
      BY <3>2, LoopsAssumption DEF Phase, Secret, Writing
  <2> QED
    BY <1>1, <2>1, <2>2 DEF Writing
<1> QED
  BY <1>4, <1>5, <1>6, <1>7 DEF IInv

LEMMA StoreStep ==
    ASSUME SerialRecovery, IInv, TypeOK', NEW a \in Actors, StoreDeviceToken(a) PROVE IInv'
<1> USE ConstantsType
<1>1. pc[a] = "registered" /\ options.reg /\ box[a].dev > delivered /\ box[a].dev <= issued
  BY DEF StoreDeviceToken, IInv, Secret
<1>2. /\ options' = Stored(box[a].dev) /\ UNCHANGED <<file, env, issued, used>>
      /\ pc'[a] = "storing" /\ \A b \in Actors \ {a} : pc'[b] = pc[b]
      /\ box'[a] = options'
  BY DEF StoreDeviceToken, Goto, Hold, IInv, TypeOK, server
<1>3. options'.reg = FALSE /\ options'.dev = box[a].dev
  BY <1>2 DEF Stored
<1>4. delivered' = box[a].dev
  BY <1>1 DEF StoreDeviceToken
<1>5. options'.dev # NoToken /\ (delivered <= issued)'
  BY <1>1, <1>2, <1>3, <1>4 DEF IInv, TypeOK, NoToken
<1>6. \A b \in Actors \ {a} : pc[b] \notin Recovering \cup {"migrating"}
  BY <1>1, ActsAlone DEF IInv, Recovering
<1>7. Phase' /\ Secret'
  <2>1. Phase'
    BY <1>1, <1>2 DEF IInv, Phase, Actors
  <2>2. Secret'
    BY <1>2, <1>5, <1>6 DEF Secret, Writing, Recovering
  <2> QED
    BY <2>1, <2>2
<1>8. FileSecret'
  BY <1>2, <1>3 DEF IInv, FileSecret, Cause
<1>9. HeldIsNewest'
  BY <1>1, <1>2, <1>3, <1>4 DEF IInv, FileSecret, HeldIsNewest
<1>10. CredentialLossHasCause' /\ DiskKeepsUp'
  BY <1>2, <1>5 DEF CredentialLossHasCause, DiskKeepsUp, Writing
<1> QED
  BY <1>5, <1>7, <1>8, <1>9, <1>10 DEF IInv

LEMMA EnrollStepInv ==
    ASSUME SerialRecovery, IInv, TypeOK', NEW a \in Actors, EnrollStep(a) PROVE IInv'
<1> USE ConstantsType
<1>1. CASE WriteFile(a)
  BY <1>1, WriteFileStep
<1>2. CASE EnsureRegistered(a)
  <2>1. PICK p \in {"enrolled", "registering", "retry", "idle"} :
          /\ Goto(a, p)
          /\ p = "registering" => options.reg
          /\ a \in Loops => p # "retry"
    BY <1>2, LoopsAssumption DEF EnsureRegistered, RegistrationFailed
  <2> QED
    BY <1>2, <2>1, QuietStep DEF EnsureRegistered, Places, Writing, server
<1>3. CASE ServerRegisters(a)
  <2>1. pc'[a] = "registered" /\ \A b \in Actors \ {a} : pc'[b] = pc[b]
    BY <1>3 DEF ServerRegisters, Goto, IInv, TypeOK
  <2>2. box'[a].dev = issued + 1 /\ issued' = issued + 1
        /\ \A b \in Actors \ {a} : box'[b] = box[b]
    BY <1>3 DEF ServerRegisters, IssueToken, Hold, IInv, TypeOK
  <2>3. UNCHANGED <<options, file, env, delivered, used>>
    BY <1>3 DEF ServerRegisters, memory
  <2>4. pc[a] = "registering" /\ options.reg
    BY <1>3 DEF ServerRegisters, IInv, Secret
  <2>5. \A b \in Actors \ {a} : pc[b] \notin Recovering \cup {"migrating"}
    BY <2>4, ActsAlone DEF IInv, Recovering
  <2>6. (delivered <= issued)' /\ delivered < issued'
    BY <2>2, <2>3 DEF IInv, TypeOK
  <2>7. Phase' /\ Secret'
    <3>1. Phase'
      BY <2>1, <2>4 DEF IInv, Phase, Actors
    <3>2. Secret'
      BY <2>1, <2>2, <2>3, <2>4, <2>5, <2>6 DEF Secret, Writing, Recovering, IInv, TypeOK
    <3> QED
      BY <3>1, <3>2
  <2>8. FileSecret' /\ HeldIsNewest' /\ CredentialLossHasCause'
    BY <2>3, <2>4, ActorUp DEF IInv, FileSecret, Cause, HeldIsNewest, CredentialLossHasCause
  <2>9. DiskKeepsUp'
    <3>1. \A b \in Actors : pc[b] \notin Writing
      BY <2>4, <2>5 DEF Writing, Recovering
    <3> QED
      BY <2>3, <2>4, <3>1, ActorUp DEF IInv, DiskKeepsUp
  <2> QED
    BY <2>6, <2>7, <2>8, <2>9 DEF IInv
<1>4. CASE StoreDeviceToken(a)
  BY <1>4, StoreStep
<1>5. CASE RegistrationSucceeds(a)
  <2>1. CASE a \in Loops
    <3>1. a # Startup
      BY <2>1, LoopsAssumption
    <3> QED
      BY <1>5, <2>1, <3>1, QuietStep DEF RegistrationSucceeds, Places, Writing, server
  <2>2. CASE a = Startup
    <3>1. pc'[Startup] = "done" /\ \A b \in Actors \ {Startup} : pc'[b] = "idle"
      BY <1>5, <2>2 DEF RegistrationSucceeds
    <3>2. pc[Startup] = "enrolled" /\ \A b \in Actors : pc[b] \notin Writing
      BY <1>5, <2>2 DEF RegistrationSucceeds, IInv, Phase, Actors, Writing
    <3>3. UNCHANGED <<options, file, env, delivered, issued, used>>
      BY <1>5 DEF RegistrationSucceeds, server
    <3>4. Phase' /\ Secret'
      BY <3>1, LoopsAssumption DEF Phase, Secret, Writing
    <3>5. FileSecret' /\ HeldIsNewest' /\ (delivered <= issued)'
      BY <3>3 DEF IInv, FileSecret, Cause, HeldIsNewest
    <3>6. CredentialLossHasCause' /\ DiskKeepsUp'
      BY <3>2, <3>3, ActorUp DEF IInv, CredentialLossHasCause, DiskKeepsUp
    <3> QED
      BY <3>4, <3>5, <3>6 DEF IInv
  <2> QED
    BY <2>1, <2>2 DEF Actors
<1> QED
  BY <1>1, <1>2, <1>3, <1>4, <1>5 DEF EnrollStep

LEMMA RetryStep == ASSUME SerialRecovery, IInv, TypeOK', RetryStartup PROVE IInv'
<1> USE ConstantsType
<1>1. pc[Startup] = "retry" /\ pc' = Running(options)
      /\ UNCHANGED <<options, file, env, delivered, issued, used, box>>
  BY DEF RetryStartup, server, memory
<1>2. \A b \in Actors : pc[b] \notin Writing
  BY <1>1 DEF IInv, Phase, Actors, Writing
<1>3. /\ options.dev = NoToken =>
           pc'[Startup] = "ensure" /\ \A b \in Actors \ {Startup} : pc'[b] = "off"
      /\ options.dev # NoToken =>
           pc'[Startup] = "done" /\ \A b \in Actors \ {Startup} : pc'[b] = "idle"
  BY <1>1 DEF Running
<1>4. Phase' /\ Secret'
  BY <1>3, LoopsAssumption DEF Phase, Secret, Writing
<1>5. FileSecret' /\ HeldIsNewest' /\ (delivered <= issued)'
  BY <1>1 DEF IInv, FileSecret, Cause, HeldIsNewest
<1>6. CredentialLossHasCause' /\ DiskKeepsUp'
  BY <1>1, <1>2, ActorUp DEF IInv, CredentialLossHasCause, DiskKeepsUp
<1> QED
  BY <1>4, <1>5, <1>6 DEF IInv

LEMMA WriteFailsStep ==
    ASSUME SerialRecovery, IInv, TypeOK', NEW a \in Actors, WriteFails(a) PROVE IInv'
<1> USE ConstantsType, FaultKindsMembers
<1>0. pc[a] \in Writing /\ pc[a] \in Recovering \cup {"migrating"}
  BY DEF WriteFails, Writing, Recovering
<1>1. /\ \A b \in Actors \ {a} : pc[b] \notin Recovering \cup {"migrating"}
      /\ \A b \in Actors \ {a} : pc[b] \notin Writing
  BY <1>0, ActsAlone DEF IInv
<1>2. (Spend("io") /\ file' = file) \/ (Spend("torn") /\ file' = TornFile)
  BY <1>1 DEF WriteFails
<1>3. /\ (used'["io"] > 0 /\ file' = file) \/ (used'["torn"] > 0 /\ ~file'.ok)
      /\ \A k \in FaultKinds : used[k] > 0 => used'[k] > 0
  BY <1>2, SpendType DEF IInv, TornFile
<1>4. UNCHANGED <<issued, env, delivered>> /\ \A b \in Actors \ {a} : box'[b] = box[b]
  BY DropType DEF WriteFails, server, IInv
<1>5. DiskKeepsUp'
  BY <1>3 DEF DiskKeepsUp
<1>6. CASE options' = options /\ \E p \in {"dead", "retry", "idle"} :
             Goto(a, p) /\ (a \in Loops => p # "retry") /\ (a = Startup => p = "retry")
  <2>1. PICK p \in {"dead", "retry", "idle"} :
          Goto(a, p) /\ (a \in Loops => p # "retry") /\ (a = Startup => p = "retry")
    BY <1>6
  <2>2. pc'[a] = p /\ \A b \in Actors \ {a} : pc'[b] = pc[b]
    BY <2>1 DEF Goto, IInv, TypeOK
  <2>3. Phase' /\ Secret'
    <3>1. Phase'
      BY <1>0, <2>1, <2>2 DEF IInv, Phase, Actors, Writing
    <3>2. Secret'
      BY <1>1, <2>1, <2>2 DEF Secret, Writing, Recovering
    <3> QED
      BY <3>1, <3>2
  <2>4. FileSecret' /\ HeldIsNewest' /\ (delivered <= issued)'
    BY <1>3, <1>4, <1>6 DEF IInv, FileSecret, Cause, HeldIsNewest
  <2>5. CredentialLossHasCause'
    BY <1>0, <1>3, <1>6, ActorUp DEF IInv, CredentialLossHasCause, Writing
  <2> QED
    BY <1>5, <2>3, <2>4, <2>5 DEF IInv
<1>7. CASE pc' = Down /\ options' = NoOptions
  <2>1. \A b \in Actors : pc'[b] = "off"
    BY <1>7 DEF Down
  <2>2. Phase' /\ Secret'
    BY <2>1 DEF Phase, Secret, Writing
  <2>3. FileSecret' /\ HeldIsNewest' /\ (delivered <= issued)'
    BY <1>3, <1>4, <1>7 DEF IInv, FileSecret, Cause, HeldIsNewest, NoOptions
  <2>4. CredentialLossHasCause'
    BY <1>7 DEF CredentialLossHasCause
  <2> QED
    BY <1>5, <2>2, <2>3, <2>4 DEF IInv
<1>8. pc[a] = "clearing" => a # Startup
  BY DEF IInv, Phase
<1> QED
  BY <1>6, <1>7, <1>8, LoopsAssumption DEF WriteFails, RegistrationFailed, memory, Actors

LEMMA FaultStepInv == ASSUME SerialRecovery, IInv, TypeOK', FaultStep PROVE IInv'
<1> USE ConstantsType, FaultKindsMembers
<1>1. ASSUME NEW l \in Loops, OperationFails(l) PROVE IInv'
  <2>1. \A k \in FaultKinds : used[k] > 0 => used'[k] > 0
    BY <1>1, SpendType DEF OperationFails, IInv
  <2>2. \A b \in Actors \ {l} : box'[b] = box[b]
    BY <1>1, DropType DEF OperationFails, IInv
  <2> QED
    BY <1>1, <2>1, <2>2, LoopsAssumption, QuietStep DEF OperationFails, Places, Writing, server
<1>2. ASSUME NEW a \in Actors, WriteFails(a) PROVE IInv'
  BY <1>2, WriteFailsStep
<1>3. ASSUME NEW a \in Actors, RegistrationFails(a) PROVE IInv'
  <2>1. PICK p \in {"retry", "idle"} : Goto(a, p) /\ (a \in Loops => p # "retry")
    BY <1>3, LoopsAssumption DEF RegistrationFails, RegistrationFailed
  <2>3. \A b \in Actors \ {a} : box'[b] = box[b]
    BY <1>3, DropType DEF RegistrationFails, IInv
  <2>2. \A k \in FaultKinds : used[k] > 0 => used'[k] > 0
    BY <1>3, SpendType DEF RegistrationFails, IInv
  <2> QED
    BY <1>3, <2>1, <2>2, <2>3, QuietStep DEF RegistrationFails, Places, Writing
<1>4. CASE Revoke
  <2>1. \A k \in FaultKinds : used[k] > 0 => used'[k] > 0
    BY <1>4, SpendType DEF Revoke, IInv
  <2> QED
    BY <1>4, <2>1, OutsideStep DEF Revoke, memory, IInv, TypeOK
<1>5. CASE LateRegistration
  BY <1>5, OutsideStep DEF LateRegistration, IssueToken, memory, IInv, TypeOK
<1>6. CASE Crash
  <2>1. \A k \in FaultKinds : used[k] > 0 => used'[k] > 0
    BY <1>6, SpendType DEF Crash, IInv
  <2> QED
    BY <1>6, <2>1, EndStep DEF Crash
<1>7. CASE TornWrite
  <2>1. used'["torn"] > 0 /\ \A k \in FaultKinds : used[k] > 0 => used'[k] > 0
    BY <1>7, SpendType DEF TornWrite, IInv
  <2> QED
    BY <1>7, <2>1, EndStep DEF TornWrite, TornFile
<1>8. CASE Reinstall
  <2>1. \A k \in FaultKinds : used[k] > 0 => used'[k] > 0
    BY <1>8, SpendType DEF Reinstall, IInv
  <2> QED
    BY <1>8, <2>1, OutsideStep DEF Reinstall, server, memory, IInv, TypeOK
<1> QED
  BY <1>1, <1>2, <1>3, <1>4, <1>5, <1>6, <1>7, <1>8 DEF FaultStep

LEMMA StepInv == SerialRecovery /\ IInv /\ [Next]_vars => IInv'
<1> SUFFICES ASSUME SerialRecovery, IInv, [Next]_vars PROVE IInv'
  OBVIOUS
<1>1. TypeOK'
  BY StepType DEF IInv
<1>2. CASE Next
  BY <1>1, <1>2, BootStep, RetryStep, LoopStepInv, EnrollStepInv, FaultStepInv DEF Next
<1>3. CASE UNCHANGED vars
  BY <1>1, <1>3, OutsideStep DEF vars, IInv, TypeOK
<1> QED
  BY <1>2, <1>3

LEMMA SerialInv == Spec /\ []SerialRecovery => []IInv
<1>1. Init => IInv
  BY InitInv
<1>2. SerialRecovery /\ IInv /\ [Next]_vars => IInv'
  BY StepInv
<1> QED
  BY <1>1, <1>2, PTL DEF Spec

\* Whatever fails, and however many loops there are, as long as recoveries do not overlap a
\* device without its registration token holds the newest device token that reached it, in
\* memory and in agent.json: registering and recovering (AgentClient.cs:24-42,
\* Worker.cs:72-85) do not leave it with a superseded token.
THEOREM SerialRecoveryHoldsNewest == Spec => SerialHoldsNewest
<1>1. IInv => HeldIsNewest
  BY DEF IInv
<1> QED
  BY <1>1, SerialInv, PTL DEF SerialHoldsNewest

\* Under the same assumption only a torn agent.json or an undecryptable token leaves a
\* running device without any credential.
THEOREM SerialKeepsCredential == Spec /\ []SerialRecovery => []CredentialLossHasCause
<1>1. IInv => CredentialLossHasCause
  BY DEF IInv
<1> QED
  BY <1>1, SerialInv, PTL

\* And agent.json and AgentState.Options agree whenever no write is under way and none has
\* failed.
THEOREM SerialDiskKeepsUp == Spec /\ []SerialRecovery => []DiskKeepsUp
<1>1. IInv => DiskKeepsUp
  BY DEF IInv
<1> QED
  BY <1>1, SerialInv, PTL
=============================================================================
