-------------------------- MODULE DeviceEnrollment --------------------------
(***************************************************************************)
(* How one managed PC obtains, keeps, loses and recovers its device token. *)
(*                                                                         *)
(* The Windows service (agent/Worker.cs) first registers, then runs three  *)
(* concurrent loops (inventory, heartbeat, update check) that all present  *)
(* the device token held in AgentState.Options.  After three HTTP 401      *)
(* answers the loop that saw the third one clears the device token and     *)
(* registers again, if a registration token is still at hand.  The loops   *)
(* share Options, agent.json and the counter of 401 answers without a      *)
(* lock.  The server keeps the hash of one device token per agent and      *)
(* every registration replaces it.                                         *)
(*                                                                         *)
(* A step ends where the code awaits or does I/O.  Data is abstracted:     *)
(* device tokens are numbered in the order the server issues them, 0 is    *)
(* "no token"; a registration token is present or absent, the placeholder  *)
(* "change-me" being absent.                                               *)
(***************************************************************************)
EXTENDS Naturals, FiniteSets

CONSTANTS
    Loops,                  \* the concurrent operations of ExecuteAsync
    Startup,                \* the registration that precedes them; also "등록" in the health map
    UnauthorizedThreshold,  \* 401 answers before recovery
    EnvTokens,              \* possible presence of ASSETFLOW_REGISTRATION_TOKEN
    FaultBudget             \* how often each kind of fault may happen

FaultKinds == {"revoke", "lost", "crash", "torn", "io", "undecryptable", "reinstall", "stale"}

ASSUME LoopsAssumption == Startup \notin Loops /\ IsFiniteSet(Loops)
ASSUME ThresholdAssumption == UnauthorizedThreshold \in Nat \ {0}
ASSUME EnvAssumption == EnvTokens \subseteq BOOLEAN
ASSUME BudgetAssumption == FaultBudget \in [FaultKinds -> Nat]

Actors == Loops \cup {Startup}
NoToken == 0

VARIABLES
    serverToken,   \* device token whose hash is in the agent row, NoToken if none
    issued,        \* number of device tokens issued so far
    orphans,       \* registrations the agent gave up on that the server may still process
    pc,            \* what each actor is doing
    box,           \* options an actor sent, received or is writing, until it is done with them
    seen,          \* value of the 401 counter a loop has loaded, until it has stored the next
    options,       \* AgentState.Options
    unauthorized,  \* Worker.unauthorized, saturated at the threshold
    health,        \* last outcome of each operation in AgentHealth
    file,          \* agent.json
    env,           \* ASSETFLOW_REGISTRATION_TOKEN is set
    delivered,     \* history: newest device token that reached the device
    used           \* faults so far, by kind

server == <<serverToken, issued, orphans>>
memory == <<options, unauthorized, health>>
vars == <<serverToken, issued, orphans, pc, box, seen, options, unauthorized,
          health, file, env, delivered, used>>

Options == [reg : BOOLEAN, dev : Nat]
AgentFile == [ok : BOOLEAN, reg : BOOLEAN, dev : Nat, plain : BOOLEAN]
Writing == {"clearing", "storing", "migrating"}
Places == {"off", "idle", "called", "accepted", "denied", "counting", "deciding",
           "recovering", "clear", "ensure", "registering", "registered",
           "enrolled", "retry", "done", "dead"} \cup Writing
Outcomes == {"unset", "ok", "error", "reenroll"}

NoOptions == [reg |-> FALSE, dev |-> NoToken]
Down == [a \in Actors |-> "off"]
Unset == [a \in Actors |-> "unset"]

\* The installers: install-service.ps1 leaves only the registration token (and keeps the
\* device token of a device enrolled before); install-service.bat registers by itself
\* and writes both tokens, the device token in clear.
FreshFile == [ok |-> TRUE, reg |-> TRUE, dev |-> NoToken, plain |-> FALSE]
BatFile == [ok |-> TRUE, reg |-> TRUE, dev |-> 1, plain |-> TRUE]

Init ==
    /\ file \in {FreshFile, BatFile}
    /\ issued = file.dev /\ serverToken = file.dev /\ delivered = file.dev
    /\ orphans = 0
    /\ env \in EnvTokens
    /\ pc = Down
    /\ box = [a \in Actors |-> NoOptions]
    /\ seen = [l \in Loops |-> 0]
    /\ options = NoOptions
    /\ unauthorized = 0
    /\ health = Unset
    /\ used = [k \in FaultKinds |-> 0]

-----------------------------------------------------------------------------
Goto(a, p) == pc' = [pc EXCEPT ![a] = p]
Hold(a, o) == box' = [box EXCEPT ![a] = o]
Drop(a) == Hold(a, NoOptions)
Report(a, h) == health' = [health EXCEPT ![a] = h]
Spend(k) == used[k] < FaultBudget[k] /\ used' = [used EXCEPT ![k] = @ + 1]

\* ExecuteAsync once the constructor has run: register while there is no device token,
\* then start the loops.
Running(o) ==
    IF o.dev = NoToken
    THEN [a \in Actors |-> IF a = Startup THEN "ensure" ELSE "off"]
    ELSE [a \in Actors |-> IF a = Startup THEN "done" ELSE "idle"]

\* The AgentState constructor.  A file that is not JSON is ignored, a protected token that
\* cannot be decrypted is dropped, the environment wins over the file, and a plaintext
\* device token is rewritten at once.
Load(readable) ==
    [reg |-> env \/ (file.ok /\ file.reg),
     dev |-> IF file.ok /\ (file.plain \/ readable) THEN file.dev ELSE NoToken]

Boot ==
    /\ pc = Down
    /\ \E readable \in BOOLEAN :
         /\ IF readable THEN UNCHANGED used ELSE Spend("undecryptable")
         /\ options' = Load(readable)
         /\ IF file.ok /\ file.plain
            THEN /\ pc' = [Down EXCEPT ![Startup] = "migrating"]
                 /\ Hold(Startup, Load(readable))
            ELSE /\ pc' = Running(Load(readable))
                 /\ UNCHANGED box
    /\ UNCHANGED <<server, seen, unauthorized, health, file, env, delivered>>

-----------------------------------------------------------------------------
(* One round of a loop: Authorized reads the token, the server checks it.  *)

LoopCalls(l) ==
    /\ pc[l] = "idle"
    /\ Goto(l, "called")
    /\ Hold(l, options)
    /\ UNCHANGED <<server, seen, memory, file, env, delivered, used>>

Authenticated(t) == t # NoToken /\ t = serverToken

ServerAuthenticates(l) ==
    /\ pc[l] = "called"
    /\ Goto(l, IF Authenticated(box[l].dev) THEN "accepted" ELSE "denied")
    /\ Drop(l)
    /\ UNCHANGED <<server, seen, memory, file, env, delivered, used>>

OperationSucceeds(l) ==
    /\ pc[l] = "accepted"
    /\ Report(l, "ok")
    /\ unauthorized' = 0
    /\ Goto(l, "idle")
    /\ UNCHANGED <<server, box, seen, options, file, env, delivered, used>>

\* No answer, or one that is neither success nor 401.
OperationFails(l) ==
    /\ pc[l] \in {"called", "accepted", "denied"}
    /\ Spend("lost")
    /\ Report(l, "error")
    /\ Goto(l, "idle") /\ Drop(l)
    /\ UNCHANGED <<server, seen, options, unauthorized, file, env, delivered>>

\* unauthorized++ is a load and a store of a field the loops share without a lock.
LoadUnauthorized(l) ==
    /\ pc[l] = "denied"
    /\ seen' = [seen EXCEPT ![l] = unauthorized]
    /\ Goto(l, "counting")
    /\ UNCHANGED <<server, box, memory, file, env, delivered, used>>

Incremented(n) == IF n < UnauthorizedThreshold THEN n + 1 ELSE UnauthorizedThreshold

StoreUnauthorized(l) ==
    /\ pc[l] = "counting"
    /\ unauthorized' = Incremented(seen[l])
    /\ seen' = [seen EXCEPT ![l] = 0]
    /\ Goto(l, "deciding")
    /\ UNCHANGED <<server, box, options, health, file, env, delivered, used>>

\* Mutant: recovery is never attempted.
AlwaysBelow == TRUE

BelowThreshold == unauthorized < UnauthorizedThreshold

DecideRecovery(l) ==
    /\ pc[l] = "deciding"
    /\ IF BelowThreshold
       THEN Goto(l, "idle") /\ Report(l, "error")
       ELSE Goto(l, "recovering") /\ UNCHANGED health
    /\ UNCHANGED <<server, box, seen, options, unauthorized, file, env, delivered, used>>

-----------------------------------------------------------------------------
(* RecoverDeviceToken.                                                     *)

\* Mutant: giving up is recorded as a success.
ReportSuccess(l) == Report(l, "ok")

ReportReenroll(l) == Report(l, "reenroll")

RecoverDeviceToken(l) ==
    /\ pc[l] = "recovering"
    /\ IF options.reg
       THEN Goto(l, "clear") /\ UNCHANGED health
       ELSE Goto(l, "idle") /\ ReportReenroll(l)
    /\ UNCHANGED <<server, box, seen, options, unauthorized, file, env, delivered, used>>

\* Mutant: both tokens are cleared.
ClearedEntirely(o) == [o EXCEPT !.dev = NoToken, !.reg = FALSE]

Cleared(o) == [o EXCEPT !.dev = NoToken]

\* Save(Options with DeviceToken = null) sets Options first and writes agent.json afterwards.
\* Options is read, copied and set without a lock: of two loops in recovery the copy of the one
\* may be older than what the other has stored meanwhile, and brings the registration token back.
ClearDeviceToken(l) ==
    /\ pc[l] = "clear"
    /\ \/ options' = Cleared(options) /\ UNCHANGED used
       \/ ~options.reg /\ Spend("stale") /\ options' = Cleared([options EXCEPT !.reg = TRUE])
    /\ box' = [box EXCEPT ![l] = options']
    /\ Goto(l, "clearing")
    /\ UNCHANGED <<server, seen, unauthorized, health, file, env, delivered>>

AfterWrite(a) ==
    CASE pc[a] = "clearing" -> [pc EXCEPT ![a] = "ensure"]
      [] pc[a] = "storing" -> [pc EXCEPT ![a] = "enrolled"]
      [] pc[a] = "migrating" -> Running(options)

\* Mutant: an absent device token is not written over the one in the file.
KeepOldToken(o) == [ok |-> TRUE, reg |-> o.reg, plain |-> FALSE,
                    dev |-> IF o.dev = NoToken THEN file.dev ELSE o.dev]

Written(o) == [ok |-> TRUE, reg |-> o.reg, dev |-> o.dev, plain |-> FALSE]

WriteFile(a) ==
    /\ pc[a] \in Writing
    /\ file' = Written(box[a])
    /\ pc' = AfterWrite(a) /\ Drop(a)
    /\ UNCHANGED <<server, seen, memory, env, delivered, used>>

\* Registration failed: the outcome is kept under "등록"; a loop waits for its next round,
\* the startup registration for a minute.
RegistrationFailed(a) ==
    /\ Report(Startup, "error")
    /\ Goto(a, IF a = Startup THEN "retry" ELSE "idle")

TornFile == [ok |-> FALSE, reg |-> FALSE, dev |-> NoToken, plain |-> FALSE]

\* File.WriteAllText throws: a sharing violation with another writer, or an I/O error before or
\* after it has truncated the file.  While clearing, the exception leaves RunOperation and ends
\* the loop; while storing it is an ordinary registration failure; in the constructor it ends
\* the process.
WriteFails(a) ==
    /\ pc[a] \in Writing
    /\ \/ (\E b \in Actors \ {a} : pc[b] \in Writing) /\ UNCHANGED <<file, used>>
       \/ Spend("io") /\ UNCHANGED file
       \/ Spend("torn") /\ file' = TornFile
    /\ \/ pc[a] = "clearing" /\ Goto(a, "dead") /\ UNCHANGED memory
       \/ pc[a] = "storing" /\ RegistrationFailed(a) /\ UNCHANGED <<options, unauthorized>>
       \/ pc[a] = "migrating" /\ pc' = Down /\ options' = NoOptions
             /\ UNCHANGED <<unauthorized, health>>
    /\ Drop(a)
    /\ UNCHANGED <<server, seen, env, delivered>>

-----------------------------------------------------------------------------
(* EnsureRegistered and POST /api/v1/agents/register.                      *)

EnsureRegistered(a) ==
    /\ pc[a] = "ensure"
    /\ \/ options.dev # NoToken /\ Goto(a, "enrolled") /\ UNCHANGED health
       \/ options.dev = NoToken /\ ~options.reg /\ RegistrationFailed(a)
       \/ options.dev = NoToken /\ options.reg /\ Goto(a, "registering") /\ UNCHANGED health
    /\ UNCHANGED <<server, box, seen, options, unauthorized, file, env, delivered, used>>

\* The server issues a fresh token and stores its hash in place of the previous one.
IssueToken == issued' = issued + 1 /\ serverToken' = issued + 1

ServerRegisters(a) ==
    /\ pc[a] = "registering"
    /\ IssueToken
    /\ Hold(a, [reg |-> FALSE, dev |-> issued + 1])
    /\ Goto(a, "registered")
    /\ UNCHANGED <<orphans, seen, memory, file, env, delivered, used>>

\* The registration is refused, times out or loses its answer.
RegistrationFails(a) ==
    /\ pc[a] \in {"registering", "registered"}
    /\ Spend("lost")
    /\ RegistrationFailed(a) /\ Drop(a)
    /\ orphans' = IF pc[a] = "registering" THEN orphans + 1 ELSE orphans
    /\ UNCHANGED <<serverToken, issued, seen, options, unauthorized, file, env, delivered>>

\* Mutant: the registration token is discarded and the answer's device token is not taken.
StoredWithoutAnswer(answer) == [options EXCEPT !.reg = FALSE]

Stored(answer) == [reg |-> FALSE, dev |-> answer]

\* Save(Options with RegistrationToken = null): in memory first.
StoreDeviceToken(a) ==
    /\ pc[a] = "registered"
    /\ options' = Stored(box[a].dev)
    /\ Hold(a, Stored(box[a].dev))
    /\ delivered' = IF box[a].dev > delivered THEN box[a].dev ELSE delivered
    /\ Goto(a, "storing")
    /\ UNCHANGED <<server, seen, unauthorized, health, file, env, used>>

\* Mutant: a successful registration leaves the registration error in place.
ReportNothing == UNCHANGED health

ReportEnrolled == Report(Startup, "ok")

RegistrationSucceeds(a) ==
    /\ pc[a] = "enrolled"
    /\ ReportEnrolled
    /\ IF a = Startup
       THEN /\ pc' = [b \in Actors |-> IF b = Startup THEN "done" ELSE "idle"]
            /\ UNCHANGED unauthorized
       ELSE Goto(a, "idle") /\ unauthorized' = 0
    /\ UNCHANGED <<server, box, seen, options, file, env, delivered, used>>

RetryStartup ==
    /\ pc[Startup] = "retry"
    /\ pc' = Running(options)
    /\ UNCHANGED <<server, box, seen, memory, file, env, delivered, used>>

-----------------------------------------------------------------------------
(* Faults.                                                                 *)

\* A revocation, or a database restore that brings an earlier token hash back.
Revoke ==
    /\ Spend("revoke")
    /\ serverToken' \in (0 .. issued) \ {serverToken}
    /\ UNCHANGED <<issued, orphans, pc, box, seen, memory, file, env, delivered>>

\* A registration whose client has gone is processed after all.
LateRegistration ==
    /\ orphans > 0
    /\ orphans' = orphans - 1
    /\ IssueToken
    /\ UNCHANGED <<pc, box, seen, memory, file, env, delivered, used>>

ProcessEnds ==
    /\ pc # Down
    /\ pc' = Down
    /\ box' = [a \in Actors |-> NoOptions]
    /\ seen' = [l \in Loops |-> 0]
    /\ options' = NoOptions
    /\ unauthorized' = 0
    /\ health' = Unset
    /\ orphans' = orphans + Cardinality({a \in Actors : pc[a] = "registering"})
    /\ UNCHANGED <<serverToken, issued, env, delivered>>

\* The process stops: a crash, a reboot, a service stop or the updater replacing it.
Crash == Spend("crash") /\ ProcessEnds /\ UNCHANGED file

\* The process stops while File.WriteAllText has truncated agent.json and not rewritten it.
TornWrite ==
    /\ \E a \in Actors : pc[a] \in Writing
    /\ Spend("torn")
    /\ file' = TornFile
    /\ ProcessEnds

\* install-service.ps1 on an existing agent.json puts the registration token back.
Reinstall ==
    /\ pc = Down
    /\ file.ok
    /\ Spend("reinstall")
    /\ file' = [file EXCEPT !.reg = TRUE]
    /\ UNCHANGED <<server, pc, box, seen, memory, env, delivered>>

-----------------------------------------------------------------------------
LoopStep(l) ==
    \/ LoopCalls(l) \/ ServerAuthenticates(l) \/ OperationSucceeds(l)
    \/ LoadUnauthorized(l) \/ StoreUnauthorized(l) \/ DecideRecovery(l)
    \/ RecoverDeviceToken(l) \/ ClearDeviceToken(l)

EnrollStep(a) ==
    \/ WriteFile(a) \/ EnsureRegistered(a) \/ ServerRegisters(a)
    \/ StoreDeviceToken(a) \/ RegistrationSucceeds(a)

FaultStep ==
    \/ \E l \in Loops : OperationFails(l)
    \/ \E a \in Actors : WriteFails(a) \/ RegistrationFails(a)
    \/ Revoke \/ LateRegistration \/ Crash \/ TornWrite \/ Reinstall

Next ==
    \/ Boot
    \/ RetryStartup
    \/ \E l \in Loops : LoopStep(l)
    \/ \E a \in Actors : EnrollStep(a)
    \/ FaultStep

Spec == Init /\ [][Next]_vars

\* The service manager starts the service, delays expire and the server answers; faults are
\* never owed.
Fairness ==
    /\ WF_vars(Boot) /\ WF_vars(RetryStartup)
    /\ \A l \in Loops : WF_vars(LoopStep(l))
    /\ \A a \in Actors : WF_vars(EnrollStep(a))

FairSpec == Spec /\ Fairness

-----------------------------------------------------------------------------
\* Every variable stays in its type, and the 401 counter never passes the threshold.
TypeOK ==
    /\ serverToken \in Nat /\ issued \in Nat /\ orphans \in Nat
    /\ pc \in [Actors -> Places]
    /\ box \in [Actors -> Options]
    /\ seen \in [Loops -> 0 .. UnauthorizedThreshold]
    /\ options \in Options
    /\ unauthorized \in 0 .. UnauthorizedThreshold
    /\ health \in [Actors -> Outcomes]
    /\ file \in AgentFile
    /\ env \in BOOLEAN
    /\ delivered \in Nat
    /\ used \in [FaultKinds -> Nat]

\* A device that has discarded its registration token (AgentClient.cs:40) holds the newest
\* device token that ever reached it: the older ones are dead on the server for good, so
\* holding one of them without a registration token is permanent offline.  The same of
\* agent.json, which is all that survives a restart.
HeldIsNewest ==
    /\ (~options.reg /\ options.dev # NoToken) => options.dev = delivered
    /\ (file.ok /\ ~file.reg /\ ~env) => file.dev = delivered

\* No two loops are at once between the check that a registration token is present
\* (Worker.cs:74) and the write of its successor (AgentClient.cs:41).  The code does not
\* ensure this.
Recovering == {"clear", "clearing", "ensure", "registering", "registered", "storing"}
SerialRecovery ==
    \A l, m \in Loops : pc[l] \in Recovering /\ pc[m] \in Recovering => l = m

\* Concurrent loops do no harm as long as their recoveries do not overlap.
SerialHoldsNewest == []SerialRecovery => []HeldIsNewest

\* A running device is left without any credential only by a torn agent.json or by a
\* device token that could not be decrypted, never by registering or recovering: of any loops
\* whose recoveries do not overlap (two that do may clear a token just stored, Worker.cs:81).
CredentialLossHasCause ==
    (pc # Down /\ ~options.reg /\ options.dev = NoToken) =>
        used["torn"] > 0 \/ used["undecryptable"] > 0

\* agent.json says what memory says, between writes and as long as no write failed and no
\* token was undecryptable: a restart resumes where the process was.  Again of loops whose
\* recoveries do not overlap, since two writers may leave the file to the earlier value.
DiskKeepsUp ==
    (/\ pc # Down /\ file.ok
     /\ \A a \in Actors : pc[a] \notin Writing
     /\ used["io"] = 0 /\ used["undecryptable"] = 0) =>
        /\ file.dev = options.dev
        /\ file.reg => options.reg
        /\ options.reg => file.reg \/ env

Reported(a) == health[a] \in {"error", "reenroll"}

\* A device that goes without a valid token forever, and of whose loops one still runs, ends up
\* showing an error for good: the tray never settles on green for a PC the server refuses (CR-A09).
\* If writes to agent.json ended all loops nothing is reported any more.
StrandedIsVisible ==
    <>[](~Authenticated(options.dev) /\ \E l \in Loops : pc[l] # "dead") =>
        <>[](\E a \in Actors : Reported(a))

\* A device that holds a registration token ends up accepted by the server, or has used the
\* token to fetch the newest device token, unless agent.json could not be written: a torn file
\* loses the token and an I/O error ends the loop that was to use it.
RecoveryCompletes ==
    options.reg ~> (\/ Authenticated(options.dev)
                    \/ ~options.reg /\ options.dev # NoToken /\ options.dev = delivered
                    \/ used["io"] > 0 \/ used["torn"] > 0)

\* A device that is accepted for good, and met no I/O error with agent.json, ends up without a
\* reported error.  This holds of every operation whose loop still runs, whatever
\* overlaps.  It holds of the registration, whose entry in the health map all loops share, as long
\* as recoveries do not overlap: of two loops that register at once, the one that fails last leaves
\* its error beside the token of the other, and no registration follows that would clear it.
RecoveredTurnsGreen ==
    <>[](Authenticated(options.dev) /\ used["io"] = 0 /\ used["torn"] = 0) =>
        /\ <>[](\A l \in Loops : pc[l] # "dead" => ~Reported(l))
        /\ []SerialRecovery => <>[]~Reported(Startup)
=============================================================================
