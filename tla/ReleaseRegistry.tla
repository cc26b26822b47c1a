-------------------------- MODULE ReleaseRegistry --------------------------
(***************************************************************************)
(* How an agent release is published and reaches the managed PCs.          *)
(*                                                                         *)
(* Administrators upload executables to the backend, whose two replicas    *)
(* share the agent_release table and the release directory but no lock:    *)
(* AgentUpdateController.upload checks the table, puts the file in place   *)
(* and only then inserts the row.  A device polls for the latest release,  *)
(* downloads it, compares its SHA-256 with the row's, and hands over to    *)
(* apply-update.cmd, which stops the service, swaps the executable and     *)
(* starts the service again (UpdateService.CheckAndApply).                 *)
(*                                                                         *)
(* A build stands for the bytes of an executable and, the hash being       *)
(* injective, for its SHA-256.  Requests are authorised; the transport and *)
(* the device tokens are DeviceEnrollment's subject.                       *)
(***************************************************************************)
EXTENDS ReleaseVersions, FiniteSets

CONSTANTS
    Versions,          \* version strings that pass the upload's pattern
    Builds,            \* executables
    AssemblyVersion,   \* the version compiled into a build
    Candidates,        \* [version, build]: what administrators may upload
    Seed,              \* the candidates already published
    Uploaders,         \* upload requests that may be in progress together
    Devices,
    MaxComponent,      \* largest int: Integer.parseInt and ::int[] fail above it
    Preinstalled,      \* builds a device may start with
    None, Damaged,     \* no file, row or bytes; bytes that are no build
    FaultBudget        \* how often each kind of fault may happen

FaultKinds == {"abort", "transfer", "save", "move", "power"}

ASSUME VersionsAssumption == \A v \in Versions : IsVersion(v)
ASSUME BuildsAssumption ==
    /\ None \notin Builds /\ Damaged \notin Builds /\ None # Damaged
    /\ AssemblyVersion \in [Builds -> {v \in Seq(Nat) : Len(v) = 4}]
ASSUME CandidatesAssumption ==
    /\ Candidates \subseteq [version : Versions, build : Builds]
    /\ Seed \subseteq Candidates
    /\ \A c, e \in Seed : c.version = e.version => c = e
    /\ Preinstalled \subseteq Builds
ASSUME MaxComponentAssumption ==
    MaxComponent \in Nat /\ \A c \in Seed : \A i \in 1 .. Len(c.version) : c.version[i] <= MaxComponent
ASSUME BudgetAssumption == FaultBudget \in [FaultKinds -> Nat]

VARIABLES
    rows,     \* agent_release: the hash registered for a version
    files,    \* release directory: the bytes under the name of a version
    upload,   \* the upload requests
    stage,    \* what the updater of a device is doing
    offer,    \* the release a device was told about
    pending,  \* updates\AssetFlow.Agent-<version>.exe of a device
    exe,      \* the installed executable
    bak,      \* its copy, AssetFlow.Agent.exe.bak
    used      \* faults so far, by kind

registry == <<rows, files, upload>>
device == <<stage, offer, pending, exe, bak>>
vars == <<rows, files, upload, stage, offer, pending, exe, bak, used>>

Published == {v \in Versions : rows[v] # None}
Stages == {"idle", "offered", "downloaded", "scripted", "stopped", "saved",
           "failed", "swapped"}
UploadPlaces == {"idle", "exists", "latest", "staged", "moved"}
NoRequest == [at |-> "idle", version |-> None, build |-> None]
NoOffer == [version |-> None, hash |-> None]

SeedBuild(v) == IF \E c \in Seed : c.version = v
                THEN (CHOOSE c \in Seed : c.version = v).build
                ELSE None

Init ==
    /\ rows = [v \in Versions |-> SeedBuild(v)]
    /\ files = [v \in Versions |-> SeedBuild(v)]
    /\ upload = [u \in Uploaders |-> NoRequest]
    /\ stage = [d \in Devices |-> "idle"]
    /\ offer = [d \in Devices |-> NoOffer]
    /\ pending = [d \in Devices |-> None]
    /\ exe \in [Devices -> Preinstalled]
    /\ bak = [d \in Devices |-> None]
    /\ used = [k \in FaultKinds |-> 0]

-----------------------------------------------------------------------------
(* AgentUpdateController.                                                  *)

Spend(k) == used[k] < FaultBudget[k] /\ used' = [used EXCEPT ![k] = @ + 1]
Advance(u, p) == upload' = [upload EXCEPT ![u].at = p]
Answer(u) == upload' = [upload EXCEPT ![u] = NoRequest]

Sortable(v) == \A i \in 1 .. Len(v) : v[i] <= MaxComponent

\* ORDER BY string_to_array(version,'.')::int[] fails as a whole on one row out of range.
Readable == \A v \in Published : Sortable(v)

Newest(v) == v \in Published /\ \A w \in Published : ~SqlLess(v, w)

StartUpload(u) ==
    /\ upload[u].at = "idle"
    /\ \E c \in Candidates :
         upload' = [upload EXCEPT ![u] = [at |-> "exists", version |-> c.version, build |-> c.build]]
    /\ UNCHANGED <<rows, files, device, used>>

CheckExists(u) ==
    /\ upload[u].at = "exists"
    /\ IF upload[u].version \in Published THEN Answer(u) ELSE Advance(u, "latest")
    /\ UNCHANGED <<rows, files, device, used>>

\* Mutant: an out-of-range version passes when no comparison is made.
GreaterUnchecked(v) == \A l \in Published : Newest(l) => JavaLess(l, v)

\* Mutant: the query for the latest release has lost its ORDER BY.
GreaterThanSome(v) ==
    /\ Readable
    /\ Published = {} \/ \E l \in Published : Sortable(v) /\ JavaLess(l, v)

\* The comparison with the latest release throws on a component out of range.
GreaterThanLatest(v) ==
    /\ Readable
    /\ Published = {} \/ \E l \in Published : Newest(l) /\ Sortable(v) /\ JavaLess(l, v)

CheckLatest(u) ==
    /\ upload[u].at = "latest"
    /\ IF GreaterThanLatest(upload[u].version) THEN Advance(u, "staged") ELSE Answer(u)
    /\ UNCHANGED <<rows, files, device, used>>

\* Mutant: a file left behind by an aborted upload is kept.
FileKept(u) ==
    IF files[upload[u].version] = None THEN upload[u].build ELSE files[upload[u].version]

\* ATOMIC_MOVE replaces what is there.
FileMoved(u) == upload[u].build

\* The file has been staged under a name of its own and hashed.
MoveFile(u) ==
    /\ upload[u].at = "staged"
    /\ files' = [files EXCEPT ![upload[u].version] = FileMoved(u)]
    /\ Advance(u, "moved")
    /\ UNCHANGED <<rows, device, used>>

\* Mutant: the clean-up of a refused upload deletes the destination.
DeleteDestination(u) == [files EXCEPT ![upload[u].version] = None]

\* The finally clause deletes the temporary file only.
FilesAfterConflict(u) == files

\* version is the primary key: a second row for it is refused.
InsertRow(u) ==
    /\ upload[u].at = "moved"
    /\ IF upload[u].version \in Published
       THEN files' = FilesAfterConflict(u) /\ UNCHANGED rows
       ELSE rows' = [rows EXCEPT ![upload[u].version] = upload[u].build] /\ UNCHANGED files
    /\ Answer(u)
    /\ UNCHANGED <<device, used>>

\* The replica stops, the file is no executable, or a statement fails.
AbortUpload(u) ==
    /\ upload[u].at # "idle"
    /\ Spend("abort")
    /\ Answer(u)
    /\ UNCHANGED <<rows, files, device>>

-----------------------------------------------------------------------------
(* UpdateService.CheckAndApply.                                            *)

InstalledVersion(d) == Reported(AssemblyVersion[exe[d]])

\* Mutant: any release but the running one is taken.
IsDifferent(d, v) == v # InstalledVersion(d)

IsNewer(d, v) == AgentLess(InstalledVersion(d), v)

LatestRelease(d) ==
    /\ stage[d] = "idle"
    /\ Readable
    /\ \E v \in Published :
         /\ Newest(v)
         /\ IsNewer(d, v)
         /\ offer' = [offer EXCEPT ![d] = [version |-> v, hash |-> rows[v]]]
    /\ stage' = [stage EXCEPT ![d] = "offered"]
    /\ UNCHANGED <<registry, pending, exe, bak, used>>

DownloadRelease(d) ==
    /\ stage[d] = "offered"
    /\ pending' = [pending EXCEPT ![d] = files[offer[d].version]]
    /\ stage' = [stage EXCEPT ![d] = "downloaded"]
    /\ UNCHANGED <<registry, offer, exe, bak, used>>

\* The transfer is cut, with or without the client noticing.
TransferFails(d) ==
    /\ stage[d] = "offered"
    /\ Spend("transfer")
    /\ pending' = [pending EXCEPT ![d] = Damaged]
    /\ \E s \in {"idle", "downloaded"} : stage' = [stage EXCEPT ![d] = s]
    /\ UNCHANGED <<registry, offer, exe, bak>>

\* Mutant: the downloaded file is trusted.
Trusted(d) == pending[d] # Damaged

HashMatches(d) == pending[d] = offer[d].hash

VerifyRelease(d) ==
    /\ stage[d] = "downloaded"
    /\ IF HashMatches(d)
       THEN stage' = [stage EXCEPT ![d] = "scripted"] /\ UNCHANGED pending
       ELSE stage' = [stage EXCEPT ![d] = "idle"] /\ pending' = [pending EXCEPT ![d] = None]
    /\ UNCHANGED <<registry, offer, exe, bak, used>>

\* apply-update.cmd: sc stop, the wait for the process to end and taskkill.
StopService(d) ==
    /\ stage[d] = "scripted"
    /\ stage' = [stage EXCEPT ![d] = "stopped"]
    /\ UNCHANGED <<registry, offer, pending, exe, bak, used>>

SaveExecutable(d) ==
    /\ stage[d] = "stopped"
    /\ bak' = [bak EXCEPT ![d] = exe[d]]
    /\ stage' = [stage EXCEPT ![d] = "saved"]
    /\ UNCHANGED <<registry, offer, pending, exe, used>>

\* The copy fails and its result is not looked at: the copy of an earlier update stays.
SaveFails(d) ==
    /\ stage[d] = "stopped"
    /\ Spend("save")
    /\ stage' = [stage EXCEPT ![d] = "saved"]
    /\ UNCHANGED <<registry, offer, pending, exe, bak>>

SwapExecutable(d) ==
    /\ stage[d] = "saved"
    /\ exe' = [exe EXCEPT ![d] = pending[d]]
    /\ pending' = [pending EXCEPT ![d] = None]
    /\ stage' = [stage EXCEPT ![d] = "swapped"]
    /\ UNCHANGED <<registry, offer, bak, used>>

SwapFails(d) ==
    /\ stage[d] = "saved"
    /\ Spend("move")
    /\ stage' = [stage EXCEPT ![d] = "failed"]
    /\ UNCHANGED <<registry, offer, pending, exe, bak>>

\* Copying a file that does not exist changes nothing.
Restored(d) == IF bak[d] = None THEN exe[d] ELSE bak[d]

\* "if errorlevel 1": the saved copy is put back.  When this fails as well the executable stays.
RestoreExecutable(d) ==
    /\ stage[d] = "failed"
    /\ \E b \in {Restored(d), exe[d]} : exe' = [exe EXCEPT ![d] = b]
    /\ stage' = [stage EXCEPT ![d] = "swapped"]
    /\ UNCHANGED <<registry, offer, pending, bak, used>>

StartService(d) ==
    /\ stage[d] = "swapped"
    /\ stage' = [stage EXCEPT ![d] = "idle"]
    /\ UNCHANGED <<registry, offer, pending, exe, bak, used>>

\* The PC loses power or the process ends; the service starts with the next boot.
PowerLoss(d) ==
    /\ stage[d] # "idle"
    /\ Spend("power")
    /\ stage' = [stage EXCEPT ![d] = "idle"]
    /\ UNCHANGED <<registry, offer, pending, exe, bak>>

-----------------------------------------------------------------------------
UploadStep(u) == CheckExists(u) \/ CheckLatest(u) \/ MoveFile(u) \/ InsertRow(u)

DeviceStep(d) ==
    \/ LatestRelease(d) \/ DownloadRelease(d) \/ VerifyRelease(d)
    \/ StopService(d) \/ SaveExecutable(d) \/ SwapExecutable(d)
    \/ RestoreExecutable(d) \/ StartService(d)

FaultStep ==
    \/ \E u \in Uploaders : AbortUpload(u)
    \/ \E d \in Devices : TransferFails(d) \/ SaveFails(d) \/ SwapFails(d) \/ PowerLoss(d)

Next ==
    \/ \E u \in Uploaders : StartUpload(u) \/ UploadStep(u)
    \/ \E d \in Devices : DeviceStep(d)
    \/ FaultStep

Spec == Init /\ [][Next]_vars

\* Requests in progress are answered and a device keeps polling; nobody owes an upload.
Fairness ==
    /\ \A u \in Uploaders : WF_vars(UploadStep(u))
    /\ \A d \in Devices : WF_vars(DeviceStep(d))

FairSpec == Spec /\ Fairness

-----------------------------------------------------------------------------
\* Every variable stays in its type.
TypeOK ==
    /\ rows \in [Versions -> Builds \cup {None}]
    /\ files \in [Versions -> Builds \cup {None}]
    /\ upload \in [Uploaders -> {NoRequest} \cup
                     [at : UploadPlaces \ {"idle"}, version : Versions, build : Builds]]
    /\ stage \in [Devices -> Stages]
    /\ offer \in [Devices -> {NoOffer} \cup [version : Versions, hash : Builds]]
    /\ pending \in [Devices -> Builds \cup {None, Damaged}]
    /\ exe \in [Devices -> Builds]
    /\ bak \in [Devices -> Builds \cup {None}]
    /\ used \in [FaultKinds -> Nat]

\* Whatever uploads race, abort or lose, a release that latest() can offer has a file that
\* download() can serve.
PublishedHasFile == \A v \in Published : files[v] # None

\* "Releases are immutable" (AgentUpdateController.java:84): the bytes served for a published
\* version are those whose hash was published.
FileMatchesHash == \A v \in Published : files[v] = rows[v]

\* Two requests for one version are past the existence check (line 83) and before their answer.
\* The code does not prevent this.
Committing == {"latest", "staged", "moved"}
NoOverlap ==
    \A t, u \in Uploaders :
        /\ upload[t].at \in Committing /\ upload[u].at \in Committing
        /\ upload[t].version = upload[u].version
        => t = u

\* Without two overlapping uploads of one version, aborted and repeated uploads included, the
\* served bytes always match the published hash.
SerialUploadsMatch == []NoOverlap => []FileMatchesHash

\* No two requests, of whatever versions, are past the existence check together.
NoConcurrency ==
    \A t, u \in Uploaders : upload[t].at \in Committing /\ upload[u].at \in Committing => t = u

\* "Version must be greater than the current latest" (AgentUpdateController.java:87).  The check
\* precedes the transfer and the insert, the latest release is the newest in the order of the
\* database, and the comparison is Java's.  Without concurrent uploads the version that is about
\* to be inserted is greater than every release published, in either order.
SerialUploadsIncrease ==
    []NoConcurrency =>
        [](\A u \in Uploaders : upload[u].at \in {"staged", "moved"} =>
              \A w \in Published : JavaLess(w, upload[u].version) /\ SqlLess(w, upload[u].version))

\* Once a release is published, no upload makes the sorted queries of latest(), list() and
\* upload() fail on a version out of the range of int.
StaysReadable == Seed # {} => Readable

\* A device only ever runs an executable it started with or one whose hash was published, even
\* while the file of a release is replaced under a running download.
RunsPublished ==
    \A d \in Devices : exe[d] \in Preinstalled \/ \E v \in Published : rows[v] = exe[d]

\* An upload is labelled with the version compiled into it.
Labelled(c) == Reported(c.version) = Reported(AssemblyVersion[c.build])
HonestLabels == \A c \in Candidates : Labelled(c)

\* With honest labels no step replaces an executable by an older one: not a stale offer, not a
\* failed swap, not a power loss halfway.  Once saving the executable has failed this is no
\* longer so: a failed swap may then put back the copy of an earlier update.
NoDowngrade ==
    [][HonestLabels /\ used["save"] = 0 => \A d \in Devices :
          ~AgentLess(Reported(AssemblyVersion[exe'[d]]), Reported(AssemblyVersion[exe[d]]))]_vars

\* Once the release the agents rank highest stays so and its file intact, every device that is
\* older ends up running it, through lost transfers, failed swaps and power losses.
HighestForAgents(v) == v \in Published /\ \A w \in Published : w = v \/ AgentLess(w, v)
NewestReachesDevices ==
    \A v \in Versions :
        <>[](Readable /\ HighestForAgents(v) /\ files[v] = rows[v]) =>
            \A d \in Devices : <>[](exe[d] = rows[v] \/ ~IsNewer(d, v))

\* Updates come to an end: a device does not fetch and restart into the same release forever.
\* Holds for labels of three components, which are honest and intact.
UpdatesSettle ==
    (HonestLabels /\ (\A c \in Candidates : Len(c.version) = 3) /\ <>[]FileMatchesHash) =>
        \A d \in Devices : <>[](stage[d] = "idle")
=============================================================================
