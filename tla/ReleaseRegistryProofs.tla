----------------------- MODULE ReleaseRegistryProofs -----------------------
(***************************************************************************)
(* Safety of ReleaseRegistry for any number of uploads, devices, releases  *)
(* and faults.                                                             *)
(***************************************************************************)
EXTENDS ReleaseRegistry, TLAPS

-----------------------------------------------------------------------------
(* The orders on versions.                                                 *)

LEMMA PaddedType ==
    ASSUME NEW v, IsVersion(v), NEW d \in Int
    PROVE  Padded(v, d) \in [1 .. 4 -> Int]
BY DEF IsVersion, Padded

\* The four components, spelled out.
LEMMA PrecedesFour ==
    ASSUME NEW x \in [1 .. 4 -> Int], NEW y \in [1 .. 4 -> Int]
    PROVE  Precedes(x, y, 4) <=>
             \/ x[1] < y[1]
             \/ x[1] = y[1] /\ x[2] < y[2]
             \/ x[1] = y[1] /\ x[2] = y[2] /\ x[3] < y[3]
             \/ x[1] = y[1] /\ x[2] = y[2] /\ x[3] = y[3] /\ x[4] < y[4]
BY DEF Precedes

LEMMA PaddedValues ==
    ASSUME NEW v, IsVersion(v), NEW d \in Int
    PROVE  /\ Padded(v, d)[1] = v[1] /\ Padded(v, d)[2] = v[2] /\ Padded(v, d)[3] = v[3]
           /\ Padded(v, d)[4] = IF Len(v) = 4 THEN v[4] ELSE d
           /\ v[1] \in Nat /\ v[2] \in Nat /\ v[3] \in Nat /\ (Len(v) = 4 => v[4] \in Nat)
           /\ Len(v) = 3 \/ Len(v) = 4
<1>1. v \in Seq(Nat) /\ (Len(v) = 3 \/ Len(v) = 4)
  BY DEF IsVersion
<1>2. /\ v[1] \in Nat /\ v[2] \in Nat /\ v[3] \in Nat /\ (Len(v) = 4 => v[4] \in Nat)
  BY <1>1
<1>3. \A i \in 1 .. 4 : Padded(v, d)[i] = IF i <= Len(v) THEN v[i] ELSE d
  BY DEF Padded
<1>4. /\ Padded(v, d)[1] = v[1] /\ Padded(v, d)[2] = v[2] /\ Padded(v, d)[3] = v[3]
      /\ Padded(v, d)[4] = IF Len(v) = 4 THEN v[4] ELSE d
  BY <1>1, <1>3
<1> QED
  BY <1>1, <1>2, <1>4

LEMMA AgentLessFour ==
    ASSUME NEW a, NEW b, IsVersion(a), IsVersion(b)
    PROVE  AgentLess(a, b) <=>
             \/ a[1] < b[1]
             \/ a[1] = b[1] /\ a[2] < b[2]
             \/ a[1] = b[1] /\ a[2] = b[2] /\ a[3] < b[3]
             \/ /\ a[1] = b[1] /\ a[2] = b[2] /\ a[3] = b[3] /\ Len(b) = 4
                /\ Len(a) = 3 \/ a[4] < b[4]
<1>1. /\ Padded(a, -1) \in [1 .. 4 -> Int] /\ Padded(b, -1) \in [1 .. 4 -> Int]
  BY PaddedType
<1> QED
  BY <1>1, PrecedesFour, PaddedValues DEF AgentLess

LEMMA JavaLessFour ==
    ASSUME NEW a, NEW b, IsVersion(a), IsVersion(b)
    PROVE  JavaLess(a, b) =>
             \/ a[1] < b[1]
             \/ a[1] = b[1] /\ a[2] < b[2]
             \/ a[1] = b[1] /\ a[2] = b[2] /\ a[3] < b[3]
             \/ /\ a[1] = b[1] /\ a[2] = b[2] /\ a[3] = b[3] /\ Len(b) = 4
                /\ Len(a) = 3 \/ a[4] < b[4]
<1>1. /\ Padded(a, 0) \in [1 .. 4 -> Int] /\ Padded(b, 0) \in [1 .. 4 -> Int]
  BY PaddedType
<1> QED
  BY <1>1, PrecedesFour, PaddedValues DEF JavaLess

\* The agent's order is the database's: what latest() puts on top is what every agent ranks
\* highest (UpdateService.cs:12, AgentUpdateController.java:107).
THEOREM AgentOrderIsSqlOrder ==
    ASSUME NEW a, NEW b, IsVersion(a), IsVersion(b)
    PROVE  AgentLess(a, b) <=> SqlLess(a, b)
<1>1. Len(a) \in {3, 4} /\ Len(b) \in {3, 4}
  BY DEF IsVersion
<1>2. /\ a[1] \in Nat /\ a[2] \in Nat /\ a[3] \in Nat /\ (Len(a) = 4 => a[4] \in Nat)
      /\ b[1] \in Nat /\ b[2] \in Nat /\ b[3] \in Nat /\ (Len(b) = 4 => b[4] \in Nat)
  BY PaddedValues
<1>3. Precedes(a, b, 3) <=>
             \/ a[1] < b[1]
             \/ a[1] = b[1] /\ a[2] < b[2]
             \/ a[1] = b[1] /\ a[2] = b[2] /\ a[3] < b[3]
  BY <1>2 DEF Precedes
<1>4. (\A i \in 1 .. 3 : a[i] = b[i]) <=> a[1] = b[1] /\ a[2] = b[2] /\ a[3] = b[3]
  OBVIOUS
<1>5. CASE Len(a) = 4 /\ Len(b) = 4
  <2>1. Precedes(a, b, 4) <=>
             \/ a[1] < b[1]
             \/ a[1] = b[1] /\ a[2] < b[2]
             \/ a[1] = b[1] /\ a[2] = b[2] /\ a[3] < b[3]
             \/ a[1] = b[1] /\ a[2] = b[2] /\ a[3] = b[3] /\ a[4] < b[4]
    BY <1>2, <1>5 DEF Precedes
  <2>2. SqlLess(a, b) <=> Precedes(a, b, 4)
    BY <1>5 DEF SqlLess
  <2> QED
    BY <1>5, <2>1, <2>2, AgentLessFour
<1>6. CASE ~(Len(a) = 4 /\ Len(b) = 4)
  <2>1. SqlLess(a, b) <=>
          \/ Precedes(a, b, 3)
          \/ Len(a) < Len(b) /\ \A i \in 1 .. 3 : a[i] = b[i]
    <3>1. (IF Len(a) < Len(b) THEN Len(a) ELSE Len(b)) = 3
      BY <1>1, <1>6
    <3> QED
      BY <3>1 DEF SqlLess
  <2>2. Len(a) < Len(b) <=> Len(a) = 3 /\ Len(b) = 4
    <3>1. \A m, n \in {3, 4} : m < n <=> m = 3 /\ n = 4
      OBVIOUS
    <3> QED
      BY <1>1, <3>1
  <2> HIDE DEF SqlLess
  <2> QED
    BY <1>1, <1>3, <1>4, <1>6, <2>1, <2>2, AgentLessFour
<1> QED
  BY <1>5, <1>6

\* A release the upload check accepts as greater than the latest one (compareVersions) takes
\* its place at the top of the sorted table and is an update for a device that runs it.
THEOREM AcceptedSortsOnTop ==
    ASSUME NEW a, NEW b, IsVersion(a), IsVersion(b), JavaLess(a, b)
    PROVE  SqlLess(a, b) /\ AgentLess(a, b) /\ ~AgentLess(b, a)
<1>1. AgentLess(a, b)
  BY JavaLessFour, AgentLessFour
<1>2. ~AgentLess(b, a)
  BY JavaLessFour, AgentLessFour, PaddedValues
<1> QED
  BY <1>1, <1>2, AgentOrderIsSqlOrder

LEMMA ReportedType ==
    ASSUME NEW v \in Seq(Nat), Len(v) \in {3, 4}
    PROVE  /\ IsVersion(Reported(v)) /\ Len(Reported(v)) = 3
           /\ Reported(v)[1] = v[1] /\ Reported(v)[2] = v[2] /\ Reported(v)[3] = v[3]
BY DEF Reported, IsVersion

\* Dropping the fourth component of a release does not take a device below where it was.
LEMMA ReportedNotLower ==
    ASSUME NEW r, NEW v, IsVersion(r), Len(r) = 3, IsVersion(v), AgentLess(r, v)
    PROVE  ~AgentLess(Reported(v), r)
<1>1. v \in Seq(Nat) /\ Len(v) \in {3, 4}
  BY DEF IsVersion
<1>2. /\ IsVersion(Reported(v)) /\ Len(Reported(v)) = 3
      /\ Reported(v)[1] = v[1] /\ Reported(v)[2] = v[2] /\ Reported(v)[3] = v[3]
  BY <1>1, ReportedType
<1> QED
  BY <1>2, AgentLessFour, PaddedValues

-----------------------------------------------------------------------------
(* Types.                                                                  *)

LEMMA SeedBuildType == \A v \in Versions : SeedBuild(v) \in Builds \cup {None}
<1> SUFFICES ASSUME NEW v \in Versions PROVE SeedBuild(v) \in Builds \cup {None}
  OBVIOUS
<1>1. CASE \E c \in Seed : c.version = v
  <2>1. (CHOOSE c \in Seed : c.version = v) \in Seed
    BY <1>1
  <2> QED
    BY <1>1, <2>1, CandidatesAssumption DEF SeedBuild
<1>2. CASE ~\E c \in Seed : c.version = v
  BY <1>2 DEF SeedBuild
<1> QED
  BY <1>1, <1>2

LEMMA InitType == Init => TypeOK
BY SeedBuildType, CandidatesAssumption DEF Init, TypeOK, Stages, FaultKinds

LEMMA SpendType ==
    ASSUME TypeOK, NEW k \in FaultKinds, Spend(k) PROVE used' \in [FaultKinds -> Nat]
BY DEF TypeOK, Spend

LEMMA FaultKindsMembers ==
    "abort" \in FaultKinds /\ "transfer" \in FaultKinds /\ "save" \in FaultKinds /\ "move" \in FaultKinds
    /\ "power" \in FaultKinds
BY DEF FaultKinds

LEMMA RequestType ==
    ASSUME TypeOK, NEW u \in Uploaders, upload[u].at # "idle"
    PROVE  /\ upload[u] \in [at : UploadPlaces \ {"idle"}, version : Versions, build : Builds]
           /\ upload[u].version \in Versions /\ upload[u].build \in Builds
BY DEF TypeOK, NoRequest

LEMMA AdvanceType ==
    ASSUME TypeOK, NEW u \in Uploaders, upload[u].at # "idle",
           NEW p \in UploadPlaces \ {"idle"}
    PROVE  Advance(u, p) => upload' \in [Uploaders -> {NoRequest} \cup
                     [at : UploadPlaces \ {"idle"}, version : Versions, build : Builds]]
BY RequestType DEF TypeOK, Advance

LEMMA AnswerType ==
    ASSUME TypeOK, NEW u \in Uploaders
    PROVE  Answer(u) => upload' \in [Uploaders -> {NoRequest} \cup
                     [at : UploadPlaces \ {"idle"}, version : Versions, build : Builds]]
BY DEF TypeOK, Answer

LEMMA UploadType ==
    ASSUME TypeOK, NEW u \in Uploaders, StartUpload(u) \/ UploadStep(u) \/ AbortUpload(u)
    PROVE  TypeOK'
<1>1. CASE StartUpload(u)
  BY <1>1, CandidatesAssumption DEF StartUpload, TypeOK, device, UploadPlaces
<1>2. CASE CheckExists(u)
  BY <1>2, AdvanceType, AnswerType DEF CheckExists, TypeOK, device, UploadPlaces
<1>3. CASE CheckLatest(u)
  BY <1>3, AdvanceType, AnswerType DEF CheckLatest, TypeOK, device, UploadPlaces
<1>4. CASE MoveFile(u)
  BY <1>4, AdvanceType, RequestType DEF MoveFile, FileMoved, TypeOK, device, UploadPlaces
<1>5. CASE InsertRow(u)
  BY <1>5, AnswerType, RequestType DEF InsertRow, FilesAfterConflict, TypeOK, device
<1>6. CASE AbortUpload(u)
  BY <1>6, AnswerType, SpendType, FaultKindsMembers DEF AbortUpload, TypeOK, device
<1> QED
  BY <1>1, <1>2, <1>3, <1>4, <1>5, <1>6 DEF UploadStep

DeviceFault(d) == TransferFails(d) \/ SaveFails(d) \/ SwapFails(d) \/ PowerLoss(d)

\* Between the offer and the swap a device holds an offer of a published release; past the
\* comparison the file it is about to install is the published one, and what a failed swap puts
\* back is the running executable, unless saving it failed.
NeverUnsaved == used["save"] = 0
Holding == {"offered", "downloaded", "scripted", "stopped", "saved", "failed"}
Saved == {"saved", "failed"}
Offers ==
    \A d \in Devices : stage[d] \in Holding =>
        /\ offer[d].version \in Published
        /\ rows[offer[d].version] = offer[d].hash
        /\ IsNewer(d, offer[d].version)
        /\ stage[d] \in {"scripted", "stopped"} \cup Saved => pending[d] = offer[d].hash
        /\ stage[d] \in Saved /\ NeverUnsaved => bak[d] = exe[d]

LEMMA DeviceType ==
    ASSUME TypeOK, Offers, PublishedHasFile, NEW d \in Devices, DeviceStep(d) \/ DeviceFault(d)
    PROVE  TypeOK'
<1>1. CASE LatestRelease(d)
  <2>1. PICK v \in Published : offer' = [offer EXCEPT ![d] = [version |-> v, hash |-> rows[v]]]
    BY <1>1 DEF LatestRelease
  <2>2. rows[v] \in Builds /\ v \in Versions
    BY DEF Published, TypeOK
  <2> QED
    BY <1>1, <2>1, <2>2 DEF LatestRelease, TypeOK, registry, Stages
<1>2. CASE DownloadRelease(d)
  <2>1. offer[d].version \in Versions /\ files[offer[d].version] \in Builds \cup {None, Damaged}
    BY <1>2 DEF DownloadRelease, Offers, Holding, Published, TypeOK
  <2> QED
    BY <1>2, <2>1 DEF DownloadRelease, TypeOK, registry, Stages
<1>3. CASE VerifyRelease(d)
  BY <1>3 DEF VerifyRelease, TypeOK, registry, Stages
<1>4. CASE StopService(d)
  BY <1>4 DEF StopService, TypeOK, registry, Stages
<1>5. CASE SaveExecutable(d)
  BY <1>5 DEF SaveExecutable, TypeOK, registry, Stages
<1>6. CASE SwapExecutable(d)
  <2>1. pending[d] \in Builds
    BY <1>6 DEF SwapExecutable, Offers, Holding, Saved, Published, TypeOK
  <2> QED
    BY <1>6, <2>1 DEF SwapExecutable, TypeOK, registry, Stages
<1>7. CASE StartService(d)
  BY <1>7 DEF StartService, TypeOK, registry, Stages
<1>8. CASE TransferFails(d)
  BY <1>8, SpendType, FaultKindsMembers DEF TransferFails, TypeOK, registry, Stages
<1>9. CASE SwapFails(d)
  BY <1>9, SpendType, FaultKindsMembers DEF SwapFails, TypeOK, registry, Stages
<1>12. CASE RestoreExecutable(d)
  <2>1. Restored(d) \in Builds /\ exe[d] \in Builds
    BY DEF Restored, TypeOK
  <2> QED
    BY <1>12, <2>1 DEF RestoreExecutable, TypeOK, registry, Stages
<1>10. CASE PowerLoss(d)
  BY <1>10, SpendType, FaultKindsMembers DEF PowerLoss, TypeOK, registry, Stages
<1>11. CASE SaveFails(d)
  BY <1>11, SpendType, FaultKindsMembers DEF SaveFails, TypeOK, registry, Stages
<1> QED
  BY <1>1, <1>2, <1>3, <1>4, <1>5, <1>6, <1>7, <1>8, <1>9, <1>10, <1>11, <1>12
   DEF DeviceStep, DeviceFault

-----------------------------------------------------------------------------
(* The registry.                                                           *)

IsCandidate(v, b) == \E c \in Candidates : c.version = v /\ c.build = b

\* A file in place is never taken away, requests and rows stem from the candidates, and once a
\* release is published only sortable versions get past the comparison with it.
RegistryInv ==
    /\ \A u \in Uploaders :
         /\ upload[u].at = "moved" => files[upload[u].version] # None
         /\ upload[u].at # "idle" => IsCandidate(upload[u].version, upload[u].build)
         /\ Seed # {} /\ upload[u].at \in {"staged", "moved"} => Sortable(upload[u].version)
    /\ \A v \in Published : IsCandidate(v, rows[v])
    /\ Seed # {} => Published # {}
    /\ PublishedHasFile
    /\ StaysReadable

LEMMA InitRegistry == Init => RegistryInv
<1> SUFFICES ASSUME Init PROVE RegistryInv
  OBVIOUS
<1>1. \A v \in Published :
        \E c \in Seed : c.version = v /\ c.build = rows[v]
  <2> SUFFICES ASSUME NEW v \in Published
               PROVE  \E c \in Seed : c.version = v /\ c.build = rows[v]
    OBVIOUS
  <2>1. rows[v] = SeedBuild(v) /\ rows[v] # None
    BY DEF Init, Published
  <2>2. \E c \in Seed : c.version = v
    BY <2>1 DEF SeedBuild
  <2>3. (CHOOSE c \in Seed : c.version = v) \in Seed /\ (CHOOSE c \in Seed : c.version = v).version = v
    BY <2>2
  <2> QED
    BY <2>1, <2>2, <2>3 DEF SeedBuild
<1>2. Seed # {} => Published # {}
  <2> SUFFICES ASSUME NEW c \in Seed PROVE c.version \in Published
    OBVIOUS
  <2>1. c.version \in Versions
    BY CandidatesAssumption
  <2>2. (CHOOSE e \in Seed : e.version = c.version) \in Seed
    OBVIOUS
  <2>3. SeedBuild(c.version) \in Builds
    BY <2>2, CandidatesAssumption DEF SeedBuild
  <2> QED
    BY <2>1, <2>3, BuildsAssumption DEF Init, Published
<1>3. \A v \in Published : IsCandidate(v, rows[v])
  BY <1>1, CandidatesAssumption DEF IsCandidate
<1>4. Readable
  BY <1>1, MaxComponentAssumption DEF Readable, Sortable
<1>5. PublishedHasFile
  BY DEF PublishedHasFile, Published, Init
<1>6. \A u \in Uploaders : upload[u].at = "idle"
  BY DEF Init, NoRequest
<1> QED
  BY <1>2, <1>3, <1>4, <1>5, <1>6 DEF RegistryInv, StaysReadable

\* The row of a published version is never changed or removed.
LEMMA RowsKept ==
    TypeOK /\ [Next]_vars => \A v \in Published : v \in Published' /\ rows'[v] = rows[v]
<1> SUFFICES ASSUME TypeOK, [Next]_vars, NEW v \in Published
             PROVE  v \in Versions /\ rows'[v] = rows[v]
  BY DEF Published
<1>1. v \in Versions
  BY DEF Published
<1>2. ASSUME NEW u \in Uploaders, InsertRow(u) PROVE rows'[v] = rows[v]
  BY <1>1, <1>2 DEF InsertRow, TypeOK
<1>3. rows' = rows \/ \E u \in Uploaders : InsertRow(u)
  BY DEF Next, vars, UploadStep, DeviceStep, FaultStep, StartUpload, CheckExists, CheckLatest,
         MoveFile, AbortUpload, LatestRelease, DownloadRelease, VerifyRelease, StopService,
         SaveExecutable, SwapExecutable, StartService, TransferFails, SaveFails, SwapFails, PowerLoss,
         RestoreExecutable,
         registry
<1> QED
  BY <1>1, <1>2, <1>3

\* What an upload step leaves alone, and what changes of the request it belongs to.
LEMMA RequestStep ==
    ASSUME TypeOK, NEW u \in Uploaders
    PROVE  /\ Answer(u) => upload'[u] = NoRequest
           /\ \A p : Advance(u, p) /\ upload[u].at # "idle" =>
                upload'[u].at = p /\ upload'[u].version = upload[u].version
                /\ upload'[u].build = upload[u].build
           /\ \A t \in Uploaders \ {u} :
                (Answer(u) \/ \E p : Advance(u, p)) => upload'[t] = upload[t]
<1>1. upload \in [Uploaders -> {NoRequest} \cup
                     [at : UploadPlaces \ {"idle"}, version : Versions, build : Builds]]
  BY DEF TypeOK
<1>2. Answer(u) => upload'[u] = NoRequest
  BY <1>1 DEF Answer
<1>3. ASSUME NEW p, Advance(u, p), upload[u].at # "idle"
      PROVE  upload'[u].at = p /\ upload'[u].version = upload[u].version
             /\ upload'[u].build = upload[u].build
  BY <1>1, <1>3, RequestType DEF Advance
<1>4. \A t \in Uploaders \ {u} :
        (Answer(u) \/ \E p : Advance(u, p)) => upload'[t] = upload[t]
  BY <1>1 DEF Answer, Advance
<1> QED
  BY <1>2, <1>3, <1>4

LEMMA UploadRegistry ==
    ASSUME TypeOK, TypeOK', RegistryInv, NEW u \in Uploaders,
           StartUpload(u) \/ UploadStep(u) \/ AbortUpload(u)
    PROVE  RegistryInv'
<1>1. CASE StartUpload(u)
  <2>1. PICK c \in Candidates :
          upload' = [upload EXCEPT ![u] = [at |-> "exists", version |-> c.version, build |-> c.build]]
    BY <1>1 DEF StartUpload
  <2>2. /\ upload'[u] = [at |-> "exists", version |-> c.version, build |-> c.build]
        /\ \A t \in Uploaders \ {u} : upload'[t] = upload[t]
    BY <2>1 DEF TypeOK
  <2>3. IsCandidate(c.version, c.build)
    BY DEF IsCandidate
  <2>4. rows' = rows /\ files' = files
    BY <1>1 DEF StartUpload
  <2> QED
    BY <2>2, <2>3, <2>4 DEF RegistryInv, Published, PublishedHasFile, StaysReadable, Readable
<1>2. CASE CheckExists(u)
  <2>1. /\ rows' = rows /\ files' = files /\ upload[u].at # "idle"
        /\ Answer(u) \/ Advance(u, "latest")
    BY <1>2 DEF CheckExists
  <2> QED
    BY <2>1, RequestStep DEF RegistryInv, Published, PublishedHasFile, StaysReadable, Readable, NoRequest
<1>3. CASE CheckLatest(u)
  <2>1. /\ rows' = rows /\ files' = files /\ upload[u].at # "idle"
        /\ \/ Answer(u)
           \/ Advance(u, "staged") /\ GreaterThanLatest(upload[u].version)
    BY <1>3 DEF CheckLatest
  <2>2. Seed # {} /\ GreaterThanLatest(upload[u].version) => Sortable(upload[u].version)
    BY DEF GreaterThanLatest, RegistryInv
  <2> QED
    BY <2>1, <2>2, RequestStep DEF RegistryInv, Published, PublishedHasFile, StaysReadable, Readable, NoRequest
<1>4. CASE MoveFile(u)
  <2>1. /\ rows' = rows /\ upload[u].at # "idle" /\ Advance(u, "moved")
        /\ files' = [files EXCEPT ![upload[u].version] = upload[u].build]
        /\ upload[u].at = "staged"
    BY <1>4 DEF MoveFile, FileMoved
  <2>2. upload[u].version \in Versions /\ upload[u].build # None
    BY <2>1, RequestType, BuildsAssumption
  <2>3. \A v \in Versions : files[v] # None => files'[v] # None
    BY <2>1, <2>2 DEF TypeOK
  <2>4. files'[upload[u].version] # None
    BY <2>1, <2>2 DEF TypeOK
  <2>5. PublishedHasFile'
    BY <2>1, <2>3 DEF RegistryInv, PublishedHasFile, Published
  <2>6. \A t \in Uploaders : upload'[t].at = "moved" => files'[upload'[t].version] # None
    BY <2>1, <2>3, <2>4, RequestStep, RequestType DEF RegistryInv
  <2> QED
    BY <2>1, <2>5, <2>6, RequestStep DEF RegistryInv, Published, StaysReadable, Readable
<1>5. CASE InsertRow(u)
  <2>1. files' = files /\ Answer(u) /\ upload[u].at = "moved" /\ upload[u].version \in Versions
    BY <1>5, RequestType DEF InsertRow, FilesAfterConflict
  <2>2. CASE upload[u].version \in Published
    BY <1>5, <2>1, <2>2, RequestStep
       DEF InsertRow, RegistryInv, Published, PublishedHasFile, StaysReadable, Readable, NoRequest
  <2>3. CASE upload[u].version \notin Published
    <3>1. rows' = [rows EXCEPT ![upload[u].version] = upload[u].build]
      BY <1>5, <2>3 DEF InsertRow
    <3>2. \A v \in Published' : v = upload[u].version \/ (v \in Published /\ rows'[v] = rows[v])
      BY <3>1 DEF Published, TypeOK
    <3>3. rows'[upload[u].version] = upload[u].build
      BY <2>1, <3>1 DEF TypeOK
    <3>4. \A v \in Published : v \in Published'
      BY <3>1, <3>3, <2>3 DEF Published, TypeOK
    <3>5. \A v \in Published' : IsCandidate(v, rows'[v])
      BY <2>1, <3>2, <3>3 DEF RegistryInv
    <3>6. PublishedHasFile'
      BY <2>1, <3>2 DEF RegistryInv, PublishedHasFile
    <3>7. StaysReadable'
      BY <2>1, <3>2 DEF RegistryInv, StaysReadable, Readable
    <3>8. Seed # {} => Published' # {}
      BY <3>4 DEF RegistryInv
    <3>9. \A t \in Uploaders : upload'[t] = NoRequest \/ upload'[t] = upload[t]
      BY <2>1, RequestStep
    <3> QED
      BY <2>1, <3>5, <3>6, <3>7, <3>8, <3>9 DEF RegistryInv, NoRequest
  <2> QED
    BY <2>2, <2>3
<1>6. CASE AbortUpload(u)
  <2>1. rows' = rows /\ files' = files /\ Answer(u)
    BY <1>6 DEF AbortUpload
  <2> QED
    BY <2>1, RequestStep DEF RegistryInv, Published, PublishedHasFile, StaysReadable, Readable, NoRequest
<1> QED
  BY <1>1, <1>2, <1>3, <1>4, <1>5, <1>6 DEF UploadStep

-----------------------------------------------------------------------------
(* The devices.                                                            *)

Known(b) == b \in Preinstalled \/ \E v \in Published : rows[v] = b
Backups == \A d \in Devices : bak[d] = None \/ Known(bak[d])

DeviceInv == Offers /\ Backups /\ RunsPublished

LEMMA InitDevice == Init => DeviceInv
BY DEF Init, DeviceInv, Offers, Backups, RunsPublished, Holding

\* A failed save is never forgotten.
LEMMA UnsavedStays ==
    ASSUME TypeOK, NEW k \in FaultKinds, used' = used \/ Spend(k), NeverUnsaved' PROVE NeverUnsaved
BY FaultKindsMembers DEF TypeOK, Spend, NeverUnsaved

\* An upload, or a stuttering step, leaves the devices alone.
LEMMA DeviceFrame ==
    ASSUME TypeOK, DeviceInv, UNCHANGED device,
           \A v \in Published : v \in Published' /\ rows'[v] = rows[v],
           NeverUnsaved' => NeverUnsaved
    PROVE  DeviceInv'
<1>1. stage' = stage /\ offer' = offer /\ pending' = pending /\ exe' = exe /\ bak' = bak
  BY DEF device
<1>2. Offers'
  BY <1>1 DEF DeviceInv, Offers, IsNewer, InstalledVersion
<1>3. RunsPublished' /\ Backups'
  BY <1>1 DEF DeviceInv, RunsPublished, Backups, Known
<1> QED
  BY <1>2, <1>3 DEF DeviceInv

\* A step of one device between two stages that leaves its executable alone.
LEMMA StageStep ==
    ASSUME TypeOK, DeviceInv, NEW d \in Devices, NEW s \in Stages,
           stage' = [stage EXCEPT ![d] = s],
           UNCHANGED <<registry, exe>>,
           NeverUnsaved' => NeverUnsaved,
           bak'[d] = bak[d] \/ bak'[d] = exe[d],
           \A c \in Devices \ {d} :
              offer'[c] = offer[c] /\ pending'[c] = pending[c] /\ bak'[c] = bak[c],
           s \in Holding =>
              /\ offer'[d].version \in Published
              /\ rows[offer'[d].version] = offer'[d].hash
              /\ AgentLess(InstalledVersion(d), offer'[d].version)
              /\ s \in {"scripted", "stopped"} \cup Saved => pending'[d] = offer'[d].hash
              /\ s \in Saved /\ NeverUnsaved' => bak'[d] = exe[d]
    PROVE  DeviceInv'
<1>1. stage'[d] = s /\ \A c \in Devices \ {d} : stage'[c] = stage[c]
  BY DEF TypeOK
<1>2. rows' = rows /\ Published' = Published /\ exe' = exe
  BY DEF registry, Published
<1>3. Offers'
  BY <1>1, <1>2 DEF DeviceInv, Offers, IsNewer, InstalledVersion
<1>4. RunsPublished' /\ Backups'
  BY <1>2 DEF DeviceInv, RunsPublished, Backups, Known
<1> QED
  BY <1>3, <1>4 DEF DeviceInv

\* The swap, or the restoration of the saved copy.
LEMMA SwapStep ==
    ASSUME TypeOK, DeviceInv, NEW d \in Devices, stage[d] \in Saved,
           NEW b, b = offer[d].hash \/ b = exe[d] \/ (b # None /\ b = bak[d]),
           NeverUnsaved' => NeverUnsaved,
           stage' = [stage EXCEPT ![d] = "swapped"],
           exe' = [exe EXCEPT ![d] = b],
           UNCHANGED <<registry, offer, bak>>,
           \A c \in Devices \ {d} : pending'[c] = pending[c]
    PROVE  DeviceInv'
<1>1. stage'[d] = "swapped" /\ \A c \in Devices \ {d} : stage'[c] = stage[c]
  BY DEF TypeOK
<1>2. exe'[d] = b /\ \A c \in Devices \ {d} : exe'[c] = exe[c]
  BY DEF TypeOK
<1>3. rows' = rows /\ Published' = Published
  BY DEF registry, Published
<1>4. Offers'
  BY <1>1, <1>2, <1>3 DEF DeviceInv, Offers, Holding, IsNewer, InstalledVersion
<1>5. offer[d].version \in Published /\ rows[offer[d].version] = offer[d].hash
  BY DEF DeviceInv, Offers, Holding, Saved
<1>6. RunsPublished' /\ Backups'
  BY <1>2, <1>3, <1>5 DEF DeviceInv, RunsPublished, Backups, Known
<1> QED
  BY <1>4, <1>6 DEF DeviceInv

LEMMA DeviceStepInv ==
    ASSUME TypeOK, DeviceInv, NEW d \in Devices, DeviceStep(d) \/ DeviceFault(d)
    PROVE  DeviceInv'
<1> USE DEF Holding, Saved, Stages
<1>0. stage[d] \in Holding =>
        /\ offer[d].version \in Published
        /\ rows[offer[d].version] = offer[d].hash
        /\ AgentLess(InstalledVersion(d), offer[d].version)
        /\ stage[d] \in {"scripted", "stopped"} \cup Saved => pending[d] = offer[d].hash
        /\ stage[d] \in Saved /\ NeverUnsaved => bak[d] = exe[d]
  BY DEF DeviceInv, Offers, IsNewer
<1>u. NeverUnsaved' => NeverUnsaved
  BY UnsavedStays, FaultKindsMembers
     DEF DeviceStep, DeviceFault, LatestRelease, DownloadRelease, VerifyRelease, StopService,
         SaveExecutable, SwapExecutable, StartService, TransferFails, SaveFails, SwapFails, PowerLoss,
         RestoreExecutable
<1>1. CASE LatestRelease(d)
  <2>1. PICK v \in Published :
          /\ AgentLess(InstalledVersion(d), v)
          /\ offer' = [offer EXCEPT ![d] = [version |-> v, hash |-> rows[v]]]
    BY <1>1 DEF LatestRelease, IsNewer
  <2>2. /\ offer'[d].version = v /\ offer'[d].hash = rows[v]
        /\ \A c \in Devices \ {d} : offer'[c] = offer[c]
    BY <2>1 DEF TypeOK
  <2> QED
    BY <1>u, <1>1, <2>1, <2>2, StageStep DEF LatestRelease
<1>2. CASE DownloadRelease(d)
  <2>1. \A c \in Devices \ {d} : pending'[c] = pending[c]
    BY <1>2 DEF DownloadRelease, TypeOK
  <2> QED
    BY <1>u, <1>0, <1>2, <2>1, StageStep DEF DownloadRelease
<1>3. CASE VerifyRelease(d)
  <2>1. \A c \in Devices \ {d} : pending'[c] = pending[c]
    BY <1>3 DEF VerifyRelease, TypeOK
  <2> QED
    BY <1>u, <1>0, <1>3, <2>1, StageStep DEF VerifyRelease, HashMatches
<1>4. CASE StopService(d)
  BY <1>u, <1>0, <1>4, StageStep DEF StopService
<1>5. CASE SaveExecutable(d)
  <2>1. bak'[d] = exe[d] /\ \A c \in Devices \ {d} : bak'[c] = bak[c]
    BY <1>5 DEF SaveExecutable, TypeOK
  <2> QED
    BY <1>u, <1>0, <1>5, <2>1, StageStep DEF SaveExecutable
<1>6. CASE SwapExecutable(d)
  <2>1. \A c \in Devices \ {d} : pending'[c] = pending[c]
    BY <1>6 DEF SwapExecutable, TypeOK
  <2> QED
    BY <1>u, <1>0, <1>6, <2>1, SwapStep DEF SwapExecutable
<1>7. CASE StartService(d)
  BY <1>u, <1>7, StageStep DEF StartService
<1>8. CASE TransferFails(d)
  <2>1. \A c \in Devices \ {d} : pending'[c] = pending[c]
    BY <1>8 DEF TransferFails, TypeOK
  <2> QED
    BY <1>u, <1>0, <1>8, <2>1, StageStep DEF TransferFails
<1>9. CASE SwapFails(d)
  BY <1>u, <1>0, <1>9, StageStep DEF SwapFails
<1>12. CASE RestoreExecutable(d)
  <2>1. PICK b \in {Restored(d), exe[d]} : exe' = [exe EXCEPT ![d] = b]
    BY <1>12 DEF RestoreExecutable
  <2>2. b = exe[d] \/ (b # None /\ b = bak[d])
    BY <2>1 DEF Restored
  <2> QED
    BY <1>u, <1>12, <2>1, <2>2, SwapStep DEF RestoreExecutable
<1>10. CASE PowerLoss(d)
  BY <1>u, <1>10, StageStep DEF PowerLoss
<1>11. CASE SaveFails(d)
  <2>1. ~NeverUnsaved'
    BY <1>11, FaultKindsMembers DEF SaveFails, Spend, NeverUnsaved, TypeOK
  <2> QED
    BY <1>0, <1>11, <2>1, StageStep DEF SaveFails
<1> QED
  BY <1>1, <1>2, <1>3, <1>4, <1>5, <1>6, <1>7, <1>8, <1>9, <1>10, <1>11, <1>12
   DEF DeviceStep, DeviceFault

-----------------------------------------------------------------------------
(* The invariant of the whole.                                             *)

LEMMA RegistryUnchanged == ASSUME RegistryInv, UNCHANGED registry PROVE RegistryInv'
BY DEF RegistryInv, registry, Published, PublishedHasFile, StaysReadable, Readable

IInv == TypeOK /\ RegistryInv /\ DeviceInv

LEMMA InitInv == Init => IInv
BY InitType, InitRegistry, InitDevice DEF IInv

LEMMA StepCases ==
    ASSUME [Next]_vars
    PROVE  \/ \E u \in Uploaders : StartUpload(u) \/ UploadStep(u) \/ AbortUpload(u)
           \/ \E d \in Devices : DeviceStep(d) \/ DeviceFault(d)
           \/ UNCHANGED vars
BY DEF Next, FaultStep, DeviceFault

LEMMA StepInv == IInv /\ [Next]_vars => IInv'
<1> SUFFICES ASSUME IInv, [Next]_vars PROVE IInv'
  OBVIOUS
<1>1. \A v \in Published : v \in Published' /\ rows'[v] = rows[v]
  BY RowsKept DEF IInv
<1>2. ASSUME NEW u \in Uploaders, StartUpload(u) \/ UploadStep(u) \/ AbortUpload(u)
      PROVE  IInv'
  <2>1. TypeOK' /\ RegistryInv'
    BY <1>2, UploadType, UploadRegistry DEF IInv
  <2>2. UNCHANGED device
    BY <1>2 DEF StartUpload, UploadStep, CheckExists, CheckLatest, MoveFile, InsertRow, AbortUpload
  <2>3. NeverUnsaved' => NeverUnsaved
    BY <1>2, UnsavedStays, FaultKindsMembers
       DEF IInv, StartUpload, UploadStep, CheckExists, CheckLatest, MoveFile, InsertRow, AbortUpload
  <2> QED
    BY <1>1, <2>1, <2>2, <2>3, DeviceFrame DEF IInv
<1>3. ASSUME NEW d \in Devices, DeviceStep(d) \/ DeviceFault(d) PROVE IInv'
  <2>1. UNCHANGED registry
    BY <1>3 DEF DeviceStep, DeviceFault, LatestRelease, DownloadRelease, VerifyRelease, StopService,
         SaveExecutable, SwapExecutable, StartService, TransferFails, SaveFails, SwapFails, PowerLoss,
         RestoreExecutable
  <2>2. TypeOK' /\ DeviceInv'
    BY <1>3, DeviceType, DeviceStepInv DEF IInv, DeviceInv, RegistryInv
  <2> QED
    BY <2>1, <2>2, RegistryUnchanged DEF IInv
<1>4. CASE UNCHANGED vars
  <2>1. UNCHANGED registry /\ UNCHANGED device /\ TypeOK' /\ NeverUnsaved' = NeverUnsaved
    BY <1>4 DEF vars, registry, device, IInv, TypeOK, NeverUnsaved
  <2> QED
    BY <1>1, <2>1, RegistryUnchanged, DeviceFrame DEF IInv
<1> QED
  BY <1>2, <1>3, <1>4, StepCases

LEMMA Invariance == Spec => []IInv
BY InitInv, StepInv, PTL DEF Spec

\* Every variable stays in its type.
THEOREM TypeCorrect == Spec => []TypeOK
<1>1. IInv => TypeOK
  BY DEF IInv
<1> QED
  BY <1>1, Invariance, PTL

\* However many uploads race, collide or abort, a published release has a file to download
\* (AgentUpdateController.java:93-99: the move precedes the insert and nothing removes it).
THEOREM ReleaseHasFile == Spec => []PublishedHasFile
<1>1. IInv => PublishedHasFile
  BY DEF IInv, RegistryInv
<1> QED
  BY <1>1, Invariance, PTL

\* A registry with one release never gets a version its sorted queries cannot read.
THEOREM SeededStaysReadable == Spec => []StaysReadable
<1>1. IInv => StaysReadable
  BY DEF IInv, RegistryInv
<1> QED
  BY <1>1, Invariance, PTL

\* Devices run only what they started with or what was published (UpdateService.cs:21-27).
THEOREM OnlyPublishedRuns == Spec => []RunsPublished
<1>1. IInv => RunsPublished
  BY DEF IInv, DeviceInv
<1> QED
  BY <1>1, Invariance, PTL

-----------------------------------------------------------------------------
(* No downgrade.                                                           *)

LEMMA InstalledType ==
    ASSUME TypeOK, NEW d \in Devices
    PROVE  IsVersion(InstalledVersion(d)) /\ Len(InstalledVersion(d)) = 3
<1>1. AssemblyVersion[exe[d]] \in Seq(Nat) /\ Len(AssemblyVersion[exe[d]]) = 4
  BY BuildsAssumption DEF TypeOK
<1> QED
  BY <1>1, ReportedType DEF InstalledVersion

LEMMA NotLowerThanItself ==
    ASSUME NEW v, IsVersion(v), Len(v) = 3 PROVE ~AgentLess(v, v)
BY AgentLessFour, PaddedValues

LEMMA SwapNotLower ==
    ASSUME IInv, HonestLabels, NEW d \in Devices, stage[d] \in Saved
    PROVE  ~AgentLess(Reported(AssemblyVersion[offer[d].hash]), InstalledVersion(d))
<1> DEFINE v == offer[d].version
<1>1. v \in Published /\ rows[v] = offer[d].hash /\ AgentLess(InstalledVersion(d), v)
  BY DEF IInv, DeviceInv, Offers, Holding, Saved, IsNewer
<1>2. PICK c \in Candidates : c.version = v /\ c.build = offer[d].hash
  BY <1>1 DEF IInv, RegistryInv, IsCandidate
<1>3. Reported(AssemblyVersion[offer[d].hash]) = Reported(v)
  BY <1>2 DEF HonestLabels, Labelled
<1>4. IsVersion(v)
  BY <1>1, VersionsAssumption DEF Published
<1>5. IsVersion(InstalledVersion(d)) /\ Len(InstalledVersion(d)) = 3
  BY InstalledType DEF IInv
<1> HIDE DEF v
<1> QED
  BY <1>1, <1>3, <1>4, <1>5, ReportedNotLower

LEMMA StepNotLower ==
    IInv /\ [Next]_vars =>
        [HonestLabels /\ used["save"] = 0 => \A d \in Devices :
          ~AgentLess(Reported(AssemblyVersion[exe'[d]]), Reported(AssemblyVersion[exe[d]]))]_vars
<1> SUFFICES ASSUME IInv, [Next]_vars, HonestLabels, used["save"] = 0, NEW d \in Devices
             PROVE  ~AgentLess(Reported(AssemblyVersion[exe'[d]]), InstalledVersion(d))
  BY DEF InstalledVersion
<1>1. CASE exe'[d] = exe[d]
  <2>1. Reported(AssemblyVersion[exe'[d]]) = InstalledVersion(d)
    BY <1>1 DEF InstalledVersion
  <2> QED
    BY <2>1, InstalledType, NotLowerThanItself DEF IInv
<1>2. ASSUME NEW e \in Devices, SwapExecutable(e) \/ RestoreExecutable(e), exe'[d] # exe[d]
      PROVE  stage[d] \in Saved /\ exe'[d] = offer[d].hash
  <2>1. d = e
    BY <1>2 DEF SwapExecutable, RestoreExecutable, IInv, TypeOK
  <2>2. stage[d] \in Saved /\ (exe'[d] = pending[d] \/ exe'[d] = bak[d])
    BY <1>2, <2>1 DEF SwapExecutable, RestoreExecutable, Restored, Saved, IInv, TypeOK
  <2>3. pending[d] = offer[d].hash /\ bak[d] = exe[d]
    BY <2>2 DEF IInv, DeviceInv, Offers, Holding, Saved, NeverUnsaved
  <2> QED
    BY <1>2, <2>2, <2>3
<1>3. exe' = exe \/ \E e \in Devices : SwapExecutable(e) \/ RestoreExecutable(e)
  BY DEF Next, vars, UploadStep, DeviceStep, FaultStep, StartUpload, CheckExists, CheckLatest,
         MoveFile, InsertRow, AbortUpload, LatestRelease, DownloadRelease, VerifyRelease,
         StopService, SaveExecutable, StartService, TransferFails, SaveFails, SwapFails, PowerLoss, device
<1> QED
  BY <1>1, <1>2, <1>3, SwapNotLower

\* With honest labels no device is ever taken to an older version (UpdateService.cs:12, 36-40).
THEOREM NeverDowngrades == Spec => NoDowngrade
BY Invariance, StepNotLower, PTL DEF Spec, NoDowngrade

-----------------------------------------------------------------------------
(* Uploads of one version that do not overlap.                             *)

\* A request past the existence check is alone with its version, so the version is still
\* unpublished and the file in place is the request's own.
SerialInv ==
    /\ \A u \in Uploaders :
         /\ upload[u].at \in Committing => upload[u].version \notin Published
         /\ upload[u].at = "moved" => files[upload[u].version] = upload[u].build
    /\ FileMatchesHash

LEMMA SerialUpload ==
    ASSUME TypeOK, TypeOK', SerialInv, NoOverlap, NoOverlap', NEW u \in Uploaders,
           StartUpload(u) \/ UploadStep(u) \/ AbortUpload(u)
    PROVE  SerialInv'
<1> USE DEF Committing
<1>1. CASE StartUpload(u)
  <2>1. upload'[u].at = "exists" /\ \A t \in Uploaders \ {u} : upload'[t] = upload[t]
    BY <1>1 DEF StartUpload, TypeOK
  <2> QED
    BY <1>1, <2>1 DEF StartUpload, SerialInv, Published, FileMatchesHash
<1>2. CASE CheckExists(u)
  <2>1. /\ rows' = rows /\ files' = files /\ upload[u].at # "idle"
        /\ \/ Answer(u)
           \/ Advance(u, "latest") /\ upload[u].version \notin Published
    BY <1>2 DEF CheckExists
  <2> QED
    BY <2>1, RequestStep DEF SerialInv, Published, FileMatchesHash, NoRequest
<1>3. CASE CheckLatest(u)
  <2>1. /\ rows' = rows /\ files' = files /\ upload[u].at = "latest"
        /\ Answer(u) \/ Advance(u, "staged")
    BY <1>3 DEF CheckLatest
  <2> QED
    BY <2>1, RequestStep DEF SerialInv, Published, FileMatchesHash, NoRequest
<1>4. CASE MoveFile(u)
  <2>1. /\ rows' = rows /\ upload[u].at = "staged" /\ Advance(u, "moved")
        /\ files' = [files EXCEPT ![upload[u].version] = upload[u].build]
    BY <1>4 DEF MoveFile, FileMoved
  <2>2. upload[u].version \in Versions /\ upload[u].version \notin Published
    BY <2>1, RequestType DEF SerialInv
  <2>3. FileMatchesHash'
    BY <2>1, <2>2 DEF SerialInv, FileMatchesHash, Published, TypeOK
  <2>4. files'[upload[u].version] = upload[u].build
    BY <2>1, <2>2 DEF TypeOK
  <2>5. \A t \in Uploaders \ {u} : upload[t].at = "moved" => upload[t].version # upload[u].version
    BY <2>1 DEF NoOverlap
  <2>6. \A t \in Uploaders \ {u} : upload[t].at = "moved" =>
          files'[upload[t].version] = files[upload[t].version]
    BY <2>1, <2>5, RequestType DEF TypeOK
  <2> QED
    BY <2>1, <2>2, <2>3, <2>4, <2>5, <2>6, RequestStep DEF SerialInv, Published
<1>5. CASE InsertRow(u)
  <2>1. /\ files' = files /\ Answer(u) /\ upload[u].at = "moved" /\ upload[u].version \in Versions
        /\ upload[u].version \notin Published
    BY <1>5, RequestType DEF InsertRow, FilesAfterConflict, SerialInv
  <2>2. rows' = [rows EXCEPT ![upload[u].version] = upload[u].build]
    BY <1>5, <2>1 DEF InsertRow
  <2>3. FileMatchesHash'
    BY <2>1, <2>2 DEF SerialInv, FileMatchesHash, Published, TypeOK
  <2>4. \A t \in Uploaders \ {u} : upload[t].at \in Committing =>
          upload[t].version # upload[u].version
    BY <2>1 DEF NoOverlap
  <2>5. \A v \in Published' : v = upload[u].version \/ v \in Published
    BY <2>2 DEF Published, TypeOK
  <2> QED
    BY <2>1, <2>3, <2>4, <2>5, RequestStep DEF SerialInv, NoRequest
<1>6. CASE AbortUpload(u)
  BY <1>6, RequestStep DEF AbortUpload, SerialInv, Published, FileMatchesHash, NoRequest
<1> QED
  BY <1>1, <1>2, <1>3, <1>4, <1>5, <1>6 DEF UploadStep

LEMMA SerialStep ==
    IInv /\ IInv' /\ SerialInv /\ NoOverlap /\ NoOverlap' /\ [Next]_vars => SerialInv'
<1> SUFFICES ASSUME IInv, IInv', SerialInv, NoOverlap, NoOverlap', [Next]_vars PROVE SerialInv'
  OBVIOUS
<1>1. CASE UNCHANGED registry
  BY <1>1 DEF registry, SerialInv, Published, FileMatchesHash
<1>2. ASSUME NEW d \in Devices, DeviceStep(d) \/ DeviceFault(d) PROVE UNCHANGED registry
  BY <1>2 DEF DeviceStep, DeviceFault, LatestRelease, DownloadRelease, VerifyRelease, StopService,
       SaveExecutable, SwapExecutable, StartService, TransferFails, SaveFails, SwapFails, PowerLoss,
         RestoreExecutable
<1>3. UNCHANGED vars => UNCHANGED registry
  BY DEF vars, registry
<1> QED
  BY <1>1, <1>2, <1>3, StepCases, SerialUpload DEF IInv

LEMMA InitSerial == Init => SerialInv
BY DEF Init, SerialInv, FileMatchesHash, Published, NoRequest, Committing

\* Uploads of one version that do not overlap, whether they abort, fail or are repeated, leave
\* every published release with the bytes whose hash was published (AgentUpdateController.java
\* :83-96).
THEOREM SerialUploadsKeepHash == Spec => SerialUploadsMatch
<1>1. SerialInv => FileMatchesHash
  BY DEF SerialInv
<1> QED
  BY <1>1, InitSerial, SerialStep, Invariance, PTL DEF Spec, SerialUploadsMatch

-----------------------------------------------------------------------------
(* Uploads that do not overlap at all.                                     *)

\* Versions are ranked in Java: what is not below a version is above whatever that is above.
LEMMA JavaRanks ==
    ASSUME NEW l, NEW v, NEW w, IsVersion(l), IsVersion(v), IsVersion(w),
           JavaLess(l, v), ~JavaLess(l, w)
    PROVE  JavaLess(w, v)
<1> DEFINE L == Padded(l, 0)
           V == Padded(v, 0)
           W == Padded(w, 0)
<1>1. L \in [1 .. 4 -> Int] /\ V \in [1 .. 4 -> Int] /\ W \in [1 .. 4 -> Int]
  BY PaddedType
<1>2. Precedes(L, V, 4) /\ ~Precedes(L, W, 4)
  BY DEF JavaLess
<1> SUFFICES Precedes(W, V, 4)
  BY DEF JavaLess
<1> HIDE DEF L, V, W
<1>3. /\ L[1] \in Int /\ L[2] \in Int /\ L[3] \in Int /\ L[4] \in Int
      /\ V[1] \in Int /\ V[2] \in Int /\ V[3] \in Int /\ V[4] \in Int
      /\ W[1] \in Int /\ W[2] \in Int /\ W[3] \in Int /\ W[4] \in Int
  BY <1>1
<1> QED
  BY <1>1, <1>2, <1>3, PrecedesFour

\* A version above the latest release is above every release, in the order of the database and
\* in Java's: the two disagree only on releases that Java calls equal.
LEMMA GreaterThanAll ==
    ASSUME TypeOK, NEW v \in Versions, GreaterThanLatest(v), NEW w \in Published
    PROVE  JavaLess(w, v) /\ SqlLess(w, v)
<1>1. PICK l \in Published : Newest(l) /\ JavaLess(l, v)
  BY DEF GreaterThanLatest
<1>2. IsVersion(l) /\ IsVersion(v) /\ IsVersion(w)
  BY VersionsAssumption DEF Published
<1>3. ~JavaLess(l, w)
  BY <1>1, <1>2, AcceptedSortsOnTop DEF Newest
<1>4. JavaLess(w, v)
  BY <1>1, <1>2, <1>3, JavaRanks
<1> QED
  BY <1>2, <1>4, AcceptedSortsOnTop

Increasing ==
    \A u \in Uploaders : upload[u].at \in {"staged", "moved"} =>
        \A w \in Published : JavaLess(w, upload[u].version) /\ SqlLess(w, upload[u].version)

LEMMA IncreasingUpload ==
    ASSUME TypeOK, Increasing, NoConcurrency, NEW u \in Uploaders,
           StartUpload(u) \/ UploadStep(u) \/ AbortUpload(u)
    PROVE  Increasing'
<1>1. CASE StartUpload(u)
  <2>1. upload'[u].at = "exists" /\ \A t \in Uploaders \ {u} : upload'[t] = upload[t]
    BY <1>1 DEF StartUpload, TypeOK
  <2> QED
    BY <1>1, <2>1 DEF StartUpload, Increasing, Published
<1>2. CASE CheckExists(u) \/ AbortUpload(u)
  <2>1. /\ rows' = rows /\ upload[u].at # "idle"
        /\ Answer(u) \/ Advance(u, "latest")
    BY <1>2 DEF CheckExists, AbortUpload
  <2> QED
    BY <2>1, RequestStep DEF Increasing, Published, NoRequest
<1>3. CASE CheckLatest(u)
  <2>1. rows' = rows /\ upload[u].at # "idle"
    BY <1>3 DEF CheckLatest
  <2>2. CASE GreaterThanLatest(upload[u].version)
    <3>1. Advance(u, "staged") /\ upload[u].version \in Versions
      BY <1>3, <2>1, <2>2, RequestType DEF CheckLatest
    <3>2. \A w \in Published : JavaLess(w, upload[u].version) /\ SqlLess(w, upload[u].version)
      BY <2>2, <3>1, GreaterThanAll
    <3> QED
      BY <2>1, <3>1, <3>2, RequestStep DEF Increasing, Published
  <2>3. CASE ~GreaterThanLatest(upload[u].version)
    BY <1>3, <2>1, <2>3, RequestStep DEF CheckLatest, Increasing, Published, NoRequest
  <2> QED
    BY <2>2, <2>3
<1>4. CASE MoveFile(u)
  <2>1. rows' = rows /\ upload[u].at = "staged" /\ Advance(u, "moved")
    BY <1>4 DEF MoveFile
  <2> QED
    BY <2>1, RequestStep DEF Increasing, Published
<1>5. CASE InsertRow(u)
  <2>1. upload[u].at = "moved" /\ Answer(u)
    BY <1>5 DEF InsertRow
  <2>2. \A t \in Uploaders \ {u} : upload[t].at \notin {"staged", "moved"}
    BY <2>1 DEF NoConcurrency, Committing
  <2> QED
    BY <2>1, <2>2, RequestStep DEF Increasing, NoRequest
<1> QED
  BY <1>1, <1>2, <1>3, <1>4, <1>5 DEF UploadStep

LEMMA IncreasingStep ==
    IInv /\ Increasing /\ NoConcurrency /\ [Next]_vars => Increasing'
<1> SUFFICES ASSUME IInv, Increasing, NoConcurrency, [Next]_vars PROVE Increasing'
  OBVIOUS
<1>1. CASE UNCHANGED registry
  BY <1>1 DEF registry, Increasing, Published
<1>2. ASSUME NEW d \in Devices, DeviceStep(d) \/ DeviceFault(d) PROVE UNCHANGED registry
  BY <1>2 DEF DeviceStep, DeviceFault, LatestRelease, DownloadRelease, VerifyRelease, StopService,
       SaveExecutable, SwapExecutable, StartService, TransferFails, SaveFails, SwapFails, PowerLoss,
         RestoreExecutable
<1>3. UNCHANGED vars => UNCHANGED registry
  BY DEF vars, registry
<1> QED
  BY <1>1, <1>2, <1>3, StepCases, IncreasingUpload DEF IInv

LEMMA InitIncreasing == Init => Increasing
BY DEF Init, Increasing, NoRequest

\* Without concurrent uploads only a version above every release published, in Java's order and
\* in the database's, gets past the comparison with the latest (AgentUpdateController.java:87).
THEOREM SerialUploadsGoUp == Spec => SerialUploadsIncrease
BY InitIncreasing, IncreasingStep, Invariance, PTL DEF Spec, SerialUploadsIncrease, Increasing
=============================================================================
