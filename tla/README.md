# AssetFlow: a specification of the agent, the backend and what holds between them

AssetFlow keeps an inventory of managed Windows PCs. A .NET service on every PC
(`src/agent`) enrols with the backend (`src/backend`, Spring Boot over PostgreSQL,
two replicas without shared memory), uploads inventories and heartbeats, and updates
itself. A tray process in each user session shows whether the service gets through.
Administrators use a React console (`src/frontend`).

This directory specifies the parts of the system that keep state across steps that can
interleave, fail or be repeated. Every module has a TLC instance; the invariants that
matter most are also proved with TLAPS for every value of the constants.

## 1. Inventory

| Component | Source | State it keeps | Operations | Talks to |
|---|---|---|---|---|
| Device enrolment and recovery | `agent/Worker.cs`, `AgentState.cs`, `AgentClient.cs`, `api/AgentController.register`, the installers | `AgentState.Options`, `agent.json`, the 401 counter, the token hash of the agent row | start, register, three loops, recover, save | backend by HTTP, installer by file |
| Version reports | `api/AgentController.register/heartbeat` | `agent.version`, `agent_update_history` | register, heartbeat | the service; console reads |
| Inventory and management data | `api/AgentController.inventory`, `api/AssetController` | `asset`, `asset_disk`, `asset_software`, `asset_management_history` | upload, edit, list, detail | the service; console |
| Agent releases and self-update | `api/AgentUpdateController`, `agent/UpdateService.cs`, `AgentClient.cs` | `agent_release`, the release directory, the installed executable and its copy | upload, list, latest, download; check, verify, swap | console; service; `apply-update.cmd` |
| Software policies | `service/SoftwarePolicySyncService`, `api/SoftwareComplianceController`, `service/SchedulerLockConfig` | `software_policy`, `software_policy_sync_log`, `shedlock` | scheduled and manual import, edit, view | an external list over HTTP |
| System inspection | `api/SystemInspectionController`, `service/K3sInspectionService` | `system_inspection_log`, `shedlock` | scheduled and manual inspection, list | the Kubernetes API |
| Agent health and tray icon | `agent/AgentHealth.cs`, `AgentHealthService.cs`, `TrayApplication.cs` | the health map, `agent-status.json`, the icon | success, failure, publish, refresh | file between service and tray |
| Tray processes | `agent/TraySessionService.cs`, `TrayApplication.Run`, the Run key | one tray per session | inspect sessions, start, exit | Windows |
| Log files | `agent/DailyFileLogger.cs`, `AgentCommunicationHandler.cs` | the day's files and their rotation | write | file system |
| Console: pages with their own data | `frontend/src.jsx`: `ReleaseList`, `UpdateHistory`, `InspectionLog`, `ServerMonitoring`, `SoftwareCompliance`, `AgentOps` | rows, loading, error, busy, message of the mounted page | open, load by mount, timer, event or button; upload, inspect, add, remove, synchronise | backend by HTTP; one event between components |
| Console: sign-in, dashboard, asset list | `frontend/src.jsx`: `App`, `Login`, `Dashboard` | user, figures and list, loading, error | start, sign in and out, load, filter | backend by HTTP |
| Console: asset detail | `frontend/src.jsx`: `AssetDetailModal`, `ManagementForm` | the asset in the address, its data, the form and its warning | open, change, type, save, reload, close | backend by HTTP |
| Sign-in and request security | `api/AuthController`, `service/SecurityConfig`, `SecretsValidator` | the session | sign in, sign out, check | Spring Session |
| Data folder protection, collector | `agent/ConfigProtection.cs`, `InventoryCollector.cs`, `SessionUsers.cs` | none of its own | repair, collect | Windows |
| Deployment, generated documents | `deploy/`, `.github/`, `docs/build-html.mjs` | none | | |

How they interact. The service calls the backend over HTTP and presents the device token
that enrolment keeps; answers may be lost, late, or come from either replica. The two
replicas share only PostgreSQL and the release directory: no lock in memory reaches across
them. The service and the tray share one status file. Within the service three loops share
`AgentState`, `agent.json`, the 401 counter and the health map without a lock. The nightly
job and an administrator's request meet in one synchronized method, on one replica. The
console is one component tree in a browser: its requests carry the cookie of the moment they
are sent, and their answers come back into whatever is on the screen by then.

What is hard, and what makes each part correct:

* **Enrolment.** Three loops may recover at once; a registration replaces the token on the
  server before the device knows the new one; `agent.json` is rewritten in place. Correct
  means: a device that has given up its registration token holds the newest device token
  that reached it, in memory and on disk; it loses its credentials only for a cause outside
  the code; it ends up accepted or says that it needs help, and its tray tells the truth.
* **Releases.** Check, transfer, file move and row insert are four steps of two replicas;
  four notations of a version are ordered by three comparisons (Java, SQL, .NET); the
  updater swaps an executable that may be interrupted anywhere. Correct means: what is
  offered can be downloaded and is what was hashed; one bad version does not end all
  updates; a device runs only published code, never an older one, reaches the newest and
  comes to rest.
* **Version history.** Registration and heartbeat compare, write the history and update the
  row in separate commits. Correct means: the version shown is recorded, the record is a
  chain, and the display settles on what the device runs.
* **Inventory.** Uploads of one device overlap in transactions over three tables, first
  uploads race for the id, and an administrator edits the same row. Correct means: a reader
  sees one inventory, is told when it is cut off, the id a device was told exists, and
  neither side undoes the other.
* **Policy import.** A lock in the database, a monitor per replica, a commit per row.
  Correct means: once a night; a log that ends; a success that is one; the list in force
  after any failure.
* **Console pages.** Loads of a mount, a timer, an event and a command overlap; pages are
  left and come back while answers are on their way; forms share a busy flag. Correct means:
  a page shows only what the server has held since it was opened, does not take an unread
  list for an empty one, does not submit twice, tells a result together with its data, and
  with a timer ends up at the present.
* **Console session.** Who is signed in is known twice, by the screen and by the server; the
  data of `App` outlive a sign-out. Correct means: a page that says nothing of loading or an
  error is up to date, nobody is signed out without a cause, and the figures agree with
  the lists their links lead to.
* **Asset detail.** One form outlives changes of the address and overlapping edits of
  others. Correct means: the page shows the asset in the address, what was typed is not
  closed unasked, and a save writes only what the page had.
* **Tray, log files.** Ages of a file written by another process; five file moves any of
  which may fail.

## 2. Plan

Done, in this order: `DeviceEnrollment`, `ReleaseRegistry`, `VersionHistory`,
`AssetInventory` (with its abstract specification `AssetRecord`), `SchedulerLock` and
`PolicySync`; then the console as `ConsolePages` (with its abstract specification
`SnapshotView`), `ConsoleSession` and `AssetDetail`; the proofs about all of them. Next:

1. `TrayStatus`: the health map, the status file (published every 10 s by a move over the
   old one), the icon refreshed every 5 s with its ages of 45 s and 12 min
   (`AgentHealth.Evaluate`). Abstract specification: the icon never stays green over a
   service that has stopped ("must never retain a green icon", `TrayApplication`).
   `TraySessions` beside it: one tray per session, from the Run key and from the 30-second
   inspection, with the mutex of the tray.
2. `LogRotation`: the five files of a day under failing moves.
3. `SystemInspection` over `SchedulerLock`: a second job under the same lock and on the same
   scheduler thread; its log and the manual inspection.
4. `AssetDetail` over `AssetInventory`: the four queries of the detail page, and the
   compliance view's queries, as readers of uploads under way.
5. Composition: `DeviceEnrollment` with `VersionHistory` (a registration whose answer is lost
   has still changed the version shown).
6. Proofs: the tray's abstract specification; an abstract release registry, to which an upload
   is one step, and an abstract update history.

## 3. Modules

Conventions. A step ends where the code awaits, does I/O, commits a statement or leaves a
lock; nothing that runs between two such points is split. Faults have a budget by kind
(`FaultBudget`, `AbortBudget`, `MostFaults`) and the invariants name the kinds they exempt.
Operators marked "Mutant" are what a plausible slip of the code would make of the definition
below them; no specification uses them.

**`DeviceEnrollment`** (`Worker.cs`, `AgentState.cs`, `AgentClient.cs`,
`AgentController.register`). `pc` is the position of the startup registration and of every
loop; `options` is `AgentState.Options`, `file` is `agent.json`, `serverToken` the token
whose hash the agent row has. Device tokens are numbered in the order of issue, so "newest"
can be said. `LoadUnauthorized`/`StoreUnauthorized` are the two halves of `unauthorized++`;
`ClearDeviceToken`, `EnsureRegistered`, `ServerRegisters`, `StoreDeviceToken` and `WriteFile`
are `RecoverDeviceTokenAsync` and `EnsureRegisteredAsync`, with the file write as a step of
its own since the process may end inside it. A failing write may leave the file as it was or
torn, and the process goes on. `options with {...}` is read and stored in one step, with the
stale copy that another loop's `Save` in between would produce as a fault of its budget
(`stale`). `delivered` and `used` are history variables.

**`ReleaseVersions`**, **`ReleaseRegistry`** (`AgentUpdateController`, `UpdateService.cs`,
`AgentClient.cs`). The first has the orders: Java's comparison padded with zeros, SQL's of
integer arrays, .NET's `System.Version` with a missing part below zero. In the second,
`upload[u].at` is the position of an upload between its checks, its staged file, the move
and the insert; `stage[d]` that of a device between poll, download, verified file, copy,
move and start; a failed move and the copy that restores the executable are two commands of
`apply-update.cmd` and two steps. A build is the bytes of an executable and its hash; a label is
the version it was uploaded under, and `AssemblyVersion` what is compiled into it.

**`VersionHistory`** (`AgentController.register/heartbeat`). `request[r]` is a request
between its SELECT, its history entry and its update, each a commit; several requests of a
device may be at work because an answer timed out, a service restarted, or two loops call.
`cutShort` is a history variable: the versions whose first registration ended before its entry.

**`AssetRecord`**, **`AssetInventory`** (`AgentController.inventory`,
`AssetController.management`). `AssetRecord` is what readers of an asset may rely on: one
inventory, whole, and management data, each replaced in one step that keeps the other. In
`AssetInventory` the transaction is a copy of the row (`upload[u].work`) that is committed in
one step, the row lock a guard (`Holds`); a second first upload waits for the first and then
keeps its own id, which the foreign key of the disks refuses (the device tries again). A
management edit is two commits. `Shown` is the refinement mapping: a committed row without its
id, with what it shows of the inventory apart from the management data.

**`DailyJob`**, **`SchedulerLock`**, **`PolicySync`** (`SchedulerLockConfig`,
`SoftwarePolicySyncService`, `SoftwareComplianceController`). `DailyJob` says what CR-027
asks: at most one start a day. `SchedulerLock` is ShedLock as the code configures it, time in
ticks of the database clock; `PolicySync` runs under it and adds the method itself, its
monitor, the import by rows, the log row (`open`: rows that say RUNNING; `success`: lists of
rows that say SUCCESS), requests, the administrator's edits and the source. An edit that
renames a row's source takes it away from the import as a deletion does, and is modelled so.

**`SnapshotView`**, **`ConsolePages`** (the pages of `src.jsx` that fetch their own data).
`SnapshotView` is what a page promises: whatever it shows, the server has held since the page
was opened. `ConsolePages` has the mounted page with its `rows`, `error`, `loading`, `busy` and
`message`, and `tasks`: one slot for every load or command under way. A step is a click, a
timer, an effect of the server, or an answer with all its handler does up to the next await.
`version` numbers the server's data. `Open` mounts a page and drops the loads of the one
before (`LeftBehind`); a command goes on without its page; `AgentOps` keeps its busy flag and
message between its three views (`Kept`) while the list in it is mounted anew. `effect`,
`openedAt` and `beside` (a removal, which no busy flag holds back, was under way beside a
submission) are there for the properties. The five pages differ in what starts a load, in what
replaces the list on an error, and in whether their form waits for the load: each is an action
of its own over a common `Load` and `LoadAnswered`.

**`ConsoleSession`** (`App`, `Login`, `Dashboard`; `AuthController`, `SecurityConfig`,
`AssetController`). `valid`, `cookie` and `user` are the session as server, browser and screen
know it; a sign-in ends the cookie before it. A load is `CountTotal` and `CountTally`
(`/dashboard` is counted by queries outside a transaction; the first is told from the others)
beside `ListAssets` (`/assets`), answered together (`Promise.all`) or by the first refusal.
`World` gives the assets after each change; `Tally`, `Listed`, `Filtered`, `Compliance` and
`Dashboard` are the SQL and the JavaScript over it.

**`AssetDetail`** (`AssetDetailModal`, `ManagementForm`; `AssetController.management`).
`first` is the load for the address, which is guarded against a change of it, `saves` are the
saves and the reloads after them, which are not. The form is filled once, when it appears, and
stays through changes of the address; every field is sent. `base`, `typed`, `unsaved`,
`midSave` and `movedInSave` are history variables.

Modules named `MC...` give the constants their values, `...Proofs` hold the theorems.

## 4. Runs

`tlc -config <file>.cfg <module>`; deadlock is checked except where a behaviour may end.

| Run | Module, configuration | Question and result |
|---|---|---|
| `enroll_one` | `MCDeviceEnrollment`, `DeviceEnrollment_one.cfg` | One loop, every kind of fault once (two crashes), with and without the environment token. `HeldIsNewest`, `CredentialLossHasCause`, `DiskKeepsUp`, `RecoveryCompletes` hold. |
| `enroll_two` | `..._two.cfg` | Two loops, threshold 2, a revocation, a lost answer, an I/O error and a stale copy of the options. Recoveries that do not overlap keep the newest token (`SerialHoldsNewest`); a device that stays refused says so (`StrandedIsVisible`) and one that is accepted for good stops reporting errors (`RecoveredTurnsGreen`), overlapping recoveries included except for the entry of the registration. |
| `release_safe` | `MCReleaseRegistry`, `ReleaseRegistry_safe.cfg` | Two uploads in progress, labels of three and four components and one out of range, aborts and failed transfers. `PublishedHasFile`, `StaysReadable`, `RunsPublished`, `SerialUploadsMatch` hold. |
| `release_live` | `..._live.cfg` | One upload at a time, every fault of the device once. `NoDowngrade`, `NewestReachesDevices`, `UpdatesSettle`, `SerialUploadsIncrease` hold. |
| `release_immutable` | `..._immutable.cfg`, violation | Two overlapping uploads of one version leave the file of one under the hash of the other; `AgentUpdateController.java:84` says that releases are immutable. |
| `history_all` | `VersionHistory`, `VersionHistory.cfg` | Two requests of a device over two updates, two interruptions anywhere. `ShownIsRecorded` (of every version but one whose first registration was cut short before its entry), `SerialHistoryIsChain`, `VersionSettles` hold. |
| `inventory_all` | `MCAssetInventory`, `AssetInventory.cfg` | Two overlapping uploads, three contents around the software limit, two edits, an interruption. `InventoryAtomic` (the abstract `AssetRecord`), `TruncationTold`, `AnsweredIdExists`, `SerialHistoryMatches`, `InventoryArrives` hold. |
| `sync_one` | `MCPolicySync`, `PolicySync_one.cfg` | One replica, the nightly run and a request, two lists, any two disturbances. `RunningHasRun`, `SuccessIsImported`, `PoliciesArrive` hold. |
| `sync_two` | `PolicySync_two.cfg` | Two replicas with skewed clocks, a request, a stop. `LockCovers` and `OncePerDay` (the abstract `DailyJob` under the obvious mapping) hold. |
| `console_pages` | `ConsolePages`, `ConsolePages.cfg` | Every page, two tasks at once, two changes of the data, a failed load. `NoDoubleSubmit`, `EmptyOnlyIfRead`, `ViewKept` (the abstract `SnapshotView`), `CommandShown` and `PolledPageSettles` hold. |
| `console_session` | `MCConsoleSession`, `ConsoleSession.cfg` | Two loads, the start and two sign-ins, a sign-out, an expiry and lost answers in any order, over two inventories of which the second exceeds the list's limit. `SettledIsFresh`, `FiguresAgree` (what docs/design-review-2026-10-23/implementation.md:24 says of filters and counts), `SignedOutHasCause` hold. |
| `console_detail` | `MCAssetDetail`, `AssetDetail.cfg` | Two assets of two fields, one change of the address, one save at a time with its reload, an edit by another administrator. `TypeOK`, `TypedIsGuarded`, `SettledShowsAddress`, `UntypedOnlyPutBack` hold. |

The types of all modules are proved (section 5); only `AssetDetail` has them in its run, where a
form filled in part would break them.

Bounds, and why they are enough. Two is what a race needs: two loops, two uploads, two
requests, two replicas; the steps of a third repeat those of the second. Faults are budgeted
by kind, one of each, so that every pair of different faults meets and a fault is followed by
an undisturbed recovery; crashes come twice in `enroll_one` so that what the first left in
`agent.json` is read before the second. The threshold is 3 as in the code where one loop
counts alone, and 2 in `enroll_two`, where two loops share the
counter and the number only says how many answers come before a recovery. Versions are
five: the release in service, its successor as three and as four components, the next minor
one, and one above the largest int, which is scaled to 20. The software limit is 1 with
contents of 0, 1 and 2 programs, both sides of the boundary. Three versions of a device give
two updates, the least in which "the version before" can come back after "the version
after". Two lists, the second without one policy of the first, give a partial import and an
overtaken one. A day is 3 ticks, the skew 1, `lockAtLeastFor` 2 and `lockAtMostFor` 2 or 3:
in the order in which the configured minute, half hour and day stand, with every relation of
a firing, an expiry and a return inside them. In the console two slots are two answers that can
come in either order, a load beside a command, or a load left behind beside a new one; the proofs
need no such bound. Two changes of the data let one come between two loads and another after
them. Three sessions are the one the browser comes with and two sign-ins, so that an answer of
one before the last can be late. The list's limit is 2, below an inventory of three and equal to
one of two. One save at a time is what the busy flag allows while the dialog stays; a save of a
dialog that was closed and a save of the next one are the case this leaves out. One edit by
another and one change of the address are the least that a save can put back or miss.

Fairness. Weak fairness of the steps of a running actor: an `await` returns, a request
times out (the code sets a timeout on every HTTP call), a transaction ends. The service
manager and Kubernetes start what has stopped. Faults are owed nothing. Strong fairness is
used for what a device keeps sending, the inventory every `CollectionMinutes`
(`AssetInventory`) and the heartbeat every five minutes (`VersionHistory`), since the slots
for requests come free and are taken again. In the console (`ConsolePages`) the timers of an open page
fire (`setInterval`), a request is answered or fails in the end, and failures are finite; a
button that nobody presses is owed nothing. The violation run uses no fairness; what it refutes
is safety.

## 5. What is proved

For every value of the constants that satisfies the assumptions next to their declarations:

* **DeviceEnrollmentProofs.** `TypeCorrect`. The invariant needs more than
  `HeldIsNewest`: that a loop about to clear or register holds a registration token, that a
  token in flight is newer than the delivered one, that what is being written is what memory
  has (`Secret`), where each actor can be in relation to the others (`Phase`) and that a file without
  credentials has a cause (`FileSecret`). It is inductive only while recoveries do not
  overlap, so the theorems have `[]SerialRecovery` as hypothesis
  (`SerialRecoveryHoldsNewest`, `SerialKeepsCredential`, `SerialDiskKeepsUp`), for any number
  of loops. It cannot be dropped (section 6): the service always runs three.
* **ReleaseRegistryProofs.** `TypeCorrect`; `AgentOrderIsSqlOrder` and `AcceptedSortsOnTop`
  relate the three orders; `ReleaseHasFile`, `SeededStaysReadable`, `OnlyPublishedRuns` from
  an invariant of the registry (an upload that has moved its file finds it there; rows and
  requests stem from candidates; what passed the comparison is sortable) and one of the
  devices (offers, downloads and copies are published builds); `NeverDowngrades` from the
  orders and the same invariants; `SerialUploadsKeepHash`. `SerialUploadsGoUp`: while one
  upload at a time is past the check, what has passed it is above every release published, in
  either order. The upload is compared with one release, the newest to the database, so this
  rests on the two orders: they differ at most between versions that Java takes for equal
  (`JavaRanks`, `GreaterThanAll`).
* **VersionHistoryProofs.** `TypeCorrect`; `ShownStaysRecorded`, whose invariant says of the
  version a request has found, or is about to write, what the property says of the version
  shown: that it is in the history, or the version of a first registration whose entry is still
  to come or was cut short (`Covered`). `SerialHistoryReadsAsChain`: the history ends in the version shown, except while a
  request has written one of entry and row; that request is the device's only one and knows
  what the other is to say (`RequestTells`, `HistoryTells`).
* **AssetInventoryProofs.** `TypeCorrect`; `InventoryStaysWhole`, `TruncationAlwaysTold`,
  `AnsweredIdsExist`: at most one transaction holds a row, and what it has written so far is
  of its own inventory and under the id of the asset. What it holds has the management data of
  the committed row (`WorkKeeps`), since an edit waits for the lock; so an inventory changes
  them for no device, without any hypothesis (`OnlyEditsManage`), and the module implements
  `AssetRecord` (`InventoriesAreAtomic`: the commit maps to its `Store`, an accepted edit to its
  `Edit`, every other statement to a stutter). `SerialEditsMatch` adds that between an edit
  and its history entry the request knows the value (`EditTells`), which is where overlapping
  edits and interruptions have to be excluded.
* **PolicySyncProofs.** `LockTypeCorrect`, `LockHeldUntilAllFired` and
  `StartsOncePerDay`: the run of the day keeps the lock until the clock shows
  `LockAtLeast` (`LeastCovers`), nobody fires after `Skew` (`DueInTime`), and `Skew <
  LockAtLeast`. `SyncUsesLock` shows that every step of the import is a step of the lock or
  leaves it alone, whence `SyncOncePerDay` and `SyncLockCovers`. `TypeCorrect` and
  `RunningRowsHaveRuns`, with the fact that the scheduler thread of a replica is inside the
  scheduled method as long as its run goes on (`WorkingRuns`). `RunsAreSerialised`: the
  monitor leaves one run at a time on a replica. `SuccessMeansImported`: with `OneReplica` that
  run is the only one, so the list it fetches is no older than any logged as SUCCESS
  (`NotAhead`, `ImportHas`), nobody else writes a policy or logs a success before it ends, and
  what it has done of its list stays done.
* **ConsolePagesProofs.** `TypeCorrect`; `SubmittedOnce`, `EmptyMeansEmpty`,
  `AnnouncedIsShown` and the refinement `PagesKeepView`, for any number of tasks. The invariant
  says that a task of the screen belongs to the mounted page (`Placed`), that what it has read
  is no older than the page and contains the effect of its command (`Fresh`), that a page
  without data is loading or tells an error (`Told`), and that a submission nothing has
  disturbed is the page's only command and keeps it busy (`Alone`). `Placed` is what the
  refinement rests on: a load that survived its page would show what is older than the next.
* **ConsoleSessionProofs.** `TypeCorrect`; `FreshWhenSettled`, `SignOutsHaveCause`,
  `DashboardAgrees`, for any number of loads and sessions and every inventory and limit. The
  invariant says that a refused request carries a cookie that has ended (`Sent`), that the
  total is counted before the rest (`Counted`), and what the screen tells of a load that
  overlaps no other (`Settled`). `DashboardAgrees` needs that the list exists (`LatestExists`:
  of a finite inventory there are as many latest assets as the limit says) and arithmetic
  about the rounded percentage (`ComplianceRange`).
* **AssetDetailProofs.** `TypeCorrect`, `TypedStaysGuarded`, `AddressIsShown` and
  `UntypedNeverInvented`, for any number of fields, assets and saves under way, those of pages
  closed before included. The invariant says that the page on the screen has one save at most,
  and exactly while its form is busy (`OneSaveHere`); that a field nobody has typed in has the
  value read for it, in the form and in what has been sent (`FormAsRead`, `SentAsRead`); that
  what is typed and not in the save under way was typed after it (`TypedAfterSent`); and that
  the reload after a save is for the address unless that has changed meanwhile
  (`ReloadsAddress`, `LoadedIsShown`).

Assumptions that are about the world rather than sizes: hashes are injective; the clocks of
the replicas differ by less than `lockAtLeastFor` (one minute); the seed of the registry is
sortable. `None` and `Absent`, which stand for what is not there, are no records.

Only model-checked: liveness, which is outside the prover's reach, as is ENABLED
(`RecoveryCompletes`, `RecoveredTurnsGreen`, `StrandedIsVisible`, `NewestReachesDevices`,
`UpdatesSettle`, `VersionSettles`, `InventoryArrives`, `PoliciesArrive`, `PolledPageSettles`).
Every invariant and every action property of the passing runs is proved, and so are the
refinements. Where a property has a hypothesis about the whole behaviour (`[]NoEditOverlap`,
`[]OneReplica` and their like) the theorem has the same one, and the invariant under it is
inductive as long as the hypothesis holds. `HeldIsNewest`, `CredentialLossHasCause` and
`DiskKeepsUp` are run with one loop, and proved for any number under `[]SerialRecovery`.

## 6. Findings and observations

The finding is the violation run above. Three more texts say something that the models refute
when the corresponding statement is checked; what does hold beside them is a property of a run:

* `Worker.cs:49` says that recovery prevents a permanent offline state. Two loops that recover
  at once (`Worker.cs:81`) both register, and the later write may store the older token when no
  registration token is left: the device stays refused. A copy of the options taken before
  another loop's `Save` (`state.Options with {...}`) also brings a discarded registration token
  back or clears a token just stored. `SerialHoldsNewest` and `StrandedIsVisible` say what holds.
* `install-service.bat:74` says that the first start removes the registration token. The
  migration of `AgentState.cs:33` encrypts both tokens and keeps both; the registration token
  stays in `agent.json`.
* `README.md:152` says that version changes at registration and heartbeat are recorded. A late
  request of the old version can change the row back without an entry, when another has changed
  it between its SELECT and its update (`AgentController.java:44`). `SerialHistoryIsChain` and
  `ShownIsRecorded` say what holds.

Met while modelling, and contradicting no text of the repository:

* When writing `agent.json` fails in the startup registration, memory has the token, the
  registration is not repeated and its error stays on the tray until the next start. When it
  fails in a recovery the exception ends that loop while the others go on. When it ends all
  loops before one has reported anything, nothing is reported any more (`StrandedIsVisible`
  asks for a running loop).
* The loops share the health entry of the registration ("등록": `Worker.cs:82`,
  `AgentHealth.cs:25`). When two register at once, one stores the live token and reports
  success, and the other's answer is lost or its file write fails later, its error stays: the
  device is accepted, so no registration follows that would clear it, and the tray shows the
  error until the next start. `RecoveredTurnsGreen` excludes overlapping recoveries for that
  entry, and for no other.
* `ASSETFLOW_REGISTRATION_TOKEN` is read at start only: a running process whose token was
  revoked does not recover by it (docs/windows-agent-communication-status.md:55 is true of a
  restarted one).
* The first upload into an empty registry is compared with nothing: a component above the
  range of int is accepted, and then every sorted query fails. `StaysReadable` therefore
  assumes a published release.
* Releases of four components: the agent compares itself without its fourth one and applies
  such a release again at every poll. `UpdatesSettle` assumes three components.
* Overlapping uploads of different versions can publish the lower one last;
  `SerialUploadsIncrease` excludes the overlap.
* A failed copy of the executable followed by a failed move restores the copy of an
  earlier update: an older executable (`NoDowngrade` exempts it).
* A replica that ends between the INSERT of a first registration and its REGISTERED entry
  leaves the agent without one for good (`ShownIsRecorded` exempts that version and no other
  interruption).
* Two administrators saving one asset may leave the history in another order than the
  asset; a saved form also puts back fields another administrator changed meanwhile.
* A requested import on one replica and the nightly one on the other exclude each other by
  neither the monitor nor the lock (`OneReplica` is a hypothesis of `SuccessIsImported`).
* A log row of an import whose replica or database went away says RUNNING for ever.
* Console, session. An answer 401 to a load that was sent before the present sign-in signs the
  new session out on the screen, and the late answer to an earlier sign-out does so too
  (`SignedOutHasCause` exempts both). A sign-out with a session that has ended is answered 401
  and only says that it failed. Only the load of `App` takes 401 for the end of the session: the
  other pages show it as an error. Figures and list outlive a sign-out and are shown after the
  next sign-in until its load has been answered.
* Console, figures. The dashboard's button is not disabled while loading; loads that overlap
  may end with the older data and no sign of it (`SettledIsFresh` exempts them). Total and
  issues are counted by separate queries: "offline" (total minus online) can be negative and a
  tile can differ from its list for one load. The percentage is rounded and can say 100 with an issue
  left. The filter for long absence uses the browser's clock and the tile the server's.
* Console, pages. After a failed first load the grids of the compliance page say that nothing
  matches, and the summary of the inspection page says "no inspection" while it loads
  (`EmptyOnlyIfRead` is about the grids). The failure of a manual inspection disappears with the
  next load of the timer. A removal does not look at the busy flag and resets it for the others
  (`NoDoubleSubmit`). An upload left for another page goes on, and the upload view opened again
  takes a second one beside it. A synchronisation tells its result before the data are there. A command
  whose answer is lost is told as failed though it has had its effect.
* Console, detail. Back, an address or the end of the session take the dialog away without
  asking. After a change of the address from one asset to another the form keeps the fields of
  the first and sends them to the second (`UntypedOnlyPutBack` exempts it); a reload after a
  save shows the asset left (`SettledShowsAddress`). What is typed while a save is under way
  loses its warning (`TypedIsGuarded`). A save whose reload fails is told as failed.
* The import enables a listed policy an administrator has disabled, and leaves those the
  list no longer names.

## 7. What is not modelled

* The tray, its status file and its sessions, the log files and the system inspection:
  planned, section 2.
* Of the console: grids (sorting, columns, search), tabs, menus, focus, the manual with its
  commands and diagrams, the read-only sections of the detail page, wording. They are rendering
  or state of one component that no request touches. What it lists is a number (`version`): the
  compliance page's four lists are read by one step though the server takes a query for each,
  and the messages of the management form are left out.
* The console's clock and the server's agree in `ConsoleSession` (contact is one attribute of an
  asset). A change of the address while no dialog is open is an `Open`; addresses typed into the
  location bar are `Open`, `Move` and `Leave` as those of Back.
* `EnsureRegistered` reads the options twice before its request, for the device token and then
  for the registration token; the model takes both reads in one step.
* Every inventory is taken to have a disk (`InventoryCollector.cs:20-21` asks for the fixed
  drives of a running Windows): the foreign key that refuses a losing first upload is that
  of the disks.
* The two scheduled jobs share one thread per replica. Their times are hours apart; the
  model takes the thread to be free unless the job's own run still holds it.
* Policies without an external key, the parsing of the list, the matching of names (one SQL
  query), the address check, and the CSV export.
* Sign-in: Spring Session keeps the session, and is modelled by one session id at a time;
  several browsers would have sessions of their own. Start-up checks of secrets, error mapping,
  access-list repair, the collector and the generator of the HTML documents keep no state
  across steps. Deployment files are configuration; what follows from
  them (two replicas, one database, one release directory) is assumed.
