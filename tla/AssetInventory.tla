-------------------------- MODULE AssetInventory --------------------------
(***************************************************************************)
(* The asset of a device: the inventories its service uploads, stored by   *)
(* one transaction over asset, asset_disk and asset_software               *)
(* (AgentController.inventory), and the management data administrators     *)
(* edit (AssetController.management), which are columns of the same row.   *)
(*                                                                         *)
(* Transactions run at READ COMMITTED: a statement sees what is committed  *)
(* when it starts, and the row a transaction has written stays locked      *)
(* until it ends.  A step is one SQL statement.  Two uploads of a device   *)
(* overlap when its service restarts, or gives up after five minutes,      *)
(* while a replica is still at work on the first.                          *)
(***************************************************************************)
EXTENDS Naturals, Sequences

CONSTANTS
    Devices,
    Uploads,        \* inventory requests that may be in progress together
    Admins,         \* management requests that may be in progress together
    LastContent,    \* bound on the contents a device goes through
    InstalledCount, \* number of programs in each content of a device
    SoftwareLimit,  \* assetflow.software-limit
    Values,         \* management data an administrator may enter
    NoValue,        \* the management columns of a new asset
    EditBudget,     \* management edits of one device
    AbortBudget     \* requests cut short by the end of their replica

Contents == 1 .. LastContent

ASSUME ContentAssumption == LastContent \in Nat \ {0} /\ InstalledCount \in [Contents -> Nat]
ASSUME LimitAssumption == SoftwareLimit \in Nat
ASSUME ValueAssumption == NoValue \notin Values
ASSUME InventoryBudgets == EditBudget \in Nat /\ AbortBudget \in Nat

VARIABLES
    installed,  \* what an inventory of a device finds now
    asset,      \* the committed rows of a device, NoAsset before its first inventory
    upload,     \* the inventory requests in progress
    edit,       \* the management requests in progress
    history,    \* asset_management_history, oldest first
    accepted,   \* ids returned with 202
    fresh,      \* the random UUIDs drawn so far
    aborted     \* requests cut short so far

vars == <<installed, asset, upload, edit, history, accepted, fresh, aborted>>

NoAsset == [id |-> 0]
Idle == [at |-> "idle"]

\* The row of asset with its rows of asset_disk and asset_software, 0 for none.
Row == [id : Nat \ {0}, columns : Contents, disks : {0} \cup Contents,
        software : {0} \cup Contents, stored : Nat, count : Nat, truncated : BOOLEAN,
        managed : Values \cup {NoValue}]

Selecting == [at : {"select"}, device : Devices, content : Contents, id : {0}, work : {NoAsset}]
Inserting == [at : {"upsert"}, device : Devices, content : Contents, id : Nat \ {0}, work : {NoAsset}]
Writing == [at : {"disks", "software", "count"},
            device : Devices, content : Contents, id : Nat \ {0}, work : Row]
Upload == Selecting \cup Inserting \cup Writing
Edit == [at : {"update", "record"}, device : Devices, value : Values]

Init ==
    /\ installed = [d \in Devices |-> 1]
    /\ asset = [d \in Devices |-> NoAsset]
    /\ upload = [u \in Uploads |-> Idle]
    /\ edit = [a \in Admins |-> Idle]
    /\ history = [d \in Devices |-> <<>>]
    /\ accepted = [d \in Devices |-> {}]
    /\ fresh = 0
    /\ aborted = 0

-----------------------------------------------------------------------------
(***************************************************************************)
(* Inventories                                                             *)
(***************************************************************************)
\* Programs are installed or removed on a device.
Change(d) ==
    /\ installed[d] < LastContent
    /\ installed' = [installed EXCEPT ![d] = @ + 1]
    /\ UNCHANGED <<asset, upload, edit, history, accepted, fresh, aborted>>

SendInventory(u, d) ==
    /\ upload[u] = Idle
    /\ upload' = [upload EXCEPT ![u] = [at |-> "select", device |-> d, content |-> installed[d],
                                        id |-> 0, work |-> NoAsset]]
    /\ UNCHANGED <<installed, asset, edit, history, accepted, fresh, aborted>>

\* SELECT id, or a random one for a device without an asset.
SelectAsset(u) ==
    /\ upload[u].at = "select"
    /\ LET found == asset[upload[u].device]
       IN  IF found = NoAsset
           THEN /\ fresh' = fresh + 1
                /\ upload' = [upload EXCEPT ![u].at = "upsert", ![u].id = fresh']
           ELSE /\ upload' = [upload EXCEPT ![u].at = "upsert", ![u].id = found.id]
                /\ UNCHANGED fresh
    /\ UNCHANGED <<installed, asset, edit, history, accepted, aborted>>

\* The asset row of a device is locked by the transaction that has written it.
Holds(u, d) == upload[u].at \in {"disks", "software", "count"} /\ upload[u].device = d
Unlocked(d) == \A u \in Uploads : ~Holds(u, d)

NewRow(id, content) ==
    [id |-> id, columns |-> content, disks |-> 0, software |-> 0, stored |-> 0, count |-> 0,
     truncated |-> FALSE, managed |-> NoValue]

\* Mutant: the conflict writes every column of the new row.
Overwritten(u) ==
    IF asset[upload[u].device] = NoAsset THEN NewRow(upload[u].id, upload[u].content)
    ELSE [asset[upload[u].device] EXCEPT !.columns = upload[u].content, !.managed = NoValue]

\* Mutant: ON CONFLICT(agent_id) DO NOTHING.
KeptRow(u) ==
    IF asset[upload[u].device] = NoAsset THEN NewRow(upload[u].id, upload[u].content)
    ELSE asset[upload[u].device]

\* ON CONFLICT(agent_id) updates the row as it is now and keeps its id and management columns.
Upserted(u) ==
    IF asset[upload[u].device] = NoAsset THEN NewRow(upload[u].id, upload[u].content)
    ELSE [asset[upload[u].device] EXCEPT !.columns = upload[u].content]

\* Mutant: without @Transactional every statement commits on its own.
AutoCommit(u, p, row) ==
    /\ upload' = [upload EXCEPT ![u].at = p, ![u].work = row]
    /\ asset' = [asset EXCEPT ![upload[u].device] = row]

\* A statement of the transaction: nobody else sees the row before the commit.
Write(u, p, row) ==
    /\ upload' = [upload EXCEPT ![u].at = p, ![u].work = row]
    /\ UNCHANGED asset

UpsertAsset(u) ==
    /\ upload[u].at = "upsert"
    /\ Unlocked(upload[u].device)
    /\ Write(u, "disks", Upserted(u))
    /\ UNCHANGED <<installed, edit, history, accepted, fresh, aborted>>

Rollback(u) == upload' = [upload EXCEPT ![u] = Idle] /\ UNCHANGED asset

\* Mutant: no foreign key.
AnyAsset(id, row) == TRUE

\* asset_disk.asset_id refers to asset.id.
RefersTo(id, row) == id = row.id

\* A device has at least one disk, so of two first inventories the one whose id lost fails here.
ReplaceDisks(u) ==
    /\ upload[u].at = "disks"
    /\ IF RefersTo(upload[u].id, upload[u].work)
       THEN Write(u, "software", [upload[u].work EXCEPT !.disks = upload[u].content])
       ELSE Rollback(u)
    /\ UNCHANGED <<installed, edit, history, accepted, fresh, aborted>>

\* software().stream().limit(softwareLimit)
Limited(n) == IF n > SoftwareLimit THEN SoftwareLimit ELSE n

ReplaceSoftware(u) ==
    /\ upload[u].at = "software"
    /\ Write(u, "count", [upload[u].work EXCEPT
                             !.software = upload[u].content,
                             !.stored = Limited(InstalledCount[upload[u].content])])
    /\ UNCHANGED <<installed, edit, history, accepted, fresh, aborted>>

\* Mutant: a list that just fits is called truncated.
ReachesLimit(n) == n >= SoftwareLimit

ExceedsLimit(n) == n > SoftwareLimit

\* The counts, the commit and the answer.
CountSoftware(u) ==
    /\ upload[u].at = "count"
    /\ LET d == upload[u].device
           n == InstalledCount[upload[u].content]
       IN  /\ asset' = [asset EXCEPT ![d] = [upload[u].work EXCEPT !.count = n, !.truncated = ExceedsLimit(n)]]
           /\ accepted' = [accepted EXCEPT ![d] = @ \cup {upload[u].id}]
    /\ upload' = [upload EXCEPT ![u] = Idle]
    /\ UNCHANGED <<installed, edit, history, fresh, aborted>>

-----------------------------------------------------------------------------
(***************************************************************************)
(* Management data                                                         *)
(***************************************************************************)
SubmitManagement(a, d, v) ==
    /\ edit[a] = Idle
    /\ asset[d] # NoAsset
    /\ Len(history[d]) < EditBudget
    /\ edit' = [edit EXCEPT ![a] = [at |-> "update", device |-> d, value |-> v]]
    /\ UNCHANGED <<installed, asset, upload, history, accepted, fresh, aborted>>

\* A blank category, a duplicate tag, an unknown status or asset is refused, otherwise the UPDATE
\* waits for the row and commits.
UpdateManagement(a) ==
    /\ edit[a].at = "update"
    /\ \/ /\ edit' = [edit EXCEPT ![a] = Idle]
          /\ UNCHANGED asset
       \/ /\ asset[edit[a].device] # NoAsset
          /\ Unlocked(edit[a].device)
          /\ asset' = [asset EXCEPT ![edit[a].device].managed = edit[a].value]
          /\ edit' = [edit EXCEPT ![a].at = "record"]
    /\ UNCHANGED <<installed, upload, history, accepted, fresh, aborted>>

RecordManagement(a) ==
    /\ edit[a].at = "record"
    /\ history' = [history EXCEPT ![edit[a].device] = Append(@, edit[a].value)]
    /\ edit' = [edit EXCEPT ![a] = Idle]
    /\ UNCHANGED <<installed, asset, upload, accepted, fresh, aborted>>

-----------------------------------------------------------------------------
\* The replica ends, or a statement fails: an open transaction is rolled back.
AbortUpload(u) ==
    /\ upload[u] # Idle
    /\ aborted < AbortBudget
    /\ aborted' = aborted + 1
    /\ Rollback(u)
    /\ UNCHANGED <<installed, edit, history, accepted, fresh>>

AbortEdit(a) ==
    /\ edit[a] # Idle
    /\ aborted < AbortBudget
    /\ aborted' = aborted + 1
    /\ edit' = [edit EXCEPT ![a] = Idle]
    /\ UNCHANGED <<installed, asset, upload, history, accepted, fresh>>

Store(u) == SelectAsset(u) \/ UpsertAsset(u) \/ ReplaceDisks(u) \/ ReplaceSoftware(u) \/ CountSoftware(u)
Manage(a) == UpdateManagement(a) \/ RecordManagement(a)

Next ==
    \/ \E d \in Devices : Change(d)
    \/ \E u \in Uploads : Store(u) \/ AbortUpload(u)
    \/ \E u \in Uploads, d \in Devices : SendInventory(u, d)
    \/ \E a \in Admins : Manage(a) \/ AbortEdit(a)
    \/ \E a \in Admins, d \in Devices, v \in Values : SubmitManagement(a, d, v)

Spec == Init /\ [][Next]_vars

\* A replica works off its requests, and the inventory loop of a device never ends.
Fairness ==
    /\ \A u \in Uploads : WF_vars(Store(u))
    /\ \A a \in Admins : WF_vars(Manage(a))
    /\ \A d \in Devices : SF_vars(\E u \in Uploads : SendInventory(u, d))

FairSpec == Spec /\ Fairness

-----------------------------------------------------------------------------
\* Every variable stays in its type.
TypeOK ==
    /\ installed \in [Devices -> Contents]
    /\ asset \in [Devices -> {NoAsset} \cup Row]
    /\ upload \in [Uploads -> {Idle} \cup Upload]
    /\ edit \in [Admins -> {Idle} \cup Edit]
    /\ history \in [Devices -> Seq(Values)]
    /\ accepted \in [Devices -> SUBSET Nat]
    /\ fresh \in Nat /\ aborted \in Nat

\* The row, the disks, the software and the counts that can be read of an asset come from one
\* inventory, however uploads of the device overlap, fail or are cut short.
InventoryWhole ==
    \A d \in Devices : asset[d] # NoAsset =>
        /\ asset[d].disks = asset[d].columns
        /\ asset[d].software = asset[d].columns
        /\ asset[d].count = InstalledCount[asset[d].columns]

\* What an inventory of content c leaves in the three tables.
Whole(c) ==
    [columns |-> c, disks |-> c, software |-> c, stored |-> Limited(InstalledCount[c]),
     count |-> InstalledCount[c], truncated |-> InstalledCount[c] > SoftwareLimit]

Shown(d) ==
    IF asset[d] = NoAsset THEN NoAsset
    ELSE [inventory |-> [columns |-> asset[d].columns, disks |-> asset[d].disks,
                         software |-> asset[d].software, stored |-> asset[d].stored,
                         count |-> asset[d].count, truncated |-> asset[d].truncated],
          managed |-> asset[d].managed]

Record == INSTANCE AssetRecord
          WITH Inventories <- {Whole(c) : c \in Contents}, NoRecord <- NoAsset,
               record <- [d \in Devices |-> Shown(d)]

\* The statements of an inventory read as one step that replaces the inventory of the asset and
\* keeps its management data; an edit changes these alone (AgentController.inventory is
\* @Transactional and names the columns it overwrites).
InventoryAtomic == Record!Spec

\* The software list is shown as truncated exactly when programs are missing from it (CR-023).
TruncationTold ==
    \A d \in Devices : asset[d] # NoAsset =>
        (asset[d].truncated <=> asset[d].stored < InstalledCount[asset[d].columns])

\* The id answered to a device is the one its asset has, also when two first inventories
\* have drawn different ones.
AnsweredIdExists ==
    \A d \in Devices : \A id \in accepted[d] : asset[d].id = id

\* Two administrators save the data of one device at the same time.  The code does not prevent this.
NoEditOverlap ==
    \A a, b \in Admins : edit[a] # Idle /\ edit[b] # Idle /\ edit[a].device = edit[b].device => a = b

\* Without overlapping edits and interruptions the last history entry of an asset tells the
\* management data it has: no inventory undoes an edit, not even one that was under way.
SerialHistoryMatches ==
    []NoEditOverlap =>
        [](aborted = 0 => \A d \in Devices :
              asset[d] = NoAsset
              \/ (\E a \in Admins : edit[a].at = "record" /\ edit[a].device = d)
              \/ asset[d].managed = IF history[d] = <<>> THEN NoValue ELSE history[d][Len(history[d])])

\* Once a device no longer changes its asset ends up showing what is installed.
InventoryArrives ==
    \A d \in Devices : <>[](asset[d] # NoAsset /\ asset[d].columns = installed[d])
=============================================================================
