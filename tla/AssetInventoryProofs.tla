------------------------ MODULE AssetInventoryProofs ------------------------
(***************************************************************************)
(* Proofs about AssetInventory, for every number of devices, of requests   *)
(* in progress, of contents and every software limit: type correctness,    *)
(* that what is committed of an asset is one inventory, and that only an   *)
(* edit changes its management data, of which the history then tells.      *)
(***************************************************************************)
EXTENDS AssetInventory, TLAPS

LEMMA ConstantsType ==
    /\ LastContent \in Nat \ {0} /\ InstalledCount \in [Contents -> Nat] /\ SoftwareLimit \in Nat
    /\ NoValue \notin Values /\ EditBudget \in Nat /\ AbortBudget \in Nat
BY ContentAssumption, LimitAssumption, ValueAssumption, InventoryBudgets

LEMMA InitType == Init => TypeOK
BY ConstantsType DEF Init, TypeOK, Contents

\* What the request at each statement is.
LEMMA UploadShape ==
    ASSUME TypeOK, NEW u \in Uploads
    PROVE  /\ upload[u].at = "select" => upload[u] \in Selecting
           /\ upload[u].at = "upsert" => upload[u] \in Inserting
           /\ upload[u].at \in {"disks", "software", "count"} => upload[u] \in Writing
           /\ upload[u] # Idle => upload[u].device \in Devices
BY DEF TypeOK, Upload, Selecting, Inserting, Writing, Idle

LEMMA EditShape ==
    ASSUME TypeOK, NEW a \in Admins, edit[a] # Idle
    PROVE  edit[a] \in Edit /\ edit[a].device \in Devices /\ edit[a].value \in Values
BY DEF TypeOK, Edit

LEMMA LimitedType == \A n \in Nat : Limited(n) \in Nat /\ (Limited(n) < n <=> n > SoftwareLimit)
BY ConstantsType DEF Limited

LEMMA NewRowType ==
    \A id \in Nat \ {0}, c \in Contents : NewRow(id, c) \in Row
BY DEF NewRow, Row

LEMMA StepType == TypeOK /\ [Next]_vars => TypeOK'
<1> SUFFICES ASSUME TypeOK, [Next]_vars PROVE TypeOK'
    OBVIOUS
<1> USE ConstantsType
<1>1. ASSUME NEW d \in Devices, Change(d) PROVE TypeOK'
  BY <1>1 DEF Change, TypeOK, Contents
<1>2. ASSUME NEW u \in Uploads, NEW d \in Devices, SendInventory(u, d) PROVE TypeOK'
  <2>1. [at |-> "select", device |-> d, content |-> installed[d], id |-> 0, work |-> NoAsset] \in Upload
    BY DEF TypeOK, Upload, Selecting
  <2> QED
    BY <1>2, <2>1 DEF SendInventory, TypeOK
<1>3. ASSUME NEW u \in Uploads, SelectAsset(u) PROVE TypeOK'
  <2>1. upload[u] \in Selecting /\ upload[u].device \in Devices
    BY <1>3, UploadShape DEF SelectAsset, Selecting
  <2>2. PICK i \in Nat \ {0} :
          /\ upload' = [upload EXCEPT ![u].at = "upsert", ![u].id = i]
          /\ fresh' \in Nat
    <3>1. CASE asset[upload[u].device] = NoAsset
      <4>1. fresh + 1 \in Nat \ {0}
        BY DEF TypeOK
      <4> QED
        BY <1>3, <3>1, <4>1 DEF SelectAsset
    <3>2. CASE asset[upload[u].device] # NoAsset
      <4>1. asset[upload[u].device].id \in Nat \ {0}
        BY <2>1, <3>2 DEF TypeOK, Row
      <4> QED
        BY <1>3, <3>2, <4>1 DEF SelectAsset, TypeOK
    <3> QED
      BY <3>1, <3>2
  <2>3. [upload[u] EXCEPT !.at = "upsert", !.id = i] \in Inserting
    BY <2>1 DEF Selecting, Inserting
  <2>4. upload' \in [Uploads -> {Idle} \cup Upload]
    BY <2>2, <2>3 DEF TypeOK, Upload
  <2> QED
    BY <1>3, <2>2, <2>4 DEF SelectAsset, TypeOK
<1>4. ASSUME NEW u \in Uploads, UpsertAsset(u) PROVE TypeOK'
  <2>1. upload[u] \in Inserting
    BY <1>4, UploadShape DEF UpsertAsset
  <2>2. Upserted(u) \in Row
    <3>1. upload[u].device \in Devices /\ upload[u].content \in Contents /\ upload[u].id \in Nat \ {0}
      BY <2>1 DEF Inserting
    <3>2. CASE asset[upload[u].device] = NoAsset
      BY <3>1, <3>2, NewRowType DEF Upserted
    <3>3. CASE asset[upload[u].device] # NoAsset
      <4>1. asset[upload[u].device] \in Row
        BY <3>1, <3>3 DEF TypeOK
      <4> QED
        BY <3>1, <3>3, <4>1 DEF Upserted, Row
    <3> QED
      BY <3>2, <3>3
  <2>3. [upload[u] EXCEPT !.at = "disks", !.work = Upserted(u)] \in Writing
    BY <2>1, <2>2 DEF Inserting, Writing
  <2>4. upload' = [upload EXCEPT ![u] = [upload[u] EXCEPT !.at = "disks", !.work = Upserted(u)]]
    BY <1>4 DEF UpsertAsset, Write
  <2>5. upload' \in [Uploads -> {Idle} \cup Upload]
    BY <2>3, <2>4 DEF TypeOK, Upload
  <2> QED
    BY <1>4, <2>5 DEF UpsertAsset, Write, TypeOK
<1>5. ASSUME NEW u \in Uploads, ReplaceDisks(u) PROVE TypeOK'
  <2>1. upload[u] \in Writing
    BY <1>5, UploadShape DEF ReplaceDisks
  <2>2. [upload[u].work EXCEPT !.disks = upload[u].content] \in Row
    BY <2>1 DEF Writing, Row
  <2>3. [upload[u] EXCEPT !.at = "software",
                          !.work = [upload[u].work EXCEPT !.disks = upload[u].content]] \in Writing
    BY <2>1, <2>2 DEF Writing
  <2>4. upload' \in [Uploads -> {Idle} \cup Upload]
    BY <1>5, <2>3 DEF ReplaceDisks, Write, Rollback, TypeOK, Upload
  <2> QED
    BY <1>5, <2>4 DEF ReplaceDisks, Write, Rollback, TypeOK
<1>6. ASSUME NEW u \in Uploads, ReplaceSoftware(u) PROVE TypeOK'
  <2> DEFINE row == [upload[u].work EXCEPT !.software = upload[u].content,
                                           !.stored = Limited(InstalledCount[upload[u].content])]
  <2>1. upload[u] \in Writing
    BY <1>6, UploadShape DEF ReplaceSoftware
  <2>2. row \in Row
    <3>1. Limited(InstalledCount[upload[u].content]) \in Nat
      BY <2>1, LimitedType DEF Writing
    <3> QED
      BY <2>1, <3>1 DEF Writing, Row
  <2>3. [upload[u] EXCEPT !.at = "count", !.work = row] \in Writing
    BY <2>1, <2>2 DEF Writing
  <2>4. upload' = [upload EXCEPT ![u] = [upload[u] EXCEPT !.at = "count", !.work = row]]
    BY <1>6 DEF ReplaceSoftware, Write
  <2>5. upload' \in [Uploads -> {Idle} \cup Upload]
    BY <2>3, <2>4 DEF TypeOK, Upload
  <2> QED
    BY <1>6, <2>5 DEF ReplaceSoftware, Write, TypeOK
<1>7. ASSUME NEW u \in Uploads, CountSoftware(u) PROVE TypeOK'
  <2> DEFINE n == InstalledCount[upload[u].content]
             row == [upload[u].work EXCEPT !.count = n, !.truncated = ExceedsLimit(n)]
  <2>1. upload[u] \in Writing
    BY <1>7, UploadShape DEF CountSoftware
  <2>2. row \in Row
    <3>1. n \in Nat /\ ExceedsLimit(n) \in BOOLEAN
      BY <2>1 DEF Writing, ExceedsLimit
    <3> QED
      BY <2>1, <3>1 DEF Writing, Row
  <2>3. /\ asset' = [asset EXCEPT ![upload[u].device] = row]
        /\ accepted' = [accepted EXCEPT ![upload[u].device] = @ \cup {upload[u].id}]
        /\ upload' = [upload EXCEPT ![u] = Idle]
        /\ UNCHANGED <<installed, edit, history, fresh, aborted>>
    BY <1>7 DEF CountSoftware
  <2>4. accepted' \in [Devices -> SUBSET Nat]
    BY <2>1, <2>3 DEF TypeOK, Writing
  <2>5. asset' \in [Devices -> {NoAsset} \cup Row]
    BY <2>1, <2>2, <2>3 DEF TypeOK, Writing
  <2> QED
    BY <2>3, <2>4, <2>5 DEF TypeOK
<1>8. ASSUME NEW a \in Admins, NEW d \in Devices, NEW v \in Values, SubmitManagement(a, d, v)
      PROVE TypeOK'
  BY <1>8 DEF SubmitManagement, TypeOK, Edit
<1>9. ASSUME NEW a \in Admins, UpdateManagement(a) PROVE TypeOK'
  <2>1. edit[a] \in Edit /\ edit[a].device \in Devices /\ edit[a].value \in Values
    BY <1>9, EditShape DEF UpdateManagement, Idle
  <2>2. CASE edit' = [edit EXCEPT ![a] = Idle] /\ UNCHANGED asset
    BY <1>9, <2>2 DEF UpdateManagement, TypeOK
  <2>3. CASE /\ asset[edit[a].device] # NoAsset
             /\ asset' = [asset EXCEPT ![edit[a].device].managed = edit[a].value]
             /\ edit' = [edit EXCEPT ![a].at = "record"]
    <3>1. edit' \in [Admins -> {Idle} \cup Edit]
      BY <2>1, <2>3 DEF TypeOK, Edit
    <3>2. asset' \in [Devices -> {NoAsset} \cup Row]
      <4>1. [asset[edit[a].device] EXCEPT !.managed = edit[a].value] \in Row
        <5>1. asset[edit[a].device] \in Row
          BY <2>1, <2>3 DEF TypeOK
        <5> QED
          BY <2>1, <5>1 DEF Row
      <4> QED
        BY <2>1, <2>3, <4>1 DEF TypeOK
    <3> QED
      BY <1>9, <3>1, <3>2 DEF UpdateManagement, TypeOK
  <2> QED
    BY <1>9, <2>2, <2>3 DEF UpdateManagement
<1>10. ASSUME NEW a \in Admins, RecordManagement(a) PROVE TypeOK'
  <2>1. edit[a].device \in Devices /\ edit[a].value \in Values
    BY <1>10, EditShape DEF RecordManagement, Idle
  <2>2. \A s \in Seq(Values) : Append(s, edit[a].value) \in Seq(Values)
    BY <2>1
  <2> QED
    BY <1>10, <2>1, <2>2 DEF RecordManagement, TypeOK
<1>11. ASSUME NEW u \in Uploads, AbortUpload(u) PROVE TypeOK'
  BY <1>11 DEF AbortUpload, Rollback, TypeOK
<1>12. ASSUME NEW a \in Admins, AbortEdit(a) PROVE TypeOK'
  BY <1>12 DEF AbortEdit, TypeOK
<1>13. CASE UNCHANGED vars
  BY <1>13 DEF vars, TypeOK
<1> QED
  BY <1>1, <1>2, <1>3, <1>4, <1>5, <1>6, <1>7, <1>8, <1>9, <1>10, <1>11, <1>12, <1>13
  DEF Next, Store, Manage

\* Every variable stays in its type.
THEOREM TypeCorrect == Spec => []TypeOK
BY InitType, StepType, PTL DEF Spec

-----------------------------------------------------------------------------
(***************************************************************************)
(* One transaction at a time holds the row of a device; what it has        *)
(* written so far is of its inventory alone, under the id the device's     *)
(* asset has once there is one.                                            *)
(***************************************************************************)
OneHolder == \A u, v \in Uploads, d \in Devices : Holds(u, d) /\ Holds(v, d) => u = v

WorkFits(u) ==
    LET r == upload[u]
    IN  r.at \in {"disks", "software", "count"} =>
          /\ r.work.columns = r.content
          /\ r.at \in {"software", "count"} => r.work.disks = r.content /\ r.id = r.work.id
          /\ r.at = "count" => /\ r.work.software = r.content
                               /\ r.work.stored = Limited(InstalledCount[r.content])
          /\ asset[r.device] # NoAsset => r.work.id = asset[r.device].id

AnsweredHasAsset == \A d \in Devices : accepted[d] # {} => asset[d] # NoAsset

IInv ==
    /\ TypeOK /\ OneHolder /\ (\A u \in Uploads : WorkFits(u))
    /\ InventoryWhole /\ TruncationTold /\ AnsweredIdExists /\ AnsweredHasAsset

LEMMA RowIsAsset == \A row \in Row : row # NoAsset
BY DEF Row, NoAsset

LEMMA InitInv == Init => IInv
BY InitType DEF Init, IInv, OneHolder, WorkFits, InventoryWhole, TruncationTold, AnsweredIdExists,
                AnsweredHasAsset, Holds, Idle

\* What a step does not touch.
LEMMA AssetUntouched ==
    ASSUME InventoryWhole, TruncationTold, AnsweredIdExists, AnsweredHasAsset,
           UNCHANGED <<asset, accepted>>
    PROVE  InventoryWhole' /\ TruncationTold' /\ AnsweredIdExists' /\ AnsweredHasAsset'
BY DEF InventoryWhole, TruncationTold, AnsweredIdExists, AnsweredHasAsset

LEMMA OthersUntouched ==
    ASSUME NEW v \in Uploads, WorkFits(v), upload'[v] = upload[v], UNCHANGED asset
    PROVE  WorkFits(v)'
BY DEF WorkFits

\* A transaction that moves on inside its lock, or leaves it, shares it with nobody new.
LEMMA HolderStays ==
    ASSUME OneHolder, NEW u \in Uploads,
           \A v \in Uploads \ {u} : upload'[v] = upload[v],
           \A d \in Devices : Holds(u, d)' => Holds(u, d)
    PROVE  OneHolder'
<1> SUFFICES ASSUME NEW v \in Uploads, NEW w \in Uploads, NEW d \in Devices, Holds(v, d)', Holds(w, d)'
             PROVE  v = w
    BY DEF OneHolder
<1>1. \A x \in Uploads : Holds(x, d)' => Holds(x, d)
  BY DEF Holds
<1> QED
  BY <1>1 DEF OneHolder

LEMMA StepInv == IInv /\ [Next]_vars => IInv'
<1> SUFFICES ASSUME IInv, [Next]_vars PROVE IInv'
    OBVIOUS
<1>0. TypeOK /\ TypeOK'
  BY StepType DEF IInv
<1> SUFFICES /\ OneHolder' /\ (\A u \in Uploads : WorkFits(u)')
             /\ InventoryWhole' /\ TruncationTold' /\ AnsweredIdExists' /\ AnsweredHasAsset'
    BY <1>0 DEF IInv
<1> DEFINE Goal == /\ OneHolder' /\ (\A u \in Uploads : WorkFits(u)')
                   /\ InventoryWhole' /\ TruncationTold' /\ AnsweredIdExists' /\ AnsweredHasAsset'
<1> USE ConstantsType
<1>1. /\ OneHolder /\ InventoryWhole /\ TruncationTold /\ AnsweredIdExists /\ AnsweredHasAsset
      /\ \A u \in Uploads : WorkFits(u)
  BY DEF IInv
<1>2. ASSUME UNCHANGED <<upload, asset, accepted>> PROVE Goal
  <2>1. OneHolder' /\ (\A u \in Uploads : WorkFits(u)')
    BY <1>1, <1>2 DEF OneHolder, Holds, WorkFits
  <2> QED
    BY <1>1, <1>2, <2>1, AssetUntouched
\* A step of one request that neither takes the lock nor commits.
<1>3. ASSUME NEW u \in Uploads, UNCHANGED <<asset, accepted>>,
             \A v \in Uploads \ {u} : upload'[v] = upload[v],
             \A d \in Devices : Holds(u, d)' => Holds(u, d),
             WorkFits(u)'
      PROVE  Goal
  <2>1. OneHolder'
    BY <1>1, <1>3, HolderStays
  <2>2. \A v \in Uploads : WorkFits(v)'
    BY <1>1, <1>3, OthersUntouched
  <2> QED
    BY <1>1, <1>3, <2>1, <2>2, AssetUntouched
<1>4. ASSUME NEW u \in Uploads, upload' = [upload EXCEPT ![u] = Idle]
      PROVE  /\ \A v \in Uploads \ {u} : upload'[v] = upload[v]
             /\ \A d \in Devices : Holds(u, d)' => Holds(u, d)
             /\ WorkFits(u)'
  <2>1. upload'[u].at = "idle" /\ \A v \in Uploads \ {u} : upload'[v] = upload[v]
    BY <1>0, <1>4 DEF TypeOK, Idle
  <2> QED
    BY <2>1 DEF Holds, WorkFits
<1>5. ASSUME NEW d \in Devices, Change(d) PROVE Goal
  BY <1>2, <1>5 DEF Change
<1>6. ASSUME NEW u \in Uploads, NEW d \in Devices, SendInventory(u, d) PROVE Goal
  <2>1. upload'[u].at = "select" /\ \A v \in Uploads \ {u} : upload'[v] = upload[v]
    BY <1>0, <1>6 DEF SendInventory, TypeOK
  <2>2. WorkFits(u)' /\ \A e \in Devices : ~Holds(u, e)'
    BY <2>1 DEF WorkFits, Holds
  <2> QED
    BY <1>3, <1>6, <2>1, <2>2 DEF SendInventory
<1>7. ASSUME NEW u \in Uploads, SelectAsset(u) PROVE Goal
  <2>1. upload[u] \in Selecting
    BY <1>0, <1>7, UploadShape DEF SelectAsset
  <2>2. PICK i : upload' = [upload EXCEPT ![u].at = "upsert", ![u].id = i]
    BY <1>7 DEF SelectAsset
  <2>3. upload'[u].at = "upsert" /\ \A v \in Uploads \ {u} : upload'[v] = upload[v]
    BY <1>0, <2>1, <2>2 DEF TypeOK, Selecting
  <2>4. WorkFits(u)' /\ \A e \in Devices : ~Holds(u, e)'
    BY <2>3 DEF WorkFits, Holds
  <2> QED
    BY <1>3, <1>7, <2>3, <2>4 DEF SelectAsset
<1>8. ASSUME NEW u \in Uploads, UpsertAsset(u) PROVE Goal
  <2>1. PICK d \in Devices, c \in Contents, i \in Nat \ {0} :
          upload[u] \in Inserting /\ upload[u].device = d /\ upload[u].content = c /\ upload[u].id = i
    BY <1>0, <1>8, UploadShape DEF UpsertAsset, Inserting
  <2>2. PICK row \in Row : /\ row = Upserted(u) /\ row.columns = c
                           /\ asset[d] # NoAsset => row.id = asset[d].id
    <3>1. CASE asset[d] = NoAsset
      BY <2>1, <3>1, NewRowType DEF Upserted, NewRow
    <3>2. CASE asset[d] # NoAsset
      <4>1. asset[d] \in Row
        BY <1>0, <3>2 DEF TypeOK
      <4> QED
        <5>1. Upserted(u) = [asset[d] EXCEPT !.columns = c]
          BY <2>1, <3>2 DEF Upserted
        <5>2. [asset[d] EXCEPT !.columns = c] \in Row
          BY <2>1, <4>1 DEF Row
        <5> QED
          BY <4>1, <5>1, <5>2 DEF Row
    <3> QED
      BY <3>1, <3>2
  <2>3. /\ upload' = [upload EXCEPT ![u].at = "disks", ![u].work = row]
        /\ UNCHANGED <<asset, accepted>> /\ Unlocked(d)
    BY <1>8, <2>1, <2>2 DEF UpsertAsset, Write
  <2>4. /\ upload'[u].at = "disks" /\ upload'[u].device = d /\ upload'[u].content = c
        /\ upload'[u].work = row
        /\ \A v \in Uploads \ {u} : upload'[v] = upload[v]
    BY <1>0, <2>1, <2>3 DEF TypeOK, Inserting
  <2>5. OneHolder'
    <3> SUFFICES ASSUME NEW v \in Uploads, NEW w \in Uploads, NEW e \in Devices, Holds(v, e)', Holds(w, e)'
                 PROVE  v = w
        BY DEF OneHolder
    <3>1. \A x \in Uploads : Holds(x, e)' => Holds(x, e) \/ (x = u /\ e = d)
      BY <2>4 DEF Holds
    <3>2. e = d => \A x \in Uploads : ~Holds(x, e)
      BY <2>3 DEF Unlocked
    <3> QED
      BY <1>1, <3>1, <3>2 DEF OneHolder
  <2>6. WorkFits(u)'
    BY <2>2, <2>3, <2>4 DEF WorkFits
  <2>7. \A v \in Uploads : WorkFits(v)'
    BY <1>1, <2>3, <2>4, <2>6, OthersUntouched
  <2> QED
    BY <1>1, <2>3, <2>5, <2>7, AssetUntouched
<1>9. ASSUME NEW u \in Uploads, ReplaceDisks(u) PROVE Goal
  <2>1. upload[u] \in Writing /\ upload[u].at = "disks"
    BY <1>0, <1>9, UploadShape DEF ReplaceDisks
  <2>2. CASE RefersTo(upload[u].id, upload[u].work)
    <3>1. /\ upload' = [upload EXCEPT ![u].at = "software",
                                      ![u].work = [upload[u].work EXCEPT !.disks = upload[u].content]]
          /\ UNCHANGED <<asset, accepted>>
      BY <1>9, <2>2 DEF ReplaceDisks, Write
    <3>2. /\ upload'[u] = [upload[u] EXCEPT !.at = "software",
                              !.work = [upload[u].work EXCEPT !.disks = upload[u].content]]
          /\ \A v \in Uploads \ {u} : upload'[v] = upload[v]
      BY <1>0, <2>1, <3>1 DEF TypeOK, Writing
    <3>3. /\ upload'[u].at = "software" /\ upload'[u].device = upload[u].device
          /\ upload'[u].content = upload[u].content /\ upload'[u].id = upload[u].id
          /\ upload'[u].work.disks = upload[u].content
          /\ upload'[u].work.columns = upload[u].work.columns /\ upload'[u].work.id = upload[u].work.id
      BY <2>1, <3>2 DEF Writing, Row
    <3>4. WorkFits(u)'
      BY <1>1, <2>1, <2>2, <3>1, <3>3 DEF WorkFits, RefersTo
    <3>5. \A e \in Devices : Holds(u, e)' => Holds(u, e)
      BY <2>1, <3>3 DEF Holds
    <3> QED
      BY <1>3, <3>1, <3>2, <3>4, <3>5
  <2>3. CASE ~RefersTo(upload[u].id, upload[u].work)
    BY <1>3, <1>4, <1>9, <2>3 DEF ReplaceDisks, Rollback
  <2> QED
    BY <2>2, <2>3
<1>10. ASSUME NEW u \in Uploads, ReplaceSoftware(u) PROVE Goal
  <2> DEFINE row == [upload[u].work EXCEPT !.software = upload[u].content,
                                           !.stored = Limited(InstalledCount[upload[u].content])]
  <2>1. upload[u] \in Writing /\ upload[u].at = "software"
    BY <1>0, <1>10, UploadShape DEF ReplaceSoftware
  <2>2. /\ upload' = [upload EXCEPT ![u].at = "count", ![u].work = row]
        /\ UNCHANGED <<asset, accepted>>
    BY <1>10 DEF ReplaceSoftware, Write
  <2>3. /\ upload'[u] = [upload[u] EXCEPT !.at = "count", !.work = row]
        /\ \A v \in Uploads \ {u} : upload'[v] = upload[v]
    BY <1>0, <2>1, <2>2 DEF TypeOK, Writing
  <2>4. /\ upload'[u].at = "count" /\ upload'[u].device = upload[u].device
        /\ upload'[u].content = upload[u].content /\ upload'[u].id = upload[u].id
        /\ upload'[u].work.software = upload[u].content
        /\ upload'[u].work.stored = Limited(InstalledCount[upload[u].content])
        /\ upload'[u].work.columns = upload[u].work.columns /\ upload'[u].work.id = upload[u].work.id
        /\ upload'[u].work.disks = upload[u].work.disks
    <3>1. upload[u].work \in Row
      BY <2>1 DEF Writing
    <3>2. /\ row.software = upload[u].content /\ row.stored = Limited(InstalledCount[upload[u].content])
          /\ row.columns = upload[u].work.columns /\ row.id = upload[u].work.id
          /\ row.disks = upload[u].work.disks
      BY <3>1 DEF Row
    <3> HIDE DEF row
    <3>3. /\ upload'[u].at = "count" /\ upload'[u].work = row
          /\ upload'[u].device = upload[u].device
          /\ upload'[u].content = upload[u].content /\ upload'[u].id = upload[u].id
      BY <2>1, <2>3 DEF Writing
    <3> QED
      BY <3>2, <3>3
  <2>5. WorkFits(u)'
    BY <1>1, <2>1, <2>2, <2>4 DEF WorkFits
  <2>6. \A e \in Devices : Holds(u, e)' => Holds(u, e)
    BY <2>1, <2>4 DEF Holds
  <2> QED
    BY <1>3, <2>2, <2>3, <2>5, <2>6
<1>11. ASSUME NEW u \in Uploads, CountSoftware(u) PROVE Goal
  <2>1. PICK d \in Devices, c \in Contents, i \in Nat \ {0}, w \in Row :
          /\ upload[u] \in Writing /\ upload[u].at = "count"
          /\ upload[u].device = d /\ upload[u].content = c /\ upload[u].id = i /\ upload[u].work = w
    BY <1>0, <1>11, UploadShape DEF CountSoftware, Writing
  <2>2. PICK n \in Nat : n = InstalledCount[c]
    OBVIOUS
  <2>3. PICK row \in Row : row = [w EXCEPT !.count = n, !.truncated = ExceedsLimit(n)]
    <3>1. [w EXCEPT !.count = n, !.truncated = ExceedsLimit(n)] \in Row
      <4>1. ExceedsLimit(n) \in BOOLEAN
        BY <2>2 DEF ExceedsLimit
      <4> QED
        BY <2>1, <2>2, <4>1 DEF Row
    <3> QED
      BY <3>1
  <2>4. /\ asset' = [asset EXCEPT ![d] = row] /\ accepted' = [accepted EXCEPT ![d] = @ \cup {i}]
        /\ upload' = [upload EXCEPT ![u] = Idle]
    BY <1>11, <2>1, <2>2, <2>3 DEF CountSoftware
  <2>5. /\ row.columns = c /\ row.disks = c /\ row.software = c /\ row.stored = Limited(n)
        /\ row.count = n /\ row.truncated = ExceedsLimit(n) /\ row.id = i
        /\ asset[d] # NoAsset => row.id = asset[d].id
    <3>1. /\ w.columns = c /\ w.disks = c /\ w.software = c /\ w.stored = Limited(n) /\ w.id = i
          /\ asset[d] # NoAsset => w.id = asset[d].id
      BY <1>1, <2>1, <2>2 DEF WorkFits
    <3> QED
      BY <2>3, <3>1 DEF Row
  <2>6. /\ asset'[d] = row /\ accepted'[d] = accepted[d] \cup {i} /\ row # NoAsset
        /\ \A e \in Devices \ {d} : asset'[e] = asset[e] /\ accepted'[e] = accepted[e]
    BY <1>0, <2>4, RowIsAsset DEF TypeOK
  <2>7. OneHolder' /\ \A v \in Uploads \ {u} : upload'[v] = upload[v]
    BY <1>1, <1>4, <2>4, HolderStays
  <2>8. \A v \in Uploads : WorkFits(v)'
    <3> SUFFICES ASSUME NEW v \in Uploads, v # u PROVE WorkFits(v)'
        BY <1>4, <2>4
    <3>1. CASE upload[v].at \in {"disks", "software", "count"}
      <4>1. upload[v].device \in Devices
        BY <1>0, <3>1, UploadShape DEF Writing
      <4>2. upload[v].device # d
        BY <1>1, <2>1, <3>1, <4>1 DEF OneHolder, Holds
      <4> QED
        BY <1>1, <2>6, <2>7, <4>1, <4>2 DEF WorkFits
    <3>2. CASE upload[v].at \notin {"disks", "software", "count"}
      BY <2>7, <3>2 DEF WorkFits
    <3> QED
      BY <3>1, <3>2
  <2>9. InventoryWhole'
    BY <1>1, <2>2, <2>5, <2>6 DEF InventoryWhole
  <2>10. TruncationTold'
    <3>1. row.truncated <=> row.stored < InstalledCount[row.columns]
      BY <2>2, <2>5, LimitedType DEF ExceedsLimit
    <3> QED
      BY <1>1, <2>6, <3>1 DEF TruncationTold
  <2>11. AnsweredIdExists' /\ AnsweredHasAsset'
    BY <1>1, <2>5, <2>6 DEF AnsweredIdExists, AnsweredHasAsset
  <2> QED
    BY <2>7, <2>8, <2>9, <2>10, <2>11
<1>12. ASSUME NEW a \in Admins, NEW d \in Devices, NEW v \in Values, SubmitManagement(a, d, v) PROVE Goal
  BY <1>2, <1>12 DEF SubmitManagement
<1>13. ASSUME NEW a \in Admins, UpdateManagement(a) PROVE Goal
  <2>1. CASE UNCHANGED asset
    BY <1>2, <1>13, <2>1 DEF UpdateManagement
  <2>2. CASE /\ asset[edit[a].device] # NoAsset
             /\ asset' = [asset EXCEPT ![edit[a].device].managed = edit[a].value]
    <3>1. PICK d \in Devices, v \in Values : edit[a].device = d /\ edit[a].value = v
      BY <1>0, <1>13, EditShape DEF UpdateManagement, Idle
    <3>2. PICK row \in Row : row = asset[d]
      BY <1>0, <2>2, <3>1 DEF TypeOK
    <3>3. asset'[d] = [row EXCEPT !.managed = v] /\ \A e \in Devices \ {d} : asset'[e] = asset[e]
      BY <1>0, <2>2, <3>1, <3>2 DEF TypeOK
    <3>4. asset'[d] \in Row /\ asset'[d] # NoAsset
      BY <3>2, <3>3, RowIsAsset DEF Row
    <3>5. /\ asset'[d].columns = asset[d].columns /\ asset'[d].disks = asset[d].disks
          /\ asset'[d].software = asset[d].software /\ asset'[d].stored = asset[d].stored
          /\ asset'[d].count = asset[d].count /\ asset'[d].truncated = asset[d].truncated
          /\ asset'[d].id = asset[d].id
      BY <3>2, <3>3 DEF Row
    <3>6. UNCHANGED <<upload, accepted>>
      BY <1>13 DEF UpdateManagement
    <3>7. OneHolder'
      BY <1>1, <3>6 DEF OneHolder, Holds
    <3>8. \A u \in Uploads : WorkFits(u)'
      <4> SUFFICES ASSUME NEW u \in Uploads, upload[u].at \in {"disks", "software", "count"}
                   PROVE  WorkFits(u)'
          BY <3>6 DEF WorkFits
      <4>1. upload[u].device \in Devices
        BY <1>0, UploadShape DEF Writing
      <4>2. asset'[upload[u].device] # NoAsset =>
              asset[upload[u].device] # NoAsset /\ asset'[upload[u].device].id = asset[upload[u].device].id
        BY <2>2, <3>1, <3>3, <3>5, <4>1
      <4> QED
        BY <1>1, <3>6, <4>2 DEF WorkFits
    <3>9. InventoryWhole' /\ TruncationTold'
      BY <1>1, <2>2, <3>1, <3>3, <3>5 DEF InventoryWhole, TruncationTold
    <3>10. AnsweredIdExists' /\ AnsweredHasAsset'
      BY <1>1, <3>3, <3>4, <3>5, <3>6 DEF AnsweredIdExists, AnsweredHasAsset
    <3> QED
      BY <3>7, <3>8, <3>9, <3>10
  <2> QED
    BY <1>13, <2>1, <2>2 DEF UpdateManagement
<1>14. ASSUME NEW a \in Admins, RecordManagement(a) \/ AbortEdit(a) PROVE Goal
  BY <1>2, <1>14 DEF RecordManagement, AbortEdit
<1>15. ASSUME NEW u \in Uploads, AbortUpload(u) PROVE Goal
  BY <1>3, <1>4, <1>15 DEF AbortUpload, Rollback
<1>16. CASE UNCHANGED vars
  BY <1>2, <1>16 DEF vars
<1> QED
  BY <1>5, <1>6, <1>7, <1>8, <1>9, <1>10, <1>11, <1>12, <1>13, <1>14, <1>15, <1>16
  DEF Next, Store, Manage

\* Row, disks, software and counts of an asset are those of one inventory, for any overlap of
\* uploads, any foreign-key failure and any interruption.
THEOREM InventoryStaysWhole == Spec => []InventoryWhole
<1>1. IInv => InventoryWhole
  BY DEF IInv
<1> QED
  BY <1>1, InitInv, StepInv, PTL DEF Spec

\* Programs are missing from an asset exactly when it says so, for every limit and every count.
THEOREM TruncationAlwaysTold == Spec => []TruncationTold
<1>1. IInv => TruncationTold
  BY DEF IInv
<1> QED
  BY <1>1, InitInv, StepInv, PTL DEF Spec

\* Every id answered to a device is the id of its asset.
THEOREM AnsweredIdsExist == Spec => []AnsweredIdExists
<1>1. IInv => AnsweredIdExists
  BY DEF IInv
<1> QED
  BY <1>1, InitInv, StepInv, PTL DEF Spec
-----------------------------------------------------------------------------
(***************************************************************************)
(* Management data.  An inventory writes the management columns back as it *)
(* has found them, and the lock it holds meanwhile keeps an edit out.  So  *)
(* they change by an edit alone, and the request that has made it tells    *)
(* the value until the history does.                                       *)
(***************************************************************************)
Managed(d) == IF asset[d] = NoAsset THEN NoValue ELSE asset[d].managed
LastValue(d) == IF history[d] = <<>> THEN NoValue ELSE history[d][Len(history[d])]

WorkKeeps(u) == \A d \in Devices : Holds(u, d) => upload[u].work.managed = Managed(d)

LEMMA InitKeeps == Init => \A u \in Uploads : WorkKeeps(u)
BY DEF Init, WorkKeeps, Holds, Idle

LEMMA KeptUntouched ==
    ASSUME NEW v \in Uploads, WorkKeeps(v), upload'[v] = upload[v], \A d \in Devices : Managed(d)' = Managed(d)
    PROVE  WorkKeeps(v)'
BY DEF WorkKeeps, Holds

\* No statement of an inventory changes the management data of any device.
LEMMA InventoryKeepsManagement ==
    ASSUME IInv, \A v \in Uploads : WorkKeeps(v), NEW u \in Uploads, Store(u) \/ AbortUpload(u)
    PROVE  (\A d \in Devices : Managed(d)' = Managed(d)) /\ (\A v \in Uploads : WorkKeeps(v)')
<1> DEFINE Goal == (\A d \in Devices : Managed(d)' = Managed(d)) /\ (\A v \in Uploads : WorkKeeps(v)')
<1>0. TypeOK /\ OneHolder
  BY DEF IInv
\* A statement inside the transaction, and its end without a commit.
<1>1. ASSUME UNCHANGED asset, \A v \in Uploads \ {u} : upload'[v] = upload[v],
             \A d \in Devices : Holds(u, d)' => upload'[u].work.managed = Managed(d)
      PROVE  Goal
  <2>1. \A d \in Devices : Managed(d)' = Managed(d)
    BY <1>1 DEF Managed
  <2>2. WorkKeeps(u)'
    BY <1>1, <2>1 DEF WorkKeeps
  <2> QED
    BY <1>1, <2>1, <2>2, KeptUntouched
<1>2. ASSUME upload' = [upload EXCEPT ![u] = Idle], UNCHANGED asset PROVE Goal
  <2>1. upload'[u].at = "idle" /\ \A v \in Uploads \ {u} : upload'[v] = upload[v]
    BY <1>0, <1>2 DEF TypeOK, Idle
  <2>2. \A d \in Devices : ~Holds(u, d)'
    BY <2>1 DEF Holds
  <2> QED
    BY <1>1, <1>2, <2>1, <2>2
\* A statement that leaves the management data of the row it holds as it is.
<1>3. ASSUME NEW p, NEW row \in Row, upload[u] \in Writing, row.managed = upload[u].work.managed,
             upload' = [upload EXCEPT ![u].at = p, ![u].work = row], UNCHANGED asset
      PROVE  Goal
  <2>1. /\ upload'[u].device = upload[u].device /\ upload'[u].work = row
        /\ \A v \in Uploads \ {u} : upload'[v] = upload[v]
    BY <1>0, <1>3 DEF TypeOK, Writing
  <2>2. upload[u].at \in {"disks", "software", "count"}
    BY <1>3 DEF Writing
  <2>3. \A d \in Devices : Holds(u, d)' => upload'[u].work.managed = Managed(d)
    BY <1>3, <2>1, <2>2 DEF Holds, WorkKeeps
  <2> QED
    BY <1>1, <1>3, <2>1, <2>3
<1>4. CASE SelectAsset(u)
  <2>1. upload[u] \in Selecting
    BY <1>0, <1>4, UploadShape DEF SelectAsset
  <2>2. PICK i : upload' = [upload EXCEPT ![u].at = "upsert", ![u].id = i]
    BY <1>4 DEF SelectAsset
  <2>3. upload'[u].at = "upsert" /\ \A v \in Uploads \ {u} : upload'[v] = upload[v]
    BY <1>0, <2>1, <2>2 DEF TypeOK, Selecting
  <2>4. \A d \in Devices : ~Holds(u, d)'
    BY <2>3 DEF Holds
  <2> QED
    BY <1>1, <1>4, <2>3, <2>4 DEF SelectAsset
<1>5. CASE UpsertAsset(u)
  <2>1. PICK d \in Devices, c \in Contents, i \in Nat \ {0} :
          upload[u] \in Inserting /\ upload[u].device = d /\ upload[u].content = c /\ upload[u].id = i
    BY <1>0, <1>5, UploadShape DEF UpsertAsset, Inserting
  <2>2. PICK row \in Row : row = Upserted(u) /\ row.managed = Managed(d)
    <3>1. CASE asset[d] = NoAsset
      BY <2>1, <3>1, NewRowType DEF Upserted, NewRow, Managed
    <3>2. CASE asset[d] # NoAsset
      <4>1. asset[d] \in Row
        BY <1>0, <3>2 DEF TypeOK
      <4>2. Upserted(u) = [asset[d] EXCEPT !.columns = c]
        BY <2>1, <3>2 DEF Upserted
      <4>3. /\ [asset[d] EXCEPT !.columns = c] \in Row
            /\ [asset[d] EXCEPT !.columns = c].managed = asset[d].managed
        BY <2>1, <4>1 DEF Row
      <4> QED
        BY <3>2, <4>2, <4>3 DEF Managed
    <3> QED
      BY <3>1, <3>2
  <2>3. upload' = [upload EXCEPT ![u].at = "disks", ![u].work = row] /\ UNCHANGED asset
    BY <1>5, <2>2 DEF UpsertAsset, Write
  <2>4. /\ upload'[u].device = d /\ upload'[u].work = row
        /\ \A v \in Uploads \ {u} : upload'[v] = upload[v]
    BY <1>0, <2>1, <2>3 DEF TypeOK, Inserting
  <2>5. \A e \in Devices : Holds(u, e)' => upload'[u].work.managed = Managed(e)
    BY <2>2, <2>4 DEF Holds
  <2> QED
    BY <1>1, <2>3, <2>4, <2>5
<1>6. CASE ReplaceDisks(u)
  <2>1. upload[u] \in Writing
    BY <1>0, <1>6, UploadShape DEF ReplaceDisks
  <2>2. PICK w \in Row, c \in Contents : upload[u].work = w /\ upload[u].content = c
    BY <2>1 DEF Writing
  <2>3. CASE RefersTo(upload[u].id, upload[u].work)
    <3>1. PICK row \in Row : row = [w EXCEPT !.disks = c] /\ row.managed = w.managed
      <4>1. [w EXCEPT !.disks = c] \in Row /\ [w EXCEPT !.disks = c].managed = w.managed
        BY <2>2 DEF Row
      <4> QED
        BY <4>1
    <3>2. upload' = [upload EXCEPT ![u].at = "software", ![u].work = row] /\ UNCHANGED asset
      BY <1>6, <2>2, <2>3, <3>1 DEF ReplaceDisks, Write
    <3> QED
      BY <1>3, <2>1, <2>2, <3>1, <3>2
  <2>4. CASE ~RefersTo(upload[u].id, upload[u].work)
    BY <1>2, <1>6, <2>4 DEF ReplaceDisks, Rollback
  <2> QED
    BY <2>3, <2>4
<1>7. CASE ReplaceSoftware(u)
  <2>1. upload[u] \in Writing
    BY <1>0, <1>7, UploadShape DEF ReplaceSoftware
  <2>2. PICK w \in Row, c \in Contents : upload[u].work = w /\ upload[u].content = c
    BY <2>1 DEF Writing
  <2>3. PICK n \in Nat : n = Limited(InstalledCount[c])
    BY ConstantsType, LimitedType
  <2>4. PICK row \in Row : row = [w EXCEPT !.software = c, !.stored = n] /\ row.managed = w.managed
    <3>1. /\ [w EXCEPT !.software = c, !.stored = n] \in Row
          /\ [w EXCEPT !.software = c, !.stored = n].managed = w.managed
      BY <2>2, <2>3 DEF Row
    <3> QED
      BY <3>1
  <2>5. upload' = [upload EXCEPT ![u].at = "count", ![u].work = row] /\ UNCHANGED asset
    BY <1>7, <2>2, <2>3, <2>4 DEF ReplaceSoftware, Write
  <2> QED
    BY <1>3, <2>1, <2>2, <2>4, <2>5
\* The commit: the row is as the edits before the lock have left it, and nobody else holds it.
<1>8. CASE CountSoftware(u)
  <2>1. PICK d \in Devices, c \in Contents, w \in Row :
          /\ upload[u] \in Writing /\ upload[u].at = "count"
          /\ upload[u].device = d /\ upload[u].content = c /\ upload[u].work = w
    BY <1>0, <1>8, UploadShape DEF CountSoftware, Writing
  <2>2. PICK n \in Nat : n = InstalledCount[c]
    BY ConstantsType
  <2>3. PICK row \in Row : /\ row = [w EXCEPT !.count = n, !.truncated = ExceedsLimit(n)]
                           /\ row.managed = w.managed /\ row # NoAsset
    <3>1. /\ [w EXCEPT !.count = n, !.truncated = ExceedsLimit(n)] \in Row
          /\ [w EXCEPT !.count = n, !.truncated = ExceedsLimit(n)].managed = w.managed
      <4>1. ExceedsLimit(n) \in BOOLEAN
        BY DEF ExceedsLimit
      <4> QED
        BY <4>1 DEF Row
    <3> QED
      BY <3>1, RowIsAsset
  <2>4. asset' = [asset EXCEPT ![d] = row] /\ upload' = [upload EXCEPT ![u] = Idle]
    BY <1>8, <2>1, <2>2, <2>3 DEF CountSoftware
  <2>5. Holds(u, d) /\ w.managed = Managed(d)
    BY <2>1 DEF Holds, WorkKeeps
  <2>6. asset'[d] = row /\ \A e \in Devices \ {d} : asset'[e] = asset[e]
    BY <1>0, <2>4 DEF TypeOK
  <2>7. \A e \in Devices : Managed(e)' = Managed(e)
    BY <2>3, <2>5, <2>6 DEF Managed
  <2>8. upload'[u].at = "idle" /\ \A v \in Uploads \ {u} : upload'[v] = upload[v]
    BY <1>0, <2>4 DEF TypeOK, Idle
  <2>9. WorkKeeps(u)'
    BY <2>8 DEF WorkKeeps, Holds
  <2> QED
    BY <2>7, <2>8, <2>9, KeptUntouched
<1>9. CASE AbortUpload(u)
  BY <1>2, <1>9 DEF AbortUpload, Rollback
<1> QED
  BY <1>4, <1>5, <1>6, <1>7, <1>8, <1>9 DEF Store

\* What an accepted edit does: it finds no inventory between its upsert and its commit.
LEMMA EditChangesOne ==
    ASSUME IInv, \A v \in Uploads : WorkKeeps(v), NEW a \in Admins, UpdateManagement(a), asset' # asset
    PROVE  /\ edit'[a].at = "record" /\ edit'[a].device = edit[a].device /\ edit'[a].value = edit[a].value
           /\ Managed(edit[a].device)' = edit[a].value
           /\ \A d \in Devices \ {edit[a].device} : Managed(d)' = Managed(d)
           /\ \A v \in Uploads : WorkKeeps(v)'
<1>0. TypeOK
  BY DEF IInv
<1>1. PICK d \in Devices, v \in Values : edit[a] \in Edit /\ edit[a].device = d /\ edit[a].value = v
  BY <1>0, EditShape DEF UpdateManagement, Idle
<1>2. /\ asset[d] # NoAsset /\ Unlocked(d) /\ UNCHANGED upload
      /\ asset' = [asset EXCEPT ![d].managed = v] /\ edit' = [edit EXCEPT ![a].at = "record"]
  BY <1>1 DEF UpdateManagement
<1>3. edit'[a].at = "record" /\ edit'[a].device = d /\ edit'[a].value = v
  BY <1>0, <1>1, <1>2 DEF TypeOK, Edit
<1>4. asset[d] \in Row
  BY <1>0, <1>2 DEF TypeOK
<1>5. asset'[d].managed = v /\ asset'[d] # NoAsset /\ \A e \in Devices \ {d} : asset'[e] = asset[e]
  <2>1. asset'[d] = [asset[d] EXCEPT !.managed = v] /\ \A e \in Devices \ {d} : asset'[e] = asset[e]
    BY <1>0, <1>2 DEF TypeOK
  <2> QED
    BY <1>4, <2>1 DEF Row, NoAsset
<1>6. Managed(d)' = v /\ \A e \in Devices \ {d} : Managed(e)' = Managed(e)
  BY <1>5 DEF Managed
<1>7. \A w \in Uploads : WorkKeeps(w)'
  BY <1>2, <1>6 DEF WorkKeeps, Holds, Unlocked
<1> QED
  BY <1>1, <1>3, <1>6, <1>7

LEMMA StepKeeps ==
    IInv /\ (\A u \in Uploads : WorkKeeps(u)) /\ [Next]_vars => \A u \in Uploads : WorkKeeps(u)'
<1> SUFFICES ASSUME IInv, \A u \in Uploads : WorkKeeps(u), [Next]_vars PROVE \A u \in Uploads : WorkKeeps(u)'
    OBVIOUS
<1>1. ASSUME UNCHANGED <<upload, asset>> PROVE \A u \in Uploads : WorkKeeps(u)'
  BY <1>1 DEF WorkKeeps, Holds, Managed
<1>2. ASSUME NEW u \in Uploads, NEW d \in Devices, SendInventory(u, d) PROVE \A v \in Uploads : WorkKeeps(v)'
  <2>1. upload'[u].at = "select" /\ UNCHANGED asset /\ \A v \in Uploads \ {u} : upload'[v] = upload[v]
    BY <1>2 DEF SendInventory, IInv, TypeOK
  <2>2. WorkKeeps(u)' /\ \A e \in Devices : Managed(e)' = Managed(e)
    BY <2>1 DEF WorkKeeps, Holds, Managed
  <2> QED
    BY <2>1, <2>2, KeptUntouched
<1>3. ASSUME NEW a \in Admins, UpdateManagement(a) PROVE \A v \in Uploads : WorkKeeps(v)'
  <2>1. CASE UNCHANGED asset
    BY <1>1, <1>3, <2>1 DEF UpdateManagement
  <2>2. CASE asset' # asset
    BY <1>3, <2>2, EditChangesOne
  <2> QED
    BY <2>1, <2>2
<1> QED
  BY <1>1, <1>2, <1>3, InventoryKeepsManagement
  DEF Next, Manage, Change, RecordManagement, AbortEdit, SubmitManagement, vars
\* Whatever overlaps, fails or is cut short: the management data of a device change by an edit of
\* that device alone, to the value of that edit.  An inventory never touches them
\* (AgentController.inventory leaves the columns out of its ON CONFLICT).
THEOREM OnlyEditsManage ==
    Spec => [][\A d \in Devices : Managed(d)' # Managed(d) =>
                 \E a \in Admins : UpdateManagement(a) /\ edit[a].device = d /\ Managed(d)' = edit[a].value]_vars
<1> DEFINE
      Kept == IInv /\ \A u \in Uploads : WorkKeeps(u)
      EditedOnly == \A d \in Devices : Managed(d)' # Managed(d) =>
          \E a \in Admins : UpdateManagement(a) /\ edit[a].device = d /\ Managed(d)' = edit[a].value
<1>1. Kept /\ [Next]_vars => [EditedOnly]_vars
  <2> SUFFICES ASSUME IInv, \A u \in Uploads : WorkKeeps(u), [Next]_vars,
                      NEW d \in Devices, Managed(d)' # Managed(d)
               PROVE  \E a \in Admins : UpdateManagement(a) /\ edit[a].device = d /\ Managed(d)' = edit[a].value
      OBVIOUS
  <2>1. asset' # asset
    BY DEF Managed
  <2>2. ASSUME NEW u \in Uploads, Store(u) \/ AbortUpload(u) PROVE FALSE
    BY <2>2, InventoryKeepsManagement
  <2>3. PICK a \in Admins : UpdateManagement(a)
    BY <2>1, <2>2 DEF Next, Manage, Change, SendInventory, RecordManagement, AbortEdit, SubmitManagement, vars
  <2> QED
    BY <2>1, <2>3, EditChangesOne
<1>2. Init => Kept
  BY InitInv, InitKeeps
<1>3. Kept /\ [Next]_vars => Kept'
  BY StepInv, StepKeeps
<1> HIDE DEF Kept
<1> QED
  BY <1>1, <1>2, <1>3, PTL DEF Spec

-----------------------------------------------------------------------------
(***************************************************************************)
(* The refinement: only the commit of an inventory and an accepted edit    *)
(* change what readers see of an asset.                                    *)
(***************************************************************************)
ShownAll == [d \in Devices |-> Shown(d)]

LEMMA ShownManaged ==
    ASSUME TypeOK, NEW d \in Devices
    PROVE  Record!Managed(d) = Managed(d) /\ (Shown(d) = NoAsset <=> asset[d] = NoAsset)
<1>1. CASE asset[d] = NoAsset
  BY <1>1 DEF Shown, Record!Managed, Managed
<1>2. CASE asset[d] # NoAsset
  <2>1. PICK i : Shown(d) = [inventory |-> i, managed |-> asset[d].managed]
    BY <1>2 DEF Shown
  <2>2. Shown(d) # NoAsset /\ Shown(d).managed = asset[d].managed
    BY <2>1 DEF NoAsset
  <2> QED
    BY <1>2, <2>2 DEF Record!Managed, Managed
<1> QED
  BY <1>1, <1>2

LEMMA CommitStores ==
    ASSUME IInv, \A v \in Uploads : WorkKeeps(v), NEW u \in Uploads, CountSoftware(u)
    PROVE  \E d \in Devices, i \in {Whole(c) : c \in Contents} : Record!Store(d, i)
<1>0. TypeOK /\ WorkFits(u)
  BY DEF IInv
<1>1. PICK d \in Devices, c \in Contents, w \in Row :
        /\ upload[u] \in Writing /\ upload[u].at = "count"
        /\ upload[u].device = d /\ upload[u].content = c /\ upload[u].work = w
  BY <1>0, UploadShape DEF CountSoftware, Writing
<1>2. PICK n \in Nat : n = InstalledCount[c]
  BY ConstantsType
<1>3. ExceedsLimit(n) \in BOOLEAN /\ ExceedsLimit(n) = (n > SoftwareLimit)
  BY DEF ExceedsLimit
<1>4. PICK row \in Row : row = [w EXCEPT !.count = n, !.truncated = ExceedsLimit(n)]
  <2>1. [w EXCEPT !.count = n, !.truncated = ExceedsLimit(n)] \in Row
    BY <1>3 DEF Row
  <2> QED
    BY <2>1
<1>5. asset' = [asset EXCEPT ![d] = row]
  BY <1>1, <1>2, <1>4 DEF CountSoftware
<1>6. w.columns = c /\ w.disks = c /\ w.software = c /\ w.stored = Limited(n) /\ w.managed = Managed(d)
  BY <1>0, <1>1, <1>2 DEF WorkFits, WorkKeeps, Holds
<1>7. /\ row.columns = c /\ row.disks = c /\ row.software = c /\ row.stored = Limited(n)
      /\ row.count = n /\ row.truncated = ExceedsLimit(n) /\ row.managed = Managed(d)
  BY <1>4, <1>6 DEF Row
<1>8. asset'[d] = row /\ \A e \in Devices \ {d} : asset'[e] = asset[e]
  BY <1>0, <1>5 DEF TypeOK
<1>9. Shown(d)' = [inventory |-> Whole(c), managed |-> Record!Managed(d)]
  <2>1. Shown(d)' = [inventory |-> [columns |-> row.columns, disks |-> row.disks, software |-> row.software,
                                    stored |-> row.stored, count |-> row.count, truncated |-> row.truncated],
                     managed |-> row.managed]
    BY <1>8, RowIsAsset DEF Shown
  <2>2. Whole(c) = [columns |-> c, disks |-> c, software |-> c, stored |-> Limited(n), count |-> n,
                    truncated |-> ExceedsLimit(n)]
    BY <1>2, <1>3 DEF Whole
  <2>3. Record!Managed(d) = Managed(d)
    BY <1>0, ShownManaged
  <2> QED
    BY <1>7, <2>1, <2>2, <2>3
<1>10. \A e \in Devices \ {d} : Shown(e)' = Shown(e)
  BY <1>8 DEF Shown
<1>11. ShownAll' = [ShownAll EXCEPT ![d] = [inventory |-> Whole(c), managed |-> Record!Managed(d)]]
  BY <1>9, <1>10 DEF ShownAll
<1>12. Record!Store(d, Whole(c))
  BY <1>11 DEF Record!Store, ShownAll
<1> QED
  BY <1>12

LEMMA EditEdits ==
    ASSUME IInv, NEW a \in Admins, UpdateManagement(a), asset' # asset
    PROVE  \E d \in Devices, v \in Values : Record!Edit(d, v)
<1>0. TypeOK
  BY DEF IInv
<1>1. PICK d \in Devices, v \in Values : edit[a].device = d /\ edit[a].value = v
  BY <1>0, EditShape DEF UpdateManagement, Idle
<1>2. asset[d] # NoAsset /\ asset' = [asset EXCEPT ![d].managed = v]
  BY <1>1 DEF UpdateManagement
<1>3. PICK row \in Row : asset[d] = row
  BY <1>0, <1>2 DEF TypeOK
<1>4. PICK new \in Row : new = [row EXCEPT !.managed = v]
  <2>1. [row EXCEPT !.managed = v] \in Row
    BY <1>3 DEF Row
  <2> QED
    BY <2>1
<1>5. asset'[d] = new /\ \A e \in Devices \ {d} : asset'[e] = asset[e]
  BY <1>0, <1>2, <1>3, <1>4 DEF TypeOK
<1>6. /\ new.columns = row.columns /\ new.disks = row.disks /\ new.software = row.software
      /\ new.stored = row.stored /\ new.count = row.count /\ new.truncated = row.truncated
      /\ new.managed = v
  BY <1>4 DEF Row
<1>7. PICK i : Shown(d) = [inventory |-> i, managed |-> row.managed]
               /\ Shown(d)' = [inventory |-> i, managed |-> v]
  <2>1. Shown(d) = [inventory |-> [columns |-> row.columns, disks |-> row.disks, software |-> row.software,
                                   stored |-> row.stored, count |-> row.count, truncated |-> row.truncated],
                    managed |-> row.managed]
    BY <1>3, RowIsAsset DEF Shown
  <2>2. Shown(d)' = [inventory |-> [columns |-> new.columns, disks |-> new.disks, software |-> new.software,
                                    stored |-> new.stored, count |-> new.count, truncated |-> new.truncated],
                     managed |-> new.managed]
    BY <1>5, RowIsAsset DEF Shown
  <2> QED
    BY <1>6, <2>1, <2>2
<1>8. \A e \in Devices \ {d} : Shown(e)' = Shown(e)
  BY <1>5 DEF Shown
<1>9. Shown(d) # NoAsset /\ Shown(d).inventory = i
  BY <1>7 DEF NoAsset
<1>10. ShownAll' = [ShownAll EXCEPT ![d] = [inventory |-> ShownAll[d].inventory, managed |-> v]]
  BY <1>7, <1>8, <1>9 DEF ShownAll
<1>11. ShownAll[d] # NoAsset
  BY <1>9 DEF ShownAll
<1>12. Record!Edit(d, v)
  BY <1>10, <1>11 DEF Record!Edit, ShownAll
<1> QED
  BY <1>12

\* The transaction of an inventory, four statements at READ COMMITTED beside others of its kind and
\* beside edits, reads as one step that replaces the inventory of the asset and keeps its
\* management data; an edit reads as one step that replaces these.
THEOREM InventoriesAreAtomic == Spec => InventoryAtomic
<1> DEFINE Kept == IInv /\ \A u \in Uploads : WorkKeeps(u)
<1>1. Init => Record!Init
  BY DEF Init, Record!Init, Shown
<1>2. Kept /\ [Next]_vars => [Record!Next]_ShownAll
  <2> SUFFICES ASSUME IInv, \A u \in Uploads : WorkKeeps(u), [Next]_vars, ShownAll' # ShownAll
               PROVE  Record!Next
      OBVIOUS
  <2>1. asset' # asset
    BY DEF ShownAll, Shown
  <2>2. ASSUME NEW u \in Uploads, CountSoftware(u) PROVE Record!Next
    BY <2>2, CommitStores DEF Record!Next
  <2>3. ASSUME NEW a \in Admins, UpdateManagement(a) PROVE Record!Next
    BY <2>1, <2>3, EditEdits DEF Record!Next
  <2> QED
    BY <2>1, <2>2, <2>3
    DEF Next, Store, Manage, Change, SendInventory, SelectAsset, UpsertAsset, ReplaceDisks, ReplaceSoftware,
        Write, Rollback, AbortUpload, RecordManagement, AbortEdit, SubmitManagement, vars
<1>3. Init => Kept
  BY InitInv, InitKeeps
<1>4. Kept /\ [Next]_vars => Kept'
  BY StepInv, StepKeeps
<1>5. [Record!Next]_ShownAll => [Record!Next]_[d \in Devices |-> Shown(d)]
  BY DEF ShownAll
<1> HIDE DEF Kept
<1> QED
  BY <1>1, <1>2, <1>3, <1>4, <1>5, PTL DEF Spec, InventoryAtomic, Record!Spec

-----------------------------------------------------------------------------
\* Without overlapping edits and interruptions the last entry of a device's history is its
\* management data, or the request that has changed them is about to write that entry.
EditTells(a) == edit[a].at = "record" => Managed(edit[a].device) = edit[a].value
Told(d) ==
    \/ \E a \in Admins : edit[a].at = "record" /\ edit[a].device = d
    \/ Managed(d) = LastValue(d)

SerialInv == aborted = 0 => (\A a \in Admins : EditTells(a)) /\ (\A d \in Devices : Told(d))

LEMMA InitSerial == Init => SerialInv
BY DEF Init, SerialInv, EditTells, Told, Managed, LastValue, Idle

\* A step that leaves the management data, their history and the requests on their way to it alone.
LEMMA SerialUntouched ==
    ASSUME TypeOK, SerialInv, UNCHANGED history, aborted' = 0 => aborted = 0,
           \A d \in Devices : Managed(d)' = Managed(d),
           \A a \in Admins : edit'[a] = edit[a] \/ (edit[a].at # "record" /\ edit'[a].at # "record")
    PROVE  SerialInv'
<1> SUFFICES ASSUME aborted' = 0 PROVE (\A a \in Admins : EditTells(a)') /\ (\A d \in Devices : Told(d)')
    BY DEF SerialInv
<1>1. (\A a \in Admins : EditTells(a)) /\ (\A d \in Devices : Told(d))
  BY DEF SerialInv
<1>2. ASSUME NEW a \in Admins PROVE EditTells(a)'
  <2>1. edit[a].at = "record" => edit[a].device \in Devices
    BY EditShape DEF Idle
  <2> QED
    BY <1>1, <2>1 DEF EditTells
<1>3. ASSUME NEW d \in Devices PROVE Told(d)'
  BY <1>1 DEF Told, LastValue
<1> QED
  BY <1>2, <1>3

\* The request that has made an edit appends to the history what the asset shows.
LEMMA SerialRecord ==
    ASSUME TypeOK, SerialInv, NoEditOverlap, NEW a \in Admins, RecordManagement(a)
    PROVE  SerialInv'
<1>1. PICK d \in Devices, v \in Values : edit[a].at = "record" /\ edit[a].device = d /\ edit[a].value = v
  BY EditShape DEF RecordManagement, Idle
<1>2. /\ history' = [history EXCEPT ![d] = Append(@, v)] /\ edit' = [edit EXCEPT ![a] = Idle]
      /\ UNCHANGED <<asset, aborted>>
  BY <1>1 DEF RecordManagement
<1>3. edit'[a].at = "idle" /\ \A b \in Admins \ {a} : edit'[b] = edit[b]
  BY <1>2 DEF TypeOK, Idle
<1>4. \A e \in Devices : Managed(e)' = Managed(e)
  BY <1>2 DEF Managed
<1> SUFFICES ASSUME aborted' = 0 PROVE (\A b \in Admins : EditTells(b)') /\ (\A e \in Devices : Told(e)')
    BY DEF SerialInv
<1>5. (\A b \in Admins : EditTells(b)) /\ (\A e \in Devices : Told(e))
  BY <1>2 DEF SerialInv
<1>6. ASSUME NEW b \in Admins PROVE EditTells(b)'
  <2>1. edit[b].at = "record" => edit[b].device \in Devices
    BY EditShape DEF Idle
  <2> QED
    BY <1>3, <1>4, <1>5, <2>1 DEF EditTells
<1>7. LastValue(d)' = v
  <2>1. history[d] \in Seq(Values) /\ history'[d] = Append(history[d], v)
    BY <1>2 DEF TypeOK
  <2>2. history'[d] # <<>> /\ history'[d][Len(history'[d])] = v
    BY <2>1
  <2> QED
    BY <2>2 DEF LastValue
<1>8. ASSUME NEW e \in Devices PROVE Told(e)'
  <2>1. CASE e = d
    BY <1>1, <1>4, <1>5, <1>7, <2>1 DEF Told, EditTells
  <2>2. CASE e # d
    <3>1. history'[e] = history[e]
      BY <1>2, <2>2 DEF TypeOK
    <3>2. LastValue(e)' = LastValue(e)
      BY <3>1 DEF LastValue
    <3> QED
      BY <1>1, <1>3, <1>4, <1>5, <2>2, <3>2 DEF Told
  <2> QED
    BY <2>1, <2>2
<1> QED
  BY <1>6, <1>8

\* An accepted edit is the only one of its device.
LEMMA SerialUpdate ==
    ASSUME IInv, \A u \in Uploads : WorkKeeps(u), SerialInv, NoEditOverlap,
           NEW a \in Admins, UpdateManagement(a)
    PROVE  SerialInv'
<1>0. TypeOK /\ edit[a].at = "update" /\ edit[a] # Idle
  BY DEF IInv, UpdateManagement, Idle
<1>1. UNCHANGED <<history, aborted>> /\ \A b \in Admins \ {a} : edit'[b] = edit[b]
  BY <1>0 DEF UpdateManagement, TypeOK
<1>2. CASE asset' # asset
  <2>1. PICK d \in Devices : edit[a].device = d
    BY <1>0, EditShape
  <2>2. /\ edit'[a].at = "record" /\ edit'[a].device = d /\ Managed(d)' = edit'[a].value
        /\ \A e \in Devices \ {d} : Managed(e)' = Managed(e)
    BY <1>2, <2>1, EditChangesOne
  <2> SUFFICES ASSUME aborted' = 0 PROVE (\A b \in Admins : EditTells(b)') /\ (\A e \in Devices : Told(e)')
      BY DEF SerialInv
  <2>3. (\A b \in Admins : EditTells(b)) /\ (\A e \in Devices : Told(e))
    BY <1>1 DEF SerialInv
  <2>4. ASSUME NEW b \in Admins \ {a}, edit[b].at = "record"
        PROVE  edit[b].device \in Devices \ {d}
    <3>1. edit[b] # Idle
      BY <2>4 DEF Idle
    <3> QED
      BY <1>0, <2>1, <3>1, EditShape DEF NoEditOverlap
  <2>5. ASSUME NEW b \in Admins PROVE EditTells(b)'
    BY <1>1, <2>2, <2>3, <2>4 DEF EditTells
  <2>6. ASSUME NEW e \in Devices PROVE Told(e)'
    <3>1. CASE e = d
      BY <2>2, <3>1 DEF Told
    <3>2. CASE e # d
      BY <1>0, <1>1, <2>2, <2>3, <3>2 DEF Told, LastValue
    <3> QED
      BY <3>1, <3>2
  <2> QED
    BY <2>5, <2>6
<1>3. CASE UNCHANGED asset
  <2>1. CASE edit' = [edit EXCEPT ![a] = Idle]
    <3>1. edit'[a].at # "record"
      BY <1>0, <2>1 DEF TypeOK, Idle
    <3>2. \A e \in Devices : Managed(e)' = Managed(e)
      BY <1>3 DEF Managed
    <3> QED
      BY <1>0, <1>1, <3>1, <3>2, SerialUntouched
  \* The update writes the value the asset has already.
  <2>2. CASE asset[edit[a].device] # NoAsset /\ asset' = [asset EXCEPT ![edit[a].device].managed = edit[a].value]
             /\ edit' = [edit EXCEPT ![a].at = "record"]
    <3>1. PICK d \in Devices, v \in Values : edit[a] \in Edit /\ edit[a].device = d /\ edit[a].value = v
      BY <1>0, EditShape
    <3>2. asset[d] \in Row /\ asset[d] = [asset[d] EXCEPT !.managed = v]
      BY <1>0, <1>3, <2>2, <3>1 DEF TypeOK
    <3>3. Managed(d) = v
      BY <2>2, <3>1, <3>2 DEF Managed, Row
    <3>4. edit'[a].at = "record" /\ edit'[a].device = d /\ edit'[a].value = v
      BY <1>0, <2>2, <3>1 DEF TypeOK, Edit
    <3>5. \A e \in Devices : Managed(e)' = Managed(e) /\ LastValue(e)' = LastValue(e)
      BY <1>1, <1>3 DEF Managed, LastValue
    <3> SUFFICES ASSUME aborted' = 0 PROVE (\A b \in Admins : EditTells(b)') /\ (\A e \in Devices : Told(e)')
        BY DEF SerialInv
    <3>6. (\A b \in Admins : EditTells(b)) /\ (\A e \in Devices : Told(e))
      BY <1>1 DEF SerialInv
    <3>7. ASSUME NEW b \in Admins PROVE EditTells(b)'
      <4>1. edit[b].at = "record" => edit[b].device \in Devices
        BY <1>0, EditShape DEF Idle
      <4> QED
        BY <1>1, <3>3, <3>4, <3>5, <3>6, <4>1 DEF EditTells
    <3>8. ASSUME NEW e \in Devices PROVE Told(e)'
      BY <1>0, <1>1, <3>5, <3>6 DEF Told
    <3> QED
      BY <3>7, <3>8
  <2> QED
    BY <2>1, <2>2 DEF UpdateManagement
<1> QED
  BY <1>2, <1>3

LEMMA SerialStep ==
    IInv /\ (\A u \in Uploads : WorkKeeps(u)) /\ SerialInv /\ NoEditOverlap /\ [Next]_vars => SerialInv'
<1> SUFFICES ASSUME IInv, \A u \in Uploads : WorkKeeps(u), SerialInv, NoEditOverlap, [Next]_vars
             PROVE  SerialInv'
    OBVIOUS
<1>0. TypeOK /\ aborted \in Nat
  BY DEF IInv, TypeOK
<1>1. ASSUME UNCHANGED <<asset, edit, history, aborted>> PROVE SerialInv'
  BY <1>1 DEF SerialInv, EditTells, Told, Managed, LastValue
<1>2. ASSUME NEW u \in Uploads, Store(u) PROVE SerialInv'
  <2>1. UNCHANGED <<edit, history, aborted>>
    BY <1>2 DEF Store, SelectAsset, UpsertAsset, ReplaceDisks, ReplaceSoftware, CountSoftware
  <2>2. \A d \in Devices : Managed(d)' = Managed(d)
    BY <1>2, InventoryKeepsManagement
  <2> QED
    BY <1>0, <2>1, <2>2, SerialUntouched
<1>3. ASSUME NEW u \in Uploads, AbortUpload(u) PROVE SerialInv'
  BY <1>0, <1>3 DEF AbortUpload, SerialInv
<1>4. ASSUME NEW a \in Admins, AbortEdit(a) PROVE SerialInv'
  BY <1>0, <1>4 DEF AbortEdit, SerialInv
<1>5. ASSUME NEW a \in Admins, NEW d \in Devices, NEW v \in Values, SubmitManagement(a, d, v) PROVE SerialInv'
  <2>1. UNCHANGED <<asset, history, aborted>>
    BY <1>5 DEF SubmitManagement
  <2>2. /\ edit[a].at # "record" /\ edit'[a].at # "record"
        /\ \A b \in Admins \ {a} : edit'[b] = edit[b]
    BY <1>0, <1>5 DEF SubmitManagement, TypeOK, Idle
  <2>3. \A e \in Devices : Managed(e)' = Managed(e)
    BY <2>1 DEF Managed
  <2> QED
    BY <1>0, <2>1, <2>2, <2>3, SerialUntouched
<1> QED
  BY <1>0, <1>1, <1>2, <1>3, <1>4, <1>5, SerialRecord, SerialUpdate
  DEF Next, Manage, Change, SendInventory, vars

\* For any number of devices, administrators and inventories: as long as no two edits of a device
\* overlap and nothing is cut short, the last history entry of an asset is its management data, so
\* no inventory ever undoes an edit, not even one that was under way when the edit was made.
THEOREM SerialEditsMatch == Spec => SerialHistoryMatches
<1> DEFINE
      Inv == IInv /\ (\A u \in Uploads : WorkKeeps(u)) /\ SerialInv
      Matches ==
        aborted = 0 => \A d \in Devices :
            asset[d] = NoAsset
            \/ (\E a \in Admins : edit[a].at = "record" /\ edit[a].device = d)
            \/ asset[d].managed = IF history[d] = <<>> THEN NoValue ELSE history[d][Len(history[d])]
<1>1. Init => Inv
  BY InitInv, InitKeeps, InitSerial
<1>2. Inv /\ NoEditOverlap /\ [Next]_vars => Inv'
  BY StepInv, StepKeeps, SerialStep
<1>3. Inv => Matches
  BY DEF SerialInv, Told, Managed, LastValue
<1> HIDE DEF Inv
<1> QED
  BY <1>1, <1>2, <1>3, PTL DEF Spec, SerialHistoryMatches
=============================================================================
