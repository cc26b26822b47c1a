----------------------------- MODULE AssetRecord -----------------------------
(***************************************************************************)
(* What the asset of a device promises its readers: it has one inventory,  *)
(* whole, and the management data of one edit.  Either is replaced in one  *)
(* step, which leaves the other as it is.                                  *)
(***************************************************************************)
CONSTANTS Devices, Inventories, Values, NoValue, NoRecord

VARIABLE record  \* of each device, NoRecord before its first inventory

Init == record = [d \in Devices |-> NoRecord]

Managed(d) == IF record[d] = NoRecord THEN NoValue ELSE record[d].managed

Store(d, i) == record' = [record EXCEPT ![d] = [inventory |-> i, managed |-> Managed(d)]]

Edit(d, v) ==
    /\ record[d] # NoRecord
    /\ record' = [record EXCEPT ![d] = [inventory |-> record[d].inventory, managed |-> v]]

Next ==
    \/ \E d \in Devices, i \in Inventories : Store(d, i)
    \/ \E d \in Devices, v \in Values : Edit(d, v)

Spec == Init /\ [][Next]_record
=============================================================================
