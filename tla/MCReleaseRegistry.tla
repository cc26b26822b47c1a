------------------------ MODULE MCReleaseRegistry ------------------------
(***************************************************************************)
(* Instances of ReleaseRegistry for TLC.  The largest int is scaled down   *)
(* to 20; versions, builds and the version compiled into each build.       *)
(***************************************************************************)
EXTENDS ReleaseRegistry, TLC

CONSTANTS b9, b10, b10x, b11, bBig

v9 == <<0, 2, 9>>
v10 == <<0, 2, 10>>
v10r == <<0, 2, 10, 1>>
v11 == <<0, 3, 0>>
vBig == <<0, 3, 21>>

AllVersions == {v9, v10, v10r, v11, vBig}
AllBuilds == {b9, b10, b10x, b11, bBig}
Compiled ==
    b9 :> <<0, 2, 9, 0>> @@ b10 :> <<0, 2, 10, 0>> @@ b10x :> <<0, 2, 10, 1>>
      @@ b11 :> <<0, 3, 0, 0>> @@ bBig :> <<0, 3, 21, 0>>
Release(v, b) == [version |-> v, build |-> b]

\* The release in service; two builds under one label, a patch with four components,
\* and a version out of range.
Published9 == {Release(v9, b9)}
AllReleases == Published9 \cup
    {Release(v10, b10), Release(v10, b10x), Release(v10r, b10x), Release(vBig, bBig)}

\* Labels of three components only.
PlainReleases == Published9 \cup {Release(v10, b10), Release(v10, b10x), Release(v11, b11)}

OldAndNew == {b9, b11}
Old == {b9}

Faults(abort, transfer, save, move, power) ==
    [k \in FaultKinds |->
        CASE k = "abort" -> abort [] k = "transfer" -> transfer
          [] k = "save" -> save [] k = "move" -> move [] k = "power" -> power]
EveryFault == Faults(1, 1, 1, 1, 1)
\* Failures of uploads and downloads, the device being subject to a failing move only.
RegistryFaults == Faults(1, 1, 0, 1, 0)
NoFault == Faults(0, 0, 0, 0, 0)
==========================================================================
