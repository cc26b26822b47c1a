------------------------ MODULE MCConsoleSession ------------------------
(***************************************************************************)
(* Two inventories: two assets, and three of which the list shows two.     *)
(* Between them the assets take every value a figure counts, and the second *)
(* has more issues than the first has checks.                              *)
(***************************************************************************)
EXTENDS ConsoleSession, TLC

Asset(id, bitlocker, antivirus, contact) ==
    [id |-> id, bitlocker |-> bitlocker, antivirus |-> antivirus, contact |-> contact]

MCWorld ==
    0 :> {Asset(1, "off", "unknown", "stale"), Asset(2, "on", "Healthy", "online")}
    @@ 1 :> {Asset(1, "off", "other", "stale"), Asset(2, "unknown", "other", "online"),
             Asset(3, "off", "Healthy", "offline")}

Symmetry == Permutations(Slots)
=============================================================================
