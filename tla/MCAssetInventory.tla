------------------------- MODULE MCAssetInventory -------------------------
(***************************************************************************)
(* An instance of AssetInventory.  The three contents of a device have one *)
(* program (the limit), two (one too many) and none.                       *)
(***************************************************************************)
EXTENDS AssetInventory

ProgramCounts == <<1, 2, 0>>
=============================================================================
