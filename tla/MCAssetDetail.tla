--------------------------- MODULE MCAssetDetail ---------------------------
EXTENDS AssetDetail, TLC

Symmetry == Permutations(Assets) \cup Permutations(Fields)
=============================================================================
