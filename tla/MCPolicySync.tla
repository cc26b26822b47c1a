---------------------------- MODULE MCPolicySync ----------------------------
(***************************************************************************)
(* An instance of PolicySync: a list of two policies and a later one that  *)
(* names only the first, any two disturbances.                             *)
(***************************************************************************)
EXTENDS PolicySync

CONSTANTS p1, p2

TwoPolicies == {p1, p2}
TwoLists == <<{p1, p2}, {p1}>>
=============================================================================
