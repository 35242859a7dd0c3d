--------------------------- MODULE MCGroupsCache ---------------------------
(* GroupsCache on small instances; the configurations give the constants.  *)
EXTENDS GroupsCache, TLC

Symmetry == Permutations(Shops) \cup Permutations(Requests) \cup Permutations(Groups)
=============================================================================
