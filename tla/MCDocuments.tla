---------------------------- MODULE MCDocuments ---------------------------
(* Documents on small instances.                                           *)
EXTENDS Documents, TLC

Symmetry == Permutations(Docs) \cup Permutations(Groups) \cup Permutations(Customers)
=============================================================================
