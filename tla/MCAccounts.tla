---------------------------- MODULE MCAccounts ----------------------------
(* Accounts on small instances.                                            *)
EXTENDS Accounts, TLC

Symmetry == Permutations(UserIds) \cup Permutations(Names) \cup Permutations(Strong)
              \cup Permutations(Requests)
=============================================================================
