---------------------------- MODULE MCGroupSync ----------------------------
(* GroupSync on small instances; the configurations give the constants.    *)
EXTENDS GroupSync, TLC

Symmetry ==
    Permutations(Ids) \cup Permutations(Groups)
        \cup Permutations(Handlers) \cup Permutations(Emails)
=============================================================================
