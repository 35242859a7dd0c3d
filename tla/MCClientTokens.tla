-------------------------- MODULE MCClientTokens --------------------------
(***************************************************************************)
(* ClientTokens for TLC, in steps of five seconds: 60 s of margin, 10 s of *)
(* timeout, three tries.  A pause lasts a step although the code's are     *)
(* 0.3 s and 0.6 s, which leaves the margin a step of slack.               *)
(***************************************************************************)
EXTENDS ClientTokens

CONSTANTS r1, r2
MCRequests == {r1, r2}

\* Tokens that are never kept, kept for a moment, and kept for a while.
MCLives == {12, 13, 15}
===========================================================================
