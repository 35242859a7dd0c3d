---------------------------- MODULE FixedWindow ----------------------------
(***************************************************************************)
(* What a fixed-window rate limiter promises each client, with nothing     *)
(* said about how it remembers: a window opens with the first request,     *)
(* lasts Window ticks, and Limit requests pass in it.                        *)
(***************************************************************************)
EXTENDS Naturals

CONSTANTS
    Clients,
    Limit,        \* requests allowed in a window
    Window      \* its length in ticks

VARIABLES
    taken,      \* how many requests passed in the client's open window
    left,       \* ticks before it closes; 0 when none is open
    life        \* changes when the limiter restarts, and only then

vars == <<taken, left, life>>

Init ==
    /\ taken = [c \in Clients |-> 0]
    /\ left = [c \in Clients |-> 0]
    /\ life = FALSE

\* A request passes: it opens a window or has room in the open one.
Pass(c) ==
    /\ taken[c] < Limit
    /\ taken' = [taken EXCEPT ![c] = @ + 1]
    /\ left' = [left EXCEPT ![c] = IF @ = 0 THEN Window ELSE @]
    /\ UNCHANGED life

\* A request is turned away, only when the open window is full.
TurnAway(c) ==
    /\ left[c] > 0
    /\ taken[c] = Limit
    /\ UNCHANGED vars

\* Time passes; windows that end are forgotten.
Elapse ==
    /\ left' = [c \in Clients |-> IF left[c] = 0 THEN 0 ELSE left[c] - 1]
    /\ taken' = [c \in Clients |-> IF left[c] > 1 THEN taken[c] ELSE 0]
    /\ UNCHANGED life

\* The limiter restarts with no memory; nothing else makes it forget.
Forget ==
    /\ taken' = [c \in Clients |-> 0]
    /\ left' = [c \in Clients |-> 0]
    /\ life' = ~life

Next == (\E c \in Clients : Pass(c) \/ TurnAway(c)) \/ Elapse \/ Forget

Spec == Init /\ [][Next]_vars
=============================================================================
