---------------------------- MODULE LegacyRows ----------------------------
(***************************************************************************)
(* What the move from a single-shop to a multi-shop database promises,     *)
(* apart from how initDatabase goes about it: the rows a single-shop       *)
(* release left behind are adopted one table at a time, all of a table at  *)
(* once and all by the same heir; nothing is adopted twice; and shops are  *)
(* served only when nothing is left to adopt.                              *)
(***************************************************************************)
EXTENDS Naturals, FiniteSets

CONSTANTS
    Null,     \* the owner of a row that has none
    Legacy,   \* the sentinel shop id "__legacy__"
    Shops,
    Ids,      \* identities of rows: a setting's key, a mapping's or a log's id
    Tables    \* the tables whose rows belong to a shop

VARIABLES
    rows,     \* the rows of each table
    shops,    \* the shops with a connection
    serving   \* does the process accept requests?

Owners == Shops \cup {Legacy}

Row == [id : Ids, shop : Owners \cup {Null}]

\* The one shop there is, or nobody in particular.
Heir(connected) ==
    IF \E s \in Shops : connected = {s} THEN CHOOSE s \in Shops : connected = {s} ELSE Legacy

Unowned(table) == {row \in table : row.shop = Null}

\* Every unowned row of the table is given to the heir; the others stay as they are.
Adopted(table, heir) ==
    (table \ Unowned(table)) \cup {[id |-> row.id, shop |-> heir] : row \in Unowned(table)}

AllOwned == \A t \in Tables : Unowned(rows[t]) = {}

Init ==
    /\ rows \in [Tables -> SUBSET Row]
    /\ shops \in SUBSET Shops
    /\ serving = FALSE

Adopt(t) ==
    /\ ~serving
    /\ rows' = [rows EXCEPT ![t] = Adopted(@, Heir(shops))]
    /\ UNCHANGED <<shops, serving>>

Serve == ~serving /\ AllOwned /\ serving' = TRUE /\ UNCHANGED <<rows, shops>>

Stop == serving /\ serving' = FALSE /\ UNCHANGED <<rows, shops>>

\* While it serves, shops come and go and change rows of their own.
Use ==
    /\ serving
    /\ shops' \in SUBSET Shops
    /\ rows' \in [Tables -> SUBSET Row]
    /\ \A t \in Tables : Unowned(rows'[t]) = {}
    /\ UNCHANGED serving

Next == (\E t \in Tables : Adopt(t)) \/ Serve \/ Stop \/ Use

Spec == Init /\ [][Next]_<<rows, shops, serving>>
=============================================================================
