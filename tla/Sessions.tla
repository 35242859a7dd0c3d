------------------------------ MODULE Sessions ------------------------------
(***************************************************************************)
(* Browser sessions in SQLite: express-session over SqliteSessionStore,    *)
(* the operator's login and logout, and establishShopSession, the only     *)
(* place where a session learns which shop it speaks for.                  *)
(*                                                                         *)
(* express-session loads a row when a request arrives and writes when the  *)
(* response ends: the whole loaded copy if the handler changed it (set),   *)
(* the expiry alone if it did not (touch).  Other requests with the same   *)
(* cookie run in between.  resave and saveUninitialized are off, so a      *)
(* session nobody wrote to never gets a row.  The age of a row counts      *)
(* ticks since its expiry was last set; it is capped at TTL, from where on *)
(* the row is expired.                                                     *)
(***************************************************************************)
EXTENDS Naturals

CONSTANTS
    Null,
    Sids,          \* session ids; the bound on sessions of a behaviour
    Shops,
    Users,         \* operators
    Requests,      \* slots for requests that await something
    TTL,           \* the cookie's maxAge, in ticks
    SweepInterval  \* SWEEP_INTERVAL_MS, in ticks

\* A session id that has not been used yet.
Unissued == "unissued"

ASSUME SessionAssumption ==
    /\ TTL \in Nat \ {0}
    /\ SweepInterval \in Nat \ {0}
    /\ Null \notin Sids \cup Shops \cup Users
    /\ Unissued \notin Shops \cup {Null}

VARIABLES
    rows,          \* the sessions table
    request,       \* what each slot loaded when it arrived
    up,            \* is the process running?
    sinceSweep,    \* ticks since the sweeper's timer was started or fired
    established,   \* history: the shop proven when a session id was issued
    ended          \* history: how a session id was given up, if it was

vars == <<rows, request, up, sinceSweep, established, ended>>

Data == [user : Users \cup {Null}, shop : Shops \cup {Null}, csrf : BOOLEAN]

Blank == [user |-> Null, shop |-> Null, csrf |-> FALSE]

Row == [data : Data, age : 0 .. TTL]

\* A request with no session has no sid and the blank data.
Loaded == [sid : Sids \cup {Null}, data : Data]

ASSUME NoRowAssumption == Null \notin Row \cup Loaded

TypeOK ==
    /\ rows \in [Sids -> Row \cup {Null}]
    /\ request \in [Requests -> Loaded \cup {Null}]
    /\ up \in BOOLEAN
    /\ sinceSweep \in 0 .. SweepInterval
    /\ established \in [Sids -> Shops \cup {Null, Unissued}]
    /\ ended \in [Sids -> {"open", "loggedOut", "regenerated"}]

Init ==
    /\ rows = [sid \in Sids |-> Null]
    /\ request = [r \in Requests |-> Null]
    /\ up = TRUE
    /\ sinceSweep = 0
    /\ established = [sid \in Sids |-> Unissued]
    /\ ended = [sid \in Sids |-> "open"]

---------------------------------------------------------------------------
\* The store's operations: what get answers, and the table after the others.

\* Seeded fault: `expires_at <= now + one tick`.
ExpiredEarly(row) == row.age + 1 >= TTL

\* `expires_at <= now`
Expired(row) == row.age >= TTL

Live(sid) == rows[sid] # Null /\ ~Expired(rows[sid])

\* An expired row is deleted on the way.
Reclaimed(sid) == IF Live(sid) THEN rows ELSE [rows EXCEPT ![sid] = Null]

Upsert(sid, data) == [rows EXCEPT ![sid] = [data |-> data, age |-> 0]]

\* Seeded fault: touch writes the data as well.
TouchAsSet(sid, data) == Upsert(sid, data)

\* The expiry alone - unless the row is gone.
Touch(sid, data) ==
    IF rows[sid] = Null THEN Upsert(sid, data) ELSE [rows EXCEPT ![sid].age = 0]

---------------------------------------------------------------------------
Free(r) == up /\ request[r] = Null

Keep(r, sid, data) == request' = [request EXCEPT ![r] = [sid |-> sid, data |-> data]]

Done(r) == request' = [request EXCEPT ![r] = Null]

\* A request whose cookie names sid arrives and its handler awaits something.
Arrive(r, sid) ==
    /\ Free(r)
    /\ established[sid] # Unissued
    /\ IF Live(sid) THEN Keep(r, sid, rows[sid].data) ELSE Keep(r, Null, Blank)
    /\ rows' = Reclaimed(sid)
    /\ UNCHANGED <<up, sinceSweep, established, ended>>

\* A request without a cookie arrives.
ArriveNew(r) ==
    /\ Free(r)
    /\ Keep(r, Null, Blank)
    /\ UNCHANGED <<rows, up, sinceSweep, established, ended>>

\* The response ends and the handler did not change the session.
EndUnchanged(r) ==
    /\ request[r] # Null
    /\ rows' = IF request[r].sid = Null THEN rows
               ELSE Touch(request[r].sid, request[r].data)
    /\ Done(r)
    /\ UNCHANGED <<up, sinceSweep, established, ended>>

\* A fresh session id, for a shop or for none.
Issue(sid, s) ==
    /\ established[sid] = Unissued
    /\ established' = [established EXCEPT ![sid] = s]

\* POST /auth/login: after the password check the loaded session, or a new
\* one, is saved with the operator in it.
LogIn(r, u) ==
    /\ request[r] # Null
    /\ u # request[r].data.user
    /\ LET data == [request[r].data EXCEPT !.user = u]
       IN  IF request[r].sid # Null
           THEN rows' = Upsert(request[r].sid, data) /\ UNCHANGED established
           ELSE \E sid \in Sids : Issue(sid, Null) /\ rows' = Upsert(sid, data)
    /\ Done(r)
    /\ UNCHANGED <<up, sinceSweep, ended>>

\* Seeded fault: the shop is written into the session as it is.
EstablishInPlace(r, s) ==
    /\ request[r] # Null
    /\ LET old  == request[r].sid
           data == [user |-> request[r].data.user, shop |-> s, csrf |-> FALSE]
       IN  IF old # Null
           THEN rows' = Upsert(old, data) /\ UNCHANGED <<established, ended>>
           ELSE \E sid \in Sids : /\ Issue(sid, s)
                                  /\ rows' = Upsert(sid, data)
                                  /\ UNCHANGED ended
    /\ Done(r)
    /\ UNCHANGED <<up, sinceSweep>>

\* establishShopSession, when the shop has proven who it is: the old session
\* is destroyed, a fresh id carries over the operator the request had loaded.
Establish(r, s) ==
    /\ request[r] # Null
    /\ LET old  == request[r].sid
           data == [user |-> request[r].data.user, shop |-> s, csrf |-> FALSE]
       IN  \E sid \in Sids :
             /\ Issue(sid, s)
             /\ rows' = [x \in Sids |-> IF x = old THEN Null ELSE Upsert(sid, data)[x]]
             /\ ended' = [x \in Sids |-> IF x = old THEN "regenerated" ELSE ended[x]]
    /\ Done(r)
    /\ UNCHANGED <<up, sinceSweep>>

\* requireShopSession; which shop an operator asks for is not session state.
MaySpeakForShop(data) == data.shop # Null \/ data.user # Null

\* Seeded fault: get answers without looking at the expiry.
IssueCsrfAnyAge(sid) ==
    /\ up /\ rows[sid] # Null
    /\ MaySpeakForShop(rows[sid].data)
    /\ rows' = Upsert(sid, [rows[sid].data EXCEPT !.csrf = TRUE])
    /\ UNCHANGED <<request, up, sinceSweep, established, ended>>

\* GET /settings/csrf, for a shop's session or an operator's; no await.
IssueCsrf(sid) ==
    /\ up /\ Live(sid)
    /\ MaySpeakForShop(rows[sid].data)
    /\ LET data == rows[sid].data
       IN  rows' = IF data.csrf THEN Touch(sid, data)
                   ELSE Upsert(sid, [data EXCEPT !.csrf = TRUE])
    /\ UNCHANGED <<request, up, sinceSweep, established, ended>>

\* session.destroy()
Destroy(sid) ==
    /\ up /\ Live(sid)
    /\ rows' = [rows EXCEPT ![sid] = Null]
    /\ ended' = [ended EXCEPT ![sid] = "loggedOut"]
    /\ UNCHANGED <<request, up, sinceSweep, established>>

\* POST /auth/logout
LogOut(sid) == Destroy(sid)

\* requireAuth, requireApiAuth: the session's operator is no longer active.
DropInactive(sid) == rows[sid] # Null /\ rows[sid].data.user # Null /\ Destroy(sid)

\* Seeded fault: the timer fires and nothing is deleted.
SweepNothing ==
    /\ up /\ sinceSweep = SweepInterval
    /\ sinceSweep' = 0
    /\ UNCHANGED <<rows, request, up, established, ended>>

\* sweepExpiredSessions, when the hourly timer fires.
Sweep ==
    /\ up /\ sinceSweep = SweepInterval
    /\ rows' = [sid \in Sids |-> IF Live(sid) THEN rows[sid] ELSE Null]
    /\ sinceSweep' = 0
    /\ UNCHANGED <<request, up, established, ended>>

\* Seeded fault: a store in memory.
CrashForgets ==
    /\ up
    /\ up' = FALSE
    /\ rows' = [sid \in Sids |-> Null]
    /\ request' = [r \in Requests |-> Null]
    /\ UNCHANGED <<sinceSweep, established, ended>>

\* The process dies, and with it every request under way.
Crash ==
    /\ up
    /\ up' = FALSE
    /\ request' = [r \in Requests |-> Null]
    /\ UNCHANGED <<rows, sinceSweep, established, ended>>

\* It is started again; the sweeper first waits a whole interval.
Boot ==
    /\ ~up
    /\ up' = TRUE
    /\ sinceSweep' = 0
    /\ UNCHANGED <<rows, request, established, ended>>

\* Time passes, but not past a timer that is due.
Tick ==
    /\ up => sinceSweep < SweepInterval
    /\ rows' = [sid \in Sids |->
                  IF Live(sid) THEN [rows[sid] EXCEPT !.age = @ + 1] ELSE rows[sid]]
    /\ sinceSweep' = IF up THEN sinceSweep + 1 ELSE sinceSweep
    /\ UNCHANGED <<request, up, established, ended>>

Ends(r) ==
    \/ EndUnchanged(r)
    \/ \E u \in Users : LogIn(r, u)
    \/ \E s \in Shops : Establish(r, s)

Next ==
    \/ \E r \in Requests : ArriveNew(r) \/ Ends(r) \/ \E sid \in Sids : Arrive(r, sid)
    \/ \E sid \in Sids : IssueCsrf(sid) \/ LogOut(sid) \/ DropInactive(sid)
    \/ Sweep \/ Crash \/ Boot \/ Tick

Spec == Init /\ [][Next]_vars

\* The clock runs, timers fire, requests end and the platform restarts the
\* process when it has died.
FairSpec ==
    /\ Spec
    /\ WF_vars(Tick) /\ WF_vars(Sweep) /\ WF_vars(Boot)
    /\ \A r \in Requests : WF_vars(Ends(r))

---------------------------------------------------------------------------
\* What the cookie's maxAge promises, stated apart from how the store tests it.
Unexpired(sid) == rows[sid] # Null /\ rows[sid].age < TTL

\* A session speaks for the shop that was proven when its id was issued, and
\* for no other - whatever stale copies logins, touches and csrf tokens save
\* into it, and in the copies requests still hold (establishShopSession).
ShopIsEstablished ==
    /\ \A sid \in Sids : rows[sid] # Null => rows[sid].data.shop = established[sid]
    /\ \A r \in Requests : request[r] # Null /\ request[r].sid # Null =>
           request[r].data.shop = established[request[r].sid]

\* A session that has not expired disappears only because it was given up: by
\* logging out or by getting a fresh id; not by a sweep, a crash or a restart
\* (sweepExpiredSessions, get; sessions survive a deploy).
LiveKept ==
    [][\A sid \in Sids : Unexpired(sid) /\ rows'[sid] = Null => ended'[sid] # "open"]_vars

\* An operator who is in a live session leaves it only by giving it up or when a
\* login, which saves all it loaded, puts its own operator there: requests
\* that end unchanged never write a stale copy over it (touch).
OperatorKept ==
    [][\A sid \in Sids : Unexpired(sid) /\ Unexpired(sid)' =>
          \/ rows'[sid].data.user = rows[sid].data.user
          \/ rows'[sid].data.user # Null]_vars

\* A session that is gone or has expired comes back only through a request that
\* loaded it before (get, against touch and set).
RevivedInFlight ==
    [][\A sid \in Sids : established[sid] # Unissued /\ ~Unexpired(sid) /\ Unexpired(sid)' =>
          \E r \in Requests : request[r] # Null /\ request[r].sid = sid]_vars

\* Every expired row is swept or used again, unless the process keeps dying
\* before its sweeper's first hour is over (startSessionStoreSweeper).
ExpiredReclaimed ==
    \/ []<>~up
    \/ \A sid \in Sids : [](rows[sid] # Null /\ ~Unexpired(sid)
                            => <>(rows[sid] = Null \/ Unexpired(sid)))
=============================================================================
