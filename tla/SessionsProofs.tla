--------------------------- MODULE SessionsProofs ---------------------------
(***************************************************************************)
(* Proofs about Sessions for every set of session ids, shops, operators    *)
(* and request slots and every time to live: a session speaks for the shop *)
(* it was issued for, leaves only when it is given up, and comes back only *)
(* through a request that had loaded it.                                   *)
(***************************************************************************)
EXTENDS Sessions, TLAPS

\* ShopIsEstablished is inductive with the types: a row and a held copy have
\* a shop that is not Unissued, so their session id is no longer fresh.  A
\* request without a session has no shop to write into a fresh one.
NoSessionNoShop ==
    \A r \in Requests :
        request[r] # Null /\ request[r].sid = Null => request[r].data.shop = Null

IInv == TypeOK /\ ShopIsEstablished /\ NoSessionNoShop

---------------------------------------------------------------------------
\* Rows, loaded copies and their fields have the types the code gives them.
LEMMA RowFields ==
    ASSUME IInv
    PROVE  /\ \A sid \in Sids : rows[sid] # Null =>
                /\ rows[sid] \in Row
                /\ rows[sid].data \in Data
                /\ established[sid] # Unissued
           /\ \A r \in Requests : request[r] # Null =>
                /\ request[r] \in Loaded
                /\ request[r].data \in Data
                /\ request[r].sid # Null => established[request[r].sid] # Unissued
<1>1. \A sid \in Sids : rows[sid] # Null => rows[sid] \in Row
  BY DEF IInv, TypeOK
<1>2. \A sid \in Sids : rows[sid] # Null =>
        rows[sid].data \in Data /\ established[sid] # Unissued
  BY <1>1, SessionAssumption DEF IInv, ShopIsEstablished, Row, Data
<1>3. \A r \in Requests : request[r] # Null => request[r] \in Loaded
  BY DEF IInv, TypeOK
<1>4. \A r \in Requests : request[r] # Null =>
        /\ request[r].data \in Data
        /\ request[r].sid # Null => established[request[r].sid] # Unissued
  BY <1>3, SessionAssumption DEF IInv, ShopIsEstablished, Loaded, Data
<1> QED
  BY <1>1, <1>2, <1>3, <1>4

\* Rows and copies are never the absent value.
LEMMA NotNull ==
    /\ \A data \in Data, age \in 0 .. TTL :
         [data |-> data, age |-> age] \in Row /\ [data |-> data, age |-> age] # Null
    /\ \A sid \in Sids \cup {Null}, data \in Data :
         /\ [sid |-> sid, data |-> data] \in Loaded
         /\ [sid |-> sid, data |-> data] # Null
  BY NoRowAssumption DEF Row, Loaded

\* The blank session is data.
LEMMA BlankIsData == Blank \in Data
  BY DEF Blank, Data

\* What set leaves in the table.
LEMMA UpsertEffect ==
    ASSUME IInv, NEW sid \in Sids, NEW data \in Data
    PROVE  /\ Upsert(sid, data) \in [Sids -> Row \cup {Null}]
           /\ Upsert(sid, data)[sid] = [data |-> data, age |-> 0]
           /\ \A x \in Sids \ {sid} : Upsert(sid, data)[x] = rows[x]
<1>1. [data |-> data, age |-> 0] \in Row
  BY NotNull, SessionAssumption
<1> QED
  BY <1>1 DEF Upsert, IInv, TypeOK

\* What touch leaves in the table.
LEMMA TouchEffect ==
    ASSUME IInv, NEW sid \in Sids, NEW data \in Data
    PROVE  /\ Touch(sid, data) \in [Sids -> Row \cup {Null}]
           /\ Touch(sid, data)[sid] =
                [data |-> IF rows[sid] = Null THEN data ELSE rows[sid].data, age |-> 0]
           /\ \A x \in Sids \ {sid} : Touch(sid, data)[x] = rows[x]
<1>1. CASE rows[sid] = Null
  BY <1>1, UpsertEffect DEF Touch
<1>2. CASE rows[sid] # Null
  <2>1. rows[sid] \in Row
    BY <1>2 DEF IInv, TypeOK
  <2>2. [rows[sid] EXCEPT !.age = 0] = [data |-> rows[sid].data, age |-> 0]
    BY <2>1 DEF Row
  <2>3. [data |-> rows[sid].data, age |-> 0] \in Row
    BY <2>1, SessionAssumption DEF Row
  <2>4. Touch(sid, data) = [rows EXCEPT ![sid].age = 0]
    BY <1>2 DEF Touch
  <2> QED
    BY <1>2, <2>2, <2>3, <2>4 DEF IInv, TypeOK
<1> QED
  BY <1>1, <1>2

\* What a lazy delete leaves in the table.
LEMMA ReclaimedEffect ==
    ASSUME IInv, NEW sid \in Sids
    PROVE  /\ Reclaimed(sid) \in [Sids -> Row \cup {Null}]
           /\ \A x \in Sids \ {sid} : Reclaimed(sid)[x] = rows[x]
           /\ Reclaimed(sid)[sid] = IF Live(sid) THEN rows[sid] ELSE Null
  BY DEF Reclaimed, IInv, TypeOK

---------------------------------------------------------------------------
\* What one step may do to the sessions: LiveKept, OperatorKept and
\* RevivedInFlight are that these hold of every step.
KeptStep ==
    \A sid \in Sids : Unexpired(sid) /\ rows'[sid] = Null => ended'[sid] # "open"

OperatorStep ==
    \A sid \in Sids : Unexpired(sid) /\ Unexpired(sid)' =>
        \/ rows'[sid].data.user = rows[sid].data.user
        \/ rows'[sid].data.user # Null

RevivedStep ==
    \A sid \in Sids : established[sid] # Unissued /\ ~Unexpired(sid) /\ Unexpired(sid)' =>
        \E r \in Requests : request[r] # Null /\ request[r].sid = sid

Preserves == IInv' /\ KeptStep /\ OperatorStep /\ RevivedStep

\* A live row is an unexpired one.
LEMMA LiveIsUnexpired ==
    ASSUME IInv, NEW sid \in Sids
    PROVE  Live(sid) <=> Unexpired(sid)
  BY SessionAssumption DEF IInv, TypeOK, Live, Expired, Unexpired, Row

\* A step that changes neither the sessions nor what is known of them.
LEMMA QuietStep ==
    ASSUME IInv, UNCHANGED <<rows, established, ended>>,
           request' \in [Requests -> Loaded \cup {Null}],
           up' \in BOOLEAN, sinceSweep' \in 0 .. SweepInterval,
           \A r \in Requests : request'[r] # Null /\ request'[r].sid # Null =>
               request'[r].data.shop = established[request'[r].sid],
           NoSessionNoShop'
    PROVE  Preserves
<1>1. IInv'
  BY DEF IInv, TypeOK, ShopIsEstablished
<1> QED
  BY <1>1 DEF Preserves, KeptStep, OperatorStep, RevivedStep, Unexpired

\* The slot of a request that ends is free; the others keep what they hold.
LEMMA DoneEffect ==
    ASSUME IInv, NEW r \in Requests, Done(r)
    PROVE  /\ request' \in [Requests -> Loaded \cup {Null}]
           /\ \A q \in Requests : request'[q] # Null => request'[q] = request[q]
  BY DEF Done, IInv, TypeOK

\* A request arrives: an expired row may go, a copy of a live one is held.
LEMMA ArrivePreserves ==
    ASSUME IInv, NEW r \in Requests, NEW sid \in Sids, Arrive(r, sid)
    PROVE  Preserves
<1>1. /\ rows' \in [Sids -> Row \cup {Null}]
      /\ \A x \in Sids : rows'[x] = rows[x] \/ (x = sid /\ rows'[x] = Null /\ ~Live(sid))
  BY ReclaimedEffect DEF Arrive
<1>2. /\ request' \in [Requests -> Loaded \cup {Null}]
      /\ \A q \in Requests : request'[q] # Null /\ request'[q].sid # Null =>
           request'[q].data.shop = established[request'[q].sid]
      /\ NoSessionNoShop'
  <2>1. CASE Live(sid)
    <3>1. rows[sid] # Null /\ rows[sid].data \in Data
      BY <2>1, RowFields DEF Live
    <3>2. request' = [request EXCEPT ![r] = [sid |-> sid, data |-> rows[sid].data]]
      BY <2>1 DEF Arrive, Keep
    <3>3. rows[sid].data.shop = established[sid]
      BY <3>1 DEF IInv, ShopIsEstablished
    <3>4. [sid |-> sid, data |-> rows[sid].data] \in Loaded
      BY <3>1 DEF Loaded
    <3>5. request' \in [Requests -> Loaded \cup {Null}]
      BY <3>2, <3>4 DEF IInv, TypeOK
    <3> QED
      BY <3>2, <3>3, <3>5, SessionAssumption DEF IInv, TypeOK, ShopIsEstablished, NoSessionNoShop
  <2>2. CASE ~Live(sid)
    <3>1. request' = [request EXCEPT ![r] = [sid |-> Null, data |-> Blank]]
      BY <2>2 DEF Arrive, Keep
    <3>2. [sid |-> Null, data |-> Blank] \in Loaded
      BY BlankIsData DEF Loaded
    <3>3. request' \in [Requests -> Loaded \cup {Null}]
      BY <3>1, <3>2 DEF IInv, TypeOK
    <3> QED
      BY <3>1, <3>3 DEF IInv, TypeOK, ShopIsEstablished, NoSessionNoShop, Blank
  <2> QED
    BY <2>1, <2>2
<1>3. UNCHANGED <<up, sinceSweep, established, ended>>
  BY DEF Arrive
<1>4. IInv'
  BY <1>1, <1>2, <1>3 DEF IInv, TypeOK, ShopIsEstablished, NoSessionNoShop
<1>5. KeptStep /\ OperatorStep /\ RevivedStep
  BY <1>1, LiveIsUnexpired DEF KeptStep, OperatorStep, RevivedStep, Unexpired
<1> QED
  BY <1>4, <1>5 DEF Preserves

\* A request without a cookie holds the blank session.
LEMMA ArriveNewPreserves ==
    ASSUME IInv, NEW r \in Requests, ArriveNew(r)
    PROVE  Preserves
<1>1. [sid |-> Null, data |-> Blank] \in Loaded
  BY BlankIsData DEF Loaded
<1>2. request' = [request EXCEPT ![r] = [sid |-> Null, data |-> Blank]]
  BY DEF ArriveNew, Keep
<1>3. request' \in [Requests -> Loaded \cup {Null}]
  BY <1>1, <1>2 DEF IInv, TypeOK
<1>4. \A q \in Requests : request'[q] # Null /\ request'[q].sid # Null =>
        request'[q].data.shop = established[request'[q].sid]
  BY <1>2, <1>3 DEF IInv, TypeOK, ShopIsEstablished
<1>5. NoSessionNoShop'
  BY <1>2, <1>3 DEF IInv, TypeOK, NoSessionNoShop, Blank
<1>6. UNCHANGED <<rows, up, sinceSweep, established, ended>>
  BY DEF ArriveNew
<1> QED
  BY <1>3, <1>4, <1>5, <1>6, QuietStep DEF IInv, TypeOK

\* A step that sets the row of one known session and may free a slot.
LEMMA WritePreserves ==
    ASSUME IInv, NEW sid \in Sids, NEW data \in Data,
           rows' \in [Sids -> Row \cup {Null}],
           \A x \in Sids \ {sid} : rows'[x] = rows[x],
           rows'[sid] = [data |-> data, age |-> 0],
           data.shop = established[sid],
           rows[sid] # Null => data.user = rows[sid].data.user \/ data.user # Null,
           request' \in [Requests -> Loaded \cup {Null}],
           \A q \in Requests : request'[q] # Null => request'[q] = request[q],
           Unexpired(sid) \/ \E r \in Requests : request[r] # Null /\ request[r].sid = sid,
           UNCHANGED <<up, sinceSweep, established, ended>>
    PROVE  Preserves
<1>1. rows'[sid] # Null
  BY NotNull, SessionAssumption
<1>2. IInv'
  BY <1>1 DEF IInv, TypeOK, ShopIsEstablished, NoSessionNoShop
<1>3. KeptStep
  BY <1>1 DEF KeptStep, Unexpired
<1>4. OperatorStep
  BY <1>1 DEF OperatorStep, Unexpired
<1>5. RevivedStep
  BY <1>1 DEF RevivedStep, Unexpired
<1> QED
  BY <1>2, <1>3, <1>4, <1>5 DEF Preserves

\* A request ends without having changed its session: touch.
LEMMA EndUnchangedPreserves ==
    ASSUME IInv, NEW r \in Requests, EndUnchanged(r)
    PROVE  Preserves
<1> DEFINE sid == request[r].sid
           data == request[r].data
           left == IF rows[sid] = Null THEN data ELSE rows[sid].data
<1>1. /\ request[r] # Null /\ Done(r) /\ UNCHANGED <<up, sinceSweep, established, ended>>
      /\ rows' = IF sid = Null THEN rows ELSE Touch(sid, data)
  BY DEF EndUnchanged
<1>2. /\ request' \in [Requests -> Loaded \cup {Null}]
      /\ \A q \in Requests : request'[q] # Null => request'[q] = request[q]
  BY <1>1, DoneEffect
<1>3. CASE sid = Null
  BY <1>1, <1>2, <1>3, QuietStep DEF IInv, TypeOK, ShopIsEstablished, NoSessionNoShop
<1>4. CASE sid # Null
  <2>1. sid \in Sids /\ data \in Data
    BY <1>1, <1>4, RowFields DEF Loaded
  <2>2. /\ rows' \in [Sids -> Row \cup {Null}]
        /\ rows'[sid] = [data |-> left, age |-> 0]
        /\ \A x \in Sids \ {sid} : rows'[x] = rows[x]
    BY <1>1, <1>4, <2>1, TouchEffect
  <2>3. left \in Data /\ left.shop = established[sid]
    BY <1>1, <1>4, <2>1, RowFields DEF IInv, ShopIsEstablished
  <2> HIDE DEF left, sid, data
  <2>4. rows[sid] # Null => left.user = rows[sid].data.user
    BY DEF left
  <2>5. request[r].sid = sid
    BY DEF sid
  <2> QED
    BY <1>1, <1>2, <2>1, <2>2, <2>3, <2>4, <2>5, WritePreserves
<1> QED
  BY <1>3, <1>4

\* A step that issues a fresh id for a shop or none, gives up at most the
\* session the request came with, and ends the request.
LEMMA IssuePreserves ==
    ASSUME IInv, NEW sid \in Sids, NEW data \in Data, NEW s \in Shops \cup {Null},
           NEW old \in Sids \cup {Null},
           Issue(sid, s), data.shop = s,
           old # Null => established[old] # Unissued,
           rows' \in [Sids -> Row \cup {Null}],
           rows'[sid] = [data |-> data, age |-> 0],
           \A x \in Sids \ {sid} : rows'[x] = IF x = old THEN Null ELSE rows[x],
           ended' \in [Sids -> {"open", "loggedOut", "regenerated"}],
           \A x \in Sids : x = old => ended'[x] # "open",
           request' \in [Requests -> Loaded \cup {Null}],
           \A q \in Requests : request'[q] # Null => request'[q] = request[q],
           UNCHANGED <<up, sinceSweep>>
    PROVE  Preserves
<1>1. /\ established[sid] = Unissued
      /\ established' = [established EXCEPT ![sid] = s]
      /\ established' \in [Sids -> Shops \cup {Null, Unissued}]
      /\ established'[sid] = s
      /\ \A x \in Sids \ {sid} : established'[x] = established[x]
  BY DEF Issue, IInv, TypeOK
<1>2. rows'[sid] # Null /\ rows[sid] = Null /\ sid # old
  BY <1>1, NotNull, RowFields, SessionAssumption
<1>3. \A q \in Requests : request'[q] # Null /\ request'[q].sid # Null =>
        request'[q].data.shop = established'[request'[q].sid]
  <2> TAKE q \in Requests
  <2> HAVE request'[q] # Null /\ request'[q].sid # Null
  <2>1. request'[q] = request[q] /\ request[q] # Null
    OBVIOUS
  <2>2. request[q].sid \in Sids \ {sid}
    BY <1>1, <2>1, RowFields DEF Loaded
  <2> QED
    BY <1>1, <2>1, <2>2 DEF IInv, ShopIsEstablished
<1>4. IInv'
  BY <1>1, <1>2, <1>3 DEF IInv, TypeOK, ShopIsEstablished, NoSessionNoShop
<1>5. KeptStep /\ OperatorStep /\ RevivedStep
  BY <1>1, <1>2 DEF KeptStep, OperatorStep, RevivedStep, Unexpired
<1> QED
  BY <1>4, <1>5 DEF Preserves

\* A login writes the session the request came with, or a fresh one.
LEMMA LogInPreserves ==
    ASSUME IInv, NEW r \in Requests, NEW u \in Users, LogIn(r, u)
    PROVE  Preserves
<1> DEFINE data == [request[r].data EXCEPT !.user = u]
<1>1. /\ request[r] # Null /\ Done(r) /\ UNCHANGED <<up, sinceSweep, ended>>
      /\ request[r] \in Loaded /\ request[r].data \in Data
  BY RowFields DEF LogIn
<1>2. /\ request' \in [Requests -> Loaded \cup {Null}]
      /\ \A q \in Requests : request'[q] # Null => request'[q] = request[q]
  BY <1>1, DoneEffect
<1>3. data \in Data /\ data.shop = request[r].data.shop /\ data.user = u /\ u # Null
  BY <1>1, SessionAssumption DEF Data
<1>4. CASE request[r].sid # Null
  <2>1. rows' = Upsert(request[r].sid, data) /\ UNCHANGED established
    BY <1>4 DEF LogIn
  <2>2. request[r].sid \in Sids /\ data.shop = established[request[r].sid]
    BY <1>1, <1>3, <1>4 DEF Loaded, IInv, ShopIsEstablished
  <2> HIDE DEF data
  <2> QED
    BY <1>1, <1>2, <1>3, <2>1, <2>2, UpsertEffect, WritePreserves
<1>5. CASE request[r].sid = Null
  <2>1. PICK sid \in Sids : Issue(sid, Null) /\ rows' = Upsert(sid, data)
    BY <1>5 DEF LogIn
  <2>2. data.shop = Null
    BY <1>1, <1>3, <1>5 DEF IInv, NoSessionNoShop
  <2> HIDE DEF data
  <2>3. /\ rows' \in [Sids -> Row \cup {Null}]
        /\ rows'[sid] = [data |-> data, age |-> 0]
        /\ \A x \in Sids \ {sid} : rows'[x] = rows[x]
    BY <1>3, <2>1, UpsertEffect
  <2>4. \A x \in Sids : x # Null
    BY SessionAssumption
  <2>5. \A x \in Sids \ {sid} : rows'[x] = IF x = Null THEN Null ELSE rows[x]
    BY <2>3, <2>4
  <2>6. /\ ended' \in [Sids -> {"open", "loggedOut", "regenerated"}]
        /\ \A x \in Sids : x = Null => ended'[x] # "open"
        /\ Null \in Shops \cup {Null} /\ Null \in Sids \cup {Null}
        /\ UNCHANGED <<up, sinceSweep>>
    BY <1>1, <2>4 DEF IInv, TypeOK
  <2> QED
    BY <1>2, <1>3, <2>1, <2>2, <2>3, <2>5, <2>6, IssuePreserves
<1> QED
  BY <1>4, <1>5

\* A shop is established: a fresh id, and the old session is destroyed.
LEMMA EstablishPreserves ==
    ASSUME IInv, NEW r \in Requests, NEW s \in Shops, Establish(r, s)
    PROVE  Preserves
<1> DEFINE old == request[r].sid
           data == [user |-> request[r].data.user, shop |-> s, csrf |-> FALSE]
<1>1. /\ request[r] # Null /\ Done(r) /\ UNCHANGED <<up, sinceSweep>>
      /\ request[r] \in Loaded /\ request[r].data \in Data
  BY RowFields DEF Establish
<1>2. /\ request' \in [Requests -> Loaded \cup {Null}]
      /\ \A q \in Requests : request'[q] # Null => request'[q] = request[q]
  BY <1>1, DoneEffect
<1>3. /\ data \in Data /\ data.shop = s
      /\ old \in Sids \cup {Null}
      /\ old # Null => established[old] # Unissued
  BY <1>1, RowFields DEF Data, Loaded
<1>4. PICK sid \in Sids :
        /\ Issue(sid, s)
        /\ rows' = [x \in Sids |-> IF x = old THEN Null ELSE Upsert(sid, data)[x]]
        /\ ended' = [x \in Sids |-> IF x = old THEN "regenerated" ELSE ended[x]]
  BY DEF Establish
<1> HIDE DEF old, data
<1>5. sid # old
  BY <1>3, <1>4, SessionAssumption DEF Issue
<1>6. /\ rows' \in [Sids -> Row \cup {Null}]
      /\ rows'[sid] = [data |-> data, age |-> 0]
      /\ \A x \in Sids \ {sid} : rows'[x] = IF x = old THEN Null ELSE rows[x]
  BY <1>3, <1>4, <1>5, UpsertEffect
<1>7. /\ ended' \in [Sids -> {"open", "loggedOut", "regenerated"}]
      /\ \A x \in Sids : x = old => ended'[x] # "open"
  BY <1>4 DEF IInv, TypeOK
<1> QED
  BY <1>1, <1>2, <1>3, <1>4, <1>6, <1>7, IssuePreserves

\* The csrf token is stored in a live session, or its expiry is moved.
LEMMA IssueCsrfPreserves ==
    ASSUME IInv, NEW sid \in Sids, IssueCsrf(sid)
    PROVE  Preserves
<1> DEFINE data == rows[sid].data
           new == IF data.csrf THEN data ELSE [data EXCEPT !.csrf = TRUE]
<1>1. /\ Live(sid) /\ rows[sid] # Null /\ Unexpired(sid) /\ data \in Data
      /\ UNCHANGED <<request, up, sinceSweep, established, ended>>
  BY LiveIsUnexpired, RowFields DEF IssueCsrf, Unexpired
<1>2. new \in Data /\ new.shop = established[sid] /\ new.user = rows[sid].data.user
  BY <1>1 DEF IInv, ShopIsEstablished, Data
<1>3. rows' = IF data.csrf THEN Touch(sid, data) ELSE Upsert(sid, [data EXCEPT !.csrf = TRUE])
  BY DEF IssueCsrf
<1>4. /\ rows' \in [Sids -> Row \cup {Null}]
      /\ rows'[sid] = [data |-> new, age |-> 0]
      /\ \A x \in Sids \ {sid} : rows'[x] = rows[x]
  <2>1. CASE data.csrf
    BY <1>1, <1>3, <2>1, TouchEffect
  <2>2. CASE ~data.csrf
    <3>1. rows' = Upsert(sid, new)
      BY <1>3, <2>2
    <3> HIDE DEF new
    <3> QED
      BY <1>2, <3>1, UpsertEffect
  <2> QED
    BY <2>1, <2>2
<1> HIDE DEF new, data
<1>5. request' \in [Requests -> Loaded \cup {Null}] /\ request' = request
  BY <1>1 DEF IInv, TypeOK
<1> QED
  BY <1>1, <1>2, <1>4, <1>5, WritePreserves

\* A session is given up.
LEMMA DestroyPreserves ==
    ASSUME IInv, NEW sid \in Sids, Destroy(sid)
    PROVE  Preserves
<1>1. /\ rows' \in [Sids -> Row \cup {Null}]
      /\ rows'[sid] = Null /\ \A x \in Sids \ {sid} : rows'[x] = rows[x]
      /\ ended' \in [Sids -> {"open", "loggedOut", "regenerated"}]
      /\ ended'[sid] # "open"
      /\ UNCHANGED <<request, up, sinceSweep, established>>
  BY DEF Destroy, IInv, TypeOK
<1>2. IInv'
  BY <1>1 DEF IInv, TypeOK, ShopIsEstablished, NoSessionNoShop
<1>3. KeptStep /\ OperatorStep /\ RevivedStep
  BY <1>1 DEF KeptStep, OperatorStep, RevivedStep, Unexpired
<1> QED
  BY <1>2, <1>3 DEF Preserves

\* The sweeper deletes expired rows only.
LEMMA SweepPreserves ==
    ASSUME IInv, Sweep
    PROVE  Preserves
<1>1. /\ rows' \in [Sids -> Row \cup {Null}]
      /\ \A x \in Sids : rows'[x] = rows[x] \/ (rows'[x] = Null /\ ~Unexpired(x))
      /\ sinceSweep' \in 0 .. SweepInterval
      /\ UNCHANGED <<request, up, established, ended>>
  BY LiveIsUnexpired, SessionAssumption DEF Sweep, IInv, TypeOK
<1>2. IInv'
  BY <1>1 DEF IInv, TypeOK, ShopIsEstablished, NoSessionNoShop
<1>3. KeptStep /\ OperatorStep /\ RevivedStep
  BY <1>1 DEF KeptStep, OperatorStep, RevivedStep, Unexpired
<1> QED
  BY <1>2, <1>3 DEF Preserves

\* A crash loses the requests, a boot restarts the timer: no session changes.
LEMMA CrashBootPreserve ==
    ASSUME IInv, Crash \/ Boot
    PROVE  Preserves
<1>1. /\ UNCHANGED <<rows, established, ended>>
      /\ up' \in BOOLEAN /\ sinceSweep' \in 0 .. SweepInterval
      /\ request' \in [Requests -> Loaded \cup {Null}]
      /\ \A r \in Requests : request'[r] # Null => request'[r] = request[r]
  <2>1. CASE Crash
    BY <2>1 DEF Crash, IInv, TypeOK
  <2>2. CASE Boot
    BY <2>2, SessionAssumption DEF Boot, IInv, TypeOK
  <2> QED
    BY <2>1, <2>2
<1>2. /\ NoSessionNoShop'
      /\ \A r \in Requests : request'[r] # Null /\ request'[r].sid # Null =>
           request'[r].data.shop = established[request'[r].sid]
  BY <1>1 DEF IInv, ShopIsEstablished, NoSessionNoShop
<1> QED
  BY <1>1, <1>2, QuietStep

\* Time makes sessions older, never different.
LEMMA TickPreserves ==
    ASSUME IInv, Tick
    PROVE  Preserves
<1>1. /\ UNCHANGED <<request, up, established, ended>>
      /\ sinceSweep' \in 0 .. SweepInterval
  BY SessionAssumption DEF Tick, IInv, TypeOK
<1>2. \A x \in Sids : /\ rows'[x] \in Row \cup {Null}
                      /\ rows'[x] = Null <=> rows[x] = Null
                      /\ rows[x] # Null => /\ rows'[x].data = rows[x].data
                                           /\ rows'[x].age >= rows[x].age
  <2> TAKE x \in Sids
  <2>1. rows'[x] = IF Live(x) THEN [rows[x] EXCEPT !.age = @ + 1] ELSE rows[x]
    BY DEF Tick
  <2>2. CASE Live(x)
    <3>1. rows[x] \in Row /\ rows[x].age < TTL /\ rows[x] # Null
      BY <2>2, RowFields, LiveIsUnexpired DEF Unexpired
    <3>2. rows'[x] = [data |-> rows[x].data, age |-> rows[x].age + 1]
      BY <2>1, <2>2, <3>1 DEF Row
    <3>3. rows[x].data \in Data /\ rows[x].age + 1 \in 0 .. TTL /\ rows[x].age \in Nat
      BY <3>1, SessionAssumption DEF Row
    <3>4. rows'[x] \in Row /\ rows'[x] # Null
      BY <3>2, <3>3, NotNull
    <3> QED
      BY <3>1, <3>2, <3>3, <3>4
  <2>3. CASE ~Live(x)
    BY <2>1, <2>3, SessionAssumption DEF IInv, TypeOK, Row
  <2> QED
    BY <2>2, <2>3
<1>3. rows' \in [Sids -> Row \cup {Null}]
  BY <1>2 DEF Tick
<1>4. IInv'
  BY <1>1, <1>2, <1>3 DEF IInv, TypeOK, ShopIsEstablished, NoSessionNoShop
<1>5. KeptStep /\ OperatorStep
  BY <1>2 DEF KeptStep, OperatorStep, Unexpired
<1>6. RevivedStep
  <2>1. \A x \in Sids : rows[x] # Null => rows[x].age \in Nat
    BY RowFields, SessionAssumption DEF Row
  <2>2. \A x \in Sids : rows'[x] # Null => rows'[x].age \in Nat
    BY <1>2, SessionAssumption DEF Row
  <2> QED
    BY <1>2, <2>1, <2>2, SessionAssumption DEF RevivedStep, Unexpired
<1> QED
  BY <1>4, <1>5, <1>6 DEF Preserves

---------------------------------------------------------------------------
\* Every step of the specification preserves the invariant and does to the
\* sessions only what it may.
LEMMA StepPreserves ==
    ASSUME IInv, [Next]_vars
    PROVE  Preserves
<1>1. CASE UNCHANGED vars
  <2>1. UNCHANGED <<rows, request, up, sinceSweep, established, ended>>
    BY <1>1 DEF vars
  <2> QED
    BY <2>1, QuietStep DEF IInv, TypeOK, ShopIsEstablished, NoSessionNoShop
<1>2. ASSUME NEW r \in Requests, ArriveNew(r) PROVE Preserves
  BY <1>2, ArriveNewPreserves
<1>3. ASSUME NEW r \in Requests, NEW sid \in Sids, Arrive(r, sid) PROVE Preserves
  BY <1>3, ArrivePreserves
<1>4. ASSUME NEW r \in Requests, Ends(r) PROVE Preserves
  BY <1>4, EndUnchangedPreserves, LogInPreserves, EstablishPreserves DEF Ends
<1>5. ASSUME NEW sid \in Sids, IssueCsrf(sid) PROVE Preserves
  BY <1>5, IssueCsrfPreserves
<1>6. ASSUME NEW sid \in Sids, LogOut(sid) \/ DropInactive(sid) PROVE Preserves
  BY <1>6, DestroyPreserves DEF LogOut, DropInactive
<1>7. CASE Sweep \/ Crash \/ Boot \/ Tick
  BY <1>7, SweepPreserves, CrashBootPreserve, TickPreserves
<1> QED
  BY <1>1, <1>2, <1>3, <1>4, <1>5, <1>6, <1>7 DEF Next

\* Initially no session is issued and no request is waiting.
LEMMA InitEstablishes == Init => IInv
  BY SessionAssumption DEF Init, IInv, TypeOK, ShopIsEstablished, NoSessionNoShop

\* In every reachable state of the session store the inductive invariant holds.
THEOREM Invariance == Spec => []IInv
<1>1. IInv /\ [Next]_vars => IInv'
  BY StepPreserves DEF Preserves
<1> QED
  BY <1>1, InitEstablishes, PTL DEF Spec

\* The variables keep their types.
THEOREM TypeCorrect == Spec => []TypeOK
<1>1. IInv => TypeOK
  BY DEF IInv
<1> QED
  BY <1>1, Invariance, PTL

\* A session speaks for the shop proven when establishShopSession issued its
\* id, whatever copies concurrent requests save into it.
THEOREM SpeaksForItsShop == Spec => []ShopIsEstablished
<1>1. IInv => ShopIsEstablished
  BY DEF IInv
<1> QED
  BY <1>1, Invariance, PTL

\* A session that has not expired disappears only by being given up.
THEOREM LiveSessionsKept == Spec => LiveKept
<1>1. IInv /\ [Next]_vars => [KeptStep]_vars
  BY StepPreserves DEF Preserves
<1> QED
  BY <1>1, Invariance, PTL DEF Spec, LiveKept, KeptStep

\* No stale copy takes the operator out of a live session.
THEOREM OperatorsKept == Spec => OperatorKept
<1>1. IInv /\ [Next]_vars => [OperatorStep]_vars
  BY StepPreserves DEF Preserves
<1> QED
  BY <1>1, Invariance, PTL DEF Spec, OperatorKept, OperatorStep

\* A session that is gone or expired comes back only through a request that
\* had loaded it.
THEOREM RevivedOnlyInFlight == Spec => RevivedInFlight
<1>1. IInv /\ [Next]_vars => [RevivedStep]_vars
  BY StepPreserves DEF Preserves
<1> QED
  BY <1>1, Invariance, PTL DEF Spec, RevivedInFlight, RevivedStep
=============================================================================
