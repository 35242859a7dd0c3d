---------------------------- MODULE GroupsCache ----------------------------
(***************************************************************************)
(* The cache in front of iDoxxy's customer groups: the reads that fill it, *)
(* the bulk assignment that invalidates it, and everybody else who changes *)
(* groups without telling it (webhooks, the admin panel, iDoxxy itself).   *)
(*                                                                         *)
(* A handler runs without interruption between two awaits.  Ticks pass     *)
(* only while no handler has waited longer than its timeouts let it.       *)
(* A read that hits the cache changes nothing and is not an action; what   *)
(* it returns is Served.                                                   *)
(***************************************************************************)
EXTENDS Naturals

CONSTANTS
    Null,
    Shops,
    Customers,   \* ids, which different shops' workspaces may share
    Groups,
    Requests,    \* slots for handlers that are waiting for iDoxxy
    TTL,         \* DEFAULT_TTL_MS, in ticks
    Wait         \* the longest a handler waits: timeouts and retries

ASSUME CacheAssumption ==
    /\ TTL \in Nat \ {0}
    /\ Wait \in Nat
    /\ \A v \in SUBSET Groups : v # Null

VARIABLES
    cache,       \* cacheStore: an entry, or Null, for each key
    request,     \* what each request slot is waiting for
    truth,       \* a customer's groups at iDoxxy, Null if it has no such customer
    since,       \* history: ticks since a customer's groups were last those, or,
                 \* for an empty list, since a search last missed the customer
    seen         \* history: what reads could be told of a customer since an
                 \* assignment of it last succeeded

vars == <<cache, request, truth, since, seen>>

Keys == Shops \X Customers

MaxAge == Wait + TTL

Entry == [value : SUBSET Groups, age : 0 .. TTL]

Read == [kind : {"read"}, shop : Shops, customers : SUBSET Customers,
         answer : (SUBSET Groups) \cup {Null}, phase : {"asked", "answered"},
         wait : 0 .. Wait]

Assign == [kind : {"assign"}, shop : Shops, customers : SUBSET Customers,
           answer : {Null}, phase : {"asked", "answered"}, wait : 0 .. Wait]

ASSUME NoSentinelAssumption == Null \notin Entry \cup Read \cup Assign

\* The cache holds lists of groups, never an absent one.
TypeOK ==
    /\ \A k \in Keys : cache[k] # Null => cache[k].value # Null
    /\ cache \in [Keys -> Entry \cup {Null}]
    /\ request \in [Requests -> Read \cup Assign \cup {Null}]
    /\ truth \in [Keys -> (SUBSET Groups) \cup {Null}]
    /\ since \in [Keys -> [SUBSET Groups -> 0 .. MaxAge]]
    /\ seen \in [Keys -> SUBSET (SUBSET Groups)]

\* Seeded fault: the key leaves out the shop.
BuildCacheKeyByCustomer(s, c) == <<CHOOSE t \in Shops : TRUE, c>>

\* Ids hold no separator that could make two pairs one key.
BuildCacheKey(s, c) == <<s, c>>

\* `customer?.customerGroups ?? []`
GroupList(customer) == IF customer = Null THEN {} ELSE customer

\* History: the list a customer of iDoxxy stands for.
Current(k) == IF truth[k] = Null THEN {} ELSE truth[k]

Init ==
    /\ cache = [k \in Keys |-> Null]
    /\ request = [r \in Requests |-> Null]
    /\ truth \in [Keys -> (SUBSET Groups) \cup {Null}]
    /\ since = [k \in Keys |-> [v \in SUBSET Groups |->
                  IF v = Current(k) THEN 0 ELSE MaxAge]]
    /\ seen = [k \in Keys |-> {Current(k)}]

---------------------------------------------------------------------------
\* Seeded fault: `entry.expiresAt < Date.now()`.
ExpiredStrictly(entry) == entry.age > TTL

\* `entry.expiresAt <= Date.now()`
Expired(entry) == entry.age >= TTL

\* What a read of the cache returns: a list, or Null for a miss.
Served(s, c) ==
    LET entry == cache[BuildCacheKey(s, c)]
    IN  IF entry = Null \/ Expired(entry) THEN Null ELSE entry.value

Await(r, kind, s, customers) ==
    request' = [request EXCEPT ![r] =
                  [kind |-> kind, shop |-> s, customers |-> customers,
                   answer |-> Null, phase |-> "asked", wait |-> 0]]

Pending(r, kind, phase) ==
    request[r] # Null /\ request[r].kind = kind /\ request[r].phase = phase

\* GET /customers/:customerId/groups misses; an expired entry is deleted.
ReadStart(r, s, c) ==
    /\ request[r] = Null
    /\ Served(s, c) = Null
    /\ cache' = [cache EXCEPT ![BuildCacheKey(s, c)] = Null]
    /\ Await(r, "read", s, {c})
    /\ UNCHANGED <<truth, since, seen>>

Answer(r, customer) ==
    request' = [request EXCEPT ![r].phase = "answered", ![r].answer = customer]

\* The search, or a page after it, names the customer with its groups, or all
\* customers were on the pages and it was not; the answer travels back.
ReadAnswered(r) ==
    /\ Pending(r, "read", "asked")
    /\ \E c \in request[r].customers : Answer(r, truth[<<request[r].shop, c>>])
    /\ UNCHANGED <<cache, truth, since, seen>>

\* It exists, but beyond the ten pages, or on another page each time one is read.
ReadMissed(r) ==
    /\ Pending(r, "read", "asked")
    /\ \E c \in request[r].customers :
         LET k == <<request[r].shop, c>> IN
         /\ truth[k] # Null
         /\ since' = [since EXCEPT ![k] = [@ EXCEPT ![{}] = 0]]
         /\ seen' = [seen EXCEPT ![k] = @ \cup {{}}]
    /\ Answer(r, Null)
    /\ UNCHANGED <<cache, truth>>

\* The handler fills the cache with it, whatever happened meanwhile.
ReadDone(r) ==
    /\ Pending(r, "read", "answered")
    /\ \E c \in request[r].customers :
         cache' = [cache EXCEPT ![BuildCacheKey(request[r].shop, c)] =
                     [value |-> GroupList(request[r].answer), age |-> 0]]
    /\ request' = [request EXCEPT ![r] = Null]
    /\ UNCHANGED <<truth, since, seen>>

\* POST /customers/groups/:groupId/customers/bulk reaches iDoxxy.
AssignStart(r, s, customers) ==
    /\ request[r] = Null
    /\ customers # {}
    /\ Await(r, "assign", s, customers)
    /\ UNCHANGED <<cache, truth, since, seen>>

\* iDoxxy's customers change, by whoever's hand.
Changes(new) ==
    /\ truth' = new
    /\ since' = [k \in Keys |-> [since[k] EXCEPT ![Current(k)'] = 0]]
    /\ seen' = [k \in Keys |-> seen[k] \cup {Current(k)'}]

\* The group update is applied at iDoxxy; the response is still under way.
AssignApplied(r) ==
    /\ Pending(r, "assign", "asked")
    /\ \E g \in Groups :
         Changes([k \in Keys |->
                    IF k[1] = request[r].shop /\ k[2] \in request[r].customers
                       /\ truth[k] # Null
                    THEN truth[k] \cup {g} ELSE truth[k]])
    /\ request' = [request EXCEPT ![r].phase = "answered"]
    /\ UNCHANGED cache

\* A read of k was answered, and its handler has still to fill the cache.
Told(q, k) ==
    /\ Pending(q, "read", "answered")
    /\ k[1] = request[q].shop /\ k[2] \in request[q].customers

\* What reads of k were told, or can be from now on.
Afresh(k) ==
    {Current(k)} \cup {GroupList(request[q].answer) : q \in {p \in Requests : Told(p, k)}}

\* Those the assignment of request r is about.
Assigned(r) == {BuildCacheKey(request[r].shop, c) : c \in request[r].customers}

\* The response has arrived: histories of its customers begin anew.
AssignAnswered(r) ==
    /\ Pending(r, "assign", "answered")
    /\ request' = [request EXCEPT ![r] = Null]
    /\ seen' = [k \in Keys |-> IF k \in Assigned(r) THEN Afresh(k) ELSE seen[k]]
    /\ UNCHANGED <<truth, since>>

\* Seeded fault: entries are left to expire.
AssignDoneOnly(r) == AssignAnswered(r) /\ UNCHANGED cache

\* And their entries are deleted.
AssignDone(r) ==
    /\ AssignAnswered(r)
    /\ cache' = [k \in Keys |-> IF k \in Assigned(r) THEN Null ELSE cache[k]]

\* Refused, unreachable or timed out, perhaps after iDoxxy applied the
\* update: the handler answers with the error and leaves the cache alone.
Fails(r) ==
    /\ request[r] # Null
    /\ request[r].kind = "read" => request[r].phase = "asked"
    /\ request' = [request EXCEPT ![r] = Null]
    /\ UNCHANGED <<cache, truth, since, seen>>

\* A webhook, the admin panel or a person in iDoxxy changes a customer.
OthersChange(k) ==
    /\ \E new \in (SUBSET Groups) \cup {Null} : Changes([truth EXCEPT ![k] = new])
    /\ UNCHANGED <<cache, request>>

\* The process dies and is started again with an empty cache.
Restart ==
    /\ cache' = [k \in Keys |-> Null]
    /\ request' = [r \in Requests |-> Null]
    /\ UNCHANGED <<truth, since, seen>>

Older(age, cap) == IF age < cap THEN age + 1 ELSE cap

\* Time passes, until a waiting handler has to give up.
Tick ==
    /\ \A r \in Requests : request[r] # Null => request[r].wait < Wait
    /\ cache' = [k \in Keys |->
                   IF cache[k] = Null THEN Null
                   ELSE [cache[k] EXCEPT !.age = Older(@, TTL)]]
    /\ request' = [r \in Requests |->
                     IF request[r] = Null THEN Null
                     ELSE [request[r] EXCEPT !.wait = @ + 1]]
    /\ since' = [k \in Keys |-> [v \in SUBSET Groups |->
                   IF v = Current(k) THEN 0 ELSE Older(since[k][v], MaxAge)]]
    /\ UNCHANGED <<truth, seen>>

Completes(r) ==
    \/ ReadAnswered(r) \/ ReadMissed(r) \/ ReadDone(r)
    \/ AssignApplied(r) \/ AssignDone(r) \/ Fails(r)

Next ==
    \/ \E r \in Requests :
         \/ \E s \in Shops : \/ \E c \in Customers : ReadStart(r, s, c)
                             \/ \E cs \in SUBSET Customers : AssignStart(r, s, cs)
         \/ Completes(r)
    \/ \E k \in Keys : OthersChange(k)
    \/ Restart \/ Tick

Spec == Init /\ [][Next]_vars

---------------------------------------------------------------------------
\* A list served to a shop was that of the shop's own customer, less than the
\* time to live and one waiting time ago - or it is empty because a search
\* missed the customer that recently.  So also when a read that overlaps an
\* assignment fills the cache after the invalidation, when an update is applied
\* and its response lost, and when somebody else changes the groups
\* (getCustomerGroups, customerGroupsCache).
StaleAtMost ==
    \A s \in Shops, c \in Customers :
        Served(s, c) # Null => since[<<s, c>>][Served(s, c)] < TTL + Wait

\* Once an assignment has succeeded, nothing is served of its customers that
\* was only known before it, but for what a read had already been told
\* (assignCustomersToGroup, deleteMany).
InvalidationHolds ==
    \A s \in Shops, c \in Customers :
        Served(s, c) # Null => Served(s, c) \in seen[<<s, c>>]
=============================================================================
