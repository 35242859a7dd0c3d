------------------------- MODULE GroupsCacheProofs -------------------------
(***************************************************************************)
(* GroupsCache for any number of shops, customers, groups and handlers,    *)
(* any time to live and any waiting time: the types, how old a list the    *)
(* cache serves can be, and that an assignment's invalidation holds.       *)
(***************************************************************************)
EXTENDS GroupsCache, TLAPS

\* The groups a customer has now were its groups zero ticks ago.
NowIsNow == \A k \in Keys : since[k][Current(k)] = 0

\* An entry was what iDoxxy said when its read was answered, at most one wait before it
\* was written.
EntriesTrue ==
    \A k \in Keys : cache[k] # Null => since[k][cache[k].value] <= cache[k].age + Wait

\* A read is about one customer, and what it was told was true since it began.
ReadTrue(ages, q) ==
    q.kind = "read" =>
        /\ \E c \in Customers : q.customers = {c}
        /\ q.phase = "answered" => \A c \in q.customers :
             ages[<<q.shop, c>>][GroupList(q.answer)] <= q.wait

ReadsTrue == \A r \in Requests : request[r] # Null => ReadTrue(since, request[r])

\* All that is known of a customer, in the cache or on its way there, is what
\* reads could be told since the last assignment.
AllSeen ==
    /\ \A k \in Keys : Current(k) \in seen[k]
    /\ \A k \in Keys : cache[k] # Null => cache[k].value \in seen[k]
    /\ \A k \in Keys, r \in Requests : Told(r, k) => GroupList(request[r].answer) \in seen[k]

IInv == TypeOK /\ NowIsNow /\ EntriesTrue /\ ReadsTrue

\* Sets whose structure is beside the point in most steps.
Lists == SUBSET Groups
Waits == 0 .. Wait
Ages == 0 .. TTL

---------------------------------------------------------------------------
LEMMA Numbers == TTL \in Nat /\ TTL > 0 /\ Wait \in Nat /\ MaxAge = Wait + TTL
  BY CacheAssumption DEF MaxAge

LEMMA EmptyList == {} \in Lists
  BY DEF Lists

LEMMA CurrentType == ASSUME TypeOK, NEW k \in Keys PROVE Current(k) \in SUBSET Groups
<1>1. truth \in [Keys -> Lists \cup {Null}]
  BY DEF TypeOK, Lists
<1>2. Current(k) \in Lists
  BY <1>1, EmptyList DEF Current
<1> QED BY <1>2 DEF Lists

LEMMA OlderType ==
    ASSUME NEW cap \in Nat, NEW age \in 0 .. cap
    PROVE  /\ Older(age, cap) \in 0 .. cap
           /\ Older(age, cap) <= age + 1
           /\ age < cap => Older(age, cap) = age + 1
           /\ age = cap => Older(age, cap) = cap
  BY DEF Older

\* What a request holds.
LEMMA RequestType ==
    ASSUME TypeOK, NEW r \in Requests, request[r] # Null
    PROVE  /\ request[r] \in Read \cup Assign
           /\ request[r].kind \in {"read", "assign"}
           /\ request[r].shop \in Shops /\ request[r].customers \in SUBSET Customers
           /\ request[r].phase \in {"asked", "answered"}
           /\ request[r].wait \in Nat /\ request[r].wait <= Wait
           /\ request[r].answer \in (SUBSET Groups) \cup {Null}
           /\ request[r].kind = "read" => request[r] \in Read
           /\ request[r].kind = "assign" => request[r] \in Assign
<1>1. request[r] \in Read \cup Assign
  BY DEF TypeOK
<1>2. CASE request[r] \in Read
  <2>1. request[r] \in [kind : {"read"}, shop : Shops, customers : SUBSET Customers,
                        answer : Lists \cup {Null}, phase : {"asked", "answered"},
                        wait : Waits]
    BY <1>2 DEF Read, Lists, Waits
  <2>2. /\ request[r].kind = "read" /\ request[r].shop \in Shops
        /\ request[r].customers \in SUBSET Customers
        /\ request[r].phase \in {"asked", "answered"}
        /\ request[r].wait \in Waits /\ request[r].answer \in Lists \cup {Null}
    BY <2>1
  <2> QED BY <1>2, <2>2, Numbers DEF Lists, Waits
<1>3. CASE request[r] \in Assign
  <2>1. request[r] \in [kind : {"assign"}, shop : Shops, customers : SUBSET Customers,
                        answer : {Null}, phase : {"asked", "answered"}, wait : Waits]
    BY <1>3 DEF Assign, Waits
  <2>2. /\ request[r].kind = "assign" /\ request[r].shop \in Shops
        /\ request[r].customers \in SUBSET Customers
        /\ request[r].phase \in {"asked", "answered"}
        /\ request[r].wait \in Waits /\ request[r].answer = Null
    BY <2>1
  <2> QED BY <1>3, <2>2, Numbers DEF Waits
<1> QED BY <1>1, <1>2, <1>3

LEMMA GroupListType ==
    ASSUME NEW answer \in (SUBSET Groups) \cup {Null}
    PROVE  GroupList(answer) \in SUBSET Groups
<1>1. answer \in Lists \cup {Null}
  BY DEF Lists
<1>2. GroupList(answer) \in Lists
  BY <1>1, EmptyList DEF GroupList
<1> QED BY <1>2 DEF Lists

LEMMA InitInv == ASSUME Init PROVE IInv
<1>1. truth \in [Keys -> (SUBSET Groups) \cup {Null}]
  BY DEF Init
<1>2. \A k \in Keys : Current(k) \in SUBSET Groups
  <2>1. truth \in [Keys -> Lists \cup {Null}]
    BY <1>1 DEF Lists
  <2>2. \A k \in Keys : Current(k) \in Lists
    BY <2>1, EmptyList DEF Current
  <2> QED BY <2>2 DEF Lists
<1>3. since \in [Keys -> [SUBSET Groups -> 0 .. MaxAge]]
  BY Numbers DEF Init
<1>4. NowIsNow
  BY <1>2 DEF Init, NowIsNow
<1>5. seen \in [Keys -> SUBSET (SUBSET Groups)]
  BY <1>2 DEF Init
<1> QED BY <1>1, <1>3, <1>4, <1>5 DEF Init, IInv, TypeOK, EntriesTrue, ReadsTrue

---------------------------------------------------------------------------
\* A step that neither changes the customers nor lets time pass keeps the
\* invariant if it writes true entries and true reads.
LEMMA TimelessKeeps ==
    ASSUME IInv, truth' = truth, since' = since,
           seen' \in [Keys -> SUBSET (SUBSET Groups)],
           cache' \in [Keys -> Entry \cup {Null}],
           \A k \in Keys : cache'[k] # Null =>
               cache'[k] = cache[k] \/ since[k][cache'[k].value] <= cache'[k].age + Wait,
           request' \in [Requests -> Read \cup Assign \cup {Null}],
           \A r \in Requests : request'[r] # Null =>
               request'[r] = request[r] \/ ReadTrue(since, request'[r])
    PROVE  IInv'
<1>1. \A k \in Keys : cache'[k] # Null => cache'[k].value # Null
  BY CacheAssumption DEF Entry
<1>2. TypeOK'
  BY <1>1 DEF IInv, TypeOK
<1>3. NowIsNow'
  BY DEF IInv, NowIsNow, Current
<1>4. EntriesTrue'
  BY DEF IInv, EntriesTrue
<1>5. ReadsTrue'
  BY DEF IInv, ReadsTrue, ReadTrue
<1> QED BY <1>2, <1>3, <1>4, <1>5 DEF IInv

\* A slot begins to wait.
LEMMA AwaitType ==
    ASSUME IInv, NEW r \in Requests, NEW kind \in {"read", "assign"}, NEW s \in Shops,
           NEW cs \in SUBSET Customers, Await(r, kind, s, cs),
           kind = "read" => \E c \in Customers : cs = {c}
    PROVE  /\ request' \in [Requests -> Read \cup Assign \cup {Null}]
           /\ \A q \in Requests : request'[q] # Null =>
                request'[q] = request[q] \/ ReadTrue(since, request'[q])
<1> DEFINE new == [kind |-> kind, shop |-> s, customers |-> cs, answer |-> Null,
                   phase |-> "asked", wait |-> 0]
<1>1. new \in Read \cup Assign
  <2>1. 0 \in Waits
    BY Numbers DEF Waits
  <2>2. CASE kind = "read"
    <3>1. new \in [kind : {"read"}, shop : Shops, customers : SUBSET Customers,
                   answer : Lists \cup {Null}, phase : {"asked", "answered"}, wait : Waits]
      BY <2>1, <2>2
    <3> QED BY <3>1 DEF Read, Lists, Waits
  <2>3. CASE kind = "assign"
    <3>1. new \in [kind : {"assign"}, shop : Shops, customers : SUBSET Customers,
                   answer : {Null}, phase : {"asked", "answered"}, wait : Waits]
      BY <2>1, <2>3
    <3> QED BY <3>1 DEF Assign, Waits
  <2> QED BY <2>2, <2>3
<1>2. new.kind = kind /\ new.phase = "asked" /\ new.customers = cs
  OBVIOUS
<1>3. request' = [request EXCEPT ![r] = new]
  BY DEF Await
<1> HIDE DEF new
<1>4. ReadTrue(since, new)
  BY <1>2 DEF ReadTrue
<1> QED BY <1>1, <1>3, <1>4 DEF IInv, TypeOK

LEMMA ReadStartKeeps ==
    ASSUME IInv, NEW r \in Requests, NEW s \in Shops, NEW c \in Customers, ReadStart(r, s, c)
    PROVE  IInv'
<1>1. /\ cache' = [cache EXCEPT ![<<s, c>>] = Null]
      /\ Await(r, "read", s, {c}) /\ truth' = truth /\ since' = since
      /\ seen' \in [Keys -> SUBSET (SUBSET Groups)]
  BY DEF ReadStart, BuildCacheKey, IInv, TypeOK
<1>2. /\ cache' \in [Keys -> Entry \cup {Null}]
      /\ \A k \in Keys : cache'[k] # Null => cache'[k] = cache[k]
  BY <1>1 DEF IInv, TypeOK
<1>3. /\ request' \in [Requests -> Read \cup Assign \cup {Null}]
      /\ \A q \in Requests : request'[q] # Null =>
           request'[q] = request[q] \/ ReadTrue(since, request'[q])
  BY <1>1, AwaitType
<1> QED BY <1>1, <1>2, <1>3, TimelessKeeps

LEMMA AssignStartKeeps ==
    ASSUME IInv, NEW r \in Requests, NEW s \in Shops, NEW cs \in SUBSET Customers,
           AssignStart(r, s, cs)
    PROVE  IInv'
<1>1. /\ cache' = cache /\ Await(r, "assign", s, cs) /\ truth' = truth /\ since' = since
      /\ seen' \in [Keys -> SUBSET (SUBSET Groups)]
  BY DEF AssignStart, IInv, TypeOK
<1>2. /\ request' \in [Requests -> Read \cup Assign \cup {Null}]
      /\ \A q \in Requests : request'[q] # Null =>
           request'[q] = request[q] \/ ReadTrue(since, request'[q])
  BY <1>1, AwaitType
<1> QED BY <1>1, <1>2, TimelessKeeps DEF IInv, TypeOK

LEMMA ReadAnsweredKeeps == ASSUME IInv, NEW r \in Requests, ReadAnswered(r) PROVE IInv'
<1> DEFINE q == request[r]
<1>1. /\ q # Null /\ q.kind = "read" /\ cache' = cache /\ truth' = truth /\ since' = since
      /\ seen' \in [Keys -> SUBSET (SUBSET Groups)]
  BY DEF ReadAnswered, Pending, IInv, TypeOK
<1> PICK c \in q.customers :
           request' = [request EXCEPT ![r].phase = "answered", ![r].answer = truth[<<q.shop, c>>]]
  BY DEF ReadAnswered, Answer
<1>2. /\ q \in Read /\ q.shop \in Shops /\ q.customers \in SUBSET Customers
      /\ q.wait \in Nat /\ <<q.shop, c>> \in Keys
  BY <1>1, RequestType DEF IInv, Keys
<1> DEFINE answer == truth[<<q.shop, c>>]
           new == [q EXCEPT !.phase = "answered", !.answer = answer]
<1>3. answer \in (SUBSET Groups) \cup {Null}
  BY <1>2 DEF IInv, TypeOK
<1>4. request' = [request EXCEPT ![r] = new]
  BY DEF IInv, TypeOK
<1>5. GroupList(answer) = Current(<<q.shop, c>>)
  BY DEF GroupList, Current
<1> HIDE DEF answer
<1>6. new \in Read
  BY <1>2, <1>3 DEF Read
<1>7. /\ new.kind = "read" /\ new.shop = q.shop /\ new.customers = q.customers
      /\ new.answer = answer /\ new.wait = q.wait
  BY <1>1, <1>2 DEF Read
<1> HIDE DEF new
<1>8. ReadTrue(since, new)
  <2>1. \E d \in Customers : q.customers = {d}
    BY <1>1 DEF IInv, ReadsTrue, ReadTrue
  <2>2. since[<<q.shop, c>>][GroupList(answer)] = 0
    BY <1>2, <1>5 DEF IInv, NowIsNow
  <2>3. \A d \in q.customers : d = c
    BY <2>1
  <2> QED BY <1>2, <1>7, <2>1, <2>2, <2>3 DEF ReadTrue
<1>9. /\ request' \in [Requests -> Read \cup Assign \cup {Null}]
      /\ \A p \in Requests : request'[p] # Null =>
           request'[p] = request[p] \/ ReadTrue(since, request'[p])
  BY <1>4, <1>6, <1>8 DEF IInv, TypeOK
<1> QED BY <1>1, <1>9, TimelessKeeps DEF IInv, TypeOK

\* A slot that stops waiting, or only moves on to the answer of an assignment.
LEMMA FreedType ==
    ASSUME IInv, NEW r \in Requests, request' = [request EXCEPT ![r] = Null]
    PROVE  /\ request' \in [Requests -> Read \cup Assign \cup {Null}]
           /\ \A q \in Requests : request'[q] # Null => request'[q] = request[q]
  BY DEF IInv, TypeOK

LEMMA ReadDoneKeeps == ASSUME IInv, NEW r \in Requests, ReadDone(r) PROVE IInv'
<1> DEFINE q == request[r]
<1>1. /\ q # Null /\ q.kind = "read" /\ q.phase = "answered"
      /\ request' = [request EXCEPT ![r] = Null] /\ truth' = truth /\ since' = since
      /\ seen' \in [Keys -> SUBSET (SUBSET Groups)]
  BY DEF ReadDone, Pending, IInv, TypeOK
<1> DEFINE list == GroupList(q.answer)
           entry == [value |-> list, age |-> 0]
<1> PICK c \in q.customers : cache' = [cache EXCEPT ![<<q.shop, c>>] = entry]
  BY DEF ReadDone, BuildCacheKey
<1>2. /\ q.shop \in Shops /\ q.customers \in SUBSET Customers /\ <<q.shop, c>> \in Keys
      /\ q.answer \in (SUBSET Groups) \cup {Null} /\ q.wait \in Nat /\ q.wait <= Wait
  BY <1>1, RequestType DEF IInv, Keys
<1>3. list \in SUBSET Groups
  BY <1>2, GroupListType
<1>4. since[<<q.shop, c>>][list] <= q.wait
  BY <1>1 DEF IInv, ReadsTrue, ReadTrue
<1>5. since[<<q.shop, c>>][list] \in Nat
  BY <1>2, <1>3, Numbers DEF IInv, TypeOK
<1> HIDE DEF list
<1>6. entry \in Entry /\ entry.value = list /\ entry.age = 0
  BY <1>3, Numbers DEF Entry
<1> HIDE DEF entry
<1>7. since[<<q.shop, c>>][entry.value] <= entry.age + Wait
  BY <1>2, <1>4, <1>5, <1>6, Numbers
<1>8. /\ cache' \in [Keys -> Entry \cup {Null}]
      /\ \A k \in Keys : cache'[k] = cache[k] \/ (k = <<q.shop, c>> /\ cache'[k] = entry)
  BY <1>2, <1>6 DEF IInv, TypeOK
<1>9. \A k \in Keys : cache'[k] # Null =>
        cache'[k] = cache[k] \/ since[k][cache'[k].value] <= cache'[k].age + Wait
  BY <1>7, <1>8
<1> QED BY <1>1, <1>8, <1>9, FreedType, TimelessKeeps

\* What reads were told, and what they can be, are lists.
LEMMA AfreshType == ASSUME IInv, NEW k \in Keys PROVE Afresh(k) \in SUBSET (SUBSET Groups)
<1>1. Current(k) \in SUBSET Groups
  BY CurrentType DEF IInv
<1>2. ASSUME NEW q \in Requests, Told(q, k) PROVE GroupList(request[q].answer) \in SUBSET Groups
  BY <1>2, RequestType, GroupListType DEF IInv, Told, Pending
<1> QED BY <1>1, <1>2 DEF Afresh

LEMMA AssignDoneKeeps == ASSUME IInv, NEW r \in Requests, AssignDone(r) PROVE IInv'
<1>1. /\ request' = [request EXCEPT ![r] = Null] /\ truth' = truth /\ since' = since
      /\ seen' = [k \in Keys |-> IF k \in Assigned(r) THEN Afresh(k) ELSE seen[k]]
  BY DEF AssignDone, AssignAnswered
<1>2. /\ cache' \in [Keys -> Entry \cup {Null}]
      /\ \A k \in Keys : cache'[k] # Null => cache'[k] = cache[k]
  BY DEF AssignDone, IInv, TypeOK
<1>3. seen' \in [Keys -> SUBSET (SUBSET Groups)]
  BY <1>1, AfreshType DEF IInv, TypeOK
<1> QED BY <1>1, <1>2, <1>3, FreedType, TimelessKeeps

LEMMA FailsKeeps == ASSUME IInv, NEW r \in Requests, Fails(r) PROVE IInv'
<1>1. /\ request' = [request EXCEPT ![r] = Null]
      /\ cache' = cache /\ truth' = truth /\ since' = since
      /\ seen' \in [Keys -> SUBSET (SUBSET Groups)]
  BY DEF Fails, IInv, TypeOK
<1> QED BY <1>1, FreedType, TimelessKeeps DEF IInv, TypeOK

LEMMA RestartKeeps == ASSUME IInv, Restart PROVE IInv'
  BY TimelessKeeps DEF Restart, IInv, TypeOK

---------------------------------------------------------------------------
\* A step in which lists become true, or are found missing, keeps the invariant:
\* what was said stays as recent as it was.
LEMMA LowerKeeps ==
    ASSUME IInv, cache' = cache, truth' \in [Keys -> (SUBSET Groups) \cup {Null}],
           since' \in [Keys -> [SUBSET Groups -> 0 .. MaxAge]],
           seen' \in [Keys -> SUBSET (SUBSET Groups)],
           \A k \in Keys, v \in SUBSET Groups : since'[k][v] <= since[k][v],
           \A k \in Keys : since'[k][Current(k)'] = 0,
           request' \in [Requests -> Read \cup Assign \cup {Null}],
           \A r \in Requests : request'[r] # Null =>
               request'[r] = request[r] \/ ReadTrue(since', request'[r])
    PROVE  IInv'
<1>1. TypeOK'
  BY DEF IInv, TypeOK
<1>2. NowIsNow'
  BY DEF NowIsNow
<1>3. \A k \in Keys, v \in SUBSET Groups : since'[k][v] \in Nat /\ since[k][v] \in Nat
  BY Numbers DEF IInv, TypeOK
<1>4. EntriesTrue'
  <2> SUFFICES ASSUME NEW k \in Keys, cache[k] # Null
               PROVE  since'[k][cache[k].value] <= cache[k].age + Wait
    BY DEF EntriesTrue
  <2>1. cache[k].value \in SUBSET Groups /\ cache[k].age \in Nat
    BY Numbers DEF IInv, TypeOK, Entry
  <2>2. since[k][cache[k].value] <= cache[k].age + Wait
    BY DEF IInv, EntriesTrue
  <2> QED BY <1>3, <2>1, <2>2, Numbers
<1>5. ReadsTrue'
  <2> SUFFICES ASSUME NEW r \in Requests, request[r] # Null, request[r].kind = "read"
               PROVE  /\ \E c \in Customers : request[r].customers = {c}
                      /\ request[r].phase = "answered" => \A c \in request[r].customers :
                           since'[<<request[r].shop, c>>][GroupList(request[r].answer)]
                             <= request[r].wait
    BY DEF ReadsTrue, ReadTrue
  <2>1. ReadTrue(since, request[r])
    BY DEF IInv, ReadsTrue
  <2>2. \E c \in Customers : request[r].customers = {c}
    BY <2>1 DEF ReadTrue
  <2>3. ASSUME request[r].phase = "answered", NEW c \in request[r].customers
        PROVE  since'[<<request[r].shop, c>>][GroupList(request[r].answer)] <= request[r].wait
    <3> DEFINE k == <<request[r].shop, c>>
               v == GroupList(request[r].answer)
    <3>1. since[k][v] <= request[r].wait
      BY <2>1, <2>3 DEF ReadTrue
    <3>2. k \in Keys /\ v \in SUBSET Groups /\ request[r].wait \in Nat
      BY RequestType, GroupListType DEF IInv, Keys
    <3> HIDE DEF k, v
    <3>3. since'[k][v] <= request[r].wait
      BY <1>3, <3>1, <3>2
    <3> QED BY <3>3 DEF k, v
  <2> QED BY <2>2, <2>3
<1> QED BY <1>1, <1>2, <1>4, <1>5 DEF IInv

\* The customers change.
LEMMA ChangesKeep ==
    ASSUME IInv, NEW new \in [Keys -> (SUBSET Groups) \cup {Null}], Changes(new),
           cache' = cache,
           request' \in [Requests -> Read \cup Assign \cup {Null}],
           \A r \in Requests : request'[r] # Null =>
               request'[r] = request[r] \/ request'[r].kind = "assign"
    PROVE  IInv'
<1> DEFINE Spans == 0 .. MaxAge
<1>1. truth' = new /\ \A k \in Keys : Current(k)' \in Lists
  <2>1. truth' = new /\ truth' \in [Keys -> Lists \cup {Null}]
    BY DEF Changes, Lists
  <2> QED BY <2>1, EmptyList DEF Current
<1>2. \A k \in Keys : since[k] \in [Lists -> Spans]
  BY DEF IInv, TypeOK, Lists
<1>3. 0 \in Spans /\ \A n \in Spans : n \in Nat
  BY Numbers
<1> HIDE DEF Spans
<1>4. since' = [k \in Keys |-> [since[k] EXCEPT ![Current(k)'] = 0]]
  BY DEF Changes
<1>5. \A k \in Keys :
        /\ since'[k] \in [Lists -> Spans]
        /\ since'[k][Current(k)'] = 0
        /\ \A v \in Lists : since'[k][v] = 0 \/ since'[k][v] = since[k][v]
  BY <1>1, <1>2, <1>3, <1>4
<1>6. since' \in [Keys -> [SUBSET Groups -> 0 .. MaxAge]]
  <2>1. since' \in [Keys -> [Lists -> Spans]]
    BY <1>4, <1>5
  <2> QED BY <2>1 DEF Lists, Spans
<1>7. seen' \in [Keys -> SUBSET (SUBSET Groups)]
  <2>1. seen' = [k \in Keys |-> seen[k] \cup {Current(k)'}]
    BY DEF Changes
  <2>2. seen \in [Keys -> SUBSET Lists]
    BY DEF IInv, TypeOK, Lists
  <2>3. seen' \in [Keys -> SUBSET Lists]
    BY <1>1, <2>1, <2>2
  <2> QED BY <2>3 DEF Lists
<1>8. \A k \in Keys, v \in SUBSET Groups : since'[k][v] <= since[k][v]
  <2> SUFFICES ASSUME NEW k \in Keys, NEW v \in Lists PROVE since'[k][v] <= since[k][v]
    BY DEF Lists
  <2>1. since'[k][v] \in Spans /\ since[k][v] \in Spans
    BY <1>2, <1>5
  <2>2. since'[k][v] = 0 \/ since'[k][v] = since[k][v]
    BY <1>5
  <2> QED BY <1>3, <2>1, <2>2
<1>9. \A r \in Requests : request'[r] # Null =>
        request'[r] = request[r] \/ ReadTrue(since', request'[r])
  BY DEF ReadTrue
<1> QED BY <1>1, <1>5, <1>6, <1>7, <1>8, <1>9, LowerKeeps

\* A search misses a customer: for a reader its list is empty now.
LEMMA ReadMissedKeeps == ASSUME IInv, NEW r \in Requests, ReadMissed(r) PROVE IInv'
<1> DEFINE q == request[r]
<1>1. /\ q # Null /\ q.kind = "read" /\ q.phase = "asked"
      /\ cache' = cache /\ truth' = truth
      /\ request' = [request EXCEPT ![r].phase = "answered", ![r].answer = Null]
  BY DEF ReadMissed, Pending, Answer
<1> PICK c \in q.customers :
           /\ since' = [since EXCEPT ![<<q.shop, c>>] = [@ EXCEPT ![{}] = 0]]
           /\ seen' = [seen EXCEPT ![<<q.shop, c>>] = @ \cup {{}}]
  BY DEF ReadMissed
<1>2. /\ q \in Read /\ q.shop \in Shops /\ q.customers \in SUBSET Customers
      /\ q.wait \in Nat /\ <<q.shop, c>> \in Keys
  BY <1>1, RequestType DEF IInv, Keys
<1> DEFINE k == <<q.shop, c>>
           new == [q EXCEPT !.phase = "answered", !.answer = Null]
           Spans == 0 .. MaxAge
<1>3. request' = [request EXCEPT ![r] = new]
  BY <1>1 DEF IInv, TypeOK
<1>4. new \in Read
  BY <1>2 DEF Read
<1>5. /\ new.kind = "read" /\ new.shop = q.shop /\ new.customers = q.customers
      /\ new.answer = Null /\ new.wait = q.wait
  BY <1>1, <1>2 DEF Read
<1> HIDE DEF new
<1>6. 0 \in Spans /\ (\A n \in Spans : n \in Nat) /\ {} \in Lists
  BY Numbers, EmptyList
<1>7. /\ since \in [Keys -> [Lists -> Spans]] /\ seen \in [Keys -> SUBSET Lists]
      /\ \A j \in Keys : since[j][Current(j)] = 0
  BY DEF IInv, TypeOK, Lists, NowIsNow
<1>8. /\ since' = [since EXCEPT ![k] = [@ EXCEPT ![{}] = 0]]
      /\ seen' = [seen EXCEPT ![k] = @ \cup {{}}]
      /\ k \in Keys
  BY <1>2
<1> HIDE DEF Spans
<1>9. /\ since' \in [Keys -> [Lists -> Spans]] /\ seen' \in [Keys -> SUBSET Lists]
      /\ since'[k][{}] = 0
      /\ \A j \in Keys, v \in Lists : since'[j][v] = 0 \/ since'[j][v] = since[j][v]
  <2>1. since[k] \in [Lists -> Spans]
    BY <1>7, <1>8
  <2>2. [since[k] EXCEPT ![{}] = 0] \in [Lists -> Spans]
    BY <1>6, <2>1
  <2>3. since' \in [Keys -> [Lists -> Spans]]
    BY <1>7, <1>8, <2>2
  <2>4. seen' \in [Keys -> SUBSET Lists]
    <3>1. seen[k] \cup {{}} \in SUBSET Lists
      BY <1>6, <1>7, <1>8
    <3> HIDE DEF k
    <3>2. seen' = [seen EXCEPT ![k] = seen[k] \cup {{}}]
      BY <1>8
    <3> QED BY <1>7, <1>8, <3>1, <3>2
  <2>5. since'[k] = [since[k] EXCEPT ![{}] = 0] /\ \A j \in Keys \ {k} : since'[j] = since[j]
    BY <1>7, <1>8
  <2>6. /\ since'[k][{}] = 0
        /\ \A v \in Lists : since'[k][v] = 0 \/ since'[k][v] = since[k][v]
    BY <1>6, <2>1, <2>5
  <2> QED BY <2>3, <2>4, <2>5, <2>6
<1>10. \A j \in Keys : Current(j)' = Current(j) /\ Current(j) \in Lists
  BY <1>1, CurrentType DEF Current, IInv, Lists
<1>11. \A j \in Keys : since'[j][Current(j)'] = 0
  <2> SUFFICES ASSUME NEW j \in Keys PROVE since'[j][Current(j)'] = 0
    OBVIOUS
  <2>1. since[j][Current(j)'] = 0 /\ Current(j)' \in Lists
    BY <1>7, <1>10
  <2> QED BY <1>9, <2>1
<1>12. \A j \in Keys, v \in Lists : since'[j][v] <= since[j][v]
  <2> SUFFICES ASSUME NEW j \in Keys, NEW v \in Lists PROVE since'[j][v] <= since[j][v]
    OBVIOUS
  <2>1. since'[j][v] \in Spans /\ since[j][v] \in Spans
    BY <1>7, <1>9
  <2>2. since'[j][v] = 0 \/ since'[j][v] = since[j][v]
    BY <1>9
  <2> QED BY <1>6, <2>1, <2>2
<1>13. ReadTrue(since', new)
  <2>1. \E d \in Customers : q.customers = {d}
    BY <1>1 DEF IInv, ReadsTrue, ReadTrue
  <2>2. \A d \in q.customers : d = c
    BY <2>1
  <2>3. GroupList(new.answer) = {}
    BY <1>5 DEF GroupList
  <2> QED BY <1>2, <1>5, <1>9, <2>1, <2>2, <2>3 DEF ReadTrue
<1>14. /\ request' \in [Requests -> Read \cup Assign \cup {Null}]
       /\ \A p \in Requests : request'[p] # Null =>
            request'[p] = request[p] \/ ReadTrue(since', request'[p])
  BY <1>3, <1>4, <1>13 DEF IInv, TypeOK
<1>15. /\ since' \in [Keys -> [SUBSET Groups -> 0 .. MaxAge]]
       /\ seen' \in [Keys -> SUBSET (SUBSET Groups)]
       /\ \A j \in Keys, v \in SUBSET Groups : since'[j][v] <= since[j][v]
  BY <1>9, <1>12 DEF Lists, Spans
<1>16. truth' \in [Keys -> (SUBSET Groups) \cup {Null}]
  BY <1>1 DEF IInv, TypeOK
<1> QED BY <1>1, <1>11, <1>14, <1>15, <1>16, LowerKeeps

LEMMA AssignAppliedKeeps == ASSUME IInv, NEW r \in Requests, AssignApplied(r) PROVE IInv'
<1> DEFINE q == request[r]
<1> PICK g \in Groups : Changes([k \in Keys |->
             IF k[1] = q.shop /\ k[2] \in q.customers /\ truth[k] # Null
             THEN truth[k] \cup {g} ELSE truth[k]])
  BY DEF AssignApplied
<1> DEFINE new == [k \in Keys |->
             IF k[1] = q.shop /\ k[2] \in q.customers /\ truth[k] # Null
             THEN truth[k] \cup {g} ELSE truth[k]]
           after == [q EXCEPT !.phase = "answered"]
<1>1. /\ q # Null /\ q.kind = "assign" /\ cache' = cache
      /\ request' = [request EXCEPT ![r] = after]
  BY DEF AssignApplied, Pending
<1>2. new \in [Keys -> (SUBSET Groups) \cup {Null}]
  BY DEF IInv, TypeOK
<1>3. q \in Assign
  BY <1>1, RequestType DEF IInv
<1>4. after \in Assign /\ after.kind = "assign"
  BY <1>3 DEF Assign
<1>5. Changes(new)
  OBVIOUS
<1> HIDE DEF after, new
<1>6. /\ request' \in [Requests -> Read \cup Assign \cup {Null}]
      /\ \A p \in Requests : request'[p] # Null =>
           request'[p] = request[p] \/ request'[p].kind = "assign"
  BY <1>1, <1>4 DEF IInv, TypeOK
<1> QED BY <1>1, <1>2, <1>5, <1>6, ChangesKeep

LEMMA OthersKeep == ASSUME IInv, NEW k \in Keys, OthersChange(k) PROVE IInv'
<1> PICK new \in (SUBSET Groups) \cup {Null} : Changes([truth EXCEPT ![k] = new])
  BY DEF OthersChange
<1> DEFINE all == [truth EXCEPT ![k] = new]
<1>1. all \in [Keys -> (SUBSET Groups) \cup {Null}]
  BY DEF IInv, TypeOK
<1>2. Changes(all)
  OBVIOUS
<1> HIDE DEF all
<1> QED BY <1>1, <1>2, ChangesKeep DEF OthersChange, IInv, TypeOK

---------------------------------------------------------------------------
\* A tick makes entries and reads as much older as what they say.
LEMMA TickKeeps == ASSUME IInv, Tick PROVE IInv'
<1>1. /\ truth' = truth /\ seen' = seen
      /\ \A r \in Requests : request[r] # Null => request[r].wait < Wait
  BY DEF Tick
<1>2. \A k \in Keys : Current(k)' = Current(k) /\ Current(k) \in SUBSET Groups
  BY <1>1, CurrentType DEF Current, IInv
<1>3. \A k \in Keys, v \in SUBSET Groups : since[k][v] \in 0 .. MaxAge
  BY DEF IInv, TypeOK
<1>4. \A k \in Keys, v \in SUBSET Groups :
        since'[k][v] = IF v = Current(k) THEN 0 ELSE Older(since[k][v], MaxAge)
  BY DEF Tick
<1>5. \A k \in Keys, v \in SUBSET Groups :
        /\ since'[k][v] \in 0 .. MaxAge
        /\ since'[k][v] <= since[k][v] + 1
  <2> TAKE k \in Keys, v \in SUBSET Groups
  <2> DEFINE before == since[k][v]
  <2>1. before \in 0 .. MaxAge /\ MaxAge \in Nat
    BY <1>3, Numbers
  <2>2. since'[k][v] = IF v = Current(k) THEN 0 ELSE Older(before, MaxAge)
    BY <1>4
  <2> HIDE DEF before
  <2>3. Older(before, MaxAge) \in 0 .. MaxAge /\ Older(before, MaxAge) <= before + 1
    BY <2>1, OlderType
  <2>4. since'[k][v] \in 0 .. MaxAge /\ since'[k][v] <= before + 1
    BY <2>1, <2>2, <2>3
  <2> QED BY <2>4 DEF before
<1>6. since' \in [Keys -> [SUBSET Groups -> 0 .. MaxAge]]
  <2>1. since' = [k \in Keys |-> [v \in SUBSET Groups |->
                    IF v = Current(k) THEN 0 ELSE Older(since[k][v], MaxAge)]]
    BY DEF Tick
  <2>2. \A k \in Keys, v \in SUBSET Groups :
          (IF v = Current(k) THEN 0 ELSE Older(since[k][v], MaxAge)) \in 0 .. MaxAge
    BY <1>4, <1>5
  <2> QED BY <2>1, <2>2
<1>7. NowIsNow'
  BY <1>2, <1>4 DEF NowIsNow
<1>8. ASSUME NEW k \in Keys, cache[k] # Null
      PROVE  /\ cache'[k] \in Entry
             /\ since'[k][cache'[k].value] <= cache'[k].age + Wait
  <2> DEFINE v == cache[k].value
             age == cache[k].age
             older == Older(age, TTL)
  <2>1. cache[k] \in Entry /\ v \in SUBSET Groups /\ age \in Ages
    BY <1>8 DEF IInv, TypeOK, Entry, Ages
  <2>2. cache'[k] = [cache[k] EXCEPT !.age = older]
    BY <1>8 DEF Tick
  <2>3. /\ older \in Ages
        /\ age < TTL => older = age + 1
        /\ age = TTL => older = TTL
    BY <2>1, OlderType, Numbers DEF Ages
  <2> HIDE DEF older
  <2>4. cache'[k] \in Entry /\ cache'[k].value = v /\ cache'[k].age = older
    <3> HIDE DEF Ages
    <3>1. cache[k] \in [value : SUBSET Groups, age : Ages]
      BY <2>1 DEF Entry, Ages
    <3>2. /\ cache'[k] \in [value : SUBSET Groups, age : Ages]
          /\ cache'[k].value = v /\ cache'[k].age = older
      BY <2>2, <2>3, <3>1
    <3> QED BY <3>2 DEF Entry, Ages
  <2>5. since[k][v] <= age + Wait
    BY <1>8 DEF IInv, EntriesTrue
  <2>6. since'[k][v] \in 0 .. MaxAge /\ since[k][v] \in 0 .. MaxAge /\ since'[k][v] <= since[k][v] + 1
    BY <1>3, <1>5, <2>1
  <2> HIDE DEF v, age
  <2>7. since'[k][v] <= older + Wait
    BY <2>1, <2>3, <2>5, <2>6, Numbers DEF Ages
  <2> QED BY <2>4, <2>7
<1>9. \A k \in Keys : cache[k] = Null => cache'[k] = Null
  BY DEF Tick
<1>10. cache' \in [Keys -> Entry \cup {Null}] /\ EntriesTrue'
  <2>1. cache' = [k \in Keys |-> cache'[k]]
    BY DEF Tick
  <2>2. \A k \in Keys : cache'[k] \in Entry \cup {Null}
    BY <1>8, <1>9
  <2>3. EntriesTrue'
    BY <1>8, <1>9 DEF EntriesTrue
  <2>4. cache' \in [Keys -> Entry \cup {Null}]
    BY <2>1, <2>2, Zenon
  <2> QED BY <2>3, <2>4
<1>11. ASSUME NEW r \in Requests, request[r] # Null
       PROVE  request'[r] \in Read \cup Assign /\ ReadTrue(since', request'[r])
  <2> DEFINE q == request[r]
             wait == q.wait + 1
             new == [q EXCEPT !.wait = wait]
  <2>1. request'[r] = new
    BY <1>11 DEF Tick
  <2>2. q \in Read \cup Assign /\ q.wait \in Nat /\ q.wait < Wait
    BY <1>1, <1>11, RequestType DEF IInv
  <2>3. wait \in Waits /\ wait > q.wait
    BY <2>2, Numbers DEF Waits
  <2> HIDE DEF wait
  <2>4. /\ new \in Read \cup Assign
        /\ new.kind = q.kind /\ new.shop = q.shop /\ new.customers = q.customers
        /\ new.answer = q.answer /\ new.phase = q.phase /\ new.wait = wait
    <3> DEFINE R == [kind : {"read"}, shop : Shops, customers : SUBSET Customers,
                     answer : (SUBSET Groups) \cup {Null}, phase : {"asked", "answered"},
                     wait : Waits]
               A == [kind : {"assign"}, shop : Shops, customers : SUBSET Customers,
                     answer : {Null}, phase : {"asked", "answered"}, wait : Waits]
    <3>1. R = Read /\ A = Assign
      BY DEF Read, Assign, Waits
    <3>2. CASE q \in R
      BY <2>3, <3>1, <3>2
    <3>3. CASE q \in A
      BY <2>3, <3>1, <3>3
    <3> QED BY <2>2, <3>1, <3>2, <3>3
  <2> HIDE DEF new
  <2>5. ReadTrue(since, q)
    BY <1>11 DEF IInv, ReadsTrue
  <2>6. ASSUME q.kind = "read", q.phase = "answered", NEW c \in q.customers
        PROVE  since'[<<q.shop, c>>][GroupList(q.answer)] <= wait
    <3> DEFINE k == <<q.shop, c>>
               v == GroupList(q.answer)
    <3>1. since[k][v] <= q.wait
      BY <2>5, <2>6 DEF ReadTrue
    <3>2. k \in Keys /\ v \in SUBSET Groups
      BY <1>11, RequestType, GroupListType DEF IInv, Keys
    <3> HIDE DEF k, v
    <3>3. /\ since'[k][v] \in 0 .. MaxAge /\ since[k][v] \in 0 .. MaxAge
          /\ since'[k][v] <= since[k][v] + 1
      BY <1>3, <1>5, <3>2
    <3>4. wait = q.wait + 1 /\ q.wait \in Nat
      BY <2>2 DEF wait
    <3>5. since'[k][v] <= wait
      BY <3>1, <3>3, <3>4, Numbers
    <3> QED BY <3>5 DEF k, v
  <2> QED BY <2>1, <2>4, <2>5, <2>6 DEF ReadTrue
<1>12. request' \in [Requests -> Read \cup Assign \cup {Null}] /\ ReadsTrue'
  <2>1. request' = [r \in Requests |-> request'[r]]
    BY DEF Tick
  <2>2. \A r \in Requests : request[r] = Null => request'[r] = Null
    BY DEF Tick
  <2>3. \A r \in Requests : request'[r] \in Read \cup Assign \cup {Null}
    BY <1>11, <2>2
  <2>4. ReadsTrue'
    BY <1>11, <2>2 DEF ReadsTrue
  <2>5. request' \in [Requests -> Read \cup Assign \cup {Null}]
    BY <2>1, <2>3, Zenon
  <2> QED BY <2>4, <2>5
<1>13. \A k \in Keys : cache'[k] # Null => cache'[k].value # Null
  BY <1>10, CacheAssumption DEF Entry
<1>14. TypeOK'
  BY <1>1, <1>6, <1>10, <1>12, <1>13 DEF IInv, TypeOK
<1> QED BY <1>7, <1>10, <1>12, <1>14 DEF IInv

\* The invariant holds at first and is kept by every step.
THEOREM Inductive == Spec => []IInv
<1>1. IInv /\ [Next]_vars => IInv'
  <2> SUFFICES ASSUME IInv, [Next]_vars PROVE IInv'
    OBVIOUS
  <2>1. ASSUME NEW r \in Requests, NEW s \in Shops, NEW c \in Customers, ReadStart(r, s, c)
        PROVE  IInv'
    BY <2>1, ReadStartKeeps
  <2>2. ASSUME NEW r \in Requests, NEW s \in Shops, NEW cs \in SUBSET Customers,
               AssignStart(r, s, cs)
        PROVE  IInv'
    BY <2>2, AssignStartKeeps
  <2>3. ASSUME NEW r \in Requests, Completes(r) PROVE IInv'
    BY <2>3, ReadAnsweredKeeps, ReadMissedKeeps, ReadDoneKeeps, AssignAppliedKeeps, AssignDoneKeeps, FailsKeeps
       DEF Completes
  <2>4. ASSUME NEW k \in Keys, OthersChange(k) PROVE IInv'
    BY <2>4, OthersKeep
  <2>5. CASE Restart
    BY <2>5, RestartKeeps
  <2>6. CASE Tick
    BY <2>6, TickKeeps
  <2>7. CASE UNCHANGED vars
    BY <2>7, TimelessKeeps DEF vars, IInv, TypeOK
  <2> QED BY <2>1, <2>2, <2>3, <2>4, <2>5, <2>6, <2>7 DEF Next
<1> QED BY <1>1, InitInv, PTL DEF Spec

---------------------------------------------------------------------------
\* The cache, the requests and the histories keep their types: an entry is a
\* list, never an absent customer.
THEOREM TypeCorrect == Spec => []TypeOK
<1>1. IInv => TypeOK
  BY DEF IInv
<1> QED BY <1>1, Inductive, PTL

\* getCustomerGroups: a list it serves from the cache was the shop's own
\* customer's less than the time to live and one waiting time ago.
THEOREM ServedIsRecent == Spec => []StaleAtMost
<1>1. IInv => StaleAtMost
  <2> SUFFICES ASSUME IInv, NEW s \in Shops, NEW c \in Customers, Served(s, c) # Null
               PROVE  since[<<s, c>>][Served(s, c)] < TTL + Wait
    BY DEF StaleAtMost
  <2> DEFINE k == <<s, c>>
  <2>1. k \in Keys
    BY DEF Keys
  <2>2. cache[k] # Null /\ ~Expired(cache[k]) /\ Served(s, c) = cache[k].value
    BY Zenon DEF Served, BuildCacheKey
  <2> HIDE DEF k
  <2>3. cache[k].value \in SUBSET Groups /\ cache[k].age \in 0 .. TTL
    BY <2>1, <2>2 DEF IInv, TypeOK, Entry
  <2>4. cache[k].age < TTL
    BY <2>2, <2>3, Numbers DEF Expired
  <2>5. since[k][cache[k].value] \in 0 .. MaxAge
    BY <2>1, <2>3 DEF IInv, TypeOK
  <2>6. since[k][cache[k].value] <= cache[k].age + Wait
    BY <2>1, <2>2 DEF IInv, EntriesTrue
  <2>7. since[k][cache[k].value] < TTL + Wait
    BY <2>3, <2>4, <2>5, <2>6, Numbers
  <2> QED BY <2>2, <2>7 DEF k
<1> QED BY <1>1, Inductive, PTL

---------------------------------------------------------------------------
\* A step that reads nothing new, and takes nothing from what was seen.
LEMMA SeenStays ==
    ASSUME AllSeen, \A k \in Keys : seen[k] \subseteq seen'[k] /\ Current(k)' \in seen'[k],
           \A k \in Keys : cache'[k] # Null =>
               cache[k] # Null /\ cache'[k].value = cache[k].value,
           \A k \in Keys, r \in Requests : Told(r, k)' =>
               Told(r, k) /\ request'[r].answer = request[r].answer
    PROVE  AllSeen'
<1>1. \A k \in Keys, r \in Requests : Told(r, k)' => GroupList(request'[r].answer) \in seen'[k]
  BY DEF AllSeen
<1> QED BY <1>1 DEF AllSeen, GroupList

\* A key is its shop and its customer.
LEMMA KeyParts ==
    ASSUME NEW k \in Keys, NEW s, NEW c, k[1] = s, k[2] \in {c} PROVE k = <<s, c>>
  BY DEF Keys

\* A read that is answered is answered with what the customer's key has seen.
LEMMA AnswerSeen ==
    ASSUME IInv, AllSeen, NEW r \in Requests, Pending(r, "read", "asked"),
           NEW c \in request[r].customers, NEW customer, Answer(r, customer),
           cache' = cache, truth' = truth,
           \A k \in Keys : seen[k] \subseteq seen'[k],
           GroupList(customer) \in seen'[<<request[r].shop, c>>]
    PROVE  AllSeen'
<1>1. request[r].customers = {c} /\ request[r] \in Read
  BY RequestType DEF IInv, ReadsTrue, ReadTrue, Pending
<1>2. \A q \in Requests \ {r} : request'[q] = request[q]
  BY DEF Answer, IInv, TypeOK
<1>3. /\ request'[r].answer = customer /\ request'[r].shop = request[r].shop
      /\ request'[r].customers = {c}
  BY <1>1 DEF Answer, IInv, TypeOK, Read
<1>4. ASSUME NEW k \in Keys, NEW q \in Requests, Told(q, k)'
      PROVE  GroupList(request'[q].answer) \in seen'[k]
  <2>1. CASE q = r
    <3>1. k = <<request[r].shop, c>>
      BY <1>3, <1>4, <2>1, KeyParts DEF Told
    <3> QED BY <1>3, <2>1, <3>1
  <2>2. CASE q # r
    <3>1. Told(q, k) /\ request'[q] = request[q]
      BY <1>2, <1>4, <2>2 DEF Told, Pending
    <3> QED BY <3>1 DEF AllSeen
  <2> QED BY <2>1, <2>2
<1>5. \A k \in Keys : Current(k)' = Current(k)
  BY DEF Current
<1> QED BY <1>4, <1>5 DEF AllSeen, GroupList

LEMMA AnsweredSeen == ASSUME IInv, AllSeen, NEW r \in Requests, ReadAnswered(r) PROVE AllSeen'
<1> PICK c \in request[r].customers : Answer(r, truth[<<request[r].shop, c>>])
  BY DEF ReadAnswered
<1> DEFINE k == <<request[r].shop, c>>
<1>1. /\ Pending(r, "read", "asked") /\ cache' = cache /\ truth' = truth /\ seen' = seen
      /\ k \in Keys
  BY RequestType DEF ReadAnswered, Pending, IInv, Keys
<1>2. GroupList(truth[k]) = Current(k)
  BY DEF GroupList, Current
<1>3. GroupList(truth[k]) \in seen'[k]
  BY <1>1, <1>2 DEF AllSeen
<1> QED BY <1>1, <1>3, AnswerSeen

LEMMA MissedSeen == ASSUME IInv, AllSeen, NEW r \in Requests, ReadMissed(r) PROVE AllSeen'
<1> PICK c \in request[r].customers :
           seen' = [seen EXCEPT ![<<request[r].shop, c>>] = @ \cup {{}}]
  BY DEF ReadMissed
<1> DEFINE k == <<request[r].shop, c>>
<1>1. /\ Pending(r, "read", "asked") /\ cache' = cache /\ truth' = truth /\ Answer(r, Null)
      /\ k \in Keys
  BY RequestType DEF ReadMissed, Pending, IInv, Keys
<1> HIDE DEF k
<1>2. seen' = [seen EXCEPT ![k] = @ \cup {{}}] /\ seen \in [Keys -> SUBSET (SUBSET Groups)]
  BY DEF k, IInv, TypeOK
<1>3. (\A j \in Keys : seen[j] \subseteq seen'[j]) /\ {} \in seen'[k]
  BY <1>1, <1>2
<1>4. GroupList(Null) \in seen'[k]
  BY <1>3 DEF GroupList
<1> QED BY <1>1, <1>3, <1>4, AnswerSeen DEF k

\* What fills the cache is what the read was told.
LEMMA FilledSeen == ASSUME IInv, AllSeen, NEW r \in Requests, ReadDone(r) PROVE AllSeen'
<1> DEFINE list == GroupList(request[r].answer)
           entry == [value |-> list, age |-> 0]
<1> PICK c \in request[r].customers :
           cache' = [cache EXCEPT ![<<request[r].shop, c>>] = entry]
  BY DEF ReadDone, BuildCacheKey
<1> DEFINE k == <<request[r].shop, c>>
<1>1. /\ Pending(r, "read", "answered") /\ truth' = truth /\ seen' = seen
      /\ request' = [request EXCEPT ![r] = Null] /\ k \in Keys
  BY RequestType DEF ReadDone, Pending, IInv, Keys
<1>2. list \in seen[k]
  <2>1. Told(r, k)
    BY <1>1 DEF Told
  <2> QED BY <1>1, <2>1 DEF AllSeen
<1> HIDE DEF list, k
<1>3. \A j \in Keys : cache'[j] # Null =>
        \/ cache'[j] = cache[j]
        \/ j = k /\ cache'[j].value = list
  BY <1>1 DEF k, IInv, TypeOK
<1>4. \A j \in Keys, q \in Requests : Told(q, j)' =>
        Told(q, j) /\ request'[q].answer = request[q].answer
  BY <1>1, FreedType DEF Told, Pending
<1>5. \A j \in Keys : Current(j)' = Current(j)
  BY <1>1 DEF Current
<1> QED BY <1>1, <1>2, <1>3, <1>4, <1>5 DEF AllSeen, GroupList

\* The customers change, and nobody is told yet.
LEMMA ChangesSeen ==
    ASSUME IInv, AllSeen, NEW new, Changes(new), cache' = cache,
           \A k \in Keys, r \in Requests : Told(r, k)' =>
               Told(r, k) /\ request'[r].answer = request[r].answer
    PROVE  AllSeen'
<1>1. \A k \in Keys : seen[k] \subseteq seen'[k] /\ Current(k)' \in seen'[k]
  BY DEF Changes
<1> QED BY <1>1, SeenStays

\* An assignment forgets what was seen of its customers, and the cache with it.
LEMMA AssignedSeen == ASSUME IInv, AllSeen, NEW r \in Requests, AssignDone(r) PROVE AllSeen'
<1>1. /\ request' = [request EXCEPT ![r] = Null] /\ truth' = truth
      /\ seen' = [k \in Keys |-> IF k \in Assigned(r) THEN Afresh(k) ELSE seen[k]]
      /\ cache' = [k \in Keys |-> IF k \in Assigned(r) THEN Null ELSE cache[k]]
  BY DEF AssignDone, AssignAnswered
<1>2. \A k \in Keys : Current(k)' = Current(k)
  BY <1>1 DEF Current
<1>3. ASSUME NEW k \in Keys
      PROVE  /\ Current(k) \in seen'[k]
             /\ cache'[k] # Null => cache'[k].value \in seen'[k]
  BY <1>1 DEF AllSeen, Afresh
<1>4. ASSUME NEW k \in Keys, NEW q \in Requests, Told(q, k)'
      PROVE  GroupList(request'[q].answer) \in seen'[k]
  <2>1. Told(q, k) /\ request'[q] = request[q]
    BY <1>1, <1>4, FreedType DEF Told, Pending
  <2>2. GroupList(request[q].answer) \in seen[k] /\ GroupList(request[q].answer) \in Afresh(k)
    BY <2>1 DEF AllSeen, Afresh
  <2> QED BY <1>1, <2>1, <2>2
<1> QED BY <1>2, <1>3, <1>4 DEF AllSeen, GroupList

LEMMA StepSeen == ASSUME IInv, AllSeen, [Next]_vars PROVE AllSeen'
<1>1. ASSUME truth' = truth, seen' = seen
      PROVE  \A k \in Keys : seen[k] \subseteq seen'[k] /\ Current(k)' \in seen'[k]
  BY <1>1 DEF AllSeen, Current
<1>2. ASSUME NEW r \in Requests, NEW kind, NEW s, NEW cs, Await(r, kind, s, cs)
      PROVE  \A k \in Keys, q \in Requests : Told(q, k)' =>
               Told(q, k) /\ request'[q].answer = request[q].answer
  BY <1>2 DEF Await, Told, Pending, IInv, TypeOK
<1>3. ASSUME NEW r \in Requests, NEW s \in Shops, NEW c \in Customers, ReadStart(r, s, c)
      PROVE  AllSeen'
  <2>1. \A k \in Keys : cache'[k] # Null => cache[k] # Null /\ cache'[k].value = cache[k].value
    BY <1>3 DEF ReadStart, IInv, TypeOK
  <2> QED BY <1>1, <1>2, <1>3, <2>1, SeenStays DEF ReadStart
<1>4. ASSUME NEW r \in Requests, NEW s \in Shops, NEW cs \in SUBSET Customers,
             AssignStart(r, s, cs)
      PROVE  AllSeen'
  BY <1>1, <1>2, <1>4, SeenStays DEF AssignStart
<1>5. ASSUME NEW r \in Requests, AssignApplied(r) PROVE AllSeen'
  <2>1. \A k \in Keys, q \in Requests : Told(q, k)' =>
          Told(q, k) /\ request'[q].answer = request[q].answer
    <3>1. \A q \in Requests \ {r} : request'[q] = request[q]
      BY <1>5 DEF AssignApplied, IInv, TypeOK
    <3>2. \A k \in Keys : ~ Told(r, k)'
      <4>1. request[r] \in Assign
        BY <1>5, RequestType DEF AssignApplied, Pending, IInv
      <4>2. request'[r].kind = "assign"
        BY <1>5, <4>1 DEF AssignApplied, Assign, IInv, TypeOK
      <4> QED BY <4>2 DEF Told, Pending
    <3> QED BY <3>1, <3>2 DEF Told, Pending
  <2> QED BY <1>5, <2>1, ChangesSeen DEF AssignApplied
<1>6. ASSUME NEW r \in Requests, Fails(r) PROVE AllSeen'
  <2>1. \A k \in Keys, q \in Requests : Told(q, k)' =>
          Told(q, k) /\ request'[q].answer = request[q].answer
    BY <1>6, FreedType DEF Fails, Told, Pending
  <2> QED BY <1>1, <1>6, <2>1, SeenStays DEF Fails
<1>7. ASSUME NEW k \in Keys, OthersChange(k) PROVE AllSeen'
  <2>1. \A j \in Keys, q \in Requests : Told(q, j)' =>
          Told(q, j) /\ request'[q].answer = request[q].answer
    BY <1>7 DEF OthersChange, Told, Pending
  <2> QED BY <1>7, <2>1, ChangesSeen DEF OthersChange
<1>8. CASE Restart
  <2>1. /\ \A k \in Keys : cache'[k] = Null
        /\ \A k \in Keys, r \in Requests : ~ Told(r, k)'
    BY <1>8 DEF Restart, Told, Pending
  <2> QED BY <1>1, <1>8, <2>1, SeenStays DEF Restart
<1>9. CASE Tick
  <2>1. \A k \in Keys : cache'[k] # Null => cache[k] # Null /\ cache'[k].value = cache[k].value
    BY <1>9 DEF Tick, IInv, TypeOK, Entry
  <2>2. ASSUME NEW r \in Requests, request'[r] # Null
        PROVE  /\ request[r] # Null /\ request'[r].kind = request[r].kind
               /\ request'[r].phase = request[r].phase /\ request'[r].shop = request[r].shop
               /\ request'[r].customers = request[r].customers
               /\ request'[r].answer = request[r].answer
    <3>1. request[r] # Null /\ request'[r] = [request[r] EXCEPT !.wait = @ + 1]
      BY <1>9, <2>2 DEF Tick
    <3>2. request[r] \in Read \cup Assign
      BY <3>1, RequestType DEF IInv
    <3>3. CASE request[r] \in Read
      BY <3>1, <3>3 DEF Read
    <3>4. CASE request[r] \in Assign
      BY <3>1, <3>4 DEF Assign
    <3> QED BY <3>1, <3>2, <3>3, <3>4
  <2>3. \A k \in Keys, r \in Requests : Told(r, k)' =>
          Told(r, k) /\ request'[r].answer = request[r].answer
    BY <2>2 DEF Told, Pending
  <2> QED BY <1>1, <1>9, <2>1, <2>3, SeenStays DEF Tick
<1>10. CASE UNCHANGED vars
  <2>1. \A k \in Keys, r \in Requests : Told(r, k)' =>
          Told(r, k) /\ request'[r].answer = request[r].answer
    BY <1>10 DEF vars, Told, Pending
  <2> QED BY <1>1, <1>10, <2>1, SeenStays DEF vars
<1>11. ASSUME NEW r \in Requests, Completes(r) PROVE AllSeen'
  BY <1>5, <1>6, <1>11, AnsweredSeen, MissedSeen, FilledSeen, AssignedSeen DEF Completes
<1> QED BY <1>3, <1>4, <1>7, <1>8, <1>9, <1>10, <1>11 DEF Next

\* assignCustomersToGroup: what is served after an assignment succeeded is what
\* its customer's groups have been since, or what a read had been told before.
THEOREM InvalidationLasts == Spec => []InvalidationHolds
<1>1. Init => AllSeen
  BY DEF Init, AllSeen, Told, Pending
<1>2. IInv /\ AllSeen /\ [Next]_vars => AllSeen'
  BY StepSeen
<1>3. AllSeen => InvalidationHolds
  <2> SUFFICES ASSUME AllSeen, NEW s \in Shops, NEW c \in Customers, Served(s, c) # Null
               PROVE  Served(s, c) \in seen[<<s, c>>]
    BY DEF InvalidationHolds
  <2> DEFINE k == <<s, c>>
  <2>1. k \in Keys
    BY DEF Keys
  <2>2. cache[k] # Null /\ Served(s, c) = cache[k].value
    BY Zenon DEF Served, BuildCacheKey
  <2> QED BY <2>1, <2>2 DEF AllSeen
<1> QED BY <1>1, <1>2, <1>3, Inductive, PTL DEF Spec
=============================================================================
