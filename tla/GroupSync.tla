----------------------------- MODULE GroupSync -----------------------------
(***************************************************************************)
(* Putting customers into iDoxxy's groups: the webhooks about a customer   *)
(* or an order, the operator's panel, and the calls to iDoxxy they make.   *)
(*                                                                         *)
(* iDoxxy has no call that adds one customer to a group.  A handler reads  *)
(* the group's customers and writes back the whole list, once per group    *)
(* and for all its groups at once.  A call that gets no answer, or a 5xx   *)
(* or 429, is repeated; iDoxxy may have applied it, may apply it later, or *)
(* never.                                                                  *)
(***************************************************************************)
EXTENDS Naturals, FiniteSets

CONSTANTS
    Null,
    Other,        \* an e-mail no webhook is about
    Emails,
    Ids,          \* customer ids; the bound on customers iDoxxy ever has
    Groups,
    Handlers,     \* slots for requests under way
    Kinds,        \* which handlers run, among sync, set, add and drop
    MaxRetries,   \* MAX_RETRIES, attempts at one call
    LateCalls     \* how many writes may be delayed past their timeout

ASSUME SyncAssumption ==
    /\ MaxRetries \in Nat \ {0}
    /\ LateCalls \in Nat
    /\ Kinds \subseteq {"sync", "set", "add", "drop"}
    /\ Null \notin Emails \cup {Other} \cup Ids \cup Groups
    /\ Other \notin Emails

VARIABLES
    owner,        \* iDoxxy: a customer's e-mail, Null for an id not in use
    members,      \* iDoxxy: the customers of a group
    handler,      \* what each slot is doing
    job,          \* a handler's read and write of one group
    late,         \* writes that iDoxxy may yet apply
    first,        \* history: the members of a group at the start
    asked,        \* history: e-mails and ids somebody asked a group to have
    unwanted,     \* history: ids somebody asked a group not to have
    synced        \* history: what webhooks that succeeded were about

vars == <<owner, members, handler, job, late, first, asked, unwanted, synced>>

\* Failed attempts at the call that is being made.
Tries == 0 .. MaxRetries - 1

Handler == [kind : Kinds, phase : {"find", "create", "jobs"},
            email : Emails \cup {Null}, ids : SUBSET Ids, groups : SUBSET Groups,
            tries : Tries, failed : BOOLEAN,
            found : BOOLEAN]    \* history: FALSE once a search missed its customer

Job == [op : {"add", "remove"}, ids : SUBSET Ids, step : {"get", "put"},
        list : SUBSET Ids, tries : Tries]

\* A write on its way: a customer to create or a group's new list.
Post(e) == [email |-> e, group |-> Null, list |-> {}]
Put(g, list) == [email |-> Null, group |-> g, list |-> list]

Call == {Post(e) : e \in Emails} \cup {Put(g, list) : g \in Groups, list \in SUBSET Ids}

ASSUME NoHandlerAssumption == Null \notin Handler \cup Job

TypeOK ==
    /\ owner \in [Ids -> Emails \cup {Other, Null}]
    /\ members \in [Groups -> SUBSET Ids]
    /\ handler \in [Handlers -> Handler \cup {Null}]
    /\ job \in [Handlers \X Groups -> Job \cup {Null}]
    /\ late \subseteq Call
    /\ first \in [Groups -> SUBSET Ids]
    /\ asked \in [Groups -> SUBSET (Emails \cup Ids)]
    /\ unwanted \in [Groups -> SUBSET Ids]
    /\ synced \subseteq Emails \X Groups

Known == {id \in Ids : owner[id] # Null}

Init ==
    /\ owner \in [Ids -> Emails \cup {Other, Null}]
    /\ members \in [Groups -> SUBSET Known]
    /\ handler = [h \in Handlers |-> Null]
    /\ job = [hg \in Handlers \X Groups |-> Null]
    /\ late = {}
    /\ first = members
    /\ asked = members
    /\ unwanted = [g \in Groups |-> {}]
    /\ synced = {}

---------------------------------------------------------------------------
\* iDoxxy creates a customer under a fresh id, or takes over a list.
Created(id, e) ==
    /\ owner[id] = Null
    /\ owner' = [owner EXCEPT ![id] = e]

Overwritten(g, list) == members' = [members EXCEPT ![g] = list]

\* A write gets no answer: iDoxxy applied it, dropped it, or will apply it.
\* Callers say how: the variables it would change, or late.
Unheard(call) ==
    \/ UNCHANGED <<owner, members, late>>
    \/ /\ Cardinality(late) < LateCalls
       /\ late' = late \cup {call}
       /\ UNCHANGED <<owner, members>>

LateArrives(call) ==
    /\ call \in late
    /\ late' = late \ {call}
    /\ \/ /\ call.email # Null
          /\ \E id \in Ids : Created(id, call.email)
          /\ UNCHANGED members
       \/ /\ call.group # Null
          /\ Overwritten(call.group, call.list)
          /\ UNCHANGED owner
    /\ UNCHANGED <<handler, job, first, asked, unwanted, synced>>

---------------------------------------------------------------------------
\* Handlers start, each kind as its route does.
Starts(h, kind, phase, e, ids, groups) ==
    /\ kind \in Kinds
    /\ handler[h] = Null
    /\ handler' = [handler EXCEPT ![h] =
                     [kind |-> kind, phase |-> phase, email |-> e, ids |-> ids,
                      groups |-> groups, tries |-> 0, failed |-> FALSE,
                      found |-> TRUE]]
    /\ UNCHANGED <<owner, members, late, first, synced>>

NewJob(op, ids) == [op |-> op, ids |-> ids, step |-> "get", list |-> {}, tries |-> 0]

\* A handler's jobs become those of f; a group outside its domain has none.
Jobs(h, f) ==
    job' = [hg \in Handlers \X Groups |->
              IF hg[1] # h THEN job[hg]
              ELSE IF hg[2] \in DOMAIN f THEN f[hg[2]] ELSE Null]

\* POST /webhooks/.../customer-created, order-created and order-paid, once
\* the mapping has named the groups.
StartSync(h, e, groups) ==
    /\ Starts(h, "sync", "find", e, {}, groups)
    /\ asked' = [g \in Groups |-> IF g \in groups THEN asked[g] \cup {e} ELSE asked[g]]
    /\ UNCHANGED <<job, unwanted>>

\* PUT /admin/idoxxy/customers/:id/groups
StartSet(h, id, groups) ==
    /\ Starts(h, "set", "find", Null, {id}, groups)
    /\ asked' = [g \in Groups |-> IF g \in groups THEN asked[g] \cup {id} ELSE asked[g]]
    /\ unwanted' = [g \in Groups |->
                      IF g \in groups THEN unwanted[g] ELSE unwanted[g] \cup {id}]
    /\ UNCHANGED job

\* POST /admin/idoxxy/customers/bulk-add-group, and bulk with assign-group
StartAdd(h, ids, g) ==
    /\ Starts(h, "add", "jobs", Null, {}, {g})
    /\ Jobs(h, [x \in {g} |-> NewJob("add", ids)])
    /\ asked' = [asked EXCEPT ![g] = @ \cup ids]
    /\ UNCHANGED unwanted

\* POST /admin/idoxxy/customers/bulk with remove-group
StartDrop(h, ids, g) ==
    /\ Starts(h, "drop", "jobs", Null, ids, {g})
    /\ unwanted' = [unwanted EXCEPT ![g] = @ \cup ids]
    /\ UNCHANGED <<job, asked>>

---------------------------------------------------------------------------
Is(h, phase) == handler[h] # Null /\ handler[h].phase = phase

\* Seeded fault: the first hit of the search, which also matches names and
\* parts of addresses.
MatchingHit(e) == Known

\* The customers whose whole e-mail is the one asked for.
Matching(e) == {id \in Ids : owner[id] = e}

\* The customer is known: its groups are next.
Ensured(h, id) ==
    /\ handler' = [handler EXCEPT ![h] =
                     [@ EXCEPT !.phase = "jobs", !.ids = {id}, !.tries = 0]]
    /\ Jobs(h, [g \in handler[h].groups |-> NewJob("add", {id})])

\* ensureCustomerExists looks the e-mail up.
FindCustomer(h) ==
    /\ Is(h, "find") /\ handler[h].kind = "sync"
    /\ \/ \E id \in Matching(handler[h].email) : Ensured(h, id)
       \/ /\ Matching(handler[h].email) = {}
          /\ handler' = [handler EXCEPT ![h] = [@ EXCEPT !.phase = "create", !.tries = 0]]
          /\ UNCHANGED job
    /\ UNCHANGED <<owner, members, late, first, asked, unwanted, synced>>

\* ... and creates the customer if there is none.
CreateCustomer(h) ==
    /\ Is(h, "create")
    /\ \E id \in Ids : Created(id, handler[h].email) /\ Ensured(h, id)
    /\ UNCHANGED <<members, late, first, asked, unwanted, synced>>

\* Seeded fault: groups the customer should leave are not looked for.
SetJobsAddOnly(id, groups, current) ==
    [g \in groups \ current |-> NewJob("add", {id})]

\* toAdd and toRemove
SetJobs(id, groups, current) ==
    [g \in (groups \ current) \cup (current \ groups) |->
       NewJob(IF g \in groups THEN "add" ELSE "remove", {id})]

\* The groups a set starts from: the customer's, or none when neither the search
\* nor ten pages of customers named it (getCustomerGroups, `|| []`).
CurrentGroups(id, found) == {g \in Groups : found /\ id \in members[g]}

FindGroups(h) ==
    /\ Is(h, "find") /\ handler[h].kind = "set"
    /\ \E id \in handler[h].ids, found \in BOOLEAN :
         /\ Jobs(h, SetJobs(id, handler[h].groups, CurrentGroups(id, found)))
         /\ handler' = [handler EXCEPT ![h] = [@ EXCEPT !.phase = "jobs", !.found = found]]
    /\ UNCHANGED <<owner, members, late, first, asked, unwanted, synced>>

\* Bulk removal goes on to its next customer.
DropNext(h, id) ==
    /\ Is(h, "jobs") /\ handler[h].kind = "drop"
    /\ id \in handler[h].ids
    /\ \A g \in Groups : job[h, g] = Null
    /\ Jobs(h, [g \in handler[h].groups |-> NewJob("remove", {id})])
    /\ handler' = [handler EXCEPT ![h] = [@ EXCEPT !.ids = handler[h].ids \ {id}]]
    /\ UNCHANGED <<owner, members, late, first, asked, unwanted, synced>>

---------------------------------------------------------------------------
\* One group's job: read its customers, write the whole list.
At(h, g, step) == job[h, g] # Null /\ job[h, g].step = step

\* Seeded fault: the customers that are there are not sent again.
NewListAlone(j) == IF j.op = "add" THEN j.ids ELSE j.list \ j.ids

\* addCustomersToGroup, removeCustomerFromGroup
NewList(j) == IF j.op = "add" THEN j.list \cup j.ids ELSE j.list \ j.ids

ReadGroup(h, g) ==
    /\ At(h, g, "get")
    /\ job' = [job EXCEPT ![<<h, g>>] = [@ EXCEPT !.step = "put", !.list = members[g], !.tries = 0]]
    /\ UNCHANGED <<owner, members, handler, late, first, asked, unwanted, synced>>

WriteGroup(h, g) ==
    /\ At(h, g, "put")
    /\ Overwritten(g, NewList(job[h, g]))
    /\ job' = [job EXCEPT ![<<h, g>>] = Null]
    /\ UNCHANGED <<owner, handler, late, first, asked, unwanted, synced>>

---------------------------------------------------------------------------
\* Not `attempt === MAX_RETRIES - 1`.
MayRetry(tries) == tries + 1 < MaxRetries

\* A handler's own call failed for good: it answers with the error.
Errors(h) ==
    /\ handler' = [handler EXCEPT ![h] = Null]
    /\ UNCHANGED job

\* Seeded fault: the last attempt is repeated like the others.
RepeatsForever(h) ==
    /\ handler' = [handler EXCEPT ![h] = [@ EXCEPT !.tries = (@ + 1) % MaxRetries]]
    /\ UNCHANGED job

\* requestWithRetry, for a call of the handler's own.
Repeats(h) ==
    IF MayRetry(handler[h].tries)
    THEN /\ handler' = [handler EXCEPT ![h] = [@ EXCEPT !.tries = handler[h].tries + 1]]
         /\ UNCHANGED job
    ELSE Errors(h)

\* A job failed for good: Promise.all rejects, its other jobs carry on.
JobErrors(h, g) ==
    /\ job' = [job EXCEPT ![<<h, g>>] = Null]
    /\ handler' = [handler EXCEPT ![h] = [@ EXCEPT !.failed = TRUE]]

\* A call of the handler's own gets no answer, a 5xx or a 429.
CallLost(h) ==
    /\ Is(h, "find") \/ Is(h, "create")
    /\ Repeats(h)
    /\ \/ Is(h, "find") /\ UNCHANGED <<owner, members, late>>
       \/ Is(h, "create") /\ Unheard(Post(handler[h].email))
       \/ /\ Is(h, "create")
          /\ \E id \in Ids : Created(id, handler[h].email)
          /\ UNCHANGED <<members, late>>
    /\ UNCHANGED <<first, asked, unwanted, synced>>

\* iDoxxy refuses it: no repetition.
CallRefused(h) ==
    /\ Is(h, "find") \/ Is(h, "create")
    /\ Errors(h)
    /\ UNCHANGED <<owner, members, late, first, asked, unwanted, synced>>

\* The same for a job's call.
JobLost(h, g) ==
    /\ job[h, g] # Null
    /\ IF MayRetry(job[h, g].tries)
       THEN /\ job' = [job EXCEPT ![<<h, g>>] = [@ EXCEPT !.tries = job[h, g].tries + 1]]
            /\ UNCHANGED handler
       ELSE JobErrors(h, g)
    /\ \/ At(h, g, "get") /\ UNCHANGED <<owner, members, late>>
       \/ At(h, g, "put") /\ Unheard(Put(g, NewList(job[h, g])))
       \/ /\ At(h, g, "put")
          /\ Overwritten(g, NewList(job[h, g]))
          /\ UNCHANGED <<owner, late>>
    /\ UNCHANGED <<first, asked, unwanted, synced>>

JobRefused(h, g) ==
    /\ job[h, g] # Null
    /\ JobErrors(h, g)
    /\ UNCHANGED <<owner, members, late, first, asked, unwanted, synced>>

\* Seeded fault: Promise.allSettled, and its results are not looked at.
SucceedsAnyway(h) == TRUE

\* Every job resolved.
Succeeds(h) == ~handler[h].failed

\* All jobs are over: the handler answers, and logs a success if they were.
Finish(h) ==
    /\ Is(h, "jobs")
    /\ \A g \in Groups : job[h, g] = Null
    /\ handler[h].kind = "drop" => handler[h].ids = {}
    /\ handler' = [handler EXCEPT ![h] = Null]
    /\ synced' = IF handler[h].kind = "sync" /\ Succeeds(h)
                 THEN synced \cup ({handler[h].email} \X handler[h].groups)
                 ELSE synced
    /\ UNCHANGED <<owner, members, job, late, first, asked, unwanted>>

\* The process dies with everything it was doing; iDoxxy does not.
Crash ==
    /\ handler' = [h \in Handlers |-> Null]
    /\ job' = [hg \in Handlers \X Groups |-> Null]
    /\ UNCHANGED <<owner, members, late, first, asked, unwanted, synced>>

Start(h) ==
    \/ \E e \in Emails, groups \in SUBSET Groups : StartSync(h, e, groups)
    \/ \E id \in Known, groups \in SUBSET Groups : StartSet(h, id, groups)
    \/ \E ids \in (SUBSET Known) \ {{}}, g \in Groups :
         StartAdd(h, ids, g) \/ StartDrop(h, ids, g)

Proceeds(h) ==
    \/ FindCustomer(h) \/ CreateCustomer(h) \/ FindGroups(h)
    \/ CallLost(h) \/ CallRefused(h) \/ Finish(h)
    \/ \E id \in Ids : DropNext(h, id)
    \/ \E g \in Groups : \/ ReadGroup(h, g) \/ WriteGroup(h, g)
                         \/ JobLost(h, g) \/ JobRefused(h, g)

Next ==
    \/ \E h \in Handlers : Start(h) \/ Proceeds(h)
    \/ \E call \in late : LateArrives(call)
    \/ Crash

Spec == Init /\ [][Next]_vars

\* A call is answered, refused or times out.
FairSpec == Spec /\ \A h \in Handlers : WF_vars(Proceeds(h))

---------------------------------------------------------------------------
\* A customer of a group was there at the start, or somebody asked for it: a
\* webhook for its own e-mail, an operator for its id - never a customer the
\* search merely turned up, nor one read from another group
\* (ensureCustomerExists, addCustomersToGroup).
MembersAskedFor ==
    \A g \in Groups : \A id \in members[g] : id \in asked[g] \/ owner[id] \in asked[g]

\* Whoever was in a group from the start is in it until somebody asks for its
\* removal, however the writes of webhooks, operators, retries and late calls
\* overlap (addCustomersToGroup, removeCustomerFromGroup).
FirstMembersKept ==
    \A g \in Groups : first[g] \ unwanted[g] \subseteq members[g]

\* A webhook that was answered ok, and logged as a success, left its e-mail in
\* every group it was to be in.  It takes that no other customer is put into
\* the group meanwhile (addCustomerToGroups, Promise.all).
SyncedStaysIn ==
    \A eg \in synced : \E id \in members[eg[2]] : owner[id] = eg[1]

\* PUT /customers/:id/groups that succeeds leaves the customer in all groups it
\* named, and in no other unless the customer's own groups were not found; if
\* nobody else writes meanwhile (toAdd, toRemove).
SetTakesEffect ==
    [][\A h \in Handlers :
         Finish(h) /\ handler[h].kind = "set" /\ ~handler[h].failed =>
            \A id \in handler[h].ids, g \in Groups :
               /\ g \in handler[h].groups => id \in members[g]
               /\ id \in members[g] /\ handler[h].found => g \in handler[h].groups]_vars

\* Every handler answers in the end, if only with an error: calls time out and
\* are repeated a bounded number of times (requestWithRetry).
Answered == \A h \in Handlers : handler[h] # Null ~> handler[h] = Null
=============================================================================
