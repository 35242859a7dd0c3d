-------------------------- MODULE GroupSyncProofs --------------------------
(***************************************************************************)
(* Proofs about GroupSync for any e-mails, customers, groups and handlers, *)
(* any number of attempts and of late calls: whatever overlaps, only       *)
(* customers somebody asked for enter a group, and nobody who was there    *)
(* from the start drops out unasked.  Then, for the mixes of handlers in   *)
(* which it is so: a success means what it says.                           *)
(***************************************************************************)
EXTENDS GroupSync, FiniteSetTheorems, TLAPS

\* What lists are judged by.
World == [first |-> first, unwanted |-> unwanted, asked |-> asked, owner |-> owner]

\* Every customer of a list was asked for, by id or by e-mail.
AskedFor(w, g, S) == \A id \in S : id \in w.asked[g] \/ w.owner[id] \in w.asked[g]

\* A list that may be written to g: it has those who must stay, and no stranger.
Sound(w, g, S) == AskedFor(w, g, S) /\ w.first[g] \ w.unwanted[g] \subseteq S

SoundJob(w, g, j) ==
    /\ j.step = "put" => Sound(w, g, j.list)
    /\ j.op = "add" => AskedFor(w, g, j.ids)
    /\ j.op = "remove" => j.ids \subseteq w.unwanted[g]

SoundCall(w, c) == c.group # Null => Sound(w, c.group, c.list)

SoundHandler(w, hd) ==
    /\ hd.phase = "create" => hd.kind = "sync"
    /\ hd.kind = "sync" => hd.email # Null /\ \A g \in hd.groups : hd.email \in w.asked[g]
    /\ hd.kind = "set" => /\ \A g \in hd.groups : hd.ids \subseteq w.asked[g]
                          /\ \A g \in Groups \ hd.groups : hd.ids \subseteq w.unwanted[g]
    /\ hd.kind = "drop" => \A g \in hd.groups : hd.ids \subseteq w.unwanted[g]

\* Jobs belong to a handler that has come to them.
Owned ==
    \A h \in Handlers, g \in Groups :
        job[h, g] # Null => handler[h] # Null /\ handler[h].phase = "jobs"

\* Every list that is at iDoxxy, in a handler's hands or on its way is sound.
IInv ==
    /\ TypeOK
    /\ Owned
    /\ \A g \in Groups : Sound(World, g, members[g])
    /\ \A h \in Handlers, g \in Groups : job[h, g] # Null => SoundJob(World, g, job[h, g])
    /\ \A c \in late : SoundCall(World, c)
    /\ \A h \in Handlers : handler[h] # Null => SoundHandler(World, handler[h])

---------------------------------------------------------------------------
\* Requests are added and customers created, never taken back.
GrowsTo(w, v) ==
    /\ v.first = w.first
    /\ \A g \in Groups : w.asked[g] \subseteq v.asked[g] /\ w.unwanted[g] \subseteq v.unwanted[g]
    /\ \A id \in Ids : w.owner[id] # Null => v.owner[id] = w.owner[id]

WorldOK(w) == \A g \in Groups : Null \notin w.asked[g]

LEMMA WorldIsOK == ASSUME TypeOK PROVE WorldOK(World)
  BY SyncAssumption DEF TypeOK, WorldOK, World

\* What is sound stays sound.
LEMMA SoundGrows ==
    ASSUME NEW w, NEW v, WorldOK(w), GrowsTo(w, v)
    PROVE  /\ \A g \in Groups, S \in SUBSET Ids : AskedFor(w, g, S) => AskedFor(v, g, S)
           /\ \A g \in Groups, S \in SUBSET Ids : Sound(w, g, S) => Sound(v, g, S)
           /\ \A g \in Groups, j \in Job : SoundJob(w, g, j) => SoundJob(v, g, j)
           /\ \A hd \in Handler : SoundHandler(w, hd) => SoundHandler(v, hd)
<1>1. \A g \in Groups, S \in SUBSET Ids : AskedFor(w, g, S) => AskedFor(v, g, S)
  BY DEF WorldOK, GrowsTo, AskedFor
<1>2. \A g \in Groups, S \in SUBSET Ids : Sound(w, g, S) => Sound(v, g, S)
  BY <1>1 DEF GrowsTo, Sound
<1>3. \A g \in Groups, j \in Job : SoundJob(w, g, j) => SoundJob(v, g, j)
  BY <1>1, <1>2 DEF GrowsTo, SoundJob, Job
<1>4. \A hd \in Handler : SoundHandler(w, hd) => SoundHandler(v, hd)
  BY DEF GrowsTo, SoundHandler, Handler
<1> QED
  BY <1>1, <1>2, <1>3, <1>4

\* What TypeOK says of one value.
LEMMA TypesOfValues ==
    ASSUME TypeOK
    PROVE  /\ \A g \in Groups : members[g] \in SUBSET Ids
           /\ \A h \in Handlers, g \in Groups : job[h, g] # Null => job[h, g] \in Job
           /\ \A h \in Handlers : handler[h] # Null => handler[h] \in Handler
           /\ \A c \in late : c.list \in SUBSET Ids /\ (c.group # Null => c.group \in Groups)
<1>1. \A g \in Groups : members[g] \in SUBSET Ids
  BY DEF TypeOK
<1>2. ASSUME NEW h \in Handlers, NEW g \in Groups PROVE job[h, g] # Null => job[h, g] \in Job
  <2>1. <<h, g>> \in Handlers \X Groups /\ job \in [Handlers \X Groups -> Job \cup {Null}]
    BY DEF TypeOK
  <2> QED
    BY <2>1
<1>3. \A h \in Handlers : handler[h] # Null => handler[h] \in Handler
  BY DEF TypeOK
<1>4. \A c \in late : c.list \in SUBSET Ids /\ (c.group # Null => c.group \in Groups)
  BY DEF TypeOK, Call, Post, Put
<1> QED
  BY <1>1, <1>2, <1>3, <1>4

\* A step keeps the invariant if what it adds is sound.
LEMMA StepKeeps ==
    ASSUME IInv, TypeOK', Owned', GrowsTo(World, World'),
           \A g \in Groups : members'[g] = members[g] \/ Sound(World', g, members'[g]),
           \A h \in Handlers, g \in Groups :
               job'[h, g] # Null => job'[h, g] = job[h, g] \/ SoundJob(World', g, job'[h, g]),
           \A c \in late' : c \in late \/ SoundCall(World', c),
           \A h \in Handlers :
               handler'[h] # Null =>
                   handler'[h] = handler[h] \/ SoundHandler(World', handler'[h])
    PROVE  IInv'
<1> DEFINE v == World'
<1>1. WorldOK(World)
  BY WorldIsOK DEF IInv
<1>2. /\ \A g \in Groups, S \in SUBSET Ids : Sound(World, g, S) => Sound(v, g, S)
      /\ \A g \in Groups, j \in Job : SoundJob(World, g, j) => SoundJob(v, g, j)
      /\ \A hd \in Handler : SoundHandler(World, hd) => SoundHandler(v, hd)
  BY <1>1, SoundGrows
<1>3. ASSUME NEW g \in Groups PROVE Sound(v, g, members'[g])
  BY <1>2, TypesOfValues DEF IInv
<1>4. ASSUME NEW h \in Handlers, NEW g \in Groups, job'[h, g] # Null
      PROVE  SoundJob(v, g, job'[h, g])
  BY <1>2, <1>4, TypesOfValues DEF IInv
<1>5. ASSUME NEW c \in late' PROVE SoundCall(v, c)
  BY <1>2, TypesOfValues DEF IInv, SoundCall
<1>6. ASSUME NEW h \in Handlers, handler'[h] # Null PROVE SoundHandler(v, handler'[h])
  BY <1>2, <1>6, TypesOfValues DEF IInv
<1> QED
  BY <1>3, <1>4, <1>5, <1>6 DEF IInv
---------------------------------------------------------------------------
LEMMA FirstTry == 0 \in Tries
  BY SyncAssumption DEF Tries

\* What new jobs and new lists are.
LEMMA NewJobIsJob ==
    ASSUME NEW op \in {"add", "remove"}, NEW ids \in SUBSET Ids
    PROVE  /\ NewJob(op, ids) \in Job
           /\ NewJob(op, ids).op = op
           /\ NewJob(op, ids).ids = ids
           /\ NewJob(op, ids).step = "get"
  BY FirstTry DEF NewJob, Job

LEMMA NewListIsSound ==
    ASSUME NEW w, NEW g \in Groups, NEW j \in Job, SoundJob(w, g, j), j.step = "put"
    PROVE  NewList(j) \in SUBSET Ids /\ Sound(w, g, NewList(j))
<1>1. j.list \in SUBSET Ids /\ j.ids \in SUBSET Ids /\ j.op \in {"add", "remove"}
  BY DEF Job
<1>2. CASE j.op = "add"
  BY <1>1, <1>2 DEF SoundJob, Sound, AskedFor, NewList
<1>3. CASE j.op = "remove"
  BY <1>1, <1>3 DEF SoundJob, Sound, AskedFor, NewList
<1> QED
  BY <1>1, <1>2, <1>3

\* Jobs changes the jobs of one handler, to those of f.
LEMMA JobsChange ==
    ASSUME TypeOK, NEW h \in Handlers, NEW f,
           \A g \in DOMAIN f : f[g] \in Job, Jobs(h, f)
    PROVE  /\ job' \in [Handlers \X Groups -> Job \cup {Null}]
           /\ \A h2 \in Handlers, g \in Groups : h2 # h => job'[h2, g] = job[h2, g]
           /\ \A g \in Groups : job'[h, g] # Null => g \in DOMAIN f /\ job'[h, g] = f[g]
<1>1. ASSUME NEW h2 \in Handlers, NEW g \in Groups
      PROVE  job'[h2, g] = IF h2 # h THEN job[h2, g]
                           ELSE IF g \in DOMAIN f THEN f[g] ELSE Null
  BY DEF Jobs
<1>2. ASSUME NEW h2 \in Handlers, NEW g \in Groups
      PROVE  job[h2, g] \in Job \cup {Null}
  BY TypesOfValues
<1>3. job' \in [Handlers \X Groups -> Job \cup {Null}]
  <2>1. job' = [hg \in Handlers \X Groups |->
                  IF hg[1] # h THEN job[hg]
                  ELSE IF hg[2] \in DOMAIN f THEN f[hg[2]] ELSE Null]
    BY DEF Jobs
  <2>2. job \in [Handlers \X Groups -> Job \cup {Null}]
    BY DEF TypeOK
  <2> QED
    BY <2>1, <2>2
<1> QED
  BY <1>1, <1>3

\* Most steps leave alone what lists are judged by.
LEMMA SameWorld ==
    ASSUME UNCHANGED <<owner, first, asked, unwanted>>
    PROVE  World' = World /\ GrowsTo(World, World')
  BY DEF World, GrowsTo

\* A created customer is one more.
LEMMA CreatedGrows ==
    ASSUME TypeOK, NEW id \in Ids, NEW e \in Emails, Created(id, e),
           UNCHANGED <<first, asked, unwanted>>
    PROVE  /\ owner' \in [Ids -> Emails \cup {Other, Null}]
           /\ owner'[id] = e
           /\ GrowsTo(World, World')
<1>1. owner \in [Ids -> Emails \cup {Other, Null}] /\ owner[id] = Null
      /\ owner' = [owner EXCEPT ![id] = e]
  BY DEF TypeOK, Created
<1>2. owner' \in [Ids -> Emails \cup {Other, Null}] /\ owner'[id] = e
      /\ \A x \in Ids : owner[x] # Null => owner'[x] = owner[x]
  BY <1>1
<1> QED
  BY <1>2 DEF World, GrowsTo

---------------------------------------------------------------------------
\* The steps that start a handler.
LEMMA HandlerSet ==
    ASSUME TypeOK, NEW h \in Handlers, NEW hd \in Handler \cup {Null},
           handler' = [handler EXCEPT ![h] = hd]
    PROVE  /\ handler' \in [Handlers -> Handler \cup {Null}]
           /\ handler'[h] = hd
           /\ \A h2 \in Handlers : h2 # h => handler'[h2] = handler[h2]
  BY DEF TypeOK

\* A start adds requests to the world.
LEMMA Requested ==
    ASSUME TypeOK, UNCHANGED <<owner, first>>,
           \A g \in Groups : asked[g] \subseteq asked'[g] /\ unwanted[g] \subseteq unwanted'[g]
    PROVE  GrowsTo(World, World')
  BY DEF World, GrowsTo

\* A step of one handler that ends in its phase of jobs leaves every job owned.
LEMMA OwnedKept ==
    ASSUME Owned, NEW h \in Handlers,
           handler'[h] # Null, handler'[h].phase = "jobs",
           \A h2 \in Handlers : h2 # h => handler'[h2] = handler[h2],
           \A h2 \in Handlers, g \in Groups :
               h2 # h => job'[h2, g] = job[h2, g]
    PROVE  Owned'
<1>1. ASSUME NEW h2 \in Handlers, NEW g \in Groups, job'[h2, g] # Null
      PROVE  handler'[h2] # Null /\ handler'[h2].phase = "jobs"
  <2>1. CASE h2 = h
    BY <2>1
  <2>2. CASE h2 # h
    <3>1. job[h2, g] # Null /\ handler'[h2] = handler[h2]
      BY <1>1, <2>2
    <3>2. handler[h2] # Null /\ handler[h2].phase = "jobs"
      BY <3>1, Zenon DEF Owned
    <3> QED
      BY <3>1, <3>2
  <2> QED
    BY <2>1, <2>2
<1> QED
  BY <1>1, Zenon DEF Owned

\* A handler that starts has no jobs yet.
LEMMA OwnedAtStart ==
    ASSUME Owned, NEW h \in Handlers, handler[h] = Null, UNCHANGED job,
           \A h2 \in Handlers : h2 # h => handler'[h2] = handler[h2]
    PROVE  Owned'
<1>1. ASSUME NEW h2 \in Handlers, NEW g \in Groups, job'[h2, g] # Null
      PROVE  handler'[h2] # Null /\ handler'[h2].phase = "jobs"
  <2>1. job[h2, g] # Null
    BY <1>1
  <2>2. handler[h2] # Null /\ handler[h2].phase = "jobs"
    BY <2>1, Zenon DEF Owned
  <2>3. handler'[h2] = handler[h2]
    BY <2>2
  <2> QED
    BY <2>2, <2>3
<1> QED
  BY <1>1, Zenon DEF Owned

LEMMA StartSyncKeeps ==
    ASSUME IInv, NEW h \in Handlers, NEW e \in Emails, NEW groups \in SUBSET Groups,
           StartSync(h, e, groups)
    PROVE  IInv'
<1>t. TypeOK
  BY DEF IInv
<1>s. Starts(h, "sync", "find", e, {}, groups)
  BY DEF StartSync
<1>1. UNCHANGED <<job, unwanted>>
  BY DEF StartSync
<1>2. asked' \in [Groups -> SUBSET (Emails \cup Ids)]
      /\ \A g \in Groups : asked[g] \subseteq asked'[g] /\ (g \in groups => e \in asked'[g])
  BY <1>t DEF StartSync, TypeOK
<1>3. /\ handler' \in [Handlers -> Handler \cup {Null}]
      /\ \A h2 \in Handlers : h2 # h => handler'[h2] = handler[h2]
      /\ handler'[h].kind = "sync" /\ handler'[h].phase = "find"
      /\ handler'[h].email = e /\ handler'[h].groups = groups
      /\ UNCHANGED <<owner, members, late, first, synced>>
  <2> DEFINE new == [kind |-> "sync", phase |-> "find", email |-> e, ids |-> {},
                     groups |-> groups, tries |-> 0, failed |-> FALSE, found |-> TRUE]
  <2>k. "sync" \in Kinds
    BY <1>s DEF Starts
  <2>1. new \in Handler
    BY <2>k, FirstTry DEF Handler
  <2>2. new.kind = "sync" /\ new.phase = "find" /\ new.email = e
        /\ new.ids = {} /\ new.groups = groups
    OBVIOUS
  <2>3. /\ handler' = [handler EXCEPT ![h] = new]
        /\ UNCHANGED <<owner, members, late, first, synced>>
    BY <1>s DEF Starts
  <2> HIDE DEF new
  <2>4. /\ handler' \in [Handlers -> Handler \cup {Null}]
        /\ handler'[h] = new
        /\ \A h2 \in Handlers : h2 # h => handler'[h2] = handler[h2]
    BY <1>t, <2>1, <2>3, HandlerSet
  <2> QED
    BY <2>2, <2>3, <2>4
<1>4. TypeOK'
  BY <1>t, <1>1, <1>2, <1>3 DEF TypeOK
<1>5. GrowsTo(World, World')
  BY <1>t, <1>1, <1>2, <1>3, Requested
<1>6. SoundHandler(World', handler'[h])
  BY <1>2, <1>3, SyncAssumption DEF World, SoundHandler
<1>o. Owned'
  <2>1. handler[h] = Null
    BY <1>s DEF Starts
  <2>2. Owned
    BY DEF IInv
  <2> QED
    BY <2>1, <2>2, <1>1, <1>3, OwnedAtStart
<1> QED
  BY <1>o, <1>1, <1>3, <1>4, <1>5, <1>6, StepKeeps

LEMMA StartSetKeeps ==
    ASSUME IInv, NEW h \in Handlers, NEW id \in Ids, NEW groups \in SUBSET Groups,
           StartSet(h, id, groups)
    PROVE  IInv'
<1>t. TypeOK
  BY DEF IInv
<1>s. Starts(h, "set", "find", Null, {id}, groups)
  BY DEF StartSet
<1>1. UNCHANGED job
  BY DEF StartSet
<1>2. /\ asked' \in [Groups -> SUBSET (Emails \cup Ids)]
      /\ unwanted' \in [Groups -> SUBSET Ids]
      /\ \A g \in Groups : asked[g] \subseteq asked'[g] /\ unwanted[g] \subseteq unwanted'[g]
      /\ \A g \in groups : id \in asked'[g]
      /\ \A g \in Groups \ groups : id \in unwanted'[g]
  BY <1>t DEF StartSet, TypeOK
<1>3. /\ handler' \in [Handlers -> Handler \cup {Null}]
      /\ \A h2 \in Handlers : h2 # h => handler'[h2] = handler[h2]
      /\ handler'[h].kind = "set" /\ handler'[h].phase = "find"
      /\ handler'[h].ids = {id} /\ handler'[h].groups = groups
      /\ UNCHANGED <<owner, members, late, first, synced>>
  <2> DEFINE new == [kind |-> "set", phase |-> "find", email |-> Null, ids |-> {id},
                     groups |-> groups, tries |-> 0, failed |-> FALSE, found |-> TRUE]
  <2>k. "set" \in Kinds
    BY <1>s DEF Starts
  <2>1. new \in Handler
    BY <2>k, FirstTry DEF Handler
  <2>2. new.kind = "set" /\ new.phase = "find" /\ new.email = Null
        /\ new.ids = {id} /\ new.groups = groups
    OBVIOUS
  <2>3. /\ handler' = [handler EXCEPT ![h] = new]
        /\ UNCHANGED <<owner, members, late, first, synced>>
    BY <1>s DEF Starts
  <2> HIDE DEF new
  <2>4. /\ handler' \in [Handlers -> Handler \cup {Null}]
        /\ handler'[h] = new
        /\ \A h2 \in Handlers : h2 # h => handler'[h2] = handler[h2]
    BY <1>t, <2>1, <2>3, HandlerSet
  <2> QED
    BY <2>2, <2>3, <2>4
<1>4. TypeOK'
  BY <1>t, <1>1, <1>2, <1>3 DEF TypeOK
<1>5. GrowsTo(World, World')
  BY <1>t, <1>1, <1>2, <1>3, Requested
<1>6. SoundHandler(World', handler'[h])
  BY <1>2, <1>3 DEF World, SoundHandler
<1>o. Owned'
  <2>1. handler[h] = Null
    BY <1>s DEF Starts
  <2>2. Owned
    BY DEF IInv
  <2> QED
    BY <2>1, <2>2, <1>1, <1>3, OwnedAtStart
<1> QED
  BY <1>o, <1>1, <1>3, <1>4, <1>5, <1>6, StepKeeps

LEMMA StartAddKeeps ==
    ASSUME IInv, NEW h \in Handlers, NEW ids \in SUBSET Ids, NEW g \in Groups,
           StartAdd(h, ids, g)
    PROVE  IInv'
<1>t. TypeOK
  BY DEF IInv
<1>s. Starts(h, "add", "jobs", Null, {}, {g})
  BY DEF StartAdd
<1>1. UNCHANGED unwanted
  BY DEF StartAdd
<1>2. /\ asked' \in [Groups -> SUBSET (Emails \cup Ids)]
      /\ \A x \in Groups : asked[x] \subseteq asked'[x]
      /\ ids \subseteq asked'[g]
  BY <1>t DEF StartAdd, TypeOK
<1>3. /\ handler' \in [Handlers -> Handler \cup {Null}]
      /\ \A h2 \in Handlers : h2 # h => handler'[h2] = handler[h2]
      /\ handler'[h].kind = "add" /\ handler'[h].phase = "jobs"
      /\ UNCHANGED <<owner, members, late, first, synced>>
  <2> DEFINE new == [kind |-> "add", phase |-> "jobs", email |-> Null, ids |-> {},
                     groups |-> {g}, tries |-> 0, failed |-> FALSE, found |-> TRUE]
  <2>k. "add" \in Kinds
    BY <1>s DEF Starts
  <2>1. new \in Handler
    BY <2>k, FirstTry DEF Handler
  <2>2. new.kind = "add" /\ new.phase = "jobs" /\ new.email = Null
        /\ new.ids = {} /\ new.groups = {g}
    OBVIOUS
  <2>3. /\ handler' = [handler EXCEPT ![h] = new]
        /\ UNCHANGED <<owner, members, late, first, synced>>
    BY <1>s DEF Starts
  <2> HIDE DEF new
  <2>4. /\ handler' \in [Handlers -> Handler \cup {Null}]
        /\ handler'[h] = new
        /\ \A h2 \in Handlers : h2 # h => handler'[h2] = handler[h2]
    BY <1>t, <2>1, <2>3, HandlerSet
  <2> QED
    BY <2>2, <2>3, <2>4
<1>4. /\ job' \in [Handlers \X Groups -> Job \cup {Null}]
      /\ \A h2 \in Handlers, x \in Groups : h2 # h => job'[h2, x] = job[h2, x]
      /\ \A x \in Groups : job'[h, x] # Null => x = g /\ job'[h, x] = NewJob("add", ids)
  <2>1. \A x \in {g} : NewJob("add", ids) \in Job
    BY NewJobIsJob
  <2> DEFINE f == [x \in {g} |-> NewJob("add", ids)]
  <2>2. Jobs(h, f)
    BY DEF StartAdd
  <2>3. DOMAIN f = {g} /\ \A x \in {g} : f[x] = NewJob("add", ids)
    OBVIOUS
  <2> HIDE DEF f
  <2>4. \A x \in DOMAIN f : f[x] \in Job
    BY <2>1, <2>3
  <2>5. job' \in [Handlers \X Groups -> Job \cup {Null}]
    BY <1>t, <2>2, <2>4, JobsChange, Zenon
  <2>6. \A h2 \in Handlers, x \in Groups : h2 # h => job'[h2, x] = job[h2, x]
    BY <1>t, <2>2, <2>4, JobsChange, Zenon
  <2>7. \A x \in Groups : job'[h, x] # Null => x \in DOMAIN f /\ job'[h, x] = f[x]
    <3>1. ASSUME NEW x \in Groups
          PROVE  job'[h, x] = IF x \in DOMAIN f THEN f[x] ELSE Null
      BY <2>2 DEF Jobs
    <3> QED
      BY <3>1
  <2> QED
    BY <2>3, <2>5, <2>6, <2>7
<1>5. TypeOK'
  BY <1>t, <1>1, <1>2, <1>3, <1>4 DEF TypeOK
<1>6. GrowsTo(World, World')
  BY <1>t, <1>1, <1>2, <1>3, Requested
<1>7. SoundHandler(World', handler'[h])
  BY <1>3 DEF SoundHandler
<1>8. SoundJob(World', g, NewJob("add", ids))
  BY <1>2, NewJobIsJob DEF World, SoundJob, AskedFor
<1>o. Owned'
  <2> DEFINE new == [kind |-> "add", phase |-> "jobs", email |-> Null, ids |-> {},
                     groups |-> {g}, tries |-> 0, failed |-> FALSE, found |-> TRUE]
  <2>1. new \in Handler /\ handler' = [handler EXCEPT ![h] = new]
    BY <1>s, FirstTry DEF Starts, Handler
  <2> HIDE DEF new
  <2>2. handler'[h] # Null
    BY <1>t, <2>1, HandlerSet, NoHandlerAssumption
  <2>3. Owned
    BY DEF IInv
  <2> QED
    BY <2>2, <2>3, <1>3, <1>4, OwnedKept
<1> QED
  BY <1>o, <1>3, <1>4, <1>5, <1>6, <1>7, <1>8, StepKeeps

LEMMA StartDropKeeps ==
    ASSUME IInv, NEW h \in Handlers, NEW ids \in SUBSET Ids, NEW g \in Groups,
           StartDrop(h, ids, g)
    PROVE  IInv'
<1>t. TypeOK
  BY DEF IInv
<1>s. Starts(h, "drop", "jobs", Null, ids, {g})
  BY DEF StartDrop
<1>1. UNCHANGED <<job, asked>>
  BY DEF StartDrop
<1>2. /\ unwanted' \in [Groups -> SUBSET Ids]
      /\ \A x \in Groups : unwanted[x] \subseteq unwanted'[x]
      /\ ids \subseteq unwanted'[g]
  BY <1>t DEF StartDrop, TypeOK
<1>3. /\ handler' \in [Handlers -> Handler \cup {Null}]
      /\ \A h2 \in Handlers : h2 # h => handler'[h2] = handler[h2]
      /\ handler'[h].kind = "drop" /\ handler'[h].phase = "jobs"
      /\ handler'[h].ids = ids /\ handler'[h].groups = {g}
      /\ UNCHANGED <<owner, members, late, first, synced>>
  <2> DEFINE new == [kind |-> "drop", phase |-> "jobs", email |-> Null, ids |-> ids,
                     groups |-> {g}, tries |-> 0, failed |-> FALSE, found |-> TRUE]
  <2>k. "drop" \in Kinds
    BY <1>s DEF Starts
  <2>1. new \in Handler
    BY <2>k, FirstTry DEF Handler
  <2>2. new.kind = "drop" /\ new.phase = "jobs" /\ new.email = Null
        /\ new.ids = ids /\ new.groups = {g}
    OBVIOUS
  <2>3. /\ handler' = [handler EXCEPT ![h] = new]
        /\ UNCHANGED <<owner, members, late, first, synced>>
    BY <1>s DEF Starts
  <2> HIDE DEF new
  <2>4. /\ handler' \in [Handlers -> Handler \cup {Null}]
        /\ handler'[h] = new
        /\ \A h2 \in Handlers : h2 # h => handler'[h2] = handler[h2]
    BY <1>t, <2>1, <2>3, HandlerSet
  <2> QED
    BY <2>2, <2>3, <2>4
<1>4. TypeOK'
  BY <1>t, <1>1, <1>2, <1>3 DEF TypeOK
<1>5. GrowsTo(World, World')
  BY <1>t, <1>1, <1>2, <1>3, Requested
<1>6. SoundHandler(World', handler'[h])
  BY <1>2, <1>3 DEF World, SoundHandler
<1>o. Owned'
  <2>1. handler[h] = Null
    BY <1>s DEF Starts
  <2>2. Owned
    BY DEF IInv
  <2> QED
    BY <2>1, <2>2, <1>1, <1>3, OwnedAtStart
<1> QED
  BY <1>o, <1>1, <1>3, <1>4, <1>5, <1>6, StepKeeps
---------------------------------------------------------------------------
\* The steps of a handler before its jobs, and from one job to the next.
LEMMA HandlerOf ==
    ASSUME IInv, NEW h \in Handlers, handler[h] # Null
    PROVE  handler[h] \in Handler /\ SoundHandler(World, handler[h])
  BY TypesOfValues DEF IInv

\* A found or created customer is put into the groups the webhook named.
LEMMA EnsuredKeeps ==
    ASSUME IInv, NEW h \in Handlers, NEW id \in Ids,
           handler[h] # Null, handler[h].kind = "sync", Ensured(h, id),
           owner' \in [Ids -> Emails \cup {Other, Null}], owner'[id] = handler[h].email,
           GrowsTo(World, World'), UNCHANGED <<members, late, first, asked, unwanted, synced>>
    PROVE  IInv'
<1>t. TypeOK
  BY DEF IInv
<1>1. handler[h] \in Handler /\ SoundHandler(World, handler[h])
  BY HandlerOf
<1>2. PICK hd \in Handler :
        /\ handler' = [handler EXCEPT ![h] = hd]
        /\ hd.kind = "sync" /\ hd.phase = "jobs"
        /\ hd.email = handler[h].email /\ hd.groups = handler[h].groups
  <2> DEFINE new == [handler[h] EXCEPT !.phase = "jobs", !.ids = {id}, !.tries = 0]
  <2>1. new \in Handler
    BY <1>1, FirstTry DEF Handler
  <2>2. /\ new.kind = "sync" /\ new.phase = "jobs"
        /\ new.email = handler[h].email /\ new.groups = handler[h].groups
    BY <1>1 DEF Handler
  <2>3. handler' = [handler EXCEPT ![h] = new]
    BY DEF Ensured
  <2> QED
    BY <2>1, <2>2, <2>3
<1>3. /\ handler' \in [Handlers -> Handler \cup {Null}]
      /\ handler'[h] = hd
      /\ \A h2 \in Handlers : h2 # h => handler'[h2] = handler[h2]
  BY <1>t, <1>2, HandlerSet
<1>4. /\ job' \in [Handlers \X Groups -> Job \cup {Null}]
      /\ \A h2 \in Handlers, g \in Groups : h2 # h => job'[h2, g] = job[h2, g]
      /\ \A g \in Groups : job'[h, g] # Null =>
             g \in handler[h].groups /\ job'[h, g] = NewJob("add", {id})
  <2>1. PICK f : /\ Jobs(h, f) /\ DOMAIN f = handler[h].groups
                 /\ \A g \in handler[h].groups : f[g] = NewJob("add", {id})
    <3> DEFINE j == [g \in handler[h].groups |-> NewJob("add", {id})]
    <3>1. Jobs(h, j)
      BY DEF Ensured
    <3>2. DOMAIN j = handler[h].groups /\ \A g \in handler[h].groups : j[g] = NewJob("add", {id})
      OBVIOUS
    <3> HIDE DEF j
    <3> QED
      BY <3>1, <3>2
  <2>2. \A g \in DOMAIN f : f[g] \in Job
    BY <2>1, NewJobIsJob
  <2>3. /\ job' \in [Handlers \X Groups -> Job \cup {Null}]
        /\ \A h2 \in Handlers, g \in Groups : h2 # h => job'[h2, g] = job[h2, g]
        /\ \A g \in Groups : job'[h, g] # Null => g \in DOMAIN f /\ job'[h, g] = f[g]
    BY <1>t, <2>1, <2>2, JobsChange, Zenon
  <2> QED
    BY <2>1, <2>3
<1>5. TypeOK'
  BY <1>t, <1>3, <1>4 DEF TypeOK
<1>6. SoundHandler(World', handler'[h])
  BY <1>1, <1>2, <1>3 DEF World, SoundHandler
<1>7. ASSUME NEW g \in handler[h].groups
      PROVE  SoundJob(World', g, NewJob("add", {id}))
  <2>1. handler[h].email \in asked'[g] /\ owner'[id] = handler[h].email
    BY <1>1 DEF World, SoundHandler
  <2>2. AskedFor(World', g, {id})
    BY <2>1 DEF World, AskedFor
  <2>3. /\ NewJob("add", {id}).op = "add" /\ NewJob("add", {id}).step = "get"
        /\ NewJob("add", {id}).ids = {id}
    BY NewJobIsJob
  <2> QED
    BY <2>2, <2>3 DEF SoundJob
<1>8. Owned'
  <2>1. handler'[h] # Null /\ handler'[h].phase = "jobs"
    BY <1>2, <1>3, NoHandlerAssumption
  <2>2. Owned
    BY DEF IInv
  <2> QED
    BY <2>1, <2>2, <1>3, <1>4, OwnedKept
<1> QED
  BY <1>3, <1>4, <1>5, <1>6, <1>7, <1>8, StepKeeps

LEMMA FindCustomerKeeps ==
    ASSUME IInv, NEW h \in Handlers, FindCustomer(h)
    PROVE  IInv'
<1>t. TypeOK
  BY DEF IInv
<1>1. /\ handler[h] # Null /\ handler[h].kind = "sync"
      /\ UNCHANGED <<owner, members, late, first, asked, unwanted, synced>>
  BY DEF FindCustomer, Is
<1>2. GrowsTo(World, World')
  BY <1>1, SameWorld
<1>5. handler[h].phase = "find"
  BY DEF FindCustomer, Is
<1>3. CASE \E id \in Matching(handler[h].email) : Ensured(h, id)
  <2>1. PICK id \in Ids : owner[id] = handler[h].email /\ Ensured(h, id)
    BY <1>3 DEF Matching
  <2>2. owner' \in [Ids -> Emails \cup {Other, Null}] /\ owner'[id] = handler[h].email
    BY <1>t, <1>1, <2>1 DEF TypeOK
  <2> QED
    BY <1>1, <1>2, <2>1, <2>2, EnsuredKeeps
<1>4. CASE /\ handler' = [handler EXCEPT ![h] = [@ EXCEPT !.phase = "create", !.tries = 0]]
           /\ UNCHANGED job
  <2>1. handler[h] \in Handler /\ SoundHandler(World, handler[h])
    BY <1>1, HandlerOf
  <2> DEFINE new == [handler[h] EXCEPT !.phase = "create", !.tries = 0]
  <2>2. new \in Handler
    BY <2>1, FirstTry DEF Handler
  <2>3. SoundHandler(World, new)
    BY <1>1, <2>1 DEF SoundHandler, Handler
  <2>4. handler' = [handler EXCEPT ![h] = new]
    BY <1>4
  <2> HIDE DEF new
  <2>5. /\ handler' \in [Handlers -> Handler \cup {Null}]
        /\ handler'[h] = new
        /\ \A h2 \in Handlers : h2 # h => handler'[h2] = handler[h2]
    BY <1>t, <2>2, <2>4, HandlerSet
  <2>6. TypeOK'
    BY <1>t, <1>1, <1>4, <2>5 DEF TypeOK
  <2>7. World' = World
    BY <1>1, SameWorld
  <2>8. Owned'
    BY <1>4, <1>5, <2>5 DEF IInv, Owned
  <2> QED
    BY <1>1, <1>2, <1>4, <2>3, <2>5, <2>6, <2>7, <2>8, StepKeeps
<1> QED
  BY <1>3, <1>4 DEF FindCustomer

LEMMA CreateCustomerKeeps ==
    ASSUME IInv, NEW h \in Handlers, CreateCustomer(h)
    PROVE  IInv'
<1>t. TypeOK
  BY DEF IInv
<1>1. /\ handler[h] # Null /\ handler[h].phase = "create"
      /\ UNCHANGED <<members, late, first, asked, unwanted, synced>>
  BY DEF CreateCustomer, Is
<1>2. handler[h] \in Handler /\ SoundHandler(World, handler[h])
  BY <1>1, HandlerOf
<1>3. handler[h].kind = "sync" /\ handler[h].email \in Emails
  BY <1>1, <1>2 DEF SoundHandler, Handler
<1>4. PICK id \in Ids : Created(id, handler[h].email) /\ Ensured(h, id)
  BY DEF CreateCustomer
<1>5. /\ owner' \in [Ids -> Emails \cup {Other, Null}]
      /\ owner'[id] = handler[h].email
      /\ GrowsTo(World, World')
  BY <1>t, <1>1, <1>3, <1>4, CreatedGrows
<1> QED
  BY <1>1, <1>3, <1>4, <1>5, EnsuredKeeps

\* A handler comes to new jobs of its own.
LEMMA NewJobsKeep ==
    ASSUME IInv, NEW h \in Handlers, NEW hd \in Handler, NEW f,
           handler' = [handler EXCEPT ![h] = hd], hd.phase = "jobs",
           SoundHandler(World, hd), Jobs(h, f),
           \A g \in DOMAIN f : g \in Groups /\ f[g] \in Job /\ SoundJob(World, g, f[g]),
           UNCHANGED <<owner, members, late, first, asked, unwanted, synced>>
    PROVE  IInv'
<1>t. TypeOK
  BY DEF IInv
<1>1. World' = World /\ GrowsTo(World, World')
  BY SameWorld
<1>2. /\ handler' \in [Handlers -> Handler \cup {Null}]
      /\ handler'[h] = hd
      /\ \A h2 \in Handlers : h2 # h => handler'[h2] = handler[h2]
  BY <1>t, HandlerSet
<1>3. \A g \in DOMAIN f : f[g] \in Job
  OBVIOUS
<1>4. /\ job' \in [Handlers \X Groups -> Job \cup {Null}]
      /\ \A h2 \in Handlers, g \in Groups : h2 # h => job'[h2, g] = job[h2, g]
      /\ \A g \in Groups : job'[h, g] # Null => g \in DOMAIN f /\ job'[h, g] = f[g]
  BY <1>t, <1>3, JobsChange, Zenon
<1>5. TypeOK'
  BY <1>t, <1>2, <1>4 DEF TypeOK
<1>6. Owned'
  <2>1. handler'[h] # Null /\ handler'[h].phase = "jobs"
    BY <1>2, NoHandlerAssumption
  <2>2. Owned
    BY DEF IInv
  <2> QED
    BY <2>1, <2>2, <1>2, <1>4, OwnedKept
<1>7. ASSUME NEW h2 \in Handlers, NEW g \in Groups, job'[h2, g] # Null
      PROVE  job'[h2, g] = job[h2, g] \/ SoundJob(World', g, job'[h2, g])
  <2>1. CASE h2 # h
    BY <2>1, <1>4
  <2>2. CASE h2 = h
    BY <2>2, <1>1, <1>4, <1>7
  <2> QED
    BY <2>1, <2>2
<1> QED
  BY <1>1, <1>2, <1>5, <1>6, <1>7, StepKeeps

LEMMA FindGroupsKeeps ==
    ASSUME IInv, NEW h \in Handlers, FindGroups(h)
    PROVE  IInv'
<1>6. PICK id \in handler[h].ids, found \in BOOLEAN :
        /\ Jobs(h, SetJobs(id, handler[h].groups, CurrentGroups(id, found)))
        /\ handler' = [handler EXCEPT ![h] = [@ EXCEPT !.phase = "jobs", !.found = found]]
  BY DEF FindGroups
<1> DEFINE new == [handler[h] EXCEPT !.phase = "jobs", !.found = found]
<1>1. handler[h] # Null /\ handler[h].kind = "set"
  BY DEF FindGroups, Is
<1>2. handler[h] \in Handler /\ SoundHandler(World, handler[h])
  BY <1>1, HandlerOf
<1>3. /\ new \in Handler /\ new.phase = "jobs"
      /\ new.kind = "set" /\ new.ids = handler[h].ids /\ new.groups = handler[h].groups
  BY <1>1, <1>2 DEF Handler
<1>4. SoundHandler(World, new)
  BY <1>1, <1>2, <1>3 DEF SoundHandler
<1>5. handler' = [handler EXCEPT ![h] = new]
  BY <1>6
<1> HIDE DEF new
<1> DEFINE in == CurrentGroups(id, found)
           f == SetJobs(id, handler[h].groups, in)
<1>7. id \in Ids /\ handler[h].groups \subseteq Groups
  BY <1>2, <1>6 DEF Handler
<1>8. ASSUME NEW g \in DOMAIN f
      PROVE  g \in Groups /\ f[g] \in Job /\ SoundJob(World, g, f[g])
  <2>1. g \in Groups
    BY <1>7 DEF SetJobs, CurrentGroups
  <2>2. f[g] = NewJob(IF g \in handler[h].groups THEN "add" ELSE "remove", {id})
    BY DEF SetJobs
  <2>3. CASE g \in handler[h].groups
    <3>1. f[g] = NewJob("add", {id}) /\ {id} \in SUBSET Ids
      BY <1>7, <2>2, <2>3
    <3>2. AskedFor(World, g, {id})
      BY <1>1, <1>2, <1>6, <2>3 DEF SoundHandler, AskedFor
    <3> HIDE DEF f
    <3> QED
      BY <2>1, <3>1, <3>2, NewJobIsJob DEF SoundJob
  <2>4. CASE g \notin handler[h].groups
    <3>1. f[g] = NewJob("remove", {id}) /\ {id} \in SUBSET Ids
      BY <1>7, <2>2, <2>4
    <3>2. {id} \subseteq World.unwanted[g]
      BY <1>1, <1>2, <1>6, <2>1, <2>4 DEF SoundHandler
    <3> HIDE DEF f
    <3> QED
      BY <2>1, <3>1, <3>2, NewJobIsJob DEF SoundJob
  <2> QED
    BY <2>3, <2>4
<1>9. Jobs(h, f)
  BY <1>6
<1>10. UNCHANGED <<owner, members, late, first, asked, unwanted, synced>>
  BY DEF FindGroups
<1> HIDE DEF f
<1> QED
  BY <1>3, <1>4, <1>5, <1>8, <1>9, <1>10, NewJobsKeep

LEMMA DropNextKeeps ==
    ASSUME IInv, NEW h \in Handlers, NEW id \in Ids, DropNext(h, id)
    PROVE  IInv'
<1> DEFINE new == [handler[h] EXCEPT !.ids = handler[h].ids \ {id}]
<1>1. /\ handler[h] # Null /\ handler[h].phase = "jobs" /\ handler[h].kind = "drop"
      /\ id \in handler[h].ids
  BY DEF DropNext, Is
<1>2. handler[h] \in Handler /\ SoundHandler(World, handler[h])
  BY <1>1, HandlerOf
<1>3. /\ new \in Handler /\ new.phase = "jobs" /\ new.kind = "drop"
      /\ new.ids = handler[h].ids \ {id} /\ new.groups = handler[h].groups
  BY <1>1, <1>2 DEF Handler
<1>4. SoundHandler(World, new)
  BY <1>1, <1>2, <1>3 DEF SoundHandler
<1>5. handler' = [handler EXCEPT ![h] = new]
  BY DEF DropNext
<1> HIDE DEF new
<1> DEFINE f == [g \in handler[h].groups |-> NewJob("remove", {id})]
<1>6. ASSUME NEW g \in DOMAIN f
      PROVE  g \in Groups /\ f[g] \in Job /\ SoundJob(World, g, f[g])
  <2>1. g \in Groups /\ g \in handler[h].groups
    BY <1>2 DEF Handler
  <2>2. {id} \subseteq World.unwanted[g]
    BY <1>1, <1>2, <2>1 DEF SoundHandler
  <2>3. f[g] = NewJob("remove", {id}) /\ {id} \in SUBSET Ids
    OBVIOUS
  <2> HIDE DEF f
  <2> QED
    BY <2>1, <2>2, <2>3, NewJobIsJob DEF SoundJob
<1>7. Jobs(h, f)
  BY DEF DropNext
<1>8. UNCHANGED <<owner, members, late, first, asked, unwanted, synced>>
  BY DEF DropNext
<1> HIDE DEF f
<1> QED
  BY <1>3, <1>4, <1>5, <1>6, <1>7, <1>8, NewJobsKeep
---------------------------------------------------------------------------
\* The steps of a job.
LEMMA JobSet ==
    ASSUME TypeOK, NEW h \in Handlers, NEW g \in Groups, NEW j \in Job \cup {Null},
           job' = [job EXCEPT ![<<h, g>>] = j]
    PROVE  /\ job' \in [Handlers \X Groups -> Job \cup {Null}]
           /\ job'[h, g] = j
           /\ \A h2 \in Handlers, g2 \in Groups :
                  h2 # h \/ g2 # g => job'[h2, g2] = job[h2, g2]
<1>1. job \in [Handlers \X Groups -> Job \cup {Null}] /\ <<h, g>> \in Handlers \X Groups
  BY DEF TypeOK
<1>2. ASSUME NEW h2 \in Handlers, NEW g2 \in Groups, h2 # h \/ g2 # g
      PROVE  job'[h2, g2] = job[h2, g2]
  <2>1. <<h2, g2>> \in Handlers \X Groups /\ <<h2, g2>> # <<h, g>>
    BY <1>2
  <2> QED
    BY <1>1, <2>1
<1> QED
  BY <1>1, <1>2

LEMMA JobOf ==
    ASSUME IInv, NEW h \in Handlers, NEW g \in Groups, job[h, g] # Null
    PROVE  /\ job[h, g] \in Job /\ SoundJob(World, g, job[h, g])
           /\ handler[h] # Null /\ handler[h].phase = "jobs"
  BY TypesOfValues DEF IInv, Owned

LEMMA ReadGroupKeeps ==
    ASSUME IInv, NEW h \in Handlers, NEW g \in Groups, ReadGroup(h, g)
    PROVE  IInv'
<1>t. TypeOK
  BY DEF IInv
<1> DEFINE new == [job[h, g] EXCEPT !.step = "put", !.list = members[g], !.tries = 0]
<1>1. UNCHANGED <<owner, members, handler, late, first, asked, unwanted, synced>>
  BY DEF ReadGroup
<1>2. World' = World /\ GrowsTo(World, World')
  BY <1>1, SameWorld
<1>3. /\ job[h, g] \in Job /\ SoundJob(World, g, job[h, g])
      /\ handler[h] # Null /\ handler[h].phase = "jobs"
  BY JobOf DEF ReadGroup, At
<1>4. members[g] \in SUBSET Ids /\ Sound(World, g, members[g])
  BY TypesOfValues DEF IInv
<1>5. /\ new \in Job /\ new.op = job[h, g].op /\ new.ids = job[h, g].ids
      /\ new.list = members[g]
  BY <1>3, <1>4, FirstTry DEF Job
<1>6. SoundJob(World, g, new)
  BY <1>3, <1>4, <1>5 DEF SoundJob
<1>7. job' = [job EXCEPT ![<<h, g>>] = new]
  BY DEF ReadGroup
<1> HIDE DEF new
<1>8. /\ job' \in [Handlers \X Groups -> Job \cup {Null}]
      /\ job'[h, g] = new
      /\ \A h2 \in Handlers, g2 \in Groups :
             h2 # h \/ g2 # g => job'[h2, g2] = job[h2, g2]
  BY <1>t, <1>5, <1>7, JobSet
<1>9. TypeOK'
  BY <1>t, <1>1, <1>8 DEF TypeOK
<1>10. Owned'
  BY <1>1, <1>3, <1>8 DEF IInv, Owned
<1> QED
  BY <1>1, <1>2, <1>6, <1>8, <1>9, <1>10, StepKeeps

\* A list that a job writes is sound.
LEMMA JobWrites ==
    ASSUME IInv, NEW h \in Handlers, NEW g \in Groups, At(h, g, "put")
    PROVE  NewList(job[h, g]) \in SUBSET Ids /\ Sound(World, g, NewList(job[h, g]))
  BY JobOf, NewListIsSound DEF At

LEMMA Overwriting ==
    ASSUME TypeOK, NEW g \in Groups, NEW list \in SUBSET Ids, Overwritten(g, list)
    PROVE  /\ members' \in [Groups -> SUBSET Ids]
           /\ members'[g] = list
           /\ \A g2 \in Groups : g2 # g => members'[g2] = members[g2]
  BY DEF TypeOK, Overwritten

LEMMA WriteGroupKeeps ==
    ASSUME IInv, NEW h \in Handlers, NEW g \in Groups, WriteGroup(h, g)
    PROVE  IInv'
<1>t. TypeOK
  BY DEF IInv
<1>1. UNCHANGED <<owner, handler, late, first, asked, unwanted, synced>>
  BY DEF WriteGroup
<1>2. World' = World /\ GrowsTo(World, World')
  BY <1>1, SameWorld
<1>3. NewList(job[h, g]) \in SUBSET Ids /\ Sound(World, g, NewList(job[h, g]))
  BY JobWrites DEF WriteGroup
<1>4. /\ members' \in [Groups -> SUBSET Ids]
      /\ members'[g] = NewList(job[h, g])
      /\ \A g2 \in Groups : g2 # g => members'[g2] = members[g2]
  BY <1>t, <1>3, Overwriting DEF WriteGroup
<1>5. job' = [job EXCEPT ![<<h, g>>] = Null]
  BY DEF WriteGroup
<1>6. /\ job' \in [Handlers \X Groups -> Job \cup {Null}]
      /\ job'[h, g] = Null
      /\ \A h2 \in Handlers, g2 \in Groups :
             h2 # h \/ g2 # g => job'[h2, g2] = job[h2, g2]
  BY <1>t, <1>5, JobSet
<1>7. TypeOK'
  BY <1>t, <1>1, <1>4, <1>6 DEF TypeOK
<1>8. Owned'
  BY <1>1, <1>6 DEF IInv, Owned
<1> QED
  BY <1>1, <1>2, <1>3, <1>4, <1>6, <1>7, <1>8, StepKeeps

\* A job that failed for good is over and its handler marked.
LEMMA JobErrorsIs ==
    ASSUME IInv, NEW h \in Handlers, NEW g \in Groups, job[h, g] # Null,
           JobErrors(h, g), UNCHANGED <<owner, first, asked, unwanted>>
    PROVE  /\ job' \in [Handlers \X Groups -> Job \cup {Null}]
           /\ handler' \in [Handlers -> Handler \cup {Null}]
           /\ Owned'
           /\ \A h2 \in Handlers, g2 \in Groups :
                  job'[h2, g2] # Null => job'[h2, g2] = job[h2, g2]
           /\ \A h2 \in Handlers : handler'[h2] # Null =>
                  handler'[h2] = handler[h2] \/ SoundHandler(World', handler'[h2])
<1>t. TypeOK
  BY DEF IInv
<1> DEFINE new == [handler[h] EXCEPT !.failed = TRUE]
<1>1. handler[h] # Null /\ handler[h].phase = "jobs"
  BY JobOf
<1>2. handler[h] \in Handler /\ SoundHandler(World, handler[h])
  BY <1>1, HandlerOf
<1>3. new \in Handler
  BY <1>2 DEF Handler
<1>4. /\ new.phase = "jobs" /\ new.kind = handler[h].kind /\ new.email = handler[h].email
      /\ new.ids = handler[h].ids /\ new.groups = handler[h].groups
  BY <1>1, <1>2 DEF Handler
<1>5. handler' = [handler EXCEPT ![h] = new]
  BY DEF JobErrors
<1>6. SoundHandler(World', new)
  <2>1. SoundHandler(World, new)
    BY <1>1, <1>2, <1>4 DEF SoundHandler
  <2> QED
    BY <2>1, SameWorld
<1> HIDE DEF new
<1>7. /\ handler' \in [Handlers -> Handler \cup {Null}]
      /\ handler'[h] = new
      /\ \A h2 \in Handlers : h2 # h => handler'[h2] = handler[h2]
  BY <1>t, <1>3, <1>5, HandlerSet
<1>8. job' = [job EXCEPT ![<<h, g>>] = Null]
  BY DEF JobErrors
<1>9. /\ job' \in [Handlers \X Groups -> Job \cup {Null}]
      /\ job'[h, g] = Null
      /\ \A h2 \in Handlers, g2 \in Groups :
             h2 # h \/ g2 # g => job'[h2, g2] = job[h2, g2]
  BY <1>t, <1>8, JobSet
<1>10. handler'[h] # Null /\ handler'[h].phase = "jobs"
  BY <1>3, <1>4, <1>7, NoHandlerAssumption
<1>11. Owned'
  <2>1. Owned
    BY DEF IInv
  <2>2. \A h2 \in Handlers, x \in Groups : h2 # h => job'[h2, x] = job[h2, x]
    BY <1>9
  <2> QED
    BY <2>1, <2>2, <1>7, <1>10, OwnedKept
<1> QED
  BY <1>6, <1>7, <1>9, <1>11

LEMMA JobRefusedKeeps ==
    ASSUME IInv, NEW h \in Handlers, NEW g \in Groups, JobRefused(h, g)
    PROVE  IInv'
<1>1. /\ job[h, g] # Null /\ JobErrors(h, g)
      /\ UNCHANGED <<owner, members, late, first, asked, unwanted, synced>>
  BY DEF JobRefused
<1>2. /\ job' \in [Handlers \X Groups -> Job \cup {Null}]
      /\ handler' \in [Handlers -> Handler \cup {Null}]
      /\ Owned'
      /\ \A h2 \in Handlers, g2 \in Groups :
             job'[h2, g2] # Null => job'[h2, g2] = job[h2, g2]
      /\ \A h2 \in Handlers : handler'[h2] # Null =>
             handler'[h2] = handler[h2] \/ SoundHandler(World', handler'[h2])
  BY <1>1, JobErrorsIs
<1>3. TypeOK'
  BY <1>1, <1>2 DEF IInv, TypeOK
<1> QED
  BY <1>1, <1>2, <1>3, SameWorld, StepKeeps

LEMMA CallsAreCalls ==
    /\ \A g \in Groups, list \in SUBSET Ids :
           /\ Put(g, list) \in Call
           /\ Put(g, list).group = g /\ Put(g, list).list = list
    /\ \A e \in Emails : Post(e) \in Call /\ Post(e).group = Null
<1>1. ASSUME NEW g \in Groups, NEW list \in SUBSET Ids PROVE Put(g, list) \in Call
  BY <1>1 DEF Call
<1>2. ASSUME NEW e \in Emails PROVE Post(e) \in Call
  BY DEF Call
<1>3. \A g, list : Put(g, list).group = g /\ Put(g, list).list = list
  BY DEF Put
<1>4. \A e : Post(e).group = Null
  BY DEF Post
<1> QED
  BY <1>1, <1>2, <1>3, <1>4

\* A call without an answer leaves at most itself behind.
LEMMA UnheardIs ==
    ASSUME IInv, NEW c \in Call, SoundCall(World, c), Unheard(c),
           UNCHANGED <<first, asked, unwanted>>
    PROVE  /\ UNCHANGED <<owner, members>>
           /\ late' \subseteq Call
           /\ \A c2 \in late' : c2 \in late \/ SoundCall(World', c2)
<1>1. UNCHANGED <<owner, members>> /\ (late' = late \/ late' = late \cup {c})
  BY DEF Unheard
<1>2. World' = World
  BY <1>1, SameWorld
<1>3. late \subseteq Call
  BY DEF IInv, TypeOK
<1> QED
  BY <1>1, <1>2, <1>3

LEMMA NextTry ==
    ASSUME NEW t \in Tries, MayRetry(t)
    PROVE  t + 1 \in Tries
  BY SyncAssumption DEF Tries, MayRetry

\* A job's call is repeated, or the job is over.
LEMMA JobRepeatsOrErrors ==
    ASSUME IInv, NEW h \in Handlers, NEW g \in Groups, JobLost(h, g)
    PROVE  /\ job' \in [Handlers \X Groups -> Job \cup {Null}]
           /\ handler' \in [Handlers -> Handler \cup {Null}]
           /\ Owned'
           /\ \A h2 \in Handlers, g2 \in Groups : job'[h2, g2] # Null =>
                  job'[h2, g2] = job[h2, g2] \/ SoundJob(World', g2, job'[h2, g2])
           /\ \A h2 \in Handlers : handler'[h2] # Null =>
                  handler'[h2] = handler[h2] \/ SoundHandler(World', handler'[h2])
<1>t. TypeOK
  BY DEF IInv
<1>1. /\ job[h, g] # Null
      /\ UNCHANGED <<owner, first, asked, unwanted>>
  BY DEF JobLost, Unheard
<1>2. World' = World
  BY <1>1, SameWorld
<1>3. CASE MayRetry(job[h, g].tries)
  <2> DEFINE new == [job[h, g] EXCEPT !.tries = job[h, g].tries + 1]
  <2>1. /\ job[h, g] \in Job /\ SoundJob(World, g, job[h, g])
        /\ handler[h] # Null /\ handler[h].phase = "jobs"
    BY <1>1, JobOf
  <2>2. job[h, g].tries + 1 \in Tries
    BY <1>3, <2>1, NextTry DEF Job
  <2>3. new \in Job
    <3> DEFINE t == job[h, g].tries + 1
    <3> HIDE DEF t
    <3>1. [job[h, g] EXCEPT !.tries = t] \in Job
      BY <2>1, <2>2 DEF Job, t
    <3> QED
      BY <3>1 DEF t
  <2>4. /\ new.op = job[h, g].op /\ new.ids = job[h, g].ids
        /\ new.step = job[h, g].step /\ new.list = job[h, g].list
    BY <2>1 DEF Job
  <2>5. job' = [job EXCEPT ![<<h, g>>] = new] /\ handler' = handler
    BY <1>3 DEF JobLost
  <2> HIDE DEF new
  <2>6. SoundJob(World, g, new)
    BY <2>1, <2>4 DEF SoundJob
  <2>7. /\ job' \in [Handlers \X Groups -> Job \cup {Null}]
        /\ job'[h, g] = new
        /\ \A h2 \in Handlers, g2 \in Groups :
               h2 # h \/ g2 # g => job'[h2, g2] = job[h2, g2]
    BY <1>t, <2>3, <2>5, JobSet
  <2>8. Owned'
    <3>1. ASSUME NEW h2 \in Handlers, NEW g2 \in Groups, job'[h2, g2] # Null
          PROVE  handler[h2] # Null /\ handler[h2].phase = "jobs"
      <4>1. CASE h2 = h
        BY <2>1, <4>1
      <4>2. CASE h2 # h
        BY <2>7, <3>1, <4>2 DEF IInv, Owned
      <4> QED
        BY <4>1, <4>2
    <3> QED
      BY <2>5, <3>1 DEF Owned
  <2>9. handler' \in [Handlers -> Handler \cup {Null}]
    BY <1>t, <2>5 DEF TypeOK
  <2> QED
    BY <1>2, <2>5, <2>6, <2>7, <2>8, <2>9
<1>4. CASE ~MayRetry(job[h, g].tries)
  <2>1. JobErrors(h, g)
    BY <1>4 DEF JobLost
  <2> QED
    BY <1>1, <2>1, JobErrorsIs
<1> QED
  BY <1>3, <1>4

LEMMA JobLostKeeps ==
    ASSUME IInv, NEW h \in Handlers, NEW g \in Groups, JobLost(h, g)
    PROVE  IInv'
<1>t. TypeOK
  BY DEF IInv
<1>1. UNCHANGED <<owner, first, asked, unwanted, synced>>
  BY DEF JobLost, Unheard
<1>2. World' = World /\ GrowsTo(World, World')
  BY <1>1, SameWorld
<1>3. /\ job' \in [Handlers \X Groups -> Job \cup {Null}]
      /\ handler' \in [Handlers -> Handler \cup {Null}]
      /\ Owned'
      /\ \A h2 \in Handlers, g2 \in Groups : job'[h2, g2] # Null =>
             job'[h2, g2] = job[h2, g2] \/ SoundJob(World', g2, job'[h2, g2])
      /\ \A h2 \in Handlers : handler'[h2] # Null =>
             handler'[h2] = handler[h2] \/ SoundHandler(World', handler'[h2])
  BY JobRepeatsOrErrors
<1>4. CASE UNCHANGED <<members, late>>
  <2>1. TypeOK'
    BY <1>t, <1>1, <1>3, <1>4 DEF TypeOK
  <2> QED
    BY <1>2, <1>3, <1>4, <2>1, StepKeeps
<1>5. CASE At(h, g, "put") /\ Unheard(Put(g, NewList(job[h, g])))
  <2> DEFINE c == Put(g, NewList(job[h, g]))
  <2>1. NewList(job[h, g]) \in SUBSET Ids /\ Sound(World, g, NewList(job[h, g]))
    BY <1>5, JobWrites
  <2>2. c \in Call /\ SoundCall(World, c)
    <3>1. c \in Call /\ c.group = g /\ c.list = NewList(job[h, g])
      BY <2>1, CallsAreCalls
    <3> HIDE DEF c
    <3> QED
      BY <2>1, <3>1 DEF SoundCall
  <2>3. Unheard(c)
    BY <1>5
  <2> HIDE DEF c
  <2>4. /\ UNCHANGED members
        /\ late' \subseteq Call
        /\ \A c2 \in late' : c2 \in late \/ SoundCall(World', c2)
    BY <1>1, <2>2, <2>3, UnheardIs
  <2>5. TypeOK'
    BY <1>t, <1>1, <1>3, <2>4 DEF TypeOK
  <2> QED
    BY <1>2, <1>3, <2>4, <2>5, StepKeeps
<1>6. CASE At(h, g, "put") /\ Overwritten(g, NewList(job[h, g])) /\ UNCHANGED late
  <2>1. NewList(job[h, g]) \in SUBSET Ids /\ Sound(World, g, NewList(job[h, g]))
    BY <1>6, JobWrites
  <2>2. /\ members' \in [Groups -> SUBSET Ids]
        /\ members'[g] = NewList(job[h, g])
        /\ \A g2 \in Groups : g2 # g => members'[g2] = members[g2]
    BY <1>t, <1>6, <2>1, Overwriting
  <2>3. TypeOK'
    BY <1>t, <1>1, <1>3, <1>6, <2>2 DEF TypeOK
  <2> QED
    BY <1>2, <1>3, <1>6, <2>1, <2>2, <2>3, StepKeeps
<1> QED
  BY <1>4, <1>5, <1>6 DEF JobLost
---------------------------------------------------------------------------
\* A handler's own calls that fail, and its end.
LEMMA EndsOrRepeats ==
    ASSUME IInv, NEW h \in Handlers, Is(h, "find") \/ Is(h, "create"),
           Repeats(h) \/ Errors(h), UNCHANGED <<asked, unwanted>>
    PROVE  /\ UNCHANGED job
           /\ handler' \in [Handlers -> Handler \cup {Null}]
           /\ Owned'
           /\ \A h2 \in Handlers : handler'[h2] # Null =>
                  handler'[h2] = handler[h2] \/ SoundHandler(World', handler'[h2])
<1>t. TypeOK
  BY DEF IInv
<1>1. /\ handler[h] # Null
      /\ handler[h].phase = "find" \/ handler[h].phase = "create"
  BY DEF Is
<1>2. handler[h] \in Handler /\ SoundHandler(World, handler[h])
  BY <1>1, HandlerOf
<1>3. UNCHANGED job
  BY DEF Repeats, Errors
<1>4. \A g \in Groups : job[h, g] = Null
  BY <1>1 DEF IInv, Owned
<1>5. CASE Errors(h)
  <2>1. handler' = [handler EXCEPT ![h] = Null]
    BY <1>5 DEF Errors
  <2>2. /\ handler' \in [Handlers -> Handler \cup {Null}]
        /\ handler'[h] = Null
        /\ \A h2 \in Handlers : h2 # h => handler'[h2] = handler[h2]
    BY <1>t, <2>1, HandlerSet
  <2>3. Owned'
    BY <1>3, <1>4, <2>2 DEF IInv, Owned
  <2> QED
    BY <1>3, <2>2, <2>3
<1>6. CASE Repeats(h) /\ MayRetry(handler[h].tries)
  <2> DEFINE t == handler[h].tries + 1
             new == [handler[h] EXCEPT !.tries = t]
  <2>1. t \in Tries
    BY <1>2, <1>6, NextTry DEF Handler
  <2>2. handler' = [handler EXCEPT ![h] = new]
    BY <1>6 DEF Repeats
  <2> HIDE DEF t
  <2>3. /\ new \in Handler /\ new.phase = handler[h].phase /\ new.kind = handler[h].kind
        /\ new.email = handler[h].email /\ new.ids = handler[h].ids
        /\ new.groups = handler[h].groups
    BY <1>2, <2>1 DEF Handler
  <2>4. SoundHandler(World', new)
    BY <1>2, <2>3 DEF World, SoundHandler
  <2> HIDE DEF new
  <2>5. /\ handler' \in [Handlers -> Handler \cup {Null}]
        /\ handler'[h] = new
        /\ \A h2 \in Handlers : h2 # h => handler'[h2] = handler[h2]
    BY <1>t, <2>2, <2>3, HandlerSet
  <2>6. Owned'
    BY <1>3, <1>4, <2>5 DEF IInv, Owned
  <2> QED
    BY <1>3, <2>4, <2>5, <2>6
<1> QED
  BY <1>5, <1>6 DEF Repeats

LEMMA CallRefusedKeeps ==
    ASSUME IInv, NEW h \in Handlers, CallRefused(h)
    PROVE  IInv'
<1>1. /\ Is(h, "find") \/ Is(h, "create")
      /\ Errors(h)
      /\ UNCHANGED <<owner, members, late, first, asked, unwanted, synced>>
  BY DEF CallRefused
<1>2. /\ UNCHANGED job
      /\ handler' \in [Handlers -> Handler \cup {Null}]
      /\ Owned'
      /\ \A h2 \in Handlers : handler'[h2] # Null =>
             handler'[h2] = handler[h2] \/ SoundHandler(World', handler'[h2])
  BY <1>1, EndsOrRepeats
<1>3. TypeOK'
  BY <1>1, <1>2 DEF IInv, TypeOK
<1> QED
  BY <1>1, <1>2, <1>3, SameWorld, StepKeeps

LEMMA CallLostKeeps ==
    ASSUME IInv, NEW h \in Handlers, CallLost(h)
    PROVE  IInv'
<1>t. TypeOK
  BY DEF IInv
<1>1. /\ Is(h, "find") \/ Is(h, "create")
      /\ Repeats(h)
      /\ UNCHANGED <<first, asked, unwanted, synced>>
  BY DEF CallLost
<1>2. /\ UNCHANGED job
      /\ handler' \in [Handlers -> Handler \cup {Null}]
      /\ Owned'
      /\ \A h2 \in Handlers : handler'[h2] # Null =>
             handler'[h2] = handler[h2] \/ SoundHandler(World', handler'[h2])
  BY <1>1, EndsOrRepeats
<1>3. ASSUME Is(h, "create") PROVE handler[h].email \in Emails
  <2>1. handler[h] # Null /\ handler[h].phase = "create"
    BY <1>3 DEF Is
  <2>2. handler[h] \in Handler /\ SoundHandler(World, handler[h])
    BY <2>1, HandlerOf
  <2> QED
    BY <2>1, <2>2 DEF SoundHandler, Handler
<1>4. CASE UNCHANGED <<owner, members, late>>
  <2>1. TypeOK'
    BY <1>t, <1>1, <1>2, <1>4 DEF TypeOK
  <2> QED
    BY <1>1, <1>2, <1>4, <2>1, SameWorld, StepKeeps
<1>5. CASE Is(h, "create") /\ Unheard(Post(handler[h].email))
  <2> DEFINE c == Post(handler[h].email)
  <2>1. c \in Call /\ c.group = Null
    BY <1>3, <1>5, CallsAreCalls
  <2>2. SoundCall(World, c)
    BY <2>1 DEF SoundCall
  <2>3. Unheard(c)
    BY <1>5
  <2> HIDE DEF c
  <2>4. /\ UNCHANGED <<owner, members>>
        /\ late' \subseteq Call
        /\ \A c2 \in late' : c2 \in late \/ SoundCall(World', c2)
    BY <1>1, <2>1, <2>2, <2>3, UnheardIs
  <2>5. TypeOK'
    BY <1>t, <1>1, <1>2, <2>4 DEF TypeOK
  <2>6. GrowsTo(World, World')
    BY <1>1, <2>4, SameWorld
  <2> QED
    BY <1>2, <2>4, <2>5, <2>6, StepKeeps
<1>6. CASE /\ Is(h, "create")
           /\ \E id \in Ids : Created(id, handler[h].email)
           /\ UNCHANGED <<members, late>>
  <2>1. PICK id \in Ids : Created(id, handler[h].email)
    BY <1>6
  <2>2. owner' \in [Ids -> Emails \cup {Other, Null}] /\ GrowsTo(World, World')
    BY <1>t, <1>1, <1>3, <1>6, <2>1, CreatedGrows
  <2>3. TypeOK'
    BY <1>t, <1>1, <1>2, <1>6, <2>2 DEF TypeOK
  <2> QED
    BY <1>2, <1>6, <2>2, <2>3, StepKeeps
<1> QED
  BY <1>4, <1>5, <1>6 DEF CallLost

LEMMA FinishKeeps ==
    ASSUME IInv, NEW h \in Handlers, Finish(h)
    PROVE  IInv'
<1>t. TypeOK
  BY DEF IInv
<1>1. /\ handler[h] # Null
      /\ \A g \in Groups : job[h, g] = Null
      /\ handler' = [handler EXCEPT ![h] = Null]
      /\ UNCHANGED <<owner, members, job, late, first, asked, unwanted>>
  BY DEF Finish, Is
<1>2. handler[h] \in Handler /\ SoundHandler(World, handler[h])
  BY <1>1, HandlerOf
<1>3. synced' \subseteq Emails \X Groups
  <2>1. CASE synced' = synced
    BY <1>t, <2>1 DEF TypeOK
  <2>2. CASE /\ handler[h].kind = "sync"
             /\ synced' = synced \cup ({handler[h].email} \X handler[h].groups)
    <3>1. handler[h].email \in Emails /\ handler[h].groups \subseteq Groups
      BY <1>2, <2>2 DEF SoundHandler, Handler
    <3> QED
      BY <1>t, <2>2, <3>1 DEF TypeOK
  <2> QED
    BY <2>1, <2>2 DEF Finish
<1>4. /\ handler' \in [Handlers -> Handler \cup {Null}]
      /\ handler'[h] = Null
      /\ \A h2 \in Handlers : h2 # h => handler'[h2] = handler[h2]
  BY <1>t, <1>1, HandlerSet
<1>5. TypeOK'
  BY <1>t, <1>1, <1>3, <1>4 DEF TypeOK
<1>6. Owned'
  BY <1>1, <1>4 DEF IInv, Owned
<1> QED
  BY <1>1, <1>4, <1>5, <1>6, SameWorld, StepKeeps

LEMMA CrashKeeps ==
    ASSUME IInv, Crash
    PROVE  IInv'
<1>1. /\ handler' = [h \in Handlers |-> Null]
      /\ job' = [hg \in Handlers \X Groups |-> Null]
      /\ UNCHANGED <<owner, members, late, first, asked, unwanted, synced>>
  BY DEF Crash
<1>2. \A h \in Handlers, g \in Groups : job'[h, g] = Null
  BY <1>1
<1>3. \A h \in Handlers : handler'[h] = Null
  BY <1>1
<1>4. TypeOK'
  <2>1. handler' \in [Handlers -> Handler \cup {Null}]
    BY <1>1
  <2>2. job' \in [Handlers \X Groups -> Job \cup {Null}]
    BY <1>1
  <2> QED
    BY <1>1, <2>1, <2>2 DEF IInv, TypeOK
<1>5. Owned'
  BY <1>2 DEF Owned
<1> QED
  BY <1>1, <1>2, <1>3, <1>4, <1>5, SameWorld, StepKeeps

LEMMA LateArrivesKeeps ==
    ASSUME IInv, NEW call \in late, LateArrives(call)
    PROVE  IInv'
<1>t. TypeOK
  BY DEF IInv
<1>1. /\ late' = late \ {call}
      /\ UNCHANGED <<handler, job, first, asked, unwanted, synced>>
  BY DEF LateArrives
<1>2. late' \subseteq Call
  BY <1>t, <1>1 DEF TypeOK
<1>3. Owned'
  BY <1>1 DEF IInv, Owned
<1>4. CASE /\ call.email # Null
           /\ \E id \in Ids : Created(id, call.email)
           /\ UNCHANGED members
  <2>1. PICK id \in Ids : Created(id, call.email)
    BY <1>4
  <2>2. call.email \in Emails
    BY <1>t, <1>4 DEF TypeOK, Call, Post, Put
  <2>3. owner' \in [Ids -> Emails \cup {Other, Null}] /\ GrowsTo(World, World')
    BY <1>t, <1>1, <2>1, <2>2, CreatedGrows
  <2>4. TypeOK'
    BY <1>t, <1>1, <1>2, <1>4, <2>3 DEF TypeOK
  <2> QED
    BY <1>1, <1>3, <1>4, <2>3, <2>4, StepKeeps
<1>5. CASE /\ call.group # Null
           /\ Overwritten(call.group, call.list)
           /\ UNCHANGED owner
  <2>1. call.group \in Groups /\ call.list \in SUBSET Ids
    BY <1>t, <1>5, TypesOfValues
  <2>2. Sound(World, call.group, call.list)
    BY <1>5 DEF IInv, SoundCall
  <2>3. /\ members' \in [Groups -> SUBSET Ids]
        /\ members'[call.group] = call.list
        /\ \A g \in Groups : g # call.group => members'[g] = members[g]
    BY <1>t, <1>5, <2>1, Overwriting
  <2>4. World' = World /\ GrowsTo(World, World')
    BY <1>1, <1>5, SameWorld
  <2>5. TypeOK'
    BY <1>t, <1>1, <1>2, <1>5, <2>3 DEF TypeOK
  <2> QED
    BY <1>1, <1>3, <2>2, <2>3, <2>4, <2>5, StepKeeps
<1> QED
  BY <1>4, <1>5 DEF LateArrives

---------------------------------------------------------------------------
\* The inductive invariant.
LEMMA InitSound == Init => IInv
<1> SUFFICES ASSUME Init PROVE IInv
  OBVIOUS
<1>1. /\ owner \in [Ids -> Emails \cup {Other, Null}]
      /\ members \in [Groups -> SUBSET Ids]
  BY DEF Init, Known
<1>2. /\ handler = [h \in Handlers |-> Null]
      /\ job = [hg \in Handlers \X Groups |-> Null]
      /\ late = {} /\ synced = {}
  BY DEF Init
<1>3. first = members /\ asked = members /\ unwanted = [g \in Groups |-> {}]
  BY DEF Init
<1>4. \A h \in Handlers, g \in Groups : handler[h] = Null /\ job[h, g] = Null
  BY <1>2
<1>5. TypeOK
  <2>1. asked \in [Groups -> SUBSET (Emails \cup Ids)]
    BY <1>1, <1>3
  <2>2. handler \in [Handlers -> Handler \cup {Null}]
    BY <1>2
  <2>3. job \in [Handlers \X Groups -> Job \cup {Null}]
    BY <1>2
  <2>4. unwanted \in [Groups -> SUBSET Ids]
    BY <1>3
  <2> QED
    BY <1>1, <1>2, <1>3, <2>1, <2>2, <2>3, <2>4 DEF TypeOK
<1>6. Owned
  BY <1>4 DEF Owned
<1>7. \A g \in Groups : Sound(World, g, members[g])
  BY <1>3 DEF World, Sound, AskedFor
<1> QED
  BY <1>2, <1>4, <1>5, <1>6, <1>7 DEF IInv

LEMMA NextKeeps == IInv /\ [Next]_vars => IInv'
<1> SUFFICES ASSUME IInv, [Next]_vars PROVE IInv'
  OBVIOUS
<1>1. ASSUME NEW h \in Handlers, Start(h) PROVE IInv'
  <2>1. Known \subseteq Ids
    BY DEF Known
  <2>2. ASSUME NEW e \in Emails, NEW groups \in SUBSET Groups, StartSync(h, e, groups)
        PROVE  IInv'
    BY <2>2, StartSyncKeeps
  <2>3. ASSUME NEW id \in Known, NEW groups \in SUBSET Groups, StartSet(h, id, groups)
        PROVE  IInv'
    BY <2>1, <2>3, StartSetKeeps
  <2>4. ASSUME NEW ids \in SUBSET Known, NEW g \in Groups, StartAdd(h, ids, g)
        PROVE  IInv'
    BY <2>1, <2>4, StartAddKeeps
  <2>5. ASSUME NEW ids \in SUBSET Known, NEW g \in Groups, StartDrop(h, ids, g)
        PROVE  IInv'
    BY <2>1, <2>5, StartDropKeeps
  <2> QED
    BY <1>1, <2>2, <2>3, <2>4, <2>5 DEF Start
<1>2. ASSUME NEW h \in Handlers, Proceeds(h) PROVE IInv'
  <2>1. ASSUME NEW g \in Groups,
               ReadGroup(h, g) \/ WriteGroup(h, g) \/ JobLost(h, g) \/ JobRefused(h, g)
        PROVE  IInv'
    BY <2>1, ReadGroupKeeps, WriteGroupKeeps, JobLostKeeps, JobRefusedKeeps
  <2>2. ASSUME NEW id \in Ids, DropNext(h, id) PROVE IInv'
    BY <2>2, DropNextKeeps
  <2> QED
    BY <1>2, <2>1, <2>2, FindCustomerKeeps, CreateCustomerKeeps, FindGroupsKeeps,
       CallLostKeeps, CallRefusedKeeps, FinishKeeps DEF Proceeds
<1>3. ASSUME NEW call \in late, LateArrives(call) PROVE IInv'
  BY <1>3, LateArrivesKeeps
<1>4. CASE Crash
  BY <1>4, CrashKeeps
<1>5. CASE UNCHANGED vars
  <2>1. TypeOK'
    BY <1>5 DEF IInv, TypeOK, vars
  <2>2. Owned'
    BY <1>5 DEF IInv, Owned, vars
  <2> QED
    BY <1>5, <2>1, <2>2, SameWorld, StepKeeps DEF vars
<1> QED
  BY <1>1, <1>2, <1>3, <1>4, <1>5 DEF Next

\* Every list that is at iDoxxy, in a handler's hands or on its way holds those
\* who must stay and nobody unasked, in every state a behaviour reaches.
THEOREM Invariance == Spec => []IInv
  BY InitSound, NextKeeps, PTL DEF Spec

\* The variables keep their types: in particular no attempt is counted past
\* MAX_RETRIES (requestWithRetry).
THEOREM TypeCorrect == Spec => []TypeOK
<1>1. IInv => TypeOK
  BY DEF IInv
<1> QED
  BY <1>1, Invariance, PTL

\* However handlers, retries and late calls overlap, a customer is in a group
\* only if it was from the start or somebody asked for it
\* (ensureCustomerExists, addCustomersToGroup).
THEOREM OnlyAskedForEnter == Spec => []MembersAskedFor
<1>1. IInv => MembersAskedFor
  BY DEF IInv, Sound, AskedFor, World, MembersAskedFor
<1> QED
  BY <1>1, Invariance, PTL

\* Nobody who was in a group from the start drops out of it unasked
\* (addCustomersToGroup, removeCustomerFromGroup).
THEOREM FirstMembersStay == Spec => []FirstMembersKept
<1>1. IInv => FirstMembersKept
  BY DEF IInv, Sound, World, FirstMembersKept
<1> QED
  BY <1>1, Invariance, PTL

---------------------------------------------------------------------------
(***************************************************************************)
(* SyncedStaysIn and SetTakesEffect are true of some mixes of handlers     *)
(* only; the theorems about them say which.                                *)
(***************************************************************************)

\* Webhooks alone, all about one customer; any number of them at once.
OneCustomer == Kinds \subseteq {"sync"} /\ \A e1, e2 \in Emails : e1 = e2

\* A list has a customer with the webhooks' e-mail.
HeldIn(o, S) == \E id \in S : o[id] \in Emails

\* What the group's job is to leave behind, it has left.
Over(h, g) ==
    /\ handler[h] # Null /\ handler[h].phase = "jobs" /\ ~handler[h].failed
    /\ g \in handler[h].groups /\ job[h, g] = Null

\* Every list on its way has the customer, and so has every group a webhook
\* is through with.
Held ==
    /\ \A h \in Handlers, g \in Groups :
           job[h, g] # Null => job[h, g].op = "add" /\ HeldIn(owner, job[h, g].ids)
    /\ \A c \in late : c.group # Null => HeldIn(owner, c.list)
    /\ \A eg \in synced : HeldIn(owner, members[eg[2]])
    /\ \A h \in Handlers, g \in Groups : Over(h, g) => HeldIn(owner, members[g])

\* One request at a time, and no write that comes late.
NobodyElse == (\A h1, h2 \in Handlers : h1 = h2) /\ LateCalls = 0

\* In the group the customer is where the request wants it, as far as it was
\* found there, or its job is still to put it there.
InPlace(h, id, g) ==
    /\ job[h, g] = Null => /\ g \in handler[h].groups => id \in members[g]
                           /\ id \in members[g] /\ handler[h].found => g \in handler[h].groups
    /\ job[h, g] # Null => /\ job[h, g].ids = {id}
                           /\ job[h, g].op = "add" <=> g \in handler[h].groups

Meant ==
    /\ late = {}
    /\ \A h \in Handlers : handler[h] # Null /\ handler[h].kind = "set" =>
           /\ \A id \in handler[h].ids : handler[h].ids = {id}
           /\ handler[h].phase = "jobs" /\ ~handler[h].failed =>
                  \A id \in handler[h].ids, g \in Groups : InPlace(h, id, g)

---------------------------------------------------------------------------
\* SyncedStaysIn: every list on its way has the webhooks' customer.
LEMMA HeldStep ==
    ASSUME IInv, Held,
           \A id \in Ids : owner[id] # Null => owner'[id] = owner[id],
           \A g \in Groups : members'[g] = members[g] \/ HeldIn(owner', members'[g]),
           \A h \in Handlers, g \in Groups : job'[h, g] # Null =>
               \/ /\ job[h, g] # Null /\ job'[h, g].op = job[h, g].op
                  /\ job'[h, g].ids = job[h, g].ids
               \/ job'[h, g].op = "add" /\ HeldIn(owner', job'[h, g].ids),
           \A c \in late' : c \in late \/ c.group = Null \/ HeldIn(owner', c.list),
           \A eg \in synced' : eg \in synced \/ HeldIn(owner', members'[eg[2]]),
           \A h \in Handlers, g \in Groups :
               Over(h, g)' => Over(h, g) \/ HeldIn(owner', members'[g])
    PROVE  Held'
<1>t. TypeOK
  BY DEF IInv
<1>1. \A S \in SUBSET Ids : HeldIn(owner, S) => HeldIn(owner', S)
  BY SyncAssumption DEF HeldIn
<1>2. \A g \in Groups : HeldIn(owner, members[g]) => HeldIn(owner', members'[g])
  BY <1>t, <1>1, TypesOfValues
<1>3. ASSUME NEW h \in Handlers, NEW g \in Groups, job'[h, g] # Null
      PROVE  job'[h, g].op = "add" /\ HeldIn(owner', job'[h, g].ids)
  <2>1. ASSUME job[h, g] # Null
        PROVE  job[h, g].op = "add" /\ HeldIn(owner', job[h, g].ids)
    <3>1. job[h, g].ids \in SUBSET Ids
      BY <2>1, JobOf DEF Job
    <3>2. job[h, g].op = "add" /\ HeldIn(owner, job[h, g].ids)
      BY <2>1 DEF Held
    <3> QED
      BY <1>1, <3>1, <3>2
  <2> QED
    BY <1>3, <2>1
<1>4. ASSUME NEW c \in late', c.group # Null PROVE HeldIn(owner', c.list)
  <2>1. CASE c \in late
    BY <1>t, <1>1, <1>4, <2>1, TypesOfValues DEF Held
  <2> QED
    BY <1>4, <2>1
<1>5. ASSUME NEW eg \in synced' PROVE HeldIn(owner', members'[eg[2]])
  <2>1. CASE eg \in synced
    <3>1. eg[2] \in Groups
      BY <1>t, <2>1 DEF TypeOK
    <3> QED
      BY <1>2, <2>1, <3>1 DEF Held
  <2> QED
    BY <2>1
<1>6. ASSUME NEW h \in Handlers, NEW g \in Groups, Over(h, g)'
      PROVE  HeldIn(owner', members'[g])
  BY <1>2, <1>6 DEF Held
<1> QED
  BY <1>3, <1>4, <1>5, <1>6 DEF Held

\* With webhooks only, every handler is one.
LEMMA OnlySync ==
    ASSUME IInv, OneCustomer, NEW h \in Handlers, handler[h] # Null
    PROVE  handler[h].kind = "sync" /\ handler[h].email \in Emails
<1>1. handler[h] \in Handler /\ SoundHandler(World, handler[h])
  BY HandlerOf
<1>2. handler[h].kind = "sync"
  BY <1>1 DEF Handler, OneCustomer
<1>3. handler[h].email # Null /\ handler[h].email \in Emails \cup {Null}
  BY <1>1, <1>2 DEF SoundHandler, Handler
<1> QED
  BY <1>2, <1>3

\* A step of one handler leaves the others as far as they were.
LEMMA OthersOver ==
    ASSUME NEW h \in Handlers, NEW h2 \in Handlers, h2 # h,
           \A x \in Handlers : x # h => handler'[x] = handler[x],
           \A x \in Handlers, g \in Groups : x # h => job'[x, g] = job[x, g]
    PROVE  \A g \in Groups : Over(h2, g)' => Over(h2, g)
  BY DEF Over

LEMMA StartHolds ==
    ASSUME IInv, Held, OneCustomer, NEW h \in Handlers, Start(h)
    PROVE  Held'
<1>t. TypeOK
  BY DEF IInv
<1>1. PICK e \in Emails, groups \in SUBSET Groups : StartSync(h, e, groups)
  BY Zenon DEF Start, StartSet, StartAdd, StartDrop, Starts, OneCustomer
<1>2. Starts(h, "sync", "find", e, {}, groups) /\ UNCHANGED job
  BY <1>1 DEF StartSync
<1>3. UNCHANGED <<owner, members, late, synced>>
  BY <1>2 DEF Starts
<1> DEFINE new == [kind |-> "sync", phase |-> "find", email |-> e, ids |-> {},
                   groups |-> groups, tries |-> 0, failed |-> FALSE, found |-> TRUE]
<1>4. new \in Handler
  BY <1>2, FirstTry DEF Starts, Handler
<1>5. handler' = [handler EXCEPT ![h] = new] /\ new.phase = "find"
  BY <1>2 DEF Starts
<1> HIDE DEF new
<1>6. handler'[h] = new /\ \A h2 \in Handlers : h2 # h => handler'[h2] = handler[h2]
  BY <1>t, <1>4, <1>5, HandlerSet
<1>7. \A h2 \in Handlers, g \in Groups : Over(h2, g)' => Over(h2, g)
  BY <1>2, <1>5, <1>6 DEF Over
<1> QED
  BY <1>2, <1>3, <1>7, HeldStep

LEMMA EnsuredHolds ==
    ASSUME IInv, Held, OneCustomer, NEW h \in Handlers, handler[h] # Null,
           NEW id \in Ids, Ensured(h, id), owner'[id] \in Emails,
           \A x \in Ids : owner[x] # Null => owner'[x] = owner[x],
           UNCHANGED <<members, late, synced>>
    PROVE  Held'
<1>t. TypeOK
  BY DEF IInv
<1>1. handler[h] \in Handler
  BY HandlerOf
<1> DEFINE new == [handler[h] EXCEPT !.phase = "jobs", !.ids = {id}, !.tries = 0]
<1>2. new \in Handler /\ new.groups = handler[h].groups
  BY <1>1, FirstTry DEF Handler
<1>3. handler' = [handler EXCEPT ![h] = new]
  BY DEF Ensured
<1> HIDE DEF new
<1>4. handler'[h] = new /\ \A h2 \in Handlers : h2 # h => handler'[h2] = handler[h2]
  BY <1>t, <1>2, <1>3, HandlerSet
<1>5. ASSUME NEW h2 \in Handlers, NEW g \in Groups
      PROVE  job'[h2, g] = IF h2 # h THEN job[h2, g]
                           ELSE IF g \in handler[h].groups THEN NewJob("add", {id}) ELSE Null
  BY DEF Ensured, Jobs
<1>6. /\ NewJob("add", {id}) # Null /\ NewJob("add", {id}).op = "add"
      /\ HeldIn(owner', NewJob("add", {id}).ids)
  BY NewJobIsJob, NoHandlerAssumption DEF HeldIn
<1>7. ASSUME NEW h2 \in Handlers, NEW g \in Groups PROVE Over(h2, g)' => Over(h2, g)
  <2>1. CASE h2 = h
    BY <1>2, <1>4, <1>5, <1>6, <2>1 DEF Over
  <2>2. CASE h2 # h
    BY <1>4, <1>5, <2>2 DEF Over
  <2> QED
    BY <2>1, <2>2
<1> QED
  BY <1>5, <1>6, <1>7, HeldStep

LEMMA FindCustomerHolds ==
    ASSUME IInv, Held, OneCustomer, NEW h \in Handlers, FindCustomer(h)
    PROVE  Held'
<1>t. TypeOK
  BY DEF IInv
<1>1. /\ handler[h] # Null
      /\ UNCHANGED <<owner, members, late, first, asked, unwanted, synced>>
  BY DEF FindCustomer, Is
<1>2. CASE \E id \in Matching(handler[h].email) : Ensured(h, id)
  <2>1. PICK id \in Ids : owner[id] = handler[h].email /\ Ensured(h, id)
    BY <1>2 DEF Matching
  <2>2. owner'[id] \in Emails
    BY <1>1, <2>1, OnlySync
  <2> QED
    BY <1>1, <2>1, <2>2, EnsuredHolds
<1>3. CASE /\ handler' = [handler EXCEPT ![h] = [@ EXCEPT !.phase = "create", !.tries = 0]]
           /\ UNCHANGED job
  <2> DEFINE new == [handler[h] EXCEPT !.phase = "create", !.tries = 0]
  <2>1. new \in Handler /\ new.phase = "create"
    BY <1>1, HandlerOf, FirstTry DEF Handler
  <2>2. handler' = [handler EXCEPT ![h] = new]
    BY <1>3
  <2> HIDE DEF new
  <2>3. handler'[h] = new /\ \A h2 \in Handlers : h2 # h => handler'[h2] = handler[h2]
    BY <1>t, <2>1, <2>2, HandlerSet
  <2>4. \A h2 \in Handlers, g \in Groups : Over(h2, g)' => Over(h2, g)
    BY <1>3, <2>1, <2>3 DEF Over
  <2> QED
    BY <1>1, <1>3, <2>4, HeldStep
<1> QED
  BY <1>2, <1>3 DEF FindCustomer

LEMMA CreateCustomerHolds ==
    ASSUME IInv, Held, OneCustomer, NEW h \in Handlers, CreateCustomer(h)
    PROVE  Held'
<1>t. TypeOK
  BY DEF IInv
<1>1. handler[h] # Null /\ UNCHANGED <<members, late, first, asked, unwanted, synced>>
  BY DEF CreateCustomer, Is
<1>2. PICK id \in Ids : Created(id, handler[h].email) /\ Ensured(h, id)
  BY DEF CreateCustomer
<1>3. handler[h].email \in Emails
  BY <1>1, OnlySync
<1>4. owner'[id] \in Emails /\ GrowsTo(World, World')
  BY <1>t, <1>1, <1>2, <1>3, CreatedGrows
<1> QED
  BY <1>1, <1>2, <1>4, EnsuredHolds DEF GrowsTo, World

\* A list a job of a webhook writes has its customer.
LEMMA WritesHeld ==
    ASSUME IInv, Held, NEW h \in Handlers, NEW g \in Groups, At(h, g, "put")
    PROVE  HeldIn(owner, NewList(job[h, g]))
  BY DEF Held, At, NewList, HeldIn

LEMMA ReadGroupHolds ==
    ASSUME IInv, Held, NEW h \in Handlers, NEW g \in Groups, ReadGroup(h, g)
    PROVE  Held'
<1>t. TypeOK
  BY DEF IInv
<1>1. UNCHANGED <<owner, members, handler, late, synced>>
  BY DEF ReadGroup
<1> DEFINE new == [job[h, g] EXCEPT !.step = "put", !.list = members[g], !.tries = 0]
<1>2. job[h, g] # Null /\ job[h, g] \in Job /\ members[g] \in SUBSET Ids
  BY <1>t, JobOf, TypesOfValues DEF ReadGroup, At
<1>3. /\ new \in Job /\ new # Null /\ new.op = job[h, g].op /\ new.ids = job[h, g].ids
  BY <1>2, FirstTry, NoHandlerAssumption DEF Job
<1>4. job' = [job EXCEPT ![<<h, g>>] = new]
  BY DEF ReadGroup
<1> HIDE DEF new
<1>5. /\ job'[h, g] = new
      /\ \A h2 \in Handlers, g2 \in Groups :
             h2 # h \/ g2 # g => job'[h2, g2] = job[h2, g2]
  BY <1>t, <1>3, <1>4, JobSet
<1>6. \A h2 \in Handlers, g2 \in Groups : Over(h2, g2)' => Over(h2, g2)
  BY <1>1, <1>2, <1>3, <1>5 DEF Over
<1> QED
  BY <1>1, <1>2, <1>3, <1>5, <1>6, HeldStep

LEMMA WriteGroupHolds ==
    ASSUME IInv, Held, NEW h \in Handlers, NEW g \in Groups, WriteGroup(h, g)
    PROVE  Held'
<1>t. TypeOK
  BY DEF IInv
<1>1. /\ UNCHANGED <<owner, handler, late, synced>> /\ At(h, g, "put")
      /\ Overwritten(g, NewList(job[h, g]))
      /\ job' = [job EXCEPT ![<<h, g>>] = Null]
  BY DEF WriteGroup
<1>2. HeldIn(owner, NewList(job[h, g])) /\ NewList(job[h, g]) \in SUBSET Ids
  BY <1>1, WritesHeld, JobWrites
<1>3. /\ members'[g] = NewList(job[h, g])
      /\ \A g2 \in Groups : g2 # g => members'[g2] = members[g2]
  BY <1>t, <1>1, <1>2, Overwriting
<1>4. /\ job'[h, g] = Null
      /\ \A h2 \in Handlers, g2 \in Groups :
             h2 # h \/ g2 # g => job'[h2, g2] = job[h2, g2]
  BY <1>t, <1>1, JobSet
<1>5. ASSUME NEW h2 \in Handlers, NEW g2 \in Groups, Over(h2, g2)'
      PROVE  Over(h2, g2) \/ HeldIn(owner', members'[g2])
  BY <1>1, <1>2, <1>3, <1>4, <1>5 DEF Over
<1> QED
  BY <1>1, <1>2, <1>3, <1>4, <1>5, HeldStep

\* A failed job's handler is through with nothing.
LEMMA ErrorsHold ==
    ASSUME IInv, NEW h \in Handlers, NEW g \in Groups, job[h, g] # Null, JobErrors(h, g)
    PROVE  /\ \A h2 \in Handlers, g2 \in Groups :
                  job'[h2, g2] # Null => job'[h2, g2] = job[h2, g2]
           /\ \A h2 \in Handlers, g2 \in Groups : Over(h2, g2)' => Over(h2, g2)
           /\ handler'[h].failed
<1>t. TypeOK
  BY DEF IInv
<1> DEFINE new == [handler[h] EXCEPT !.failed = TRUE]
<1>1. new \in Handler /\ new.failed
  BY JobOf, HandlerOf DEF Handler
<1>2. handler' = [handler EXCEPT ![h] = new] /\ job' = [job EXCEPT ![<<h, g>>] = Null]
  BY DEF JobErrors
<1> HIDE DEF new
<1>3. handler'[h] = new /\ \A h2 \in Handlers : h2 # h => handler'[h2] = handler[h2]
  BY <1>t, <1>1, <1>2, HandlerSet
<1>4. /\ job'[h, g] = Null
      /\ \A h2 \in Handlers, g2 \in Groups :
             h2 # h \/ g2 # g => job'[h2, g2] = job[h2, g2]
  BY <1>t, <1>2, JobSet
<1>5. \A h2 \in Handlers, g2 \in Groups : Over(h2, g2)' => Over(h2, g2)
  BY <1>1, <1>3, <1>4 DEF Over
<1>6. \A h2 \in Handlers, g2 \in Groups :
          job'[h2, g2] # Null => job'[h2, g2] = job[h2, g2]
  BY <1>4
<1> QED
  BY <1>1, <1>3, <1>5, <1>6

LEMMA JobRefusedHolds ==
    ASSUME IInv, Held, NEW h \in Handlers, NEW g \in Groups, JobRefused(h, g)
    PROVE  Held'
<1>1. /\ job[h, g] # Null /\ JobErrors(h, g)
      /\ UNCHANGED <<owner, members, late, synced>>
  BY DEF JobRefused
<1>2. /\ \A h2 \in Handlers, g2 \in Groups :
             job'[h2, g2] # Null => job'[h2, g2] = job[h2, g2]
      /\ \A h2 \in Handlers, g2 \in Groups : Over(h2, g2)' => Over(h2, g2)
  BY <1>1, ErrorsHold
<1> QED
  BY <1>1, <1>2, HeldStep

\* A repeated job is the same one.
LEMMA RepeatedJob ==
    ASSUME IInv, NEW h \in Handlers, NEW g \in Groups, job[h, g] # Null,
           MayRetry(job[h, g].tries),
           job' = [job EXCEPT ![<<h, g>>] = [@ EXCEPT !.tries = job[h, g].tries + 1]]
    PROVE  /\ job'[h, g] # Null
           /\ job'[h, g].op = job[h, g].op /\ job'[h, g].ids = job[h, g].ids
           /\ \A h2 \in Handlers, g2 \in Groups :
                  h2 # h \/ g2 # g => job'[h2, g2] = job[h2, g2]
<1>t. TypeOK
  BY DEF IInv
<1> DEFINE t == job[h, g].tries + 1
           new == [job[h, g] EXCEPT !.tries = t]
<1>1. job[h, g] \in Job
  BY JobOf
<1>2. t \in Tries
  BY <1>1, NextTry DEF Job
<1>3. job' = [job EXCEPT ![<<h, g>>] = new]
  OBVIOUS
<1> HIDE DEF t
<1>4. /\ new \in Job /\ new # Null
      /\ new.op = job[h, g].op /\ new.ids = job[h, g].ids
  BY <1>1, <1>2, NoHandlerAssumption DEF Job
<1> HIDE DEF new
<1> QED
  BY <1>t, <1>3, <1>4, JobSet

LEMMA JobLostHolds ==
    ASSUME IInv, Held, NEW h \in Handlers, NEW g \in Groups, JobLost(h, g)
    PROVE  Held'
<1>t. TypeOK
  BY DEF IInv
<1>1. job[h, g] # Null /\ UNCHANGED <<owner, synced>>
  BY DEF JobLost, Unheard
<1>2. /\ \A h2 \in Handlers, g2 \in Groups : job'[h2, g2] # Null =>
             /\ job[h2, g2] # Null /\ job'[h2, g2].op = job[h2, g2].op
             /\ job'[h2, g2].ids = job[h2, g2].ids
      /\ \A h2 \in Handlers, g2 \in Groups : Over(h2, g2)' => Over(h2, g2)
  <2>1. CASE MayRetry(job[h, g].tries)
    <3>1. /\ job' = [job EXCEPT ![<<h, g>>] = [@ EXCEPT !.tries = job[h, g].tries + 1]]
          /\ UNCHANGED handler
      BY <2>1 DEF JobLost
    <3>2. /\ job'[h, g] # Null
          /\ job'[h, g].op = job[h, g].op /\ job'[h, g].ids = job[h, g].ids
          /\ \A h2 \in Handlers, g2 \in Groups :
                 h2 # h \/ g2 # g => job'[h2, g2] = job[h2, g2]
      BY <1>1, <2>1, <3>1, RepeatedJob
    <3>3. \A h2 \in Handlers, g2 \in Groups : Over(h2, g2)' => Over(h2, g2)
      BY <3>1, <3>2 DEF Over
    <3> QED
      BY <1>1, <3>2, <3>3
  <2>2. CASE ~MayRetry(job[h, g].tries)
    <3>1. JobErrors(h, g)
      BY <2>2 DEF JobLost
    <3> QED
      BY <1>1, <3>1, ErrorsHold
  <2> QED
    BY <2>1, <2>2
<1>3. CASE UNCHANGED <<members, late>>
  BY <1>1, <1>2, <1>3, HeldStep
<1>4. CASE At(h, g, "put") /\ Unheard(Put(g, NewList(job[h, g])))
  <2>1. HeldIn(owner, NewList(job[h, g]))
    BY <1>4, WritesHeld
  <2>2. UNCHANGED members
        /\ \A c \in late' : c \in late \/ HeldIn(owner, c.list)
    <3>1. UNCHANGED members /\ late' \subseteq late \cup {Put(g, NewList(job[h, g]))}
      BY <1>4 DEF Unheard
    <3>2. Put(g, NewList(job[h, g])).list = NewList(job[h, g])
      BY DEF Put
    <3> QED
      BY <2>1, <3>1, <3>2
  <2> QED
    BY <1>1, <1>2, <2>2, HeldStep
<1>5. CASE At(h, g, "put") /\ Overwritten(g, NewList(job[h, g])) /\ UNCHANGED late
  <2>1. HeldIn(owner, NewList(job[h, g])) /\ NewList(job[h, g]) \in SUBSET Ids
    BY <1>5, WritesHeld, JobWrites
  <2>2. /\ members'[g] = NewList(job[h, g])
        /\ \A g2 \in Groups : g2 # g => members'[g2] = members[g2]
    BY <1>t, <1>5, <2>1, Overwriting
  <2> QED
    BY <1>1, <1>2, <1>5, <2>1, <2>2, HeldStep
<1> QED
  BY <1>3, <1>4, <1>5 DEF JobLost

\* A handler whose own call fails is through with nothing.
LEMMA CallFailsHolds ==
    ASSUME IInv, Held, NEW h \in Handlers, Is(h, "find") \/ Is(h, "create"),
           Repeats(h) \/ Errors(h),
           \A id \in Ids : owner[id] # Null => owner'[id] = owner[id],
           UNCHANGED <<members, synced>>,
           \A c \in late' : c \in late \/ c.group = Null
    PROVE  Held'
<1>t. TypeOK
  BY DEF IInv
<1>1. handler[h] # Null /\ handler[h].phase \in {"find", "create"} /\ UNCHANGED job
  BY DEF Is, Repeats, Errors
<1>2. handler[h] \in Handler
  BY <1>1, HandlerOf
<1>3. PICK hd \in Handler \cup {Null} :
        /\ handler' = [handler EXCEPT ![h] = hd]
        /\ hd # Null => hd.phase # "jobs"
  <2>1. CASE Errors(h)
    BY <2>1 DEF Errors
  <2>2. CASE Repeats(h) /\ MayRetry(handler[h].tries)
    <3> DEFINE t == handler[h].tries + 1
               new == [handler[h] EXCEPT !.tries = t]
    <3>1. t \in Tries
      BY <1>2, <2>2, NextTry DEF Handler
    <3>2. handler' = [handler EXCEPT ![h] = new]
      BY <2>2 DEF Repeats
    <3> HIDE DEF t
    <3>3. new \in Handler /\ new.phase # "jobs"
      BY <1>1, <1>2, <3>1 DEF Handler
    <3> HIDE DEF new
    <3> QED
      BY <3>2, <3>3
  <2> QED
    BY <2>1, <2>2 DEF Repeats
<1>4. handler'[h] = hd /\ \A h2 \in Handlers : h2 # h => handler'[h2] = handler[h2]
  BY <1>t, <1>3, HandlerSet
<1>5. \A h2 \in Handlers, g \in Groups : Over(h2, g)' => Over(h2, g)
  BY <1>1, <1>3, <1>4 DEF Over
<1> QED
  BY <1>1, <1>5, HeldStep

LEMMA CallLostHolds ==
    ASSUME IInv, Held, NEW h \in Handlers, CallLost(h)
    PROVE  Held'
<1>1. /\ Is(h, "find") \/ Is(h, "create")
      /\ Repeats(h) /\ UNCHANGED <<members, synced>>
  BY DEF CallLost, Unheard
<1>2. CASE UNCHANGED <<owner, late>>
  BY <1>1, <1>2, CallFailsHolds
<1>3. CASE Is(h, "create") /\ Unheard(Post(handler[h].email))
  BY <1>1, <1>3, CallFailsHolds DEF Unheard, Post
<1>4. CASE (\E id \in Ids : Created(id, handler[h].email)) /\ UNCHANGED late
  <2>1. \A id \in Ids : owner[id] # Null => owner'[id] = owner[id]
    BY <1>4 DEF Created, IInv, TypeOK
  <2> QED
    BY <1>1, <1>4, <2>1, CallFailsHolds
<1> QED
  BY <1>2, <1>3, <1>4 DEF CallLost

LEMMA FinishHolds ==
    ASSUME IInv, Held, NEW h \in Handlers, Finish(h)
    PROVE  Held'
<1>t. TypeOK
  BY DEF IInv
<1>1. /\ handler[h] # Null /\ handler[h].phase = "jobs"
      /\ \A g \in Groups : job[h, g] = Null
      /\ handler' = [handler EXCEPT ![h] = Null]
      /\ UNCHANGED <<owner, members, job, late>>
  BY DEF Finish, Is
<1>2. handler'[h] = Null /\ \A h2 \in Handlers : h2 # h => handler'[h2] = handler[h2]
  BY <1>t, <1>1, HandlerSet
<1>3. \A h2 \in Handlers, g \in Groups : Over(h2, g)' => Over(h2, g)
  BY <1>1, <1>2 DEF Over
<1>4. ASSUME NEW eg \in synced', eg \notin synced PROVE HeldIn(owner', members'[eg[2]])
  <2>1. ~handler[h].failed /\ eg \in {handler[h].email} \X handler[h].groups
    BY <1>4 DEF Finish, Succeeds
  <2>2. eg[2] \in handler[h].groups /\ eg[2] \in Groups
    BY <1>1, <2>1, HandlerOf DEF Handler
  <2>3. Over(h, eg[2])
    BY <1>1, <2>1, <2>2 DEF Over
  <2> QED
    BY <1>1, <2>2, <2>3 DEF Held
<1> QED
  BY <1>1, <1>3, <1>4, HeldStep

LEMMA LateArrivesHolds ==
    ASSUME IInv, Held, NEW call \in late, LateArrives(call)
    PROVE  Held'
<1>t. TypeOK
  BY DEF IInv
<1>1. late' = late \ {call} /\ UNCHANGED <<handler, job, synced>>
  BY DEF LateArrives
<1>2. \A h \in Handlers, g \in Groups : Over(h, g)' => Over(h, g)
  BY <1>1 DEF Over
<1>3. CASE (\E id \in Ids : Created(id, call.email)) /\ UNCHANGED members
  <2>1. \A id \in Ids : owner[id] # Null => owner'[id] = owner[id]
    BY <1>3 DEF Created, IInv, TypeOK
  <2> QED
    BY <1>1, <1>2, <1>3, <2>1, HeldStep
<1>4. CASE call.group # Null /\ Overwritten(call.group, call.list) /\ UNCHANGED owner
  <2>1. call.group \in Groups /\ call.list \in SUBSET Ids
    BY <1>t, <1>4, TypesOfValues
  <2>2. HeldIn(owner, call.list)
    BY <1>4 DEF Held
  <2>3. /\ members'[call.group] = call.list
        /\ \A g \in Groups : g # call.group => members'[g] = members[g]
    BY <1>t, <1>4, <2>1, Overwriting
  <2> QED
    BY <1>1, <1>2, <1>4, <2>2, <2>3, HeldStep
<1> QED
  BY <1>3, <1>4 DEF LateArrives

LEMMA CrashHolds == ASSUME IInv, Held, Crash PROVE Held'
<1>1. /\ \A h \in Handlers : handler'[h] = Null
      /\ \A h \in Handlers, g \in Groups : job'[h, g] = Null
      /\ UNCHANGED <<owner, members, late, synced>>
  BY DEF Crash
<1>2. \A h \in Handlers, g \in Groups : Over(h, g)' => Over(h, g)
  BY <1>1 DEF Over
<1> QED
  BY <1>1, <1>2, HeldStep

\* Held is inductive, on top of IInv, when webhooks run alone.
LEMMA InitHeld == Init => Held
  BY DEF Init, Held, Over

LEMMA NextHolds == ASSUME OneCustomer, IInv, Held, [Next]_vars PROVE Held'
<1>1. ASSUME NEW h \in Handlers, Proceeds(h) PROVE Held'
  <2>1. ~FindGroups(h)
    BY OnlySync DEF FindGroups, Is
  <2>2. ~CallRefused(h) \/ Held'
    BY CallFailsHolds DEF CallRefused
  <2>3. \A id \in Ids : ~DropNext(h, id)
    BY OnlySync DEF DropNext, Is
  <2>4. ASSUME NEW g \in Groups,
               ReadGroup(h, g) \/ WriteGroup(h, g) \/ JobLost(h, g) \/ JobRefused(h, g)
        PROVE  Held'
    BY <2>4, ReadGroupHolds, WriteGroupHolds, JobLostHolds, JobRefusedHolds
  <2> QED
    BY <1>1, <2>1, <2>2, <2>3, <2>4, FindCustomerHolds, CreateCustomerHolds,
       CallLostHolds, FinishHolds DEF Proceeds
<1>2. CASE UNCHANGED vars
  BY <1>2, HeldStep DEF vars, Over
<1> QED
  BY <1>1, <1>2, StartHolds, LateArrivesHolds, CrashHolds DEF Next

\* When webhooks about one customer are all that runs, however many overlap and
\* however their calls are lost, repeated or late, one that was answered ok has
\* left the customer in all its groups (addCustomerToGroups, Promise.all).
THEOREM SyncedStays == ASSUME OneCustomer PROVE Spec => []SyncedStaysIn
<1>1. Init => IInv /\ Held
  BY InitSound, InitHeld
<1>2. IInv /\ Held /\ [Next]_vars => (IInv /\ Held)'
  BY NextKeeps, NextHolds
<1>3. IInv /\ Held => SyncedStaysIn
  <2> SUFFICES ASSUME IInv, Held, NEW eg \in synced
               PROVE  \E id \in members[eg[2]] : owner[id] = eg[1]
    BY DEF SyncedStaysIn
  <2>1. eg[1] \in Emails
    BY DEF IInv, TypeOK
  <2>2. PICK id \in members[eg[2]] : owner[id] \in Emails
    BY DEF Held, HeldIn
  <2> QED
    BY <2>1, <2>2 DEF OneCustomer
<1> QED
  BY <1>1, <1>2, <1>3, PTL DEF Spec

---------------------------------------------------------------------------
\* SetTakesEffect: while the request is under way, each group is as it wants it
\* or has a job that will make it so.
LEMMA OneHandler ==
    ASSUME NobodyElse, NEW h \in Handlers
    PROVE  Handlers = {h} /\ LateCalls = 0
  BY DEF NobodyElse

\* Nothing is to be shown of another kind of handler, nor of one whose jobs are
\* not there yet or failed.
LEMMA MeantStep ==
    ASSUME NobodyElse, NEW h \in Handlers, late' = {},
           handler'[h] # Null /\ handler'[h].kind = "set" =>
               /\ \A id \in handler'[h].ids : handler'[h].ids = {id}
               /\ \/ handler'[h].phase # "jobs" \/ handler'[h].failed
                  \/ \A id \in handler'[h].ids, g \in Groups : InPlace(h, id, g)'
    PROVE  Meant'
  BY OneHandler DEF Meant

\* A write that gets no answer is lost or applied, never late.
LEMMA NeverLate ==
    ASSUME NobodyElse, Meant, NEW h \in Handlers, NEW call, Unheard(call)
    PROVE  late' = {} /\ UNCHANGED <<owner, members>>
<1>1. late = {} /\ Cardinality({}) = 0 /\ LateCalls = 0
  BY OneHandler, FS_EmptySet DEF Meant
<1>2. ~(Cardinality(late) < LateCalls)
  BY <1>1
<1> QED
  BY <1>1, <1>2 DEF Unheard

LEMMA StartMeant ==
    ASSUME IInv, NobodyElse, Meant, NEW h \in Handlers, Start(h)
    PROVE  Meant'
<1>1. PICK kind \in Kinds, phase \in {"find", "jobs"}, e \in Emails \cup {Null},
           ids \in SUBSET Ids, groups \in SUBSET Groups :
        /\ Starts(h, kind, phase, e, ids, groups)
        /\ kind = "set" => phase = "find" /\ \A id \in ids : ids = {id}
  <2>1. Known \subseteq Ids
    BY DEF Known
  <2>2. CASE \E e \in Emails, groups \in SUBSET Groups : StartSync(h, e, groups)
    <3>1. PICK e \in Emails, groups \in SUBSET Groups :
            Starts(h, "sync", "find", e, {}, groups)
      BY <2>2 DEF StartSync
    <3> QED
      BY <3>1 DEF Starts
  <2>3. CASE \E id \in Known, groups \in SUBSET Groups : StartSet(h, id, groups)
    <3>1. PICK id \in Ids, groups \in SUBSET Groups :
            Starts(h, "set", "find", Null, {id}, groups)
      BY <2>1, <2>3 DEF StartSet
    <3>2. {id} \in SUBSET Ids /\ \A x \in {id} : {id} = {x}
      BY <3>1
    <3> QED
      BY <3>1, <3>2 DEF Starts
  <2>4. CASE \E ids \in (SUBSET Known) \ {{}}, g \in Groups :
               StartAdd(h, ids, g) \/ StartDrop(h, ids, g)
    <3>1. PICK ids \in SUBSET Ids, g \in Groups :
            \/ Starts(h, "add", "jobs", Null, {}, {g})
            \/ Starts(h, "drop", "jobs", Null, ids, {g})
      BY <2>1, <2>4 DEF StartAdd, StartDrop
    <3>2. {g} \in SUBSET Groups /\ {} \in SUBSET Ids
      BY <3>1
    <3>3. CASE Starts(h, "add", "jobs", Null, {}, {g})
      BY <3>2, <3>3 DEF Starts
    <3>4. CASE Starts(h, "drop", "jobs", Null, ids, {g})
      BY <3>2, <3>4 DEF Starts
    <3> QED
      BY <3>1, <3>3, <3>4
  <2> QED
    BY <2>2, <2>3, <2>4 DEF Start
<1> DEFINE new == [kind |-> kind, phase |-> phase, email |-> e, ids |-> ids,
                   groups |-> groups, tries |-> 0, failed |-> FALSE, found |-> TRUE]
<1>2. new \in Handler
  BY FirstTry DEF Handler
<1>3. /\ new.kind = "set" => /\ new.phase = "find"
                             /\ \A id \in new.ids : new.ids = {id}
      /\ handler' = [handler EXCEPT ![h] = new] /\ UNCHANGED late
  BY <1>1 DEF Starts
<1> HIDE DEF new
<1>4. handler'[h] = new
  BY <1>2, <1>3, HandlerSet DEF IInv
<1>5. late' = {}
  BY <1>3 DEF Meant
<1> QED
  BY <1>3, <1>4, <1>5, MeantStep

\* A step of a handler that is not of this kind.
LEMMA OtherKindMeant ==
    ASSUME IInv, NobodyElse, NEW h \in Handlers, late' = {},
           handler[h] # Null, handler[h].kind # "set",
           \/ handler' = handler
           \/ \E hd \in Handler \cup {Null} :
                 /\ handler' = [handler EXCEPT ![h] = hd]
                 /\ hd # Null => hd.kind = handler[h].kind
    PROVE  Meant'
<1>1. handler'[h] # Null => handler'[h].kind # "set"
  <2>1. CASE handler' = handler
    BY <2>1
  <2>2. CASE \E hd \in Handler \cup {Null} :
               /\ handler' = [handler EXCEPT ![h] = hd]
               /\ hd # Null => hd.kind = handler[h].kind
    BY <2>2, HandlerSet DEF IInv
  <2> QED
    BY <2>1, <2>2
<1> QED
  BY <1>1, MeantStep

LEMMA FindCustomerMeant ==
    ASSUME IInv, NobodyElse, Meant, NEW h \in Handlers,
           FindCustomer(h) \/ CreateCustomer(h)
    PROVE  Meant'
<1>1. handler[h] # Null /\ UNCHANGED late
  BY DEF FindCustomer, CreateCustomer, Is
<1>2. handler[h] \in Handler /\ SoundHandler(World, handler[h])
  BY <1>1, HandlerOf
<1>3. handler[h].kind = "sync"
  BY <1>2 DEF FindCustomer, CreateCustomer, Is, SoundHandler
<1>4. \E hd \in Handler \cup {Null} :
          /\ handler' = [handler EXCEPT ![h] = hd]
          /\ hd # Null => hd.kind = handler[h].kind
  <2>1. CASE \E id \in Ids : Ensured(h, id)
    <3>1. PICK id \in Ids : Ensured(h, id)
      BY <2>1
    <3> DEFINE new == [handler[h] EXCEPT !.phase = "jobs", !.ids = {id}, !.tries = 0]
    <3>2. new \in Handler /\ new.kind = handler[h].kind
      BY <1>2, FirstTry DEF Handler
    <3>3. handler' = [handler EXCEPT ![h] = new]
      BY <3>1 DEF Ensured
    <3> HIDE DEF new
    <3> QED
      BY <3>2, <3>3
  <2>2. CASE handler' = [handler EXCEPT ![h] = [@ EXCEPT !.phase = "create", !.tries = 0]]
    <3> DEFINE new == [handler[h] EXCEPT !.phase = "create", !.tries = 0]
    <3>1. new \in Handler /\ new.kind = handler[h].kind
      BY <1>2, FirstTry DEF Handler
    <3>2. handler' = [handler EXCEPT ![h] = new]
      BY <2>2
    <3> HIDE DEF new
    <3> QED
      BY <3>1, <3>2
  <2> QED
    BY <2>1, <2>2 DEF FindCustomer, CreateCustomer, Matching
<1>5. late' = {}
  BY <1>1 DEF Meant
<1> QED
  BY <1>1, <1>3, <1>4, <1>5, OtherKindMeant

LEMMA FindGroupsMeant ==
    ASSUME IInv, NobodyElse, Meant, NEW h \in Handlers, FindGroups(h)
    PROVE  Meant'
<1>6. PICK id \in handler[h].ids, found \in BOOLEAN :
        /\ Jobs(h, SetJobs(id, handler[h].groups, CurrentGroups(id, found)))
        /\ handler' = [handler EXCEPT ![h] = [@ EXCEPT !.phase = "jobs", !.found = found]]
  BY DEF FindGroups
<1> DEFINE new == [handler[h] EXCEPT !.phase = "jobs", !.found = found]
<1>1. /\ handler[h] # Null /\ handler[h].kind = "set"
      /\ UNCHANGED <<members, late>>
  BY DEF FindGroups, Is
<1>2. handler[h] \in Handler
  BY <1>1, HandlerOf
<1>3. /\ new \in Handler /\ new.found = found
      /\ new.ids = handler[h].ids /\ new.groups = handler[h].groups
  BY <1>2 DEF Handler
<1>4. handler' = [handler EXCEPT ![h] = new]
  BY <1>6
<1> HIDE DEF new
<1>5. handler'[h] = new
  BY <1>3, <1>4, HandlerSet DEF IInv
<1>7. new.ids = {id} /\ id \in Ids /\ new.groups \subseteq Groups
  <2>1. handler[h].ids = {id}
    BY <1>1, <1>6 DEF Meant
  <2> QED
    BY <1>2, <1>3, <1>6, <2>1 DEF Handler
<1>8. ASSUME NEW g \in Groups
      PROVE  InPlace(h, id, g)'
  <2> DEFINE in == CurrentGroups(id, found)
             f == SetJobs(id, new.groups, in)
  <2>1. job'[h, g] = IF g \in DOMAIN f THEN f[g] ELSE Null
    BY <1>3, <1>6 DEF Jobs
  <2>2. /\ DOMAIN f = (new.groups \ in) \cup (in \ new.groups)
        /\ \A x \in DOMAIN f :
               f[x] = NewJob(IF x \in new.groups THEN "add" ELSE "remove", {id})
    BY DEF SetJobs
  <2>3. g \in in <=> found /\ id \in members[g]
    BY DEF CurrentGroups
  <2> HIDE DEF f, in
  <2>4. CASE g \notin DOMAIN f
    BY <1>1, <1>3, <1>5, <2>1, <2>2, <2>3, <2>4 DEF InPlace
  <2>5. CASE g \in DOMAIN f
    <3>1. job'[h, g] = NewJob(IF g \in new.groups THEN "add" ELSE "remove", {id})
      BY <2>1, <2>2, <2>5
    <3>2. \A op \in {"add", "remove"} :
            NewJob(op, {id}) # Null /\ NewJob(op, {id}).op = op /\ NewJob(op, {id}).ids = {id}
      BY <1>7, NewJobIsJob, NoHandlerAssumption
    <3> QED
      BY <1>5, <3>1, <3>2 DEF InPlace
  <2> QED
    BY <2>4, <2>5
<1>9. late' = {}
  BY <1>1 DEF Meant
<1> QED
  BY <1>5, <1>7, <1>8, <1>9, MeantStep

LEMMA DropNextMeant ==
    ASSUME IInv, NobodyElse, Meant, NEW h \in Handlers, NEW id \in Ids, DropNext(h, id)
    PROVE  Meant'
<1> DEFINE new == [handler[h] EXCEPT !.ids = handler[h].ids \ {id}]
<1>1. handler[h] # Null /\ handler[h].kind = "drop" /\ UNCHANGED late
  BY DEF DropNext, Is
<1>2. new \in Handler /\ new.kind = handler[h].kind
  BY <1>1, HandlerOf DEF Handler
<1>3. handler' = [handler EXCEPT ![h] = new]
  BY DEF DropNext
<1> HIDE DEF new
<1>4. late' = {}
  BY <1>1 DEF Meant
<1> QED
  BY <1>1, <1>2, <1>3, <1>4, OtherKindMeant

\* A job goes on, or writes what it is for.
LEMMA JobMeant ==
    ASSUME IInv, NobodyElse, Meant, NEW h \in Handlers, NEW g \in Groups,
           job[h, g] # Null, late' = {}, UNCHANGED handler,
           \A x \in Groups : x # g => job'[h, x] = job[h, x] /\ members'[x] = members[x],
           \/ /\ job'[h, g] # Null
              /\ job'[h, g].op = job[h, g].op /\ job'[h, g].ids = job[h, g].ids
           \/ job'[h, g] = Null /\ members'[g] = NewList(job[h, g])
    PROVE  Meant'
<1>1. CASE ~(handler[h].kind = "set" /\ handler[h].phase = "jobs" /\ ~handler[h].failed)
  BY <1>1, MeantStep DEF Meant
<1>2. CASE handler[h].kind = "set" /\ handler[h].phase = "jobs" /\ ~handler[h].failed
  <2>1. handler[h] # Null /\ job[h, g] \in Job
    BY JobOf
  <2>2. ASSUME NEW id \in handler[h].ids, NEW x \in Groups
        PROVE  InPlace(h, id, x)'
    <3>1. InPlace(h, id, x)
      BY <1>2, <2>1 DEF Meant
    <3>2. CASE x # g
      BY <3>1, <3>2 DEF InPlace
    <3>3. CASE x = g
      <4>1. id \in NewList(job[h, g]) <=> job[h, g].op = "add"
        BY <3>1, <3>3 DEF InPlace, NewList
      <4> QED
        BY <3>1, <3>3, <4>1 DEF InPlace
    <3> QED
      BY <3>2, <3>3
  <2>3. \A id \in handler[h].ids : handler[h].ids = {id}
    BY <1>2, <2>1 DEF Meant
  <2> QED
    BY <2>2, <2>3, MeantStep
<1> QED
  BY <1>1, <1>2

LEMMA ReadGroupMeant ==
    ASSUME IInv, NobodyElse, Meant, NEW h \in Handlers, NEW g \in Groups, ReadGroup(h, g)
    PROVE  Meant'
<1> DEFINE new == [job[h, g] EXCEPT !.step = "put", !.list = members[g], !.tries = 0]
<1>1. /\ job[h, g] # Null /\ UNCHANGED <<members, handler, late>>
      /\ members[g] \in SUBSET Ids
  BY TypesOfValues DEF ReadGroup, At, IInv
<1>2. job[h, g] \in Job
  BY <1>1, JobOf
<1>3. /\ new \in Job /\ new # Null /\ new.op = job[h, g].op /\ new.ids = job[h, g].ids
  BY <1>1, <1>2, FirstTry, NoHandlerAssumption DEF Job
<1>4. job' = [job EXCEPT ![<<h, g>>] = new]
  BY DEF ReadGroup
<1> HIDE DEF new
<1>5. job'[h, g] = new /\ \A x \in Groups : x # g => job'[h, x] = job[h, x]
  BY <1>3, <1>4, JobSet DEF IInv
<1>6. late' = {}
  BY <1>1 DEF Meant
<1> QED
  BY <1>1, <1>3, <1>5, <1>6, JobMeant

LEMMA WriteGroupMeant ==
    ASSUME IInv, NobodyElse, Meant, NEW h \in Handlers, NEW g \in Groups, WriteGroup(h, g)
    PROVE  Meant'
<1>1. /\ At(h, g, "put") /\ UNCHANGED <<handler, late>>
      /\ Overwritten(g, NewList(job[h, g]))
      /\ job' = [job EXCEPT ![<<h, g>>] = Null]
  BY DEF WriteGroup
<1>2. /\ members'[g] = NewList(job[h, g])
      /\ \A x \in Groups : x # g => members'[x] = members[x]
  BY <1>1, JobWrites, Overwriting DEF IInv
<1>3. job'[h, g] = Null /\ \A x \in Groups : x # g => job'[h, x] = job[h, x]
  BY <1>1, JobSet DEF IInv
<1>4. late' = {} /\ job[h, g] # Null
  BY <1>1 DEF Meant, At
<1> QED
  BY <1>1, <1>2, <1>3, <1>4, JobMeant

\* A request with a failed job is logged as failed: nothing is said of it.
LEMMA ErrorsMeant ==
    ASSUME IInv, NobodyElse, Meant, NEW h \in Handlers, NEW g \in Groups,
           job[h, g] # Null, JobErrors(h, g), late' = {}
    PROVE  Meant'
<1> DEFINE new == [handler[h] EXCEPT !.failed = TRUE]
<1>1. handler[h] # Null /\ handler[h] \in Handler
  BY JobOf, HandlerOf
<1>2. /\ new \in Handler /\ new.failed
      /\ new.kind = handler[h].kind /\ new.ids = handler[h].ids
  BY <1>1 DEF Handler
<1>3. handler' = [handler EXCEPT ![h] = new]
  BY DEF JobErrors
<1> HIDE DEF new
<1>4. handler'[h] = new
  BY <1>2, <1>3, HandlerSet DEF IInv
<1>5. new.kind = "set" => \A id \in new.ids : new.ids = {id}
  BY <1>1, <1>2 DEF Meant
<1> QED
  BY <1>2, <1>4, <1>5, MeantStep

LEMMA JobRefusedMeant ==
    ASSUME IInv, NobodyElse, Meant, NEW h \in Handlers, NEW g \in Groups, JobRefused(h, g)
    PROVE  Meant'
<1>1. job[h, g] # Null /\ JobErrors(h, g) /\ late' = {}
  BY DEF JobRefused, Meant
<1> QED
  BY <1>1, ErrorsMeant

LEMMA JobLostMeant ==
    ASSUME IInv, NobodyElse, Meant, NEW h \in Handlers, NEW g \in Groups, JobLost(h, g)
    PROVE  Meant'
<1>1. job[h, g] # Null
  BY DEF JobLost
<1>2. late' = {} /\ \A x \in Groups : x # g => members'[x] = members[x]
  <2>1. CASE UNCHANGED <<members, late>>
    BY <2>1 DEF Meant
  <2>2. CASE Unheard(Put(g, NewList(job[h, g])))
    BY <2>2, NeverLate
  <2>3. CASE /\ At(h, g, "put")
             /\ Overwritten(g, NewList(job[h, g])) /\ UNCHANGED late
    BY <2>3, JobWrites, Overwriting DEF IInv, Meant
  <2> QED
    BY <2>1, <2>2, <2>3 DEF JobLost
<1>3. CASE MayRetry(job[h, g].tries)
  <2>1. /\ job' = [job EXCEPT ![<<h, g>>] = [@ EXCEPT !.tries = job[h, g].tries + 1]]
        /\ UNCHANGED handler
    BY <1>3 DEF JobLost
  <2>2. /\ job'[h, g] # Null
        /\ job'[h, g].op = job[h, g].op /\ job'[h, g].ids = job[h, g].ids
        /\ \A x \in Groups : x # g => job'[h, x] = job[h, x]
    BY <1>1, <1>3, <2>1, RepeatedJob
  <2> QED
    BY <1>1, <1>2, <2>1, <2>2, JobMeant
<1>4. CASE ~MayRetry(job[h, g].tries)
  <2>1. JobErrors(h, g)
    BY <1>4 DEF JobLost
  <2> QED
    BY <1>1, <1>2, <2>1, ErrorsMeant
<1> QED
  BY <1>3, <1>4

\* A handler whose own call fails repeats it or answers with the error.
LEMMA CallFailsMeant ==
    ASSUME IInv, NobodyElse, Meant, NEW h \in Handlers, late' = {},
           Is(h, "find") \/ Is(h, "create"), Repeats(h) \/ Errors(h)
    PROVE  Meant'
<1>1. handler[h] # Null /\ handler[h].phase \in {"find", "create"}
  BY DEF Is
<1>2. handler[h] \in Handler
  BY <1>1, HandlerOf
<1>3. CASE Errors(h)
  <2>1. handler'[h] = Null
    BY <1>3, HandlerSet DEF Errors, IInv
  <2> QED
    BY <2>1, MeantStep
<1>4. CASE Repeats(h) /\ MayRetry(handler[h].tries)
  <2> DEFINE t == handler[h].tries + 1
             new == [handler[h] EXCEPT !.tries = t]
  <2>1. t \in Tries
    BY <1>2, <1>4, NextTry DEF Handler
  <2>2. handler' = [handler EXCEPT ![h] = new]
    BY <1>4 DEF Repeats
  <2> HIDE DEF t
  <2>3. /\ new \in Handler /\ new.phase # "jobs"
        /\ new.kind = handler[h].kind /\ new.ids = handler[h].ids
    BY <1>1, <1>2, <2>1 DEF Handler
  <2> HIDE DEF new
  <2>4. handler'[h] = new
    BY <2>2, <2>3, HandlerSet DEF IInv
  <2>5. new.kind = "set" => \A id \in new.ids : new.ids = {id}
    BY <1>1, <2>3 DEF Meant
  <2> QED
    BY <2>3, <2>4, <2>5, MeantStep
<1> QED
  BY <1>3, <1>4 DEF Repeats

LEMMA CallLostMeant ==
    ASSUME IInv, NobodyElse, Meant, NEW h \in Handlers, CallLost(h) \/ CallRefused(h)
    PROVE  Meant'
<1>1. late' = {}
  <2>1. CASE UNCHANGED late
    BY <2>1 DEF Meant
  <2>2. CASE Unheard(Post(handler[h].email))
    BY <2>2, NeverLate
  <2> QED
    BY <2>1, <2>2 DEF CallLost, CallRefused
<1> QED
  BY <1>1, CallFailsMeant DEF CallLost, CallRefused

LEMMA FinishMeant ==
    ASSUME IInv, NobodyElse, Meant, NEW h \in Handlers, Finish(h)
    PROVE  Meant'
<1>1. handler'[h] = Null /\ late' = {}
  BY HandlerSet DEF Finish, IInv, Meant
<1> QED
  BY <1>1, MeantStep

\* Meant is inductive, on top of IInv, when requests come one at a time.
LEMMA InitMeant == Init => Meant
  BY DEF Init, Meant

LEMMA NextMeant == ASSUME NobodyElse, IInv, Meant, [Next]_vars PROVE Meant'
<1>1. ASSUME NEW h \in Handlers, Proceeds(h) PROVE Meant'
  <2>1. ASSUME NEW g \in Groups,
               ReadGroup(h, g) \/ WriteGroup(h, g) \/ JobLost(h, g) \/ JobRefused(h, g)
        PROVE  Meant'
    BY <2>1, ReadGroupMeant, WriteGroupMeant, JobLostMeant, JobRefusedMeant
  <2> QED
    BY <1>1, <2>1, FindCustomerMeant, FindGroupsMeant, DropNextMeant,
       CallLostMeant, FinishMeant DEF Proceeds
<1>2. ~\E call \in late : LateArrives(call)
  BY DEF Meant
<1>3. CASE Crash
  BY <1>3 DEF Crash, Meant
<1>4. CASE UNCHANGED vars
  <2>1. UNCHANGED <<members, handler, job, late>>
    BY <1>4 DEF vars
  <2>2. ASSUME NEW h \in Handlers, NEW g \in Groups, NEW id, InPlace(h, id, g)
        PROVE  InPlace(h, id, g)'
    BY <2>1, <2>2 DEF InPlace
  <2> QED
    BY <2>1, <2>2, Zenon DEF Meant
<1> QED
  BY <1>1, <1>2, <1>3, <1>4, StartMeant DEF Next

\* When nobody else writes meanwhile, PUT /customers/:id/groups that succeeds
\* leaves the customer in all groups it named, and if the customer was found in
\* exactly those, whatever calls of its own were lost, applied or repeated
\* (toAdd, toRemove).
THEOREM SetsAsNamed == ASSUME NobodyElse PROVE Spec => SetTakesEffect
<1>1. Init => IInv /\ Meant
  BY InitSound, InitMeant
<1>2. IInv /\ Meant /\ [Next]_vars => (IInv /\ Meant)'
  BY NextKeeps, NextMeant
<1>3. IInv /\ Meant => \A h \in Handlers :
        Finish(h) /\ handler[h].kind = "set" /\ ~handler[h].failed =>
            \A id \in handler[h].ids, g \in Groups :
               /\ g \in handler[h].groups => id \in members[g]
               /\ id \in members[g] /\ handler[h].found => g \in handler[h].groups
  <2> SUFFICES ASSUME IInv, Meant, NEW h \in Handlers, Finish(h),
                      handler[h].kind = "set", ~handler[h].failed,
                      NEW id \in handler[h].ids, NEW g \in Groups
               PROVE  /\ g \in handler[h].groups => id \in members[g]
                      /\ id \in members[g] /\ handler[h].found => g \in handler[h].groups
    OBVIOUS
  <2>1. /\ handler[h] # Null /\ handler[h].phase = "jobs"
        /\ \A x \in Groups : job[h, x] = Null
    BY DEF Finish, Is
  <2> QED
    BY <2>1 DEF Meant, InPlace
<1> QED
  BY <1>1, <1>2, <1>3, PTL DEF Spec, SetTakesEffect
=============================================================================
