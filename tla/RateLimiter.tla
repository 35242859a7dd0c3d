---------------------------- MODULE RateLimiter ----------------------------
(***************************************************************************)
(* One limiter of middleware/rateLimit.ts: a bucket per client address in  *)
(* a Map, created and restarted by the requests themselves, and an         *)
(* interval that reclaims the buckets nobody touched.  The handler never   *)
(* awaits, so a request is one step.                                       *)
(*                                                                         *)
(* Limiters differ in their constants and in the answer they give when     *)
(* they refuse (429 or a silent 200), never in what they count; the key    *)
(* carries the limiter's name, so they share no bucket.                    *)
(***************************************************************************)
EXTENDS Integers, FiniteSetsExt

CONSTANTS
    Null,
    Clients,
    Limit,       \* options.max
    Window,      \* options.windowMs, in ticks
    Second,      \* ticks in the seconds of a Retry-After header
    SweepPeriod  \* SWEEP_INTERVAL_MS, in ticks

ASSUME LimiterAssumption ==
    /\ Limit \in Nat \ {0}
    /\ Window \in Nat \ {0}
    /\ Second \in Nat \ {0}
    /\ SweepPeriod \in Nat \ {0}

VARIABLES
    buckets,     \* the Map: a bucket, or Null, for each client
    sinceSweep,  \* ticks since the sweeper last ran
    passed,      \* history: how many requests passed in the last n ticks
                 \* and the current one
    promised,    \* history: ticks before the earliest moment a refused
                 \* client was told to come back, Null if none is pending
    life         \* history: changes with every restart of the process

vars == <<buckets, sinceSweep, passed, promised, life>>

\* A count beyond Limit + 1 is never told from Limit + 1.
Bucket == [count : 0 .. Limit + 1, age : 0 .. Window + SweepPeriod]

ASSUME NoBucketAssumption == Null \notin Bucket

LongestWait == Window + Second

ASSUME NoWaitAssumption == Null \notin 0 .. LongestWait

\* The Map and its interval.
TypeOK ==
    /\ buckets \in [Clients -> Bucket \cup {Null}]
    /\ sinceSweep \in 0 .. SweepPeriod
    /\ passed \in [Clients -> [0 .. Window - 1 -> Nat]]
    /\ promised \in [Clients -> 0 .. LongestWait \cup {Null}]
    /\ life \in BOOLEAN

Nothing == [c \in Clients |-> Null]

NonePassed == [c \in Clients |-> [n \in 0 .. Window - 1 |-> 0]]

Init ==
    /\ buckets = Nothing
    /\ sinceSweep = 0
    /\ passed = NonePassed
    /\ promised = Nothing
    /\ life = FALSE

---------------------------------------------------------------------------
\* `now - entry.windowStart >= options.windowMs`
Stale(bucket) == bucket.age >= Window

Entry(c) ==
    IF buckets[c] = Null \/ Stale(buckets[c])
    THEN [count |-> 0, age |-> 0]
    ELSE buckets[c]

Counted(c) == [Entry(c) EXCEPT !.count = Min({@ + 1, Limit + 1})]

\* Seeded fault: `entry.count > options.max + 1` refuses.
WithinLimitLoosely(bucket) == bucket.count <= Limit + 1

WithinLimit(bucket) == bucket.count <= Limit

\* Seeded fault: the seconds are rounded down.
RetryAfterRoundedDown(bucket) == Max({1, (Window - bucket.age) \div Second})

\* Math.max(1, Math.ceil(remaining / 1000)), in seconds.
RetryAfter(bucket) == Max({1, (Window - bucket.age + Second - 1) \div Second})

\* The request is counted and goes on to its handler.
Admit(c) ==
    /\ WithinLimit(Counted(c))
    /\ buckets' = [buckets EXCEPT ![c] = Counted(c)]
    /\ passed' = [passed EXCEPT ![c] = [n \in 0 .. Window - 1 |-> @[n] + 1]]
    /\ promised' = [promised EXCEPT ![c] =
                      IF Counted(c).age = 0 /\ Counted(c).count = 1 THEN Null ELSE @]
    /\ UNCHANGED <<sinceSweep, life>>

\* The request is counted too, and answered with a Retry-After header.
Refuse(c) ==
    /\ ~WithinLimit(Counted(c))
    /\ buckets' = [buckets EXCEPT ![c] = Counted(c)]
    /\ promised' = [promised EXCEPT ![c] =
                      LET wait == RetryAfter(Counted(c)) * Second
                      IN  IF @ = Null THEN wait ELSE Min({@, wait})]
    /\ UNCHANGED <<sinceSweep, passed, life>>

\* Seeded fault: the sweeper compares with `>`.
ReclaimedStrictly == {c \in Clients : buckets[c] # Null /\ buckets[c].age > Window}

\* Seeded fault: the sweeper empties the Map.
ReclaimedAll == Clients

\* The buckets the sweeper deletes.
Reclaimed == {c \in Clients : buckets[c] # Null /\ buckets[c].age >= Window}

\* The interval of startRateLimitSweeper fires.
Sweep ==
    /\ sinceSweep = SweepPeriod
    /\ buckets' = [c \in Clients |-> IF c \in Reclaimed THEN Null ELSE buckets[c]]
    /\ sinceSweep' = 0
    /\ UNCHANGED <<passed, promised, life>>

\* The process dies and is started again: the Map was its only memory.
Restart ==
    /\ buckets' = Nothing
    /\ sinceSweep' = 0
    /\ passed' = NonePassed
    /\ promised' = Nothing
    /\ life' = ~life

Aged(bucket) ==
    IF bucket = Null THEN Null
    ELSE [bucket EXCEPT !.age = Min({@ + 1, Window + SweepPeriod})]

\* Time passes; the interval bounds how much of it passes between two sweeps.
Tick ==
    /\ sinceSweep < SweepPeriod
    /\ sinceSweep' = sinceSweep + 1
    /\ buckets' = [c \in Clients |-> Aged(buckets[c])]
    /\ passed' = [c \in Clients |-> [n \in 0 .. Window - 1 |->
                    IF n = 0 THEN 0 ELSE passed[c][n - 1]]]
    /\ promised' = [c \in Clients |->
                      IF promised[c] \in {0, Null} THEN promised[c] ELSE promised[c] - 1]
    /\ UNCHANGED life

Next == (\E c \in Clients : Admit(c) \/ Refuse(c)) \/ Sweep \/ Restart \/ Tick

Spec == Init /\ [][Next]_vars

---------------------------------------------------------------------------
PassedRecently(c) == passed[c][Window - 1]

\* In ANY stretch of Window ticks, aligned with the client's windows or not,
\* at most twice the limit passes (createRateLimiter); restarts apart.
SlidingBound == \A c \in Clients : PassedRecently(c) <= 2 * Limit

\* When the time a refused client was told to wait is over, the window that
\* refused it is over too, whatever else its address sent meanwhile
\* (Retry-After in createRateLimiter).
RetryAfterHonest ==
    \A c \in Clients :
        promised[c] = 0 => buckets[c] = Null \/ Stale(buckets[c])

\* No bucket stays in the Map longer than its window and one interval
\* (startRateLimitSweeper).
StaleReclaimed ==
    \A c \in Clients :
        buckets[c] # Null => buckets[c].age < Window + sinceSweep

---------------------------------------------------------------------------
(* The Map and its sweeper implement the abstract limiter.                 *)

Open(c) == buckets[c] # Null /\ ~Stale(buckets[c])

\* The sweeper, the stale buckets and the counts of refused requests are
\* invisible to clients, and only a restart makes it forget a window: the
\* limiter implements FixedWindow.
FW == INSTANCE FixedWindow WITH
        taken <- [c \in Clients |-> IF Open(c) THEN Min({buckets[c].count, Limit}) ELSE 0],
        left  <- [c \in Clients |-> IF Open(c) THEN Window - buckets[c].age ELSE 0]

ImplementsFixedWindow == FW!Spec
=============================================================================
