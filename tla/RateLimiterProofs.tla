------------------------- MODULE RateLimiterProofs -------------------------
(***************************************************************************)
(* Proofs about RateLimiter for every set of clients, limit, window and    *)
(* sweep interval: its memory is reclaimed in time, it implements          *)
(* FixedWindow, and what it tells a refused client is true.                *)
(***************************************************************************)
EXTENDS RateLimiter, TLAPS

\* The part of the state that clients and the sweeper touch.
BucketsOK ==
    /\ buckets \in [Clients -> Bucket \cup {Null}]
    /\ sinceSweep \in 0 .. SweepPeriod

\* A bucket has counted the request that made it.
Counting == \A c \in Clients : buckets[c] # Null => buckets[c].count >= 1

IInv == BucketsOK /\ Counting /\ StaleReclaimed

---------------------------------------------------------------------------
\* Min of two numbers, as the module uses it for its caps.
LEMMA MinOfTwo ==
    ASSUME NEW a \in Nat, NEW b \in Nat
    PROVE  Min({a, b}) = IF a <= b THEN a ELSE b
<1> DEFINE S == {a, b}
           m == IF a <= b THEN a ELSE b
<1>1. m \in S /\ \A y \in S : m =< y
  OBVIOUS
<1>2. \A x \in S : (\A y \in S : x =< y) => x = m
  OBVIOUS
<1> QED
  BY <1>1, <1>2, Zenon DEF Min

\* A counted entry is a bucket inside its window.
LEMMA CountedIsBucket ==
    ASSUME BucketsOK, Counting, NEW c \in Clients
    PROVE  /\ Counted(c) \in Bucket
           /\ Counted(c).count >= 1
           /\ Counted(c).age < Window
           /\ Open(c) => Counted(c).age = buckets[c].age
           /\ ~Open(c) => Counted(c).age = 0 /\ Counted(c).count = 1
           /\ Open(c) => Counted(c).count =
                IF buckets[c].count <= Limit THEN buckets[c].count + 1 ELSE Limit + 1
<1>1. Entry(c) \in Bucket /\ Entry(c).age < Window
  BY LimiterAssumption DEF BucketsOK, Entry, Stale, Bucket
<1>2. Entry(c) = IF Open(c) THEN buckets[c] ELSE [count |-> 0, age |-> 0]
  BY DEF Entry, Open
<1>3. Min({Entry(c).count + 1, Limit + 1}) =
        IF Entry(c).count + 1 <= Limit + 1 THEN Entry(c).count + 1 ELSE Limit + 1
  BY <1>1, MinOfTwo, LimiterAssumption DEF Bucket
<1>4. Counted(c) = [Entry(c) EXCEPT !.count =
        IF Entry(c).count + 1 <= Limit + 1 THEN Entry(c).count + 1 ELSE Limit + 1]
  BY <1>3 DEF Counted
<1> QED
  BY <1>1, <1>2, <1>4, LimiterAssumption DEF Bucket

\* What a tick does to a bucket that is younger than the cap.
LEMMA AgedBucket ==
    ASSUME NEW b \in Bucket
    PROVE  /\ Aged(b) \in Bucket
           /\ Aged(b).count = b.count
           /\ Aged(b).age = IF b.age < Window + SweepPeriod THEN b.age + 1 ELSE b.age
<1>1. Min({b.age + 1, Window + SweepPeriod}) =
        IF b.age + 1 <= Window + SweepPeriod THEN b.age + 1 ELSE Window + SweepPeriod
  BY MinOfTwo, LimiterAssumption DEF Bucket
<1>2. b # Null
  BY NoBucketAssumption
<1> QED
  BY <1>1, <1>2, LimiterAssumption DEF Aged, Bucket

---------------------------------------------------------------------------
\* The invariant holds at first and is kept by every step.
LEMMA InitIInv == Init => IInv
  BY LimiterAssumption DEF Init, IInv, BucketsOK, Counting, StaleReclaimed, Nothing

LEMMA StepIInv == IInv /\ [Next]_vars => IInv'
<1> SUFFICES ASSUME IInv, [Next]_vars PROVE IInv'
  OBVIOUS
<1> USE LimiterAssumption DEF IInv
<1>1. ASSUME NEW c \in Clients, Admit(c) \/ Refuse(c) PROVE IInv'
  <2>1. buckets' = [buckets EXCEPT ![c] = Counted(c)] /\ sinceSweep' = sinceSweep
    BY <1>1 DEF Admit, Refuse
  <2>2. Counted(c) \in Bucket /\ Counted(c).count >= 1 /\ Counted(c).age < Window
    BY CountedIsBucket
  <2>3. BucketsOK'
    BY <2>1, <2>2 DEF BucketsOK
  <2>4. Counting'
    BY <2>1, <2>2 DEF Counting, BucketsOK
  <2>5. StaleReclaimed'
    BY <2>1, <2>2 DEF StaleReclaimed, BucketsOK, Bucket
  <2> QED
    BY <2>3, <2>4, <2>5
<1>2. CASE Sweep
  BY <1>2 DEF Sweep, Reclaimed, BucketsOK, Counting, StaleReclaimed, Bucket
<1>3. CASE Restart
  BY <1>3 DEF Restart, Nothing, BucketsOK, Counting, StaleReclaimed
<1>4. CASE Tick
  <2>1. /\ sinceSweep < SweepPeriod
        /\ sinceSweep' = sinceSweep + 1
        /\ buckets' = [c \in Clients |-> Aged(buckets[c])]
    BY <1>4 DEF Tick
  <2>2. \A c \in Clients : buckets[c] = Null => buckets'[c] = Null
    BY <2>1 DEF Aged
  <2>3. \A c \in Clients : buckets[c] # Null =>
          /\ buckets'[c] \in Bucket
          /\ buckets'[c].count = buckets[c].count
          /\ buckets'[c].age <= buckets[c].age + 1
    BY <2>1, AgedBucket DEF BucketsOK, Bucket
  <2>4. BucketsOK'
    BY <2>1, <2>2, <2>3 DEF BucketsOK
  <2>5. Counting'
    BY <2>2, <2>3 DEF Counting
  <2>6. StaleReclaimed'
    BY <2>1, <2>2, <2>3, <2>4 DEF StaleReclaimed, BucketsOK, Bucket
  <2> QED
    BY <2>4, <2>5, <2>6
<1>5. CASE UNCHANGED vars
  BY <1>5 DEF vars, BucketsOK, Counting, StaleReclaimed
<1> QED
  BY <1>1, <1>2, <1>3, <1>4, <1>5 DEF Next

\* The inductive invariant.
THEOREM Invariance == Spec => []IInv
  BY InitIInv, StepIInv, PTL DEF Spec

\* startRateLimitSweeper: no bucket outlives its window and one interval.
THEOREM ReclaimedInTime == Spec => []StaleReclaimed
<1>1. IInv => StaleReclaimed
  BY DEF IInv
<1> QED
  BY <1>1, Invariance, PTL

---------------------------------------------------------------------------
(* The refinement.                                                         *)

Taken(c) == IF Open(c)
            THEN IF buckets[c].count <= Limit THEN buckets[c].count ELSE Limit
            ELSE 0
Left(c) == IF Open(c) THEN Window - buckets[c].age ELSE 0

\* The abstract state, without the caps of the Map.
LEMMA Mapping ==
    ASSUME BucketsOK
    PROVE  /\ [c \in Clients |-> IF Open(c) THEN Min({buckets[c].count, Limit}) ELSE 0]
                = [c \in Clients |-> Taken(c)]
           /\ [c \in Clients |-> IF Open(c) THEN Window - buckets[c].age ELSE 0]
                = [c \in Clients |-> Left(c)]
<1>1. ASSUME NEW c \in Clients, Open(c)
      PROVE  Min({buckets[c].count, Limit}) =
               IF buckets[c].count <= Limit THEN buckets[c].count ELSE Limit
  BY <1>1, MinOfTwo, LimiterAssumption DEF BucketsOK, Bucket, Open
<1> QED
  BY <1>1 DEF Taken, Left

\* The same for the next state.
LEMMA MappingNext ==
    ASSUME BucketsOK'
    PROVE  /\ [c \in Clients |-> IF Open(c) THEN Min({buckets[c].count, Limit}) ELSE 0]'
                = [c \in Clients |-> Taken(c)']
           /\ [c \in Clients |-> IF Open(c) THEN Window - buckets[c].age ELSE 0]'
                = [c \in Clients |-> Left(c)']
<1>1. ASSUME NEW c \in Clients, Open(c)'
      PROVE  Min({buckets'[c].count, Limit}) =
               IF buckets'[c].count <= Limit THEN buckets'[c].count ELSE Limit
  BY <1>1, MinOfTwo, LimiterAssumption DEF BucketsOK, Bucket, Open
<1> QED
  BY <1>1 DEF Taken, Left

\* A request that is admitted passes in the abstract window.
LEMMA AdmitPasses ==
    ASSUME IInv, IInv', NEW c \in Clients, Admit(c)
    PROVE  /\ Taken(c) < Limit
           /\ Taken(c)' = Taken(c) + 1
           /\ Left(c)' = IF Left(c) = 0 THEN Window ELSE Left(c)
           /\ \A d \in Clients \ {c} : Taken(d)' = Taken(d) /\ Left(d)' = Left(d)
<1> USE LimiterAssumption DEF IInv
<1>1. /\ buckets' = [buckets EXCEPT ![c] = Counted(c)]
      /\ Counted(c).count <= Limit
  BY DEF Admit, WithinLimit
<1>2. /\ Counted(c) \in Bucket
      /\ Counted(c).age < Window
      /\ Open(c) => Counted(c).age = buckets[c].age
      /\ ~Open(c) => Counted(c).age = 0 /\ Counted(c).count = 1
      /\ Open(c) => Counted(c).count =
           IF buckets[c].count <= Limit THEN buckets[c].count + 1 ELSE Limit + 1
  BY CountedIsBucket
<1>3. buckets'[c] = Counted(c) /\ \A d \in Clients \ {c} : buckets'[d] = buckets[d]
  BY <1>1 DEF BucketsOK
<1>4. Open(c)'
  BY <1>2, <1>3, NoBucketAssumption DEF Open, Stale, Bucket
<1>5. /\ Taken(c) < Limit
      /\ Taken(c)' = Taken(c) + 1
      /\ Left(c)' = IF Left(c) = 0 THEN Window ELSE Left(c)
  <2>1. CASE Open(c)
    <3>1. buckets[c] \in Bucket /\ buckets[c].age < Window
      BY <2>1 DEF BucketsOK, Open, Stale, Bucket
    <3> QED
      BY <2>1, <3>1, <1>1, <1>2, <1>3, <1>4 DEF Taken, Left, Bucket
  <2>2. CASE ~Open(c)
    BY <2>2, <1>1, <1>2, <1>3, <1>4 DEF Taken, Left, Bucket
  <2> QED
    BY <2>1, <2>2
<1>6. \A d \in Clients \ {c} : Taken(d)' = Taken(d) /\ Left(d)' = Left(d)
  BY <1>3 DEF Taken, Left, Open, Stale
<1> QED
  BY <1>5, <1>6

\* A request that is refused is turned away by a full abstract window.
LEMMA RefuseTurnsAway ==
    ASSUME IInv, IInv', NEW c \in Clients, Refuse(c)
    PROVE  /\ Left(c) > 0
           /\ Taken(c) = Limit
           /\ \A d \in Clients : Taken(d)' = Taken(d) /\ Left(d)' = Left(d)
<1> USE LimiterAssumption DEF IInv
<1>1. /\ buckets' = [buckets EXCEPT ![c] = Counted(c)]
      /\ ~(Counted(c).count <= Limit)
  BY DEF Refuse, WithinLimit
<1>2. /\ Counted(c) \in Bucket
      /\ Counted(c).age < Window
      /\ Open(c) => Counted(c).age = buckets[c].age
      /\ ~Open(c) => Counted(c).age = 0 /\ Counted(c).count = 1
      /\ Open(c) => Counted(c).count =
           IF buckets[c].count <= Limit THEN buckets[c].count + 1 ELSE Limit + 1
  BY CountedIsBucket
<1>3. buckets'[c] = Counted(c) /\ \A d \in Clients \ {c} : buckets'[d] = buckets[d]
  BY <1>1 DEF BucketsOK
<1>4. Open(c) /\ Open(c)'
  BY <1>1, <1>2, <1>3, NoBucketAssumption DEF Open, Stale, Bucket
<1>5. buckets[c] \in Bucket /\ buckets[c].age < Window
  BY <1>4 DEF BucketsOK, Open, Stale, Bucket
<1>6. /\ Left(c) > 0 /\ Taken(c) = Limit
      /\ Taken(c)' = Taken(c) /\ Left(c)' = Left(c)
  BY <1>1, <1>2, <1>3, <1>4, <1>5 DEF Taken, Left, Bucket
<1>7. \A d \in Clients \ {c} : Taken(d)' = Taken(d) /\ Left(d)' = Left(d)
  BY <1>3 DEF Taken, Left, Open, Stale
<1> QED
  BY <1>6, <1>7

\* A sweep is invisible.
LEMMA SweepStutters ==
    ASSUME IInv, IInv', Sweep
    PROVE  \A c \in Clients : Taken(c)' = Taken(c) /\ Left(c)' = Left(c)
  BY LimiterAssumption
     DEF IInv, BucketsOK, Bucket, Sweep, Reclaimed, Taken, Left, Open, Stale

\* A tick elapses in every abstract window.
LEMMA TickElapses ==
    ASSUME IInv, IInv', Tick
    PROVE  \A c \in Clients :
             /\ Left(c)' = IF Left(c) = 0 THEN 0 ELSE Left(c) - 1
             /\ Taken(c)' = IF Left(c) > 1 THEN Taken(c) ELSE 0
<1> SUFFICES ASSUME NEW c \in Clients
             PROVE  /\ Left(c)' = IF Left(c) = 0 THEN 0 ELSE Left(c) - 1
                    /\ Taken(c)' = IF Left(c) > 1 THEN Taken(c) ELSE 0
  OBVIOUS
<1> USE LimiterAssumption DEF IInv
<1>1. buckets'[c] = Aged(buckets[c])
  BY DEF Tick
<1>2. CASE buckets[c] = Null
  BY <1>1, <1>2 DEF Aged, Left, Taken, Open
<1>3. CASE buckets[c] # Null
  <2>1. buckets[c] \in Bucket
    BY <1>3 DEF BucketsOK
  <2>2. /\ buckets'[c] # Null
        /\ buckets'[c].count = buckets[c].count
        /\ buckets'[c].age = IF buckets[c].age < Window + SweepPeriod
                             THEN buckets[c].age + 1 ELSE buckets[c].age
    BY <1>1, <2>1, AgedBucket, NoBucketAssumption
  <2> QED
    BY <1>3, <2>1, <2>2 DEF Left, Taken, Open, Stale, Bucket
<1> QED
  BY <1>2, <1>3

\* The initial state maps to the initial state.
LEMMA RefinesInit == Init => FW!Init
  BY DEF Init, Nothing, Open, FW!Init

\* Every step maps to a step of the abstract limiter or to none.
LEMMA RefinesStep == IInv /\ IInv' /\ [Next]_vars => [FW!Next]_(FW!vars)
<1> SUFFICES ASSUME IInv, IInv', [Next]_vars PROVE [FW!Next]_(FW!vars)
  OBVIOUS
<1> DEFINE taken == [c \in Clients |-> IF Open(c) THEN Min({buckets[c].count, Limit}) ELSE 0]
           left == [c \in Clients |-> IF Open(c) THEN Window - buckets[c].age ELSE 0]
<1>1. /\ taken = [c \in Clients |-> Taken(c)]
      /\ left = [c \in Clients |-> Left(c)]
  BY Mapping DEF IInv
<1>2. /\ taken' = [c \in Clients |-> Taken(c)']
      /\ left' = [c \in Clients |-> Left(c)']
  BY MappingNext DEF IInv
<1> HIDE DEF taken, left
<1>3. ASSUME NEW c \in Clients, Admit(c) PROVE FW!Pass(c)
  <2>1. /\ taken[c] < Limit
        /\ taken' = [taken EXCEPT ![c] = @ + 1]
        /\ left' = [left EXCEPT ![c] = IF @ = 0 THEN Window ELSE @]
    BY <1>1, <1>2, <1>3, AdmitPasses
  <2>2. life' = life
    BY <1>3 DEF Admit
  <2> QED
    BY <2>1, <2>2 DEF FW!Pass, taken, left
<1>4. ASSUME NEW c \in Clients, Refuse(c) PROVE FW!TurnAway(c)
  <2>1. left[c] > 0 /\ taken[c] = Limit /\ taken' = taken /\ left' = left
    BY <1>1, <1>2, <1>4, RefuseTurnsAway
  <2>2. life' = life
    BY <1>4 DEF Refuse
  <2> QED
    BY <2>1, <2>2 DEF FW!TurnAway, FW!vars, taken, left
<1>5. ASSUME Sweep PROVE UNCHANGED FW!vars
  <2>1. taken' = taken /\ left' = left
    BY <1>1, <1>2, <1>5, SweepStutters
  <2>2. life' = life
    BY <1>5 DEF Sweep
  <2> QED
    BY <2>1, <2>2 DEF FW!vars, taken, left
<1>6. ASSUME Restart PROVE FW!Forget
  BY <1>6 DEF Restart, Nothing, Open, FW!Forget
<1>7. ASSUME Tick PROVE FW!Elapse
  <2>1. /\ left' = [c \in Clients |-> IF left[c] = 0 THEN 0 ELSE left[c] - 1]
        /\ taken' = [c \in Clients |-> IF left[c] > 1 THEN taken[c] ELSE 0]
    BY <1>1, <1>2, <1>7, TickElapses
  <2>2. life' = life
    BY <1>7 DEF Tick
  <2> QED
    BY <2>1, <2>2 DEF FW!Elapse, taken, left
<1>8. ASSUME UNCHANGED vars PROVE UNCHANGED FW!vars
  BY <1>8 DEF vars, FW!vars, Open, Stale
<1> QED
  BY <1>3, <1>4, <1>5, <1>6, <1>7, <1>8 DEF Next, FW!Next

\* createRateLimiter and its sweeper implement the abstract limiter.
THEOREM Refinement == Spec => ImplementsFixedWindow
  BY RefinesInit, RefinesStep, Invariance, PTL
     DEF Spec, ImplementsFixedWindow, FW!Spec
---------------------------------------------------------------------------
(* What clients were told, and what passed.                                *)

\* Requests that passed since the open window began are counted in it. Of any
\* Window ticks the others touch one window more, the one before: two windows
\* begin at least Window ticks apart.
PassedCounted ==
    \A c \in Clients : \A n \in 0 .. Window - 1 :
        passed[c][n] <= IF n = 0 \/ (Open(c) /\ n <= buckets[c].age)
                        THEN Taken(c) ELSE Limit + Taken(c)

\* A refused client is not called back before its window ends.
PromiseKept ==
    \A c \in Clients :
        promised[c] # Null /\ Open(c) => promised[c] >= Window - buckets[c].age

TInv == IInv /\ TypeOK /\ PassedCounted /\ PromiseKept

\* Rounding up to seconds never falls short of the rest of the window, and
\* adds less than a second.
LEMMA WaitCovers ==
    ASSUME NEW left \in 1 .. Window
    PROVE  /\ ((left + Second - 1) \div Second) * Second \in left .. left + Second - 1
           /\ (left + Second - 1) \div Second >= 1
<1>1. left \in Nat /\ left >= 1 /\ Second \in Nat /\ Second > 0
  BY LimiterAssumption
<1> DEFINE n == left + Second - 1
           q == n \div Second
<1>2. n \in Nat /\ n >= Second
  BY <1>1
<1>3. q \in Int /\ n = Second * q + (n % Second) /\ n % Second \in 0 .. Second - 1
  BY <1>1, <1>2
<1>4. q * Second \in Int /\ q * Second = Second * q
  BY <1>1, <1>3
<1>5. q * Second \in left .. n
  <2> DEFINE m == q * Second
             rest == n % Second
  <2>1. m \in Int /\ rest \in 0 .. Second - 1 /\ n = m + rest
    BY <1>3, <1>4
  <2> HIDE DEF m, rest
  <2>2. m \in left .. n
    BY <1>1, <2>1
  <2> QED BY <2>2 DEF m
<1>6. q >= 1
  BY <1>1, <1>2, <1>3, <1>5
<1> QED BY <1>5, <1>6

LEMMA MaxOfTwo ==
    ASSUME NEW a \in Int, NEW b \in Int
    PROVE  Max({a, b}) = IF a >= b THEN a ELSE b
<1> DEFINE S == {a, b}
           m == IF a >= b THEN a ELSE b
<1>1. m \in S /\ \A y \in S : m >= y
  OBVIOUS
<1>2. \A x \in S : (\A y \in S : x >= y) => x = m
  OBVIOUS
<1> QED
  BY <1>1, <1>2, Zenon DEF Max

\* What a refused client is told covers the rest of its window.
LEMMA ToldWait ==
    ASSUME NEW b \in Bucket, b.age < Window
    PROVE  /\ RetryAfter(b) * Second \in 0 .. LongestWait
           /\ RetryAfter(b) * Second >= Window - b.age
<1> DEFINE left == Window - b.age
           q == (left + Second - 1) \div Second
<1>1. left \in 1 .. Window /\ Window \in Nat /\ Second \in Nat \ {0}
  BY LimiterAssumption DEF Bucket
<1>2. q * Second \in left .. left + Second - 1 /\ q >= 1 /\ q \in Int
  BY <1>1, WaitCovers
<1>3. RetryAfter(b) = q
  <2>1. RetryAfter(b) = Max({1, q})
    BY DEF RetryAfter
  <2> HIDE DEF q
  <2> QED BY <1>2, <2>1, MaxOfTwo
<1> DEFINE m == q * Second
<1>4. m \in left .. left + Second - 1 /\ RetryAfter(b) * Second = m
  BY <1>2, <1>3
<1> HIDE DEF left, m, q
<1>5. m \in 0 .. LongestWait /\ m >= left
  BY <1>1, <1>4 DEF LongestWait
<1> QED BY <1>4, <1>5 DEF left

LEMMA InitTInv == Init => TInv
<1> SUFFICES ASSUME Init PROVE TInv
  OBVIOUS
<1>1. IInv
  BY InitIInv
<1>2. TypeOK
  <2>1. passed \in [Clients -> [0 .. Window - 1 -> Nat]]
    BY LimiterAssumption DEF Init, NonePassed
  <2> QED BY <1>1, <2>1 DEF Init, TypeOK, IInv, BucketsOK, Nothing
<1>3. PassedCounted /\ PromiseKept
  BY LimiterAssumption DEF Init, PassedCounted, PromiseKept, NonePassed, Nothing, Open, Taken
<1> QED BY <1>1, <1>2, <1>3 DEF TInv

\* One more passes, and is counted.
LEMMA AdmitKeeps == ASSUME TInv, IInv', NEW c \in Clients, Admit(c) PROVE TInv'
<1>1. /\ Taken(c) < Limit /\ Taken(c)' = Taken(c) + 1
      /\ \A d \in Clients \ {c} : Taken(d)' = Taken(d)
  BY AdmitPasses DEF TInv
<1>2. /\ buckets' = [buckets EXCEPT ![c] = Counted(c)]
      /\ passed' = [passed EXCEPT ![c] = [n \in 0 .. Window - 1 |-> passed[c][n] + 1]]
      /\ promised' = [promised EXCEPT ![c] =
                        IF Counted(c).age = 0 /\ Counted(c).count = 1 THEN Null ELSE promised[c]]
      /\ life' = life
  BY DEF Admit
<1>3. Taken(c) \in Nat
  BY LimiterAssumption DEF TInv, TypeOK, Taken, Bucket, Open
<1>4. /\ passed' \in [Clients -> [0 .. Window - 1 -> Nat]]
      /\ \A n \in 0 .. Window - 1 : passed'[c][n] = passed[c][n] + 1
      /\ \A d \in Clients \ {c} : passed'[d] = passed[d]
  <2> DEFINE more == [n \in 0 .. Window - 1 |-> passed[c][n] + 1]
  <2>1. more \in [0 .. Window - 1 -> Nat] /\ \A n \in 0 .. Window - 1 : more[n] = passed[c][n] + 1
    <3>1. passed[c] \in [0 .. Window - 1 -> Nat]
      BY DEF TInv, TypeOK
    <3>2. \A n \in 0 .. Window - 1 : passed[c][n] \in Nat
      BY <3>1
    <3> QED BY <3>2
  <2> HIDE DEF more
  <2>2. passed' = [passed EXCEPT ![c] = more]
    BY <1>2 DEF more
  <2> QED BY <2>1, <2>2 DEF TInv, TypeOK
<1>5. promised' \in [Clients -> 0 .. LongestWait \cup {Null}]
  BY <1>2 DEF TInv, TypeOK
<1>6. TypeOK'
  BY <1>2, <1>4, <1>5 DEF TInv, TypeOK, IInv, BucketsOK
<1>7. PassedCounted'
  <2> SUFFICES ASSUME NEW d \in Clients, NEW n \in 0 .. Window - 1
               PROVE  passed'[d][n] <= IF n = 0 \/ (Open(d)' /\ n <= buckets'[d].age)
                                       THEN Taken(d)' ELSE Limit + Taken(d)'
    BY DEF PassedCounted
  <2>1. passed[d][n] <= IF n = 0 \/ (Open(d) /\ n <= buckets[d].age)
                        THEN Taken(d) ELSE Limit + Taken(d)
    BY DEF TInv, PassedCounted
  <2>2. CASE d # c
    <3>1. buckets'[d] = buckets[d] /\ passed'[d] = passed[d]
      BY <1>2, <1>4, <2>2 DEF TInv, TypeOK
    <3>2. Open(d)' = Open(d) /\ Taken(d)' = Taken(d)
      BY <1>1, <2>2, <3>1 DEF Open, Stale
    <3> QED BY <2>1, <3>1, <3>2
  <2>3. CASE d = c
    <3>1. buckets'[c] = Counted(c) /\ Counted(c).age \in Nat
      BY <1>2, CountedIsBucket, LimiterAssumption DEF TInv, TypeOK, IInv, Bucket
    <3>2. Open(c) => Counted(c).age = buckets[c].age
      BY CountedIsBucket DEF TInv, IInv
    <3>3. passed[c][n] \in Nat /\ passed'[c][n] = passed[c][n] + 1
      BY <1>4 DEF TInv, TypeOK
    <3>4. CASE Open(c)
      BY <1>1, <1>3, <2>1, <2>3, <3>1, <3>2, <3>3, <3>4, LimiterAssumption
    <3>5. CASE ~Open(c)
      <4>1. Taken(c) = 0
        BY <3>5 DEF Taken
      <4>2. Counted(c).age = 0
        BY <3>5, CountedIsBucket DEF TInv, IInv
      <4>3. Taken(c)' = 1
        BY <1>1, <4>1
      <4>4. passed[c][n] <= IF n = 0 THEN 0 ELSE Limit
        BY <2>1, <2>3, <3>5, <4>1, LimiterAssumption
      <4>5. n \in Nat /\ (n <= buckets'[c].age => n = 0)
        BY <3>1, <4>2, LimiterAssumption
      <4> QED BY <2>3, <3>3, <4>3, <4>4, <4>5, LimiterAssumption
    <3> QED BY <3>4, <3>5
  <2> QED BY <2>2, <2>3
<1>8. PromiseKept'
  <2>1. /\ Open(c) => Counted(c).age = buckets[c].age /\ Counted(c).count # 1
        /\ ~Open(c) => Counted(c).age = 0 /\ Counted(c).count = 1
    <3>1. Open(c) => buckets[c].count >= 1 /\ buckets[c].count \in Nat
      BY DEF TInv, IInv, Counting, BucketsOK, Bucket, Open
    <3> QED BY <3>1, CountedIsBucket, LimiterAssumption DEF TInv, IInv
  <2>2. /\ buckets'[c] = Counted(c)
        /\ \A d \in Clients \ {c} : buckets'[d] = buckets[d] /\ promised'[d] = promised[d]
    BY <1>2 DEF TInv, TypeOK
  <2>3. promised'[c] # Null => Open(c) /\ promised'[c] = promised[c]
    BY <1>2, <2>1 DEF TInv, TypeOK
  <2>4. \A d \in Clients \ {c} : Open(d)' = Open(d)
    BY <2>2 DEF Open, Stale
  <2> QED BY <2>1, <2>2, <2>3, <2>4 DEF TInv, PromiseKept
<1> QED BY <1>6, <1>7, <1>8 DEF TInv

\* A refused client is told to wait at least as long as its window.
LEMMA RefuseKeeps == ASSUME TInv, IInv', NEW c \in Clients, Refuse(c) PROVE TInv'
<1> DEFINE wait == RetryAfter(Counted(c)) * Second
           told == IF promised[c] = Null THEN wait
                   ELSE IF promised[c] <= wait THEN promised[c] ELSE wait
<1>1. /\ Left(c) > 0 /\ \A d \in Clients : Taken(d)' = Taken(d)
  BY RefuseTurnsAway DEF TInv
<1>2. Open(c)
  BY <1>1 DEF Left
<1>3. /\ Counted(c) \in Bucket /\ Counted(c).age < Window /\ Counted(c).age = buckets[c].age
  BY <1>2, CountedIsBucket DEF TInv, IInv
<1>4. wait \in 0 .. LongestWait /\ wait >= Window - buckets[c].age
  BY <1>3, ToldWait
<1>5. promised[c] \in 0 .. LongestWait \cup {Null}
  BY DEF TInv, TypeOK
<1>6. /\ buckets' = [buckets EXCEPT ![c] = Counted(c)]
      /\ promised' = [promised EXCEPT ![c] = told]
      /\ passed' = passed /\ life' = life
  <2>1. promised' = [promised EXCEPT ![c] =
                       IF promised[c] = Null THEN wait ELSE Min({promised[c], wait})]
    BY DEF Refuse
  <2>2. promised[c] # Null =>
          Min({promised[c], wait}) = IF promised[c] <= wait THEN promised[c] ELSE wait
    BY <1>4, <1>5, MinOfTwo
  <2> HIDE DEF wait
  <2> QED BY <2>1, <2>2 DEF Refuse
<1> HIDE DEF wait
<1>7. told \in 0 .. LongestWait
  BY <1>4, <1>5
<1>8. told >= Window - buckets[c].age
  BY <1>2, <1>4 DEF TInv, PromiseKept
<1> HIDE DEF told
<1>9. TypeOK'
  BY <1>6, <1>7 DEF TInv, TypeOK, IInv, BucketsOK
<1>10. PassedCounted'
  <2>1. /\ buckets'[c].age = buckets[c].age /\ buckets'[c] = Counted(c)
        /\ \A d \in Clients \ {c} : buckets'[d] = buckets[d]
    BY <1>3, <1>6 DEF TInv, TypeOK
  <2>2. \A d \in Clients : Open(d)' = Open(d)
    BY <1>2, <1>3, <2>1, NoBucketAssumption, LimiterAssumption DEF Open, Stale, Bucket
  <2> QED BY <1>1, <1>6, <2>1, <2>2 DEF TInv, PassedCounted
<1>11. PromiseKept'
  <2>1. /\ buckets'[c].age = buckets[c].age /\ promised'[c] = told
        /\ \A d \in Clients \ {c} : buckets'[d] = buckets[d] /\ promised'[d] = promised[d]
    BY <1>3, <1>6 DEF TInv, TypeOK
  <2>2. \A d \in Clients \ {c} : Open(d)' = Open(d)
    BY <2>1 DEF Open, Stale
  <2> QED BY <1>8, <2>1, <2>2 DEF TInv, PromiseKept
<1> QED BY <1>9, <1>10, <1>11 DEF TInv

\* Time takes from a promise what it takes from the window.
LEMMA TickKeeps == ASSUME TInv, IInv', Tick PROVE TInv'
<1>1. /\ buckets' = [c \in Clients |-> Aged(buckets[c])]
      /\ passed' = [c \in Clients |-> [n \in 0 .. Window - 1 |->
                      IF n = 0 THEN 0 ELSE passed[c][n - 1]]]
      /\ promised' = [c \in Clients |->
                        IF promised[c] \in {0, Null} THEN promised[c] ELSE promised[c] - 1]
      /\ life' = life
  BY DEF Tick
<1>2. passed' \in [Clients -> [0 .. Window - 1 -> Nat]]
  BY <1>1, LimiterAssumption DEF TInv, TypeOK
<1>3. promised' \in [Clients -> 0 .. LongestWait \cup {Null}]
  BY <1>1, LimiterAssumption DEF TInv, TypeOK, LongestWait
<1>4. TypeOK'
  BY <1>1, <1>2, <1>3 DEF TInv, TypeOK, IInv, BucketsOK
<1>5. PassedCounted'
  <2> SUFFICES ASSUME NEW c \in Clients, NEW n \in 0 .. Window - 1
               PROVE  passed'[c][n] <= IF n = 0 \/ (Open(c)' /\ n <= buckets'[c].age)
                                       THEN Taken(c)' ELSE Limit + Taken(c)'
    BY DEF PassedCounted
  <2>1. /\ passed'[c][n] = IF n = 0 THEN 0 ELSE passed[c][n - 1]
        /\ buckets'[c] = Aged(buckets[c])
    BY <1>1
  <2>2. /\ Taken(c) \in 0 .. Limit /\ Taken(c)' \in 0 .. Limit
        /\ ~Open(c) => Taken(c) = 0
    BY <1>4, LimiterAssumption DEF TInv, TypeOK, Taken, Bucket, Open
  <2>3. CASE n = 0
    BY <2>1, <2>2, <2>3
  <2>4. CASE n # 0
    <3>1. n - 1 \in 0 .. Window - 1 /\ n \in Nat /\ n < Window
      BY <2>4, LimiterAssumption
    <3>2. passed[c][n - 1] \in Nat /\ passed'[c][n] = passed[c][n - 1]
      BY <2>1, <2>4, <3>1 DEF TInv, TypeOK
    <3>3. passed[c][n - 1] <= IF n - 1 = 0 \/ (Open(c) /\ n - 1 <= buckets[c].age)
                              THEN Taken(c) ELSE Limit + Taken(c)
      BY <3>1 DEF TInv, PassedCounted
    <3>4. CASE ~Open(c)
      <4>1. ~Open(c)' \/ buckets[c] = Null
        <5>1. CASE buckets[c] # Null
          <6>1. buckets[c] \in Bucket /\ buckets[c].age >= Window
            BY <3>4, <5>1 DEF TInv, TypeOK, Open, Stale
          <6>2. buckets'[c].age >= Window
            BY <2>1, <6>1, AgedBucket, LimiterAssumption DEF Bucket
          <6> QED BY <6>2 DEF Open, Stale
        <5> QED BY <5>1
      <4>2. ~Open(c)'
        BY <2>1, <4>1 DEF Open, Aged
      <4> QED BY <2>2, <2>4, <3>2, <3>3, <3>4, <4>2, LimiterAssumption
    <3>5. CASE Open(c)
      <4>1. buckets[c] \in Bucket /\ buckets[c].age < Window /\ buckets[c].age \in Nat
        BY <3>5, LimiterAssumption DEF TInv, TypeOK, Open, Stale, Bucket
      <4>2. /\ buckets'[c] \in Bucket /\ buckets'[c].count = buckets[c].count
            /\ buckets'[c].age = buckets[c].age + 1
        BY <2>1, <4>1, AgedBucket, LimiterAssumption
      <4>3. CASE Open(c)'
        <5>1. Taken(c)' = Taken(c)
          BY <3>5, <4>2, <4>3 DEF Taken
        <5> QED BY <2>2, <2>4, <3>1, <3>2, <3>3, <3>5, <4>1, <4>2, <4>3, <5>1, LimiterAssumption
      <4>4. CASE ~Open(c)'
        <5>1. buckets[c].age + 1 >= Window
          BY <4>1, <4>2, <4>4, NoBucketAssumption, LimiterAssumption DEF Open, Stale
        <5>2. passed[c][n - 1] <= Limit
          BY <2>2, <3>1, <3>2, <3>3, <3>5, <4>1, <5>1, LimiterAssumption
        <5> QED BY <2>2, <2>4, <3>2, <4>4, <5>2, LimiterAssumption
      <4> QED BY <4>3, <4>4
    <3> QED BY <3>4, <3>5
  <2> QED BY <2>3, <2>4
<1>6. PromiseKept'
  <2> SUFFICES ASSUME NEW c \in Clients, promised'[c] # Null, Open(c)'
               PROVE  promised'[c] >= Window - buckets'[c].age
    BY DEF PromiseKept
  <2>1. buckets[c] # Null /\ buckets'[c] = Aged(buckets[c])
    BY <1>1 DEF Open, Aged
  <2>2. buckets[c] \in Bucket
    BY <2>1 DEF TInv, TypeOK
  <2>3. /\ buckets'[c] \in Bucket
        /\ buckets'[c].age = IF buckets[c].age < Window + SweepPeriod
                             THEN buckets[c].age + 1 ELSE buckets[c].age
    BY <2>1, <2>2, AgedBucket
  <2>4. buckets'[c].age < Window
    BY <2>3, LimiterAssumption DEF Open, Stale, Bucket
  <2>5. buckets'[c].age = buckets[c].age + 1 /\ Open(c) /\ buckets[c].age \in Nat
    BY <2>1, <2>2, <2>3, <2>4, LimiterAssumption DEF Open, Stale, Bucket
  <2>6. promised'[c] = IF promised[c] \in {0, Null} THEN promised[c] ELSE promised[c] - 1
    BY <1>1
  <2>7. promised[c] \in 0 .. LongestWait \cup {Null}
    BY DEF TInv, TypeOK
  <2>8. promised[c] # Null
    BY <2>6
  <2>9. promised[c] >= Window - buckets[c].age
    BY <2>5, <2>8 DEF TInv, PromiseKept
  <2> QED BY <2>4, <2>5, <2>6, <2>7, <2>8, <2>9, LimiterAssumption
<1> QED BY <1>4, <1>5, <1>6 DEF TInv

\* The inductive invariant of the whole limiter.
THEOREM HistoryInvariance == Spec => []TInv
<1>1. TInv /\ [Next]_vars => TInv'
  <2> SUFFICES ASSUME TInv, [Next]_vars PROVE TInv'
    OBVIOUS
  <2>1. IInv'
    BY StepIInv DEF TInv
  <2>2. CASE \E c \in Clients : Admit(c) \/ Refuse(c)
    BY <2>1, <2>2, AdmitKeeps, RefuseKeeps
  <2>3. CASE Sweep
    <3>1. \A c \in Clients : Taken(c)' = Taken(c)
      BY <2>1, <2>3, SweepStutters DEF TInv
    <3>2. /\ passed' = passed /\ promised' = promised /\ life' = life
          /\ \A c \in Clients : buckets'[c] = Null \/ buckets'[c] = buckets[c]
      BY <2>3 DEF Sweep
    <3>3. TypeOK'
      BY <2>1, <3>2 DEF TInv, TypeOK, IInv, BucketsOK
    <3>5. PassedCounted'
      <4>1. \A c \in Clients : Open(c)' = Open(c) /\ (Open(c) => buckets'[c] = buckets[c])
        BY <2>3 DEF Sweep, Reclaimed, Open, Stale
      <4> QED BY <3>1, <3>2, <4>1 DEF TInv, PassedCounted
    <3>4. PromiseKept'
      BY <3>2 DEF TInv, PromiseKept, Open, Stale
    <3> QED BY <2>1, <3>3, <3>4, <3>5 DEF TInv
  <2>4. CASE Restart
    <3>1. passed' \in [Clients -> [0 .. Window - 1 -> Nat]]
      BY <2>4, LimiterAssumption DEF Restart, NonePassed
    <3>2. TypeOK'
      BY <2>1, <2>4, <3>1 DEF Restart, TInv, TypeOK, IInv, BucketsOK, Nothing
    <3>3. PassedCounted' /\ PromiseKept'
      BY <2>4, LimiterAssumption DEF Restart, PassedCounted, PromiseKept, NonePassed, Nothing, Open, Taken
    <3> QED BY <2>1, <3>2, <3>3 DEF TInv
  <2>5. CASE Tick
    BY <2>1, <2>5, TickKeeps
  <2>6. CASE UNCHANGED vars
    BY <2>1, <2>6 DEF vars, TInv, TypeOK, PassedCounted, PromiseKept, Taken, Open, Stale
  <2> QED BY <2>2, <2>3, <2>4, <2>5, <2>6 DEF Next
<1> QED BY <1>1, InitTInv, PTL DEF Spec

\* The Map, the interval and the histories keep their types.
THEOREM TypeCorrect == Spec => []TypeOK
<1>1. TInv => TypeOK
  BY DEF TInv
<1> QED BY <1>1, HistoryInvariance, PTL

\* When the wait a Retry-After header told is over, so is the window that
\* refused, for every limit, window and length of a second.
THEOREM HonestRetryAfter == Spec => []RetryAfterHonest
<1>1. TInv => RetryAfterHonest
  <2> SUFFICES ASSUME TInv, NEW c \in Clients, promised[c] = 0, Open(c) PROVE FALSE
    BY DEF RetryAfterHonest, Open
  <2>1. 0 # Null
    BY NoWaitAssumption, LimiterAssumption DEF LongestWait
  <2>2. buckets[c] \in Bucket /\ buckets[c].age < Window
    BY LimiterAssumption DEF TInv, TypeOK, Open, Stale, Bucket
  <2>3. 0 >= Window - buckets[c].age
    BY <2>1 DEF TInv, PromiseKept
  <2> QED BY <2>2, <2>3, LimiterAssumption DEF Bucket
<1> QED BY <1>1, HistoryInvariance, PTL

\* Wherever a stretch of Window ticks begins, at most twice the limit passes in
\* it, for every limit and window: it meets two windows at most.
THEOREM AtMostTwiceTheLimit == Spec => []SlidingBound
<1>1. TInv => SlidingBound
  <2> SUFFICES ASSUME TInv, NEW c \in Clients PROVE passed[c][Window - 1] <= 2 * Limit
    BY DEF SlidingBound, PassedRecently
  <2>1. Window - 1 \in 0 .. Window - 1
    BY LimiterAssumption
  <2>2. passed[c][Window - 1] \in Nat /\ Taken(c) \in 0 .. Limit
    BY <2>1, LimiterAssumption DEF TInv, TypeOK, Taken, Bucket, Open
  <2>3. passed[c][Window - 1] <= Limit + Taken(c)
    BY <2>1, <2>2, LimiterAssumption DEF TInv, PassedCounted
  <2> QED BY <2>2, <2>3, LimiterAssumption
<1> QED BY <1>1, HistoryInvariance, PTL
=============================================================================
