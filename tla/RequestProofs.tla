--------------------------- MODULE RequestProofs ----------------------------
(***************************************************************************)
(* What a request leaves behind.  A webhook: the groups its shop's rules   *)
(* give and one row in sync_logs, for every set of rules, priorities,      *)
(* conditions and payloads (GroupRules).  A mailing: one letter to each    *)
(* customer and a complete answer, for any number of requests, customers,  *)
(* groups and documents (Documents).                                       *)
(***************************************************************************)
EXTENDS GroupRules, Documents, FiniteSetTheorems, WellFoundedInduction, TLAPS

\* However many ids there may be, so many have a rule.
RulesFinite == IsFiniteSet({i \in Ids : mappings[i] # Null})

\* Nothing is logged of a delivery before it is answered.
NotYetLogged ==
    \A d \in Deliveries : delivery[d].phase \in {"new", "pending"} => syncLogs[d] = 0

IInv == TypeOK /\ RulesFinite /\ NotYetLogged

---------------------------------------------------------------------------
\* A set of numbers that is not empty has a least one.
LEMMA LeastIs ==
    ASSUME NEW T, T \subseteq Nat, T # {}
    PROVE  Min(T) \in T /\ \A y \in T : Min(T) <= y
<1>1. PICK x \in T : \A y \in T : ~ (<<y, x>> \in OpToRel(<, Nat))
  BY NatLessThanWellFounded, WFMin
<1>2. \A y \in T : x <= y
  <2> SUFFICES ASSUME NEW y \in T PROVE x <= y
    OBVIOUS
  <2>1. x \in Nat /\ y \in Nat
    OBVIOUS
  <2>2. ~ (y < x)
    BY <1>1, <2>1 DEF OpToRel
  <2> QED BY <2>1, <2>2
<1> QED BY <1>2, Zenon DEF Min

\* A sequence that has every element of a finite set once has every one.
LEMMA OrderHasAll ==
    ASSUME NEW S, IsFiniteSet(S), NEW q \in SetToSeqs(S)
    PROVE  /\ Cardinality(S) \in Nat
           /\ q \in [1 .. Cardinality(S) -> S]
           /\ \A i \in S : \E k \in 1 .. Cardinality(S) : q[k] = i
<1> DEFINE n == Cardinality(S)
<1>1. n \in Nat
  BY FS_CardinalityType
<1>2. q \in [1 .. n -> S] /\ \A j, k \in 1 .. n : j # k => q[j] # q[k]
  BY DEF SetToSeqs
<1>3. IsFiniteSet(1 .. n) /\ Cardinality(1 .. n) = n
  BY <1>1, FS_Interval
<1> HIDE DEF n
<1>4. q \in Injection(1 .. n, S)
  BY <1>2 DEF Injection, IsInjective
<1>5. q \in Surjection(1 .. n, S)
  BY <1>3, <1>4, FS_Injection DEF n
<1> QED BY <1>1, <1>2, <1>5 DEF n, Surjection

---------------------------------------------------------------------------
\* The conditions of a rule are a list.
LEMMA ConditionsAreList ==
    ASSUME TypeOK, NEW i \in Ids, mappings[i] # Null
    PROVE  LET m == mappings[i] IN
           /\ m \in Mapping
           /\ Len(m.conditions) \in Nat /\ DOMAIN m.conditions = 1 .. Len(m.conditions)
<1>1. mappings[i] \in Mapping
  BY DEF TypeOK
<1> DEFINE c == mappings[i].conditions
<1>2. c \in ConditionLists \/ \E n \in PanelCounts : c = [k \in 1 .. n |-> Stripped]
  BY <1>1 DEF Mapping
<1>3. CASE c \in ConditionLists
  <2>1. c \in Seq(ToSet(c))
    BY <1>3, GroupRulesAssumption
  <2> QED BY <1>1, <2>1
<1>4. CASE \E n \in PanelCounts : c = [k \in 1 .. n |-> Stripped]
  <2> PICK n \in PanelCounts : c = [k \in 1 .. n |-> Stripped]
    BY <1>4
  <2>1. n \in Nat
    BY GroupRulesAssumption
  <2> HIDE DEF c
  <2>2. c \in [1 .. n -> {Stripped}]
    BY Zenon
  <2>3. Len(c) \in Nat /\ DOMAIN c = 1 .. Len(c)
    BY <2>1, <2>2
  <2> QED BY <1>1, <2>3 DEF c
<1> QED BY <1>2, <1>3, <1>4

\* The conditions that end the look at a rule.
Stops(m, payload) ==
    {k \in 1 .. Len(m.conditions) :
        \/ m.conditions[k] = Stripped
        \/ ~Holds(m.conditions[k], payload[m.conditions[k].field])}

\* A rule matches when no condition ends the look at it; else the first that
\* does decides.
LEMMA VerdictIs ==
    ASSUME NEW m, NEW payload, Len(m.conditions) \in Nat
    PROVE  \/ /\ Stops(m, payload) = {}
              /\ Verdict(m, payload) = "matches"
           \/ /\ Verdict(m, payload) = "throws"
              /\ \E k \in Stops(m, payload) : m.conditions[k] = Stripped
           \/ /\ Verdict(m, payload) = "differs"
              /\ \E k \in Stops(m, payload) : m.conditions[k] # Stripped
<1> DEFINE c == m.conditions
           I == {i \in 1 .. Len(c) : c[i] = Stripped \/ ~Holds(c[i], payload[c[i].field])}
           stop == IF I # {} THEN Min(I) ELSE 0
<1>1. I = Stops(m, payload)
  BY DEF Stops
<1>2. Verdict(m, payload) =
        CASE stop = 0 -> "matches"
          [] stop > 0 /\ c[stop] = Stripped -> "throws"
          [] OTHER -> "differs"
  BY DEF Verdict, SelectInSeq
<1>3. I \subseteq Nat /\ 0 \notin I
  OBVIOUS
<1> HIDE DEF I, c
<1>4. CASE I = {}
  BY <1>1, <1>2, <1>4
<1>5. CASE I # {}
  <2>0. stop = Min(I)
    BY <1>5
  <2> HIDE DEF stop
  <2>1. stop \in I /\ stop \in Nat /\ stop > 0
    <3>1. Min(I) \in I /\ \A y \in I : Min(I) <= y
      BY <1>3, <1>5, LeastIs, Zenon
    <3>2. stop \in I
      BY <2>0, <3>1, Zenon
    <3>3. stop \in Nat /\ stop # 0
      BY <1>3, <3>2, Zenon
    <3> QED BY <3>2, <3>3
  <2>2. CASE c[stop] = Stripped
    BY <1>1, <1>2, <2>1, <2>2 DEF c
  <2>3. CASE c[stop] # Stripped
    BY <1>1, <1>2, <2>1, <2>3 DEF c
  <2> QED BY <2>2, <2>3
<1> QED BY <1>4, <1>5

\* The rules a look-up does not pass by.
Halts(q, payload) == {k \in 1 .. Len(q) : Verdict(mappings[q[k]], payload) # "differs"}

\* What a look-up may return: the first of them decides.
Decided(q, payload, fallback, r) ==
    \/ /\ Halts(q, payload) = {}
       /\ r.source # "thrown" /\ r.groupIds = fallback
    \/ \E at \in Halts(q, payload) :
         /\ \A k \in Halts(q, payload) : at <= k
         /\ \/ /\ Verdict(mappings[q[at]], payload) = "throws"
               /\ r.source = "thrown"
            \/ /\ Verdict(mappings[q[at]], payload) # "throws"
               /\ r.source # "thrown"
               /\ r.groupIds = IF mappings[q[at]].targetGroupIds = {} THEN fallback
                               ELSE mappings[q[at]].targetGroupIds

LEMMA ResolveIs ==
    ASSUME NEW q, Len(q) \in Nat, NEW payload, NEW fallback
    PROVE  Decided(q, payload, fallback, ResolveMappingGroups(q, payload, fallback))
<1> DEFINE I == {i \in 1 .. Len(q) : Verdict(mappings[q[i]], payload) # "differs"}
           at == IF I # {} THEN Min(I) ELSE 0
           throws == Verdict(mappings[q[at]], payload) = "throws"
           groups == mappings[q[at]].targetGroupIds
           r == ResolveMappingGroups(q, payload, fallback)
<1>1. I = Halts(q, payload)
  BY DEF Halts
<1>2. r = CASE at > 0 /\ throws -> [source |-> "thrown", groupIds |-> {}]
            [] at > 0 /\ ~throws /\ groups # {} -> [source |-> "mapping", groupIds |-> groups]
            [] OTHER -> [source |-> IF fallback = {} THEN "none" ELSE "fallback",
                         groupIds |-> fallback]
  BY DEF ResolveMappingGroups, SelectInSeq
<1>3. I \subseteq Nat /\ 0 \notin I
  OBVIOUS
<1> HIDE DEF I, r
<1>4. CASE I = {}
  <2>1. at = 0
    BY <1>4
  <2>2. r = [source |-> IF fallback = {} THEN "none" ELSE "fallback", groupIds |-> fallback]
    BY <1>2, <2>1
  <2> QED BY <1>1, <1>4, <2>2 DEF r, Decided
<1>5. CASE I # {}
  <2>0. at = Min(I)
    BY <1>5
  <2> HIDE DEF at
  <2>1. at \in I /\ at \in Nat /\ at > 0 /\ \A k \in I : at <= k
    <3>1. Min(I) \in I /\ \A y \in I : Min(I) <= y
      BY <1>3, <1>5, LeastIs, Zenon
    <3>2. at \in I /\ \A k \in I : at <= k
      BY <2>0, <3>1, Zenon
    <3>3. at \in Nat /\ at # 0
      BY <1>3, <3>2, Zenon
    <3> QED BY <3>2, <3>3
  <2>2. CASE throws
    <3>1. r = [source |-> "thrown", groupIds |-> {}]
      BY <1>2, <2>1, <2>2
    <3> QED BY <1>1, <2>1, <2>2, <3>1 DEF r, Decided
  <2>3. CASE ~throws /\ groups # {}
    <3>1. r = [source |-> "mapping", groupIds |-> groups]
      BY <1>2, <2>1, <2>3
    <3> QED BY <1>1, <2>1, <2>3, <3>1 DEF r, Decided
  <2>4. CASE ~throws /\ groups = {}
    <3>1. r = [source |-> IF fallback = {} THEN "none" ELSE "fallback", groupIds |-> fallback]
      BY <1>2, <2>1, <2>4
    <3> QED BY <1>1, <2>1, <2>4, <3>1 DEF r, Decided
  <2> QED BY <2>2, <2>3, <2>4
<1> QED BY <1>4, <1>5

---------------------------------------------------------------------------
\* What a delivery is known to be from its phase.
LEMMA DeliveryIs ==
    ASSUME TypeOK, NEW d \in Deliveries
    PROVE  \/ delivery[d] = Unsent /\ delivery[d].phase = "new"
           \/ /\ delivery[d].shop \in Shops
              /\ delivery[d].phase \in {"pending", "answered", "thrown", "lost"}
BY DEF TypeOK, Unsent

\* The panels: the row they write has the columns of a row, and they write one.
LEMMA UpsertKeeps ==
    ASSUME IInv, NEW i \in Ids, NEW s, NEW m \in Mapping, Upsert(s, i, m),
           UNCHANGED <<settings, connection, syncLogs, delivery>>
    PROVE  IInv'
<1>1. mappings' \in [Ids -> Mapping \cup {Null}]
  BY DEF IInv, TypeOK, Upsert
<1>2. TypeOK'
  BY <1>1 DEF IInv, TypeOK
<1>3. RulesFinite'
  <2> DEFINE old == {j \in Ids : mappings[j] # Null}
             new == {j \in Ids : mappings'[j] # Null}
  <2>1. IsFiniteSet(old \cup {i})
    BY FS_AddElement DEF IInv, RulesFinite
  <2>2. new \subseteq old \cup {i}
    BY DEF IInv, TypeOK, Upsert
  <2> HIDE DEF old, new
  <2>3. IsFiniteSet(new)
    BY <2>1, <2>2, FS_Subset
  <2> QED BY <2>3 DEF RulesFinite, new
<1>4. NotYetLogged'
  BY DEF IInv, NotYetLogged
<1> QED BY <1>2, <1>3, <1>4 DEF IInv

\* Rows that go leave finitely many.
LEMMA FewerRules ==
    ASSUME RulesFinite, \A i \in Ids : mappings'[i] \in {mappings[i], Null}
    PROVE  RulesFinite'
<1> DEFINE old == {j \in Ids : mappings[j] # Null}
           new == {j \in Ids : mappings'[j] # Null}
<1>1. IsFiniteSet(old)
  BY DEF RulesFinite
<1>2. new \subseteq old
  OBVIOUS
<1> HIDE DEF old, new
<1>3. IsFiniteSet(new)
  BY <1>1, <1>2, FS_Subset
<1> QED BY <1>3 DEF RulesFinite, new

LEMMA SameRules ==
    ASSUME RulesFinite, UNCHANGED mappings PROVE RulesFinite'
BY DEF RulesFinite

LEMMA ShopStepKeeps ==
    ASSUME IInv, NEW s \in Shops, ShopStep(s)
    PROVE  IInv'
<1> USE GroupRulesAssumption DEF IInv
<1>1. CASE \E i \in Ids : SaveMapping(s, i)
  <2> PICK i \in Ids : SaveMapping(s, i)
    BY <1>1
  <2> PICK e \in Events, p \in Priorities, b \in BOOLEAN, g \in GroupSets,
           c \in ConditionLists :
        /\ Upsert(s, i, [shop |-> s, event |-> e, priority |-> p, enabled |-> b,
                         targetGroupIds |-> g, conditions |-> c])
        /\ UNCHANGED <<settings, connection, syncLogs, delivery>>
    BY DEF SaveMapping
  <2>1. [shop |-> s, event |-> e, priority |-> p, enabled |-> b,
         targetGroupIds |-> g, conditions |-> c] \in Mapping
    BY DEF Mapping
  <2> QED BY <2>1, UpsertKeeps
<1>2. CASE \E i \in Ids : SavePanelMapping(s, i)
  <2> PICK i \in Ids : SavePanelMapping(s, i)
    BY <1>2
  <2> PICK e \in Events, p \in Priorities, b \in BOOLEAN, g \in GroupSets,
           n \in PanelCounts :
        /\ Upsert(s, i, [shop |-> s, event |-> e, priority |-> p, enabled |-> b,
                         targetGroupIds |-> g, conditions |-> [k \in 1 .. n |-> Stripped]])
        /\ UNCHANGED <<settings, connection, syncLogs, delivery>>
    BY DEF SavePanelMapping
  <2>1. [shop |-> s, event |-> e, priority |-> p, enabled |-> b,
         targetGroupIds |-> g, conditions |-> [k \in 1 .. n |-> Stripped]] \in Mapping
    BY DEF Mapping
  <2> QED BY <2>1, UpsertKeeps
<1>3. CASE \E i \in Ids : RemoveMapping(s, i)
  <2> PICK i \in Ids : RemoveMapping(s, i)
    BY <1>3
  <2>1. TypeOK'
    BY DEF TypeOK, RemoveMapping
  <2>2. RulesFinite'
    BY FewerRules DEF TypeOK, RemoveMapping
  <2>3. NotYetLogged'
    BY DEF NotYetLogged, RemoveMapping
  <2> QED BY <2>1, <2>2, <2>3
<1>4. CASE SaveDefaultGroups(s) \/ SaveSettings(s) \/ SaveCredentials(s)
  <2>1. UNCHANGED <<mappings, connection, syncLogs, delivery>>
    BY <1>4 DEF SaveDefaultGroups, SaveSettings, SaveCredentials
  <2>2. settings' \in [Shops -> Settings]
    <3>0. settings \in [Shops -> Settings] /\ settings[s] \in Settings
      BY DEF TypeOK
    <3>1. CASE SaveDefaultGroups(s)
      <4> PICK r, o, r0, o0 \in GroupSets :
            settings' = [settings EXCEPT ![s].registration = Preferred(r, r0),
                                         ![s].order = Preferred(o, o0)]
        BY <3>1 DEF SaveDefaultGroups
      <4>1. Preferred(r, r0) \in GroupSets /\ Preferred(o, o0) \in GroupSets
        BY DEF Preferred
      <4>2. [settings[s] EXCEPT !.registration = Preferred(r, r0),
                                !.order = Preferred(o, o0)] \in Settings
        BY <3>0, <4>1 DEF Settings
      <4> QED BY <3>0, <4>2
    <3>2. CASE SaveSettings(s)
      <4> PICK r, o \in GroupSets :
            settings' = [settings EXCEPT ![s].registration = r, ![s].order = o,
                                         ![s].baseUrl = DefaultUrl]
        BY <3>2 DEF SaveSettings
      <4>1. [settings[s] EXCEPT !.registration = r, !.order = o,
                                !.baseUrl = DefaultUrl] \in Settings
        BY <3>0 DEF Settings
      <4> QED BY <3>0, <4>1
    <3>3. CASE SaveCredentials(s)
      <4> PICK key \in Keys \cup {Null}, url \in Urls :
            settings' = [settings EXCEPT ![s].apiKey = Given(key, @),
                                         ![s].baseUrl = Given(url, @)]
        BY <3>3 DEF SaveCredentials
      <4>1. [settings[s] EXCEPT !.apiKey = Given(key, @), !.baseUrl = Given(url, @)]
              \in Settings
        BY <3>0 DEF Settings, Given
      <4> QED BY <3>0, <4>1
    <3> QED BY <1>4, <3>1, <3>2, <3>3
  <2>3. TypeOK'
    BY <2>1, <2>2 DEF TypeOK
  <2> QED BY <2>1, <2>3, SameRules DEF NotYetLogged
<1>5. CASE Link(s) \/ Unlink(s)
  <2>1. UNCHANGED <<mappings, settings, syncLogs, delivery>>
    BY <1>5 DEF Link, Unlink
  <2>2. TypeOK'
    BY <1>5 DEF TypeOK, Link, Unlink
  <2> QED BY <2>1, <2>2, SameRules DEF NotYetLogged
<1>6. CASE PurgeOneShop(s)
  <2>1. TypeOK'
    <3>1. mappings' \in [Ids -> Mapping \cup {Null}]
      BY <1>6 DEF TypeOK, PurgeOneShop
    <3>2. settings' \in [Shops -> Settings]
      BY <1>6 DEF TypeOK, PurgeOneShop, Settings, NoSettings
    <3>3. syncLogs' \in [Deliveries -> Nat]
      BY <1>6 DEF TypeOK, PurgeOneShop
    <3>4. connection' \in [Shops -> {"none", "linked", "unreadable", "token_invalid",
                                     "revoked"}]
      BY <1>6 DEF TypeOK, PurgeOneShop
    <3> QED BY <1>6, <3>1, <3>2, <3>3, <3>4 DEF TypeOK, PurgeOneShop
  <2>2. RulesFinite'
    BY <1>6, FewerRules DEF TypeOK, PurgeOneShop
  <2>3. NotYetLogged'
    BY <1>6 DEF TypeOK, NotYetLogged, PurgeOneShop
  <2> QED BY <2>1, <2>2, <2>3
<1> QED BY <1>1, <1>2, <1>3, <1>4, <1>5, <1>6 DEF ShopStep

\* What a step of a delivery does: it leaves the two phases in which nothing is
\* logged, or gets from the first of them to the second and logs nothing.
LEMMA DeliveryStepIs ==
    ASSUME TypeOK, NEW d \in Deliveries, DeliveryStep(d)
    PROVE  /\ UNCHANGED <<mappings, settings>>
           /\ \E s \in Shops, f \in {"pending", "answered", "thrown"} :
                 /\ delivery' = [delivery EXCEPT ![d] = [phase |-> f, shop |-> s]]
                 /\ delivery[d].phase \in {"new", "pending"}
                 /\ delivery[d].phase = "pending" => s = delivery[d].shop
                 /\ syncLogs' \in {syncLogs, [syncLogs EXCEPT ![d] = @ + 1]}
                 /\ f = "pending" => syncLogs' = syncLogs
           /\ connection' \in [Shops -> {"none", "linked", "unreadable", "token_invalid",
                                         "revoked"}]
<1> USE DEF Enters, Logged, Ends
<1>1. CASE \E s \in Shops : Reject(d, s) \/ StartSync(d, s)
  BY <1>1 DEF Reject, StartSync, TypeOK
<1>2. CASE \E s \in Shops : Throw(d, s)
  BY <1>2 DEF Throw, TypeOK
<1>3. CASE \E s \in Shops : RefuseUnlinked(d, s)
  <2> PICK s \in Shops : RefuseUnlinked(d, s)
    BY <1>3
  <2>1. connection' \in [Shops -> {"none", "linked", "unreadable", "token_invalid",
                                   "revoked"}]
    BY DEF RefuseUnlinked, TypeOK
  <2> QED BY <2>1 DEF RefuseUnlinked
<1>4. CASE FinishSync(d) \/ FailSync(d) \/ FailSyncGone(d)
  <2>1. delivery[d].phase = "pending" /\ delivery[d].shop \in Shops
    BY <1>4, DeliveryIs DEF FinishSync, FailSync, FailSyncGone, Unsent
  <2>2. delivery[d] = [phase |-> "pending", shop |-> delivery[d].shop]
    BY <2>1, DeliveryIs DEF TypeOK, Unsent
  <2>3. \E f \in {"answered", "thrown"} :
          delivery' = [delivery EXCEPT ![d] = [phase |-> f, shop |-> delivery[d].shop]]
    BY <1>4, <2>2 DEF FinishSync, FailSync, FailSyncGone
  <2>4. connection' \in [Shops -> {"none", "linked", "unreadable", "token_invalid",
                                   "revoked"}]
    <3>1. CASE FinishSync(d) \/ FailSyncGone(d)
      BY <3>1 DEF FinishSync, FailSyncGone, TypeOK
    <3>2. CASE FailSync(d)
      BY <2>1, <3>2 DEF FailSync, TypeOK
    <3> QED BY <1>4, <3>1, <3>2
  <2>5. UNCHANGED <<mappings, settings>>
        /\ syncLogs' \in {syncLogs, [syncLogs EXCEPT ![d] = @ + 1]}
    BY <1>4 DEF FinishSync, FailSync, FailSyncGone
  <2> QED BY <2>1, <2>3, <2>4, <2>5
<1> QED BY <1>1, <1>2, <1>3, <1>4 DEF DeliveryStep

LEMMA DeliveryStepKeeps ==
    ASSUME IInv, NEW d \in Deliveries, DeliveryStep(d)
    PROVE  IInv'
<1>1. PICK s \in Shops, f \in {"pending", "answered", "thrown"} :
        /\ delivery' = [delivery EXCEPT ![d] = [phase |-> f, shop |-> s]]
        /\ delivery[d].phase \in {"new", "pending"}
        /\ syncLogs' \in {syncLogs, [syncLogs EXCEPT ![d] = @ + 1]}
        /\ f = "pending" => syncLogs' = syncLogs
  BY DeliveryStepIs DEF IInv
<1>2. /\ UNCHANGED <<mappings, settings>>
      /\ connection' \in [Shops -> {"none", "linked", "unreadable", "token_invalid", "revoked"}]
  BY DeliveryStepIs DEF IInv
<1>3. TypeOK'
  <2>1. syncLogs' \in [Deliveries -> Nat]
    BY <1>1 DEF IInv, TypeOK
  <2>2. delivery' \in [Deliveries -> {Unsent} \cup
                         [phase : {"pending", "answered", "thrown", "lost"}, shop : Shops]]
    BY <1>1 DEF IInv, TypeOK
  <2> QED BY <1>2, <2>1, <2>2 DEF IInv, TypeOK
<1>4. RulesFinite'
  BY <1>2, SameRules DEF IInv
<1>5. NotYetLogged'
  <2> SUFFICES ASSUME NEW e \in Deliveries, delivery'[e].phase \in {"new", "pending"}
               PROVE  syncLogs'[e] = 0
    BY DEF NotYetLogged
  <2>1. CASE e = d
    <3>1. f = "pending"
      BY <1>1, <2>1 DEF IInv, TypeOK
    <3> QED BY <1>1, <2>1, <3>1 DEF IInv, NotYetLogged
  <2>2. CASE e # d
    <3>1. delivery'[e] = delivery[e] /\ syncLogs'[e] = syncLogs[e]
      BY <1>1, <2>2 DEF IInv, TypeOK
    <3> QED BY <3>1 DEF IInv, NotYetLogged
  <2> QED BY <2>1, <2>2
<1> QED BY <1>3, <1>4, <1>5 DEF IInv

LEMMA CrashKeeps ==
    ASSUME IInv, Crash
    PROVE  IInv'
<1>1. \A d \in Deliveries :
        delivery'[d] = IF delivery[d].phase = "pending"
                       THEN [delivery[d] EXCEPT !.phase = "lost"] ELSE delivery[d]
  BY DEF Crash
<1>2. \A d \in Deliveries :
        delivery'[d] \in {Unsent} \cup
            [phase : {"pending", "answered", "thrown", "lost"}, shop : Shops]
  <2> SUFFICES ASSUME NEW d \in Deliveries
               PROVE  delivery'[d] \in {Unsent} \cup
                        [phase : {"pending", "answered", "thrown", "lost"}, shop : Shops]
    OBVIOUS
  <2>1. CASE delivery[d].phase = "pending"
    <3>1. delivery[d] \in [phase : {"pending", "answered", "thrown", "lost"}, shop : Shops]
      BY <2>1 DEF IInv, TypeOK, Unsent
    <3> QED BY <1>1, <2>1, <3>1
  <2>2. CASE delivery[d].phase # "pending"
    BY <1>1, <2>2 DEF IInv, TypeOK
  <2> QED BY <2>1, <2>2
<1>3. connection' \in [Shops -> {"none", "linked", "unreadable", "token_invalid", "revoked"}]
  BY DEF IInv, TypeOK, Crash
<1>4. TypeOK'
  BY <1>2, <1>3 DEF IInv, TypeOK, Crash
<1>5. RulesFinite'
  BY SameRules DEF IInv, Crash
<1>6. NotYetLogged'
  <2> SUFFICES ASSUME NEW d \in Deliveries, delivery'[d].phase \in {"new", "pending"}
               PROVE  syncLogs'[d] = 0
    BY DEF NotYetLogged
  <2>1. delivery[d].phase # "pending"
    <3> SUFFICES ASSUME delivery[d].phase = "pending" PROVE FALSE
      OBVIOUS
    <3>1. delivery[d] \in [phase : {"pending", "answered", "thrown", "lost"}, shop : Shops]
      BY DEF IInv, TypeOK, Unsent
    <3>2. delivery'[d].phase = "lost"
      BY <1>1, <3>1
    <3> QED BY <3>2
  <2>2. delivery'[d] = delivery[d]
    BY <1>1, <2>1
  <2> QED BY <2>2 DEF IInv, NotYetLogged, Crash
<1> QED BY <1>4, <1>5, <1>6 DEF IInv

THEOREM Inductive == Spec => []IInv
<1>1. Init => IInv
  <2> SUFFICES ASSUME Init PROVE IInv
    OBVIOUS
  <2>1. TypeOK
    BY GroupRulesAssumption DEF Init, TypeOK, NoSettings, Settings
  <2>2. RulesFinite
    <3>1. {i \in Ids : mappings[i] # Null} = {}
      BY DEF Init
    <3> QED BY <3>1, FS_EmptySet DEF RulesFinite
  <2>3. NotYetLogged
    BY DEF Init, NotYetLogged
  <2> QED BY <2>1, <2>2, <2>3 DEF IInv
<1>2. IInv /\ [Next]_vars => IInv'
  <2> SUFFICES ASSUME IInv, [Next]_vars PROVE IInv'
    OBVIOUS
  <2>1. CASE \E s \in Shops : ShopStep(s)
    BY <2>1, ShopStepKeeps
  <2>2. CASE \E d \in Deliveries : DeliveryStep(d)
    BY <2>2, DeliveryStepKeeps
  <2>3. CASE Crash
    BY <2>3, CrashKeeps
  <2>4. CASE UNCHANGED vars
    BY <2>4 DEF vars, IInv, TypeOK, RulesFinite, NotYetLogged
  <2> QED BY <2>1, <2>2, <2>3, <2>4 DEF Next
<1> QED BY <1>1, <1>2, PTL DEF Spec

\* The rows of every table have the columns of that table, in every state.
THEOREM TypeCorrect == Spec => []TypeOK
BY Inductive, PTL DEF IInv

---------------------------------------------------------------------------
\* What an order of the candidates is.
LEMMA OrderIs ==
    ASSUME TypeOK, RulesFinite, NEW s, NEW e, NEW q \in Orders(s, e)
    PROVE  /\ Len(q) \in Nat
           /\ \A k \in 1 .. Len(q) :
                 /\ q[k] \in Candidates(s, e) /\ q[k] \in Ids
                 /\ mappings[q[k]] # Null /\ mappings[q[k]].priority \in Nat
           /\ \A i \in Candidates(s, e) : \E k \in 1 .. Len(q) : q[k] = i
           /\ \A j, k \in 1 .. Len(q) :
                 j <= k => mappings[q[j]].priority <= mappings[q[k]].priority
<1> DEFINE S == Candidates(s, e)
<1>1. IsFiniteSet(S)
  <2> DEFINE R == {i \in Ids : mappings[i] # Null}
  <2>1. S \subseteq R /\ IsFiniteSet(R)
    BY DEF Candidates, RulesFinite
  <2> HIDE DEF S, R
  <2> QED BY <2>1, FS_Subset
<1>2. q \in SetToSeqs(S) /\ Sorted(q)
  BY DEF Orders
<1>3. \A i \in S : i \in Ids /\ mappings[i] # Null /\ mappings[i].priority \in Nat
  BY GroupRulesAssumption DEF Candidates, TypeOK, Mapping
<1> HIDE DEF S
<1>4. /\ Cardinality(S) \in Nat
      /\ q \in [1 .. Cardinality(S) -> S]
      /\ \A i \in S : \E k \in 1 .. Cardinality(S) : q[k] = i
  BY <1>1, <1>2, OrderHasAll
<1>5. Len(q) = Cardinality(S) /\ DOMAIN q = 1 .. Len(q)
  BY <1>4
<1>6. \A k \in 1 .. Len(q) : q[k] \in S
  BY <1>4, <1>5
<1>7. \A j, k \in 1 .. Len(q) :
        j <= k => mappings[q[j]].priority <= mappings[q[k]].priority
  <2> SUFFICES ASSUME NEW j \in 1 .. Len(q), NEW k \in 1 .. Len(q), j <= k
               PROVE  mappings[q[j]].priority <= mappings[q[k]].priority
    OBVIOUS
  <2>1. CASE j = k
    BY <1>3, <1>6, <2>1
  <2>2. CASE j < k
    BY <1>2, <1>5, <2>2 DEF Sorted
  <2> QED BY <1>4, <1>5, <2>1, <2>2
<1> QED BY <1>3, <1>4, <1>5, <1>6, <1>7 DEF S

Applies(m, payload) ==
    /\ Stripped \notin ToSet(m.conditions)
    /\ \A k \in DOMAIN m.conditions : Holds(m.conditions[k], payload[m.conditions[k].field])

\* A rule applies exactly when it matches, and throws only when it is broken.
LEMMA VerdictMeans ==
    ASSUME TypeOK, NEW i \in Ids, mappings[i] # Null, NEW payload
    PROVE  /\ Verdict(mappings[i], payload) = "matches" <=> Applies(mappings[i], payload)
           /\ Verdict(mappings[i], payload) = "throws"
                => Stripped \in ToSet(mappings[i].conditions)
<1> DEFINE m == mappings[i]
<1>1. Len(m.conditions) \in Nat /\ DOMAIN m.conditions = 1 .. Len(m.conditions)
  BY ConditionsAreList
<1> HIDE DEF m
<1>2. Applies(m, payload) <=> Stops(m, payload) = {}
  BY <1>1 DEF Applies, Stops, ToSet
<1>3. \A k \in Stops(m, payload) : m.conditions[k] \in ToSet(m.conditions)
  BY <1>1 DEF Stops, ToSet
<1>4. \/ /\ Stops(m, payload) = {}
         /\ Verdict(m, payload) = "matches"
      \/ /\ Verdict(m, payload) = "throws"
         /\ \E k \in Stops(m, payload) : m.conditions[k] = Stripped
      \/ /\ Verdict(m, payload) = "differs"
         /\ \E k \in Stops(m, payload) : m.conditions[k] # Stripped
  BY <1>1, VerdictIs
<1>5. Verdict(m, payload) = "matches" <=> Applies(m, payload)
  BY <1>2, <1>4
<1>6. Verdict(m, payload) = "throws" => Stripped \in ToSet(m.conditions)
  BY <1>3, <1>4
<1> QED BY <1>5, <1>6 DEF m

\* A rule a look-up halts at precedes every rule that applies: one that applies
\* halts it too, and the order has the more urgent one first.
LEMMA FirstHalt ==
    ASSUME TypeOK, RulesFinite, NEW s, NEW e, NEW p, NEW q \in Orders(s, e),
           NEW at \in Halts(q, p), \A k \in Halts(q, p) : at <= k,
           NEW i \in Candidates(s, e), Applies(mappings[i], p)
    PROVE  mappings[q[at]].priority <= mappings[i].priority
<1>1. i \in Ids /\ mappings[i] # Null
  BY DEF Candidates
<1>2. PICK k \in 1 .. Len(q) : q[k] = i
  BY OrderIs
<1>3. Verdict(mappings[q[k]], p) = "matches"
  BY <1>1, <1>2, VerdictMeans
<1>4. k \in Halts(q, p)
  BY <1>3 DEF Halts
<1>5. at \in 1 .. Len(q) /\ at <= k
  BY <1>4 DEF Halts
<1>6. \A j, l \in 1 .. Len(q) : j <= l => mappings[q[j]].priority <= mappings[q[l]].priority
  BY OrderIs
<1> QED BY <1>2, <1>5, <1>6

LEMMA RuleChosen == TypeOK /\ RulesFinite => MostUrgentRule
<1> SUFFICES ASSUME TypeOK, RulesFinite PROVE MostUrgentRule
  OBVIOUS
<1> SUFFICES ASSUME NEW s \in Shops, NEW e \in Events, NEW p \in Payloads, NEW q \in Orders(s, e)
    PROVE LET r == ResolveMappingGroups(q, p, Fallback(s, e))
              rules == {mappings[i] : i \in Candidates(s, e)}
              broken == {m \in rules : Stripped \in ToSet(m.conditions)}
              applies == {m \in rules \ broken :
                            \A k \in DOMAIN m.conditions :
                                Holds(m.conditions[k], p[m.conditions[k].field])}
              First(m) == \A n \in applies : m.priority <= n.priority
          IN  IF r.source = "thrown"
              THEN \E m \in broken : First(m)
              ELSE \/ \E m \in applies :
                        /\ First(m)
                        /\ r.groupIds = IF m.targetGroupIds = {} THEN Fallback(s, e)
                                        ELSE m.targetGroupIds
                   \/ applies = {} /\ r.groupIds = Fallback(s, e)
  BY DEF MostUrgentRule
<1> DEFINE fallback == Fallback(s, e)
           r == ResolveMappingGroups(q, p, fallback)
           rules == {mappings[i] : i \in Candidates(s, e)}
           broken == {m \in rules : Stripped \in ToSet(m.conditions)}
           applies == {m \in rules \ broken :
                         \A k \in DOMAIN m.conditions :
                             Holds(m.conditions[k], p[m.conditions[k].field])}
<1>1. \A m : m \in applies <=> \E i \in Candidates(s, e) : m = mappings[i] /\ Applies(m, p)
  BY DEF Applies
<1>2. \A i \in Candidates(s, e) : i \in Ids /\ mappings[i] # Null
  BY DEF Candidates
<1>3. Len(q) \in Nat /\ \A k \in 1 .. Len(q) : q[k] \in Candidates(s, e)
  BY OrderIs
<1>4. Decided(q, p, fallback, r)
  BY <1>3, ResolveIs
<1>5. CASE Halts(q, p) = {} /\ r.source # "thrown" /\ r.groupIds = fallback
  <2>1. applies = {}
    <3> SUFFICES ASSUME NEW i \in Candidates(s, e), Applies(mappings[i], p) PROVE FALSE
      BY <1>1
    <3>1. PICK k \in 1 .. Len(q) : q[k] = i
      BY OrderIs
    <3>2. Verdict(mappings[q[k]], p) = "matches"
      BY <1>2, <3>1, VerdictMeans
    <3> QED BY <1>5, <3>2 DEF Halts
  <2> HIDE DEF r, applies, fallback
  <2> QED BY <1>5, <2>1 DEF r, applies, fallback
<1>6. ASSUME NEW at \in Halts(q, p), \A k \in Halts(q, p) : at <= k,
             Verdict(mappings[q[at]], p) = "throws", r.source = "thrown"
      PROVE  r.source = "thrown" /\ \E m \in broken : \A n \in applies : m.priority <= n.priority
  <2>1. at \in 1 .. Len(q)
    BY DEF Halts
  <2>2. q[at] \in Candidates(s, e)
    BY <1>3, <2>1
  <2>3. mappings[q[at]] \in broken
    BY <1>2, <1>6, <2>2, VerdictMeans
  <2>4. \A n \in applies : mappings[q[at]].priority <= n.priority
    BY <1>1, <1>6, FirstHalt
  <2> QED BY <1>6, <2>3, <2>4
<1>7. ASSUME NEW at \in Halts(q, p), \A k \in Halts(q, p) : at <= k,
             Verdict(mappings[q[at]], p) # "throws", r.source # "thrown",
             r.groupIds = IF mappings[q[at]].targetGroupIds = {} THEN fallback
                          ELSE mappings[q[at]].targetGroupIds
      PROVE  /\ r.source # "thrown"
             /\ \E m \in applies :
                   /\ \A n \in applies : m.priority <= n.priority
                   /\ r.groupIds = IF m.targetGroupIds = {} THEN fallback ELSE m.targetGroupIds
  <2>1. at \in 1 .. Len(q) /\ Verdict(mappings[q[at]], p) # "differs"
    BY DEF Halts
  <2>2. q[at] \in Candidates(s, e)
    BY <1>3, <2>1
  <2>3. Verdict(mappings[q[at]], p) = "matches"
    <3>1. mappings[q[at]] \in Mapping /\ Len(mappings[q[at]].conditions) \in Nat
      BY <1>2, <2>2, ConditionsAreList
    <3> QED BY <1>7, <2>1, <3>1, VerdictIs
  <2>4. mappings[q[at]] \in applies
    <3>1. Applies(mappings[q[at]], p)
      BY <1>2, <2>2, <2>3, VerdictMeans
    <3> QED BY <1>1, <2>2, <3>1
  <2>5. \A n \in applies : mappings[q[at]].priority <= n.priority
    BY <1>1, <1>7, FirstHalt
  <2> HIDE DEF r, applies, fallback
  <2> QED BY <1>7, <2>4, <2>5
<1> QED BY <1>4, <1>5, <1>6, <1>7 DEF Decided

\* Whatever order equal priorities come in, the groups of a webhook are those
\* of a rule that applies and that no applying rule precedes, or the default
\* ones, and a webhook fails only on a rule that lost its conditions.
THEOREM RulesDecide == Spec => []MostUrgentRule
BY Inductive, RuleChosen, PTL DEF IInv

---------------------------------------------------------------------------
\* A look-up fails only on a rule of the shop that lost its conditions.
LEMMA ThrownBy ==
    ASSUME TypeOK, RulesFinite, NEW s, NEW e, NEW p, NEW fallback, NEW q \in Orders(s, e),
           ResolveMappingGroups(q, p, fallback).source = "thrown"
    PROVE  \E i \in Ids : /\ mappings[i] # Null /\ mappings[i].shop = s
                          /\ Stripped \in ToSet(mappings[i].conditions)
<1>1. Len(q) \in Nat /\ \A k \in 1 .. Len(q) : q[k] \in Candidates(s, e)
  BY OrderIs
<1>2. Decided(q, p, fallback, ResolveMappingGroups(q, p, fallback))
  BY <1>1, ResolveIs
<1>3. PICK at \in Halts(q, p) : Verdict(mappings[q[at]], p) = "throws"
  BY <1>2 DEF Decided
<1>4. q[at] \in Candidates(s, e)
  BY <1>1 DEF Halts
<1>5. q[at] \in Ids /\ mappings[q[at]] # Null /\ mappings[q[at]].shop = s
  BY <1>4 DEF Candidates
<1> QED BY <1>3, <1>5, VerdictMeans

\* An answered delivery leaves one row in sync_logs, unless the shop's
\* connection is gone or one of its rules has lost its conditions.
THEOREM AnswersAreLogged == Spec => LoggedUnlessGoneOrStripped
<1> DEFINE Excused(d) ==
             LET s == delivery'[d].shop IN
             \/ syncLogs'[d] = 1
             \/ connection[s] = "none"
             \/ \E i \in Ids : mappings[i] # Null /\ mappings[i].shop = s
                                 /\ Stripped \in ToSet(mappings[i].conditions)
           A == \A d \in Deliveries : Concluded(d) => Excused(d)
<1>1. IInv /\ [Next]_vars => [A]_vars
  <2> SUFFICES ASSUME IInv, Next, NEW d \in Deliveries, Concluded(d) PROVE Excused(d)
    OBVIOUS
  <2>1. syncLogs[d] = 0 /\ syncLogs \in [Deliveries -> Nat]
    BY DEF IInv, TypeOK, NotYetLogged, Concluded
  <2>2. ASSUME NEW s \in Shops, ShopStep(s) PROVE FALSE
    <3>1. UNCHANGED delivery
      BY <2>2 DEF ShopStep, SaveMapping, SavePanelMapping, RemoveMapping, SaveDefaultGroups,
                  SaveSettings, SaveCredentials, Link, Unlink, PurgeOneShop
    <3> QED BY <3>1 DEF Concluded
  <2>3. ASSUME Crash PROVE FALSE
    <3>1. delivery'[d] = IF delivery[d].phase = "pending"
                         THEN [delivery[d] EXCEPT !.phase = "lost"] ELSE delivery[d]
      BY <2>3 DEF Crash
    <3>2. CASE delivery[d].phase = "pending"
      <4>1. delivery[d] \in [phase : {"pending", "answered", "thrown", "lost"}, shop : Shops]
        BY <3>2 DEF IInv, TypeOK, Unsent
      <4>2. delivery'[d].phase = "lost"
        BY <3>1, <3>2, <4>1
      <4> QED BY <4>2 DEF Concluded
    <3>3. CASE delivery[d].phase = "new"
      BY <3>1, <3>3 DEF Concluded
    <3> QED BY <3>2, <3>3 DEF Concluded
  <2>4. ASSUME NEW e \in Deliveries, e # d, DeliveryStep(e) PROVE FALSE
    <3>1. PICK s \in Shops, f \in {"pending", "answered", "thrown"} :
            delivery' = [delivery EXCEPT ![e] = [phase |-> f, shop |-> s]]
      BY <2>4, DeliveryStepIs DEF IInv
    <3>2. delivery'[d] = delivery[d]
      BY <2>4, <3>1 DEF IInv, TypeOK
    <3> QED BY <3>2 DEF Concluded
  <2>5. ASSUME DeliveryStep(d) PROVE Excused(d)
    <3>1. ASSUME Logged(d) PROVE Excused(d)
      BY <2>1, <3>1 DEF Logged
    <3>2. ASSUME NEW s \in Shops, Throw(d, s) PROVE Excused(d)
      <4>1. delivery'[d].shop = s
        BY <3>2 DEF Throw, Enters, IInv, TypeOK
      <4>2. \E i \in Ids : /\ mappings[i] # Null /\ mappings[i].shop = s
                           /\ Stripped \in ToSet(mappings[i].conditions)
        BY <3>2, ThrownBy DEF Throw, IInv
      <4> QED BY <4>1, <4>2
    <3>3. ASSUME NEW s \in Shops, StartSync(d, s) PROVE FALSE
      <4>1. delivery'[d].phase = "pending"
        BY <3>3 DEF StartSync, Enters, IInv, TypeOK
      <4> QED BY <4>1 DEF Concluded
    <3>4. ASSUME FailSyncGone(d) PROVE Excused(d)
      <4>1. delivery'[d].shop = delivery[d].shop
        BY <3>4, DeliveryIs DEF FailSyncGone, Ends, IInv, TypeOK
      <4> QED BY <3>4, <4>1 DEF FailSyncGone
    <3> QED BY <2>5, <3>1, <3>2, <3>3, <3>4
            DEF DeliveryStep, Reject, RefuseUnlinked, FinishSync, FailSync
  <2> QED BY <2>2, <2>3, <2>4, <2>5 DEF Next
<1> QED BY <1>1, Inductive, PTL DEF Spec, LoggedUnlessGoneOrStripped

---------------------------------------------------------------------------
(***************************************************************************)
(* The mailings: that nobody is mailed a document twice by one request or  *)
(* one that is not meant for them, and that the answer is complete.        *)
(***************************************************************************)

MailedTo(r) == [c \in Customers |-> {d \in Docs : letters[<<r, c, d>>] > 0}]

\* The request is at work for one customer.
Working(q) == q.step \in {"assign", "links", "mail"}

\* The answer of the panel's request so far.
ResultsOK(sent, q) ==
    /\ q.step # "ended" => \A c \in Customers :
         q.results[c] = "due" <=> (c \in q.todo \/ c = q.customer)
    /\ q.step = "list" => \A c \in Customers : q.results[c] \in {"due", None}
    /\ q.step = "ended" => \/ \A c \in Customers : q.results[c] \in {"due", None}
                           \/ \A c \in Customers : q.results[c] # "due"
    /\ \A c \in Customers : sent[c] # {} => q.results[c] = "sent" \/ c = q.customer

\* What a request has mailed to each customer fits what q says of it.
Good(sent, q) ==
    /\ Working(q) => /\ q.customer \in Customers /\ q.customer \notin q.todo
                     /\ q.left \subseteq Picked(q.listed, q.groups[q.customer])
    /\ ~Working(q) => q.customer = None
    /\ \A c \in Customers : sent[c] \subseteq Picked(q.listed, q.groups[c])
    /\ \A c \in q.todo : sent[c] = {}
    /\ q.step = "list" => \A c \in Customers : sent[c] = {}
    /\ q.step \in {"assign", "links"} => sent[q.customer] = {}
    /\ q.step = "mail" => sent[q.customer] \cap q.left = {}
    /\ q.kind = "resend" => ResultsOK(sent, q)

RequestsGood ==
    \A r \in Requests :
        /\ request[r] = None => \A c \in Customers : MailedTo(r)[c] = {}
        /\ request[r] # None => Good(MailedTo(r), request[r])

DocumentsInv == DocumentsTypeOK /\ RequestsGood /\ MailedOnce

---------------------------------------------------------------------------
LEMMA PickedType ==
    ASSUME NEW listed \in Documents, NEW g \in SUBSET Groups
    PROVE  Picked(listed, g) \in SUBSET Docs
  BY DEF Picked, Present

LEMMA DocumentsInitInv == ASSUME DocumentsInit PROVE DocumentsInv
<1>1. letters \in [Requests \X Customers \X Docs -> Nat]
  BY DEF DocumentsInit
<1>2. DocumentsTypeOK
  BY <1>1 DEF DocumentsInit, DocumentsTypeOK
<1>3. \A rcd \in Requests \X Customers \X Docs : letters[rcd] = 0
  BY DEF DocumentsInit
<1>4. MailedOnce
  BY <1>1, <1>3 DEF MailedOnce
<1>5. \A r \in Requests, c \in Customers : MailedTo(r)[c] = {}
  <2> SUFFICES ASSUME NEW r \in Requests, NEW c \in Customers, NEW d \in Docs
               PROVE  ~(letters[<<r, c, d>>] > 0)
    BY Zenon DEF MailedTo
  <2>1. letters[<<r, c, d>>] = 0
    BY <1>3
  <2> QED BY <2>1
<1>6. RequestsGood
  BY <1>5 DEF DocumentsInit, RequestsGood
<1> QED BY <1>2, <1>4, <1>6 DEF DocumentsInv

\* A request's step that mails nothing.
LEMMA Keeps ==
    ASSUME DocumentsInv, NEW r \in Requests, NEW new \in Request, Becomes(r, new),
           Good(MailedTo(r), new),
           documents' = documents, letters' = letters
    PROVE  DocumentsInv'
<1>1. request'[r] = new /\ \A s \in Requests \ {r} : request'[s] = request[s]
  BY DEF Becomes, DocumentsInv, DocumentsTypeOK
<1>2. DocumentsTypeOK'
  BY DEF Becomes, DocumentsInv, DocumentsTypeOK
<1>3. \A s \in Requests : MailedTo(s)' = MailedTo(s)
  BY DEF MailedTo
<1>4. new # None
  BY NoRequestAssumption
<1>5. RequestsGood'
  BY <1>1, <1>3, <1>4, Zenon DEF DocumentsInv, RequestsGood
<1>6. MailedOnce'
  BY DEF DocumentsInv, MailedOnce
<1> QED BY <1>2, <1>5, <1>6 DEF DocumentsInv

\* What is known of a request at a step.
LEMMA AtStep ==
    ASSUME DocumentsInv, NEW r \in Requests, NEW step, At(r, step)
    PROVE  request[r] \in Request /\ request[r].step = step /\ Good(MailedTo(r), request[r])
  BY DEF DocumentsInv, At, RequestsGood, DocumentsTypeOK

LEMMA BeginKeeps ==
    ASSUME DocumentsInv, NEW r \in Requests, Begin(r)
    PROVE  DocumentsInv'
<1> PICK k \in {"webhook", "resend"}, g \in [Customers -> SUBSET Groups],
         todo \in (SUBSET Customers) \ {{}} :
           Becomes(r, [kind |-> k, step |-> "list", groups |-> g, todo |-> todo,
                       customer |-> None, listed |-> documents, left |-> {},
                       results |-> [c \in Customers |-> IF c \in todo THEN "due" ELSE None]])
  BY DEF Begin
<1> DEFINE results == [c \in Customers |-> IF c \in todo THEN "due" ELSE None]
           new == [kind |-> k, step |-> "list", groups |-> g, todo |-> todo,
                   customer |-> None, listed |-> documents, left |-> {}, results |-> results]
<1>1. /\ results \in [Customers -> {"sent", "error", "due", None}]
      /\ \A c \in Customers : results[c] = IF c \in todo THEN "due" ELSE None
  OBVIOUS
<1>2. /\ request[r] = None /\ documents' = documents /\ letters' = letters
  BY DEF Begin
<1>3. \A c \in Customers : MailedTo(r)[c] = {}
  BY <1>2 DEF DocumentsInv, RequestsGood
<1>4. new \in Request
  BY <1>1 DEF Request, DocumentsInv, DocumentsTypeOK
<1>5. /\ new.step = "list" /\ new.todo = todo /\ new.customer = None /\ new.results = results
  OBVIOUS
<1> HIDE DEF new, results
<1>6. ResultsOK(MailedTo(r), new)
  BY <1>1, <1>3, <1>5, DocumentsAssumption DEF ResultsOK
<1>7. Good(MailedTo(r), new)
  BY <1>3, <1>5, <1>6 DEF Good, Working
<1>8. Becomes(r, new)
  BY DEF new, results
<1> QED BY <1>2, <1>4, <1>7, <1>8, Keeps

LEMMA ListKeeps == ASSUME DocumentsInv, NEW r \in Requests, List(r) PROVE DocumentsInv'
<1> DEFINE q == request[r]
           step == IF Present(documents) = {} THEN "ended" ELSE "next"
           new == [q EXCEPT !.listed = documents, !.step = step]
<1>1. q \in Request /\ q.step = "list" /\ Good(MailedTo(r), q)
  BY AtStep DEF List
<1>2. documents' = documents /\ letters' = letters /\ Becomes(r, new)
  BY DEF List
<1>3. new \in Request
  BY <1>1 DEF Request, DocumentsInv, DocumentsTypeOK
<1>4. /\ new.step = step /\ new.kind = q.kind /\ new.todo = q.todo
      /\ new.customer = q.customer /\ new.results = q.results
  BY <1>1 DEF Request
<1> HIDE DEF new
<1>5. \A c \in Customers : MailedTo(r)[c] = {}
  BY <1>1 DEF Good
<1>6. q.customer = None /\ (q.kind = "resend" => ResultsOK(MailedTo(r), q))
  BY <1>1 DEF Good, Working
<1>7. q.kind = "resend" => ResultsOK(MailedTo(r), new)
  BY <1>1, <1>4, <1>5, <1>6 DEF ResultsOK
<1>8. Good(MailedTo(r), new)
  <2>1. \A c \in new.todo : MailedTo(r)[c] = {}
    BY <1>1, <1>4 DEF Good
  <2> QED BY <1>4, <1>5, <1>6, <1>7, <2>1 DEF Good, Working
<1> QED BY <1>2, <1>3, <1>8, Keeps

LEMMA ListFailsKeeps ==
    ASSUME DocumentsInv, NEW r \in Requests, ListFails(r)
    PROVE  DocumentsInv'
<1> DEFINE q == request[r]
           new == [q EXCEPT !.step = "ended"]
<1>1. q \in Request /\ q.step = "list" /\ Good(MailedTo(r), q)
  BY AtStep DEF ListFails
<1>2. documents' = documents /\ letters' = letters /\ Becomes(r, new)
  BY DEF ListFails
<1>3. new \in Request
  BY <1>1 DEF Request
<1>4. /\ new.step = "ended" /\ new.kind = q.kind /\ new.todo = q.todo
      /\ new.customer = q.customer /\ new.results = q.results
  BY <1>1 DEF Request
<1> HIDE DEF new
<1>5. \A c \in Customers : MailedTo(r)[c] = {}
  BY <1>1 DEF Good
<1>6. q.customer = None /\ (q.kind = "resend" => ResultsOK(MailedTo(r), q))
  BY <1>1 DEF Good, Working
<1>7. q.kind = "resend" => ResultsOK(MailedTo(r), new)
  BY <1>1, <1>4, <1>5, <1>6 DEF ResultsOK
<1>8. Good(MailedTo(r), new)
  <2>1. \A c \in new.todo : MailedTo(r)[c] = {}
    BY <1>1, <1>4 DEF Good
  <2> QED BY <1>4, <1>5, <1>6, <1>7, <2>1 DEF Good, Working
<1> QED BY <1>2, <1>3, <1>8, Keeps

LEMMA TakeKeeps ==
    ASSUME DocumentsInv, NEW r \in Requests, NEW c \in Customers, TakeCustomer(r,
           c) PROVE DocumentsInv'
<1> DEFINE q == request[r]
           picked == Picked(q.listed, q.groups[c])
           new == [q EXCEPT !.step = "assign", !.customer = c, !.todo = @ \ {c}, !.left = picked]
<1>1. q \in Request /\ q.step = "next" /\ Good(MailedTo(r), q) /\ c \in q.todo
  BY AtStep DEF TakeCustomer
<1>2. documents' = documents /\ letters' = letters /\ Becomes(r, new)
  BY DEF TakeCustomer
<1>3. picked \in SUBSET Docs
  BY <1>1, PickedType DEF Request
<1> HIDE DEF picked
<1>4. new \in Request
  BY <1>1, <1>3 DEF Request
<1>5. /\ new.step = "assign" /\ new.kind = q.kind /\ new.todo = q.todo \ {c}
      /\ new.customer = c /\ new.results = q.results /\ new.left = picked
      /\ new.listed = q.listed /\ new.groups = q.groups
  BY <1>1 DEF Request
<1> HIDE DEF new
<1>6. q.customer = None /\ (q.kind = "resend" => ResultsOK(MailedTo(r), q))
  BY <1>1 DEF Good, Working
<1>7. MailedTo(r)[c] = {}
  BY <1>1 DEF Good
<1>8. q.kind = "resend" => ResultsOK(MailedTo(r), new)
  BY <1>1, <1>5, <1>6, <1>7, DocumentsAssumption DEF ResultsOK
<1>9. Good(MailedTo(r), new)
  <2>1. \A d \in Customers : MailedTo(r)[d] \subseteq Picked(q.listed, q.groups[d])
    BY <1>1 DEF Good
  <2>2. \A d \in new.todo : MailedTo(r)[d] = {}
    BY <1>1, <1>5 DEF Good
  <2>3. new.left \subseteq Picked(new.listed, new.groups[c])
    BY <1>5 DEF picked
  <2> QED BY <1>5, <1>7, <1>8, <2>1, <2>2, <2>3 DEF Good, Working
<1> QED BY <1>2, <1>4, <1>9, Keeps

LEMMA SkipKeeps ==
    ASSUME DocumentsInv, NEW r \in Requests, NEW c \in Customers, SkipCustomer(r,
           c) PROVE DocumentsInv'
<1> DEFINE q == request[r]
           results == [q.results EXCEPT ![c] = "error"]
           new == [q EXCEPT !.todo = @ \ {c}, !.results = results]
<1>1. q \in Request /\ q.step = "next" /\ Good(MailedTo(r), q) /\ c \in q.todo
  BY AtStep DEF SkipCustomer
<1>2. documents' = documents /\ letters' = letters
  BY DEF SkipCustomer
<1>3. Becomes(r, new)
  BY DEF SkipCustomer
<1>4. /\ results \in [Customers -> {"sent", "error", "due", None}]
      /\ results[c] = "error" /\ \A d \in Customers \ {c} : results[d] = q.results[d]
  BY <1>1 DEF Request
<1> HIDE DEF results
<1>5. new \in Request
  BY <1>1, <1>4 DEF Request
<1>6. /\ new.step = "next" /\ new.kind = q.kind /\ new.todo = q.todo \ {c}
      /\ new.customer = q.customer /\ new.results = results /\ new.left = q.left
      /\ new.listed = q.listed /\ new.groups = q.groups
  BY <1>1 DEF Request
<1> HIDE DEF new
<1>7. q.customer = None /\ (q.kind = "resend" => ResultsOK(MailedTo(r), q))
  BY <1>1 DEF Good, Working
<1>8. MailedTo(r)[c] = {}
  BY <1>1 DEF Good
<1>9. q.kind = "resend" => ResultsOK(MailedTo(r), new)
  BY <1>1, <1>4, <1>6, <1>7, <1>8, DocumentsAssumption DEF ResultsOK
<1>10. Good(MailedTo(r), new)
  <2>1. \A d \in Customers : MailedTo(r)[d] \subseteq Picked(q.listed, q.groups[d])
    BY <1>1 DEF Good
  <2>2. \A d \in new.todo : MailedTo(r)[d] = {}
    BY <1>1, <1>6 DEF Good
  <2> QED BY <1>6, <1>7, <1>9, <2>1, <2>2 DEF Good, Working
<1> QED BY <1>2, <1>3, <1>5, <1>10, Keeps

LEMMA AllTakenKeeps ==
    ASSUME DocumentsInv, NEW r \in Requests, AllTaken(r)
    PROVE  DocumentsInv'
<1> DEFINE q == request[r]
           new == [q EXCEPT !.step = "ended"]
<1>1. q \in Request /\ q.step = "next" /\ Good(MailedTo(r), q) /\ q.todo = {}
  BY AtStep DEF AllTaken
<1>2. documents' = documents /\ letters' = letters /\ Becomes(r, new)
  BY DEF AllTaken
<1>3. new \in Request
  BY <1>1 DEF Request
<1>4. /\ new.step = "ended" /\ new.kind = q.kind /\ new.todo = q.todo
      /\ new.customer = q.customer /\ new.results = q.results
      /\ new.listed = q.listed /\ new.groups = q.groups
  BY <1>1 DEF Request
<1> HIDE DEF new
<1>5. q.customer = None /\ (q.kind = "resend" => ResultsOK(MailedTo(r), q))
  BY <1>1 DEF Good, Working
<1>6. q.kind = "resend" => ResultsOK(MailedTo(r), new)
  BY <1>1, <1>4, <1>5, DocumentsAssumption DEF ResultsOK
<1>7. Good(MailedTo(r), new)
  <2>1. \A d \in Customers : MailedTo(r)[d] \subseteq Picked(q.listed, q.groups[d])
    BY <1>1 DEF Good
  <2> QED BY <1>1, <1>4, <1>5, <1>6, <2>1 DEF Good, Working
<1> QED BY <1>2, <1>3, <1>7, Keeps

\* The steps for one customer that mail nothing: they go on from the loop over
\* the documents to the links, and from the links to the letters.
LEMMA WorkKeeps ==
    ASSUME DocumentsInv, NEW r \in Requests,
           At(r, "assign") \/ At(r, "links"),
           NEW step \in {"assign", "links", "mail"},
           NEW left \in SUBSET Docs,
           left \subseteq request[r].left
             \/ left \subseteq Picked(request[r].listed, request[r].groups[request[r].customer]),
           Becomes(r, [request[r] EXCEPT !.step = step, !.left = left]),
           documents' = documents, letters' = letters
    PROVE  DocumentsInv'
<1> DEFINE q == request[r]
           new == [q EXCEPT !.step = step, !.left = left]
<1>1. q \in Request /\ q.step \in {"assign", "links"} /\ Good(MailedTo(r), q)
  BY AtStep
<1>2. new \in Request
  BY <1>1 DEF Request
<1>3. /\ new.step = step /\ new.kind = q.kind /\ new.todo = q.todo
      /\ new.customer = q.customer /\ new.results = q.results /\ new.left = left
      /\ new.listed = q.listed /\ new.groups = q.groups
  BY <1>1 DEF Request
<1>4. Becomes(r, new)
  OBVIOUS
<1> HIDE DEF new
<1>5. /\ q.customer \in Customers /\ q.customer \notin q.todo
      /\ q.left \subseteq Picked(q.listed, q.groups[q.customer])
      /\ MailedTo(r)[q.customer] = {}
      /\ q.kind = "resend" => ResultsOK(MailedTo(r), q)
  BY <1>1 DEF Good, Working
<1>6. q.kind = "resend" => ResultsOK(MailedTo(r), new)
  BY <1>1, <1>3, <1>5 DEF ResultsOK
<1>7. left \subseteq Picked(q.listed, q.groups[q.customer])
  BY <1>5
<1>8. Good(MailedTo(r), new)
  <2>1. \A d \in Customers : MailedTo(r)[d] \subseteq Picked(q.listed, q.groups[d])
    BY <1>1 DEF Good
  <2>2. \A d \in new.todo : MailedTo(r)[d] = {}
    BY <1>1, <1>3 DEF Good
  <2> QED BY <1>3, <1>5, <1>6, <1>7, <2>1, <2>2 DEF Good, Working
<1> QED BY <1>2, <1>4, <1>8, Keeps

LEMMA AssignKeeps ==
    ASSUME DocumentsInv, NEW r \in Requests, NEW d \in Docs, Assign(r,
           d) PROVE DocumentsInv'
<1> DEFINE left == request[r].left \ {d}
<1>1. request[r] \in Request /\ request[r].step = "assign"
  BY AtStep DEF Assign
<1>2. Becomes(r, [request[r] EXCEPT !.left = left])
  BY DEF Assign
<1>3. left \in SUBSET Docs /\ left \subseteq request[r].left
  BY <1>1 DEF Request
<1> HIDE DEF left
<1>4. [request[r] EXCEPT !.left = left] = [request[r] EXCEPT !.step = "assign", !.left = left]
  BY <1>1 DEF Request
<1> QED BY <1>2, <1>3, <1>4, WorkKeeps DEF Assign

LEMMA AllAssignedKeeps ==
    ASSUME DocumentsInv, NEW r \in Requests, AllAssigned(r)
    PROVE  DocumentsInv'
<1> DEFINE left == request[r].left
<1>1. request[r] \in Request
  BY AtStep DEF AllAssigned
<1>2. Becomes(r, [request[r] EXCEPT !.step = "links"])
  BY DEF AllAssigned
<1>3. left \in SUBSET Docs
  BY <1>1 DEF Request
<1>4. [request[r] EXCEPT !.step = "links"] = [request[r] EXCEPT !.step = "links", !.left = left]
  BY <1>1 DEF Request
<1> QED BY <1>2, <1>3, <1>4, WorkKeeps DEF AllAssigned

LEMMA LookUpKeeps ==
    ASSUME DocumentsInv, NEW r \in Requests, LookUpLinks(r)
    PROVE  DocumentsInv'
<1> DEFINE q == request[r]
<1> PICK linked \in SUBSET Picked(q.listed, q.groups[q.customer]) :
           Becomes(r, [q EXCEPT !.step = "mail", !.left = linked])
  BY DEF LookUpLinks
<1>1. q \in Request /\ q.step = "links" /\ Good(MailedTo(r), q)
  BY AtStep DEF LookUpLinks
<1>2. q.customer \in Customers
  BY <1>1 DEF Good, Working
<1>3. q.listed \in Documents /\ q.groups[q.customer] \in SUBSET Groups
  BY <1>1, <1>2 DEF Request
<1>4. linked \in SUBSET Docs
  BY <1>3, PickedType
<1> QED BY <1>4, WorkKeeps DEF LookUpLinks

---------------------------------------------------------------------------
\* The letters there are after a call that mails to one customer.
WithLetters(r, c, mailed, delivered) ==
    [rcd \in DOMAIN letters |->
       IF delivered /\ rcd[1] = r /\ rcd[2] = c /\ rcd[3] \in mailed
       THEN letters[rcd] + 1 ELSE letters[rcd]]

\* The letters of one call.
LEMMA MailLetters ==
    ASSUME DocumentsTypeOK, NEW r \in Requests, NEW c \in Customers,
           NEW mailed \in SUBSET Docs,
           NEW delivered \in BOOLEAN,
           letters' = WithLetters(r, c, mailed, delivered),
           MailedOnce, MailedTo(r)[c] \cap mailed = {}
    PROVE  /\ letters' \in [Requests \X Customers \X Docs -> Nat]
           /\ MailedOnce'
           /\ \A s \in Requests, e \in Customers : s # r \/ e # c => MailedTo(s)'[e] = MailedTo(s)[e]
           /\ MailedTo(r)'[c] \subseteq MailedTo(r)[c] \cup mailed
<1> DEFINE RCD == Requests \X Customers \X Docs
<1>1. DOMAIN letters = RCD /\ \A rcd \in RCD : letters[rcd] \in Nat
  BY DEF DocumentsTypeOK
<1>2. \A rcd \in RCD : letters'[rcd] =
        IF delivered /\ rcd[1] = r /\ rcd[2] = c /\ rcd[3] \in mailed
        THEN letters[rcd] + 1 ELSE letters[rcd]
  BY <1>1 DEF WithLetters
<1>3. letters' \in [RCD -> Nat] /\ DOMAIN letters' = RCD
  BY <1>1 DEF WithLetters
<1>4. \A s \in Requests, e \in Customers, d \in Docs :
        <<s, e, d>> \in RCD /\ <<s, e, d>>[1] = s /\ <<s, e, d>>[2] = e /\ <<s, e, d>>[3] = d
  OBVIOUS
<1>5. \A s \in Requests, e \in Customers, d \in Docs :
        letters'[<<s, e, d>>] = IF delivered /\ s = r /\ e = c /\ d \in mailed
                                THEN letters[<<s, e, d>>] + 1 ELSE letters[<<s, e, d>>]
  BY <1>2, <1>4
<1>6. MailedOnce'
  <2> SUFFICES ASSUME NEW rcd \in RCD PROVE letters'[rcd] <= 1
    BY <1>3 DEF MailedOnce
  <2> PICK s \in Requests, e \in Customers, d \in Docs : rcd = <<s, e, d>>
    OBVIOUS
  <2>1. letters[<<s, e, d>>] \in Nat /\ letters[<<s, e, d>>] <= 1
    BY <1>1, <1>4 DEF MailedOnce
  <2>2. s = r /\ e = c /\ d \in mailed => letters[<<s, e, d>>] = 0
    <3> SUFFICES ASSUME s = r, e = c, d \in mailed PROVE letters[<<r, c, d>>] = 0
      OBVIOUS
    <3>1. ~(letters[<<r, c, d>>] > 0)
      BY DEF MailedTo
    <3> QED BY <2>1, <3>1
  <2> QED BY <1>5, <2>1, <2>2
<1>7. \A s \in Requests, e \in Customers : s # r \/ e # c => MailedTo(s)'[e] = MailedTo(s)[e]
  <2> TAKE s \in Requests, e \in Customers
  <2> HAVE s # r \/ e # c
  <2>1. \A d \in Docs : letters'[<<s, e, d>>] = letters[<<s, e, d>>]
    BY <1>5
  <2>2. /\ MailedTo(s)'[e] = {d \in Docs : letters'[<<s, e, d>>] > 0}
        /\ MailedTo(s)[e] = {d \in Docs : letters[<<s, e, d>>] > 0}
    BY Zenon DEF MailedTo
  <2> QED BY <2>1, <2>2
<1>8. MailedTo(r)'[c] \subseteq MailedTo(r)[c] \cup mailed
  <2> SUFFICES ASSUME NEW d \in Docs, letters'[<<r, c, d>>] > 0, d \notin mailed
               PROVE  letters[<<r, c, d>>] > 0
    BY Zenon DEF MailedTo
  <2> QED BY <1>5
<1> QED BY <1>3, <1>6, <1>7, <1>8

LEMMA MailKeeps ==
    ASSUME DocumentsInv, NEW r \in Requests, NEW mailed \in SUBSET Docs, Mail(r,
           mailed) PROVE DocumentsInv'
<1> DEFINE q == request[r]
           left == q.left \ mailed
           new == [q EXCEPT !.left = left]
           c == q.customer
<1>1. q \in Request /\ q.step = "mail" /\ Good(MailedTo(r), q)
  BY AtStep DEF Mail
<1>2. mailed \subseteq q.left /\ documents' = documents
  BY DEF Mail
<1>3. /\ c \in Customers /\ c \notin q.todo
      /\ q.left \subseteq Picked(q.listed, q.groups[c])
      /\ MailedTo(r)[c] \cap q.left = {}
      /\ q.kind = "resend" => ResultsOK(MailedTo(r), q)
      /\ \A e \in Customers : MailedTo(r)[e] \subseteq Picked(q.listed, q.groups[e])
      /\ \A e \in q.todo : MailedTo(r)[e] = {}
  BY <1>1 DEF Good, Working
<1> PICK delivered \in BOOLEAN :
           letters' = WithLetters(r, c, mailed, delivered)
  BY DEF Mail, WithLetters
<1>4. Becomes(r, new)
  BY DEF Mail, Rest
<1>5. new \in Request
  BY <1>1 DEF Request
<1>6. /\ new.step = "mail" /\ new.kind = q.kind /\ new.todo = q.todo
      /\ new.customer = c /\ new.results = q.results /\ new.left = left
      /\ new.listed = q.listed /\ new.groups = q.groups
  BY <1>1 DEF Request
<1> HIDE DEF new
<1>7. /\ letters' \in [Requests \X Customers \X Docs -> Nat]
      /\ MailedOnce'
      /\ \A s \in Requests, e \in Customers : s # r \/ e # c => MailedTo(s)'[e] = MailedTo(s)[e]
      /\ MailedTo(r)'[c] \subseteq MailedTo(r)[c] \cup mailed
  <2>1. MailedTo(r)[c] \cap mailed = {}
    BY <1>2, <1>3
  <2>2. c \in Customers /\ DocumentsTypeOK /\ MailedOnce
    BY <1>3 DEF DocumentsInv
  <2> HIDE DEF c, q
  <2> QED BY <2>1, <2>2, MailLetters, Zenon
<1>8. DocumentsTypeOK'
  BY <1>2, <1>4, <1>5, <1>7 DEF DocumentsInv, DocumentsTypeOK, Becomes
<1>9. request'[r] = new /\ \A s \in Requests \ {r} : request'[s] = request[s]
  BY <1>4 DEF Becomes, DocumentsInv, DocumentsTypeOK
<1>10. \A e \in Customers \ {c} : MailedTo(r)'[e] = MailedTo(r)[e]
  BY <1>7
<1>11. q.kind = "resend" => ResultsOK(MailedTo(r)', new)
  <2> SUFFICES ASSUME q.kind = "resend"
               PROVE  /\ \A e \in Customers : q.results[e] = "due" <=> (e \in q.todo \/ e = c)
                      /\ \A e \in Customers : MailedTo(r)'[e] # {} => q.results[e] = "sent" \/ e = c
    BY <1>1, <1>6, <1>9 DEF ResultsOK
  <2> QED BY <1>1, <1>3, <1>10 DEF ResultsOK
<1>12. Good(MailedTo(r)', new)
  <2>1. \A e \in Customers : MailedTo(r)'[e] \subseteq Picked(q.listed, q.groups[e])
    <3> SUFFICES ASSUME NEW e \in Customers
                 PROVE  MailedTo(r)'[e] \subseteq Picked(q.listed, q.groups[e])
      OBVIOUS
    <3>1. CASE e # c
      BY <1>3, <1>10, <3>1
    <3>2. CASE e = c
      BY <1>2, <1>3, <1>7, <3>2
    <3> QED BY <3>1, <3>2
  <2>2. \A e \in q.todo : MailedTo(r)'[e] = {}
    BY <1>1, <1>3, <1>10 DEF Request
  <2>3. left \subseteq Picked(q.listed, q.groups[c])
    BY <1>3
  <2>4. MailedTo(r)'[c] \cap left = {}
    BY <1>3, <1>7
  <2> QED BY <1>3, <1>6, <1>9, <1>11, <2>1, <2>2, <2>3, <2>4 DEF Good, Working
<1>13. RequestsGood'
  <2> SUFFICES ASSUME NEW s \in Requests
               PROVE  /\ request'[s] = None => \A e \in Customers : MailedTo(s)'[e] = {}
                      /\ request'[s] # None => Good(MailedTo(s)', request'[s])
    BY DEF RequestsGood
  <2>1. CASE s = r
    BY <1>5, <1>9, <1>12, <2>1, NoRequestAssumption
  <2>2. CASE s # r
    <3>1. request'[s] = request[s] /\ \A e \in Customers : MailedTo(s)'[e] = MailedTo(s)[e]
      BY <1>7, <1>9, <2>2
    <3>2. request[s] # None => request[s] \in Request /\ Good(MailedTo(s), request[s])
      BY DEF DocumentsInv, DocumentsTypeOK, RequestsGood
    <3>3. request[s] # None => Good(MailedTo(s)', request[s])
      BY <3>1, <3>2 DEF Good, ResultsOK, Working, Request
    <3>4. request[s] = None => \A e \in Customers : MailedTo(s)[e] = {}
      BY DEF DocumentsInv, RequestsGood
    <3> QED BY <3>1, <3>3, <3>4
  <2> QED BY <2>1, <2>2
<1> QED BY <1>7, <1>8, <1>13 DEF DocumentsInv

LEMMA AllMailedKeeps ==
    ASSUME DocumentsInv, NEW r \in Requests, AllMailed(r)
    PROVE  DocumentsInv'
<1> DEFINE q == request[r]
           c == q.customer
           results == Sent(r)
           new == [q EXCEPT !.step = "next", !.customer = None, !.results = results]
<1>1. q \in Request /\ q.step = "mail" /\ Good(MailedTo(r), q)
  BY AtStep DEF AllMailed
<1>2. documents' = documents /\ letters' = letters /\ Becomes(r, new)
  BY DEF AllMailed
<1>3. /\ c \in Customers /\ c \notin q.todo
      /\ q.kind = "resend" => ResultsOK(MailedTo(r), q)
      /\ \A e \in Customers : MailedTo(r)[e] \subseteq Picked(q.listed, q.groups[e])
      /\ \A e \in q.todo : MailedTo(r)[e] = {}
  BY <1>1 DEF Good, Working
<1>4. /\ results \in [Customers -> {"sent", "error", "due", None}]
      /\ q.kind = "resend" => /\ results[c] = "sent"
                              /\ \A e \in Customers \ {c} : results[e] = q.results[e]
  BY <1>1, <1>3 DEF Request, Sent
<1> HIDE DEF results
<1>5. new \in Request
  BY <1>1, <1>4 DEF Request
<1>6. /\ new.step = "next" /\ new.kind = q.kind /\ new.todo = q.todo
      /\ new.customer = None /\ new.results = results
      /\ new.listed = q.listed /\ new.groups = q.groups
  BY <1>1 DEF Request
<1> HIDE DEF new
<1>7. q.kind = "resend" => ResultsOK(MailedTo(r), new)
  BY <1>1, <1>3, <1>4, <1>6, DocumentsAssumption DEF ResultsOK
<1>8. Good(MailedTo(r), new)
  BY <1>3, <1>6, <1>7 DEF Good, Working
<1> QED BY <1>2, <1>5, <1>8, Keeps

---------------------------------------------------------------------------
\* The invariant holds at first and is kept by every step.
THEOREM DocumentsInductive == DocumentsSpec => []DocumentsInv
<1>1. DocumentsInv /\ [DocumentsNext]_documentsVars => DocumentsInv'
  <2> SUFFICES ASSUME DocumentsInv, [DocumentsNext]_documentsVars PROVE DocumentsInv'
    OBVIOUS
  <2>1. ASSUME NEW r \in Requests, Begin(r) PROVE DocumentsInv'
    BY <2>1, BeginKeeps
  <2>2. ASSUME NEW r \in Requests,
               List(r) \/ ListFails(r) \/ AllTaken(r) \/ AllAssigned(r) \/ LookUpLinks(r) \/ AllMailed(r)
        PROVE  DocumentsInv'
    BY <2>2, ListKeeps, ListFailsKeeps, AllTakenKeeps, AllAssignedKeeps, LookUpKeeps, AllMailedKeeps
  <2>3. ASSUME NEW r \in Requests, NEW c \in Customers, TakeCustomer(r, c) \/ SkipCustomer(r, c)
        PROVE  DocumentsInv'
    BY <2>3, TakeKeeps, SkipKeeps
  <2>4. ASSUME NEW r \in Requests, NEW d \in Docs, Assign(r, d) PROVE DocumentsInv'
    BY <2>4, AssignKeeps
  <2>5. ASSUME NEW r \in Requests, NEW mailed \in SUBSET Docs, Mail(r, mailed) PROVE DocumentsInv'
    BY <2>5, MailKeeps
  <2>6. CASE EditDocuments \/ UNCHANGED documentsVars
    <3>1. request' = request /\ letters' = letters
      BY <2>6 DEF EditDocuments, documentsVars
    <3>2. documents' \in Documents
      BY <2>6 DEF EditDocuments, documentsVars, DocumentsInv, DocumentsTypeOK, Documents
    <3>3. \A r \in Requests : MailedTo(r)' = MailedTo(r)
      BY <3>1 DEF MailedTo
    <3>4. RequestsGood'
      BY <3>1, <3>3, Zenon DEF DocumentsInv, RequestsGood
    <3> QED BY <3>1, <3>2, <3>4 DEF DocumentsInv, DocumentsTypeOK, MailedOnce
  <2> QED BY <2>1, <2>2, <2>3, <2>4, <2>5, <2>6 DEF DocumentsNext, Proceeds
<1> QED BY <1>1, DocumentsInitInv, PTL DEF DocumentsSpec

\* Requests, documents and letters keep their types.
THEOREM DocumentsTyped == DocumentsSpec => []DocumentsTypeOK
<1>1. DocumentsInv => DocumentsTypeOK
  BY DEF DocumentsInv
<1> QED BY <1>1, DocumentsInductive, PTL

\* Whatever fails on the way, one request mails nobody a document twice.
THEOREM NothingTwice == DocumentsSpec => []MailedOnce
<1>1. DocumentsInv => MailedOnce
  BY DEF DocumentsInv
<1> QED BY <1>1, DocumentsInductive, PTL

\* The panel's answer has a result for everybody, and no failure for somebody
\* who was mailed.
THEOREM AnswerComplete == DocumentsSpec => []ResultsComplete
<1>1. DocumentsInv => ResultsComplete
  <2> SUFFICES ASSUME DocumentsInv, NEW r \in Requests, At(r, "ended"), request[r].kind = "resend"
               PROVE  /\ \/ \A c \in Customers : request[r].results[c] \in {"due", None}
                         \/ \A c \in Customers : request[r].results[c] # "due"
                      /\ \A c \in Customers : (\E d \in Docs : letters[<<r, c, d>>] > 0)
                                                => request[r].results[c] = "sent"
    BY DEF ResultsComplete
  <2>1. request[r].step = "ended" /\ Good(MailedTo(r), request[r])
    BY AtStep
  <2>2. ResultsOK(MailedTo(r), request[r]) /\ request[r].customer = None
    BY <2>1 DEF Good, Working
  <2>3. \A c \in Customers : (\E d \in Docs : letters[<<r, c, d>>] > 0) => MailedTo(r)[c] # {}
    BY DEF MailedTo
  <2> QED BY <2>1, <2>2, <2>3, DocumentsAssumption DEF ResultsOK
<1> QED BY <1>1, DocumentsInductive, PTL
=============================================================================
