---------------------------- MODULE GroupRules ----------------------------
(***************************************************************************)
(* What a shop configures and what a webhook makes of it: the rows of      *)
(* event_mappings and settings (settingsRepository.ts), the routes of both *)
(* panels that write them (settings.ts, adminIdoxxy.ts, idoxxyAdmin.ts),   *)
(* the choice of groups for a customer (webhooks.ts) and the sync_logs row *)
(* a delivery leaves.                                                      *)
(*                                                                         *)
(* A handler that writes runs to its end before another one starts; a      *)
(* delivery that gets as far as iDoxxy awaits it, and anything may happen  *)
(* meanwhile.  What the delivery does at iDoxxy is module GroupSync's, the *)
(* life of a connection ShopLifecycle's: here it has a status only.        *)
(***************************************************************************)
EXTENDS Naturals, FiniteSets, Sequences, SequencesExt

CONSTANTS
    Null, Shops, Ids, Deliveries,
    GroupSets,        \* the group lists a panel may post, as sets
    Events, Priorities,
    ConditionLists,   \* the lists of conditions the admin panel may post
    PanelCounts,      \* how many conditions a post to /settings/mappings holds
    Payloads,         \* functions from fields to values
    Keys, Urls, DefaultUrl

ASSUME GroupRulesAssumption ==
    /\ {} \in GroupSets
    /\ \A c \in ConditionLists : c \in Seq(ToSet(c))
    /\ Priorities \subseteq Nat /\ PanelCounts \subseteq Nat
    /\ DefaultUrl \in Urls /\ Null \notin Urls \cup Keys

VARIABLES
    mappings,    \* event_mappings: a record for each id, or Null
    settings,    \* the values settings holds for a shop, as a record
    connection,  \* what webhooks see of the shop's connection: "none",
                 \* "linked", "unreadable" (linked, with a token this process
                 \* cannot decrypt), "token_invalid" or "revoked"
    syncLogs,    \* sync_logs: how many rows a delivery has
    delivery     \* the deliveries: "new", "pending", "answered", "thrown" or
                 \* "lost", and the shop they name

vars == <<mappings, settings, connection, syncLogs, delivery>>

\* z.array(z.object({})) accepts a condition and keeps none of its fields.
Stripped == Null

Mapping ==
    [shop : Shops, event : Events, priority : Priorities, enabled : BOOLEAN,
     targetGroupIds : GroupSets,
     conditions : ConditionLists \cup {[i \in 1 .. n |-> Stripped] : n \in PanelCounts}]

Settings ==
    [registration : GroupSets, order : GroupSets,
     apiKey : Keys \cup {Null}, baseUrl : Urls \cup {Null}]

ASSUME NoMappingAssumption == Null \notin Mapping

Unsent == [phase |-> "new", shop |-> Null]

\* The rows of every table.
TypeOK ==
    /\ mappings \in [Ids -> Mapping \cup {Null}]
    /\ settings \in [Shops -> Settings]
    /\ connection \in [Shops -> {"none", "linked", "unreadable", "token_invalid", "revoked"}]
    /\ syncLogs \in [Deliveries -> Nat]
    /\ delivery \in [Deliveries -> {Unsent} \cup
                       [phase : {"pending", "answered", "thrown", "lost"}, shop : Shops]]

NoSettings == [registration |-> {}, order |-> {}, apiKey |-> Null, baseUrl |-> Null]

Init ==
    /\ mappings = [i \in Ids |-> Null]
    /\ settings = [s \in Shops |-> NoSettings]
    /\ connection = [s \in Shops |-> "none"]
    /\ syncLogs = [d \in Deliveries |-> 0]
    /\ delivery = [d \in Deliveries |-> Unsent]

---------------------------------------------------------------------------
\* The groups a webhook gives its customer.

\* matchesCondition; parts are what a string or the members of a list include.
Holds(c, v) ==
    \/ c.operator = "includes" /\ v.kind \in {"list", "string"} /\ c.value \in v.parts
    \/ c.operator = "equals" /\ v.text = c.value
    \/ c.operator = "not_equals" /\ v.text # c.value

\* mappingMatchesPayload: every() stops at the first condition that does not
\* hold; a stripped one throws, for its field has no split().
Verdict(m, payload) ==
    LET c == m.conditions
        stop == SelectInSeq(c, LAMBDA x : x = Stripped \/ ~Holds(x, payload[x.field]))
    IN  CASE stop = 0 -> "matches"
          [] stop > 0 /\ c[stop] = Stripped -> "throws"
          [] OTHER -> "differs"

Candidates(s, e) ==
    {i \in Ids : mappings[i] # Null /\ mappings[i].shop = s
                   /\ mappings[i].event = e /\ mappings[i].enabled}

\* Seeded fault: the most urgent rule last.
SortedDown(q) ==
    \A j, k \in DOMAIN q : j < k => mappings[q[j]].priority >= mappings[q[k]].priority

\* SQL and sort() order by priority; rows of equal priority come in any order.
Sorted(q) ==
    \A j, k \in DOMAIN q : j < k => mappings[q[j]].priority <= mappings[q[k]].priority

Orders(s, e) == {q \in SetToSeqs(Candidates(s, e)) : Sorted(q)}

Fallback(s, e) ==
    IF e = "customer.created" THEN settings[s].registration ELSE settings[s].order

\* resolveMappingGroups: find() stops at the first rule that matches, and a rule
\* without groups gives way to the default groups, not to the next rule.
ResolveMappingGroups(q, payload, fallback) ==
    LET at == SelectInSeq(q, LAMBDA i : Verdict(mappings[i], payload) # "differs")
    IN  CASE at > 0 /\ Verdict(mappings[q[at]], payload) = "throws" ->
               [source |-> "thrown", groupIds |-> {}]
          [] at > 0 /\ Verdict(mappings[q[at]], payload) # "throws"
               /\ mappings[q[at]].targetGroupIds # {} ->
               [source |-> "mapping", groupIds |-> mappings[q[at]].targetGroupIds]
          [] OTHER ->
               [source |-> IF fallback = {} THEN "none" ELSE "fallback", groupIds |-> fallback]

---------------------------------------------------------------------------
\* The panels.

\* upsertMapping: a row of another shop makes it throw, and the route refuse.
Upsert(s, i, m) ==
    /\ mappings[i] # Null => mappings[i].shop = s
    /\ mappings' = [mappings EXCEPT ![i] = m]

\* POST /admin/idoxxy/settings/mappings: conditions are checked and kept.
SaveMapping(s, i) ==
    \E e \in Events, p \in Priorities, b \in BOOLEAN, g \in GroupSets, c \in ConditionLists :
        /\ Upsert(s, i, [shop |-> s, event |-> e, priority |-> p, enabled |-> b,
                         targetGroupIds |-> g, conditions |-> c])
        /\ UNCHANGED <<settings, connection, syncLogs, delivery>>

\* POST /settings/mappings: of the conditions only their number is kept.
SavePanelMapping(s, i) ==
    \E e \in Events, p \in Priorities, b \in BOOLEAN, g \in GroupSets, n \in PanelCounts :
        /\ Upsert(s, i, [shop |-> s, event |-> e, priority |-> p, enabled |-> b,
                         targetGroupIds |-> g, conditions |-> [k \in 1 .. n |-> Stripped]])
        /\ UNCHANGED <<settings, connection, syncLogs, delivery>>

\* removeMapping, from either panel; 404 when the row is another shop's.
RemoveMapping(s, i) ==
    /\ mappings[i] # Null /\ mappings[i].shop = s
    /\ mappings' = [mappings EXCEPT ![i] = Null]
    /\ UNCHANGED <<settings, connection, syncLogs, delivery>>

\* defaultGroupsSchema: the older names count when the newer list is empty.
Preferred(newer, older) == IF newer # {} THEN newer ELSE older

\* PUT /settings/default-groups; the admin panel posts the older names only.
SaveDefaultGroups(s) ==
    \E r, o, r0, o0 \in GroupSets :
        /\ settings' = [settings EXCEPT ![s].registration = Preferred(r, r0),
                                        ![s].order = Preferred(o, o0)]
        /\ UNCHANGED <<mappings, connection, syncLogs, delivery>>

\* PUT /admin/idoxxy/settings: updateSettings with no base URL and no key.
SaveSettings(s) ==
    \E r, o \in GroupSets :
        /\ settings' = [settings EXCEPT ![s].registration = r, ![s].order = o,
                                        ![s].baseUrl = DefaultUrl]
        /\ UNCHANGED <<mappings, connection, syncLogs, delivery>>

\* updateApiKeys, saveCredentials: an empty value is not written.
Given(new, stored) == IF new = Null THEN stored ELSE new

\* PUT /settings/credentials, whose base URL has a default, and
\* PUT /admin/idoxxy/settings/credentials, which refuses an empty key.
SaveCredentials(s) ==
    \E key \in Keys \cup {Null}, url \in Urls :
        /\ settings' = [settings EXCEPT ![s].apiKey = Given(key, @),
                                        ![s].baseUrl = Given(url, @)]
        /\ UNCHANGED <<mappings, connection, syncLogs, delivery>>

---------------------------------------------------------------------------
\* The connection, as far as webhooks tell it apart.

Link(s) ==
    /\ connection' = [connection EXCEPT ![s] = "linked"]
    /\ UNCHANGED <<mappings, settings, syncLogs, delivery>>

\* DELETE /settings/link/:shopId, and the App Store's /uninstall.
Unlink(s) ==
    /\ \/ connection' = [connection EXCEPT ![s] = "none"]
       \/ connection[s] # "none" /\ connection' = [connection EXCEPT ![s] = "revoked"]
    /\ UNCHANGED <<mappings, settings, syncLogs, delivery>>

\* purgeOneShop
PurgeOneShop(s) ==
    /\ connection[s] = "revoked"
    /\ connection' = [connection EXCEPT ![s] = "none"]
    /\ settings' = [settings EXCEPT ![s] = NoSettings]
    /\ mappings' = [i \in Ids |-> IF mappings[i] # Null /\ mappings[i].shop = s
                                  THEN Null ELSE mappings[i]]
    /\ syncLogs' = [d \in Deliveries |-> IF delivery[d].shop = s THEN 0 ELSE syncLogs[d]]
    /\ UNCHANGED delivery

\* The process dies and starts again, with the same encryption key or another.
Crash ==
    /\ delivery' = [d \in Deliveries |->
                      IF delivery[d].phase = "pending"
                      THEN [delivery[d] EXCEPT !.phase = "lost"] ELSE delivery[d]]
    /\ \/ UNCHANGED connection
       \/ connection' = [s \in Shops |-> IF connection[s] = "linked"
                                         THEN "unreadable" ELSE connection[s]]
    /\ UNCHANGED <<mappings, settings, syncLogs>>

---------------------------------------------------------------------------
\* The webhook handlers.

Enters(d, s, phase) ==
    /\ delivery[d].phase = "new"
    /\ delivery' = [delivery EXCEPT ![d] = [phase |-> phase, shop |-> s]]

Logged(d) == syncLogs' = [syncLogs EXCEPT ![d] = @ + 1]

\* 400: the body does not parse, or the order has no e-mail address.
Reject(d, s) ==
    /\ Enters(d, s, "answered")
    /\ Logged(d)
    /\ UNCHANGED <<mappings, settings, connection>>

\* The rules are consulted before the connection and outside any try.
Throw(d, s) ==
    /\ \E e \in Events, p \in Payloads : \E q \in Orders(s, e) :
         ResolveMappingGroups(q, p, Fallback(s, e)).source = "thrown"
    /\ Enters(d, s, "thrown")
    /\ UNCHANGED <<mappings, settings, connection, syncLogs>>

Resolves(s) ==
    \E e \in Events, p \in Payloads : \E q \in Orders(s, e) :
        ResolveMappingGroups(q, p, Fallback(s, e)).source # "thrown"

\* 428: not linked, or getClientForShop cannot decrypt the token.
RefuseUnlinked(d, s) ==
    /\ connection[s] # "linked"
    /\ Resolves(s)
    /\ Enters(d, s, "answered")
    /\ Logged(d)
    /\ connection' = [connection EXCEPT ![s] = IF @ = "unreadable" THEN "token_invalid" ELSE @]
    /\ UNCHANGED <<mappings, settings>>

StartSync(d, s) ==
    /\ connection[s] = "linked"
    /\ Resolves(s)
    /\ Enters(d, s, "pending")
    /\ UNCHANGED <<mappings, settings, connection, syncLogs>>

Ends(d, phase) ==
    /\ delivery[d].phase = "pending"
    /\ delivery' = [delivery EXCEPT ![d].phase = phase]

FinishSync(d) ==
    /\ Ends(d, "answered")
    /\ Logged(d)
    /\ UNCHANGED <<mappings, settings, connection>>

\* Seeded fault: an authorisation error is not logged.
FailQuietly(d) ==
    /\ Ends(d, "thrown")
    /\ UNCHANGED syncLogs
    /\ connection' = [connection EXCEPT ![delivery[d].shop] = "token_invalid"]
    /\ UNCHANGED <<mappings, settings>>

\* The catch block: handleAuthError marks the token, then the log is written.
FailSync(d) ==
    LET s == delivery[d].shop IN
    /\ Ends(d, "thrown")
    /\ Logged(d)
    /\ connection' \in {connection, IF connection[s] = "none" THEN connection
                                    ELSE [connection EXCEPT ![s] = "token_invalid"]}
    /\ UNCHANGED <<mappings, settings>>

\* 401 or 403 and no connection any more: markTokenInvalid throws first.
FailSyncGone(d) ==
    /\ Ends(d, "thrown")
    /\ connection[delivery[d].shop] = "none"
    /\ UNCHANGED <<mappings, settings, connection, syncLogs>>

ShopStep(s) ==
    \/ \E i \in Ids : SaveMapping(s, i) \/ SavePanelMapping(s, i) \/ RemoveMapping(s, i)
    \/ SaveDefaultGroups(s) \/ SaveSettings(s) \/ SaveCredentials(s)
    \/ Link(s) \/ Unlink(s) \/ PurgeOneShop(s)

DeliveryStep(d) ==
    \/ \E s \in Shops : Reject(d, s) \/ Throw(d, s) \/ RefuseUnlinked(d, s) \/ StartSync(d, s)
    \/ FinishSync(d) \/ FailSync(d) \/ FailSyncGone(d)

Next ==
    \/ \E s \in Shops : ShopStep(s)
    \/ \E d \in Deliveries : DeliveryStep(d)
    \/ Crash

Spec == Init /\ [][Next]_vars

---------------------------------------------------------------------------
\* Whatever order the database returns rules of equal priority in, the groups
\* a webhook gives (resolveMappingGroups) are those of a rule that applies in
\* full and that no applying rule precedes, the default groups when that rule
\* names none, and the default groups when no rule applies; it fails only on a
\* rule whose conditions were stripped, and never past a more urgent rule that
\* applies.
MostUrgentRule ==
    \A s \in Shops, e \in Events, p \in Payloads : \A q \in Orders(s, e) :
        LET r == ResolveMappingGroups(q, p, Fallback(s, e))
            rules == {mappings[i] : i \in Candidates(s, e)}
            broken == {m \in rules : Stripped \in ToSet(m.conditions)}
            applies == {m \in rules \ broken :
                          \A k \in DOMAIN m.conditions :
                              Holds(m.conditions[k], p[m.conditions[k].field])}
            First(m) == \A n \in applies : m.priority <= n.priority
        IN  IF r.source = "thrown"
            THEN \E m \in broken : First(m)
            ELSE \/ \E m \in applies :
                      /\ First(m)
                      /\ r.groupIds = IF m.targetGroupIds = {} THEN Fallback(s, e)
                                      ELSE m.targetGroupIds
                 \/ applies = {} /\ r.groupIds = Fallback(s, e)

Concluded(d) ==
    /\ delivery[d].phase \in {"new", "pending"}
    /\ delivery'[d].phase \in {"answered", "thrown"}

\* A delivery the program answers leaves one row in sync_logs, whichever way it
\* went and whatever the panels did meanwhile, unless the shop's connection is
\* gone or one of its rules has lost its conditions (webhooks.ts).
LoggedUnlessGoneOrStripped ==
    [][\A d \in Deliveries : Concluded(d) =>
         LET s == delivery'[d].shop IN
         \/ syncLogs'[d] = 1
         \/ connection[s] = "none"
         \/ \E i \in Ids : mappings[i] # Null /\ mappings[i].shop = s
                             /\ Stripped \in ToSet(mappings[i].conditions)]_vars
=============================================================================
