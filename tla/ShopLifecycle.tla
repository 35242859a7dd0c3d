--------------------------- MODULE ShopLifecycle ---------------------------
(***************************************************************************)
(* The life of a shop in the integration: installation, linking to iDoxxy, *)
(* webhook synchronisation, uninstallation, unlinking, and the retention   *)
(* scheduler that erases what uninstalled shops leave behind.              *)
(*                                                                         *)
(* One Node process runs everything and better-sqlite3 is synchronous, so  *)
(* a handler is atomic between two awaits.  A handler that awaits iDoxxy   *)
(* is split into a start action and its completions; between them any      *)
(* other handler, the scheduler or a crash may run.                        *)
(*                                                                         *)
(* Time is a tick counter relative to the scheduler's interval: Period     *)
(* ticks pass between two purges, and timestamps are held as ages in       *)
(* ticks.  Ages saturate at MaxAge, beyond every threshold.                *)
(***************************************************************************)
EXTENDS ShopConnections, FiniteSets

CONSTANTS
    Requests,   \* slots for handlers that are waiting for iDoxxy
    Grace,      \* UNINSTALL_PURGE_GRACE_DAYS, in ticks
    Retention,  \* SYNC_LOG_RETENTION_DAYS, in ticks
    Period      \* the 24 h interval of the scheduler, in ticks

ASSUME RetentionAssumption ==
    /\ Grace \in Nat \ {0}
    /\ Retention \in Nat \ {0}
    /\ Period \in Nat \ {0}
    /\ Grace + Period <= MaxAge
    /\ Retention + Period <= MaxAge

VARIABLES
    conn,         \* shop_connections: a Row, or Null, for each shop
    data,         \* whether settings or event_mappings rows of a shop exist
    logs,         \* the ages of a shop's sync_logs rows
    request,      \* what each request slot is waiting for
    up,           \* whether the process runs
    sincePurge,   \* ticks since the scheduler last ran
    uninstalled   \* history: since when a shop counts as uninstalled, Null
                  \* while it does not - the age of the last verified callback
                  \* that revoked it, or of the first if none matched its row

vars == <<conn, data, logs, request, up, sincePurge, uninstalled>>

Request == [kind : {"webhook", "linkTest", "link"},
            shop : Shops,
            url  : {"known", Null}]

ASSUME NoRequestAssumption == Null \notin Request

\* The table types, the request slots and the ages the scheduler reasons on.
TypeOK ==
    /\ conn \in [Shops -> Row \cup {Null}]
    /\ data \in [Shops -> BOOLEAN]
    /\ logs \in [Shops -> SUBSET Age]
    /\ request \in [Requests -> Request \cup {Null}]
    /\ up \in BOOLEAN
    /\ sincePurge \in 0 .. Period
    /\ uninstalled \in [Shops -> Age \cup {Null}]

\* Shops linked in the days of base64 tokens, with or without the Shoper
\* tokens whose columns came later.
LegacyRows == {[FreshRow EXCEPT !.status = "linked",
                                !.idoxxyToken = "legacy",
                                !.shoperTokens = tokens,
                                !.shopUrl = "known"] : tokens \in {"saved", Null}}

\* A database as a deployment may find it.

Init ==
    /\ conn \in [Shops -> LegacyRows \cup {Null}]
    /\ data = [s \in Shops |-> conn[s] # Null]
    /\ logs = [s \in Shops |-> {}]
    /\ request = [r \in Requests |-> Null]
    /\ up = TRUE
    /\ sincePurge = 0
    /\ uninstalled = [s \in Shops |-> Null]

---------------------------------------------------------------------------
(* Helpers shared by the handlers.                                         *)

\* addSyncLog inserts a row and stamps the setting last_synced_at, which
\* creates a settings row even for a shop that has no connection.
AddSyncLog(s) ==
    /\ logs' = [logs EXCEPT ![s] = @ \cup {0}]
    /\ data' = [data EXCEPT ![s] = TRUE]

Await(r, kind, s, url) ==
    request' = [request EXCEPT ![r] = [kind |-> kind, shop |-> s, url |-> url]]

Answer(r) == request' = [request EXCEPT ![r] = Null]

Pending(r, kind) == up /\ request[r] # Null /\ request[r].kind = kind

NoData == UNCHANGED <<data, logs>>
Steady == UNCHANGED <<up, sincePurge>>

---------------------------------------------------------------------------
(* Installation and uninstallation.                                        *)

\* GET /oauth/callback and GET /settings?action=install.  Everything before
\* the first write only talks to Shoper; the writes run without an await.
Install(s) ==
    /\ up
    /\ \E withLicense \in BOOLEAN :
         LET installed == SaveShoperTokens(RegisterInstallation(conn, s, "known"), s)
         IN  conn' = IF withLicense THEN RecordShoperLicense(installed, s)
                                    ELSE installed
    /\ uninstalled' = [uninstalled EXCEPT ![s] = Null]
    /\ NoData /\ Steady /\ UNCHANGED request

\* POST /uninstall and GET /settings?action=uninstall, signature verified.
\* The connection is looked up by shop URL; no match is no effect.
Uninstall(s) ==
    /\ up
    /\ IF HasRow(conn, s) /\ conn[s].shopUrl # Null
       THEN /\ conn' = RevokeAndWipeTokens(conn, s)
            /\ uninstalled' = [uninstalled EXCEPT ![s] = 0]
       ELSE /\ uninstalled' = [uninstalled EXCEPT ![s] = Coalesce(@, 0)]
            /\ UNCHANGED conn
    /\ NoData /\ Steady /\ UNCHANGED request

\* POST /uninstall with no shop_url in it: `c.shopUrl === shopUrl` compares
\* undefined with undefined and matches the first row that has no URL.
UninstallUnnamed(s) ==
    /\ up
    /\ HasRow(conn, s) /\ conn[s].shopUrl = Null
    /\ conn' = RevokeAndWipeTokens(conn, s)
    /\ uninstalled' = [uninstalled EXCEPT ![s] = 0]
    /\ NoData /\ Steady /\ UNCHANGED request

\* GET /settings opened from the panel with a valid signature and no session:
\* a license no connection has recorded provisions one on the spot, over the
\* shop's own row if it has one.
IframeEntry(s) ==
    /\ up
    /\ ~(HasRow(conn, s) /\ conn[s].license # Null)
    /\ \E url \in {"known", Null} :
         conn' = RecordShoperLicense(RegisterInstallation(conn, s, url), s)
    /\ NoData /\ Steady /\ UNCHANGED <<request, uninstalled>>

\* The same entry with a session already open, and the App Store's automatic
\* message on installation, only backfill the license.
BackfillLicense(s) ==
    /\ up
    /\ conn' = RecordShoperLicense(conn, s)
    /\ NoData /\ Steady /\ UNCHANGED <<request, uninstalled>>

---------------------------------------------------------------------------
(* Linking: POST /settings/link/test, POST /settings/link, DELETE          *)
(* /settings/link/:shopId, and the settings forms.                         *)

\* Both link handlers begin alike: they register the installation again, take
\* the token from the body or from the row, and await iDoxxy's answer.
\* Without a token they answer 400, and the registration stays.
LinkStart(r, kind, s) ==
    /\ up
    /\ request[r] = Null
    /\ \E url \in {"known", Null}, tokenInBody \in BOOLEAN :
         LET registered == RegisterInstallation(conn, s, url) IN
         IF tokenInBody
         THEN /\ conn' = registered
              /\ Await(r, kind, s, url)
         ELSE /\ conn' = DecodeToken(registered, s)
              /\ IF CanDecode(registered, s) THEN Await(r, kind, s, url)
                                             ELSE UNCHANGED request
    /\ NoData /\ Steady /\ UNCHANGED uninstalled

\* markVerified throws when the row is gone; the handler catches it.
LinkTestAccepted(r) ==
    /\ Pending(r, "linkTest")
    /\ LET s == request[r].shop
       IN  conn' = IF HasRow(conn, s) THEN UpdateTokenVerification(conn, s) ELSE conn
    /\ Answer(r)
    /\ NoData /\ Steady /\ UNCHANGED uninstalled

LinkAccepted(r) ==
    /\ Pending(r, "link")
    /\ conn' = SaveLink(conn, request[r].shop, request[r].url)
    /\ Answer(r)
    /\ NoData /\ Steady /\ UNCHANGED uninstalled

\* iDoxxy refuses the token or cannot be reached: only the response tells.
LinkRejected(r) ==
    /\ Pending(r, "linkTest") \/ Pending(r, "link")
    /\ Answer(r)
    /\ NoData /\ Steady /\ UNCHANGED <<conn, uninstalled>>

\* DELETE /settings/link/:shopId removes the connection row and nothing else.
DeleteLink(s) ==
    /\ up
    /\ HasRow(conn, s)
    /\ conn' = DeleteConnection(conn, s)
    /\ NoData /\ Steady /\ UNCHANGED <<request, uninstalled>>

\* The PUT, POST and DELETE handlers of the settings forms: each writes at
\* least one settings row, and none looks at the connection.
SaveSettings(s) ==
    /\ up
    /\ data' = [data EXCEPT ![s] = TRUE]
    /\ Steady /\ UNCHANGED <<conn, logs, request, uninstalled>>

\* A panel route resolves its iDoxxy client: the token is read, and reading
\* may migrate it or find it undecodable.
ResolveShopClient(s) ==
    /\ up
    /\ conn' = DecodeToken(conn, s)
    /\ NoData /\ Steady /\ UNCHANGED <<request, uninstalled>>

---------------------------------------------------------------------------
(* Webhooks: customer-created and order-created have the same control.     *)

\* resolveShopId finds a shop by the number in its domain and then learns its
\* URL; the other ways to resolve a shop write nothing.
Resolved(s) ==
    {conn} \cup (IF HasRow(conn, s) /\ conn[s].shopUrl = Null
                 THEN {UpdateShopUrl(conn, s)} ELSE {})

\* Answered before any await: 400 for a payload that does not validate, 428
\* for a shop that is not linked.  Either leaves an error log.
WebhookRefused(s) ==
    /\ up
    /\ conn' \in Resolved(s)
    /\ AddSyncLog(s)
    /\ Steady /\ UNCHANGED <<request, uninstalled>>

Linked(s) ==
    HasRow(conn, s) /\ conn[s].status = "linked" /\ conn[s].idoxxyToken # Null

\* The shop is linked: the token is decoded.  An undecodable token, or an
\* order that carries no e-mail address, is answered with an error log.
WebhookStopped(s) ==
    /\ up
    /\ Linked(s)
    /\ \E table \in Resolved(s) : conn' = DecodeToken(table, s)
    /\ AddSyncLog(s)
    /\ Steady /\ UNCHANGED <<request, uninstalled>>

WebhookStart(r, s) ==
    /\ up
    /\ request[r] = Null
    /\ Linked(s)
    /\ CanDecode(conn, s)
    /\ \E table \in Resolved(s) : conn' = DecodeToken(table, s)
    /\ Await(r, "webhook", s, Null)
    /\ NoData /\ Steady /\ UNCHANGED uninstalled

\* Customer ensured, groups assigned, e-mail attempted: a success log.  A
\* failure other than 401 or 403 leaves an error log instead.
WebhookDone(r) ==
    /\ Pending(r, "webhook")
    /\ AddSyncLog(request[r].shop)
    /\ Answer(r)
    /\ Steady /\ UNCHANGED <<conn, uninstalled>>

\* Seeded fault: the handler forgets the log of an unauthorized call.
WebhookUnauthorizedUnlogged(r) ==
    /\ Pending(r, "webhook")
    /\ HasRow(conn, request[r].shop)
    /\ conn' = MarkTokenInvalid(conn, request[r].shop)
    /\ Answer(r)
    /\ NoData /\ Steady /\ UNCHANGED uninstalled

\* iDoxxy answers 401 or 403: handleAuthError marks the connection, then the
\* error is logged.
WebhookUnauthorized(r) ==
    /\ Pending(r, "webhook")
    /\ HasRow(conn, request[r].shop)
    /\ conn' = MarkTokenInvalid(conn, request[r].shop)
    /\ AddSyncLog(request[r].shop)
    /\ Answer(r)
    /\ Steady /\ UNCHANGED uninstalled

\* The same with the row gone: getOrThrow throws out of the catch block, so
\* the log line after it never runs.
WebhookUnauthorizedGone(r) ==
    /\ Pending(r, "webhook")
    /\ ~HasRow(conn, request[r].shop)
    /\ Answer(r)
    /\ NoData /\ Steady /\ UNCHANGED <<conn, uninstalled>>

---------------------------------------------------------------------------
(* The retention scheduler, the clock, and the process itself.             *)

\* Seeded fault: `revoked_at < ?`.
ExpiredStrictly(table) ==
    {s \in Shops : /\ HasRow(table, s)
                   /\ table[s].status = "revoked"
                   /\ table[s].revokedAt # Null
                   /\ table[s].revokedAt > Grace}

\* Seeded fault: the query trusts the stamp and drops the status.
ExpiredByStamp(table) ==
    {s \in Shops : /\ HasRow(table, s)
                   /\ table[s].revokedAt # Null
                   /\ table[s].revokedAt >= Grace}

\* purgeExpiredUninstalledShops' query.
Expired(table) ==
    {s \in Shops : /\ HasRow(table, s)
                   /\ table[s].status = "revoked"
                   /\ table[s].revokedAt # Null
                   /\ table[s].revokedAt >= Grace}

\* Seeded fault: `timestamp < ?`.
PurgeExpiredSyncLogsStrictly(l) == [s \in Shops |-> {a \in l[s] : a <= Retention}]

\* Seeded fault: the cutoff is computed a tick too late.
PurgeExpiredSyncLogsEarly(l) == [s \in Shops |-> {a \in l[s] : a + 1 < Retention}]

\* purgeExpiredSyncLogs: by age alone, whatever the shop.
PurgeExpiredSyncLogs(l) == [s \in Shops |-> {a \in l[s] : a < Retention}]

\* purgeOneShop for each shop of gone: one transaction takes the shop's
\* logs, settings, mappings and connection together.
PurgeShops(gone, l) ==
    /\ conn' = [s \in Shops |-> IF s \in gone THEN Null ELSE conn[s]]
    /\ data' = [s \in Shops |-> data[s] /\ s \notin gone]
    /\ logs' = [s \in Shops |-> IF s \in gone THEN {} ELSE l[s]]

\* runPurge: the logs first, then the shops, without an await.
RunPurge == PurgeShops(Expired(conn), PurgeExpiredSyncLogs(logs))

\* The interval fires.
Purge ==
    /\ up
    /\ sincePurge = Period
    /\ RunPurge
    /\ sincePurge' = 0
    /\ UNCHANGED <<request, up, uninstalled>>

\* The process dies with whatever was in flight.
Crash ==
    /\ up
    /\ up' = FALSE
    /\ request' = [r \in Requests |-> Null]
    /\ sincePurge' = 0
    /\ UNCHANGED <<conn, data, logs, uninstalled>>

\* It dies during runPurge, at the interval or at boot: the logs are purged
\* but only some of the shops are, each of them completely.
CrashInPurge ==
    /\ up => sincePurge = Period
    /\ \E gone \in SUBSET Expired(conn) :
         PurgeShops(gone, PurgeExpiredSyncLogs(logs))
    /\ up' = FALSE
    /\ request' = [r \in Requests |-> Null]
    /\ sincePurge' = 0
    /\ UNCHANGED uninstalled

\* Tokens written under a replaced TOKEN_ENCRYPTION_KEY stop decrypting.
UnderNewKey(row) ==
    IF row # Null /\ row.idoxxyToken = "readable"
    THEN [row EXCEPT !.idoxxyToken = "unreadable"]
    ELSE row

\* Seeded fault: the scheduler waits for its first interval.
BootWithoutPurge ==
    /\ ~up
    /\ \E newKey \in BOOLEAN :
         conn' = IF newKey THEN [s \in Shops |-> UnderNewKey(conn[s])] ELSE conn
    /\ up' = TRUE
    /\ sincePurge' = 0
    /\ UNCHANGED <<data, logs, request, uninstalled>>

\* index.ts: startDataRetentionScheduler purges before the first request can
\* be served.  The key is read from the environment of the new process.
Boot ==
    /\ ~up
    /\ \E newKey \in BOOLEAN :
         LET kept == [s \in Shops |->
                        IF s \in Expired(conn) THEN Null ELSE conn[s]]
         IN  conn' = IF newKey THEN [s \in Shops |-> UnderNewKey(kept[s])] ELSE kept
    /\ data' = [s \in Shops |-> data[s] /\ s \notin Expired(conn)]
    /\ logs' = [s \in Shops |-> IF s \in Expired(conn) THEN {}
                                ELSE PurgeExpiredSyncLogs(logs)[s]]
    /\ up' = TRUE
    /\ sincePurge' = 0
    /\ UNCHANGED <<request, uninstalled>>

Older(a) == IF a = Null THEN Null ELSE IF a < MaxAge THEN a + 1 ELSE MaxAge

AgedRow(row) ==
    IF row = Null THEN Null ELSE [row EXCEPT !.revokedAt = Older(@)]

\* Time passes.  While the process runs, the interval bounds how much of it
\* passes between two purges.
Tick ==
    /\ up => sincePurge < Period
    /\ conn' = [s \in Shops |-> AgedRow(conn[s])]
    /\ logs' = [s \in Shops |-> {Older(a) : a \in logs[s]}]
    /\ uninstalled' = [s \in Shops |-> Older(uninstalled[s])]
    /\ sincePurge' = IF up THEN sincePurge + 1 ELSE sincePurge
    /\ UNCHANGED <<data, request, up>>

---------------------------------------------------------------------------
ShopStep(s) ==
    \/ Install(s) \/ Uninstall(s) \/ UninstallUnnamed(s)
    \/ IframeEntry(s) \/ BackfillLicense(s)
    \/ DeleteLink(s) \/ SaveSettings(s) \/ ResolveShopClient(s)
    \/ WebhookRefused(s) \/ WebhookStopped(s)

RequestStep(r) ==
    \/ \E s \in Shops : \/ LinkStart(r, "linkTest", s)
                        \/ LinkStart(r, "link", s)
                        \/ WebhookStart(r, s)
    \/ LinkTestAccepted(r) \/ LinkAccepted(r) \/ LinkRejected(r)
    \/ WebhookDone(r) \/ WebhookUnauthorized(r) \/ WebhookUnauthorizedGone(r)

Next ==
    \/ \E s \in Shops : ShopStep(s)
    \/ \E r \in Requests : RequestStep(r)
    \/ Purge \/ Crash \/ CrashInPurge \/ Boot \/ Tick

Spec == Init /\ [][Next]_vars

(***************************************************************************)
(* Fairness: the clock and the interval timer run, the platform restarts a *)
(* dead process, and a waiting handler gets an answer or a timeout.        *)
(* Nothing a shop, a merchant or Shoper does is fair.                      *)
(***************************************************************************)
Completes(r) ==
    \/ LinkTestAccepted(r) \/ LinkAccepted(r) \/ LinkRejected(r)
    \/ WebhookDone(r) \/ WebhookUnauthorized(r) \/ WebhookUnauthorizedGone(r)

Fairness ==
    /\ WF_vars(Tick) /\ WF_vars(Purge) /\ WF_vars(Boot)
    /\ \A r \in Requests : WF_vars(Completes(r))

FairSpec == Spec /\ Fairness

---------------------------------------------------------------------------
(* Safety.                                                                 *)

Revoked(s) == HasRow(conn, s) /\ conn[s].status = "revoked"

\* A revoked shop has no token of any kind left, whatever was awaiting an
\* answer when it was uninstalled (revokeAndWipeTokens).
RevokedHasNoTokens ==
    \A s \in Shops : Revoked(s) =>
        conn[s].idoxxyToken = Null /\ conn[s].shoperTokens = Null

\* The stamp the grace period counts from is that of the LAST uninstall that
\* reached the row, and no installation came after it: the merge of upsert, which keeps an old
\* revoked_at through every reinstall, never leaves it under a revoked status.
RevokedStampFresh ==
    \A s \in Shops : Revoked(s) =>
        conn[s].revokedAt # Null /\ conn[s].revokedAt = uninstalled[s]

\* No shop stays revoked longer than the grace period and one interval while
\* the process runs, and none survives a boot past its grace period.
RevokedNotOverdue ==
    \A s \in Shops : up /\ Revoked(s) => conn[s].revokedAt < Grace + sincePurge

\* The same for the customer e-mail addresses in the logs of every shop,
\* connected or not.
LogsNotOverdue ==
    \A s \in Shops : up => \A a \in logs[s] : a < Retention + sincePurge

Erases(s) == conn'[s] = Null /\ ~data'[s] /\ logs'[s] = {}

\* A shop's settings disappear only when its last uninstall is at least the
\* grace period ago and nothing was installed since.  They and its row go with
\* everything the shop has, even if the process dies during the purge; only an
\* operator's unlinking takes the row and leaves the rest (purgeOneShop,
\* DELETE /settings/link/:shopId).
ErasedOnlyAfterGrace ==
    [][\A s \in Shops :
          /\ data[s] /\ ~data'[s] => /\ uninstalled[s] # Null
                                     /\ uninstalled[s] >= Grace
                                     /\ Erases(s)
          /\ HasRow(conn, s) /\ ~HasRow(conn', s) => Erases(s) \/ DeleteLink(s)]_vars

\* A log younger than the retention window disappears only with its shop.
YoungLogsKept ==
    [][\A s \in Shops :
          (\E a \in logs[s] : a < Retention /\ a \notin logs'[s] /\ Older(a) \notin logs'[s])
          => conn[s] # Null /\ conn'[s] = Null /\ ~data'[s]]_vars

WebhookEnds(r) ==
    up' /\ request[r] # Null /\ request[r].kind = "webhook" /\ request'[r] = Null

\* A webhook that got as far as calling iDoxxy leaves a log when it ends, as
\* long as the shop still has its connection.
AuditWhileConnected ==
    [][\A r \in Requests :
          WebhookEnds(r) /\ HasRow(conn, request[r].shop) => 0 \in logs'[request[r].shop]]_vars

(***************************************************************************)
(* Liveness.                                                               *)
(***************************************************************************)

UninstallCallback(s) == Uninstall(s) \/ UninstallUnnamed(s)

Returned(s) == HasRow(conn, s) /\ conn[s].status \in {"installed_not_linked", "linked"}

\* A webhook that started before the uninstall and may still be answered 401.
WebhookWaits(s) == \E r \in Requests : Pending(r, "webhook") /\ request[r].shop = s

\* A revoked shop is installed again or its row goes - erased with all the
\* rest, or unlinked, see ErasedOnlyAfterGrace - however often the process
\* crashes (runPurge at boot and at every interval).  Two cases are excused:
\* Shoper repeats the uninstall callback for ever, each of which restarts the
\* grace period; and a webhook is still waiting, whose 401 would make the shop
\* token_invalid, which no purge selects (handleAuthError).
RevokedIsErased ==
    \A s \in Shops :
        \/ []<><<UninstallCallback(s)>>_vars
        \/ Revoked(s) /\ ~WebhookWaits(s) ~> Returned(s) \/ ~HasRow(conn, s)
=============================================================================
