# Shoper – iDoxxy integration: TLA+ models, checks and proofs

The program is a Node server between Shoper shops and iDoxxy. A shop installs
the app, an operator or the merchant links it to an iDoxxy workspace, Shoper
sends webhooks about customers and orders, and the server puts customers into
iDoxxy groups. It keeps tokens, settings and logs in SQLite, sessions in the
same database, and rate limits and a groups cache in memory.

Everything runs in one process on one event loop, and `better-sqlite3` is
synchronous. A handler is therefore atomic between two `await`s and anything
may happen at one. That is how every module here is cut into actions: a handler
that awaits is a start action, one completion for each outcome, and a slot
(`Requests`, `Handlers`) that holds what it read before the `await`.

Paths below are relative to the repository's `src/` directory, unless they
begin with `app_description.md` or `tests/`, which lie beside it.

## 1. Inventory

| Component | State | Operations | Interacts with | Hard behaviour | Correct if |
|---|---|---|---|---|---|
| Shop connections (`repositories/shopConnectionRepository.ts`, `services/shopConnectionService.ts`) | the row of a shop: status, tokens, URL, license, `revoked_at` | register, link, save Shoper tokens, record license, revoke and wipe, mark `token_invalid`, decode token, delete | every route | the merge of `upsert` keeps columns it is given `null` for; a token that no longer decrypts | a revoked row has no token and the stamp of its last uninstall |
| Lifecycle routes (`routes/settings.ts`, `routes/install.ts`) | none of their own | install, uninstall (two routes), iframe entry, license backfill, link test, link, unlink, settings forms | connections, sessions | link requests that await iDoxxy while the shop is uninstalled | the callbacks win over late answers |
| Webhooks (`routes/webhooks.ts`) | none of their own | customer-created, order-created, order-paid | connections, settings, iDoxxy client | two awaits, error paths that write, a connection that goes away meanwhile | an outcome is logged; a 401 marks the connection |
| Retention (`services/dataRetentionService.ts`, `index.ts`) | an interval timer | purge logs, purge uninstalled shops, at boot and every 24 h | all tables | crash between two shops, restarts, boundaries | nothing too early, nothing too late |
| Settings store (`repositories/settingsRepository.ts`) | settings, mappings, sync logs | save, add log | routes, webhooks, retention | rows without a connection | erased with their shop |
| Rate limiter (`middleware/rateLimit.ts`) | a Map of buckets | a request, the sweep | every route | window boundaries, the sweep against the window | a fixed-window limiter, in bounded memory |
| Groups cache (`services/customerGroupsCache.ts`, `customerGroupsService.ts`, `routes/customerGroups.ts`) | a Map of lists with expiry | read, fill, bulk assignment and invalidation | iDoxxy client | a fill that overtakes an invalidation; a customer the capped search misses | never another shop's groups, never older than promised, no old groups after an assignment |
| Sessions (`services/sessionStore.ts`, `middleware/shopSession.ts`, `middleware/auth.ts`, `routes/auth.ts`) | a table of sessions, copies in requests | load, set, touch, destroy, login, logout, establish a shop's session, csrf, sweep | every route of the panel | concurrent requests with one cookie; stale copies; expiry | a session speaks for the shop that proved itself |
| Group assignment (`clients/idoxxyClient.ts`, `services/idoxxyService.ts`, `routes/idoxxyAdmin.ts`) | none; iDoxxy's customers and groups are outside | find or create a customer, add to and remove from groups, retry | webhooks, panel | read-and-write-back of whole lists, lost and late calls, one of several failing | only the right customers enter, nobody drops out unasked |
| Token encryption (`services/tokenCrypto.ts`) | a key | encrypt, decrypt, recognise legacy forms | connections | a changed key | the shop is asked to link again |
| Shop identity (`routes/install.ts`, `routes/settings.ts`, `routes/webhooks.ts`) | none of its own: which row stands for which shop | look up by address, number, license or session; name a new row | connections, sessions | ids worked out differently by each route, look-ups at the shop that fail, a session another shop opened | what a shop sends and does reaches its own account or none, but where two shops meet in one id or session |
| Group rules (`repositories/settingsRepository.ts`, `routes/adminIdoxxy.ts`, `routes/webhooks.ts`) | rules, default groups, key and base URL of a shop | four forms that save, the choice of a rule, the log of a delivery | connections, webhooks | forms with their own ideas of an empty value, ties, rules that make a webhook throw | the most urgent rule that applies decides; nothing leaves its shop |
| Operator accounts (`repositories/userRepository.ts`, `routes/auth.ts`) | a table of accounts | rotate, look up, create at a start; change a password | environment, sessions | statements that commit one by one, a new environment at every start | no default password in production, nobody else's overwritten |
| Documents and e-mail (`routes/webhooks.ts`, `routes/idoxxyAdmin.ts`, `services/emailService.ts`) | what has been mailed, in the world | pick, assign, look up links, mail | iDoxxy client, mail provider | any of many calls failing, documents edited meanwhile | nobody is mailed a document twice, and the panel is told who was |
| API clients' tokens (`clients/idoxxyClient.ts`, `clients/shoperClient.ts`) | a cached token with its expiry | fetch, use, retry | all callers of the clients | concurrent fetches, slow answers, attempts half a minute apart | no attempt carries an expired token |
| Schema and migrations (`config/database.ts`) | the database file | create, add columns, rebuild, backfill | all tables | a crash between any two statements | legacy rows are adopted whole, once, and nothing is served before |
| Recent installs, signatures, mock admin routes, wiring | little | | | none that needs a model | |

Components interact through the database (connections, settings, logs and
sessions), by direct calls (routes to services to the client), through timers
(retention, session sweeper, limiter sweeper), and with Shoper and iDoxxy over
HTTP, where calls may be lost, repeated and late.

## 2. Plan

In the order of importance, with its state:

1. `ShopConnections`, `ShopLifecycle`, `ShopLifecycleProofs` - the life of a
   shop and its erasure. Done.
2. `FixedWindow`, `RateLimiter`, `RateLimiterProofs` - the limiter, an abstract
   specification of what it promises, and the refinement. Done.
3. `GroupsCache`, `GroupsCacheProofs` - bounded staleness. Done.
4. `Sessions`, `SessionsProofs` - stale copies of sessions. Done.
5. `GroupSync`, `GroupSyncProofs` - what the handlers do at iDoxxy. Done.
6. `LegacyRows`, `Migrations`, `StartProofs` - a start over an old or
   half-migrated file, and the abstract specification it implements. Done.
7. `ShopIdentity`, `CredentialProofs` - which row is whose. Done.
8. `GroupRules`, `RequestProofs` - what is configured, what a webhook makes of
   it, what is logged. Done.
9. `ClientTokens`, `CredentialProofs` - tokens that last as long as a call.
   Done.
10. `Documents`, `RequestProofs` - partial failures of a dispatch. Done.
11. `Accounts`, `StartProofs` - passwords across starts. Done.

Open, in this order: an abstract session store that `Sessions` implements up to
the revival described in section 7, and the proof of it; a composition of
`GroupSync` and `GroupsCache`, with the cache in front of groups that
overlapping read-and-write-backs change, in place of changes from nowhere.

Modules are written so that they can be proved about: constants with named
assumptions, one action per operation, recursion nowhere. `Accounts`,
`ClientTokens` and `Documents` begin the names every specification has with
their own (`AccountsSpec`, `TokensInit`): a proof module extends each of them
together with another component's.

## 3. Modules and the code

`PROJECT.json` maps every definition to its lines. In outline:

**`ShopConnections`** has one operator per repository or service operation,
from table to table (`RegisterInstallation`, `SaveLink`, `RevokeAndWipeTokens`,
`MarkTokenInvalid`, ...). `Merge` is the `COALESCE` of `upsert`. Tokens are the
forms that decryption tells apart. An operation whose row is missing throws in
the code; callers show that as a guard or an error action.

**`ShopLifecycle`** has one action per route or handler. Waiting handlers sit
in `request`; `LinkAccepted`, `WebhookDone`, `WebhookUnauthorized`,
`WebhookUnauthorizedGone` and the others are the ways an `await` ends. `Purge`
is `runPurge` as a whole, `CrashInPurge` the process dying after some of the
shops' transactions, `Boot` a start with its immediate purge and perhaps with
another encryption key. Time is in ticks; stamps are ages that saturate at
`MaxAge`.

**`FixedWindow`** says what a fixed-window limiter promises without saying how
it remembers. **`RateLimiter`** has the Map, the request handler with its tests
in their order, and the interval that sweeps. `ImplementsFixedWindow` maps a
bucket to the open window. Both carry `life`, a bit that a restart flips and no
other step does: without it a sweep that lost open windows would pass for a
restart.

**`GroupsCache`** has entries with ages, reads that ask iDoxxy (`ReadStart`,
`ReadAnswered`, `ReadDone`), the bulk assignment with its invalidation,
failures before and after iDoxxy applied an update, and changes by others. A
read that hits is not an action; what it returns is `Served`. The client looks
for a customer by a search and then on ten pages of fifty at most, read one
after the other: `ReadAnswered` is the moment at which one of these names the
customer, or all its workspace's customers were on them and it was not;
`ReadMissed` is an existing customer that none of them named, whose absence is
cached as the empty list. `since` says how long ago a list was last true, or an
empty one last told; `seen` what reads could be told of a customer since its
last successful assignment.

**`Sessions`** has rows with ages and the copies that requests hold. `Upsert`,
`Touch`, `Reclaimed`, `Destroy` and `Sweep` are the store's `set`, `touch`,
`get`, `destroy` and sweeper; `Establish` is `establishShopSession` with the
regeneration of the id; an iframe entry that proves a shop is one, too.

**`GroupSync`** has iDoxxy's customers and groups, handlers of four kinds
(webhook, set, bulk add, bulk remove), a job per group (`ReadGroup`, then
`WriteGroup` with the whole list), `CallLost` and `JobLost` for calls without
an answer - applied, not applied, or applied later (`LateArrives`) - repeated
up to `MaxRetries`, refused calls, and a crash. `FindGroups` is the same capped
search: `found` says whether it named the customer, and if not the handler goes
on with no groups (`CurrentGroups`).

**`ClientTokens`** is `getAccessToken`, `fetchToken` and `requestWithRetry`
with time: what is left of every token and how long every call has been waited
for. A request takes its token once, for all its attempts. One module stands
for both clients; the Shoper client has one attempt.

**`Documents`** has both dispatches, one action per call: the list, an
assignment, the look-up of links, a letter (one per document with SendGrid, one
for all otherwise). Most failures are caught on the spot and what follows is
the same; where they are not, they have an action (`ListFails`,
`SkipCustomer`). `EditDocuments` changes documents at any time. A letter may go
out although its call failed.

**`ShopIdentity`** has one action per route that finds or makes a row. A row is
reduced to what it is found by and the account it is linked to; the order of
`created_at` is kept, because look-ups take the newest. Sessions belong to
cookie jars (`Jars`) and not to shops: any shop may enter or link under the
session that the jar it is opened in holds (`BackfillLicense`, `Link`), and
then writes its license or its account on that session's row. In production the
cookie is partitioned (`app.ts:144`), so that panels embedded in two shops have
two jars; installations end at the top level, where the jar is one, as it is in
browsers that do not partition and outside production. The history
`session[b].shop` is the shop whose proof opened the session, `crossed` the ids
of sessions another shop has worked under.

**`GroupRules`** has `event_mappings` and `settings` with every form that
writes them, `ResolveMappingGroups` with its conditions and its ways of
throwing, and the deliveries around their `await`: refused, thrown, pending,
answered, and what each leaves in `sync_logs`.

**`Accounts`** is `bootstrapAdminAccount` statement by statement (`CreateApp`,
the rotation, the look-up, the `INSERT`), with a crash between any two and
another environment at every boot, and the change of a password by its owner.

**`Migrations`** is `initDatabase` as a script of statements. Each statement
commits by itself, except those of the rebuild of `settings`, which run on the
connection's view `db` and reach `disk` with `CommitSettings`. `Start` runs it
over a new file, one of an older release, or what a crash has left; while the
process serves, shops come, go and write rows. **`LegacyRows`** says what this
is for without naming a statement: the rows without an owner of one table get
theirs together, and nothing is served before all have one. `Adopts` maps a
table to its rows on disk.

Definitions marked as seeded faults are what a plausible slip in the code would
look like. Each property has one that breaks it (`mutants` in `PROJECT.json`).

## 4. Runs

| Run | Instance | Shows |
|---|---|---|
| `lifecycle` | 1 shop, 2 waiting handlers, grace 3, retention 1, interval 2 ticks | no token in a revoked row, the stamp is that of the last uninstall, nothing revoked and no log overdue, erasure after the grace period and total, young logs kept, a webhook's outcome logged; a revoked shop that no webhook is waiting for is installed again or loses its row, also across crashes |
| `limiter` | 2 clients, limit 2, window 5, a second of 2 ticks, sweep every 3 | refinement of `FixedWindow`, at most twice the limit in any window, a `Retry-After` that is kept, buckets reclaimed |
| `cache` | 2 shops with a common customer id, 1 group, 2 handlers, time to live 2, waiting time 1 | what is served is the shop's own and was true, or empty because a search had missed the customer, less than `TTL + Wait` ago; nothing from before an assignment is served after it succeeded, but for what a read had been told by then |
| `sessions` | 2 ids, 2 shops, 1 operator, 2 requests, expiry and sweep 1 tick | a session keeps its shop, live sessions and their operators are kept, only a request under way revives one; expired rows are swept or used again, unless the process keeps dying within the hour |
| `groupsync` | 1 e-mail, 3 ids, 1 group, 2 webhooks, 2 attempts, 1 late call | only customers asked for are members, first members stay, a reported success is true |
| `groupsync_panel` | 1 handler at a time of any kind, 1 e-mail, 1 id, 2 groups, 2 attempts | a set that succeeds leaves the customer in the groups it named, and in no others if the customer had been found; every handler answers |
| `client_tokens` | 2 requests, 3 tries; in steps of 5 s: margin 12, time-out 2, pause 1, tokens of 12, 13 and 15 | no attempt that is waited for carries an expired token |
| `shop_identity` | 2 shops, 3 ids, 2 addresses, 1 jar that both shops share; the first shop has two possible ids, the second the first's number in its address; at most one id with a crossed session | panel and webhooks reach the shop's own account or none, but for ids that both shops can be and ids whose session another shop has used |
| `rules` | 1 shop, 2 rules, 2 priorities, 1 delivery, one field with four values | the groups are those of the most urgent rule that applies, and an answer is logged |
| `documents` | SendGrid; 2 documents, 2 groups, 2 customers, 1 request | nobody is mailed a document twice, the panel's answer is complete |
| `accounts` | 3 accounts, 3 names, 2 strong passwords, 1 change at a time | the default password is gone in production, the configured administrator is there, own passwords are kept |
| `migrations` | 2 shops, 1 row per table and owner | every start serves complete data, with one heir; refinement of `LegacyRows`; a start left alone comes up |

Runs with liveness use no symmetry. The type invariants of all eleven
components are theorems (`TypeCorrect`, `AccountsTyped`, `DocumentsTyped`,
`TokensTyped`); the run of `Migrations` checks its own, too. That a dispatch of
documents or a call of a client ends is not stated: the loops are over finite
lists, and every call has a time-out. Forms that leave a field empty are in
`GroupRules` (`Given`), without a property: what they may not write is their
guard.

**Why the bounds are enough.** Shops share no rows, and what one shop's
handlers do does not read another's: one shop stands for all, except in
`cache`, `sessions`, `shop_identity` and `migrations`, which are about mixing
two up and have two. Two waiting handlers meet in every order, and what a third
could add is another change of the row between the other's `await`s, which the
routes without an `await` already make. The windows of `lifecycle` are one
longer and one shorter than its interval, and restarts shift the timer, so that
every boundary falls both on a tick of a timer and between two. The limiter's
window of 5 is not a multiple of its second or its sweep. With an expiry of one
tick a session is fresh or expired, which is all the store asks. Two attempts
are the least at which a call is both repeated and given up. `client_tokens`
has three attempts, as the code does, and its grain of 5 s divides the margin
and the time-out; a back-off of under a second is rounded up to a step, which
takes from the slack. Two rules suffice for one to precede, hide, or break the
other, in every order of two priorities and of a tie; what a third does is what
the second does to the one after it. Three accounts can be the configured one,
one with the default password and one with the name in the way. In `documents`
a document is for one of the groups, for both, for nobody or gone, and
customers are in any of them; the other provider, with one letter for all
documents, is covered by the theorems. The script of `migrations` is the code's
own, in full. The theorems of section 6 remove the bounds for the properties
they name.

In `shop_identity` the constraint `OneCrossing` stops a behaviour once a second
id has had a session another shop used: the properties except such ids one by
one, and one is enough to see whether it spreads to the two others. The shared
jar is the worst case: with a jar for each shop there is no crossing at all.
`PanelOwnAccount` and `WebhooksOwnAccount` say nothing of an id that is
`Contested` - two shops can be worked out to have it - or `crossed`: there the
code does mix two shops up (section 7). What they say is that it stops there,
that is, that in whatever order contested and crossed rows are made, no row
with an id of one shop's alone is ever linked to another's account.

`SyncedStaysIn` is checked with one e-mail, because with two it does not hold
(section 7, overlapping writes); `SetTakesEffect` needs a single writer for the
same reason. Neither is claimed beyond that: the theorems about them have these
conditions as hypotheses, and no other bound. `SetTakesEffect` claims the named
groups always, and the absence of others only when the capped search named the
customer. `InvalidationHolds` lets a read that was answered before an
assignment succeeded fill the cache after it; `StaleAtMost` bounds how long
such a list lasts. `RevokedIsErased` says that the row goes, and
`ErasedOnlyAfterGrace` that a row goes with everything of its shop unless it is
unlinked. That a rule keeps its shop is `Upsert`'s guard; with one shop it is
not exercised. Webhooks and panel operations that overlap are covered by the
theorems about `GroupSync`.

No run switches the deadlock check off.

## 5. Fairness

- The clock (`Tick`) and the timers (`Purge`, `Sweep`) are weakly fair:
  `setInterval` on a process that is not blocked. A tick does not pass a timer
  that is due.
- `Boot` is weakly fair: `docker-compose.yml` restarts the container.
- The end of a waiting handler is weakly fair: each call has axios's timeout of
  10 s and at most three attempts. A handler may wait over several ticks, which
  is longer than the code allows and only adds behaviours.
- `Migrations`: the statements, `Listen` and `Start` are weakly fair: the
  process runs its script without waiting for anyone, and `restart:
  unless-stopped` starts it again. `ComesUp` excuses crashes for ever.
- Nothing a shop, a merchant, an operator, Shoper or iDoxxy does is fair, and
  no crash is. `RevokedIsErased` therefore excuses uninstall callbacks repeated
  for ever (each delivery restarts the grace period), `ExpiredReclaimed`
  crashes for ever. `RevokedIsErased` starts when no webhook of the shop waits
  any more; none can start while the shop is revoked, and waiting ones end.

## 6. Proofs

TLAPS proves the following for every value of the constants that the named
assumptions (`RetentionAssumption`, `MaxAgeAssumption`, `LimiterAssumption`,
`SessionAssumption`, `SyncAssumption`, `CacheAssumption`, `TokensAssumption`,
`MarginAssumption`, `DocumentsAssumption`, `AccountsAssumption`,
`OwnersAssumption`, `IdentityAssumption`, `GroupRulesAssumption`, and those
that keep `Null` or `None` apart from records and numbers) allow. TLC evaluates
each in every run of its module.

**Shop lifecycle.** `IInv` is the type invariant with `RevokedHasNoTokens`,
`RevokedStampFresh`, `RevokedNotOverdue` and `LogsNotOverdue`. Handlers call
several repository operations in a row, so the lemmas are about a relation
`Preserves(table, next)` on tables: what an operation may do to a row without
harm. It is reflexive on clean tables and transitive; each operation gets one
lemma, and a handler's proof composes them. Uninstalls, purges, boots and
ticks, which move stamps or ages, have proofs of their own.
`ErasedOnlyAfterGrace` follows as an action property: `RevokedStampFresh` is
needed to know that the stamp the purge compares is the last uninstall's, and a
second relation, `Keeps`, that no operation but the deletion of a row loses
one: a row that goes was purged with everything else, or unlinked.
`YoungLogsKept` goes through the ways a step may change a shop's logs: older by
a tick, one more, without those past the window, or gone with the shop.
`AuditWhileConnected` follows from the ways a webhook's slot is emptied: each
writes its log, or finds the connection gone, or is a crash.

**Rate limiter.** `IInv` has the types of the Map and its interval, `Counting`
(a bucket has counted the request that made it, so an open window has taken
one) and `StaleReclaimed`, without which a tick could pass the cap on ages.
From it every step of the Map maps to a step or a stutter of `FixedWindow`
(`Refinement`), and `StaleReclaimed` holds. `TInv` adds the histories: what
passed in the last ticks is at most what the open window has taken, as long as
they reach no further back than that window does, and at most one limit more if
they do (`PassedCounted`): a window just before an open one lets the limit
through at most. `AtMostTwiceTheLimit` follows. A client was told to wait at
least as long as the window that refused it lasts (`PromiseKept`), which rests
on a lemma about rounding up to seconds.

**Groups cache.** An entry was true when its read was answered, at most one
wait before it was written (`EntriesTrue`); an answered read was true since it
began (`ReadsTrue`). Both need `NowIsNow`, that the histories call the present
present. `ServedIsRecent` follows, for any list a search may have given up
with. `InvalidationLasts` is an invariant of its own (`AllSeen`): every entry,
every answer under way and the truth are among what reads could be told since
the customer's last successful assignment.

**API clients' tokens.** `MarginAssumption` says that the margin covers the
answer that brought a token and all attempts with their pauses; with the code's
numbers, 60 s against the answer's 10 s and three times 10 s and their pauses.
`CacheGood` says how much longer than its expiry date a cached token is valid,
`TokenGood` that the token in hand lasts for the attempts still left (`Spare`).
`TokensLast` is its special case for an attempt under way.

**Documents.** `Good` relates what a request has mailed to its local variables:
to each customer only documents picked for their groups, nothing yet to those
whose turn is to come, nothing yet of what is left of the current loop, so that
no letter can repeat a document (`NothingTwice`). `ResultsOK` adds the panel's
answer: whoever was mailed is reported as sent or still being served
(`AnswerComplete`).

**Group rules.** The rules of all shops are finitely many, however many ids
there may be (`RulesFinite`): that is what makes an order of the candidates a
sequence with each of them once, and `Len` a number. `VerdictMeans` says that a
rule applies exactly when the look at its conditions ends at none of them,
`ResolveIs` that the first rule that is not passed by decides, `FirstHalt` that
no rule that applies precedes it, for it would have halted the look-up.
`MostUrgentRule` is put together from these. The logs need `NotYetLogged`: no
delivery has a row in `sync_logs` before it is answered.

**Shop identity.** A row is told what it knows by its shop: whose account,
license or address it holds, its id is one of the ids that shop can be worked
out to have, or an id whose session another shop has used (`May`, `RowsOwned`);
an open session's id is one of those of the shop that opened it, or such an id
too (`SessionsOwned`). `crossed` only grows, so what a row may hold it may hold
for good. `PanelActsForItself` and `WebhooksActForSender` follow for any shops,
ids, addresses and jars, without a hypothesis: shops that share ids are
excepted id by id (`Contested`), not excluded.

**A start.** A statement, once executed, has left its table, columns, indexes
or owners for good (`ScriptDone`, `ExecutedStays`), also on the disk a crash
falls back to; the file alone, with no transaction open, never shows
`settings_new` or a column without its values (`Sound`); within the rebuild the
connection's view differs from the disk in `settings` and nowhere else
(`InTxOK`); and all rows given away so far went to one owner, who is the one a
look-up would find now, as long as any row is left to give (`HeirsOK`).
`Refinement` maps the backfills and the commit of the rebuild to `Adopt` and
every other statement to a stutter.

**Accounts.** In production, an untouched active account with the default
password is on the list of the rotation under way, or no process is serving
(`DefaultsListed`); the rotation lists nothing else (`LegacyIsDefault`);
changes under way are of accounts that exist (`ChangesServed`).

**Sessions.** `IInv` adds to the type invariant and `ShopIsEstablished` that a
request without a session holds the blank data. The action properties
`LiveKept`, `OperatorKept` and `RevivedInFlight` follow step by step.

**Group assignment.** `MembersAskedFor` and `FirstMembersKept` are not
inductive: the lists that will be written later are in handlers and on the
network. `IInv` says of every list - at iDoxxy, read by a job, or in a late
call - that it is `Sound`: it has whoever must stay and nobody unasked; of
every job that what it adds was asked for and what it removes was unwanted; and
that jobs belong to a handler that has come to them (`Owned`). What lists are
judged by only grows (`GrowsTo`), so what is sound stays sound, and `StepKeeps`
reduces each action to what it adds. The theorems hold for any number of
handlers of all four kinds, any number of attempts and of late calls.

That a success means what it says is true of some mixes of handlers only, and
the two theorems about it say which. `SyncedStays` is about webhooks alone, all
of one customer (`OneCustomer`), any number of them at once and of calls
repeated or late: every list on its way has a customer with that e-mail, and so
has every group that a handler with no failed job is through with (`Held`).
Another customer's webhook, or the panel, would write a list without it.
`SetsAsNamed` is about one request at a time with no late call (`NobodyElse`):
in each group the customer is where the request wants it or has a job that will
put it there (`InPlace`), whether or not a lost write of its own was applied;
in a group the request did not name, only if the search named the customer.

**Only model-checked:** every liveness property (`RevokedIsErased`,
`ExpiredReclaimed`, `Answered`, `ComesUp`), out of the prover's reach as is
`ENABLED`. Every safety and action property that a run checks is a theorem.

## 7. Where the code and its documents differ

All of these are behaviours of the models, met while modelling; the named
actions produce them. The properties of section 4 are those that hold in spite
of them.

- A webhook that waits for iDoxxy while the shop is uninstalled, and is then
  refused with 401, turns `revoked` into `token_invalid`
  (`routes/webhooks.ts:265`, `WebhookUnauthorized`). The purge selects revoked
  rows only, so the shop is never erased, against
  `services/dataRetentionService.ts:13-18`. `RevokedIsErased` excuses a shop
  that such a webhook waits for, and claims erasure from the moment none does.
- Unlinking deletes the connection row alone (`routes/settings.ts:655`,
  `DeleteLink`). An uninstall after it matches nothing, and the settings and
  mappings stay for ever, against the same comment.
- A request that loaded a session before it was replaced inserts it again when
  it ends (`services/sessionStore.ts:133`, `Touch`), against
  `middleware/shopSession.ts:114`. What comes back is the old session with its
  old shop, so `ShopIsEstablished` is not affected; `RevivedInFlight` says that
  nothing else brings one back.
- Two handlers that add customers to one group at once: the later write drops
  the earlier's customer, and both report success
  (`clients/idoxxyClient.ts:426`, `WriteGroup`), against
  `tests/customer-profile-and-bulk.test.ts:206`. Those who were there before
  both are kept; that is `FirstMembersStay`.
- The first digits in a webhook's domain are looked up as a shop id
  (`routes/webhooks.ts:219`, `FoundByNumber`), so a shop whose own domain
  contains another's id is handled under that one's rules and account, against
  `routes/webhooks.ts:255-257`. `Contested` excepts that id from
  `WebhooksOwnAccount`.
- A verified entry with a session open writes the license it was verified for
  on the row of that session, whichever shop opened it
  (`routes/settings.ts:357-362`, `BackfillLicense`), and the panel then works
  for that row; a later entry of the shop without a session finds the other's
  row by its own license, and linking there puts its account on it. The comment
  at `routes/settings.ts:358-360` thinks of shops that installed earlier, whose
  own session it would be. `crossed` excepts the ids this happened to from both
  properties.
- `getCustomerGroups` looks through ten pages of fifty customers at most, read
  one after the other (`clients/idoxxyClient.ts:396-419`): an existing customer
  beyond them, or moved between them, counts as unknown. The cache then serves
  `[]` for a customer that has groups (`services/customerGroupsService.ts:30`,
  `ReadMissed`), and `PUT /customers/:id/groups` removes the customer from
  nothing and answers ok (`routes/idoxxyAdmin.ts:213`, `FindGroups` with
  `found` false). `StaleAtMost` and `SetTakesEffect` name the case.
- An installation that gets no answer from application-info names its row after
  the address, one that does after the id (`routes/install.ts:87`, `Install`);
  a shop can have both, against `app_description.md:29`.
- A verified entry with a license nobody has recorded makes a connection and
  gets a session (`routes/settings.ts:337`, `IframeEntry` of `ShopIdentity`),
  against `app_description.md:39`; `tests/iframe-entry-session.test.ts:374`
  expects what the code does.
- `POST /settings/mappings` strips the fields of conditions
  (`routes/settings.ts:75`, `SavePanelMapping`), and a rule stored so makes
  every webhook of its event throw before it logs (`Throw`), against
  `app_description.md:119`. `LoggedUnlessGoneOrStripped` is what holds.
- A deactivated account with the configured name makes every start fail on
  `UNIQUE` (`repositories/userRepository.ts:202`, `FailToCreate`), against
  `tests/admin-bootstrap.test.ts:328`, whose account has another name.
- If the connection was deleted while a webhook waited and iDoxxy answers 401
  or 403, `handleAuthError` throws before the log is written
  (`WebhookUnauthorizedGone`); `app_description.md:119` promises a full audit
  trail. `AuditWhileConnected` is what holds.
- An uninstall callback does not find a connection that an iframe entry created
  without a URL (`Uninstall`, when `shopUrl` is `Null`);
  `app_description.md:73-74` says the tokens are wiped.
- An iframe entry with a license nobody recorded calls `registerInstallation`
  and puts a linked shop back to `installed_not_linked` (`IframeEntry`);
  `routes/settings.ts:292-297` says it leaves things as they were.
- Saving groups through `PUT /admin/idoxxy/settings` puts the stored base URL
  back to its default (`SaveSettings`); only the health check reads it.
- A customer is reported as sent whatever `sendDocumentsEmail` returns
  (`routes/idoxxyAdmin.ts:362`), and when no document has a link;
  `ResultsComplete` claims no letter for a customer reported as sent.
- `app_description.md:78` says that the limiter is swept hourly; the code
  sweeps every five minutes (`middleware/rateLimit.ts:183`). Nothing depends on
  it.

## 8. Assumptions and what is left out

- In `ShopLifecycle`, a shop's identity in a URL, a Referer or a signed request
  is its own, and a shop whose URL is on record is found by it; how it is
  found, and under whose session, is `ShopIdentity`'s. There, shops share no
  address; a shop id in a webhook's header or body, which the code takes at its
  word, and the look-up by Origin and Referer are no actions; handlers that
  await are one step.
- Which of several connections without a URL an uninstall would match is
  over-approximated.
- The cache's key is injective: ids hold no separator.
- SQLite writes succeed or the process dies; a statement that fails is not
  modelled, except the `INSERT` that collides in `Accounts`. In `Sessions` an
  operator's deactivation is nondeterministic.
- iDoxxy's customers and groups change only through the handlers in
  `GroupSync`, and freely in `GroupsCache`. Fetching an OAuth token is part of
  the call that needs it; `ClientTokens` has it apart. That the search for an
  e-mail address misses a customer beyond its first page of 20 hits is not
  modelled; that the search for a customer's groups does, is. A handler one of
  whose jobs failed keeps its slot until the others end, though its error
  answer goes out earlier; the writes are the same. A customer id stands for at
  most one customer ever, and `Ids` bounds how many there are.
- API servers withdraw no token early and grant at least the margin.
- In `GroupRules`, SQLite returns rules of equal priority in any order. Path
  mappings are written and never read, and left out.
- In `Documents`, all documents come on one page, the ids a resend posts are
  distinct, and links - looked up with an empty search term - are told apart by
  document only.
- In `Migrations`, column types and defaults are left out, and an `ALTER` fails
  only because its column is there. One process opens the file.
- Columns and fields that only carry text for display, formats and logging are
  abstracted away.

Not modelled: the bytes of the token encryption (a library's); signature
verification (pure functions of one request); the list of recent installs (an
append and a delete, read by nobody who decides anything); wiring, headers and
content security policy; the mock admin routes except the settings routes.
`PROJECT.json` gives the reason for each.
