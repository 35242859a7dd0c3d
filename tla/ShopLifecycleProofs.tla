------------------------ MODULE ShopLifecycleProofs ------------------------
(***************************************************************************)
(* Proofs that ShopLifecycle keeps its invariants for every set of shops   *)
(* and request slots and every grace period, retention window and          *)
(* interval.                                                               *)
(*                                                                         *)
(* The argument: apart from an uninstall callback and the passing of time, *)
(* no operation on shop_connections makes a revoked row, or changes the    *)
(* stamp or the tokens of one.  That relation between a table and the next *)
(* is Preserves; it is proved once for each repository operation, composes *)
(* where a handler calls several, and the invariants follow from it.       *)
(***************************************************************************)
EXTENDS ShopLifecycle, TLAPS

Table == [Shops -> Row \cup {Null}]

RevokedRow(row) == row # Null /\ row.status = "revoked"

NoTokens(row) == row.idoxxyToken = Null /\ row.shoperTokens = Null

Clean(table) == \A s \in Shops : RevokedRow(table[s]) => NoTokens(table[s])

\* A row may follow another one without having been revoked in between.
Follows(old, new) ==
    RevokedRow(new) => /\ RevokedRow(old)
                       /\ new.revokedAt = old.revokedAt
                       /\ NoTokens(new)

Preserves(table, next) ==
    /\ next \in Table
    /\ \A s \in Shops : Follows(table[s], next[s])

---------------------------------------------------------------------------
(* Rows and tables.                                                        *)

\* A clean table preserves itself.
LEMMA PreservesReflexive ==
    ASSUME NEW table \in Table, Clean(table)
    PROVE  Preserves(table, table)
  BY DEF Preserves, Clean, Follows

\* A handler that calls two operations preserves what each preserves.
LEMMA PreservesTransitive ==
    ASSUME NEW a, NEW b, NEW c, Preserves(a, b), Preserves(b, c)
    PROVE  Preserves(a, c)
  BY DEF Preserves, Follows

\* What a table preserves is clean.
LEMMA PreservesClean ==
    ASSUME NEW a, NEW b, Preserves(a, b)
    PROVE  b \in Table /\ Clean(b)
  BY DEF Preserves, Follows, Clean

\* An operation on one shop's row preserves the table if the row follows.
LEMMA PointUpdate ==
    ASSUME NEW table \in Table, Clean(table), NEW s \in Shops,
           NEW row \in Row \cup {Null}, Follows(table[s], row)
    PROVE  Preserves(table, [table EXCEPT ![s] = row])
  BY DEF Preserves, Clean, Follows, Table

\* What upsert may be given: any column may be undefined.
Payload == [ status       : Status \cup {Null},
             idoxxyToken  : TokenForm \cup {Null},
             shoperTokens : {"saved", Null},
             shopUrl      : {"known", Null},
             license      : {"known", Null},
             revokedAt    : Age \cup {Null} ]

\* upsert writes the payload's columns where they are defined and the row's
\* where they are not.
LEMMA MergeRow ==
    ASSUME NEW row \in Row, NEW payload \in Payload
    PROVE  /\ Merge(payload, row) \in Row
           /\ Merge(payload, row).status = Coalesce(payload.status, row.status)
           /\ Merge(payload, row).idoxxyToken = Coalesce(payload.idoxxyToken, row.idoxxyToken)
           /\ Merge(payload, row).shoperTokens = Coalesce(payload.shoperTokens, row.shoperTokens)
           /\ Merge(payload, row).revokedAt = Coalesce(payload.revokedAt, row.revokedAt)
  BY NullAssumption DEF Merge, Coalesce, Row, Payload

LEMMA FreshRowType == FreshRow \in Row
  BY NullAssumption DEF FreshRow, Row, Status

\* registerInstallation preserves the table: a revoked row is revived.
LEMMA RegisterInstallationPreserves ==
    ASSUME NEW table \in Table, Clean(table), NEW s \in Shops,
           NEW url \in {"known", Null}
    PROVE  /\ Preserves(table, RegisterInstallation(table, s, url))
           /\ RegisterInstallation(table, s, url)[s] \in Row
           /\ RegisterInstallation(table, s, url)[s].status = "installed_not_linked"
  <1> DEFINE payload == [NoPayload EXCEPT !.status = "installed_not_linked", !.shopUrl = url]
             old == IF HasRow(table, s) THEN table[s] ELSE FreshRow
  <1>1. old \in Row
    BY FreshRowType DEF HasRow, Table
  <1>2. payload \in Payload /\ payload.status = "installed_not_linked"
    BY DEF NoPayload, FreshRow, Payload, Status
  <1>3. RegisterInstallation(table, s, url) = [table EXCEPT ![s] = Merge(payload, old)]
    BY DEF RegisterInstallation, Upsert
  <1> HIDE DEF payload, old
  <1>4. /\ Merge(payload, old) \in Row
        /\ Merge(payload, old).status = "installed_not_linked"
    BY <1>1, <1>2, MergeRow, NullAssumption DEF Coalesce, Status
  <1>5. Preserves(table, [table EXCEPT ![s] = Merge(payload, old)])
    BY <1>4, PointUpdate DEF Follows, RevokedRow
  <1>6. [table EXCEPT ![s] = Merge(payload, old)][s] = Merge(payload, old)
    BY DEF Table
  <1> QED
    BY <1>3, <1>4, <1>5, <1>6

\* saveLink preserves the table: it leaves the row linked.
LEMMA SaveLinkPreserves ==
    ASSUME NEW table \in Table, Clean(table), NEW s \in Shops,
           NEW url \in {"known", Null}
    PROVE  Preserves(table, SaveLink(table, s, url))
  <1> DEFINE payload == [NoPayload EXCEPT !.status = "linked",
                                          !.idoxxyToken = "readable",
                                          !.shopUrl = url]
             old == IF HasRow(table, s) THEN table[s] ELSE FreshRow
  <1>1. old \in Row
    BY FreshRowType DEF HasRow, Table
  <1>2. payload \in Payload /\ payload.status = "linked"
    BY DEF NoPayload, FreshRow, Payload, Status, TokenForm
  <1>3. SaveLink(table, s, url) = [table EXCEPT ![s] = Merge(payload, old)]
    BY DEF SaveLink, Upsert
  <1> HIDE DEF payload, old
  <1>4. Merge(payload, old) \in Row /\ Merge(payload, old).status = "linked"
    BY <1>1, <1>2, MergeRow, NullAssumption DEF Coalesce, Status
  <1>5. Follows(table[s], Merge(payload, old))
    BY <1>4 DEF Follows, RevokedRow
  <1>6. Preserves(table, [table EXCEPT ![s] = Merge(payload, old)])
    BY <1>4, <1>5, PointUpdate
  <1> QED
    BY <1>3, <1>6

\* saveShoperTokens preserves the table when the row is not revoked.
LEMMA SaveShoperTokensPreserves ==
    ASSUME NEW table \in Table, Clean(table), NEW s \in Shops,
           table[s] \in Row, table[s].status # "revoked"
    PROVE  Preserves(table, SaveShoperTokens(table, s))
  <1> DEFINE payload == [table[s] EXCEPT !.shoperTokens = "saved"]
  <1>1. payload \in Payload /\ payload.status = table[s].status
    BY DEF Row, Payload
  <1>2. SaveShoperTokens(table, s) = [table EXCEPT ![s] = Merge(payload, table[s])]
    BY NoRowAssumption DEF SaveShoperTokens, Upsert, HasRow
  <1> HIDE DEF payload
  <1>3. /\ Merge(payload, table[s]) \in Row
        /\ Merge(payload, table[s]).status # "revoked"
    BY <1>1, MergeRow DEF Coalesce
  <1>4. Follows(table[s], Merge(payload, table[s]))
    BY <1>3 DEF Follows, RevokedRow
  <1>5. Preserves(table, [table EXCEPT ![s] = Merge(payload, table[s])])
    BY <1>3, <1>4, PointUpdate
  <1> QED
    BY <1>2, <1>5

\* markTokenInvalid preserves the table: it leaves the row token_invalid.
LEMMA MarkTokenInvalidPreserves ==
    ASSUME NEW table \in Table, Clean(table), NEW s \in Shops, HasRow(table, s)
    PROVE  Preserves(table, MarkTokenInvalid(table, s))
  <1> DEFINE payload == [table[s] EXCEPT !.status = "token_invalid", !.revokedAt = Null]
  <1>1. table[s] \in Row
    BY DEF HasRow, Table
  <1>2. payload \in Payload /\ payload.status = "token_invalid"
    BY <1>1 DEF Row, Payload, Status
  <1>3. MarkTokenInvalid(table, s) = [table EXCEPT ![s] = Merge(payload, table[s])]
    BY DEF MarkTokenInvalid, Upsert, HasRow
  <1> HIDE DEF payload
  <1>4. /\ Merge(payload, table[s]) \in Row
        /\ Merge(payload, table[s]).status = "token_invalid"
    BY <1>1, <1>2, MergeRow, NullAssumption DEF Coalesce, Status
  <1> QED
    BY <1>3, <1>4, PointUpdate DEF Follows, RevokedRow

\* updateTokenVerification preserves the table: a revoked row stays as it is.
LEMMA UpdateTokenVerificationPreserves ==
    ASSUME NEW table \in Table, Clean(table), NEW s \in Shops, HasRow(table, s)
    PROVE  Preserves(table, UpdateTokenVerification(table, s))
  <1> DEFINE payload == [table[s] EXCEPT !.status =
                            IF @ = "token_invalid" THEN "linked" ELSE @]
             new == Merge(payload, table[s])
  <1>1. table[s] \in Row
    BY DEF HasRow, Table
  <1>2. /\ payload \in Payload
        /\ payload.status = "revoked" => table[s].status = "revoked"
        /\ payload.idoxxyToken = table[s].idoxxyToken
        /\ payload.shoperTokens = table[s].shoperTokens
        /\ payload.revokedAt = table[s].revokedAt
    BY <1>1 DEF Row, Payload, Status
  <1>3. UpdateTokenVerification(table, s) = [table EXCEPT ![s] = new]
    BY DEF UpdateTokenVerification, Upsert, HasRow
  <1> HIDE DEF payload
  <1>4. /\ new \in Row
        /\ new.status = "revoked" => table[s].status = "revoked"
        /\ new.idoxxyToken = table[s].idoxxyToken
        /\ new.shoperTokens = table[s].shoperTokens
        /\ new.revokedAt = table[s].revokedAt
    BY <1>1, <1>2, MergeRow DEF Coalesce
  <1> HIDE DEF new
  <1>5. Follows(table[s], new)
    BY <1>1, <1>4, NoRowAssumption DEF Follows, RevokedRow, NoTokens, Clean
  <1> QED
    BY <1>3, <1>4, <1>5, PointUpdate

\* updateShopUrl preserves the table: a revoked row only gains its URL.
LEMMA UpdateShopUrlPreserves ==
    ASSUME NEW table \in Table, Clean(table), NEW s \in Shops, HasRow(table, s)
    PROVE  Preserves(table, UpdateShopUrl(table, s))
  <1> DEFINE payload == [table[s] EXCEPT !.shopUrl = "known"]
             new == Merge(payload, table[s])
  <1>1. table[s] \in Row
    BY DEF HasRow, Table
  <1>2. /\ payload \in Payload
        /\ payload.status = table[s].status
        /\ payload.idoxxyToken = table[s].idoxxyToken
        /\ payload.shoperTokens = table[s].shoperTokens
        /\ payload.revokedAt = table[s].revokedAt
    BY <1>1 DEF Row, Payload
  <1>3. UpdateShopUrl(table, s) = [table EXCEPT ![s] = new]
    BY DEF UpdateShopUrl, Upsert, HasRow
  <1> HIDE DEF payload
  <1>4. /\ new \in Row
        /\ new.status = "revoked" => table[s].status = "revoked"
        /\ new.idoxxyToken = table[s].idoxxyToken
        /\ new.shoperTokens = table[s].shoperTokens
        /\ new.revokedAt = table[s].revokedAt
    BY <1>1, <1>2, MergeRow DEF Coalesce
  <1> HIDE DEF new
  <1>5. Follows(table[s], new)
    BY <1>1, <1>4, NoRowAssumption DEF Follows, RevokedRow, NoTokens, Clean
  <1> QED
    BY <1>3, <1>4, <1>5, PointUpdate

\* recordShoperLicense preserves the table.
LEMMA RecordShoperLicensePreserves ==
    ASSUME NEW table \in Table, Clean(table), NEW s \in Shops
    PROVE  Preserves(table, RecordShoperLicense(table, s))
  <1>1. CASE HasRow(table, s)
    <2> DEFINE new == [table[s] EXCEPT !.license = "known"]
    <2>1. table[s] \in Row
      BY <1>1 DEF HasRow, Table
    <2>2. /\ new \in Row
          /\ new.status = table[s].status
          /\ new.idoxxyToken = table[s].idoxxyToken
          /\ new.shoperTokens = table[s].shoperTokens
          /\ new.revokedAt = table[s].revokedAt
      BY <2>1 DEF Row
    <2>3. Follows(table[s], new)
      BY <2>1, <2>2, NoRowAssumption DEF Follows, RevokedRow, NoTokens, Clean
    <2>4. RecordShoperLicense(table, s) = [table EXCEPT ![s] = new]
      BY <1>1 DEF RecordShoperLicense
    <2> HIDE DEF new
    <2> QED
      BY <2>2, <2>3, <2>4, PointUpdate
  <1>2. CASE ~HasRow(table, s)
    BY <1>2, PreservesReflexive DEF RecordShoperLicense
  <1> QED
    BY <1>1, <1>2

\* decodeToken preserves the table: a revoked row holds no token to decode.
LEMMA DecodeTokenPreserves ==
    ASSUME NEW table \in Table, Clean(table), NEW s \in Shops
    PROVE  Preserves(table, DecodeToken(table, s))
  <1>1. CASE HasRow(table, s) /\ table[s].idoxxyToken = "unreadable"
    BY <1>1, MarkTokenInvalidPreserves DEF DecodeToken
  <1>2. CASE HasRow(table, s) /\ table[s].idoxxyToken = "legacy"
    <2> DEFINE new == [table[s] EXCEPT !.idoxxyToken = "readable"]
    <2>1. table[s] \in Row
      BY <1>2 DEF HasRow, Table
    <2>2. new \in Row /\ new.status = table[s].status
      BY <2>1 DEF Row, TokenForm
    <2>3. ~RevokedRow(table[s])
      BY <1>2, NullAssumption DEF Clean, NoTokens, TokenForm
    <2>4. Follows(table[s], new)
      BY <2>1, <2>2, <2>3, NoRowAssumption DEF Follows, RevokedRow
    <2>5. DecodeToken(table, s) = [table EXCEPT ![s] = new]
      BY <1>2 DEF DecodeToken, UpdateTokenColumn
    <2> HIDE DEF new
    <2> QED
      BY <2>2, <2>4, <2>5, PointUpdate
  <1>3. CASE ~HasRow(table, s) \/ table[s].idoxxyToken \notin {"unreadable", "legacy"}
    BY <1>3, PreservesReflexive DEF DecodeToken
  <1> QED
    BY <1>1, <1>2, <1>3

\* Deleting a row preserves the table.
LEMMA DeleteConnectionPreserves ==
    ASSUME NEW table \in Table, Clean(table), NEW s \in Shops
    PROVE  Preserves(table, DeleteConnection(table, s))
  BY PointUpdate DEF DeleteConnection, Follows, RevokedRow

---------------------------------------------------------------------------
(* The handlers.                                                           *)

\* Install: register, save the Shoper tokens, perhaps record the license.
LEMMA InstallPreserves ==
    ASSUME conn \in Table, Clean(conn), NEW s \in Shops, Install(s)
    PROVE  Preserves(conn, conn') /\ ~RevokedRow(conn'[s])
  <1> DEFINE registered == RegisterInstallation(conn, s, "known")
             installed == SaveShoperTokens(registered, s)
  <1>1. /\ Preserves(conn, registered)
        /\ registered[s] \in Row
        /\ registered[s].status = "installed_not_linked"
    BY RegisterInstallationPreserves
  <1>2. conn' \in {installed, RecordShoperLicense(installed, s)}
    BY DEF Install
  <1> HIDE DEF registered
  <1>3. registered \in Table /\ Clean(registered) /\ ~RevokedRow(registered[s])
    BY <1>1, PreservesClean DEF RevokedRow
  <1>4. Preserves(registered, installed)
    BY <1>1, <1>3, SaveShoperTokensPreserves
  <1> HIDE DEF installed
  <1>5. Preserves(installed, RecordShoperLicense(installed, s))
    BY <1>4, PreservesClean, RecordShoperLicensePreserves
  <1>6. Preserves(registered, conn')
    BY <1>2, <1>4, <1>5, PreservesTransitive
  <1> QED
    BY <1>1, <1>3, <1>6, PreservesTransitive DEF Preserves, Follows

\* An iframe entry: register, record the license.
LEMMA IframeEntryPreserves ==
    ASSUME conn \in Table, Clean(conn), NEW s \in Shops, IframeEntry(s)
    PROVE  Preserves(conn, conn')
  <1>1. PICK url \in {"known", Null} :
          conn' = RecordShoperLicense(RegisterInstallation(conn, s, url), s)
    BY DEF IframeEntry
  <1>2. Preserves(conn, RegisterInstallation(conn, s, url))
    BY RegisterInstallationPreserves
  <1>3. Preserves(RegisterInstallation(conn, s, url), conn')
    BY <1>1, <1>2, PreservesClean, RecordShoperLicensePreserves
  <1> QED
    BY <1>2, <1>3, PreservesTransitive

\* Both link handlers: register, decode the token unless it is in the body.
LEMMA LinkStartPreserves ==
    ASSUME conn \in Table, Clean(conn), NEW s \in Shops,
           NEW r \in Requests, NEW kind, LinkStart(r, kind, s)
    PROVE  Preserves(conn, conn')
  <1>1. PICK url \in {"known", Null} :
          conn' \in { RegisterInstallation(conn, s, url),
                      DecodeToken(RegisterInstallation(conn, s, url), s) }
    BY DEF LinkStart
  <1>2. Preserves(conn, RegisterInstallation(conn, s, url))
    BY RegisterInstallationPreserves
  <1>3. Preserves(RegisterInstallation(conn, s, url),
                  DecodeToken(RegisterInstallation(conn, s, url), s))
    BY <1>2, PreservesClean, DecodeTokenPreserves
  <1> QED
    BY <1>1, <1>2, <1>3, PreservesTransitive

\* Resolving a webhook's shop writes its URL at most.
LEMMA ResolvedPreserves ==
    ASSUME conn \in Table, Clean(conn), NEW s \in Shops, NEW table \in Resolved(s)
    PROVE  Preserves(conn, table)
  BY PreservesReflexive, UpdateShopUrlPreserves DEF Resolved

\* A webhook that decodes the token of the shop it resolved.
LEMMA ResolvedDecodePreserves ==
    ASSUME conn \in Table, Clean(conn), NEW s \in Shops,
           \E table \in Resolved(s) : conn' = DecodeToken(table, s)
    PROVE  Preserves(conn, conn')
  BY ResolvedPreserves, PreservesClean, DecodeTokenPreserves, PreservesTransitive

---------------------------------------------------------------------------
(* The inductive invariant: the invariants need each other.  The age of a  *)
(* revoked row is bounded only because its stamp is never NULL, and the    *)
(* stamp is that of the last uninstall only because no operation but the   *)
(* wipe leaves a row revoked.                                              *)

IInv ==
    /\ TypeOK
    /\ RevokedHasNoTokens
    /\ RevokedStampFresh
    /\ RevokedNotOverdue
    /\ LogsNotOverdue

LEMMA ConnClean ==
    ASSUME IInv
    PROVE  conn \in Table /\ Clean(conn)
  BY DEF IInv, TypeOK, RevokedHasNoTokens, Table, Clean, RevokedRow, NoTokens, Revoked, HasRow

\* The invariants about revoked rows survive every step that preserves the
\* table and forgets no uninstallation of a row that stays revoked.
LEMMA RevokedInvariantsKept ==
    ASSUME IInv, Preserves(conn, conn'), Steady,
           \A s \in Shops : uninstalled'[s] = uninstalled[s] \/ ~RevokedRow(conn'[s])
    PROVE  RevokedHasNoTokens' /\ RevokedStampFresh' /\ RevokedNotOverdue'
  <1> USE DEF IInv, Preserves, Follows, RevokedRow, NoTokens, Revoked, HasRow, Steady
  <1>1. RevokedHasNoTokens'
    BY DEF RevokedHasNoTokens
  <1>2. RevokedStampFresh'
    BY DEF RevokedStampFresh
  <1>3. RevokedNotOverdue'
    BY DEF RevokedNotOverdue
  <1> QED
    BY <1>1, <1>2, <1>3

\* A new log has age 0, which no window has passed.
LEMMA LogsKept ==
    ASSUME IInv, Steady, \A s \in Shops : logs'[s] \subseteq logs[s] \cup {0}
    PROVE  LogsNotOverdue'
  BY RetentionAssumption DEF IInv, TypeOK, LogsNotOverdue, Steady

\* What every handler of the running process does to the state.
LEMMA HandlerStep ==
    ASSUME IInv, Preserves(conn, conn'), Steady,
           data' \in [Shops -> BOOLEAN],
           request' \in [Requests -> Request \cup {Null}],
           logs' = logs \/ \E s \in Shops : logs' = [logs EXCEPT ![s] = @ \cup {0}],
           uninstalled' = uninstalled
           \/ \E s \in Shops : /\ uninstalled' = [uninstalled EXCEPT ![s] = Null]
                             /\ ~RevokedRow(conn'[s])
    PROVE  IInv'
  <1>1. \A s \in Shops : uninstalled'[s] = uninstalled[s] \/ ~RevokedRow(conn'[s])
    BY DEF IInv, TypeOK
  <1>2. uninstalled' \in [Shops -> Age \cup {Null}]
    BY DEF IInv, TypeOK
  <1>3. 0 \in Age
    BY MaxAgeAssumption DEF Age
  <1>4. logs' \in [Shops -> SUBSET Age]
    BY <1>3 DEF IInv, TypeOK
  <1>5. TypeOK'
    BY <1>2, <1>4 DEF IInv, TypeOK, Preserves, Table, Steady
  <1>6. \A s \in Shops : logs'[s] \subseteq logs[s] \cup {0}
    BY DEF IInv, TypeOK
  <1> QED
    BY <1>1, <1>5, <1>6, RevokedInvariantsKept, LogsKept DEF IInv

---------------------------------------------------------------------------
(* One lemma for each group of actions.                                    *)

LEMMA AwaitType ==
    ASSUME TypeOK, NEW r \in Requests, NEW kind \in {"webhook", "linkTest", "link"},
           NEW s \in Shops, NEW url \in {"known", Null}, Await(r, kind, s, url)
    PROVE  request' \in [Requests -> Request \cup {Null}]
  BY DEF TypeOK, Await, Request

LEMMA AnswerType ==
    ASSUME TypeOK, NEW r \in Requests, Answer(r)
    PROVE  request' \in [Requests -> Request \cup {Null}]
  BY DEF TypeOK, Answer

\* A pending request names a shop and a URL.
LEMMA PendingType ==
    ASSUME TypeOK, NEW r \in Requests, NEW kind, Pending(r, kind)
    PROVE  request[r].shop \in Shops /\ request[r].url \in {"known", Null}
  BY DEF TypeOK, Pending, Request

\* Each handler that neither revokes nor takes time keeps the invariant.
LEMMA ShopStepKeeps ==
    ASSUME IInv, NEW s \in Shops, ShopStep(s), ~UninstallCallback(s)
    PROVE  IInv'
  <1> USE ConnClean
  <1>1. TypeOK
    BY DEF IInv
  <1>2. ASSUME Install(s) PROVE IInv'
    BY <1>1, <1>2, InstallPreserves, HandlerStep DEF Install, NoData, TypeOK
  <1>3. ASSUME IframeEntry(s) PROVE IInv'
    BY <1>1, <1>3, IframeEntryPreserves, HandlerStep DEF IframeEntry, NoData, TypeOK
  <1>4. ASSUME BackfillLicense(s) PROVE IInv'
    BY <1>1, <1>4, RecordShoperLicensePreserves, HandlerStep DEF BackfillLicense, NoData, TypeOK
  <1>5. ASSUME DeleteLink(s) PROVE IInv'
    BY <1>1, <1>5, DeleteConnectionPreserves, HandlerStep DEF DeleteLink, NoData, TypeOK
  <1>6. ASSUME SaveSettings(s) PROVE IInv'
    BY <1>1, <1>6, PreservesReflexive, HandlerStep DEF SaveSettings, TypeOK
  <1>7. ASSUME ResolveShopClient(s) PROVE IInv'
    BY <1>1, <1>7, DecodeTokenPreserves, HandlerStep DEF ResolveShopClient, NoData, TypeOK
  <1>8. ASSUME WebhookRefused(s) PROVE IInv'
    BY <1>1, <1>8, ResolvedPreserves, HandlerStep DEF WebhookRefused, AddSyncLog, TypeOK
  <1>9. ASSUME WebhookStopped(s) PROVE IInv'
    BY <1>1, <1>9, ResolvedDecodePreserves, HandlerStep DEF WebhookStopped, AddSyncLog, TypeOK
  <1> QED
    BY <1>2, <1>3, <1>4, <1>5, <1>6, <1>7, <1>8, <1>9 DEF ShopStep, UninstallCallback

LEMMA LinkStartKeeps ==
    ASSUME IInv, NEW r \in Requests, NEW kind \in {"linkTest", "link"}, NEW s \in Shops,
           LinkStart(r, kind, s)
    PROVE  IInv'
  <1>1. TypeOK
    BY DEF IInv
  <1>2. request' \in [Requests -> Request \cup {Null}]
    <2>1. CASE request' = request
      BY <1>1, <2>1 DEF TypeOK
    <2>2. CASE \E url \in {"known", Null} : Await(r, kind, s, url)
      BY <1>1, <2>2, AwaitType
    <2> QED
      BY <2>1, <2>2 DEF LinkStart
  <1> QED
    BY <1>1, <1>2, ConnClean, LinkStartPreserves, HandlerStep DEF LinkStart, NoData, TypeOK

LEMMA RequestStepKeeps ==
    ASSUME IInv, NEW r \in Requests, RequestStep(r)
    PROVE  IInv'
  <1> USE ConnClean
  <1>1. TypeOK
    BY DEF IInv
  <1>2. ASSUME NEW s \in Shops, LinkStart(r, "linkTest", s) \/ LinkStart(r, "link", s)
        PROVE  IInv'
    BY <1>2, LinkStartKeeps
  <1>3. ASSUME NEW s \in Shops, WebhookStart(r, s) PROVE IInv'
    <2>1. request' \in [Requests -> Request \cup {Null}]
      BY <1>1, <1>3, AwaitType DEF WebhookStart
    <2> QED
      BY <1>1, <1>3, <2>1, ResolvedDecodePreserves, HandlerStep DEF WebhookStart, NoData, TypeOK
  <1>4. ASSUME LinkTestAccepted(r) PROVE IInv'
    <2>1. Preserves(conn, conn')
      BY <1>1, <1>4, PendingType, PreservesReflexive, UpdateTokenVerificationPreserves
         DEF LinkTestAccepted
    <2> QED
      BY <1>1, <1>4, <2>1, AnswerType, HandlerStep DEF LinkTestAccepted, NoData, TypeOK
  <1>5. ASSUME LinkAccepted(r) PROVE IInv'
    <2>1. Preserves(conn, conn')
      BY <1>1, <1>5, PendingType, SaveLinkPreserves DEF LinkAccepted
    <2> QED
      BY <1>1, <1>5, <2>1, AnswerType, HandlerStep DEF LinkAccepted, NoData, TypeOK
  <1>6. ASSUME LinkRejected(r) PROVE IInv'
    BY <1>1, <1>6, PreservesReflexive, AnswerType, HandlerStep DEF LinkRejected, NoData, TypeOK
  <1>7. ASSUME WebhookDone(r) PROVE IInv'
    BY <1>1, <1>7, PendingType, PreservesReflexive, AnswerType, HandlerStep
       DEF WebhookDone, AddSyncLog, TypeOK
  <1>8. ASSUME WebhookUnauthorized(r) PROVE IInv'
    <2>1. Preserves(conn, conn')
      BY <1>1, <1>8, PendingType, MarkTokenInvalidPreserves DEF WebhookUnauthorized
    <2> QED
      BY <1>1, <1>8, <2>1, PendingType, AnswerType, HandlerStep
         DEF WebhookUnauthorized, AddSyncLog, TypeOK
  <1>9. ASSUME WebhookUnauthorizedGone(r) PROVE IInv'
    BY <1>1, <1>9, PreservesReflexive, AnswerType, HandlerStep
       DEF WebhookUnauthorizedGone, NoData, TypeOK
  <1> QED
    BY <1>2, <1>3, <1>4, <1>5, <1>6, <1>7, <1>8, <1>9 DEF RequestStep

\* The wipe: the row is revoked, its stamp is the uninstall's, its tokens go.
LEMMA WipeKeeps ==
    ASSUME IInv, NEW s \in Shops, HasRow(conn, s), Steady,
           conn' = RevokeAndWipeTokens(conn, s),
           uninstalled' = [uninstalled EXCEPT ![s] = 0],
           UNCHANGED <<data, logs, request>>
    PROVE  IInv'
  <1> DEFINE new == [conn[s] EXCEPT !.status = "revoked", !.revokedAt = 0,
                                    !.idoxxyToken = Null, !.shoperTokens = Null]
  <1>1. TypeOK /\ conn[s] \in Row
    BY DEF IInv, TypeOK, HasRow
  <1>2. 0 \in Age
    BY MaxAgeAssumption DEF Age
  <1>3. new \in Row /\ new.revokedAt = 0 /\ NoTokens(new)
    BY <1>1, <1>2 DEF Row, Status, NoTokens
  <1>4. conn' = [conn EXCEPT ![s] = new]
    BY DEF RevokeAndWipeTokens
  <1> HIDE DEF new
  <1>5. TypeOK'
    BY <1>1, <1>2, <1>3, <1>4 DEF TypeOK, Steady
  <1>6. \A t \in Shops : IF t = s THEN conn'[t] = new /\ uninstalled'[t] = 0
                         ELSE conn'[t] = conn[t] /\ uninstalled'[t] = uninstalled[t]
    BY <1>1, <1>4 DEF TypeOK
  <1>7. RevokedHasNoTokens'
    BY <1>3, <1>6 DEF IInv, RevokedHasNoTokens, Revoked, HasRow, NoTokens
  <1>8. RevokedStampFresh'
    BY <1>2, <1>3, <1>6, NullAssumption DEF IInv, RevokedStampFresh, Revoked, HasRow
  <1>9. RevokedNotOverdue'
    <2>1. 0 < Grace + sincePurge
      BY <1>1, RetentionAssumption DEF TypeOK
    <2> QED
      BY <1>3, <1>6, <2>1 DEF IInv, RevokedNotOverdue, Revoked, HasRow, Steady
  <1>10. LogsNotOverdue'
    BY DEF IInv, LogsNotOverdue, Steady
  <1> QED
    BY <1>5, <1>7, <1>8, <1>9, <1>10 DEF IInv

\* An uninstall callback wipes the row, or only starts the history.
LEMMA UninstallKeeps ==
    ASSUME IInv, NEW s \in Shops, UninstallCallback(s)
    PROVE  IInv'
  <1>1. CASE HasRow(conn, s) /\ conn' = RevokeAndWipeTokens(conn, s)
             /\ uninstalled' = [uninstalled EXCEPT ![s] = 0]
    BY <1>1, WipeKeeps DEF UninstallCallback, Uninstall, UninstallUnnamed, NoData
  <1>2. CASE /\ Uninstall(s) /\ UNCHANGED conn
             /\ ~(HasRow(conn, s) /\ conn[s].shopUrl # Null)
             /\ uninstalled' = [uninstalled EXCEPT ![s] = Coalesce(@, 0)]
    <2>1. TypeOK /\ 0 \in Age
      BY MaxAgeAssumption DEF IInv, Age
    <2>2. TypeOK'
      BY <1>2, <2>1 DEF TypeOK, Uninstall, NoData, Steady, Coalesce
    <2>3. \A t \in Shops : RevokedRow(conn[t]) => uninstalled'[t] = uninstalled[t]
      BY <1>2, <2>1 DEF IInv, TypeOK, RevokedStampFresh, RevokedRow, Revoked, HasRow, Coalesce
    <2>4. RevokedHasNoTokens' /\ RevokedStampFresh' /\ RevokedNotOverdue'
      BY <1>2, <2>3, ConnClean, PreservesReflexive, RevokedInvariantsKept DEF Uninstall
    <2> QED
      BY <1>2, <2>2, <2>4 DEF IInv, LogsNotOverdue, Uninstall, NoData, Steady
  <1> QED
    BY <1>1, <1>2 DEF UninstallCallback, Uninstall, UninstallUnnamed

\* Purging some expired shops and the expired logs keeps the tables' types,
\* the rows that stay, and leaves no log older than the window.
LEMMA PurgeShopsKeeps ==
    ASSUME IInv, NEW gone \in SUBSET Shops, PurgeShops(gone, PurgeExpiredSyncLogs(logs))
    PROVE  /\ conn' \in Table
           /\ data' \in [Shops -> BOOLEAN]
           /\ logs' \in [Shops -> SUBSET Age]
           /\ \A s \in Shops : conn'[s] = IF s \in gone THEN Null ELSE conn[s]
           /\ \A s \in Shops : \A a \in logs'[s] : a < Retention
  BY DEF IInv, TypeOK, PurgeShops, PurgeExpiredSyncLogs, Table

\* Once the expired shops are gone, no revoked shop is past its grace period.
LEMMA UnexpiredIsYoung ==
    ASSUME IInv, NEW s \in Shops, RevokedRow(conn[s]), s \notin Expired(conn)
    PROVE  conn[s].revokedAt < Grace
  <1>1. conn[s].revokedAt \in Age
    BY DEF IInv, TypeOK, RevokedStampFresh, Revoked, HasRow, RevokedRow, Row
  <1>2. ~(conn[s].revokedAt >= Grace)
    BY <1>1, NullAssumption DEF Expired, RevokedRow, HasRow
  <1> QED
    BY <1>1, <1>2, RetentionAssumption, MaxAgeAssumption DEF Age

LEMMA PurgeKeeps ==
    ASSUME IInv, Purge
    PROVE  IInv'
  <1>1. Expired(conn) \in SUBSET Shops
    BY DEF Expired
  <1>2. /\ conn' \in Table
        /\ data' \in [Shops -> BOOLEAN]
        /\ logs' \in [Shops -> SUBSET Age]
        /\ \A s \in Shops : conn'[s] = IF s \in Expired(conn) THEN Null ELSE conn[s]
        /\ \A s \in Shops : \A a \in logs'[s] : a < Retention
    BY <1>1, PurgeShopsKeeps DEF Purge, RunPurge
  <1>3. sincePurge' = 0 /\ up /\ UNCHANGED <<request, up, uninstalled>>
    BY DEF Purge
  <1>4. TypeOK'
    BY <1>2, <1>3, RetentionAssumption DEF IInv, TypeOK, Table
  <1>5. RevokedHasNoTokens' /\ RevokedStampFresh'
    BY <1>2, <1>3 DEF IInv, RevokedHasNoTokens, RevokedStampFresh, Revoked, HasRow
  <1>6. RevokedNotOverdue'
    <2> SUFFICES ASSUME NEW s \in Shops, Revoked(s)'
                 PROVE  conn'[s].revokedAt < Grace + sincePurge'
      BY DEF RevokedNotOverdue
    <2>1. conn'[s] = conn[s] /\ s \notin Expired(conn) /\ RevokedRow(conn[s])
      BY <1>2 DEF Revoked, HasRow, RevokedRow
    <2>2. conn[s].revokedAt < Grace
      BY <2>1, UnexpiredIsYoung
    <2>3. Grace + sincePurge' = Grace
      BY <1>3, RetentionAssumption
    <2> QED
      BY <2>1, <2>2, <2>3
  <1>7. LogsNotOverdue'
    BY <1>2, <1>3, RetentionAssumption DEF LogsNotOverdue
  <1> QED
    BY <1>4, <1>5, <1>6, <1>7 DEF IInv

\* A crash loses the requests in flight and nothing that is stored.
LEMMA CrashKeeps ==
    ASSUME IInv, Crash
    PROVE  IInv'
  <1>1. TypeOK'
    <2>1. request' \in [Requests -> Request \cup {Null}]
      BY DEF Crash
    <2>2. up' \in BOOLEAN
      BY DEF Crash
    <2>3. sincePurge' \in 0 .. Period
      BY RetentionAssumption DEF Crash
    <2> QED
      BY <2>1, <2>2, <2>3 DEF Crash, IInv, TypeOK
  <1>2. RevokedHasNoTokens' /\ RevokedStampFresh'
    BY DEF Crash, IInv, RevokedHasNoTokens, RevokedStampFresh, Revoked, HasRow
  <1>3. RevokedNotOverdue' /\ LogsNotOverdue'
    BY DEF Crash, RevokedNotOverdue, LogsNotOverdue
  <1> QED
    BY <1>1, <1>2, <1>3 DEF IInv

LEMMA CrashInPurgeKeeps ==
    ASSUME IInv, CrashInPurge
    PROVE  IInv'
  <1>1. PICK gone \in SUBSET Expired(conn) : PurgeShops(gone, PurgeExpiredSyncLogs(logs))
    BY DEF CrashInPurge
  <1>2. gone \in SUBSET Shops
    BY DEF Expired
  <1>3. /\ conn' \in Table
        /\ data' \in [Shops -> BOOLEAN]
        /\ logs' \in [Shops -> SUBSET Age]
        /\ \A s \in Shops : conn'[s] = IF s \in gone THEN Null ELSE conn[s]
    BY <1>1, <1>2, PurgeShopsKeeps
  <1>4. /\ up' = FALSE /\ sincePurge' = 0 /\ UNCHANGED uninstalled
        /\ request' = [r \in Requests |-> Null]
    BY DEF CrashInPurge
  <1>5. TypeOK'
    <2>1. request' \in [Requests -> Request \cup {Null}]
      BY <1>4
    <2>2. up' \in BOOLEAN
      BY <1>4
    <2>3. sincePurge' \in 0 .. Period
      BY <1>4, RetentionAssumption
    <2> QED
      BY <1>3, <1>4, <2>1, <2>2, <2>3 DEF IInv, TypeOK, Table
  <1>6. RevokedHasNoTokens' /\ RevokedStampFresh'
    BY <1>3, <1>4 DEF IInv, RevokedHasNoTokens, RevokedStampFresh, Revoked, HasRow
  <1>7. RevokedNotOverdue' /\ LogsNotOverdue'
    BY <1>4 DEF RevokedNotOverdue, LogsNotOverdue
  <1> QED
    BY <1>5, <1>6, <1>7 DEF IInv

\* The boot purge, and tokens that a new key leaves unreadable: a revoked row
\* has none.
LEMMA BootKeeps ==
    ASSUME IInv, Boot
    PROVE  IInv'
  <1> DEFINE kept == [s \in Shops |-> IF s \in Expired(conn) THEN Null ELSE conn[s]]
  <1>1. /\ up' = TRUE /\ sincePurge' = 0 /\ UNCHANGED <<request, uninstalled>>
        /\ conn' = kept \/ conn' = [s \in Shops |-> UnderNewKey(kept[s])]
    BY DEF Boot
  <1>2. \A s \in Shops : kept[s] \in Row \cup {Null} /\ UnderNewKey(kept[s]) \in Row \cup {Null}
    BY DEF IInv, TypeOK, UnderNewKey, Row, TokenForm
  <1>3. \A s \in Shops : Follows(kept[s], kept[s]) /\ Follows(kept[s], UnderNewKey(kept[s]))
    <2> SUFFICES ASSUME NEW s \in Shops
                 PROVE  Follows(kept[s], kept[s]) /\ Follows(kept[s], UnderNewKey(kept[s]))
      OBVIOUS
    <2> DEFINE row == kept[s]
    <2>1. RevokedRow(row) => NoTokens(row)
      BY ConnClean DEF Clean, RevokedRow
    <2>2. row \in Row \cup {Null}
      BY <1>2
    <2> HIDE DEF row
    <2>3. CASE row # Null /\ row.idoxxyToken = "readable"
      <3>1. row.status # "revoked"
        BY <2>1, <2>3, NullAssumption DEF RevokedRow, NoTokens, TokenForm
      <3>2. UnderNewKey(row).status = row.status
        BY <2>2, <2>3 DEF UnderNewKey, Row
      <3> QED
        BY <3>1, <3>2 DEF Follows, RevokedRow, row
    <2>4. CASE ~(row # Null /\ row.idoxxyToken = "readable")
      BY <2>1, <2>4 DEF Follows, UnderNewKey, row
    <2> QED
      BY <2>3, <2>4
  <1>4. Preserves(kept, conn')
    BY <1>1, <1>2, <1>3 DEF Preserves, Table
  <1>5. \A s \in Shops : RevokedRow(kept[s]) => kept[s] = conn[s] /\ s \notin Expired(conn)
    BY DEF RevokedRow
  <1> HIDE DEF kept
  <1>6. data' \in [Shops -> BOOLEAN] /\ logs' \in [Shops -> SUBSET Age]
        /\ \A s \in Shops : \A a \in logs'[s] : a < Retention
    BY DEF Boot, IInv, TypeOK, PurgeExpiredSyncLogs
  <1>7. TypeOK'
    BY <1>1, <1>4, <1>6, RetentionAssumption DEF IInv, TypeOK, Preserves, Table
  <1>8. \A s \in Shops : Revoked(s)' =>
          /\ NoTokens(conn'[s])
          /\ Revoked(s) /\ RevokedRow(conn[s])
          /\ conn'[s].revokedAt = conn[s].revokedAt
          /\ s \notin Expired(conn)
    BY <1>4, <1>5 DEF Preserves, Follows, RevokedRow, Revoked, HasRow
  <1>9. RevokedHasNoTokens' /\ RevokedStampFresh'
    BY <1>1, <1>8 DEF IInv, RevokedHasNoTokens, RevokedStampFresh, NoTokens
  <1>10. RevokedNotOverdue'
    <2> SUFFICES ASSUME NEW s \in Shops, Revoked(s)'
                 PROVE  conn'[s].revokedAt < Grace + sincePurge'
      BY DEF RevokedNotOverdue
    <2>1. conn'[s].revokedAt < Grace
      BY <1>8, UnexpiredIsYoung
    <2>2. Grace + sincePurge' = Grace
      BY <1>1, RetentionAssumption
    <2> QED
      BY <2>1, <2>2
  <1>11. LogsNotOverdue'
    BY <1>1, <1>6, RetentionAssumption DEF LogsNotOverdue
  <1> QED
    BY <1>7, <1>9, <1>10, <1>11 DEF IInv

\* Ages grow by one tick at most, and the interval bounds the ticks.
LEMMA OlderAge ==
    ASSUME NEW a \in Age
    PROVE  Older(a) \in Age /\ Older(a) # Null /\ Older(a) <= a + 1
  BY MaxAgeAssumption, NullAssumption DEF Age, Older

LEMMA TickKeeps ==
    ASSUME IInv, Tick
    PROVE  IInv'
  <1>1. TypeOK /\ sincePurge \in Nat
    BY RetentionAssumption DEF IInv, TypeOK
  <1>2. \A s \in Shops : conn'[s] = AgedRow(conn[s]) /\ uninstalled'[s] = Older(uninstalled[s])
    BY DEF Tick
  <1>3. \A row \in Row : /\ AgedRow(row) \in Row
                        /\ AgedRow(row).status = row.status
                        /\ AgedRow(row).idoxxyToken = row.idoxxyToken
                        /\ AgedRow(row).shoperTokens = row.shoperTokens
                        /\ AgedRow(row).revokedAt = Older(row.revokedAt)
    BY OlderAge, NoRowAssumption DEF AgedRow, Row, Older
  <1>4. AgedRow(Null) = Null /\ Older(Null) = Null
    BY DEF AgedRow, Older
  <1>5. TypeOK'
    <2>1. conn' \in [Shops -> Row \cup {Null}]
      BY <1>1, <1>3, <1>4 DEF Tick, TypeOK
    <2>2. logs' \in [Shops -> SUBSET Age]
      BY <1>1, OlderAge DEF Tick, TypeOK
    <2>3. uninstalled' \in [Shops -> Age \cup {Null}]
      BY <1>1, <1>4, OlderAge DEF Tick, TypeOK
    <2>4. sincePurge' \in 0 .. Period
      BY <1>1, RetentionAssumption DEF Tick, TypeOK
    <2> QED
      BY <1>1, <2>1, <2>2, <2>3, <2>4 DEF Tick, TypeOK
  <1>6. \A s \in Shops : Revoked(s)' =>
          /\ Revoked(s)
          /\ conn[s] \in Row
          /\ conn'[s].idoxxyToken = conn[s].idoxxyToken
          /\ conn'[s].shoperTokens = conn[s].shoperTokens
          /\ conn'[s].revokedAt = Older(conn[s].revokedAt)
    BY <1>1, <1>2, <1>3, <1>4 DEF TypeOK, Revoked, HasRow
  <1>7. \A s \in Shops : Revoked(s) => conn[s].revokedAt \in Age
    BY <1>1 DEF IInv, TypeOK, RevokedStampFresh, Revoked, HasRow, Row
  <1>8. RevokedHasNoTokens'
    BY <1>6 DEF IInv, RevokedHasNoTokens
  <1>9. RevokedStampFresh'
    BY <1>2, <1>6, <1>7, OlderAge DEF IInv, RevokedStampFresh
  <1>10. RevokedNotOverdue'
    <2> SUFFICES ASSUME NEW s \in Shops, up', Revoked(s)'
                 PROVE  conn'[s].revokedAt < Grace + sincePurge'
      BY DEF RevokedNotOverdue
    <2>1. up /\ sincePurge' = sincePurge + 1
      BY DEF Tick
    <2>2. conn[s].revokedAt \in Age /\ conn[s].revokedAt < Grace + sincePurge
      BY <1>6, <1>7, <2>1 DEF IInv, RevokedNotOverdue
    <2>3. conn'[s].revokedAt \in Age /\ conn'[s].revokedAt <= conn[s].revokedAt + 1
      BY <1>6, <2>2, OlderAge
    <2> QED
      BY <1>1, <2>1, <2>2, <2>3, RetentionAssumption, MaxAgeAssumption DEF Age
  <1>11. LogsNotOverdue'
    <2> SUFFICES ASSUME NEW s \in Shops, up', NEW b \in logs'[s]
                 PROVE  b < Retention + sincePurge'
      BY DEF LogsNotOverdue
    <2>1. up /\ sincePurge' = sincePurge + 1
      BY DEF Tick
    <2>2. PICK a \in logs[s] : b = Older(a)
      BY DEF Tick
    <2>3. a \in Age /\ a < Retention + sincePurge
      BY <1>1, <2>1 DEF IInv, TypeOK, LogsNotOverdue
    <2>4. b \in Age /\ b <= a + 1
      BY <2>2, <2>3, OlderAge
    <2> QED
      BY <1>1, <2>1, <2>3, <2>4, RetentionAssumption, MaxAgeAssumption DEF Age
  <1> QED
    BY <1>5, <1>8, <1>9, <1>10, <1>11 DEF IInv

---------------------------------------------------------------------------
(* Erasure.                                                                *)

\* Only a purge takes a shop's settings, and then everything the shop has.
LEMMA OnlyPurgesErase ==
    ASSUME IInv, [Next]_vars, NEW s \in Shops, data[s], ~data'[s]
    PROVE  s \in Expired(conn) /\ conn'[s] = Null /\ logs'[s] = {}
  <1>1. data \in [Shops -> BOOLEAN]
    BY DEF IInv, TypeOK
  <1>2. ASSUME NEW t \in Shops, \/ data' = data
                               \/ data' = [data EXCEPT ![t] = TRUE]
        PROVE  FALSE
    BY <1>1, <1>2
  <1>3. ASSUME NEW t \in Shops, ShopStep(t) PROVE FALSE
    <2>1. data' = data \/ data' = [data EXCEPT ![t] = TRUE]
      BY <1>3 DEF ShopStep, Install, Uninstall, UninstallUnnamed, IframeEntry, BackfillLicense,
                  DeleteLink, SaveSettings, ResolveShopClient, WebhookRefused, WebhookStopped,
                  NoData, AddSyncLog
    <2> QED
      BY <1>2, <2>1
  <1>4. ASSUME NEW r \in Requests, RequestStep(r) PROVE FALSE
    <2>1. CASE data' = data
      BY <1>2, <2>1
    <2>2. CASE AddSyncLog(request[r].shop) /\ Pending(r, "webhook")
      <3>1. request[r].shop \in Shops
        BY <2>2, PendingType DEF IInv
      <3> QED
        BY <1>2, <2>2, <3>1 DEF AddSyncLog
    <2> QED
      BY <1>4, <2>1, <2>2
         DEF RequestStep, LinkStart, WebhookStart, LinkTestAccepted, LinkAccepted, LinkRejected,
             WebhookDone, WebhookUnauthorized, WebhookUnauthorizedGone, NoData
  <1>5. ASSUME Crash \/ Tick \/ UNCHANGED vars PROVE FALSE
    BY <1>2, <1>5 DEF Crash, Tick, vars
  <1>6. ASSUME NEW gone \in SUBSET Expired(conn), NEW l, PurgeShops(gone, l)
        PROVE  s \in Expired(conn) /\ conn'[s] = Null /\ logs'[s] = {}
    <2>1. data'[s] = (data[s] /\ s \notin gone)
      BY <1>6 DEF PurgeShops
    <2>2. s \in gone
      BY <2>1
    <2> QED
      BY <1>6, <2>2 DEF PurgeShops
  <1>7. CASE Purge
    BY <1>6, <1>7 DEF Purge, RunPurge
  <1>8. CASE CrashInPurge
    BY <1>6, <1>8 DEF CrashInPurge
  <1>9. CASE Boot
    <2>1. data'[s] = (data[s] /\ s \notin Expired(conn))
      BY <1>9 DEF Boot
    <2>2. s \in Expired(conn)
      BY <2>1
    <2>3. logs'[s] = {}
      BY <1>9, <2>2 DEF Boot
    <2>4. conn'[s] = Null
      BY <1>9, <2>2 DEF Boot, UnderNewKey
    <2> QED
      BY <2>2, <2>3, <2>4
  <1> QED
    BY <1>3, <1>4, <1>5, <1>7, <1>8, <1>9 DEF Next

\* No row of the table disappears.
Keeps(table, next) ==
    /\ next \in Table
    /\ \A s \in Shops : HasRow(table, s) => HasRow(next, s)

LEMMA UpsertKeeps ==
    ASSUME NEW table \in Table, NEW s \in Shops, NEW payload \in Payload
    PROVE  Keeps(table, Upsert(table, s, payload)) /\ HasRow(Upsert(table, s, payload), s)
  <1> DEFINE old == IF HasRow(table, s) THEN table[s] ELSE FreshRow
  <1>1. old \in Row
    BY FreshRowType DEF HasRow, Table
  <1>2. Merge(payload, old) \in Row /\ Merge(payload, old) # Null
    BY <1>1, MergeRow, NoRowAssumption
  <1>3. Upsert(table, s, payload) = [table EXCEPT ![s] = Merge(payload, old)]
    BY DEF Upsert
  <1> HIDE DEF old
  <1> QED
    BY <1>2, <1>3 DEF Keeps, Table, HasRow

\* The operations that go through upsert.
LEMMA UpsertingKeeps ==
    ASSUME NEW table \in Table, NEW s \in Shops, NEW url \in {"known", Null}
    PROVE  /\ Keeps(table, RegisterInstallation(table, s, url))
           /\ HasRow(RegisterInstallation(table, s, url), s)
           /\ Keeps(table, SaveLink(table, s, url))
           /\ HasRow(table, s) => /\ Keeps(table, SaveShoperTokens(table, s))
                                 /\ Keeps(table, MarkTokenInvalid(table, s))
                                 /\ Keeps(table, UpdateTokenVerification(table, s))
                                 /\ Keeps(table, UpdateShopUrl(table, s))
  <1>1. /\ Keeps(table, RegisterInstallation(table, s, url))
        /\ HasRow(RegisterInstallation(table, s, url), s)
    <2>1. [NoPayload EXCEPT !.status = "installed_not_linked", !.shopUrl = url] \in Payload
      BY DEF NoPayload, FreshRow, Payload, Status
    <2> QED
      BY <2>1, UpsertKeeps DEF RegisterInstallation
  <1>2. Keeps(table, SaveLink(table, s, url))
    <2>1. [NoPayload EXCEPT !.status = "linked", !.idoxxyToken = "readable",
                            !.shopUrl = url] \in Payload
      BY DEF NoPayload, FreshRow, Payload, Status, TokenForm
    <2> QED
      BY <2>1, UpsertKeeps DEF SaveLink
  <1>3. ASSUME HasRow(table, s)
        PROVE  /\ [table[s] EXCEPT !.shoperTokens = "saved"] \in Payload
               /\ [table[s] EXCEPT !.status = "token_invalid", !.revokedAt = Null] \in Payload
               /\ [table[s] EXCEPT !.status = IF @ = "token_invalid" THEN "linked" ELSE @]
                    \in Payload
               /\ [table[s] EXCEPT !.shopUrl = "known"] \in Payload
    BY <1>3 DEF HasRow, Table, Row, Payload, Status
  <1> QED
    BY <1>1, <1>2, <1>3, UpsertKeeps
       DEF SaveShoperTokens, MarkTokenInvalid, UpdateTokenVerification, UpdateShopUrl

\* The narrow updates, and what calls them.
LEMMA NarrowKeeps ==
    ASSUME NEW table \in Table, NEW s \in Shops
    PROVE  /\ Keeps(table, table)
           /\ Keeps(table, RecordShoperLicense(table, s))
           /\ HasRow(table, s) => Keeps(table, RevokeAndWipeTokens(table, s))
           /\ Keeps(table, DecodeToken(table, s))
  <1> USE NoRowAssumption DEF Keeps, Table, HasRow
  <1>1. Keeps(table, table)
    OBVIOUS
  <1>2. Keeps(table, RecordShoperLicense(table, s))
    BY DEF RecordShoperLicense, Row
  <1>3. ASSUME HasRow(table, s) PROVE Keeps(table, RevokeAndWipeTokens(table, s))
    <2>1. [table[s] EXCEPT !.status = "revoked", !.revokedAt = 0,
                           !.idoxxyToken = Null, !.shoperTokens = Null] \in Row
      <3>1. table[s] \in Row /\ 0 \in Age
        BY <1>3, MaxAgeAssumption DEF Age
      <3> QED
        BY <3>1 DEF Row, Status
    <2> QED
      BY <2>1 DEF RevokeAndWipeTokens
  <1>4. ASSUME HasRow(table, s) PROVE Keeps(table, UpdateTokenColumn(table, s))
    BY <1>4 DEF UpdateTokenColumn, Row, TokenForm
  <1>5. Keeps(table, DecodeToken(table, s))
    BY <1>1, <1>4, UpsertingKeeps DEF DecodeToken
  <1> QED
    BY <1>1, <1>2, <1>3, <1>5

\* A handler that calls two operations keeps what each keeps.
LEMMA KeepsTransitive ==
    ASSUME NEW a, NEW b, NEW c, Keeps(a, b), Keeps(b, c)
    PROVE  Keeps(a, c)
  BY DEF Keeps

\* Of what the handlers do, only unlinking takes a row.
LEMMA HandlersKeepRows ==
    ASSUME IInv, NEW s \in Shops, ShopStep(s) \/ \E r \in Requests : RequestStep(r)
    PROVE  Keeps(conn, conn') \/ DeleteLink(s)
    <1>1. conn \in Table
    BY DEF IInv, TypeOK, Table
  <1>2. ASSUME NEW t \in Shops, NEW table \in Resolved(t)
        PROVE  Keeps(conn, table) /\ Keeps(conn, DecodeToken(table, t))
    <2>1. Keeps(conn, table)
      BY <1>1, <1>2, NarrowKeeps, UpsertingKeeps DEF Resolved
    <2> QED
      BY <2>1, NarrowKeeps, KeepsTransitive DEF Keeps
  <1>3. ASSUME NEW t \in Shops, NEW url \in {"known", Null}
        PROVE  LET registered == RegisterInstallation(conn, t, url) IN
               /\ Keeps(conn, registered)
               /\ Keeps(conn, RecordShoperLicense(registered, t))
               /\ Keeps(conn, DecodeToken(registered, t))
               /\ Keeps(conn, SaveShoperTokens(registered, t))
               /\ Keeps(conn, RecordShoperLicense(SaveShoperTokens(registered, t), t))
    <2> DEFINE registered == RegisterInstallation(conn, t, url)
    <2>1. Keeps(conn, registered) /\ HasRow(registered, t)
      BY <1>1, UpsertingKeeps
    <2> HIDE DEF registered
    <2>2. registered \in Table
      BY <2>1 DEF Keeps
    <2>3. Keeps(conn, RecordShoperLicense(registered, t)) /\ Keeps(conn, DecodeToken(registered, t))
      BY <2>1, <2>2, NarrowKeeps, KeepsTransitive
    <2>4. Keeps(conn, SaveShoperTokens(registered, t))
      BY <1>3, <2>1, <2>2, UpsertingKeeps, KeepsTransitive
    <2>5. SaveShoperTokens(registered, t) \in Table
      BY <2>4 DEF Keeps
    <2>6. Keeps(conn, RecordShoperLicense(SaveShoperTokens(registered, t), t))
      BY <2>4, <2>5, NarrowKeeps, KeepsTransitive
    <2> QED
      BY <2>1, <2>3, <2>4, <2>6 DEF registered
  <1>4. CASE ShopStep(s) /\ ~DeleteLink(s)
    <2>1. CASE Install(s) \/ IframeEntry(s)
      BY <1>3, <2>1 DEF Install, IframeEntry
    <2>2. CASE UninstallCallback(s) \/ BackfillLicense(s) \/ ResolveShopClient(s)
      BY <1>1, <2>2, NarrowKeeps
         DEF UninstallCallback, Uninstall, UninstallUnnamed, BackfillLicense, ResolveShopClient
    <2>3. CASE WebhookRefused(s) \/ WebhookStopped(s)
      BY <1>2, <2>3 DEF WebhookRefused, WebhookStopped
    <2>4. CASE SaveSettings(s)
      BY <1>1, <2>4, NarrowKeeps DEF SaveSettings
    <2> QED
      BY <1>4, <2>1, <2>2, <2>3, <2>4 DEF ShopStep, UninstallCallback
  <1>5. ASSUME NEW r \in Requests, RequestStep(r) PROVE Keeps(conn, conn')
    <2>1. ASSUME NEW kind, NEW t \in Shops, LinkStart(r, kind, t) PROVE Keeps(conn, conn')
      BY <1>3, <2>1 DEF LinkStart
    <2>2. ASSUME NEW t \in Shops, WebhookStart(r, t) PROVE Keeps(conn, conn')
      BY <1>2, <2>2 DEF WebhookStart
    <2>3. ASSUME NEW kind, Pending(r, kind)
          PROVE  request[r].shop \in Shops /\ request[r].url \in {"known", Null}
      BY <2>3, PendingType DEF IInv
    <2>4. CASE LinkTestAccepted(r) \/ LinkAccepted(r) \/ WebhookUnauthorized(r)
      BY <1>1, <2>3, <2>4, NarrowKeeps, UpsertingKeeps
         DEF LinkTestAccepted, LinkAccepted, WebhookUnauthorized
    <2>5. CASE LinkRejected(r) \/ WebhookDone(r) \/ WebhookUnauthorizedGone(r)
      BY <1>1, <2>5, NarrowKeeps DEF LinkRejected, WebhookDone, WebhookUnauthorizedGone
    <2> QED
      BY <1>5, <2>1, <2>2, <2>4, <2>5 DEF RequestStep
  <1> QED
    BY <1>4, <1>5

\* A row goes with everything its shop has, or by unlinking.
LEMMA RowsGoWhole ==
    ASSUME IInv, [Next]_vars, NEW s \in Shops, HasRow(conn, s), ~HasRow(conn', s)
    PROVE  Erases(s) \/ DeleteLink(s)
  <1>1. conn \in Table /\ conn[s] # Null /\ conn'[s] = Null
    BY DEF HasRow, IInv, TypeOK, Table
  <1>2. ASSUME Keeps(conn, conn') PROVE FALSE
    BY <1>2 DEF Keeps
  <1>3. ASSUME NEW t \in Shops, DeleteLink(t) PROVE t = s
    BY <1>1, <1>3 DEF DeleteLink, DeleteConnection, Table
  <1>4. CASE (\E t \in Shops : ShopStep(t)) \/ (\E r \in Requests : RequestStep(r))
    BY <1>2, <1>3, <1>4, HandlersKeepRows
  <1>5. ASSUME NEW gone \in SUBSET Expired(conn), NEW l, PurgeShops(gone, l)
        PROVE  Erases(s)
    <2>1. s \in gone
      BY <1>1, <1>5 DEF PurgeShops
    <2> QED
      BY <1>1, <1>5, <2>1 DEF PurgeShops, Erases
  <1>6. CASE Purge
    BY <1>5, <1>6 DEF Purge, RunPurge
  <1>7. CASE CrashInPurge
    BY <1>5, <1>7 DEF CrashInPurge
  <1>8. CASE Boot
    <2>1. s \in Expired(conn)
      <3> SUFFICES ASSUME s \notin Expired(conn) PROVE FALSE
        OBVIOUS
      <3>1. conn[s] \in Row
        BY <1>1 DEF Table
      <3>2. conn'[s] \in {conn[s], [conn[s] EXCEPT !.idoxxyToken = "unreadable"]}
        BY <1>1, <1>8 DEF Boot, UnderNewKey
      <3>3. conn'[s] \in Row
        BY <3>1, <3>2 DEF Row, TokenForm
      <3> QED
        BY <1>1, <3>3, NoRowAssumption
    <2> QED
      BY <1>1, <1>8, <2>1 DEF Boot, Erases
  <1>9. CASE Tick
    <2>1. conn[s] \in Row
      BY <1>1 DEF Table
    <2>2. [conn[s] EXCEPT !.revokedAt = Older(@)] \in Row
      <3>1. \A a \in Age \cup {Null} : Older(a) \in Age \cup {Null}
        BY OlderAge DEF Older
      <3> QED
        BY <2>1, <3>1 DEF Row
    <2> QED
      BY <1>1, <1>9, <2>2, NoRowAssumption DEF Tick, AgedRow
  <1>10. CASE Crash \/ UNCHANGED vars
    BY <1>1, <1>10 DEF Crash, vars
  <1> QED
    BY <1>4, <1>6, <1>7, <1>8, <1>9, <1>10 DEF Next

\* A shop the purge may take was uninstalled at least the grace period ago.
LEMMA ExpiredIsUninstalled ==
    ASSUME IInv, NEW s \in Expired(conn)
    PROVE  uninstalled[s] # Null /\ uninstalled[s] >= Grace
  BY DEF Expired, IInv, RevokedStampFresh, Revoked

---------------------------------------------------------------------------
(* Logs: what takes a young one, and what a webhook leaves.                *)

\* Handlers only add to the logs.
LEMMA HandlersKeepLogs ==
    ASSUME IInv, NEW s \in Shops,
           (\E t \in Shops : ShopStep(t)) \/ (\E r \in Requests : RequestStep(r))
    PROVE  logs[s] \subseteq logs'[s]
  <1>1. logs \in [Shops -> SUBSET Age]
    BY DEF IInv, TypeOK
  <1>2. NoData \/ logs' = logs \/ \E t \in Shops : AddSyncLog(t)
    <2>1. ASSUME NEW t \in Shops, ShopStep(t)
          PROVE  NoData \/ logs' = logs \/ AddSyncLog(t)
      BY <2>1 DEF ShopStep, Install, Uninstall, UninstallUnnamed, IframeEntry, BackfillLicense,
                  DeleteLink, SaveSettings, ResolveShopClient, WebhookRefused, WebhookStopped
    <2>2. ASSUME NEW r \in Requests, RequestStep(r)
          PROVE  NoData \/ \E t \in Shops : AddSyncLog(t)
      <3>1. CASE NoData
        BY <3>1
      <3>2. CASE AddSyncLog(request[r].shop) /\ Pending(r, "webhook")
        BY <3>2, PendingType DEF IInv
      <3> QED
        BY <2>2, <3>1, <3>2
           DEF RequestStep, LinkStart, WebhookStart, LinkTestAccepted, LinkAccepted,
               LinkRejected, WebhookDone, WebhookUnauthorized, WebhookUnauthorizedGone
    <2> QED
      BY <2>1, <2>2
  <1>3. ASSUME NEW t \in Shops, AddSyncLog(t) PROVE logs[s] \subseteq logs'[s]
    BY <1>1, <1>3 DEF AddSyncLog
  <1> QED
    BY <1>2, <1>3 DEF NoData

\* A step that takes a log the retention window covers takes its shop.
LEMMA OnlyErasureTakesYoung ==
    ASSUME IInv, [Next]_vars, NEW s \in Shops, NEW a \in logs[s],
           a < Retention, a \notin logs'[s], Older(a) \notin logs'[s]
    PROVE  conn[s] # Null /\ conn'[s] = Null /\ ~data'[s]
  <1>1. ~(logs[s] \subseteq logs'[s])
    OBVIOUS
  <1>2. ASSUME NEW gone \in SUBSET Expired(conn), PurgeShops(gone, PurgeExpiredSyncLogs(logs))
        PROVE  conn[s] # Null /\ conn'[s] = Null /\ ~data'[s]
    <2>1. s \in gone
      BY <1>2 DEF PurgeShops, PurgeExpiredSyncLogs
    <2> QED
      BY <1>2, <2>1 DEF PurgeShops, Expired, HasRow
  <1>3. CASE (\E t \in Shops : ShopStep(t)) \/ (\E r \in Requests : RequestStep(r))
    BY <1>1, <1>3, HandlersKeepLogs
  <1>4. CASE Crash \/ UNCHANGED vars
    BY <1>1, <1>4 DEF Crash, vars
  <1>5. CASE Tick
    BY <1>5 DEF Tick
  <1>6. CASE Purge
    BY <1>2, <1>6 DEF Purge, RunPurge
  <1>7. CASE CrashInPurge
    BY <1>2, <1>7 DEF CrashInPurge
  <1>8. CASE Boot
    <2>1. s \in Expired(conn)
      BY <1>8 DEF Boot, PurgeExpiredSyncLogs
    <2>2. conn'[s] = Null
      BY <1>8, <2>1 DEF Boot, UnderNewKey
    <2> QED
      BY <1>8, <2>1, <2>2 DEF Boot, Expired, HasRow
  <1> QED
    BY <1>3, <1>4, <1>5, <1>6, <1>7, <1>8 DEF Next

\* The three ways a webhook gets its answer: two of them log it, the third
\* has no row to log for.
LEMMA WebhookEndsLogged ==
    ASSUME IInv, [Next]_vars, NEW r \in Requests, WebhookEnds(r),
           HasRow(conn, request[r].shop)
    PROVE  0 \in logs'[request[r].shop]
  <1>1. /\ up' /\ request[r] # Null /\ request[r].kind = "webhook" /\ request'[r] = Null
        /\ request[r].shop \in Shops
    BY DEF WebhookEnds, IInv, TypeOK, Request
  <1>2. request' # request
    BY <1>1
  <1>3. ASSUME NEW q \in Requests, NEW kind, NEW t, NEW url,
               request[q] = Null, Await(q, kind, t, url)
        PROVE  FALSE
    BY <1>1, <1>3 DEF Await, IInv, TypeOK
  <1>4. ASSUME NEW q \in Requests, Answer(q) PROVE q = r
    BY <1>1, <1>4 DEF Answer, IInv, TypeOK
  <1>5. ASSUME AddSyncLog(request[r].shop) PROVE 0 \in logs'[request[r].shop]
    BY <1>1, <1>5 DEF AddSyncLog, IInv, TypeOK
  <1>6. ASSUME NEW s \in Shops, ShopStep(s) PROVE FALSE
    BY <1>2, <1>6 DEF ShopStep, Install, Uninstall, UninstallUnnamed, IframeEntry,
         BackfillLicense, DeleteLink, SaveSettings, ResolveShopClient, WebhookRefused,
         WebhookStopped
  <1>7. ASSUME NEW q \in Requests, RequestStep(q) PROVE 0 \in logs'[request[r].shop]
    <2>1. ASSUME NEW kind, NEW s \in Shops, LinkStart(q, kind, s) PROVE FALSE
      BY <1>2, <1>3, <2>1 DEF LinkStart
    <2>2. ASSUME NEW s \in Shops, WebhookStart(q, s) PROVE FALSE
      BY <1>3, <2>2 DEF WebhookStart
    <2>3. CASE LinkTestAccepted(q) \/ LinkAccepted(q) \/ LinkRejected(q)
      BY <1>1, <1>4, <2>3 DEF LinkTestAccepted, LinkAccepted, LinkRejected, Pending
    <2>4. CASE WebhookDone(q) \/ WebhookUnauthorized(q)
      BY <1>4, <1>5, <2>4 DEF WebhookDone, WebhookUnauthorized
    <2>5. CASE WebhookUnauthorizedGone(q)
      BY <1>4, <2>5 DEF WebhookUnauthorizedGone
    <2> QED
      BY <1>7, <2>1, <2>2, <2>3, <2>4, <2>5 DEF RequestStep
  <1>8. CASE Crash \/ CrashInPurge
    BY <1>1, <1>8 DEF Crash, CrashInPurge
  <1>9. CASE Purge \/ Boot \/ Tick \/ UNCHANGED vars
    BY <1>2, <1>9 DEF Purge, Boot, Tick, vars
  <1> QED
    BY <1>6, <1>7, <1>8, <1>9 DEF Next

---------------------------------------------------------------------------
(* The theorems.                                                           *)

LEMMA InitIInv ==
    ASSUME Init
    PROVE  IInv
  <1>1. \A row \in LegacyRows : row \in Row /\ row.status = "linked"
    BY DEF LegacyRows, FreshRow, Row, Status, TokenForm
  <1>2. TypeOK
    BY <1>1, RetentionAssumption DEF Init, TypeOK
  <1>3. \A s \in Shops : ~Revoked(s)
    BY <1>1 DEF Init, Revoked, HasRow
  <1> QED
    BY <1>2, <1>3
       DEF IInv, RevokedHasNoTokens, RevokedStampFresh, RevokedNotOverdue, LogsNotOverdue, Init

LEMMA NextKeepsIInv ==
    ASSUME IInv, [Next]_vars
    PROVE  IInv'
  <1>1. CASE UNCHANGED vars
    BY <1>1 DEF vars, IInv, TypeOK, RevokedHasNoTokens, RevokedStampFresh,
                RevokedNotOverdue, LogsNotOverdue, Revoked, HasRow
  <1>2. CASE Next
    BY <1>2, ShopStepKeeps, UninstallKeeps, RequestStepKeeps, PurgeKeeps, CrashKeeps,
       CrashInPurgeKeeps, BootKeeps, TickKeeps DEF Next
  <1> QED
    BY <1>1, <1>2

\* The invariant holds in every reachable state of every instance.
THEOREM Invariance == Spec => []IInv
  <1>1. Init => IInv
    BY InitIInv
  <1>2. IInv /\ [Next]_vars => IInv'
    BY NextKeepsIInv
  <1> QED
    BY <1>1, <1>2, PTL DEF Spec

\* Type correctness of the tables, the request slots and the ages.
THEOREM TypeCorrect == Spec => []TypeOK
  BY Invariance, PTL DEF IInv

\* No interleaving of link answers, webhook answers, purges and crashes puts a
\* token back into a revoked row (revokeAndWipeTokens against saveLink,
\* saveShoperTokens and decodeToken).
THEOREM NoTokensAfterRevocation == Spec => []RevokedHasNoTokens
  BY Invariance, PTL DEF IInv

\* The grace period of a revoked shop counts from its last uninstall, however
\* many reinstalls the stamp has survived in between (upsert's merge).
THEOREM GraceFromLastUninstall == Spec => []RevokedStampFresh
  BY Invariance, PTL DEF IInv

\* No running process keeps a revoked shop longer than the grace period and
\* one interval, for every grace period and interval (runPurge at boot and on
\* the interval).
THEOREM RevokedErasedInTime == Spec => []RevokedNotOverdue
  BY Invariance, PTL DEF IInv

\* The same for the sync logs of every shop and the retention window.
THEOREM LogsErasedInTime == Spec => []LogsNotOverdue
  BY Invariance, PTL DEF IInv

\* A reinstall inside the grace period finds its settings, and an erasure is
\* total, for every interleaving and every crash in the purge (purgeOneShop).
THEOREM ErasureOnlyAfterGrace == Spec => ErasedOnlyAfterGrace
  <1>1. IInv /\ [Next]_vars =>
          \A s \in Shops :
             /\ data[s] /\ ~data'[s] => /\ uninstalled[s] # Null
                                        /\ uninstalled[s] >= Grace
                                        /\ Erases(s)
             /\ HasRow(conn, s) /\ ~HasRow(conn', s) => Erases(s) \/ DeleteLink(s)
    BY OnlyPurgesErase, ExpiredIsUninstalled, RowsGoWhole DEF Erases
  <1> QED
    BY <1>1, Invariance, PTL DEF Spec, ErasedOnlyAfterGrace

\* No purge, early or late, crashed or whole, takes a log before its time
\* unless it takes the whole shop (purgeExpiredSyncLogs, purgeOneShop).
THEOREM LogsKeptInWindow == Spec => YoungLogsKept
  <1>1. IInv /\ [Next]_vars =>
          \A s \in Shops :
             (\E a \in logs[s] : a < Retention /\ a \notin logs'[s] /\ Older(a) \notin logs'[s])
             => conn[s] # Null /\ conn'[s] = Null /\ ~data'[s]
    BY OnlyErasureTakesYoung
  <1> QED
    BY <1>1, Invariance, PTL DEF Spec, YoungLogsKept

\* A webhook that called iDoxxy leaves a log, whatever happened while it waited,
\* as long as the row of its shop is there (the catch block of webhooks.ts).
THEOREM WebhooksAudited == Spec => AuditWhileConnected
  <1>1. IInv /\ [Next]_vars =>
          \A r \in Requests :
             WebhookEnds(r) /\ HasRow(conn, request[r].shop) => 0 \in logs'[request[r].shop]
    BY WebhookEndsLogged
  <1> QED
    BY <1>1, Invariance, PTL DEF Spec, AuditWhileConnected
=============================================================================
