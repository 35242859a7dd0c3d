-------------------------- MODULE ShopConnections --------------------------
(***************************************************************************)
(* The shop_connections table and the operations of                        *)
(* ShopConnectionRepository and ShopConnectionService on it.               *)
(*                                                                         *)
(* Every operation is synchronous in the program (better-sqlite3), so each *)
(* is an operator from the table before the call to the table after it.    *)
(* Columns the properties do not tell apart (base URL, workspace, audit    *)
(* metadata, last error, timestamps other than revoked_at, ...) are left   *)
(* out; the access and refresh token columns are always written and wiped  *)
(* together and are the one column shoperTokens.                           *)
(*                                                                         *)
(* revoked_at is held as the AGE of the stamp, in ticks of a clock that    *)
(* ShopLifecycle advances, and saturates at MaxAge.                        *)
(***************************************************************************)
EXTENDS Integers

CONSTANTS
    Shops,      \* shop ids
    Null,       \* SQL NULL, JavaScript undefined, and "no such row"
    MaxAge      \* the age at which ages stop growing

ASSUME MaxAgeAssumption == MaxAge \in Nat \ {0}

Status == {"installed_not_linked", "linked", "token_invalid", "revoked"}

\* What a stored iDoxxy token is to decodeToken: "legacy" is plain base64 of
\* the token, "readable" is ciphertext under the current key, "unreadable" is
\* ciphertext under a key that has since been replaced.
TokenForm == {"legacy", "readable", "unreadable"}

Age == 0 .. MaxAge

ASSUME NullAssumption ==
    /\ Null \notin Status \cup TokenForm \cup {"saved", "known"}
    /\ Null \notin Age

Row == [ status       : Status,
         idoxxyToken  : TokenForm \cup {Null},
         shoperTokens : {"saved", Null},
         shopUrl      : {"known", Null},
         license      : {"known", Null},
         revokedAt    : Age \cup {Null} ]

ASSUME NoRowAssumption == Null \notin Row

HasRow(table, s) == table[s] # Null

(***************************************************************************)
(* upsert: `payload.column ?? existing.column ?? null` for every column.   *)
(* An undefined payload column never clears what the row holds.            *)
(***************************************************************************)
Coalesce(a, b) == IF a = Null THEN b ELSE a

\* The row an INSERT starts from: status defaults, every other column is NULL.
FreshRow == [ status       |-> "installed_not_linked",
              idoxxyToken  |-> Null,
              shoperTokens |-> Null,
              shopUrl      |-> Null,
              license      |-> Null,
              revokedAt    |-> Null ]

\* The payload with every column undefined.
NoPayload == [FreshRow EXCEPT !.status = Null]

Merge(payload, row) ==
    [ status       |-> Coalesce(payload.status, row.status),
      idoxxyToken  |-> Coalesce(payload.idoxxyToken, row.idoxxyToken),
      shoperTokens |-> Coalesce(payload.shoperTokens, row.shoperTokens),
      shopUrl      |-> Coalesce(payload.shopUrl, row.shopUrl),
      license      |-> Coalesce(payload.license, row.license),
      revokedAt    |-> Coalesce(payload.revokedAt, row.revokedAt) ]

Upsert(table, s, payload) ==
    [table EXCEPT ![s] =
        Merge(payload, IF HasRow(table, s) THEN table[s] ELSE FreshRow)]

(***************************************************************************)
(* Operations that create the row when it is missing.                      *)
(***************************************************************************)
RegisterInstallation(table, s, url) ==
    Upsert(table, s, [NoPayload EXCEPT !.status = "installed_not_linked",
                                       !.shopUrl = url])

SaveLink(table, s, url) ==
    Upsert(table, s, [NoPayload EXCEPT !.status = "linked",
                                       !.idoxxyToken = "readable",
                                       !.shopUrl = url])

(***************************************************************************)
(* Operations on an existing row.  In the code the first three read it     *)
(* with getOrThrow or an explicit check and throw when it is missing:      *)
(* whoever calls them here states HasRow(table, s) or handles the throw.   *)
(***************************************************************************)
SaveShoperTokens(table, s) ==
    Upsert(table, s, [table[s] EXCEPT !.shoperTokens = "saved"])

\* revokedAt is undefined in the payload: the merge keeps the old stamp.
MarkTokenInvalid(table, s) ==
    Upsert(table, s, [table[s] EXCEPT !.status = "token_invalid",
                                      !.revokedAt = Null])

\* Only token_invalid is promoted; every other status is written back as read.
UpdateTokenVerification(table, s) ==
    Upsert(table, s,
           [table[s] EXCEPT !.status =
               IF @ = "token_invalid" THEN "linked" ELSE @])

UpdateShopUrl(table, s) ==
    Upsert(table, s, [table[s] EXCEPT !.shopUrl = "known"])

\* Seeded fault: the wipe goes through upsert, as revoke() does.
RevokeAndWipeTokensByMerge(table, s) ==
    Upsert(table, s, [NoPayload EXCEPT !.status = "revoked", !.revokedAt = 0])

\* Seeded fault: `revoked_at = COALESCE(revoked_at, ?)`.
RevokeAndWipeTokensKeepingStamp(table, s) ==
    [table EXCEPT ![s] = [@ EXCEPT !.status = "revoked",
                                   !.revokedAt = Coalesce(@, 0),
                                   !.idoxxyToken = Null,
                                   !.shoperTokens = Null]]

\* One narrow UPDATE that bypasses the merge, so that NULL really clears.
RevokeAndWipeTokens(table, s) ==
    [table EXCEPT ![s] = [@ EXCEPT !.status = "revoked",
                                   !.revokedAt = 0,
                                   !.idoxxyToken = Null,
                                   !.shoperTokens = Null]]

\* A narrow UPDATE of one column; no row, no effect.
RecordShoperLicense(table, s) ==
    IF HasRow(table, s)
    THEN [table EXCEPT ![s] = [@ EXCEPT !.license = "known"]]
    ELSE table

UpdateTokenColumn(table, s) ==
    [table EXCEPT ![s] = [@ EXCEPT !.idoxxyToken = "readable"]]

DeleteConnection(table, s) == [table EXCEPT ![s] = Null]

(***************************************************************************)
(* getToken: a stored token that no longer decrypts marks the connection   *)
(* token_invalid, a legacy one is re-encrypted in place.  CanDecode says   *)
(* whether the caller gets a token back.                                   *)
(***************************************************************************)
CanDecode(table, s) ==
    HasRow(table, s) /\ table[s].idoxxyToken \in {"legacy", "readable"}

DecodeToken(table, s) ==
    IF ~HasRow(table, s) THEN table
    ELSE IF table[s].idoxxyToken = "unreadable" THEN MarkTokenInvalid(table, s)
    ELSE IF table[s].idoxxyToken = "legacy" THEN UpdateTokenColumn(table, s)
    ELSE table
=============================================================================
