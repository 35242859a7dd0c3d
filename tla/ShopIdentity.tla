--------------------------- MODULE ShopIdentity ---------------------------
(***************************************************************************)
(* Which connection stands for which shop.  ShopLifecycle takes the id of  *)
(* a shop's row for granted; here it is what install.ts, settings.ts and   *)
(* webhooks.ts work it out from: the id Shoper's application-info gives,   *)
(* or else the number or the first label in the shop's address, the        *)
(* license, and the addresses the rows have recorded.                      *)
(*                                                                         *)
(* A row is reduced to what it is found by and to whose iDoxxy account it  *)
(* is linked to.  Handlers that await something are one step each.         *)
(*                                                                         *)
(* A session belongs to a cookie jar and not to a shop.  In production a   *)
(* browser keeps a jar for each page that embeds the panel (the cookie is  *)
(* Partitioned, app.ts); at the top level, where installations end, in a   *)
(* browser without partitions and outside production the shops a person    *)
(* works for share one.                                                    *)
(***************************************************************************)
EXTENDS Naturals, Sequences, FiniteSetsExt, SequencesExt

CONSTANTS
    Null, Shops, Ids, Hosts,
    Jars,       \* cookie jars of browsers
    ShopId,     \* shop_id of application-info
    LicenseId,  \* a shop's license, where it serves as an id
    Addresses,  \* technical and custom domain
    Canonical,  \* shop_url of application-config
    Number,     \* the first digits in a host, Null if it has none
    Label       \* its first label, without devshop-

ASSUME IdentityAssumption ==
    /\ Null \notin Shops \cup Ids \cup Hosts
    /\ ShopId \in [Shops -> Ids] /\ LicenseId \in [Shops -> Ids]
    /\ Addresses \in [Shops -> SUBSET Hosts] /\ Canonical \in [Shops -> Hosts]
    /\ Number \in [Hosts -> Ids \cup {Null}] /\ Label \in [Hosts -> Ids]
    /\ \A s \in Shops : Canonical[s] \in Addresses[s]
    /\ \A s, t \in Shops : s # t => Addresses[s] \cap Addresses[t] = {}

VARIABLES
    rows,       \* shop_connections by shop_id, Null where there is none
    listed,     \* the ids as listConnections orders them, newest row first
    session,    \* the session a jar holds the cookie of, Null without one
    crossed     \* history: ids of sessions that one shop opened and another used

vars == <<rows, listed, session, crossed>>

Row == [url : Hosts \cup {Null}, license : Shops \cup {Null},
        account : Shops \cup {Null}]    \* whose iDoxxy token it holds

Session == [id : Ids,          \* req.session.shopId
            shop : Shops]      \* history: whose proof opened it

ASSUME NoRowAssumption == Null \notin Row \cup Session

TypeOK ==
    /\ rows \in [Ids -> Row \cup {Null}]
    /\ listed \in Seq(Ids) /\ IsInjective(listed)
    /\ ToSet(listed) = {i \in Ids : rows[i] # Null}
    /\ session \in [Jars -> Session \cup {Null}]
    /\ crossed \subseteq Ids

Init ==
    /\ rows = [i \in Ids |-> Null]
    /\ listed = <<>>
    /\ session = [b \in Jars |-> Null]
    /\ crossed = {}

---------------------------------------------------------------------------
Fresh == [url |-> Null, license |-> Null, account |-> Null]

Current(i) == IF rows[i] = Null THEN Fresh ELSE rows[i]

Coalesce(a, b) == IF a = Null THEN b ELSE a

\* registerInstallation, then what else the handler records in the row.
Registered(i, url, license, account) ==
    [url |-> Coalesce(url, Current(i).url),
     license |-> Coalesce(license, Current(i).license),
     account |-> Coalesce(account, Current(i).account)]

\* ORDER BY created_at DESC, which an update leaves alone.
Listed(i) == IF rows[i] = Null THEN <<i>> \o listed ELSE listed

Write(i, row) ==
    /\ rows' = [rows EXCEPT ![i] = row]
    /\ listed' = Listed(i)

\* allConnections.find((c) => host of c.shopUrl === h)
FoundByUrl(h) ==
    LET hits == {k \in DOMAIN listed : rows[listed[k]].url = h}
    IN  IF hits = {} THEN Null ELSE listed[Min(hits)]

FoundByNumber(h) == IF Number[h] # Null /\ rows[Number[h]] # Null THEN Number[h] ELSE Null

\* Seeded fault: the deleted fallback, an only connection takes what is left.
OrTheOnlyOne(h) ==
    IF FoundByUrl(h) # Null THEN FoundByUrl(h)
    ELSE IF FoundByNumber(h) # Null THEN FoundByNumber(h)
    ELSE IF Len(listed) = 1 THEN listed[1] ELSE Null

\* resolveShopId, for a delivery that names its domain and no id.
ResolveShopId(h) == Coalesce(FoundByUrl(h), FoundByNumber(h))

\* establishShopSession, which may fail before or after the old session went.
Opened(b, s, i) ==
    session' \in {session} \cup {[session EXCEPT ![b] = new] :
                                     new \in {[id |-> i, shop |-> s], Null}}

HasSession(b) == session[b] # Null

\* Shop s works under the session its jar holds, whoever opened that.
ActsUnder(b, s) ==
    crossed' = IF session[b].shop = s THEN crossed ELSE crossed \cup {session[b].id}

---------------------------------------------------------------------------
\* GET /oauth/callback and GET /settings?action=install.  Either look-up at
\* the shop may fail, and then the address h that the request names stands in;
\* the callback need not name the license.
Install(b, s) ==
    /\ \E h \in Addresses[s], license \in {s, Null} :
         \E i \in {ShopId[s], Label[h]}, url \in {Canonical[s], h} :
            /\ Write(i, Registered(i, url, license, Null))
            /\ Opened(b, s, i)
    /\ UNCHANGED crossed

Mapped(s) == {i \in Ids : rows[i] # Null /\ rows[i].license = s}

\* Seeded fault: without an address, the first connection that is linked.
OrALinkedOne(s, h) ==
    LET linked == {i \in Ids : rows[i] # Null /\ Current(i).account # Null} IN
    IF h # Null THEN Label[h]
    ELSE IF linked # {} THEN CHOOSE i \in linked : TRUE ELSE LicenseId[s]

\* The id for a license no row has: from the address in the query or the
\* referer, else the license itself.
CandidateId(s, h) ==
    IF h = Null THEN LicenseId[s] ELSE IF Number[h] # Null THEN Number[h] ELSE Label[h]

\* GET /settings from the shop's panel, signature verified, without a session.
\* A license on several rows finds any one of them.
IframeEntry(b, s) ==
    /\ ~HasSession(b)
    /\ \/ \E i \in Mapped(s) :
            /\ Opened(b, s, i)
            /\ UNCHANGED <<rows, listed>>
       \/ /\ Mapped(s) = {}
          /\ \E h \in {Null} \cup Addresses[s] :
               LET i == CandidateId(s, h) IN
               /\ Write(i, Registered(i, h, s, Null))
               /\ Opened(b, s, i)
    /\ UNCHANGED crossed

\* The same with a session open: the license goes to the session's row, and
\* the panel works for that one, whichever shop it was opened for.
BackfillLicense(b, s) ==
    /\ HasSession(b)
    /\ LET i == session[b].id IN
       IF rows[i] # Null THEN Write(i, Registered(i, Null, s, Null))
                         ELSE UNCHANGED <<rows, listed>>
    /\ ActsUnder(b, s)
    /\ UNCHANGED session

\* POST /billing/automatic-messages
AutomaticMessage(s) ==
    /\ \E h \in Addresses[s] : FoundByUrl(h) # Null
          /\ Write(FoundByUrl(h), Registered(FoundByUrl(h), Null, s, Null))
    /\ UNCHANGED <<session, crossed>>

\* POST /settings/link; the form may name the shop's address.
Link(b, s) ==
    /\ HasSession(b)
    /\ \E url \in {Null} \cup Addresses[s] :
         Write(session[b].id, Registered(session[b].id, url, Null, s))
    /\ ActsUnder(b, s)
    /\ UNCHANGED session

\* DELETE /settings/link/:shopId
Unlink(b) ==
    /\ HasSession(b) /\ rows[session[b].id] # Null
    /\ rows' = [rows EXCEPT ![session[b].id] = Null]
    /\ \E k \in DOMAIN listed : listed[k] = session[b].id /\ listed' = RemoveAt(listed, k)
    /\ UNCHANGED <<session, crossed>>

\* The uninstall callbacks wipe the tokens of the row they find by address.
Uninstall(s) ==
    /\ \E h \in Addresses[s] : FoundByUrl(h) # Null
          /\ Write(FoundByUrl(h), [rows[FoundByUrl(h)] EXCEPT !.account = Null])
    /\ UNCHANGED <<session, crossed>>

\* A webhook found its row by number, and the row has no address yet.
LearnUrl(h) ==
    LET i == FoundByNumber(h) IN
    /\ FoundByUrl(h) = Null /\ i # Null
    /\ rows[i].url = Null
    /\ Write(i, [rows[i] EXCEPT !.url = h])
    /\ UNCHANGED <<session, crossed>>

\* Expired, destroyed, or the cookie is gone.
SessionEnds(b) ==
    /\ session' = [session EXCEPT ![b] = Null]
    /\ UNCHANGED <<rows, listed, crossed>>

Next ==
    \/ \E b \in Jars, s \in Shops :
          Install(b, s) \/ IframeEntry(b, s) \/ BackfillLicense(b, s) \/ Link(b, s)
    \/ \E b \in Jars : Unlink(b) \/ SessionEnds(b)
    \/ \E s \in Shops : AutomaticMessage(s) \/ Uninstall(s)
    \/ \E h \in Hosts : LearnUrl(h)

Spec == Init /\ [][Next]_vars

---------------------------------------------------------------------------
\* The ids that something which names the shop, or comes from it, may yield.
IdsOf(s) ==
    {ShopId[s], LicenseId[s]} \cup {Label[h] : h \in Addresses[s]}
        \cup ({Number[h] : h \in Addresses[s]} \ {Null})

\* Two shops can be worked out to be this one: an address, a label or a
\* license of the one spells an id of the other.
Contested(i) == \E s, t \in Shops : s # t /\ i \in IdsOf(s) \cap IdsOf(t)

\* The row is linked to the shop's own account or to none.
Serves(i, s) == i \in Ids /\ rows[i] # Null => rows[i].account \in {s, Null}

\* An id that only one shop can be, and whose session no other shop has used.
Clear(i) == ~Contested(i) /\ i \notin crossed

\* What a shop sends is handled with its own iDoxxy account or none: whatever
\* order shops install, enter, unlink and come back in, by whichever of their
\* addresses (resolveShopId guesses no shop).  Where two shops meet in one id
\* or one session their row may be either's, and no other row is affected.
WebhooksOwnAccount ==
    \A s \in Shops : \A h \in Addresses[s] :
        Clear(ResolveShopId(h)) => Serves(ResolveShopId(h), s)

\* And what is done under a session is done to the account of the shop that
\* opened it, or to none: the id it carries, however it was worked out, stands
\* for no other shop, with the same exceptions.
PanelOwnAccount ==
    \A b \in Jars : HasSession(b) /\ Clear(session[b].id) =>
        Serves(session[b].id, session[b].shop)
===========================================================================
