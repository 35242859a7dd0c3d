------------------------- MODULE CredentialProofs ---------------------------
(***************************************************************************)
(* In whose name a call is made.  The shop a request is taken for, for     *)
(* every number of shops and every set of addresses, numbers and labels    *)
(* (ShopIdentity), and the token a call to an API carries, for any number  *)
(* of calls, any lives and any timing (ClientTokens).                      *)
(***************************************************************************)
EXTENDS ShopIdentity, ClientTokens, SequenceTheorems, WellFoundedInduction, TLAPS

\* The row or session i may be shop s's: it is one of the shop's ids, or one
\* that shops met in.
May(i, s) == i \in crossed \/ i \in IdsOf(s)

\* A row is its shop's, in everything it was told and everything it holds.
RowsOwned ==
    \A i \in Ids, s \in Shops : rows[i] # Null =>
        /\ rows[i].account = s => May(i, s)
        /\ rows[i].license = s => May(i, s)
        /\ rows[i].url \in Addresses[s] => May(i, s)

SessionsOwned ==
    \A b \in Jars : HasSession(b) => May(session[b].id, session[b].shop)

IInv == TypeOK /\ RowsOwned /\ SessionsOwned

---------------------------------------------------------------------------
\* The ids of a shop are ids, and a number in its address is one if it is any.
LEMMA IdsOfType ==
    /\ \A s \in Shops : IdsOf(s) \subseteq Ids
    /\ \A s \in Shops : ShopId[s] \in IdsOf(s) /\ LicenseId[s] \in IdsOf(s)
    /\ \A s \in Shops : \A h \in Addresses[s] :
          h \in Hosts /\ Label[h] \in IdsOf(s) /\ Number[h] \in IdsOf(s) \cup {Null}
  BY IdentityAssumption DEF IdsOf

\* A set of numbers that is not empty has a least one.
LEMMA LeastOf == ASSUME NEW T, T \subseteq Nat, T # {} PROVE Min(T) \in T
<1>1. PICK x \in T : \A y \in T : ~ (<<y, x>> \in OpToRel(<, Nat))
  BY NatLessThanWellFounded, WFMin
<1>2. \A y \in T : x <= y
  <2> SUFFICES ASSUME NEW y \in T PROVE x <= y
    OBVIOUS
  <2>1. x \in Nat /\ y \in Nat
    OBVIOUS
  <2>2. ~ (y < x)
    BY <1>1, <2>1 DEF OpToRel
  <2> QED BY <2>1, <2>2
<1> QED BY <1>2, Zenon DEF Min

\* The list has the rows there are, and no other id.
LEMMA ListedAreRows ==
    ASSUME TypeOK
    PROVE  /\ \A k \in DOMAIN listed : listed[k] \in Ids /\ rows[listed[k]] # Null
           /\ \A i \in Ids : rows[i] # Null => \E k \in DOMAIN listed : listed[k] = i
<1>1. ToSet(listed) = {listed[k] : k \in DOMAIN listed}
  BY DEF ToSet
<1> QED BY <1>1 DEF TypeOK

\* The look-up by address returns a row that has it, or nothing.
LEMMA FoundHasUrl ==
    ASSUME TypeOK, NEW h, FoundByUrl(h) # Null
    PROVE  /\ FoundByUrl(h) \in Ids /\ rows[FoundByUrl(h)] # Null
           /\ rows[FoundByUrl(h)].url = h
<1> DEFINE hits == {k \in DOMAIN listed : rows[listed[k]].url = h}
<1>1. hits # {} /\ FoundByUrl(h) = listed[Min(hits)]
  BY DEF FoundByUrl
<1>2. hits \subseteq Nat
  BY DEF TypeOK
<1>3. Min(hits) \in hits
  BY <1>1, <1>2, LeastOf
<1> QED BY <1>1, <1>3, ListedAreRows

\* And so does the look-up by number.
LEMMA FoundHasNumber ==
    ASSUME TypeOK, NEW h \in Hosts, FoundByNumber(h) # Null
    PROVE  /\ FoundByNumber(h) = Number[h] /\ Number[h] \in Ids
           /\ rows[Number[h]] # Null
  BY IdentityAssumption DEF FoundByNumber

---------------------------------------------------------------------------
\* One row is written, and the list still has the rows there are.
LEMMA WriteKeepsTypes ==
    ASSUME TypeOK, NEW i \in Ids, NEW row \in Row, Write(i, row)
    PROVE  /\ rows' \in [Ids -> Row \cup {Null}] /\ rows'[i] = row /\ row # Null
           /\ \A j \in Ids \ {i} : rows'[j] = rows[j]
           /\ listed' \in Seq(Ids) /\ IsInjective(listed')
           /\ ToSet(listed') = {j \in Ids : rows'[j] # Null}
<1>1. /\ rows' \in [Ids -> Row \cup {Null}] /\ rows'[i] = row
      /\ \A j \in Ids \ {i} : rows'[j] = rows[j]
  BY DEF Write, TypeOK
<1>2. row # Null
  BY NoRowAssumption
<1>3. CASE rows[i] # Null
  <2>1. listed' = listed
    BY <1>3 DEF Write, Listed
  <2>2. {j \in Ids : rows'[j] # Null} = {j \in Ids : rows[j] # Null}
    BY <1>1, <1>2, <1>3
  <2> QED BY <1>1, <1>2, <2>1, <2>2 DEF TypeOK
<1>4. CASE rows[i] = Null
  <2>1. listed' = <<i>> \o listed
    BY <1>4 DEF Write, Listed
  <2>2. /\ listed \in Seq(Ids) /\ <<i>> \in Seq(Ids) /\ Len(<<i>>) = 1 /\ <<i>>[1] = i
        /\ Len(listed) \in Nat /\ DOMAIN listed = 1 .. Len(listed)
    BY DEF TypeOK
  <2>3. /\ listed' \in Seq(Ids) /\ Len(listed') = 1 + Len(listed)
        /\ \A k \in 1 .. 1 + Len(listed) :
             listed'[k] = IF k <= 1 THEN <<i>>[k] ELSE listed[k - 1]
    BY <2>1, <2>2, ConcatProperties
  <2>4. /\ DOMAIN listed' = 1 .. 1 + Len(listed)
        /\ listed'[1] = i
        /\ \A k \in 2 .. 1 + Len(listed) : k - 1 \in DOMAIN listed /\ listed'[k] = listed[k - 1]
    BY <2>2, <2>3
  <2>5. \A k \in DOMAIN listed : listed[k] # i
    BY <1>4, ListedAreRows
  <2>6. IsInjective(listed')
    <3> SUFFICES ASSUME NEW a \in DOMAIN listed', NEW b \in DOMAIN listed',
                        listed'[a] = listed'[b]
                 PROVE  a = b
      BY DEF IsInjective
    <3>1. \A k \in DOMAIN listed' : k # 1 =>
             k - 1 \in DOMAIN listed /\ listed'[k] = listed[k - 1] /\ listed'[k] # i
      BY <2>2, <2>4, <2>5
    <3>2. CASE a = 1 \/ b = 1
      BY <2>4, <3>1, <3>2
    <3>3. CASE a # 1 /\ b # 1
      <4>1. listed[a - 1] = listed[b - 1] /\ a - 1 \in DOMAIN listed /\ b - 1 \in DOMAIN listed
        BY <3>1, <3>3
      <4>2. a - 1 = b - 1
        BY <4>1 DEF TypeOK, IsInjective
      <4> QED BY <2>2, <2>4, <4>2
    <3> QED BY <3>2, <3>3
  <2>7. \A k \in DOMAIN listed' : listed'[k] \in Ids /\ rows'[listed'[k]] # Null
    <3> SUFFICES ASSUME NEW k \in DOMAIN listed'
                 PROVE  listed'[k] \in Ids /\ rows'[listed'[k]] # Null
      OBVIOUS
    <3>1. CASE k = 1
      BY <1>1, <1>2, <2>4, <3>1
    <3>2. CASE k # 1
      <4>1. k - 1 \in DOMAIN listed /\ listed'[k] = listed[k - 1]
        BY <2>2, <2>4, <3>2
      <4>2. listed[k - 1] \in Ids /\ rows[listed[k - 1]] # Null /\ listed[k - 1] # i
        BY <2>5, <4>1, ListedAreRows
      <4> QED BY <1>1, <4>1, <4>2
    <3> QED BY <3>1, <3>2
  <2>8. \A j \in Ids : rows'[j] # Null => \E k \in DOMAIN listed' : listed'[k] = j
    <3> SUFFICES ASSUME NEW j \in Ids, rows'[j] # Null
                 PROVE  \E k \in DOMAIN listed' : listed'[k] = j
      OBVIOUS
    <3>1. CASE j = i
      BY <2>2, <2>4, <3>1
    <3>2. CASE j # i
      <4>1. PICK k \in DOMAIN listed : listed[k] = j
        BY <1>1, <3>2, ListedAreRows
      <4>2. k + 1 \in DOMAIN listed' /\ listed'[k + 1] = listed[(k + 1) - 1] /\ (k + 1) - 1 = k
        BY <2>2, <2>4
      <4> QED BY <4>1, <4>2
    <3> QED BY <3>1, <3>2
  <2>9. ToSet(listed') = {j \in Ids : rows'[j] # Null}
    BY <2>7, <2>8 DEF ToSet
  <2> QED BY <1>1, <1>2, <2>3, <2>6, <2>9
<1> QED BY <1>3, <1>4

\* The part of the invariant that is about the table.
TableOwned ==
    /\ rows \in [Ids -> Row \cup {Null}]
    /\ listed \in Seq(Ids) /\ IsInjective(listed)
    /\ ToSet(listed) = {i \in Ids : rows[i] # Null}
    /\ RowsOwned

\* And the part that is about the sessions.
SessionsTyped ==
    /\ session \in [Jars -> Session \cup {Null}] /\ crossed \subseteq Ids
    /\ SessionsOwned

LEMMA InvParts == IInv <=> TableOwned /\ SessionsTyped
  BY DEF IInv, TypeOK, TableOwned, SessionsTyped

LEMMA InvPartsNext == IInv' <=> TableOwned' /\ SessionsTyped'
  BY DEF IInv, TypeOK, TableOwned, SessionsTyped

\* Sessions that shops meet in stay known as such.
Grows == crossed \subseteq crossed' /\ crossed' \subseteq Ids

LEMMA SameGrows == ASSUME IInv, UNCHANGED crossed PROVE Grows
  BY DEF IInv, TypeOK, Grows

\* A row whose parts are its shop's may be written.
LEMMA WriteKeeps ==
    ASSUME IInv, Grows, NEW i \in Ids, NEW row \in Row, Write(i, row),
           \A s \in Shops : /\ row.account = s => i \in crossed' \cup IdsOf(s)
                            /\ row.license = s => i \in crossed' \cup IdsOf(s)
                            /\ row.url \in Addresses[s] => i \in crossed' \cup IdsOf(s)
    PROVE  TableOwned'
<1>1. /\ rows' \in [Ids -> Row \cup {Null}] /\ rows'[i] = row /\ row # Null
      /\ \A j \in Ids \ {i} : rows'[j] = rows[j]
      /\ listed' \in Seq(Ids) /\ IsInjective(listed')
      /\ ToSet(listed') = {j \in Ids : rows'[j] # Null}
  BY WriteKeepsTypes DEF IInv
<1>2. RowsOwned'
  <2> SUFFICES ASSUME NEW j \in Ids, NEW s \in Shops, rows'[j] # Null
               PROVE  /\ rows'[j].account = s => j \in crossed' \cup IdsOf(s)
                      /\ rows'[j].license = s => j \in crossed' \cup IdsOf(s)
                      /\ rows'[j].url \in Addresses[s] => j \in crossed' \cup IdsOf(s)
    BY DEF RowsOwned, May, IdsOf
  <2>1. CASE j = i
    BY <1>1, <2>1
  <2>2. CASE j # i
    BY <1>1, <2>2 DEF IInv, RowsOwned, May, Grows
  <2> QED BY <2>1, <2>2
<1> QED BY <1>1, <1>2 DEF TableOwned

\* What a shop's requests record under one of its ids, or under one that it
\* shares a session of.
LEMMA RegisterKeeps ==
    ASSUME IInv, Grows, NEW s \in Shops, NEW i \in Ids, i \in crossed' \cup IdsOf(s),
           NEW url \in Addresses[s] \cup {Null},
           NEW license \in {s, Null}, NEW account \in {s, Null},
           Write(i, Registered(i, url, license, account))
    PROVE  TableOwned'
<1> DEFINE row == Registered(i, url, license, account)
<1>1. Current(i) \in Row
  BY DEF Current, Fresh, Row, IInv, TypeOK
<1>2. /\ row.url = Coalesce(url, Current(i).url)
      /\ row.license = Coalesce(license, Current(i).license)
      /\ row.account = Coalesce(account, Current(i).account)
  BY DEF Registered
<1>3. row \in Row
  <2>1. url \in Hosts \cup {Null}
    BY IdentityAssumption
  <2> QED BY <1>1, <2>1 DEF Registered, Row, Coalesce
<1> HIDE DEF row
<1>4. ASSUME NEW t \in Shops PROVE
        /\ Current(i).account = t => i \in crossed' \cup IdsOf(t)
        /\ Current(i).license = t => i \in crossed' \cup IdsOf(t)
        /\ Current(i).url \in Addresses[t] => i \in crossed' \cup IdsOf(t)
  <2>1. CASE rows[i] = Null
    <3>1. Current(i).account = Null /\ Current(i).license = Null /\ Current(i).url = Null
      BY <2>1 DEF Current, Fresh
    <3> QED BY <3>1, IdentityAssumption
  <2>2. CASE rows[i] # Null
    BY <2>2 DEF IInv, RowsOwned, May, Grows, Current
  <2> QED BY <2>1, <2>2
<1>5. ASSUME NEW t \in Shops PROVE
        /\ row.account = t => i \in crossed' \cup IdsOf(t)
        /\ row.license = t => i \in crossed' \cup IdsOf(t)
        /\ row.url \in Addresses[t] => i \in crossed' \cup IdsOf(t)
  <2>1. url # Null /\ url \in Addresses[t] => s = t
    BY IdentityAssumption
  <2> QED BY <1>2, <1>4, <2>1, IdentityAssumption DEF Coalesce
<1> QED BY <1>3, <1>5, WriteKeeps DEF row

\* A session is opened with an id the shop may be.
LEMMA OpenedKeeps ==
    ASSUME IInv, NEW b \in Jars, NEW s \in Shops, NEW i \in Ids, May(i, s),
           Opened(b, s, i), UNCHANGED crossed
    PROVE  SessionsTyped'
<1> DEFINE opened == [id |-> i, shop |-> s]
<1>1. PICK new \in {opened, Null} :
           session' = session \/ session' = [session EXCEPT ![b] = new]
  BY DEF Opened
<1>2. opened \in Session
  BY DEF Session
<1>3. session' \in [Jars -> Session \cup {Null}]
  BY <1>1, <1>2 DEF IInv, TypeOK
<1>4. ASSUME NEW c \in Jars, session'[c] # Null
      PROVE  session'[c].id \in crossed' \cup IdsOf(session'[c].shop)
  <2>1. CASE session'[c] = session[c]
    BY <1>4, <2>1 DEF IInv, SessionsOwned, HasSession, May
  <2>2. CASE session'[c] # session[c]
    <3>1. session'[c] = opened
      BY <1>1, <1>4, <2>2 DEF IInv, TypeOK
    <3> QED BY <3>1 DEF May
  <2> QED BY <2>1, <2>2
<1> QED BY <1>3, <1>4 DEF SessionsTyped, SessionsOwned, HasSession, May, IdsOf, IInv, TypeOK

\* Shops may meet in one session, and those that are open stay as they are.
LEMMA SameSessions == ASSUME IInv, Grows, UNCHANGED session PROVE SessionsTyped'
<1>1. ASSUME NEW b \in Jars, session[b] # Null
      PROVE  session[b].id \in crossed' \cup IdsOf(session[b].shop)
  BY <1>1 DEF IInv, SessionsOwned, HasSession, May, Grows
<1> QED BY <1>1 DEF SessionsTyped, SessionsOwned, HasSession, May, IdsOf, IInv, TypeOK, Grows

LEMMA SameTable == ASSUME IInv, Grows, UNCHANGED <<rows, listed>> PROVE TableOwned'
<1>1. RowsOwned'
  <2> SUFFICES ASSUME NEW j \in Ids, NEW s \in Shops, rows[j] # Null
               PROVE  /\ rows[j].account = s => j \in crossed' \cup IdsOf(s)
                      /\ rows[j].license = s => j \in crossed' \cup IdsOf(s)
                      /\ rows[j].url \in Addresses[s] => j \in crossed' \cup IdsOf(s)
    BY DEF RowsOwned, May, IdsOf
  <2> QED BY DEF IInv, RowsOwned, May, Grows
<1> QED BY <1>1 DEF IInv, TypeOK, TableOwned, ToSet, IsInjective

\* Who works under a session opened it, or its id is one that shops met in.
LEMMA ActorMay ==
    ASSUME IInv, NEW b \in Jars, NEW s \in Shops, HasSession(b), ActsUnder(b, s)
    PROVE  /\ session[b].id \in Ids /\ session[b].id \in crossed' \cup IdsOf(s)
           /\ Grows
<1>1. session[b] \in Session /\ session[b].id \in Ids
  BY DEF IInv, TypeOK, HasSession, Session
<1>2. Grows
  BY <1>1 DEF IInv, TypeOK, ActsUnder, Grows
<1>3. session[b].id \in crossed' \cup IdsOf(s)
  <2>1. CASE session[b].shop = s
    BY <2>1 DEF IInv, SessionsOwned, ActsUnder, May
  <2>2. CASE session[b].shop # s
    BY <2>2 DEF ActsUnder
  <2> QED BY <2>1, <2>2
<1> QED BY <1>1, <1>2, <1>3

---------------------------------------------------------------------------
LEMMA InitInv == ASSUME Init PROVE IInv
<1>1. listed \in Seq(Ids) /\ DOMAIN listed = {} /\ IsInjective(listed)
  BY DEF Init, IsInjective
<1>2. ToSet(listed) = {i \in Ids : rows[i] # Null}
  BY <1>1 DEF Init, ToSet
<1>3. TypeOK
  BY <1>1, <1>2 DEF Init, TypeOK
<1> QED BY <1>3 DEF Init, IInv, RowsOwned, SessionsOwned, HasSession

LEMMA InstallKeeps ==
    ASSUME IInv, NEW b \in Jars, NEW s \in Shops, Install(b, s) PROVE IInv'
<1> PICK h \in Addresses[s], license \in {s, Null} :
         \E i \in {ShopId[s], Label[h]}, url \in {Canonical[s], h} :
            Write(i, Registered(i, url, license, Null)) /\ Opened(b, s, i)
  BY DEF Install
<1>1. PICK i \in {ShopId[s], Label[h]}, url \in {Canonical[s], h} :
         Write(i, Registered(i, url, license, Null)) /\ Opened(b, s, i)
  OBVIOUS
<1>2. i \in IdsOf(s) /\ i \in Ids /\ url \in Addresses[s] \cup {Null}
  BY IdsOfType, IdentityAssumption
<1>3. UNCHANGED crossed /\ Grows
  BY SameGrows DEF Install
<1>4. TableOwned'
  BY <1>1, <1>2, <1>3, RegisterKeeps
<1>5. SessionsTyped'
  BY <1>1, <1>2, <1>3, OpenedKeeps DEF May
<1> QED BY <1>4, <1>5, InvPartsNext

LEMMA IframeEntryKeeps ==
    ASSUME IInv, NEW b \in Jars, NEW s \in Shops, IframeEntry(b, s) PROVE IInv'
<1>1. UNCHANGED crossed /\ Grows
  BY SameGrows DEF IframeEntry
<1>2. CASE \E i \in Mapped(s) : Opened(b, s, i) /\ UNCHANGED <<rows, listed>>
  <2> PICK i \in Mapped(s) : Opened(b, s, i) /\ UNCHANGED <<rows, listed>>
    BY <1>2
  <2>1. i \in Ids /\ May(i, s)
    BY DEF Mapped, IInv, RowsOwned
  <2> QED BY <1>1, <2>1, OpenedKeeps, SameTable, InvPartsNext
<1>3. CASE \E h \in {Null} \cup Addresses[s] :
             LET i == CandidateId(s, h) IN
             Write(i, Registered(i, h, s, Null)) /\ Opened(b, s, i)
  <2> PICK h \in {Null} \cup Addresses[s] :
             LET i == CandidateId(s, h) IN
             Write(i, Registered(i, h, s, Null)) /\ Opened(b, s, i)
    BY <1>3
  <2> DEFINE i == CandidateId(s, h)
  <2>1. i \in IdsOf(s) /\ i \in Ids
    BY IdsOfType, IdentityAssumption DEF CandidateId
  <2>2. Write(i, Registered(i, h, s, Null)) /\ Opened(b, s, i)
    OBVIOUS
  <2> HIDE DEF i
  <2>3. TableOwned'
    BY <1>1, <2>1, <2>2, RegisterKeeps
  <2>4. SessionsTyped'
    BY <1>1, <2>1, <2>2, OpenedKeeps DEF May
  <2> QED BY <2>3, <2>4, InvPartsNext
<1> QED BY <1>2, <1>3 DEF IframeEntry

LEMMA BackfillKeeps ==
    ASSUME IInv, NEW b \in Jars, NEW s \in Shops, BackfillLicense(b, s) PROVE IInv'
<1> DEFINE i == session[b].id
<1>1. i \in Ids /\ i \in crossed' \cup IdsOf(s) /\ Grows /\ UNCHANGED session
  BY ActorMay DEF BackfillLicense
<1>2. CASE Write(i, Registered(i, Null, s, Null))
  <2> HIDE DEF i
  <2>1. TableOwned'
    BY <1>1, <1>2, RegisterKeeps
  <2> QED BY <1>1, <2>1, SameSessions, InvPartsNext
<1>3. CASE UNCHANGED <<rows, listed>>
  BY <1>1, <1>3, SameTable, SameSessions, InvPartsNext
<1> QED BY <1>2, <1>3 DEF BackfillLicense

\* What a look-up by a shop's address finds may be a row of that shop.
LEMMA FoundIsOwn ==
    ASSUME IInv, NEW s \in Shops, NEW h \in Addresses[s], FoundByUrl(h) # Null
    PROVE  /\ FoundByUrl(h) \in Ids /\ rows[FoundByUrl(h)] # Null
           /\ May(FoundByUrl(h), s)
  BY FoundHasUrl DEF IInv, RowsOwned

LEMMA MessageKeeps == ASSUME IInv, NEW s \in Shops, AutomaticMessage(s) PROVE IInv'
<1> PICK h \in Addresses[s] :
           /\ FoundByUrl(h) # Null
           /\ Write(FoundByUrl(h), Registered(FoundByUrl(h), Null, s, Null))
  BY DEF AutomaticMessage
<1>1. UNCHANGED <<session, crossed>> /\ Grows
  BY SameGrows DEF AutomaticMessage
<1>2. FoundByUrl(h) \in Ids /\ FoundByUrl(h) \in crossed' \cup IdsOf(s)
  BY <1>1, FoundIsOwn DEF May
<1>3. TableOwned'
  BY <1>1, <1>2, RegisterKeeps
<1> QED BY <1>1, <1>3, SameSessions, InvPartsNext

LEMMA LinkKeeps ==
    ASSUME IInv, NEW b \in Jars, NEW s \in Shops, Link(b, s) PROVE IInv'
<1> PICK url \in {Null} \cup Addresses[s] :
           Write(session[b].id, Registered(session[b].id, url, Null, s))
  BY DEF Link
<1>1. /\ session[b].id \in Ids /\ session[b].id \in crossed' \cup IdsOf(s)
      /\ Grows /\ UNCHANGED session
  BY ActorMay DEF Link
<1>2. TableOwned'
  BY <1>1, RegisterKeeps
<1> QED BY <1>1, <1>2, SameSessions, InvPartsNext

LEMMA UninstallKeeps == ASSUME IInv, NEW s \in Shops, Uninstall(s) PROVE IInv'
<1> PICK h \in Addresses[s] :
           /\ FoundByUrl(h) # Null
           /\ Write(FoundByUrl(h), [rows[FoundByUrl(h)] EXCEPT !.account = Null])
  BY DEF Uninstall
<1> DEFINE i == FoundByUrl(h)
           row == [rows[i] EXCEPT !.account = Null]
<1>1. i \in Ids /\ rows[i] # Null /\ rows[i] \in Row
  BY FoundIsOwn DEF IInv, TypeOK
<1>2. UNCHANGED <<session, crossed>> /\ Grows
  BY SameGrows DEF Uninstall
<1>3. row \in Row /\ row.account = Null /\ row.license = rows[i].license /\ row.url = rows[i].url
  BY <1>1 DEF Row
<1>4. Write(i, row)
  OBVIOUS
<1> HIDE DEF i, row
<1>5. \A t \in Shops : /\ row.account # t
                       /\ row.license = t => i \in crossed' \cup IdsOf(t)
                       /\ row.url \in Addresses[t] => i \in crossed' \cup IdsOf(t)
  BY <1>1, <1>3, <1>2, IdentityAssumption DEF IInv, RowsOwned, May
<1>6. TableOwned'
  BY <1>1, <1>3, <1>4, <1>5, <1>2, WriteKeeps
<1> QED BY <1>6, <1>2, SameSessions, InvPartsNext

LEMMA LearnKeeps == ASSUME IInv, NEW h \in Hosts, LearnUrl(h) PROVE IInv'
<1> DEFINE i == FoundByNumber(h)
           row == [rows[i] EXCEPT !.url = h]
<1>1. i = Number[h] /\ i \in Ids /\ rows[i] # Null /\ rows[i] \in Row
  BY FoundHasNumber DEF LearnUrl, IInv, TypeOK
<1>2. row \in Row /\ row.account = rows[i].account /\ row.license = rows[i].license /\ row.url = h
  BY <1>1 DEF Row
<1>3. Write(i, row) /\ UNCHANGED <<session, crossed>> /\ Grows
  BY SameGrows DEF LearnUrl
<1> HIDE DEF i, row
<1>4. \A t \in Shops : /\ row.account = t => i \in crossed' \cup IdsOf(t)
                       /\ row.license = t => i \in crossed' \cup IdsOf(t)
                       /\ row.url \in Addresses[t] => i \in crossed' \cup IdsOf(t)
  BY <1>1, <1>2, <1>3, IdsOfType, IdentityAssumption DEF IInv, RowsOwned, May
<1>5. TableOwned'
  BY <1>1, <1>2, <1>3, <1>4, WriteKeeps
<1> QED BY <1>3, <1>5, SameSessions, InvPartsNext

\* What is left of the list when one place is taken out.
LEMMA RemovedPlace ==
    ASSUME NEW seq \in Seq(Ids), NEW k \in DOMAIN seq
    PROVE  /\ RemoveAt(seq, k) \in Seq(Ids)
           /\ DOMAIN RemoveAt(seq, k) = 1 .. Len(seq) - 1
           /\ \A j \in 1 .. Len(seq) - 1 :
                RemoveAt(seq, k)[j] = IF j < k THEN seq[j] ELSE seq[j + 1]
<1> DEFINE n == Len(seq)
           left == SubSeq(seq, 1, k - 1)
           right == SubSeq(seq, k + 1, n)
<1>1. n \in Nat /\ DOMAIN seq = 1 .. n /\ k \in 1 .. n /\ \A j \in 1 .. n : seq[j] \in Ids
  OBVIOUS
<1>2. \A j \in 1 .. k - 1 : seq[j] \in Ids
  BY <1>1
<1>3. \A j \in k + 1 .. n : seq[j] \in Ids
  BY <1>1
<1>4. /\ left \in Seq(Ids) /\ Len(left) = k - 1
      /\ \A j \in 1 .. k - 1 : left[j] = seq[j]
  <2>1. 1 \in Int /\ k - 1 \in Int
    BY <1>1
  <2>2. /\ left \in Seq(Ids)
        /\ Len(left) = IF 1 <= k - 1 THEN (k - 1) - 1 + 1 ELSE 0
        /\ \A j \in 1 .. (k - 1) - 1 + 1 : left[j] = seq[1 + j - 1]
    BY <1>2, <2>1, SubSeqProperties
  <2> QED BY <1>1, <2>2
<1>5. /\ right \in Seq(Ids) /\ Len(right) = n - k
      /\ \A j \in 1 .. n - k : right[j] = seq[k + j]
  <2>1. k + 1 \in Int /\ n \in Int
    BY <1>1
  <2>2. /\ right \in Seq(Ids)
        /\ Len(right) = IF k + 1 <= n THEN n - (k + 1) + 1 ELSE 0
        /\ \A j \in 1 .. n - (k + 1) + 1 : right[j] = seq[(k + 1) + j - 1]
    BY <1>3, <2>1, SubSeqProperties
  <2> HIDE DEF n, right
  <2>3. n - (k + 1) + 1 = n - k /\ (k + 1 <= n \/ n - k = 0)
    BY <1>1
  <2>4. ASSUME NEW j \in 1 .. n - k PROVE (k + 1) + j - 1 = k + j
    BY <1>1
  <2> QED BY <2>2, <2>3, <2>4
<1> HIDE DEF n, left, right
<1>6. /\ left \o right \in Seq(Ids) /\ Len(left \o right) = Len(left) + Len(right)
      /\ \A j \in 1 .. Len(left) + Len(right) :
           (left \o right)[j] = IF j <= Len(left) THEN left[j] ELSE right[j - Len(left)]
  BY <1>4, <1>5, ConcatProperties
<1>7. Len(left) + Len(right) = n - 1
  BY <1>1, <1>4, <1>5
<1>8. ASSUME NEW j \in 1 .. n - 1
      PROVE  (left \o right)[j] = IF j < k THEN seq[j] ELSE seq[j + 1]
  <2>1. CASE j < k
    BY <1>1, <1>4, <1>6, <1>7, <2>1
  <2>2. CASE ~ (j < k)
    <3>1. (left \o right)[j] = right[j - (k - 1)]
      BY <1>1, <1>4, <1>6, <1>7, <2>2
    <3>2. j - (k - 1) \in 1 .. n - k /\ k + (j - (k - 1)) = j + 1
      BY <1>1, <2>2
    <3> QED BY <1>5, <2>2, <3>1, <3>2
  <2> QED BY <2>1, <2>2
<1>9. RemoveAt(seq, k) = left \o right
  BY DEF RemoveAt, left, right, n
<1>10. DOMAIN (left \o right) = 1 .. n - 1
  BY <1>6, <1>7
<1> QED BY <1>6, <1>8, <1>9, <1>10 DEF n

LEMMA UnlinkKeeps == ASSUME IInv, NEW jar \in Jars, Unlink(jar) PROVE IInv'
<1>1. PICK k \in DOMAIN listed : listed[k] = session[jar].id /\ listed' = RemoveAt(listed, k)
  BY DEF Unlink
<1> DEFINE i == session[jar].id
           n == Len(listed)
<1>2. /\ i \in Ids /\ rows[i] # Null /\ UNCHANGED <<session, crossed>> /\ Grows
      /\ rows' = [rows EXCEPT ![i] = Null]
  BY SameGrows DEF Unlink, HasSession, Session, IInv, TypeOK
<1>3. /\ rows' \in [Ids -> Row \cup {Null}] /\ rows'[i] = Null
      /\ \A j \in Ids \ {i} : rows'[j] = rows[j]
  BY <1>2 DEF IInv, TypeOK
<1>4. /\ listed \in Seq(Ids) /\ n \in Nat /\ DOMAIN listed = 1 .. n /\ k \in 1 .. n
      /\ listed[k] = i
      /\ \A a, b \in 1 .. n : listed[a] = listed[b] => a = b
  BY <1>1 DEF IInv, TypeOK, IsInjective
<1>5. /\ listed' \in Seq(Ids) /\ DOMAIN listed' = 1 .. n - 1
      /\ \A j \in 1 .. n - 1 : listed'[j] = IF j < k THEN listed[j] ELSE listed[j + 1]
  BY <1>1, <1>4, RemovedPlace
<1> HIDE DEF i, n
<1>6. \A j \in 1 .. n - 1 : \E a \in 1 .. n : /\ a = IF j < k THEN j ELSE j + 1
                                             /\ a # k /\ listed'[j] = listed[a]
  BY <1>4, <1>5
<1>7. IsInjective(listed')
  <2> SUFFICES ASSUME NEW a \in 1 .. n - 1, NEW b \in 1 .. n - 1, listed'[a] = listed'[b]
               PROVE  a = b
    BY <1>5 DEF IsInjective
  <2>1. a \in Nat /\ b \in Nat /\ k \in Nat
    BY <1>4
  <2>2. (IF a < k THEN a ELSE a + 1) = (IF b < k THEN b ELSE b + 1)
    BY <1>4, <1>6
  <2> QED BY <2>1, <2>2
<1>8. \A j \in DOMAIN listed' : listed'[j] \in Ids /\ rows'[listed'[j]] # Null
  <2> SUFFICES ASSUME NEW j \in 1 .. n - 1
               PROVE  listed'[j] \in Ids /\ rows'[listed'[j]] # Null
    BY <1>5
  <2>1. PICK a \in 1 .. n : a # k /\ listed'[j] = listed[a]
    BY <1>6
  <2>2. listed[a] # i /\ listed[a] \in Ids /\ rows[listed[a]] # Null
    BY <1>4, <2>1, ListedAreRows DEF IInv
  <2> QED BY <1>3, <2>1, <2>2
<1>9. \A j \in Ids : rows'[j] # Null => \E a \in DOMAIN listed' : listed'[a] = j
  <2> SUFFICES ASSUME NEW j \in Ids, rows'[j] # Null
               PROVE  \E a \in 1 .. n - 1 : listed'[a] = j
    BY <1>5
  <2>1. j # i /\ rows[j] # Null
    BY <1>3
  <2>2. PICK b \in 1 .. n : listed[b] = j
    BY <1>4, <2>1, ListedAreRows DEF IInv
  <2>3. b # k
    BY <1>4, <2>1, <2>2
  <2>4. CASE b < k
    BY <1>4, <1>5, <2>2, <2>4
  <2>5. CASE b > k
    <3>1. b - 1 \in 1 .. n - 1 /\ ~ (b - 1 < k) /\ (b - 1) + 1 = b
      BY <1>4, <2>5
    <3> QED BY <1>5, <2>2, <3>1
  <2> QED BY <1>4, <2>3, <2>4, <2>5
<1>10. ToSet(listed') = {j \in Ids : rows'[j] # Null}
  BY <1>8, <1>9 DEF ToSet
<1>11. RowsOwned'
  <2> SUFFICES ASSUME NEW j \in Ids, NEW t \in Shops, rows'[j] # Null
               PROVE  /\ rows'[j].account = t => j \in crossed' \cup IdsOf(t)
                      /\ rows'[j].license = t => j \in crossed' \cup IdsOf(t)
                      /\ rows'[j].url \in Addresses[t] => j \in crossed' \cup IdsOf(t)
    BY DEF RowsOwned, May, IdsOf
  <2>1. rows'[j] = rows[j]
    BY <1>3
  <2> QED BY <1>2, <2>1 DEF IInv, RowsOwned, May
<1>12. TableOwned'
  BY <1>3, <1>5, <1>7, <1>10, <1>11 DEF TableOwned
<1> QED BY <1>2, <1>12, SameSessions, InvPartsNext

LEMMA EndKeeps == ASSUME IInv, NEW b \in Jars, SessionEnds(b) PROVE IInv'
<1>1. UNCHANGED <<rows, listed, crossed>> /\ Grows
  BY SameGrows DEF SessionEnds
<1>2. session' \in [Jars -> Session \cup {Null}]
  BY DEF SessionEnds, IInv, TypeOK
<1>3. ASSUME NEW c \in Jars, session'[c] # Null
      PROVE  session'[c].id \in crossed' \cup IdsOf(session'[c].shop)
  <2>1. session'[c] = session[c]
    BY <1>3 DEF SessionEnds, IInv, TypeOK
  <2> QED BY <1>1, <1>3, <2>1 DEF IInv, SessionsOwned, HasSession, May
<1>4. SessionsTyped'
  BY <1>1, <1>2, <1>3 DEF SessionsTyped, SessionsOwned, HasSession, May, IdsOf, IInv, TypeOK
<1> QED BY <1>1, <1>4, SameTable, InvPartsNext

\* The invariant holds at first and is kept by every step.
THEOREM Inductive == Spec => []IInv
<1>1. IInv /\ [Next]_vars => IInv'
  <2> SUFFICES ASSUME IInv, [Next]_vars PROVE IInv'
    OBVIOUS
  <2>1. CASE \E b \in Jars, s \in Shops :
               Install(b, s) \/ IframeEntry(b, s) \/ BackfillLicense(b, s) \/ Link(b, s)
    BY <2>1, InstallKeeps, IframeEntryKeeps, BackfillKeeps, LinkKeeps
  <2>2. CASE \E b \in Jars : Unlink(b) \/ SessionEnds(b)
    BY <2>2, UnlinkKeeps, EndKeeps
  <2>3. CASE \E s \in Shops : AutomaticMessage(s) \/ Uninstall(s)
    BY <2>3, MessageKeeps, UninstallKeeps
  <2>4. CASE \E h \in Hosts : LearnUrl(h)
    BY <2>4, LearnKeeps
  <2>5. CASE UNCHANGED vars
    BY <2>5, SameGrows, SameTable, SameSessions, InvPartsNext DEF vars
  <2> QED BY <2>1, <2>2, <2>3, <2>4, <2>5 DEF Next
<1> QED BY <1>1, InitInv, PTL DEF Spec

---------------------------------------------------------------------------
\* The table, the list ordered by age and the sessions keep their types, and
\* the list has every row exactly once, whatever is written and removed.
THEOREM TypeCorrect == Spec => []TypeOK
<1>1. IInv => TypeOK
  BY DEF IInv
<1> QED BY <1>1, Inductive, PTL

\* A row that may be a shop's serves that shop, if it can be no other's.
LEMMA OwnServes ==
    ASSUME IInv, NEW s \in Shops, NEW i, i \in Ids => May(i, s), Clear(i)
    PROVE  Serves(i, s)
<1> SUFFICES ASSUME i \in Ids, rows[i] # Null PROVE rows[i].account \in {s, Null}
  BY DEF Serves
<1>1. rows[i].account \in Shops \cup {Null}
  BY DEF IInv, TypeOK, Row
<1> SUFFICES ASSUME NEW t \in Shops, rows[i].account = t, s # t PROVE FALSE
  BY <1>1
<1>2. May(i, t) /\ May(i, s)
  BY DEF IInv, RowsOwned
<1>3. i \in IdsOf(t) /\ i \in IdsOf(s)
  BY <1>2 DEF May, Clear
<1> QED BY <1>3 DEF Clear, Contested

\* settings.ts: what is done under a session is done to the account of the shop
\* that opened it or to none, however it came by its id, and however many other
\* shops meet in other ids and sessions.
THEOREM PanelActsForItself == Spec => []PanelOwnAccount
<1>1. IInv => PanelOwnAccount
  <2> SUFFICES ASSUME IInv, NEW b \in Jars, HasSession(b), Clear(session[b].id)
               PROVE  Serves(session[b].id, session[b].shop)
    BY DEF PanelOwnAccount
  <2>1. session[b].shop \in Shops
    BY DEF IInv, TypeOK, HasSession, Session
  <2>2. May(session[b].id, session[b].shop)
    BY DEF IInv, SessionsOwned
  <2> QED BY <2>1, <2>2, OwnServes
<1> QED BY <1>1, Inductive, PTL

\* resolveShopId: a delivery that names a shop's address is handled with that
\* shop's account or none, except where shops meet in the id it is taken for.
THEOREM WebhooksActForSender == Spec => []WebhooksOwnAccount
<1>1. IInv => WebhooksOwnAccount
  <2> SUFFICES ASSUME IInv, NEW s \in Shops, NEW h \in Addresses[s], Clear(ResolveShopId(h))
               PROVE  Serves(ResolveShopId(h), s)
    BY DEF WebhooksOwnAccount
  <2>1. ResolveShopId(h) \in Ids => May(ResolveShopId(h), s)
    <3>1. CASE FoundByUrl(h) # Null
      BY <3>1, FoundIsOwn DEF ResolveShopId, Coalesce
    <3>2. CASE FoundByUrl(h) = Null
      <4>1. ResolveShopId(h) = FoundByNumber(h) /\ Number[h] \in IdsOf(s) \cup {Null}
        BY <3>2, IdsOfType DEF ResolveShopId, Coalesce
      <4>2. FoundByNumber(h) \in {Number[h], Null}
        BY DEF FoundByNumber
      <4> QED BY <4>1, <4>2, IdentityAssumption DEF May
    <3> QED BY <3>1, <3>2
  <2> QED BY <2>1, OwnServes
<1> QED BY <1>1, Inductive, PTL

---------------------------------------------------------------------------
(***************************************************************************)
(* The tokens: a margin that covers the slowest answer and all attempts    *)
(* (MarginAssumption) keeps an expired one off every attempt under way.    *)
(***************************************************************************)

\* What a request may still need after an attempt that has `tries` behind it.
Spare(tries) == (Tries - tries) * (Timeout + Pause)

\* A token kept is good for the margin, less the time its answer took, beyond
\* the moment it is replaced.
CacheGood ==
    tokenCache # None /\ tokenCache.expires > 0 =>
        tokenCache.token >= tokenCache.expires + Margin - Timeout

\* The token in hand lasts as long as the call can.
TokenGood(q) ==
    /\ q.step \in {"ask", "told"} => q.waited <= Timeout
    /\ q.step = "askAgain" => q.waited <= Pause
    /\ q.step = "told" => q.life >= Margin /\ q.token >= q.life - q.waited
    /\ q.step = "send" => /\ q.waited <= Timeout
                          /\ q.token >= 1 + Spare(q.tries) + Timeout - q.waited
    /\ q.step = "sendAgain" => /\ q.waited <= Pause
                               /\ q.token >= 1 + Spare(q.tries) + Timeout + Pause - q.waited

AllGood == \A r \in Requests : request[r] # None => TokenGood(request[r])

TokensInv == TokensTypeOK /\ CacheGood /\ AllGood

---------------------------------------------------------------------------
LEMMA ConstantsType ==
    /\ Margin \in Nat /\ Timeout \in Nat /\ Timeout > 0 /\ Tries \in Nat /\ Tries > 0
    /\ Pause \in Nat /\ MaxLife \in Nat
    /\ Lives \subseteq Nat /\ \A life \in Lives : Margin <= life /\ life <= MaxLife
BY TokensAssumption

LEMMA SpareType == ASSUME NEW tries \in 1 .. Tries PROVE Spare(tries) \in Nat
<1>1. Tries - tries \in Nat /\ Timeout + Pause \in Nat
  BY ConstantsType
<1>2. \A a, b \in Nat : a * b \in Nat
  OBVIOUS
<1> QED BY <1>1, <1>2 DEF Spare

\* An attempt and a pause are what the next try takes off.
LEMMA SpareStep ==
    ASSUME NEW tries \in 1 .. Tries, tries # Tries
    PROVE  Spare(tries) = Spare(tries + 1) + Timeout + Pause
<1> DEFINE a == Tries - tries
           b == Timeout + Pause
<1>1. a \in Int /\ b \in Int /\ Tries - (tries + 1) = a - 1
  BY ConstantsType
<1>2. \A x, y \in Int : x * y = (x - 1) * y + y
  OBVIOUS
<1>3. a * b = (a - 1) * b + b
  BY <1>1, <1>2
<1>4. (a - 1) * b \in Int
  BY <1>1
<1> QED BY <1>1, <1>3, <1>4, ConstantsType DEF Spare

\* The margin covers the answer that brought the token and a whole request.
LEMMA MarginCovers == Margin >= 1 + Spare(1) + 2 * Timeout
<1> DEFINE b == Timeout + Pause
<1>1. b \in Int /\ Tries \in Int
  BY ConstantsType
<1>2. \A x, y \in Int : (x - 1) * y = x * y - y
  OBVIOUS
<1>3. Spare(1) = Tries * b - b
  BY <1>1, <1>2 DEF Spare
<1>4. Tries * b \in Int
  BY <1>1
<1> HIDE DEF b
<1>5. Timeout + Tries * b < Margin + Pause
  BY MarginAssumption DEF b
<1>6. b = Timeout + Pause
  BY DEF b
<1> QED BY <1>3, <1>4, <1>5, <1>6, ConstantsType

LEMMA LessType == ASSUME NEW n \in Left PROVE Less(n) \in Left /\ Less(n) >= n - 1
BY ConstantsType DEF Left, Less

Steps == {"ask", "told", "askAgain", "send", "sendAgain"}

\* A request by its fields, and back.
LEMMA Fields ==
    ASSUME NEW q \in Request
    PROVE  /\ q.step \in Steps /\ q.waited \in Nat /\ q.tries \in 1 .. Tries
           /\ q.token \in Left /\ q.life \in Lives \cup {0}
           /\ q.token \in Nat /\ q.tries \in Nat /\ q.life \in Nat
<1>1. /\ q.step \in Steps /\ q.waited \in Nat /\ q.tries \in 1 .. Tries
      /\ q.token \in Left /\ q.life \in Lives \cup {0}
  BY DEF Request, Steps
<1>2. \A n \in Left : n \in Nat
  BY ConstantsType DEF Left
<1>3. \A n \in 1 .. Tries : n \in Nat
  BY ConstantsType
<1>4. \A n \in Lives \cup {0} : n \in Nat
  BY ConstantsType
<1> QED BY <1>1, <1>2, <1>3, <1>4

LEMMA Built ==
    ASSUME NEW step \in Steps, NEW waited \in Nat, NEW tries \in 1 .. Tries,
           NEW token \in Left, NEW life \in Lives \cup {0}
    PROVE  [step |-> step, waited |-> waited, tries |-> tries, token |-> token, life |-> life]
             \in Request
BY DEF Request, Steps

\* When one request changes to one that is good, all are.
LEMMA OneChanges ==
    ASSUME request \in [Requests -> Request \cup {None}], AllGood,
           NEW r \in Requests, NEW new \in Request \cup {None},
           Becomes(r, new), new # None => TokenGood(new)
    PROVE  request' \in [Requests -> Request \cup {None}] /\ AllGood'
<1>1. request' = [request EXCEPT ![r] = new]
  BY DEF Becomes
<1>2. request' \in [Requests -> Request \cup {None}]
  BY <1>1
<1>3. ASSUME NEW p \in Requests, request'[p] # None PROVE TokenGood(request'[p])
  <2>1. CASE p = r
    BY <1>1, <1>3, <2>1
  <2>2. CASE p # r
    BY <1>1, <1>3, <2>2 DEF AllGood
  <2> QED BY <2>1, <2>2
<1> QED BY <1>2, <1>3 DEF AllGood

LEMMA CacheFields ==
    ASSUME TokensTypeOK, tokenCache # None
    PROVE  /\ tokenCache.token \in Left /\ tokenCache.expires \in Left
           /\ tokenCache.token \in Nat /\ tokenCache.expires \in Nat
BY ConstantsType DEF TokensTypeOK, CachedToken, Left

\* A request that begins with enough of a token is good.
LEMMA SendingGood ==
    ASSUME NEW token \in Left, token >= Margin - Timeout
    PROVE  Sending(token) \in Request /\ TokenGood(Sending(token))
<1>1. 1 \in 1 .. Tries /\ 0 \in Nat
  BY ConstantsType
<1>2. Sending(token) \in Request
  BY <1>1, Built DEF Sending, Steps
<1>3. token >= 1 + Spare(1) + Timeout - 0
  <2>1. Spare(1) \in Nat /\ token \in Nat
    BY <1>1, SpareType, ConstantsType DEF Left
  <2> QED BY <2>1, MarginCovers, ConstantsType
<1>4. TokenGood(Sending(token))
  BY <1>3, ConstantsType DEF TokenGood, Sending
<1> QED BY <1>2, <1>4

LEMMA Initially == TokensInit => TokensInv
BY DEF TokensInit, TokensInv, TokensTypeOK, CacheGood, AllGood

LEMMA GetTokenStep ==
    ASSUME TokensInv, NEW r \in Requests, GetToken(r) PROVE TokensInv'
<1> DEFINE asked == [step |-> "ask", waited |-> 0, tries |-> 1, token |-> 0, life |-> 0]
           new == IF Usable THEN Sending(tokenCache.token) ELSE asked
<1>1. Becomes(r, new) /\ tokenCache' = tokenCache
  BY DEF GetToken
<1>2. ASSUME Usable PROVE new \in Request /\ TokenGood(new)
  <2>1. tokenCache # None /\ tokenCache.expires > 0
    BY <1>2 DEF Usable
  <2>2. tokenCache.token \in Left /\ tokenCache.token \in Nat /\ tokenCache.expires \in Nat
    BY <2>1, CacheFields DEF TokensInv
  <2>3. tokenCache.token >= Margin - Timeout
    BY <2>1, <2>2, ConstantsType DEF TokensInv, CacheGood
  <2>4. Sending(tokenCache.token) \in Request /\ TokenGood(Sending(tokenCache.token))
    BY <2>2, <2>3, SendingGood
  <2>5. new = Sending(tokenCache.token)
    BY <1>2
  <2> QED BY <2>4, <2>5
<1>3. ASSUME ~Usable PROVE new \in Request /\ TokenGood(new)
  <2>1. 0 \in Left /\ 1 \in 1 .. Tries /\ 0 \in Nat /\ 0 \in Lives \cup {0}
    BY ConstantsType DEF Left
  <2>2. "ask" \in Steps
    BY DEF Steps
  <2>3. asked \in Request
    BY <2>1, <2>2, Built
  <2>4. asked.step = "ask" /\ asked.waited = 0
    OBVIOUS
  <2>5. TokenGood(asked)
    BY <2>4, ConstantsType DEF TokenGood
  <2>6. new = asked
    BY <1>3
  <2> QED BY <2>3, <2>5, <2>6
<1>4. new \in Request /\ TokenGood(new)
  BY <1>2, <1>3
<1> HIDE DEF new
<1>5. request' \in [Requests -> Request \cup {None}] /\ AllGood'
  BY <1>1, <1>4, OneChanges DEF TokensInv, TokensTypeOK
<1> QED BY <1>1, <1>5 DEF TokensInv, TokensTypeOK, CacheGood

LEMMA AtRequest ==
    ASSUME TokensInv, NEW r \in Requests, NEW steps, At(r, steps)
    PROVE  request[r] \in Request /\ request[r].step \in steps /\ TokenGood(request[r])
BY DEF TokensInv, TokensTypeOK, AllGood, At

LEMMA GrantedStep ==
    ASSUME TokensInv, NEW r \in Requests, Granted(r) PROVE TokensInv'
<1>1. request[r] \in Request /\ request[r].step = "ask" /\ TokenGood(request[r])
  BY AtRequest DEF Granted
<1>2. PICK life \in Lives :
        Becomes(r, [request[r] EXCEPT !.step = "told", !.token = life, !.life = life])
  BY DEF Granted
<1> DEFINE q == request[r]
           new == [q EXCEPT !.step = "told", !.token = life, !.life = life]
<1>3. life \in Left /\ life \in Nat /\ life >= Margin
  BY ConstantsType DEF Left
<1>4. q.waited \in Nat /\ q.waited <= Timeout
  BY <1>1, Fields DEF TokenGood
<1>5. new \in Request
  BY <1>1, <1>3 DEF Request
<1>6. new.step = "told" /\ new.token = life /\ new.life = life /\ new.waited = q.waited
  BY <1>1 DEF Request
<1> HIDE DEF new
<1>7. TokenGood(new)
  BY <1>3, <1>4, <1>6, ConstantsType DEF TokenGood
<1>8. Becomes(r, new)
  BY <1>2 DEF new
<1>9. request' \in [Requests -> Request \cup {None}] /\ AllGood'
  BY <1>5, <1>7, <1>8, OneChanges DEF TokensInv, TokensTypeOK
<1> QED BY <1>9 DEF TokensInv, TokensTypeOK, CacheGood, Granted

LEMMA TokenFetchedStep ==
    ASSUME TokensInv, NEW r \in Requests, TokenFetched(r) PROVE TokensInv'
<1> DEFINE q == request[r]
<1>1. q \in Request /\ q.step = "told" /\ TokenGood(q)
  BY AtRequest DEF TokenFetched
<1>2. /\ q.token \in Left /\ q.token \in Nat /\ q.waited \in Nat /\ q.waited <= Timeout
      /\ q.life \in Nat /\ q.life >= Margin /\ q.token >= q.life - q.waited
      /\ q.life <= MaxLife
  BY <1>1, Fields, ConstantsType DEF TokenGood
<1>3. q.token >= Margin - Timeout
  BY <1>2, ConstantsType
<1>4. Sending(q.token) \in Request /\ TokenGood(Sending(q.token))
  BY <1>2, <1>3, SendingGood
<1>5. Becomes(r, Sending(q.token))
  BY DEF TokenFetched
<1>6. request' \in [Requests -> Request \cup {None}] /\ AllGood'
  BY <1>4, <1>5, OneChanges DEF TokensInv, TokensTypeOK
<1>7. tokenCache' = [token |-> q.token, expires |-> q.life - Margin]
  BY DEF TokenFetched, KeptFor
<1>8. q.life - Margin \in Left
  BY <1>2, ConstantsType DEF Left
<1>9. tokenCache' \in CachedToken
  BY <1>2, <1>7, <1>8 DEF CachedToken
<1>10. tokenCache'.token = q.token /\ tokenCache'.expires = q.life - Margin
  BY <1>7
<1>11. CacheGood'
  BY <1>2, <1>10, ConstantsType DEF CacheGood
<1> QED BY <1>6, <1>9, <1>11 DEF TokensInv, TokensTypeOK

\* What Becomes leaves of the invariant when the cache is not touched.
LEMMA CacheUntouched ==
    ASSUME TokensInv, tokenCache' = tokenCache,
           request' \in [Requests -> Request \cup {None}], AllGood'
    PROVE  TokensInv'
BY DEF TokensInv, TokensTypeOK, CacheGood

LEMMA AttemptFailsStep ==
    ASSUME TokensInv, NEW r \in Requests, AttemptFails(r) PROVE TokensInv'
<1> DEFINE q == request[r]
           next == IF q.step = "send" THEN "sendAgain" ELSE "askAgain"
           again == [q EXCEPT !.waited = 0, !.tries = @ + 1, !.step = next]
           new == IF q.tries = Tries THEN None ELSE again
<1>1. q \in Request /\ q.step \in {"ask", "told", "send"} /\ TokenGood(q)
  BY AtRequest DEF AttemptFails
<1>2. Becomes(r, new) /\ tokenCache' = tokenCache
  BY DEF AttemptFails
<1>3. ASSUME q.tries # Tries PROVE again \in Request /\ TokenGood(again)
  <2>1. /\ q.tries \in 1 .. Tries /\ q.tries + 1 \in 1 .. Tries
        /\ q.waited \in Nat /\ q.token \in Nat
    BY <1>1, <1>3, Fields, ConstantsType
  <2>2. next \in Steps
    BY DEF Steps
  <2>3. again \in Request
    BY <1>1, <2>1, <2>2 DEF Request, Steps
  <2>4. /\ again.step = next /\ again.waited = 0
        /\ again.tries = q.tries + 1 /\ again.token = q.token
    BY <1>1 DEF Request
  <2>5. CASE q.step = "send"
    <3>1. q.waited <= Timeout /\ q.token >= 1 + Spare(q.tries) + Timeout - q.waited
      BY <1>1, <2>5 DEF TokenGood
    <3>2. Spare(q.tries) = Spare(q.tries + 1) + Timeout + Pause
      BY <1>3, <2>1, SpareStep
    <3>3. Spare(q.tries + 1) \in Nat /\ Spare(q.tries) \in Nat
      BY <2>1, SpareType
    <3>4. q.token >= 1 + Spare(q.tries + 1) + Timeout + Pause - 0
      BY <2>1, <3>1, <3>2, <3>3, ConstantsType
    <3>5. again.step = "sendAgain"
      BY <2>4, <2>5
    <3> HIDE DEF again
    <3>6. TokenGood(again)
      BY <2>4, <3>4, <3>5, ConstantsType DEF TokenGood
    <3> QED BY <2>3, <3>6
  <2>6. CASE q.step # "send"
    <3>1. again.step = "askAgain"
      BY <2>4, <2>6
    <3> HIDE DEF again
    <3>2. TokenGood(again)
      BY <2>4, <3>1, ConstantsType DEF TokenGood
    <3> QED BY <2>3, <3>2
  <2> QED BY <2>5, <2>6
<1> HIDE DEF again
<1>4. new \in Request \cup {None} /\ (new # None => TokenGood(new))
  BY <1>3
<1> HIDE DEF new
<1>5. request' \in [Requests -> Request \cup {None}] /\ AllGood'
  BY <1>2, <1>4, OneChanges DEF TokensInv, TokensTypeOK
<1> QED BY <1>2, <1>5, CacheUntouched

LEMMA AgainStep ==
    ASSUME TokensInv, NEW r \in Requests, Again(r) PROVE TokensInv'
<1> DEFINE q == request[r]
           ask == [q EXCEPT !.step = "ask", !.waited = 0, !.token = 0, !.life = 0]
           send == [q EXCEPT !.step = "send", !.waited = 0]
           new == IF q.step = "askAgain" THEN ask ELSE send
<1>1. q \in Request /\ q.step \in {"askAgain", "sendAgain"} /\ TokenGood(q)
  BY AtRequest DEF Again
<1>2. Becomes(r, new) /\ tokenCache' = tokenCache
  BY DEF Again
<1>3. ask \in Request /\ TokenGood(ask)
  <2>1. 0 \in Left
    BY ConstantsType DEF Left
  <2>2. ask \in Request
    BY <1>1, <2>1 DEF Request
  <2>3. ask.step = "ask" /\ ask.waited = 0
    BY <1>1 DEF Request
  <2> HIDE DEF ask
  <2>4. TokenGood(ask)
    BY <2>3, ConstantsType DEF TokenGood
  <2> QED BY <2>2, <2>4
<1>4. ASSUME q.step = "sendAgain" PROVE send \in Request /\ TokenGood(send)
  <2>1. /\ q.tries \in 1 .. Tries /\ q.waited \in Nat /\ q.waited <= Pause /\ q.token \in Nat
        /\ q.token >= 1 + Spare(q.tries) + Timeout + Pause - q.waited
    BY <1>1, <1>4, Fields DEF TokenGood
  <2>2. Spare(q.tries) \in Nat
    BY <2>1, SpareType
  <2>3. q.token >= 1 + Spare(q.tries) + Timeout - 0
    BY <2>1, <2>2, ConstantsType
  <2>4. send \in Request
    BY <1>1 DEF Request
  <2>5. send.step = "send" /\ send.waited = 0 /\ send.tries = q.tries /\ send.token = q.token
    BY <1>1 DEF Request
  <2> HIDE DEF send
  <2>6. TokenGood(send)
    BY <2>3, <2>5, ConstantsType DEF TokenGood
  <2> QED BY <2>4, <2>6
<1>5. new \in Request /\ TokenGood(new)
  <2> HIDE DEF ask, send
  <2> QED BY <1>1, <1>3, <1>4
<1> HIDE DEF new
<1>6. request' \in [Requests -> Request \cup {None}] /\ AllGood'
  BY <1>2, <1>5, OneChanges DEF TokensInv, TokensTypeOK
<1> QED BY <1>2, <1>6, CacheUntouched

LEMMA AnsweredStep ==
    ASSUME TokensInv, NEW r \in Requests, Answered(r) PROVE TokensInv'
<1>1. Becomes(r, None) /\ tokenCache' = tokenCache
  BY DEF Answered
<1>2. request' \in [Requests -> Request \cup {None}] /\ AllGood'
  BY <1>1, OneChanges DEF TokensInv, TokensTypeOK
<1> QED BY <1>1, <1>2, CacheUntouched

\* A step of the clock takes one off every token and adds one to every wait
\* that has not reached its limit.
LEMMA OlderGood ==
    ASSUME NEW q \in Request, TokenGood(q), NEW old,
           old = [q EXCEPT !.waited = @ + 1, !.token = Less(@)],
           q.waited # (IF q.step \in {"askAgain", "sendAgain"} THEN Pause ELSE Timeout)
    PROVE  old \in Request /\ TokenGood(old)
<1>1. /\ q.step \in Steps /\ q.waited \in Nat /\ q.tries \in 1 .. Tries
      /\ q.token \in Left /\ q.life \in Nat /\ q.token \in Nat
  BY Fields
<1>2. Less(q.token) \in Left /\ Less(q.token) >= q.token - 1 /\ Less(q.token) \in Nat
  BY <1>1, LessType DEF Less
<1>3. q.waited + 1 \in Nat
  BY <1>1
<1>4. old \in Request
  BY <1>2, <1>3 DEF Request
<1>5. /\ old.step = q.step /\ old.waited = q.waited + 1 /\ old.tries = q.tries
      /\ old.token = Less(q.token) /\ old.life = q.life
  BY DEF Request
<1>6. Spare(q.tries) \in Nat
  BY <1>1, SpareType
<1>7. CASE q.step \in {"askAgain", "sendAgain"}
  <2>1. q.waited # Pause
    BY <1>7
  <2>2. q.waited <= Pause
    BY <1>7 DEF TokenGood
  <2>3. q.waited + 1 <= Pause
    BY <1>1, <2>1, <2>2, ConstantsType
  <2>4. ASSUME q.step = "sendAgain"
        PROVE  Less(q.token) >= 1 + Spare(q.tries) + Timeout + Pause - (q.waited + 1)
    <3>1. q.token >= 1 + Spare(q.tries) + Timeout + Pause - q.waited
      BY <2>4 DEF TokenGood
    <3> QED BY <1>1, <1>2, <1>6, <3>1, ConstantsType
  <2> QED BY <1>4, <1>5, <1>7, <2>3, <2>4 DEF TokenGood
<1>8. CASE q.step \in {"ask", "told", "send"}
  <2>1. q.waited # Timeout
    BY <1>8
  <2>2. q.waited <= Timeout
    BY <1>8 DEF TokenGood
  <2>3. q.waited + 1 <= Timeout
    BY <1>1, <2>1, <2>2, ConstantsType
  <2>4. ASSUME q.step = "told"
        PROVE  q.life >= Margin /\ Less(q.token) >= q.life - (q.waited + 1)
    <3>1. q.life >= Margin /\ q.token >= q.life - q.waited
      BY <2>4 DEF TokenGood
    <3> QED BY <1>1, <1>2, <3>1, ConstantsType
  <2>5. ASSUME q.step = "send"
        PROVE  Less(q.token) >= 1 + Spare(q.tries) + Timeout - (q.waited + 1)
    <3>1. q.token >= 1 + Spare(q.tries) + Timeout - q.waited
      BY <2>5 DEF TokenGood
    <3> QED BY <1>1, <1>2, <1>6, <3>1, ConstantsType
  <2> QED BY <1>4, <1>5, <1>8, <2>3, <2>4, <2>5 DEF TokenGood
<1> QED BY <1>1, <1>7, <1>8 DEF Steps

LEMMA TickStep == ASSUME TokensInv, Tick PROVE TokensInv'
<1>1. request' \in [Requests -> Request \cup {None}] /\ AllGood'
  <2>1. ASSUME NEW r \in Requests
        PROVE  /\ request'[r] \in Request \cup {None}
               /\ request'[r] # None => TokenGood(request'[r])
    <3>1. CASE request[r] = None
      BY <3>1 DEF Tick
    <3>2. CASE request[r] # None
      <4>1. request[r] \in Request /\ TokenGood(request[r])
        BY <3>2 DEF TokensInv, TokensTypeOK, AllGood
      <4>2. request'[r] = [request[r] EXCEPT !.waited = @ + 1, !.token = Less(@)]
        BY <3>2 DEF Tick
      <4>3. request[r].waited # (IF request[r].step \in {"askAgain", "sendAgain"}
                                 THEN Pause ELSE Timeout)
        BY <3>2 DEF Tick, Due
      <4> QED BY <4>1, <4>2, <4>3, OlderGood
    <3> QED BY <3>1, <3>2
  <2>2. request' = [r \in Requests |-> request'[r]]
    BY DEF Tick
  <2>3. request' \in [Requests -> Request \cup {None}]
    BY <2>1, <2>2
  <2>4. AllGood'
    BY <2>1 DEF AllGood
  <2> QED BY <2>3, <2>4
<1>2. CASE tokenCache = None
  <2>1. tokenCache' = None
    BY <1>2 DEF Tick
  <2> QED BY <1>1, <2>1 DEF TokensInv, TokensTypeOK, CacheGood
<1>3. CASE tokenCache # None
  <2> DEFINE token == Less(tokenCache.token)
             expires == Less(tokenCache.expires)
  <2>1. tokenCache' = [token |-> token, expires |-> expires]
    BY <1>3 DEF Tick
  <2>2. /\ tokenCache.token \in Left /\ tokenCache.expires \in Left
        /\ tokenCache.token \in Nat /\ tokenCache.expires \in Nat
    BY <1>3, CacheFields DEF TokensInv
  <2>3. token \in Left /\ expires \in Left /\ token >= tokenCache.token - 1 /\ token \in Nat
    BY <2>2, LessType DEF Less
  <2>4. tokenCache' \in CachedToken
    BY <2>1, <2>3 DEF CachedToken
  <2>5. ASSUME expires > 0 PROVE token >= expires + Margin - Timeout
    <3>1. tokenCache.expires > 0 /\ expires = tokenCache.expires - 1
      BY <2>2, <2>5 DEF Less
    <3>2. tokenCache.token >= tokenCache.expires + Margin - Timeout
      BY <1>3, <3>1 DEF TokensInv, CacheGood
    <3> HIDE DEF token, expires
    <3> QED BY <2>2, <2>3, <3>1, <3>2, ConstantsType
  <2> HIDE DEF token, expires
  <2>6. tokenCache'.token = token /\ tokenCache'.expires = expires
    BY <2>1
  <2>7. CacheGood'
    BY <2>5, <2>6 DEF CacheGood
  <2> QED BY <1>1, <2>4, <2>7 DEF TokensInv, TokensTypeOK
<1> QED BY <1>2, <1>3

---------------------------------------------------------------------------
\* The types and the lasting of every token in hand, as one invariant.
THEOREM TokensInductive == TokensSpec => []TokensInv
<1>1. TokensInit => TokensInv
  BY Initially
<1>2. TokensInv /\ [TokensNext]_tokensVars => TokensInv'
  <2> SUFFICES ASSUME TokensInv, [TokensNext]_tokensVars PROVE TokensInv'
    OBVIOUS
  <2>1. CASE UNCHANGED tokensVars
    BY <2>1 DEF tokensVars, TokensInv, TokensTypeOK, CacheGood, AllGood
  <2>2. CASE Tick
    BY <2>2, TickStep
  <2>3. ASSUME NEW r \in Requests, GetToken(r) PROVE TokensInv'
    BY <2>3, GetTokenStep
  <2>4. ASSUME NEW r \in Requests, Granted(r) PROVE TokensInv'
    BY <2>4, GrantedStep
  <2>5. ASSUME NEW r \in Requests, TokenFetched(r) PROVE TokensInv'
    BY <2>5, TokenFetchedStep
  <2>6. ASSUME NEW r \in Requests, AttemptFails(r) PROVE TokensInv'
    BY <2>6, AttemptFailsStep
  <2>7. ASSUME NEW r \in Requests, Again(r) PROVE TokensInv'
    BY <2>7, AgainStep
  <2>8. ASSUME NEW r \in Requests, Answered(r) PROVE TokensInv'
    BY <2>8, AnsweredStep
  <2> QED BY <2>1, <2>2, <2>3, <2>4, <2>5, <2>6, <2>7, <2>8 DEF TokensNext
<1> QED BY <1>1, <1>2, PTL DEF TokensSpec

\* Every record keeps its type, whatever order answers and timeouts come in.
THEOREM TokensTyped == TokensSpec => []TokensTypeOK
<1>1. TokensInv => TokensTypeOK
  BY DEF TokensInv
<1> QED BY <1>1, TokensInductive, PTL

\* No attempt that is waited for carries an expired token, for every margin
\* that covers the slowest answer and a request's attempts and pauses.
THEOREM TokensLast == TokensSpec => []TokenLasts
<1>1. TokensInv => TokenLasts
  <2> SUFFICES ASSUME TokensInv, NEW r \in Requests, At(r, {"send"})
               PROVE  request[r].token > 0
    BY DEF TokenLasts
  <2> DEFINE q == request[r]
  <2>1. q \in Request /\ q.step = "send" /\ TokenGood(q)
    BY AtRequest
  <2>2. /\ q.waited \in Nat /\ q.waited <= Timeout /\ q.token \in Nat /\ q.tries \in 1 .. Tries
        /\ q.token >= 1 + Spare(q.tries) + Timeout - q.waited
    BY <2>1, Fields DEF TokenGood
  <2>3. Spare(q.tries) \in Nat
    BY <2>2, SpareType
  <2> QED BY <2>2, <2>3, ConstantsType
<1> QED BY <1>1, TokensInductive, PTL
=============================================================================
