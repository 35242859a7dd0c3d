---------------------------- MODULE StartProofs -----------------------------
(***************************************************************************)
(* What a start leaves to the process that serves: the file, for every set *)
(* of shops, of rows and of statements at which earlier starts died        *)
(* (Migrations), and the operators' accounts, for every set of names,      *)
(* passwords and ids and every sequence of environments (Accounts).        *)
(***************************************************************************)
EXTENDS Migrations, Accounts, FiniteSetTheorems, TLAPS

---------------------------------------------------------------------------
\* What a statement leaves behind for good.
Executed(i, d) ==
    LET s == Script[i] IN
    /\ s.do \in {"create", "column", "rebuild"} => s.table \in d.tables
    /\ s.do \in {"column", "index", "rebuild"} => s.cols \subseteq d.cols
    /\ s.do = "index" => s.cols \subseteq d.indexes
    /\ s.do = "backfill" => Abstract!Unowned(d.rows[s.table]) = {}

\* No statement and no request undoes what one has executed.
Grows(d, e) ==
    /\ d.tables \subseteq e.tables /\ d.cols \subseteq e.cols /\ d.indexes \subseteq e.indexes
    /\ \A t \in Data : Abstract!Unowned(d.rows[t]) = {} => Abstract!Unowned(e.rows[t]) = {}

\* A file no transaction is open on: settings_new is never seen in it, and
\* settings has the column only with every row owned.
Sound(d) ==
    /\ d \in Database
    /\ "settings_new" \notin d.tables /\ ShopId("settings_new") \notin d.cols
    /\ "settings" \notin d.tables => d.rows["settings"] = {}
    /\ ShopId("settings") \in d.cols =>
          "settings" \in d.tables /\ Abstract!Unowned(d.rows["settings"]) = {}
    /\ "sessions" \in d.tables => <<"sessions", "expires_at">> \in d.cols

\* The transaction moves settings over and touches nothing else.
Rebuilding ==
    /\ running /\ ~serving /\ next = 7 /\ legacyShopIdCache # Null
    /\ "settings" \in disk.tables /\ ShopId("settings") \notin disk.cols
    /\ \A t \in disk.tables : t # "settings" => t \in db.tables
    /\ \A t \in db.tables : t \notin {"settings", "settings_new"} => t \in disk.tables
    /\ disk.cols \subseteq db.cols /\ disk.indexes = db.indexes
    /\ \A t \in Data \ {"settings"} : db.rows[t] = disk.rows[t]

Copied == Abstract!Adopted(disk.rows["settings"], legacyShopIdCache)

InTxOK ==
    /\ inTx = 0 => db = disk
    /\ inTx # 0 => Rebuilding
    /\ inTx \in {1, 2} => db.rows["settings"] = disk.rows["settings"]
    /\ inTx \in {2, 3} => db.rows["settings_new"] = Copied
    /\ inTx = 4 => /\ db.rows["settings"] = Copied
                   /\ "settings" \in db.tables /\ "settings_new" \notin db.tables
                   /\ ShopId("settings") \in db.cols /\ ShopId("settings_new") \notin db.cols

ProcessOK ==
    /\ ~running => next = 1 /\ inTx = 0 /\ ~serving /\ legacyShopIdCache = Null
    /\ serving => running /\ next = Done

ScriptDone == \A i \in 1 .. next - 1 : Executed(i, disk)

\* No row is left to give away.
NothingLeft ==
    /\ ShopId("settings") \in disk.cols
    /\ \A t \in Data : Abstract!Unowned(disk.rows[t]) = {}

\* While there is a row to give away, there is one heir.
HeirsOK ==
    /\ \E h \in Abstract!Owners : heirs \subseteq {h}
    /\ NothingLeft \/ heirs \subseteq {Abstract!Heir(shops)}
    /\ legacyShopIdCache # Null => NothingLeft \/ legacyShopIdCache = Abstract!Heir(shops)

IInv == TypeOK /\ Sound(disk) /\ InTxOK /\ ProcessOK /\ ScriptDone /\ HeirsOK

---------------------------------------------------------------------------
\* What each statement is.
LEMMA ScriptIs ==
    /\ Len(Script) = 18 /\ DOMAIN Script = 1 .. 18
    /\ Script[1] = Create("shop_connections", {})
    /\ Script[2] = AddColumn("shop_connections", "shoper_access_token")
    /\ Script[3] = AddColumn("shop_connections", "shoper_refresh_token")
    /\ Script[4] = AddColumn("shop_connections", "shoper_license")
    /\ Script[5] = Index("shop_connections", "shoper_license")
    /\ Script[6] = AddColumn("shop_connections", "technical_url")
    /\ Script[7] = Rebuild
    /\ Script[8] = Create("event_mappings", {ShopId("event_mappings")})
    /\ Script[9] = AddColumn("event_mappings", "shop_id")
    /\ Script[10] = Backfill("event_mappings")
    /\ Script[11] = Index("event_mappings", "shop_id")
    /\ Script[12] = Create("sync_logs", {ShopId("sync_logs")})
    /\ Script[13] = AddColumn("sync_logs", "shop_id")
    /\ Script[14] = Backfill("sync_logs")
    /\ Script[15] = Index("sync_logs", "shop_id")
    /\ Script[16] = Create("users", {})
    /\ Script[17] = Create("sessions", {<<"sessions", "expires_at">>})
    /\ Script[18] = Index("sessions", "expires_at")
<1> DEFINE a == Create("shop_connections", {})
           b == AddColumn("shop_connections", "shoper_access_token")
           c == AddColumn("shop_connections", "shoper_refresh_token")
           d == AddColumn("shop_connections", "shoper_license")
           e == Index("shop_connections", "shoper_license")
           f == AddColumn("shop_connections", "technical_url")
           g == Rebuild
           h == Create("event_mappings", {ShopId("event_mappings")})
           j == AddColumn("event_mappings", "shop_id")
           k == Backfill("event_mappings")
           l == Index("event_mappings", "shop_id")
           m == Create("sync_logs", {ShopId("sync_logs")})
           n == AddColumn("sync_logs", "shop_id")
           o == Backfill("sync_logs")
           p == Index("sync_logs", "shop_id")
           q == Create("users", {})
           r == Create("sessions", {<<"sessions", "expires_at">>})
           s == Index("sessions", "expires_at")
<1>1. Script = <<a, b, c, d, e, f, g, h, j, k, l, m, n, o, p, q, r, s>>
  BY DEF Script
<1> HIDE DEF a, b, c, d, e, f, g, h, j, k, l, m, n, o, p, q, r, s
<1>2. /\ Len(Script) = 18 /\ DOMAIN Script = 1 .. 18
      /\ Script[1] = a /\ Script[2] = b /\ Script[3] = c /\ Script[4] = d /\ Script[5] = e
      /\ Script[6] = f /\ Script[7] = g /\ Script[8] = h /\ Script[9] = j /\ Script[10] = k
      /\ Script[11] = l /\ Script[12] = m /\ Script[13] = n /\ Script[14] = o /\ Script[15] = p
      /\ Script[16] = q /\ Script[17] = r /\ Script[18] = s
  BY <1>1
<1> QED BY <1>2 DEF a, b, c, d, e, f, g, h, j, k, l, m, n, o, p, q, r, s

\* And what the proofs need of them.
LEMMA ScriptFacts ==
    /\ Done = 19 /\ DOMAIN Script = 1 .. 18
    /\ Script[7].do = "rebuild" /\ Script[7].table = "settings"
    /\ Script[7].cols = {ShopId("settings")}
    /\ \A i \in 1 .. 18 :
          /\ Script[i].do \in {"create", "column", "index", "backfill", "rebuild"}
          /\ Script[i].table \in TableNames /\ Script[i].table # "settings_new"
          /\ Script[i].cols \subseteq Columns /\ ShopId("settings_new") \notin Script[i].cols
          /\ i # 7 => /\ Script[i].do # "rebuild" /\ Script[i].table # "settings"
                      /\ ShopId("settings") \notin Script[i].cols
          /\ Script[i].do = "create" /\ Script[i].table = "sessions" =>
                <<"sessions", "expires_at">> \in Script[i].cols
          /\ Script[i].do = "backfill" => Script[i].table \in Data
    /\ {"settings", "settings_new"} \subseteq TableNames
    /\ {ShopId("settings"), ShopId("settings_new")} \subseteq Columns
<1>1. \A i \in 1 .. 18 :
        \/ i = 1 \/ i = 2 \/ i = 3 \/ i = 4 \/ i = 5 \/ i = 6 \/ i = 7 \/ i = 8 \/ i = 9
        \/ i = 10 \/ i = 11 \/ i = 12 \/ i = 13 \/ i = 14 \/ i = 15 \/ i = 16 \/ i = 17 \/ i = 18
  OBVIOUS
<1>2. ASSUME NEW i \in 1 .. 18 PROVE
          /\ Script[i].do \in {"create", "column", "index", "backfill", "rebuild"}
          /\ Script[i].table # "settings_new"
          /\ ShopId("settings_new") \notin Script[i].cols
          /\ i # 7 => /\ Script[i].do # "rebuild" /\ Script[i].table # "settings"
                      /\ ShopId("settings") \notin Script[i].cols
          /\ Script[i].do = "create" /\ Script[i].table = "sessions" =>
                <<"sessions", "expires_at">> \in Script[i].cols
          /\ Script[i].do = "backfill" => Script[i].table \in Data
  BY <1>1, ScriptIs DEF Create, AddColumn, Index, Backfill, Rebuild, ShopId, Data
<1>3. ASSUME NEW i \in 1 .. 18
      PROVE  Script[i].table \in TableNames /\ Script[i].cols \subseteq Columns
  BY ScriptIs DEF TableNames, Columns
<1>4. /\ Script[7].table = "settings" /\ Script[7].cols = {ShopId("settings")}
      /\ Script[7].do = "rebuild"
  BY ScriptIs DEF Rebuild
<1>5. Done = 19 /\ DOMAIN Script = 1 .. 18
  BY ScriptIs DEF Done
<1>6. "settings_new" \in TableNames /\ ShopId("settings_new") \in Columns
  BY DEF TableNames, Columns
<1>7. "settings" \in TableNames /\ ShopId("settings") \in Columns
  BY <1>3, <1>4
<1> QED BY <1>2, <1>3, <1>4, <1>5, <1>6, <1>7

---------------------------------------------------------------------------
\* The heir is an owner, and an owner is somebody.
LEMMA HeirIsOwner ==
    /\ \A c : Abstract!Heir(c) \in Abstract!Owners
    /\ Null \notin Abstract!Owners
  BY OwnersAssumption DEF Abstract!Heir, Abstract!Owners

LEMMA OwnersStay == Abstract!Owners' = Abstract!Owners
  BY DEF Abstract!Owners

\* An adopted table has rows, all of them owned; and nobody adopts twice.
LEMMA AdoptedIsOwned ==
    ASSUME NEW table \in SUBSET Abstract!Row, NEW h \in Abstract!Owners
    PROVE  /\ Abstract!Adopted(table, h) \in SUBSET Abstract!Row
           /\ Abstract!Unowned(Abstract!Adopted(table, h)) = {}
           /\ Abstract!Unowned(table) = {} => Abstract!Adopted(table, h) = table
<1> DEFINE given == {[id |-> row.id, shop |-> h] : row \in Abstract!Unowned(table)}
<1>1. \A row \in given : row \in Abstract!Row /\ row.shop = h
  BY DEF Abstract!Row, Abstract!Unowned
<1>2. h # Null
  BY HeirIsOwner
<1>3. Abstract!Adopted(table, h) = (table \ Abstract!Unowned(table)) \cup given
  BY DEF Abstract!Adopted
<1>4. Abstract!Unowned(table) = {} => given = {}
  OBVIOUS
<1> HIDE DEF given
<1> QED BY <1>1, <1>2, <1>3, <1>4 DEF Abstract!Unowned

---------------------------------------------------------------------------
\* What a statement has done stays done.
LEMMA ExecutedStays ==
    ASSUME NEW i \in 1 .. 18, NEW d, NEW e, Grows(d, e), Executed(i, d)
    PROVE  Executed(i, e)
  BY ScriptFacts DEF Executed, Grows

LEMMA NothingLeftStays == ASSUME NothingLeft, Grows(disk, disk') PROVE NothingLeft'
  BY DEF NothingLeft, Grows

LEMMA GrowsItself == ASSUME NEW d PROVE Grows(d, d)
  BY DEF Grows

\* A process that serves has run the whole script, and nobody's rows are left.
LEMMA ServingMeans ==
    ASSUME IInv, serving
    PROVE  running /\ next = 19 /\ inTx = 0 /\ db = disk /\ NothingLeft
<1>1. running /\ next = 19
  BY ScriptFacts DEF IInv, ProcessOK
<1>2. inTx = 0 /\ db = disk
  BY <1>1 DEF IInv, InTxOK, Rebuilding
<1>3. \A i \in 1 .. 18 : Executed(i, disk)
  BY <1>1 DEF IInv, ScriptDone
<1>4. ShopId("settings") \in disk.cols
  BY <1>3, ScriptFacts DEF Executed
<1>5. Abstract!Unowned(disk.rows["settings"]) = {}
  BY <1>4 DEF IInv, Sound
<1>6. Abstract!Unowned(disk.rows["event_mappings"]) = {}
  <2>1. Executed(10, disk) /\ Script[10] = Backfill("event_mappings")
    BY <1>3, ScriptIs
  <2> QED BY <2>1 DEF Executed, Backfill
<1>7. Abstract!Unowned(disk.rows["sync_logs"]) = {}
  <2>1. Executed(14, disk) /\ Script[14] = Backfill("sync_logs")
    BY <1>3, ScriptIs
  <2> QED BY <2>1 DEF Executed, Backfill
<1> QED BY <1>1, <1>2, <1>4, <1>5, <1>6, <1>7 DEF NothingLeft, Data

\* A statement that does what it is for, and gives rows to the heir only.
LEMMA StatementKeeps ==
    ASSUME IInv, running, next < Done, Advance, inTx' = 0, UNCHANGED shops,
           db' = disk', Sound(disk'), Grows(disk, disk'), Executed(next, disk'),
           legacyShopIdCache' \in {legacyShopIdCache, Abstract!Heir(shops)},
           \/ heirs' = heirs
           \/ ~NothingLeft /\ heirs' = heirs \cup {Abstract!Heir(shops)}
    PROVE  IInv'
<1>1. next \in 1 .. 18 /\ next' = next + 1 /\ ~serving' /\ running'
  BY ScriptFacts DEF IInv, TypeOK, ProcessOK, Advance
<1>2. heirs' \in SUBSET Abstract!Owners
  BY HeirIsOwner DEF IInv, TypeOK
<1>3. TypeOK'
  <2>1. disk' \in Database
    BY DEF Sound
  <2>2. next' \in 1 .. Done
    BY <1>1, ScriptFacts
  <2>3. shops' \in SUBSET Shops
    BY DEF IInv, TypeOK
  <2>4. legacyShopIdCache' \in Abstract!Owners \cup {Null}
    BY HeirIsOwner DEF IInv, TypeOK
  <2>5. db' \in Database
    BY <2>1
  <2>6. Database' = Database
    BY DEF Database, Abstract!Row, Abstract!Owners
  <2>7. inTx' \in 0 .. 4 /\ serving' \in BOOLEAN /\ running' \in BOOLEAN
    BY DEF IInv, TypeOK, Advance
  <2>8. Done' = Done
    BY DEF Done
  <2> QED BY <1>2, <2>1, <2>2, <2>3, <2>4, <2>5, <2>6, <2>7, <2>8, OwnersStay DEF TypeOK
<1>4. InTxOK'
  BY DEF InTxOK
<1>5. ProcessOK'
  BY <1>1 DEF ProcessOK
<1>6. ScriptDone'
  <2> SUFFICES ASSUME NEW i \in 1 .. next' - 1 PROVE Executed(i, disk')
    BY DEF ScriptDone, Executed
  <2>1. CASE i = next
    BY <2>1
  <2>2. CASE i # next
    <3>1. i \in 1 .. next - 1 /\ i \in 1 .. 18
      BY <1>1, <2>2
    <3>2. Executed(i, disk)
      BY <3>1 DEF IInv, ScriptDone
    <3> QED BY <3>1, <3>2, ExecutedStays
  <2> QED BY <2>1, <2>2
<1>7. HeirsOK'
  <2>1. \E h \in Abstract!Owners : heirs' \subseteq {h}
    BY HeirIsOwner DEF IInv, HeirsOK
  <2>2. NothingLeft' \/ heirs' \subseteq {Abstract!Heir(shops)}
    BY NothingLeftStays DEF IInv, HeirsOK
  <2>3. legacyShopIdCache' # Null => NothingLeft' \/ legacyShopIdCache' = Abstract!Heir(shops)
    BY NothingLeftStays DEF IInv, HeirsOK
  <2> QED BY <2>1, <2>2, <2>3 DEF HeirsOK
<1> QED BY <1>3, <1>4, <1>5, <1>6, <1>7 DEF IInv

\* Outside the rebuild no transaction is open.
LEMMA OutsideTransaction ==
    ASSUME IInv, inTx = 0 \/ next # 7
    PROVE  inTx = 0 /\ db = disk
  BY DEF IInv, InTxOK, Rebuilding

LEMMA CreateTableKeeps == ASSUME IInv, CreateTable PROVE IInv'
<1> DEFINE t == Script[next].table
           cols == Script[next].cols
<1>1. /\ running /\ next < Done /\ Script[next].do = "create" /\ Advance
      /\ disk' = WithTable(db, t, cols) /\ db' = disk'
      /\ UNCHANGED <<shops, inTx, legacyShopIdCache, heirs>>
  BY DEF CreateTable, At, Autocommit, Stmt
<1>2. next \in 1 .. 18 /\ next # 7
  BY <1>1, ScriptFacts DEF IInv, TypeOK
<1>3. inTx = 0 /\ db = disk
  BY <1>2, OutsideTransaction
<1>4. /\ t \in TableNames /\ t \notin {"settings", "settings_new"}
      /\ cols \subseteq Columns
      /\ {ShopId("settings"), ShopId("settings_new")} \cap cols = {}
      /\ t = "sessions" => <<"sessions", "expires_at">> \in cols
  BY <1>1, <1>2, ScriptFacts
<1> HIDE DEF t, cols
<1>5. /\ disk' \in Database
      /\ disk'.tables = disk.tables \cup {t}
      /\ disk'.cols = IF t \in disk.tables THEN disk.cols ELSE disk.cols \cup cols
      /\ disk'.indexes = disk.indexes /\ disk'.rows = disk.rows
  <2>1. disk \in Database /\ cols \in SUBSET Columns /\ disk' = WithTable(disk, t, cols)
    BY <1>1, <1>3, <1>4 DEF IInv, Sound
  <2>2. t \in TableNames
    BY <1>4
  <2> QED BY <2>1, <2>2 DEF WithTable, Database
<1>6. Sound(disk')
  BY <1>4, <1>5 DEF IInv, Sound
<1>7. Grows(disk, disk')
  BY <1>5 DEF Grows
<1>8. Executed(next, disk')
  BY <1>1, <1>5 DEF Executed, t
<1> QED BY <1>1, <1>3, <1>6, <1>7, <1>8, StatementKeeps

LEMMA AddMissingColumnKeeps == ASSUME IInv, AddMissingColumn PROVE IInv'
<1> DEFINE cols == Script[next].cols
<1>1. /\ running /\ next < Done /\ Script[next].do = "column" /\ Advance
      /\ Script[next].table \in db.tables
      /\ disk' = [db EXCEPT !.cols = @ \cup cols] /\ db' = disk'
      /\ UNCHANGED <<shops, inTx, legacyShopIdCache, heirs>>
  BY DEF AddMissingColumn, At, Autocommit, Stmt
<1>2. next \in 1 .. 18 /\ next # 7
  BY <1>1, ScriptFacts DEF IInv, TypeOK
<1>3. inTx = 0 /\ db = disk
  BY <1>2, OutsideTransaction
<1>4. cols \subseteq Columns /\ {ShopId("settings"), ShopId("settings_new")} \cap cols = {}
  BY <1>1, <1>2, ScriptFacts
<1> HIDE DEF cols
<1>5. /\ disk' \in Database /\ disk'.tables = disk.tables /\ disk'.cols = disk.cols \cup cols
      /\ disk'.indexes = disk.indexes /\ disk'.rows = disk.rows
  BY <1>1, <1>3, <1>4 DEF IInv, Sound, Database
<1>6. Sound(disk')
  BY <1>4, <1>5 DEF IInv, Sound
<1>7. Grows(disk, disk')
  BY <1>5 DEF Grows
<1>8. Executed(next, disk')
  BY <1>1, <1>3, <1>5 DEF Executed, cols
<1> QED BY <1>1, <1>3, <1>6, <1>7, <1>8, StatementKeeps

LEMMA CreateIndexKeeps == ASSUME IInv, CreateIndex PROVE IInv'
<1> DEFINE cols == Script[next].cols
<1>1. /\ running /\ next < Done /\ Script[next].do = "index" /\ Advance
      /\ cols \subseteq db.cols
      /\ disk' = [db EXCEPT !.indexes = @ \cup cols] /\ db' = disk'
      /\ UNCHANGED <<shops, inTx, legacyShopIdCache, heirs>>
  BY DEF CreateIndex, At, Autocommit, Stmt
<1>2. next \in 1 .. 18 /\ next # 7
  BY <1>1, ScriptFacts DEF IInv, TypeOK
<1>3. inTx = 0 /\ db = disk
  BY <1>2, OutsideTransaction
<1>4. cols \subseteq Columns
  BY <1>2, ScriptFacts
<1> HIDE DEF cols
<1>5. /\ disk' \in Database /\ disk'.tables = disk.tables /\ disk'.cols = disk.cols
      /\ disk'.indexes = disk.indexes \cup cols /\ disk'.rows = disk.rows
  BY <1>1, <1>3, <1>4 DEF IInv, Sound, Database
<1>6. Sound(disk')
  BY <1>5 DEF IInv, Sound
<1>7. Grows(disk, disk')
  BY <1>5 DEF Grows
<1>8. Executed(next, disk')
  BY <1>1, <1>3, <1>5 DEF Executed, cols
<1> QED BY <1>1, <1>3, <1>6, <1>7, <1>8, StatementKeeps

LEMMA CreateSettingsKeeps == ASSUME IInv, CreateSettings PROVE IInv'
<1>1. /\ running /\ next < Done /\ Script[next].do = "rebuild" /\ Advance
      /\ "settings" \notin db.tables /\ inTx = 0
      /\ disk' = WithTable(db, "settings", {ShopId("settings")}) /\ db' = disk'
      /\ UNCHANGED <<shops, inTx, legacyShopIdCache, heirs>>
  BY DEF CreateSettings, At, Autocommit
<1>2. next = 7
  BY <1>1, ScriptFacts DEF IInv, TypeOK
<1>3. db = disk
  BY <1>1, OutsideTransaction
<1>4. /\ disk' \in Database
      /\ disk'.tables = disk.tables \cup {"settings"}
      /\ disk'.cols = disk.cols \cup {ShopId("settings")}
      /\ disk'.indexes = disk.indexes /\ disk'.rows = disk.rows
  <2>1. /\ disk \in Database /\ "settings" \in TableNames
        /\ {ShopId("settings")} \in SUBSET Columns
        /\ "settings" \notin disk.tables
        /\ disk' = WithTable(disk, "settings", {ShopId("settings")})
    BY <1>1, <1>3, ScriptFacts DEF IInv, Sound
  <2> QED BY <2>1 DEF WithTable, Database
<1>5. Sound(disk')
  BY <1>1, <1>3, <1>4 DEF IInv, Sound, ShopId, Abstract!Unowned
<1>6. Grows(disk, disk')
  BY <1>4 DEF Grows
<1>7. Executed(next, disk')
  BY <1>2, <1>4, ScriptFacts DEF Executed
<1> QED BY <1>1, <1>5, <1>6, <1>7, StatementKeeps

LEMMA AlreadyRebuiltKeeps == ASSUME IInv, AlreadyRebuilt PROVE IInv'
<1>1. /\ running /\ next < Done /\ Script[next].do = "rebuild" /\ Advance
      /\ ShopId("settings") \in db.cols /\ inTx = 0
      /\ UNCHANGED <<disk, db, shops, inTx, legacyShopIdCache, heirs>>
  BY DEF AlreadyRebuilt, At
<1>2. next = 7
  BY <1>1, ScriptFacts DEF IInv, TypeOK
<1>3. db = disk
  BY <1>1, OutsideTransaction
<1>4. Sound(disk) /\ Grows(disk, disk)
  BY GrowsItself DEF IInv
<1>5. Executed(next, disk)
  BY <1>1, <1>2, <1>3, ScriptFacts DEF Executed, IInv, Sound
<1> QED BY <1>1, <1>3, <1>4, <1>5, StatementKeeps

---------------------------------------------------------------------------
\* A step of the transaction leaves the file alone.
LEMMA TransactionKeeps ==
    ASSUME IInv, UNCHANGED <<disk, shops, serving, running, next, heirs>>,
           db' \in Database, inTx' \in 1 .. 4, InTxOK',
           legacyShopIdCache' \in {legacyShopIdCache, Abstract!Heir(shops)}
    PROVE  IInv'
<1>1. TypeOK'
  <2>1. Database' = Database /\ Done' = Done
    BY DEF Database, Done, Abstract!Row, Abstract!Owners
  <2>2. legacyShopIdCache' \in Abstract!Owners \cup {Null}
    BY HeirIsOwner DEF IInv, TypeOK
  <2>3. /\ disk' \in Database /\ shops' \in SUBSET Shops /\ serving' \in BOOLEAN
        /\ running' \in BOOLEAN /\ next' \in 1 .. Done /\ heirs' \in SUBSET Abstract!Owners
        /\ inTx' \in 0 .. 4
    BY DEF IInv, TypeOK
  <2> QED BY <2>1, <2>2, <2>3, OwnersStay DEF TypeOK
<1>2. Sound(disk')
  BY DEF IInv, Sound
<1>3. inTx' # 0
  OBVIOUS
<1>4. running /\ next = 7
  BY <1>3 DEF InTxOK, Rebuilding
<1>5. ProcessOK'
  BY <1>4, ScriptFacts DEF IInv, ProcessOK
<1>6. ScriptDone'
  BY DEF IInv, ScriptDone, Executed
<1>7. HeirsOK'
  BY OwnersStay DEF IInv, HeirsOK, NothingLeft
<1> QED BY <1>1, <1>2, <1>5, <1>6, <1>7 DEF IInv

\* The fields of what the connection sees.
LEMMA DatabaseFields ==
    ASSUME NEW d \in Database
    PROVE  /\ d = [tables |-> d.tables, cols |-> d.cols, indexes |-> d.indexes, rows |-> d.rows]
           /\ d.tables \in SUBSET TableNames
           /\ d.cols \in SUBSET Columns /\ d.indexes \in SUBSET Columns
           /\ d.rows \in [Data \cup {"settings_new"} -> SUBSET Abstract!Row]
  BY DEF Database

LEMMA CreateSettingsNewKeeps == ASSUME IInv, CreateSettingsNew PROVE IInv'
<1>1. /\ running /\ next < Done /\ Script[next].do = "rebuild" /\ inTx = 0
      /\ "settings" \in db.tables /\ ShopId("settings") \notin db.cols
      /\ "settings_new" \notin db.tables
      /\ legacyShopIdCache' = Resolved
      /\ db' = WithTable(db, "settings_new", {ShopId("settings_new")})
      /\ inTx' = 1
      /\ UNCHANGED <<disk, shops, serving, running, next, heirs>>
  BY DEF CreateSettingsNew, At, Resolve, InTransaction
<1>2. next = 7
  BY <1>1, ScriptFacts DEF IInv, TypeOK
<1>3. db = disk /\ disk \in Database
  BY <1>1, OutsideTransaction DEF IInv, Sound
<1>4. ~serving
  BY <1>2, ScriptFacts DEF IInv, ProcessOK
<1>5. /\ legacyShopIdCache' \in {legacyShopIdCache, Abstract!Heir(shops)}
      /\ legacyShopIdCache' # Null
  BY <1>1, HeirIsOwner DEF Resolved
<1>6. /\ db' \in Database
      /\ db'.tables = disk.tables \cup {"settings_new"}
      /\ db'.cols = disk.cols \cup {ShopId("settings_new")}
      /\ db'.indexes = disk.indexes /\ db'.rows = disk.rows
  <2>1. "settings_new" \in TableNames /\ {ShopId("settings_new")} \subseteq Columns
    BY ScriptFacts
  <2> QED BY <1>1, <1>3, <2>1 DEF WithTable, Database
<1>7. Rebuilding'
  BY <1>1, <1>2, <1>3, <1>4, <1>5, <1>6 DEF Rebuilding
<1>8. InTxOK'
  BY <1>1, <1>6, <1>7 DEF InTxOK
<1> QED BY <1>1, <1>5, <1>6, <1>8, TransactionKeeps

LEMMA CopySettingsKeeps == ASSUME IInv, CopySettings PROVE IInv'
<1>1. /\ inTx = 1 /\ inTx' = 2
      /\ db' = [db EXCEPT !.rows["settings_new"] =
                  Abstract!Adopted(db.rows["settings"], legacyShopIdCache)]
      /\ UNCHANGED <<disk, shops, serving, running, next, legacyShopIdCache, heirs>>
  BY DEF CopySettings, At, InTransaction
<1>2. /\ Rebuilding /\ db.rows["settings"] = disk.rows["settings"]
      /\ db \in Database /\ disk \in Database
  BY <1>1 DEF IInv, TypeOK, InTxOK
<1>3. Copied \in SUBSET Abstract!Row
  <2>1. disk.rows["settings"] \in SUBSET Abstract!Row
    BY <1>2, DatabaseFields DEF Data
  <2>2. legacyShopIdCache \in Abstract!Owners
    BY <1>2 DEF Rebuilding, IInv, TypeOK
  <2> QED BY <2>1, <2>2, AdoptedIsOwned DEF Copied
<1>4. /\ db' = [db EXCEPT !.rows = [db.rows EXCEPT !["settings_new"] = Copied]]
      /\ Copied' = Copied
  BY <1>1, <1>2 DEF Copied
<1> HIDE DEF Copied
<1>5. /\ db' \in Database /\ db'.tables = db.tables /\ db'.cols = db.cols
      /\ db'.indexes = db.indexes
      /\ db'.rows = [db.rows EXCEPT !["settings_new"] = Copied]
  BY <1>2, <1>3, <1>4 DEF Database
<1>6. /\ db'.rows["settings_new"] = Copied
      /\ \A t \in Data : db'.rows[t] = db.rows[t]
  BY <1>2, <1>5, DatabaseFields DEF Data
<1>7. Rebuilding'
  BY <1>1, <1>2, <1>5, <1>6 DEF Rebuilding
<1>8. InTxOK'
  BY <1>1, <1>2, <1>4, <1>6, <1>7 DEF InTxOK, Data
<1> QED BY <1>1, <1>5, <1>8, TransactionKeeps

LEMMA DropSettingsKeeps == ASSUME IInv, DropSettings PROVE IInv'
<1>1. /\ inTx = 2 /\ inTx' = 3
      /\ db' = [db EXCEPT !.tables = @ \ {"settings"}, !.rows["settings"] = {}]
      /\ UNCHANGED <<disk, shops, serving, running, next, legacyShopIdCache, heirs>>
  BY DEF DropSettings, At, InTransaction
<1>2. /\ Rebuilding /\ db.rows["settings_new"] = Copied
      /\ db \in Database /\ disk \in Database
  BY <1>1 DEF IInv, TypeOK, InTxOK
<1>3. Copied' = Copied
  BY <1>1 DEF Copied
<1>4. /\ db' \in Database /\ db'.tables = db.tables \ {"settings"} /\ db'.cols = db.cols
      /\ db'.indexes = db.indexes
      /\ db'.rows = [db.rows EXCEPT !["settings"] = {}]
  BY <1>1, <1>2 DEF Database
<1>5. \A t \in {"settings_new"} \cup (Data \ {"settings"}) : db'.rows[t] = db.rows[t]
  BY <1>2, <1>4, DatabaseFields DEF Data
<1>6. Rebuilding'
  BY <1>1, <1>2, <1>4, <1>5 DEF Rebuilding
<1>7. InTxOK'
  BY <1>1, <1>2, <1>3, <1>5, <1>6 DEF InTxOK
<1> QED BY <1>1, <1>4, <1>7, TransactionKeeps

LEMMA RenameSettingsKeeps == ASSUME IInv, RenameSettings PROVE IInv'
<1>1. /\ inTx = 3 /\ inTx' = 4
      /\ db' = [db EXCEPT
                  !.tables = (@ \ {"settings_new"}) \cup {"settings"},
                  !.cols = (@ \ {ShopId("settings_new")}) \cup {ShopId("settings")},
                  !.rows["settings"] = db.rows["settings_new"],
                  !.rows["settings_new"] = {}]
      /\ UNCHANGED <<disk, shops, serving, running, next, legacyShopIdCache, heirs>>
  BY DEF RenameSettings, At, InTransaction
<1>2. /\ Rebuilding /\ db.rows["settings_new"] = Copied
      /\ db \in Database /\ disk \in Database
  BY <1>1 DEF IInv, TypeOK, InTxOK
<1>3. Copied' = Copied
  BY <1>1 DEF Copied
<1>4. Copied \in SUBSET Abstract!Row
  BY <1>2, DatabaseFields
<1>5. /\ db' \in Database
      /\ db'.tables = (db.tables \ {"settings_new"}) \cup {"settings"}
      /\ db'.cols = (db.cols \ {ShopId("settings_new")}) \cup {ShopId("settings")}
      /\ db'.indexes = db.indexes
      /\ db'.rows = [db.rows EXCEPT !["settings"] = Copied, !["settings_new"] = {}]
  <2>1. "settings" \in TableNames /\ ShopId("settings") \in Columns
    BY ScriptFacts
  <2> HIDE DEF Copied
  <2> QED BY <1>1, <1>2, <1>4, <2>1 DEF Database, Data
<1>6. /\ db'.rows["settings"] = Copied
      /\ \A t \in Data \ {"settings"} : db'.rows[t] = db.rows[t]
  <2> HIDE DEF Copied
  <2> QED BY <1>2, <1>5, DatabaseFields DEF Data
<1>7. ShopId("settings") # ShopId("settings_new")
  BY DEF ShopId
<1>8. Rebuilding'
  <2>1. ShopId("settings_new") \notin disk.cols
    BY DEF IInv, Sound
  <2>2. disk'.cols \subseteq db'.cols /\ disk'.indexes = db'.indexes
    BY <1>1, <1>2, <1>5, <2>1 DEF Rebuilding
  <2>3. \A t \in disk'.tables : t # "settings" => t \in db'.tables
    <3>1. "settings_new" \notin disk.tables
      BY DEF IInv, Sound
    <3> QED BY <1>1, <1>2, <1>5, <3>1 DEF Rebuilding
  <2>4. \A t \in db'.tables : t \notin {"settings", "settings_new"} => t \in disk'.tables
    BY <1>1, <1>2, <1>5 DEF Rebuilding
  <2>5. \A t \in Data \ {"settings"} : db'.rows[t] = disk'.rows[t]
    BY <1>1, <1>2, <1>6 DEF Rebuilding
  <2> QED BY <1>1, <1>2, <2>2, <2>3, <2>4, <2>5 DEF Rebuilding
<1>9. InTxOK'
  BY <1>1, <1>3, <1>5, <1>6, <1>7, <1>8 DEF InTxOK
<1> QED BY <1>1, <1>5, <1>9, TransactionKeeps

\* COMMIT: the file has what the transaction made of it.
LEMMA CommitSettingsKeeps == ASSUME IInv, CommitSettings PROVE IInv'
<1>1. /\ running /\ next < Done /\ Advance /\ inTx = 4 /\ inTx' = 0
      /\ db' = db /\ disk' = db
      /\ heirs' = IF disk.rows["settings"] = {} THEN heirs ELSE heirs \cup {legacyShopIdCache}
      /\ UNCHANGED <<shops, legacyShopIdCache>>
  BY DEF CommitSettings, At, Autocommit
<1>2. /\ Rebuilding /\ db \in Database /\ disk \in Database
      /\ db.rows["settings"] = Copied
      /\ "settings" \in db.tables /\ "settings_new" \notin db.tables
      /\ ShopId("settings") \in db.cols /\ ShopId("settings_new") \notin db.cols
  BY <1>1 DEF IInv, TypeOK, InTxOK
<1>3. Abstract!Unowned(Copied) = {}
  <2>1. disk.rows["settings"] \in SUBSET Abstract!Row
    BY <1>2, DatabaseFields DEF Data
  <2>2. legacyShopIdCache \in Abstract!Owners
    BY <1>2 DEF Rebuilding, IInv, TypeOK
  <2> QED BY <2>1, <2>2, AdoptedIsOwned DEF Copied
<1> HIDE DEF Copied
<1>4. Sound(db)
  BY <1>2, <1>3 DEF Sound, Rebuilding, IInv
<1>5. Grows(disk, db)
  BY <1>2, <1>3 DEF Grows, Rebuilding
<1>6. Executed(next, db)
  BY <1>2, ScriptFacts DEF Executed, Rebuilding
<1>7. ~NothingLeft
  BY <1>2 DEF NothingLeft, Rebuilding
<1>8. legacyShopIdCache = Abstract!Heir(shops)
  BY <1>2, <1>7 DEF IInv, HeirsOK, Rebuilding
<1> QED BY <1>1, <1>4, <1>5, <1>6, <1>7, <1>8, StatementKeeps

LEMMA BackfillKeeps == ASSUME IInv, BackfillShopId PROVE IInv'
<1> DEFINE t == Script[next].table
<1>1. /\ running /\ next < Done /\ Script[next].do = "backfill" /\ Advance
      /\ UNCHANGED <<shops, inTx>>
  BY DEF BackfillShopId, At
<1>2. next \in 1 .. 18 /\ next # 7 /\ t \in Data /\ t # "settings"
  BY <1>1, ScriptFacts DEF IInv, TypeOK
<1>3. inTx = 0 /\ db = disk /\ disk \in Database
  BY <1>2, OutsideTransaction DEF IInv, Sound
<1>4. CASE Abstract!Unowned(db.rows[t]) = {}
  <2>1. UNCHANGED <<disk, db, legacyShopIdCache, heirs>>
    BY <1>4 DEF BackfillShopId, Stmt
  <2>2. Executed(next, disk')
    BY <1>1, <1>3, <1>4, <2>1 DEF Executed
  <2>3. Sound(disk') /\ Grows(disk, disk')
    BY <2>1, GrowsItself DEF IInv
  <2> QED BY <1>1, <1>3, <2>1, <2>2, <2>3, StatementKeeps
<1>5. CASE Abstract!Unowned(db.rows[t]) # {}
  <2> DEFINE given == Abstract!Adopted(disk.rows[t], Resolved)
  <2>1. /\ legacyShopIdCache' = Resolved /\ heirs' = heirs \cup {Resolved}
        /\ disk' = [disk EXCEPT !.rows[t] = given] /\ db' = disk'
    BY <1>3, <1>5 DEF BackfillShopId, Stmt, Resolve, Autocommit
  <2>2. ~NothingLeft
    BY <1>2, <1>3, <1>5 DEF NothingLeft
  <2>3. Resolved = Abstract!Heir(shops)
    BY <2>2 DEF Resolved, IInv, HeirsOK
  <2>4. given \in SUBSET Abstract!Row /\ Abstract!Unowned(given) = {}
    <3>1. disk.rows[t] \in SUBSET Abstract!Row
      BY <1>2, <1>3, DatabaseFields
    <3> QED BY <2>3, <3>1, AdoptedIsOwned, HeirIsOwner
  <2> HIDE DEF given, t
  <2>5. /\ disk' \in Database /\ disk'.tables = disk.tables /\ disk'.cols = disk.cols
        /\ disk'.indexes = disk.indexes /\ disk'.rows = [disk.rows EXCEPT ![t] = given]
    BY <1>2, <1>3, <2>1, <2>4 DEF Database
  <2>6. /\ disk'.rows[t] = given
        /\ \A u \in Data \ {t} : disk'.rows[u] = disk.rows[u]
    BY <1>2, <1>3, <2>5, DatabaseFields
  <2>7. Sound(disk')
    BY <1>2, <2>5, <2>6 DEF IInv, Sound, Data
  <2>8. Grows(disk, disk')
    BY <2>4, <2>5, <2>6 DEF Grows
  <2>9. Executed(next, disk')
    BY <1>1, <2>4, <2>6 DEF Executed, t
  <2> QED BY <1>1, <1>3, <2>1, <2>2, <2>3, <2>7, <2>8, <2>9, StatementKeeps
<1> QED BY <1>4, <1>5

---------------------------------------------------------------------------
LEMMA InitInv == ASSUME Init PROVE IInv
<1>1. disk \in Database
  <2>1. Fresh \in Database
    BY DEF Fresh, Database
  <2>2. ASSUME NEW oauth \in BOOLEAN, NEW ids \in [Data -> SUBSET Ids]
        PROVE  SingleShop(oauth, ids) \in Database
    <3>1. Data \cup {"shop_connections"} \subseteq TableNames
      BY ScriptIs DEF Data, TableNames, Create, Rebuild
    <3>2. Script[2].cols \cup Script[3].cols \subseteq Columns
      BY ScriptFacts
    <3>3. ASSUME NEW t \in Data
          PROVE  {[id |-> i, shop |-> Null] : i \in ids[t]} \in SUBSET Abstract!Row
      BY DEF Abstract!Row
    <3> QED BY <3>1, <3>2, <3>3 DEF SingleShop, Database
  <2> QED BY <2>1, <2>2 DEF Init
<1>2. Sound(disk)
  <2>1. CASE disk = Fresh
    BY <1>1, <2>1 DEF Fresh, Sound, Data
  <2>2. ASSUME NEW oauth \in BOOLEAN, NEW ids \in [Data -> SUBSET Ids],
               disk = SingleShop(oauth, ids)
        PROVE  Sound(disk)
    <3>1. disk.tables = Data \cup {"shop_connections"}
      BY <2>2 DEF SingleShop
    <3>2. disk.cols \subseteq Script[2].cols \cup Script[3].cols
      BY <2>2 DEF SingleShop
    <3>3. {ShopId("settings"), ShopId("settings_new")} \cap disk.cols = {}
      BY <3>2, ScriptFacts
    <3> QED BY <1>1, <3>1, <3>3 DEF Sound, Data
  <2> QED BY <2>1, <2>2 DEF Init
<1>3. TypeOK
  <2>1. shops \in SUBSET Shops
    BY DEF Init
  <2>2. db = disk /\ serving = FALSE /\ running = TRUE /\ next = 1 /\ inTx = 0
    BY DEF Init
  <2>3. legacyShopIdCache = Null /\ heirs = {}
    BY DEF Init
  <2>4. next \in 1 .. Done /\ inTx \in 0 .. 4
    BY <2>2, ScriptFacts
  <2>5. serving \in BOOLEAN /\ running \in BOOLEAN
    BY <2>2, Zenon
  <2> QED BY <1>1, <2>1, <2>2, <2>3, <2>4, <2>5 DEF TypeOK
<1>4. InTxOK /\ ProcessOK /\ ScriptDone
  <2>1. inTx = 0 /\ next = 1 /\ db = disk /\ running = TRUE /\ serving = FALSE
    BY DEF Init
  <2> QED BY <2>1 DEF InTxOK, ProcessOK, ScriptDone
<1>5. HeirsOK
  BY HeirIsOwner DEF Init, HeirsOK
<1> QED BY <1>2, <1>3, <1>4, <1>5 DEF IInv

\* A process that serves writes no row without an owner, and takes nothing
\* down that a statement put up.
LEMMA ServingKeeps ==
    ASSUME IInv, serving, UNCHANGED <<process, heirs>>, shops' \in SUBSET Shops,
           db' = disk', disk' \in Database, disk'.tables = disk.tables,
           disk'.cols = disk.cols, disk'.indexes = disk.indexes,
           \A t \in Data : Abstract!Unowned(disk'.rows[t]) = {}
    PROVE  IInv'
<1>1. running /\ next = 19 /\ inTx = 0 /\ db = disk /\ NothingLeft
  BY ServingMeans
<1>2. /\ serving' = serving /\ running' = running /\ next' = next /\ inTx' = inTx
      /\ legacyShopIdCache' = legacyShopIdCache /\ heirs' = heirs
  BY DEF process
<1>3. Grows(disk, disk')
  BY DEF Grows
<1>4. \A i \in 1 .. 18 : Executed(i, disk')
  BY <1>1, <1>3, ExecutedStays DEF IInv, ScriptDone
<1>5. Sound(disk')
  <2>1. "settings" \in disk.tables
    BY <1>1 DEF NothingLeft, IInv, Sound
  <2> QED BY <2>1 DEF IInv, Sound, Data
<1>6. TypeOK'
  <2>1. Database' = Database /\ Done' = Done
    BY DEF Database, Done, Abstract!Row, Abstract!Owners
  <2> QED BY <1>2, <2>1, OwnersStay DEF IInv, TypeOK
<1>7. InTxOK' /\ ProcessOK'
  BY <1>1, <1>2 DEF IInv, InTxOK, ProcessOK, Done
<1>8. ScriptDone'
  <2>1. next' - 1 = 18
    BY <1>1, <1>2
  <2>2. \A i \in 1 .. 18 : Executed(i, disk)'
    BY <1>4 DEF Executed
  <2> QED BY <2>1, <2>2 DEF ScriptDone
<1>9. HeirsOK'
  BY <1>1, <1>2, <1>3, NothingLeftStays, OwnersStay DEF IInv, HeirsOK
<1> QED BY <1>5, <1>6, <1>7, <1>8, <1>9 DEF IInv

LEMMA ShopsKeep ==
    ASSUME IInv, NEW s \in Shops, Connect(s) \/ Disconnect(s) \/ Purge(s)
    PROVE  IInv'
<1>1. /\ serving /\ UNCHANGED <<process, heirs>> /\ shops' \in SUBSET Shops
  BY DEF Connect, Disconnect, Purge, IInv, TypeOK
<1>2. db = disk /\ disk \in Database /\ \A t \in Data : Abstract!Unowned(disk.rows[t]) = {}
  BY <1>1, ServingMeans DEF NothingLeft, IInv, Sound
<1>3. CASE Connect(s) \/ Disconnect(s)
  <2>1. disk' = disk /\ db' = db
    BY <1>3 DEF Connect, Disconnect
  <2> QED BY <1>1, <1>2, <2>1, ServingKeeps
<1>4. CASE Purge(s)
  <2> DEFINE kept == [t \in DOMAIN disk.rows |-> {row \in disk.rows[t] : row.shop # s}]
  <2>1. disk' = [disk EXCEPT !.rows = kept] /\ db' = disk'
    BY <1>2, <1>4 DEF Purge, Autocommit
  <2>2. /\ DOMAIN disk.rows = Data \cup {"settings_new"}
        /\ \A t \in DOMAIN disk.rows : disk.rows[t] \in SUBSET Abstract!Row
    BY <1>2, DatabaseFields
  <2>3. kept \in [Data \cup {"settings_new"} -> SUBSET Abstract!Row]
    BY <2>2
  <2>4. \A t \in Data : kept[t] \subseteq disk.rows[t]
    BY <2>2
  <2> HIDE DEF kept
  <2>5. /\ disk' \in Database /\ disk'.tables = disk.tables /\ disk'.cols = disk.cols
        /\ disk'.indexes = disk.indexes /\ disk'.rows = kept
    BY <1>2, <2>1, <2>3 DEF Database
  <2>6. \A t \in Data : Abstract!Unowned(disk'.rows[t]) = {}
    BY <1>2, <2>4, <2>5 DEF Abstract!Unowned
  <2> QED BY <1>1, <2>1, <2>5, <2>6, ServingKeeps
<1> QED BY <1>3, <1>4

LEMMA WriteRowKeeps ==
    ASSUME IInv, NEW t \in Data, NEW row \in Abstract!Row, WriteRow(t, row)
    PROVE  IInv'
<1>1. /\ serving /\ row.shop \in Shops /\ UNCHANGED <<shops, process, heirs>>
      /\ disk' = [db EXCEPT !.rows[t] = @ \cup {row}] /\ db' = disk'
  BY DEF WriteRow, Autocommit
<1>2. db = disk /\ disk \in Database /\ \A u \in Data : Abstract!Unowned(disk.rows[u]) = {}
  BY <1>1, ServingMeans DEF NothingLeft, IInv, Sound
<1>3. /\ disk' \in Database /\ disk'.tables = disk.tables /\ disk'.cols = disk.cols
      /\ disk'.indexes = disk.indexes
      /\ disk'.rows = [disk.rows EXCEPT ![t] = @ \cup {row}]
  BY <1>1, <1>2 DEF Database
<1>4. /\ disk'.rows[t] = disk.rows[t] \cup {row}
      /\ \A u \in Data \ {t} : disk'.rows[u] = disk.rows[u]
  BY <1>2, <1>3, DatabaseFields
<1>5. row.shop # Null
  BY <1>1, OwnersAssumption
<1>6. \A u \in Data : Abstract!Unowned(disk'.rows[u]) = {}
  BY <1>2, <1>4, <1>5 DEF Abstract!Unowned
<1>7. shops' \in SUBSET Shops
  BY <1>1 DEF IInv, TypeOK
<1> QED BY <1>1, <1>3, <1>6, <1>7, ServingKeeps

LEMMA ProcessKeeps == ASSUME IInv, Listen \/ Crash \/ Start PROVE IInv'
<1>1. /\ disk' = disk /\ shops' = shops /\ heirs' = heirs
      /\ Database' = Database /\ Done' = Done
  BY DEF Listen, Crash, Start, Database, Done, Abstract!Row, Abstract!Owners
<1>2. disk \in Database
  BY DEF IInv, Sound
<1>3. CASE Listen
  <2>1. /\ running /\ next = Done /\ serving' = TRUE
        /\ UNCHANGED <<disk, db, shops, running, next, inTx, legacyShopIdCache, heirs>>
    BY <1>3 DEF Listen
  <2>2. TypeOK'
    BY <1>1, <2>1, OwnersStay DEF IInv, TypeOK
  <2>3. inTx = 0 /\ db = disk
    BY <2>1, OutsideTransaction, ScriptFacts
  <2>4. InTxOK' /\ ProcessOK'
    BY <2>1, <2>3, <1>1 DEF InTxOK, ProcessOK
  <2>5. ScriptDone' /\ HeirsOK' /\ Sound(disk')
    BY <2>1, OwnersStay DEF IInv, ScriptDone, Executed, HeirsOK, NothingLeft, Sound
  <2> QED BY <2>2, <2>4, <2>5 DEF IInv
<1>4. CASE Crash
  <2>1. /\ db' = disk /\ running' = FALSE /\ serving' = FALSE /\ next' = 1 /\ inTx' = 0
        /\ legacyShopIdCache' = Null /\ UNCHANGED <<disk, shops, heirs>>
    BY <1>4 DEF Crash
  <2>2. TypeOK'
    <3>1. running' \in BOOLEAN /\ serving' \in BOOLEAN
      BY <2>1, Zenon
    <3>2. next' \in 1 .. Done' /\ inTx' \in 0 .. 4
      BY <1>1, <2>1, ScriptFacts
    <3> QED BY <1>1, <1>2, <2>1, <3>1, <3>2, OwnersStay DEF IInv, TypeOK
  <2>3. InTxOK' /\ ProcessOK' /\ ScriptDone'
    BY <2>1 DEF InTxOK, ProcessOK, ScriptDone
  <2>4. HeirsOK' /\ Sound(disk')
    BY <2>1, OwnersStay DEF IInv, HeirsOK, NothingLeft, Sound
  <2> QED BY <2>2, <2>3, <2>4 DEF IInv
<1>5. CASE Start
  <2>1. /\ ~running /\ running' = TRUE
        /\ UNCHANGED <<disk, db, shops, serving, next, inTx, legacyShopIdCache, heirs>>
    BY <1>5 DEF Start
  <2>2. next = 1 /\ inTx = 0 /\ ~serving
    BY <2>1 DEF IInv, ProcessOK
  <2>3. TypeOK'
    BY <1>1, <2>1, OwnersStay DEF IInv, TypeOK
  <2>4. InTxOK' /\ ProcessOK'
    BY <2>1, <2>2 DEF IInv, InTxOK, ProcessOK
  <2>5. ScriptDone' /\ HeirsOK' /\ Sound(disk')
    BY <2>1, OwnersStay DEF IInv, ScriptDone, Executed, HeirsOK, NothingLeft, Sound
  <2> QED BY <2>3, <2>4, <2>5 DEF IInv
<1> QED BY <1>3, <1>4, <1>5

LEMMA StutterKeeps == ASSUME IInv, UNCHANGED vars PROVE IInv'
<1>1. UNCHANGED <<disk, db, shops, serving, running, next, inTx, legacyShopIdCache, heirs>>
  BY DEF vars, process
<1>2. Database' = Database /\ Done' = Done
  BY DEF Database, Done, Abstract!Row, Abstract!Owners
<1>3. TypeOK'
  BY <1>1, <1>2, OwnersStay DEF IInv, TypeOK
<1>4. InTxOK' /\ ProcessOK' /\ ScriptDone' /\ HeirsOK' /\ Sound(disk')
  BY <1>1, <1>2, OwnersStay DEF IInv, InTxOK, Rebuilding, Copied, ProcessOK, ScriptDone, Executed,
                                HeirsOK, NothingLeft, Sound
<1> QED BY <1>3, <1>4 DEF IInv

\* The invariant holds at first and is kept by every step.
THEOREM Inductive == Spec => []IInv
<1>1. IInv /\ [Next]_vars => IInv'
  <2> SUFFICES ASSUME IInv, [Next]_vars PROVE IInv'
    OBVIOUS
  <2>1. CASE Step
    BY <2>1, CreateTableKeeps, AddMissingColumnKeeps, CreateIndexKeeps, CreateSettingsKeeps,
       AlreadyRebuiltKeeps, CreateSettingsNewKeeps, CopySettingsKeeps, DropSettingsKeeps,
       RenameSettingsKeeps, CommitSettingsKeeps, BackfillKeeps DEF Step
  <2>2. CASE Listen \/ Crash \/ Start
    BY <2>2, ProcessKeeps
  <2>3. CASE \E s \in Shops : Connect(s) \/ Disconnect(s) \/ Purge(s)
    BY <2>3, ShopsKeep
  <2>4. CASE \E t \in Data, row \in Abstract!Row : WriteRow(t, row)
    BY <2>4, WriteRowKeeps
  <2>5. CASE UNCHANGED vars
    BY <2>5, StutterKeeps
  <2> QED BY <2>1, <2>2, <2>3, <2>4, <2>5 DEF Next
<1> QED BY <1>1, InitInv, PTL DEF Spec

---------------------------------------------------------------------------
\* The file, the connection and the process keep their types.
THEOREM TypeCorrect == Spec => []TypeOK
<1>1. IInv => TypeOK
  BY DEF IInv
<1> QED BY <1>1, Inductive, PTL

\* resolveLegacyShopId: all that a single-shop release left goes to one owner,
\* whatever the number of starts it takes and the statements they die in.
THEOREM RowsStayTogether == Spec => []OneHeir
<1>1. IInv => OneHeir
  <2> SUFFICES ASSUME IInv PROVE OneHeir
    OBVIOUS
  <2>1. PICK h \in Abstract!Owners : heirs \subseteq {h}
    BY DEF IInv, HeirsOK
  <2>2. heirs = {} \/ heirs = {h}
    BY <2>1
  <2>3. Cardinality(heirs) = 0 \/ Cardinality(heirs) = 1
    BY <2>2, FS_EmptySet, FS_Singleton
  <2> QED BY <2>3 DEF OneHeir
<1> QED BY <1>1, Inductive, PTL

\* initDatabase: requests are served only over the whole schema, with every row
\* owned, wherever earlier starts died.
THEOREM ServesComplete == Spec => []ServedComplete
<1>1. IInv => ServedComplete
  <2> SUFFICES ASSUME IInv, serving
               PROVE  /\ disk = db
                      /\ \A i \in DOMAIN Script :
                            /\ Script[i].table \in disk.tables
                            /\ Script[i].cols \subseteq disk.cols
                            /\ Script[i].do = "index" => Script[i].cols \subseteq disk.indexes
                      /\ "settings_new" \notin disk.tables
                      /\ \A t \in Data : Abstract!Unowned(disk.rows[t]) = {}
    BY DEF ServedComplete
  <2>1. db = disk /\ next = 19 /\ \A t \in Data : Abstract!Unowned(disk.rows[t]) = {}
    BY ServingMeans DEF NothingLeft
  <2>2. \A i \in 1 .. 18 : Executed(i, disk)
    BY <2>1 DEF IInv, ScriptDone
  <2>3. {"shop_connections", "settings", "event_mappings", "sync_logs", "users", "sessions"}
           \subseteq disk.tables
    <3>1. Executed(1, disk) /\ Executed(7, disk) /\ Executed(8, disk) /\ Executed(12, disk)
          /\ Executed(16, disk) /\ Executed(17, disk)
      BY <2>2
    <3> QED BY <3>1, ScriptIs DEF Executed, Create, Rebuild
  <2>4. \A i \in 1 .. 18 : Script[i].table \in disk.tables
    <3>1. ASSUME NEW i \in 1 .. 18
          PROVE  Script[i].table \in {"shop_connections", "settings", "event_mappings",
                                      "sync_logs", "users", "sessions"}
      <4>1. \/ i = 1 \/ i = 2 \/ i = 3 \/ i = 4 \/ i = 5 \/ i = 6 \/ i = 7 \/ i = 8 \/ i = 9
            \/ i = 10 \/ i = 11 \/ i = 12 \/ i = 13 \/ i = 14 \/ i = 15 \/ i = 16 \/ i = 17
            \/ i = 18
        OBVIOUS
      <4> QED BY <4>1, ScriptIs DEF Create, AddColumn, Index, Backfill, Rebuild
    <3> QED BY <2>3, <3>1
  <2>5. \A i \in 1 .. 18 : Script[i].do \in {"column", "index", "rebuild"} =>
           Script[i].cols \subseteq disk.cols
    BY <2>2 DEF Executed
  <2>6. {ShopId("event_mappings"), ShopId("sync_logs")} \subseteq disk.cols
    <3>1. Script[9].cols \subseteq disk.cols /\ Script[13].cols \subseteq disk.cols
      BY <2>2, <2>5, ScriptIs DEF AddColumn
    <3> QED BY <3>1, ScriptIs DEF AddColumn, ShopId
  <2>7. <<"sessions", "expires_at">> \in disk.cols
    BY <2>3 DEF IInv, Sound
  <2>8. ASSUME NEW i \in 1 .. 18, Script[i].do \in {"create", "backfill"}
        PROVE  Script[i].cols \subseteq
                 {ShopId("event_mappings"), ShopId("sync_logs"), <<"sessions", "expires_at">>}
    <3>1. i \in {1, 8, 10, 12, 14, 16, 17}
      <4>1. \/ i = 1 \/ i = 2 \/ i = 3 \/ i = 4 \/ i = 5 \/ i = 6 \/ i = 7 \/ i = 8 \/ i = 9
            \/ i = 10 \/ i = 11 \/ i = 12 \/ i = 13 \/ i = 14 \/ i = 15 \/ i = 16 \/ i = 17
            \/ i = 18
        OBVIOUS
      <4> QED BY <2>8, <4>1, ScriptIs DEF AddColumn, Index, Rebuild
    <3> QED BY <3>1, ScriptIs DEF Create, Backfill
  <2>9. \A i \in 1 .. 18 : Script[i].cols \subseteq disk.cols
    BY <2>5, <2>6, <2>7, <2>8, ScriptFacts
  <2>10. \A i \in 1 .. 18 : Script[i].do = "index" => Script[i].cols \subseteq disk.indexes
    BY <2>2 DEF Executed
  <2> QED BY <2>1, <2>4, <2>9, <2>10, ScriptFacts DEF IInv, Sound
<1> QED BY <1>1, Inductive, PTL

---------------------------------------------------------------------------
(* The moves of LegacyRows.                                                *)

Tables == [t \in Data |-> disk.rows[t]]

LEMMA RowsTyped ==
    ASSUME IInv
    PROVE  /\ Tables \in [Data -> SUBSET Abstract!Row]
           /\ \A t \in Data : Tables[t] = disk.rows[t]
  BY DatabaseFields DEF Tables, IInv, Sound

\* All of one table is given to the heir, the other tables are left alone.
LEMMA AdoptingStep ==
    ASSUME IInv, ~serving, NEW t \in Data,
           disk'.rows[t] = Abstract!Adopted(disk.rows[t], Abstract!Heir(shops)),
           \A u \in Data \ {t} : disk'.rows[u] = disk.rows[u],
           UNCHANGED <<shops, serving>>
    PROVE  Abstract!Next
<1>1. Tables' = [Tables EXCEPT ![t] = Abstract!Adopted(@, Abstract!Heir(shops))]
  BY RowsTyped DEF Tables
<1>2. Abstract!Adopt(t)
  BY <1>1 DEF Abstract!Adopt, Tables
<1> QED BY <1>2 DEF Abstract!Next

\* A commit of the rebuild adopts settings, a backfill its table.
LEMMA CommitRefines == ASSUME IInv, CommitSettings PROVE Abstract!Next
<1>1. /\ inTx = 4 /\ disk' = db /\ UNCHANGED <<shops, serving>>
  BY DEF CommitSettings, At, Autocommit, Advance
<1>2. Rebuilding /\ db.rows["settings"] = Copied
  BY <1>1 DEF IInv, TypeOK, InTxOK
<1>3. ~NothingLeft
  BY <1>2 DEF NothingLeft, Rebuilding
<1>4. legacyShopIdCache = Abstract!Heir(shops)
  BY <1>2, <1>3 DEF IInv, HeirsOK, Rebuilding
<1>5. disk'.rows["settings"] = Abstract!Adopted(disk.rows["settings"], Abstract!Heir(shops))
  BY <1>1, <1>2, <1>4 DEF Copied
<1>6. \A u \in Data \ {"settings"} : disk'.rows[u] = disk.rows[u]
  BY <1>1, <1>2 DEF Rebuilding
<1>7. "settings" \in Data /\ ~serving
  BY <1>2 DEF Data, Rebuilding
<1> QED BY <1>1, <1>5, <1>6, <1>7, AdoptingStep

LEMMA BackfillRefines ==
    ASSUME IInv, BackfillShopId
    PROVE  Abstract!Next \/ UNCHANGED <<Tables, shops, serving>>
<1> DEFINE t == Script[next].table
<1>1. /\ running /\ next < Done /\ Script[next].do = "backfill" /\ UNCHANGED <<shops, serving>>
  BY DEF BackfillShopId, At, Advance
<1>2. next \in 1 .. 18 /\ next # 7 /\ t \in Data /\ ~serving
  BY <1>1, ScriptFacts DEF IInv, TypeOK, ProcessOK
<1>3. db = disk /\ disk \in Database
  BY <1>2, OutsideTransaction DEF IInv, Sound
<1>4. CASE Abstract!Unowned(db.rows[t]) = {}
  BY <1>1, <1>4 DEF BackfillShopId, Stmt, Tables
<1>5. CASE Abstract!Unowned(db.rows[t]) # {}
  <2>1. disk' = [disk EXCEPT !.rows[t] = Abstract!Adopted(@, Resolved)]
    BY <1>3, <1>5 DEF BackfillShopId, Stmt, Autocommit
  <2>2. ~NothingLeft
    BY <1>2, <1>3, <1>5 DEF NothingLeft
  <2>3. Resolved = Abstract!Heir(shops)
    BY <2>2 DEF Resolved, IInv, HeirsOK
  <2> DEFINE given == Abstract!Adopted(disk.rows[t], Resolved)
  <2>4. disk'.rows = [disk.rows EXCEPT ![t] = given]
    BY <1>3, <2>1 DEF Database
  <2> HIDE DEF given, t
  <2>5. disk'.rows[t] = given /\ \A u \in Data \ {t} : disk'.rows[u] = disk.rows[u]
    BY <1>2, <1>3, <2>4, DatabaseFields
  <2> QED BY <1>1, <1>2, <2>3, <2>5, AdoptingStep DEF given
<1> QED BY <1>4, <1>5

\* The other statements keep every row.
LEMMA StatementRefines ==
    ASSUME IInv, Step, ~CommitSettings, ~BackfillShopId
    PROVE  UNCHANGED <<Tables, shops, serving>>
<1>1. UNCHANGED <<shops, serving>>
  BY DEF Step, CreateTable, AddMissingColumn, CreateIndex, CreateSettings, AlreadyRebuilt,
         CreateSettingsNew, CopySettings, DropSettings, RenameSettings, Advance
<1>2. CASE CreateTable \/ AddMissingColumn \/ CreateIndex \/ CreateSettings
  <2>1. inTx = 0 \/ next # 7
    BY <1>2, ScriptFacts DEF CreateTable, AddMissingColumn, CreateIndex, CreateSettings, At
  <2>2. db = disk /\ disk \in Database
    BY <2>1, OutsideTransaction DEF IInv, Sound
  <2>3. disk'.rows = disk.rows
    BY <1>2, <2>2 DEF CreateTable, AddMissingColumn, CreateIndex, CreateSettings, Autocommit,
                      WithTable, Database
  <2> QED BY <1>1, <2>3 DEF Tables
<1>3. CASE \/ AlreadyRebuilt \/ CreateSettingsNew \/ CopySettings
           \/ DropSettings \/ RenameSettings
  <2>1. disk' = disk
    BY <1>3 DEF AlreadyRebuilt, CreateSettingsNew, CopySettings, DropSettings, RenameSettings,
                InTransaction
  <2> QED BY <1>1, <2>1 DEF Tables
<1> QED BY <1>2, <1>3 DEF Step

LEMMA ServingOwns == IInv /\ serving => NothingLeft
  BY ServingMeans

LEMMA ServingOwnsNext == IInv' /\ serving' => NothingLeft'
  BY ServingOwns, PTL

\* What happens while the process serves is use.
LEMMA ServingRefines ==
    ASSUME IInv, IInv', serving, serving' = serving PROVE Abstract!Next
<1>1. shops' \in SUBSET Shops /\ Tables' \in [Data -> SUBSET Abstract!Row]
  <2>1. disk' \in Database /\ shops' \in SUBSET Shops
    BY DEF IInv, TypeOK, Database, Abstract!Row, Abstract!Owners
  <2> QED BY <2>1, DatabaseFields DEF Tables
<1>2. \A t \in Data : Abstract!Unowned(Tables'[t]) = {}
  <2>1. NothingLeft'
    BY ServingOwnsNext
  <2> QED BY <2>1 DEF NothingLeft, Tables
<1>3. Abstract!Use
  BY <1>1, <1>2 DEF Abstract!Use, Tables
<1> QED BY <1>3 DEF Abstract!Next

LEMMA RefinesInit == ASSUME Init PROVE Abstract!Init
<1>1. IInv
  BY InitInv
<1>2. Tables \in [Data -> SUBSET Abstract!Row] /\ shops \in SUBSET Shops
  BY <1>1, RowsTyped DEF IInv, TypeOK
<1>3. serving = FALSE
  BY DEF Init
<1> QED BY <1>2, <1>3 DEF Abstract!Init, Tables

LEMMA RefinesStep ==
    ASSUME IInv, IInv', [Next]_vars
    PROVE  Abstract!Next \/ UNCHANGED <<Tables, shops, serving>>
<1>1. CASE Step
  BY <1>1, CommitRefines, BackfillRefines, StatementRefines
<1>2. CASE Listen
  <2>1. running /\ next = Done /\ ~serving /\ serving' = TRUE /\ UNCHANGED <<disk, shops>>
    BY <1>2 DEF Listen
  <2>2. \A t \in Data : Abstract!Unowned(Tables[t]) = {}
    <3>1. \A t \in Data : Abstract!Unowned(Tables'[t]) = {}
      <4>1. NothingLeft'
        BY <2>1, ServingOwnsNext
      <4> QED BY <4>1 DEF NothingLeft, Tables
    <3> QED BY <2>1, <3>1 DEF Tables
  <2>3. Abstract!AllOwned
    BY <2>2 DEF Abstract!AllOwned, Tables
  <2>4. Abstract!Serve
    BY <2>1, <2>3 DEF Abstract!Serve, Tables
  <2> QED BY <2>4 DEF Abstract!Next
<1>3. CASE Crash
  <2>1. running /\ serving' = FALSE /\ UNCHANGED <<disk, shops>> /\ serving \in BOOLEAN
    BY <1>3 DEF Crash, IInv, TypeOK
  <2>2. CASE serving
    <3>1. Abstract!Stop
      BY <2>1, <2>2 DEF Abstract!Stop, Tables
    <3> QED BY <3>1 DEF Abstract!Next
  <2>3. CASE ~serving
    BY <2>1, <2>3 DEF Tables
  <2> QED BY <2>2, <2>3
<1>4. CASE Start
  BY <1>4 DEF Start, Tables
<1>5. CASE \E s \in Shops : Connect(s) \/ Disconnect(s) \/ Purge(s)
  <2>1. serving /\ serving' = serving
    BY <1>5 DEF Connect, Disconnect, Purge, process
  <2> QED BY <2>1, ServingRefines
<1>6. CASE \E t \in Data, row \in Abstract!Row : WriteRow(t, row)
  <2>1. serving /\ serving' = serving
    BY <1>6 DEF WriteRow, process
  <2> QED BY <2>1, ServingRefines
<1>7. CASE UNCHANGED vars
  BY <1>7 DEF vars, process, Tables
<1> QED BY <1>1, <1>2, <1>3, <1>4, <1>5, <1>6, <1>7 DEF Next

\* initDatabase moves the rows of a single-shop release over as LegacyRows
\* promises: a table at a time, as a whole, to one heir, and before it serves.
THEOREM Refinement == Spec => Adopts
<1>1. Init => Abstract!Init
  BY RefinesInit
<1>2. IInv /\ IInv' /\ [Next]_vars =>
        [Abstract!Next]_<<[t \in Data |-> disk.rows[t]], shops, serving>>
  BY RefinesStep DEF Tables
<1> QED BY <1>1, <1>2, Inductive, PTL DEF Spec, Adopts, Abstract!Spec

---------------------------------------------------------------------------
(***************************************************************************)
(* The accounts: what a serving process may rely on, and what a start      *)
(* never does to an account.                                               *)
(***************************************************************************)

\* A start rotates the default password and nothing else.
LegacyIsDefault ==
    phase = "rotating" =>
        \A i \in legacy : users[i].password = DefaultPassword /\ env.password # None

\* A change of a password is under way on an account that exists.
ChangesServed ==
    \A r \in Requests : change[r] # NoChange => phase = "up" /\ change[r].id \in Rows

\* In production, a default password is known to the rotation or to nobody.
DefaultsListed ==
    env.production => \A i \in Rows \ touched :
        users[i].active /\ users[i].password = DefaultPassword =>
            \/ phase \in {"down", "failed"}
            \/ phase = "rotating" /\ i \in legacy

AccountsInv ==
    AccountsTypeOK /\ LegacyIsDefault /\ ChangesServed /\ DefaultsListed /\ ConfiguredAdminAtHand

---------------------------------------------------------------------------
\* An account that is there has the fields of one.
LEMMA RowIsUser ==
    ASSUME AccountsTypeOK, NEW i \in Rows
    PROVE  i \in UserIds /\ users[i] \in User
  BY DEF AccountsTypeOK, Rows

\* An environment for production has a strong password.
LEMMA StrongInProduction ==
    ASSUME NEW e \in Environment
    PROVE  /\ e.username \in Names /\ e.password \in Passwords \cup {None}
           /\ e.production => e.password # None /\ e.password # DefaultPassword
  BY AccountsAssumption DEF Environment

LEMMA AccountsInitInv == ASSUME AccountsInit PROVE AccountsInv
<1>1. AccountsTypeOK
  <2>1. users \in [UserIds -> User \cup {None}]
    <3> DEFINE Older == {[username |-> n, email |-> n, password |-> DefaultPassword,
                          active |-> TRUE] : n \in Names}
    <3>1. \A n \in Names : [username |-> n, email |-> n, password |-> DefaultPassword,
                            active |-> TRUE] \in User
      BY DEF User, Passwords
    <3> HIDE DEF Older
    <3>2. users \in [UserIds -> {None} \cup Older]
      BY Zenon DEF AccountsInit, Older
    <3>3. Older \subseteq User
      BY <3>1, Zenon DEF Older
    <3> QED BY <3>2, <3>3
  <2> QED BY <2>1 DEF AccountsInit, AccountsTypeOK, Rows
<1>2. LegacyIsDefault /\ ChangesServed /\ DefaultsListed /\ ConfiguredAdminAtHand
  BY DEF AccountsInit, LegacyIsDefault, ChangesServed, DefaultsListed,
         ConfiguredAdminAtHand
<1> QED BY <1>1, <1>2 DEF AccountsInv

\* What every step that writes one account, and keeps it one, does to the table.
LEMMA OneWritten ==
    ASSUME AccountsTypeOK, NEW i \in UserIds, NEW u \in User,
           users' = [users EXCEPT ![i] = u]
    PROVE  /\ users' \in [UserIds -> User \cup {None}]
           /\ users'[i] = u
           /\ \A j \in UserIds \ {i} : users'[j] = users[j]
           /\ Rows' = Rows \cup {i}
<1>1. /\ users' \in [UserIds -> User \cup {None}]
      /\ users'[i] = u
      /\ \A j \in UserIds \ {i} : users'[j] = users[j]
  BY DEF AccountsTypeOK
<1>2. Rows' = Rows \cup {i}
  BY <1>1, NoUserAssumption DEF Rows
<1> QED BY <1>1, <1>2

LEMMA StartKeeps == ASSUME AccountsInv, CreateApp PROVE AccountsInv'
<1> PICK e \in Environment : Starting(e)
  BY DEF CreateApp
<1>1. /\ users' = users /\ env' = e /\ phase' = "rotating" /\ touched' = {}
      /\ legacy' = IF e.password = None THEN {} ELSE LegacyPasswordAdmins
      /\ change' = [r \in Requests |-> NoChange]
  BY DEF CreateApp, Starting
<1>2. Rows' = Rows
  BY <1>1 DEF Rows
<1>3. AccountsTypeOK'
  <2>1. legacy' \subseteq Rows'
    BY <1>1, <1>2 DEF LegacyPasswordAdmins
  <2> QED BY <1>1, <2>1 DEF AccountsInv, AccountsTypeOK
<1>4. LegacyIsDefault'
  BY <1>1 DEF LegacyIsDefault, LegacyPasswordAdmins
<1>5. DefaultsListed'
  BY <1>1, <1>2, StrongInProduction DEF DefaultsListed, LegacyPasswordAdmins
<1>6. ChangesServed' /\ ConfiguredAdminAtHand'
  BY <1>1 DEF ChangesServed, ConfiguredAdminAtHand
<1> QED BY <1>3, <1>4, <1>5, <1>6 DEF AccountsInv

LEMMA RotateKeeps == ASSUME AccountsInv, NEW i \in UserIds, Rotate(i) PROVE AccountsInv'
<1>1. /\ phase = "rotating" /\ phase' = phase /\ i \in legacy /\ legacy' = legacy \ {i}
      /\ env' = env /\ change' = change /\ touched' = touched
  BY DEF Rotate
<1> DEFINE u == [users[i] EXCEPT !.password = env.password]
<1>2. /\ i \in Rows /\ users[i] \in User /\ users[i].password = DefaultPassword
      /\ env.password # None
  BY <1>1, RowIsUser DEF AccountsInv, AccountsTypeOK, LegacyIsDefault
<1>3. env.password \in Passwords
  BY <1>2, StrongInProduction DEF AccountsInv, AccountsTypeOK
<1>4. u \in User /\ u.password = env.password
  BY <1>2, <1>3 DEF User
<1>5. users' = [users EXCEPT ![i] = u]
  BY DEF Rotate
<1> HIDE DEF u
<1>6. /\ users' \in [UserIds -> User \cup {None}] /\ users'[i] = u
      /\ \A j \in UserIds \ {i} : users'[j] = users[j]
      /\ Rows' = Rows
  <2>1. i \in UserIds /\ Rows \cup {i} = Rows
    BY <1>2
  <2> QED BY <1>4, <1>5, <2>1, OneWritten DEF AccountsInv
<1>7. AccountsTypeOK'
  BY <1>1, <1>6 DEF AccountsInv, AccountsTypeOK
<1>8. LegacyIsDefault'
  BY <1>1, <1>6 DEF AccountsInv, AccountsTypeOK, LegacyIsDefault, Rows
<1>9. ChangesServed'
  BY <1>1, <1>6 DEF AccountsInv, ChangesServed
<1>10. DefaultsListed'
  <2> SUFFICES ASSUME env.production, NEW j \in Rows \ touched,
                      users'[j].active, users'[j].password = DefaultPassword
               PROVE  phase = "rotating" /\ j \in legacy'
    BY <1>1, <1>6 DEF DefaultsListed
  <2>1. env.password # DefaultPassword
    BY StrongInProduction DEF AccountsInv, AccountsTypeOK
  <2>2. j # i
    BY <1>4, <1>6, <2>1
  <2>3. users'[j] = users[j]
    BY <1>6, <2>2 DEF Rows
  <2> QED BY <1>1, <2>2, <2>3 DEF AccountsInv, DefaultsListed
<1>11. ConfiguredAdminAtHand'
  BY <1>1 DEF ConfiguredAdminAtHand
<1> QED BY <1>7, <1>8, <1>9, <1>10, <1>11 DEF AccountsInv

\* The steps of a start and of a process that leave the table alone.
LEMMA PhaseKeeps ==
    ASSUME AccountsInv,
           RotationDone \/ KeepConfiguredAdmin \/ FailToCreate \/ ProcessDies
    PROVE  AccountsInv'
<1>1. users' = users /\ env' = env /\ touched' = touched /\ Rows' = Rows
  BY DEF RotationDone, KeepConfiguredAdmin, FailToCreate, ProcessDies, Rows
<1>2. AccountsTypeOK'
  BY <1>1
     DEF AccountsInv, AccountsTypeOK, RotationDone, KeepConfiguredAdmin, FailToCreate,
         ProcessDies
<1>3. LegacyIsDefault'
  BY <1>1
     DEF LegacyIsDefault, RotationDone, KeepConfiguredAdmin, FailToCreate, ProcessDies
<1>4. ChangesServed'
  BY <1>1
     DEF AccountsInv, ChangesServed, RotationDone, KeepConfiguredAdmin, FailToCreate,
         ProcessDies
<1>5. DefaultsListed'
  BY <1>1
     DEF AccountsInv, DefaultsListed, RotationDone, KeepConfiguredAdmin, FailToCreate,
         ProcessDies
<1>6. ConfiguredAdminAtHand'
  BY <1>1 DEF AccountsInv, ConfiguredAdminAtHand, ConfiguredAdmin, RotationDone,
              KeepConfiguredAdmin, FailToCreate, ProcessDies
<1> QED BY <1>2, <1>3, <1>4, <1>5, <1>6 DEF AccountsInv

LEMMA CreateKeeps ==
    ASSUME AccountsInv, NEW i \in UserIds, CreateAdmin(i)
    PROVE  AccountsInv'
<1> DEFINE u == [username |-> env.username, email |-> env.username,
                 password |-> InitialPassword, active |-> TRUE]
<1>1. /\ phase = "creating" /\ phase' = "up" /\ i \notin Rows
      /\ users' = [users EXCEPT ![i] = u]
      /\ env' = env /\ legacy' = legacy /\ change' = change /\ touched' = touched
  BY DEF CreateAdmin
<1>2. /\ env.username \in Names /\ env.password \in Passwords \cup {None}
      /\ env.production => env.password # None /\ env.password # DefaultPassword
  BY StrongInProduction DEF AccountsInv, AccountsTypeOK
<1>3. InitialPassword \in Passwords /\ (env.production => InitialPassword # DefaultPassword)
  BY <1>2 DEF InitialPassword, Passwords
<1>4. u \in User /\ u.username = env.username /\ u.password = InitialPassword /\ u.active
  BY <1>2, <1>3 DEF User
<1> HIDE DEF u
<1>5. /\ users' \in [UserIds -> User \cup {None}] /\ users'[i] = u
      /\ \A j \in UserIds \ {i} : users'[j] = users[j]
      /\ Rows' = Rows \cup {i}
  BY <1>1, <1>4, OneWritten DEF AccountsInv
<1>6. AccountsTypeOK'
  BY <1>1, <1>5 DEF AccountsInv, AccountsTypeOK
<1>7. LegacyIsDefault'
  BY <1>1 DEF LegacyIsDefault
<1>8. ChangesServed'
  BY <1>1, <1>5 DEF AccountsInv, ChangesServed
<1>9. DefaultsListed'
  BY <1>1, <1>3, <1>4, <1>5 DEF AccountsInv, DefaultsListed, Rows
<1>10. ConfiguredAdminAtHand'
  BY <1>1, <1>4, <1>5 DEF ConfiguredAdminAtHand
<1> QED BY <1>6, <1>7, <1>8, <1>9, <1>10 DEF AccountsInv

LEMMA StartChangeKeeps ==
    ASSUME AccountsInv, NEW r \in Requests, NEW i \in UserIds, StartChange(r,
           i) PROVE AccountsInv'
<1> PICK p \in Passwords :
           change' = [change EXCEPT ![r] = [id |-> i, known |-> users[i].password, new |-> p]]
  BY DEF StartChange
<1>1. /\ phase = "up" /\ i \in Rows
      /\ users' = users /\ env' = env /\ phase' = phase /\ legacy' = legacy
      /\ touched' = touched
  BY DEF StartChange
<1> DEFINE new == [id |-> i, known |-> users[i].password, new |-> p]
<1>2. users[i].password \in Passwords
  BY <1>1, RowIsUser DEF AccountsInv, User
<1>3. new \in [id : UserIds, known : Passwords, new : Passwords] /\ new.id = i
  BY <1>2
<1>4. change' = [change EXCEPT ![r] = new]
  OBVIOUS
<1> HIDE DEF new
<1>5. AccountsTypeOK'
  BY <1>1, <1>3, <1>4 DEF AccountsInv, AccountsTypeOK, Rows
<1>6. ChangesServed'
  BY <1>1, <1>3, <1>4 DEF AccountsInv, AccountsTypeOK, ChangesServed, Rows
<1>7. LegacyIsDefault' /\ DefaultsListed' /\ ConfiguredAdminAtHand'
  BY <1>1 DEF AccountsInv, LegacyIsDefault, DefaultsListed, ConfiguredAdminAtHand, Rows
<1> QED BY <1>5, <1>6, <1>7 DEF AccountsInv

\* One account is written by someone else than a start, and stays an account.
LEMMA TouchKeeps ==
    ASSUME AccountsInv, NEW i \in Rows, NEW u \in User,
           users' = [users EXCEPT ![i] = u], touched' = touched \cup {i},
           UNCHANGED <<env, phase, legacy>>, phase # "rotating",
           change' \in [Requests -> {NoChange} \cup
                                    [id : UserIds, known : Passwords, new : Passwords]],
           \A r \in Requests : change'[r] # NoChange => change'[r] = change[r]
    PROVE  AccountsInv'
<1>1. i \in UserIds
  BY RowIsUser DEF AccountsInv
<1>2. /\ users' \in [UserIds -> User \cup {None}] /\ users'[i] = u
      /\ \A j \in UserIds \ {i} : users'[j] = users[j]
      /\ Rows' = Rows
  <2>1. Rows \cup {i} = Rows
    OBVIOUS
  <2> QED BY <1>1, <2>1, OneWritten DEF AccountsInv
<1>3. AccountsTypeOK'
  BY <1>1, <1>2 DEF AccountsInv, AccountsTypeOK
<1>4. LegacyIsDefault'
  BY DEF LegacyIsDefault
<1>5. ChangesServed'
  BY <1>2 DEF AccountsInv, ChangesServed
<1>6. DefaultsListed'
  BY <1>2 DEF AccountsInv, DefaultsListed, Rows
<1>7. ConfiguredAdminAtHand'
  BY DEF ConfiguredAdminAtHand
<1> QED BY <1>3, <1>4, <1>5, <1>6, <1>7 DEF AccountsInv

LEMMA EndChangeKeeps ==
    ASSUME AccountsInv, NEW r \in Requests, EndChange(r)
    PROVE  AccountsInv'
<1> DEFINE i == change[r].id
           u == [users[i] EXCEPT !.password = change[r].new]
<1>1. change[r] # NoChange /\ phase = "up" /\ i \in Rows
  BY DEF AccountsInv, EndChange, ChangesServed
<1>2. change[r].new \in Passwords
  BY <1>1 DEF AccountsInv, AccountsTypeOK
<1>3. users[i] \in User
  BY <1>1, RowIsUser DEF AccountsInv
<1>4. u \in User
  BY <1>2, <1>3 DEF User
<1>5. /\ users' = [users EXCEPT ![i] = u] /\ touched' = touched \cup {i}
      /\ change' = [change EXCEPT ![r] = NoChange]
      /\ UNCHANGED <<env, phase, legacy>>
  BY DEF EndChange
<1> HIDE DEF u, i
<1>6. /\ change' \in [Requests -> {NoChange} \cup
                                [id : UserIds, known : Passwords, new : Passwords]]
      /\ \A s \in Requests : change'[s] # NoChange => change'[s] = change[s]
  BY <1>5 DEF AccountsInv, AccountsTypeOK
<1> QED BY <1>1, <1>4, <1>5, <1>6, TouchKeeps

LEMMA EditKeeps ==
    ASSUME AccountsInv, NEW i \in UserIds, EditByHand(i)
    PROVE  AccountsInv'
<1> PICK b \in BOOLEAN, n \in Names :
           users' = [users EXCEPT ![i].active = b, ![i].username = n]
  BY DEF EditByHand
<1> DEFINE u == [users[i] EXCEPT !.active = b, !.username = n]
<1>1. /\ i \in Rows /\ phase # "rotating" /\ touched' = touched \cup {i}
      /\ UNCHANGED <<env, phase, legacy, change>>
  BY DEF EditByHand
<1>2. users[i] \in User
  BY <1>1, RowIsUser DEF AccountsInv
<1>3. u \in User
  BY <1>2 DEF User
<1>4. users' = [users EXCEPT ![i] = u]
  BY DEF AccountsInv, AccountsTypeOK
<1> HIDE DEF u
<1>5. /\ change' \in [Requests -> {NoChange} \cup
                                [id : UserIds, known : Passwords, new : Passwords]]
      /\ \A r \in Requests : change'[r] # NoChange => change'[r] = change[r]
  BY <1>1 DEF AccountsInv, AccountsTypeOK
<1> QED BY <1>1, <1>3, <1>4, <1>5, TouchKeeps

\* The invariant holds at first and is kept by every step.
THEOREM AccountsInductive == AccountsSpec => []AccountsInv
<1>1. AccountsInv /\ [AccountsNext]_accountsVars => AccountsInv'
  <2> SUFFICES ASSUME AccountsInv, [AccountsNext]_accountsVars PROVE AccountsInv'
    OBVIOUS
  <2>1. CASE CreateApp
    BY <2>1, StartKeeps
  <2>2. CASE RotationDone \/ KeepConfiguredAdmin \/ FailToCreate \/ ProcessDies
    BY <2>2, PhaseKeeps
  <2>3. CASE \E i \in UserIds : Rotate(i) \/ CreateAdmin(i)
    BY <2>3, RotateKeeps, CreateKeeps
  <2>4. CASE \E r \in Requests : EndChange(r) \/ \E i \in UserIds : StartChange(r, i)
    BY <2>4, EndChangeKeeps, StartChangeKeeps
  <2>5. CASE \E i \in UserIds : EditByHand(i)
    BY <2>5, EditKeeps
  <2>6. CASE UNCHANGED accountsVars
    BY <2>6
       DEF accountsVars, AccountsInv, AccountsTypeOK, LegacyIsDefault, ChangesServed,
           DefaultsListed,
                ConfiguredAdminAtHand, Rows
  <2> QED BY <2>1, <2>2, <2>3, <2>4, <2>5, <2>6 DEF AccountsNext, Boot
<1> QED BY <1>1, AccountsInitInv, PTL DEF AccountsSpec

---------------------------------------------------------------------------
\* The table, the environment and the changes under way keep their types.
THEOREM AccountsTyped == AccountsSpec => []AccountsTypeOK
<1>1. AccountsInv => AccountsTypeOK
  BY DEF AccountsInv
<1> QED BY <1>1, AccountsInductive, PTL

\* bootstrapAdminAccount: whatever earlier starts left, a process that serves
\* in production has no active account with the default password, but those
\* changed since.
THEOREM ServesWithoutDefault == AccountsSpec => []DefaultPasswordGone
<1>1. AccountsInv => DefaultPasswordGone
  BY DEF AccountsInv, DefaultsListed, DefaultPasswordGone
<1> QED BY <1>1, AccountsInductive, PTL

\* A process that serves has an active account for the configured name, as
\* long as nobody edits accounts.
THEOREM AdminCanLogIn == AccountsSpec => []ConfiguredAdminAtHand
<1>1. AccountsInv => ConfiguredAdminAtHand
  BY DEF AccountsInv
<1> QED BY <1>1, AccountsInductive, PTL

\* What a step may do to an account's password and to whether it is active.
LEMMA StepKeepsPasswords ==
    ASSUME AccountsInv, AccountsNext, NEW i \in Rows
    PROVE  /\ users'[i] # None
           /\ users'[i].password # users[i].password /\ users[i].password # DefaultPassword =>
                phase = "up" /\ \E r \in Requests : change[r].id = i
           /\ users'[i].active # users[i].active => i \in touched'
<1>1. i \in UserIds /\ users[i] \in User /\ users[i] # None
  BY RowIsUser DEF AccountsInv, Rows
<1>2. CASE users'[i] = users[i]
  BY <1>1, <1>2
<1>3. ASSUME NEW j \in UserIds, Rotate(j), users'[i] # users[i]
      PROVE  /\ users[i].password = DefaultPassword
             /\ users'[i] = [users[i] EXCEPT !.password = env.password]
             /\ env.password \in Passwords
  <2>1. users' = [users EXCEPT ![j] = [users[j] EXCEPT !.password = env.password]]
    BY <1>3 DEF Rotate
  <2>2. i = j
    BY <1>1, <1>3, <2>1 DEF AccountsInv, AccountsTypeOK
  <2>3. env.password # None /\ users[i].password = DefaultPassword
    BY <1>3, <2>2 DEF AccountsInv, LegacyIsDefault, Rotate
  <2> QED BY <1>1, <2>1, <2>2, <2>3, StrongInProduction DEF AccountsInv, AccountsTypeOK
<1>4. ASSUME NEW j \in UserIds, Rotate(j), users'[i] # users[i]
      PROVE  /\ users'[i] # None
             /\ users[i].password = DefaultPassword
             /\ users'[i].active = users[i].active
  BY <1>1, <1>3, <1>4, NoUserAssumption DEF User
<1>5. ASSUME NEW j \in UserIds, CreateAdmin(j) PROVE users'[i] = users[i]
  BY <1>1, <1>5 DEF CreateAdmin, AccountsInv, AccountsTypeOK
<1>6. ASSUME NEW r \in Requests, EndChange(r), users'[i] # users[i]
      PROVE  /\ users'[i] # None /\ users'[i].active = users[i].active
             /\ phase = "up" /\ change[r].id = i
  <2> DEFINE j == change[r].id
             p == change[r].new
  <2>1. change[r] # NoChange /\ phase = "up"
    BY <1>6 DEF EndChange, AccountsInv, ChangesServed
  <2>2. p \in Passwords
    BY <2>1 DEF AccountsInv, AccountsTypeOK
  <2>3. users' = [users EXCEPT ![j] = [users[j] EXCEPT !.password = p]]
    BY <1>6 DEF EndChange
  <2> HIDE DEF j, p
  <2>4. i = j
    BY <1>1, <1>6, <2>3 DEF AccountsInv, AccountsTypeOK
  <2>5. users'[i] = [users[i] EXCEPT !.password = p]
    BY <1>1, <2>3, <2>4 DEF AccountsInv, AccountsTypeOK
  <2>6. users'[i] \in User /\ users'[i].active = users[i].active
    BY <1>1, <2>2, <2>5 DEF User
  <2> QED BY <2>1, <2>4, <2>6, NoUserAssumption DEF j
<1>7. ASSUME NEW j \in UserIds, EditByHand(j), users'[i] # users[i]
      PROVE  /\ users'[i] # None /\ users'[i].password = users[i].password
             /\ i \in touched'
  <2> PICK b \in BOOLEAN, n \in Names :
             users' = [users EXCEPT ![j].active = b, ![j].username = n]
    BY <1>7 DEF EditByHand
  <2>1. users' = [users EXCEPT ![j] = [users[j] EXCEPT !.active = b, !.username = n]]
    BY DEF AccountsInv, AccountsTypeOK
  <2>2. i = j
    BY <1>1, <1>7, <2>1 DEF AccountsInv, AccountsTypeOK
  <2> DEFINE u == [users[i] EXCEPT !.active = b, !.username = n]
  <2>3. users'[i] = u
    BY <1>1, <2>1, <2>2 DEF AccountsInv, AccountsTypeOK
  <2>4. u \in User
    BY <1>1 DEF User
  <2>5. u.password = users[i].password
    BY <1>1 DEF User
  <2> HIDE DEF u
  <2> QED BY <1>7, <2>2, <2>3, <2>4, <2>5, NoUserAssumption DEF EditByHand
<1>8. CASE CreateApp \/ RotationDone \/ KeepConfiguredAdmin \/ FailToCreate \/ ProcessDies
  BY <1>1, <1>8
     DEF CreateApp, RotationDone, KeepConfiguredAdmin, FailToCreate, ProcessDies
<1>9. CASE \E r \in Requests, j \in UserIds : StartChange(r, j)
  BY <1>1, <1>9 DEF StartChange
<1>10. CASE \E j \in UserIds : Rotate(j) \/ CreateAdmin(j)
  BY <1>2, <1>4, <1>5, <1>10
<1>11. CASE \E r \in Requests : EndChange(r)
  BY <1>2, <1>6, <1>11
<1>12. CASE \E j \in UserIds : EditByHand(j)
  BY <1>2, <1>7, <1>12
<1> QED BY <1>8, <1>9, <1>10, <1>11, <1>12 DEF AccountsNext, Boot

\* No start changes a password that is not the default one, nor whether an
\* account is active: only its owner's request and an edit by hand do.
THEOREM PasswordsAreTheirOwners == AccountsSpec => OwnPasswordKept
<1> DEFINE A == \A i \in Rows :
         /\ users'[i] # None
         /\ users'[i].password # users[i].password /\ users[i].password # DefaultPassword =>
              phase = "up" /\ \E r \in Requests : change[r].id = i
         /\ users'[i].active # users[i].active => i \in touched'
<1>1. AccountsInv /\ [AccountsNext]_accountsVars => [A]_accountsVars
  BY StepKeepsPasswords
<1> QED BY <1>1, AccountsInductive, PTL DEF AccountsSpec, OwnPasswordKept
=============================================================================
