---------------------------- MODULE Migrations ----------------------------
(***************************************************************************)
(* initDatabase (config/database.ts), statement by statement: the tables,  *)
(* columns and indexes each release added, the rebuild of settings in one  *)
(* transaction, the backfill of shop_id in event_mappings and sync_logs.   *)
(* It runs on every start, over whatever an older release or a start that  *)
(* died half-way has left in the file.                                     *)
(*                                                                         *)
(* disk is the database file, db what the process' connection sees: the    *)
(* same outside a transaction, where every statement commits by itself.    *)
(* One process opens the file (docker-compose.yml), and it listens only    *)
(* when initDatabase has returned.                                         *)
(***************************************************************************)
EXTENDS Naturals, FiniteSets, Sequences

CONSTANTS Null, Legacy, Shops, Ids

ASSUME OwnersAssumption == Null # Legacy /\ {Null, Legacy} \cap Shops = {}

Data == {"settings", "event_mappings", "sync_logs"}

VARIABLES
    disk,     \* the database file
    db,       \* what the connection sees
    shops,    \* shop_connections, one per shop
    serving,  \* app.listen has been called
    running,  \* the process is alive
    next,     \* the statement of Script to execute
    inTx,     \* statements of settings' rebuild executed, not yet committed
    legacyShopIdCache,
    heirs     \* history: the shop ids legacy rows were given

process == <<serving, running, next, inTx, legacyShopIdCache>>

vars == <<disk, db, shops, process, heirs>>

Abstract ==
    INSTANCE LegacyRows WITH Tables <- Data, rows <- [t \in Data |-> disk.rows[t]]

---------------------------------------------------------------------------
\* The schema, and the order in which initDatabase brings it about.

ShopId(t) == <<t, "shop_id">>

Create(t, cols)  == [do |-> "create", table |-> t, cols |-> cols]
AddColumn(t, c)  == [do |-> "column", table |-> t, cols |-> {<<t, c>>}]
Index(t, c)      == [do |-> "index", table |-> t, cols |-> {<<t, c>>}]
Backfill(t)      == [do |-> "backfill", table |-> t, cols |-> {ShopId(t)}]
Rebuild          == [do |-> "rebuild", table |-> "settings", cols |-> {ShopId("settings")}]

Script == <<
    Create("shop_connections", {}),
    AddColumn("shop_connections", "shoper_access_token"),
    AddColumn("shop_connections", "shoper_refresh_token"),
    AddColumn("shop_connections", "shoper_license"),
    Index("shop_connections", "shoper_license"),
    AddColumn("shop_connections", "technical_url"),
    Rebuild,
    Create("event_mappings", {ShopId("event_mappings")}),
    AddColumn("event_mappings", "shop_id"),
    Backfill("event_mappings"),
    Index("event_mappings", "shop_id"),
    Create("sync_logs", {ShopId("sync_logs")}),
    AddColumn("sync_logs", "shop_id"),
    Backfill("sync_logs"),
    Index("sync_logs", "shop_id"),
    Create("users", {}),
    Create("sessions", {<<"sessions", "expires_at">>}),
    Index("sessions", "expires_at")
>>

Done == Len(Script) + 1

TableNames == {Script[i].table : i \in DOMAIN Script} \cup {"settings_new"}
Columns == {ShopId("settings_new")} \cup UNION {Script[i].cols : i \in DOMAIN Script}

\* A table that does not exist has no rows.
Database ==
    [tables : SUBSET TableNames, cols : SUBSET Columns, indexes : SUBSET Columns,
     rows : [Data \cup {"settings_new"} -> SUBSET Abstract!Row]]

TypeOK ==
    /\ disk \in Database /\ db \in Database
    /\ shops \in SUBSET Shops
    /\ serving \in BOOLEAN /\ running \in BOOLEAN
    /\ next \in 1 .. Done
    /\ inTx \in 0 .. 4
    /\ legacyShopIdCache \in Abstract!Owners \cup {Null}
    /\ heirs \in SUBSET Abstract!Owners

\* What older releases leave: nothing at all, or their tables, with the token
\* columns or without, and rows that have no owner.
Fresh == [tables |-> {}, cols |-> {}, indexes |-> {},
          rows |-> [t \in Data \cup {"settings_new"} |-> {}]]

SingleShop(oauth, ids) ==
    [tables |-> Data \cup {"shop_connections"},
     cols |-> IF oauth THEN Script[2].cols \cup Script[3].cols ELSE {},
     indexes |-> {},
     rows |-> [t \in Data \cup {"settings_new"} |->
                 IF t \in Data THEN {[id |-> i, shop |-> Null] : i \in ids[t]} ELSE {}]]

Init ==
    /\ \/ disk = Fresh /\ shops = {}
       \/ /\ \E oauth \in BOOLEAN, ids \in [Data -> SUBSET Ids] : disk = SingleShop(oauth, ids)
          /\ shops \in SUBSET Shops
    /\ db = disk
    /\ serving = FALSE /\ running = TRUE
    /\ next = 1 /\ inTx = 0
    /\ legacyShopIdCache = Null
    /\ heirs = {}

---------------------------------------------------------------------------
\* How a statement reaches the file: by itself, or with the COMMIT to come.

Autocommit(new) == db' = new /\ disk' = new

\* Seeded fault: the rebuild's statements outside a transaction.
EachByItself(new) == Autocommit(new)

InTransaction(new) == db' = new /\ UNCHANGED disk

At(kind) == running /\ next < Done /\ Script[next].do = kind

Stmt == Script[next]

Advance == next' = next + 1 /\ UNCHANGED <<serving, running>>

\* resolveLegacyShopId
Resolved == IF legacyShopIdCache # Null THEN legacyShopIdCache ELSE Abstract!Heir(shops)

\* Seeded fault: the heir is looked up after the rows were copied.
ResolveLater == UNCHANGED legacyShopIdCache

Resolve == legacyShopIdCache' = Resolved

\* CREATE TABLE IF NOT EXISTS
WithTable(d, t, cols) ==
    IF t \in d.tables THEN d
    ELSE [d EXCEPT !.tables = @ \cup {t}, !.cols = @ \cup cols]

CreateTable ==
    /\ At("create")
    /\ Autocommit(WithTable(db, Stmt.table, Stmt.cols))
    /\ Advance
    /\ UNCHANGED <<shops, inTx, legacyShopIdCache, heirs>>

\* Seeded fault: addShopIdColumnAndBackfill returns when the column is there.
AddOrReturn ==
    /\ At("column") /\ Stmt.table \in db.tables
    /\ Autocommit([db EXCEPT !.cols = @ \cup Stmt.cols])
    /\ next' = IF Stmt.cols \subseteq db.cols /\ Script[next + 1].do = "backfill"
               THEN next + 2 ELSE next + 1
    /\ UNCHANGED <<serving, running, shops, inTx, legacyShopIdCache, heirs>>

\* ALTER TABLE ADD COLUMN, unless the column is there.
AddMissingColumn ==
    /\ At("column") /\ Stmt.table \in db.tables
    /\ Autocommit([db EXCEPT !.cols = @ \cup Stmt.cols])
    /\ Advance
    /\ UNCHANGED <<shops, inTx, legacyShopIdCache, heirs>>

\* CREATE INDEX IF NOT EXISTS
CreateIndex ==
    /\ At("index") /\ Stmt.cols \subseteq db.cols
    /\ Autocommit([db EXCEPT !.indexes = @ \cup Stmt.cols])
    /\ Advance
    /\ UNCHANGED <<shops, inTx, legacyShopIdCache, heirs>>

---------------------------------------------------------------------------
\* migrateSettingsTable

CreateSettings ==
    /\ At("rebuild") /\ "settings" \notin db.tables /\ inTx = 0
    /\ Autocommit(WithTable(db, "settings", {ShopId("settings")}))
    /\ Advance
    /\ UNCHANGED <<shops, inTx, legacyShopIdCache, heirs>>

AlreadyRebuilt ==
    /\ At("rebuild") /\ inTx = 0 /\ ShopId("settings") \in db.cols
    /\ Advance
    /\ UNCHANGED <<disk, db, shops, inTx, legacyShopIdCache, heirs>>

\* The transaction: CREATE TABLE settings_new fails when the table exists.
CreateSettingsNew ==
    /\ At("rebuild") /\ inTx = 0
    /\ "settings" \in db.tables /\ ShopId("settings") \notin db.cols
    /\ "settings_new" \notin db.tables
    /\ Resolve
    /\ InTransaction(WithTable(db, "settings_new", {ShopId("settings_new")}))
    /\ inTx' = 1
    /\ UNCHANGED <<shops, serving, running, next, heirs>>

CopySettings ==
    /\ At("rebuild") /\ inTx = 1
    /\ InTransaction([db EXCEPT !.rows["settings_new"] =
                        Abstract!Adopted(db.rows["settings"], legacyShopIdCache)])
    /\ inTx' = 2
    /\ UNCHANGED <<shops, serving, running, next, legacyShopIdCache, heirs>>

DropSettings ==
    /\ At("rebuild") /\ inTx = 2
    /\ InTransaction([db EXCEPT !.tables = @ \ {"settings"}, !.rows["settings"] = {}])
    /\ inTx' = 3
    /\ UNCHANGED <<shops, serving, running, next, legacyShopIdCache, heirs>>

RenameSettings ==
    /\ At("rebuild") /\ inTx = 3
    /\ InTransaction([db EXCEPT
         !.tables = (@ \ {"settings_new"}) \cup {"settings"},
         !.cols = (@ \ {ShopId("settings_new")}) \cup {ShopId("settings")},
         !.rows["settings"] = db.rows["settings_new"],
         !.rows["settings_new"] = {}])
    /\ inTx' = 4
    /\ UNCHANGED <<shops, serving, running, next, legacyShopIdCache, heirs>>

CommitSettings ==
    /\ At("rebuild") /\ inTx = 4
    /\ Autocommit(db)
    /\ inTx' = 0
    /\ Advance
    /\ heirs' = IF disk.rows["settings"] = {} THEN heirs ELSE heirs \cup {legacyShopIdCache}
    /\ UNCHANGED <<shops, legacyShopIdCache>>

\* addShopIdColumnAndBackfill, from the count on: rows with a shop are left alone.
BackfillShopId ==
    /\ At("backfill")
    /\ LET t == Stmt.table IN
       IF Abstract!Unowned(db.rows[t]) = {}
       THEN UNCHANGED <<disk, db, legacyShopIdCache, heirs>>
       ELSE /\ Resolve
            /\ Autocommit([db EXCEPT !.rows[t] = Abstract!Adopted(@, Resolved)])
            /\ heirs' = heirs \cup {Resolved}
    /\ Advance
    /\ UNCHANGED <<shops, inTx>>

---------------------------------------------------------------------------
\* The process, and what changes the tables while it serves.

\* Seeded fault: app.listen does not wait for the tables that come last.
ListenEarly ==
    /\ running /\ next > 7 /\ ~serving
    /\ serving' = TRUE
    /\ UNCHANGED <<disk, db, shops, running, next, inTx, legacyShopIdCache, heirs>>

Listen ==
    /\ running /\ next = Done /\ ~serving
    /\ serving' = TRUE
    /\ UNCHANGED <<disk, db, shops, running, next, inTx, legacyShopIdCache, heirs>>

\* The file keeps what was committed; memory is gone.
Crash ==
    /\ running
    /\ db' = disk
    /\ running' = FALSE /\ serving' = FALSE
    /\ next' = 1 /\ inTx' = 0
    /\ legacyShopIdCache' = Null
    /\ UNCHANGED <<disk, shops, heirs>>

Start ==
    /\ ~running /\ running' = TRUE
    /\ UNCHANGED <<disk, db, shops, serving, next, inTx, legacyShopIdCache, heirs>>

\* upsert and deleteConnection
Connect(s) ==
    /\ serving /\ shops' = shops \cup {s}
    /\ UNCHANGED <<disk, db, process, heirs>>

Disconnect(s) ==
    /\ serving /\ shops' = shops \ {s}
    /\ UNCHANGED <<disk, db, process, heirs>>

\* A setting is keyed by shop and key; the other tables by the id alone.
WriteRow(t, row) ==
    /\ serving /\ row.shop \in Shops
    /\ t = "settings" \/ \A other \in db.rows[t] : other.id # row.id
    /\ Autocommit([db EXCEPT !.rows[t] = @ \cup {row}])
    /\ UNCHANGED <<shops, process, heirs>>

\* purgeOneShop
Purge(s) ==
    /\ serving
    /\ Autocommit([db EXCEPT !.rows =
         [t \in DOMAIN @ |-> {row \in @[t] : row.shop # s}]])
    /\ shops' = shops \ {s}
    /\ UNCHANGED <<process, heirs>>

\* One statement or transaction step of initDatabase.
Step ==
    \/ CreateTable \/ AddMissingColumn \/ CreateIndex
    \/ CreateSettings \/ AlreadyRebuilt \/ CreateSettingsNew \/ CopySettings
    \/ DropSettings \/ RenameSettings \/ CommitSettings
    \/ BackfillShopId

Next ==
    \/ Step \/ Listen \/ Crash \/ Start
    \/ \E s \in Shops : Connect(s) \/ Disconnect(s) \/ Purge(s)
    \/ \E t \in Data, row \in Abstract!Row : WriteRow(t, row)

Spec == Init /\ [][Next]_vars

\* Code runs on until it is done or dies; the container is restarted
\* ("restart: unless-stopped").
FairSpec == Spec /\ WF_vars(Step) /\ WF_vars(Listen) /\ WF_vars(Start)

---------------------------------------------------------------------------
\* Requests are served only over the whole schema, with every row owned by a
\* shop or by the sentinel, wherever earlier starts died (initDatabase).
ServedComplete ==
    serving =>
        /\ disk = db
        /\ \A i \in DOMAIN Script :
              /\ Script[i].table \in disk.tables
              /\ Script[i].cols \subseteq disk.cols
              /\ Script[i].do = "index" => Script[i].cols \subseteq disk.indexes
        /\ "settings_new" \notin disk.tables
        /\ \A t \in Data : Abstract!Unowned(disk.rows[t]) = {}

\* A single-shop installation's settings, mappings and logs stay together: all
\* of them go to one owner, however many starts it takes (resolveLegacyShopId,
\* whose answer is forgotten when the process dies).
OneHeir == Cardinality(heirs) <= 1

\* The file shows whole adoptions, one per table, and nothing else until
\* requests are served: no row lost, doubled or given away twice, whatever
\* statement a start dies in.
Adopts == Abstract!Spec

\* The service comes up, unless it keeps dying (initDatabase is idempotent).
ComesUp == []<>~running \/ <>[]serving
=============================================================================
