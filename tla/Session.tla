------------------------------- MODULE Session -------------------------------
(***************************************************************************)
(* Sessions that run SQL at the same time on one on-disk Database          *)
(* (src/src/db.rs): statistics, binding, building and executing a          *)
(* statement are separate steps, and the catalog's lock is taken anew at   *)
(* each look at it.  DDL works on three things without a common lock: the  *)
(* catalog, the engine's table map and the manifest, whose replay is that  *)
(* of module Manifest.                                                     *)
(*                                                                         *)
(* A statement is a record with its `op', the `names' it mentions (for     *)
(* CREATE VIEW the view and what it selects from).                         *)
(***************************************************************************)
EXTENDS Manifest, TLC

CONSTANTS Sessions,    \* connections of the server
          Workloads    \* for each session the statements of one call of run()

VARIABLES catalog,     \* SchemaCatalog.tables: id -> name, view or table, base of a view
          next_id,     \* SchemaCatalog.next_id, for tables, views and indexes
          indexes,     \* SchemaCatalog.indexes_idxs: <<index name, table id>>
          store,       \* SecondaryStorage.tables
          rowsets,     \* RowSets of the current snapshot
          log,         \* the manifest
          config,      \* Database.config: optimizer disabled, statistics mocked
          poisoned,    \* a thread has panicked inside the catalog's lock
          session,     \* the progress of each run()
          history      \* observed: who created and dropped what, why the log misleads

svars == <<catalog, next_id, indexes, store, rowsets, log, config, poisoned, session, history>>

None == 0 - 1   \* no id

Named(n) == {i \in DOMAIN catalog : catalog[i].name = n}
Known(n) == Named(n) # {}
IdOf(n) == CHOOSE i \in Named(n) : TRUE

Stmt(s) == Head(session[s].run)
At(s, pc) == session[s].run # <<>> /\ session[s].pc = pc
Entry(name, view, over) == [name |-> name, view |-> view, over |-> over]

SInit ==
  /\ catalog = <<>> /\ next_id = 0 /\ indexes = {} /\ store = {} /\ rowsets = {}
  /\ log = <<>>
  /\ config = [optimize |-> TRUE, mock |-> FALSE]
  /\ poisoned = FALSE
  /\ \E w \in Workloads :
       session = [s \in Sessions |->
                   [run |-> w[s], pc |-> "stats", pend |-> {None}, ids |-> <<>>, k |-> 1,
                    done |-> <<>>]]
  /\ history = [made |-> {}, drops |-> {}, tries |-> {}, views |-> {}, pinned |-> {},
                logged |-> {}, bad |-> {}]

\* How the statement of r ends.  An error leaves run() at once (`?'), a panic in
\* run() unwinds it; a panic in an executor's task ends that task's stream, and
\* run() goes on with an empty result ("silent").
Ended(r, out) ==
  LET rest == IF out \in {"ok", "silent"} THEN Tail(r.run) ELSE <<>>
  IN [r EXCEPT !.run = rest, !.pc = "bind", !.ids = <<>>, !.k = 1, !.pend = {},
               !.done = Append(@, [stmt |-> Head(r.run), at |-> r.pc, ids |-> r.ids, out |-> out])]
Ends(s, out) == session' = [session EXCEPT ![s] = Ended(@, out)]
Goes(s, pc) == session' = [session EXCEPT ![s].pc = pc, ![s].k = 1]

Untouched == UNCHANGED <<catalog, next_id, indexes, store, rowsets, log, config, poisoned, history>>

\* std::sync::Mutex: lock().unwrap() panics for ever once it is poisoned; the
\* steps up to the build are run()'s own, the others an executor task's.
CatalogSteps == {"stats", "bind", "fetch", "build", "apply", "addview", "addindex",
                 "drop", "dropview", "dropcat", "pgstat"}
PoisonPanic(s) ==
  /\ poisoned
  /\ \E pc \in CatalogSteps : At(s, pc)
  /\ session[s].pc \in {"stats", "pgstat"} => session[s].pend = {None}
  /\ Ends(s, IF session[s].pc \in {"stats", "bind", "fetch", "build"} THEN "panic" ELSE "silent")
  /\ history' = [history EXCEPT !.bad = @ \cup
                   IF session[s].pc \in {"apply", "dropcat"} THEN {"half done"} ELSE {}]
  /\ UNCHANGED <<catalog, next_id, indexes, store, rowsets, log, config, poisoned>>

-----------------------------------------------------------------------------
(* Database::get_storage_statistics, and pg_stat: a copy of the catalog's  *)
(* tables is walked, each one looked up in the storage.                    *)

StatPc == {"stats", "pgstat"}
StatTables == {i \in DOMAIN catalog : ~catalog[i].view}
StatSnapshot(s) ==
  /\ ~poisoned
  /\ \E pc \in StatPc : At(s, pc)
  /\ session[s].pend = {None}
  /\ session' = [session EXCEPT ![s].pend =
       IF config.mock /\ session[s].pc = "stats" THEN {}
       ELSE StatTables]
  /\ Untouched

StatTable(s) ==
  /\ \E pc \in StatPc : At(s, pc)
  /\ None \notin session[s].pend
  /\ \/ /\ session[s].pend = {}
        /\ IF session[s].pc = "stats" THEN Goes(s, "bind") ELSE Ends(s, "ok")
     \/ \E i \in session[s].pend :
          IF i \in store THEN session' = [session EXCEPT ![s].pend = @ \ {i}]
          ELSE session' = [session EXCEPT ![s] = Ended([@ EXCEPT !.ids = <<i>>], "err")]
  /\ Untouched

-----------------------------------------------------------------------------
(* The binder.  A name is looked up in one copy of the catalog, the table  *)
(* behind the id in another: get_table(&ref_id).unwrap().                  *)

\* bind_insert resolves its table twice: bind_table_id, bind_table_columns.
Lookups(stmt) == IF stmt.op = "insert" THEN 2 ELSE 1

BindCreate(s) ==
  /\ Stmt(s).op = "create"
  /\ IF Known(Stmt(s).names[1]) THEN Ends(s, "err") ELSE Goes(s, "build")

BindCreateView(s) ==
  /\ Stmt(s).op = "view"
  /\ IF Known(Stmt(s).names[1]) \/ ~Known(Stmt(s).names[2]) THEN Ends(s, "err")
     ELSE session' = [session EXCEPT ![s].ids = <<IdOf(Stmt(s).names[2])>>, ![s].pc = "fetch"]

BindCreateIndex(s) ==
  /\ Stmt(s).op = "index"
  /\ IF ~Known(Stmt(s).names[2]) THEN Ends(s, "err")
     ELSE session' = [session EXCEPT ![s].ids = <<IdOf(Stmt(s).names[2])>>, ![s].pc = "build"]

\* One name of the list at a time; IF EXISTS skips the unknown ones.
NextName(r) == [r EXCEPT !.k = @ + 1]
SkipName(r) == NextName(r)
BindDrop(s) ==
  /\ Stmt(s).op \in {"drop", "dropif"}
  /\ LET r == session[s]
         n == Stmt(s).names[r.k]
     IN IF r.k > Len(Stmt(s).names) THEN Goes(s, "build")
        ELSE IF Known(n)
             THEN session' = [session EXCEPT ![s] = [NextName(r) EXCEPT !.ids = Append(@, IdOf(n))]]
        ELSE IF Stmt(s).op = "dropif" THEN session' = [session EXCEPT ![s] = SkipName(r)]
        ELSE Ends(s, "err")

BindTable(s) ==
  /\ Stmt(s).op \in {"insert", "select"}
  /\ IF ~Known(Stmt(s).names[1]) THEN Ends(s, "err")
     ELSE session' = [session EXCEPT ![s].ids = Append(@, IdOf(Stmt(s).names[1])), ![s].pc = "fetch"]

\* handle_set: PRAGMA and SET change the database's configuration and have no plan.
HandleSet(s) ==
  /\ Stmt(s).op \in {"enable", "disable", "mock"}
  /\ IF Stmt(s).op = "mock" /\ ~Known(Stmt(s).names[1])
     THEN config' = config /\ Ends(s, "err")
     ELSE /\ config' = IF Stmt(s).op = "mock" THEN [config EXCEPT !.mock = TRUE]
                       ELSE [config EXCEPT !.optimize = (Stmt(s).op = "enable")]
          /\ Ends(s, "ok")
  /\ UNCHANGED <<catalog, next_id, indexes, store, rowsets, log, poisoned, history>>

BindSystem(s) == Stmt(s).op = "pgstat" /\ Goes(s, "build")

Bind(s) ==
  /\ ~poisoned /\ At(s, "bind")
  /\ \/ HandleSet(s)
     \/ /\ \/ BindCreate(s) \/ BindCreateView(s) \/ BindCreateIndex(s) \/ BindDrop(s)
           \/ BindTable(s) \/ BindSystem(s)
        /\ Untouched

\* The second look, and what bind_insert checks with it.
Fetch(s) ==
  /\ ~poisoned /\ At(s, "fetch")
  /\ LET i == Last(session[s].ids)
         more == Len(session[s].ids) < Lookups(Stmt(s))
     IN IF i \notin DOMAIN catalog THEN Ends(s, "panic")
        ELSE IF catalog[i].view /\ Stmt(s).op = "insert" THEN Ends(s, "err")
        ELSE Goes(s, IF more THEN "bind" ELSE "build")
  /\ Untouched

-----------------------------------------------------------------------------
(* Builder::new looks up every table node of the plan, and below a view    *)
(* those of its query: get_table(tid).unwrap().                            *)

TableNodes(s) ==
  IF Stmt(s).op \in {"create", "index", "pgstat"} THEN {} ELSE Range(session[s].ids)

\* Mutant of Buildable: only a view over a table is unfolded.
BuildableOnce(i) ==
  i \in DOMAIN catalog
  /\ (catalog[i].view => catalog[i].over \in DOMAIN catalog /\ ~catalog[catalog[i].over].view)

RECURSIVE Buildable(_)
Buildable(i) == i \in DOMAIN catalog /\ (catalog[i].view => Buildable(catalog[i].over))
RECURSIVE BaseOf(_)
BaseOf(i) == IF catalog[i].view THEN BaseOf(catalog[i].over) ELSE i

FirstStep(op) ==
  CASE op = "create" -> "persist" [] op = "view" -> "addview" [] op = "index" -> "addindex"
    [] op \in {"drop", "dropif"} -> "drop" [] op = "pgstat" -> "pgstat" [] OTHER -> "gettable"

BuildExecutor(s) ==
  /\ ~poisoned /\ At(s, "build")
  /\ IF \E i \in TableNodes(s) : ~Buildable(i) THEN Ends(s, "panic")
     ELSE session' = [session EXCEPT
            ![s].pc = FirstStep(Stmt(s).op), ![s].k = 1,
            ![s].pend = IF Stmt(s).op = "pgstat" THEN {None} ELSE {},
            ![s].ids = IF Stmt(s).op = "select" THEN <<BaseOf(@[1])>> ELSE @]
  /\ Untouched

-----------------------------------------------------------------------------
(* CREATE TABLE: "persist to manifest first", "then apply to catalog".     *)

\* k remembers which creation of the log this one is.
Creates == Len(SelectSeq(log, LAMBDA r : r.op = "CreateTable"))

Persist(s) ==
  /\ At(s, "persist")
  /\ log' = log \o Group(<<CreateTable(Stmt(s).names[1])>>)
  /\ session' = [session EXCEPT ![s].pc = "apply", ![s].k = Creates + 1]
  /\ history' = [history EXCEPT
       !.logged = @ \cup {Stmt(s).names[1]},
       !.bad = @ \cup (IF Stmt(s).names[1] \in history.logged THEN {"name in use"} ELSE {})]
  /\ UNCHANGED <<catalog, next_id, indexes, store, rowsets, config, poisoned>>

\* SchemaCatalog::add_table and add_view.
Taken(n) == Known(n)
TakeId == next_id' = next_id + 1

\* apply_create_table up to the catalog: the id is taken here, not in the log.
Apply(s) ==
  /\ ~poisoned /\ At(s, "apply")
  /\ LET n == Stmt(s).names[1]
     IN IF Taken(n)
        THEN /\ Ends(s, "err")
             /\ history' = [history EXCEPT !.bad = @ \cup {"refused"}]
             /\ UNCHANGED <<catalog, next_id>>
        ELSE /\ catalog' = (next_id :> Entry(n, FALSE, None)) @@ catalog
             /\ TakeId
             /\ session' = [session EXCEPT ![s].pc = "insert", ![s].ids = <<next_id>>]
             /\ history' = [history EXCEPT
                  !.made = @ \cup {<<s, next_id, n>>},
                  !.bad = @ \cup (IF session[s].k # next_id + 1 THEN {"other id"} ELSE {})]
  /\ UNCHANGED <<indexes, store, rowsets, log, config, poisoned>>

InsertTable(s) ==
  /\ At(s, "insert")
  /\ store' = store \cup {session[s].ids[1]}
  /\ Ends(s, "ok")
  /\ UNCHANGED <<catalog, next_id, indexes, rowsets, log, config, poisoned, history>>

(* CREATE VIEW and CREATE INDEX: the catalog only. *)
AddView(s) ==
  /\ ~poisoned /\ At(s, "addview")
  /\ LET n == Stmt(s).names[1]
     IN IF Taken(n) THEN Ends(s, "err") /\ UNCHANGED <<catalog, next_id, history>>
        ELSE /\ catalog' = (next_id :> Entry(n, TRUE, session[s].ids[1])) @@ catalog
             /\ TakeId
             /\ history' = [history EXCEPT !.views = @ \cup {<<next_id, session[s].ids[1]>>}]
             /\ Ends(s, "ok")
  /\ UNCHANGED <<indexes, store, rowsets, log, config, poisoned>>

AddIndex(s) ==
  /\ ~poisoned /\ At(s, "addindex")
  /\ LET n == Stmt(s).names[1]
     IN IF \E x \in indexes : x[1] = n THEN Ends(s, "err") /\ UNCHANGED <<next_id, indexes>>
        ELSE /\ indexes' = indexes \cup {<<n, session[s].ids[1]>>}
             /\ TakeId
             /\ Ends(s, "ok")
  /\ UNCHANGED <<catalog, store, rowsets, log, config, poisoned, history>>

-----------------------------------------------------------------------------
(* DROP: DropExecutor's loop, apply_drop_table, drop_table_inner.          *)

Dropping(s) == session[s].ids[session[s].k]
Removed(i) == [x \in DOMAIN catalog \ {i} |-> catalog[x]]
NextDrop(s) == session' = [session EXCEPT ![s] = [NextName(@) EXCEPT !.pc = "drop"]]

\* get_table(&table).unwrap().is_view().  Mutant: a table is dropped like a
\* view.
DropLookCatalogOnly(i) == IF i \in DOMAIN catalog THEN "dropview" ELSE "panic"
DropLook(i) ==
  CASE i \notin DOMAIN catalog -> "panic" [] catalog[i].view -> "dropview" [] OTHER -> "dropstore"

\* The end of the loop; its mutant is one early.
AllDroppedEarly(r) == r.k >= Len(r.ids)
AllDropped(r) == r.k > Len(r.ids)

DropStep(s) ==
  /\ ~poisoned /\ At(s, "drop")
  /\ IF AllDropped(session[s]) THEN Ends(s, "ok") /\ UNCHANGED history
     ELSE LET next == DropLook(Dropping(s))
          IN /\ IF next = "panic" THEN Ends(s, "silent")
                ELSE session' = [session EXCEPT ![s].pc = next]
             /\ history' = [history EXCEPT !.tries = @ \cup
                              IF next = "dropview" THEN {<<s, Dropping(s)>>} ELSE {}]
  /\ UNCHANGED <<catalog, next_id, indexes, store, rowsets, log, config, poisoned>>

\* RootCatalog::drop_table; delete_table's unwrap panics inside the lock.
CatalogDrop(s, pc) ==
  /\ IF Dropping(s) \in DOMAIN catalog
     THEN /\ catalog' = Removed(Dropping(s))
          /\ history' = [history EXCEPT !.drops = @ \cup {<<s, Dropping(s)>>}]
          /\ IF pc = "drop" THEN NextDrop(s) ELSE session' = [session EXCEPT ![s].pc = pc]
          /\ UNCHANGED poisoned
     ELSE /\ poisoned' = TRUE
          /\ Ends(s, "silent")
          /\ UNCHANGED <<catalog, history>>
  /\ UNCHANGED <<next_id, indexes, store, rowsets, log, config>>

DropView(s) == ~poisoned /\ At(s, "dropview") /\ CatalogDrop(s, "drop")

\* Mutant of Unstore: the catalog keeps the table.
UnstoreOnly(s) ==
  IF Dropping(s) \in store
  THEN store' = store \ {Dropping(s)} /\ session' = [session EXCEPT ![s].pc = "pin"]
  ELSE store' = store /\ Ends(s, "err")

Unstore(s) ==
  IF Dropping(s) \in store
  THEN store' = store \ {Dropping(s)} /\ session' = [session EXCEPT ![s].pc = "dropcat"]
  ELSE store' = store /\ Ends(s, "err")

DropFromStore(s) ==
  /\ At(s, "dropstore")
  /\ Unstore(s)
  /\ UNCHANGED <<catalog, next_id, indexes, rowsets, log, config, poisoned, history>>

DropFromCatalog(s) == ~poisoned /\ At(s, "dropcat") /\ CatalogDrop(s, "pin")

RowsetsOf(i) == {r \in rowsets : r[1] = i}

PinForDrop(s) ==
  /\ At(s, "pin")
  /\ session' = [session EXCEPT ![s].pend = RowsetsOf(Dropping(s)), ![s].pc = "logdrop"]
  /\ history' = [history EXCEPT !.pinned = @ \cup {Dropping(s)}]
  /\ UNCHANGED <<catalog, next_id, indexes, store, rowsets, log, config, poisoned>>

\* Mutant: the RowSets of the dropped table are left out of the changeset.
DropChangesOnlyTable(i, rs) == <<DropTable(i)>>
DropChanges(i, rs) == <<DropTable(i)>> \o SetToSeq({DeleteRowSet(r) : r \in rs})

LogDrop(s) ==
  /\ At(s, "logdrop")
  /\ log' = log \o Group(DropChanges(Dropping(s), session[s].pend))
  /\ rowsets' = rowsets \ session[s].pend
  /\ session' = [session EXCEPT ![s] = [NextName(@) EXCEPT !.pc = "drop", !.pend = {}]]
  /\ history' = [history EXCEPT
       !.logged = @ \ {m[3] : m \in {x \in history.made : x[2] = Dropping(s)}}]
  /\ UNCHANGED <<catalog, next_id, indexes, store, config, poisoned>>

-----------------------------------------------------------------------------
(* INSERT and SELECT: the executor's get_table, then the transaction.      *)

GetTable(s) ==
  /\ At(s, "gettable")
  /\ IF session[s].ids[1] \notin store THEN Ends(s, "err")
     ELSE IF Stmt(s).op = "insert" THEN Goes(s, "commit")
     ELSE Ends(s, "ok")
  /\ Untouched

Commit(s) ==
  /\ At(s, "commit")
  /\ LET i == session[s].ids[1]
         r == <<i, Len(SelectSeq(log, LAMBDA x : x.op = "AddRowSet"))>>
     IN /\ log' = log \o Group(<<AddRowSet(r)>>)
        /\ rowsets' = rowsets \cup {r}
        /\ history' = [history EXCEPT !.bad = @ \cup
                         IF i \in history.pinned THEN {"late insert"} ELSE {}]
  /\ Ends(s, "ok")
  /\ UNCHANGED <<catalog, next_id, indexes, store, config, poisoned>>

-----------------------------------------------------------------------------
Step(s) ==
  \/ PoisonPanic(s) \/ StatSnapshot(s) \/ StatTable(s) \/ Bind(s) \/ Fetch(s)
  \/ BuildExecutor(s) \/ Persist(s) \/ Apply(s) \/ InsertTable(s) \/ AddView(s)
  \/ AddIndex(s) \/ DropStep(s) \/ DropView(s) \/ DropFromStore(s) \/ DropFromCatalog(s)
  \/ PinForDrop(s) \/ LogDrop(s) \/ GetTable(s) \/ Commit(s)

SNext == \E s \in Sessions : Step(s)

SSpec == SInit /\ [][SNext]_svars

-----------------------------------------------------------------------------
Outcomes == UNION {Range(session[s].done) : s \in Sessions}
Dropped(i) == \E s \in Sessions : <<s, i>> \in history.drops
\* i, or something it is a view over, has been dropped.
RECURSIVE Broken(_)
Broken(i) == Dropped(i) \/ \E v \in history.views : v[1] = i /\ Broken(v[2])

\* The shape of the state: every id in use has been given out, and the
\* names of the catalog are the keys of SchemaCatalog.table_idxs.
TypeOK ==
  /\ DOMAIN catalog \subseteq 0 .. next_id - 1
  /\ store \subseteq 0 .. next_id - 1
  /\ \A x \in indexes : x[2] < next_id
  /\ poisoned \in BOOLEAN /\ config.optimize \in BOOLEAN /\ config.mock \in BOOLEAN
  /\ Outcomes \subseteq [stmt : UNION {Range(w[s]) : w \in Workloads, s \in Sessions},
                         at : STRING, ids : Seq(0 .. next_id), out : {"ok", "err", "panic", "silent"}]

\* Sessions check a name when they bind and use it when they execute, and the catalog
\* and the engine's table map have no common lock.  At no time do two tables or views
\* have one name (SchemaCatalog::add_table and add_view), and the two name the same
\* tables except for a table some session is creating (the catalog first) or
\* dropping (the table map first), as long as no panic broke a statement off.
CatalogMatchesStore ==
  /\ TypeOK
  /\ \A i, j \in DOMAIN catalog : catalog[i].name = catalog[j].name => i = j
  /\ LET tables == {i \in DOMAIN catalog : ~catalog[i].view}
     IN "half done" \notin history.bad =>
          /\ \A i \in tables \ store :
               \E s \in Sessions :
                 (At(s, "insert") /\ session[s].ids[1] = i) \/ (At(s, "dropcat") /\ Dropping(s) = i)
          /\ store \subseteq tables

\* run() itself panics (the server loses the connection's task) only when a table or
\* view its statement was bound to, or one such a view selects from, has been
\* dropped meanwhile or before, or the catalog's lock is poisoned, which fails every
\* later statement of every session and happens only when two sessions drop the same
\* view at the same time (SchemaCatalog::delete_table).
PanicNeedsDrop ==
  /\ \A o \in Outcomes : o.out = "panic" => poisoned \/ \E i \in Range(o.ids) : Broken(i)
  /\ poisoned => \E s, t \in Sessions : s # t /\ \E i \in 0 .. next_id :
                    <<s, i>> \in history.tries /\ <<t, i>> \in history.tries

\* DROP reports success only when every object it names is gone, and what the
\* objects of a DROP that panics half way were is explained: another session
\* dropped one of them, or the statement names one twice (DropExecutor).
DropReported ==
  \A s \in Sessions : \A o \in Range(session[s].done) :
    o.stmt.op \in {"drop", "dropif"} =>
      /\ o.out = "ok" => \A i \in Range(o.ids) : i \notin DOMAIN catalog
      /\ o.out = "silent" =>
           \/ poisoned
           \/ \E i \in Range(o.ids), t \in Sessions \ {s} : <<t, i>> \in history.drops
           \/ ~IsInjective(o.ids)

\* Table i, which a session misses in the engine, is being created (it is in the
\* catalog, not yet in the table map), is being dropped (the other way round), or
\* was dropped since its session copied the catalog.
InDdl(i) ==
  \/ i \notin DOMAIN catalog
  \/ \E t \in Sessions : At(t, "insert") /\ session[t].ids[1] = i
  \/ \E t \in Sessions : At(t, "dropcat") /\ Dropping(t) = i

\* Statistics of all tables are gathered for every run, whatever its statements are
\* about (get_storage_statistics and pg_stat: storage.get_table(..)?).  At the moment
\* they fail, the table they fail on is in the middle of another session's CREATE or
\* DROP, so that the failure does not come back: a table at rest never fails them
\* while the catalog's lock is sound (once poisoned it can break a DROP off half way).
StatFailsOnlyInDdl ==
  [][\A s \in Sessions :
       /\ session[s].pc \in StatPc
       /\ session[s].done # session'[s].done
       /\ Last(session'[s].done).out = "err"
       => InDdl(Last(session'[s].done).ids[1]) \/ poisoned]_svars

\* When no statement is under way, a restart brings back exactly the tables (with
\* their ids) and the RowSets of this moment, unless one of these has happened: a
\* table got another id than the replay will give it (creations applied in another
\* order than logged, or a view or an index took an id); a logged creation was
\* refused because of a view; a statement broke off inside; a creation was logged
\* while the log still had a table of that name; an INSERT committed after its
\* table's DROP took its snapshot.  In the last two cases the restart fails.
LogReplays ==
  (\A s \in Sessions : session[s].run = <<>>) =>
    LET booted == Recover(log)
        same == /\ ~booted.error
                /\ booted.mem.tables = {<<i, catalog[i].name>> : i \in store}
                /\ booted.mem.rowsets = rowsets
    IN /\ history.bad = {} => same
       /\ history.bad \cap {"name in use", "late insert"} # {} => booted.error

=============================================================================
