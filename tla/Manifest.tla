------------------------------ MODULE Manifest ------------------------------
(***************************************************************************)
(* The manifest file (src/storage/secondary/manifest.rs): a sequence of    *)
(* JSON records, appended in groups between Begin and End, and what a      *)
(* replay of it yields at bootstrap (src/storage/secondary/storage.rs).    *)
(*                                                                         *)
(* A record that was only partly written is Torn: no JSON value.           *)
(***************************************************************************)
EXTENDS Integers, Sequences, SequencesExt, FiniteSetsExt

Begin == [op |-> "Begin"]

End == [op |-> "End"]

Torn == [op |-> "Torn"]

CreateTable(name) == [op |-> "CreateTable", name |-> name]

DropTable(t) == [op |-> "DropTable", table |-> t]

AddRowSet(r) == [op |-> "AddRowSet", rowset |-> r]

DeleteRowSet(r) == [op |-> "DeleteRowSet", rowset |-> r]

AddDV(v) == [op |-> "AddDV", dv |-> v]

DeleteDV(v) == [op |-> "DeleteDV", dv |-> v]

\* Manifest::append writes the entries between Begin and End in one buffer.
Group(entries) == <<Begin>> \o entries \o <<End>>

\* What a write of the buffer that does not complete may leave behind: some of
\* its records and, when it stops inside a record, a torn one.
PartialWrites(entries, torn) ==
    {SubSeq(Group(entries), 1, n) : n \in 0 .. Len(entries) + 2} \cup
    (IF torn THEN {SubSeq(Group(entries), 1, n) \o <<Torn>> : n \in 0 .. Len(entries) + 1}
             ELSE {})

\* Mutant of ReplayRecord: an operation is applied without waiting for its End.
ReplayRecordAtOnce(st, rec) ==
    IF rec = Torn THEN [st EXCEPT !.error = TRUE]
    ELSE IF rec \in {Begin, End} \/ st.error THEN st
    ELSE [st EXCEPT !.ops = Append(@, rec)]

\* One iteration of the loop of Manifest::replay.
ReplayRecord(st, rec) ==
    IF st.error THEN st
    ELSE CASE rec = Torn  -> [st EXCEPT !.error = TRUE]
           [] rec = Begin -> [st EXCEPT !.begin = TRUE]
           [] rec = End   -> [st EXCEPT !.ops = @ \o st.buffered, !.buffered = <<>>,
                                        !.begin = FALSE]
           [] OTHER       -> IF st.begin THEN [st EXCEPT !.buffered = Append(@, rec)]
                                         ELSE st

\* Manifest::replay: the operations of the complete groups, or an error.
Replay(file) ==
    FoldLeft(ReplayRecord,
             [ops |-> <<>>, buffered |-> <<>>, begin |-> FALSE, error |-> FALSE], file)
-----------------------------------------------------------------------------
\* The state of an engine: tables as <<id, name>> (SecondaryStorage.tables and
\* the catalog), views and indexes (catalog only), RowSets as <<table, id>> and
\* DVs as <<rowset, id>> (the current snapshot), and the three id counters.
EmptyEngine ==
    [tables |-> {}, views |-> {}, indexes |-> {}, next_tid |-> 0,
     rowsets |-> {}, dvs |-> {}, next_id |-> 0, next_dv |-> 0]

Names(mem) == {t[2] : t \in mem.tables \cup mem.views}

TableIds(mem) == {t[1] : t \in mem.tables}

\* SchemaCatalog::add_table and SecondaryStorage.tables.insert.
AddTable(mem, name) ==
    [mem EXCEPT !.tables = @ \cup {<<mem.next_tid, name>>}, !.next_tid = @ + 1]

\* apply_drop_table.
RemoveTable(mem, t) == [mem EXCEPT !.tables = {x \in @ : x[1] # t}]

\* The id counter after an object with this id was found (fetch_max).  Mutant: the id
\* itself.
RaiseToId(counter, id) == Max({counter, id})

Raise(counter, id) == Max({counter, id + 1})

\* One iteration of bootstrap's loop over the replayed operations: table
\* operations are applied (and may fail), RowSets and DVs are collected, and
\* the id counters are raised above every id that is added.
BootstrapOp(st, rec) ==
    LET m == st.mem
    IN  IF st.error THEN st
        ELSE CASE rec.op = "CreateTable" ->
                    IF rec.name \in Names(m) THEN [st EXCEPT !.error = TRUE]
                    ELSE [st EXCEPT !.mem = AddTable(m, rec.name),
                                    !.tableops = Append(@, rec)]
               [] rec.op = "DropTable" ->
                    IF rec.table \notin TableIds(m) THEN [st EXCEPT !.error = TRUE]
                    ELSE [st EXCEPT !.mem = RemoveTable(m, rec.table),
                                    !.tableops = Append(@, rec)]
               [] rec.op = "AddRowSet" ->
                    [st EXCEPT !.mem.rowsets = @ \cup {rec.rowset},
                               !.mem.next_id = Raise(@, rec.rowset[2])]
               [] rec.op = "DeleteRowSet" ->
                    [st EXCEPT !.mem.rowsets = @ \ {rec.rowset}]
               [] rec.op = "AddDV" ->
                    [st EXCEPT !.mem.dvs = @ \cup {rec.dv},
                               !.mem.next_dv = Raise(@, rec.dv[2])]
               [] rec.op = "DeleteDV" ->
                    [st EXCEPT !.mem.dvs = @ \ {rec.dv}]

\* Bootstrap up to the opening of the files.  It fails on a replay error, on a
\* table operation that cannot be applied, and panics on a RowSet or DV whose
\* table does not exist (tables.get(&entry.table_id).unwrap()).
Recover(file) ==
    LET replayed == Replay(file)
        booted == FoldLeft(BootstrapOp,
                           [mem |-> EmptyEngine, tableops |-> <<>>, error |-> FALSE],
                           replayed.ops)
        orphan == \/ \E r \in booted.mem.rowsets : r[1] \notin TableIds(booted.mem)
                  \/ \E v \in booted.mem.dvs : v[1][1] \notin TableIds(booted.mem)
    IN  [booted EXCEPT !.error = @ \/ replayed.error \/ orphan]

\* Mutant of Compacted: the operations of dropped tables are left out.
CompactedLiveTables(booted) ==
    LET adds == {AddRowSet(r) : r \in booted.mem.rowsets}
        dvs  == {AddDV(v) : v \in booted.mem.dvs}
    IN  SetToSeq(adds) \o SetToSeq(dvs)
            \o SetToSeq({CreateTable(t[2]) : t \in booted.mem.tables})

\* The changeset bootstrap writes to the new manifest: the live RowSets and DVs
\* (in the arbitrary order of hash maps) and all table operations.
Compacted(booted) ==
    LET adds == {AddRowSet(r) : r \in booted.mem.rowsets}
        dvs  == {AddDV(v) : v \in booted.mem.dvs}
    IN  SetToSeq(adds) \o SetToSeq(dvs) \o booted.tableops
=============================================================================
