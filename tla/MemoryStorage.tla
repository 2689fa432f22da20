---------------------------- MODULE MemoryStorage ----------------------------
(***************************************************************************)
(* The in-memory engine (src/storage/memory/) under the statements that    *)
(* use it (src/executor/): create and drop table, insert, delete, select.  *)
(* A table is a list of chunks that only grows and the set of the          *)
(* positions that are deleted; a position in the list is a row handler.    *)
(*                                                                         *)
(* Executors run on many threads.  A step is what happens under one lock,  *)
(* or on one chunk of the child's stream.                                  *)
(***************************************************************************)
EXTENDS Integers, Sequences, FiniteSets, SequencesExt

CONSTANTS Creator, Dropper, Inserter, Deleter, Reader,   \* statements
          Workloads,     \* sets of statements that run together
          MaxTable,      \* bound: table ids are 1 .. MaxTable
          MaxChunks,     \* bound: chunks of one insert
          MaxRows        \* bound: rows of one chunk

Writer == Inserter \cup Deleter

Scanner == Deleter \cup Reader

Client == Creator \cup Dropper \cup Writer \cup Scanner

\* A delete has two transactions, one to write and one that its child reads.
Txn == Writer \X {"w"} \cup Scanner \X {"r"}

\* The table that there is at first, as left by an insert of two chunks.
OldChunks == <<<<<<0, 1, 1>>, <<0, 1, 2>>>>, <<<<0, 2, 1>>>>>>

\* The n-th row of the chunk k that client c inserts, and the old rows.
Row == Inserter \X (1 .. MaxChunks) \X (1 .. MaxRows) \cup ToSet(OldChunks[1] \o OldChunks[2])

VARIABLES catalog,     \* tables in the catalog (all statements use one name)
          tables,      \* InMemoryStorage.tables
          next_table,  \* the next table id
          inner,       \* table -> InMemoryTableInner: [chunks, deleted]
          txn,         \* transaction -> the snapshot and the writes it buffers
          iter,        \* scanner -> InMemoryTxnIterator: [cnt, row_cnt]
          seen,        \* scanner -> rows the statement got so far: <<handler, row>>
          tbl,         \* client -> the table of the statement
          pc

mvars == <<catalog, tables, next_table, inner, txn, iter, seen, tbl, pc>>

NoTxn == [chunks |-> <<>>, deleted |-> {}, buffer |-> <<>>, delete_buffer |-> {}]

NewIter == [cnt |-> 0, row_cnt |-> 0]

MInit ==
    /\ catalog = {1} /\ tables = {1} /\ next_table = 2
    /\ inner = [t \in 1 .. MaxTable |-> [chunks |-> IF t = 1 THEN OldChunks ELSE <<>>, deleted |-> {}]]
    /\ txn = [x \in Txn |-> NoTxn]
    /\ iter = [c \in Scanner |-> NewIter]
    /\ seen = [c \in Scanner |-> <<>>]
    /\ tbl = [c \in Client |-> 0]
    /\ \E w \in Workloads : pc = [c \in Client |-> IF c \in w THEN "start" ELSE "done"]

Flat(chunks) == IF chunks = <<>> THEN <<>> ELSE FlattenSeq(chunks)

Goto(c, label) == pc' = [pc EXCEPT ![c] = label]

data == <<inner, txn, iter, seen>>
-----------------------------------------------------------------------------
\* create_table: the catalog first, then the storage's map.
CreateInCatalog(c) ==
    /\ c \in Creator /\ pc[c] = "start"
    /\ \/ /\ catalog # {}
          /\ Goto(c, "failed")
          /\ UNCHANGED <<catalog, next_table, tbl>>
       \/ /\ catalog = {}
          /\ next_table <= MaxTable
          /\ catalog' = {next_table}
          /\ next_table' = next_table + 1
          /\ tbl' = [tbl EXCEPT ![c] = next_table]
          /\ Goto(c, "insert_table")
    /\ UNCHANGED <<tables, data>>

CreateInStorage(c) ==
    /\ pc[c] = "insert_table"
    /\ tables' = tables \cup {tbl[c]}
    /\ Goto(c, "done")
    /\ UNCHANGED <<catalog, next_table, tbl, data>>

\* The binder finds the table of the statement in the catalog.
Bind(c) ==
    /\ c \notin Creator /\ pc[c] = "start"
    /\ \/ \E t \in catalog : tbl' = [tbl EXCEPT ![c] = t] /\ Goto(c, "bound")
       \/ catalog = {} /\ Goto(c, "failed") /\ UNCHANGED tbl
    /\ UNCHANGED <<catalog, tables, next_table, data>>

\* DropExecutor: unwrap fails on a table that is already dropped.
DropStart(c) ==
    /\ c \in Dropper /\ pc[c] = "bound"
    /\ Goto(c, IF tbl[c] \in catalog THEN "drop" ELSE "panicked")
    /\ UNCHANGED <<catalog, tables, next_table, tbl, data>>

\* drop_table: the storage's map first, then the catalog.
DropInStorage(c) ==
    /\ pc[c] = "drop"
    /\ tables' = tables \ {tbl[c]}
    /\ Goto(c, IF tbl[c] \in tables THEN "drop_catalog" ELSE "failed")
    /\ UNCHANGED <<catalog, next_table, tbl, data>>

DropInCatalog(c) ==
    /\ pc[c] = "drop_catalog"
    /\ catalog' = catalog \ {tbl[c]}
    /\ Goto(c, "done")
    /\ UNCHANGED <<tables, next_table, tbl, data>>
-----------------------------------------------------------------------------
\* get_table, for the transaction that the statement opens.
GetTable(c, from, to) ==
    /\ pc[c] = from
    /\ tbl[c] \in tables
    /\ Goto(c, to)
    /\ UNCHANGED <<catalog, tables, next_table, tbl, data>>

\* The child's stream ends in an error, or nobody reads it any more: the reading
\* transaction is dropped.
ScanFail(c) ==
    /\ pc[c] = "scanning"
    /\ txn' = [txn EXCEPT ![<<c, "r">>] = NoTxn]
    /\ iter' = [iter EXCEPT ![c] = NewIter]
    /\ seen' = IF c \in Deleter THEN seen ELSE [seen EXCEPT ![c] = <<>>]
    /\ Goto(c, IF c \in Deleter THEN "aborting" ELSE "failed")
    /\ UNCHANGED <<catalog, tables, next_table, inner, tbl>>

\* The statement fails, as its table is gone or its child failed: the transaction is
\* dropped without a commit.
Abort(c) ==
    /\ \/ pc[c] \in {"bound", "updating"} /\ c \notin Dropper /\ tbl[c] \notin tables
       \/ pc[c] \in {"appending", "aborting"}
    /\ txn' = [x \in Txn |-> IF x[1] = c THEN NoTxn ELSE txn[x]]
    /\ seen' = [x \in Scanner |-> IF x = c THEN <<>> ELSE seen[x]]
    /\ Goto(c, "failed")
    /\ UNCHANGED <<catalog, tables, next_table, inner, iter, tbl>>

\* The snapshot of InMemoryTransaction::start.
Snapshot(t) == [NoTxn EXCEPT !.chunks = inner[t].chunks, !.deleted = inner[t].deleted]

Start(c, kind, from, to) ==
    /\ pc[c] = from
    /\ txn' = [txn EXCEPT ![<<c, kind>>] = Snapshot(tbl[c])]
    /\ Goto(c, to)
    /\ UNCHANGED <<catalog, tables, next_table, inner, iter, seen, tbl>>

\* Transaction::append with one chunk of the child's stream.
AppendChunk(c) ==
    /\ pc[c] = "appending"
    /\ LET k == Len(txn[<<c, "w">>].buffer) + 1
       IN  /\ k <= MaxChunks
           /\ \E len \in 1 .. MaxRows :
                 txn' = [txn EXCEPT ![<<c, "w">>].buffer =
                            Append(@, [n \in 1 .. len |-> <<c, k, n>>])]
    /\ UNCHANGED <<catalog, tables, next_table, inner, iter, seen, tbl, pc>>
-----------------------------------------------------------------------------

Advanced(it, chunk, visible) == [cnt |-> it.cnt + 1, row_cnt |-> it.row_cnt + Len(chunk)]

\* The visible rows of a chunk that starts at position first, with their handlers.
Visible(chunk, first, deleted) ==
    SelectSeq([n \in DOMAIN chunk |-> <<first + n - 1, chunk[n]>>], LAMBDA x : x[1] \notin deleted)

\* InMemoryTxnIterator::next_batch.  A delete buffers the handlers of the rows that
\* its condition selects.
ScanBatch(c) ==
    /\ pc[c] = "scanning"
    /\ LET snapshot == txn[<<c, "r">>]
           chunk == snapshot.chunks[iter[c].cnt + 1]
           visible == Visible(chunk, iter[c].row_cnt, snapshot.deleted)
       IN  /\ iter[c].cnt < Len(snapshot.chunks)
           /\ iter' = [iter EXCEPT ![c] = Advanced(iter[c], chunk, visible)]
           /\ \E selected \in IF c \in Deleter THEN SUBSET Range(visible) ELSE {Range(visible)} :
                 /\ seen' = [seen EXCEPT ![c] =
                                @ \o SelectSeq(visible, LAMBDA x : x \in selected)]
                 /\ txn' = IF c \in Reader THEN txn
                           ELSE [txn EXCEPT ![<<c, "w">>].delete_buffer =
                                    @ \cup {x[1] : x \in selected}]
    /\ UNCHANGED <<catalog, tables, next_table, inner, tbl, pc>>

\* The end of the stream: the reading transaction is dropped.
ScanEnd(c) ==
    /\ pc[c] = "scanning"
    /\ iter[c].cnt >= Len(txn[<<c, "r">>].chunks)
    /\ txn' = [txn EXCEPT ![<<c, "r">>] = NoTxn]
    /\ iter' = [iter EXCEPT ![c] = NewIter]
    /\ seen' = IF c \in Deleter THEN seen ELSE [seen EXCEPT ![c] = <<>>]
    /\ Goto(c, IF c \in Deleter THEN "deleting" ELSE "done")
    /\ UNCHANGED <<catalog, tables, next_table, inner, tbl>>

\* What a commit makes of a table.  Mutant: the set of deleted rows of the snapshot is written back.
CommittedOverSnapshot(t, x) ==
    [chunks |-> inner[t].chunks \o x.buffer, deleted |-> x.deleted \cup x.delete_buffer]

Committed(t, x) ==
    [chunks |-> inner[t].chunks \o x.buffer, deleted |-> inner[t].deleted \cup x.delete_buffer]

\* Transaction::commit, under the write lock of the table.
CommitTxn(c) ==
    /\ pc[c] \in {"appending", "deleting"}
    /\ inner' = [inner EXCEPT ![tbl[c]] = Committed(tbl[c], txn[<<c, "w">>])]
    /\ txn' = [txn EXCEPT ![<<c, "w">>] = NoTxn]
    /\ seen' = [x \in Scanner |-> IF x = c THEN <<>> ELSE seen[x]]
    /\ Goto(c, "done")
    /\ UNCHANGED <<catalog, tables, next_table, iter, tbl>>
-----------------------------------------------------------------------------
InsertStep(c) == GetTable(c, "bound", "write") \/ Start(c, "w", "write", "appending") \/ AppendChunk(c)

DeleteStep(c) ==
    \/ GetTable(c, "bound", "update") \/ Start(c, "w", "update", "updating")
    \/ GetTable(c, "updating", "read") \/ Start(c, "r", "read", "scanning")

ReadStep(c) == GetTable(c, "bound", "read") \/ Start(c, "r", "read", "scanning")

MNext ==
    \E c \in Client :
        \/ CreateInCatalog(c) \/ CreateInStorage(c)
        \/ Bind(c) \/ DropStart(c) \/ DropInStorage(c) \/ DropInCatalog(c)
        \/ c \in Inserter /\ InsertStep(c)
        \/ c \in Deleter /\ DeleteStep(c)
        \/ c \in Reader /\ ReadStep(c)
        \/ ScanBatch(c) \/ ScanEnd(c) \/ CommitTxn(c) \/ ScanFail(c) \/ Abort(c)

MSpec == MInit /\ [][MNext]_mvars
-----------------------------------------------------------------------------

\* The rows that a list of chunks with deleted positions shows.
RowsOf(x) ==
    LET rows == Flat(x.chunks)
    IN  {rows[p] : p \in {p \in DOMAIN rows : p - 1 \notin x.deleted}}

Facts(t, rows) == {t} \X rows

Active ==
    {x \in Txn : \/ pc[x[1]] = "scanning"
                 \/ x[2] = "w" /\ pc[x[1]] \in {"appending", "updating", "read", "deleting", "aborting"}}

\* The rows that a transaction is to remove: those its child has returned.
Deletes(x) ==
    IF x \in Active /\ x[2] = "w" /\ x[1] \in Deleter
    THEN {seen[x[1]][n][2] : n \in DOMAIN seen[x[1]]} ELSE {}

Abstract == INSTANCE TableSpec WITH
    Client <- Txn,
    Fact   <- (1 .. MaxTable) \X Row,
    Scopes <- {Facts(t, Row) : t \in 1 .. MaxTable},
    facts  <- UNION {Facts(t, RowsOf(inner[t])) : t \in 1 .. MaxTable},
    view   <- [x \in Txn |-> Facts(tbl[x[1]], RowsOf(txn[x]))],
    active <- Active,
    buffer <- [x \in Txn |-> [ins |-> Facts(tbl[x[1]], Range(Flat(txn[x].buffer))),
                              del |-> Facts(tbl[x[1]], Deletes(x))]]

\* Transactions on a table of the in-memory engine behave as TableSpec says: a
\* snapshot is the committed state, and a commit adds and removes exactly the rows
\* of the statement, although the table has changed since the snapshot.
ImplementsTable == Abstract!TSpec
=============================================================================
