-------------------------- MODULE SecondaryStorage --------------------------
(***************************************************************************)
(* The secondary storage engine at work: INSERT, DELETE, SELECT and DROP   *)
(* TABLE statements and the background compactor as processes over the     *)
(* version manager, with the per-table lock of the transaction manager.    *)
(*                                                                         *)
(* Every step is a step of the version manager (or leaves it alone)        *)
(* conjoined with what the process itself does.  A RowSet's content is a   *)
(* sequence of rows; a row handler is <<rowset, index>>.                   *)
(***************************************************************************)
EXTENDS VersionManager, Sequences, Functions

CONSTANTS Inserter,      \* clients that run an INSERT
          Deleter,       \* clients that run a DELETE (the update transaction)
          ScanOf,        \* deleter -> client of the scan below the DELETE
          Reader,        \* clients that run a SELECT
          Dropper,       \* clients that run a DROP TABLE
          Compactor,     \* the background compactor: one client or none
          TableOf,       \* statement -> its table
          Row,           \* row identities
          Inserted,      \* inserter -> the sequence of rows it inserts
          RecoveredRows, \* recovered RowSet -> its rows
          Target,        \* deleter -> rows that satisfy its WHERE clause
          Workloads,     \* sets of clients that run together
          TargetSize,    \* target_rowset_size, in rows
          MaxRounds      \* bound: rounds of the compactor

Scan == {ScanOf[d] : d \in Deleter}

Txn == Inserter \cup Deleter \cup Scan \cup Reader

\* A statement has one role, and there is one compactor.
ASSUME RoleAssumption ==
    /\ Txn \cup Dropper \cup Compactor \subseteq Client
    /\ Dropper \cap Txn = {}
    /\ Compactor \cap (Txn \cup Dropper) = {}
    /\ \A j, k \in Compactor : j = k
    /\ Inserter \cap (Deleter \cup Scan \cup Reader) = {}
    /\ Deleter \cap (Scan \cup Reader) = {} /\ Scan \cap Reader = {}
    /\ \A d, e \in Deleter : ScanOf[d] = ScanOf[e] => d = e

ASSUME TableAssumption == \A c \in Txn \cup Dropper : TableOf[c] \in Table

ASSUME RowAssumption ==
    /\ \A c \in Inserter : Inserted[c] \in Seq(Row) \ {<<>>}
    /\ \A r \in Recovered : RecoveredRows[r] \in Seq(Row)

\* A row identity stands for one row that was inserted once, by one INSERT or before
\* the restart.
ASSUME IdentityAssumption ==
    /\ \A c, d \in Inserter : \A i \in DOMAIN Inserted[c], j \in DOMAIN Inserted[d] :
          Inserted[c][i] = Inserted[d][j] => c = d /\ i = j
    /\ \A r, q \in Recovered : \A i \in DOMAIN RecoveredRows[r], j \in DOMAIN RecoveredRows[q] :
          RecoveredRows[r][i] = RecoveredRows[q][j] => r = q /\ i = j
    /\ \A c \in Inserter, r \in Recovered : Range(Inserted[c]) \cap Range(RecoveredRows[r]) = {}

VARIABLES pc,            \* client -> control point
          contents,      \* RowSet -> its rows
          dv_rows,       \* DV -> row indexes it deletes
          handlers,      \* deleter -> row handlers its scan produced
          table_lock,    \* table -> holder of the table's big lock
          tables,        \* SecondaryStorage.tables
          durable,       \* tables a replay of the manifest would find
          committed,     \* statements whose commit returned Ok
          ctables,       \* tables the compactor has still to visit
          ctable,        \* table the compactor works on, as a set
          rounds         \* rounds of the compactor so far

compacting == <<ctables, ctable, rounds>>

procvars == <<pc, contents, dv_rows, handlers, table_lock, tables, durable,
              committed, compacting>>

svars == <<vmvars, procvars>>

\* RowSetIterator with delete vectors: the handlers of the rows of RowSet r
\* that snapshot s shows.
RowsIn(s, r) ==
    ({r} \X DOMAIN contents[r]) \ ({r} \X UNION {dv_rows[d] : d \in DvsOf(s, r)})

\* scan_inner: the handlers of all rows of table t that snapshot s shows.
ScanRows(s, t) == UNION {RowsIn(s, r) : r \in RowsetsOf(s, t)}

RowAt(h) == contents[h[1]][h[2]]

\* The handlers of all rows of a set of RowSets, deleted ones included.
HandlersIn(set) == UNION {{r} \X DOMAIN contents[r] : r \in set}

RowsOf(set) == Cardinality(HandlersIn(set))

\* The rows of the database in snapshot s.
FactsOf(s) == {<<h[1][1], RowAt(h)>> : h \in UNION {RowsIn(s, r) : r \in s.rowsets}}

Goto(c, label) == pc' = [pc EXCEPT ![c] = label]

SInit ==
    /\ VMInit
    /\ \E w \in Workloads : pc = [c \in Client |-> IF c \in w THEN "start" ELSE "done"]
    /\ contents = [r \in Rowset |-> IF r \in Recovered THEN RecoveredRows[r] ELSE <<>>]
    /\ dv_rows = [d \in Dv |-> {}]
    /\ handlers = [d \in Deleter |-> {}]
    /\ table_lock = [t \in Table |-> NoClient]
    /\ tables = Table
    /\ durable = Table
    /\ committed = {}
    /\ ctables = {}
    /\ ctable = {}
    /\ rounds = 0
-----------------------------------------------------------------------------
\* SecondaryTransaction::start, as far as the pin.  get_table fails when the
\* table has been dropped, and the statement ends with an error.
StartTxn(c) ==
    /\ c \in Txn
    /\ pc[c] = "start"
    /\ \/ /\ TableOf[c] \in tables
          /\ Pin(c)
          /\ Goto(c, "pinned")
       \/ /\ TableOf[c] \notin tables
          /\ Goto(c, "failed")
          /\ UNCHANGED vmvars
    /\ UNCHANGED <<contents, dv_rows, handlers, table_lock, tables, durable, committed, compacting>>

\* The transaction object is dropped: its pin goes last.
EndTxn(c) ==
    /\ Unpin(c)
    /\ Goto(c, "done")
    /\ UNCHANGED <<contents, dv_rows, handlers, tables, durable, committed, compacting>>

\* The RowSet in memory of an INSERT, as a set: one that reached the target size was
\* flushed.  Nobody else reads it before the commit.
Mem(c) == {r \in built[c] : Len(contents[r]) < TargetSize}

\* append_inner, one row at a time: into the RowSet in memory, or a new one.  After
\* the last row commit_inner flushes what is in memory.
Append_inner(c) ==
    LET n == RowsOf(built[c]) + 1
    IN  /\ c \in Inserter
        /\ pc[c] = "pinned"
        /\ \/ /\ Mem(c) = {}
              /\ BuildRowset(c, TableOf[c])
              /\ contents' = [contents EXCEPT ![<<TableOf[c], next_id>>] = <<Inserted[c][n]>>]
           \/ /\ \E r \in Mem(c) : contents' = [contents EXCEPT ![r] = Append(@, Inserted[c][n])]
              /\ UNCHANGED vmvars
        /\ Goto(c, IF n = Len(Inserted[c]) THEN "written" ELSE "pinned")
        /\ UNCHANGED <<dv_rows, handlers, table_lock, tables, durable, committed, compacting>>

\* commit_inner of an INSERT, up to the manifest append.
InsertCommit(c) ==
    /\ c \in Inserter
    /\ pc[c] = "written"
    /\ CommitApply(c, TableOf[c], {}, {}, <<TableOf[c], 0>>)
    /\ Goto(c, "committing")
    /\ UNCHANGED <<contents, dv_rows, handlers, table_lock, tables, durable, committed, compacting>>

\* The manifest append of a transaction returns.
TxnCommitted(c) ==
    /\ c \in Inserter \cup Deleter
    /\ pc[c] = "committing"
    /\ \/ CommitFinish(c) /\ committed' = committed \cup {c}
       \/ CommitFail(c) /\ UNCHANGED committed
    /\ Goto(c, "finished")
    /\ UNCHANGED <<contents, dv_rows, handlers, table_lock, tables, durable, compacting>>

\* An INSERT ends: after its commit, or early when the executor below it fails.
InsertEnd(c) ==
    /\ c \in Inserter
    /\ pc[c] \in {"pinned", "written", "finished"}
    /\ EndTxn(c)
    /\ UNCHANGED table_lock

\* scan_inner: a SELECT, and the scan below a DELETE, opens every RowSet of its
\* table in the snapshot.
Scan_inner(c) ==
    /\ c \in Reader \cup Scan
    /\ pc[c] = "pinned"
    /\ GetRowsets(c, RowsetsOf(SnapshotOf(c), TableOf[c]))
    /\ Goto(c, "scanning")
    /\ UNCHANGED <<contents, dv_rows, handlers, table_lock, tables, durable, committed, compacting>>

\* The iterator is drained and dropped.  The scan's row handlers have gone to the
\* DELETE.
ScanDone(c) ==
    /\ c \in Reader \cup Scan
    /\ pc[c] = "scanning"
    /\ \/ DropRowsets(c)
       \/ held[c] = {} /\ UNCHANGED vmvars
    /\ Goto(c, "scanned")
    /\ handlers' = [d \in Deleter |->
           IF ScanOf[d] = c
           THEN {h \in ScanRows(SnapshotOf(c), TableOf[d]) : RowAt(h) \in Target[d]}
           ELSE handlers[d]]
    /\ UNCHANGED <<contents, dv_rows, table_lock, tables, durable, committed, compacting>>

ScanEnd(c) ==
    /\ c \in Reader \cup Scan
    /\ pc[c] = "scanned"
    /\ EndTxn(c)
    /\ UNCHANGED table_lock

\* SecondaryTransaction::start, after the pin: the table's lock is taken.
LockForDeletion(d) ==
    /\ d \in Deleter
    /\ pc[d] = "pinned"
    /\ table_lock[TableOf[d]] = NoClient
    /\ table_lock' = [table_lock EXCEPT ![TableOf[d]] = d]
    /\ Goto(d, "locked")
    /\ UNCHANGED <<vmvars, contents, dv_rows, handlers, tables, durable, committed, compacting>>

\* The DELETE has drained its scan: Transaction::delete for every handler.
Delete(d) ==
    /\ d \in Deleter
    /\ pc[d] = "locked"
    /\ pc[ScanOf[d]] \in {"scanned", "done"}
    /\ Goto(d, "written")
    /\ UNCHANGED <<vmvars, contents, dv_rows, handlers, table_lock, tables, durable, committed, compacting>>

\* The rows of RowSet r that deleter d deletes.
Deletes(d, r) == {h[2] : h \in {g \in handlers[d] : g[1] = r}}

\* commit_inner of a DELETE: one DV file for each RowSet that has handlers ...
WriteDv(d) ==
    /\ d \in Deleter
    /\ pc[d] = "written"
    /\ \E r \in {h[1] : h \in handlers[d]} \ {v[1] : v \in built_dv[d]} :
           /\ BuildDv(d, r)
           /\ dv_rows' = [dv_rows EXCEPT ![<<r, next_dv>>] = Deletes(d, r)]
    /\ UNCHANGED <<pc, contents, handlers, table_lock, tables, durable, committed, compacting>>

\* ... and then the changeset of AddDVs.
DeleteCommit(d) ==
    /\ d \in Deleter
    /\ pc[d] = "written"
    /\ {v[1] : v \in built_dv[d]} = {h[1] : h \in handlers[d]}
    /\ CommitApply(d, TableOf[d], {}, {}, <<TableOf[d], 0>>)
    /\ Goto(d, "committing")
    /\ UNCHANGED <<contents, dv_rows, handlers, table_lock, tables, durable, committed, compacting>>

\* The scan, the executors above it or the write of a DV file fail.
DeleteAbort(d) ==
    /\ d \in Deleter
    /\ pc[d] \in {"locked", "written"}
    /\ Goto(d, "finished")
    /\ UNCHANGED <<vmvars, contents, dv_rows, handlers, table_lock, tables, durable, committed, compacting>>

\* The fields of the update transaction are dropped in order: the lock, and
\* then the pin.
Unlock(d) ==
    /\ d \in Deleter
    /\ pc[d] = "finished"
    /\ table_lock' = [table_lock EXCEPT ![TableOf[d]] = NoClient]
    /\ Goto(d, "unlocked")
    /\ UNCHANGED <<vmvars, contents, dv_rows, handlers, tables, durable, committed, compacting>>

DeleteEnd(d) ==
    /\ d \in Deleter
    /\ pc[d] = "unlocked"
    /\ EndTxn(d)
    /\ UNCHANGED table_lock
-----------------------------------------------------------------------------
\* apply_drop_table: the table leaves the in-memory map first.
ApplyDrop(p) ==
    /\ p \in Dropper
    /\ pc[p] = "start"
    /\ tables' = tables \ {TableOf[p]}
    /\ Goto(p, IF TableOf[p] \in tables THEN "dropping" ELSE "done")
    /\ UNCHANGED <<vmvars, contents, dv_rows, handlers, table_lock, durable, committed, compacting>>

DropPin(p) ==
    /\ p \in Dropper
    /\ pc[p] = "dropping"
    /\ Pin(p)
    /\ Goto(p, "pinned")
    /\ UNCHANGED <<contents, dv_rows, handlers, table_lock, tables, durable, committed, compacting>>

\* drop_table_inner's changeset deletes what the pinned snapshot holds of the
\* table, in the arbitrary order of a hash set.  Mutant: the DVs are left.
DropCommitKeepsDvs(p) ==
    LET t == TableOf[p]
        deleted == RowsetsOf(SnapshotOf(p), t)
    IN  /\ p \in Dropper
        /\ pc[p] = "pinned"
        /\ \E last \in IF deleted = {} THEN {<<t, 0>>} ELSE deleted :
              /\ CommitApply(p, t, deleted, {}, last)
              /\ Goto(p, "committing")
        /\ UNCHANGED <<contents, dv_rows, handlers, table_lock, tables, durable, committed, compacting>>

DropCommit(p) ==
    LET t == TableOf[p]
        deleted == RowsetsOf(SnapshotOf(p), t)
    IN  /\ p \in Dropper
        /\ pc[p] = "pinned"
        /\ \E last \in IF deleted = {} THEN {<<t, 0>>} ELSE deleted :
              \/ /\ CommitApply(p, t, deleted,
                                UNION {DvsOf(SnapshotOf(p), r) : r \in deleted}, last)
                 /\ Goto(p, "committing")
              \/ /\ CommitPanic(p, t, deleted, last)
                 /\ Goto(p, "finished")
        /\ UNCHANGED <<contents, dv_rows, handlers, table_lock, tables, durable, committed, compacting>>

DropCommitted(p) ==
    /\ p \in Dropper
    /\ pc[p] = "committing"
    /\ \/ /\ CommitFinish(p)
          /\ durable' = durable \ {TableOf[p]}
          /\ committed' = committed \cup {p}
       \/ CommitFail(p) /\ UNCHANGED <<durable, committed>>
    /\ Goto(p, "finished")
    /\ UNCHANGED <<contents, dv_rows, handlers, table_lock, tables, compacting>>

DropEnd(p) ==
    /\ p \in Dropper
    /\ pc[p] = "finished"
    /\ EndTxn(p)
    /\ UNCHANGED table_lock
-----------------------------------------------------------------------------
\* Compactor::run: a round begins with a clone of the table map ...
CompactStart(k) ==
    /\ k \in Compactor
    /\ pc[k] = "start"
    /\ rounds < MaxRounds
    /\ rounds' = rounds + 1
    /\ ctables' = tables
    /\ Goto(k, "cloned")
    /\ UNCHANGED <<vmvars, contents, dv_rows, handlers, table_lock, tables, durable,
                   committed, ctable>>

\* ... and one pin for all tables.
CompactPin(k) ==
    /\ k \in Compactor
    /\ pc[k] = "cloned"
    /\ Pin(k)
    /\ Goto(k, "pinned")
    /\ UNCHANGED <<contents, dv_rows, handlers, table_lock, tables, durable, committed, compacting>>

\* try_lock_for_compaction: a table whose lock is taken is skipped.
TryLock(k) ==
    /\ k \in Compactor
    /\ pc[k] = "pinned"
    /\ \E t \in ctables :
           /\ ctables' = ctables \ {t}
           /\ \/ /\ table_lock[t] = NoClient
                 /\ table_lock' = [table_lock EXCEPT ![t] = k]
                 /\ ctable' = {t}
                 /\ Goto(k, "locked")
              \/ /\ table_lock[t] # NoClient
                 /\ UNCHANGED <<table_lock, ctable, pc>>
    /\ UNCHANGED <<vmvars, contents, dv_rows, handlers, tables, durable, committed,
                   rounds>>

\* compact_table's selection takes RowSets in the arbitrary order of a hash set
\* as long as they fit the target size: any maximal set that fits.
Selections(s, t) ==
    {sel \in SUBSET RowsetsOf(s, t) :
        /\ RowsOf(sel) <= TargetSize
        /\ \A r \in RowsetsOf(s, t) \ sel : RowsOf(sel \cup {r}) > TargetSize}

\* compact_table, up to the iterators over the selected RowSets; nothing is
\* done when fewer than two are selected.
Select(k) ==
    /\ k \in Compactor
    /\ pc[k] = "locked"
    /\ \E t \in ctable : \E sel \in Selections(SnapshotOf(k), t) :
           IF Cardinality(sel) > 1
           THEN GetRowsets(k, sel) /\ Goto(k, "selected")
           ELSE UNCHANGED vmvars /\ Goto(k, "compacted")
    /\ UNCHANGED <<contents, dv_rows, handlers, table_lock, tables, durable, committed, compacting>>

\* ConcatIterator reads one RowSet after the other, oldest first, each from its start.
Before(g, h) == g[1][2] < h[1][2] \/ (g[1] = h[1] /\ g[2] < h[2])

\* How many of a set of handlers come before handler h.
Rank(set, h) == Cardinality({g \in set : Before(g, h)})

\* The rows of a set of handlers in that order.
InOrder(set) ==
    [i \in 1 .. Cardinality(set) |-> RowAt(CHOOSE h \in set : Rank(set, h) = i - 1)]

\* Mutant of Merged: the newest of the selected RowSets is left out.
MergedButLast(s, sel) ==
    InOrder(UNION {RowsIn(s, r) : r \in {q \in sel : \E p \in sel : q[2] < p[2]}})

\* The rows of the selected RowSets that snapshot s shows.
Merged(s, sel) == InOrder(UNION {RowsIn(s, r) : r \in sel})

\* compact_table writes the merged rows to a new RowSet, unless there are none.
WriteMerged(k) ==
    /\ k \in Compactor
    /\ pc[k] = "selected"
    /\ \E t \in ctable :
           LET merged == Merged(SnapshotOf(k), held[k])
           IN  \/ /\ merged # <<>>
                  /\ BuildRowset(k, t)
                  /\ contents' = [contents EXCEPT ![<<t, next_id>>] = merged]
               \/ /\ merged = <<>>
                  /\ UNCHANGED <<vmvars, contents>>
    /\ Goto(k, "merged")
    /\ UNCHANGED <<dv_rows, handlers, table_lock, tables, durable, committed, compacting>>

\* Reading the inputs or writing the new RowSet fails, and compact_table returns early.
CompactError(k) ==
    /\ k \in Compactor
    /\ pc[k] = "selected" \/ (pc[k] = "merged" /\ built[k] # {})
    /\ Goto(k, "compacted")
    /\ UNCHANGED <<vmvars, contents, dv_rows, handlers, table_lock, tables, durable, committed, compacting>>

\* The RowSets of table t the compactor replaces.  Mutant: all current ones.
ReplacesCurrent(k, t) == RowsetsOf(status[epoch], t)

Replaces(k, t) == held[k]

\* compact_table's changeset: the new RowSet, and the deletion of the selected
\* ones in the order of their ids.  A panic ends the compactor's task.
CompactCommit(k) ==
    /\ k \in Compactor
    /\ pc[k] = "merged"
    /\ \E t \in ctable : \E last \in Replaces(k, t) :
           /\ \A r \in Replaces(k, t) : r[2] <= last[2]
           /\ \/ CommitApply(k, t, Replaces(k, t), {}, last) /\ Goto(k, "committing")
              \/ CommitPanic(k, t, Replaces(k, t), last) /\ Goto(k, "dying")
    /\ UNCHANGED <<contents, dv_rows, handlers, table_lock, tables, durable, committed, compacting>>

\* A failed compaction is only logged.
CompactCommitted(k) ==
    /\ k \in Compactor
    /\ pc[k] = "committing"
    /\ CommitFinish(k) \/ CommitFail(k)
    /\ Goto(k, "compacted")
    /\ UNCHANGED <<contents, dv_rows, handlers, table_lock, tables, durable, committed, compacting>>

\* The table locks once compact_table's guard is gone.  Mutant: the guard is leaked.
LocksLeaked == table_lock

LocksReleased == [t \in Table |-> IF t \in ctable THEN NoClient ELSE table_lock[t]]

\* compact_table returns or unwinds: its Arcs are dropped, then the lock.
CompactRelease(k) ==
    /\ k \in Compactor
    /\ pc[k] \in {"compacted", "dying"}
    /\ \/ DropRowsets(k)
       \/ held[k] = {} /\ UNCHANGED vmvars
    /\ table_lock' = LocksReleased
    /\ ctable' = {}
    /\ Goto(k, IF pc[k] = "dying" THEN "dead" ELSE "pinned")
    /\ UNCHANGED <<contents, dv_rows, handlers, tables, durable, committed, ctables,
                   rounds>>

\* All tables are visited, or the task unwinds: the pin is dropped.  The
\* compactor sleeps and starts the next round.
CompactEnd(k) ==
    /\ k \in Compactor
    /\ \/ pc[k] = "pinned" /\ ctables = {} /\ Goto(k, "start")
       \/ pc[k] = "dead" /\ UNCHANGED pc
    /\ Unpin(k)
    /\ UNCHANGED <<contents, dv_rows, handlers, table_lock, tables, durable, committed, compacting>>
-----------------------------------------------------------------------------
Statement(c) ==
    \/ StartTxn(c) \/ Append_inner(c) \/ InsertCommit(c) \/ TxnCommitted(c)
    \/ InsertEnd(c) \/ Scan_inner(c) \/ ScanDone(c) \/ ScanEnd(c)
    \/ LockForDeletion(c) \/ Delete(c) \/ WriteDv(c)
    \/ DeleteCommit(c) \/ DeleteAbort(c) \/ Unlock(c) \/ DeleteEnd(c)
    \/ ApplyDrop(c) \/ DropPin(c) \/ DropCommit(c) \/ DropCommitted(c) \/ DropEnd(c)

Compact(c) ==
    \/ CompactStart(c) \/ CompactPin(c) \/ TryLock(c) \/ Select(c) \/ WriteMerged(c)
    \/ CompactError(c) \/ CompactCommit(c) \/ CompactCommitted(c) \/ CompactRelease(c) \/ CompactEnd(c)

Vacuum == VacuumNext /\ UNCHANGED procvars

SNext == (\E c \in Client : Statement(c) \/ Compact(c)) \/ Vacuum

\* Every statement and background task is a tokio task that is polled until it
\* ends.
SSpec ==
    /\ SInit
    /\ [][SNext]_svars
    /\ \A c \in Client : WF_svars(Statement(c)) /\ WF_svars(Compact(c))
    /\ WF_svars(Vacuum)
-----------------------------------------------------------------------------
\* The rows a deleter has asked to delete.
DeletedBy(d) == {RowAt(h) : h \in handlers[d]}

VisibleRows(t) == {RowAt(h) : h \in ScanRows(status[epoch], t)}

\* Types of the engine's state, the version manager's included.
STypeOK ==
    /\ VMTypeOK
    /\ contents \in [Rowset -> Seq(Row)]
    /\ dv_rows \in [Dv -> SUBSET Nat]
    /\ handlers \in [Deleter -> SUBSET (Rowset \X Nat)]
    /\ table_lock \in [Table -> Client \cup {NoClient}]
    /\ durable \subseteq Table /\ tables \subseteq Table
    /\ ctables \subseteq Table /\ ctable \subseteq Table

\* No row is shown twice: a compaction's output and its inputs are never in one
\* snapshot.
NoDuplicateRow ==
    /\ STypeOK
    /\ \A t \in Table : \A g, h \in ScanRows(status[epoch], t) :
          RowAt(g) = RowAt(h) => g = h

\* A DELETE's row handlers are still valid when it commits: the RowSets they
\* point into are in the snapshot the DVs are added to.
HandlersValid ==
    [][\A d \in Deleter : CommitFinish(d) =>
            \A h \in handlers[d] : h[1] \in status[epoch].rowsets]_svars

\* The RowSets and DVs a replay would find without their table: bootstrap unwraps the
\* table of each.
OrphanRowsets == {r \in status[epoch].rowsets : r[1] \notin durable}

OrphanDvs == {v \in status[epoch].dvs : v[1][1] \notin durable}

\* The database can be opened again but for what escapes a DROP TABLE, which takes no
\* lock and deletes what its pinned snapshot holds (drop_table_inner): all RowSets of the
\* table in it go, and their DVs.  What is left behind was committed since it pinned, is a
\* DV of a RowSet that a compaction had replaced, or is committed later, by an INSERT, a
\* DELETE or a compaction that the DROP TABLE has overtaken.
Reopenable ==
    [][/\ \A r \in OrphanRowsets' \ OrphanRowsets :
            \/ \E p \in Dropper : /\ DropCommitted(p) /\ TableOf[p] = r[1]
                                  /\ r \notin SnapshotOf(p).rowsets
            \/ \E c \in Inserter \cup Compactor : CommitFinish(c) /\ r \notin status[epoch].rowsets
       /\ \A v \in OrphanDvs' \ OrphanDvs :
            \/ \E p \in Dropper : /\ DropCommitted(p) /\ TableOf[p] = v[1][1]
                                  /\ v \in SnapshotOf(p).dvs => v[1] \notin SnapshotOf(p).rowsets
            \/ \E d \in Deleter : CommitFinish(d) /\ v \notin status[epoch].dvs]_svars

\* The engine uses the version manager as its specification assumes.
UsesVersionManager == VMInit /\ [][VMNext]_vmvars

\* No statement waits forever: neither lock is ever part of a cycle.
StatementsEnd == <>(\A c \in Client \ Compactor : pc[c] \in {"done", "failed"})

\* RowSets that have left the current snapshot and are still on disk.
Dead ==
    {r \in disk : /\ r \notin status[epoch].rowsets
                 /\ \E e \in 1 .. epoch : r \in status[e].rowsets}

\* When the statements are over, the directories of all RowSets that compactions
\* and DROP TABLEs deleted are gone, in whatever order pins were dropped and
\* commits published, unless the vacuum task has ended.
DeletedFilesRemoved == <>[](Dead = {} \/ vacuum # "running")

\* The engine implements TableSpec: a commit makes exactly its own rows appear
\* and disappear, and a compaction or vacuum changes nothing a reader can see.
Buffered(c) ==
    LET t == TableOf[c]
    IN  IF c \in Inserter /\ pc[c] \in {"pinned", "written"}
        THEN [ins |-> {t} \X UNION {Range(contents[r]) : r \in built[c]}, del |-> {}]
        ELSE IF c \in Inserter /\ pc[c] = "committing"
        THEN [ins |-> {t} \X Range(Inserted[c]), del |-> {}]
        ELSE IF c \in Deleter /\ pc[c] \in {"written", "committing"}
        THEN [ins |-> {}, del |-> {t} \X DeletedBy(c)]
        ELSE IF c \in Dropper /\ pc[c] = "committing"
        THEN [ins |-> {}, del |-> {f \in FactsOf(SnapshotOf(c)) : f[1] = t}]
        ELSE [ins |-> {}, del |-> {}]

Abstract == INSTANCE TableSpec WITH
    Fact   <- Table \X Row,
    Scopes <- {Table \X Row},
    facts  <- FactsOf(status[epoch]),
    view   <- [c \in Client |-> IF Pinned(c) THEN FactsOf(SnapshotOf(c)) ELSE {}],
    active <- {c \in Client : Pinned(c)},
    buffer <- [c \in Client |-> Buffered(c)]

ImplementsTable == Abstract!TSpec
=============================================================================
