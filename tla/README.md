# Verification of RisingLight

TLA+ specifications of RisingLight, an analytical SQL database written in Rust,
with TLC configurations that check them on small instances and TLAPS proofs that
hold for all instances. The specifications are translated from the code under
`src/src`; `PROJECT.json` maps every definition to the lines it stands for.

## 1. The system

A statement goes through `parser`, `binder` (names to catalog ids), `planner`
(an e-graph optimizer) and `executor` (one asynchronous task per plan node,
joined by channels). The executors of `INSERT`, `DELETE`, `SELECT`, `CREATE` and
`DROP` call a storage engine through the traits of `storage/mod.rs`. There are
two engines, an in-memory one and an on-disk one called "secondary".

| Part | State | Operations | Talks to |
|---|---|---|---|
| version manager (`secondary/version_manager.rs`) | epoch, snapshot of each epoch, reference count of each epoch, RowSet and DV pools, pending deletions | `pin`, drop of a `Version`, `commit_changes`, `find_vacuum`, `do_vacuum`, `run` | manifest, file system |
| transactions (`secondary/transaction.rs`, `transaction_manager.rs`) | pinned version, RowSets and DVs built, table lock | `start`, `append`, `scan`, `delete`, `commit`, drop | version manager |
| compactor (`secondary/compactor.rs`) | its pin and the table lock it tries | `run`, `compact_table` | version manager |
| manifest (`secondary/manifest.rs`) and bootstrap (`secondary/storage.rs`) | the log file, its temporary copy, id counters | `append`, `replay`, `bootstrap`, `create_table`, `drop_table` | catalog, file system |
| catalog (`catalog/`) | names, ids, the id counter of a schema | add and delete of tables, views, indexes | manifest |
| read path (`secondary/rowset`, `column`, `merge_iterator.rs`, `concat_iterator.rs`) | position of each column, block iterators, heap of the merge | `next_batch`, `skip` at every level | transactions |
| in-memory engine (`memory/`) | chunks and deleted row positions of a table, table map | the same traits | catalog |
| block encodings (`secondary/block`) | builder and iterator of each encoding | `append`, `finish`, `next_batch`, `skip` | read path |
| executors (`executor/`) | hash tables, heaps, channels | one `execute` per operator | storage |
| planner (`planner/`) | an e-graph | rewrite rules, cost | catalog |
| arrays and types (`array/`, `types/`) | none | vectorised operations, casts | executors |
| sessions (`db.rs`, `main.rs`, `server/`) | the database handle | `run`, shell commands | everything |

RowSets are immutable directories of column files. A delete vector (DV) is a file
that lists deleted rows of one RowSet. A snapshot is a set of RowSets and DVs; each
commit makes a new one under the next epoch. What makes the system hard is between
the parts:

- a commit releases the version manager's lock while it appends to the manifest,
  and publishes afterwards what it computed before;
- an update transaction pins its snapshot before it waits for the table's lock, the
  scan below a `DELETE` has a pin of its own, and the compactor pins once for all
  tables before it tries any lock;
- `DROP TABLE` takes no lock;
- the vacuum task learns of removable files only through the notification sent when
  the last pin of an old epoch is dropped;
- a manifest append can stop anywhere; ids are not in the log but follow from the
  order of its records;
- each column of a RowSet has blocks of its own, so the columns of one batch move
  over block boundaries, deleted rows and the ends of a range independently;
- the catalog and the engines' table maps change one after the other without a
  common lock, and a statement is bound, planned, built and executed in steps between
  which other sessions drop what it was bound to;
- a plan is a tree of tasks over bounded channels, in which the end of a stream, a
  panic and a cancellation look alike to a parent;
- kernels, executors and rewrite rules have to agree on NULL, although a raw datum
  lies under every NULL and most rules are written for two truth values.

`PROJECT.json` lists these as hazards, with the line and the properties that watch it.

## 2. Modules

| Module | Models |
|---|---|
| `TableSpec` | the promise of the storage traits: snapshots, buffered writes, atomic commit |
| `VersionManager` | version manager and vacuum task, with arbitrary clients |
| `SecondaryStorage` | the statements and the compactor over `VersionManager` |
| `Manifest` | records, replay, ids, bootstrap and rewrite as functions of the log |
| `Recovery` | statements, crashes, failed appends and restarts over `Manifest` |
| `Session` | sessions of one database: catalog, table map, statistics and log under concurrent DDL, over `Manifest` |
| `Block` | builders and iterators of the block encodings |
| `Column` | RowSet and column builders, block index, block cache, checksums, `ConcreteColumnIterator`, over `Block` |
| `ColumnIterator` | the movement of a column iterator over the row counts of the blocks |
| `RowSetIterator` | `RowSetIterator::next_batch_inner` over its columns |
| `TableScan` | `ConcatIterator` and `MergeIterator` over RowSet iterators |
| `MemoryStorage` | the in-memory engine with its catalog |
| `Pipeline` | executor builder, tasks, channels, blocking threads and the client of a plan |
| `Executors` | what each executor computes from the chunks of its children |
| `Expressions` | SQL values, the kernels of `array/ops.rs`, and constant evaluation |
| `Optimizer` | the rewrite rules of the three stages on expressions and plans |
| `VersionManagerProofs` | theorems on `VersionManager` |
| `SecondaryStorageProofs`, `SecondaryStorageRowProofs`, `SecondaryStorageInsertProofs`, `SecondaryStorageRowTheorems`, `SecondaryStorageFactProofs`, `SecondaryStorageTableProofs`, `SecondaryStorageRefinement` | theorems on `SecondaryStorage` |
| `MC*` | the constants and symmetries of the runs |

**VersionManager.** `status[e]` is the snapshot of epoch `e`, `ref_cnt` the map of
the same name, `pin[c]` the epoch of a client's `Version` (0 for none), `held[c]` the
`Arc<DiskRowset>`s it has, `pending[c]` a commit between `manifest.append` and its
publication, `notified` the messages in the vacuum's channel. `CommitApply` is
`commit_changes` up to the append and `CommitFinish` the rest, because only the
manifest lock is held in between; `CommitFail` is an append that returns an error and
`CommitPanic` the `unwrap` in `Snapshot::delete_rowset` when another commit has
removed the last RowSet of the table. `FindVacuum` and `RemoveDir` are the two halves
of `do_vacuum`. Clients are arbitrary: any order of pin, open, build, commit and unpin.

**SecondaryStorage** extends it. Each step conjoins one version manager action with
what the process does itself, so that the whole is shown to use the version manager
as specified (`UsesVersionManager`). `pc` names the await points of each executor. A
DELETE is two clients, the update transaction and the scan below it (`ScanOf`), as in
the code. A RowSet's contents are a sequence of rows and a row handler is a RowSet
with an index, so that DVs that point into a compacted RowSet really do nothing. An
INSERT appends row by row and goes on to a new RowSet when one has the target size.

**Manifest and Recovery.** `Replay` is `Manifest::replay` with its Begin/End groups,
`Recover` folds the table, RowSet and DV operations as `bootstrap` does, with the ids
that the catalog hands out on the way, and `Compacted` is the rewritten log. A record
is data; a record cut in the middle is `Torn`. `Recovery` runs `CREATE`/`DROP TABLE`,
views, indexes, inserts, deletes and compactions in their steps around the append, and
crashes between and inside them. `Persist` is the append with its outcomes: all of it,
a crash after any prefix, or an error after any prefix. What interleaves on one table
is `SecondaryStorage`'s subject, so statements on one table take turns here.

**Block and Column.** A value is a sequence of cells (bytes, or elements of a vector), a
finished block the record of its sections, a block iterator the record of its counters.
The encodings compose as in the code: run-length and dictionary blocks wrap a plain
block, nullable ones keep a bitmap beside it. `PutItem` is one item of a column
builder's `append` with `should_finish`; `IndexEntry` is `finish_block`. `FetchRows`,
`FetchOn` and `FetchNext` are the loop of `next_batch_inner`, one operator for each of
its parts, and carry the outcome of `get_block`: data, a checksum error, bytes that
nobody verified, a panic. `Corrupt` changes a block's data or checksum type or sets it to
zeros; `OtherLoads` and `OtherVerifies` are the two halves of another scan's `get_block`,
between which the cache has the block and nobody has verified it. `Position` maps the real iterator to `ColumnIterator`.

**ColumnIterator, RowSetIterator, TableScan.** A column is the sequence of its blocks'
lengths, its iterator a record of block, row and what is left of the block; values are
row numbers, so a wrong row is seen. `NextBatch`, `Skip` and `FetchHint` follow the code
case by case; `MovesAsColumnIterator` in `Column` justifies leaving the contents out.
`RowSetIterator` combines the columns with the visibility map, the range filter and the
skip of invisible batches. `TableScan` has a binary heap as in `MergeIterator`.

**MemoryStorage.** `inner[t]` holds chunks and deleted positions, `txn` the snapshot
and buffer of a transaction, `iter` a scan's position. Statements bind a table, look
it up again, start, scan or append batch by batch and commit, each a step.

**Pipeline.** `build` is the work list of `Builder`, `held` the subscribers it still
has, `task` a task's state, `sent` and `pos` the broadcast channels, `live` the open
streams. A task runs from one await to the next in a step. `Abort` is the drop of the
last handle of a task. COPY FROM and COPY TO have their blocking thread and its channel.

**Session.** One call of `Database::run` is a list of statements; gathering of
statistics, binding, building and each look of an executor at catalog or engine are
steps. `history` remembers what happened, only for the properties. On one table
INSERT's transaction is atomic here; `SecondaryStorage` takes it apart.

**Executors.** A query is an executor with its input chunks. A step takes one input
chunk, or one group of a merge join, and pushes rows into the `DataChunkBuilder`. A cell
is a raw datum with a validity bit, since a few kernels read what lies under a NULL. The
arms of the merge join's `match` are `EqualArm`, `LeftArm`, `RightArm` and, in
`MergeBreak`, none of them.

**Expressions and Optimizer.** `Sql` is the value of an expression by definition,
`Kernel` what the vectorised kernels compute. `Optimizer` abstracts the e-graph to the
terms that can be extracted from it: a step replaces one subterm by a rule of the
current stage whose conditions hold. The cost function only selects among such terms,
so every selection is covered. `used` remembers the rules applied. A database gives each
table its RowSets, each in the order of the primary key; a scan reads one after the other
(`scan_inner`), and a merge join does to unsorted input what its executor does
(`MergeGroups`).

## 3. Runs

Eleven runs pass; `lost_delete` shows a disagreement between the code and what its
comments say of it. `CHECK_DEADLOCK FALSE` appears where the statements of a workload, a
scan, a query or the rewriting come to an end; the version manager's run checks deadlock.

| Run | Properties | Distinct states | What it shows |
|---|---|---|---|
| `version_manager` | `PinnedFilesExist`, `CommitBaseIsCurrent`, `NoLostWakeup`, `DeletedStaysDeleted` | 728,684 | No order of client calls, failing appends and vacuum steps takes a file from a pinned version, publishes a commit on a stale base, loses a notification or brings a deleted RowSet back. |
| `isolation` | `ImplementsTable` | 296,455 | INSERTs against compactions, and an INSERT against two DELETEs of the same rows, are what `TableSpec` allows: no committed row is lost, no deleted row returns. |
| `compaction` | `NoDuplicateRow`, `Reopenable`, `UsesVersionManager`, `StatementsEnd`, `DeletedFilesRemoved` | 149,390 | An INSERT with a DELETE, an INSERT with a SELECT and a DROP TABLE, and a DELETE with a DROP TABLE, against compactor and vacuum: rows are not doubled, a DROP TABLE leaves nothing behind but what escapes its snapshot, statements end, and dead files go away while the vacuum task lives. |
| `recovery` | `RestartRestores`, `LiveFilesExist`, `CrashAtomic`, `NewFilesAreNew` | 211,516 | A restart gives back the running engine after crashes at any point, torn records and failed appends, within the conditions the properties state. |
| `session` | `CatalogMatchesStore`, `PanicNeedsDrop`, `DropReported`, `StatFailsOnlyInDdl`, `LogReplays` | 80,798 | Two sessions that create, drop, insert and query at once: which panics, failures and restarts are possible, and that nothing else goes wrong. |
| `columns` | `ReadsBack`, `IndexExact`, `CorruptionReported`, `MovesAsColumnIterator` | 373,590 | What is written in any encoding is read back, whatever the sizes of batches and skips; the index is exact; whoever loads a block whose checksum is wrong gets the error. |
| `table_scan` | `ConcatCorrect`, `MergeCorrect`, `BatchAdvances`, `BatchWithinBlock` | 235,855 | A scan returns exactly the rows in range and not deleted, in order, for every layout of blocks, but for equal keys across blocks at the start of a range. |
| `memory` | `ImplementsTable` | 81,637 | The in-memory engine implements the same `TableSpec`. |
| `pipeline` | `Delivered`, `CommitsWhole`, `EveryTaskStops` | 28,293 | A client gets the whole answer or an error, INSERT commits all or nothing, and all tasks and threads stop, under failures, LIMIT and cancellation. |
| `executors` | `JoinsRight`, `AggregatesRight`, `SelectionsRight`, `PanicsExactly` | 109,918 | Each executor computes SQL's answer however its input is cut into chunks, and exactly where it does not or panics. |
| `optimizer` | `KernelsRight`, `ValuePreserved`, `OrderKept`, `PlanPreserved` | 23,939 | Rewriting keeps values, rows, columns and order, but for the rules the properties name. |
| `lost_delete` | `HandlersValid` | violated | A compaction can commit between the scan of a DELETE and its lock. |

Several properties hold only under conditions, which are part of their statements or of
the workloads:

- `ImplementsTable` of the on-disk engine is checked on workloads that do not have DELETE
  together with the compactor, nor DROP TABLE. With DELETE and compactor a deleted row
  may stay, which is what `lost_delete` shows at its root; `NoDuplicateRow` is checked
  on that workload.
- `Reopenable` lets a RowSet or DV lose its table in three ways: committed after the
  DROP TABLE pinned its snapshot, committed after the DROP TABLE itself, or, for a DV,
  left over from a RowSet that a compaction had replaced.
- `RestartRestores` and `CrashAtomic` exclude views, indexes (neither is persisted,
  and both consume table ids) and appends that fail while the process goes on. The
  database opens exactly if no DV is left of a dropped table; one is left after DELETE,
  compaction and DROP TABLE, even one after the other. They are stated for one session;
  `LogReplays` says what two sessions can do to the log.
- `NewFilesAreNew` lets a DELETE find its DV file there after a failure (it then fails),
  and an old DV meet a new RowSet only of an id that the manifest no longer names, after
  a compaction and two restarts.
- `CorruptionReported` is about the scan that loads a block. Scans that find the block in
  the cache, before or after that scan's error, use it unverified. The header names the
  type of the checksum: a block of zeros says it has none, and passes.
- `StatFailsOnlyInDdl` does not say what happens once the catalog's lock is poisoned.
- `JoinsRight` asks of a merge join whose input is out of order only that its pairs are
  right and its padding consistent with them.
- `DeletedFilesRemoved` is stated for a running vacuum task. DROP TABLE and a
  compaction can delete one RowSet twice; the second removal of the directory is an
  error that ends the task.
- `Delivered` and `CommitsWhole` treat a panicking task apart: its parent takes it for
  the end of the stream. `Delivered` excludes a view that is scanned twice, and
  `EveryTaskStops` a join of such a view that has more chunks than the channels hold.
- `KernelsRight`, `ValuePreserved`, `PlanPreserved` and `OrderKept` except the sets
  `NullRules`, `OverflowRules`, `WrongRules`, `OrderedRules` (on databases in which a
  scanned table is not `KeyOrdered`) and the predicates `SelectMisses`, `DirtyOperand`,
  `Misranged` and `PaddedMerge`. Each member of each was needed: without it TLC shows a
  counterexample. All 95 rules fire in the run.

### Bounds

- `version_manager`: two clients, two recovered RowSets and one new one, one DV,
  three epochs. Two clients are enough for every pair of overlapping calls, three
  epochs for a pin on an old, a middle and the current version. Deletions and
  additions of the same commit, a second commit during the first's append and a
  vacuum between any two steps all occur.
- `isolation`, `compaction`: one table with two recovered RowSets of one row each, so
  that a compaction has something to merge; two inserters, one inserter of three rows
  (two RowSets, as the target size is two rows) or two deleters; in `compaction` also a
  DELETE beside a DROP TABLE; one or two rounds of the compactor. Rows are identities, so
  a doubled or lost row is seen.
- `recovery`: one session, two names, at most two table ids, three RowSets, two DVs
  and two crashes or failed appends. Three workloads keep the run small: tables that
  come and go, a table that is filled, deleted from, compacted (to nothing at times) and
  dropped, and everything that is not persisted or fails. `MaxFailures = 2` allows a crash
  during the recovery from a crash.
- `session`: every pair of 14 scripts of two to four statements over the names `t`,
  `u` (tables), `v`, `w` (views) and `i` (an index).
- `columns`: up to four rows (seven for the longest run) in chunks of two, two values
  and NULL, a target size of two to three values, so that blocks end after one, two
  or three rows (the long runs have a larger target, so that the column that is read
  splits one at the counter's maximum); batches of up to three rows. Run lengths are written in digits of base
  `CountBase = 2` instead of 128, so that the longest run is reached; a bitmap byte has
  two bits.
- `table_scan`: all ways to cut four rows into blocks of at most three for each of two
  columns, every set of deleted rows, twelve ranges, two batch sizes and the default
  output size 3 (`ROWSET_MAX_OUTPUT` scaled down, so that batches end inside blocks and
  blocks inside batches); three RowSets of two rows with overlapping keys for the merge.
- `memory`: two tables, two chunks of one row; two deleters, two droppers.
- `pipeline`: plans of up to four nodes over up to four chunks of one row; channels of
  capacity one instead of 16, so that every one of them fills.
- `executors`: chunks of at most two rows instead of 1024; joins of up to three by two
  rows, merge joins of inputs in any order, aggregates over three, sorts over four, with
  NULLs and empty chunks. `MaxCapacity = 100` stands for the rows that memory can be
  reserved for and `NoLimit = 1000` for `usize::MAX / 2`; only that the one is below the
  other matters.
- `optimizer`: integers wrap above seven; terms and plans in which the pattern of
  every rule occurs, all six join types, three to six rewriting steps, five databases of
  tables of up to four rows in up to two RowSets: with and without NULLs, with RowSets
  that follow each other and that overlap in their keys, with empty tables.

### Fairness

`SSpec` of `SecondaryStorage` assumes weak fairness of each statement, of the compactor
and of the vacuum. Each is a tokio task, which the runtime polls until it ends. No
strong fairness is assumed for the table's lock or the manifest lock: with finitely many
statements a waiting statement is eventually the only one. `VMSpec` has weak fairness of
the vacuum only. `Pipeline` assumes weak fairness of the builder, the client, each task,
each blocking thread and the delivery of an abort; a cancellation is never forced.
`Recovery`, `Session`, `Column`, `TableScan`, `MemoryStorage`, `Executors` and `Optimizer`
have safety properties only; that a scan
ends is stated as the invariant `BatchAdvances`.

### Mutants

Every property of a passing run is paired with a mutation of one mapped definition,
a plausible mistake in that code, under which TLC finds the property violated. The
mutated forms stand before the definitions they replace (`CanApplyPinned` before
`CanApply`, `CompactedLiveTables` before `Compacted`, `SkipStays` before `Skip`).

## 4. Proofs

The theorems hold for every finite set of clients, every set of tables and every
bound. Assumptions: `ClientAssumption` (finitely many clients), `BoundAssumption`,
`RecoveredAssumption` and `FirstAssumption` (bootstrap raises the RowSet counter above
every id it finds) for the version manager, `RoleAssumption` and `TableAssumption`
(a statement has one role and a table; one compactor), `RowAssumption` (rows come in
sequences) and `IdentityAssumption` (a row identity stands for a row that was inserted
once; rows that are equal as values are different identities) for the engine.

The proofs are spread over modules that extend each other, so that each is small enough
to be checked on its own.

**VersionManagerProofs** proves that the invariant `IInv` of `VersionManager` is
inductive, and from it the theorems `TypeCorrect`, `PinsProtectFiles`, `VacuumSafe`,
`CommitsSerialised`, `WakeupsKept`, `CountsExact` and `DeletionsFinal`. None of the properties is inductive alone:

- files of pinned versions stay because what the vacuum removes was deleted at an
  epoch that no pin is below (`DoomedOK`), which needs `RefCntExact`: `find_vacuum`
  looks at reference counts, not at pins;
- a snapshot in the making must not contain what is being removed, hence the
  conjuncts on `pending` in `CommitsOK`, `LiveOK` and `DoomedOK`;
- a new RowSet's directory is nobody else's because ids only grow (`IdsUsed`,
  `BuiltFresh`);
- the base of a commit is current because only the holder of the manifest lock
  changes the epoch (`CommitsOK`);
- no notification is lost because a deletion becomes applicable only when a last pin
  of an old epoch is dropped, and the committing transaction itself holds a pin of an
  epoch older than the one it publishes.

There is one lemma per action (`PinInv`, `CommitApplyInv`, `UnpinInv`, ...), each with
one step per conjunct.

**SecondaryStorageProofs** proves `EngineUsesVersionManager`, that every step of the engine is a step of `VMNext` or
leaves the version manager alone, and with it `EngineFilesExist`. Its invariant `SInv`
adds what the engine contributes: row handlers point into RowSets, the compactor holds
RowSets only of the table it works on, a scan has its pin.

**SecondaryStorageRowTheorems** proves `RowsShownOnce` (`NoDuplicateRow`) and
`DropsComplete` (`Reopenable`), with the lemmas of **SecondaryStorageRowProofs** (what
INSERT and the merge write) and **SecondaryStorageInsertProofs** (the steps of an INSERT).
The inductive invariant `RInv` says which rows every RowSet holds, before and after it is
committed:

- `InsertOK`: an INSERT's RowSets hold exactly the rows it has appended so far, and no
  other RowSet holds any of its rows until it commits;
- `MergeOK`: a compaction's output holds exactly the rows of its inputs that its
  snapshot shows. That `Merged` lists each of them once is `InOrderRows`: the rank of a
  handler is a bijection from a finite set of handlers to its size, by the pigeonhole
  theorem of the library;
- `DistinctOK`: no row is twice in the current snapshot, in the one that a commit is
  about to publish, or in both. This is not inductive alone, because a compaction
  deletes what it found in an old snapshot: the rows of the RowSets of the tables that
  the round has still to compact (`Open`) must be distinct over the round's snapshot,
  the current one and the next one together (`Reach`). An input that another commit
  has already removed is therefore replaced without harm, and what is left of the table
  shares no row with the output;
- `ReopenOK`: only an INSERT or a compaction publishes RowSets that were not live before,
  and only a DELETE such DVs; what a DROP TABLE is about to publish has no RowSet of its
  table that its own snapshot holds, and no DV of such a RowSet (`DropApplied`), although
  the snapshot it builds on may be a newer one;
- `DvIdsUsed`, `BuildersOK`, `RoundOK`: ids of DVs are handed out once, who may have
  uncommitted RowSets, and when the compactor has a pin, RowSets and a table.

A published snapshot's RowSets keep their rows (`ContentsFrame`) because only a RowSet
that is in no snapshot and no commit (`Fresh`) is ever written.

**SecondaryStorageRefinement** proves `EngineImplementsTable`, `Apart /\ SSpec =>
ImplementsTable`: the engine implements `TableSpec`. `Apart` says that no workload has
both the compactor and a DELETE or DROP TABLE; INSERTs and SELECTs run beside everything.
It is needed: `lost_delete` shows a DELETE that loses its deletes to a compaction, and a
DROP TABLE, which takes no lock, misses the rows that a compaction writes anew after the
DROP TABLE has pinned its snapshot. The workloads of the run `isolation` satisfy it.

**SecondaryStorageTableProofs** proves the invariant `TInv` of such workloads
(`TableInvariance`), from `RInv` and the lemmas of **SecondaryStorageFactProofs** on what
each kind of changeset makes of the rows a snapshot shows (`FactsAdd`, `FactsHide`,
`FactsDrop`, `FactsMerge`):

- `CommitExact`: between the two halves of a commit, the prepared snapshot shows the
  current rows with exactly the client's writes applied. This is what the second half
  needs to be a `Commit` of `TableSpec`; that it can be true of a changeset computed from
  an old snapshot is the work of the other clauses;
- `HandlersOK` and `DvsOK`: row handlers and DVs point into RowSets that have been
  published, whose rows never change, and the DVs of a DELETE hide what its handlers
  point to;
- `GrowOK`: a RowSet keeps its DVs as long as it is live, so a row of a dropped RowSet
  that the snapshot of the DROP TABLE hides is hidden in the current one too: with the
  RowSets go only rows that the statement has seen;
- `Alone`, without the compactor: a row is in one RowSet only among all that were ever
  published, so hiding it there, or dropping the RowSet, removes it;
- `Undisturbed`, without DELETE and DROP TABLE: there are no DVs, and what a round of the
  compactor found of the tables it has still to compact is live until the round replaces
  it;
- `PointsOK`: a commit in progress is at its await, a statement has its pin from its
  start to its end.

The steps then map one by one: `pin` is `Begin`, `append_inner`, the drained scan of a
DELETE and the changeset of a DROP TABLE are `Write`, the return of the manifest append is
`Commit` or `Discard`, a DELETE that fails before its commit is `Discard`, the drop of the
pin is `End`, and all others, the vacuum's included, are stutters.

Only model-checked: the liveness properties and everything about fairness (out of the
prover's reach), the refinement of `TableSpec` by `MemoryStorage`, and all of `Recovery`, `Session`, the
read and write path, `MemoryStorage`, `Pipeline`, `Executors` and `Optimizer`. `Session`,
`Block`, `Column`, `ColumnIterator`, `TableScan`, `Pipeline`, `Expressions` and
`Optimizer` use recursive operators, about which TLAPS cannot reason. The replay of the
manifest in `Recovery` and the chunks of `MemoryStorage` are folds over sequences: what
they compute for a log or a table of any length is an induction over data.

## 5. Findings

`lost_delete` is the disagreement that has a run of its own. The others met while
modelling are behaviours of the code that passing properties describe as exceptions;
the property that does so is given with each.

Storage:

- An INSERT or a compaction that a DROP TABLE overtakes commits a RowSet whose table is
  gone, and the database does not open again (`manifest.rs:288`; `Reopenable`,
  `LogReplays`). A DELETE does the same with a DV.
- DELETE, compaction, DROP TABLE, one after the other and with no crash: the DV of the
  compacted RowSet stays in the manifest (`compactor.rs:178`), DROP TABLE deletes DVs of
  live RowSets only (`manifest.rs:290`), and bootstrap unwraps the missing table
  (`storage.rs:161`; `RestartRestores`, `CrashAtomic`, `Reopenable`).
- A record cut by a crash makes replay fail, though its group has no End
  (`manifest.rs:141`; `CrashAtomic`).
- DVs of compacted RowSets stay in all later snapshots, and the id of such a RowSet may
  be handed out again after two restarts: the old DV hides rows of the new RowSet
  (`storage.rs:88`; `NewFilesAreNew`).
- A DV file that a crash left behind makes the DELETE that gets its id fail
  (`transaction.rs:151`; `NewFilesAreNew`).
- CREATE TABLE is logged before it is applied, views and indexes take unlogged ids: ids
  after a restart may differ (`manifest.rs:245`; `LogReplays`).
- A range scan misses rows equal to its start key at the end of the block before
  (`disk_rowset.rs:157`; `ConcatCorrect`).
- Nobody asks for the merge of RowSets, although `order.rs:19` says that a "scanned table
  is ordered by primary key in secondary storage": with RowSets that overlap in their keys
  ORDER BY on the key is not obeyed, a merge join loses matches and a sorted aggregation
  splits groups (`transaction.rs:261`; `OrderKept`, `PlanPreserved`, `JoinsRight`;
  `MergeCorrect` shows what a merge would give).
- A block enters the cache before its checksum is verified, so only the scan that loads it
  reports corruption (`column.rs:160`); a block of zeros names no checksum and passes
  (`column.rs:205`; `CorruptionReported`).
- `replace_bitmap` would lose the NULLs of a batch over two blocks
  (`nullable_block_iterator.rs:65`); `BatchWithinBlock` shows that no scan asks for one.
- A NULL in a VECTOR column panics (`vector_block_builder.rs:52`), and the longest runs
  do not decode (`rle_block_builder.rs:79`; `ReadsBack`). A dictionary block made by a
  column builder has one row.

Sessions and plans:

- Two DROPs of one table: the second executor panics (`drop.rs:20`; `DropReported`); two
  DROP VIEWs poison the catalog's lock (`schema.rs:108`; `PanicNeedsDrop`).
- Statistics of all tables are gathered for every statement, so that a concurrent CREATE
  or DROP fails unrelated queries (`db.rs:146`; `StatFailsOnlyInDdl`).
- A panicking task looks like the end of its stream, and an INSERT above it commits a
  part of its rows (`executor/mod.rs:538`; `CommitsWhole`). Two scans of a view share
  one executor: the second may miss chunks, or both wait for ever (`executor/mod.rs:115`;
  `Delivered`, `EveryTaskStops`).

Executors and optimizer:

- Keyed joins match NULL with NULL (`hash_join.rs:62`), conditions are read by their raw
  datum (`ops.rs:419`), nested-loop right and full joins are `todo!()` (`JoinsRight`,
  `PanicsExactly`).
- Grouped SUM starts over after a NULL (`evaluator.rs:264`), the j-th window function
  reads column j (`evaluator.rs:205`), ungrouped SUM adds what lies under a NULL
  (`AggregatesRight`); an empty chunk below a window panics (`window.rs:30`).
- A condition of type NULL panics in filters and joins (`filter.rs:19`,
  `nested_loop_join.rs:48`, `hash_join.rs:185`), and ORDER BY with OFFSET and no LIMIT
  reserves a heap of `usize::MAX / 2` rows (`top_n.rs:29`; `PanicsExactly`).
- CASE takes the validity of the value it does not select (`ops.rs:843`), OR trusts the
  raw datum (`ops.rs:194`; `KernelsRight`).
- Rules that are wrong for NULLs (`expr.rs:41` and others in `NullRules`), for overflow
  (`expr.rs:55`), or for ordinary data (`expr.rs:39`, `plan.rs:49`, the conditions of
  outer and anti joins at `plan.rs:79`, the
  FIXMEs at `plan.rs:226`, `order.rs:50`; `WrongRules`) are named in the properties.

## 6. Not modelled, and why

- Several tables in one `SecondaryStorage` run: the constants allow them, the state
  space does not.
- Parser and e-graph search: libraries. The cost function: it selects among plans that
  are all checked.
- The binder beyond the look-up of names, the output of EXPLAIN and ANALYZE, the
  PostgreSQL protocol, the shell, the Python binding, logging and tracing: translation,
  input and output without state that a property is about.
- Dates, decimals, strings and their parsing and printing: values without a bearing on
  control. Numeric kernels are modelled for small integers and Booleans.
- CREATE FUNCTION, further schemas, system tables and the in-memory engine's indexes,
  which nothing reads.
- The byte layout of blocks and files, and object-safe wrappers.
- Data races: the code is safe Rust, locks are modelled as in the source.

## 7. Plan

1. Proofs: `LiveFilesExist` over a non-recursive form of the replay.
2. Two tables with one compactor round over both.
3. Two sessions in `Recovery`, joining it with `Session`.
