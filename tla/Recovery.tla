------------------------------ MODULE Recovery ------------------------------
(***************************************************************************)
(* Durability of the secondary storage engine: statements that change the  *)
(* catalog, the RowSets and the DVs, each in its steps around the manifest *)
(* append; crashes at every point, incomplete appends, and bootstrap with  *)
(* its clean-up and its rewrite of the manifest.                           *)
(*                                                                         *)
(* A DELETE here deletes all rows of one RowSet, so that a compaction      *)
(* keeps the RowSets without a DV.  Statements on the RowSets of one table *)
(* run one after the other: their interleavings are the subject of         *)
(* SecondaryStorage.                                                       *)
(***************************************************************************)
EXTENDS Manifest

CONSTANTS Proc,       \* sessions
          Name,       \* names of tables and views
          Workloads,  \* what may be run: a set of records of
                      \*   statements: the kinds of statements,
                      \*   faults: "torn", an append may stop inside a record,
                      \*     and "error", an append may fail and the process go on,
                      \*   and the bounds tids, rowsets and dvs on the ids handed out
          MaxFailures \* bound: crashes and failed appends

VARIABLES workload,   \* the one of Workloads that is run
          file,       \* manifest.json
          tmp,        \* manifest.tmp.json
          dirs,       \* RowSet directories
          dvfiles,    \* DV files
          state,      \* "down", "booting", "renaming", "up" or "broken"
          mem,        \* the running engine
          job,        \* session -> statement in progress
          garbage,    \* RowSets the vacuum has still to remove
          failures    \* crashes and failed appends so far

rvars == <<workload, file, tmp, dirs, dvfiles, state, mem, job, garbage, failures>>

Idle == [kind |-> "idle"]

IsIdle(p) == state = "up" /\ job[p] = Idle

\* Session p may start a statement on the RowSets of table t.
MayUse(p, t) ==
    /\ IsIdle(p)
    /\ t \in TableIds(mem)
    /\ \A q \in Proc : job[q].kind \in {"insert", "delete", "compact", "drop"} =>
                          job[q].table # t

Deleted(r) == \E v \in mem.dvs : v[1] = r

SetJob(p, j) == job' = [job EXCEPT ![p] = j]

RInit ==
    /\ workload \in Workloads
    /\ file = <<>>
    /\ tmp = <<>>
    /\ dirs = {}
    /\ dvfiles = {}
    /\ state = "down"
    /\ mem = EmptyEngine
    /\ job = [p \in Proc |-> Idle]
    /\ garbage = {}
    /\ failures = 0
-----------------------------------------------------------------------------
\* The process dies: what is in memory is lost.
Crash ==
    /\ state \in {"booting", "renaming", "up"}
    /\ failures < MaxFailures
    /\ failures' = failures + 1
    /\ state' = "down"
    /\ mem' = EmptyEngine
    /\ job' = [p \in Proc |-> Idle]
    /\ garbage' = {}

CrashAtRest == Crash /\ UNCHANGED <<file, tmp, dirs, dvfiles>>

RowsetsOf(t) == {r \in mem.rowsets : r[1] = t}

\* The DVs of the live RowSets of table t.
DvsOf(t) == {v \in mem.dvs : v[1] \in RowsetsOf(t)}

\* The changeset of a statement ...
Changeset(j) ==
    CASE j.kind = "create"  -> <<CreateTable(j.name)>>
      [] j.kind = "insert"  -> <<AddRowSet(j.rowset)>>
      [] j.kind = "delete"  -> <<AddDV(j.dv)>>
      [] j.kind = "compact" -> SetToSeq({AddRowSet(r) : r \in j.new}) \o
                                   SetToSeq({DeleteRowSet(r) : r \in j.old})
      [] j.kind = "drop"    ->
            LET order == SetToSeq(RowsetsOf(j.table))
                deletes(r) == <<DeleteRowSet(r)>> \o
                                  SetToSeq({DeleteDV(v) : v \in {u \in DvsOf(j.table) : u[1] = r}})
            IN  <<DropTable(j.table)>> \o FlattenSeq([i \in DOMAIN order |-> deletes(order[i])])

\* ... and the engine once the statement is done.
Outcome(j) ==
    CASE j.kind = "create"  -> AddTable(mem, j.name)
      [] j.kind = "insert"  -> [mem EXCEPT !.rowsets = @ \cup {j.rowset}]
      [] j.kind = "delete"  -> [mem EXCEPT !.dvs = @ \cup {j.dv}]
      [] j.kind = "compact" -> [mem EXCEPT !.rowsets = (@ \cup j.new) \ j.old]
      [] j.kind = "drop"    -> [mem EXCEPT !.rowsets = @ \ RowsetsOf(j.table),
                                           !.dvs = @ \ DvsOf(j.table)]
      [] OTHER              -> mem

\* commit_changes of session p's changeset.  The append succeeds, and a CREATE
\* TABLE goes on to the catalog; or the process crashes in the append; or the
\* append returns an error after a part of the buffer was written.
Persist(p) ==
    LET j == job[p]
    IN  /\ state = "up"
        /\ \/ /\ file' = file \o Group(Changeset(j))
              /\ IF j.kind = "create"
                 THEN SetJob(p, [j EXCEPT !.kind = "apply"]) /\ UNCHANGED mem
                 ELSE SetJob(p, Idle) /\ mem' = Outcome(j)
              /\ garbage' = garbage \cup (mem.rowsets \ mem'.rowsets)
              /\ UNCHANGED <<state, failures>>
           \/ /\ \E part \in PartialWrites(Changeset(j), "torn" \in workload.faults) :
                     file' = file \o part
              /\ Crash
           \/ /\ "error" \in workload.faults
              /\ failures < MaxFailures
              /\ failures' = failures + 1
              /\ \E part \in PartialWrites(Changeset(j), FALSE) : file' = file \o part
              /\ SetJob(p, Idle)
              /\ UNCHANGED <<state, mem, garbage>>
        /\ UNCHANGED <<tmp, dirs, dvfiles>>

Quiet == UNCHANGED <<file, tmp, dirs, dvfiles, state, garbage, failures>>
-----------------------------------------------------------------------------
\* CREATE TABLE: the binder finds no object of that name, ...
BindCreate(p, n) ==
    /\ "create" \in workload.statements
    /\ IsIdle(p)
    /\ n \notin Names(mem)
    /\ mem.next_tid + Cardinality({q \in Proc : job[q].kind \in {"create", "apply"}}) < workload.tids
    /\ SetJob(p, [kind |-> "create", name |-> n])
    /\ UNCHANGED mem /\ Quiet

\* ... create_table_inner persists the entry first ...
PersistCreate(p) == job[p].kind = "create" /\ Persist(p)

\* ... and then applies it to the catalog, which fails on a duplicate name.
ApplyCreate(p) ==
    /\ state = "up"
    /\ job[p].kind = "apply"
    /\ mem' = IF job[p].name \in Names(mem) THEN mem ELSE AddTable(mem, job[p].name)
    /\ SetJob(p, Idle)
    /\ Quiet

\* CREATE VIEW and CREATE INDEX change the catalog only.
CreateView(p, n) ==
    /\ "view" \in workload.statements
    /\ IsIdle(p)
    /\ n \notin Names(mem)
    /\ mem.next_tid < workload.tids
    /\ mem' = [mem EXCEPT !.views = @ \cup {<<mem.next_tid, n>>}, !.next_tid = @ + 1]
    /\ UNCHANGED job /\ Quiet

CreateIndex(p, t) ==
    /\ "index" \in workload.statements
    /\ IsIdle(p)
    /\ t \in TableIds(mem) \ mem.indexes
    /\ mem.next_tid < workload.tids
    /\ mem' = [mem EXCEPT !.indexes = @ \cup {t}, !.next_tid = @ + 1]
    /\ UNCHANGED job /\ Quiet

\* Mutant of ApplyDrop: the directories are given to the vacuum at once.
ApplyDropEager(p, t) ==
    /\ "drop" \in workload.statements
    /\ MayUse(p, t)
    /\ mem' = RemoveTable(mem, t)
    /\ SetJob(p, [kind |-> "drop", table |-> t])
    /\ garbage' = garbage \cup RowsetsOf(t)
    /\ UNCHANGED <<file, tmp, dirs, dvfiles, state, failures>>

\* DROP TABLE: drop_table_inner changes the catalog first ...
ApplyDrop(p, t) ==
    /\ "drop" \in workload.statements
    /\ MayUse(p, t)
    /\ mem' = RemoveTable(mem, t)
    /\ SetJob(p, [kind |-> "drop", table |-> t])
    /\ Quiet

\* ... and then persists the drop with the deletion of the table's live RowSets
\* and of their DVs.
PersistDrop(p) == job[p].kind = "drop" /\ Persist(p)

\* INSERT: a RowSet is written under a new id ...
WriteRowset(p, t) ==
    /\ "insert" \in workload.statements
    /\ MayUse(p, t)
    /\ mem.next_id < workload.rowsets
    /\ mem' = [mem EXCEPT !.next_id = @ + 1]
    /\ dirs' = dirs \cup {<<t, mem.next_id>>}
    /\ SetJob(p, [kind |-> "insert", table |-> t, rowset |-> <<t, mem.next_id>>])
    /\ UNCHANGED <<file, tmp, dvfiles, state, garbage, failures>>

\* ... and committed.
PersistInsert(p) == job[p].kind = "insert" /\ Persist(p)

\* The DV that a DELETE of the rows of RowSet r writes.
DvOf(r) == <<r, mem.next_dv>>

\* DELETE of the rows of RowSet r: the DV file must not exist (create_new).
WriteDv(p, r) ==
    /\ "delete" \in workload.statements
    /\ MayUse(p, r[1])
    /\ r \in mem.rowsets
    /\ ~ Deleted(r)
    /\ mem.next_dv < workload.dvs
    /\ mem' = [mem EXCEPT !.next_dv = @ + 1]
    /\ dvfiles' = dvfiles \cup {DvOf(r)}
    /\ SetJob(p, IF DvOf(r) \in dvfiles THEN Idle
                 ELSE [kind |-> "delete", table |-> r[1], dv |-> DvOf(r)])
    /\ UNCHANGED <<file, tmp, dirs, state, garbage, failures>>

PersistDelete(p) == job[p].kind = "delete" /\ Persist(p)

\* compact_table on all RowSets of table t: the rows that are left are written
\* to a new RowSet, if there are any ...
WriteMerged(p, t) ==
    LET new == IF \A r \in RowsetsOf(t) : Deleted(r) THEN {} ELSE {<<t, mem.next_id>>}
    IN  /\ "compact" \in workload.statements
        /\ MayUse(p, t)
        /\ Cardinality(RowsetsOf(t)) > 1
        /\ mem.next_id < workload.rowsets
        /\ mem' = [mem EXCEPT !.next_id = @ + Cardinality(new)]
        /\ dirs' = dirs \cup new
        /\ SetJob(p, [kind |-> "compact", table |-> t, new |-> new, old |-> RowsetsOf(t)])
        /\ UNCHANGED <<file, tmp, dvfiles, state, garbage, failures>>

\* ... and replaces them; their DVs stay.
PersistCompact(p) == job[p].kind = "compact" /\ Persist(p)

\* do_vacuum removes one directory.
RemoveDir(r) ==
    /\ state = "up"
    /\ r \in garbage
    /\ garbage' = garbage \ {r}
    /\ dirs' = dirs \ {r}
    /\ UNCHANGED <<file, tmp, dvfiles, state, mem, job, failures>>
-----------------------------------------------------------------------------
\* bootstrap: replay, removal of the directories the manifest does not name,
\* and opening of the RowSets and DVs it names.
Bootstrap ==
    LET booted == Recover(file)
    IN  /\ state = "down"
        /\ IF \/ booted.error
              \/ ~ (booted.mem.rowsets \subseteq dirs)
              \/ ~ (booted.mem.dvs \subseteq dvfiles)
           THEN state' = "broken" /\ UNCHANGED <<mem, dirs>>
           ELSE /\ state' = "booting"
                /\ mem' = booted.mem
                /\ dirs' = dirs \cap booted.mem.rowsets
        /\ UNCHANGED <<file, tmp, dvfiles, job, garbage, failures>>

\* rewrite_changes: the compacted manifest is written to a temporary file ...
WriteTmp ==
    /\ state = "booting"
    /\ tmp' = Group(Compacted(Recover(file)))
    /\ state' = "renaming"
    /\ UNCHANGED <<file, dirs, dvfiles, mem, job, garbage, failures>>

\* ... which then replaces the manifest.
Rename ==
    /\ state = "renaming"
    /\ file' = tmp
    /\ tmp' = <<>>
    /\ state' = "up"
    /\ UNCHANGED <<dirs, dvfiles, mem, job, garbage, failures>>
-----------------------------------------------------------------------------
Session(p) ==
    \/ \E n \in Name : BindCreate(p, n) \/ CreateView(p, n)
    \/ \E t \in TableIds(mem) : \/ CreateIndex(p, t) \/ ApplyDrop(p, t)
                                \/ WriteRowset(p, t) \/ WriteMerged(p, t)
    \/ \E r \in mem.rowsets : WriteDv(p, r)
    \/ PersistCreate(p) \/ ApplyCreate(p) \/ PersistDrop(p) \/ PersistInsert(p)
    \/ PersistDelete(p) \/ PersistCompact(p)

RNext ==
    /\ \/ \E p \in Proc : Session(p)
       \/ \E r \in garbage : RemoveDir(r)
       \/ Bootstrap \/ WriteTmp \/ Rename \/ CrashAtRest
    /\ UNCHANGED workload

RSpec == RInit /\ [][RNext]_rvars
-----------------------------------------------------------------------------
Rowset == Nat \X Nat

Engine ==
    [tables : SUBSET (Nat \X Name), views : SUBSET (Nat \X Name), indexes : SUBSET Nat,
     next_tid : Nat, rowsets : SUBSET Rowset, dvs : SUBSET (Rowset \X Nat),
     next_id : Nat, next_dv : Nat]

\* Types; every id in use is below its counter.
RTypeOK ==
    /\ dirs \subseteq Rowset
    /\ dvfiles \subseteq Rowset \X Nat
    /\ state \in {"down", "booting", "renaming", "up", "broken"}
    /\ mem \in Engine
    /\ garbage \subseteq Rowset
    /\ \A t \in mem.tables \cup mem.views : t[1] < mem.next_tid
    /\ \A r \in mem.rowsets : r[2] < mem.next_id
    /\ \A v \in mem.dvs : v[2] < mem.next_dv

Content(m) == <<m.tables, m.rowsets, m.dvs>>

\* A DV is left of a table that is gone: bootstrap unwraps its table (storage.rs).
Orphaned(m) == \E v \in m.dvs : v[1][1] \notin TableIds(m)

\* Views and indexes, which are not persisted, and failing appends apart: ...
Plain == "error" \notin workload.faults /\ workload.statements \cap {"view", "index"} = {}

\* ... between statements, a restart would bring back exactly the running engine: the
\* same tables under the same ids, the same RowSets and the same DVs.  It fails exactly
\* when a DV is left of a dropped table, which takes a compaction that left the DV of a
\* RowSet it replaced: DROP TABLE then no longer finds it; ...
RestartRestores ==
    (Plain /\ state = "up" /\ \A p \in Proc : job[p].kind \notin {"apply", "drop"}) =>
        LET booted == Recover(file)
        IN  /\ Content(booted.mem) = Content(mem)
            /\ booted.error <=> Orphaned(mem)
            /\ Orphaned(mem) => {"delete", "compact", "drop"} \subseteq workload.statements

\* ... and a statement that a crash interrupts has happened entirely or not at all:
\* the next bootstrap succeeds, unless the crash was inside a record (which
\* Manifest::replay reports as an error, though the group has no End) or a DV of a
\* dropped table is left.  Bootstrap, the rewrite of the manifest included, and a crash
\* during it change nothing of what the manifest says (rewrite_changes, reopen).
CrashAtomic ==
    [][LET old == Recover(file)
           new == Recover(file')
       IN  /\ Plain /\ state = "up" /\ state' = "down" =>
                IF Torn \in Range(file') THEN new.error
                ELSE \E m \in {old.mem} \cup {Outcome(job[p]) : p \in Proc} :
                        Content(new.mem) = Content(m) /\ (new.error <=> Orphaned(m))
           /\ state # "up" /\ file' # file =>
                new.error = old.error /\ Content(new.mem) = Content(old.mem)]_rvars

\* Every RowSet and DV that a replay would open has its files.
LiveFilesExist ==
    /\ RTypeOK
    /\ LET booted == Recover(file)
       IN  ~ booted.error => /\ booted.mem.rowsets \subseteq dirs
                             /\ booted.mem.dvs \subseteq dvfiles

\* Ids recovered from the manifest, new files are new, whatever crashes left on disk:
\* INSERT and compaction write to directories that did not exist (create_dir); a DELETE
\* finds its DV file there already (create_new, and fails) only after a failure, and
\* never one that the manifest names.  A RowSet that an old DV hides from its first day
\* has the id of one that a compaction had replaced, the manifest keeping the DV, and
\* the bootstrap before the last had left out the record of the RowSet (Compacted): no
\* id is handed out twice that the manifest still names.
NewFilesAreNew ==
    [][/\ \A p \in Proc : job'[p] # job[p] =>
            /\ job'[p].kind = "insert" => job'[p].rowset \notin dirs
            /\ job'[p].kind = "compact" => job'[p].new \cap dirs = {}
       /\ \A p \in Proc : \A r \in mem.rowsets :
            (WriteDv(p, r) /\ DvOf(r) \in dvfiles) =>
                failures > 0 /\ AddDV(DvOf(r)) \notin Range(file)
       /\ state = "up" /\ state' = "up" =>
            \A r \in mem'.rowsets \ mem.rowsets : Deleted(r) =>
                /\ AddRowSet(r) \notin Range(file)
                /\ failures > 1 /\ "compact" \in workload.statements]_rvars
=============================================================================
