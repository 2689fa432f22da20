--------------------------- MODULE VersionManager ---------------------------
(***************************************************************************)
(* The version manager of the secondary storage engine                     *)
(* (src/storage/secondary/version_manager.rs): numbered snapshots of the   *)
(* set of RowSets and delete vectors (DVs), pins on them, the two-phase    *)
(* commit of a changeset around the manifest append, and the vacuum task   *)
(* that removes RowSet directories no pinned snapshot can reach.           *)
(*                                                                         *)
(* A client is one user of the version manager: a transaction, one round   *)
(* of the compactor or one DROP TABLE.  What clients commit is left as     *)
(* free here as the interface allows; SecondaryStorage says what each kind *)
(* of client really does.                                                  *)
(***************************************************************************)
EXTENDS Integers, FiniteSets

CONSTANTS Client,      \* users of the version manager
          NoClient,    \* the manifest lock is free
          Table,       \* table ids
          Recovered,   \* RowSets opened by bootstrap, <<table, rowset_id>>
          FirstRowset, \* next RowSet id after bootstrap
          MaxRowset,   \* bound: RowSet ids are 0 .. MaxRowset - 1
          MaxDv,       \* bound: DV ids are 0 .. MaxDv - 1
          MaxEpoch     \* bound: last epoch number

ASSUME ClientAssumption == IsFiniteSet(Client) /\ NoClient \notin Client

ASSUME BoundAssumption == MaxRowset \in Nat /\ MaxDv \in Nat /\ MaxEpoch \in Nat \ {0}

Rowset == Table \X (0 .. MaxRowset - 1)

Dv == Rowset \X (0 .. MaxDv - 1)

Epoch == 1 .. MaxEpoch

Snapshot == [rowsets : SUBSET Rowset, dvs : SUBSET Dv]

ASSUME RecoveredAssumption == Recovered \in SUBSET Rowset

\* Bootstrap raises the counter above every RowSet id that it finds.
ASSUME FirstAssumption ==
    FirstRowset \in 0 .. MaxRowset /\ \A r \in Recovered : r[2] < FirstRowset

VARIABLES epoch,          \* current epoch
          status,         \* epoch -> snapshot; meaningful for 1 .. epoch
          rowsets,        \* pool of opened RowSets
          dvs,            \* pool of opened DVs
          ref_cnt,        \* epoch -> number of pins; 0 stands for no entry
          deletion_to_apply, \* <<epoch, rowset>> still to be vacuumed
          manifest_lock,  \* holder of the async manifest mutex
          pending,        \* client -> the commit it has applied but not persisted
          pin,            \* client -> pinned epoch, 0 for none
          held,           \* client -> RowSets it holds an Arc of
          built,          \* client -> RowSets it has created and not committed
          built_dv,       \* client -> DVs it has written and not committed
          notified,       \* messages in the vacuum channel
          vacuum,         \* state of the vacuum task
          removing,       \* <<epoch, rowset>> handed to do_vacuum's loop
          disk,           \* RowSet directories
          next_id,        \* next RowSet id
          next_dv         \* next DV id

inner == <<epoch, status, rowsets, dvs, ref_cnt, deletion_to_apply>>

clients == <<pin, held, built, built_dv, next_id, next_dv>>

vacuuming == <<notified, vacuum, removing>>

vmvars == <<inner, manifest_lock, pending, clients, vacuuming, disk>>

NoCommit == [base |-> 0, rowsets |-> {}, dvs |-> {}, deleted |-> {}]

Commit == [base : 0 .. MaxEpoch, rowsets : SUBSET Rowset, dvs : SUBSET Dv,
           deleted : SUBSET Rowset]

EmptySnapshot == [rowsets |-> {}, dvs |-> {}]

\* Types of the version manager's state.
VMTypeOK ==
    /\ epoch \in Epoch
    /\ status \in [Epoch -> Snapshot]
    /\ rowsets \in SUBSET Rowset
    /\ dvs \in SUBSET Dv
    /\ ref_cnt \in [Epoch -> Nat]
    /\ deletion_to_apply \in SUBSET (Epoch \X Rowset)
    /\ manifest_lock \in Client \cup {NoClient}
    /\ pending \in [Client -> Commit]
    /\ pin \in [Client -> 0 .. MaxEpoch]
    /\ held \in [Client -> SUBSET Rowset]
    /\ built \in [Client -> SUBSET Rowset]
    /\ built_dv \in [Client -> SUBSET Dv]
    /\ notified \in Nat
    /\ vacuum \in {"running", "failed", "panicked", "stopped"}
    /\ removing \in SUBSET (Epoch \X Rowset)
    /\ disk \in SUBSET Rowset
    /\ next_id \in 0 .. MaxRowset
    /\ next_dv \in 0 .. MaxDv
-----------------------------------------------------------------------------
\* Snapshot::get_rowsets_of: the RowSets of table t in snapshot s.
RowsetsOf(s, t) == {r \in s.rowsets : r[1] = t}

\* Snapshot::get_dvs_of: the DVs of RowSet r in snapshot s.
DvsOf(s, r) == {d \in s.dvs : d[1] = r}

Pinned(c) == pin[c] # 0

SnapshotOf(c) == status[pin[c]]

\* Snapshot::delete_rowset unwraps the table's entry, and removes the entry
\* with its last RowSet.  `present' are the table's RowSets when the deletions
\* begin and `last' the one deleted last: the unwrap meets no entry exactly
\* when everything present is deleted and something absent is deleted after it.
DeletePanics(present, deleted, last) ==
    /\ deleted # {}
    /\ present \subseteq deleted
    /\ last \notin present
-----------------------------------------------------------------------------
\* The first commit of bootstrap has produced epoch 1.
VMInit ==
    /\ epoch = 1
    /\ status = [e \in Epoch |-> IF e = 1 THEN [rowsets |-> Recovered, dvs |-> {}]
                                          ELSE EmptySnapshot]
    /\ rowsets = Recovered
    /\ dvs = {}
    /\ ref_cnt = [e \in Epoch |-> 0]
    /\ deletion_to_apply = {}
    /\ manifest_lock = NoClient
    /\ pending = [c \in Client |-> NoCommit]
    /\ pin = [c \in Client |-> 0]
    /\ held = [c \in Client |-> {}]
    /\ built = [c \in Client |-> {}]
    /\ built_dv = [c \in Client |-> {}]
    /\ notified = 0
    /\ vacuum = "running"
    /\ removing = {}
    /\ disk = Recovered
    /\ next_id = FirstRowset
    /\ next_dv = 0

\* ref_cnt once a pin of epoch e has been added, or dropped.
Registered(e) == [ref_cnt EXCEPT ![e] = @ + 1]

Released(e) == [ref_cnt EXCEPT ![e] = @ - 1]

\* VersionManager::pin.
Pin(c) ==
    /\ pin[c] = 0
    /\ ref_cnt' = Registered(epoch)
    /\ pin' = [pin EXCEPT ![c] = epoch]
    /\ UNCHANGED <<epoch, status, rowsets, dvs, deletion_to_apply, manifest_lock,
                   pending, held, built, built_dv, next_id, next_dv, vacuuming, disk>>

\* VersionManager::get_rowset, called for each RowSet of `wanted', a part of the
\* client's snapshot.  The snapshot is immutable and pinned, so that a loop of
\* calls is one step.
GetRowsets(c, wanted) ==
    /\ Pinned(c)
    /\ wanted \subseteq SnapshotOf(c).rowsets \cap rowsets
    /\ held' = [held EXCEPT ![c] = @ \cup wanted]
    /\ UNCHANGED <<inner, manifest_lock, pending, pin, built, built_dv, next_id,
                   next_dv, vacuuming, disk>>

\* The client drops the Arcs it holds, and what it has built and not committed.
DropRowsets(c) ==
    /\ held[c] # {}
    /\ held' = [held EXCEPT ![c] = {}]
    /\ built' = [built EXCEPT ![c] = {}]
    /\ built_dv' = [built_dv EXCEPT ![c] = {}]
    /\ UNCHANGED <<inner, manifest_lock, pending, pin, next_id, next_dv, vacuuming, disk>>

\* generate_rowset_id and creation of the directory of a RowSet of table t.
BuildRowset(c, t) ==
    /\ Pinned(c)
    /\ next_id < MaxRowset
    /\ next_id' = next_id + 1
    /\ built' = [built EXCEPT ![c] = @ \cup {<<t, next_id>>}]
    /\ disk' = disk \cup {<<t, next_id>>}
    /\ UNCHANGED <<inner, manifest_lock, pending, pin, held, built_dv, next_dv,
                   vacuuming>>

\* generate_dv_id and the write of a DV file of RowSet r.
BuildDv(c, r) ==
    /\ Pinned(c)
    /\ next_dv < MaxDv
    /\ next_dv' = next_dv + 1
    /\ built_dv' = [built_dv EXCEPT ![c] = @ \cup {<<r, next_dv>>}]
    /\ UNCHANGED <<inner, manifest_lock, pending, pin, held, built, next_id,
                   vacuuming, disk>>

\* No commit is in progress.  Mutant: the manifest lock is not waited for.
ManifestIgnored == TRUE

ManifestFree == manifest_lock = NoClient

\* Mutants of Applied: the changeset is applied to the snapshot the client has
\* pinned; its deletions are not applied.
AppliedToPinned(c, deleted, old_dvs) ==
    [base    |-> epoch,
     rowsets |-> (SnapshotOf(c).rowsets \cup built[c]) \ deleted,
     dvs     |-> (SnapshotOf(c).dvs \cup built_dv[c]) \ old_dvs,
     deleted |-> deleted]

AppliedWithoutDeletions(c, deleted, old_dvs) ==
    [base    |-> epoch,
     rowsets |-> status[epoch].rowsets \cup built[c],
     dvs     |-> status[epoch].dvs \cup built_dv[c],
     deleted |-> deleted]

\* What the changeset makes of the current snapshot.
Applied(c, deleted, old_dvs) ==
    [base    |-> epoch,
     rowsets |-> (status[epoch].rowsets \cup built[c]) \ deleted,
     dvs     |-> (status[epoch].dvs \cup built_dv[c]) \ old_dvs,
     deleted |-> deleted]

\* First half of commit_changes, up to the release of the inner lock: the
\* changeset (add built[c] and built_dv[c], delete `deleted' and `old_dvs') of
\* table t is applied to a clone of the current snapshot, and the new objects
\* enter the pools.
CommitApply(c, t, deleted, old_dvs, last) ==
    /\ Pinned(c)
    /\ epoch < MaxEpoch
    /\ ManifestFree
    /\ ~ DeletePanics(RowsetsOf(status[epoch], t) \cup built[c], deleted, last)
    /\ manifest_lock' = c
    /\ rowsets' = rowsets \cup built[c]
    /\ dvs' = dvs \cup built_dv[c]
    /\ pending' = [pending EXCEPT ![c] = Applied(c, deleted, old_dvs)]
    /\ built' = [built EXCEPT ![c] = {}]
    /\ built_dv' = [built_dv EXCEPT ![c] = {}]
    /\ UNCHANGED <<epoch, status, ref_cnt, deletion_to_apply, pin, held, next_id,
                   next_dv, vacuuming, disk>>

\* The same with delete_rowset's unwrap failing: the panic unwinds out of
\* commit_changes, which releases both locks; the new objects stay in the pools.
CommitPanic(c, t, deleted, last) ==
    /\ Pinned(c)
    /\ ManifestFree
    /\ DeletePanics(RowsetsOf(status[epoch], t) \cup built[c], deleted, last)
    /\ rowsets' = rowsets \cup built[c]
    /\ dvs' = dvs \cup built_dv[c]
    /\ built' = [built EXCEPT ![c] = {}]
    /\ built_dv' = [built_dv EXCEPT ![c] = {}]
    /\ UNCHANGED <<epoch, status, ref_cnt, deletion_to_apply, manifest_lock, pending,
                   pin, held, next_id, next_dv, vacuuming, disk>>

\* Second half of commit_changes after a successful append: the epoch advances
\* and the new snapshot becomes visible.
CommitFinish(c) ==
    /\ manifest_lock = c
    /\ epoch < MaxEpoch
    /\ epoch' = epoch + 1
    /\ status' = [status EXCEPT ![epoch + 1] = [rowsets |-> pending[c].rowsets,
                                                dvs     |-> pending[c].dvs]]
    /\ deletion_to_apply' = deletion_to_apply \cup
                                ({epoch + 1} \X pending[c].deleted)
    /\ manifest_lock' = NoClient
    /\ pending' = [pending EXCEPT ![c] = NoCommit]
    /\ UNCHANGED <<rowsets, dvs, ref_cnt, clients, vacuuming, disk>>

\* manifest.append fails: commit_changes returns the error after the pools have
\* been changed.
CommitFail(c) ==
    /\ manifest_lock = c
    /\ manifest_lock' = NoClient
    /\ pending' = [pending EXCEPT ![c] = NoCommit]
    /\ UNCHANGED <<inner, clients, vacuuming, disk>>

\* The vacuum task is notified when the pin that is dropped was the last one of an
\* epoch that is not current.  Mutant: of the current epoch.
NotifiesOfCurrent(e) == ref_cnt[e] = 1 /\ e = epoch

Notifies(e) == ref_cnt[e] = 1 /\ e # epoch

\* Drop for Version.  The last pin of an epoch that is no longer current
\* notifies the vacuum task.  Once that task has ended its receiver is gone:
\* the send's unwrap panics, after the reference count was updated.
Unpin(c) ==
    /\ Pinned(c)
    /\ pending[c] = NoCommit
    /\ held[c] = {}
    /\ ref_cnt' = Released(pin[c])
    /\ pin' = [pin EXCEPT ![c] = 0]
    /\ built' = [built EXCEPT ![c] = {}]
    /\ built_dv' = [built_dv EXCEPT ![c] = {}]
    /\ notified' = IF Notifies(pin[c]) /\ vacuum = "running" THEN notified + 1 ELSE notified
    /\ UNCHANGED <<epoch, status, rowsets, dvs, deletion_to_apply, manifest_lock,
                   pending, held, next_id, next_dv, vacuum, removing, disk>>
-----------------------------------------------------------------------------
\* Mutant of CanApply: pins are ignored.
CanApplyPinned(e) == e <= epoch

\* find_vacuum's can_apply: deletions up to the oldest pinned epoch, or up to
\* the current epoch when nothing is pinned.
CanApply(e) == e <= epoch /\ \A p \in Epoch : ref_cnt[p] > 0 => e <= p

\* A message received by run: find_vacuum takes the applicable deletions and
\* removes their RowSets from the pool; it panics on one that is still held (the
\* state after a panic, which VacuumNeverPanics excludes, is not modelled further).
FindVacuum ==
    LET found == {x \in deletion_to_apply : CanApply(x[1])}
        gone  == {x[2] : x \in found}
        used  == \E c \in Client : held[c] \cap gone \cap rowsets # {}
    IN  /\ vacuum = "running"
        /\ removing = {}
        /\ notified > 0
        /\ notified' = notified - 1
        /\ deletion_to_apply' = deletion_to_apply \ found
        /\ rowsets' = rowsets \ gone
        /\ vacuum' = IF used THEN "panicked" ELSE "running"
        /\ removing' = IF used THEN {} ELSE found
        /\ UNCHANGED <<epoch, status, dvs, ref_cnt, manifest_lock, pending, clients,
                       disk>>

\* One iteration of do_vacuum: remove_dir_all of one directory.  A directory
\* that is already gone is an error, which ends the task.
RemoveDir(x) ==
    /\ vacuum = "running"
    /\ x \in removing
    /\ IF x[2] \in disk
       THEN /\ disk' = disk \ {x[2]}
            /\ removing' = removing \ {x}
            /\ UNCHANGED vacuum
       ELSE /\ vacuum' = "failed"
            /\ removing' = {}
            /\ UNCHANGED disk
    /\ UNCHANGED <<inner, manifest_lock, pending, clients, notified>>

\* The stop message of shutdown is received instead of a notification.
StopVacuum ==
    /\ vacuum = "running"
    /\ removing = {}
    /\ vacuum' = "stopped"
    /\ UNCHANGED <<inner, manifest_lock, pending, clients, notified, removing, disk>>
-----------------------------------------------------------------------------
\* A client's commit of a changeset of table t: RowSets it deletes are in its
\* snapshot, and DVs are deleted (DROP TABLE only) once.
ClientCommit(c, t) ==
    \E deleted \in SUBSET RowsetsOf(SnapshotOf(c), t) :
        \E last \in IF deleted = {} THEN {<<t, 0>>} ELSE deleted,
           old_dvs \in {{}, {d \in SnapshotOf(c).dvs : d[1] \in deleted}} :
            \/ CommitApply(c, t, deleted, old_dvs, last)
            \/ CommitPanic(c, t, deleted, last)

ClientNext(c) ==
    \/ Pin(c)
    \/ \E wanted \in SUBSET rowsets : GetRowsets(c, wanted)
    \/ DropRowsets(c)
    \/ \E t \in Table : BuildRowset(c, t)
    \/ \E r \in Rowset : BuildDv(c, r)
    \/ \E t \in Table : Pinned(c) /\ ClientCommit(c, t)
    \/ CommitFinish(c)
    \/ CommitFail(c)
    \/ Unpin(c)

VacuumNext == FindVacuum \/ \E x \in removing : RemoveDir(x)

VMNext == (\E c \in Client : ClientNext(c)) \/ VacuumNext \/ StopVacuum

\* The vacuum task is a tokio task: it runs whenever it can.
VMSpec == VMInit /\ [][VMNext]_vmvars /\ WF_vmvars(VacuumNext)
-----------------------------------------------------------------------------
\* Every file of a pinned version can be read: the RowSets of a pinned snapshot
\* are in the pool (get_rowset's unwrap) and on disk, its DVs are in the pool
\* (get_dv's unwrap).
PinnedFilesExist ==
    \A c \in Client : Pinned(c) =>
        /\ SnapshotOf(c).rowsets \subseteq rowsets \cap disk
        /\ SnapshotOf(c).dvs \subseteq dvs

\* find_vacuum never finds a RowSet "still being used".
VacuumNeverPanics == vacuum # "panicked"

\* The integrity check of commit_changes (assert_eq!(inner.epoch,
\* current_epoch)): the epoch a commit was based on is still the current one
\* when the commit is about to be published.
CommitBaseIsCurrent ==
    \A c \in Client : pending[c] # NoCommit => pending[c].base = epoch

\* The vacuum task is never left unnotified of work it could do: a pending
\* deletion is blocked by an older pin or a message is in the channel.
NoLostWakeup ==
    vacuum = "running" =>
        \A x \in deletion_to_apply : notified > 0 \/ ~ CanApply(x[1])

\* ref_cnt counts the pins of each epoch exactly, so that the oldest key of the
\* map is the oldest pinned epoch.
RefCntExact ==
    \A e \in Epoch : ref_cnt[e] = Cardinality({c \in Client : pin[c] = e})

\* Versions are immutable and a deleted RowSet never comes back: a RowSet that
\* left the current snapshot is in no later one.
DeletedStaysDeleted ==
    [][\A r \in Rowset : r \in status[epoch].rowsets' =>
            \/ r \in status[epoch].rowsets
            \/ \A e \in 1 .. epoch : r \notin status[e].rowsets]_vmvars
-----------------------------------------------------------------------------
(***************************************************************************)
(* The inductive invariant behind the properties above.                    *)
(***************************************************************************)

\* A client's Arcs are of RowSets of the snapshot it has pinned.
PinsOK ==
    \A c \in Client :
        /\ pin[c] <= epoch
        /\ \A r \in held[c] : Pinned(c) /\ r \in SnapshotOf(c).rowsets

\* A commit in progress has the manifest lock and a pin; its snapshot holds
\* nothing it deletes and no RowSet that has left the current snapshot.
CommitsOK ==
    \A c \in Client :
        /\ manifest_lock # c => pending[c] = NoCommit
        /\ manifest_lock = c =>
              /\ Pinned(c)
              /\ pending[c].base = epoch
              /\ pending[c].rowsets \cap pending[c].deleted = {}
              /\ \A r \in pending[c].rowsets :
                    r \in status[epoch].rowsets \/ \A e \in 1 .. epoch : r \notin status[e].rowsets

\* The id of every RowSet in use has been handed out.
IdsUsed ==
    /\ \A e \in 1 .. epoch : \A r \in status[e].rowsets : r[2] < next_id
    /\ \A x \in deletion_to_apply \cup removing : x[2][2] < next_id
    /\ \A c \in Client : \A r \in built[c] \cup pending[c].rowsets \cup pending[c].deleted :
           r[2] < next_id

\* A RowSet that is built and not committed is on disk and nobody else's.
BuiltFresh ==
    \A c \in Client : \A r \in built[c] :
        /\ r \in disk
        /\ \A e \in 1 .. epoch : r \notin status[e].rowsets
        /\ \A d \in Client : r \notin pending[d].rowsets \cup pending[d].deleted
        /\ \A d \in Client : d # c => r \notin built[d]
        /\ \A x \in deletion_to_apply \cup removing : x[2] # r

\* Everything the current, a pinned or the next snapshot refers to is there.
LiveOK ==
    /\ status[epoch].rowsets \subseteq rowsets \cap disk
    /\ \A e \in 1 .. epoch : status[e].dvs \subseteq dvs
    /\ \A c \in Client : /\ pending[c].rowsets \subseteq rowsets \cap disk
                         /\ pending[c].dvs \subseteq dvs
                         /\ Pinned(c) => SnapshotOf(c).rowsets \subseteq rowsets \cap disk

\* A RowSet deleted at some epoch is in no snapshot from that epoch on, and the
\* vacuum task only removes what was deleted before every pin.
DoomedOK ==
    /\ \A x \in deletion_to_apply \cup removing :
          /\ x[1] <= epoch
          /\ \A e \in x[1] .. epoch : x[2] \notin status[e].rowsets
          /\ \A c \in Client : x[2] \notin pending[c].rowsets
    /\ \A x \in removing : \A c \in Client : Pinned(c) => x[1] <= pin[c]

IInv ==
    /\ VMTypeOK
    /\ PinsOK
    /\ CommitsOK
    /\ IdsUsed
    /\ BuiltFresh
    /\ LiveOK
    /\ DoomedOK
    /\ RefCntExact
    /\ NoLostWakeup
    /\ VacuumNeverPanics
=============================================================================
