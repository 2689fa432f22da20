----------------------- MODULE SecondaryStorageProofs ------------------------
(***************************************************************************)
(* Proofs about SecondaryStorage, first part: in states that satisfy the   *)
(* invariant SInv of the engine every step of a statement or of the        *)
(* compactor is one that VersionManager allows; SInv is inductive, for any *)
(* statements, tables and bounds, and what is proved of the version        *)
(* manager holds of the engine.                                            *)
(***************************************************************************)
EXTENDS SecondaryStorage, VersionManagerProofs

\* A leaf is tried with Zenon and then with the SMT solver.
USE ZenonT(5), SMTT(20)

USE DEF Replaces

\* Row handlers point into RowSets, and the compactor works on tables.
ProcTypeOK ==
    /\ \A d \in Deleter : \A h \in handlers[d] : h[1] \in Rowset
    /\ tables \subseteq Table /\ ctables \subseteq Table /\ ctable \subseteq Table
    /\ \A t, u \in ctable : t = u
    /\ DOMAIN pc = Client

\* The RowSets the compactor holds are of the table it works on, and it holds
\* none between two tables.
CompactorOK ==
    \A k \in Compactor :
        /\ pc[k] = "pinned" => held[k] = {}
        /\ pc[k] = "locked" => held[k] = {}
        /\ \A r \in held[k], t \in ctable : r[1] = t

\* A client that reads has its pin.
ScannersOK == \A c \in Client : pc[c] = "scanning" => Pinned(c)

SInv == IInv /\ ProcTypeOK /\ CompactorOK /\ ScannersOK
-----------------------------------------------------------------------------
\* A changeset that only adds, of a transaction on table t.
LEMMA AddingCommit ==
  ASSUME NEW c \in Client, NEW t \in Table, CommitApply(c, t, {}, {}, <<t, 0>>)
  PROVE  ClientNext(c)
<1>1. ClientCommit(c, t)
  BY DEF ClientCommit
<1>2. Pinned(c)
  BY DEF CommitApply
<1> QED
  BY <1>1, <1>2 DEF ClientNext

\* A changeset that deletes RowSets of the client's snapshot, and the DVs of all
\* of them or none.
LEMMA DeletingCommit ==
  ASSUME NEW c \in Client, NEW t \in Table,
         NEW deleted \in SUBSET RowsetsOf(SnapshotOf(c), t),
         NEW last, last \in (IF deleted = {} THEN {<<t, 0>>} ELSE deleted),
         NEW old_dvs, old_dvs \in {{}, {d \in SnapshotOf(c).dvs : d[1] \in deleted}},
         CommitApply(c, t, deleted, old_dvs, last) \/ CommitPanic(c, t, deleted, last)
  PROVE  ClientNext(c)
<1>1. ClientCommit(c, t)
  BY DEF ClientCommit
<1>2. Pinned(c)
  BY DEF CommitApply, CommitPanic
<1> QED
  BY <1>1, <1>2 DEF ClientNext

\* Every step of a statement is a step of a client of the version manager, or leaves
\* the version manager alone.
LEMMA StatementUses ==
  ASSUME SInv, NEW c \in Client, Statement(c)
  PROVE  ClientNext(c) \/ UNCHANGED vmvars
<1>1. c \in Txn \cup Dropper => TableOf[c] \in Table
  BY TableAssumption
<1>2. CASE StartTxn(c)
  BY <1>2 DEF StartTxn, ClientNext
<1>3. CASE Append_inner(c)
  BY <1>1, <1>3 DEF Append_inner, ClientNext, Txn
<1>4. CASE InsertCommit(c)
  BY <1>1, <1>4, AddingCommit DEF InsertCommit, Txn
<1>5. CASE TxnCommitted(c)
  BY <1>5 DEF TxnCommitted, ClientNext
<1>6. CASE InsertEnd(c) \/ ScanEnd(c) \/ DeleteEnd(c) \/ DropEnd(c)
  BY <1>6 DEF InsertEnd, ScanEnd, DeleteEnd, DropEnd, EndTxn, ClientNext
<1>7. CASE Scan_inner(c)
  <2>1. GetRowsets(c, RowsetsOf(SnapshotOf(c), TableOf[c]))
    BY <1>7 DEF Scan_inner
  <2>2. RowsetsOf(SnapshotOf(c), TableOf[c]) \in SUBSET rowsets
    BY <2>1 DEF GetRowsets
  <2> QED
    BY <2>1, <2>2 DEF ClientNext
<1>8. CASE ScanDone(c)
  BY <1>8 DEF ScanDone, ClientNext
<1>9. CASE LockForDeletion(c) \/ Delete(c) \/ DeleteAbort(c) \/ Unlock(c) \/ ApplyDrop(c)
  BY <1>9 DEF LockForDeletion, Delete, DeleteAbort, Unlock, ApplyDrop
<1>10. CASE WriteDv(c)
  <2>1. c \in Deleter /\ \E r \in {h[1] : h \in handlers[c]} : BuildDv(c, r)
    BY <1>10 DEF WriteDv
  <2>2. \A h \in handlers[c] : h[1] \in Rowset
    BY <2>1 DEF SInv, ProcTypeOK
  <2> QED
    BY <2>1, <2>2 DEF ClientNext
<1>11. CASE DeleteCommit(c)
  BY <1>1, <1>11, AddingCommit DEF DeleteCommit, Txn
<1>12. CASE DropPin(c)
  BY <1>12 DEF DropPin, ClientNext
<1>13. CASE DropCommit(c)
  <2> DEFINE t == TableOf[c]
             deleted == RowsetsOf(SnapshotOf(c), t)
             old_dvs == UNION {DvsOf(SnapshotOf(c), r) : r \in deleted}
  <2>1. PICK last \in (IF deleted = {} THEN {<<t, 0>>} ELSE deleted) :
           CommitApply(c, t, deleted, old_dvs, last) \/ CommitPanic(c, t, deleted, last)
    BY <1>13 DEF DropCommit
  <2>2. old_dvs = {d \in SnapshotOf(c).dvs : d[1] \in deleted}
    BY DEF DvsOf
  <2>3. t \in Table /\ deleted \in SUBSET RowsetsOf(SnapshotOf(c), t)
    BY <1>1, <1>13 DEF DropCommit
  <2> QED
    BY <2>1, <2>2, <2>3, DeletingCommit
<1>14. CASE DropCommitted(c)
  BY <1>14 DEF DropCommitted, ClientNext
<1> QED
  BY <1>2, <1>3, <1>4, <1>5, <1>6, <1>7, <1>8, <1>9, <1>10, <1>11, <1>12, <1>13, <1>14
     DEF Statement

\* So is every step of the compactor: what it deletes is of its own snapshot and
\* of one table.
LEMMA CompactUses ==
  ASSUME SInv, NEW k \in Client, Compact(k)
  PROVE  ClientNext(k) \/ UNCHANGED vmvars
<1>1. \A t \in ctable : t \in Table
  BY DEF SInv, ProcTypeOK
<1>2. CASE CompactStart(k) \/ TryLock(k) \/ CompactError(k)
  BY <1>2 DEF CompactStart, TryLock, CompactError
<1>3. CASE CompactPin(k) \/ CompactCommitted(k)
  BY <1>3 DEF CompactPin, CompactCommitted, ClientNext
<1>4. CASE Select(k)
  <2>1. UNCHANGED vmvars \/ \E sel : GetRowsets(k, sel)
    BY <1>4 DEF Select
  <2>2. \A sel : GetRowsets(k, sel) => sel \in SUBSET rowsets
    BY DEF GetRowsets
  <2> QED
    BY <2>1, <2>2 DEF ClientNext
<1>5. CASE WriteMerged(k)
  BY <1>1, <1>5 DEF WriteMerged, ClientNext
<1>6. CASE CompactCommit(k)
  <2>1. PICK t \in ctable, last \in held[k] :
           CommitApply(k, t, held[k], {}, last) \/ CommitPanic(k, t, held[k], last)
    BY <1>6 DEF CompactCommit
  <2>2. held[k] \in SUBSET RowsetsOf(SnapshotOf(k), t)
    BY <1>6, <2>1 DEF CompactCommit, SInv, IInv, PinsOK, CompactorOK, RowsetsOf
  <2> QED
    BY <1>1, <2>1, <2>2, DeletingCommit
<1>7. CASE CompactRelease(k)
  BY <1>7 DEF CompactRelease, ClientNext
<1>8. CASE CompactEnd(k)
  BY <1>8 DEF CompactEnd, ClientNext
<1> QED
  BY <1>2, <1>3, <1>4, <1>5, <1>6, <1>7, <1>8 DEF Compact

\* The engine only takes steps of the version manager.
LEMMA StepUses == SInv /\ [SNext]_svars => [VMNext]_vmvars
<1> SUFFICES ASSUME SInv, [SNext]_svars PROVE VMNext \/ UNCHANGED vmvars
  OBVIOUS
<1>1. CASE \E c \in Client : Statement(c) \/ Compact(c)
  BY <1>1, StatementUses, CompactUses DEF VMNext
<1>2. CASE Vacuum
  BY <1>2 DEF Vacuum, VMNext
<1>3. CASE UNCHANGED svars
  BY <1>3 DEF svars
<1> QED
  BY <1>1, <1>2, <1>3 DEF SNext

\* A step of a statement changes the control point, the pin and the Arcs of no
\* other client, and leaves the compactor's table alone.
LEMMA StatementFrame ==
  ASSUME SInv, NEW c \in Client, Statement(c)
  PROVE  /\ c \notin Compactor
         /\ ctable' = ctable /\ ctables' = ctables
         /\ DOMAIN pc' = Client
         /\ \A d \in Client \ {c} : pc'[d] = pc[d] /\ pin'[d] = pin[d] /\ held'[d] = held[d]
<1>1. c \notin Compactor
  BY RoleAssumption
     DEF Statement, StartTxn, Append_inner, InsertCommit, TxnCommitted, InsertEnd, Scan_inner,
         ScanDone, ScanEnd, LockForDeletion, Delete, WriteDv, DeleteCommit, DeleteAbort, Unlock, DeleteEnd,
         ApplyDrop, DropPin, DropCommit, DropCommitted, DropEnd, Txn, Scan
<1>2. ctable' = ctable /\ ctables' = ctables
  BY DEF Statement, StartTxn, Append_inner, InsertCommit, TxnCommitted, InsertEnd, Scan_inner,
         ScanDone, ScanEnd, LockForDeletion, Delete, WriteDv, DeleteCommit, DeleteAbort, Unlock, DeleteEnd,
         ApplyDrop, DropPin, DropCommit, DropCommitted, DropEnd, EndTxn, compacting
<1> DEFINE Frame == /\ DOMAIN pc' = Client
                    /\ \A d \in Client \ {c} : pc'[d] = pc[d] /\ pin'[d] = pin[d] /\ held'[d] = held[d]
<1>3. Frame
  <2> USE DEF vmvars, clients, Goto
  <2>0. /\ DOMAIN pc = Client /\ pin \in [Client -> 0 .. MaxEpoch]
        /\ held \in [Client -> SUBSET Rowset]
    BY DEF SInv, ProcTypeOK, IInv, VMTypeOK
  <2>1. CASE StartTxn(c) \/ DropPin(c)
    BY <2>0, <2>1 DEF StartTxn, DropPin, Pin
  <2>2. CASE Append_inner(c) \/ WriteDv(c)
    BY <2>0, <2>2 DEF Append_inner, WriteDv, BuildRowset, BuildDv
  <2>3. CASE InsertCommit(c) \/ DeleteCommit(c)
    BY <2>0, <2>3 DEF InsertCommit, DeleteCommit, CommitApply
  <2>4. CASE DropCommit(c)
    BY <2>0, <2>4 DEF DropCommit, CommitApply, CommitPanic
  <2>5. CASE TxnCommitted(c) \/ DropCommitted(c)
    BY <2>0, <2>5 DEF TxnCommitted, DropCommitted, CommitFinish, CommitFail
  <2>6. CASE InsertEnd(c) \/ ScanEnd(c) \/ DeleteEnd(c) \/ DropEnd(c)
    BY <2>0, <2>6 DEF InsertEnd, ScanEnd, DeleteEnd, DropEnd, EndTxn, Unpin
  <2>7. CASE Scan_inner(c) \/ ScanDone(c)
    BY <2>0, <2>7 DEF Scan_inner, ScanDone, GetRowsets, DropRowsets
  <2>8. CASE LockForDeletion(c) \/ Delete(c) \/ DeleteAbort(c) \/ Unlock(c)
    BY <2>0, <2>8 DEF LockForDeletion, Delete, DeleteAbort, Unlock
  <2>9. CASE ApplyDrop(c)
    BY <2>0, <2>9 DEF ApplyDrop
  <2> QED
    BY <2>1, <2>2, <2>3, <2>4, <2>5, <2>6, <2>7, <2>8, <2>9 DEF Statement
<1> QED
  BY <1>1, <1>2, <1>3

\* A statement keeps the types: the scan's handlers point into RowSets of its
\* snapshot.
LEMMA StatementTypes ==
  ASSUME SInv, NEW c \in Client, Statement(c)
  PROVE  ProcTypeOK'
<1>1. tables' \subseteq Table
  BY DEF SInv, ProcTypeOK,
         Statement, StartTxn, Append_inner, InsertCommit, TxnCommitted, InsertEnd, Scan_inner,
         ScanDone, ScanEnd, LockForDeletion, Delete, WriteDv, DeleteCommit, DeleteAbort, Unlock, DeleteEnd,
         ApplyDrop, DropPin, DropCommit, DropCommitted, DropEnd, EndTxn, vmvars
<1>2. CASE ScanDone(c)
  <2>1. Pinned(c)
    BY <1>2 DEF ScanDone, SInv, ScannersOK
  <2>2. SnapshotOf(c).rowsets \subseteq Rowset
    BY <2>1, PinRange, RowsetTypes DEF SInv, IInv, SnapshotOf
  <2>3. ASSUME NEW t, NEW h \in ScanRows(SnapshotOf(c), t) PROVE h[1] \in Rowset
    <3>1. PICK r \in RowsetsOf(SnapshotOf(c), t) : h \in RowsIn(SnapshotOf(c), r)
      BY DEF ScanRows
    <3> QED
      BY <2>2, <3>1 DEF RowsetsOf, RowsIn
  <2>4. \A d \in Deleter : \A h \in handlers'[d] : h[1] \in Rowset
    BY <1>2, <2>3 DEF ScanDone, SInv, ProcTypeOK
  <2> QED
    BY <1>1, <2>4, StatementFrame DEF SInv, ProcTypeOK
<1>3. CASE ~ ScanDone(c)
  <2>1. handlers' = handlers
    BY <1>3 DEF Statement, StartTxn, Append_inner, InsertCommit, TxnCommitted, InsertEnd,
         Scan_inner, ScanEnd, LockForDeletion, Delete, WriteDv, DeleteCommit, DeleteAbort, Unlock,
         DeleteEnd, ApplyDrop, DropPin, DropCommit, DropCommitted, DropEnd, EndTxn
  <2> QED
    BY <1>1, <2>1, StatementFrame DEF SInv, ProcTypeOK
<1> QED
  BY <1>2, <1>3

\* A statement that reaches a scan has its pin until the scan is over.
LEMMA StatementScans ==
  ASSUME SInv, NEW c \in Client, Statement(c)
  PROVE  ScannersOK'
<1> SUFFICES ASSUME NEW d \in Client, pc'[d] = "scanning" PROVE pin'[d] # 0
  BY DEF ScannersOK, Pinned
<1>1. CASE d # c
  BY <1>1, StatementFrame DEF SInv, ScannersOK, Pinned
<1>2. CASE d = c /\ Scan_inner(c)
  BY <1>2 DEF Scan_inner, GetRowsets, Pinned
<1>3. CASE d = c /\ ~ Scan_inner(c)
  <2>1. pc'[c] # "scanning"
    <3>1. DOMAIN pc = Client
      BY DEF SInv, ProcTypeOK
    <3>2. CASE WriteDv(c)
      BY <3>1, <3>2 DEF WriteDv
    <3>3. CASE ~ WriteDv(c)
      BY <1>3, <3>1, <3>3
         DEF Statement, StartTxn, Append_inner, InsertCommit, TxnCommitted, InsertEnd,
             ScanDone, ScanEnd, LockForDeletion, Delete, DeleteCommit, DeleteAbort, Unlock,
             DeleteEnd, ApplyDrop, DropPin, DropCommit, DropCommitted, DropEnd, EndTxn, Goto
    <3> QED
      BY <3>2, <3>3
  <2> QED
    BY <1>3, <2>1
<1> QED
  BY <1>1, <1>2, <1>3

\* A client holds Arcs only while it has a pin.
LEMMA PinnedHeld ==
  ASSUME SInv, NEW c \in Client, ~ Pinned(c) PROVE held[c] = {}
BY DEF SInv, IInv, PinsOK

\* The compactor's own steps.
LEMMA CompactKeeps ==
  ASSUME SInv, NEW k \in Client, Compact(k)
  PROVE  ProcTypeOK' /\ CompactorOK' /\ ScannersOK'
<1>0. /\ DOMAIN pc = Client /\ held \in [Client -> SUBSET Rowset]
      /\ pin \in [Client -> 0 .. MaxEpoch]
      /\ k \in Compactor /\ \A j \in Compactor : j = k
  BY RoleAssumption
     DEF SInv, ProcTypeOK, IInv, VMTypeOK, Compact, CompactStart, CompactPin, TryLock, Select,
         WriteMerged, CompactError, CompactCommit, CompactCommitted, CompactRelease,
         CompactEnd
<1> DEFINE Frame == /\ DOMAIN pc' = Client
                    /\ \A d \in Client \ {k} : pc'[d] = pc[d] /\ pin'[d] = pin[d]
                    /\ pc'[k] # "scanning"
           Types == /\ handlers' = handlers /\ tables' = tables
                    /\ ctables' \subseteq Table /\ ctable' \subseteq Table
                    /\ \A t, u \in ctable' : t = u
           Held == /\ pc'[k] = "pinned" => held'[k] = {}
                   /\ pc'[k] = "locked" => held'[k] = {}
                   /\ \A r \in held'[k], t \in ctable' : r[1] = t
<1>1. Frame /\ Types /\ Held
  <2> USE DEF vmvars, clients, Goto, compacting, SInv, ProcTypeOK, CompactorOK
  <2>1. CASE CompactStart(k)
    BY <1>0, <2>1 DEF CompactStart
  <2>2. CASE CompactPin(k)
    BY <1>0, <2>2, PinnedHeld DEF CompactPin, Pin, Pinned
  <2>3. CASE TryLock(k)
    BY <1>0, <2>3 DEF TryLock
  <2>4. CASE Select(k)
    <3>0. PICK t \in ctable : \E sel \in Selections(SnapshotOf(k), t) :
             \/ GetRowsets(k, sel) /\ Goto(k, "selected")
             \/ UNCHANGED vmvars /\ Goto(k, "compacted")
      BY <2>4 DEF Select
    <3>1. PICK sel \in Selections(SnapshotOf(k), t) :
             \/ GetRowsets(k, sel) /\ Goto(k, "selected")
             \/ UNCHANGED vmvars /\ Goto(k, "compacted")
      BY <3>0
    <3>2. \A r \in sel : r[1] = t
      BY DEF Selections, RowsetsOf
    <3>3. \A u \in ctable : \A r \in held[k] \cup sel : r[1] = u
      BY <1>0, <2>4, <3>1, <3>2 DEF Select
    <3>4. held' = held \/ held' = [held EXCEPT ![k] = @ \cup sel]
      BY <3>1 DEF GetRowsets
    <3>5. UNCHANGED <<handlers, tables, ctables, ctable, pin>>
      BY <2>4, <3>1 DEF Select, GetRowsets
    <3> QED
      BY <1>0, <3>1, <3>3, <3>4, <3>5
  <2>5. CASE WriteMerged(k)
    BY <1>0, <2>5 DEF WriteMerged, BuildRowset
  <2>10. CASE CompactError(k)
    BY <1>0, <2>10 DEF CompactError
  <2>6. CASE CompactCommit(k)
    BY <1>0, <2>6 DEF CompactCommit, CommitApply, CommitPanic
  <2>7. CASE CompactCommitted(k)
    BY <1>0, <2>7 DEF CompactCommitted, CommitFinish, CommitFail
  <2>8. CASE CompactRelease(k)
    BY <1>0, <2>8 DEF CompactRelease, DropRowsets
  <2>9. CASE CompactEnd(k)
    BY <1>0, <2>9 DEF CompactEnd, Unpin
  <2> QED
    BY <2>1, <2>2, <2>3, <2>4, <2>5, <2>6, <2>7, <2>8, <2>9, <2>10 DEF Compact
<1>2. ProcTypeOK'
  BY <1>1 DEF SInv, ProcTypeOK
<1>3. CompactorOK'
  BY <1>0, <1>1 DEF CompactorOK
<1>4. ScannersOK'
  BY <1>1 DEF SInv, ScannersOK, Pinned
<1> QED
  BY <1>2, <1>3, <1>4

\* The engine's invariant is inductive.
LEMMA StepInv == SInv /\ [SNext]_svars => SInv'
<1> SUFFICES ASSUME SInv, [SNext]_svars PROVE SInv'
  OBVIOUS
<1>1. IInv'
  BY StepUses, NextInv DEF SInv
<1>2. ASSUME NEW c \in Client, Statement(c) PROVE SInv'
  <2>1. CompactorOK'
    <3>1. CompactorOK
      BY DEF SInv
    <3>2. ctable' = ctable /\ \A k \in Compactor : pc'[k] = pc[k] /\ held'[k] = held[k]
      BY <1>2, StatementFrame, RoleAssumption
    <3> QED
      BY <3>1, <3>2 DEF CompactorOK
  <2> QED
    BY <1>1, <1>2, <2>1, StatementTypes, StatementScans DEF SInv
<1>3. ASSUME NEW c \in Client, Compact(c) PROVE SInv'
  BY <1>1, <1>3, CompactKeeps DEF SInv
<1>4. CASE Vacuum
  <2>1. UNCHANGED <<pc, handlers, tables, ctables, ctable, pin, held>>
    BY <1>4 DEF Vacuum, VacuumNext, FindVacuum, RemoveDir, procvars, compacting, clients
  <2> QED
    BY <1>1, <2>1 DEF SInv, ProcTypeOK, CompactorOK, ScannersOK, Pinned
<1>5. CASE UNCHANGED svars
  <2>1. UNCHANGED <<pc, handlers, tables, ctables, ctable, pin, held>>
    BY <1>5 DEF svars, vmvars, procvars, compacting, clients
  <2> QED
    BY <1>1, <2>1 DEF SInv, ProcTypeOK, CompactorOK, ScannersOK, Pinned
<1> QED
  BY <1>2, <1>3, <1>4, <1>5 DEF SNext

\* ... and it holds when bootstrap is done.
LEMMA StartInv == SInit => SInv
<1> SUFFICES ASSUME SInit PROVE SInv
  OBVIOUS
<1>1. IInv
  BY InitInv DEF SInit
<1>2. ProcTypeOK
  BY DEF SInit, ProcTypeOK
<1>3. CompactorOK /\ ScannersOK
  BY RoleAssumption DEF SInit, CompactorOK, ScannersOK, VMInit
<1> QED
  BY <1>1, <1>2, <1>3 DEF SInv

\* SInv is an invariant of the engine.
THEOREM EngineInvariance == SSpec => []SInv
  BY StartInv, StepInv, PTL DEF SSpec

\* INSERT, DELETE, SELECT, DROP TABLE, the compactor and the vacuum use the
\* version manager as its specification allows, whatever their interleaving.
THEOREM EngineUsesVersionManager == SSpec => UsesVersionManager
<1>1. SInit => VMInit
  BY DEF SInit
<1> QED
  BY <1>1, StepUses, EngineInvariance, PTL DEF SSpec, UsesVersionManager

\* Hence no statement of the engine ever finds a file of its snapshot missing.
THEOREM EngineFilesExist == SSpec => []PinnedFilesExist
<1>1. SInv => PinnedFilesExist
  BY InvImplies DEF SInv
<1> QED
  BY <1>1, EngineInvariance, PTL
=============================================================================
