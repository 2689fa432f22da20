-------------------- MODULE SecondaryStorageInsertProofs ---------------------
(***************************************************************************)
(* Proofs about SecondaryStorage, third part: what a statement or a        *)
(* compaction has built at each of its steps, that what an INSERT has      *)
(* written is a prefix of its rows and nobody else's, and that what is     *)
(* published keeps its RowSets and their rows.                             *)
(***************************************************************************)
EXTENDS SecondaryStorageRowProofs

\* A leaf is tried with Zenon and then with the SMT solver.
USE ZenonT(5), SMTT(20)

\* The types are kept.
LEMMA StepTypes ==
  ASSUME RInv, NEW c \in Client, Step(c)
  PROVE  EngineTypeOK'
<1> USE DEF EngineTypeOK
<1>0. EngineTypeOK /\ SInv
  BY DEF RInv
<1>1. contents' \in [Rowset -> Seq(Row)]
  <2>1. CASE Append_inner(c)
    <3> DEFINE x == Inserted[c][RowsOf(built[c]) + 1]
    <3>1. x \in Row
      BY <2>1, AppendEffect
    <3>2. PICK r \in Rowset :
             contents' = [contents EXCEPT ![r] = IF r \in built[c] THEN Append(@, x) ELSE <<x>>]
      BY <2>1, AppendEffect
    <3> HIDE DEF x
    <3>3. Append(contents[r], x) \in Seq(Row) /\ <<x>> \in Seq(Row)
      BY <1>0, <3>1
    <3> QED
      BY <1>0, <3>2, <3>3
  <2>2. CASE WriteMerged(c)
    <3>1. c \in Compactor /\ pc[c] = "selected" /\ ctable # {}
      BY <2>2, MergeEffect
    <3>2. Merged(SnapshotOf(c), held[c]) \in Seq(Row)
      BY <3>1, MergedRows
    <3>3. contents' = contents \/ \E r \in Rowset :
             contents' = [contents EXCEPT ![r] = Merged(SnapshotOf(c), held[c])]
      BY <2>2, MergeEffect
    <3> QED
      BY <1>0, <3>2, <3>3
  <2> QED
    BY <1>0, <2>1, <2>2, ProcFrame
<1>2. dv_rows' \in [Dv -> SUBSET Nat]
  <2>1. CASE WriteDv(c)
    <3>1. c \in Deleter
      BY <2>1 DEF WriteDv
    <3>2. \A r : Deletes(c, r) \subseteq Nat
      BY <1>0, <3>1 DEF Deletes
    <3>3. PICK r : dv_rows' = [dv_rows EXCEPT ![<<r, next_dv>>] = Deletes(c, r)]
      BY <2>1 DEF WriteDv
    <3> DEFINE w == <<r, next_dv>>
               D == Deletes(c, r)
    <3>4. dv_rows' = [dv_rows EXCEPT ![w] = D] /\ D \subseteq Nat
      BY <3>2, <3>3
    <3> HIDE DEF w, D
    <3> QED
      BY <1>0, <3>4
  <2> QED
    BY <1>0, <2>1, ProcFrame
<1>3. handlers' \in [Deleter -> SUBSET (Rowset \X Nat)]
  <2>1. CASE ScanDone(c)
    <3>1. SnapshotOf(c).rowsets \subseteq Rowset
      BY <2>1, PinRange, RowsetTypes DEF ScanDone, RInv, SInv, ScannersOK, IInv, SnapshotOf
    <3>2. ASSUME NEW t, NEW h \in ScanRows(SnapshotOf(c), t) PROVE h \in Rowset \X Nat
      <4>1. PICK r \in RowsetsOf(SnapshotOf(c), t) : h \in RowsIn(SnapshotOf(c), r)
        BY DEF ScanRows
      <4>2. r \in Rowset
        BY <3>1 DEF RowsetsOf
      <4> QED
        BY <1>0, <4>1, <4>2, VisibleIsStored
    <3>3. \A t : ScanRows(SnapshotOf(c), t) \subseteq Rowset \X Nat
      BY <3>2
    <3>4. handlers' = [d \in Deleter |->
             IF ScanOf[d] = c
             THEN {h \in ScanRows(SnapshotOf(c), TableOf[d]) : RowAt(h) \in Target[d]}
             ELSE handlers[d]]
      BY <2>1 DEF ScanDone
    <3> QED
      BY <1>0, <3>3, <3>4
  <2> QED
    BY <1>0, <2>1, ProcFrame
<1>4. table_lock' \in [Table -> Client \cup {NoClient}]
  <2>1. CASE LockForDeletion(c) \/ Unlock(c)
    BY <1>0, <2>1 DEF LockForDeletion, Unlock
  <2>2. CASE TryLock(c)
    BY <1>0, <2>2 DEF TryLock
  <2>3. CASE CompactRelease(c)
    BY <1>0, <2>3 DEF CompactRelease, LocksReleased
  <2> QED
    BY <1>0, <2>1, <2>2, <2>3, ProcFrame
<1>5. durable' \subseteq Table
  BY <1>0, ProcFrame DEF DropCommitted
<1> QED
  BY <1>1, <1>2, <1>3, <1>4, <1>5

\* DV ids are handed out once.
LEMMA DvIdsStep ==
  ASSUME IInv, DvIdsUsed, [VMNext]_vmvars
  PROVE  DvIdsUsed'
<1>0. VMTypeOK /\ next_dv \in Nat /\ epoch \in 1 .. epoch
  BY BoundAssumption DEF IInv, VMTypeOK, Epoch
<1>1. ASSUME NEW c \in Client, ClientNext(c) PROVE DvIdsUsed'
  <2>1. CASE Pin(c) \/ DropRowsets(c) \/ Unpin(c)
    BY <1>0, <2>1 DEF Pin, DropRowsets, Unpin, VMTypeOK, DvIdsUsed, inner, clients
  <2>2. CASE \E wanted \in SUBSET rowsets : GetRowsets(c, wanted)
    BY <2>2 DEF GetRowsets, DvIdsUsed, inner
  <2>3. CASE \E t \in Table : BuildRowset(c, t)
    BY <2>3 DEF BuildRowset, DvIdsUsed, inner
  <2>4. CASE \E r \in Rowset : BuildDv(c, r)
    <3>1. PICK r \in Rowset : BuildDv(c, r)
      BY <2>4
    <3>2. UNCHANGED <<epoch, status, pending>> /\ next_dv' = next_dv + 1
      BY <3>1 DEF BuildDv, inner
    <3>3. \A d \in Client : \A v \in built_dv'[d] : v \in built_dv[d] \/ v = <<r, next_dv>>
      BY <1>0, <3>1 DEF BuildDv, VMTypeOK
    <3>4. \A v \in Dv : v[2] \in Int
      BY BoundAssumption DEF Dv
    <3>5. /\ \A e \in 1 .. epoch : status[e].dvs \subseteq Dv
          /\ \A d \in Client : built_dv[d] \subseteq Dv /\ pending[d].dvs \subseteq Dv
      <4>1. \A e \in 1 .. epoch : e \in Epoch
        BY <1>0, BoundAssumption DEF VMTypeOK, Epoch
      <4>2. \A e \in Epoch : status[e].dvs \subseteq Dv
        BY <1>0 DEF VMTypeOK, Snapshot
      <4>3. \A d \in Client : built_dv[d] \subseteq Dv /\ pending[d].dvs \subseteq Dv
        BY <1>0 DEF VMTypeOK, Commit
      <4> QED
        BY <4>1, <4>2, <4>3
    <3> QED
      BY <1>0, <3>2, <3>3, <3>4, <3>5 DEF DvIdsUsed
  <2>5. CASE \E t \in Table : Pinned(c) /\ ClientCommit(c, t)
    <3>1. PICK t, deleted, last, old_dvs :
             CommitApply(c, t, deleted, old_dvs, last) \/ CommitPanic(c, t, deleted, last)
      BY <2>5 DEF ClientCommit
    <3>2. CASE CommitApply(c, t, deleted, old_dvs, last)
      BY <1>0, <3>2 DEF CommitApply, Applied, VMTypeOK, DvIdsUsed
    <3>3. CASE CommitPanic(c, t, deleted, last)
      BY <1>0, <3>3 DEF CommitPanic, VMTypeOK, DvIdsUsed
    <3> QED
      BY <3>1, <3>2, <3>3
  <2>6. CASE CommitFinish(c)
    <3>1. \A e \in 1 .. epoch' : e \in 1 .. epoch \/ e = epoch + 1
      BY <1>0, <2>6 DEF CommitFinish
    <3>2. \A e \in 1 .. epoch : status'[e] = status[e]
      BY <1>0, <2>6 DEF CommitFinish, VMTypeOK, Epoch
    <3>3. status'[epoch + 1].dvs \subseteq pending[c].dvs
      <4>1. epoch + 1 \in Epoch
        BY <1>0, <2>6, BoundAssumption DEF CommitFinish, VMTypeOK, Epoch
      <4>2. status'[epoch + 1] = [rowsets |-> pending[c].rowsets, dvs |-> pending[c].dvs]
        BY <1>0, <2>6, <4>1 DEF CommitFinish, VMTypeOK
      <4> QED
        BY <4>2
    <3>4. \A d \in Client : pending'[d].dvs \subseteq pending[d].dvs
      BY <1>0, <2>6 DEF CommitFinish, VMTypeOK, NoCommit
    <3>5. UNCHANGED <<built_dv, next_dv>>
      BY <2>6 DEF CommitFinish, clients
    <3> QED
      BY <3>1, <3>2, <3>3, <3>4, <3>5 DEF DvIdsUsed
  <2>7. CASE CommitFail(c)
    <3>1. pending' = [pending EXCEPT ![c] = NoCommit] /\ UNCHANGED <<epoch, status, built_dv, next_dv>>
      BY <2>7 DEF CommitFail, inner, clients
    <3>2. \A d \in Client : pending'[d].dvs \subseteq pending[d].dvs
      BY <1>0, <3>1, NoCommitEmpty DEF VMTypeOK
    <3> QED
      BY <3>1, <3>2 DEF DvIdsUsed
  <2> QED
    BY <1>1, <2>1, <2>2, <2>3, <2>4, <2>5, <2>6, <2>7 DEF ClientNext
<1>2. CASE VacuumNext \/ StopVacuum \/ UNCHANGED vmvars
  BY <1>2 DEF VacuumNext, FindVacuum, RemoveDir, StopVacuum, DvIdsUsed, vmvars, inner, clients
<1> QED
  BY <1>1, <1>2 DEF VMNext
-----------------------------------------------------------------------------
\* Which steps change which part of the version manager's state.
LEMMA VMFrame ==
  ASSUME NEW c \in Client, Step(c)
  PROVE  /\ UNCHANGED <<epoch, status>> \/ TxnCommitted(c) \/ DropCommitted(c) \/ CompactCommitted(c)
         /\ \/ pending' = pending
            \/ InsertCommit(c) \/ DeleteCommit(c) \/ DropCommit(c) \/ CompactCommit(c)
            \/ TxnCommitted(c) \/ DropCommitted(c) \/ CompactCommitted(c)
         /\ pin' = pin \/ Pin(c) \/ Unpin(c)
         /\ \/ built' = built \/ built' = [built EXCEPT ![c] = {}]
            \/ Append_inner(c) \/ WriteMerged(c)
         /\ built_dv' = built_dv \/ built_dv' = [built_dv EXCEPT ![c] = {}] \/ WriteDv(c)
<1> USE DEF vmvars, inner, clients
<1>1. CASE \/ LockForDeletion(c) \/ Delete(c) \/ DeleteAbort(c) \/ Unlock(c) \/ ApplyDrop(c)
           \/ CompactStart(c) \/ TryLock(c) \/ CompactError(c)
  BY <1>1 DEF LockForDeletion, Delete, DeleteAbort, Unlock, ApplyDrop, CompactStart, TryLock, CompactError
<1>2. CASE StartTxn(c) \/ DropPin(c) \/ CompactPin(c)
  <2>1. Pin(c) \/ UNCHANGED vmvars
    BY <1>2 DEF StartTxn, DropPin, CompactPin
  <2> QED
    BY <2>1 DEF Pin
<1>3. CASE InsertEnd(c) \/ ScanEnd(c) \/ DeleteEnd(c) \/ DropEnd(c) \/ CompactEnd(c)
  <2>1. Unpin(c)
    BY <1>3 DEF InsertEnd, ScanEnd, DeleteEnd, DropEnd, EndTxn, CompactEnd
  <2> QED
    BY <2>1 DEF Unpin
<1>4. CASE Scan_inner(c) \/ Select(c)
  <2>1. (\E w : GetRowsets(c, w)) \/ UNCHANGED vmvars
    BY <1>4 DEF Scan_inner, Select
  <2> QED
    BY <2>1 DEF GetRowsets
<1>5. CASE ScanDone(c) \/ CompactRelease(c)
  <2>1. DropRowsets(c) \/ UNCHANGED vmvars
    BY <1>5 DEF ScanDone, CompactRelease
  <2> QED
    BY <2>1 DEF DropRowsets
<1>6. CASE InsertCommit(c) \/ DeleteCommit(c) \/ DropCommit(c) \/ CompactCommit(c)
  <2>1. \E t, deleted, old_dvs, last :
           CommitApply(c, t, deleted, old_dvs, last) \/ CommitPanic(c, t, deleted, last)
    BY <1>6 DEF InsertCommit, DeleteCommit, DropCommit, CompactCommit
  <2> QED
    BY <1>6, <2>1 DEF CommitApply, CommitPanic
<1>7. CASE TxnCommitted(c) \/ DropCommitted(c) \/ CompactCommitted(c)
  <2>1. CommitFinish(c) \/ CommitFail(c)
    BY <1>7 DEF TxnCommitted, DropCommitted, CompactCommitted
  <2> QED
    BY <1>7, <2>1 DEF CommitFinish, CommitFail
<1>8. CASE Append_inner(c) \/ WriteMerged(c)
  <2>1. (\E t : BuildRowset(c, t)) \/ UNCHANGED vmvars
    BY <1>8 DEF Append_inner, WriteMerged
  <2> QED
    BY <1>8, <2>1 DEF BuildRowset
<1>9. CASE WriteDv(c)
  <2>1. \E r : BuildDv(c, r)
    BY <1>9 DEF WriteDv
  <2> QED
    BY <1>9, <2>1 DEF BuildDv
<1> QED
  BY <1>1, <1>2, <1>3, <1>4, <1>5, <1>6, <1>7, <1>8, <1>9 DEF Step, Statement, Compact

\* A statement has RowSets of its own only while it inserts.
LEMMA StatementBuilds ==
  ASSUME RInv, NEW c \in Client, Statement(c)
  PROVE  /\ c \notin Inserter => built'[c] = {}
         /\ c \in Inserter => /\ built'[c] # {} => pc'[c] \in {"pinned", "written"}
                              /\ \A r \in built'[c] : r[1] = TableOf[c]
<1>0. /\ built \in [Client -> SUBSET Rowset] /\ DOMAIN pc = Client /\ c \notin Compactor
      /\ BuildersOK /\ Step(c)
  BY StatementFrame, EngineTypes DEF RInv, Step
<1>1. CASE Append_inner(c)
  <2>1. /\ c \in Inserter
        /\ pc' = [pc EXCEPT ![c] =
                     IF RowsOf(built[c]) + 1 = Len(Inserted[c]) THEN "written" ELSE "pinned"]
        /\ \E r \in Rowset : r[1] = TableOf[c] /\ built' = [built EXCEPT ![c] = @ \cup {r}]
    BY <1>1, AppendEffect
  <2>2. pc'[c] \in {"pinned", "written"}
    BY <1>0, <2>1
  <2>3. \A r \in built'[c] : r \in built[c] \/ r[1] = TableOf[c]
    BY <1>0, <2>1
  <2> QED
    BY <1>0, <2>1, <2>2, <2>3 DEF BuildersOK
<1>2. CASE ~ Append_inner(c)
  <2>1. ~ WriteMerged(c)
    BY <1>0 DEF WriteMerged
  <2>2. built' = built \/ built' = [built EXCEPT ![c] = {}]
    BY <1>0, <1>2, <2>1, VMFrame
  <2>3. CASE built'[c] = {}
    BY <2>3
  <2>4. CASE built'[c] # {}
    <3>1. built'[c] = built[c]
      BY <1>0, <2>2, <2>4
    <3>2. c \in Inserter /\ pc[c] \in {"pinned", "written"}
      BY <1>0, <2>4, <3>1 DEF BuildersOK
    <3>3. c \notin Deleter \cup Scan \cup Reader \cup Dropper
      BY <3>2, RoleAssumption DEF Txn
    <3>4. InsertCommit(c) \/ InsertEnd(c)
      BY <1>2, <3>2, <3>3
         DEF Statement, StartTxn, TxnCommitted, Scan_inner, ScanDone, ScanEnd, LockForDeletion,
             Delete, WriteDv, DeleteCommit, DeleteAbort, Unlock, DeleteEnd,
             ApplyDrop, DropPin, DropCommit, DropCommitted, DropEnd
    <3>5. built' = [built EXCEPT ![c] = {}]
      BY <3>4 DEF InsertCommit, InsertEnd, EndTxn, CommitApply, Unpin
    <3> QED
      BY <1>0, <2>4, <3>5
  <2> QED
    BY <2>3, <2>4
<1> QED
  BY <1>1, <1>2

\* The compactor's own steps.
LEMMA CompactBuilds ==
  ASSUME RInv, NEW k \in Client, Compact(k)
  PROVE  /\ k \in Compactor
         /\ built'[k] # {} => pc'[k] \in {"merged", "compacted"} /\ held'[k] # {}
         /\ \A r \in built'[k] : r[1] \in ctable'
         /\ pc'[k] \in {"selected", "merged"} => held'[k] # {}
         /\ pc'[k] \in {"start", "cloned"} => pin'[k] = 0
         /\ pc'[k] \in {"start", "cloned", "pinned"} => ctable' = {}
         /\ ctable' \cap ctables' = {}
<1>0. k \in Compactor
  BY DEF Compact, CompactStart, CompactPin, TryLock, Select, WriteMerged, CompactError,
         CompactCommit, CompactCommitted, CompactRelease, CompactEnd
<1>1. /\ built \in [Client -> SUBSET Rowset] /\ held \in [Client -> SUBSET Rowset]
      /\ pin \in [Client -> 0 .. MaxEpoch] /\ DOMAIN pc = Client
  BY EngineTypes DEF RInv
<1>2. /\ built[k] # {} => pc[k] \in {"merged", "compacted"} /\ held[k] # {}
      /\ \A r \in built[k] : r[1] \in ctable
      /\ pc[k] \in {"selected", "merged"} => held[k] # {}
      /\ pc[k] \in {"start", "cloned"} => pin[k] = 0
      /\ pc[k] \in {"start", "cloned", "pinned"} => ctable = {}
      /\ ctable \cap ctables = {}
  BY <1>0 DEF RInv, BuildersOK, RoundOK
<1> USE DEF Goto, vmvars, inner, clients, compacting
<1>3. CASE CompactStart(k)
  BY <1>0, <1>1, <1>2, <1>3 DEF CompactStart
<1>4. CASE CompactPin(k)
  BY <1>0, <1>1, <1>2, <1>4 DEF CompactPin, Pin
<1>5. CASE TryLock(k)
  BY <1>0, <1>1, <1>2, <1>5 DEF TryLock
<1>6. CASE Select(k)
  <2>1. PICK sel : \/ Cardinality(sel) > 1 /\ GetRowsets(k, sel) /\ Goto(k, "selected")
                   \/ UNCHANGED vmvars /\ Goto(k, "compacted")
    BY <1>6 DEF Select
  <2>2. CASE Cardinality(sel) > 1 /\ GetRowsets(k, sel) /\ Goto(k, "selected")
    <3>1. sel # {}
      BY <2>2, FS_EmptySet
    <3> QED
      BY <1>0, <1>1, <1>2, <1>6, <2>2, <3>1 DEF GetRowsets, Select
  <2>3. CASE UNCHANGED vmvars /\ Goto(k, "compacted")
    BY <1>0, <1>1, <1>2, <1>6, <2>3 DEF Select
  <2> QED
    BY <2>1, <2>2, <2>3
<1>7. CASE WriteMerged(k)
  <2>1. /\ pc[k] = "selected" /\ pc' = [pc EXCEPT ![k] = "merged"]
        /\ held' = held /\ pin' = pin /\ ctable' = ctable /\ ctables' = ctables
        /\ \/ built' = built
           \/ \E r \in Rowset : r[1] \in ctable /\ built' = [built EXCEPT ![k] = @ \cup {r}]
    BY <1>7, MergeEffect DEF WriteMerged
  <2>2. \A r \in built'[k] : r \in built[k] \/ r[1] \in ctable
    BY <1>1, <2>1
  <2> QED
    BY <1>0, <1>1, <1>2, <2>1, <2>2
<1>8. CASE CompactError(k)
  BY <1>0, <1>1, <1>2, <1>8 DEF CompactError
<1>9. CASE CompactCommit(k)
  <2>1. /\ built' = [built EXCEPT ![k] = {}] /\ pin' = pin /\ ctable' = ctable /\ ctables' = ctables
        /\ pc' = [pc EXCEPT ![k] = "committing"] \/ pc' = [pc EXCEPT ![k] = "dying"]
    BY <1>9 DEF CompactCommit, CommitApply, CommitPanic
  <2> QED
    BY <1>0, <1>1, <1>2, <2>1
<1>10. CASE CompactCommitted(k)
  BY <1>0, <1>1, <1>2, <1>10 DEF CompactCommitted, CommitFinish, CommitFail
<1>11. CASE CompactRelease(k)
  BY <1>0, <1>1, <1>2, <1>11 DEF CompactRelease, DropRowsets
<1>12. CASE CompactEnd(k)
  BY <1>0, <1>1, <1>2, <1>12 DEF CompactEnd, Unpin
<1> QED
  BY <1>3, <1>4, <1>5, <1>6, <1>7, <1>8, <1>9, <1>10, <1>11, <1>12 DEF Compact
-----------------------------------------------------------------------------
\* Both for all clients.
LEMMA StepBuilds ==
  ASSUME RInv, NEW c \in Client, Step(c)
  PROVE  BuildersOK' /\ RoundOK'
<1>1. BuildersOK'
  <2>1. ASSUME NEW d \in Client, d # c
        PROVE  /\ d \notin Inserter \cup Compactor => built'[d] = {}
               /\ d \in Inserter => /\ built'[d] # {} => pc'[d] \in {"pinned", "written"}
                                    /\ \A r \in built'[d] : r[1] = TableOf[d]
               /\ d \in Compactor => /\ built'[d] # {} => pc'[d] \in {"merged", "compacted"} /\ held'[d] # {}
                                     /\ \A r \in built'[d] : r[1] \in ctable'
    <3>1. pc'[d] = pc[d] /\ built'[d] = built[d] /\ held'[d] = held[d]
      BY <2>1, StepFrame DEF RInv
    <3>2. d \in Compactor => ctable' = ctable
      BY <2>1, StatementFrame, CompactBuilds, RoleAssumption DEF RInv, Step
    <3> QED
      BY <3>1, <3>2 DEF RInv, BuildersOK
  <2>2. CASE Statement(c)
    BY <2>1, <2>2, StatementBuilds, StatementFrame DEF BuildersOK, RInv
  <2>3. CASE Compact(c)
    <3>1. c \in Compactor /\ c \notin Inserter
      BY <2>3, CompactBuilds, RoleAssumption DEF Txn
    <3> QED
      BY <2>1, <2>3, <3>1, CompactBuilds DEF BuildersOK
  <2> QED
    BY <2>2, <2>3 DEF Step
<1>2. RoundOK'
  <2>1. CASE Statement(c)
    <3>1. ctable' = ctable /\ ctables' = ctables /\ c \notin Compactor
      BY <2>1, StatementFrame DEF RInv
    <3>2. \A k \in Compactor : pc'[k] = pc[k] /\ held'[k] = held[k] /\ pin'[k] = pin[k]
      BY <3>1, StepFrame, RoleAssumption DEF RInv
    <3> QED
      BY <3>1, <3>2 DEF RInv, RoundOK
  <2>2. CASE Compact(c)
    <3>1. \A k \in Compactor : k = c
      BY <2>2, CompactBuilds, RoleAssumption
    <3> QED
      BY <2>2, <3>1, CompactBuilds DEF RoundOK
  <2> QED
    BY <2>1, <2>2 DEF Step
<1> QED
  BY <1>1, <1>2
-----------------------------------------------------------------------------
\* append_inner adds one row to the rows of the statement's RowSets.
LEMMA AppendAdds ==
  ASSUME RInv, NEW c \in Client, Append_inner(c)
  PROVE  LET x == Inserted[c][RowsOf(built[c]) + 1]
         IN  \E r \in Rowset, m \in Nat :
               /\ built' = [built EXCEPT ![c] = @ \cup {r}]
               /\ m \in DOMAIN contents'[r] /\ contents'[r][m] = x
               /\ r \in built[c] => m \notin DOMAIN contents[r]
               /\ \A q \in built[c] : \A j \in DOMAIN contents[q] :
                     j \in DOMAIN contents'[q] /\ contents'[q][j] = contents[q][j]
               /\ \A q \in built'[c] : \A j \in DOMAIN contents'[q] :
                     (q = r /\ j = m) \/ (q \in built[c] /\ j \in DOMAIN contents[q])
               /\ \A q \in Rowset : q # r => contents'[q] = contents[q]
<1> DEFINE x == Inserted[c][RowsOf(built[c]) + 1]
           Adds(r, m) ==
               /\ built' = [built EXCEPT ![c] = @ \cup {r}]
               /\ m \in DOMAIN contents'[r] /\ contents'[r][m] = x
               /\ r \in built[c] => m \notin DOMAIN contents[r]
               /\ \A q \in built[c] : \A j \in DOMAIN contents[q] :
                     j \in DOMAIN contents'[q] /\ contents'[q][j] = contents[q][j]
               /\ \A q \in built'[c] : \A j \in DOMAIN contents'[q] :
                     (q = r /\ j = m) \/ (q \in built[c] /\ j \in DOMAIN contents[q])
               /\ \A q \in Rowset : q # r => contents'[q] = contents[q]
<1> SUFFICES \E r \in Rowset, m \in Nat : Adds(r, m)
  OBVIOUS
<1>1. x \in Row
  BY AppendEffect
<1>2. PICK r \in Rowset :
         /\ built' = [built EXCEPT ![c] = @ \cup {r}]
         /\ contents' = [contents EXCEPT ![r] = IF r \in built[c] THEN Append(@, x) ELSE <<x>>]
  BY AppendEffect
<1>3. contents \in [Rowset -> Seq(Row)] /\ built \in [Client -> SUBSET Rowset]
  BY EngineTypes DEF RInv, EngineTypeOK
<1> HIDE DEF x
<1>4. built'[c] = built[c] \cup {r} /\ built[c] \subseteq Rowset
  BY <1>2, <1>3
<1>5. \A q \in Rowset : q # r => contents'[q] = contents[q]
  BY <1>2, <1>3
<1>6. CASE r \in built[c]
  <2> DEFINE m == Len(contents[r]) + 1
  <2>1. contents[r] \in Seq(Row) /\ contents'[r] = Append(contents[r], x)
    BY <1>2, <1>3, <1>6
  <2>2. /\ m \in Nat /\ m \notin DOMAIN contents[r] /\ m \in DOMAIN contents'[r] /\ contents'[r][m] = x
        /\ \A j \in DOMAIN contents[r] : j \in DOMAIN contents'[r] /\ contents'[r][j] = contents[r][j]
        /\ \A j \in DOMAIN contents'[r] : j = m \/ j \in DOMAIN contents[r]
    BY <1>1, <2>1
  <2> HIDE DEF m
  <2>3. \A q \in built[c] : \A j \in DOMAIN contents[q] :
           j \in DOMAIN contents'[q] /\ contents'[q][j] = contents[q][j]
    BY <1>4, <1>5, <2>2
  <2>4. \A q \in built'[c] : \A j \in DOMAIN contents'[q] :
           (q = r /\ j = m) \/ (q \in built[c] /\ j \in DOMAIN contents[q])
    BY <1>4, <1>5, <1>6, <2>2
  <2>5. Adds(r, m)
    BY <1>2, <1>5, <2>2, <2>3, <2>4
  <2> HIDE DEF Adds
  <2> QED
    BY <2>2, <2>5
<1>7. CASE r \notin built[c]
  <2>1. contents'[r] = <<x>>
    BY <1>2, <1>3, <1>7
  <2>2. /\ 1 \in Nat /\ 1 \in DOMAIN contents'[r] /\ contents'[r][1] = x
        /\ \A j \in DOMAIN contents'[r] : j = 1
    BY <2>1
  <2>3. \A q \in built[c] : \A j \in DOMAIN contents[q] :
           j \in DOMAIN contents'[q] /\ contents'[q][j] = contents[q][j]
    BY <1>4, <1>5, <1>7
  <2>4. \A q \in built'[c] : \A j \in DOMAIN contents'[q] :
           (q = r /\ j = 1) \/ (q \in built[c] /\ j \in DOMAIN contents[q])
    BY <1>4, <1>5, <2>2
  <2>5. Adds(r, 1)
    BY <1>2, <1>5, <1>7, <2>2, <2>3, <2>4
  <2> HIDE DEF Adds
  <2> QED
    BY <2>5
<1> QED
  BY <1>6, <1>7

\* The INSERT's own append.
LEMMA AppendKeeps ==
  ASSUME RInv, NEW c \in Client, Append_inner(c)
  PROVE  /\ \A q \in Rowset \ built'[c] : Range(contents'[q]) \cap Range(Inserted[c]) = {}
         /\ Unique(contents', built'[c])
         /\ IsFiniteSet(HandlersIn(built[c])')
         /\ RowsOf(built[c])' <= Len(Inserted[c])
         /\ RowsOf(built[c])' = Len(Inserted[c]) <=> pc'[c] = "written"
         /\ Stored(contents', built'[c]) = {Inserted[c][i] : i \in 1 .. RowsOf(built[c])'}
<1> DEFINE n == RowsOf(built[c]) + 1
           x == Inserted[c][n]
           H == HandlersIn(built[c])
           G == UNION {{q} \X DOMAIN contents'[q] : q \in built'[c]}
<1>1. /\ c \in Inserter /\ pc[c] = "pinned" /\ DOMAIN pc = Client
      /\ RowsOf(built[c]) \in Nat /\ n \in 1 .. Len(Inserted[c])
      /\ pc' = [pc EXCEPT ![c] = IF n = Len(Inserted[c]) THEN "written" ELSE "pinned"]
  BY AppendEffect DEF RInv, SInv, ProcTypeOK
<1>2. PICK r \in Rowset, m \in Nat :
         /\ built' = [built EXCEPT ![c] = @ \cup {r}]
         /\ m \in DOMAIN contents'[r] /\ contents'[r][m] = x
         /\ r \in built[c] => m \notin DOMAIN contents[r]
         /\ \A q \in built[c] : \A j \in DOMAIN contents[q] :
               j \in DOMAIN contents'[q] /\ contents'[q][j] = contents[q][j]
         /\ \A q \in built'[c] : \A j \in DOMAIN contents'[q] :
               (q = r /\ j = m) \/ (q \in built[c] /\ j \in DOMAIN contents[q])
         /\ \A q \in Rowset : q # r => contents'[q] = contents[q]
  BY AppendAdds
<1>3. /\ \A q \in Rowset \ built[c] : Range(contents[q]) \cap Range(Inserted[c]) = {}
      /\ Unique(contents, built[c]) /\ IsFiniteSet(H)
      /\ Stored(contents, built[c]) = {Inserted[c][i] : i \in 1 .. n - 1}
  <2>1. n - 1 = RowsOf(built[c])
    BY <1>1
  <2> QED
    BY <1>1, <2>1 DEF RInv, InsertOK
<1>4. built'[c] = built[c] \cup {r} /\ built[c] \subseteq Rowset
  BY <1>2, EngineTypes DEF RInv
<1>5. /\ Inserted[c] \in Seq(Row) /\ DOMAIN Inserted[c] = 1 .. Len(Inserted[c]) /\ Len(Inserted[c]) \in Nat
      /\ \A i, j \in DOMAIN Inserted[c] : Inserted[c][i] = Inserted[c][j] => i = j
  BY <1>1, RowAssumption, IdentityAssumption
<1>6. \A q \in built[c] : \A j \in DOMAIN contents[q] :
         contents[q][j] \in {Inserted[c][i] : i \in 1 .. n - 1}
  BY <1>3 DEF Stored, Range
<1>7. x \notin {Inserted[c][i] : i \in 1 .. n - 1}
  <2> SUFFICES ASSUME NEW i \in 1 .. n - 1, Inserted[c][i] = x PROVE FALSE
    OBVIOUS
  <2>1. i \in DOMAIN Inserted[c] /\ n \in DOMAIN Inserted[c] /\ i # n
    BY <1>1, <1>5
  <2> QED
    BY <1>5, <2>1
<1>8. {Inserted[c][i] : i \in 1 .. n} = {Inserted[c][i] : i \in 1 .. n - 1} \cup {x}
  <2>1. \A i : i \in 1 .. n <=> i \in 1 .. n - 1 \/ i = n
    BY <1>1
  <2> QED
    BY <2>1
<1> HIDE DEF x, H
<1>9. Unique(contents', built'[c])
  <2>1. ASSUME NEW p \in built'[c], NEW q \in built'[c],
               NEW i \in DOMAIN contents'[p], NEW j \in DOMAIN contents'[q],
               contents'[p][i] = contents'[q][j]
        PROVE  p[1] = q[1] => p = q /\ i = j
    BY <1>2, <1>3, <1>6, <1>7, <2>1 DEF Unique
  <2> QED
    BY <2>1 DEF Unique
<1>10. G = H \cup {<<r, m>>} /\ <<r, m>> \notin H
  <2>1. ASSUME NEW h PROVE h \in G <=> h \in H \/ h = <<r, m>>
    BY <1>2, <1>4 DEF HandlersIn, H
  <2> QED
    BY <1>2, <2>1 DEF HandlersIn, H
<1> HIDE DEF G
<1>11. IsFiniteSet(G) /\ Cardinality(G) = n
  BY <1>3, <1>10, FS_AddElement DEF RowsOf, H
<1>12. HandlersIn(built[c])' = G /\ RowsOf(built[c])' = n
  <2>1. HandlersIn(built[c])' = G
    BY DEF HandlersIn, G
  <2> QED
    BY <1>11, <2>1 DEF RowsOf
<1>13. Stored(contents', built'[c]) = {Inserted[c][i] : i \in 1 .. n}
  <2>1. ASSUME NEW y PROVE y \in Stored(contents', built'[c]) <=> y \in Stored(contents, built[c]) \/ y = x
    BY <1>2, <1>4 DEF Stored, Range
  <2> QED
    BY <1>3, <1>8, <2>1
<1>14. \A q \in Rowset \ built'[c] : Range(contents'[q]) \cap Range(Inserted[c]) = {}
  BY <1>2, <1>3, <1>4
<1>15. n <= Len(Inserted[c]) /\ (n = Len(Inserted[c]) <=> pc'[c] = "written")
  BY <1>1
<1> QED
  BY <1>9, <1>11, <1>12, <1>13, <1>14, <1>15
-----------------------------------------------------------------------------
\* A step of another client puts none of an INSERT's rows anywhere.
LEMMA OthersRows ==
  ASSUME RInv, NEW c \in Client, Step(c), NEW i \in Inserter, i # c,
         pc[i] \in {"start", "pinned", "written"}, NEW r \in Rowset \ built[i]
  PROVE  Range(contents'[r]) \cap Range(Inserted[i]) = {}
<1>0. /\ i \in Client /\ contents \in [Rowset -> Seq(Row)] /\ built \in [Client -> SUBSET Rowset]
      /\ \A q \in Rowset \ built[i] : Range(contents[q]) \cap Range(Inserted[i]) = {}
  <2>1. i \in Client
    BY RoleAssumption DEF Txn
  <2>2. contents \in [Rowset -> Seq(Row)] /\ built \in [Client -> SUBSET Rowset]
    BY EngineTypes DEF RInv, EngineTypeOK
  <2>3. \A q \in Rowset \ built[i] : Range(contents[q]) \cap Range(Inserted[i]) = {}
    BY DEF RInv, InsertOK
  <2> QED
    BY <2>1, <2>2, <2>3
<1>1. CASE Append_inner(c)
  <2> DEFINE n == RowsOf(built[c]) + 1
             x == Inserted[c][n]
  <2>1. c \in Inserter /\ n \in 1 .. Len(Inserted[c])
    BY <1>1, AppendEffect
  <2>2. PICK q \in Rowset :
           contents' = [contents EXCEPT ![q] = IF q \in built[c] THEN Append(@, x) ELSE <<x>>]
    BY <1>1, AppendEffect
  <2>3. x \notin Range(Inserted[i]) /\ x \in Row
    <3>1. n \in DOMAIN Inserted[c] /\ x \in Row
      BY <2>1, RowAssumption
    <3> QED
      BY <2>1, <3>1, IdentityAssumption DEF Range
  <2> HIDE DEF x
  <2>4. Range(contents'[r]) \subseteq Range(contents[r]) \cup {x}
    <3>1. contents[r] \in Seq(Row)
      BY <1>0
    <3>2. contents'[r] \in {contents[r], Append(contents[r], x), <<x>>}
      BY <1>0, <2>2
    <3>3. Range(Append(contents[r], x)) \subseteq Range(contents[r]) \cup {x}
      BY <2>3, <3>1 DEF Range
    <3>4. Range(<<x>>) \subseteq {x}
      BY DEF Range
    <3> QED
      BY <3>2, <3>3, <3>4
  <2> QED
    BY <1>0, <2>3, <2>4
<1>2. CASE WriteMerged(c)
  <2> DEFINE merged == Merged(SnapshotOf(c), held[c])
  <2>1. /\ c \in Compactor /\ pc[c] = "selected" /\ ctable # {}
        /\ contents' = contents \/ \E q \in Rowset : contents' = [contents EXCEPT ![q] = merged]
    BY <1>2, MergeEffect
  <2>2. PICK t : t \in ctable
    BY <2>1
  <2>3. Range(merged) = {RowAt(h) : h \in UNION {RowsIn(SnapshotOf(c), q) : q \in held[c]}}
    BY <2>1, <2>2, MergedRows
  <2>4. held[c] \subseteq Rowset /\ held[c] \subseteq SnapshotOf(c).rowsets /\ Pinned(c)
    BY <2>1, <2>2, MergeInputs
  <2>5. held[c] \cap built[i] = {}
    <3>1. pin[c] \in 1 .. epoch
      BY <2>4, PinRange DEF RInv, SInv, IInv
    <3>2. \A q \in built[i] : Fresh(i, q)
      BY <1>0, FreshRowset DEF RInv
    <3> QED
      BY <2>4, <3>1, <3>2 DEF Fresh, SnapshotOf
  <2>6. \A h \in UNION {RowsIn(SnapshotOf(c), q) : q \in held[c]} :
           \E q \in held[c] : RowAt(h) \in Range(contents[q])
    BY <1>0, <2>4, VisibleIsStored DEF Range
  <2> HIDE DEF merged
  <2>7. Range(merged) \cap Range(Inserted[i]) = {}
    BY <1>0, <2>3, <2>4, <2>5, <2>6
  <2>8. contents'[r] = contents[r] \/ contents'[r] = merged
    BY <1>0, <2>1
  <2> QED
    BY <1>0, <2>7, <2>8
<1> QED
  BY <1>0, <1>1, <1>2, ProcFrame

\* A step of another client leaves an INSERT's RowSets as they are.
LEMMA OthersRowsets ==
  ASSUME RInv, NEW c \in Client, Step(c), NEW d \in Client, d # c
  PROVE  /\ built'[d] = built[d]
         /\ \A r \in built[d] : contents'[r] = contents[r]
         /\ HandlersIn(built[d])' = HandlersIn(built[d])
         /\ Stored(contents', built'[d]) = Stored(contents, built[d])
         /\ Unique(contents, built[d]) => Unique(contents', built'[d])
<1>1. built'[d] = built[d] /\ built[d] \subseteq Rowset
  BY StepFrame, EngineTypes DEF RInv
<1>2. \A r \in built[d] : contents'[r] = contents[r]
  BY <1>1, ContentsFrame DEF Fresh
<1>3. HandlersIn(built[d])' = HandlersIn(built[d])
  BY <1>1, <1>2 DEF HandlersIn
<1>4. Stored(contents', built'[d]) = Stored(contents, built[d])
  BY <1>1, <1>2 DEF Stored
<1>5. Unique(contents, built[d]) => Unique(contents', built'[d])
  BY <1>1, <1>2 DEF Unique
<1> QED
  BY <1>1, <1>2, <1>3, <1>4, <1>5

\* Every step keeps InsertOK: only append_inner writes to an INSERT's RowSets.
LEMMA StepInserts ==
  ASSUME RInv, NEW c \in Client, Step(c)
  PROVE  InsertOK'
<1> SUFFICES ASSUME NEW i \in Inserter, pc'[i] \in {"start", "pinned", "written"}
             PROVE  /\ \A r \in Rowset \ built'[i] : Range(contents'[r]) \cap Range(Inserted[i]) = {}
                    /\ Unique(contents', built'[i])
                    /\ IsFiniteSet(HandlersIn(built[i])')
                    /\ RowsOf(built[i])' <= Len(Inserted[i])
                    /\ RowsOf(built[i])' = Len(Inserted[i]) <=> pc'[i] = "written"
                    /\ Stored(contents', built'[i]) = {Inserted[i][j] : j \in 1 .. RowsOf(built[i])'}
  BY DEF InsertOK
<1>0. i \in Client /\ DOMAIN pc = Client /\ InsertOK
  BY RoleAssumption DEF RInv, SInv, ProcTypeOK, Txn
<1>1. CASE i # c
  <2>1. pc'[i] = pc[i]
    BY <1>0, <1>1, StepFrame DEF RInv
  <2>2. /\ built'[i] = built[i] /\ HandlersIn(built[i])' = HandlersIn(built[i])
        /\ Stored(contents', built'[i]) = Stored(contents, built[i])
        /\ Unique(contents, built[i]) => Unique(contents', built'[i])
    BY <1>0, <1>1, OthersRowsets
  <2>3. RowsOf(built[i])' = RowsOf(built[i])
    BY <2>2 DEF RowsOf
  <2>4. \A r \in Rowset \ built'[i] : Range(contents'[r]) \cap Range(Inserted[i]) = {}
    BY <1>1, <2>1, <2>2, OthersRows
  <2> QED
    BY <1>0, <2>1, <2>2, <2>3, <2>4 DEF InsertOK
<1>2. CASE i = c
  <2>1. i \notin Deleter \cup Scan \cup Reader \cup Dropper \cup Compactor
    BY RoleAssumption DEF Txn
  <2>2. CASE Append_inner(c)
    BY <1>2, <2>2, AppendKeeps
  <2>3. CASE ~ Append_inner(c)
    <3>1. Statement(c)
      BY <1>2, <2>1, CompactBuilds DEF Step
    <3>2. ~ InsertCommit(c) /\ ~ TxnCommitted(c) /\ ~ InsertEnd(c)
      BY <1>0, <1>2 DEF InsertCommit, TxnCommitted, InsertEnd, EndTxn, Goto
    <3>3. StartTxn(c)
      BY <1>2, <2>1, <2>3, <3>1, <3>2
         DEF Statement, Scan_inner, ScanDone, ScanEnd, LockForDeletion, Delete, WriteDv, DeleteCommit,
             DeleteAbort, Unlock, DeleteEnd, ApplyDrop, DropPin, DropCommit, DropCommitted, DropEnd
    <3>4. pc[i] = "start" /\ pc'[i] = "pinned" /\ contents' = contents /\ built' = built
      BY <1>0, <1>2, <3>3 DEF StartTxn, Goto, Pin, vmvars, clients
    <3>5. HandlersIn(built[i])' = HandlersIn(built[i])
      BY <3>4 DEF HandlersIn
    <3>6. RowsOf(built[i])' = RowsOf(built[i])
      BY <3>5 DEF RowsOf
    <3> QED
      BY <1>0, <3>4, <3>5, <3>6 DEF InsertOK
  <2> QED
    BY <2>2, <2>3
<1> QED
  BY <1>1, <1>2

-----------------------------------------------------------------------------
\* Some of a set of RowSets.
LEMMA UniqueSub ==
  ASSUME NEW f, NEW S, NEW T, Unique(f, S), T \subseteq S
  PROVE  Unique(f, T)
BY DEF Unique

\* The same rows in other contents.
LEMMA UniqueSame ==
  ASSUME NEW f, NEW g, NEW S, Unique(f, S), \A r \in S : g[r] = f[r]
  PROVE  Unique(g, S)
BY DEF Unique

\* Two sets of RowSets that share no row of a table.
LEMMA UniqueUnion ==
  ASSUME NEW f, NEW S, NEW T, Unique(f, S), Unique(f, T),
         \A r \in S, q \in T : r[1] = q[1] => Range(f[r]) \cap Range(f[q]) = {}
  PROVE  Unique(f, S \cup T)
<1> SUFFICES ASSUME NEW r \in S \cup T, NEW q \in S \cup T, r[1] = q[1],
                    NEW i \in DOMAIN f[r], NEW j \in DOMAIN f[q], f[r][i] = f[q][j]
             PROVE  r = q /\ i = j
  BY DEF Unique
<1>1. f[r][i] \in Range(f[r]) /\ f[r][i] \in Range(f[q])
  BY DEF Range
<1>2. (r \in S /\ q \in S) \/ (r \in T /\ q \in T)
  BY <1>1
<1> QED
  BY <1>2 DEF Unique

\* A published snapshot never changes.
LEMMA StatusKept ==
  ASSUME SInv, NEW c \in Client, Step(c)
  PROVE  /\ epoch \in 1 .. epoch /\ epoch \in Nat /\ epoch' \in Nat /\ epoch <= epoch'
         /\ \A e \in 1 .. epoch : status'[e] = status[e]
         /\ \A d \in Client : Pinned(d) => pin[d] \in 1 .. epoch
<1>1. /\ epoch \in 1 .. epoch /\ epoch \in Nat /\ \A d \in Client : Pinned(d) => pin[d] \in 1 .. epoch
  BY PinRange DEF SInv, IInv
<1>2. CASE UNCHANGED <<epoch, status>>
  BY <1>1, <1>2
<1>3. CASE CommitFinish(c)
  <2>1. status \in [Epoch -> Snapshot] /\ \A e \in 1 .. epoch : e \in Epoch /\ e # epoch + 1
    <3>1. status \in [Epoch -> Snapshot] /\ \A e \in 1 .. epoch : e \in Epoch
      BY EngineTypes, RowsetTypes DEF SInv, IInv
    <3> QED
      BY <1>1, <3>1
  <2> QED
    BY <1>1, <1>3, <2>1 DEF CommitFinish
<1>4. CASE CommitFail(c)
  BY <1>1, <1>4 DEF CommitFail, inner
<1> QED
  BY <1>2, <1>3, <1>4, VMFrame DEF TxnCommitted, DropCommitted, CompactCommitted

\* A round of the compactor has never more tables to compact than before.
LEMMA OpenShrinks ==
  ASSUME RInv, NEW c \in Client, Step(c), NEW k \in Compactor, pin'[k] = pin[k], Pinned(k)
  PROVE  Open(k)' \subseteq Open(k)
<1>0. k \in Client /\ DOMAIN pc = Client /\ \A j \in Compactor : j = k
  BY RoleAssumption DEF RInv, SInv, ProcTypeOK
<1>1. CASE Statement(c)
  <2>1. ctable' = ctable /\ ctables' = ctables /\ c # k
    BY <1>1, StatementFrame DEF RInv
  <2>2. pc'[k] = pc[k]
    BY <1>0, <2>1, StepFrame DEF RInv
  <2> QED
    BY <2>1, <2>2 DEF Open
<1>2. CASE Compact(c)
  <2>0. c = k
    BY <1>0, <1>2, CompactBuilds
  <2> USE DEF Open, Goto, compacting
  <2>1. CASE CompactStart(c) \/ CompactPin(c) \/ CompactEnd(c)
    <3>1. pin[k] # 0 /\ (pc[k] \in {"start", "cloned"} => pin[k] = 0) /\ pin \in [Client -> 0 .. MaxEpoch]
      BY <1>0, EngineTypes DEF Pinned, RInv, RoundOK
    <3>2. CompactEnd(c)
      BY <2>0, <2>1, <3>1 DEF CompactStart, CompactPin
    <3>3. pin'[k] = 0
      BY <1>0, <2>0, <3>1, <3>2 DEF CompactEnd, Unpin
    <3> QED
      BY <3>1, <3>3
  <2>2. CASE TryLock(c)
    <3>1. ctable = {}
      BY <2>0, <2>2 DEF TryLock, RInv, RoundOK
    <3>2. \E t \in ctables : ctables' = ctables \ {t} /\ (ctable' = {t} \/ ctable' = ctable)
      BY <2>2 DEF TryLock
    <3> QED
      BY <3>1, <3>2
  <2>3. CASE Select(c)
    BY <1>0, <2>0, <2>3 DEF Select
  <2>4. CASE WriteMerged(c)
    BY <1>0, <2>0, <2>4 DEF WriteMerged
  <2>5. CASE CompactError(c)
    BY <1>0, <2>0, <2>5 DEF CompactError
  <2>6. CASE CompactCommit(c)
    BY <1>0, <2>0, <2>6 DEF CompactCommit
  <2>7. CASE CompactCommitted(c)
    BY <1>0, <2>0, <2>7 DEF CompactCommitted
  <2>8. CASE CompactRelease(c)
    BY <1>0, <2>0, <2>8 DEF CompactRelease
  <2> QED
    BY <1>2, <2>1, <2>2, <2>3, <2>4, <2>5, <2>6, <2>7, <2>8 DEF Compact
<1> QED
  BY <1>1, <1>2 DEF Step

\* RowSets of published snapshots and of commits are RowSets, and keep their rows.
LEMMA CommittedKept ==
  ASSUME RInv, NEW c \in Client, Step(c)
  PROVE  /\ \A e \in 1 .. epoch : \A r \in status[e].rowsets : r \in Rowset /\ contents'[r] = contents[r]
         /\ \A d \in Client : \A r \in pending[d].rowsets : r \in Rowset /\ contents'[r] = contents[r]
<1>1. /\ \A e \in 1 .. epoch : status[e].rowsets \subseteq Rowset
      /\ \A d \in Client : pending[d].rowsets \subseteq Rowset
  BY RowsetTypes DEF RInv, SInv, IInv
<1> QED
  BY <1>1, ContentsFrame DEF Fresh

=============================================================================
