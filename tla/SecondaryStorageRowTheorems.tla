--------------------- MODULE SecondaryStorageRowTheorems ---------------------
(***************************************************************************)
(* Proofs about SecondaryStorage, fourth part: the rows that a commit adds *)
(* are in no other RowSet of the new snapshot; RInv is inductive, so that  *)
(* no row is ever shown twice and every recovered RowSet that is live is   *)
(* of a table that can be reopened.                                        *)
(***************************************************************************)
EXTENDS SecondaryStorageInsertProofs

\* A leaf is tried with Zenon and then with the SMT solver.
USE ZenonT(5), SMTT(20)

\* A DV of a published snapshot or of a commit is never written again.
LEMMA DvKept ==
  ASSUME RInv, NEW c \in Client, Step(c), NEW v, v[2] < next_dv
  PROVE  dv_rows'[v] = dv_rows[v]
<1>1. next_dv \in Nat
  BY EngineTypes DEF RInv
<1>2. CASE WriteDv(c)
  <2>1. PICK r : dv_rows' = [dv_rows EXCEPT ![<<r, next_dv>>] = Deletes(c, r)]
    BY <1>2 DEF WriteDv
  <2>2. v # <<r, next_dv>>
    BY <1>1
  <2> DEFINE w == <<r, next_dv>>
             D == Deletes(c, r)
  <2>3. dv_rows' = [dv_rows EXCEPT ![w] = D] /\ v # w
    BY <2>1, <2>2
  <2>4. dv_rows \in [Dv -> SUBSET Nat]
    BY DEF RInv, EngineTypeOK
  <2> HIDE DEF w, D
  <2> QED
    BY <2>3, <2>4
<1> QED
  BY <1>2, ProcFrame

\* What a published snapshot shows of a RowSet never changes.
LEMMA SnapshotRows ==
  ASSUME RInv, NEW c \in Client, Step(c), NEW e \in 1 .. epoch, NEW r \in status[e].rowsets
  PROVE  /\ contents'[r] = contents[r]
         /\ RowsIn(status[e], r)' = RowsIn(status[e], r)
<1>1. status'[e] = status[e] /\ contents'[r] = contents[r]
  BY StatusKept, CommittedKept DEF RInv
<1>2. \A v \in DvsOf(status[e], r) : dv_rows'[v] = dv_rows[v]
  BY DvKept DEF DvsOf, RInv, DvIdsUsed
<1>3. DvsOf(status[e], r)' = DvsOf(status[e], r)
  BY <1>1 DEF DvsOf
<1>4. UNION {dv_rows'[d] : d \in DvsOf(status[e], r)'} = UNION {dv_rows[d] : d \in DvsOf(status[e], r)}
  BY <1>2, <1>3
<1> QED
  BY <1>1, <1>4 DEF RowsIn

\* The rows that the compactor is to merge.
Inputs(k) == {RowAt(h) : h \in UNION {RowsIn(SnapshotOf(k), r) : r \in held[k]}}

\* What a compaction reads stays the same as long as it holds its inputs.
LEMMA InputsKept ==
  ASSUME RInv, NEW c \in Client, Step(c), NEW k \in Client,
         pin'[k] = pin[k], held'[k] = held[k]
  PROVE  Inputs(k)' = Inputs(k)
<1>1. ASSUME NEW r \in held[k]
      PROVE  RowsIn(SnapshotOf(k), r)' = RowsIn(SnapshotOf(k), r) /\ contents'[r] = contents[r]
  <2>1. Pinned(k) /\ r \in SnapshotOf(k).rowsets
    BY DEF RInv, SInv, IInv, PinsOK
  <2>2. pin[k] \in 1 .. epoch
    BY <2>1, StatusKept DEF RInv
  <2>3. r \in status[pin[k]].rowsets
    BY <2>1 DEF SnapshotOf
  <2> DEFINE e == pin[k]
  <2>4. PICK p \in 1 .. epoch : p = e
    BY <2>2
  <2>5. RowsIn(status[p], r)' = RowsIn(status[p], r) /\ contents'[r] = contents[r]
    BY <2>3, <2>4, SnapshotRows
  <2>6. SnapshotOf(k) = status[p] /\ SnapshotOf(k)' = status'[p]
    BY <2>4 DEF SnapshotOf
  <2> QED
    BY <2>5, <2>6 DEF RowsIn
<1>2. \A r \in held[k] : \A h \in RowsIn(SnapshotOf(k), r) : h[1] = r
  BY DEF RowsIn
<1>3. ASSUME NEW y PROVE y \in Inputs(k)' <=> y \in Inputs(k)
  <2>1. y \in Inputs(k) <=> \E r \in held[k] : \E h \in RowsIn(SnapshotOf(k), r) : y = contents[h[1]][h[2]]
    BY DEF Inputs, RowAt
  <2>2. y \in Inputs(k)' <=>
           \E r \in held[k] : \E h \in RowsIn(SnapshotOf(k), r)' : y = contents'[h[1]][h[2]]
    BY DEF Inputs, RowAt
  <2> QED
    BY <1>1, <1>2, <2>1, <2>2
<1> QED
  BY <1>3

\* Every step keeps MergeOK: compact_table writes what its snapshot shows of the inputs.
LEMMA StepMerges ==
  ASSUME RInv, NEW c \in Client, Step(c)
  PROVE  MergeOK'
<1> SUFFICES ASSUME NEW k \in Compactor, pc'[k] = "merged"
             PROVE  Unique(contents', built'[k]) /\ Stored(contents', built'[k]) = Inputs(k)'
  BY DEF MergeOK, Inputs
<1>0. k \in Client /\ DOMAIN pc = Client /\ built \in [Client -> SUBSET Rowset]
  BY RoleAssumption, EngineTypes DEF RInv
<1>1. CASE c # k
  <2>1. pc'[k] = pc[k] /\ pin'[k] = pin[k] /\ held'[k] = held[k]
    BY <1>0, <1>1, StepFrame DEF RInv
  <2>2. Inputs(k)' = Inputs(k)
    BY <1>0, <2>1, InputsKept
  <2>3. Unique(contents, built[k]) /\ Stored(contents, built[k]) = Inputs(k)
    BY <2>1 DEF RInv, MergeOK, Inputs
  <2> QED
    BY <1>0, <1>1, <2>2, <2>3, OthersRowsets
<1>2. CASE c = k
  <2>1. Compact(k)
    BY <1>2, StatementFrame DEF Step, RInv
  <2>2. WriteMerged(k)
    <3>1. ~ CompactStart(k) /\ ~ CompactPin(k) /\ ~ CompactError(k) /\ ~ CompactCommit(k) /\ ~ CompactCommitted(k)
      BY <1>0 DEF CompactStart, CompactPin, CompactError, CompactCommit, CompactCommitted, Goto
    <3>2. ~ TryLock(k) /\ ~ Select(k)
      BY <1>0 DEF TryLock, Select, Goto
    <3>3. ~ CompactRelease(k) /\ ~ CompactEnd(k)
      BY <1>0 DEF CompactRelease, CompactEnd, Goto
    <3> QED
      BY <2>1, <3>1, <3>2, <3>3 DEF Compact
  <2> DEFINE merged == Merged(SnapshotOf(k), held[k])
  <2>3. /\ pc[k] = "selected" /\ ctable # {} /\ pin' = pin /\ held' = held
        /\ \/ merged = <<>> /\ contents' = contents /\ built' = built
           \/ \E r \in Rowset : /\ built' = [built EXCEPT ![k] = @ \cup {r}]
                                /\ contents' = [contents EXCEPT ![r] = merged]
    BY <1>0, <2>2, MergeEffect
  <2>4. built[k] = {} /\ contents \in [Rowset -> Seq(Row)]
    BY <1>0, <2>3 DEF RInv, BuildersOK, EngineTypeOK
  <2>5. PICK t : t \in ctable
    BY <2>3
  <2>6. Range(merged) = Inputs(k) /\ \A i, j \in DOMAIN merged : merged[i] = merged[j] => i = j
    BY <2>3, <2>5, MergedRows DEF Inputs
  <2>7. Inputs(k)' = Inputs(k)
    BY <1>0, <1>2, <2>3, InputsKept
  <2> HIDE DEF merged
  <2>8. CASE merged = <<>> /\ built' = built
    BY <2>4, <2>6, <2>7, <2>8 DEF Unique, Stored, Range
  <2>9. ASSUME NEW r \in Rowset, built' = [built EXCEPT ![k] = @ \cup {r}],
               contents' = [contents EXCEPT ![r] = merged]
        PROVE  Unique(contents', built'[k]) /\ Stored(contents', built'[k]) = Inputs(k)'
    <3>1. built'[k] = {r} /\ contents'[r] = merged
      BY <1>0, <2>4, <2>9
    <3> QED
      BY <2>6, <2>7, <3>1 DEF Unique, Stored
  <2> QED
    BY <2>3, <2>8, <2>9
<1> QED
  BY <1>1, <1>2
-----------------------------------------------------------------------------
\* At most one client has a commit that is not published, the one with the manifest
\* lock.
LEMMA OneCommit ==
  ASSUME SInv, NEW d \in Client, manifest_lock # d
  PROVE  pending[d] = NoCommit /\ pending[d].rowsets = {}
BY DEF SInv, IInv, CommitsOK, NoCommit

\* Steps that publish nothing, and commits that add no RowSet.
LEMMA QuietDistinct ==
  ASSUME RInv, NEW c \in Client, Step(c), UNCHANGED <<epoch, status>>,
         \A d \in Client : \/ pending'[d].rowsets \subseteq pending[d].rowsets
                           \/ pending'[d].rowsets \subseteq status[epoch].rowsets
  PROVE  DistinctOK'
<1> DEFINE now == status[epoch].rowsets
<1>0. DistinctOK /\ epoch \in 1 .. epoch
  BY StatusKept DEF RInv
<1>1. /\ \A r \in now : contents'[r] = contents[r]
      /\ \A d \in Client : \A r \in pending[d].rowsets : contents'[r] = contents[r]
      /\ \A d \in Client : Pinned(d) => \A r \in SnapshotOf(d).rowsets : contents'[r] = contents[r]
  BY <1>0, CommittedKept, StatusKept DEF RInv, SnapshotOf
<1>2. Unique(contents', now)
  BY <1>0, <1>1, UniqueSame DEF DistinctOK
<1>3. ASSUME NEW d \in Client PROVE Unique(contents', pending'[d].rowsets)
  <2>1. Unique(contents', pending[d].rowsets)
    BY <1>0, <1>1, UniqueSame DEF DistinctOK
  <2> QED
    BY <1>2, <2>1, UniqueSub
<1>4. ASSUME NEW d \in Client \ Compactor PROVE Unique(contents', now \cup pending'[d].rowsets)
  <2>1. Unique(contents', now \cup pending[d].rowsets)
    BY <1>0, <1>1, UniqueSame DEF DistinctOK
  <2>2. now \cup pending'[d].rowsets \subseteq now \cup pending[d].rowsets
    OBVIOUS
  <2> QED
    BY <2>1, <2>2, UniqueSub
<1>5. ASSUME NEW k \in Compactor, NEW d \in Client, pin'[k] # 0 PROVE Unique(contents', Reach(k, d)')
  <2>0. k \in Client /\ pin \in [Client -> 0 .. MaxEpoch]
    BY RoleAssumption, EngineTypes DEF RInv
  <2>1. CASE pin'[k] = pin[k]
    <3>1. Pinned(k) /\ Open(k)' \subseteq Open(k)
      BY <1>5, <2>1, OpenShrinks DEF Pinned
    <3>2. Unique(contents, Reach(k, d))
      BY <1>0, <3>1 DEF DistinctOK
    <3>3. Unique(contents', Reach(k, d))
      BY <1>1, <2>0, <3>1, <3>2, UniqueSame DEF Reach
    <3>4. SnapshotOf(k)' = SnapshotOf(k)
      BY <2>1 DEF SnapshotOf
    <3>5. Reach(k, d)' \subseteq Reach(k, d)
      BY <3>1, <3>4 DEF Reach
    <3> QED
      BY <3>3, <3>5, UniqueSub
  <2>2. CASE pin'[k] # pin[k]
    <3>1. c = k /\ Pin(k)
      <4>1. c = k
        BY <2>0, <2>2, StepFrame DEF RInv
      <4>2. ~ Unpin(k)
        BY <1>5, <2>0 DEF Unpin
      <4> QED
        BY <2>2, <4>1, <4>2, VMFrame
    <3>2. SnapshotOf(k)' = status[epoch]
      BY <2>0, <3>1 DEF SnapshotOf, Pin
    <3>3. Reach(k, d)' \subseteq now \cup pending'[d].rowsets
      BY <3>2 DEF Reach
    <3>4. CASE d \notin Compactor
      BY <1>4, <3>3, <3>4, UniqueSub
    <3>5. CASE d \in Compactor
      <4>1. d = k
        BY <3>5, RoleAssumption
      <4>2. manifest_lock # k
        BY <2>0, <3>1 DEF RInv, SInv, IInv, CommitsOK, Pin, Pinned
      <4>3. pending[k].rowsets = {}
        BY <2>0, <4>2, OneCommit DEF RInv
      <4>4. pending'[d].rowsets \subseteq now
        BY <4>1, <4>3
      <4>5. Reach(k, d)' \subseteq now
        BY <3>3, <4>4
      <4> QED
        BY <1>2, <4>5, UniqueSub
    <3> QED
      BY <3>4, <3>5
  <2> QED
    BY <2>1, <2>2
<1>6. status'[epoch'].rowsets = now
  OBVIOUS
<1> QED
  BY <1>2, <1>3, <1>4, <1>5, <1>6 DEF DistinctOK, Pinned
-----------------------------------------------------------------------------
\* What the first half of a commit does.
LEMMA ApplyEffect ==
  ASSUME RInv, NEW c \in Client, NEW t, NEW deleted, NEW old_dvs, NEW last,
         CommitApply(c, t, deleted, old_dvs, last)
  PROVE  /\ Pinned(c) /\ UNCHANGED <<epoch, status, pin>>
         /\ \A d \in Client : pending[d] = NoCommit /\ pending[d].rowsets = {}
         /\ pending'[c] = Applied(c, deleted, old_dvs)
         /\ pending'[c].rowsets = (status[epoch].rowsets \cup built[c]) \ deleted
         /\ \A d \in Client : d # c => pending'[d] = pending[d]
<1>1. pending \in [Client -> Commit]
  BY EngineTypes DEF RInv
<1>2. \A d \in Client : manifest_lock # d
  BY ClientAssumption DEF CommitApply, ManifestFree
<1>3. \A d \in Client : pending[d] = NoCommit /\ pending[d].rowsets = {}
  BY <1>2, OneCommit DEF RInv
<1> QED
  BY <1>1, <1>3 DEF CommitApply, Applied

\* An INSERT adds RowSets with rows that nobody else has.
LEMMA InsertDistinct ==
  ASSUME RInv, NEW c \in Client, InsertCommit(c)
  PROVE  DistinctOK'
<1> DEFINE now == status[epoch].rowsets
           new == now \cup built[c]
<1>0. c \in Inserter /\ pc[c] = "written" /\ Step(c)
  BY DEF InsertCommit, Step, Statement
<1>1. /\ UNCHANGED <<epoch, status, pin, contents>>
      /\ \A d \in Client : pending[d].rowsets = {}
      /\ pending'[c].rowsets = new /\ \A d \in Client : d # c => pending'[d].rowsets = {}
  BY ApplyEffect DEF InsertCommit
<1>2. /\ epoch \in 1 .. epoch /\ DistinctOK
      /\ \A d \in Client : Pinned(d) => pin[d] \in 1 .. epoch
  BY <1>0, StatusKept DEF RInv
<1>3. /\ Unique(contents, built[c])
      /\ Stored(contents, built[c]) \subseteq Range(Inserted[c])
      /\ \A r \in Rowset \ built[c] : Range(contents[r]) \cap Range(Inserted[c]) = {}
  <2>1. /\ Unique(contents, built[c])
        /\ \A r \in Rowset \ built[c] : Range(contents[r]) \cap Range(Inserted[c]) = {}
        /\ RowsOf(built[c]) = Len(Inserted[c])
        /\ Stored(contents, built[c]) = {Inserted[c][i] : i \in 1 .. RowsOf(built[c])}
    BY <1>0 DEF RInv, InsertOK
  <2>2. DOMAIN Inserted[c] = 1 .. Len(Inserted[c])
    BY <1>0, RowAssumption
  <2> QED
    BY <2>1, <2>2 DEF Range
<1>4. ASSUME NEW S, S \subseteq Rowset, S \cap built[c] = {}, Unique(contents, S)
      PROVE  Unique(contents, S \cup built[c])
  <2>1. \A r \in S, q \in built[c] : Range(contents[r]) \cap Range(contents[q]) = {}
    BY <1>3, <1>4 DEF Stored
  <2> QED
    BY <1>3, <1>4, <2>1, UniqueUnion
<1>5. \A e \in 1 .. epoch : status[e].rowsets \subseteq Rowset /\ status[e].rowsets \cap built[c] = {}
  BY RowsetTypes DEF RInv, SInv, IInv, BuiltFresh
<1>6. Unique(contents, now) /\ Unique(contents, new)
  BY <1>2, <1>4, <1>5 DEF DistinctOK
<1>7. ASSUME NEW d \in Client
      PROVE  Unique(contents, pending'[d].rowsets) /\ Unique(contents, now \cup pending'[d].rowsets)
  BY <1>1, <1>6, UniqueSub
<1>8. ASSUME NEW k \in Compactor, NEW d \in Client, Pinned(k) PROVE Unique(contents, Reach(k, d)')
  <2>0. k \in Client /\ k # c
    BY <1>0, RoleAssumption DEF Txn
  <2>1. pin[k] \in 1 .. epoch /\ SnapshotOf(k)' = SnapshotOf(k) /\ Open(k)' \subseteq Open(k)
    BY <1>0, <1>1, <1>2, <1>8, <2>0, OpenShrinks DEF SnapshotOf
  <2>2. Unique(contents, Reach(k, d))
    BY <1>2, <1>8 DEF DistinctOK
  <2>3. Reach(k, d) \subseteq Rowset /\ Reach(k, d) \cap built[c] = {}
    BY <1>1, <1>2, <1>5, <2>1 DEF Reach, SnapshotOf
  <2>4. Unique(contents, Reach(k, d) \cup built[c])
    BY <1>4, <2>2, <2>3
  <2>5. Reach(k, d)' \subseteq Reach(k, d) \cup built[c]
    BY <1>1, <2>1 DEF Reach
  <2> QED
    BY <2>4, <2>5, UniqueSub
<1> QED
  BY <1>1, <1>6, <1>7, <1>8 DEF DistinctOK, Pinned

\* A compaction replaces its inputs by a RowSet with their rows.  The inputs left over
\* in the current snapshot are all of the table's RowSets that could have these rows.
LEMMA CompactDistinct ==
  ASSUME RInv, NEW k \in Client, CompactCommit(k)
  PROVE  DistinctOK'
<1>1. PICK t \in ctable : \E last :
         CommitApply(k, t, held[k], {}, last) \/ CommitPanic(k, t, held[k], last)
  BY DEF CompactCommit, Replaces
<1>2. CASE \E last : CommitPanic(k, t, held[k], last)
  BY <1>2, QuietDistinct DEF CommitPanic, Step, Compact
<1>3. CASE \E last : CommitApply(k, t, held[k], {}, last)
  <2> DEFINE now == status[epoch].rowsets
             left == now \ held[k]
             new == (now \cup built[k]) \ held[k]
  <2>0. k \in Compactor /\ pc[k] = "merged" /\ Step(k) /\ contents' = contents
    BY DEF CompactCommit, Step, Compact
  <2>1. /\ UNCHANGED <<epoch, status, pin>>
        /\ \A d \in Client : pending[d].rowsets = {}
        /\ pending'[k].rowsets = new /\ \A d \in Client : d # k => pending'[d].rowsets = {}
    <3>1. PICK last : CommitApply(k, t, held[k], {}, last)
      BY <1>3
    <3>2. /\ UNCHANGED <<epoch, status, pin>>
          /\ \A d \in Client : pending[d].rowsets = {}
          /\ pending'[k].rowsets = (status[epoch].rowsets \cup built[k]) \ held[k]
          /\ \A d \in Client : d # k => pending'[d] = pending[d]
      BY <3>1, ApplyEffect
    <3> QED
      BY <3>2
  <2>2. /\ epoch \in 1 .. epoch /\ DistinctOK
        /\ \A d \in Client : Pinned(d) => pin[d] \in 1 .. epoch
    BY <2>0, StatusKept DEF RInv
  <2>3. /\ t \in Open(k) /\ Pinned(k) /\ held[k] \subseteq Rowset /\ \A p \in held[k] : p[1] = t
        /\ held[k] \subseteq SnapshotOf(k).rowsets
    BY <2>0, MergeInputs
  <2>4. Unique(contents, Reach(k, k))
    BY <2>0, <2>2, <2>3 DEF DistinctOK
  <2>5. Unique(contents, built[k]) /\ Stored(contents, built[k]) = Inputs(k)
    BY <2>0 DEF RInv, MergeOK, Inputs
  <2>6. \A y \in Inputs(k) : \E p \in held[k] : y \in Range(contents[p])
    <3>1. contents \in [Rowset -> Seq(Row)]
      BY DEF RInv, EngineTypeOK
    <3> QED
      BY <2>3, <3>1, VisibleIsStored DEF Inputs, Range
  <2>7. /\ \A q \in built[k] : q[1] = t
        /\ \A u \in ctable : u = t
        /\ ctable \cap ctables = {}
    BY <2>0 DEF RInv, BuildersOK, RoundOK, SInv, ProcTypeOK
  <2>8. ASSUME NEW r \in left, NEW q \in built[k], r[1] = q[1]
        PROVE  Range(contents[r]) \cap Range(contents[q]) = {}
    <3> SUFFICES ASSUME NEW y \in Range(contents[r]), y \in Range(contents[q]) PROVE FALSE
      OBVIOUS
    <3>1. PICK p \in held[k] : y \in Range(contents[p])
      BY <2>5, <2>6 DEF Stored
    <3>2. r[1] = t /\ p[1] = t /\ r # p
      BY <2>3, <2>7, <2>8
    <3>3. r \in Reach(k, k) /\ p \in Reach(k, k)
      BY <2>3, <3>2 DEF Reach
    <3>4. PICK i \in DOMAIN contents[r], j \in DOMAIN contents[p] : contents[r][i] = contents[p][j]
      BY <3>1 DEF Range
    <3> QED
      BY <2>4, <3>2, <3>3, <3>4 DEF Unique
  <2>9. Unique(contents, now) /\ Unique(contents, new)
    <3>1. Unique(contents, now) /\ Unique(contents, left)
      BY <2>2, UniqueSub DEF DistinctOK
    <3>2. Unique(contents, left \cup built[k])
      BY <2>5, <2>8, <3>1, UniqueUnion
    <3>3. new \subseteq left \cup built[k]
      OBVIOUS
    <3> QED
      BY <3>1, <3>2, <3>3, UniqueSub
  <2>10. ASSUME NEW d \in Client PROVE Unique(contents, pending'[d].rowsets)
    <3>1. Unique(contents, {})
      BY DEF Unique
    <3> QED
      BY <2>1, <2>9, <3>1
  <2>11. ASSUME NEW d \in Client \ Compactor PROVE Unique(contents, now \cup pending'[d].rowsets)
    BY <2>0, <2>1, <2>9
  <2>12. ASSUME NEW j \in Compactor, NEW d \in Client PROVE Unique(contents, Reach(j, d)')
    <3>1. j = k /\ SnapshotOf(k)' = SnapshotOf(k)
      BY <2>0, <2>1, RoleAssumption DEF SnapshotOf
    <3>2. Unique(contents, Reach(k, d))
      BY <2>0, <2>2, <2>3 DEF DistinctOK
    <3>3. pc'[k] \in {"committing", "dying"} /\ ctables' = ctables
      BY DEF CompactCommit, Goto, compacting, RInv, SInv, ProcTypeOK
    <3>4. Open(k)' = ctables /\ ctables \subseteq Open(k)
      BY <3>3 DEF Open
    <3>5. \A q \in built[k] : q[1] \notin ctables
      BY <2>7
    <3>6. Reach(k, d)' \subseteq Reach(k, d)
      BY <2>1, <3>1, <3>4, <3>5 DEF Reach
    <3> QED
      BY <3>1, <3>2, <3>6, UniqueSub
  <2> QED
    BY <2>0, <2>1, <2>9, <2>10, <2>11, <2>12 DEF DistinctOK
<1> QED
  BY <1>1, <1>2, <1>3
-----------------------------------------------------------------------------
\* The snapshot that a commit publishes is the one it has prepared.
LEMMA FinishDistinct ==
  ASSUME RInv, NEW c \in Client, Step(c), CommitFinish(c), contents' = contents
  PROVE  DistinctOK'
<1> DEFINE next == pending[c].rowsets
<1>1. /\ epoch' = epoch + 1 /\ status'[epoch + 1].rowsets = next /\ pin' = pin
      /\ \A d \in Client : pending'[d].rowsets = {}
  <2>1. /\ pending \in [Client -> Commit] /\ status \in [Epoch -> Snapshot] /\ epoch + 1 \in Epoch
    BY BoundAssumption, EngineTypes DEF RInv, CommitFinish, Epoch
  <2>2. \A d \in Client : d # c => pending[d].rowsets = {}
    BY OneCommit DEF RInv, CommitFinish
  <2>3. /\ epoch' = epoch + 1 /\ pin' = pin
        /\ status' = [status EXCEPT ![epoch + 1] = [rowsets |-> next, dvs |-> pending[c].dvs]]
        /\ pending' = [pending EXCEPT ![c] = NoCommit]
    BY DEF CommitFinish, clients
  <2>4. status'[epoch + 1] = [rowsets |-> next, dvs |-> pending[c].dvs]
    BY <2>1, <2>3
  <2> QED
    BY <2>1, <2>2, <2>3, <2>4 DEF NoCommit
<1>2. /\ DistinctOK /\ \A e \in 1 .. epoch : status'[e] = status[e]
      /\ \A d \in Client : Pinned(d) => pin[d] \in 1 .. epoch
  BY StatusKept DEF RInv
<1>3. Unique(contents, next) /\ Unique(contents, {})
  BY <1>2 DEF DistinctOK, Unique
<1>4. ASSUME NEW k \in Compactor, NEW d \in Client, Pinned(k) PROVE Unique(contents, Reach(k, d)')
  <2>1. Unique(contents, Reach(k, c))
    BY <1>2, <1>4 DEF DistinctOK
  <2>2. Open(k)' \subseteq Open(k)
    BY <1>1, <1>4, OpenShrinks
  <2>3. SnapshotOf(k)' = SnapshotOf(k)
    BY <1>1, <1>2, <1>4, RoleAssumption DEF SnapshotOf
  <2>4. Reach(k, d)' \subseteq Reach(k, c)
    BY <1>1, <2>2, <2>3 DEF Reach
  <2> QED
    BY <2>1, <2>4, UniqueSub
<1>5. status'[epoch'].rowsets = next /\ \A d \in Client : next \cup pending'[d].rowsets = next
  BY <1>1
<1> QED
  BY <1>1, <1>3, <1>4, <1>5 DEF DistinctOK, Pinned

\* The second half of a commit.
LEMMA CommittedEffect ==
  ASSUME NEW c \in Client, TxnCommitted(c) \/ DropCommitted(c) \/ CompactCommitted(c)
  PROVE  /\ CommitFinish(c) \/ CommitFail(c)
         /\ contents' = contents /\ dv_rows' = dv_rows
BY DEF TxnCommitted, DropCommitted, CompactCommitted

\* Every step keeps DistinctOK.
LEMMA StepDistinct ==
  ASSUME RInv, NEW c \in Client, Step(c)
  PROVE  DistinctOK'
<1>1. CASE InsertCommit(c)
  BY <1>1, InsertDistinct
<1>2. CASE CompactCommit(c)
  BY <1>2, CompactDistinct
<1>3. CASE DeleteCommit(c) \/ DropCommit(c)
  <2>1. c \in Deleter \cup Dropper /\ c \notin Inserter \cup Compactor
    BY <1>3, RoleAssumption DEF DeleteCommit, DropCommit, Txn
  <2>2. built[c] = {}
    BY <2>1 DEF RInv, BuildersOK
  <2>3. PICK t, deleted, old_dvs, last :
           CommitApply(c, t, deleted, old_dvs, last) \/ CommitPanic(c, t, deleted, last)
    BY <1>3 DEF DeleteCommit, DropCommit
  <2>4. CASE CommitApply(c, t, deleted, old_dvs, last)
    <3>1. /\ UNCHANGED <<epoch, status>> /\ \A d \in Client : d # c => pending'[d] = pending[d]
          /\ pending'[c].rowsets \subseteq status[epoch].rowsets
      BY <2>2, <2>4, ApplyEffect
    <3> QED
      BY <3>1, QuietDistinct
  <2>5. CASE CommitPanic(c, t, deleted, last)
    BY <2>5, QuietDistinct DEF CommitPanic
  <2> QED
    BY <2>3, <2>4, <2>5
<1>4. CASE TxnCommitted(c) \/ DropCommitted(c) \/ CompactCommitted(c)
  <2>1. CASE CommitFinish(c)
    BY <1>4, <2>1, FinishDistinct, CommittedEffect
  <2>2. CASE CommitFail(c)
    <3>1. /\ UNCHANGED <<epoch, status>> /\ pending' = [pending EXCEPT ![c] = NoCommit]
          /\ pending \in [Client -> Commit]
      BY <2>2, EngineTypes DEF CommitFail, inner, RInv
    <3>2. \A d \in Client : pending'[d].rowsets \subseteq pending[d].rowsets
      BY <3>1 DEF NoCommit
    <3> QED
      BY <3>1, <3>2, QuietDistinct
  <2> QED
    BY <1>4, <2>1, <2>2, CommittedEffect
<1>5. CASE UNCHANGED <<epoch, status, pending>>
  BY <1>5, QuietDistinct
<1> QED
  BY <1>1, <1>2, <1>3, <1>4, <1>5, VMFrame
-----------------------------------------------------------------------------
\* What a DROP TABLE prepares holds nothing of what its snapshot holds of the table.
LEMMA DropApplied ==
  ASSUME RInv, NEW p \in Dropper, NEW last, LET deleted == RowsetsOf(SnapshotOf(p), TableOf[p])
                 IN CommitApply(p, TableOf[p], deleted,
                                UNION {DvsOf(SnapshotOf(p), r) : r \in deleted}, last)
  PROVE  /\ pending'[p].rowsets \subseteq status[epoch].rowsets
         /\ pending'[p].dvs \subseteq status[epoch].dvs
         /\ \A r \in pending'[p].rowsets : r[1] = TableOf[p] => r \notin SnapshotOf(p).rowsets
         /\ \A v \in pending'[p].dvs : v[1][1] = TableOf[p] =>
               (v \in SnapshotOf(p).dvs => v[1] \notin SnapshotOf(p).rowsets)
         /\ UNCHANGED <<epoch, status, pin>>
<1> DEFINE deleted == RowsetsOf(SnapshotOf(p), TableOf[p])
           old == UNION {DvsOf(SnapshotOf(p), r) : r \in deleted}
<1>0. p \in Client /\ p \notin Inserter \cup Compactor /\ p \notin Deleter
  BY RoleAssumption DEF Txn
<1>1. built[p] = {} /\ built_dv[p] = {}
  BY <1>0 DEF RInv, BuildersOK, ReopenOK
<1>2. CommitApply(p, TableOf[p], deleted, old, last)
  OBVIOUS
<1>3. pending'[p] = Applied(p, deleted, old) /\ UNCHANGED <<epoch, status, pin>>
  BY <1>0, <1>2, ApplyEffect
<1>4. /\ pending'[p].rowsets \subseteq status[epoch].rowsets \ deleted
      /\ pending'[p].dvs \subseteq status[epoch].dvs \ old
  BY <1>1, <1>3 DEF Applied
<1>5. ASSUME NEW v \in SnapshotOf(p).dvs, v[1][1] = TableOf[p], v[1] \in SnapshotOf(p).rowsets
      PROVE  v \in old
  BY <1>5 DEF DvsOf, RowsetsOf
<1> QED
  BY <1>3, <1>4, <1>5 DEF RowsetsOf

\* Every step keeps ReopenOK.
LEMMA StepReopens ==
  ASSUME RInv, NEW c \in Client, Step(c)
  PROVE  ReopenOK'
<1>0. ReopenOK /\ SInv /\ BuildersOK /\ DOMAIN pc = Client
  BY DEF RInv, SInv, ProcTypeOK
<1>1. /\ epoch \in 1 .. epoch /\ \A e \in 1 .. epoch : status'[e] = status[e]
      /\ \A d \in Client : Pinned(d) => pin[d] \in 1 .. epoch
  BY <1>0, StatusKept
<1> DEFINE Keeps(d) == /\ d \notin Deleter => built_dv'[d] = {} /\ pending'[d].dvs \subseteq status'[epoch'].dvs
                       /\ d \notin Inserter \cup Compactor => pending'[d].rowsets \subseteq status'[epoch'].rowsets
                       /\ d \in Dropper /\ pc'[d] = "committing" =>
                           /\ \A r \in pending'[d].rowsets : r[1] = TableOf[d] => r \notin SnapshotOf(d).rowsets'
                           /\ \A v \in pending'[d].dvs : v[1][1] = TableOf[d] =>
                                 (v \in SnapshotOf(d).dvs' => v[1] \notin SnapshotOf(d).rowsets')
<1>2. ASSUME NEW d \in Client, pending'[d] = NoCommit, d \notin Deleter => built_dv'[d] = {}
      PROVE  Keeps(d)
  BY <1>2 DEF NoCommit
<1>3. \A d \in Client \ Deleter : built_dv'[d] = {}
  <2> SUFFICES ASSUME NEW d \in Client \ Deleter PROVE built_dv'[d] = {}
    OBVIOUS
  <2>1. built_dv[d] = {}
    BY <1>0 DEF ReopenOK
  <2>2. CASE d # c
    BY <1>0, <2>1, <2>2, StepFrame
  <2>3. CASE d = c
    <3>1. built_dv \in [Client -> SUBSET Dv]
      BY <1>0 DEF SInv, IInv, VMTypeOK
    <3>2. ~ WriteDv(d)
      BY DEF WriteDv
    <3> QED
      BY <2>1, <2>3, <3>1, <3>2, VMFrame
  <2> QED
    BY <2>2, <2>3
<1>4. CASE CommitFinish(c) \/ CommitFail(c)
  <2>1. pending \in [Client -> Commit] /\ manifest_lock = c /\ pending' = [pending EXCEPT ![c] = NoCommit]
    BY <1>0, <1>4, EngineTypes DEF CommitFinish, CommitFail
  <2>2. \A d \in Client : pending'[d] = NoCommit
    BY <1>0, <2>1, OneCommit
  <2> QED
    BY <1>2, <1>3, <2>2 DEF ReopenOK
<1>5. CASE UNCHANGED <<epoch, status>>
  <2>1. ASSUME NEW d \in Client, d # c PROVE Keeps(d)
    <3>1. pc'[d] = pc[d] /\ pin'[d] = pin[d] /\ pending'[d] = pending[d]
      BY <1>0, <2>1, StepFrame
    <3>2. SnapshotOf(d)' = SnapshotOf(d)
      BY <1>5, <3>1 DEF SnapshotOf
    <3> QED
      BY <1>0, <1>3, <1>5, <3>1, <3>2 DEF ReopenOK
  <2>2. Keeps(c)
    <3>1. CASE InsertCommit(c) \/ CompactCommit(c) \/ DeleteCommit(c)
      <4>1. c \notin Dropper
        BY <3>1, RoleAssumption DEF InsertCommit, CompactCommit, DeleteCommit, Txn
      <4>2. PICK t, deleted, old_dvs, last :
               CommitApply(c, t, deleted, old_dvs, last) \/ CommitPanic(c, t, deleted, last)
        BY <3>1 DEF InsertCommit, CompactCommit, DeleteCommit
      <4>3. CASE CommitApply(c, t, deleted, old_dvs, last)
        <5>1. pending'[c] = Applied(c, deleted, old_dvs)
          BY <4>3, ApplyEffect
        <5>2. /\ c \notin Deleter => built_dv[c] = {}
              /\ c \notin Inserter \cup Compactor => built[c] = {}
          BY <1>0 DEF ReopenOK, BuildersOK
        <5> QED
          BY <1>3, <1>5, <4>1, <5>1, <5>2 DEF Applied
      <4>4. CASE CommitPanic(c, t, deleted, last)
        <5>1. pending' = pending
          BY <4>4 DEF CommitPanic
        <5> QED
          BY <1>0, <1>3, <1>5, <4>1, <5>1 DEF ReopenOK
      <4> QED
        BY <4>2, <4>3, <4>4
    <3>2. CASE DropCommit(c)
      <4>1. c \in Dropper /\ pc[c] = "pinned"
        BY <3>2 DEF DropCommit
      <4>2. CASE pc'[c] = "committing"
        <5>1. PICK last : LET deleted == RowsetsOf(SnapshotOf(c), TableOf[c])
                          IN  CommitApply(c, TableOf[c], deleted,
                                          UNION {DvsOf(SnapshotOf(c), r) : r \in deleted}, last)
          BY <1>0, <3>2, <4>2 DEF DropCommit, Goto
        <5>2. SnapshotOf(c)' = SnapshotOf(c)
          BY <4>1, <5>1, DropApplied DEF SnapshotOf
        <5> QED
          BY <1>3, <1>5, <4>1, <5>1, <5>2, DropApplied
      <4>3. CASE pc'[c] # "committing"
        <5>1. PICK t, deleted, last : CommitPanic(c, t, deleted, last)
          BY <1>0, <3>2, <4>3 DEF DropCommit, Goto
        <5>2. pending' = pending
          BY <5>1 DEF CommitPanic
        <5> QED
          BY <1>0, <1>3, <1>5, <4>3, <5>2 DEF ReopenOK
      <4> QED
        BY <4>2, <4>3
    <3>3. CASE pending' = pending /\ ~ DropCommit(c)
      <4>1. c \in Dropper => pc'[c] # "committing"
        <5> SUFFICES ASSUME c \in Dropper PROVE pc'[c] # "committing"
          OBVIOUS
        <5>1. c \notin Txn \cup Compactor
          BY RoleAssumption
        <5>2. Statement(c)
          BY <5>1, CompactBuilds DEF Step
        <5>3. ApplyDrop(c) \/ DropPin(c) \/ DropCommitted(c) \/ DropEnd(c)
          BY <3>3, <5>1, <5>2
             DEF Txn, Statement, StartTxn, Append_inner, InsertCommit, TxnCommitted, InsertEnd, Scan_inner,
                 ScanDone, ScanEnd, LockForDeletion, Delete, WriteDv, DeleteCommit, DeleteAbort, Unlock, DeleteEnd
        <5> QED
          BY <1>0, <5>3 DEF ApplyDrop, DropPin, DropCommitted, DropEnd, EndTxn, Goto
      <4> QED
        BY <1>0, <1>3, <1>5, <3>3, <4>1 DEF ReopenOK
    <3>4. CASE TxnCommitted(c) \/ DropCommitted(c) \/ CompactCommitted(c)
      <4>1. CommitFinish(c) \/ CommitFail(c)
        BY <3>4, CommittedEffect
      <4> QED
        BY <1>4, <4>1 DEF ReopenOK
    <3> QED
      BY <3>1, <3>2, <3>3, <3>4, VMFrame
  <2> QED
    BY <2>1, <2>2 DEF ReopenOK
<1> QED
  BY <1>4, <1>5, VMFrame, CommittedEffect
-----------------------------------------------------------------------------
\* RInv is inductive.
LEMMA RowsStep == RInv /\ [SNext]_svars => RInv'
<1> SUFFICES ASSUME RInv, [SNext]_svars PROVE RInv'
  OBVIOUS
<1>1. SInv'
  BY StepInv DEF RInv
<1>2. ASSUME NEW c \in Client, Step(c) PROVE RInv'
  <2>1. DvIdsUsed'
    BY StepUses, DvIdsStep DEF RInv, SInv
  <2> QED
    BY <1>1, <1>2, <2>1, StepTypes, StepBuilds, StepInserts, StepMerges, StepDistinct, StepReopens DEF RInv
<1>3. CASE ~ \E c \in Client : Step(c)
  <2>1. /\ UNCHANGED <<epoch, status, pending, pin, held, built, built_dv, next_dv>>
        /\ UNCHANGED <<pc, contents, dv_rows, handlers, table_lock, durable, ctables, ctable>>
    BY <1>3, NoStep DEF procvars, compacting
  <2>2. EngineTypeOK' /\ DvIdsUsed'
    BY <2>1 DEF RInv, EngineTypeOK, DvIdsUsed
  <2>3. BuildersOK' /\ RoundOK'
    BY <2>1 DEF RInv, BuildersOK, RoundOK
  <2>4. InsertOK'
    <3>1. ASSUME NEW c \in Inserter
          PROVE  HandlersIn(built[c])' = HandlersIn(built[c]) /\ RowsOf(built[c])' = RowsOf(built[c])
      BY <2>1 DEF RowsOf, HandlersIn
    <3> QED
      BY <2>1, <3>1 DEF RInv, InsertOK
  <2>5. MergeOK'
    <3> SUFFICES ASSUME NEW k \in Compactor, pc'[k] = "merged"
                 PROVE  /\ Unique(contents', built'[k])
                        /\ Stored(contents', built'[k]) = Inputs(k)'
      BY DEF MergeOK, Inputs
    <3>1. Unique(contents, built[k]) /\ Stored(contents, built[k]) = Inputs(k)
      BY <2>1 DEF RInv, MergeOK, Inputs
    <3>2. Inputs(k)' = Inputs(k)
      BY <2>1 DEF Inputs, RowAt, RowsIn, SnapshotOf
    <3> QED
      BY <2>1, <3>1, <3>2
  <2>6. DistinctOK'
    BY <2>1 DEF RInv, DistinctOK, Reach, Open, SnapshotOf, Pinned
  <2>7. ReopenOK'
    BY <2>1 DEF RInv, ReopenOK, SnapshotOf
  <2> QED
    BY <1>1, <2>2, <2>3, <2>4, <2>5, <2>6, <2>7 DEF RInv
<1> QED
  BY <1>2, <1>3

\* It holds when the database has been opened.
LEMMA RowsStart == SInit => RInv
<1> SUFFICES ASSUME SInit PROVE RInv
  OBVIOUS
<1>1. SInv
  BY StartInv
<1>2. /\ epoch = 1 /\ status[1] = [rowsets |-> Recovered, dvs |-> {}]
      /\ \A c \in Client : /\ pending[c].rowsets = {} /\ pending[c].dvs = {} /\ pin[c] = 0 /\ held[c] = {}
                           /\ built[c] = {} /\ built_dv[c] = {} /\ pc[c] \in {"start", "done"}
      /\ ctable = {} /\ ctables = {} /\ durable = Table
  <2>1. VMInit /\ ctable = {} /\ ctables = {} /\ durable = Table
    BY DEF SInit
  <2>2. epoch = 1 /\ status[1] = [rowsets |-> Recovered, dvs |-> {}]
    BY <2>1, BoundAssumption DEF VMInit, Epoch
  <2>3. \A c \in Client : /\ pending[c] = NoCommit /\ pin[c] = 0 /\ held[c] = {}
                           /\ built[c] = {} /\ built_dv[c] = {}
    BY <2>1 DEF VMInit
  <2>4. \A c \in Client : pc[c] \in {"start", "done"}
    BY DEF SInit
  <2> QED
    BY <2>1, <2>2, <2>3, <2>4, NoCommitEmpty
<1>3. /\ \A r \in Rowset : contents[r] = IF r \in Recovered THEN RecoveredRows[r] ELSE <<>>
      /\ Recovered \subseteq Rowset
  BY RecoveredAssumption DEF SInit
<1>4. EngineTypeOK
  <2>1. \A r \in Rowset : contents[r] \in Seq(Row)
    <3>1. <<>> \in Seq(Row) /\ \A r \in Recovered : RecoveredRows[r] \in Seq(Row)
      BY RowAssumption
    <3> QED
      BY <1>3, <3>1
  <2>2. contents \in [Rowset -> Seq(Row)]
    BY <2>1 DEF SInit
  <2>3. dv_rows \in [Dv -> SUBSET Nat] /\ handlers \in [Deleter -> SUBSET (Rowset \X Nat)]
    BY DEF SInit
  <2>4. table_lock \in [Table -> Client \cup {NoClient}] /\ durable \subseteq Table
    BY DEF SInit
  <2> QED
    BY <2>2, <2>3, <2>4 DEF EngineTypeOK
<1>5. DvIdsUsed
  BY <1>2 DEF DvIdsUsed
<1>6. BuildersOK
  BY <1>2 DEF BuildersOK
<1>7. RoundOK
  BY <1>2, RoleAssumption DEF RoundOK
<1>8. InsertOK
  <2> SUFFICES ASSUME NEW c \in Inserter
               PROVE  /\ \A r \in Rowset : Range(contents[r]) \cap Range(Inserted[c]) = {}
                      /\ Unique(contents, built[c])
                      /\ IsFiniteSet(HandlersIn(built[c]))
                      /\ RowsOf(built[c]) <= Len(Inserted[c])
                      /\ RowsOf(built[c]) # Len(Inserted[c]) /\ pc[c] # "written"
                      /\ Stored(contents, built[c]) = {Inserted[c][i] : i \in 1 .. RowsOf(built[c])}
    BY DEF InsertOK
  <2>1. c \in Client /\ built[c] = {} /\ pc[c] # "written"
    BY <1>2, RoleAssumption DEF Txn
  <2>2. HandlersIn(built[c]) = {} /\ Stored(contents, built[c]) = {} /\ Unique(contents, built[c])
    BY <2>1 DEF HandlersIn, Stored, Unique
  <2>3. IsFiniteSet(HandlersIn(built[c])) /\ RowsOf(built[c]) = 0
    BY <2>2, FS_EmptySet DEF RowsOf
  <2>4. Len(Inserted[c]) \in Nat /\ Len(Inserted[c]) # 0
    BY RowAssumption
  <2>5. \A r \in Rowset : Range(contents[r]) \cap Range(Inserted[c]) = {}
    <3>1. Range(<<>>) = {}
      BY DEF Range
    <3> QED
      BY <1>3, <3>1, IdentityAssumption
  <2>6. RowsOf(built[c]) <= Len(Inserted[c]) /\ RowsOf(built[c]) # Len(Inserted[c])
    BY <2>3, <2>4
  <2>7. {Inserted[c][i] : i \in 1 .. RowsOf(built[c])} = {}
    BY <2>3
  <2> QED
    BY <2>1, <2>2, <2>3, <2>5, <2>6, <2>7
<1>9. MergeOK
  BY <1>2, RoleAssumption DEF MergeOK
<1>10. DistinctOK
  <2>1. Unique(contents, Recovered)
    BY <1>3, IdentityAssumption DEF Unique
  <2>2. Unique(contents, {})
    BY DEF Unique
  <2>3. status[epoch].rowsets = Recovered /\ \A c \in Client : Recovered \cup pending[c].rowsets = Recovered
    BY <1>2
  <2>4. \A k \in Compactor : ~ Pinned(k)
    BY <1>2, RoleAssumption DEF Pinned
  <2>5. \A c \in Client : pending[c].rowsets = {}
    BY <1>2
  <2> QED
    BY <2>1, <2>2, <2>3, <2>4, <2>5 DEF DistinctOK
<1>11. ReopenOK
  BY <1>2 DEF ReopenOK
<1> QED
  BY <1>1, <1>4, <1>5, <1>6, <1>7, <1>8, <1>9, <1>10, <1>11 DEF RInv
-----------------------------------------------------------------------------
\* Which rows the engine's RowSets hold, before and after they are committed, in
\* every reachable state.
THEOREM RowsInvariance == SSpec => []RInv
  BY RowsStart, RowsStep, PTL DEF SSpec

\* No row is shown twice, whatever INSERTs, DELETEs, DROP TABLEs and compactions run
\* at the same time: a compaction's output enters a snapshot in the step in which its
\* inputs leave it.
THEOREM RowsShownOnce == SSpec => []NoDuplicateRow
<1>1. ASSUME RInv PROVE NoDuplicateRow
  <2>1. STypeOK
    BY <1>1 DEF RInv, SInv, IInv, ProcTypeOK, EngineTypeOK, STypeOK
  <2>2. ASSUME NEW t \in Table, NEW g \in ScanRows(status[epoch], t), NEW h \in ScanRows(status[epoch], t),
               RowAt(g) = RowAt(h)
        PROVE  g = h
    <3>1. PICK r \in RowsetsOf(status[epoch], t) : g \in RowsIn(status[epoch], r)
      BY DEF ScanRows
    <3>2. PICK q \in RowsetsOf(status[epoch], t) : h \in RowsIn(status[epoch], q)
      BY DEF ScanRows
    <3>3. /\ r \in status[epoch].rowsets /\ q \in status[epoch].rowsets /\ r[1] = q[1]
          /\ r \in Rowset /\ q \in Rowset /\ contents \in [Rowset -> Seq(Row)]
      <4>1. status[epoch].rowsets \subseteq Rowset
        BY <1>1, PinRange, RowsetTypes DEF RInv, SInv, IInv
      <4> QED
        BY <1>1, <4>1 DEF RowsetsOf, RInv, EngineTypeOK
    <3>4. /\ g = <<r, g[2]>> /\ g[2] \in DOMAIN contents[r] /\ RowAt(g) = contents[r][g[2]]
          /\ h = <<q, h[2]>> /\ h[2] \in DOMAIN contents[q] /\ RowAt(h) = contents[q][h[2]]
      BY <3>1, <3>2, <3>3, VisibleIsStored
    <3>5. Unique(contents, status[epoch].rowsets)
      BY <1>1 DEF RInv, DistinctOK
    <3>6. r = q /\ g[2] = h[2]
      <4>1. \A i \in DOMAIN contents[r], j \in DOMAIN contents[q] :
               contents[r][i] = contents[q][j] => r = q /\ i = j
        BY <3>3, <3>5 DEF Unique
      <4>2. contents[r][g[2]] = contents[q][h[2]]
        BY <2>2, <3>4
      <4> QED
        BY <3>4, <4>1, <4>2
    <3> QED
      BY <3>4, <3>6
  <2> QED
    BY <2>1, <2>2 DEF NoDuplicateRow
<1> QED
  BY <1>1, RowsInvariance, PTL

\* A RowSet or DV that bootstrap would find without its table is one that the DROP TABLE
\* could not see in its snapshot, a DV of a RowSet that a compaction had replaced, or the
\* work of an INSERT, a DELETE or a compaction that it overtook: whatever a DROP TABLE finds
\* of its table is gone with it.
THEOREM DropsComplete == SSpec => Reopenable
<1> DEFINE Explained ==
       /\ \A r \in OrphanRowsets' \ OrphanRowsets :
            \/ \E p \in Dropper : /\ DropCommitted(p) /\ TableOf[p] = r[1]
                                  /\ r \notin SnapshotOf(p).rowsets
            \/ \E c \in Inserter \cup Compactor : CommitFinish(c) /\ r \notin status[epoch].rowsets
       /\ \A v \in OrphanDvs' \ OrphanDvs :
            \/ \E p \in Dropper : /\ DropCommitted(p) /\ TableOf[p] = v[1][1]
                                  /\ v \in SnapshotOf(p).dvs => v[1] \notin SnapshotOf(p).rowsets
            \/ \E d \in Deleter : CommitFinish(d) /\ v \notin status[epoch].dvs
<1>1. ASSUME RInv, [SNext]_svars PROVE Explained
  <2>1. CASE UNCHANGED <<epoch, status, durable>>
    BY <2>1 DEF OrphanRowsets, OrphanDvs
  <2>2. ASSUME NEW c \in Client, Step(c), CommitFinish(c) PROVE Explained
    <3>1. /\ status'[epoch'].rowsets = pending[c].rowsets /\ status'[epoch'].dvs = pending[c].dvs
      <4>1. status \in [Epoch -> Snapshot] /\ epoch + 1 \in Epoch
        BY <1>1, <2>2, BoundAssumption, EngineTypes DEF CommitFinish, Epoch, RInv
      <4>2. status'[epoch + 1] = [rowsets |-> pending[c].rowsets, dvs |-> pending[c].dvs]
        BY <2>2, <4>1 DEF CommitFinish
      <4> QED
        BY <2>2, <4>2 DEF CommitFinish
    <3>2. /\ c \notin Deleter => pending[c].dvs \subseteq status[epoch].dvs
          /\ c \notin Inserter \cup Compactor => pending[c].rowsets \subseteq status[epoch].rowsets
      BY <1>1 DEF RInv, ReopenOK
    <3>3. CASE DropCommitted(c)
      <4>1. c \in Dropper /\ pc[c] = "committing" /\ durable \ {TableOf[c]} \subseteq durable'
        BY <3>3 DEF DropCommitted
      <4>2. c \notin Deleter /\ c \notin Inserter \cup Compactor
        BY <4>1, RoleAssumption DEF Txn
      <4>3. /\ \A r \in pending[c].rowsets : r[1] = TableOf[c] => r \notin SnapshotOf(c).rowsets
            /\ \A v \in pending[c].dvs : v[1][1] = TableOf[c] =>
                  (v \in SnapshotOf(c).dvs => v[1] \notin SnapshotOf(c).rowsets)
        BY <1>1, <4>1 DEF RInv, ReopenOK
      <4>4. \A r \in OrphanRowsets' \ OrphanRowsets : r \in pending[c].rowsets /\ r[1] = TableOf[c]
        BY <3>1, <3>2, <4>1, <4>2 DEF OrphanRowsets
      <4>5. \A v \in OrphanDvs' \ OrphanDvs : v \in pending[c].dvs /\ v[1][1] = TableOf[c]
        BY <3>1, <3>2, <4>1, <4>2 DEF OrphanDvs
      <4> QED
        BY <3>3, <4>1, <4>3, <4>4, <4>5
    <3>4. CASE durable' = durable
      <4>1. \A r \in OrphanRowsets' \ OrphanRowsets : r \in pending[c].rowsets /\ r \notin status[epoch].rowsets
        BY <3>1, <3>4 DEF OrphanRowsets
      <4>2. \A v \in OrphanDvs' \ OrphanDvs : v \in pending[c].dvs /\ v \notin status[epoch].dvs
        BY <3>1, <3>4 DEF OrphanDvs
      <4>3. \A r \in OrphanRowsets' \ OrphanRowsets : c \in Inserter \cup Compactor
        BY <3>2, <4>1
      <4>4. \A v \in OrphanDvs' \ OrphanDvs : c \in Deleter
        BY <3>2, <4>2
      <4> QED
        BY <2>2, <4>1, <4>2, <4>3, <4>4
    <3> QED
      BY <2>2, <3>3, <3>4, ProcFrame
  <2>3. ASSUME NEW c \in Client, Step(c) PROVE UNCHANGED <<epoch, status, durable>> \/ CommitFinish(c)
    <3>1. CASE TxnCommitted(c) \/ DropCommitted(c) \/ CompactCommitted(c)
      BY <3>1 DEF TxnCommitted, DropCommitted, CompactCommitted, CommitFail, inner
    <3> QED
      BY <2>3, <3>1, VMFrame, ProcFrame
  <2>4. CASE ~ \E c \in Client : Step(c)
    BY <1>1, <2>1, <2>4, NoStep DEF procvars
  <2> QED
    BY <2>1, <2>2, <2>3, <2>4
<1> HIDE DEF Explained
<1>2. [][Explained]_svars => Reopenable
  BY PTL DEF Explained, Reopenable
<1> QED
  BY <1>1, <1>2, RowsInvariance, PTL DEF SSpec
=============================================================================
