------------------------ MODULE VersionManagerProofs -------------------------
(***************************************************************************)
(* Proofs about VersionManager: the invariant IInv is inductive, for any   *)
(* finite set of clients, any tables and any bounds, and what follows from *)
(* it.                                                                     *)
(***************************************************************************)
EXTENDS VersionManager, FiniteSetTheorems, TLAPS

\* A leaf is tried with Zenon and then with the SMT solver.
USE ZenonT(5), SMTT(20)

USE DEF Registered, ManifestFree, Applied

\* A client without a commit in progress.
LEMMA NoCommitType == NoCommit \in Commit
  BY BoundAssumption DEF NoCommit, Commit

\* It adds and deletes nothing.
LEMMA NoCommitEmpty == NoCommit.rowsets = {} /\ NoCommit.dvs = {} /\ NoCommit.deleted = {}
  BY DEF NoCommit

\* Epochs start at 1: 0 stands for no epoch.
LEMMA EpochRange == \A e \in Epoch : e \in 1 .. MaxEpoch /\ e \in Nat /\ e # 0
  BY BoundAssumption DEF Epoch

\* What the epochs so far, the deletions and the clients hold are RowSets.
LEMMA RowsetTypes ==
  ASSUME VMTypeOK
  PROVE  /\ \A e \in 1 .. epoch : e \in Epoch /\ status[e].rowsets \subseteq Rowset
         /\ \A x \in deletion_to_apply \cup removing : x[1] \in Epoch /\ x[2] \in Rowset
         /\ \A d \in Client : /\ built[d] \subseteq Rowset
                              /\ pending[d].rowsets \subseteq Rowset
                              /\ pending[d].deleted \subseteq Rowset
<1>1. \A e \in 1 .. epoch : e \in Epoch
  BY BoundAssumption DEF VMTypeOK, Epoch
<1>2. \A e \in Epoch : status[e] \in Snapshot
  BY DEF VMTypeOK
<1>3. \A d \in Client : pending[d] \in Commit /\ built[d] \in SUBSET Rowset
  BY DEF VMTypeOK
<1>4. \A x \in deletion_to_apply \cup removing : x \in Epoch \X Rowset
  BY DEF VMTypeOK
<1> QED
  BY <1>1, <1>2, <1>3, <1>4 DEF Snapshot, Commit

\* The current epoch and every pinned epoch are among the epochs so far.
LEMMA PinRange ==
  ASSUME VMTypeOK, PinsOK
  PROVE  /\ epoch \in Epoch /\ epoch \in 1 .. epoch /\ epoch \in Nat /\ epoch <= MaxEpoch
         /\ \A c \in Client : Pinned(c) => pin[c] \in 1 .. epoch
<1>1. epoch \in Epoch /\ epoch \in 1 .. epoch /\ epoch \in Nat /\ epoch <= MaxEpoch
  BY BoundAssumption DEF VMTypeOK, Epoch
<1>2. \A c \in Client : pin[c] \in 0 .. MaxEpoch /\ pin[c] <= epoch
  BY DEF VMTypeOK, PinsOK
<1> QED
  BY <1>1, <1>2 DEF Pinned

\* VMInit establishes the inductive invariant.
LEMMA InitInv == VMInit => IInv
<1> SUFFICES ASSUME VMInit PROVE IInv
  OBVIOUS
<1> USE DEF VMInit
<1>1. VMTypeOK
  <2>1. epoch \in Epoch /\ 1 \in Epoch
    BY BoundAssumption DEF Epoch
  <2>2. status \in [Epoch -> Snapshot]
    BY RecoveredAssumption DEF Snapshot, EmptySnapshot
  <2>3. pending \in [Client -> Commit]
    BY NoCommitType
  <2>4. pin \in [Client -> 0 .. MaxEpoch]
    BY BoundAssumption
  <2>5. /\ held \in [Client -> SUBSET Rowset]
        /\ built \in [Client -> SUBSET Rowset]
        /\ built_dv \in [Client -> SUBSET Dv]
    OBVIOUS
  <2>6. next_dv \in 0 .. MaxDv /\ ref_cnt \in [Epoch -> Nat]
    BY BoundAssumption
  <2> QED
    BY <2>1, <2>2, <2>3, <2>4, <2>5, <2>6, RecoveredAssumption, FirstAssumption DEF VMTypeOK
<1>2. status[epoch].rowsets = Recovered /\ \A e \in 1 .. epoch : e = epoch /\ status[e].dvs = {}
  BY BoundAssumption DEF Epoch
<1>3. PinsOK
  BY DEF PinsOK
<1>4. CommitsOK
  BY ClientAssumption DEF CommitsOK
<1>5. IdsUsed
  BY <1>2, FirstAssumption DEF IdsUsed, NoCommit
<1>6. BuiltFresh
  BY DEF BuiltFresh
<1>7. LiveOK
  BY <1>2 DEF LiveOK, NoCommit, Pinned
<1>8. DoomedOK
  BY DEF DoomedOK
<1>9. RefCntExact
  <2> SUFFICES ASSUME NEW e \in Epoch
               PROVE ref_cnt[e] = Cardinality({c \in Client : pin[c] = e})
    BY DEF RefCntExact
  <2>1. {c \in Client : pin[c] = e} = {}
    BY EpochRange
  <2> QED
    BY <2>1, FS_EmptySet
<1>10. NoLostWakeup /\ VacuumNeverPanics
  BY DEF NoLostWakeup, VacuumNeverPanics
<1> QED
  BY <1>1, <1>3, <1>4, <1>5, <1>6, <1>7, <1>8, <1>9, <1>10 DEF IInv

\* The clients that have pinned an epoch are finitely many.
LEMMA PinnersFinite ==
  ASSUME NEW e PROVE IsFiniteSet({c \in Client : pin[c] = e})
<1>1. {c \in Client : pin[c] = e} \subseteq Client
  OBVIOUS
<1> QED
  BY <1>1, ClientAssumption, FS_Subset

\* A pinned epoch has a positive reference count.
LEMMA PinnedCounted ==
  ASSUME VMTypeOK, RefCntExact, NEW c \in Client, Pinned(c)
  PROVE  pin[c] \in Epoch /\ ref_cnt[pin[c]] > 0
<1> DEFINE S == {d \in Client : pin[d] = pin[c]}
<1>1. pin[c] \in Epoch
  BY BoundAssumption DEF VMTypeOK, Pinned, Epoch
<1>2. IsFiniteSet(S) /\ c \in S
  BY PinnersFinite
<1>3. Cardinality(S) \in Nat /\ Cardinality(S) # 0
  BY <1>2, FS_CardinalityType, FS_EmptySet
<1>4. ref_cnt[pin[c]] = Cardinality(S)
  BY <1>1 DEF RefCntExact
<1> QED
  BY <1>1, <1>3, <1>4

\* Hence a deletion that can be applied is not later than any pin.
LEMMA CanApplyBelowPins ==
  ASSUME VMTypeOK, RefCntExact, NEW e \in Epoch, CanApply(e), NEW c \in Client, Pinned(c)
  PROVE  e <= pin[c]
BY PinnedCounted DEF CanApply
-----------------------------------------------------------------------------
(***************************************************************************)
(* Every step preserves IInv: one lemma for each action.                   *)
(***************************************************************************)

\* VersionManager::pin.
LEMMA PinInv ==
  ASSUME IInv, NEW c \in Client, Pin(c)
  PROVE  IInv'
<1>1. epoch \in Epoch /\ epoch \in Nat \ {0} /\ epoch <= MaxEpoch
  BY BoundAssumption DEF IInv, VMTypeOK, Epoch
<1>2. pin' = [pin EXCEPT ![c] = epoch] /\ pin[c] = 0 /\ pin \in [Client -> 0 .. MaxEpoch]
  BY DEF Pin, IInv, VMTypeOK
<1>3. VMTypeOK'
  <2>1. pin' \in [Client -> 0 .. MaxEpoch]
    BY <1>1, <1>2, BoundAssumption
  <2>2. ref_cnt' \in [Epoch -> Nat]
    BY <1>1 DEF Pin, IInv, VMTypeOK
  <2> QED
    BY <2>1, <2>2 DEF Pin, IInv, VMTypeOK, vacuuming
<1>4. PinsOK'
  BY <1>1, <1>2 DEF Pin, IInv, PinsOK, Pinned, SnapshotOf
<1>5. CommitsOK'
  BY <1>1, <1>2 DEF Pin, IInv, CommitsOK, Pinned
<1>6. IdsUsed'
  BY DEF Pin, IInv, IdsUsed, vacuuming
<1>7. BuiltFresh'
  BY DEF Pin, IInv, BuiltFresh, vacuuming
<1>8. LiveOK'
  BY <1>1, <1>2 DEF Pin, IInv, LiveOK, Pinned, SnapshotOf
<1>9. DoomedOK'
  BY <1>1, <1>2 DEF Pin, IInv, DoomedOK, Pinned, vacuuming
<1>10. RefCntExact'
  <2> SUFFICES ASSUME NEW e \in Epoch
               PROVE  ref_cnt'[e] = Cardinality({d \in Client : pin'[d] = e})
    BY DEF RefCntExact
  <2> DEFINE S == {d \in Client : pin[d] = e}
  <2>1. IsFiniteSet(S) /\ ref_cnt[e] = Cardinality(S)
    BY PinnersFinite DEF IInv, RefCntExact
  <2>2. CASE e = epoch
    <3>1. {d \in Client : pin'[d] = e} = S \cup {c} /\ c \notin S
      BY <1>1, <1>2, <2>2
    <3>2. Cardinality(S \cup {c}) = Cardinality(S) + 1
      BY <2>1, <3>1, FS_AddElement
    <3> QED
      BY <2>1, <2>2, <3>1, <3>2, <1>1 DEF Pin, IInv, VMTypeOK
  <2>3. CASE e # epoch
    <3>1. {d \in Client : pin'[d] = e} = S
      BY <1>1, <1>2, <2>3, EpochRange
    <3> QED
      BY <2>1, <2>3, <3>1, <1>1 DEF Pin, IInv, VMTypeOK
  <2> QED
    BY <2>2, <2>3
<1>11. NoLostWakeup'
  <2>1. \A p \in Epoch : ref_cnt[p] > 0 => ref_cnt'[p] > 0
    BY <1>1 DEF Pin, IInv, VMTypeOK
  <2>2. \A e : CanApply(e)' => CanApply(e)
    BY <2>1 DEF Pin, CanApply
  <2> QED
    BY <2>2 DEF Pin, IInv, NoLostWakeup, vacuuming
<1>12. VacuumNeverPanics'
  BY DEF Pin, IInv, VacuumNeverPanics, vacuuming
<1> QED
  BY <1>3, <1>4, <1>5, <1>6, <1>7, <1>8, <1>9, <1>10, <1>11, <1>12 DEF IInv

\* VersionManager::get_rowset and the drop of the Arcs it returned.
LEMMA HeldInv ==
  ASSUME IInv, NEW c \in Client, NEW wanted, GetRowsets(c, wanted) \/ DropRowsets(c)
  PROVE  IInv'
<1>1. /\ UNCHANGED <<inner, manifest_lock, pending, pin, next_id, next_dv, vacuuming, disk>>
      /\ \/ held' = [held EXCEPT ![c] = @ \cup wanted] /\ Pinned(c)
            /\ wanted \subseteq SnapshotOf(c).rowsets \cap rowsets
         \/ held' = [held EXCEPT ![c] = {}]
      /\ built' = built \/ built' = [built EXCEPT ![c] = {}]
      /\ built_dv' = built_dv \/ built_dv' = [built_dv EXCEPT ![c] = {}]
  BY DEF GetRowsets, DropRowsets
<1>2. VMTypeOK'
  <2>1. held' \in [Client -> SUBSET Rowset]
    BY <1>1 DEF IInv, VMTypeOK
  <2>2. built' \in [Client -> SUBSET Rowset] /\ built_dv' \in [Client -> SUBSET Dv]
    BY <1>1 DEF IInv, VMTypeOK
  <2> QED
    BY <1>1, <2>1, <2>2 DEF IInv, VMTypeOK, inner, vacuuming
<1>0. \A d \in Client : built'[d] \subseteq built[d] /\ built_dv'[d] \subseteq built_dv[d]
  BY <1>1 DEF IInv, VMTypeOK
<1>3. PinsOK'
  BY <1>0, <1>1 DEF IInv, VMTypeOK, PinsOK, Pinned, SnapshotOf, inner
<1>4. CommitsOK' /\ LiveOK' /\ DoomedOK'
  BY <1>1 DEF IInv, CommitsOK, LiveOK, DoomedOK, Pinned, SnapshotOf, inner, vacuuming
<1>6. IdsUsed'
  BY <1>0, <1>1 DEF IInv, IdsUsed, inner, vacuuming
<1>7. BuiltFresh'
  BY <1>0, <1>1 DEF IInv, BuiltFresh, inner, vacuuming
<1>5. RefCntExact' /\ NoLostWakeup' /\ VacuumNeverPanics'
  BY <1>1 DEF IInv, RefCntExact, NoLostWakeup, VacuumNeverPanics, CanApply, inner, vacuuming
<1> QED
  BY <1>2, <1>3, <1>4, <1>5, <1>6, <1>7 DEF IInv

\* generate_rowset_id and the creation of the RowSet's directory: the id is new.
LEMMA BuildRowsetInv ==
  ASSUME IInv, NEW c \in Client, NEW t \in Table, BuildRowset(c, t)
  PROVE  IInv'
<1> DEFINE r0 == <<t, next_id>>
<1>1. /\ UNCHANGED <<inner, manifest_lock, pending, pin, held, built_dv, next_dv, vacuuming>>
      /\ next_id' = next_id + 1
      /\ built' = [built EXCEPT ![c] = @ \cup {r0}]
      /\ disk' = disk \cup {r0}
      /\ Pinned(c)
  BY DEF BuildRowset
<1>2. next_id \in Nat /\ next_id < MaxRowset /\ r0 \in Rowset
  BY BoundAssumption DEF BuildRowset, IInv, VMTypeOK, Rowset
<1>3. VMTypeOK'
  <2>1. built' \in [Client -> SUBSET Rowset] /\ disk' \in SUBSET Rowset
    BY <1>1, <1>2 DEF IInv, VMTypeOK
  <2>2. next_id' \in 0 .. MaxRowset
    BY <1>1, <1>2, BoundAssumption
  <2> QED
    BY <1>1, <2>1, <2>2 DEF IInv, VMTypeOK, inner, vacuuming
<1>4. PinsOK' /\ CommitsOK' /\ DoomedOK'
  BY <1>1 DEF IInv, PinsOK, CommitsOK, DoomedOK, Pinned, SnapshotOf, inner, vacuuming
<1>5. /\ \A e \in 1 .. epoch : \A r \in status[e].rowsets : r \in Rowset
      /\ \A x \in deletion_to_apply \cup removing : x[2] \in Rowset
      /\ \A d \in Client : \A r \in built[d] \cup pending[d].rowsets \cup pending[d].deleted :
             r \in Rowset
  BY RowsetTypes DEF IInv
<1>6. \A r \in Rowset : r[2] \in Int
  BY DEF Rowset
<1>7. IdsUsed'
  <2>1. \A r \in Rowset : r[2] < next_id => r[2] < next_id'
    BY <1>1, <1>2, <1>6
  <2>2. r0[2] < next_id'
    BY <1>1, <1>2
  <2>3. built \in [Client -> SUBSET Rowset]
    BY DEF IInv, VMTypeOK
  <2>4. \A d \in Client : \A r \in built'[d] : r[2] < next_id'
    BY <1>1, <1>5, <2>1, <2>2, <2>3 DEF IInv, IdsUsed
  <2> QED
    BY <1>1, <1>5, <2>1, <2>4 DEF IInv, IdsUsed, inner, vacuuming
<1>8. BuiltFresh'
  <2>1. \A r : r[2] < next_id => r # r0
    BY <1>2
  <2>2. built \in [Client -> SUBSET Rowset]
    BY DEF IInv, VMTypeOK
  <2> SUFFICES ASSUME NEW d \in Client, NEW r \in built'[d]
               PROVE  /\ r \in disk'
                      /\ \A e \in 1 .. epoch : r \notin status[e].rowsets
                      /\ \A b \in Client : r \notin pending[b].rowsets \cup pending[b].deleted
                      /\ \A b \in Client : b # d => r \notin built'[b]
                      /\ \A x \in deletion_to_apply \cup removing : x[2] # r
    BY <1>1 DEF BuiltFresh, inner, vacuuming
  <2>3. CASE r = r0
    <3>1. d = c
      BY <1>1, <2>1, <2>2, <2>3 DEF IInv, IdsUsed
    <3> QED
      BY <1>1, <2>1, <2>2, <2>3, <3>1 DEF IInv, IdsUsed
  <2>4. CASE r # r0
    <3>1. r \in built[d]
      BY <1>1, <2>2, <2>4
    <3> QED
      BY <1>1, <2>2, <2>4, <3>1 DEF IInv, BuiltFresh
  <2> QED
    BY <2>3, <2>4
<1>9. LiveOK'
  BY <1>1 DEF IInv, LiveOK, Pinned, SnapshotOf, inner
<1>10. RefCntExact' /\ NoLostWakeup' /\ VacuumNeverPanics'
  BY <1>1 DEF IInv, RefCntExact, NoLostWakeup, VacuumNeverPanics, CanApply, inner, vacuuming
<1> QED
  BY <1>3, <1>4, <1>7, <1>8, <1>9, <1>10 DEF IInv

\* generate_dv_id and the write of the DV file.
LEMMA BuildDvInv ==
  ASSUME IInv, NEW c \in Client, NEW r \in Rowset, BuildDv(c, r)
  PROVE  IInv'
<1>1. UNCHANGED <<inner, manifest_lock, pending, pin, held, built, next_id, vacuuming, disk>>
  BY DEF BuildDv
<1>2. VMTypeOK'
  <2>1. next_dv \in Nat /\ next_dv < MaxDv
    BY BoundAssumption DEF BuildDv, IInv, VMTypeOK
  <2>2. next_dv' \in 0 .. MaxDv /\ <<r, next_dv>> \in Dv
    BY <2>1, BoundAssumption DEF BuildDv, Dv
  <2>3. built_dv' \in [Client -> SUBSET Dv]
    BY <2>2 DEF BuildDv, IInv, VMTypeOK
  <2> QED
    BY <1>1, <2>2, <2>3 DEF IInv, VMTypeOK, inner, vacuuming
<1>3. PinsOK' /\ CommitsOK' /\ IdsUsed' /\ BuiltFresh' /\ LiveOK' /\ DoomedOK'
  BY <1>1 DEF IInv, PinsOK, CommitsOK, IdsUsed, BuiltFresh, LiveOK, DoomedOK, Pinned,
              SnapshotOf, inner, vacuuming
<1>4. RefCntExact' /\ NoLostWakeup' /\ VacuumNeverPanics'
  BY <1>1 DEF IInv, RefCntExact, NoLostWakeup, VacuumNeverPanics, CanApply, inner, vacuuming
<1> QED
  BY <1>2, <1>3, <1>4 DEF IInv

\* commit_changes up to the append: the new snapshot is the current one with the
\* changeset applied, and the new RowSets have moved from `built' to it.
LEMMA CommitApplyInv ==
  ASSUME IInv, NEW c \in Client, NEW t, NEW deleted, NEW old_dvs, NEW last,
         CommitApply(c, t, deleted, old_dvs, last),
         deleted \subseteq SnapshotOf(c).rowsets
  PROVE  IInv'
<1> DEFINE current == status[epoch]
           new == [base    |-> epoch,
                   rowsets |-> (current.rowsets \cup built[c]) \ deleted,
                   dvs     |-> (current.dvs \cup built_dv[c]) \ old_dvs,
                   deleted |-> deleted]
<1>0. /\ new.base = epoch /\ new.deleted = deleted
      /\ new.rowsets = (current.rowsets \cup built[c]) \ deleted
      /\ new.dvs = (current.dvs \cup built_dv[c]) \ old_dvs
  OBVIOUS
<1>1. /\ UNCHANGED <<epoch, status, ref_cnt, deletion_to_apply, pin, held, next_id, next_dv,
                     vacuuming, disk>>
      /\ Pinned(c)
      /\ manifest_lock = NoClient /\ manifest_lock' = c
      /\ rowsets' = rowsets \cup built[c]
      /\ dvs' = dvs \cup built_dv[c]
      /\ pending' = [pending EXCEPT ![c] = new]
      /\ built' = [built EXCEPT ![c] = {}]
      /\ built_dv' = [built_dv EXCEPT ![c] = {}]
  BY DEF CommitApply
<1>2. /\ epoch \in Epoch /\ epoch \in 1 .. epoch /\ pin[c] \in 1 .. epoch
      /\ \A e \in 1 .. epoch : e \in Epoch /\ status[e].rowsets \subseteq Rowset
  BY <1>1, RowsetTypes, PinRange DEF IInv
<1>3. /\ pending \in [Client -> Commit] /\ built \in [Client -> SUBSET Rowset]
      /\ built_dv \in [Client -> SUBSET Dv] /\ status[epoch] \in Snapshot
      /\ deleted \subseteq status[pin[c]].rowsets /\ deleted \subseteq Rowset
  BY <1>2 DEF IInv, VMTypeOK, SnapshotOf
<1>4. new \in Commit
  BY <1>2, <1>3, BoundAssumption DEF Commit, Snapshot, Epoch
<1>5. /\ pending'[c] = new /\ built'[c] = {}
      /\ \A d \in Client : d # c => pending'[d] = NoCommit /\ built'[d] = built[d]
      /\ \A d \in Client : built'[d] \subseteq built[d]
  BY <1>1, <1>3, ClientAssumption DEF IInv, CommitsOK
<1> HIDE DEF new
<1>6. VMTypeOK'
  <2>1. pending' \in [Client -> Commit]
    BY <1>1, <1>3, <1>4
  <2>2. built' \in [Client -> SUBSET Rowset] /\ built_dv' \in [Client -> SUBSET Dv]
    BY <1>1, <1>3
  <2>3. rowsets' \in SUBSET Rowset /\ dvs' \in SUBSET Dv
    BY <1>1, <1>3 DEF IInv, VMTypeOK
  <2> QED
    BY <1>1, <2>1, <2>2, <2>3 DEF IInv, VMTypeOK, vacuuming
<1>7. PinsOK'
  BY <1>1 DEF IInv, PinsOK, Pinned, SnapshotOf
<1>8. CommitsOK'
  <2>1. \A r \in new.rowsets :
           r \in status[epoch].rowsets \/ \A e \in 1 .. epoch : r \notin status[e].rowsets
    BY <1>0 DEF IInv, BuiltFresh
  <2>2. new.base = epoch /\ new.rowsets \cap new.deleted = {}
    BY <1>0
  <2> QED
    BY <1>1, <1>5, <2>1, <2>2 DEF CommitsOK, Pinned
<1>9. IdsUsed'
  <2>1. \A r \in new.rowsets \cup new.deleted : r[2] < next_id
    BY <1>0, <1>2, <1>3 DEF IInv, IdsUsed
  <2>2. \A d \in Client : \A r \in built'[d] \cup pending'[d].rowsets \cup pending'[d].deleted :
           r[2] < next_id
    BY <1>5, <2>1, NoCommitEmpty DEF IInv, IdsUsed
  <2> QED
    BY <1>1, <2>2 DEF IInv, IdsUsed, vacuuming
<1>10. BuiltFresh'
  <2> SUFFICES ASSUME NEW d \in Client, NEW r \in built'[d]
               PROVE  /\ r \in disk
                      /\ \A e \in 1 .. epoch : r \notin status[e].rowsets
                      /\ \A b \in Client : r \notin pending'[b].rowsets \cup pending'[b].deleted
                      /\ \A b \in Client : b # d => r \notin built'[b]
                      /\ \A x \in deletion_to_apply \cup removing : x[2] # r
    BY <1>1 DEF BuiltFresh, vacuuming
  <2>1. d # c /\ r \in built[d]
    BY <1>5
  <2>2. r \notin built[c] /\ r \notin status[epoch].rowsets /\ r \notin deleted
    BY <1>2, <1>3, <2>1 DEF IInv, BuiltFresh
  <2>3. \A b \in Client : r \notin pending'[b].rowsets \cup pending'[b].deleted
    <3>1. r \notin new.rowsets \cup new.deleted
      BY <1>0, <2>2
    <3>2. r \notin NoCommit.rowsets \cup NoCommit.deleted
      BY NoCommitEmpty
    <3> QED
      BY <1>5, <3>1, <3>2
  <2> QED
    BY <1>5, <2>1, <2>3 DEF IInv, BuiltFresh
<1>11. LiveOK'
  <2>1. new.rowsets \subseteq rowsets' \cap disk
    BY <1>0, <1>1 DEF IInv, LiveOK, BuiltFresh
  <2>2. new.dvs \subseteq dvs'
    BY <1>0, <1>1, <1>2 DEF IInv, LiveOK
  <2>3. \A d \in Client : pending'[d].rowsets \subseteq rowsets' \cap disk /\ pending'[d].dvs \subseteq dvs'
    BY <1>5, <2>1, <2>2, NoCommitEmpty
  <2> QED
    BY <1>1, <2>3 DEF IInv, LiveOK, Pinned, SnapshotOf
<1>12. DoomedOK'
  <2>1. \A x \in deletion_to_apply \cup removing : x[2] \notin new.rowsets
    <3> SUFFICES ASSUME NEW x \in deletion_to_apply \cup removing
                 PROVE  x[2] \notin current.rowsets /\ x[2] \notin built[c]
      BY <1>0
    <3>1. epoch \in x[1] .. epoch
      <4>1. x[1] \in Epoch /\ x[1] <= epoch
        BY RowsetTypes DEF IInv, DoomedOK
      <4> QED
        BY <1>2, <4>1 DEF Epoch
    <3> QED
      BY <3>1 DEF IInv, DoomedOK, BuiltFresh
  <2>2. \A x \in deletion_to_apply \cup removing : \A d \in Client : x[2] \notin pending'[d].rowsets
    BY <1>5, <2>1, NoCommitEmpty
  <2> QED
    BY <1>1, <2>2 DEF IInv, DoomedOK, Pinned, vacuuming
<1>13. RefCntExact' /\ NoLostWakeup' /\ VacuumNeverPanics'
  BY <1>1 DEF IInv, RefCntExact, NoLostWakeup, VacuumNeverPanics, CanApply, vacuuming
<1> QED
  BY <1>6, <1>7, <1>8, <1>9, <1>10, <1>11, <1>12, <1>13 DEF IInv

\* A panic in commit_changes leaves the new RowSets in the pool, in no snapshot.
LEMMA CommitPanicInv ==
  ASSUME IInv, NEW c \in Client, NEW t, NEW deleted, NEW last,
         CommitPanic(c, t, deleted, last)
  PROVE  IInv'
<1>1. /\ UNCHANGED <<epoch, status, ref_cnt, deletion_to_apply, manifest_lock, pending, pin,
                     held, next_id, next_dv, vacuuming, disk>>
      /\ rowsets' = rowsets \cup built[c]
      /\ dvs' = dvs \cup built_dv[c]
      /\ built' = [built EXCEPT ![c] = {}]
      /\ built_dv' = [built_dv EXCEPT ![c] = {}]
  BY DEF CommitPanic
<1>2. built \in [Client -> SUBSET Rowset] /\ built_dv \in [Client -> SUBSET Dv]
  BY DEF IInv, VMTypeOK
<1>3. \A d \in Client : built'[d] \subseteq built[d]
  BY <1>1, <1>2
<1>4. VMTypeOK'
  <2>1. built' \in [Client -> SUBSET Rowset] /\ built_dv' \in [Client -> SUBSET Dv]
    BY <1>1, <1>2
  <2>2. rowsets' \in SUBSET Rowset /\ dvs' \in SUBSET Dv
    BY <1>1, <1>2 DEF IInv, VMTypeOK
  <2> QED
    BY <1>1, <2>1, <2>2 DEF IInv, VMTypeOK, vacuuming
<1>5. PinsOK' /\ CommitsOK' /\ DoomedOK'
  BY <1>1 DEF IInv, PinsOK, CommitsOK, DoomedOK, Pinned, SnapshotOf, vacuuming
<1>6. IdsUsed'
  BY <1>1, <1>3 DEF IInv, IdsUsed, vacuuming
<1>7. BuiltFresh'
  BY <1>1, <1>3 DEF IInv, BuiltFresh, vacuuming
<1>8. LiveOK'
  BY <1>1 DEF IInv, LiveOK, Pinned, SnapshotOf
<1>9. RefCntExact' /\ NoLostWakeup' /\ VacuumNeverPanics'
  BY <1>1 DEF IInv, RefCntExact, NoLostWakeup, VacuumNeverPanics, CanApply, vacuuming
<1> QED
  BY <1>4, <1>5, <1>6, <1>7, <1>8, <1>9 DEF IInv

\* manifest.append fails: the commit is forgotten.
LEMMA CommitFailInv ==
  ASSUME IInv, NEW c \in Client, CommitFail(c)
  PROVE  IInv'
<1>1. /\ UNCHANGED <<inner, clients, vacuuming, disk>>
      /\ manifest_lock = c /\ manifest_lock' = NoClient
      /\ pending' = [pending EXCEPT ![c] = NoCommit]
  BY DEF CommitFail
<1>2. pending \in [Client -> Commit]
  BY DEF IInv, VMTypeOK
<1>3. \A d \in Client : pending'[d] = NoCommit
  BY <1>1, <1>2 DEF IInv, CommitsOK
<1>4. VMTypeOK'
  <2>1. pending' \in [Client -> Commit]
    BY <1>1, <1>2, NoCommitType
  <2> QED
    BY <1>1, <2>1 DEF IInv, VMTypeOK, inner, clients, vacuuming
<1>5. PinsOK'
  BY <1>1 DEF IInv, PinsOK, Pinned, SnapshotOf, inner, clients
<1>6. CommitsOK'
  BY <1>1, <1>3, ClientAssumption DEF CommitsOK
<1>7. IdsUsed' /\ BuiltFresh'
  BY <1>1, <1>3, NoCommitEmpty DEF IInv, IdsUsed, BuiltFresh, inner, clients, vacuuming
<1>8. LiveOK' /\ DoomedOK'
  BY <1>1, <1>3, NoCommitEmpty DEF IInv, LiveOK, DoomedOK, Pinned, SnapshotOf, inner, clients,
                    vacuuming
<1>9. RefCntExact' /\ NoLostWakeup' /\ VacuumNeverPanics'
  BY <1>1 DEF IInv, RefCntExact, NoLostWakeup, VacuumNeverPanics, CanApply, inner, clients,
              vacuuming
<1> QED
  BY <1>4, <1>5, <1>6, <1>7, <1>8, <1>9 DEF IInv
-----------------------------------------------------------------------------
USE DEF Released, Notifies

\* commit_changes after the append: the new epoch's snapshot is the pending one,
\* and what the commit deletes is queued for the vacuum.  The committer's own pin
\* is older than the new epoch, so that nothing becomes applicable.
LEMMA CommitFinishInv ==
  ASSUME IInv, NEW c \in Client, CommitFinish(c)
  PROVE  IInv'
<1> DEFINE new == [rowsets |-> pending[c].rowsets, dvs |-> pending[c].dvs]
           queued == {epoch + 1} \X pending[c].deleted
<1>1. /\ UNCHANGED <<rowsets, dvs, ref_cnt, clients, vacuuming, disk>>
      /\ manifest_lock = c /\ manifest_lock' = NoClient
      /\ epoch < MaxEpoch /\ epoch' = epoch + 1
      /\ status' = [status EXCEPT ![epoch + 1] = new]
      /\ deletion_to_apply' = deletion_to_apply \cup queued
      /\ pending' = [pending EXCEPT ![c] = NoCommit]
  BY DEF CommitFinish
<1>2. /\ epoch \in Epoch /\ epoch \in Nat \ {0} /\ epoch + 1 \in Epoch
      /\ \A e \in 1 .. epoch : e \in Epoch /\ e # epoch + 1
      /\ 1 .. epoch' = (1 .. epoch) \cup {epoch + 1}
  BY <1>1, BoundAssumption DEF IInv, VMTypeOK, Epoch
<1>3. /\ pending \in [Client -> Commit] /\ pending[c] \in Commit
      /\ status \in [Epoch -> Snapshot]
  BY DEF IInv, VMTypeOK
<1>4. \A d \in Client : pending'[d] = NoCommit
  BY <1>1, <1>3 DEF IInv, CommitsOK
<1>5. /\ status'[epoch + 1] = new /\ status'[epoch'] = new
      /\ \A e \in 1 .. epoch : status'[e] = status[e]
  BY <1>1, <1>2, <1>3
<1>6. /\ \A d \in Client : Pinned(d) => pin[d] \in 1 .. epoch /\ status'[pin[d]] = status[pin[d]]
      /\ pin' = pin /\ held' = held /\ built' = built
  BY <1>1, <1>5, PinRange DEF IInv, clients
<1>7. VMTypeOK'
  <2>1. new \in Snapshot /\ queued \subseteq Epoch \X Rowset
    BY <1>2, <1>3 DEF Commit, Snapshot
  <2>2. status' \in [Epoch -> Snapshot] /\ pending' \in [Client -> Commit]
    BY <1>1, <1>3, <2>1, NoCommitType
  <2>3. deletion_to_apply' \in SUBSET (Epoch \X Rowset)
    BY <1>1, <2>1 DEF IInv, VMTypeOK
  <2> QED
    BY <1>1, <1>2, <2>2, <2>3 DEF IInv, VMTypeOK, clients, vacuuming
<1>8. PinsOK'
  <2>1. \A d \in Client : pin[d] \in Int /\ pin[d] <= epoch'
    BY <1>1, <1>2 DEF IInv, VMTypeOK, PinsOK
  <2> QED
    BY <1>6, <2>1 DEF IInv, PinsOK, Pinned, SnapshotOf
<1>9. CommitsOK'
  BY <1>1, <1>4, ClientAssumption DEF CommitsOK
<1>10. IdsUsed'
  <2>1. \A r \in pending[c].rowsets \cup pending[c].deleted : r[2] < next_id
    BY DEF IInv, IdsUsed
  <2>2. \A e \in 1 .. epoch' : \A r \in status'[e].rowsets : r[2] < next_id
    BY <1>2, <1>5, <2>1 DEF IInv, IdsUsed
  <2>3. \A x \in deletion_to_apply' \cup removing : x[2][2] < next_id
    BY <1>1, <2>1 DEF IInv, IdsUsed
  <2>4. \A d \in Client : \A r \in built[d] : r[2] < next_id
    BY DEF IInv, IdsUsed
  <2> QED
    BY <1>1, <1>4, <2>2, <2>3, <2>4, NoCommitEmpty DEF IdsUsed, clients, vacuuming
<1>11. BuiltFresh'
  <2>1. \A d \in Client : \A r \in built[d] : r \notin pending[c].rowsets \cup pending[c].deleted
    BY DEF IInv, BuiltFresh
  <2>2. \A d \in Client : \A r \in built[d] : \A e \in 1 .. epoch' : r \notin status'[e].rowsets
    BY <1>2, <1>5, <2>1 DEF IInv, BuiltFresh
  <2>3. \A d \in Client : \A r \in built[d] : \A x \in deletion_to_apply' \cup removing : x[2] # r
    BY <1>1, <2>1 DEF IInv, BuiltFresh
  <2> QED
    BY <1>1, <1>4, <1>6, <2>2, <2>3, NoCommitEmpty DEF IInv, BuiltFresh, vacuuming
<1>12. LiveOK'
  <2>1. /\ pending[c].rowsets \subseteq rowsets \cap disk /\ pending[c].dvs \subseteq dvs
        /\ \A e \in 1 .. epoch : status[e].dvs \subseteq dvs
        /\ \A d \in Client : Pinned(d) => SnapshotOf(d).rowsets \subseteq rowsets \cap disk
    BY DEF IInv, LiveOK
  <2>2. \A e \in 1 .. epoch' : status'[e].dvs \subseteq dvs
    <3>1. status'[epoch + 1].dvs \subseteq dvs
      BY <1>5, <2>1
    <3>2. \A e \in 1 .. epoch : status'[e].dvs \subseteq dvs
      BY <1>5, <2>1
    <3> QED
      BY <1>2, <3>1, <3>2
  <2>3. status'[epoch'].rowsets \subseteq rowsets \cap disk
    BY <1>5, <2>1
  <2>4. \A d \in Client : Pinned(d)' => SnapshotOf(d)'.rowsets \subseteq rowsets \cap disk
    BY <1>6, <2>1 DEF Pinned, SnapshotOf
  <2>5. \A d \in Client : pending'[d].rowsets = {} /\ pending'[d].dvs = {}
    BY <1>4, NoCommitEmpty
  <2> QED
    BY <1>1, <2>2, <2>3, <2>4, <2>5 DEF LiveOK
<1>13. DoomedOK'
  <2>1. ASSUME NEW x \in deletion_to_apply \cup removing
        PROVE  x[1] <= epoch' /\ \A e \in x[1] .. epoch' : x[2] \notin status'[e].rowsets
    <3>1. x[1] \in Epoch /\ x[1] \in Nat \ {0} /\ x[1] <= epoch
      BY RowsetTypes DEF IInv, DoomedOK, Epoch
    <3>2. \A e \in x[1] .. epoch' : (e \in 1 .. epoch /\ e \in x[1] .. epoch) \/ e = epoch + 1
      BY <1>1, <1>2, <3>1
    <3>3. x[2] \notin pending[c].rowsets
      BY DEF IInv, DoomedOK
    <3> QED
      BY <1>1, <1>2, <1>5, <3>1, <3>2, <3>3 DEF IInv, DoomedOK
  <2>2. ASSUME NEW x \in queued
        PROVE  x[1] <= epoch' /\ \A e \in x[1] .. epoch' : x[2] \notin status'[e].rowsets
    <3>1. x[1] = epoch + 1 /\ x[2] \in pending[c].deleted
      OBVIOUS
    <3>2. x[2] \notin pending[c].rowsets
      BY <1>1, <3>1 DEF IInv, CommitsOK
    <3>3. x[1] <= epoch' /\ \A e \in x[1] .. epoch' : e = epoch + 1
      BY <1>1, <1>2, <3>1
    <3>4. x[2] \notin status'[epoch + 1].rowsets
      BY <1>5, <3>2
    <3> QED
      BY <3>3, <3>4
  <2>3. \A x \in removing : \A d \in Client : Pinned(d) => x[1] <= pin[d]
    BY DEF IInv, DoomedOK
  <2>4. \A x \in deletion_to_apply' \cup removing :
           x[1] <= epoch' /\ \A e \in x[1] .. epoch' : x[2] \notin status'[e].rowsets
    BY <1>1, <2>1, <2>2
  <2>5. \A d \in Client : pending'[d].rowsets = {}
    BY <1>4, NoCommitEmpty
  <2> QED
    BY <1>1, <1>6, <2>3, <2>4, <2>5 DEF DoomedOK, Pinned, vacuuming
<1>14. RefCntExact' /\ VacuumNeverPanics'
  BY <1>1 DEF IInv, RefCntExact, VacuumNeverPanics, clients, vacuuming
<1>15. NoLostWakeup'
  <2>1. ASSUME NEW e, e = epoch + 1 PROVE ~ CanApply(e)'
    <3>1. pin[c] \in 1 .. epoch /\ pin[c] \in Epoch /\ ref_cnt[pin[c]] > 0
      BY <1>1, <1>6, PinnedCounted DEF IInv, CommitsOK
    <3> QED
      BY <1>1, <1>2, <2>1, <3>1 DEF CanApply
  <2>2. \A x \in deletion_to_apply : CanApply(x[1])' => CanApply(x[1])
    BY <1>1 DEF IInv, DoomedOK, CanApply
  <2>3. \A x \in queued : x[1] = epoch + 1
    OBVIOUS
  <2> QED
    BY <1>1, <2>1, <2>2, <2>3 DEF IInv, NoLostWakeup, vacuuming
<1> QED
  BY <1>7, <1>8, <1>9, <1>10, <1>11, <1>12, <1>13, <1>14, <1>15 DEF IInv

\* Drop for Version.  A deletion becomes applicable only if this was the last pin
\* of an epoch before it: exactly when the vacuum task is notified.
LEMMA UnpinInv ==
  ASSUME IInv, NEW c \in Client, Unpin(c)
  PROVE  IInv'
<1> DEFINE p == pin[c]
<1>1. /\ UNCHANGED <<epoch, status, rowsets, dvs, deletion_to_apply, manifest_lock, pending,
                     held, next_id, next_dv, vacuum, removing, disk>>
      /\ Pinned(c) /\ pending[c] = NoCommit /\ held[c] = {}
      /\ ref_cnt' = [ref_cnt EXCEPT ![p] = @ - 1]
      /\ pin' = [pin EXCEPT ![c] = 0]
      /\ built' = [built EXCEPT ![c] = {}]
      /\ built_dv' = [built_dv EXCEPT ![c] = {}]
      /\ notified' = IF ref_cnt[p] = 1 /\ p # epoch /\ vacuum = "running"
                     THEN notified + 1 ELSE notified
  BY DEF Unpin
<1>2. /\ pin \in [Client -> 0 .. MaxEpoch] /\ ref_cnt \in [Epoch -> Nat] /\ notified \in Nat
      /\ built \in [Client -> SUBSET Rowset] /\ built_dv \in [Client -> SUBSET Dv]
  BY DEF IInv, VMTypeOK
<1>3. p \in Epoch /\ ref_cnt[p] \in Nat /\ ref_cnt[p] > 0
  BY <1>1, <1>2, PinnedCounted DEF IInv
<1>4. /\ \A d \in Client : d # c => pin'[d] = pin[d]
      /\ pin'[c] = 0
      /\ \A d \in Client : built'[d] \subseteq built[d]
  BY <1>1, <1>2
<1>5. VMTypeOK'
  <2>1. ref_cnt' \in [Epoch -> Nat] /\ notified' \in Nat
    BY <1>1, <1>2, <1>3
  <2>2. pin' \in [Client -> 0 .. MaxEpoch]
    BY <1>1, <1>2, BoundAssumption
  <2>3. built' \in [Client -> SUBSET Rowset] /\ built_dv' \in [Client -> SUBSET Dv]
    BY <1>1, <1>2
  <2> QED
    BY <1>1, <2>1, <2>2, <2>3 DEF IInv, VMTypeOK
<1>6. PinsOK'
  <2>1. \A d \in Client : pin'[d] <= epoch
    BY <1>1, <1>4, PinRange DEF IInv, PinsOK
  <2> QED
    BY <1>1, <1>4, <2>1 DEF IInv, PinsOK, Pinned, SnapshotOf
<1>7. CommitsOK'
  <2>1. manifest_lock # c
    BY <1>1, PinRange DEF IInv, CommitsOK, NoCommit
  <2> QED
    BY <1>1, <1>4, <2>1 DEF IInv, CommitsOK, Pinned
<1>8. IdsUsed' /\ BuiltFresh'
  BY <1>1, <1>4 DEF IInv, IdsUsed, BuiltFresh
<1>9. LiveOK' /\ DoomedOK'
  BY <1>1, <1>4 DEF IInv, LiveOK, DoomedOK, Pinned, SnapshotOf
<1>10. RefCntExact'
  <2> SUFFICES ASSUME NEW e \in Epoch
               PROVE  ref_cnt'[e] = Cardinality({d \in Client : pin'[d] = e})
    BY DEF RefCntExact
  <2> DEFINE S == {d \in Client : pin[d] = e}
  <2>1. IsFiniteSet(S) /\ ref_cnt[e] = Cardinality(S)
    BY PinnersFinite DEF IInv, RefCntExact
  <2>2. CASE e = p
    <3>1. {d \in Client : pin'[d] = e} = S \ {c} /\ c \in S
      BY <1>4, <2>2, EpochRange
    <3>2. Cardinality(S \ {c}) = Cardinality(S) - 1
      BY <2>1, <3>1, FS_RemoveElement
    <3> QED
      BY <1>1, <1>2, <2>1, <2>2, <3>1, <3>2
  <2>3. CASE e # p
    <3>1. {d \in Client : pin'[d] = e} = S
      BY <1>4, <2>3, EpochRange
    <3> QED
      BY <1>1, <1>2, <2>1, <2>3, <3>1
  <2> QED
    BY <2>2, <2>3
<1>11. NoLostWakeup'
  <2> SUFFICES ASSUME vacuum = "running", NEW x \in deletion_to_apply, CanApply(x[1])'
               PROVE  notified' > 0
    BY <1>1 DEF NoLostWakeup
  <2>1. x[1] \in Epoch /\ x[1] <= epoch /\ x[1] \in Int
    BY RowsetTypes, EpochRange DEF IInv, DoomedOK
  <2>2. CASE CanApply(x[1])
    BY <1>1, <1>2, <2>2 DEF IInv, NoLostWakeup
  <2>3. CASE ~ CanApply(x[1])
    <3>1. PICK q \in Epoch : ref_cnt[q] > 0 /\ ~ (x[1] <= q)
      BY <2>1, <2>3 DEF CanApply
    <3>2. ~ (ref_cnt'[q] > 0)
      BY <3>1 DEF CanApply
    <3>3. q = p /\ ref_cnt[p] = 1
      BY <1>1, <1>2, <1>3, <3>1, <3>2
    <3>4. p # epoch
      BY <2>1, <3>1, <3>3
    <3> QED
      BY <1>1, <1>2, <3>3, <3>4
  <2> QED
    BY <2>2, <2>3
<1>12. VacuumNeverPanics'
  BY <1>1 DEF IInv, VacuumNeverPanics
<1> QED
  BY <1>5, <1>6, <1>7, <1>8, <1>9, <1>10, <1>11, <1>12 DEF IInv

\* find_vacuum: what it takes was deleted at or before every pinned epoch, so that
\* no pinned snapshot has it and no client holds it.
LEMMA FindVacuumInv ==
  ASSUME IInv, FindVacuum
  PROVE  IInv'
<1> DEFINE found == {x \in deletion_to_apply : CanApply(x[1])}
           gone  == {x[2] : x \in found}
           used  == \E c \in Client : held[c] \cap gone \cap rowsets # {}
<1>1. /\ UNCHANGED <<epoch, status, dvs, ref_cnt, manifest_lock, pending, clients, disk>>
      /\ vacuum = "running" /\ removing = {}
      /\ notified > 0 /\ notified' = notified - 1
      /\ deletion_to_apply' = deletion_to_apply \ found
      /\ rowsets' = rowsets \ gone
      /\ vacuum' = IF used THEN "panicked" ELSE "running"
      /\ removing' = IF used THEN {} ELSE found
  BY DEF FindVacuum
<1>2. ASSUME NEW x \in found, NEW c \in Client, Pinned(c)
      PROVE  x[1] <= pin[c] /\ x[2] \notin SnapshotOf(c).rowsets
  <2>1. x \in deletion_to_apply /\ CanApply(x[1]) /\ x[1] \in Epoch
    BY RowsetTypes DEF IInv
  <2>2. x[1] <= pin[c]
    BY <1>2, <2>1, CanApplyBelowPins DEF IInv
  <2>3. pin[c] \in x[1] .. epoch
    BY <1>2, <2>1, <2>2, PinRange, EpochRange DEF IInv
  <2> QED
    BY <2>1, <2>2, <2>3 DEF IInv, DoomedOK, SnapshotOf
<1>3. ~ used
  <2> SUFFICES ASSUME NEW c \in Client, NEW x \in found, x[2] \in held[c] PROVE FALSE
    OBVIOUS
  <2>1. Pinned(c) /\ x[2] \in SnapshotOf(c).rowsets
    BY DEF IInv, PinsOK
  <2> QED
    BY <1>2, <2>1
<1>4. deletion_to_apply' \cup removing' = deletion_to_apply \cup removing
  BY <1>1, <1>3
<1>5. VMTypeOK'
  BY <1>1, <1>3 DEF IInv, VMTypeOK, clients
<1>6. PinsOK' /\ CommitsOK'
  BY <1>1 DEF IInv, PinsOK, CommitsOK, Pinned, SnapshotOf, clients
<1>7. IdsUsed' /\ BuiltFresh'
  BY <1>1, <1>4 DEF IInv, IdsUsed, BuiltFresh, clients
<1>8. LiveOK'
  <2>1. \A x \in found : x[2] \notin status[epoch].rowsets
    <3> SUFFICES ASSUME NEW x \in found PROVE x[2] \notin status[epoch].rowsets
      OBVIOUS
    <3>1. epoch \in x[1] .. epoch
      BY RowsetTypes, PinRange, EpochRange DEF IInv, DoomedOK
    <3> QED
      BY <3>1 DEF IInv, DoomedOK
  <2>2. \A x \in found : \A c \in Client : x[2] \notin pending[c].rowsets
    BY DEF IInv, DoomedOK
  <2> QED
    BY <1>1, <1>2, <2>1, <2>2 DEF IInv, LiveOK, Pinned, SnapshotOf, clients
<1>9. DoomedOK'
  BY <1>1, <1>2, <1>3, <1>4 DEF IInv, DoomedOK, Pinned, clients
<1>10. RefCntExact' /\ VacuumNeverPanics'
  BY <1>1, <1>3 DEF IInv, RefCntExact, VacuumNeverPanics, clients
<1>11. NoLostWakeup'
  BY <1>1 DEF NoLostWakeup, CanApply
<1> QED
  BY <1>5, <1>6, <1>7, <1>8, <1>9, <1>10, <1>11 DEF IInv

\* do_vacuum's remove_dir_all: the directory belongs to no snapshot that is
\* current, pinned or about to be committed.
LEMMA RemoveDirInv ==
  ASSUME IInv, NEW x \in removing, RemoveDir(x)
  PROVE  IInv'
<1>1. /\ UNCHANGED <<inner, manifest_lock, pending, clients, notified>>
      /\ vacuum = "running"
      /\ disk' = disk \ {x[2]}
      /\ removing' \subseteq removing
      /\ \/ vacuum' = vacuum
         \/ vacuum' = "failed"
  BY DEF RemoveDir
<1>2. /\ x[2] \notin status[epoch].rowsets
      /\ \A c \in Client : /\ x[2] \notin pending[c].rowsets
                           /\ x[2] \notin built[c]
                           /\ Pinned(c) => x[2] \notin SnapshotOf(c).rowsets
  <2>1. x[1] \in Epoch /\ x[1] \in Int /\ x[1] <= epoch
    BY RowsetTypes, EpochRange DEF IInv, DoomedOK
  <2>2. epoch \in x[1] .. epoch
    BY <2>1, PinRange DEF IInv
  <2>3. \A c \in Client : Pinned(c) => pin[c] \in x[1] .. epoch
    BY <2>1, PinRange DEF IInv, DoomedOK
  <2> QED
    BY <2>2, <2>3 DEF IInv, DoomedOK, BuiltFresh, SnapshotOf
<1>3. VMTypeOK'
  BY <1>1 DEF IInv, VMTypeOK, inner, clients
<1>4. PinsOK' /\ CommitsOK'
  BY <1>1 DEF IInv, PinsOK, CommitsOK, Pinned, SnapshotOf, inner, clients
<1>5. IdsUsed' /\ DoomedOK'
  BY <1>1 DEF IInv, IdsUsed, DoomedOK, Pinned, inner, clients
<1>6. BuiltFresh'
  BY <1>1, <1>2 DEF IInv, BuiltFresh, inner, clients
<1>7. LiveOK'
  BY <1>1, <1>2 DEF IInv, LiveOK, Pinned, SnapshotOf, inner, clients
<1>8. RefCntExact' /\ NoLostWakeup' /\ VacuumNeverPanics'
  BY <1>1 DEF IInv, RefCntExact, NoLostWakeup, VacuumNeverPanics, CanApply, inner, clients
<1> QED
  BY <1>3, <1>4, <1>5, <1>6, <1>7, <1>8 DEF IInv

\* The stop message ends the vacuum task and changes nothing else.
LEMMA StopVacuumInv ==
  ASSUME IInv, StopVacuum
  PROVE  IInv'
<1>1. /\ UNCHANGED <<inner, manifest_lock, pending, clients, notified, removing, disk>>
      /\ vacuum' = "stopped"
  BY DEF StopVacuum
<1>2. VMTypeOK'
  BY <1>1 DEF IInv, VMTypeOK, inner, clients
<1>3. PinsOK' /\ CommitsOK' /\ IdsUsed' /\ BuiltFresh' /\ LiveOK' /\ DoomedOK'
  BY <1>1 DEF IInv, PinsOK, CommitsOK, IdsUsed, BuiltFresh, LiveOK, DoomedOK, Pinned,
              SnapshotOf, inner, clients
<1>4. RefCntExact' /\ NoLostWakeup' /\ VacuumNeverPanics'
  BY <1>1 DEF IInv, RefCntExact, NoLostWakeup, VacuumNeverPanics, inner, clients
<1> QED
  BY <1>2, <1>3, <1>4 DEF IInv

\* A step that changes nothing.
LEMMA StutterInv ==
  ASSUME IInv, UNCHANGED vmvars
  PROVE  IInv'
<1> USE DEF vmvars, inner, clients, vacuuming
<1>1. VMTypeOK'
  BY DEF IInv, VMTypeOK
<1>2. PinsOK' /\ CommitsOK' /\ IdsUsed' /\ BuiltFresh' /\ LiveOK' /\ DoomedOK'
  BY DEF IInv, PinsOK, CommitsOK, IdsUsed, BuiltFresh, LiveOK, DoomedOK, Pinned, SnapshotOf
<1>3. RefCntExact' /\ NoLostWakeup' /\ VacuumNeverPanics'
  BY DEF IInv, RefCntExact, NoLostWakeup, VacuumNeverPanics, CanApply
<1> QED
  BY <1>1, <1>2, <1>3 DEF IInv
-----------------------------------------------------------------------------
\* Every step of every client and of the vacuum task preserves IInv.
LEMMA NextInv == IInv /\ [VMNext]_vmvars => IInv'
<1> SUFFICES ASSUME IInv, [VMNext]_vmvars PROVE IInv'
  OBVIOUS
<1>1. ASSUME NEW c \in Client, ClientNext(c) PROVE IInv'
  <2>1. CASE Pin(c)
    BY <2>1, PinInv
  <2>2. CASE \E wanted \in SUBSET rowsets : GetRowsets(c, wanted)
    BY <2>2, HeldInv
  <2>3. CASE DropRowsets(c)
    BY <2>3, HeldInv
  <2>4. CASE \E t \in Table : BuildRowset(c, t)
    BY <2>4, BuildRowsetInv
  <2>5. CASE \E r \in Rowset : BuildDv(c, r)
    BY <2>5, BuildDvInv
  <2>6. CASE \E t \in Table : Pinned(c) /\ ClientCommit(c, t)
    <3>1. PICK t \in Table : ClientCommit(c, t)
      BY <2>6
    <3>2. PICK deleted \in SUBSET RowsetsOf(SnapshotOf(c), t) :
             \E last, old_dvs : \/ CommitApply(c, t, deleted, old_dvs, last)
                                \/ CommitPanic(c, t, deleted, last)
      BY <3>1 DEF ClientCommit
    <3>3. deleted \subseteq SnapshotOf(c).rowsets
      BY DEF RowsetsOf
    <3> QED
      BY <3>2, <3>3, CommitApplyInv, CommitPanicInv
  <2>7. CASE CommitFinish(c)
    BY <2>7, CommitFinishInv
  <2>8. CASE CommitFail(c)
    BY <2>8, CommitFailInv
  <2>9. CASE Unpin(c)
    BY <2>9, UnpinInv
  <2> QED
    BY <1>1, <2>1, <2>2, <2>3, <2>4, <2>5, <2>6, <2>7, <2>8, <2>9 DEF ClientNext
<1>2. CASE VacuumNext
  BY <1>2, FindVacuumInv, RemoveDirInv DEF VacuumNext
<1>3. CASE StopVacuum
  BY <1>3, StopVacuumInv
<1>4. CASE UNCHANGED vmvars
  BY <1>4, StutterInv
<1> QED
  BY <1>1, <1>2, <1>3, <1>4 DEF VMNext

\* The version manager without fairness: what the safety theorems are about.
LEMMA SafetyInv == VMInit /\ [][VMNext]_vmvars => []IInv
  BY InitInv, NextInv, PTL

\* IInv is an invariant of the version manager.
THEOREM Invariance == VMSpec => []IInv
  BY SafetyInv, PTL DEF VMSpec

\* What IInv says of the properties.
LEMMA InvImplies ==
  IInv => VMTypeOK /\ PinnedFilesExist /\ VacuumNeverPanics /\ CommitBaseIsCurrent
            /\ NoLostWakeup /\ RefCntExact
<1> SUFFICES ASSUME IInv
             PROVE  PinnedFilesExist /\ CommitBaseIsCurrent
  BY DEF IInv
<1>1. PinnedFilesExist
  <2>1. \A c \in Client : Pinned(c) => pin[c] \in 1 .. epoch
    BY PinRange DEF IInv
  <2> QED
    BY <2>1 DEF IInv, LiveOK, PinnedFilesExist, SnapshotOf
<1>2. CommitBaseIsCurrent
  BY DEF IInv, CommitsOK, CommitBaseIsCurrent
<1> QED
  BY <1>1, <1>2

\* Every variable keeps its type.
THEOREM TypeCorrect == VMSpec => []VMTypeOK
  BY Invariance, InvImplies, PTL

\* The files of a pinned version exist as long as it is pinned: get_rowset and
\* get_dv find what the snapshot names and its directories are on disk.
THEOREM PinsProtectFiles == VMSpec => []PinnedFilesExist
  BY Invariance, InvImplies, PTL

\* find_vacuum never meets a RowSet that is still being used.
THEOREM VacuumSafe == VMSpec => []VacuumNeverPanics
  BY Invariance, InvImplies, PTL

\* commit_changes' integrity check never fails.
THEOREM CommitsSerialised == VMSpec => []CommitBaseIsCurrent
  BY Invariance, InvImplies, PTL

\* The vacuum task always knows of the work it could do.
THEOREM WakeupsKept == VMSpec => []NoLostWakeup
  BY Invariance, InvImplies, PTL

\* The reference counts are the numbers of pins.
THEOREM CountsExact == VMSpec => []RefCntExact
  BY Invariance, InvImplies, PTL

\* A RowSet that left the current snapshot never comes back.
THEOREM DeletionsFinal == VMSpec => DeletedStaysDeleted
<1> DEFINE A == \A r \in Rowset : r \in status[epoch].rowsets' =>
                    \/ r \in status[epoch].rowsets
                    \/ \A e \in 1 .. epoch : r \notin status[e].rowsets
<1>1. IInv /\ [VMNext]_vmvars => A \/ UNCHANGED vmvars
  <2> SUFFICES ASSUME IInv, VMNext,
                      NEW r \in Rowset, r \in status'[epoch'].rowsets
               PROVE  \/ r \in status[epoch].rowsets
                      \/ \A e \in 1 .. epoch : r \notin status[e].rowsets
    OBVIOUS
  <2>1. CASE UNCHANGED <<epoch, status>>
    BY <2>1
  <2>2. CASE \E c \in Client : CommitFinish(c)
    <3>1. PICK c \in Client : CommitFinish(c)
      BY <2>2
    <3>2. epoch + 1 \in Epoch
      BY <3>1, BoundAssumption DEF CommitFinish, IInv, VMTypeOK, Epoch
    <3>3. status'[epoch'].rowsets = pending[c].rowsets
      BY <3>1, <3>2 DEF CommitFinish, IInv, VMTypeOK
    <3> QED
      BY <3>1, <3>3 DEF CommitFinish, IInv, CommitsOK
  <2>3. UNCHANGED <<epoch, status>> \/ \E c \in Client : CommitFinish(c)
    <3>1. CASE VacuumNext \/ StopVacuum
      BY <3>1 DEF VacuumNext, FindVacuum, RemoveDir, StopVacuum, inner
    <3>2. ASSUME NEW c \in Client, ClientNext(c)
          PROVE  UNCHANGED <<epoch, status>> \/ CommitFinish(c)
      <4>1. ASSUME NEW t, ClientCommit(c, t) PROVE UNCHANGED <<epoch, status>>
        BY <4>1 DEF ClientCommit, CommitApply, CommitPanic
      <4>2. ASSUME NEW wanted, GetRowsets(c, wanted) PROVE UNCHANGED <<epoch, status>>
        BY <4>2 DEF GetRowsets, inner
      <4>3. ASSUME NEW t, BuildRowset(c, t) \/ BuildDv(c, t) PROVE UNCHANGED <<epoch, status>>
        BY <4>3 DEF BuildRowset, BuildDv, inner
      <4>4. CASE Pin(c) \/ DropRowsets(c) \/ CommitFail(c) \/ Unpin(c)
        BY <4>4 DEF Pin, DropRowsets, CommitFail, Unpin, inner
      <4> QED
        BY <3>2, <4>1, <4>2, <4>3, <4>4 DEF ClientNext
    <3> QED
      BY <3>1, <3>2 DEF VMNext
  <2> QED
    BY <2>1, <2>2, <2>3
<1> QED
  BY <1>1, Invariance, PTL DEF VMSpec, DeletedStaysDeleted
=============================================================================
