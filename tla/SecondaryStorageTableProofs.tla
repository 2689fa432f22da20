--------------------- MODULE SecondaryStorageTableProofs ---------------------
(***************************************************************************)
(* Proofs about SecondaryStorage, sixth part: TInv is inductive, so that   *)
(* what a commit is about to publish are the current rows with exactly its *)
(* own writes applied, when DELETE and DROP TABLE do not run beside the    *)
(* compactor.                                                              *)
(***************************************************************************)
EXTENDS SecondaryStorageFactProofs

\* A leaf is tried with Zenon and then with the SMT solver.
USE ZenonT(5), SMTT(20)

\* A commit keeps the DVs of the RowSets it keeps.
LEMMA GrowStep ==
  ASSUME RInv, GrowOK, NEW c \in Client, Step(c)
  PROVE  GrowOK'
<1>0. /\ \A e \in 1 .. epoch : status'[e] = status[e]
      /\ \A d \in Client : d # c => pending'[d] = pending[d]
      /\ epoch \in 1 .. epoch
  BY StatusKept, StepFrame DEF RInv
<1> SUFFICES /\ \A e \in 1 .. epoch' : \A r \in status'[e].rowsets \cap status'[epoch'].rowsets :
                   DvsOf(status'[e], r) \subseteq DvsOf(status'[epoch'], r)
             /\ \A d \in Client : \A r \in status'[epoch'].rowsets \cap pending'[d].rowsets :
                   DvsOf(status'[epoch'], r) \subseteq DvsOf(pending'[d], r)
  BY DEF GrowOK, DvsOf
<1>1. CASE UNCHANGED <<epoch, status, pending>>
  BY <1>1 DEF GrowOK
<1>2. CASE Prepares(c)
  <2>1. /\ UNCHANGED <<epoch, status>>
        /\ \A r \in status[epoch].rowsets \cap pending'[c].rowsets :
              DvsOf(status[epoch], r) \subseteq DvsOf(pending'[c], r)
    BY <1>2, PrepareEffect
  <2> QED
    BY <1>0, <2>1 DEF GrowOK
<1>3. CASE Returns(c)
  <2>1. \A d \in Client : pending'[d].rowsets = {}
    BY <1>3, ReturnEffect DEF RInv
  <2>2. CASE UNCHANGED <<epoch, status>>
    BY <2>1, <2>2 DEF GrowOK
  <2>3. CASE ~ UNCHANGED <<epoch, status>>
    <3>1. /\ 1 .. epoch' = 1 .. epoch \cup {epoch'} /\ manifest_lock = c
          /\ status'[epoch'].rowsets = pending[c].rowsets /\ status'[epoch'].dvs = pending[c].dvs
      BY <1>3, <2>3, ReturnEffect DEF RInv
    <3>2. ASSUME NEW e \in 1 .. epoch, NEW r \in status[e].rowsets \cap pending[c].rowsets
          PROVE  DvsOf(status[e], r) \subseteq DvsOf(pending[c], r)
      <4>1. r \in status[epoch].rowsets
        BY <3>1 DEF RInv, SInv, IInv, CommitsOK
      <4>2. /\ DvsOf(status[e], r) \subseteq DvsOf(status[epoch], r)
            /\ DvsOf(status[epoch], r) \subseteq DvsOf(pending[c], r)
        BY <4>1 DEF GrowOK
      <4> QED
        BY <4>2
    <3>3. \A r : DvsOf(status'[epoch'], r) = DvsOf(pending[c], r)
      BY <3>1 DEF DvsOf
    <3>4. ASSUME NEW e \in 1 .. epoch', NEW r \in status'[e].rowsets \cap status'[epoch'].rowsets
          PROVE  DvsOf(status'[e], r) \subseteq DvsOf(status'[epoch'], r)
      BY <1>0, <3>1, <3>2, <3>3
    <3> QED
      BY <2>1, <3>4
  <2> QED
    BY <2>2, <2>3
<1> QED
  BY <1>1, <1>2, <1>3, LockFrame DEF RInv

\* Without the compactor every row stays in the RowSet it was inserted into.
LEMMA AloneStep ==
  ASSUME RInv, Alone, NEW c \in Client, Step(c)
  PROVE  Alone'
<1>0. /\ c \notin Compactor /\ DOMAIN pc = Client
      /\ \A d \in Client : d # c => pc'[d] = pc[d] /\ pending'[d] = pending[d]
  BY DoneStops, StepFrame, EngineTypes DEF RInv, Alone, Quiet
<1>1. Quiet(Compactor)'
  BY <1>0, RoleAssumption DEF Alone, Quiet
<1>2. \A r \in Published : contents'[r] = contents[r]
  BY PublishedStep
<1>3. \A d \in Client : \A r \in pending[d].rowsets : contents'[r] = contents[r]
  BY CommittedKept
<1>4. ASSUME NEW d \in Client, NEW S, S \subseteq Published \cup pending[d].rowsets
      PROVE  Unique(contents', S)
  <2>1. Unique(contents, Published \cup pending[d].rowsets)
    BY DEF Alone
  <2>2. Unique(contents, S) /\ \A r \in S : contents'[r] = contents[r]
    BY <1>2, <1>3, <1>4, <2>1, UniqueSub, SMT
  <2> QED
    BY <2>2, UniqueSame, SMT
<1>5. ASSUME NEW d \in Client PROVE Unique(contents', Published' \cup pending'[d].rowsets)
  <2>1. CASE UNCHANGED <<epoch, status>> /\ pending'[d] = pending[d]
    BY <1>4, <2>1, PublishedStep
  <2>2. CASE Prepares(c) /\ d = c
    <3>1. /\ UNCHANGED <<epoch, status, contents>> /\ status[epoch].rowsets \subseteq Published
          /\ pending'[c].rowsets \subseteq status[epoch].rowsets \cup built[c]
      BY <2>2, PrepareEffect, SnapshotPublished
    <3>2. Published' \cup pending'[d].rowsets \subseteq Published \cup built[c]
      BY <2>2, <3>1, PublishedStep
    <3>3. CASE c \notin Inserter
      <4>1. built[c] = {}
        BY <1>0, <3>3 DEF RInv, BuildersOK
      <4> QED
        BY <1>4, <3>2, <4>1
    <3>4. CASE c \in Inserter
      <4>1. pc[c] = "written"
        BY <2>2, <3>4, RoleAssumption
           DEF Prepares, InsertCommit, DeleteCommit, DropCommit, CompactCommit, Txn
      <4>2. /\ \A r \in Rowset \ built[c] : Range(contents[r]) \cap Range(Inserted[c]) = {}
            /\ Unique(contents, built[c])
            /\ Stored(contents, built[c]) = {Inserted[c][i] : i \in 1 .. Len(Inserted[c])}
        BY <3>4, <4>1 DEF RInv, InsertOK
      <4>3. Inserted[c] \in Seq(Row)
        BY <3>4, RowAssumption
      <4>4. Stored(contents, built[c]) = Range(Inserted[c])
        BY <4>2, <4>3, SMT DEF Range
      <4>5. ASSUME NEW r \in Published, NEW q \in built[c]
            PROVE  Range(contents[r]) \cap Range(contents[q]) = {}
        <5>1. r \in Rowset \ built[c]
          BY PublishedStep, SnapshotPublished
        <5>2. Range(contents[q]) \subseteq Range(Inserted[c])
          BY <4>4 DEF Stored
        <5> QED
          BY <4>2, <5>1, <5>2
      <4>6. Unique(contents, Published)
        BY UniqueSub DEF Alone
      <4>7. Unique(contents, Published \cup built[c])
        BY <4>2, <4>5, <4>6, UniqueUnion
      <4> QED
        BY <3>1, <3>2, <4>7, UniqueSub
    <3> QED
      BY <3>3, <3>4
  <2>3. CASE Prepares(c) /\ d # c
    BY <1>0, <2>1, <2>3, PrepareEffect
  <2>4. CASE Returns(c)
    <3>1. pending'[d].rowsets = {} /\ Published' \subseteq Published \cup pending[c].rowsets
      BY <2>4, ReturnEffect, PublishedStep DEF RInv
    <3> QED
      BY <1>4, <3>1
  <2> QED
    BY <2>1, <2>2, <2>3, <2>4, LockFrame DEF RInv
<1> QED
  BY <1>1, <1>5 DEF Alone

\* The two states of the manifest lock's holder.
LEMMA HolderStep ==
  ASSUME RInv, PointsOK, NEW c \in Client, Step(c), NEW d \in Client, manifest_lock' = d
  PROVE  \/ d # c /\ manifest_lock = d /\ UNCHANGED <<epoch, status, pending>>
         \/ d = c /\ Prepares(c) /\ UNCHANGED <<epoch, status>> /\ pc'[c] = "committing"
<1>1. CASE Returns(c)
  BY <1>1, ReturnEffect, ClientAssumption DEF RInv
<1>2. CASE Prepares(c)
  BY <1>2, PrepareEffect, PointsStep DEF PointsOK, RInv
<1>3. CASE UNCHANGED <<epoch, status, pending, manifest_lock>> /\ pc[c] # "committing"
  BY <1>3 DEF PointsOK
<1> QED
  BY <1>1, <1>2, <1>3, LockFrame DEF RInv

\* Without DELETE and DROP TABLE only the compactor removes RowSets from the current
\* snapshot, and in a round it does so once for each table.
LEMMA UndisturbedStep ==
  ASSUME RInv, PointsOK, DvsOK, Undisturbed, NEW c \in Client, Step(c)
  PROVE  Undisturbed'
<1>0. /\ c \notin Deleter \cup Dropper /\ DOMAIN pc = Client
      /\ \A d \in Client : d # c => pc'[d] = pc[d] /\ pending'[d] = pending[d] /\ pin'[d] = pin[d]
      /\ \A e \in 1 .. epoch : status'[e] = status[e]
      /\ epoch \in 1 .. epoch
  BY DoneStops, StepFrame, StatusKept, EngineTypes DEF RInv, Undisturbed, Quiet
<1>1. Quiet(Deleter \cup Dropper)'
  BY <1>0, RoleAssumption DEF Undisturbed, Quiet, Txn
<1>2. built_dv[c] = {} /\ status[epoch].dvs = {} /\ \A d \in Client : pending[d].dvs = {}
  BY <1>0 DEF DvsOK, Undisturbed
<1>3. \A d \in Client : pending'[d].dvs = {}
  <2>1. pending'[c].dvs = {}
    BY <1>2, LockFrame, PrepareEffect, ReturnEffect DEF RInv
  <2> QED
    BY <1>0, <1>2, <2>1
<1>4. ASSUME NEW e \in 1 .. epoch' PROVE status'[e].dvs = {}
  <2>1. CASE e \in 1 .. epoch
    BY <1>0, <2>1 DEF Undisturbed
  <2>2. CASE e \notin 1 .. epoch
    <3>1. Returns(c)
      BY <2>2, LockFrame, PrepareEffect DEF RInv
    <3>2. e = epoch' /\ status'[epoch'].dvs = pending[c].dvs
      BY <1>4, <2>2, <3>1, ReturnEffect DEF RInv
    <3> QED
      BY <1>2, <3>2
  <2> QED
    BY <2>1, <2>2
<1>5. ASSUME NEW k \in Compactor, Pinned(k)',
             NEW r \in SnapshotOf(k)'.rowsets, r[1] \in Open(k)'
      PROVE  r \in status'[epoch'].rowsets
  <2>0. k \in Client
    BY RoleAssumption
  <2>1. CASE k = c /\ Pin(c)
    <3>1. pin'[k] = epoch /\ UNCHANGED <<epoch, status>>
      BY <2>1, PinTaken DEF RInv
    <3> QED
      BY <1>5, <3>1 DEF SnapshotOf
  <2>2. CASE pin'[k] = pin[k]
    <3>1. Pinned(k) /\ pin[k] \in 1 .. epoch
      BY <1>5, <2>0, <2>2, SnapshotPublished DEF Pinned
    <3>2. r \in SnapshotOf(k).rowsets /\ r[1] \in Open(k)
      BY <1>0, <1>5, <2>2, <3>1, OpenShrinks DEF SnapshotOf
    <3>3. r \in status[epoch].rowsets
      BY <3>1, <3>2 DEF Undisturbed
    <3>4. CASE UNCHANGED <<epoch, status>>
      BY <3>3, <3>4
    <3>5. CASE ~ UNCHANGED <<epoch, status>>
      <4>1. Returns(c)
        BY <3>5, LockFrame, PrepareEffect DEF RInv
      <4>2. manifest_lock = c /\ status'[epoch'].rowsets = pending[c].rowsets
        BY <3>5, <4>1, ReturnEffect DEF RInv
      <4>3. CASE c \notin Compactor
        BY <3>3, <4>2, <4>3 DEF Undisturbed
      <4>4. CASE c \in Compactor
        <5>1. c = k
          BY <4>4, RoleAssumption
        <5> QED
          BY <3>2, <3>3, <4>2, <5>1 DEF Undisturbed
      <4> QED
        BY <4>3, <4>4
    <3> QED
      BY <3>4, <3>5
  <2>3. CASE k = c /\ Unpin(c)
    <3>1. pin \in [Client -> 0 .. MaxEpoch]
      BY EngineTypes DEF RInv
    <3>2. pin'[k] = 0
      BY <2>0, <2>3, <3>1 DEF Unpin
    <3> QED
      BY <1>5, <3>2 DEF Pinned
  <2> QED
    BY <1>0, <2>0, <2>1, <2>2, <2>3, VMFrame
<1>6. ASSUME NEW d \in Client, manifest_lock' = d
      PROVE  \/ d # c /\ manifest_lock = d /\ UNCHANGED <<epoch, status, pending>>
             \/ d = c /\ Prepares(c) /\ UNCHANGED <<epoch, status>> /\ pc'[c] = "committing"
  BY <1>6, HolderStep
<1>7. ASSUME NEW d \in Client \ Compactor, manifest_lock' = d
      PROVE  status'[epoch'].rowsets \subseteq pending'[d].rowsets
  <2>1. CASE d # c
    BY <1>6, <1>7, <2>1 DEF Undisturbed
  <2>2. CASE d = c
    <3>1. Prepares(c) /\ UNCHANGED <<epoch, status>>
      BY <1>6, <1>7, <2>2
    <3>2. InsertCommit(c)
      BY <1>0, <1>7, <2>2, <3>1 DEF Prepares, DeleteCommit, DropCommit, CompactCommit
    <3>3. pending'[c].rowsets = (status[epoch].rowsets \cup built[c]) \ {}
      BY <3>2, ApplyEffect, SMT DEF InsertCommit
    <3> QED
      BY <2>2, <3>1, <3>3
  <2> QED
    BY <2>1, <2>2
<1>8. ASSUME NEW k \in Compactor, manifest_lock' = k,
             NEW r \in status'[epoch'].rowsets, r[1] \in Open(k)'
      PROVE  r \in pending'[k].rowsets
  <2>0. k \in Client
    BY RoleAssumption
  <2>1. CASE k # c
    <3>1. manifest_lock = k /\ UNCHANGED <<epoch, status, pending>>
      BY <1>6, <1>8, <2>0, <2>1
    <3>2. Pinned(k) /\ pin'[k] = pin[k]
      BY <1>0, <2>0, <2>1, <3>1 DEF RInv, SInv, IInv, CommitsOK
    <3>3. r[1] \in Open(k)
      BY <1>8, <3>2, OpenShrinks
    <3> QED
      BY <1>8, <3>1, <3>3 DEF Undisturbed
  <2>2. CASE k = c
    <3>1. Prepares(c) /\ UNCHANGED <<epoch, status, ctable, ctables>>
      BY <1>6, <1>8, <2>0, <2>2, PrepareEffect
    <3>2. CompactCommit(c)
      BY <2>2, <3>1, RoleAssumption DEF Prepares, InsertCommit, DeleteCommit, DropCommit, Txn
    <3>3. pc'[c] = "committing"
      BY <1>6, <1>8, <2>0, <2>2
    <3>4. r[1] \in ctables
      BY <1>8, <2>2, <3>1, <3>3 DEF Open
    <3>5. PICK t \in ctable : \E last : CommitApply(c, t, held[c], {}, last) \/ Goto(c, "dying")
      BY <3>2 DEF CompactCommit, Replaces
    <3>6. PICK last : CommitApply(c, t, held[c], {}, last)
      BY <1>0, <3>3, <3>5 DEF Goto
    <3>7. pending'[c].rowsets = (status[epoch].rowsets \cup built[c]) \ held[c]
      BY <3>6, ApplyEffect, SMT
    <3>8. r \notin held[c]
      BY <2>2, <3>4, <3>5, SMT DEF RInv, RoundOK, SInv, CompactorOK
    <3> QED
      BY <1>8, <2>2, <3>1, <3>7, <3>8
  <2> QED
    BY <2>1, <2>2
<1> QED
  BY <1>1, <1>3, <1>4, <1>5, <1>7, <1>8 DEF Undisturbed
-----------------------------------------------------------------------------
\* What a snapshot shows does not change, be it published, pinned or about to be
\* published.
LEMMA FactsKept ==
  ASSUME RInv, NEW c \in Client, Step(c)
  PROVE  /\ \A e \in 1 .. epoch : FactsOf(status[e])' = FactsOf(status[e])
         /\ UNCHANGED <<epoch, status>> => FactsOf(status[epoch])' = FactsOf(status[epoch])
         /\ \A d \in Client : Pinned(d) /\ pin'[d] = pin[d] =>
               FactsOf(SnapshotOf(d))' = FactsOf(SnapshotOf(d))
         /\ \A d \in Client : pending'[d] = pending[d] => FactsOf(pending[d])' = FactsOf(pending[d])
<1>0. /\ \A e \in 1 .. epoch : status'[e] = status[e]
      /\ \A d \in Client : Pinned(d) => pin[d] \in 1 .. epoch
      /\ epoch \in 1 .. epoch
  BY StatusKept DEF RInv
<1>1. ASSUME NEW e \in 1 .. epoch PROVE Facts(contents', dv_rows', status[e]) = FactsOf(status[e])
  <2>1. \A r \in status[e].rowsets : contents'[r] = contents[r]
    BY CommittedKept
  <2>2. \A v \in status[e].dvs : dv_rows'[v] = dv_rows[v]
    BY DvKept DEF RInv, DvIdsUsed
  <2>3. Facts(contents', dv_rows', status[e]) = Facts(contents, dv_rows, status[e])
    BY <2>1, <2>2, FactsSame, SMT
  <2> QED
    BY <2>3, FactsForm
<1>2. ASSUME NEW d \in Client PROVE Facts(contents', dv_rows', pending[d]) = FactsOf(pending[d])
  <2>1. \A r \in pending[d].rowsets : contents'[r] = contents[r]
    BY CommittedKept
  <2>2. \A v \in pending[d].dvs : dv_rows'[v] = dv_rows[v]
    BY DvKept DEF RInv, DvIdsUsed
  <2>3. Facts(contents', dv_rows', pending[d]) = Facts(contents, dv_rows, pending[d])
    BY <2>1, <2>2, FactsSame, SMT
  <2> QED
    BY <2>3, FactsForm
<1>3. ASSUME NEW e \in 1 .. epoch PROVE FactsOf(status[e])' = FactsOf(status[e])
  BY <1>0, <1>1, FactsNext
<1>4. ASSUME UNCHANGED <<epoch, status>> PROVE FactsOf(status[epoch])' = FactsOf(status[epoch])
  BY <1>0, <1>1, <1>4, FactsNext
<1>5. ASSUME NEW d \in Client, Pinned(d), pin'[d] = pin[d]
      PROVE  FactsOf(SnapshotOf(d))' = FactsOf(SnapshotOf(d))
  BY <1>0, <1>1, <1>5, FactsNext DEF SnapshotOf
<1>6. ASSUME NEW d \in Client, pending'[d] = pending[d]
      PROVE  FactsOf(pending[d])' = FactsOf(pending[d])
  BY <1>2, <1>6, FactsNext
<1> QED
  BY <1>3, <1>4, <1>5, <1>6

\* The rows a deleter deletes are rows of published RowSets.
LEMMA DeletedKept ==
  ASSUME RInv, PointsOK, HandlersOK, NEW c \in Client, Step(c), NEW d \in Deleter,
         pc[d] \in {"written", "committing"}
  PROVE  DeletedBy(d)' = DeletedBy(d)
<1>1. handlers'[d] = handlers[d] /\ \A h \in handlers[d] : contents'[h[1]] = contents[h[1]]
  BY HandlersKept, PublishedStep DEF HandlersOK
<1>2. \A h \in handlers[d] : contents'[h[1]][h[2]] = contents[h[1]][h[2]]
  BY <1>1
<1> QED
  BY <1>1, <1>2 DEF DeletedBy, RowAt

\* A client's writes are its own: no other client changes them.
LEMMA BufferedKept ==
  ASSUME RInv, PointsOK, HandlersOK, NEW c \in Client, Step(c), NEW d \in Client, d # c
  PROVE  Buffered(d)' = Buffered(d)
<1>0. pc'[d] = pc[d] /\ pin'[d] = pin[d]
  BY StepFrame DEF RInv
<1>1. UNION {Range(contents'[r]) : r \in built'[d]} = UNION {Range(contents[r]) : r \in built[d]}
  BY OthersRowsets DEF Stored
<1>2. d \in Deleter /\ pc[d] \in {"written", "committing"} => DeletedBy(d)' = DeletedBy(d)
  BY DeletedKept
<1>3. ASSUME d \in Dropper, pc[d] = "committing"
      PROVE  FactsOf(SnapshotOf(d))' = FactsOf(SnapshotOf(d))
  <2>1. Pinned(d)
    BY <1>3, RoleAssumption DEF PointsOK
  <2> QED
    BY <1>0, <2>1, FactsKept
<1>4. CASE d \in Inserter
  BY <1>0, <1>1, <1>4, RoleAssumption DEF Buffered, Txn
<1>5. CASE d \in Deleter
  BY <1>0, <1>2, <1>5, RoleAssumption DEF Buffered, Txn
<1>6. CASE d \in Dropper
  BY <1>0, <1>3, <1>6, RoleAssumption DEF Buffered, Txn
<1>7. CASE d \notin Inserter \cup Deleter \cup Dropper
  BY <1>7 DEF Buffered
<1> QED
  BY <1>4, <1>5, <1>6, <1>7
-----------------------------------------------------------------------------
\* The first half of a commit writes no row and no DV.
LEMMA PreparedFacts ==
  ASSUME RInv, NEW c \in Client, Prepares(c)
  PROVE  /\ FactsOf(pending[c])' = Facts(contents, dv_rows, pending'[c])
         /\ FactsOf(status[epoch])' = Facts(contents, dv_rows, status[epoch])
BY PrepareEffect, FactsNext

\* An INSERT that has appended all its rows has them in the RowSets it has built.
LEMMA InsertedAll ==
  ASSUME RInv, NEW c \in Inserter, pc[c] = "written"
  PROVE  Stored(contents, built[c]) = Range(Inserted[c])
<1>1. Stored(contents, built[c]) = {Inserted[c][i] : i \in 1 .. Len(Inserted[c])}
  BY DEF RInv, InsertOK
<1>2. Inserted[c] \in Seq(Row)
  BY RowAssumption
<1> QED
  BY <1>1, <1>2, SMT DEF Range

\* commit_inner of an INSERT prepares the current rows and those it has inserted.
LEMMA InsertExact ==
  ASSUME RInv, DvsOK, NEW c \in Client, InsertCommit(c), Prepares(c)
  PROVE  FactsOf(pending[c])' = (FactsOf(status[epoch])' \cup Buffered(c)'.ins) \ Buffered(c)'.del
<1> DEFINE t == TableOf[c]
<1>0. c \in Inserter /\ pc[c] = "written" /\ pc'[c] = "committing" /\ epoch \in 1 .. epoch
  BY EngineTypes, SnapshotPublished DEF InsertCommit, Goto, RInv
<1>1. CommitApply(c, t, {}, {}, <<t, 0>>)
  BY DEF InsertCommit
<1>2. pending'[c] = Applied(c, {}, {})
  BY <1>1, ApplyEffect, SMT
<1>3. built_dv[c] = {} /\ \A r \in built[c] : r[1] = t
  BY <1>0, RoleAssumption DEF DvsOK, RInv, BuildersOK
<1>4. pending'[c].rowsets = status[epoch].rowsets \cup built[c] /\ pending'[c].dvs = status[epoch].dvs
  BY <1>2, <1>3, SMT DEF Applied
<1>5. \A v \in status[epoch].dvs : v[1] \notin built[c]
  BY <1>0, SnapshotPublished DEF DvsOK
<1>6. Stored(contents, built[c]) = Range(Inserted[c])
  BY <1>0, InsertedAll
<1>7. Facts(contents, dv_rows, pending'[c]) =
         Facts(contents, dv_rows, status[epoch]) \cup ({t} \X Stored(contents, built[c]))
  <2> DEFINE n == pending'[c]
             s == status[epoch]
             B == built[c]
  <2>1. n.rowsets = s.rowsets \cup B /\ n.dvs = s.dvs
    BY <1>4
  <2>2. (\A v \in s.dvs : v[1] \notin B) /\ (\A r \in B : r[1] = t)
    BY <1>3, <1>5
  <2>3. Adds(contents, dv_rows, s, n, B, t)
    BY <2>1, <2>2 DEF Adds
  <2> HIDE DEF n, s, B, t
  <2>4. Facts(contents, dv_rows, n) = Facts(contents, dv_rows, s) \cup ({t} \X Stored(contents, B))
    BY <2>3, FactsAdd, SMT
  <2> QED
    BY <2>4 DEF n, s, B
<1>8. Buffered(c)' = [ins |-> {t} \X Range(Inserted[c]), del |-> {}]
  BY <1>0 DEF Buffered
<1> QED
  BY <1>6, <1>7, <1>8, PreparedFacts, SMT

\* commit_inner of a DELETE prepares the current rows without those its handlers point
\* to: without the compactor these are in no other RowSet.
LEMMA DeleteExact ==
  ASSUME RInv, HandlersOK, DvsOK, Alone, NEW c \in Client, DeleteCommit(c), Prepares(c)
  PROVE  FactsOf(pending[c])' = (FactsOf(status[epoch])' \cup Buffered(c)'.ins) \ Buffered(c)'.del
<1> DEFINE t == TableOf[c]
           gone == {contents[h[1]][h[2]] : h \in handlers[c]}
<1>0. /\ c \in Deleter /\ c \notin Inserter \cup Compactor
      /\ pc[c] = "written" /\ pc'[c] = "committing" /\ UNCHANGED <<contents, handlers>>
  BY EngineTypes, RoleAssumption DEF DeleteCommit, Goto, RInv, Txn
<1>1. CommitApply(c, t, {}, {}, <<t, 0>>) /\ {v[1] : v \in built_dv[c]} = {h[1] : h \in handlers[c]}
  BY DEF DeleteCommit
<1>2. pending'[c] = Applied(c, {}, {}) /\ built[c] = {}
  BY <1>0, <1>1, ApplyEffect, SMT DEF RInv, BuildersOK
<1>3. pending'[c].rowsets = status[epoch].rowsets /\ pending'[c].dvs = status[epoch].dvs \cup built_dv[c]
  BY <1>2, SMT DEF Applied
<1>4. status[epoch].rowsets \subseteq Published /\ Unique(contents, Published)
  BY SnapshotPublished, UniqueSub DEF Alone
<1>5. \A h \in handlers[c] : h[1] \in Published /\ h[1][1] = t /\ h[2] \in DOMAIN contents[h[1]]
  BY <1>0 DEF HandlersOK
<1>6. \A v \in built_dv[c] : dv_rows[v] = {h[2] : h \in {k \in handlers[c] : k[1] = v[1]}}
  BY <1>0 DEF DvsOK, Deletes
<1>7. Facts(contents, dv_rows, pending'[c]) = Facts(contents, dv_rows, status[epoch]) \ ({t} \X gone)
  <2> DEFINE n == pending'[c]
             s == status[epoch]
             D == built_dv[c]
             H == handlers[c]
             P == Published
  <2>1. n.rowsets = s.rowsets /\ n.dvs = s.dvs \cup D /\ s.rowsets \subseteq P /\ Unique(contents, P)
    BY <1>3, <1>4
  <2>2. \A h \in H : h[1] \in P /\ h[1][1] = t /\ h[2] \in DOMAIN contents[h[1]]
    BY <1>5
  <2>3. \A v \in D : dv_rows[v] = {h[2] : h \in {k \in H : k[1] = v[1]}}
    BY <1>6
  <2>4. {v[1] : v \in D} = {h[1] : h \in H}
    BY <1>1
  <2>5. Hides(contents, dv_rows, s, n, D, H, P, t)
    BY <2>1, <2>2, <2>3, <2>4 DEF Hides
  <2> HIDE DEF n, s, D, H, P, t
  <2>6. Facts(contents, dv_rows, n) =
           Facts(contents, dv_rows, s) \ ({t} \X {contents[h[1]][h[2]] : h \in H})
    BY <2>5, FactsHide, SMT
  <2> QED
    BY <2>6 DEF n, s, H
<1>8. Buffered(c)' = [ins |-> {}, del |-> {t} \X gone]
  BY <1>0 DEF Buffered, DeletedBy, RowAt
<1> QED
  BY <1>7, <1>8, PreparedFacts, SMT

\* The changeset of a DROP TABLE takes the rows of the table that its snapshot shows.
LEMMA DropExact ==
  ASSUME RInv, DvsOK, GrowOK, Alone, NEW c \in Client, DropCommit(c), Prepares(c), pc'[c] = "committing"
  PROVE  FactsOf(pending[c])' = (FactsOf(status[epoch])' \cup Buffered(c)'.ins) \ Buffered(c)'.del
<1> DEFINE t == TableOf[c]
           p == SnapshotOf(c)
           X == RowsetsOf(p, t)
           old_dvs == UNION {DvsOf(p, r) : r \in X}
<1>0. c \in Dropper /\ c \notin Inserter \cup Deleter \cup Compactor /\ DOMAIN pc = Client
  BY EngineTypes, RoleAssumption DEF DropCommit, RInv, Txn
<1>1. PICK last : CommitApply(c, t, X, old_dvs, last)
  BY <1>0 DEF DropCommit, Goto
<1>2. pending'[c] = Applied(c, X, old_dvs) /\ built[c] = {} /\ built_dv[c] = {} /\ Pinned(c)
  BY <1>0, <1>1, ApplyEffect, SMT DEF RInv, BuildersOK, DvsOK
<1>3. pending'[c].rowsets = status[epoch].rowsets \ X /\ pending'[c].dvs = status[epoch].dvs \ old_dvs
  BY <1>2, SMT DEF Applied
<1>4. /\ status[epoch].rowsets \subseteq Published /\ p.rowsets \subseteq Published
      /\ Unique(contents, Published) /\ pin[c] \in 1 .. epoch
  BY <1>2, SnapshotPublished, UniqueSub DEF Alone
<1>5. \A r \in status[epoch].rowsets \cap p.rowsets : DvsOf(p, r) \subseteq DvsOf(status[epoch], r)
  BY <1>4 DEF GrowOK, SnapshotOf
<1>6. X = {r \in p.rowsets : r[1] = t}
  BY DEF RowsetsOf
<1>7. Facts(contents, dv_rows, pending'[c]) =
         Facts(contents, dv_rows, status[epoch]) \ {x \in Facts(contents, dv_rows, p) : x[1] = t}
  <2> DEFINE n == pending'[c]
             s == status[epoch]
             P == Published
  <2>1. n.rowsets = s.rowsets \ X /\ n.dvs = s.dvs \ UNION {DvsOf(p, r) : r \in X}
    BY <1>3
  <2>2. s.rowsets \subseteq P /\ p.rowsets \subseteq P /\ Unique(contents, P)
    BY <1>4
  <2>3. \A r \in s.rowsets \cap p.rowsets : DvsOf(p, r) \subseteq DvsOf(s, r)
    BY <1>5
  <2>4. Drops(contents, dv_rows, s, n, p, X, P, t)
    BY <1>6, <2>1, <2>2, <2>3 DEF Drops
  <2> HIDE DEF n, s, p, P, X, t, old_dvs
  <2>5. Facts(contents, dv_rows, n) =
           Facts(contents, dv_rows, s) \ {x \in Facts(contents, dv_rows, p) : x[1] = t}
    BY <2>4, FactsDrop, SMT
  <2> QED
    BY <2>5 DEF n, s
<1>8. FactsOf(SnapshotOf(c))' = Facts(contents, dv_rows, p)
  <2>1. UNCHANGED <<contents, dv_rows, pin, status>>
    BY PrepareEffect
  <2> QED
    BY <2>1, FactsNext DEF SnapshotOf
<1>9. Buffered(c)' = [ins |-> {}, del |-> {x \in Facts(contents, dv_rows, p) : x[1] = t}]
  BY <1>0, <1>8 DEF Buffered
<1> QED
  BY <1>7, <1>9, PreparedFacts, SMT

\* A snapshot without DVs shows all rows of its RowSets.
LEMMA NothingHidden ==
  ASSUME NEW s, NEW set, s.dvs = {}
  PROVE  {RowAt(h) : h \in UNION {RowsIn(s, r) : r \in set}} = Stored(contents, set)
<1>1. ASSUME NEW r PROVE RowsIn(s, r) = {r} \X DOMAIN contents[r]
  BY DEF RowsIn, DvsOf
<1>2. ASSUME NEW x
      PROVE  x \in Stored(contents, set) <=>
               \E r \in set : \E i \in DOMAIN contents[r] : x = contents[r][i]
  BY SMT DEF Stored, Range
<1>3. ASSUME NEW r \in set, NEW i \in DOMAIN contents[r]
      PROVE  \E h \in UNION {RowsIn(s, q) : q \in set} : contents[r][i] = RowAt(h)
  <2>1. <<r, i>> \in UNION {RowsIn(s, q) : q \in set}
    BY <1>1
  <2>2. RowAt(<<r, i>>) = contents[r][i]
    BY DEF RowAt
  <2> QED
    BY <2>1, <2>2
<1>4. ASSUME NEW r \in set, NEW h \in RowsIn(s, r)
      PROVE  \E q \in set : \E i \in DOMAIN contents[q] : RowAt(h) = contents[q][i]
  <2>1. h[1] = r /\ h[2] \in DOMAIN contents[r]
    BY <1>1, SMT
  <2> QED
    BY <2>1 DEF RowAt
<1> QED
  BY <1>2, <1>3, <1>4, SMT

\* The changeset of a compaction replaces RowSets by one with the same rows: without
\* DELETE and DROP TABLE its inputs are as its snapshot shows them.
LEMMA CompactExact ==
  ASSUME RInv, DvsOK, Undisturbed, NEW c \in Client, CompactCommit(c), Prepares(c), pc'[c] = "committing"
  PROVE  FactsOf(pending[c])' = (FactsOf(status[epoch])' \cup Buffered(c)'.ins) \ Buffered(c)'.del
<1>0. /\ c \in Compactor /\ c \notin Inserter \cup Deleter \cup Dropper /\ DOMAIN pc = Client
      /\ pc[c] = "merged"
  BY EngineTypes, RoleAssumption DEF CompactCommit, RInv, Txn
<1>1. PICK t \in ctable : \E last : CommitApply(c, t, held[c], {}, last) \/ Goto(c, "dying")
  BY DEF CompactCommit, Replaces
<1>2. PICK last : CommitApply(c, t, held[c], {}, last)
  BY <1>0, <1>1 DEF Goto
<1>3. /\ pending'[c].rowsets = (status[epoch].rowsets \cup built[c]) \ held[c]
      /\ pending'[c].dvs = {} /\ status[epoch].dvs = {} /\ Pinned(c)
  <2>1. pending'[c] = Applied(c, held[c], {}) /\ Pinned(c)
    BY <1>2, ApplyEffect, SMT
  <2>2. built_dv[c] = {} /\ status[epoch].dvs = {}
    BY <1>0, SnapshotPublished DEF DvsOK, Undisturbed
  <2> QED
    BY <2>1, <2>2, SMT DEF Applied
<1>4. /\ t \in Open(c) /\ held[c] \subseteq SnapshotOf(c).rowsets
      /\ \A r \in held[c] : r[1] = t
  <2>1. /\ t \in Open(c) /\ held[c] \subseteq SnapshotOf(c).rowsets
        /\ held[c] \subseteq {t} \X (0 .. MaxRowset - 1)
    BY <1>0, MergeInputs
  <2> QED
    BY <2>1
<1>5. held[c] \subseteq status[epoch].rowsets
  BY <1>0, <1>3, <1>4 DEF Undisturbed
<1>6. built[c] \cap held[c] = {} /\ \A r \in built[c] : r[1] = t
  BY <1>0, <1>5, SnapshotPublished DEF RInv, BuildersOK, SInv, ProcTypeOK
<1>7. Stored(contents, built[c]) = Stored(contents, held[c])
  <2>1. SnapshotOf(c).dvs = {}
    BY <1>3, SnapshotPublished DEF Undisturbed, SnapshotOf
  <2>2. Stored(contents, built[c]) = {RowAt(h) : h \in UNION {RowsIn(SnapshotOf(c), r) : r \in held[c]}}
    BY <1>0 DEF RInv, MergeOK
  <2> DEFINE s == SnapshotOf(c)
             set == held[c]
  <2>3. Stored(contents, built[c]) = {RowAt(h) : h \in UNION {RowsIn(s, r) : r \in set}} /\ s.dvs = {}
    BY <2>1, <2>2
  <2> HIDE DEF s, set
  <2>4. Stored(contents, built[c]) = Stored(contents, set)
    BY <2>3, NothingHidden, SMT
  <2> QED
    BY <2>4 DEF set
<1>8. Facts(contents, dv_rows, pending'[c]) = Facts(contents, dv_rows, status[epoch])
  <2>1. Merges(contents, dv_rows, status[epoch], pending'[c], built[c], held[c], t)
    BY <1>3, <1>4, <1>5, <1>6, <1>7 DEF Merges
  <2> QED
    BY <2>1, FactsMerge
<1>9. Buffered(c)' = [ins |-> {}, del |-> {}]
  BY <1>0 DEF Buffered
<1> QED
  BY <1>8, <1>9, PreparedFacts, SMT

\* What a commit prepares is exact, and stays so until the commit returns.
LEMMA ExactStep ==
  ASSUME TInv, NEW c \in Client, Step(c)
  PROVE  CommitExact'
<1>0. /\ RInv /\ PointsOK /\ HandlersOK /\ DvsOK /\ GrowOK /\ CommitExact
      /\ Alone \/ Undisturbed
  BY DEF TInv
<1> SUFFICES ASSUME NEW d \in Client, manifest_lock' = d
             PROVE  FactsOf(pending[d])' = (FactsOf(status[epoch])' \cup Buffered(d)'.ins) \ Buffered(d)'.del
  BY DEF CommitExact
<1>1. CASE d # c /\ manifest_lock = d /\ UNCHANGED <<epoch, status, pending>>
  <2>1. /\ FactsOf(pending[d])' = FactsOf(pending[d]) /\ FactsOf(status[epoch])' = FactsOf(status[epoch])
        /\ Buffered(d)' = Buffered(d)
    BY <1>0, <1>1, FactsKept, BufferedKept
  <2>2. FactsOf(pending[d]) = (FactsOf(status[epoch]) \cup Buffered(d).ins) \ Buffered(d).del
    BY <1>0, <1>1 DEF CommitExact
  <2> QED
    BY <2>1, <2>2
<1>2. CASE d = c /\ Prepares(c) /\ pc'[c] = "committing"
  <2>1. CASE InsertCommit(c)
    BY <1>0, <1>2, <2>1, InsertExact
  <2>2. CASE DeleteCommit(c)
    <3>1. Alone
      BY <1>0, <2>2 DEF Undisturbed, Quiet, DeleteCommit
    <3> QED
      BY <1>0, <1>2, <2>2, <3>1, DeleteExact
  <2>3. CASE DropCommit(c)
    <3>1. Alone
      BY <1>0, <2>3 DEF Undisturbed, Quiet, DropCommit
    <3> QED
      BY <1>0, <1>2, <2>3, <3>1, DropExact
  <2>4. CASE CompactCommit(c)
    <3>1. Undisturbed
      BY <1>0, <2>4 DEF Alone, Quiet, CompactCommit
    <3> QED
      BY <1>0, <1>2, <2>4, <3>1, CompactExact
  <2> QED
    BY <1>2, <2>1, <2>2, <2>3, <2>4 DEF Prepares
<1> QED
  BY <1>0, <1>1, <1>2, HolderStep
-----------------------------------------------------------------------------
\* The vacuum task changes nothing that TInv is about.
LEMMA VacuumFrame ==
  ASSUME [SNext]_svars, ~ \E c \in Client : Step(c)
  PROVE  UNCHANGED <<epoch, status, pending, manifest_lock, pin, built, built_dv, pc, contents, dv_rows,
                     handlers, ctables, ctable>>
<1>1. UNCHANGED <<epoch, status, pending, pin, built, built_dv, procvars>>
  BY NoStep
<1>2. manifest_lock' = manifest_lock
  <2>1. CASE Vacuum
    BY <2>1 DEF Vacuum, VacuumNext, FindVacuum, RemoveDir
  <2>2. CASE UNCHANGED svars
    BY <2>2 DEF svars, vmvars
  <2> QED
    BY <2>1, <2>2 DEF SNext, Step
<1> QED
  BY <1>1, <1>2 DEF procvars, compacting

\* What the engine shows and buffers depends on these variables only.
LEMMA ShownSame ==
  ASSUME UNCHANGED <<epoch, status, pending, pin, built, pc, contents, dv_rows, handlers>>
  PROVE  /\ FactsOf(status[epoch])' = FactsOf(status[epoch])
         /\ \A c \in Client : /\ FactsOf(pending[c])' = FactsOf(pending[c])
                              /\ FactsOf(SnapshotOf(c))' = FactsOf(SnapshotOf(c))
                              /\ Pinned(c)' = Pinned(c) /\ Buffered(c)' = Buffered(c)
<1>1. /\ FactsOf(status[epoch])' = FactsOf(status[epoch])
      /\ \A c \in Client : /\ FactsOf(pending[c])' = FactsOf(pending[c])
                           /\ FactsOf(SnapshotOf(c))' = FactsOf(SnapshotOf(c))
  BY FactsNext, FactsForm DEF SnapshotOf
<1>2. \A c \in Client : Pinned(c)' = Pinned(c)
  BY DEF Pinned
<1>3. ASSUME NEW c \in Client PROVE Buffered(c)' = Buffered(c)
  <2>1. DeletedBy(c)' = DeletedBy(c)
    BY DEF DeletedBy, RowAt
  <2>2. CASE c \in Inserter
    BY <2>2, RoleAssumption, SMT DEF Buffered, Txn
  <2>3. CASE c \in Deleter
    BY <2>1, <2>3, RoleAssumption DEF Buffered, Txn
  <2>4. CASE c \in Dropper
    BY <1>1, <2>4, RoleAssumption DEF Buffered, Txn
  <2>5. CASE c \notin Inserter \cup Deleter \cup Dropper
    BY <2>5 DEF Buffered
  <2> QED
    BY <2>2, <2>3, <2>4, <2>5
<1> QED
  BY <1>1, <1>2, <1>3

\* TInv is inductive.
LEMMA TableStep == TInv /\ [SNext]_svars => TInv'
<1> SUFFICES ASSUME TInv, [SNext]_svars PROVE TInv'
  OBVIOUS
<1>1. /\ RInv /\ PointsOK /\ HandlersOK /\ DvsOK /\ GrowOK /\ CommitExact
      /\ Alone \/ Undisturbed
  BY DEF TInv
<1>2. RInv'
  BY <1>1, RowsStep
<1>3. ASSUME NEW c \in Client, Step(c) PROVE TInv'
  <2>1. PointsOK'
    BY <1>1, <1>3, PointsStep DEF RInv
  <2>2. HandlersOK' /\ DvsOK'
    BY <1>1, <1>3, HandlersStep, DvsStep
  <2>3. GrowOK' /\ CommitExact'
    BY <1>1, <1>3, GrowStep, ExactStep
  <2>4. Alone' \/ Undisturbed'
    BY <1>1, <1>3, AloneStep, UndisturbedStep
  <2> QED
    BY <1>2, <2>1, <2>2, <2>3, <2>4 DEF TInv
<1>4. CASE ~ \E c \in Client : Step(c)
  <2>1. UNCHANGED <<epoch, status, pending, manifest_lock, pin, built, built_dv, pc, contents, dv_rows,
                    handlers, ctables, ctable>>
    BY <1>4, VacuumFrame
  <2>2. Published' = Published
    BY <2>1 DEF Published
  <2>3. PointsOK' /\ HandlersOK'
    BY <1>1, <2>1, <2>2 DEF PointsOK, HandlersOK, Pinned
  <2>4. DvsOK' /\ GrowOK'
    BY <1>1, <2>1, <2>2, SMT DEF DvsOK, GrowOK, Deletes, DvsOf
  <2>5. Alone => Alone'
    BY <2>1, <2>2 DEF Alone, Quiet
  <2>6. Undisturbed => Undisturbed'
    BY <2>1 DEF Undisturbed, Quiet, Open, SnapshotOf, Pinned
  <2>7. CommitExact'
    BY <1>1, <2>1, ShownSame DEF CommitExact
  <2> QED
    BY <1>1, <1>2, <2>3, <2>4, <2>5, <2>6, <2>7 DEF TInv
<1> QED
  BY <1>3, <1>4

\* It holds when the database has been opened, for every workload that keeps the
\* compactor apart from DELETE and DROP TABLE.
LEMMA TableStart == Apart /\ SInit => TInv
<1> SUFFICES ASSUME Apart, SInit PROVE TInv
  OBVIOUS
<1>1. RInv
  BY RowsStart
<1>2. /\ epoch = 1 /\ status[1].rowsets = Recovered /\ status[1].dvs = {} /\ manifest_lock = NoClient
      /\ \A c \in Client : /\ pending[c].rowsets = {} /\ pending[c].dvs = {} /\ pin[c] = 0
                           /\ built_dv[c] = {} /\ pc[c] \in {"start", "done"} /\ manifest_lock # c
      /\ \A d \in Deleter : handlers[d] = {}
  <2>1. VMInit /\ \A d \in Deleter : handlers[d] = {}
    BY DEF SInit
  <2>2. epoch = 1 /\ status[1] = [rowsets |-> Recovered, dvs |-> {}] /\ manifest_lock = NoClient
    BY <2>1, BoundAssumption, SMT DEF VMInit, Epoch
  <2>3. \A c \in Client : pending[c] = NoCommit /\ pin[c] = 0 /\ built_dv[c] = {} /\ manifest_lock # c
    BY <2>1, ClientAssumption DEF VMInit
  <2>4. \A c \in Client : pc[c] \in {"start", "done"}
    BY DEF SInit
  <2> QED
    BY <2>1, <2>2, <2>3, <2>4, NoCommitEmpty, SMT
<1>3. 1 .. epoch = {1}
  BY <1>2, SMT
<1>4. Published = Recovered
  BY <1>2, <1>3, SMT DEF Published
<1>5. PointsOK /\ HandlersOK /\ CommitExact
  BY <1>2, RoleAssumption DEF PointsOK, HandlersOK, CommitExact, Txn
<1>6. DvsOK
  BY <1>2, <1>3, RoleAssumption DEF DvsOK, Txn
<1>7. GrowOK
  BY <1>2, <1>3 DEF GrowOK
<1>8. PICK w \in Workloads : \A c \in Client \ w : pc[c] = "done"
  BY DEF SInit
<1>9. CASE w \cap Compactor = {}
  <2>1. \A c \in Client : Published \cup pending[c].rowsets = status[epoch].rowsets
    BY <1>2, <1>4
  <2>2. Alone
    BY <1>1, <1>8, <1>9, <2>1, RoleAssumption DEF Alone, Quiet, RInv, DistinctOK
  <2> QED
    BY <1>1, <1>5, <1>6, <1>7, <2>2 DEF TInv
<1>10. CASE w \cap (Deleter \cup Dropper) = {}
  <2>1. Quiet(Deleter \cup Dropper)
    BY <1>8, <1>10, RoleAssumption DEF Quiet, Txn
  <2>2. Undisturbed
    BY <1>2, <1>3, <2>1, RoleAssumption DEF Undisturbed, Pinned
  <2> QED
    BY <1>1, <1>5, <1>6, <1>7, <2>2 DEF TInv
<1> QED
  BY <1>9, <1>10 DEF Apart

\* TInv is an invariant of the engine: from its opening on, what a commit is about to
\* publish are the current rows with exactly its own writes applied.
THEOREM TableInvariance == Apart /\ SSpec => []TInv
BY TableStart, TableStep, PTL DEF SSpec
=============================================================================
