--------------------- MODULE SecondaryStorageRefinement ----------------------
(***************************************************************************)
(* Proofs about SecondaryStorage, last part: the engine implements         *)
(* TableSpec when DELETE and DROP TABLE do not run beside the compactor.   *)
(***************************************************************************)
EXTENDS SecondaryStorageTableProofs

\* A leaf is tried with Zenon and then with the SMT solver.
USE ZenonT(5), SMTT(20)

\* The rows of the database, and those that client c sees: the state of TableSpec.
Rows == FactsOf(status[epoch])

Sees(c) == IF Pinned(c) THEN FactsOf(SnapshotOf(c)) ELSE {}

\* No uncommitted writes.
NoRows == [ins |-> {}, del |-> {}]

\* Client c goes on with the snapshot it has, or without one.
Keeps(c) == Pinned(c)' = Pinned(c) /\ Sees(c)' = Sees(c)

\* What a step of client c can be to TableSpec: Begin, ...
Begins(c) ==
    /\ ~ Pinned(c) /\ Pinned(c)' /\ Sees(c)' = Rows /\ Rows \subseteq Table \X Row
    /\ Rows' = Rows /\ Buffered(c)' = Buffered(c)

\* ... Write, ...
Writes(c) ==
    /\ Pinned(c) /\ Keeps(c) /\ Rows' = Rows
    /\ Buffered(c)' \in [ins : SUBSET ((Table \X Row) \ Rows), del : SUBSET (Table \X Row)]

\* ... Commit, ...
Commits(c) ==
    /\ Pinned(c) /\ Keeps(c) /\ Rows' = (Rows \cup Buffered(c).ins) \ Buffered(c).del
    /\ Buffered(c)' = NoRows

\* ... Discard, ...
Discards(c) == Pinned(c) /\ Keeps(c) /\ Rows' = Rows /\ Buffered(c)' = NoRows

\* ... End ...
Ends(c) == Pinned(c) /\ ~ Pinned(c)' /\ Sees(c)' = {} /\ Rows' = Rows /\ Buffered(c)' = NoRows

\* ... or nothing.
Stutters(c) == Keeps(c) /\ Rows' = Rows /\ Buffered(c)' = Buffered(c)

\* It is then a step of TableSpec when nothing changes for the other clients.
LEMMA AbstractStep ==
  ASSUME NEW c \in Client,
         \A d \in Client : d # c => /\ Pinned(d)' = Pinned(d) /\ Sees(d)' = Sees(d)
                                    /\ Buffered(d)' = Buffered(d),
         Begins(c) \/ Writes(c) \/ Commits(c) \/ Discards(c) \/ Ends(c) \/ Stutters(c)
  PROVE  [Abstract!TNext]_(Abstract!tvars)
<1> DEFINE view == [d \in Client |-> IF Pinned(d) THEN FactsOf(SnapshotOf(d)) ELSE {}]
           active == {d \in Client : Pinned(d)}
           buffer == [d \in Client |-> Buffered(d)]
<1>1. /\ view = [d \in Client |-> Sees(d)] /\ view' = [d \in Client |-> Sees(d)']
      /\ buffer' = [d \in Client |-> Buffered(d)'] /\ active' = {d \in Client : Pinned(d)'}
  BY DEF Sees
<1>2. /\ view' = [view EXCEPT ![c] = Sees(c)']
      /\ buffer' = [buffer EXCEPT ![c] = Buffered(c)']
      /\ buffer[c] = Buffered(c) /\ buffer'[c] = Buffered(c)'
  BY <1>1
<1>3. /\ Pinned(c)' = Pinned(c) => active' = active
      /\ Sees(c)' = Sees(c) => view' = view
      /\ Buffered(c)' = Buffered(c) => buffer' = buffer
  BY <1>1
<1>4. /\ c \in active <=> Pinned(c)
      /\ Pinned(c)' => active' = active \cup {c}
      /\ ~ Pinned(c)' => active' = active \ {c}
  BY <1>1
<1>5. CASE Begins(c)
  <2>1. Abstract!Begin(c)
    BY <1>2, <1>3, <1>4, <1>5 DEF Begins, Rows, Abstract!Begin
  <2> QED
    BY <2>1 DEF Abstract!TNext
<1>6. CASE Writes(c)
  <2>1. Abstract!Write(c)
    BY <1>2, <1>3, <1>4, <1>6 DEF Writes, Keeps, Rows, Abstract!Write
  <2> QED
    BY <2>1 DEF Abstract!TNext
<1>7. CASE Commits(c)
  <2>1. Abstract!Commit(c)
    BY <1>2, <1>3, <1>4, <1>7 DEF Commits, Keeps, Rows, NoRows, Abstract!Commit, Abstract!NoWrite
  <2> QED
    BY <2>1 DEF Abstract!TNext
<1>8. CASE Discards(c)
  <2>1. Abstract!Discard(c)
    BY <1>2, <1>3, <1>4, <1>8 DEF Discards, Keeps, Rows, NoRows, Abstract!Discard, Abstract!NoWrite
  <2> QED
    BY <2>1 DEF Abstract!TNext
<1>9. CASE Ends(c)
  <2>1. Abstract!End(c)
    BY <1>2, <1>3, <1>4, <1>9 DEF Ends, Rows, NoRows, Abstract!End, Abstract!NoWrite
  <2> QED
    BY <2>1 DEF Abstract!TNext
<1>10. CASE Stutters(c)
  <2>1. UNCHANGED Abstract!tvars
    BY <1>3, <1>10 DEF Stutters, Keeps, Rows, Abstract!tvars
  <2> QED
    BY <2>1
<1> QED
  BY <1>5, <1>6, <1>7, <1>8, <1>9, <1>10

\* No client changes what another client sees and has written.
LEMMA OthersSee ==
  ASSUME TInv, NEW c \in Client, Step(c), NEW d \in Client, d # c
  PROVE  Pinned(d)' = Pinned(d) /\ Sees(d)' = Sees(d) /\ Buffered(d)' = Buffered(d)
<1>1. RInv /\ PointsOK /\ HandlersOK /\ pin'[d] = pin[d]
  BY StepFrame DEF TInv, RInv
<1>2. Pinned(d)' = Pinned(d) /\ Buffered(d)' = Buffered(d)
  BY <1>1, BufferedKept DEF Pinned
<1>3. Pinned(d) => FactsOf(SnapshotOf(d))' = FactsOf(SnapshotOf(d))
  BY <1>1, FactsKept
<1> QED
  BY <1>2, <1>3 DEF Sees

\* A snapshot is stable, and only the second half of a commit changes the rows.
LEMMA OwnView ==
  ASSUME TInv, NEW c \in Client, Step(c)
  PROVE  /\ pin'[c] = pin[c] => Keeps(c)
         /\ pc[c] # "committing" => Rows' = Rows
<1>1. RInv
  BY DEF TInv
<1>2. ASSUME pin'[c] = pin[c] PROVE Keeps(c)
  <2>1. Pinned(c)' = Pinned(c)
    BY <1>2 DEF Pinned
  <2>2. Pinned(c) => FactsOf(SnapshotOf(c))' = FactsOf(SnapshotOf(c))
    BY <1>1, <1>2, FactsKept
  <2> QED
    BY <2>1, <2>2 DEF Keeps, Sees
<1>3. ASSUME pc[c] # "committing" PROVE Rows' = Rows
  <2>1. UNCHANGED <<epoch, status>>
    BY <1>1, <1>3, LockFrame, PrepareEffect DEF RInv
  <2> QED
    BY <1>1, <2>1, FactsKept DEF Rows
<1> QED
  BY <1>2, <1>3

\* The rows of the database, and those of a pinned snapshot, are rows of tables.
LEMMA RowsTyped ==
  ASSUME RInv
  PROVE  Rows \subseteq Table \X Row /\ \A c \in Client : Sees(c) \subseteq Table \X Row
<1>1. contents \in [Rowset -> Seq(Row)] /\ \A e \in 1 .. epoch : status[e].rowsets \subseteq Rowset
  BY RowsetTypes DEF RInv, EngineTypeOK, SInv, IInv
<1>2. \A e \in 1 .. epoch : FactsOf(status[e]) \subseteq Table \X Row
  BY <1>1, FactsType, FactsForm
<1> QED
  BY <1>2, SnapshotPublished DEF Rows, Sees, SnapshotOf

\* Version::pin is the beginning of a transaction, and its drop the end.
LEMMA PinsAndUnpins ==
  ASSUME TInv, NEW c \in Client, Step(c)
  PROVE  /\ Pin(c) /\ Buffered(c)' = Buffered(c) => Begins(c)
         /\ Unpin(c) /\ Buffered(c)' = NoRows => Ends(c)
<1>1. RInv
  BY DEF TInv
<1>2. ASSUME Pin(c), Buffered(c)' = Buffered(c) PROVE Begins(c)
  <2>1. /\ ~ Pinned(c) /\ Pinned(c)' /\ pin'[c] = epoch /\ UNCHANGED <<epoch, status>>
    BY <1>1, <1>2, PinTaken DEF RInv
  <2>2. Rows' = Rows
    BY <1>1, <2>1, FactsKept DEF Rows
  <2>3. FactsOf(SnapshotOf(c))' = FactsOf(status[epoch])'
    BY <2>1, FactsNext DEF SnapshotOf
  <2>4. Rows \subseteq Table \X Row
    BY <1>1, RowsTyped
  <2> QED
    BY <1>2, <2>1, <2>2, <2>3, <2>4 DEF Begins, Sees, Rows
<1>3. ASSUME Unpin(c), Buffered(c)' = NoRows PROVE Ends(c)
  <2>1. Pinned(c) /\ UNCHANGED <<epoch, status>> /\ pin'[c] = 0
    BY <1>1, <1>3, EngineTypes DEF Unpin, RInv
  <2>2. Rows' = Rows
    BY <1>1, <2>1, FactsKept DEF Rows
  <2> QED
    BY <1>3, <2>1, <2>2 DEF Ends, Sees, Pinned
<1> QED
  BY <1>2, <1>3

\* The second half of a commit applies the client's writes, all at once, or none.
LEMMA ReturnRefines ==
  ASSUME TInv, NEW c \in Client, Step(c), Returns(c)
  PROVE  Commits(c) \/ Discards(c)
<1>1. RInv /\ DOMAIN pc = Client
  BY EngineTypes DEF TInv, RInv
<1>2. Buffered(c)' = NoRows
  <2>1. CASE TxnCommitted(c) \/ DropCommitted(c)
    BY <1>1, <2>1 DEF TxnCommitted, DropCommitted, Goto, Buffered, NoRows
  <2>2. CASE CompactCommitted(c)
    BY <2>2, RoleAssumption DEF CompactCommitted, Buffered, NoRows, Txn
  <2> QED
    BY <2>1, <2>2 DEF Returns
<1>3. Pinned(c) /\ manifest_lock = c /\ UNCHANGED <<contents, dv_rows, pin>>
  BY <1>1, ReturnEffect DEF RInv
<1>4. Keeps(c)
  BY <1>3, OwnView
<1>5. CASE UNCHANGED <<epoch, status>>
  <2>1. Rows' = Rows
    BY <1>1, <1>5, FactsKept DEF Rows
  <2> QED
    BY <1>2, <1>3, <1>4, <2>1 DEF Discards
<1>6. CASE status'[epoch'].rowsets = pending[c].rowsets /\ status'[epoch'].dvs = pending[c].dvs
  <2>1. FactsOf(status[epoch])' = Facts(contents, dv_rows, status'[epoch'])
    BY <1>3, FactsNext
  <2>2. Facts(contents, dv_rows, status'[epoch']) = Facts(contents, dv_rows, pending[c])
    BY <1>6, FactsEqual, SMT
  <2>3. FactsOf(pending[c]) = (FactsOf(status[epoch]) \cup Buffered(c).ins) \ Buffered(c).del
    BY <1>3 DEF TInv, CommitExact
  <2>4. Rows' = (Rows \cup Buffered(c).ins) \ Buffered(c).del
    BY <2>1, <2>2, <2>3, FactsForm DEF Rows
  <2> QED
    BY <1>2, <1>3, <1>4, <2>4 DEF Commits
<1> QED
  BY <1>1, <1>5, <1>6, ReturnEffect DEF RInv

\* A step of client c is one of these.
Refines(c) == Begins(c) \/ Writes(c) \/ Commits(c) \/ Discards(c) \/ Ends(c) \/ Stutters(c)

\* Of a statement, what it is to TableSpec depends on its writes alone.
LEMMA StatementRefines ==
  ASSUME TInv, NEW c \in Client, Statement(c), ~ Returns(c),
         StartTxn(c) \/ ApplyDrop(c) \/ DropPin(c) => Buffered(c)' = Buffered(c),
         EndTxn(c) => Buffered(c)' = NoRows,
         \/ Buffered(c)' = Buffered(c)
         \/ Buffered(c)' = NoRows
         \/ Buffered(c)' \in [ins : SUBSET ((Table \X Row) \ Rows), del : SUBSET (Table \X Row)]
  PROVE  Refines(c)
<1>0. Step(c) /\ RInv
  BY DEF Step, TInv
<1>1. pc[c] # "committing" /\ Rows' = Rows
  BY <1>0, LockFrame, OwnView DEF RInv
<1>2. ASSUME pin' = pin, Buffered(c)' = Buffered(c) PROVE Refines(c)
  BY <1>0, <1>1, <1>2, OwnView DEF Stutters, Refines
<1>3. CASE StartTxn(c) \/ ApplyDrop(c) \/ DropPin(c)
  <2>1. Pin(c) \/ pin' = pin
    BY <1>3 DEF StartTxn, ApplyDrop, DropPin, vmvars, clients
  <2> QED
    BY <1>0, <1>2, <1>3, <2>1, PinsAndUnpins DEF Refines
<1>4. CASE EndTxn(c)
  <2>1. Unpin(c)
    BY <1>4 DEF EndTxn
  <2> QED
    BY <1>0, <1>4, <2>1, PinsAndUnpins DEF Refines
<1>5. CASE pin' = pin /\ pc[c] \notin {"start", "dropping", "done", "failed"}
  <2>1. Pinned(c)
    <3>1. c \notin Compactor
      BY RoleSteps, <1>0, RoleAssumption
         DEF Statement, StartTxn, Append_inner, InsertCommit, TxnCommitted, InsertEnd, Scan_inner,
             ScanDone, ScanEnd, LockForDeletion, Delete, WriteDv, DeleteCommit, DeleteAbort, Unlock,
             DeleteEnd, ApplyDrop, DropPin, DropCommit, DropCommitted, DropEnd, Txn
    <3> QED
      BY <1>5, <3>1 DEF TInv, PointsOK
  <2>2. Keeps(c)
    BY <1>0, <1>5, OwnView
  <2> QED
    BY <1>1, <1>2, <1>5, <2>1, <2>2 DEF Discards, Writes, Refines
<1> QED
  BY <1>3, <1>4, <1>5, StatementPins

\* The compactor writes nothing: what it commits are the rows that were there.
LEMMA CompactRefines ==
  ASSUME TInv, NEW c \in Client, Compact(c)
  PROVE  Refines(c)
<1>0. Step(c) /\ RInv
  BY DEF Step, TInv
<1>1. c \in Compactor
  BY DEF Compact, CompactStart, CompactPin, TryLock, Select, WriteMerged, CompactError,
         CompactCommit, CompactCommitted, CompactRelease, CompactEnd
<1>2. Buffered(c)' = NoRows /\ Buffered(c) = NoRows
  BY <1>1, RoleAssumption DEF Buffered, NoRows, Txn
<1>3. CASE Returns(c)
  BY <1>0, <1>3, ReturnRefines DEF Refines
<1>4. CASE pin' = pin /\ ~ Returns(c)
  <2>1. pc[c] # "committing"
    BY <1>0, <1>4, LockFrame DEF RInv
  <2> QED
    BY <1>0, <1>2, <1>4, <2>1, OwnView DEF Stutters, Refines
<1> QED
  BY <1>0, <1>2, <1>3, <1>4, PinsAndUnpins, VMFrame DEF Refines

\* A SELECT, and the scan below a DELETE, writes nothing.
LEMMA ReadRefines ==
  ASSUME TInv, NEW c \in Reader \cup Scan, Step(c)
  PROVE  Refines(c)
<1>1. c \in Client /\ c \notin Inserter \cup Deleter \cup Dropper \cup Compactor
  BY RoleAssumption DEF Txn
<1>2. Buffered(c)' = NoRows /\ Buffered(c) = NoRows
  BY <1>1 DEF Buffered, NoRows
<1>3. Statement(c)
  BY <1>1, RoleSteps DEF Statement
<1>4. ~ Returns(c)
  BY <1>1 DEF Returns, TxnCommitted, DropCommitted, CompactCommitted
<1> QED
  BY <1>1, <1>2, <1>3, <1>4, StatementRefines

\* A DELETE buffers the rows its handlers point to when it has drained its scan.
LEMMA DeleteRefines ==
  ASSUME TInv, NEW c \in Deleter, Step(c)
  PROVE  Refines(c)
<1>0. /\ RInv /\ PointsOK /\ HandlersOK /\ DOMAIN pc = Client
      /\ c \in Client /\ c \notin Inserter \cup Dropper \cup Compactor
  BY EngineTypes, RoleAssumption DEF TInv, RInv, Txn
<1>1. CASE Returns(c)
  BY <1>0, <1>1, ReturnRefines DEF Refines
<1>2. Statement(c)
  BY <1>0, RoleSteps DEF Statement
<1>3. CASE pc[c] \in {"written", "committing"} /\ pc'[c] \in {"written", "committing"} /\ ~ Returns(c)
  <2>1. Buffered(c)' = Buffered(c)
    BY <1>0, <1>3, DeletedKept DEF Buffered
  <2>2. ~ EndTxn(c)
    BY <1>0, <1>3 DEF EndTxn, Goto
  <2> QED
    BY <1>0, <1>2, <1>3, <2>1, <2>2, StatementRefines
<1>4. CASE pc'[c] \notin {"written", "committing"} /\ ~ Returns(c)
  <2>1. Buffered(c)' = NoRows
    BY <1>0, <1>4 DEF Buffered, NoRows
  <2>2. StartTxn(c) \/ ApplyDrop(c) \/ DropPin(c) => Buffered(c) = NoRows
    BY <1>0 DEF StartTxn, ApplyDrop, DropPin, Buffered, NoRows
  <2> QED
    BY <1>0, <1>2, <1>4, <2>1, <2>2, StatementRefines
<1>5. CASE Delete(c)
  <2>1. Buffered(c)' = [ins |-> {}, del |-> {TableOf[c]} \X DeletedBy(c)]
    <3>1. pc'[c] = "written" /\ DeletedBy(c)' = DeletedBy(c)
      BY <1>0, <1>5 DEF Delete, Goto, DeletedBy, RowAt
    <3> QED
      BY <1>0, <3>1 DEF Buffered
  <2>2. {TableOf[c]} \X DeletedBy(c) \subseteq Table \X Row
    <3>1. TableOf[c] \in Table
      BY TableAssumption DEF Txn
    <3>2. ASSUME NEW h \in handlers[c] PROVE RowAt(h) \in Row
      <4>1. h[1] \in Rowset /\ h[2] \in DOMAIN contents[h[1]]
        BY <1>0, PublishedStep DEF HandlersOK
      <4>2. contents[h[1]] \in Seq(Row)
        BY <1>0, <4>1 DEF RInv, EngineTypeOK
      <4> QED
        BY <4>1, <4>2, SMT DEF RowAt
    <3> QED
      BY <3>1, <3>2 DEF DeletedBy
  <2>3. Buffered(c)' \in [ins : SUBSET ((Table \X Row) \ Rows), del : SUBSET (Table \X Row)]
    BY <2>1, <2>2, SMT
  <2>4. ~ EndTxn(c) /\ ~ (StartTxn(c) \/ ApplyDrop(c) \/ DropPin(c)) /\ ~ Returns(c)
    BY <1>0, <1>5 DEF Delete, EndTxn, StartTxn, ApplyDrop, DropPin, Goto, Returns, TxnCommitted,
                      DropCommitted, CompactCommitted
  <2> QED
    BY <1>0, <1>2, <2>3, <2>4, StatementRefines
<1>6. pc[c] \in {"written", "committing"} \/ pc'[c] \notin {"written", "committing"} \/ Delete(c)
  BY <1>0, RoleSteps
     DEF StartTxn, LockForDeletion, Goto, WriteDv, DeleteCommit, DeleteAbort, TxnCommitted, Unlock,
         DeleteEnd, EndTxn
<1> QED
  BY <1>1, <1>3, <1>4, <1>5, <1>6

\* A DROP TABLE decides what it deletes when it applies its changeset.
LEMMA DropRefines ==
  ASSUME TInv, NEW c \in Dropper, Step(c)
  PROVE  Refines(c)
<1>0. /\ RInv /\ DOMAIN pc = Client
      /\ c \in Client /\ c \notin Inserter \cup Deleter \cup Compactor
  BY EngineTypes, RoleAssumption DEF TInv, RInv, Txn
<1>1. CASE Returns(c)
  BY <1>0, <1>1, ReturnRefines DEF Refines
<1>2. Statement(c)
  BY <1>0, RoleSteps DEF Statement
<1>3. ASSUME ~ Returns(c) PROVE Buffered(c) = NoRows
  <2>1. pc[c] # "committing"
    BY <1>0, <1>3, LockFrame DEF RInv
  <2> QED
    BY <1>0, <2>1 DEF Buffered, NoRows
<1>4. CASE pc'[c] # "committing" /\ ~ Returns(c)
  <2>1. Buffered(c)' = NoRows
    BY <1>0, <1>4 DEF Buffered, NoRows
  <2> QED
    BY <1>0, <1>2, <1>3, <1>4, <2>1, StatementRefines
<1>5. CASE pc'[c] = "committing" /\ ~ Returns(c)
  <2>1. ~ EndTxn(c) /\ ~ (StartTxn(c) \/ ApplyDrop(c) \/ DropPin(c))
    BY <1>0, <1>5 DEF EndTxn, StartTxn, ApplyDrop, DropPin, Goto
  <2>2. pin' = pin /\ Pinned(c)
    BY <1>0, <1>2, <2>1, StatementPins DEF TInv, PointsOK
  <2>3. FactsOf(SnapshotOf(c))' \subseteq Table \X Row
    <3>1. FactsOf(SnapshotOf(c))' = FactsOf(SnapshotOf(c))
      BY <1>0, <2>2, FactsKept
    <3>2. FactsOf(SnapshotOf(c)) \subseteq Table \X Row
      BY <1>0, <2>2, RowsTyped DEF Sees
    <3> QED
      BY <3>1, <3>2
  <2>4. Buffered(c)' = [ins |-> {}, del |-> {f \in FactsOf(SnapshotOf(c))' : f[1] = TableOf[c]}]
    BY <1>0, <1>5 DEF Buffered
  <2>5. Buffered(c)' \in [ins : SUBSET ((Table \X Row) \ Rows), del : SUBSET (Table \X Row)]
    BY <2>3, <2>4, SMT
  <2> QED
    BY <1>0, <1>2, <1>5, <2>1, <2>5, StatementRefines
<1> QED
  BY <1>1, <1>4, <1>5

\* An INSERT buffers the rows of the RowSets it builds, which no snapshot shows.
LEMMA AppendWrites ==
  ASSUME TInv, NEW c \in Client, Append_inner(c), Step(c)
  PROVE  Buffered(c)' \in [ins : SUBSET ((Table \X Row) \ Rows), del : SUBSET (Table \X Row)]
<1> DEFINE new == Stored(contents', built'[c])
<1>0. RInv /\ RInv' /\ c \in Inserter /\ DOMAIN pc = Client
  BY RowsStep, EngineTypes DEF TInv, Append_inner, RInv, SNext, Step
<1>1. pc'[c] \in {"pinned", "written"}
  BY <1>0 DEF Append_inner, Goto
<1>2. Buffered(c)' = [ins |-> {TableOf[c]} \X new, del |-> {}]
  BY <1>0, <1>1 DEF Buffered, Stored
<1>3. /\ \A q \in Rowset \ built'[c] : Range(contents'[q]) \cap Range(Inserted[c]) = {}
      /\ new \subseteq Range(Inserted[c]) /\ new \subseteq Row
  <2>1. /\ \A q \in Rowset \ built'[c] : Range(contents'[q]) \cap Range(Inserted[c]) = {}
        /\ new = {Inserted[c][i] : i \in 1 .. RowsOf(built[c])'}
        /\ RowsOf(built[c])' <= Len(Inserted[c])
    BY <1>0, AppendKeeps
  <2>2. RowsOf(built[c])' \in Nat
    BY <1>0, AppendKeeps, FS_CardinalityType DEF RowsOf, HandlersIn
  <2>3. Inserted[c] \in Seq(Row)
    BY <1>0, RowAssumption
  <2>4. \A i \in 1 .. RowsOf(built[c])' : i \in DOMAIN Inserted[c] /\ Inserted[c][i] \in Row
    BY <2>1, <2>2, <2>3, SMT
  <2> QED
    BY <2>1, <2>4 DEF Range
<1>4. ASSUME NEW x \in Rows PROVE x \notin {TableOf[c]} \X new
  <2>1. PICK r, i : r \in status[epoch].rowsets /\ i \in DOMAIN contents[r] /\ x = <<r[1], contents[r][i]>>
    BY FactsForm, FactsIn, SMT DEF Rows
  <2>2. r \in Published /\ r \in Rowset /\ contents'[r] = contents[r] /\ r \notin built'[c]
    <3>1. r \in Published
      BY <1>0, <2>1, SnapshotPublished
    <3>2. r \in Published' /\ r \in Rowset /\ contents'[r] = contents[r]
      BY <1>0, <3>1, PublishedStep
    <3>3. built'[c] \cap Published' = {}
      BY <1>0, SMT DEF RInv, SInv, IInv, BuiltFresh, Published
    <3> QED
      BY <3>1, <3>2, <3>3
  <2>3. contents[r][i] \in Range(contents'[r])
    BY <2>1, <2>2 DEF Range
  <2> QED
    BY <1>3, <2>1, <2>2, <2>3
<1>5. {TableOf[c]} \X new \subseteq Table \X Row
  BY <1>0, <1>3, TableAssumption DEF Txn
<1> HIDE DEF new
<1>6. {TableOf[c]} \X new \subseteq (Table \X Row) \ Rows
  BY <1>4, <1>5
<1> QED
  BY <1>2, <1>6, SMT

\* An INSERT: each row appended is a Write, and nothing is added between the last row
\* and the commit.
LEMMA InsertRefines ==
  ASSUME TInv, NEW c \in Inserter, Step(c)
  PROVE  Refines(c)
<1>0. /\ RInv /\ DOMAIN pc = Client
      /\ c \in Client /\ c \notin Deleter \cup Dropper \cup Compactor
  BY EngineTypes, RoleAssumption DEF TInv, RInv, Txn
<1>1. CASE TxnCommitted(c)
  BY <1>0, <1>1, ReturnRefines DEF Refines, Returns
<1>2. Statement(c)
  BY <1>0, RoleSteps DEF Statement
<1>3. CASE StartTxn(c)
  <2>1. pc[c] = "start" /\ pc'[c] \in {"pinned", "failed"} /\ UNCHANGED contents /\ built'[c] = built[c]
    BY <1>0, <1>3 DEF StartTxn, Goto, Pin, vmvars, clients
  <2>2. built[c] = {}
    BY <1>0, <2>1 DEF RInv, BuildersOK
  <2>3. Buffered(c) = NoRows
    BY <1>0, <2>1 DEF Buffered, NoRows
  <2>4. Buffered(c)' = NoRows
    BY <1>0, <2>1, <2>2 DEF Buffered, NoRows
  <2>5. ~ Returns(c)
    BY <2>1 DEF Returns, TxnCommitted, DropCommitted, CompactCommitted
  <2> QED
    BY <1>0, <1>2, <2>3, <2>4, <2>5, StatementRefines
<1>4. CASE Append_inner(c)
  <2>1. Buffered(c)' \in [ins : SUBSET ((Table \X Row) \ Rows), del : SUBSET (Table \X Row)]
    BY <1>0, <1>4, AppendWrites
  <2>2. ~ EndTxn(c) /\ ~ (StartTxn(c) \/ ApplyDrop(c) \/ DropPin(c)) /\ ~ Returns(c)
    BY <1>0, <1>4 DEF Append_inner, EndTxn, StartTxn, ApplyDrop, DropPin, Goto, Returns, TxnCommitted,
                      DropCommitted, CompactCommitted
  <2> QED
    BY <1>0, <1>2, <2>1, <2>2, StatementRefines
<1>5. CASE InsertCommit(c)
  <2>1. pc[c] = "written" /\ pc'[c] = "committing"
    BY <1>0, <1>5 DEF InsertCommit, Goto
  <2>2. Buffered(c) = [ins |-> {TableOf[c]} \X Stored(contents, built[c]), del |-> {}]
    BY <2>1 DEF Buffered, Stored
  <2>3. Buffered(c)' = [ins |-> {TableOf[c]} \X Range(Inserted[c]), del |-> {}]
    BY <2>1 DEF Buffered
  <2>4. Buffered(c)' = Buffered(c)
    BY <1>0, <2>1, <2>2, <2>3, InsertedAll
  <2>5. ~ EndTxn(c) /\ ~ Returns(c)
    BY <1>0, <2>1 DEF EndTxn, Goto, Returns, TxnCommitted, DropCommitted, CompactCommitted
  <2> QED
    BY <1>0, <1>2, <2>4, <2>5, StatementRefines
<1>6. CASE InsertEnd(c)
  <2>1. pc[c] # "start" /\ pc[c] # "committing" /\ pc'[c] = "done"
    BY <1>0, <1>6 DEF InsertEnd, EndTxn, Goto
  <2>2. Buffered(c)' = NoRows
    BY <1>0, <2>1 DEF Buffered, NoRows
  <2>3. ~ (StartTxn(c) \/ ApplyDrop(c) \/ DropPin(c)) /\ ~ Returns(c)
    BY <1>0, <2>1 DEF StartTxn, ApplyDrop, DropPin, Returns, TxnCommitted, DropCommitted, CompactCommitted
  <2> QED
    BY <1>0, <1>2, <2>2, <2>3, StatementRefines
<1> QED
  BY <1>0, <1>1, <1>3, <1>4, <1>5, <1>6, RoleSteps
-----------------------------------------------------------------------------
\* Every step of the engine is a step of TableSpec, or changes nothing there.
LEMMA StepRefines ==
  ASSUME TInv, [SNext]_svars
  PROVE  [Abstract!TNext]_(Abstract!tvars)
<1>1. ASSUME NEW c \in Client, Step(c) PROVE [Abstract!TNext]_(Abstract!tvars)
  <2>1. \A d \in Client : d # c => Pinned(d)' = Pinned(d) /\ Sees(d)' = Sees(d) /\ Buffered(d)' = Buffered(d)
    BY <1>1, OthersSee
  <2>2. ASSUME c \in Compactor PROVE Refines(c)
    BY <1>1, <2>2, RoleSteps, CompactRefines
  <2>3. c \in Compactor \cup Reader \cup Scan \cup Deleter \cup Dropper \cup Inserter
    BY <1>1, RoleSteps DEF Txn
  <2>4. Refines(c)
    BY <1>1, <2>2, <2>3, ReadRefines, DeleteRefines, DropRefines, InsertRefines
  <2> QED
    BY <2>1, <2>4, AbstractStep DEF Refines
<1>2. CASE ~ \E c \in Client : Step(c)
  <2>1. UNCHANGED <<epoch, status, pending, pin, built, pc, contents, dv_rows, handlers>>
    BY <1>2, VacuumFrame
  <2>2. /\ FactsOf(status[epoch])' = FactsOf(status[epoch])
        /\ \A c \in Client : /\ FactsOf(SnapshotOf(c))' = FactsOf(SnapshotOf(c))
                             /\ Pinned(c)' = Pinned(c) /\ Buffered(c)' = Buffered(c)
    BY <2>1, ShownSame
  <2>3. UNCHANGED Abstract!tvars
    BY <2>2 DEF Abstract!tvars
  <2> QED
    BY <2>3
<1> QED
  BY <1>1, <1>2

\* The database that has been opened is an initial state of TableSpec.
LEMMA StartRefines == SInit => Abstract!TInit
<1> SUFFICES ASSUME SInit PROVE Abstract!TInit
  OBVIOUS
<1>1. RInv
  BY RowsStart
<1>2. \A c \in Client : ~ Pinned(c) /\ built[c] = {} /\ pc[c] \in {"start", "done"}
  BY DEF SInit, VMInit, Pinned
<1>3. FactsOf(status[epoch]) \subseteq Table \X Row
  BY <1>1, RowsTyped DEF Rows
<1>4. \A c \in Client : Buffered(c) = [ins |-> {}, del |-> {}]
  BY <1>2 DEF Buffered
<1> QED
  BY <1>2, <1>3, <1>4 DEF Abstract!TInit, Abstract!NoWrite

\* The secondary storage engine implements what the Table and Transaction traits
\* promise (snapshot reads, and commits that apply exactly their own writes), whatever
\* statements run together, for all tables, rows, clients and sizes, as long as the
\* compactor does not run beside a DELETE or DROP TABLE.
THEOREM EngineImplementsTable == Apart /\ SSpec => ImplementsTable
<1>1. TInv /\ [SNext]_svars => [Abstract!TNext]_(Abstract!tvars)
  BY StepRefines
<1> QED
  BY <1>1, StartRefines, TableInvariance, PTL DEF SSpec, ImplementsTable, Abstract!TSpec
=============================================================================
