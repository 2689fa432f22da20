---------------------- MODULE SecondaryStorageRowProofs ----------------------
(***************************************************************************)
(* Proofs about SecondaryStorage, second part: what the processes write.   *)
(* The invariant RInv says which rows every RowSet holds, before and after *)
(* it is committed; here are what INSERT and the merge of a compaction     *)
(* add, and that nothing else is written.                                  *)
(***************************************************************************)
EXTENDS SecondaryStorageProofs

\* A leaf is tried with Zenon and then with the SMT solver.
USE ZenonT(5), SMTT(20)

\* The rows in a set of RowSets, for the contents f of RowSets.
Stored(f, set) == UNION {Range(f[r]) : r \in set}

\* No row of a table is twice in them.
Unique(f, set) ==
    \A r, q \in set : r[1] = q[1] =>
        \A i \in DOMAIN f[r], j \in DOMAIN f[q] : f[r][i] = f[q][j] => r = q /\ i = j

\* Types of the processes' state.
EngineTypeOK ==
    /\ contents \in [Rowset -> Seq(Row)]
    /\ dv_rows \in [Dv -> SUBSET Nat]
    /\ handlers \in [Deleter -> SUBSET (Rowset \X Nat)]
    /\ table_lock \in [Table -> Client \cup {NoClient}]
    /\ durable \subseteq Table

\* The id of every DV in use has been handed out.
DvIdsUsed ==
    /\ \A e \in 1 .. epoch : \A v \in status[e].dvs : v[2] < next_dv
    /\ \A c \in Client : \A v \in built_dv[c] \cup pending[c].dvs : v[2] < next_dv

\* Only an INSERT that has not committed and a compaction that has written its
\* output have RowSets that are not committed, and these are of their table.
BuildersOK ==
    \A c \in Client :
        /\ c \notin Inserter \cup Compactor => built[c] = {}
        /\ c \in Inserter => /\ built[c] # {} => pc[c] \in {"pinned", "written"}
                             /\ \A r \in built[c] : r[1] = TableOf[c]
        /\ c \in Compactor => /\ built[c] # {} => pc[c] \in {"merged", "compacted"} /\ held[c] # {}
                              /\ \A r \in built[c] : r[1] \in ctable

\* The compactor holds RowSets while it merges; it works on a table only between
\* taking and releasing the table's lock, and has no pin before the round begins.
RoundOK ==
    \A k \in Compactor :
        /\ pc[k] \in {"selected", "merged"} => held[k] # {}
        /\ pc[k] \in {"start", "cloned"} => pin[k] = 0
        /\ pc[k] \in {"start", "cloned", "pinned"} => ctable = {}
        /\ ctable \cap ctables = {}

\* An INSERT's RowSets hold what it has appended so far, and nobody else has these
\* rows before it commits.
InsertOK ==
    \A c \in Inserter : pc[c] \in {"start", "pinned", "written"} =>
        /\ \A r \in Rowset \ built[c] : Range(contents[r]) \cap Range(Inserted[c]) = {}
        /\ Unique(contents, built[c])
        /\ IsFiniteSet(HandlersIn(built[c]))
        /\ RowsOf(built[c]) <= Len(Inserted[c])
        /\ RowsOf(built[c]) = Len(Inserted[c]) <=> pc[c] = "written"
        /\ Stored(contents, built[c]) = {Inserted[c][i] : i \in 1 .. RowsOf(built[c])}

\* The output of a compaction holds the rows of its inputs that its snapshot shows.
MergeOK ==
    \A k \in Compactor : pc[k] = "merged" =>
        /\ Unique(contents, built[k])
        /\ Stored(contents, built[k]) =
               {RowAt(h) : h \in UNION {RowsIn(SnapshotOf(k), r) : r \in held[k]}}

\* The tables that a round of the compactor has still to compact ...
Open(k) == ctables \cup {t \in ctable : pc[k] \in {"locked", "selected", "merged"}}

\* ... and their RowSets in the round's snapshot, in the current one and in the one
\* that client c is about to publish.
Reach(k, c) ==
    {r \in status[epoch].rowsets \cup SnapshotOf(k).rowsets \cup pending[c].rowsets :
        r[1] \in Open(k)}

\* No row is twice in the current or the next snapshot, nor in what a round of the
\* compactor can still replace and these.
DistinctOK ==
    /\ Unique(contents, status[epoch].rowsets)
    /\ \A c \in Client : Unique(contents, pending[c].rowsets)
    /\ \A c \in Client \ Compactor :
          Unique(contents, status[epoch].rowsets \cup pending[c].rowsets)
    /\ \A k \in Compactor, c \in Client : Pinned(k) => Unique(contents, Reach(k, c))

\* A commit adds RowSets only for an INSERT or a compaction and DVs only for a DELETE; a
\* DROP TABLE that is being committed leaves nothing of what its snapshot holds of the table.
ReopenOK ==
    \A c \in Client :
        /\ c \notin Deleter => built_dv[c] = {} /\ pending[c].dvs \subseteq status[epoch].dvs
        /\ c \notin Inserter \cup Compactor => pending[c].rowsets \subseteq status[epoch].rowsets
        /\ c \in Dropper /\ pc[c] = "committing" =>
              /\ \A r \in pending[c].rowsets : r[1] = TableOf[c] => r \notin SnapshotOf(c).rowsets
              /\ \A v \in pending[c].dvs : v[1][1] = TableOf[c] =>
                    (v \in SnapshotOf(c).dvs => v[1] \notin SnapshotOf(c).rowsets)

RInv ==
    /\ SInv /\ EngineTypeOK /\ DvIdsUsed /\ BuildersOK /\ RoundOK
    /\ InsertOK /\ MergeOK /\ DistinctOK /\ ReopenOK
-----------------------------------------------------------------------------
\* The types of what the engine uses of the version manager's state.
LEMMA EngineTypes ==
  ASSUME SInv
  PROVE  /\ epoch \in Epoch /\ status \in [Epoch -> Snapshot] /\ pending \in [Client -> Commit]
         /\ pin \in [Client -> 0 .. MaxEpoch] /\ held \in [Client -> SUBSET Rowset]
         /\ built \in [Client -> SUBSET Rowset]
         /\ next_id \in Nat /\ next_dv \in Nat /\ DOMAIN pc = Client
<1>1. VMTypeOK /\ ProcTypeOK
  BY DEF SInv, IInv
<1>2. next_id \in Nat /\ next_dv \in Nat
  BY <1>1, BoundAssumption DEF VMTypeOK
<1> QED
  BY <1>1, <1>2 DEF VMTypeOK, ProcTypeOK

\* The handlers of the rows of one table are totally ordered, so that no two of a
\* finite set of them have the same rank.
LEMMA RankOrder ==
  ASSUME NEW S, IsFiniteSet(S), NEW t, S \subseteq ({t} \X Nat) \X Nat
  PROVE  \A g, h \in S : /\ Rank(S, g) \in 0 .. Cardinality(S) - 1
                         /\ Rank(S, g) = Rank(S, h) => g = h
<1> DEFINE Below(h) == {x \in S : Before(x, h)}
<1>1. \A h \in S : ~ Before(h, h)
  BY DEF Before
<1>2. \A g, h \in S : g = h \/ Before(g, h) \/ Before(h, g)
  BY DEF Before
<1>3. \A x, g, h \in S : Before(x, g) /\ Before(g, h) => Before(x, h)
  BY DEF Before
<1>4. ASSUME NEW h \in S
      PROVE  IsFiniteSet(Below(h)) /\ Cardinality(Below(h)) \in 0 .. Cardinality(S) - 1
  <2>1. Below(h) \in SUBSET S /\ Below(h) # S
    BY <1>1
  <2>2. IsFiniteSet(Below(h))
    BY <2>1, FS_Subset
  <2>3. Cardinality(Below(h)) <= Cardinality(S) /\ Cardinality(Below(h)) # Cardinality(S)
    BY <2>1, FS_Subset
  <2>4. Cardinality(Below(h)) \in Nat /\ Cardinality(S) \in Nat
    BY <2>2, FS_CardinalityType
  <2> QED
    BY <2>2, <2>3, <2>4
<1>5. ASSUME NEW g \in S, NEW h \in S, Before(g, h)
      PROVE  Cardinality(Below(g)) # Cardinality(Below(h))
  <2>1. Below(g) \in SUBSET Below(h)
    BY <1>3, <1>5
  <2>2. g \in Below(h) /\ g \notin Below(g)
    BY <1>1, <1>5
  <2>3. IsFiniteSet(Below(h))
    BY <1>4
  <2> HIDE DEF Below
  <2> QED
    BY <2>1, <2>2, <2>3, FS_Subset
<1> QED
  BY <1>2, <1>4, <1>5 DEF Rank

\* InOrder lists the rows of such a set, each once.
LEMMA InOrderRows ==
  ASSUME NEW S, IsFiniteSet(S), NEW t, S \subseteq ({t} \X Nat) \X Nat
  PROVE  /\ Cardinality(S) \in Nat
         /\ \E f \in Bijection(1 .. Cardinality(S), S) :
               InOrder(S) = [i \in 1 .. Cardinality(S) |-> RowAt(f[i])]
<1> DEFINE n == Cardinality(S)
           rank == [h \in S |-> Rank(S, h)]
           f == [i \in 1 .. n |-> CHOOSE h \in S : Rank(S, h) = i - 1]
<1>1. n \in Nat
  BY FS_CardinalityType
<1>2. IsFiniteSet(0 .. n - 1) /\ Cardinality(0 .. n - 1) = n
  BY <1>1, FS_Interval
<1>3. rank \in Injection(S, 0 .. n - 1)
  BY RankOrder DEF Injection, IsInjective
<1>4. rank \in Surjection(S, 0 .. n - 1)
  BY <1>2, <1>3, FS_Injection
<1>5. \A i \in 1 .. n : \E h \in S : Rank(S, h) = i - 1
  <2>1. ASSUME NEW i \in 1 .. n PROVE \E h \in S : Rank(S, h) = i - 1
    <3>1. i - 1 \in 0 .. n - 1
      BY <1>1
    <3>2. \E h \in S : rank[h] = i - 1
      BY <1>4, <3>1 DEF Surjection
    <3> QED
      BY <3>2
  <2> QED
    BY <2>1
<1>6. \A i \in 1 .. n : f[i] \in S /\ Rank(S, f[i]) = i - 1
  BY <1>5
<1>7. f \in Injection(1 .. n, S)
  <2>1. f \in [1 .. n -> S]
    BY <1>6
  <2>2. \A i, j \in 1 .. n : f[i] = f[j] => i = j
    BY <1>1, <1>6
  <2> QED
    BY <2>1, <2>2 DEF Injection, IsInjective
<1>8. f \in Surjection(1 .. n, S)
  <2>1. ASSUME NEW h \in S PROVE \E i \in 1 .. n : f[i] = h
    <3>1. Rank(S, h) \in 0 .. n - 1
      BY RankOrder
    <3>2. Rank(S, h) + 1 \in 1 .. n
      BY <1>1, <3>1
    <3>3. Rank(S, f[Rank(S, h) + 1]) = Rank(S, h)
      BY <1>6, <3>1, <3>2
    <3> QED
      BY <1>6, <3>2, <3>3, RankOrder
  <2> QED
    BY <1>7, <2>1 DEF Surjection, Injection
<1>9. InOrder(S) = [i \in 1 .. n |-> RowAt(f[i])]
  BY DEF InOrder
<1> QED
  BY <1>1, <1>7, <1>8, <1>9 DEF Bijection
-----------------------------------------------------------------------------
\* A client changes no other client's part of the version manager.
LEMMA ClientFrame ==
  ASSUME VMTypeOK, NEW c \in Client, ClientNext(c) \/ UNCHANGED vmvars,
         NEW d \in Client, d # c
  PROVE  /\ pin'[d] = pin[d] /\ held'[d] = held[d] /\ built'[d] = built[d]
         /\ built_dv'[d] = built_dv[d] /\ pending'[d] = pending[d]
<1> USE DEF VMTypeOK, vmvars, clients
<1>1. CASE Pin(c) \/ DropRowsets(c) \/ Unpin(c)
  BY <1>1 DEF Pin, DropRowsets, Unpin
<1>2. CASE \E wanted \in SUBSET rowsets : GetRowsets(c, wanted)
  BY <1>2 DEF GetRowsets
<1>3. CASE \E t \in Table : BuildRowset(c, t)
  BY <1>3 DEF BuildRowset
<1>4. CASE \E r \in Rowset : BuildDv(c, r)
  BY <1>4 DEF BuildDv
<1>5. CASE \E t \in Table : Pinned(c) /\ ClientCommit(c, t)
  <2>1. PICK t \in Table : ClientCommit(c, t)
    BY <1>5
  <2>2. PICK deleted, last, old_dvs :
           CommitApply(c, t, deleted, old_dvs, last) \/ CommitPanic(c, t, deleted, last)
    BY <2>1 DEF ClientCommit
  <2> QED
    BY <2>2 DEF CommitApply, CommitPanic
<1>6. CASE CommitFinish(c) \/ CommitFail(c)
  BY <1>6 DEF CommitFinish, CommitFail
<1>7. CASE UNCHANGED vmvars
  BY <1>7
<1> QED
  BY <1>1, <1>2, <1>3, <1>4, <1>5, <1>6, <1>7 DEF ClientNext

\* A step of client c.
Step(c) == Statement(c) \/ Compact(c)

\* A step of a client changes nothing of another client.
LEMMA StepFrame ==
  ASSUME SInv, NEW c \in Client, Step(c), NEW d \in Client, d # c
  PROVE  /\ pc'[d] = pc[d] /\ pin'[d] = pin[d] /\ held'[d] = held[d] /\ built'[d] = built[d]
         /\ built_dv'[d] = built_dv[d] /\ pending'[d] = pending[d]
<1>1. ClientNext(c) \/ UNCHANGED vmvars
  BY StatementUses, CompactUses DEF Step
<1>2. CASE Statement(c)
  BY <1>1, <1>2, StatementFrame, ClientFrame DEF SInv, IInv
<1>3. CASE Compact(c)
  <2>1. DOMAIN pc = Client
    BY DEF SInv, ProcTypeOK
  <2>2. UNCHANGED pc \/ \E label : Goto(c, label)
    BY <1>3 DEF Compact, CompactStart, CompactPin, TryLock, Select, WriteMerged, CompactError,
                CompactCommit, CompactCommitted, CompactRelease, CompactEnd
  <2>3. pc'[d] = pc[d]
    BY <2>1, <2>2 DEF Goto
  <2> QED
    BY <1>1, <2>3, ClientFrame DEF SInv, IInv
<1> QED
  BY <1>2, <1>3 DEF Step

\* The other steps leave the processes alone.
LEMMA NoStep ==
  ASSUME [SNext]_svars, ~ \E c \in Client : Step(c)
  PROVE  UNCHANGED <<epoch, status, pending, pin, held, built, built_dv, next_id, next_dv, procvars>>
<1>1. CASE Vacuum
  BY <1>1 DEF Vacuum, VacuumNext, FindVacuum, RemoveDir, inner, clients
<1>2. CASE UNCHANGED svars
  BY <1>2 DEF svars, vmvars, inner, clients
<1> QED
  BY <1>1, <1>2 DEF SNext, Step
-----------------------------------------------------------------------------
\* RowSet r is in no snapshot and no commit, and no client but c has built it.
Fresh(c, r) ==
    /\ \A e \in 1 .. epoch : r \notin status[e].rowsets
    /\ \A d \in Client : r \notin pending[d].rowsets
    /\ \A d \in Client : d # c => r \notin built[d]

\* A RowSet that a client has built and not committed is fresh, and so is one with
\* the next id.
LEMMA FreshRowset ==
  ASSUME SInv, NEW c \in Client, NEW r, r \in built[c] \/ r[2] = next_id
  PROVE  Fresh(c, r)
<1>1. next_id \in Nat
  BY DEF SInv, IInv, VMTypeOK
<1>2. CASE r \in built[c]
  BY <1>2 DEF SInv, IInv, BuiltFresh, Fresh
<1>3. CASE r[2] = next_id
  BY <1>1, <1>3 DEF SInv, IInv, IdsUsed, Fresh
<1> QED
  BY <1>2, <1>3

\* What append_inner does: one more row of the statement goes into a RowSet of its own.
LEMMA AppendEffect ==
  ASSUME RInv, NEW c \in Client, Append_inner(c)
  PROVE  LET n == RowsOf(built[c]) + 1
         IN  /\ c \in Inserter /\ pc[c] = "pinned"
             /\ RowsOf(built[c]) \in Nat /\ n \in 1 .. Len(Inserted[c]) /\ Inserted[c][n] \in Row
             /\ pc' = [pc EXCEPT ![c] = IF n = Len(Inserted[c]) THEN "written" ELSE "pinned"]
             /\ UNCHANGED <<epoch, status, pending, pin, held, built_dv, next_dv>>
             /\ \E r \in Rowset :
                   /\ r[1] = TableOf[c] /\ Fresh(c, r)
                   /\ built' = [built EXCEPT ![c] = @ \cup {r}]
                   /\ contents' = [contents EXCEPT ![r] =
                          IF r \in built[c] THEN Append(@, Inserted[c][n]) ELSE <<Inserted[c][n]>>]
<1> DEFINE n == RowsOf(built[c]) + 1
           x == Inserted[c][n]
<1>1. /\ c \in Inserter /\ pc[c] = "pinned" /\ TableOf[c] \in Table
      /\ pc' = [pc EXCEPT ![c] = IF n = Len(Inserted[c]) THEN "written" ELSE "pinned"]
  BY TableAssumption DEF Append_inner, Goto, Txn
<1>2. RowsOf(built[c]) \in Nat /\ n \in 1 .. Len(Inserted[c]) /\ x \in Row
  <2>1. Inserted[c] \in Seq(Row) /\ Len(Inserted[c]) \in Nat
    BY <1>1, RowAssumption
  <2>2. RowsOf(built[c]) \in Nat
    BY <1>1, FS_CardinalityType DEF RInv, InsertOK, RowsOf
  <2>3. RowsOf(built[c]) <= Len(Inserted[c]) /\ RowsOf(built[c]) # Len(Inserted[c])
    BY <1>1 DEF RInv, InsertOK
  <2>4. n \in 1 .. Len(Inserted[c])
    BY <2>1, <2>2, <2>3
  <2> HIDE DEF n
  <2> QED
    BY <2>1, <2>2, <2>4
<1>3. /\ built \in [Client -> SUBSET Rowset] /\ contents \in [Rowset -> Seq(Row)]
      /\ next_id \in Nat /\ \A r \in built[c] : r[2] < next_id
  <2>1. IdsUsed
    BY DEF RInv, SInv, IInv
  <2>2. \A r \in built[c] : r[2] < next_id
    BY <2>1 DEF IdsUsed
  <2> QED
    BY <2>2, EngineTypes DEF RInv, EngineTypeOK
<1> HIDE DEF n, x
<1>4. CASE BuildRowset(c, TableOf[c]) /\ contents' = [contents EXCEPT ![<<TableOf[c], next_id>>] = <<x>>]
  <2> DEFINE r == <<TableOf[c], next_id>>
  <2>0. next_id < MaxRowset
    BY <1>4 DEF BuildRowset
  <2>1. r \in Rowset /\ r[1] = TableOf[c] /\ r[2] = next_id /\ r \notin built[c]
    BY <1>1, <1>3, <2>0, BoundAssumption DEF Rowset
  <2>2. Fresh(c, r)
    <3> HIDE DEF r
    <3> QED
      BY <2>1, FreshRowset DEF RInv
  <2>3. /\ built' = [built EXCEPT ![c] = @ \cup {r}]
        /\ UNCHANGED <<epoch, status, pending, pin, held, built_dv, next_dv>>
    BY <1>4 DEF BuildRowset, inner
  <2>4. contents' = [contents EXCEPT ![r] = IF r \in built[c] THEN Append(@, x) ELSE <<x>>]
    BY <1>4, <2>1
  <2> QED
    BY <1>1, <1>2, <2>1, <2>2, <2>3, <2>4, Zenon DEF n, x
<1>5. CASE UNCHANGED vmvars /\ \E r \in Mem(c) : contents' = [contents EXCEPT ![r] = Append(@, x)]
  <2>1. PICK r \in built[c] : contents' = [contents EXCEPT ![r] = Append(@, x)]
    BY <1>5 DEF Mem
  <2>2. r \in Rowset /\ r[1] = TableOf[c]
    BY <1>1, <1>3 DEF RInv, BuildersOK
  <2>3. Fresh(c, r)
    BY FreshRowset DEF RInv
  <2>4. built' = [built EXCEPT ![c] = @ \cup {r}]
    <3>1. built[c] \cup {r} = built[c] /\ built' = built
      BY <1>5 DEF vmvars, clients
    <3> QED
      BY <1>3, <3>1
  <2>5. UNCHANGED <<epoch, status, pending, pin, held, built_dv, next_dv>>
    BY <1>5 DEF vmvars, clients, inner
  <2>6. contents' = [contents EXCEPT ![r] = IF r \in built[c] THEN Append(@, x) ELSE <<x>>]
    BY <2>1
  <2> QED
    BY <1>1, <1>2, <2>2, <2>3, <2>4, <2>5, <2>6, Zenon DEF n, x
<1> QED
  BY <1>4, <1>5 DEF Append_inner, n, x

\* A finite set of RowSets has finitely many rows.
LEMMA FiniteRows ==
  ASSUME contents \in [Rowset -> Seq(Row)], NEW set \in SUBSET Rowset, IsFiniteSet(set)
  PROVE  IsFiniteSet(HandlersIn(set))
<1> DEFINE of(r) == {r} \X DOMAIN contents[r]
           all == {of(r) : r \in set}
           f == [r \in set |-> of(r)]
<1>1. f \in Surjection(set, all)
  BY DEF Surjection
<1>2. IsFiniteSet(all)
  BY <1>1, FS_Surjection
<1>3. \A r \in set : IsFiniteSet(of(r))
  <2>1. ASSUME NEW r \in set PROVE IsFiniteSet(of(r))
    <3>1. DOMAIN contents[r] = 1 .. Len(contents[r]) /\ Len(contents[r]) \in Nat
      OBVIOUS
    <3>2. IsFiniteSet(DOMAIN contents[r])
      BY <3>1, FS_Interval
    <3>3. IsFiniteSet({r})
      BY FS_Singleton
    <3> QED
      BY <3>2, <3>3, FS_Product
  <2> QED
    BY <2>1
<1>4. IsFiniteSet(UNION all)
  <2>1. \A T \in all : IsFiniteSet(T)
    BY <1>3
  <2> HIDE DEF all
  <2> QED
    BY <1>2, <2>1, FS_UNION
<1> QED
  BY <1>4 DEF HandlersIn
-----------------------------------------------------------------------------
\* The visible rows of RowSet r in snapshot s are rows of r.
LEMMA VisibleIsStored ==
  ASSUME contents \in [Rowset -> Seq(Row)], NEW s, NEW r \in Rowset, NEW h \in RowsIn(s, r)
  PROVE  /\ h = <<r, h[2]>> /\ h[1] = r /\ h[2] \in DOMAIN contents[r] /\ h[2] \in Nat
         /\ RowAt(h) = contents[r][h[2]] /\ RowAt(h) \in Row
<1>1. h \in {r} \X DOMAIN contents[r]
  BY DEF RowsIn
<1>2. contents[r] \in Seq(Row)
  OBVIOUS
<1> QED
  BY <1>1, <1>2 DEF RowAt

\* The RowSets the compactor holds for table t are of its snapshot, and no row is
\* twice in them.
LEMMA MergeInputs ==
  ASSUME RInv, NEW k \in Compactor, NEW t \in ctable, pc[k] \in {"selected", "merged"}
  PROVE  /\ t \in Table /\ t \in Open(k) /\ Pinned(k)
         /\ held[k] \subseteq {t} \X (0 .. MaxRowset - 1) /\ held[k] \subseteq Rowset
         /\ held[k] \subseteq SnapshotOf(k).rowsets
         /\ IsFiniteSet(held[k]) /\ Unique(contents, held[k])
<1>1. k \in Client /\ t \in Table /\ t \in Open(k) /\ held[k] # {}
  BY RoleAssumption DEF RInv, SInv, ProcTypeOK, Open, RoundOK
<1>2. Pinned(k) /\ held[k] \subseteq SnapshotOf(k).rowsets
  BY <1>1 DEF RInv, SInv, IInv, PinsOK
<1>3. held[k] \subseteq Rowset /\ \A r \in held[k] : r[1] = t
  <2>1. CompactorOK /\ held \in [Client -> SUBSET Rowset]
    BY EngineTypes DEF RInv, SInv
  <2> QED
    BY <1>1, <2>1 DEF CompactorOK
<1>4. held[k] \subseteq {t} \X (0 .. MaxRowset - 1)
  BY <1>3 DEF Rowset
<1>5. IsFiniteSet(held[k])
  <2>1. IsFiniteSet({t} \X (0 .. MaxRowset - 1))
    <3>1. IsFiniteSet({t})
      BY FS_Singleton
    <3>2. MaxRowset - 1 \in Int
      BY BoundAssumption
    <3>3. IsFiniteSet(0 .. MaxRowset - 1)
      BY <3>2, FS_Interval
    <3> QED
      BY <3>1, <3>3, FS_Product
  <2> QED
    BY <1>4, <2>1, FS_Subset
<1>6. Unique(contents, held[k])
  <2>1. Unique(contents, Reach(k, k))
    BY <1>1, <1>2 DEF RInv, DistinctOK
  <2>2. held[k] \subseteq Reach(k, k)
    BY <1>1, <1>2, <1>3 DEF Reach
  <2> QED
    BY <2>1, <2>2 DEF Unique
<1> QED
  BY <1>1, <1>2, <1>3, <1>4, <1>5, <1>6

\* Merged lists the rows of the inputs that the snapshot shows, each once.
LEMMA MergedRows ==
  ASSUME RInv, NEW k \in Compactor, NEW t \in ctable, pc[k] = "selected"
  PROVE  LET merged == Merged(SnapshotOf(k), held[k])
         IN  /\ merged \in Seq(Row)
             /\ Range(merged) = {RowAt(h) : h \in UNION {RowsIn(SnapshotOf(k), r) : r \in held[k]}}
             /\ \A i, j \in DOMAIN merged : merged[i] = merged[j] => i = j
<1> DEFINE S == UNION {RowsIn(SnapshotOf(k), r) : r \in held[k]}
           merged == Merged(SnapshotOf(k), held[k])
           n == Cardinality(S)
<1>1. contents \in [Rowset -> Seq(Row)]
  BY DEF RInv, EngineTypeOK
<1>2. /\ held[k] \subseteq {t} \X (0 .. MaxRowset - 1) /\ held[k] \subseteq Rowset
      /\ IsFiniteSet(held[k]) /\ Unique(contents, held[k])
  BY MergeInputs
<1>3. \A h \in S : /\ h = <<h[1], h[2]>> /\ h[1] \in held[k] /\ h[2] \in DOMAIN contents[h[1]]
                   /\ h[2] \in Nat /\ RowAt(h) = contents[h[1]][h[2]] /\ RowAt(h) \in Row
  BY <1>1, <1>2, VisibleIsStored
<1>4. IsFiniteSet(S)
  <2>1. S \in SUBSET HandlersIn(held[k])
    BY DEF RowsIn, HandlersIn
  <2>2. IsFiniteSet(HandlersIn(held[k]))
    BY <1>1, <1>2, FiniteRows
  <2> QED
    BY <2>1, <2>2, FS_Subset
<1>5. S \subseteq ({t} \X Nat) \X Nat
  BY <1>2, <1>3, BoundAssumption
<1>6. \A g, h \in S : RowAt(g) = RowAt(h) => g = h
  BY <1>2, <1>3 DEF Unique
<1> HIDE DEF S
<1>7. PICK f \in Bijection(1 .. n, S) : n \in Nat /\ InOrder(S) = [i \in 1 .. n |-> RowAt(f[i])]
  BY <1>4, <1>5, InOrderRows
<1>8. merged = [i \in 1 .. n |-> RowAt(f[i])]
  BY <1>7 DEF Merged, S
<1>9. /\ f \in [1 .. n -> S] /\ \A h \in S : \E i \in 1 .. n : f[i] = h
      /\ \A i, j \in 1 .. n : f[i] = f[j] => i = j
  BY <1>7 DEF Bijection, Injection, Surjection, IsInjective
<1>10. merged \in Seq(Row)
  <2>1. \A i \in 1 .. n : RowAt(f[i]) \in Row
    BY <1>3, <1>9
  <2> QED
    BY <1>7, <1>8, <2>1
<1>11. Range(merged) = {RowAt(h) : h \in S}
  BY <1>8, <1>9 DEF Range
<1>12. \A i, j \in DOMAIN merged : merged[i] = merged[j] => i = j
  BY <1>6, <1>8, <1>9
<1> QED
  BY <1>10, <1>11, <1>12 DEF S

\* What the merge of compact_table does: a new RowSet holds the merged rows, if there
\* are any.
LEMMA MergeEffect ==
  ASSUME RInv, NEW k \in Client, WriteMerged(k)
  PROVE  LET merged == Merged(SnapshotOf(k), held[k])
         IN  /\ k \in Compactor /\ pc[k] = "selected" /\ ctable # {}
             /\ pc' = [pc EXCEPT ![k] = "merged"]
             /\ UNCHANGED <<epoch, status, pending, pin, held, built_dv, next_dv>>
             /\ \/ merged = <<>> /\ contents' = contents /\ built' = built
                \/ \E r \in Rowset :
                      /\ r[1] \in ctable /\ Fresh(k, r) /\ r \notin built[k]
                      /\ built' = [built EXCEPT ![k] = @ \cup {r}]
                      /\ contents' = [contents EXCEPT ![r] = merged]
<1> DEFINE merged == Merged(SnapshotOf(k), held[k])
<1>1. k \in Compactor /\ pc[k] = "selected" /\ pc' = [pc EXCEPT ![k] = "merged"]
  BY DEF WriteMerged, Goto
<1>2. PICK t \in ctable :
         \/ BuildRowset(k, t) /\ contents' = [contents EXCEPT ![<<t, next_id>>] = merged]
         \/ merged = <<>> /\ UNCHANGED <<vmvars, contents>>
  BY DEF WriteMerged
<1>3. CASE BuildRowset(k, t) /\ contents' = [contents EXCEPT ![<<t, next_id>>] = merged]
  <2> DEFINE r == <<t, next_id>>
  <2>1. t \in Table /\ next_id \in Nat /\ \A q \in built[k] : q[2] < next_id
    <3>1. VMTypeOK /\ IdsUsed /\ ProcTypeOK
      BY DEF RInv, SInv, IInv
    <3>2. t \in Table
      BY <3>1 DEF ProcTypeOK
    <3>3. next_id \in Nat
      BY <3>1 DEF VMTypeOK
    <3>4. \A q \in built[k] : q[2] < next_id
      BY <3>1 DEF IdsUsed
    <3> QED
      BY <3>2, <3>3, <3>4
  <2>2. r \in Rowset /\ r[1] \in ctable /\ r \notin built[k]
    BY <1>3, <2>1, BoundAssumption DEF BuildRowset, Rowset
  <2>3. Fresh(k, r)
    BY FreshRowset DEF RInv
  <2>4. /\ built' = [built EXCEPT ![k] = @ \cup {r}]
        /\ UNCHANGED <<epoch, status, pending, pin, held, built_dv, next_dv>>
    BY <1>3 DEF BuildRowset, inner
  <2> QED
    BY <1>1, <1>3, <2>2, <2>3, <2>4
<1>4. CASE merged = <<>> /\ UNCHANGED <<vmvars, contents>>
  <2>1. UNCHANGED <<epoch, status, pending, pin, held, built, built_dv, next_dv>>
    BY <1>4 DEF vmvars, clients, inner
  <2> QED
    BY <1>1, <1>4, <2>1
<1> QED
  BY <1>2, <1>3, <1>4

\* Which steps write which part of the processes' state.
LEMMA ProcFrame ==
  ASSUME NEW c \in Client, Step(c)
  PROVE  /\ contents' = contents \/ Append_inner(c) \/ WriteMerged(c)
         /\ dv_rows' = dv_rows \/ WriteDv(c)
         /\ handlers' = handlers \/ ScanDone(c)
         /\ \/ table_lock' = table_lock
            \/ LockForDeletion(c) \/ Unlock(c) \/ TryLock(c) \/ CompactRelease(c)
         /\ durable' = durable \/ DropCommitted(c)
<1> USE DEF Statement, StartTxn, Append_inner, InsertCommit, TxnCommitted, InsertEnd, Scan_inner,
            ScanDone, ScanEnd, LockForDeletion, Delete, WriteDv, DeleteCommit, DeleteAbort, Unlock,
            DeleteEnd, ApplyDrop, DropPin, DropCommit, DropCommitted, DropEnd, EndTxn
<1>1. CASE Statement(c)
  BY <1>1
<1>2. CASE Compact(c)
  BY <1>2 DEF Compact, CompactStart, CompactPin, TryLock, Select, WriteMerged, CompactError,
              CompactCommit, CompactCommitted, CompactRelease, CompactEnd
<1> QED
  BY <1>1, <1>2 DEF Step

\* A RowSet of a snapshot or of a commit never changes, nor one that another client
\* has built.
LEMMA ContentsFrame ==
  ASSUME RInv, NEW c \in Client, Step(c), NEW r \in Rowset, ~ Fresh(c, r)
  PROVE  contents'[r] = contents[r]
<1>1. contents \in [Rowset -> Seq(Row)]
  BY DEF RInv, EngineTypeOK
<1>2. CASE Append_inner(c)
  <2> DEFINE x == Inserted[c][RowsOf(built[c]) + 1]
  <2>1. PICK q \in Rowset :
           /\ Fresh(c, q)
           /\ contents' = [contents EXCEPT ![q] = IF q \in built[c] THEN Append(@, x) ELSE <<x>>]
    BY <1>2, AppendEffect
  <2> QED
    BY <1>1, <2>1
<1>3. CASE WriteMerged(c)
  <2>1. contents' = contents \/ \E q \in Rowset : \E x : Fresh(c, q) /\ contents' = [contents EXCEPT ![q] = x]
    BY <1>3, MergeEffect
  <2> QED
    BY <1>1, <2>1
<1> QED
  BY <1>2, <1>3, ProcFrame
=============================================================================
