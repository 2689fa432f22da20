--------------------- MODULE SecondaryStorageFactProofs ----------------------
(***************************************************************************)
(* Proofs about SecondaryStorage, fifth part: what the changesets of       *)
(* INSERT, DELETE, DROP TABLE and of a compaction make of the rows of the  *)
(* snapshot they are applied to; and the invariant TInv of a database      *)
(* without lost writes, with those of its clauses that are about the two   *)
(* halves of a commit, row handlers and DVs.                               *)
(***************************************************************************)
EXTENDS SecondaryStorageRowTheorems

\* A leaf is tried with Zenon and then with the SMT solver.
USE ZenonT(5), SMTT(20)

\* The rows that DVs hide of RowSet r in snapshot s, when g gives the rows of a DV.
Hidden(g, s, r) == UNION {g[v] : v \in DvsOf(s, r)}

\* FactsOf for given contents of RowSets and DVs.
Facts(f, g, s) ==
    UNION {{<<r[1], f[r][i]>> : i \in DOMAIN f[r] \ Hidden(g, s, r)} : r \in s.rowsets}

\* A row is shown by a snapshot when one of its RowSets holds it and none of its DVs
\* hides it.
LEMMA FactsIn ==
  ASSUME NEW f, NEW g, NEW s, NEW x
  PROVE  x \in Facts(f, g, s) <=>
           \E r, i : /\ r \in s.rowsets /\ i \in DOMAIN f[r] /\ i \notin Hidden(g, s, r)
                    /\ x = <<r[1], f[r][i]>>
BY SMT DEF Facts

\* What RowSet r hides depends on its own DVs only.
LEMMA HiddenIn ==
  ASSUME NEW g, NEW s, NEW r, NEW i
  PROVE  i \in Hidden(g, s, r) <=> \E v \in s.dvs : v[1] = r /\ i \in g[v]
BY DEF Hidden, DvsOf

\* FactsOf in a state ...
LEMMA FactsForm ==
  ASSUME NEW s
  PROVE  FactsOf(s) = Facts(contents, dv_rows, s)
<1>1. ASSUME NEW x PROVE x \in FactsOf(s) <=> x \in Facts(contents, dv_rows, s)
  <2>1. x \in FactsOf(s) <=> \E r \in s.rowsets : \E h \in RowsIn(s, r) : x = <<h[1][1], contents[h[1]][h[2]]>>
    BY DEF FactsOf, RowAt
  <2>2. ASSUME NEW r, NEW h
        PROVE  h \in RowsIn(s, r) <=> \E i \in DOMAIN contents[r] : i \notin Hidden(dv_rows, s, r) /\ h = <<r, i>>
    BY SMT DEF RowsIn, Hidden
  <2>3. x \in FactsOf(s) <=>
           \E r, i : /\ r \in s.rowsets /\ i \in DOMAIN contents[r] /\ i \notin Hidden(dv_rows, s, r)
                    /\ x = <<r[1], contents[r][i]>>
    <3>1. ASSUME NEW r \in s.rowsets, NEW h \in RowsIn(s, r), x = <<h[1][1], contents[h[1]][h[2]]>>
          PROVE  \E i : i \in DOMAIN contents[r] /\ i \notin Hidden(dv_rows, s, r) /\ x = <<r[1], contents[r][i]>>
      <4>1. PICK i \in DOMAIN contents[r] : i \notin Hidden(dv_rows, s, r) /\ h = <<r, i>>
        BY <2>2
      <4>2. h[1] = r /\ h[2] = i
        BY <4>1
      <4> QED
        BY <3>1, <4>1, <4>2
    <3>2. ASSUME NEW r \in s.rowsets, NEW i \in DOMAIN contents[r], i \notin Hidden(dv_rows, s, r),
                 x = <<r[1], contents[r][i]>>
          PROVE  \E h \in RowsIn(s, r) : x = <<h[1][1], contents[h[1]][h[2]]>>
      <4>1. <<r, i>> \in RowsIn(s, r) /\ <<r, i>>[1] = r /\ <<r, i>>[2] = i
        BY <2>2, <3>2
      <4> QED
        BY <3>2, <4>1
    <3> QED
      BY <2>1, <3>1, <3>2
  <2> QED
    BY <2>3, FactsIn, SMT
<1> QED
  BY <1>1

\* ... and in the next one.
LEMMA FactsNext ==
  ASSUME NEW c, NEW e
  PROVE  /\ FactsOf(status[e])' = Facts(contents', dv_rows', status'[e])
         /\ FactsOf(status[epoch])' = Facts(contents', dv_rows', status'[epoch'])
         /\ FactsOf(SnapshotOf(c))' = Facts(contents', dv_rows', status'[pin'[c]])
         /\ FactsOf(pending[c])' = Facts(contents', dv_rows', pending'[c])
<1> DEFINE Rows(s, r) == ({r} \X DOMAIN contents'[r]) \ ({r} \X UNION {dv_rows'[d] : d \in DvsOf(s, r)})
           All(s) == {<<h[1][1], contents'[h[1]][h[2]]>> : h \in UNION {Rows(s, r) : r \in s.rowsets}}
<1>1. ASSUME NEW s PROVE All(s) = Facts(contents', dv_rows', s)
  <2>1. ASSUME NEW x PROVE x \in All(s) <=> x \in Facts(contents', dv_rows', s)
    <3>1. x \in All(s) <=> \E r \in s.rowsets : \E h \in Rows(s, r) : x = <<h[1][1], contents'[h[1]][h[2]]>>
      OBVIOUS
    <3>2. ASSUME NEW r, NEW h
          PROVE  h \in Rows(s, r) <=>
                   \E i \in DOMAIN contents'[r] : i \notin Hidden(dv_rows', s, r) /\ h = <<r, i>>
      BY SMT DEF Hidden
    <3> HIDE DEF Rows, All
    <3>3. x \in All(s) <=>
             \E r, i : /\ r \in s.rowsets /\ i \in DOMAIN contents'[r] /\ i \notin Hidden(dv_rows', s, r)
                      /\ x = <<r[1], contents'[r][i]>>
      <4>1. ASSUME NEW r \in s.rowsets, NEW h \in Rows(s, r), x = <<h[1][1], contents'[h[1]][h[2]]>>
            PROVE  \E i : i \in DOMAIN contents'[r] /\ i \notin Hidden(dv_rows', s, r) /\ x = <<r[1], contents'[r][i]>>
        <5>1. PICK i \in DOMAIN contents'[r] : i \notin Hidden(dv_rows', s, r) /\ h = <<r, i>>
          BY <3>2
        <5>2. h[1] = r /\ h[2] = i
          BY <5>1
        <5> QED
          BY <4>1, <5>1, <5>2
      <4>2. ASSUME NEW r \in s.rowsets, NEW i \in DOMAIN contents'[r], i \notin Hidden(dv_rows', s, r),
                   x = <<r[1], contents'[r][i]>>
            PROVE  \E h \in Rows(s, r) : x = <<h[1][1], contents'[h[1]][h[2]]>>
        <5>1. <<r, i>> \in Rows(s, r) /\ <<r, i>>[1] = r /\ <<r, i>>[2] = i
          BY <3>2, <4>2
        <5> QED
          BY <4>2, <5>1
      <4> QED
        BY <3>1, <4>1, <4>2
    <3> QED
      BY <3>3, FactsIn, SMT
  <2> QED
    BY <2>1
<1>2. /\ FactsOf(status[e])' = All(status'[e])
      /\ FactsOf(status[epoch])' = All(status'[epoch'])
      /\ FactsOf(SnapshotOf(c))' = All(status'[pin'[c]])
      /\ FactsOf(pending[c])' = All(pending'[c])
  BY DEF FactsOf, RowsIn, RowAt, SnapshotOf, DvsOf
<1> HIDE DEF Rows, All
<1> QED
  BY <1>1, <1>2
-----------------------------------------------------------------------------
\* Nothing a snapshot shows is written any more.
LEMMA FactsSame ==
  ASSUME NEW f, NEW g, NEW ff, NEW gg, NEW s,
         \A r \in s.rowsets : ff[r] = f[r], \A v \in s.dvs : gg[v] = g[v]
  PROVE  Facts(ff, gg, s) = Facts(f, g, s)
<1>1. ASSUME NEW r, NEW i PROVE i \in Hidden(gg, s, r) <=> i \in Hidden(g, s, r)
  BY HiddenIn, SMT
<1>2. ASSUME NEW x PROVE x \in Facts(ff, gg, s) <=> x \in Facts(f, g, s)
  BY <1>1, FactsIn, SMT
<1> QED
  BY <1>2

\* Only its RowSets and DVs count in a snapshot.
LEMMA FactsEqual ==
  ASSUME NEW f, NEW g, NEW s, NEW t, t.rowsets = s.rowsets, t.dvs = s.dvs
  PROVE  Facts(f, g, t) = Facts(f, g, s)
<1>1. ASSUME NEW r, NEW i PROVE i \in Hidden(g, t, r) <=> i \in Hidden(g, s, r)
  BY HiddenIn, SMT
<1>2. ASSUME NEW x PROVE x \in Facts(f, g, t) <=> x \in Facts(f, g, s)
  BY <1>1, FactsIn, SMT
<1> QED
  BY <1>2

\* The rows of a snapshot are rows of tables.
LEMMA FactsType ==
  ASSUME NEW f \in [Rowset -> Seq(Row)], NEW g, NEW s, s.rowsets \subseteq Rowset
  PROVE  Facts(f, g, s) \subseteq Table \X Row
<1>1. ASSUME NEW r \in s.rowsets, NEW i \in DOMAIN f[r] PROVE r[1] \in Table /\ f[r][i] \in Row
  <2>1. r \in Rowset /\ f[r] \in Seq(Row)
    OBVIOUS
  <2>2. f[r][i] \in Row
    BY <2>1, SMT
  <2> QED
    BY <2>1, <2>2 DEF Rowset
<1>2. ASSUME NEW x \in Facts(f, g, s) PROVE x \in Table \X Row
  BY <1>1, FactsIn, SMT
<1> QED
  BY <1>2
-----------------------------------------------------------------------------
\* INSERT: snapshot n is s with the new RowSets B of table t, which have no DVs.
Adds(f, g, s, n, B, t) ==
    /\ n.rowsets = s.rowsets \cup B /\ n.dvs = s.dvs
    /\ \A v \in s.dvs : v[1] \notin B
    /\ \A r \in B : r[1] = t

\* It shows the rows of B too.
LEMMA FactsAdd ==
  ASSUME NEW f, NEW g, NEW s, NEW n, NEW B, NEW t, Adds(f, g, s, n, B, t)
  PROVE  Facts(f, g, n) = Facts(f, g, s) \cup ({t} \X Stored(f, B))
<1> USE DEF Adds
<1>1. ASSUME NEW r, NEW i
      PROVE  /\ i \in Hidden(g, n, r) <=> i \in Hidden(g, s, r)
             /\ r \in B => i \notin Hidden(g, s, r)
  BY HiddenIn, SMT
<1>2. ASSUME NEW y PROVE y \in Stored(f, B) <=> \E r \in B : \E i \in DOMAIN f[r] : y = f[r][i]
  BY SMT DEF Stored, Range
<1>3. ASSUME NEW x \in Facts(f, g, n) PROVE x \in Facts(f, g, s) \cup ({t} \X Stored(f, B))
  <2>1. PICK r, i : r \in n.rowsets /\ i \in DOMAIN f[r] /\ i \notin Hidden(g, n, r) /\ x = <<r[1], f[r][i]>>
    BY FactsIn, SMT
  <2>2. CASE r \in s.rowsets
    BY <1>1, <2>1, <2>2, FactsIn
  <2>3. CASE r \in B
    <3>1. f[r][i] \in Stored(f, B) /\ x = <<t, f[r][i]>>
      BY <1>2, <2>1, <2>3
    <3> QED
      BY <3>1
  <2> QED
    BY <2>1, <2>2, <2>3
<1>4. ASSUME NEW x \in Facts(f, g, s) PROVE x \in Facts(f, g, n)
  BY <1>1, FactsIn, SMT
<1>5. ASSUME NEW x \in {t} \X Stored(f, B) PROVE x \in Facts(f, g, n)
  <2>1. PICK y \in Stored(f, B) : x = <<t, y>>
    BY SMT
  <2>2. PICK r \in B : \E i \in DOMAIN f[r] : y = f[r][i]
    BY <1>2, SMT
  <2> QED
    BY <1>1, <2>1, <2>2, FactsIn, SMT
<1> QED
  BY <1>3, <1>4, <1>5

\* DELETE: snapshot n is s with the new DVs D, which hide the rows that the handlers H
\* point to; no row is twice in the RowSets P.
Hides(f, g, s, n, D, H, P, t) ==
    /\ n.rowsets = s.rowsets /\ n.dvs = s.dvs \cup D /\ s.rowsets \subseteq P /\ Unique(f, P)
    /\ \A h \in H : h[1] \in P /\ h[1][1] = t /\ h[2] \in DOMAIN f[h[1]]
    /\ \A v \in D : g[v] = {h[2] : h \in {k \in H : k[1] = v[1]}}
    /\ {v[1] : v \in D} = {h[1] : h \in H}

\* It does not show these rows.
LEMMA FactsHide ==
  ASSUME NEW f, NEW g, NEW s, NEW n, NEW D, NEW H, NEW P, NEW t, Hides(f, g, s, n, D, H, P, t)
  PROVE  Facts(f, g, n) = Facts(f, g, s) \ ({t} \X {f[h[1]][h[2]] : h \in H})
<1> USE DEF Hides
<1> DEFINE gone == {f[h[1]][h[2]] : h \in H}
<1>1. ASSUME NEW r, NEW i
      PROVE  i \in Hidden(g, n, r) <=> i \in Hidden(g, s, r) \/ \E h \in H : h[1] = r /\ h[2] = i
  <2>1. i \in Hidden(g, n, r) <=> i \in Hidden(g, s, r) \/ \E v \in D : v[1] = r /\ i \in g[v]
    BY HiddenIn, SMT
  <2>2. ASSUME NEW v \in D, v[1] = r, i \in g[v] PROVE \E h \in H : h[1] = r /\ h[2] = i
    BY <2>2, SMT
  <2>3. ASSUME NEW h \in H, h[1] = r, h[2] = i PROVE \E v \in D : v[1] = r /\ i \in g[v]
    <3>1. PICK v \in D : v[1] = r
      BY <2>3, SMT
    <3> QED
      BY <2>3, <3>1
  <2> QED
    BY <2>1, <2>2, <2>3
<1>2. ASSUME NEW x \in Facts(f, g, n) PROVE x \in Facts(f, g, s) /\ x \notin {t} \X gone
  <2>1. PICK r, i : r \in n.rowsets /\ i \in DOMAIN f[r] /\ i \notin Hidden(g, n, r) /\ x = <<r[1], f[r][i]>>
    BY FactsIn, SMT
  <2>2. x \in Facts(f, g, s)
    BY <1>1, <2>1, FactsIn
  <2>3. ASSUME NEW h \in H, x = <<t, f[h[1]][h[2]]>> PROVE FALSE
    <3>1. r[1] = h[1][1] /\ f[r][i] = f[h[1]][h[2]]
      BY <2>1, <2>3, SMT
    <3>2. r = h[1] /\ i = h[2]
      BY <2>1, <3>1, SMT DEF Unique
    <3> QED
      BY <1>1, <2>1, <3>2
  <2> QED
    BY <2>2, <2>3, SMT
<1>3. ASSUME NEW x \in Facts(f, g, s), x \notin {t} \X gone PROVE x \in Facts(f, g, n)
  <2>1. PICK r, i : r \in s.rowsets /\ i \in DOMAIN f[r] /\ i \notin Hidden(g, s, r) /\ x = <<r[1], f[r][i]>>
    BY FactsIn, SMT
  <2>2. ASSUME NEW h \in H, h[1] = r, h[2] = i PROVE FALSE
    <3>1. x = <<t, f[h[1]][h[2]]>>
      BY <2>1, <2>2
    <3> QED
      BY <1>3, <3>1
  <2> QED
    BY <1>1, <2>1, <2>2, FactsIn, SMT
<1> QED
  BY <1>2, <1>3

\* DROP TABLE: snapshot n is s without the RowSets X of table t in an older snapshot p,
\* and the DVs they had there; those that are still in s have lost no DV, and no row is
\* twice in P.
Drops(f, g, s, n, p, X, P, t) ==
    /\ X = {r \in p.rowsets : r[1] = t}
    /\ n.rowsets = s.rowsets \ X /\ n.dvs = s.dvs \ UNION {DvsOf(p, r) : r \in X}
    /\ s.rowsets \subseteq P /\ p.rowsets \subseteq P /\ Unique(f, P)
    /\ \A r \in s.rowsets \cap p.rowsets : DvsOf(p, r) \subseteq DvsOf(s, r)

\* It does not show the rows of t that p shows.
LEMMA FactsDrop ==
  ASSUME NEW f, NEW g, NEW s, NEW n, NEW p, NEW X, NEW P, NEW t, Drops(f, g, s, n, p, X, P, t)
  PROVE  Facts(f, g, n) = Facts(f, g, s) \ {x \in Facts(f, g, p) : x[1] = t}
<1> USE DEF Drops
<1>1. ASSUME NEW r, NEW i, r \notin X PROVE i \in Hidden(g, n, r) <=> i \in Hidden(g, s, r)
  <2>1. ASSUME NEW v \in s.dvs, v[1] = r PROVE v \notin UNION {DvsOf(p, q) : q \in X}
    BY <1>1, <2>1, SMT DEF DvsOf
  <2> QED
    BY <2>1, HiddenIn, SMT
<1>2. ASSUME NEW x \in Facts(f, g, n), x \in Facts(f, g, p), x[1] = t PROVE FALSE
  <2>1. PICK r, i : r \in n.rowsets /\ i \in DOMAIN f[r] /\ x = <<r[1], f[r][i]>>
    BY FactsIn, SMT
  <2>2. PICK q, j : q \in p.rowsets /\ j \in DOMAIN f[q] /\ x = <<q[1], f[q][j]>>
    BY <1>2, FactsIn, SMT
  <2>3. r[1] = q[1] /\ f[r][i] = f[q][j] /\ q[1] = t
    BY <1>2, <2>1, <2>2, SMT
  <2>4. r = q
    BY <2>1, <2>2, <2>3 DEF Unique
  <2> QED
    BY <2>1, <2>2, <2>3, <2>4
<1>3. ASSUME NEW x \in Facts(f, g, n) PROVE x \in Facts(f, g, s)
  BY <1>1, FactsIn, SMT
<1>4. ASSUME NEW x \in Facts(f, g, s), ~ (x \in Facts(f, g, p) /\ x[1] = t) PROVE x \in Facts(f, g, n)
  <2>1. PICK r, i : r \in s.rowsets /\ i \in DOMAIN f[r] /\ i \notin Hidden(g, s, r) /\ x = <<r[1], f[r][i]>>
    BY FactsIn, SMT
  <2>2. CASE r \in X
    <3>1. i \notin Hidden(g, p, r)
      BY <2>1, <2>2 DEF Hidden
    <3>2. x \in Facts(f, g, p)
      BY <2>1, <2>2, <3>1, FactsIn
    <3>3. x[1] = t
      BY <2>1, <2>2, SMT
    <3> QED
      BY <1>4, <3>2, <3>3
  <2>3. CASE r \notin X
    BY <1>1, <2>1, <2>3, FactsIn
  <2> QED
    BY <2>2, <2>3
<1> QED
  BY <1>2, <1>3, <1>4

\* Compaction, without DVs: snapshot n is s with the RowSets X replaced by B, which hold
\* the same rows of the same table.
Merges(f, g, s, n, B, X, t) ==
    /\ n.rowsets = (s.rowsets \cup B) \ X /\ n.dvs = {} /\ s.dvs = {}
    /\ X \subseteq s.rowsets /\ B \cap X = {}
    /\ \A r \in B \cup X : r[1] = t
    /\ Stored(f, B) = Stored(f, X)

\* It shows the same rows.
LEMMA FactsMerge ==
  ASSUME NEW f, NEW g, NEW s, NEW n, NEW B, NEW X, NEW t, Merges(f, g, s, n, B, X, t)
  PROVE  Facts(f, g, n) = Facts(f, g, s)
<1> USE DEF Merges
<1>1. ASSUME NEW r, NEW i PROVE i \notin Hidden(g, n, r) /\ i \notin Hidden(g, s, r)
  BY HiddenIn
<1>2. ASSUME NEW S, NEW y PROVE y \in Stored(f, S) <=> \E r \in S : \E i \in DOMAIN f[r] : y = f[r][i]
  BY SMT DEF Stored, Range
<1>3. ASSUME NEW S, NEW T, NEW r \in S, NEW i \in DOMAIN f[r], Stored(f, S) = Stored(f, T)
      PROVE  \E q \in T : \E j \in DOMAIN f[q] : f[q][j] = f[r][i]
  <2>1. f[r][i] \in Stored(f, T)
    BY <1>2, <1>3
  <2> QED
    BY <1>2, <2>1, SMT
<1>4. ASSUME NEW x \in Facts(f, g, n) PROVE x \in Facts(f, g, s)
  <2>1. PICK r, i : r \in n.rowsets /\ i \in DOMAIN f[r] /\ x = <<r[1], f[r][i]>>
    BY FactsIn, SMT
  <2>2. CASE r \in s.rowsets
    BY <1>1, <2>1, <2>2, FactsIn
  <2>3. CASE r \in B
    <3>1. PICK q, j : q \in X /\ j \in DOMAIN f[q] /\ f[q][j] = f[r][i]
      BY <1>3, <2>1, <2>3, SMT
    <3>2. q \in s.rowsets /\ x = <<q[1], f[q][j]>>
      BY <2>1, <2>3, <3>1
    <3> QED
      BY <1>1, <3>1, <3>2, FactsIn
  <2> QED
    BY <2>1, <2>2, <2>3
<1>5. ASSUME NEW x \in Facts(f, g, s) PROVE x \in Facts(f, g, n)
  <2>1. PICK r, i : r \in s.rowsets /\ i \in DOMAIN f[r] /\ x = <<r[1], f[r][i]>>
    BY FactsIn, SMT
  <2>2. CASE r \notin X
    BY <1>1, <2>1, <2>2, FactsIn
  <2>3. CASE r \in X
    <3>1. PICK q, j : q \in B /\ j \in DOMAIN f[q] /\ f[q][j] = f[r][i]
      BY <1>3, <2>1, <2>3, SMT
    <3>2. q \in n.rowsets /\ x = <<q[1], f[q][j]>>
      BY <2>1, <2>3, <3>1
    <3> QED
      BY <1>1, <3>1, <3>2, FactsIn
  <2> QED
    BY <2>1, <2>2, <2>3
<1> QED
  BY <1>4, <1>5
-----------------------------------------------------------------------------
\* No workload has both the compactor and a DELETE or DROP TABLE.  Together they lose
\* writes: a compaction may replace a RowSet that a DELETE has handlers of, and it
\* writes rows anew that a DROP TABLE did not see.
Apart == \A w \in Workloads : w \cap Compactor = {} \/ w \cap (Deleter \cup Dropper) = {}

\* The clients of a set do not run.
Quiet(set) == \A c \in set : pc[c] = "done"

\* The RowSets of all snapshots so far.
Published == UNION {status[e].rowsets : e \in 1 .. epoch}

\* A commit in progress is at its await, a statement has its pin from its start to its
\* end, and a DELETE that has its handlers has them from a scan that is over.
PointsOK ==
    \A c \in Client :
        /\ manifest_lock = c => pc[c] = "committing"
        /\ c \notin Compactor /\ pc[c] \notin {"start", "dropping", "done", "failed"} => Pinned(c)
        /\ c \in Deleter /\ pc[c] \in {"written", "committing"} => pc[ScanOf[c]] \in {"scanned", "done"}

\* Handlers point to rows of RowSets that have been committed.
HandlersOK ==
    \A d \in Deleter : \A h \in handlers[d] :
        h[1] \in Published /\ h[1][1] = TableOf[d] /\ h[2] \in DOMAIN contents[h[1]]

\* DVs are of RowSets that have been committed.  Only a DELETE that is about to commit,
\* or has failed to, has DVs that are not committed, and these hide what it deletes.
DvsOK ==
    /\ \A e \in 1 .. epoch : \A v \in status[e].dvs : v[1] \in Published
    /\ \A c \in Client : \A v \in built_dv[c] \cup pending[c].dvs : v[1] \in Published
    /\ \A c \in Client : built_dv[c] # {} => c \in Deleter /\ pc[c] \in {"written", "finished", "unlocked"}
    /\ \A d \in Deleter : pc[d] = "written" => \A v \in built_dv[d] : dv_rows[v] = Deletes(d, v[1])

\* A RowSet keeps its DVs as long as it is live.
GrowOK ==
    /\ \A e \in 1 .. epoch : \A r \in status[e].rowsets \cap status[epoch].rowsets :
          DvsOf(status[e], r) \subseteq DvsOf(status[epoch], r)
    /\ \A c \in Client : \A r \in status[epoch].rowsets \cap pending[c].rowsets :
          DvsOf(status[epoch], r) \subseteq DvsOf(pending[c], r)

\* Without the compactor a row is in one RowSet only, for ever.
Alone ==
    /\ Quiet(Compactor)
    /\ \A c \in Client : Unique(contents, Published \cup pending[c].rowsets)

\* Without DELETE and DROP TABLE there are no DVs, and what a round of the compactor
\* found in its snapshot stays until the round replaces it.
Undisturbed ==
    /\ Quiet(Deleter \cup Dropper)
    /\ \A e \in 1 .. epoch : status[e].dvs = {}
    /\ \A c \in Client : pending[c].dvs = {}
    /\ \A k \in Compactor : Pinned(k) =>
          \A r \in SnapshotOf(k).rowsets : r[1] \in Open(k) => r \in status[epoch].rowsets
    /\ \A c \in Client \ Compactor : manifest_lock = c => status[epoch].rowsets \subseteq pending[c].rowsets
    /\ \A k \in Compactor : manifest_lock = k =>
          \A r \in status[epoch].rowsets : r[1] \in Open(k) => r \in pending[k].rowsets

\* A commit is about to publish the current rows with exactly its writes applied.
CommitExact ==
    \A c \in Client : manifest_lock = c =>
        FactsOf(pending[c]) = (FactsOf(status[epoch]) \cup Buffered(c).ins) \ Buffered(c).del

\* The inductive invariant of the refinement of TableSpec.
TInv ==
    /\ RInv /\ PointsOK /\ HandlersOK /\ DvsOK /\ GrowOK
    /\ Alone \/ Undisturbed
    /\ CommitExact
-----------------------------------------------------------------------------
\* What a client does is decided by its role.
LEMMA RoleSteps ==
  ASSUME NEW c \in Client, Step(c)
  PROVE  /\ c \in Inserter => StartTxn(c) \/ Append_inner(c) \/ InsertCommit(c) \/ TxnCommitted(c) \/ InsertEnd(c)
         /\ c \in Reader \cup Scan => StartTxn(c) \/ Scan_inner(c) \/ ScanDone(c) \/ ScanEnd(c)
         /\ c \in Deleter =>
               \/ StartTxn(c) \/ LockForDeletion(c) \/ Delete(c) \/ WriteDv(c) \/ DeleteCommit(c)
               \/ DeleteAbort(c) \/ TxnCommitted(c) \/ Unlock(c) \/ DeleteEnd(c)
         /\ c \in Dropper => ApplyDrop(c) \/ DropPin(c) \/ DropCommit(c) \/ DropCommitted(c) \/ DropEnd(c)
         /\ c \in Compactor => Compact(c)
         /\ c \in Txn \cup Dropper \cup Compactor
<1>1. CASE Statement(c)
  <2>1. c \notin Compactor /\ c \in Txn \cup Dropper
    BY <1>1, RoleAssumption
       DEF Statement, StartTxn, Append_inner, InsertCommit, TxnCommitted, InsertEnd, Scan_inner,
           ScanDone, ScanEnd, LockForDeletion, Delete, WriteDv, DeleteCommit, DeleteAbort, Unlock,
           DeleteEnd, ApplyDrop, DropPin, DropCommit, DropCommitted, DropEnd, Txn
  <2>2. /\ c \in Dropper => c \notin Txn
        /\ c \in Inserter => c \notin Deleter \cup Reader \cup Scan
        /\ c \in Reader \cup Scan => c \notin Inserter \cup Deleter
        /\ c \in Deleter => c \notin Inserter \cup Reader \cup Scan
    BY RoleAssumption
  <2> QED
    BY <1>1, <2>1, <2>2
       DEF Statement, StartTxn, Append_inner, InsertCommit, TxnCommitted, InsertEnd, Scan_inner,
           ScanDone, ScanEnd, LockForDeletion, Delete, WriteDv, DeleteCommit, DeleteAbort, Unlock,
           DeleteEnd, ApplyDrop, DropPin, DropCommit, DropCommitted, DropEnd, Txn
<1>2. CASE Compact(c)
  <2>1. c \in Compactor
    BY <1>2 DEF Compact, CompactStart, CompactPin, TryLock, Select, WriteMerged, CompactError,
                CompactCommit, CompactCommitted, CompactRelease, CompactEnd
  <2> QED
    BY <1>2, <2>1, RoleAssumption DEF Txn
<1> QED
  BY <1>1, <1>2 DEF Step

\* A client that is done takes no more steps.
LEMMA DoneStops ==
  ASSUME NEW c \in Client, Step(c)
  PROVE  pc[c] # "done"
<1>1. CASE Statement(c)
  BY <1>1
     DEF Statement, StartTxn, Append_inner, InsertCommit, TxnCommitted, InsertEnd, Scan_inner,
         ScanDone, ScanEnd, LockForDeletion, Delete, WriteDv, DeleteCommit, DeleteAbort, Unlock,
         DeleteEnd, ApplyDrop, DropPin, DropCommit, DropCommitted, DropEnd
<1>2. CASE Compact(c)
  BY <1>2 DEF Compact, CompactStart, CompactPin, TryLock, Select, WriteMerged, CompactError,
              CompactCommit, CompactCommitted, CompactRelease, CompactEnd
<1> QED
  BY <1>1, <1>2 DEF Step

\* The first half of a commit: DVs are deleted with their RowSets only.
Prepares(c) ==
    /\ InsertCommit(c) \/ DeleteCommit(c) \/ DropCommit(c) \/ CompactCommit(c)
    /\ \E t, deleted, old_dvs, last : /\ CommitApply(c, t, deleted, old_dvs, last)
                                      /\ \A v \in old_dvs : v[1] \in deleted

\* The second half, which succeeds or fails.
Returns(c) == TxnCommitted(c) \/ DropCommitted(c) \/ CompactCommitted(c)

\* The manifest lock, and what it protects, between the two halves.
LEMMA LockFrame ==
  ASSUME SInv, NEW c \in Client, Step(c)
  PROVE  \/ /\ UNCHANGED <<epoch, status, pending, manifest_lock>>
            /\ pc[c] # "committing" /\ pc'[c] # "committing" /\ ~ Returns(c)
         \/ Prepares(c) /\ pc[c] # "committing" /\ pc'[c] = "committing"
         \/ Returns(c) /\ pc[c] = "committing" /\ pc'[c] # "committing"
<1>0. DOMAIN pc = Client
  BY EngineTypes
<1> USE DEF vmvars, inner, clients, Goto
<1> DEFINE Same == UNCHANGED <<epoch, status, pending, manifest_lock>>
<1>r. pc[c] # "committing" => ~ Returns(c)
  BY DEF Returns, TxnCommitted, DropCommitted, CompactCommitted
<1>1. CASE \/ LockForDeletion(c) \/ Delete(c) \/ DeleteAbort(c) \/ Unlock(c) \/ ApplyDrop(c)
           \/ CompactStart(c) \/ CompactError(c)
  BY <1>0, <1>r, <1>1
     DEF LockForDeletion, Delete, DeleteAbort, Unlock, ApplyDrop, CompactStart, CompactError
<1>10. CASE TryLock(c)
  BY <1>0, <1>r, <1>10 DEF TryLock
<1>2. CASE StartTxn(c) \/ DropPin(c) \/ CompactPin(c)
  <2>1. Pin(c) \/ UNCHANGED vmvars
    BY <1>2 DEF StartTxn, DropPin, CompactPin
  <2>2. Same
    BY <2>1 DEF Pin
  <2> QED
    BY <1>0, <1>r, <1>2, <2>2 DEF StartTxn, DropPin, CompactPin
<1>3. CASE InsertEnd(c) \/ ScanEnd(c) \/ DeleteEnd(c) \/ DropEnd(c) \/ CompactEnd(c)
  <2>1. Unpin(c)
    BY <1>3 DEF InsertEnd, ScanEnd, DeleteEnd, DropEnd, EndTxn, CompactEnd
  <2>2. Same
    BY <2>1 DEF Unpin
  <2> QED
    BY <1>0, <1>r, <1>3, <2>2 DEF InsertEnd, ScanEnd, DeleteEnd, DropEnd, EndTxn, CompactEnd
<1>4. CASE Scan_inner(c) \/ Select(c)
  <2>1. (\E w : GetRowsets(c, w)) \/ UNCHANGED vmvars
    BY <1>4 DEF Scan_inner, Select
  <2>2. Same
    BY <2>1 DEF GetRowsets
  <2>3. pc[c] \in {"pinned", "locked"} /\ \E l \in {"scanning", "selected", "compacted"} : Goto(c, l)
    BY <1>4 DEF Scan_inner, Select
  <2> QED
    BY <1>0, <1>r, <2>2, <2>3
<1>5. CASE ScanDone(c) \/ CompactRelease(c)
  <2>1. DropRowsets(c) \/ UNCHANGED vmvars
    BY <1>5 DEF ScanDone, CompactRelease
  <2>2. Same
    BY <2>1 DEF DropRowsets
  <2> QED
    BY <1>0, <1>r, <1>5, <2>2 DEF ScanDone, CompactRelease
<1>6. CASE InsertCommit(c) \/ DeleteCommit(c)
  <2>1. Prepares(c)
    BY <1>6, SMT DEF InsertCommit, DeleteCommit, Prepares
  <2> QED
    BY <1>0, <1>6, <2>1 DEF InsertCommit, DeleteCommit
<1>7. CASE DropCommit(c)
  <2> DEFINE t == TableOf[c]
             deleted == RowsetsOf(SnapshotOf(c), t)
             old_dvs == UNION {DvsOf(SnapshotOf(c), r) : r \in deleted}
  <2>1. PICK last : \/ CommitApply(c, t, deleted, old_dvs, last) /\ Goto(c, "committing")
                    \/ CommitPanic(c, t, deleted, last) /\ Goto(c, "finished")
    BY <1>7 DEF DropCommit
  <2>2. pc[c] = "pinned" /\ \A v \in old_dvs : v[1] \in deleted
    BY <1>7 DEF DropCommit, DvsOf
  <2>3. CASE CommitApply(c, t, deleted, old_dvs, last) /\ Goto(c, "committing")
    <3>1. Prepares(c)
      BY <1>7, <2>2, <2>3, SMT DEF Prepares
    <3> QED
      BY <1>0, <2>2, <2>3, <3>1
  <2>4. CASE CommitPanic(c, t, deleted, last) /\ Goto(c, "finished")
    BY <1>0, <1>r, <2>2, <2>4 DEF CommitPanic
  <2> QED
    BY <2>1, <2>3, <2>4
<1>8. CASE CompactCommit(c)
  <2>1. PICK t, deleted, last : \/ CommitApply(c, t, deleted, {}, last) /\ Goto(c, "committing")
                                \/ CommitPanic(c, t, deleted, last) /\ Goto(c, "dying")
    BY <1>8 DEF CompactCommit
  <2>2. pc[c] = "merged"
    BY <1>8 DEF CompactCommit
  <2>3. CASE CommitApply(c, t, deleted, {}, last) /\ Goto(c, "committing")
    <3>1. Prepares(c)
      BY <1>8, <2>3, SMT DEF Prepares
    <3> QED
      BY <1>0, <2>2, <2>3, <3>1
  <2>4. CASE CommitPanic(c, t, deleted, last) /\ Goto(c, "dying")
    BY <1>0, <1>r, <2>2, <2>4 DEF CommitPanic
  <2> QED
    BY <2>1, <2>3, <2>4
<1>9. CASE Returns(c)
  BY <1>0, <1>9 DEF Returns, TxnCommitted, DropCommitted, CompactCommitted
<1>11. CASE Append_inner(c) \/ WriteMerged(c)
  <2>1. (\E t : BuildRowset(c, t)) \/ UNCHANGED vmvars
    BY <1>11 DEF Append_inner, WriteMerged
  <2>2. Same
    BY <2>1 DEF BuildRowset
  <2> QED
    BY <1>0, <1>r, <1>11, <2>2 DEF Append_inner, WriteMerged
<1>12. CASE WriteDv(c)
  <2>1. \E r : BuildDv(c, r)
    BY <1>12 DEF WriteDv
  <2>2. Same
    BY <2>1 DEF BuildDv
  <2> QED
    BY <1>0, <1>r, <1>12, <2>2 DEF WriteDv
<1> QED
  BY <1>1, <1>2, <1>3, <1>4, <1>5, <1>6, <1>7, <1>8, <1>9, <1>10, <1>11, <1>12
     DEF Step, Statement, Compact, Returns
-----------------------------------------------------------------------------
\* What the second half of a commit does.
LEMMA ReturnEffect ==
  ASSUME SInv, NEW c \in Client, Returns(c)
  PROVE  /\ manifest_lock = c /\ manifest_lock' = NoClient /\ Pinned(c)
         /\ \A d \in Client : pending'[d] = NoCommit /\ pending'[d].rowsets = {} /\ pending'[d].dvs = {}
         /\ UNCHANGED <<contents, dv_rows, handlers, pin, built, built_dv>>
         /\ \/ UNCHANGED <<epoch, status>> /\ CommitFail(c)
            \/ /\ CommitFinish(c) /\ epoch' = epoch + 1
               /\ 1 .. epoch' = 1 .. epoch \cup {epoch'} /\ epoch' \notin 1 .. epoch
               /\ status'[epoch'].rowsets = pending[c].rowsets
               /\ status'[epoch'].dvs = pending[c].dvs
<1>1. CommitFinish(c) \/ CommitFail(c)
  BY CommittedEffect DEF Returns
<1>2. /\ pending \in [Client -> Commit] /\ status \in [Epoch -> Snapshot] /\ epoch \in Epoch
      /\ \A d \in Client : d # c /\ manifest_lock = c => pending[d] = NoCommit
  BY EngineTypes, OneCommit
<1>3. /\ manifest_lock = c /\ manifest_lock' = NoClient /\ pending' = [pending EXCEPT ![c] = NoCommit]
      /\ UNCHANGED <<pin, built, built_dv>>
  BY <1>1 DEF CommitFinish, CommitFail, clients
<1>4. \A d \in Client : pending'[d] = NoCommit /\ pending'[d].rowsets = {} /\ pending'[d].dvs = {}
  BY <1>2, <1>3, NoCommitEmpty
<1>5. UNCHANGED <<contents, dv_rows, handlers>>
  BY DEF Returns, TxnCommitted, DropCommitted, CompactCommitted
<1>6. Pinned(c)
  BY <1>3 DEF SInv, IInv, CommitsOK
<1>7. CASE CommitFail(c)
  BY <1>3, <1>4, <1>5, <1>6, <1>7 DEF CommitFail, inner
<1>8. CASE CommitFinish(c)
  <2>1. /\ epoch' = epoch + 1 /\ epoch + 1 \in Epoch /\ epoch \in Nat
        /\ status' = [status EXCEPT ![epoch + 1] = [rowsets |-> pending[c].rowsets, dvs |-> pending[c].dvs]]
    BY <1>2, <1>8, BoundAssumption, SMT DEF CommitFinish, Epoch
  <2>2. status'[epoch'] = [rowsets |-> pending[c].rowsets, dvs |-> pending[c].dvs]
    BY <1>2, <2>1
  <2>3. 1 .. epoch' = 1 .. epoch \cup {epoch'} /\ epoch' \notin 1 .. epoch
    BY <1>2, <2>1, SMT DEF Epoch
  <2> QED
    BY <1>3, <1>4, <1>5, <1>6, <1>8, <2>1, <2>2, <2>3, SMT
<1> QED
  BY <1>1, <1>7, <1>8

\* What the first half does.
LEMMA PrepareEffect ==
  ASSUME RInv, NEW c \in Client, Prepares(c)
  PROVE  /\ manifest_lock = NoClient /\ manifest_lock' = c
         /\ UNCHANGED <<epoch, status, contents, dv_rows, handlers, pin, ctable, ctables>>
         /\ \A d \in Client : pending[d] = NoCommit /\ (d # c => pending'[d] = pending[d])
         /\ pending'[c].rowsets \subseteq status[epoch].rowsets \cup built[c]
         /\ pending'[c].dvs \subseteq status[epoch].dvs \cup built_dv[c]
         /\ \A r \in status[epoch].rowsets \cap pending'[c].rowsets :
               DvsOf(status[epoch], r) \subseteq DvsOf(pending'[c], r)
<1>1. PICK t, deleted, old_dvs, last : /\ CommitApply(c, t, deleted, old_dvs, last)
                                       /\ \A v \in old_dvs : v[1] \in deleted
  BY DEF Prepares
<1>2. /\ UNCHANGED <<epoch, status, pin>>
      /\ \A d \in Client : pending[d] = NoCommit /\ (d # c => pending'[d] = pending[d])
      /\ pending'[c] = Applied(c, deleted, old_dvs)
  BY <1>1, ApplyEffect
<1>3. /\ pending'[c].rowsets = (status[epoch].rowsets \cup built[c]) \ deleted
      /\ pending'[c].dvs = (status[epoch].dvs \cup built_dv[c]) \ old_dvs
  BY <1>2, SMT DEF Applied
<1>4. manifest_lock = NoClient /\ manifest_lock' = c
  BY <1>1 DEF CommitApply, ManifestFree
<1>5. UNCHANGED <<contents, dv_rows, handlers, ctable, ctables>>
  BY DEF Prepares, InsertCommit, DeleteCommit, DropCommit, CompactCommit, compacting
<1>6. ASSUME NEW r \in status[epoch].rowsets \cap pending'[c].rowsets,
             NEW v \in DvsOf(status[epoch], r)
      PROVE  v \in DvsOf(pending'[c], r)
  BY <1>1, <1>3 DEF DvsOf
<1> QED
  BY <1>2, <1>3, <1>4, <1>5, <1>6

\* RowSets that have been published are RowSets and keep their rows.
LEMMA PublishedStep ==
  ASSUME RInv, NEW c \in Client, Step(c)
  PROVE  /\ Published \subseteq Published'
         /\ \A r \in Published : r \in Rowset /\ contents'[r] = contents[r]
         /\ UNCHANGED <<epoch, status>> => Published' = Published
         /\ CommitFinish(c) /\ Returns(c) => Published' = Published \cup pending[c].rowsets
<1>0. /\ \A e \in 1 .. epoch : status'[e] = status[e] /\ e \in 1 .. epoch'
  <2>1. /\ epoch \in Nat /\ epoch' \in Nat /\ epoch <= epoch'
        /\ \A e \in 1 .. epoch : status'[e] = status[e]
    BY StatusKept DEF RInv
  <2> QED
    BY <2>1, SMT
<1>1. Published' = UNION {status'[e].rowsets : e \in 1 .. epoch'}
  BY DEF Published
<1>2. Published \subseteq Published'
  BY <1>0, <1>1 DEF Published
<1>3. \A r \in Published : r \in Rowset /\ contents'[r] = contents[r]
  BY CommittedKept DEF Published
<1>4. UNCHANGED <<epoch, status>> => Published' = Published
  BY DEF Published
<1>5. ASSUME CommitFinish(c), Returns(c) PROVE Published' = Published \cup pending[c].rowsets
  <2>1. /\ 1 .. epoch' = 1 .. epoch \cup {epoch'}
        /\ status'[epoch'].rowsets = pending[c].rowsets
    <3>1. epoch' # epoch
      BY <1>5, StatusKept, SMT DEF RInv, CommitFinish
    <3> QED
      BY <1>5, <3>1, ReturnEffect DEF RInv
  <2> QED
    BY <1>0, <1>1, <2>1 DEF Published
<1> QED
  BY <1>2, <1>3, <1>4, <1>5

\* A snapshot's RowSets have been published, the current one's and the pinned ones'.
LEMMA SnapshotPublished ==
  ASSUME RInv
  PROVE  /\ status[epoch].rowsets \subseteq Published
         /\ \A c \in Client : Pinned(c) => /\ pin[c] \in 1 .. epoch
                                           /\ SnapshotOf(c).rowsets \subseteq Published
         /\ \A c \in Client : built[c] \cap Published = {}
         /\ epoch \in 1 .. epoch
<1>1. epoch \in 1 .. epoch /\ \A c \in Client : Pinned(c) => pin[c] \in 1 .. epoch
  BY PinRange DEF RInv, SInv, IInv
<1>2. \A c \in Client : built[c] \cap Published = {}
  BY DEF RInv, SInv, IInv, BuiltFresh, Published
<1> QED
  BY <1>1, <1>2 DEF Published, SnapshotOf
-----------------------------------------------------------------------------
\* A statement pins a version when it starts and drops it when it ends.
LEMMA StatementPins ==
  ASSUME NEW c \in Client, Statement(c)
  PROVE  \/ StartTxn(c) \/ ApplyDrop(c) \/ DropPin(c)
         \/ (InsertEnd(c) \/ ScanEnd(c) \/ DeleteEnd(c) \/ DropEnd(c)) /\ EndTxn(c)
         \/ pin' = pin /\ pc[c] \notin {"start", "dropping", "done", "failed"}
<1> USE DEF vmvars, inner, clients
<1>1. CASE LockForDeletion(c) \/ Delete(c) \/ DeleteAbort(c) \/ Unlock(c)
  BY <1>1 DEF LockForDeletion, Delete, DeleteAbort, Unlock
<1>2. CASE Scan_inner(c)
  BY <1>2 DEF Scan_inner, GetRowsets
<1>3. CASE ScanDone(c)
  BY <1>3 DEF ScanDone, DropRowsets
<1>4. CASE Append_inner(c)
  BY <1>4 DEF Append_inner, BuildRowset
<1>5. CASE WriteDv(c)
  BY <1>5 DEF WriteDv, BuildDv
<1>6. CASE InsertCommit(c) \/ DeleteCommit(c) \/ DropCommit(c)
  <2>1. pc[c] \in {"written", "pinned"} /\ \E t, deleted, old_dvs, last :
           CommitApply(c, t, deleted, old_dvs, last) \/ CommitPanic(c, t, deleted, last)
    BY <1>6 DEF InsertCommit, DeleteCommit, DropCommit
  <2> QED
    BY <2>1 DEF CommitApply, CommitPanic
<1>7. CASE TxnCommitted(c) \/ DropCommitted(c)
  <2>1. pc[c] = "committing" /\ (CommitFinish(c) \/ CommitFail(c))
    BY <1>7 DEF TxnCommitted, DropCommitted
  <2> QED
    BY <2>1 DEF CommitFinish, CommitFail
<1>8. CASE InsertEnd(c) \/ ScanEnd(c) \/ DeleteEnd(c) \/ DropEnd(c)
  BY <1>8 DEF InsertEnd, ScanEnd, DeleteEnd, DropEnd
<1> QED
  BY <1>1, <1>2, <1>3, <1>4, <1>5, <1>6, <1>7, <1>8 DEF Statement

\* A pin is of an epoch, which is not 0.
LEMMA PinTaken ==
  ASSUME SInv, NEW c \in Client, Pin(c)
  PROVE  /\ ~ Pinned(c) /\ Pinned(c)' /\ pin'[c] = epoch
         /\ UNCHANGED <<epoch, status, pending, manifest_lock, built, built_dv>>
<1>1. pin \in [Client -> 0 .. MaxEpoch] /\ epoch \in Epoch /\ epoch # 0
  BY EngineTypes, EpochRange
<1>2. pin'[c] = epoch
  BY <1>1 DEF Pin
<1> QED
  BY <1>1, <1>2 DEF Pin, Pinned

\* Every step keeps PointsOK: commits, pins and handlers come at the points of a
\* statement where the code has them.
LEMMA PointsStep ==
  ASSUME SInv, PointsOK, NEW c \in Client, Step(c)
  PROVE  PointsOK'
<1>0. DOMAIN pc = Client /\ \A d \in Client : d # c => pc'[d] = pc[d] /\ pin'[d] = pin[d]
  BY EngineTypes, StepFrame
<1>1. ASSUME NEW d \in Client, manifest_lock' = d PROVE pc'[d] = "committing"
  <2>1. CASE Returns(c)
    BY <1>1, <2>1, ReturnEffect, ClientAssumption
  <2>2. CASE Prepares(c) /\ pc'[c] = "committing"
    BY <1>1, <2>2 DEF Prepares, CommitApply
  <2>3. CASE manifest_lock' = manifest_lock /\ pc[c] # "committing"
    BY <1>0, <1>1, <2>3 DEF PointsOK
  <2> QED
    BY <2>1, <2>2, <2>3, LockFrame
<1>2. ASSUME c \notin Compactor, pc'[c] \notin {"start", "dropping", "done", "failed"} PROVE pin'[c] # 0
  <2>1. Statement(c)
    BY <1>2, RoleSteps
       DEF Step, Compact, CompactStart, CompactPin, TryLock, Select, WriteMerged, CompactError,
           CompactCommit, CompactCommitted, CompactRelease, CompactEnd
  <2>2. CASE StartTxn(c) \/ ApplyDrop(c) \/ DropPin(c)
    <3>1. Pin(c)
      BY <1>0, <1>2, <2>2 DEF StartTxn, ApplyDrop, DropPin, Goto
    <3> QED
      BY <3>1, PinTaken DEF Pinned
  <2>3. CASE EndTxn(c)
    BY <1>0, <1>2, <2>3 DEF EndTxn, Goto
  <2>4. CASE pin' = pin /\ pc[c] \notin {"start", "dropping", "done", "failed"}
    BY <1>2, <2>4 DEF PointsOK, Pinned
  <2> QED
    BY <2>1, <2>2, <2>3, <2>4, StatementPins
<1>3. ASSUME NEW d \in Deleter, pc'[d] \in {"written", "committing"}
      PROVE  pc'[ScanOf[d]] \in {"scanned", "done"}
  <2>0. d \in Client /\ ScanOf[d] \in Client /\ ScanOf[d] \in Scan /\ ScanOf[d] # d
    BY RoleAssumption DEF Scan, Txn
  <2>1. CASE d = c
    <3>1. ~ (StartTxn(c) \/ LockForDeletion(c) \/ DeleteAbort(c) \/ TxnCommitted(c) \/ Unlock(c) \/ DeleteEnd(c))
      BY <1>0, <1>3, <2>1
         DEF StartTxn, LockForDeletion, DeleteAbort, TxnCommitted, Unlock, DeleteEnd, EndTxn, Goto
    <3>2. pc[ScanOf[d]] \in {"scanned", "done"}
      BY <2>1, <3>1, RoleSteps DEF Delete, WriteDv, DeleteCommit, PointsOK
    <3> QED
      BY <1>0, <2>0, <2>1, <3>2
  <2>2. CASE d # c
    <3>1. pc[ScanOf[d]] \in {"scanned", "done"}
      BY <1>0, <1>3, <2>0, <2>2 DEF PointsOK
    <3>2. CASE ScanOf[d] = c
      <4>1. ScanEnd(c)
        BY <2>0, <3>1, <3>2, RoleSteps DEF StartTxn, Scan_inner, ScanDone
      <4> QED
        BY <1>0, <3>2, <4>1 DEF ScanEnd, EndTxn, Goto
    <3> QED
      BY <1>0, <2>0, <3>1, <3>2
  <2> QED
    BY <2>1, <2>2
<1> QED
  BY <1>0, <1>1, <1>2, <1>3, SMT DEF PointsOK, Pinned

\* The handlers of a DELETE do not change any more once it has them all.
LEMMA HandlersKept ==
  ASSUME PointsOK, NEW c \in Client, Step(c), NEW d \in Deleter, pc[d] \in {"written", "committing"}
  PROVE  handlers'[d] = handlers[d]
<1>1. pc[ScanOf[d]] \in {"scanned", "done"}
  BY RoleAssumption DEF PointsOK, Txn
<1>2. CASE ScanDone(c)
  BY <1>1, <1>2 DEF ScanDone
<1> QED
  BY <1>2, ProcFrame

\* Every step keeps HandlersOK: a scan takes handlers from the snapshot it has pinned.
LEMMA HandlersStep ==
  ASSUME RInv, HandlersOK, NEW c \in Client, Step(c)
  PROVE  HandlersOK'
<1> SUFFICES ASSUME NEW d \in Deleter, NEW h \in handlers'[d]
             PROVE  h[1] \in Published' /\ h[1][1] = TableOf[d] /\ h[2] \in DOMAIN contents'[h[1]]
  BY DEF HandlersOK
<1>1. CASE h \in handlers[d]
  BY <1>1, PublishedStep DEF HandlersOK
<1>2. CASE h \notin handlers[d]
  <2>1. ScanDone(c)
    BY <1>2, ProcFrame
  <2>2. pc[c] = "scanning" /\ contents' = contents /\ h \in ScanRows(SnapshotOf(c), TableOf[d])
    BY <1>2, <2>1 DEF ScanDone
  <2>3. Pinned(c) /\ contents \in [Rowset -> Seq(Row)]
    BY <2>2 DEF RInv, SInv, ScannersOK, EngineTypeOK
  <2>4. PICK r : r \in SnapshotOf(c).rowsets /\ r[1] = TableOf[d] /\ h \in RowsIn(SnapshotOf(c), r)
    BY <2>2 DEF ScanRows, RowsetsOf
  <2>5. r \in Published /\ r \in Rowset
    BY <2>3, <2>4, SnapshotPublished, PublishedStep
  <2>6. h[1] = r /\ h[2] \in DOMAIN contents[r]
    BY <2>3, <2>4, <2>5, VisibleIsStored, SMT
  <2> QED
    BY <2>2, <2>4, <2>5, <2>6, PublishedStep
<1> QED
  BY <1>1, <1>2
-----------------------------------------------------------------------------
\* What the write of a DV file does.
LEMMA WriteDvEffect ==
  ASSUME RInv, NEW d \in Client, WriteDv(d)
  PROVE  /\ d \in Deleter /\ pc' = pc /\ pc[d] = "written" /\ UNCHANGED <<contents, handlers, pending, pin>>
         /\ \E r \in Rowset, v \in Dv :
               /\ v[1] = r /\ v[2] = next_dv /\ r \in {h[1] : h \in handlers[d]}
               /\ built_dv'[d] = built_dv[d] \cup {v}
               /\ dv_rows'[v] = Deletes(d, r)
<1>1. d \in Deleter /\ pc' = pc /\ pc[d] = "written" /\ UNCHANGED <<contents, handlers>>
  BY DEF WriteDv
<1>2. PICK r \in {h[1] : h \in handlers[d]} : /\ BuildDv(d, r)
                                              /\ dv_rows' = [dv_rows EXCEPT ![<<r, next_dv>>] = Deletes(d, r)]
  BY DEF WriteDv
<1>3. r \in Rowset /\ next_dv \in 0 .. MaxDv /\ next_dv < MaxDv /\ MaxDv \in Nat
  BY <1>1, <1>2, BoundAssumption DEF RInv, SInv, ProcTypeOK, IInv, VMTypeOK, BuildDv
<1> DEFINE v == <<r, next_dv>>
<1>4. next_dv \in 0 .. MaxDv - 1
  BY <1>3, SMT
<1>5. v \in Dv /\ v[1] = r /\ v[2] = next_dv
  BY <1>3, <1>4 DEF Dv
<1>6. dv_rows \in [Dv -> SUBSET Nat] /\ built_dv \in [Client -> SUBSET Dv]
  BY DEF RInv, EngineTypeOK, SInv, IInv, VMTypeOK
<1>7. built_dv' = [built_dv EXCEPT ![d] = @ \cup {v}] /\ UNCHANGED <<pending, pin>>
  BY <1>2 DEF BuildDv
<1>8. dv_rows' = [dv_rows EXCEPT ![v] = Deletes(d, r)]
  BY <1>2
<1> HIDE DEF v
<1>9. built_dv'[d] = built_dv[d] \cup {v} /\ dv_rows'[v] = Deletes(d, r)
  BY <1>5, <1>6, <1>7, <1>8
<1> QED
  BY <1>1, <1>2, <1>3, <1>5, <1>7, <1>9

\* A client's DVs come from WriteDv only.
LEMMA BuiltDvStep ==
  ASSUME RInv, NEW c \in Client, Step(c)
  PROVE  WriteDv(c) \/ built_dv'[c] = built_dv[c] \/ built_dv'[c] = {}
<1>1. built_dv \in [Client -> SUBSET Dv]
  BY DEF RInv, SInv, IInv, VMTypeOK
<1> QED
  BY <1>1, VMFrame

\* Every step keeps DvsOK: only commit_inner of a DELETE writes DVs.
LEMMA DvsStep ==
  ASSUME RInv, PointsOK, HandlersOK, DvsOK, NEW c \in Client, Step(c)
  PROVE  DvsOK'
<1>0. /\ Published \subseteq Published'
      /\ \A d \in Client : d # c => /\ pc'[d] = pc[d] /\ built_dv'[d] = built_dv[d]
                                    /\ pending'[d] = pending[d]
      /\ \A e \in 1 .. epoch : status'[e] = status[e]
      /\ DOMAIN pc = Client
  BY PublishedStep, StepFrame, StatusKept, EngineTypes DEF RInv
<1>1. ASSUME NEW v \in pending'[c].dvs PROVE v[1] \in Published'
  <2>1. CASE Returns(c)
    BY <1>1, <2>1, ReturnEffect DEF RInv
  <2>2. CASE Prepares(c)
    <3>1. v \in status[epoch].dvs \cup built_dv[c] /\ epoch \in 1 .. epoch
      BY <1>1, <2>2, PrepareEffect, SnapshotPublished
    <3> QED
      BY <1>0, <3>1 DEF DvsOK
  <2>3. CASE pending' = pending
    BY <1>0, <1>1, <2>3 DEF DvsOK
  <2> QED
    BY <2>1, <2>2, <2>3, LockFrame DEF RInv
<1>2. ASSUME NEW v \in built_dv'[c] PROVE v[1] \in Published'
  <2>1. CASE WriteDv(c)
    <3>1. v \in built_dv[c] \/ v[1] \in {h[1] : h \in handlers[c]}
      BY <1>2, <2>1, WriteDvEffect, SMT
    <3> QED
      BY <1>0, <2>1, <3>1, WriteDvEffect, SMT DEF DvsOK, HandlersOK
  <2> QED
    BY <1>0, <1>2, <2>1, BuiltDvStep DEF DvsOK
<1>3. ASSUME NEW e \in 1 .. epoch', NEW v \in status'[e].dvs PROVE v[1] \in Published'
  <2>1. CASE e \in 1 .. epoch
    BY <1>0, <1>3, <2>1 DEF DvsOK
  <2>2. CASE e \notin 1 .. epoch
    <3>1. Returns(c)
      BY <2>2, LockFrame, PrepareEffect DEF RInv
    <3>2. v \in pending[c].dvs
      BY <1>3, <2>2, <3>1, ReturnEffect DEF RInv
    <3> QED
      BY <1>0, <3>2 DEF DvsOK
  <2> QED
    BY <2>1, <2>2
<1>4. ASSUME built_dv'[c] # {} PROVE c \in Deleter /\ pc'[c] \in {"written", "finished", "unlocked"}
  <2>1. CASE WriteDv(c)
    BY <2>1, WriteDvEffect
  <2>2. CASE ~ WriteDv(c)
    <3>1. built_dv[c] # {}
      BY <1>4, <2>2, BuiltDvStep
    <3>2. c \in Deleter /\ pc[c] \in {"written", "finished", "unlocked"}
      BY <3>1 DEF DvsOK
    <3>3. built_dv \in [Client -> SUBSET Dv]
      BY DEF RInv, SInv, IInv, VMTypeOK
    <3>4. ~ DeleteCommit(c) /\ ~ DeleteEnd(c)
      BY <1>4, <3>3 DEF DeleteCommit, DeleteEnd, CommitApply, EndTxn, Unpin
    <3>5. DeleteAbort(c) \/ Unlock(c)
      BY <2>2, <3>2, <3>4, RoleSteps DEF StartTxn, LockForDeletion, Delete, TxnCommitted
    <3> QED
      BY <1>0, <3>2, <3>5 DEF DeleteAbort, Unlock, Goto
  <2> QED
    BY <2>1, <2>2
<1>5. ASSUME NEW d \in Deleter, pc'[d] = "written", NEW v \in built_dv'[d]
      PROVE  dv_rows'[v] = Deletes(d, v[1])'
  <2>0. d \in Client
    BY RoleAssumption DEF Txn
  <2>1. CASE v \in built_dv[d]
    <3>1. pc[d] = "written"
      <4>1. CASE d = c
        <5>1. pc[c] \in {"written", "finished", "unlocked"}
          BY <2>0, <2>1, <4>1 DEF DvsOK
        <5> QED
          BY <1>0, <1>5, <4>1, <5>1, RoleSteps
             DEF StartTxn, LockForDeletion, Delete, WriteDv, DeleteCommit, DeleteAbort,
                 TxnCommitted, Unlock, DeleteEnd, EndTxn, Goto
      <4> QED
        BY <1>0, <1>5, <2>0, <4>1
    <3>2. dv_rows[v] = Deletes(d, v[1])
      BY <2>1, <3>1 DEF DvsOK
    <3>3. handlers'[d] = handlers[d]
      BY <3>1, HandlersKept
    <3>4. dv_rows'[v] = dv_rows[v]
      BY <2>0, <2>1, DvKept DEF RInv, DvIdsUsed
    <3> QED
      BY <3>2, <3>3, <3>4 DEF Deletes
  <2>2. CASE v \notin built_dv[d]
    <3>1. d = c /\ WriteDv(c)
      BY <1>0, <1>5, <2>0, <2>2, BuiltDvStep
    <3>2. dv_rows'[v] = Deletes(d, v[1]) /\ handlers' = handlers
      BY <1>5, <2>2, <3>1, WriteDvEffect
    <3> QED
      BY <3>2 DEF Deletes
  <2> QED
    BY <2>1, <2>2
<1>6. \A d \in Client : \A v \in built_dv'[d] \cup pending'[d].dvs : v[1] \in Published'
  BY <1>0, <1>1, <1>2 DEF DvsOK
<1>7. \A d \in Client : built_dv'[d] # {} => d \in Deleter /\ pc'[d] \in {"written", "finished", "unlocked"}
  BY <1>0, <1>4 DEF DvsOK
<1> QED
  BY <1>3, <1>5, <1>6, <1>7 DEF DvsOK
=============================================================================
