--------------------------- MODULE RowSetIterator ---------------------------
(***************************************************************************)
(* The scan of one RowSet (src/storage/secondary/rowset/): the iterators   *)
(* of the requested columns are moved in step, in batches that the block   *)
(* boundaries of all columns suggest; delete vectors and a range filter on *)
(* the first column decide which rows of a batch are visible.              *)
(*                                                                         *)
(* A RowSet is [keys, cols, dv]: the key of every row, the blocks of every *)
(* column (column 1 holds the key), and the row ids its DVs delete.        *)
(***************************************************************************)
EXTENDS ColumnIterator

CONSTANTS MaxOutput,   \* ROWSET_MAX_OUTPUT
          NoBound,     \* Bound::Unbounded
          NoSize       \* expected_size = None

\* The reference to the row handlers instead of a column.
RowHandler == 0

RowCount(rs) == Len(rs.keys)

KeyOf(rs, row) == rs.keys[row + 1]

Unfiltered == [start |-> NoBound, end |-> NoBound]

\* DiskRowset::start_rowid: the first row id of the last block whose first key is
\* not above the start of the range.  Mutant: of the first block that begins with
\* such a key.
StartRowidAfter(rs, range) ==
    LET col == rs.cols[1]
        above == {b \in DOMAIN col : KeyOf(rs, FirstRowid(col, b)) >= range.start.key}
    IN  IF range.start = NoBound \/ above = {} THEN 0 ELSE FirstRowid(col, Min(above))

StartRowid(rs, range) ==
    LET col == rs.cols[1]
        upto == {b \in DOMAIN col :
                    \A c \in 1 .. b : KeyOf(rs, FirstRowid(col, c)) <= range.start.key}
    IN  IF range.start = NoBound \/ upto = {} THEN 0 ELSE FirstRowid(col, Max(upto))

\* RowSetIterator::new.
NewIterators(rs, refs, start) ==
    [i \in DOMAIN refs |-> IF refs[i] = RowHandler THEN NewHandler(start)
                           ELSE NewColumn(rs.cols[refs[i]], start)]

\* ColumnIteratorImpl: dispatch on the kind of column.
Hint(rs, ref, it) ==
    IF ref = RowHandler THEN RowCount(rs) - it.row ELSE FetchHint(rs.cols[ref], it)

Finished(rs, ref, it) == IF ref = RowHandler THEN it.row = RowCount(rs) ELSE it.finished

NextRows(rs, ref, it, want) ==
    IF ref = RowHandler THEN NextHandlers(RowCount(rs), it, want)
                        ELSE NextBatch(rs.cols[ref], it, want)

SkipRows(rs, ref, it, cnt) ==
    IF ref = RowHandler THEN SkipHandlers(it, cnt) ELSE Skip(rs.cols[ref], it, cnt)

\* The number of rows of the next batch.  Mutant: the hints are ignored.
FetchSizeUnhinted(rs, refs, its, size) == Min({MaxOutput} \cup ({size} \ {NoSize}))

FetchSize(rs, refs, its, size) ==
    LET hints == {Hint(rs, refs[i], its[i]) : i \in DOMAIN refs} \ {0}
    IN  Min(hints \cup {MaxOutput} \cup ({size} \ {NoSize}))

AtLeast(key, bound) == key > bound.key \/ (key = bound.key /\ bound.included)

Beyond(key, bound) == key > bound.key \/ (key = bound.key /\ ~ bound.included)

\* Iterator::position, or the length.
Position(len, Is(_)) ==
    LET found == {i \in 0 .. len - 1 : Is(i)} IN IF found = {} THEN len ELSE Min(found)

\* The positions of a batch of len rows from row id first that the range filter
\* keeps: from from on, up to but not including to.
Kept(rs, range, first, len) ==
    [from |-> IF range.start = NoBound THEN 0
              ELSE Position(len, LAMBDA i : AtLeast(KeyOf(rs, first + i), range.start)),
     to   |-> IF range.end = NoBound THEN len
              ELSE Position(len, LAMBDA i : Beyond(KeyOf(rs, first + i), range.end))]

Result(its, rows, end, panic) == [its |-> its, rows |-> rows, end |-> end, panic |-> panic]

\* One call of next_batch_inner: the iterators after it, the row ids of the
\* visible rows, whether the end is reached, and whether it panics: an iterator is
\* beyond its block, the columns disagree on the range of rows, or the visibility
\* map has another length than the arrays.
NextBatchInner(rs, refs, range, size, its) ==
    LET fetch   == FetchSize(rs, refs, its, size)
        first   == its[1].row
        deleted == first .. first + fetch - 1 \subseteq rs.dv
        got     == [i \in DOMAIN refs |-> NextRows(rs, refs[i], its[i], fetch)]
        bad     == {i \in DOMAIN refs : \/ got[i].row = its[i].row
                                        \/ its[i].row # first
                                        \/ got[i].row # got[1].row}
        len     == got[1].row - first
        kept    == Kept(rs, range, first, len)
        visible == SelectSeq([n \in 1 .. kept.to - kept.from |-> first + kept.from + n - 1],
                             LAMBDA r : r \notin rs.dv)
    IN  IF \E i \in DOMAIN refs : Hint(rs, refs[i], its[i]) < 0
        THEN Result(its, <<>>, TRUE, TRUE)
        ELSE IF \A i \in DOMAIN refs : Hint(rs, refs[i], its[i]) = 0 /\ Finished(rs, refs[i], its[i])
        THEN Result(its, <<>>, TRUE, FALSE)
        ELSE IF rs.dv # {} /\ deleted
        THEN Result([i \in DOMAIN refs |-> SkipRows(rs, refs[i], its[i], fetch)],
                    <<>>, FALSE, FALSE)
        ELSE IF bad # {}
        THEN Result(got, <<>>, TRUE, got[Min(bad)].row # its[Min(bad)].row)
        ELSE Result(got, visible, range # Unfiltered /\ kept.to = 0,
                    rs.dv # {} /\ len # fetch)
=============================================================================
