------------------------------ MODULE TableScan ------------------------------
(***************************************************************************)
(* The scan of a table (scan_inner in src/storage/secondary/transaction.rs *)
(* and the input of compact_table): the RowSets of the snapshot are read   *)
(* one after the other by a ConcatIterator, or merged by their keys by a   *)
(* MergeIterator.  A step is one call of next_batch_inner on one RowSet,   *)
(* or one row that the merge picks.                                        *)
(***************************************************************************)
EXTENDS RowSetIterator

CONSTANT Scans         \* the scans to try: records of
                       \*   rowsets: a sequence of RowSets,
                       \*   refs: the columns that are read,
                       \*   range: the filter on the key,
                       \*   size: expected_size of every call,
                       \*   sorted: merge by key

VARIABLES scan,        \* the one of Scans that is run
          its,           \* RowSet -> the iterators of its columns
          ended,         \* RowSet -> RowSetIterator.end
          current,       \* ConcatIterator.current_iter
          buffer,        \* RowSet -> rows of its batch that the merge has not picked
          heap,          \* MergeIterator.pending_heap: RowSets, smallest key first
          out,           \* rows returned so far, as <<RowSet, row id>>
          state          \* "running", "done" or "panicked"

scanvars == <<scan, its, ended, current, buffer, heap, out, state>>

Rowsets == DOMAIN scan.rowsets

ScanInit ==
    /\ scan \in Scans
    /\ its = [i \in Rowsets |->
                 NewIterators(scan.rowsets[i], scan.refs, StartRowid(scan.rowsets[i], scan.range))]
    /\ ended = [i \in Rowsets |-> FALSE]
    /\ current = 1
    /\ buffer = [i \in Rowsets |-> <<>>]
    /\ heap = <<>>
    /\ out = <<>>
    /\ state = "running"

\* The next batch of RowSet i.
Batch(i) == NextBatchInner(scan.rowsets[i], scan.refs, scan.range, scan.size, its[i])

\* RowSet i's iterator has taken the step to b.
Advance(i, b) ==
    /\ its' = [its EXCEPT ![i] = b.its]
    /\ ended' = [ended EXCEPT ![i] = b.end]
    /\ state' = IF b.panic THEN "panicked" ELSE state
    /\ UNCHANGED scan
-----------------------------------------------------------------------------
\* ConcatIterator::next_batch.
ConcatBatch ==
    /\ ~ scan.sorted
    /\ state = "running"
    /\ current \in Rowsets
    /\ ~ ended[current]
    /\ LET b == Batch(current)
       IN  /\ Advance(current, b)
           /\ out' = out \o [n \in DOMAIN b.rows |-> <<current, b.rows[n]>>]
    /\ UNCHANGED <<current, buffer, heap>>

ConcatNext ==
    /\ ~ scan.sorted
    /\ state = "running"
    /\ current \in Rowsets => ended[current]
    /\ IF current \in Rowsets THEN current' = current + 1 /\ UNCHANGED state
                              ELSE state' = "done" /\ UNCHANGED current
    /\ UNCHANGED <<scan, its, ended, buffer, heap, out>>
-----------------------------------------------------------------------------
\* The key of the row that RowSet i would give the merge next.
HeadKey(buf, i) == KeyOf(scan.rowsets[i], Head(buf[i]))

Swap(h, i, j) == [h EXCEPT ![i] = h[j], ![j] = h[i]]

\* add_pending_data: an element at position i of the heap moves up.
RECURSIVE SiftUp(_, _, _)
SiftUp(buf, h, i) ==
    LET parent == i \div 2
    IN  IF i > 1 /\ HeadKey(buf, h[parent]) > HeadKey(buf, h[i])
        THEN SiftUp(buf, Swap(h, i, parent), parent)
        ELSE h

\* The child that replace_pending_data compares with.  Mutant: always the left one.
LeftChild(buf, h, i) == 2 * i

SmallerChild(buf, h, i) ==
    IF 2 * i + 1 <= Len(h) /\ HeadKey(buf, h[2 * i]) > HeadKey(buf, h[2 * i + 1])
    THEN 2 * i + 1 ELSE 2 * i

\* replace_pending_data: an element at position i of the heap moves down.
RECURSIVE SiftDown(_, _, _)
SiftDown(buf, h, i) ==
    LET child == SmallerChild(buf, h, i)
    IN  IF 2 * i <= Len(h) /\ HeadKey(buf, h[i]) > HeadKey(buf, h[child])
        THEN SiftDown(buf, Swap(h, i, child), child)
        ELSE h

\* RowSets whose buffer MergeIterator::next_batch has to fill.
Unfilled == {i \in Rowsets : buffer[i] = <<>> /\ ~ ended[i]}

\* request_fill_buffer, in the order of the RowSets.
MergeFill ==
    /\ scan.sorted
    /\ state = "running"
    /\ Unfilled # {}
    /\ LET i == Min(Unfilled)
           b == Batch(i)
       IN  /\ Advance(i, b)
           /\ buffer' = [buffer EXCEPT ![i] = b.rows]
           /\ heap' = IF b.rows = <<>> THEN heap
                      ELSE SiftUp(buffer', Append(heap, i), Len(heap) + 1)
    /\ UNCHANGED <<current, out>>

\* The smallest row is picked.  The RowSet it came from puts its next row in the
\* place (replace_pending_data) or leaves the heap (pop_pending_data).
MergePick ==
    /\ scan.sorted
    /\ state = "running"
    /\ Unfilled = {}
    /\ heap # <<>>
    /\ LET i == Head(heap)
       IN  /\ out' = Append(out, <<i, Head(buffer[i])>>)
           /\ buffer' = [buffer EXCEPT ![i] = Tail(@)]
           /\ heap' = IF buffer'[i] # <<>> THEN SiftDown(buffer', heap, 1)
                      ELSE IF Len(heap) = 1 THEN <<>>
                      ELSE SiftDown(buffer', <<Last(heap)>> \o Tail(Front(heap)), 1)
    /\ UNCHANGED <<scan, its, ended, current, state>>

MergeEnd ==
    /\ scan.sorted
    /\ state = "running"
    /\ Unfilled = {}
    /\ heap = <<>>
    /\ state' = "done"
    /\ UNCHANGED <<scan, its, ended, current, buffer, heap, out>>

ScanNext == ConcatBatch \/ ConcatNext \/ MergeFill \/ MergePick \/ MergeEnd

ScanSpec == ScanInit /\ [][ScanNext]_scanvars
-----------------------------------------------------------------------------
\* What a scan should return, by the definition of a range and of a delete vector.
InRange(key) ==
    /\ scan.range.start # NoBound => AtLeast(key, scan.range.start)
    /\ scan.range.end # NoBound => ~ Beyond(key, scan.range.end)

Wanted ==
    UNION {LET rs == scan.rowsets[i]
           IN  {<<i, r>> : r \in {r \in 0 .. RowCount(rs) - 1 :
                                    r \notin rs.dv /\ InRange(KeyOf(rs, r))}} : i \in Rowsets}

\* The rows of such keys that equal the inclusive start of the range and end a block
\* whose successor begins with the same key: start_rowid seeks past them.
SkippedAtStart ==
    {w \in Wanted :
        LET rs  == scan.rowsets[w[1]]
            col == rs.cols[1]
        IN  /\ scan.range.start # NoBound
            /\ KeyOf(rs, w[2]) = scan.range.start.key
            /\ \E b \in DOMAIN col :
                   FirstRowid(col, b) > w[2] /\ KeyOf(rs, FirstRowid(col, b)) = KeyOf(rs, w[2])}

Returned == Wanted \ SkippedAtStart

Keys == [n \in DOMAIN out |-> KeyOf(scan.rowsets[out[n][1]], out[n][2])]

Ascending(keys) == \A n \in 1 .. Len(keys) - 1 : keys[n] <= keys[n + 1]

\* The rows of one RowSet come in their order, each once.
InOrder == \A m, n \in DOMAIN out : m < n /\ out[m][1] = out[n][1] => out[m][2] < out[n][2]

Exact == Range(out) \subseteq Returned /\ (state = "done" => Len(out) = Cardinality(Returned))

\* A scan returns exactly the rows that are in range and not deleted, each once and
\* in the order of the RowSets, however the blocks of the columns, the deleted rows
\* and the ends of the range lie to each other (RowSetIterator, ConcatIterator), but
\* for the rows that start_rowid seeks past when a key spans blocks (SkippedAtStart).
ConcatCorrect ==
    ~ scan.sorted => Exact /\ InOrder /\ Ascending([n \in DOMAIN out |-> out[n][1]])

\* A merge returns the same rows in the order of their keys, and the rows of one
\* RowSet in their order (MergeIterator).
MergeCorrect == scan.sorted => Exact /\ InOrder /\ Ascending(Keys)

\* A scan ends and does not panic (next_batch_inner, StorageChunk::construct): every
\* call of next_batch_inner moves all columns of the RowSet on by
\* the same number of rows, also if it skips a batch of which every row is deleted
\* and the columns are then in different states, or it sets end.  So the loop in
\* RowSetIterator::next_batch runs at most once per row.
BatchAdvances ==
    /\ state # "panicked"
    /\ \A i \in Rowsets :
          state = "running" /\ ~ ended[i] =>
              LET b == Batch(i)
              IN  \/ b.end
                  \/ \A c \in DOMAIN scan.refs :
                        b.its[c].row > its[i][c].row /\ b.its[c].row = b.its[1].row

\* The rows that next_batch_inner asks of a column lie in one of its blocks: a block
\* iterator of nullable values replaces the bitmap of the whole array it appends to
\* (replace_bitmap), so an array filled from two blocks would lose rows.
BatchWithinBlock ==
    \A i \in Rowsets :
        state = "running" /\ ~ ended[i] =>
            LET rs    == scan.rowsets[i]
                fetch == FetchSize(rs, scan.refs, its[i], scan.size)
            IN  \A c \in DOMAIN scan.refs :
                    LET ref   == scan.refs[c]
                        first == its[i][c].row
                        last  == Min({first + fetch, RowCount(rs)}) - 1
                    IN  ref # RowHandler /\ first < RowCount(rs) =>
                            BlockOfRow(rs.cols[ref], first) = BlockOfRow(rs.cols[ref], last)
=============================================================================
