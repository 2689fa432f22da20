--------------------------- MODULE ColumnIterator ---------------------------
(***************************************************************************)
(* Iterators over one column of a RowSet on disk                           *)
(* (src/storage/secondary/column/).  A column is the sequence of the row   *)
(* counts of its blocks; row ids count from 0.  An iterator is its current *)
(* block, its current row id, the items left in the block iterator, and    *)
(* the flags finished and fake (the current block is still to be loaded).  *)
(***************************************************************************)
EXTENDS Integers, Sequences, SequencesExt, FiniteSetsExt

\* The rows in the first n blocks.
RECURSIVE RowsIn(_, _)
RowsIn(col, n) == IF n = 0 THEN 0 ELSE col[n] + RowsIn(col, n - 1)

\* ColumnIndex: the first row id of block b, and the one after its last.
FirstRowid(col, b) == RowsIn(col, b - 1)

EndRowid(col, b) == RowsIn(col, b)

BlockOfRow(col, row) == Max({b \in DOMAIN col : FirstRowid(col, b) <= row})

\* get_block and get_iterator_for at the current row id.
Load(col, it) ==
    [it EXCEPT !.left = EndRowid(col, it.block) - it.row, !.fake = FALSE]

NewColumn(col, start) ==
    Load(col, [block |-> BlockOfRow(col, start), row |-> start, left |-> 0,
               finished |-> FALSE, fake |-> FALSE])

\* The loop of next_batch_inner: read on through the blocks until there are want
\* rows.
RECURSIVE Fetch(_, _, _)
Fetch(col, it, want) ==
    LET cnt  == Min({it.left, want})
        next == [it EXCEPT !.row = @ + cnt, !.left = @ - cnt]
    IN  IF cnt = want THEN next
        ELSE IF it.block = Len(col) THEN [next EXCEPT !.finished = TRUE]
        ELSE Fetch(col, Load(col, [next EXCEPT !.block = @ + 1]), want - cnt)

\* next_batch: the iterator after it; the rows read are those it went past.
NextBatch(col, it, want) ==
    IF it.finished THEN it ELSE Fetch(col, IF it.fake THEN Load(col, it) ELSE it, want)

\* fetch_hint: rows left in the block, or the size of the next one.
FetchHint(col, it) ==
    LET hint == EndRowid(col, it.block) - it.row
    IN  IF it.finished THEN 0
        ELSE IF hint # 0 THEN hint
        ELSE IF it.block < Len(col) THEN col[it.block + 1] ELSE 0

\* skip_inner with a fake iterator: find the block that holds the new row id.
RECURSIVE SkipFake(_, _)
SkipFake(col, it) ==
    IF it.row <= EndRowid(col, it.block) THEN it
    ELSE IF it.block = Len(col) THEN [it EXCEPT !.finished = TRUE]
    ELSE SkipFake(col, [it EXCEPT !.block = @ + 1])

\* skip_inner past the loaded block: cnt rows are still to be skipped.
RECURSIVE SkipBlocks(_, _, _)
SkipBlocks(col, it, cnt) ==
    IF it.block > Len(col) THEN [it EXCEPT !.finished = TRUE]
    ELSE IF cnt > 0 /\ cnt >= col[it.block]
    THEN SkipBlocks(col, [it EXCEPT !.block = @ + 1], cnt - col[it.block])
    ELSE [it EXCEPT !.fake = TRUE]

\* Mutant of Skip: the row id is not moved within a block.
SkipStays(col, it, cnt) ==
    IF cnt < it.left THEN it
    ELSE SkipBlocks(col, [it EXCEPT !.row = @ + cnt, !.block = @ + 1], cnt - it.left)

Skip(col, it, cnt) ==
    LET moved == [it EXCEPT !.row = @ + cnt]
    IN  IF it.finished THEN it
        ELSE IF it.fake THEN SkipFake(col, moved)
        ELSE IF cnt < it.left THEN [moved EXCEPT !.left = @ - cnt]
        ELSE SkipBlocks(col, [moved EXCEPT !.block = @ + 1], cnt - it.left)
-----------------------------------------------------------------------------
\* RowHandlerColumnIterator: only a row id, up to the number of rows.
NewHandler(start) ==
    [block |-> 1, row |-> start, left |-> 0, finished |-> FALSE, fake |-> FALSE]

NextHandlers(count, it, want) == [it EXCEPT !.row = Min({it.row + want, count})]

SkipHandlers(it, cnt) == [it EXCEPT !.row = @ + cnt]
=============================================================================
