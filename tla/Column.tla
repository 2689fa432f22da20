------------------------------- MODULE Column -------------------------------
(***************************************************************************)
(* A RowSet from the first chunk appended to it to the batches read from   *)
(* its columns (src/storage/secondary/rowset/ and column/): the mem table, *)
(* the column builders, the block index, the block cache with its checksum *)
(* test, and ConcreteColumnIterator over the block iterators of Block.     *)
(* A row has a key and a value.  The file of a column is the sequence of   *)
(* its blocks and their index entries.  An iterator has the fields of      *)
(* ColumnIterator, with the block iterator for the items left.             *)
(***************************************************************************)
EXTENDS Block, Functions

CONSTANTS
    Workloads,   \* records: formats of the two columns, sorted, the rows to
                 \* append and how many, the columns to read, corrupt, checksum,
                 \* and direct: one block builder takes every row, as in the tests of block/
    MaxChunk,    \* rows of a chunk
    MaxWant      \* expected_size of next_batch

Columns == {"key", "value"}

VARIABLES
    work,       \* the table and what happens to it
    written,    \* the rows appended, in order
    mem,        \* BTreeMapMemTable: the rows in the order of the map
    builders,   \* the column builders
    file,       \* the columns on disk, Null before the flush
    corrupted,  \* the blocks whose bytes on disk have changed, and how
    cache,      \* the block cache: for each block in it, its bytes as they were read
    other,      \* the block that another scan read and has not verified, or Null
    reported,   \* blocks that a checksum error was returned for
    column,     \* the column the iterator reads
    reader,     \* the iterator, or Null
    batch,      \* the last batch: its first row, the rows wanted and the rows returned
    status      \* how the last call ended: "ok", "error", "garbage", "panic"

vars == <<work, written, mem, builders, file, corrupted, cache, other, reported,
          column, reader, batch, status>>

Abstract == INSTANCE ColumnIterator
-----------------------------------------------------------------------------
(* Column builders.                                                        *)
NewColumnBuilder ==
    [current |-> Null, rows |-> 0, last |-> 0, first |-> Null, index |-> <<>>,
     blocks |-> <<>>, panic |-> FALSE]

\* Mutant of IndexEntry: the row count of a block counts the blocks before it too.
IndexEntryTotal(f, c) ==
    [first_rowid |-> c.last, row_count |-> c.rows, first_key |-> c.first,
     length |-> EstimatedSize(f, c.current), distinct |-> DistinctCount(f, c.current)]

\* BlockIndexBuilder::finish_block; length stands for the bytes of the block.
IndexEntry(f, c) ==
    [first_rowid |-> c.last, row_count |-> c.rows - c.last, first_key |-> c.first,
     length |-> EstimatedSize(f, c.current), distinct |-> DistinctCount(f, c.current)]

FinishBuilder(f, c) ==
    IF c.current = Null THEN c
    ELSE [c EXCEPT !.current = Null, !.last = c.rows,
             !.blocks = Append(@, [type |-> BlockType(f), body |-> FinishBlock(f, c.current)]),
             !.index = Append(@, IndexEntry(f, c))]

StartBuilder(f, c, item) == [c EXCEPT !.current = NewBuilder(f), !.first = item]

\* One item of the array given to append: the current block is finished when the
\* item does not fit.
PutItem(f, c, item) ==
    LET d == IF c.current # Null /\ ~work.direct /\ ShouldFinish(f, c.current, item)
             THEN FinishBuilder(f, c) ELSE c
        e == IF d.current = Null THEN StartBuilder(f, d, item) ELSE d
    IN  IF f.kind \in {"char", "vector"} /\ AppendPanics(f, e.current, item)
        THEN [c EXCEPT !.panic = TRUE]
        ELSE [e EXCEPT !.current = AppendItem(f, @, item), !.rows = @ + 1]

AppendArray(f, c, items) ==
    FoldLeft(LAMBDA d, item : IF d.panic THEN d ELSE PutItem(f, d, item), c, items)
-----------------------------------------------------------------------------
(* SecondaryMemRowset and RowsetBuilder.                                   *)
Field(c, rows) == [i \in DOMAIN rows |-> rows[i][c]]

\* The format that the builder of a column encodes.
Encodes(c) == ReaderFormat(work.formats[c], BlockType(work.formats[c]))

\* RowsetBuilder::append
AppendRows(bs, rows) ==
    [c \in Columns |-> AppendArray(Encodes(c), bs[c], Field(c, rows))]

\* BTreeMapMemTable::append of one row: after the rows with its key.
BTreeInsert(rows, row) ==
    InsertAt(rows, Cardinality({i \in DOMAIN rows : rows[i].key[1] <= row.key[1]}) + 1, row)

Panicked(bs) == \E c \in Columns : bs[c].panic

AppendChunk(chunk) ==
    /\ file = Null
    /\ Len(written) + Len(chunk) <= work.max
    /\ status = "ok"
    /\ written' = written \o chunk
    /\ IF work.sorted
       THEN /\ mem' = FoldLeft(BTreeInsert, mem, chunk)
            /\ UNCHANGED builders
       ELSE /\ builders' = AppendRows(builders, chunk)
            /\ UNCHANGED mem
    /\ status' = IF Panicked(builders') THEN "panic" ELSE "ok"
    /\ UNCHANGED <<work, file, corrupted, cache, other, reported, column, reader, batch>>

\* The builders once the mem table was flushed into them.
MemFlushed == IF work.sorted THEN AppendRows(builders, mem) ELSE builders

\* RowsetBuilder::finish: the blocks and the index of a column.
EncodedColumn(c, b) ==
    LET done == FinishBuilder(Encodes(c), b) IN [blocks |-> done.blocks, index |-> done.index]

\* flush: the mem table goes to the builders, the builders to the files.
Flush ==
    /\ file = Null
    /\ written # <<>>
    /\ status = "ok"
    /\ builders' = MemFlushed
    /\ IF Panicked(builders')
       THEN status' = "panic" /\ UNCHANGED file
       ELSE /\ file' = [c \in Columns |-> EncodedColumn(c, builders'[c])]
            /\ UNCHANGED status
    /\ UNCHANGED <<work, written, mem, corrupted, cache, other, reported, column, reader, batch>>
-----------------------------------------------------------------------------
(* Column::get_block.  The bytes of a block are as written, or changed in   *)
(* the data or in the checksum type, or all zero.                          *)
Changes == {"data", "type", "zeroed"}

OnDisk(k) == IF k \in DOMAIN corrupted THEN corrupted[k] ELSE "none"

\* The data of the block is what was written.
DataKept(bytes) == bytes \in {"none", "type"}

\* build_checksum: 0 without a checksum; crc32 tells the data written from any other.
BuildChecksum(type, bytes) ==
    CASE type = "None" -> 0
      [] type = "Crc32" /\ DataKept(bytes) -> 1
      [] OTHER -> 2

\* BlockMeta::decode of the header at the end of the block.
Header(bytes) ==
    LET as == [type |-> work.checksum, checksum |-> BuildChecksum(work.checksum, "none")]
    IN  CASE bytes = "zeroed" -> [type |-> "None", checksum |-> 0]
          [] bytes = "type" -> [as EXCEPT !.type = IF @ = "None" THEN "Crc32" ELSE "None"]
          [] OTHER -> as

\* Mutant of VerifyFails: the block read from disk is not verified.
VerifyNever(bytes) == FALSE

\* verify_checksum, with the checksum type that the block names.
VerifyFails(bytes) == BuildChecksum(Header(bytes).type, bytes) # Header(bytes).checksum

\* The outcome of get_block for block b: only who reads it from disk verifies it.
BlockOutcome(b) ==
    LET k     == <<column, b>>
        loads == k \notin DOMAIN cache
        bytes == IF loads THEN OnDisk(k) ELSE cache[k]
    IN  CASE loads /\ VerifyFails(bytes) -> "error"
          [] DataKept(bytes) -> "ok"
          [] OTHER -> "garbage"

\* The cache after the blocks bs were got: a block enters it before it is verified.
CacheWith(bs) ==
    [k \in DOMAIN cache \cup {<<column, b>> : b \in bs} |->
        IF k \in DOMAIN cache THEN cache[k] ELSE OnDisk(k)]

\* The get_block of another scan of the column, up to the verification and from there on.
OtherLoads(b) ==
    /\ work.corrupt
    /\ other = Null
    /\ <<column, b>> \notin DOMAIN cache
    /\ cache' = CacheWith({b})
    /\ other' = [block |-> <<column, b>>, bytes |-> OnDisk(<<column, b>>)]
    /\ UNCHANGED <<work, written, mem, builders, file, corrupted, reported, column, reader,
                   batch, status>>

OtherVerifies ==
    /\ other # Null
    /\ reported' = IF VerifyFails(other.bytes) THEN reported \cup {other.block} ELSE reported
    /\ other' = Null
    /\ UNCHANGED <<work, written, mem, builders, file, corrupted, cache, column, reader,
                   batch, status>>
-----------------------------------------------------------------------------
(* ConcreteColumnIterator.                                                 *)
BlockAt(b) == file[column].blocks[b].body
FormatAt(b) == ReaderFormat(work.formats[column], file[column].blocks[b].type)
Index(c) == file[c].index
Sizes(c) == [i \in DOMAIN Index(c) |-> Index(c)[i].row_count]

\* get_iterator_for, at the current row id.
Load(r) ==
    LET blk == BlockAt(r.block)
        f   == FormatAt(r.block)
        ix  == Index(column)[r.block]
    IN  [r EXCEPT !.loaded = r.block, !.fake = FALSE,
                  !.iter = BlockSkip(f, blk, NewBlockIter(f, blk, ix.row_count),
                                     r.row - ix.first_rowid)]

\* get_block and get_iterator_for of the current block.
LoadOutcome(r) ==
    IF BlockOutcome(r.block) # "ok" THEN BlockOutcome(r.block)
    ELSE IF ~CountsDecode(FormatAt(r.block), BlockAt(r.block)) \/ Load(r).iter.panic THEN "panic"
    ELSE "ok"

\* The loop of next_batch_inner; got is the blocks fetched so far.
FetchEnded(r, array, got, outcome) ==
    [reader |-> r, array |-> array, got |-> got, outcome |-> outcome]

RECURSIVE FetchRows(_, _, _, _)
RECURSIVE FetchNext(_, _, _, _, _)
RECURSIVE FetchOn(_, _, _, _)
FetchRows(r, want, array, got) ==
    FetchOn(r, BlockNext(FormatAt(r.loaded), BlockAt(r.loaded), r.iter, want, array), want, got)

\* The block iterator returned n.
FetchOn(r, n, want, got) ==
    LET s    == [r EXCEPT !.row = @ + n.cnt, !.iter = n.it]
        next == [s EXCEPT !.block = @ + 1]
    IN  IF n.it.panic THEN FetchEnded(s, n.array, got, "panic")
        ELSE IF n.cnt >= want THEN FetchEnded(s, n.array, got, "ok")
        ELSE IF next.block > Len(Index(column))
        THEN FetchEnded([next EXCEPT !.finished = TRUE], n.array, got, "ok")
        ELSE FetchNext(next, LoadOutcome(next), want - n.cnt, n.array, got)

\* The block of r is got, with this outcome.
FetchNext(r, outcome, want, array, got) ==
    IF outcome # "ok" THEN FetchEnded(r, array, got \cup {r.block}, outcome)
    ELSE FetchRows(Load(r), want, array, got \cup {r.block})

\* next_batch: a block that was only skipped to is fetched first.
Fetch(r, want) ==
    IF r.fake THEN FetchNext(r, LoadOutcome(r), want, NewArray, {})
    ELSE FetchRows(r, want, NewArray, {})

\* What a call leaves behind: the iterator is dropped unless the call succeeded.
Ended(res) ==
    /\ status' = res.outcome
    /\ cache' = CacheWith(res.got)
    /\ reported' = IF res.outcome = "error" THEN reported \cup {<<column, res.reader.block>>}
                   ELSE reported
    /\ reader' = IF res.outcome = "ok" THEN res.reader ELSE Null

\* ConcreteColumnIterator::new: the iterator before its first block is got, and after.
Unloaded(start) ==
    [block |-> Abstract!BlockOfRow(Sizes(column), start), row |-> start,
     finished |-> FALSE, fake |-> FALSE, loaded |-> 0, iter |-> Null]

Opened(r, outcome) ==
    FetchEnded(IF outcome = "ok" THEN Load(r) ELSE r, NewArray, {r.block}, outcome)

OpenColumn(start) ==
    /\ file # Null
    /\ reader = Null
    /\ \E r \in {Unloaded(start)} : \E res \in {Opened(r, LoadOutcome(r))} : Ended(res)
    /\ batch' = Null
    /\ UNCHANGED <<work, written, mem, builders, file, corrupted, other, column>>

ReadBatch(want) ==
    /\ reader # Null
    /\ ~reader.finished
    /\ \E res \in {Fetch(reader, want)} :
           /\ Ended(res)
           /\ batch' = [first |-> reader.row, want |-> want, items |-> Contents(res.array)]
    /\ UNCHANGED <<work, written, mem, builders, file, corrupted, other, column>>

\* Mutant of SkipReader: a block is gone past only when rows after it are skipped.
SkipReaderLate(r, cnt) ==
    LET left  == BlockRemaining(FormatAt(r.loaded), BlockAt(r.loaded), r.iter)
        moved == [r EXCEPT !.row = @ + cnt]
    IN  IF r.fake THEN Abstract!SkipFake(Sizes(column), moved)
        ELSE IF cnt <= left
        THEN [moved EXCEPT !.iter = BlockSkip(FormatAt(r.loaded), BlockAt(r.loaded), @, cnt)]
        ELSE Abstract!SkipBlocks(Sizes(column), [moved EXCEPT !.block = @ + 1], cnt - left)

\* skip_inner
SkipReader(r, cnt) ==
    LET left  == BlockRemaining(FormatAt(r.loaded), BlockAt(r.loaded), r.iter)
        moved == [r EXCEPT !.row = @ + cnt]
    IN  IF r.fake THEN Abstract!SkipFake(Sizes(column), moved)
        ELSE IF cnt < left
        THEN [moved EXCEPT !.iter = BlockSkip(FormatAt(r.loaded), BlockAt(r.loaded), @, cnt)]
        ELSE Abstract!SkipBlocks(Sizes(column), [moved EXCEPT !.block = @ + 1], cnt - left)

SkipRows(cnt) ==
    /\ reader # Null
    /\ ~reader.finished
    /\ reader.row + cnt <= Len(written)
    /\ reader' = SkipReader(reader, cnt)
    /\ status' = IF reader'.iter.panic THEN "panic" ELSE "ok"
    /\ batch' = Null
    /\ UNCHANGED <<work, written, mem, builders, file, corrupted, cache, other, reported, column>>

\* The iterator is dropped.
CloseColumn ==
    /\ reader # Null
    /\ reader' = Null
    /\ batch' = Null
    /\ UNCHANGED <<work, written, mem, builders, file, corrupted, cache, other, reported, column,
                   status>>

\* The environment: bytes on disk change; the cache drops a block.
Corrupt(b, change) ==
    /\ work.corrupt
    /\ corrupted = <<>>
    /\ corrupted' = [k \in {<<column, b>>} |-> change]
    /\ UNCHANGED <<work, written, mem, builders, file, cache, other, reported, column, reader,
                   batch, status>>

Evict(k) ==
    /\ work.corrupt
    /\ cache' = Restrict(cache, DOMAIN cache \ {k})
    /\ UNCHANGED <<work, written, mem, builders, file, corrupted, other, reported, column,
                   reader, batch, status>>
-----------------------------------------------------------------------------
Init ==
    /\ work \in Workloads
    /\ written = <<>>
    /\ mem = <<>>
    /\ builders = [c \in Columns |-> NewColumnBuilder]
    /\ file = Null
    /\ corrupted = <<>>
    /\ cache = <<>>
    /\ other = Null
    /\ reported = {}
    /\ column \in work.read
    /\ reader = Null
    /\ batch = Null
    /\ status = "ok"

Next ==
    \/ \E chunk \in BoundedSeq(work.rows, MaxChunk) \ {<<>>} : AppendChunk(chunk)
    \/ Flush
    \/ \E start \in 0..Len(written) - 1 : OpenColumn(start)
    \/ \E want \in 1..MaxWant : ReadBatch(want)
    \/ \E cnt \in 1..work.max : SkipRows(cnt)
    \/ CloseColumn
    \/ file # Null /\ \E b \in DOMAIN Index(column), c \in Changes : Corrupt(b, c)
    \/ file # Null /\ \E b \in DOMAIN Index(column) : OtherLoads(b)
    \/ OtherVerifies
    \/ \E k \in DOMAIN cache : Evict(k)

Spec == Init /\ [][Next]_vars
-----------------------------------------------------------------------------
(* What the columns promise.                                               *)
\* Types; an iterator never stands behind the last row (ConcreteColumnIterator), and
\* only blocks of the files are cached.
TypeOK ==
    /\ written \in Seq(work.rows)
    /\ mem \in Seq(work.rows)
    /\ status \in {"ok", "error", "garbage", "panic"}
    /\ column \in Columns
    /\ Range(corrupted) \subseteq Changes
    /\ DOMAIN cache \subseteq Columns \X Nat
    /\ reader # Null =>
        /\ reader.row \in 0..Len(written)
        /\ reader.finished \in BOOLEAN
        /\ reader.fake \in BOOLEAN

\* The rows the RowSet must hold: those appended, by key and then by age when the
\* table has a sort key.
Expected ==
    LET before(i, j) == \/ written[i].key[1] < written[j].key[1]
                        \/ written[i].key = written[j].key /\ i < j
        order == SetToSortSeq(DOMAIN written, before)
    IN  IF work.sorted THEN [i \in DOMAIN written |-> written[order[i]]] ELSE written

BlockOf(row) == Abstract!BlockOfRow(Sizes(column), row)

\* A batch of a plain nullable column that takes rows of two blocks keeps the bitmap
\* of the second only (replace_bitmap): RowSetIterator never asks for one.
PlainNullable == {"PlainNullable", "PlainNullableFixedChar", "PlainNullableVarchar"}

SpansBlocks ==
    LET last == Min({batch.first + batch.want, Len(written)}) - 1
    IN  BlockOf(batch.first) # BlockOf(last)

\* Whatever the encoding, and however next_batch and skip alternate, a batch holds the
\* rows appended to the column at its row ids, none missing while there are more: the
\* builders, the block index, the iterators and ConcreteColumnIterator undo each other.
\* They do not panic, but for a NULL in a column of vectors (append_default) and for a
\* run whose length does not decode (decode_u32_slice).
ReadsBack ==
    /\ batch # Null /\ status = "ok" =>
        LET last == Min({batch.first + batch.want, Len(written)})
        IN  \/ batch.items = Field(column, SubSeq(Expected, batch.first + 1, last))
            \/ BlockType(work.formats[column]) \in PlainNullable /\ SpansBlocks
    /\ status = "panic" =>
        \/ \E c \in Columns, row \in Range(written) :
            work.formats[c].kind = "vector" /\ row[c] = Null
        \/ /\ file # Null
           /\ \E i \in DOMAIN file[column].blocks :
                ~CountsDecode(FormatAt(i), BlockAt(i))

\* The files are complete; they are looked at while no iterator reads them, which
\* never changes them.
Flushed == file # Null /\ reader = Null

RowsOfBlock(c, i) ==
    SubSeq(Field(c, Expected), Index(c)[i].first_rowid + 1,
           Index(c)[i].first_rowid + Index(c)[i].row_count)

\* A plain block that outgrows the target size by more than its bitmap has one row,
\* or holds no bytes before its last row: is_empty then says that it has no rows.
Bounded(c, i) ==
    LET rows == RowsOfBlock(c, i)
    IN  \/ work.formats[c].encode # "Plain"
        \/ Index(c)[i].length <= work.formats[c].target + BitmapSize(file[c].blocks[i].body)
        \/ \A k \in 1..Len(rows) - 1 : rows[k] \in {Null, <<>>}

\* The block index of every column describes its blocks: they cover its rows without
\* gap or overlap, the first key of a block is the value of its first row (start_rowid
\* relies on both), the DistinctValue statistic is the number of distinct non-NULL
\* values, and no block outgrows the target size but as Bounded says (should_finish).
IndexExact ==
    /\ TypeOK
    /\ Flushed => \A c \in Columns :
        /\ Abstract!RowsIn(Sizes(c), Len(Index(c))) = Len(written)
        /\ \A i \in DOMAIN Index(c) :
            /\ Index(c)[i].row_count > 0
            /\ Index(c)[i].first_rowid = Abstract!FirstRowid(Sizes(c), i)
            /\ Index(c)[i].first_key = Expected[Index(c)[i].first_rowid + 1][c]
            /\ Index(c)[i].distinct = Cardinality(Range(RowsOfBlock(c, i)) \ {Null})
            /\ Bounded(c, i)

\* The changes that the checksum is there to find: the data under Crc32, and the type
\* of the checksum.  A block of zeros says that it has none.
Detectable(bytes) == bytes = "type" \/ (bytes = "data" /\ work.checksum = "Crc32")

\* No changed block slips in unnoticed: one that the checksum can tell is in the cache,
\* and its rows are used, only if the scan that read it from disk got the error or is
\* about to, and no error is about a block as written.  More does not hold: get_block
\* does not verify a block that it finds in the cache, before and after that error.
CorruptionReported ==
    LET noticed == reported \cup IF other = Null THEN {} ELSE {other.block}
    IN  /\ \A k \in DOMAIN cache : Detectable(cache[k]) => k \in noticed
        /\ status = "garbage" =>
            \A k \in DOMAIN corrupted : Detectable(corrupted[k]) => k \in noticed
        /\ reported \subseteq {k \in DOMAIN corrupted : Detectable(corrupted[k])}

\* The position of the iterator as ColumnIterator keeps it.
Position(r) ==
    [block |-> r.block, row |-> r.row, finished |-> r.finished, fake |-> r.fake,
     left |-> BlockRemaining(FormatAt(r.loaded), BlockAt(r.loaded), r.iter)]

SamePlace(p, q) == p = q \/ (p.finished /\ q.finished /\ p.row = q.row)

\* Each call moves the iterator as the arithmetic of ColumnIterator says, which knows
\* the row counts of the blocks and not their contents: RowSet scans rely on it.
MovesAsColumnIterator ==
    [][reader # Null /\ reader' # Null /\ reader' # reader =>
        LET p == Position(reader)
        IN  \/ /\ batch' # Null
               /\ SamePlace(Position(reader)', Abstract!NextBatch(Sizes(column), p, batch'.want))
            \/ /\ batch' = Null
               /\ SamePlace(Position(reader)',
                            Abstract!Skip(Sizes(column), p, reader'.row - reader.row))]_vars
=============================================================================
