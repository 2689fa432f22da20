-------------------------------- MODULE Block --------------------------------
(***************************************************************************)
(* Blocks of a column: builders and iterators                              *)
(* (src/storage/secondary/block/).  A value is a sequence of cells: bytes, *)
(* or the elements of a vector.  A format says which builder and iterator  *)
(* a column uses: its kind ("primitive", "char" of a fixed width,          *)
(* "varchar", "blob", "vector"), its encode_type, whether it is nullable,  *)
(* the width of a value in cells, the bytes of a cell and the target size  *)
(* of a block.  The layout of a finished block is left out: a block is    *)
(* the record of its sections.                                             *)
(***************************************************************************)
EXTENDS Integers, Sequences, SequencesExt, FiniteSetsExt

CONSTANTS
    Null,          \* NULL, and Option::None
    BitsPerByte,   \* rows that share a byte of the bitmap
    CountBase,     \* a byte of an encoded run length holds a digit of this base
    CountTop       \* the last of the two bytes holds a digit below this

U16Size == 2
U32Size == 4

\* encode_32: the digits of a run length, least significant first.
EncodeCount(n) == IF n < CountBase THEN <<n>> ELSE <<n % CountBase, n \div CountBase>>

\* decode_u32: the last byte must be below its largest value, "or it will overflow".
CountDecodes(bytes) == Len(bytes) = 2 => bytes[2] < CountTop - 1

DecodeCount(bytes) == bytes[1] + IF Len(bytes) = 2 THEN CountBase * bytes[2] ELSE 0

CountMax == CountBase * CountTop - 1
-----------------------------------------------------------------------------
(* Plain builders, and the bitmap of a nullable one.                       *)
\* A string without a fixed width is stored as a blob.
InBlob(f) == f.kind \in {"varchar", "blob"}

NewPlain == [data |-> <<>>, offsets |-> <<>>, element |-> Null, bitmap |-> <<>>]

Zeros(n) == [i \in 1..n |-> 0]

\* append_value and append_default panic.
AppendPanics(f, p, item) ==
    \/ f.kind = "vector" /\ (item = Null \/ p.element \notin {Null, Len(item)})
    \/ f.kind = "char" /\ item # Null /\ Len(item) > f.width

PrimitiveAppend(f, p, item) ==
    [p EXCEPT !.data = @ \o IF item = Null THEN Zeros(f.width) ELSE item]

\* A string is padded with zeros.
CharAppend(f, p, item) ==
    LET cells == IF item = Null THEN <<>> ELSE item
    IN  [p EXCEPT !.data = @ \o cells \o Zeros(f.width - Len(cells))]

BlobAppend(f, p, item) ==
    LET data == IF item = Null THEN p.data ELSE p.data \o item
    IN  [p EXCEPT !.data = data, !.offsets = Append(@, Len(data))]

VectorAppend(f, p, item) == [p EXCEPT !.data = @ \o item, !.element = Len(item)]

\* NullableBlockBuilder::append, and the append of a plain builder.
PlainAppend(f, p, item) ==
    LET q == CASE f.kind = "primitive" -> PrimitiveAppend(f, p, item)
               [] f.kind = "char"      -> CharAppend(f, p, item)
               [] InBlob(f)            -> BlobAppend(f, p, item)
               [] f.kind = "vector"    -> VectorAppend(f, p, item)
    IN  IF f.nullable THEN [q EXCEPT !.bitmap = Append(@, item # Null)] ELSE q

PlainSize(f, p) ==
    Len(p.data) * f.cell + CASE InBlob(f)         -> Len(p.offsets) * U32Size
                             [] f.kind = "vector" -> U32Size
                             [] OTHER             -> 0

BitmapSize(p) == (Len(p.bitmap) + BitsPerByte - 1) \div BitsPerByte

SizeWithNext(f, p, item) ==
    PlainSize(f, p) +
        IF InBlob(f) \/ f.kind = "vector"
        THEN U32Size + IF item = Null THEN 0 ELSE Len(item) * f.cell
        ELSE f.width * f.cell

\* should_finish; a nullable builder allows a byte for the bitmap.
PlainShouldFinish(f, p, item) ==
    /\ p.data # <<>>
    /\ SizeWithNext(f, p, item) + (IF f.nullable THEN 1 ELSE 0) > f.target

\* Row i (from 0) of a plain block as its iterator decodes it.
PrimitiveItem(f, p, i) == SubSeq(p.data, i * f.width + 1, (i + 1) * f.width)

\* The string ends at the first zero.
CharItem(f, p, i) ==
    LET cells == SubSeq(p.data, i * f.width + 1, (i + 1) * f.width)
        ends  == {k \in DOMAIN cells : cells[k] = 0} \cup {f.width + 1}
    IN  SubSeq(cells, 1, Min(ends) - 1)

BlobItem(f, p, i) ==
    SubSeq(p.data, (IF i = 0 THEN 0 ELSE p.offsets[i]) + 1, p.offsets[i + 1])

VectorItem(f, p, i) == SubSeq(p.data, i * p.element + 1, (i + 1) * p.element)

ItemAt(f, p, i) ==
    CASE f.kind = "primitive" -> PrimitiveItem(f, p, i)
      [] f.kind = "char"      -> CharItem(f, p, i)
      [] InBlob(f)            -> BlobItem(f, p, i)
      [] f.kind = "vector"    -> VectorItem(f, p, i)

ItemCount(f, p) ==
    CASE InBlob(f)         -> Len(p.offsets)
      [] f.kind = "vector" -> Len(p.data) \div p.element
      [] OTHER -> Len(p.data) \div f.width

\* get_statistics_with_bitmap: the number of distinct values stored.
PlainDistinct(f, p) ==
    Cardinality({ItemAt(f, p, i) : i \in {j \in 0..ItemCount(f, p) - 1 :
                                            p.bitmap = <<>> \/ p.bitmap[j + 1]}})
-----------------------------------------------------------------------------
(* Run-length and dictionary builders around a plain one.  The codes of a  *)
(* dictionary count from 1, in the order the values came; 0 is NULL.       *)
NewRle(inner) == [inner |-> inner, counts |-> <<>>, prev |-> Null, cur |-> 0]

RleAppend(f, r, item) ==
    IF r.cur = 0 \/ item # r.prev \/ r.cur = CountMax
    THEN [inner |-> PlainAppend(f, r.inner, item), prev |-> item, cur |-> 1,
          counts |-> IF r.cur = 0 THEN r.counts ELSE Append(r.counts, r.cur)]
    ELSE [r EXCEPT !.cur = @ + 1]

RleFinish(r) ==
    [inner |-> r.inner,
     counts |-> [i \in 1..Len(r.counts) + 1 |->
                    EncodeCount(Append(r.counts, r.cur)[i])]]

RleSize(f, r) ==
    PlainSize(f, r.inner) + BitmapSize(r.inner) + U32Size
        + U16Size * (Len(r.counts) + IF r.cur = 0 THEN 0 ELSE 1)

\* The codes: the builder of the codes is given the size of the still empty
\* builder of the values as its target.
CodeFormat(f) ==
    [kind |-> "primitive", encode |-> "RunLength", nullable |-> FALSE, width |-> 1,
     cell |-> U32Size, target |-> PlainSize(f, NewPlain)]

DictAppend(f, d, item) ==
    LET new == item # Null /\ item \notin Range(d.dict)
        dict == IF new THEN Append(d.dict, item) ELSE d.dict
        code == IF item = Null THEN 0 ELSE CHOOSE i \in DOMAIN dict : dict[i] = item
    IN  [inner |-> IF new THEN PlainAppend(f, d.inner, item) ELSE d.inner,
         dict |-> dict,
         codes |-> RleAppend(CodeFormat(f), d.codes, <<code>>)]
-----------------------------------------------------------------------------
(* The block type that a column builder puts in the header of its blocks,  *)
(* and the iterator that the factory of the column makes for it.  The      *)
(* builder of vectors ignores encode_type.                                 *)
PrimitiveType(f) ==
    CASE f.encode = "Plain"      -> IF f.nullable THEN "PlainNullable" ELSE "Plain"
      [] f.encode = "RunLength"  -> IF f.nullable THEN "RleNullable" ELSE "RunLength"
      [] f.encode = "Dictionary" -> IF f.nullable THEN "DictNullable" ELSE "Dictionary"

CharType(f) ==
    LET type(fixed, nullableFixed, var, nullableVar) ==
            IF f.kind = "char" THEN (IF f.nullable THEN nullableFixed ELSE fixed)
                               ELSE (IF f.nullable THEN nullableVar ELSE var)
    IN  CASE f.encode = "Plain" -> type("PlainFixedChar", "PlainNullableFixedChar",
                                        "PlainVarchar", "PlainNullableVarchar")
          [] f.encode = "RunLength" -> type("RleFixedChar", "RleNullableFixedChar",
                                            "RleVarchar", "RleNullableVarchar")
          [] f.encode = "Dictionary" -> type("DictFixedChar", "DictNullableFixedChar",
                                             "DictVarchar", "DictNullableVarchar")

BlobType(f) ==
    CASE f.encode = "Plain"      -> IF f.nullable THEN "PlainNullable" ELSE "Plain"
      [] f.encode = "RunLength"  -> IF f.nullable THEN "RleNullable" ELSE "RunLength"
      [] f.encode = "Dictionary" -> IF f.nullable THEN "DictNullable" ELSE "Dictionary"

VectorType(f) == IF f.nullable THEN "PlainNullable" ELSE "Plain"

BlockType(f) ==
    CASE f.kind = "primitive" -> PrimitiveType(f)
      [] f.kind \in {"char", "varchar"} -> CharType(f)
      [] f.kind = "blob"      -> BlobType(f)
      [] f.kind = "vector"    -> VectorType(f)

\* get_iterator_for: the encoding and whether a bitmap follows.
PrimitiveReader ==
    [Plain |-> <<"Plain", FALSE>>, PlainNullable |-> <<"Plain", TRUE>>,
     RunLength |-> <<"RunLength", FALSE>>, RleNullable |-> <<"RunLength", TRUE>>,
     Dictionary |-> <<"Dictionary", FALSE>>, DictNullable |-> <<"Dictionary", TRUE>>]

CharReader ==
    [PlainFixedChar |-> <<"Plain", FALSE>>, PlainNullableFixedChar |-> <<"Plain", TRUE>>,
     RleFixedChar |-> <<"RunLength", FALSE>>, RleNullableFixedChar |-> <<"RunLength", TRUE>>,
     DictFixedChar |-> <<"Dictionary", FALSE>>, DictNullableFixedChar |-> <<"Dictionary", TRUE>>,
     PlainVarchar |-> <<"Plain", FALSE>>, PlainNullableVarchar |-> <<"Plain", TRUE>>,
     RleVarchar |-> <<"RunLength", FALSE>>, RleNullableVarchar |-> <<"RunLength", TRUE>>,
     DictVarchar |-> <<"Dictionary", FALSE>>, DictNullableVarchar |-> <<"Dictionary", TRUE>>]

BlobReader ==
    [Plain |-> <<"Plain", FALSE>>, PlainNullable |-> <<"Plain", TRUE>>,
     RunLength |-> <<"RunLength", FALSE>>, RleNullable |-> <<"RunLength", TRUE>>,
     Dictionary |-> <<"Dictionary", FALSE>>, DictNullable |-> <<"Dictionary", TRUE>>]

VectorReader == [Plain |-> <<"Plain", FALSE>>, PlainNullable |-> <<"Plain", TRUE>>]

\* The format that the iterator of a block of this type decodes.
ReaderFormat(f, type) ==
    LET reader == CASE f.kind = "primitive" -> PrimitiveReader[type]
                    [] f.kind \in {"char", "varchar"} -> CharReader[type]
                    [] f.kind = "blob"      -> BlobReader[type]
                    [] f.kind = "vector"    -> VectorReader[type]
    IN  [f EXCEPT !.encode = reader[1], !.nullable = reader[2]]

-----------------------------------------------------------------------------
(* The builder a column of format f uses.                                  *)
NewBuilder(f) ==
    CASE f.encode = "Plain"      -> NewPlain
      [] f.encode = "RunLength"  -> NewRle(NewPlain)
      [] f.encode = "Dictionary" -> [inner |-> NewPlain, dict |-> <<>>, codes |-> NewRle(NewPlain)]

AppendItem(f, b, item) ==
    CASE f.encode = "Plain"      -> PlainAppend(f, b, item)
      [] f.encode = "RunLength"  -> RleAppend(f, b, item)
      [] f.encode = "Dictionary" -> DictAppend(f, b, item)

ShouldFinish(f, b, item) ==
    CASE f.encode = "Plain"      -> PlainShouldFinish(f, b, item)
      [] f.encode = "RunLength"  -> PlainShouldFinish(f, b.inner, item)
      [] f.encode = "Dictionary" -> \/ PlainShouldFinish(f, b.inner, item)
                                    \/ PlainShouldFinish(CodeFormat(f), b.codes.inner, <<0>>)

EstimatedSize(f, b) ==
    CASE f.encode = "Plain"      -> PlainSize(f, b) + BitmapSize(b)
      [] f.encode = "RunLength"  -> RleSize(f, b)
      [] f.encode = "Dictionary" -> 2 * U32Size + RleSize(CodeFormat(f), b.codes)
                                        + PlainSize(f, b.inner) + BitmapSize(b.inner)

DistinctCount(f, b) ==
    CASE f.encode = "Plain"      -> PlainDistinct(f, b)
      [] f.encode = "RunLength"  -> PlainDistinct(f, b.inner)
      [] f.encode = "Dictionary" -> Len(b.dict)

FinishBlock(f, b) ==
    CASE f.encode = "Plain"      -> b
      [] f.encode = "RunLength"  -> RleFinish(b)
      [] f.encode = "Dictionary" -> [inner |-> b.inner, codes |-> RleFinish(b.codes),
                                     size |-> Len(b.dict)]
-----------------------------------------------------------------------------
(* Iterators.  Array builders: data holds what was pushed, valid the       *)
(* bitmap, which has the length of the array.                              *)
NewArray == [data |-> <<>>, valid |-> <<>>]

Push(a, items) ==
    [data |-> a.data \o items,
     valid |-> a.valid \o [i \in DOMAIN items |-> items[i] # Null]]

Contents(a) == [i \in DOMAIN a.valid |-> IF a.valid[i] THEN a.data[i] ELSE Null]

\* next_batch of a plain iterator at row `next` of `rows`, and of the nullable one,
\* which replaces the bitmap of the array builder by the bits of these rows.  It
\* panics when there is no value to decode.
PlainNext(f, p, rows, next, want, a) ==
    LET cnt   == IF next >= rows THEN 0 ELSE Min({want, rows - next})
        items == [k \in 1..cnt |-> ItemAt(f, p, next + k - 1)]
        b     == Push(a, items)
    IN  IF cnt > 0 /\ next + cnt > ItemCount(f, p)
        THEN [cnt |-> 0, next |-> next, array |-> a, panic |-> TRUE]
        ELSE [cnt |-> cnt, next |-> next + cnt, panic |-> FALSE,
              array |-> IF f.nullable
                        THEN [b EXCEPT !.valid = SubSeq(p.bitmap, next + 1, next + cnt)]
                        ELSE b]

\* RleBlockIterator over r: row is cur_row, scanned cur_scanned_count, total
\* row_scanned_count, fresh never_used; rows bounds the iterator of the values.
NewRleIter(rows) ==
    [rows |-> rows, next |-> 0, row |-> 0, scanned |-> 0, total |-> 0, fresh |-> TRUE,
     elem |-> Null, panic |-> FALSE]

RleCount(r, it) == DecodeCount(r.counts[it.row + 1])

RleRemaining(r, it) == FoldLeft(LAMBDA n, c : n + DecodeCount(c), 0, r.counts) - it.total

\* get_next_element; the element stays when there is none.
NoElement(it) == it.next >= it.rows

TakeElement(it, got) ==
    [it EXCEPT !.next = got.next, !.panic = @ \/ got.panic,
               !.elem = IF got.cnt = 0 THEN @ ELSE Contents(got.array)[1]]

NextElement(f, r, it) ==
    TakeElement(it, PlainNext(f, r.inner, it.rows, it.next, 1, NewArray))

\* The loop of next_batch: cnt rows are still wanted.
RECURSIVE RleRows(_, _, _, _, _)
RleRows(f, r, it, cnt, items) ==
    IF cnt = 0 \/ it.panic THEN [it |-> it, items |-> items]
    ELSE IF it.scanned < RleCount(r, it)
    THEN RleRows(f, r, [it EXCEPT !.scanned = @ + 1, !.total = @ + 1], cnt - 1,
                 Append(items, it.elem))
    ELSE LET moved == [it EXCEPT !.row = @ + 1, !.scanned = 0]
         IN  IF moved.row >= Len(r.counts) \/ NoElement(it) THEN [it |-> moved, items |-> items]
             ELSE RleRows(f, r, NextElement(f, r, moved), cnt, items)

RleNext(f, r, it, want) ==
    IF it.row >= Len(r.counts) THEN [it |-> it, items |-> <<>>]
    ELSE IF it.fresh /\ NoElement(it) THEN [it |-> [it EXCEPT !.fresh = FALSE], items |-> <<>>]
    ELSE RleRows(f, r, IF it.fresh THEN NextElement(f, r, [it EXCEPT !.fresh = FALSE]) ELSE it,
                 want, <<>>)

\* The loop of skip: runs counts the runs gone past.
RECURSIVE RleSkipRuns(_, _, _, _)
RleSkipRuns(r, it, cnt, runs) ==
    LET left == RleCount(r, it) - it.scanned
        past == [it EXCEPT !.row = @ + 1, !.scanned = 0, !.total = @ + left]
    IN  IF cnt = 0 THEN [it |-> it, runs |-> runs]
        ELSE IF left > cnt
        THEN [it |-> [it EXCEPT !.scanned = @ + cnt, !.total = @ + cnt], runs |-> runs]
        ELSE IF past.row >= Len(r.counts) THEN [it |-> past, runs |-> runs + 1]
        ELSE RleSkipRuns(r, past, cnt - left, runs + 1)

\* Mutant of RleSkip: the values of the runs gone past are not skipped.
RleSkipKeeps(f, r, it, cnt) ==
    LET s == RleSkipRuns(r, it, cnt, 0)
    IN  IF s.runs = 0 THEN s.it ELSE NextElement(f, r, s.it)

RleSkip(f, r, it, cnt) ==
    LET s == RleSkipRuns(r, it, cnt, 0)
    IN  IF s.runs = 0 THEN s.it
        ELSE NextElement(f, r, [s.it EXCEPT !.next = @ + s.runs - 1])
-----------------------------------------------------------------------------
(* The iterator get_iterator_for makes over a block of rows rows.          *)
\* Every run length of the block can be decoded.
CountsDecode(f, blk) ==
    CASE f.encode = "Plain"      -> TRUE
      [] f.encode = "RunLength"  -> \A c \in Range(blk.counts) : CountDecodes(c)
      [] f.encode = "Dictionary" -> \A c \in Range(blk.codes.counts) : CountDecodes(c)

\* The values of a nullable run-length block of primitives are bounded by the rows
\* of the block, and by the number of runs elsewhere.
NewBlockIter(f, blk, rows) ==
    CASE f.encode = "Plain"      -> [rows |-> rows, next |-> 0, panic |-> FALSE]
      [] f.encode = "RunLength"  -> NewRleIter(IF f.nullable /\ f.kind = "primitive"
                                               THEN rows ELSE Len(blk.counts))
      [] f.encode = "Dictionary" -> NewRleIter(Len(blk.codes.counts))

\* DictBlockIterator::new reads the whole dictionary.
Dictionary(f, blk) ==
    Contents(PlainNext(f, blk.inner, blk.size, 0, blk.size, NewArray).array)

Decoded(values, got) ==
    [got EXCEPT !.items = [i \in DOMAIN @ |-> IF @[i] = <<0>> THEN Null ELSE values[@[i][1]]]]

\* What next_batch of a block iterator returns, with the iterator after it.
PlainBatch(it, got) ==
    [it |-> [it EXCEPT !.next = got.next, !.panic = got.panic],
     cnt |-> got.cnt, array |-> got.array]

RleBatch(a, got) == [it |-> got.it, cnt |-> Len(got.items), array |-> Push(a, got.items)]

BlockNext(f, blk, it, want, a) ==
    CASE f.encode = "Plain"      -> PlainBatch(it, PlainNext(f, blk, it.rows, it.next, want, a))
      [] f.encode = "RunLength"  -> RleBatch(a, RleNext(f, blk, it, want))
      [] f.encode = "Dictionary" ->
            RleBatch(a, Decoded(Dictionary(f, blk),
                                RleNext(CodeFormat(f), blk.codes, it, want)))

BlockSkip(f, blk, it, cnt) ==
    CASE f.encode = "Plain"      -> [it EXCEPT !.next = @ + cnt]
      [] f.encode = "RunLength"  -> RleSkip(f, blk, it, cnt)
      [] f.encode = "Dictionary" -> RleSkip(CodeFormat(f), blk.codes, it, cnt)

BlockRemaining(f, blk, it) ==
    CASE f.encode = "Plain"      -> it.rows - it.next
      [] f.encode = "RunLength"  -> RleRemaining(blk, it)
      [] f.encode = "Dictionary" -> RleRemaining(blk.codes, it)
=============================================================================
