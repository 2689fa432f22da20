------------------------------ MODULE MCColumn ------------------------------
(* Small RowSets for every format of the value column.                     *)
EXTENDS Column

Ints == {<<1>>, <<2>>}

IntFormat(encode, nullable) ==
    [kind |-> "primitive", encode |-> encode, nullable |-> nullable, width |-> 1,
     cell |-> 4, target |-> 8]

CharFormat(encode, nullable) ==
    [kind |-> "char", encode |-> encode, nullable |-> nullable, width |-> 2,
     cell |-> 1, target |-> 5]

BlobFormat(encode, nullable) ==
    [kind |-> "blob", encode |-> encode, nullable |-> nullable, width |-> 0,
     cell |-> 1, target |-> 10]

VarcharFormat(encode, nullable) == [BlobFormat(encode, nullable) EXCEPT !.kind = "varchar"]

VectorFormat(encode, nullable) ==
    [kind |-> "vector", encode |-> encode, nullable |-> nullable, width |-> 0,
     cell |-> 8, target |-> 36]

Encodings == {"Plain", "RunLength", "Dictionary"}

\* Two values, one of them short or empty, and NULL where the column takes it.
Rows(values, nullable) ==
    [key : {<<1>>}, value : values \cup IF nullable THEN {Null} ELSE {}]

Load1(format, values, sorted, read, corrupt, checksum) ==
    [formats |-> [key |-> IntFormat(format.encode, FALSE), value |-> format],
     sorted |-> sorted, read |-> read, corrupt |-> corrupt, checksum |-> checksum,
     rows |-> values, max |-> 4, direct |-> FALSE]

Encoded ==
    UNION {{Load1(IntFormat(e, n), Rows(Ints, n), FALSE, {"value"}, FALSE, "Crc32"),
            Load1(CharFormat(e, n), Rows({<<>>, <<7, 7>>}, n), FALSE, {"value"}, FALSE, "Crc32"),
            Load1(VarcharFormat(e, n), Rows({<<>>, <<7, 7>>}, n), FALSE, {"value"}, FALSE, "Crc32")} :
              e \in Encodings, n \in BOOLEAN}

Blobs ==
    {Load1(BlobFormat(e, n), Rows({<<7, 7>>}, n), FALSE, {"value"}, FALSE, "Crc32") :
        e \in Encodings, n \in BOOLEAN}

Vectors ==
    {Load1(VectorFormat(e, n), Rows({<<1>>, <<2>>}, n), FALSE, {"value"}, FALSE, "Crc32") :
        e \in {"Plain", "Dictionary"}, n \in BOOLEAN}

Sorted ==
    {Load1(IntFormat(e, FALSE), [key : Ints, value : Ints], TRUE, {"key", "value"}, FALSE,
           "Crc32") : e \in {"Plain", "RunLength"}}

Corrupting ==
    {Load1(IntFormat("Plain", FALSE), {[key |-> <<1>>, value |-> <<1>>]}, FALSE, {"value"},
           TRUE, k) : k \in {"Crc32", "None"}}

\* A run as long as the counter allows, and longer, in a block that has room for it.
Runs ==
    {[Load1([IntFormat(e, n) EXCEPT !.target = 16], {[key |-> <<1>>, value |-> <<1>>]}, FALSE,
            {"value"}, FALSE, "Crc32") EXCEPT !.max = 7] :
        e \in {"RunLength", "Dictionary"}, n \in BOOLEAN}

\* Dictionary blocks of more than one row: a column builder finishes them after one.
Direct ==
    {[Load1(BlobFormat("Dictionary", TRUE), Rows({<<>>, <<7, 7>>}, TRUE), FALSE, {"value"}, FALSE,
            "Crc32") EXCEPT !.direct = TRUE]}

Tables == Direct \cup Runs \cup Encoded \cup Blobs \cup Vectors \cup Sorted \cup Corrupting
=============================================================================
