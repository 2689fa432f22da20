---------------------------- MODULE MCTableScan ----------------------------
(***************************************************************************)
(* Model checking of TableScan.                                            *)
(***************************************************************************)
EXTENDS TableScan

\* The ways to cut n rows into blocks of at most 3.
Layouts(n) == {col \in UNION {[1 .. k -> 1 .. 3] : k \in 1 .. n} : RowsIn(col, Len(col)) = n}

RowSets(keys, layouts, dvs) ==
    {[keys |-> keys, cols |-> <<l1, l2>>, dv |-> dv] : l1, l2 \in layouts, dv \in dvs}

Scan(rowsets, refs, range, size, sorted) ==
    [rowsets |-> rowsets, refs |-> refs, range |-> range, size |-> size, sorted |-> sorted]

Included(k) == [key |-> k, included |-> TRUE]

Excluded(k) == [key |-> k, included |-> FALSE]

Ranges ==
    {[start |-> s, end |-> e] : s \in {NoBound, Included(2), Excluded(2), Included(4)},
                                e \in {NoBound, Included(3), Excluded(2)}}

\* Every layout and every set of deleted rows of one RowSet of four rows.
OneRowset ==
    {Scan(<<rs>>, refs, range, size, FALSE) :
        rs \in RowSets(<<1, 2, 3, 4>>, Layouts(4), SUBSET (0 .. 3)),
        refs \in {<<1, 2>>, <<1, RowHandler>>}, range \in Ranges, size \in {NoSize, 2}}

Small(keys) == {[keys |-> keys, cols |-> <<col, col>>, dv |-> dv] :
                   col \in Layouts(2), dv \in {{}, {0}}}

\* Three RowSets whose keys overlap, concatenated and merged.
ThreeRowsets ==
    {Scan(<<r1, r2, r3>>, <<1, 2>>, Unfiltered, NoSize, sorted) :
        r1 \in Small(<<1, 3>>) \cup Small(<<2, 2>>), r2 \in Small(<<2, 3>>) \cup Small(<<1, 2>>),
        r3 \in Small(<<1, 1>>) \cup Small(<<3, 4>>), sorted \in BOOLEAN}


\* A key that occurs at the end of one block and at the beginning of the next.
EqualKeys == {Scan(<<rs>>, <<1, 2>>, range, NoSize, FALSE) :
                rs \in RowSets(<<1, 2, 2, 3>>, Layouts(4), {{}}), range \in Ranges}

AllScans == OneRowset \cup ThreeRowsets \cup EqualKeys
=============================================================================
