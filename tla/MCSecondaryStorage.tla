------------------------- MODULE MCSecondaryStorage -------------------------
(***************************************************************************)
(* Model checking of SecondaryStorage.  One table with two recovered       *)
(* RowSets of one row each; an INSERT adds the row named after it, and i3  *)
(* two more, which fill a second RowSet; a DELETE removes row a and, if it *)
(* sees it, the row of i1.                                                 *)
(***************************************************************************)
EXTENDS SecondaryStorage

CONSTANTS i1, i2, i3, d1, d2, s1, s2, q1, p1, k1, t1, a, b, x, y

MCRecovered == {<<t1, 0>>, <<t1, 1>>}

MCRecoveredRows == [r \in MCRecovered |-> IF r[2] = 0 THEN <<a>> ELSE <<b>>]

MCTableOf == [c \in Client |-> t1]

MCInserted == [c \in Inserter |-> IF c = i3 THEN <<c, x, y>> ELSE <<c>>]

MCTarget == [d \in Deleter |-> {a, i1}]

MCScanOf == [d \in Deleter |-> IF d = d1 THEN s1 ELSE s2]
=============================================================================
