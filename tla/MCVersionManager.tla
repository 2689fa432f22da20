-------------------------- MODULE MCVersionManager --------------------------
(***************************************************************************)
(* Model checking of VersionManager: one table whose RowSets 0 and 1 were  *)
(* recovered at start.  The clients are interchangeable.                   *)
(***************************************************************************)
EXTENDS VersionManager, TLC

CONSTANTS c1, c2, t1

MCRecovered == {<<t1, 0>>, <<t1, 1>>}

Symmetry == Permutations(Client)
=============================================================================
