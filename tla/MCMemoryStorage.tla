--------------------------- MODULE MCMemoryStorage ---------------------------
(***************************************************************************)
(* Model checking of MemoryStorage.                                        *)
(***************************************************************************)
EXTENDS MemoryStorage, TLC

Symmetry == Permutations(Deleter) \cup Permutations(Dropper)
=============================================================================
