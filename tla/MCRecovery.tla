----------------------------- MODULE MCRecovery -----------------------------
(***************************************************************************)
(* Model checking of Recovery.                                             *)
(***************************************************************************)
EXTENDS Recovery

CONSTANTS p1, p2, x, y

\* Names are interchangeable.
Symmetry == Permutations(Name)

Workload(statements, faults, tids, rowsets, dvs) ==
    [statements |-> statements, faults |-> faults,
     tids |-> tids, rowsets |-> rowsets, dvs |-> dvs]

\* Tables come and go; tables are compacted, to nothing at times, and dropped; everything
\* that is not persisted or fails to be.
Restarts ==
    {Workload({"create", "drop", "insert", "delete"}, {"torn"}, 2, 2, 1),
     Workload({"create", "drop", "insert", "delete", "compact"}, {}, 1, 3, 2),
     Workload({"create", "view", "index", "drop", "insert", "delete"}, {"torn", "error"},
              2, 1, 1)}
=============================================================================
