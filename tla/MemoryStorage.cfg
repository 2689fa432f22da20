SPECIFICATION MSpec
CONSTANTS
    Creator = {c1}
    Dropper = {o1, o2}
    Inserter = {i1}
    Deleter = {d1, d2}
    Reader = {r1}
    Workloads = {{i1, d1, d2}, {i1, d1, r1}, {c1, o1, o2, i1}, {c1, o1, d1}}
    MaxTable = 2
    MaxChunks = 2
    MaxRows = 1
SYMMETRY Symmetry
PROPERTIES ImplementsTable
CHECK_DEADLOCK FALSE
