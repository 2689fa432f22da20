SPECIFICATION RSpec
CONSTANTS
    p1 = p1
    p2 = p2
    x = x
    y = y
    Proc = {p1}
    Name = {x, y}
    Workloads <- Restarts
    MaxFailures = 2
SYMMETRY Symmetry
INVARIANTS RestartRestores LiveFilesExist
PROPERTIES CrashAtomic NewFilesAreNew
CHECK_DEADLOCK FALSE
