SPECIFICATION SSpec
CONSTANTS
    i1 = i1
    i2 = i2
    i3 = i3
    d1 = d1
    d2 = d2
    s1 = s1
    s2 = s2
    q1 = q1
    p1 = p1
    k1 = k1
    t1 = t1
    a = a
    b = b
    x = x
    y = y
    NoClient = NoClient
    Client = {i1, d1, s1, q1, p1, k1}
    Inserter = {i1}
    Deleter = {d1}
    Reader = {q1}
    Dropper = {p1}
    Compactor = {k1}
    Workloads = {{i1, d1, s1, k1}, {i1, q1, p1, k1}, {d1, s1, p1, k1}}
    Table = {t1}
    Row = {a, b, i1, i2, i3, x, y}
    Recovered <- MCRecovered
    RecoveredRows <- MCRecoveredRows
    TableOf <- MCTableOf
    Inserted <- MCInserted
    Target <- MCTarget
    ScanOf <- MCScanOf
    TargetSize = 2
    FirstRowset = 2
    MaxRowset = 5
    MaxDv = 3
    MaxEpoch = 5
    MaxRounds = 1
INVARIANTS NoDuplicateRow
PROPERTIES Reopenable UsesVersionManager StatementsEnd DeletedFilesRemoved
CHECK_DEADLOCK FALSE
