SPECIFICATION SSpec
CONSTANTS
    i1 = i1
    i2 = i2
    i3 = i3
    d1 = d1
    d2 = d2
    s1 = s1
    s2 = s2
    q1 = q1
    p1 = p1
    k1 = k1
    t1 = t1
    a = a
    b = b
    x = x
    y = y
    NoClient = NoClient
    Client = {i1, i2, i3, d1, s1, d2, s2, k1}
    Inserter = {i1, i2, i3}
    Deleter = {d1, d2}
    Reader = {}
    Dropper = {}
    Compactor = {k1}
    Workloads = {{i3, k1}, {i1, i2, k1}, {i1, d1, s1, d2, s2}}
    Table = {t1}
    Row = {a, b, i1, i2, i3, x, y}
    Recovered <- MCRecovered
    RecoveredRows <- MCRecoveredRows
    TableOf <- MCTableOf
    Inserted <- MCInserted
    Target <- MCTarget
    ScanOf <- MCScanOf
    TargetSize = 2
    FirstRowset = 2
    MaxRowset = 5
    MaxDv = 4
    MaxEpoch = 5
    MaxRounds = 2
PROPERTIES ImplementsTable
CHECK_DEADLOCK FALSE
