SPECIFICATION VMSpec
CONSTANTS
    c1 = c1
    c2 = c2
    t1 = t1
    Client = {c1, c2}
    NoClient = NoClient
    Table = {t1}
    Recovered <- MCRecovered
    FirstRowset = 2
    MaxRowset = 3
    MaxDv = 1
    MaxEpoch = 3
SYMMETRY Symmetry
INVARIANTS PinnedFilesExist CommitBaseIsCurrent NoLostWakeup
PROPERTIES DeletedStaysDeleted
