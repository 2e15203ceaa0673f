SPECIFICATION Spec
CONSTANTS
    Members = {1, 2, 3, 4, 5, 6, 7}
    Scores = {1, 2}
    Absent = Absent
    Keys = {a, b}
    Deadlines = {1, 2}
    Nothing = Nothing
    InitialCap = 4
    MaxEntries = 6
    k1 = k1
    k2 = k2
    k3 = k3
    k4 = k4
    k5 = k5
    DictKeys = {k1, k2, k3, k4, k5}
    Vals = {v1}
    Hash <- MCHash
    None = None
    ChunkSize = 2
    MaxChunks = 2
    BufSize = 2
    MaxBytes = 3
    MaxTime = 2
INVARIANTS
    TypesOK
    Balanced
    InStep
    RanksAgree
    RangeIsFramed
    HeapOrdered
    Placed
    PoolSound
    Ordered
    EverysecHolds
PROPERTIES
    ImplementsQueue
    ImplementsMap
