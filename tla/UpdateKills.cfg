SPECIFICATION Spec
CONSTANTS
    Members = {1, 2}
    Scores = {1, 2}
    Absent = Absent
    Keys = {a}
    Deadlines = {1}
    Nothing = Nothing
    InitialCap = 4
    MaxEntries = 1
    k1 = k1
    k2 = k2
    k3 = k3
    k4 = k4
    k5 = k5
    DictKeys = {k1, k2, k3, k4, k5}
    Vals = {v1}
    Hash <- MCHash
    None = None
    ChunkSize = 1
    MaxChunks = 0
    BufSize = 1
    MaxBytes = 0
    MaxTime = 0
INVARIANT UpdateAnswered
