SPECIFICATION Spec
CONSTANTS
    Workers = {w1, w2, w3}
    Tasks = {t1, t2, t3}
    Main = Main
    Null = Null
    MaxSpurious = 1
INVARIANTS
    TypeOK
    ListSound
    AwakeWhenNeeded
    PoolOutlivesWorkers
PROPERTIES
    ImplementsTaskPool
    ShutdownReturns
