SPECIFICATION MCSpec
CONSTANTS
    Tasks = {t1, t2, t3}
    Clients = {c1}
    Workers = {k1, k2, k3}
    MaxStarts = 2
    None = None
    MaxChildren = 3
    TimerUsers = {u1}
    TimerNames = {"tick"}
    IoThread = io
    MaxId = 2
    MaxTimerStarts = 2
    MaxFires = 2
    Awaits <- AwaitsTwo
    Kinds <- KindsThree
    MaxInline = 1
INVARIANTS PoolInv GatherInv TimerInv CoroutineInv
PROPERTIES PoolProgress PromisesKept
