SPECIFICATION Spec
CONSTANTS
    ReadTasks = {r1, r2}
    WriteTasks = {w1, w2}
    Clients = {c1}
    Workers = {k1, k2}
    Owner = o
    Drainers = {o}
    MaxReaders = 0
    NoTask = NoTask
INVARIANTS NoDropWhenStopOrderKept
