SPECIFICATION FairSpec
CONSTANTS
    ReadTasks = {r1, r2, r3}
    WriteTasks = {w1}
    Clients = {c1}
    Workers = {k1, k2}
    Owner = o
    Drainers = {o, d}
    MaxReaders = 2
    NoTask = NoTask
INVARIANTS GateInv Exclusion
PROPERTIES DrainIsExact ImplementsFairLock AcceptedRuns StopTerminates
