SPECIFICATION Spec
CONSTANTS
    Tasks = {t1, t2}
    Clients = {c1}
    Workers = {k1}
    MaxStarts = 1
    None = None
INVARIANTS StopLeavesNothingQueued
