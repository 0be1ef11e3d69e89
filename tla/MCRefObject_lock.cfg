SPECIFICATION RefSpec
CONSTANTS
    Holders = {h1, h2}
    Creator = h1
    MaxRefs = 2
INVARIANT LockNeverDangles
CHECK_DEADLOCK FALSE
