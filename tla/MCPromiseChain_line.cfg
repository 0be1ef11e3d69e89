SPECIFICATION Spec
CONSTANTS
    r = r
    s = s
    a = a
    b = b
    f = f
    p1 = p1
    n3 = n3
    Layers = {r, p1, s, b, f}
    Mode <- ModeLine
    Up <- UpLine
    Child <- ChildLine
    Notices = {}
    Target <- NoTargets
    OnNotices = {}
    Awaiters = {}
    Awaited <- NoTargets
    TimedAwaiters = {}
    Users = {u1}
    Workers = {k1, k2}
    MaxInlineDepth = 1
    None = None
SYMMETRY ThreadSymmetry
INVARIANTS ChainInv InlineSafe NothingStranded
