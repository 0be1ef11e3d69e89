SPECIFICATION FairSpec
CONSTANTS
    r = r
    s = s
    a = a
    b = b
    f = f
    p1 = p1
    n3 = n3
    Layers = {s, a}
    Mode <- ModeNotices
    Up <- UpNotices
    Child <- NoChild
    Notices = {n1, n2, n3}
    Target <- TargetsNotices
    OnNotices = {n3}
    Awaiters = {x1}
    Awaited <- AwaitA
    TimedAwaiters = {x1}
    Users = {u1}
    Workers = {k1}
    MaxInlineDepth = 2
    None = None
INVARIANTS ChainInv ObserversInv
PROPERTIES SettledForGood ChainProgress
