SPECIFICATION MCSpec
CONSTANTS
    Holders = {h1, h2}
    Creator = h1
    MaxRefs = 2
    EventTypes = {"net", "timer"}
    Publishers = {"p1"}
    AsyncWorker = "w"
    MaxSubscribes = 3
    MaxPublishes = 2
    Base = 2
    HeaderSize = 2
    MaxPacketSize = 2
    Connections = {"c1", "c2"}
    CmdEcho = 1
    CmdPing = 0
    CmdPong = 0
    Pong <- PongPayload
    MaxBytes = 6
    MaxHandlers = 3
    Tenants = {"t1", "t2"}
    ItemIds = {"a", "b", "c"}
    Sizes = {0, 1, 2}
    MaxItems = 2
    MaxTotalBytes = 3
    MaxItemBytes = 2
    MaxSaves = 4
    Capacities = {1, 3}
    MaxAppended = 6
    Radix = 2
    FieldsOf <- FieldsEach
    MaxFields = 2
    kSeedUserIds = {1}
    kFirstAutoId = 2
    MaxUserId = 4
    kMaxUpdateAttempts = 3
    Rivals <- RivalsTwo
    ConfigKeys = {"a", "b"}
    KeysIn <- KeysEvenOdd
    MaxEdits = 4
    LogThreads = {"l1", "l2"}
    kMaxBackupCount = 3
    FileLimits = {0, 1, 2}
    MaxLines = 6
    m1 = m1
    m2 = m2
    i1 = i1
    i2 = i2
    n1 = n1
    NoKey = NoKey
    Modules <- AppModules
    Iids <- AppIids
    NameOf <- NamesApp
    DepsChoices <- DepsApp
    MaxStarts = 2
    ShutdownTimeouts = {0, 5000}
INVARIANTS RefInv DispatchInv RouterInv StoreInv WireInv UsersInv ConfigInv LogInv
INVARIANTS AppInv CleanExit AssemblySound
PROPERTIES StopRequestEndsRun
CHECK_DEADLOCK FALSE
