SPECIFICATION ProgramSpec
CONSTANTS
    m1 = m1
    m2 = m2
    i1 = i1
    i2 = i2
    n1 = n1
    NoKey = NoKey
    Modules <- AppModules
    Iids <- AppIids
    NameOf <- NamesApp
    DepsChoices <- DepsApp
    MaxStarts = 2
    ShutdownTimeouts = {5000}
INVARIANTS AppCallbackProtocol
CHECK_DEADLOCK FALSE
