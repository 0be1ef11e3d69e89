SPECIFICATION MCSpec
CONSTANTS
    m1 = m1
    m2 = m2
    m3 = m3
    m4 = m4
    i1 = i1
    i2 = i2
    i3 = i3
    n1 = n1
    NoKey = NoKey
    Modules = {m1, m2, m3, m4}
    Iids = {i1, i2, i3}
    NameOf <- NamesFour
    DepsChoices <- AllDeps
    MaxStarts = 3
INVARIANTS RegistryInv LifeCycleInv AssemblyOrdered
PROPERTIES DependencyOrder
