SPECIFICATION FairSpec
CONSTANTS
    Ops = {o1, o2, o3}
    Auths = {a1}
    Processes = {n1, n2}
    o1 = o1
    o2 = o2
    o3 = o3
    a1 = a1
    n1 = n1
    n2 = n2
    Nil = Nil
    ProcessOf <- TwoAndOne
INVARIANTS
    TypeOK
    ConsumedOncePerUnconsume
PROPERTIES
    StoresImplementContract
    OperationsReturn
