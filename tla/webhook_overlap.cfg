SPECIFICATION Spec
CONSTANTS
    h1 = h1
    h2 = h2
    nsA = nsA
    nsB = nsB
    p1 = p1
    p2 = p2
    Hooks = {h1}
    Namespaces = {nsA, nsB}
    Poison = {}
    Proxies = {p1, p2}
    Lookup <- MovedOwner
    Routable = {nsA}
    MaxRequestRetry = 1
    MaxFaults = 1
    MaxIdles = 1
    MaxCrashes = 1
INVARIANTS
    TypeOK
    AcceptedKept
    DuplicateBound
    OverlapRetryBound
    LossNeedsCause
PROPERTIES
    BufferedMeansWoken
    NoResurrection
    ImplementsMailbox
