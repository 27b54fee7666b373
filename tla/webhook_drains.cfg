SPECIFICATION FairSpec
CONSTANTS
    h1 = h1
    h2 = h2
    nsA = nsA
    nsB = nsB
    p1 = p1
    p2 = p2
    Hooks = {h1, h2}
    Namespaces = {nsA, nsB}
    Poison = {h1}
    Proxies = {p1}
    Lookup <- TwoOwners
    Routable = {nsA, nsB}
    MaxRequestRetry = 1
    MaxFaults = 0
    MaxIdles = 1
    MaxCrashes = 0
INVARIANTS
    RetryBound
PROPERTIES
    BufferDrains
