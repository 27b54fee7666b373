SPECIFICATION Spec
CONSTANTS
    h1 = h1
    h2 = h2
    nsA = nsA
    nsB = nsB
    p1 = p1
    p2 = p2
    Hooks = {h1}
    Namespaces = {nsA}
    Poison = {}
    Proxies = {p1}
    Lookup <- OneOwner
    Routable = {nsA}
    MaxRequestRetry = 1
    MaxFaults = 0
    MaxIdles = 1
    MaxCrashes = 0
INVARIANTS
    BufferedIfUnavailable
