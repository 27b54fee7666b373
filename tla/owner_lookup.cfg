SPECIFICATION FairSpec
CONSTANTS
    Callers = {c1, c2}
    Users = {u1, u2}
    Namespaces = {n1, n2}
    Retry = 2
    TTL = 1
    Slow = 1
    MaxMoves = 1
INVARIANT TypeOK
PROPERTY FreshEnough OutageTolerated LookupEnds
