SPECIFICATION FairSpec
CONSTANTS
    Namespaces = {n1, n2}
    Tabs = {t1}
    Values = {v1, v2, v3}
    SessionNames = {s1, s2}
    Denied = {}
    Deep = TRUE
    MaxFaults = 2
    MaxIdles = 2
    MaxLapses = 1
INVARIANT RoutedToIssuer
PROPERTY ReachesPage ImplementsRouter
