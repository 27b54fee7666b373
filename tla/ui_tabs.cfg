SPECIFICATION FairSpec
CONSTANTS
    Namespaces = {n1}
    Tabs = {t1, t2}
    Values = {v1, v2, v3}
    SessionNames = {s1}
    Denied = {t2}
    Deep = TRUE
    MaxFaults = 0
    MaxIdles = 1
    MaxLapses = 0
INVARIANT TypeOK WaitMeansWoken
PROPERTY LiveSessionKept ReachesPage ImplementsRouter
