SPECIFICATION FairSpec
CONSTANTS
    Namespaces = {n1}
    Tabs = {t1}
    Values = {v1, v2, v3, v4}
    SessionNames = {s1}
    Denied = {t1}
    Deep = FALSE
    MaxFaults = 0
    MaxIdles = 0
    MaxLapses = 0
PROPERTY AnswerProxied
