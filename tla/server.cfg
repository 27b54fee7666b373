SPECIFICATION FairSpec
CONSTANTS
    Namespaces = {n1}
    Requests = {r1, r2}
    Servers = {jenkinsAPI, proxy}
    JenkinsAPIPort = jenkinsAPI
    StatsLogger = logger
    ShutdownTimeout = 1
    MaxFaults = 1
    MaxIdles = 1
INVARIANT TypeOK StartWakes
PROPERTY AllOrNothing RequestsEnd
CHECK_DEADLOCK FALSE
