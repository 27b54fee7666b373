SPECIFICATION FairSpec
CONSTANTS
    Namespaces = {n1}
    Requests = {r1}
    Servers = {jenkinsAPI, proxy}
    JenkinsAPIPort = jenkinsAPI
    StatsLogger = logger
    ShutdownTimeout = 5
    MaxFaults = 0
    MaxIdles = 0
PROPERTY GracefulShutdown
CHECK_DEADLOCK FALSE
