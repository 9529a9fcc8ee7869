\* Docker may never answer a removal: Force must still end the shutdown.
CONSTANTS
    s1 = s1
    s2 = s2
    Sessions <- MCSessions
    r1 = r1
    Requests <- MCRequests
    RequestDeadlineSet = TRUE
    DemandDeadlineSet = TRUE
    DockerMayHang = TRUE
SPECIFICATION Spec
PROPERTY ForcedShutdownCompletes
\* After main returns nothing runs: the process may stop.
CHECK_DEADLOCK FALSE
