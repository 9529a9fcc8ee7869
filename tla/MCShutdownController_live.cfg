\* main's configuration: both deadlines set, Docker answers every removal.
CONSTANTS
    s1 = s1
    s2 = s2
    Sessions <- MCSessions
    r1 = r1
    Requests <- MCRequests
    RequestDeadlineSet = TRUE
    DemandDeadlineSet = TRUE
    DockerMayHang = FALSE
SPECIFICATION Spec
INVARIANT TypeOK
PROPERTY StatusNeverRegresses
PROPERTY ShutdownCompletes
\* After main returns nothing runs: the process may stop.
CHECK_DEADLOCK FALSE
