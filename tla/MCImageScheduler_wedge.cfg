\* SSH image defaults (orca.users.concurrent = 1, orca.users.total = 1),
\* each getContainer call under the jc of its SSH session: a session that
\* ends while its election is collecting leaves the scheduler waiting on
\* electionStopC, and the other user's request is never served.
CONSTANTS
    c1 = c1  c2 = c2  c3 = c3
    r1 = r1  r2 = r2  r3 = r3  r4 = r4
    None = None
    Containers <- MCContainers2
    Requesters <- MCRequesters2
    ConcurrentUsers = 1
    TotalUsers = 1
    LaunchAttempts = 2
    SessionScoped = TRUE
    ShutdownPossible = FALSE
SPECIFICATION Spec
PROPERTY GetContainerReturns
CHECK_DEADLOCK FALSE
