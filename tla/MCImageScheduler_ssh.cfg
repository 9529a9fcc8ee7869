\* SSH image defaults: orca.users.concurrent = 1, orca.users.total = 1 (one
\* user per container, for its whole life), each container's lifecycle and
\* each getContainer call under the jc of the SSH session that asked for it,
\* sessions free to end at any point.  Two launch attempts exercise the
\* retry loop.  Deadlock is not checked: once every request is over and
\* every container gone, nothing is left to do.
CONSTANTS
    c1 = c1  c2 = c2  c3 = c3
    r1 = r1  r2 = r2  r3 = r3  r4 = r4
    None = None
    Containers <- MCContainers2
    Requesters <- MCRequesters2
    ConcurrentUsers = 1
    TotalUsers = 1
    LaunchAttempts = 2
    SessionScoped = TRUE
    ShutdownPossible = FALSE
SPECIFICATION Spec
PROPERTY ContainersReclaimed
CHECK_DEADLOCK FALSE
