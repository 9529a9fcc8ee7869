\* A web image shared by two users at a time (orca.users.concurrent = 2,
\* orca.users.total = -1) and four users asking for it: two elections in a
\* row let a container that already bid keep its candidates channel.
CONSTANTS
    c1 = c1  c2 = c2  c3 = c3
    r1 = r1  r2 = r2  r3 = r3  r4 = r4
    None = None
    Containers <- MCContainers2
    Requesters <- MCRequesters4
    ConcurrentUsers = 2
    TotalUsers <- Unlimited
    LaunchAttempts = 1
    SessionScoped = FALSE
    ShutdownPossible = FALSE
SPECIFICATION Spec
SYMMETRY Symmetry4
INVARIANT BoundWithinCapacity
CHECK_DEADLOCK FALSE
