\* Web image, two users at a time: the idle timer fires while a bid is pending.
CONSTANTS
    c1 = c1  c2 = c2  c3 = c3
    r1 = r1  r2 = r2  r3 = r3  r4 = r4
    None = None
    Containers <- MCContainers
    Requesters <- MCRequesters
    ConcurrentUsers = 2
    TotalUsers <- Unlimited
    LaunchAttempts = 2
    SessionScoped = FALSE
    ShutdownPossible = FALSE
SPECIFICATION Spec
SYMMETRY Symmetry
INVARIANT NoHungLifecycle
CHECK_DEADLOCK FALSE
