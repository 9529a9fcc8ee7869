\* A web image shared by two users at a time, unlimited over its lifetime
\* (orca.users.concurrent = 2, orca.users.total = -1), with the process
\* free to be asked to shut down at any point.  One launch attempt: the
\* retry loop is exercised by MCImageScheduler_ssh.cfg.  Deadlock is not
\* checked: the lifecycle hang NoHungLifecycle reports stops the system.
\* Two container identities for three users: a third launch can only fail,
\* as a Docker error would make it.
CONSTANTS
    c1 = c1  c2 = c2  c3 = c3
    r1 = r1  r2 = r2  r3 = r3  r4 = r4
    None = None
    Containers <- MCContainers2
    Requesters <- MCRequesters
    ConcurrentUsers = 2
    TotalUsers <- Unlimited
    LaunchAttempts = 1
    SessionScoped = FALSE
    ShutdownPossible = TRUE
SPECIFICATION Spec
SYMMETRY Symmetry
INVARIANT TypeOK
INVARIANT ReservationsAccounted
CHECK_DEADLOCK FALSE
