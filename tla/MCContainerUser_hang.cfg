CONSTANTS
    c1 = c1
    c2 = c2
    h1 = h1
    h2 = h2
    None = None
    CUs <- MCCUs
    Handlers <- MCHandlers
    MaxRestarts = 1
    Persist = FALSE
SPECIFICATION Spec
INVARIANT NoHungContainerUser
SYMMETRY Symmetry
CHECK_DEADLOCK FALSE
