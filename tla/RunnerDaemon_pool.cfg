\* Without kept workspaces: the loop, the permits, the slots and the drain.
CONSTANTS
    j1 = j1
    j2 = j2
    j3 = j3
    p1 = p1
    p2 = p2
    e1 = e1
    e2 = e2
    Jobs <- MCJobs
    Projects <- MCProjects
    ProjectOf <- TwoProjects
    ProtectionOf <- UnknownThird
    Concurrent = 2
    KeepWorkspaces = FALSE
    Leftover <- NoLeftover
    Evictors = {}
SPECIFICATION Spec
INVARIANTS
    TypeOK
    PermitConservation
    DistinctIds
    IdsBelowConcurrent
    StopsClean
PROPERTIES
    ShutdownStops
    KeepsPolling
    ImplementsJobPool
