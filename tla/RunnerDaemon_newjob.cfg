\* The unbiased select of the loop after a shutdown request.
CONSTANTS
    j1 = j1
    j2 = j2
    j3 = j3
    p1 = p1
    p2 = p2
    e1 = e1
    e2 = e2
    Jobs <- MCJobs
    Projects <- MCProjects
    ProjectOf <- OneProject
    ProtectionOf <- ProtectedThird
    Concurrent = 2
    KeepWorkspaces = TRUE
    Leftover <- OldWorkspace
    Evictors = {e1}
SPECIFICATION Spec
PROPERTY
    TakesNoNewJobs
