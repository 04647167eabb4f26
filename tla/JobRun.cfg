\* One run of a job with every kind of step, upload and cache entry, and what
\* makes it end.
SPECIFICATION Spec
CONSTANTS
    Steps <- MCSteps
    Artifacts = {"on_success", "on_failure", "always"}
    Caches = {"on_success", "on_failure"}
    SourceAttempts = 2
    ReportAttempts = 3
INVARIANTS
    TypeOK
    VerdictIsEarned
    AfterScriptKnows
    CancelIsNotOurs
    CachesMatchVerdict
    FinishedIsFinal
PROPERTIES
    AbortEndsRun
    GoneEndsRun
    DeadlinesEndRun
