\* A run that ends without its report.
SPECIFICATION Spec
CONSTANTS
    Steps <- PlainSteps
    Artifacts = {}
    Caches = {}
    SourceAttempts = 1
    ReportAttempts = 2
INVARIANT
    AlwaysReports
