\* A success without its artifacts.
SPECIFICATION Spec
CONSTANTS
    Steps <- PlainSteps
    Artifacts = {"on_success"}
    Caches = {}
    SourceAttempts = 1
    ReportAttempts = 2
INVARIANT
    SuccessHasArtifacts
