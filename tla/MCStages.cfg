\* Every stage of a job, one at a time.
CONSTANTS
    Parts = {"variables", "checkout", "cache keys", "images", "extraction",
             "deadlines", "script", "words", "signs", "artifacts"}
    Nobody = Nobody
    private = private
    common = common
SPECIFICATION Spec
PROPERTIES
    WorkspaceIsOwn
    NothingIsForeign
    FilesArriveWhole
    DeadlinesHold
    OutputIsShownAndMasked
CHECK_DEADLOCK FALSE
