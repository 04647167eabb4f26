\* Every wait, one at a time.
CONSTANTS
    Parts = {"s3", "images", "services", "script", "artifacts", "requests"}
    j1 = j1
    j2 = j2
    j3 = j3
    NoJob = NoJob
SPECIFICATION Spec
PROPERTIES
    ServicesAreAwaited
    JobsAreNotForgotten
    StuckWorkEnds
CHECK_DEADLOCK FALSE
