\* Every component that is shared on a host, one at a time.
CONSTANTS
    Parts = {"one runner", "two runners", "cache", "shared cache", "s3", "token",
             "upgrade", "sizes", "registries"}
    both = both
    far = far
    none = none
    NoHost = NoHost
SPECIFICATION Spec
PROPERTIES
    DockerIsLeftClean
    CacheIsCurrent
    RunnerSurvivesKills
    SettingsAreUnderstood
CHECK_DEADLOCK FALSE
