\* Retried, late and lost requests, a limit, and a cancellation.
CONSTANTS
    Limit = 3
    MaxAttempts = 3
    FinishAttempts = 2
    MaxOutput = 4
    MaxFlushes = 3
SPECIFICATION Spec
INVARIANTS
    TypeOK
    LogIsPrefix
    AckedIsStored
    CompleteIsStored
    TraceIsOutput
PROPERTIES
    NeverUnacknowledged
    FinishReturns
    ImplementsJobLog
