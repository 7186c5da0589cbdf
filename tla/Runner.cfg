SPECIFICATION RunnerSpec
CONSTANTS
    OutLines <- MCOutLines
    ErrLines <- MCErrLines
    PipeCap <- MCPipeCap
INVARIANTS
    TypeOK
    VerdictIsTrue
    ReportedIsReaped
PROPERTIES
    SignalsOwnGroup
    ImplementsTask
    KillEnds
    Settles
