SPECIFICATION RunnerSpec
CONSTANTS
    OutLines <- MCOutLines
    ErrLines <- MCErrLines
    PipeCap <- MCPipeCap
PROPERTY CancelStops
