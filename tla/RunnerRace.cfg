SPECIFICATION Spec
CONSTANTS
    OutLines <- MCOutLines
    ErrLines <- MCErrLines
    PipeCap <- MCPipeCap
INVARIANT CompletedNotCancelled
