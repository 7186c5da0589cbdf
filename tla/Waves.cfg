SPECIFICATION FairSpec
CONSTANTS
    Tasks = {a, b, c}
    ghost = x
    Names <- MCNames
    Fallible = {a, b, c}
INVARIANTS
    TypeOK
    PlanIsSound
    EarliestWave
    AcceptsTheOrderable
    WavesInOrder
    ExitCodeIsTrue
    ReasonIsTrue
PROPERTIES
    ImplementsContract
    ImplementsTasks
    Terminates
