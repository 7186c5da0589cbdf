SPECIFICATION FairSpec
CONSTANTS
    Tasks = {a, b}
    Callers = {p, q}
    Cap = 2
    Fallible = {a}
INVARIANTS
    QueueInOrder
    RunVerdictIsTrue
PROPERTIES
    MetaMonotone
    ImplementsTasks
    ImplementsContract
    StopFinishes
    KnownSettles
