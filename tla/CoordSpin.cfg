SPECIFICATION FairSpec
CONSTANTS
    Tasks = {a, b}
    Callers = {p}
    Cap = 2
    Fallible = {}
PROPERTY CancelReachesTasks
