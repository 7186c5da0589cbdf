SPECIFICATION Spec
CONSTANTS
    Tasks = {a, b}
    Callers = {p}
    Cap = 2
    Fallible = {}
INVARIANT AcceptedIsReported
