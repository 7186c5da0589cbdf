SPECIFICATION Spec
CONSTANTS
    Messages = {m, n, o}
    Threads = {t, u}
    Pieces <- MCPieces
    MaxCleans <- MCMaxCleans
SYMMETRY Symmetry
INVARIANTS
    TypeOK
    ListIsTrue
