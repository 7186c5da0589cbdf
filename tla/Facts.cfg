SPECIFICATION FairSpec
CONSTANTS
    Writers = {p, q}
    Keys = {k, l}
    MaxLocks <- MCMaxLocks
INVARIANT TypeOK
PROPERTY ImplementsMap
