\* Two calls at a time of every kind, and monitors that are plugged in again.
SPECIFICATION FairSpec
CONSTANTS
    c1 = c1
    c2 = c2
    d1 = d1
    d2 = d2
    d3 = d3
    Client = {c1, c2}
    Lists <- Swapped
    Requests <- MixedRequests
    MaxWrites = 1
    None = None
INVARIANTS
    TypeOK
    SignalsInOrder
    DetectIsFresh
PROPERTIES
    FlagIsOwn
    WritesAreCurrent
    CallsComplete
