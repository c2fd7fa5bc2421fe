\* Two clients, seven kinds of call, a list that changes at any moment.
SPECIFICATION Spec
CONSTANTS
    c1 = c1
    c2 = c2
    d1 = d1
    d2 = d2
    d3 = d3
    Client = {c1, c2}
    Lists <- ChangingLists
    Requests <- MixedRequests
    MaxWrites = 2
    None = None
SYMMETRY Symmetry
INVARIANTS
    TypeOK
    HandleUnderLock
    VerifyAsAsked
    AnnouncedInOrder
    WritesReachNamed
