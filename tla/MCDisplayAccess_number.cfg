\* Two monitors with one EDID, and a call that names the second by both.
SPECIFICATION Spec
CONSTANTS
    c1 = c1
    c2 = c2
    d1 = d1
    d2 = d2
    d3 = d3
    Client = {c1, c2}
    Lists <- TwinLists
    Requests <- BothIdentifiers
    MaxWrites = 2
    None = None
PROPERTY NumberTakesPrecedence
