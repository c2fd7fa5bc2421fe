\* One client asks for a write without verification.
SPECIFICATION Spec
CONSTANTS
    c1 = c1
    c2 = c2
    d1 = d1
    d2 = d2
    d3 = d3
    Client = {c1, c2}
    Lists <- Swapped
    Requests <- OneWrite
    MaxWrites = 1
    None = None
PROPERTY NoVerifyHonoured
