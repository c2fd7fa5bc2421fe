\* Every display and every table of the instance, every failure.
CONSTANTS
    f1 = f1
    f2 = f2
    v1 = v1
    v2 = v2
    a = a
    b = b
    Feature <- MCFeature
    Value <- MCValue
    Name <- MCName
    Declared <- MCDeclared
    Table <- MCTable
SPECIFICATION Spec
INVARIANTS
    TypeOK
    AliveWhileUsed
    NothingLeaks
    ReplyIsRight
CHECK_DEADLOCK FALSE
