\* Three displays, two with the same EDID, and every way to learn of hotplugging.
SPECIFICATION FairSpec
CONSTANTS
    ea = ea
    eb = eb
    Display = {1, 2, 3}
    Edid = {ea, eb}
    EdidOf <- SharedEdid
    Modes <- AllModes
    MaxChanges = 2
    MaxFaults = 1
INVARIANTS
    TypeOK
    
    WakeUpIsKept
PROPERTIES
    
    
    DpmsConverges
