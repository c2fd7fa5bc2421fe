\* One display that is put into standby and goes on answering DDC.
SPECIFICATION FairSpec
CONSTANTS
    ea = ea
    eb = eb
    Display = {1}
    Edid = {ea, eb}
    EdidOf <- OneEdid
    Modes <- WatchMode
    MaxChanges = 1
    MaxFaults = 0
PROPERTY StandbyReported
