\* Two clients, every kind of interval, up to two polling threads; the service
\* really stops when a client asks for the interval 0.
SPECIFICATION FairSpec
CONSTANTS
    c1 = c1
    c2 = c2
    p1 = p1
    p2 = p2
    Client = {c1, c2}
    Poller = {p1, p2}
    Seconds <- AllSeconds
    Wrap = 64
    Callback = Callback
    None = None
INVARIANTS
    TypeOK
    GuardMatchesSection
    LockedLibraryAccess
    AtMostOnePoller
PROPERTIES
    CallsComplete
    PollingGoesOn
CHECK_DEADLOCK FALSE
