\* Two subscribers of whom one may stop reading, two hardware events and one
\* SetVcp, all interleavings.
SPECIFICATION FairSpec
CONSTANTS
    c1 = c1
    c2 = c2
    h1 = h1
    h2 = h2
    v1 = v1
    Client = {c1, c2}
    Responsive = {c1}
    HwEvent = {h1, h2}
    VcpEvent = {v1}
    None = None
INVARIANTS
    TypeOK
    ListenersRegistered
    GapFree
    HwInOrder
    NeverSeesClose
PROPERTIES
    ImplementsEventStream
    EventsReachListeners
    GoneListenerReleased
CHECK_DEADLOCK FALSE
