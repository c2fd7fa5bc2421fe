\* Two clients of whom one may stop reading, one polling thread, one hardware
\* event and one SetVcp that succeeds.
SPECIFICATION FairSpec
CONSTANTS
    c1 = c1
    c2 = c2
    p1 = p1
    h1 = h1
    v1 = v1
    Client = {c1, c2}
    Responsive = {c1}
    Poller = {p1}
    Seconds = {0}
    Wrap = 64
    Callback = Callback
    HwEvent = {h1}
    VcpEvent = {v1}
    None = None
INVARIANTS
    TypeOK
    OneAnnouncer
    AnnouncedBeforeReply
    ListenersAreServed
PROPERTY
    OnlyRepliesStall
CHECK_DEADLOCK FALSE
