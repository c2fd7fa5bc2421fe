\* One client that subscribes and another that may stop polling.
SPECIFICATION FairSpec
CONSTANTS
    c1 = c1
    c2 = c2
    p1 = p1
    p2 = p2
    Client = {c1, c2}
    Poller = {p1, p2}
    Seconds <- ZeroSeconds
    Wrap = 64
    Callback = Callback
    None = None
PROPERTY ZeroIntervalStopsPolling
CHECK_DEADLOCK FALSE
