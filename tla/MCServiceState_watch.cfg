\* Two clients subscribe; libddcutil may refuse to watch the displays.
SPECIFICATION Spec
CONSTANTS
    c1 = c1
    c2 = c2
    p1 = p1
    p2 = p2
    Client = {c1, c2}
    Poller = {p1, p2}
    Seconds <- OrdinarySeconds
    Wrap = 64
    Callback = Callback
    None = None
PROPERTY AlreadyEnabledIsWatched
