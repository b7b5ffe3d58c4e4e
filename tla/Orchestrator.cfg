CONSTANTS
    Servers = {search}
    Requests = {left, right}
    Host = host
    MaxLinks = 3
    MaxRequests = 4
SYMMETRY Slots
SPECIFICATION HostSpec
INVARIANTS
    OnlyRacesOrphan
    CacheIsCurrent
    RunningIsHad
CHECK_DEADLOCK FALSE
