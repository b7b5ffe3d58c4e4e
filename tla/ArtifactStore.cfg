SPECIFICATION Spec
CONSTANTS
    Tabs = {t1}
    Agent = agent
    Gone = gone
    Texts = {a, b, bare, crlf}
    A = a
    Bare = bare
    Crlf = crlf
    Ended <- MCEnded
    Unix <- MCUnix
    Long = {b}
    Stub = a
    MaxRequests = 3
    MaxTyped = 2
    MaxCalls = 1
    MaxOutside = 1
    MaxRuns = 1
    MaxTurns = 1
INVARIANTS
    WritesAreMirrored
    ConflictsAreForeign
PROPERTIES
    SavesSpareOthers
CHECK_DEADLOCK FALSE
