\* Two users at three providers: starts, callbacks and repetitions interleave.
CONSTANTS
    NULL = NULL
    User = {u1, u2}
    Provider <- MCProvider
    Packs <- MCPacks
    Profiled = {"meta", "whatsapp"}
    Subject = {s1, s2}
    Page = {p1, p2}
    Callback = {c1, c2}
    Ttl = 0
    MaxStates = 2
    MaxRows = 2
    MaxClock = 1
SYMMETRY Symmetry
SPECIFICATION Spec
CHECK_DEADLOCK FALSE
INVARIANTS
    TypeOK
    TokensOfOneSubject
    PageRowsAreWhole
PROPERTIES
    StatesAreOneShot
    StatesLeaveForCause
    OkMeansConnected
