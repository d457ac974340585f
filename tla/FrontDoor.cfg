\* Four requests of one address and one token, two of which meet a ceiling; two
\* windows and a restart.
CONSTANTS
    NULL = NULL
    Ceiling = 2
    Window = 2
    Ip = {ip1}
    Email = {e1}
    Token = {k1}
    Req = {r1, r2, r3, r4}
    MaxClock = 2
    MaxRestarts = 1
SYMMETRY Symmetry
SPECIFICATION Spec
CHECK_DEADLOCK FALSE
INVARIANTS
    TypeOK
    CeilingHolds
    RefusalHasCause
PROPERTIES
    RevocationDrains
