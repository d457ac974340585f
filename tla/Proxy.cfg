\* Three requests, or two against any two of a deletion, a reconnection, a lost
\* answer and a restart.
CONSTANTS
    NULL = NULL
    Req = {q1, q2, q3}
    Account = {a1}
    Kinds = {"rotating", "detecting", "fixed"}
    MaxRows = 1
    MaxIssues = 4
    Disturbances = {"delete", "reconnect", "fault", "crash"}
    MaxHappened = 2
    MaxDisturbed = 2
SYMMETRY Symmetry
SPECIFICATION Spec
CHECK_DEADLOCK FALSE
INVARIANTS
    TypeOK
    SingleFlight
    AwaitedRefreshIsLive
    RetryUsesNewToken
    FailedRefreshPassesRaw401
    GrantKept
PROPERTIES
    RequestsKeepContract
    TokensNeverGoBack
