\* Two users, two accounts, two handlers that await the provider, one batch.
CONSTANTS
    NULL = NULL
    User = {u1, u2}
    Provider = {whatsapp}
    Account = {a1, a2}
    Alias = {al}
    Token = {tk}
    Url = {good, bad}
    ValidUrl = {good}
    WebhookProvider = {whatsapp}
    Expiry = {NULL}
    Handler = {h1, h2}
    MaxRows = 2
    MaxClock = 1
    MaxBatches = 1
    MaxEntries = 1
SYMMETRY Symmetry
SPECIFICATION HooksSpec
CHECK_DEADLOCK FALSE
INVARIANTS
    TypeOK
    UniqueAccount
    AtMostOneDefault
    PendingTargetsOwnRow
    HooksTypeOK
    ForwardsWereAskedFor
PROPERTIES
    OnlyOwnRowsChange
    NoResurrection
    ReconnectKeepsCredentials
    DefaultIsSticky
