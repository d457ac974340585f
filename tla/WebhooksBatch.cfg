\* The test that an entry of another account is not routed: a batch of two.
CONSTANTS
    NULL = NULL
    User = {u1}
    Provider = {instagram}
    Account = {a1, a2}
    Alias = {}
    Token = {tk}
    Url = {good}
    ValidUrl = {good}
    WebhookProvider = {instagram}
    Expiry = {NULL}
    Handler = {h1}
    MaxRows = 1
    MaxClock = 0
    MaxBatches = 1
    MaxEntries = 2
SPECIFICATION HooksSpec
CHECK_DEADLOCK FALSE
INVARIANTS
    EntriesStayWithTheirOrgs
