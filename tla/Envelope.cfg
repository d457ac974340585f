\* Every script, beside a running server or one that is down.
CONSTANTS
    NULL = NULL
    Account = {a1, a2}
    Scripts = {"migrate", "rotate", "manual"}
    MaxRows = 3
    MaxTokens = 2
SYMMETRY Symmetry
SPECIFICATION Spec
CHECK_DEADLOCK FALSE
INVARIANTS
    TypeOK
    OnlyRacedRowsMix
    DekPerRow
    VaultKekOpens
PROPERTIES
    MaintenanceKeepsTokens
