\* Three requests of any kind over two emails, two codes and two instants.
CONSTANTS
    NULL = NULL
    Email = {e1, e2}
    Code = {c1, c2}
    Request = {r1, r2, r3}
    RegisterModes = {"closed", "invite", "open"}
    MaxUses = 2
    MaxClock = 1
SYMMETRY Symmetry
SPECIFICATION Spec
CHECK_DEADLOCK FALSE
INVARIANTS
    TypeOK
    InviteCoversAccounts
    CreatedOwnsAccount
    VaultHasAdmin
    SelfServeIsPaid
PROPERTIES
    BootstrapCloses
