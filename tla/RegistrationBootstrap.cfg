\* Two registrations on an empty vault.
CONSTANTS
    NULL = NULL
    Email = {e1, e2}
    Code = {c1}
    Request = {r1, r2}
    RegisterModes = {"closed", "invite", "open"}
    MaxUses = 1
    MaxClock = 0
SYMMETRY Symmetry
SPECIFICATION Spec
CHECK_DEADLOCK FALSE
INVARIANTS
    OneBootstrapAdmin
