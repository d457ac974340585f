\* The statement that refreshes never race on a rotated refresh token.
CONSTANTS
    NULL = NULL
    Req = {q1, q2}
    Account = {a1}
    Kinds = {"rotating"}
    MaxRows = 1
    MaxIssues = 3
    Disturbances = {}
    MaxHappened = 0
    MaxDisturbed = 2
SYMMETRY Symmetry
SPECIFICATION Spec
CHECK_DEADLOCK FALSE
INVARIANTS
    NoSpentTokenPresented
