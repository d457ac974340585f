\* Fair executions of two requests beside any two of the four disturbances.
CONSTANTS
    NULL = NULL
    Req = {q1, q2}
    Account = {a1}
    Kinds = {"rotating", "self"}
    MaxRows = 1
    MaxIssues = 3
    Disturbances = {"delete", "reconnect", "fault", "crash"}
    MaxHappened = 2
    MaxDisturbed = 2
SPECIFICATION FairSpec
CHECK_DEADLOCK FALSE
PROPERTIES
    EveryRequestAnswered
