SPECIFICATION Spec
CONSTANTS
    Tasks = {"c1", "c2"}
    Creates = {"c1", "c2"}
    Modes = {"server"}
    Workloads = {{"c1", "c2"}}
    MaxInflight = 1
    MaxRetries = 3
    ReconnectAttempts = 1
    MaxConflicts = 2
    Statements = 2
    MaxFaults = 2
    Callers = {"sweep"}
    Reconciler = "sweep"
    MaxRounds = 1
PROPERTY FailedIsRetried
CHECK_DEADLOCK FALSE
