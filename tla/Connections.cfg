SPECIFICATION Spec
CONSTANTS
    Tasks = {"c1", "c2", "w"}
    Creates = {"c1", "c2"}
    Modes = {"server", "embedded"}
    Workloads = {{"c1", "c2"}, {"c1", "w"}, {"c1", "sweep"}, {"sweep", "request", "journal"}}
    MaxInflight = 1
    MaxRetries = 3
    ReconnectAttempts = 1
    MaxConflicts = 2
    Statements = 2
    MaxFaults = 3
    Callers = {"sweep", "request", "journal"}
    Reconciler = "sweep"
    MaxRounds = 1
INVARIANTS TypeOK NeverStranded AppliedAtMostOnce CauseIsNamed RecoveredIsNewer
PROPERTIES OnlyTheFailedIsReplaced CallsEnd LedgerRecovers
CHECK_DEADLOCK FALSE
