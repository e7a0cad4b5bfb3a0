SPECIFICATION Spec
CONSTANTS
    Workloads <- MCWorkloads
    Sentence <- MCSentence
    Header = "head"
    MaxOutput = 4
    MaxNow = 2
    Threshold = 20
    MinMembers = 4
    Processes = {"a", "b"}
    CallNames = {"c1", "c2", "c3"}
INVARIANTS TypeOK HistoryIsComplete NoResurrection SweptOnce SummariesCiteWhatWas CounterExact AckedNodesKept AddsAgree ServesFullSchema
PROPERTIES OwnRowsOnly FirstRequestsEnd
CHECK_DEADLOCK FALSE
