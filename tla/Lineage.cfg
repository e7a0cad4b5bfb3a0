SPECIFICATION Spec
CONSTANTS
    Workloads <- LineageWork
    Sentence <- MCSentence
    Header = "head"
    MaxOutput = 4
    MaxNow = 2
    Threshold = 20
    MinMembers = 4
    Processes = {"a", "b"}
    CallNames = {"c1", "c2", "c3", "c4", "c5"}
INVARIANT CorroborationIsEarned
CHECK_DEADLOCK FALSE
