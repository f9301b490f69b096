SPECIFICATION FairSpec
CONSTANTS
    Kinds <- OneKind
    InbandKinds <- OneKind
    Last = 2
    Outcomes = {"succeeded"}
    Faults = {"lost_answer", "kv_error", "controller_dies", "controller_restarts"}
    MaxFaults = 1
CHECK_DEADLOCK FALSE
INVARIANTS TypeOK TaskDoneOnce
PROPERTIES FinalReportStands LiveTaskKept OutcomeReachesStore TaskGetsPublished
