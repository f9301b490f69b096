SPECIFICATION Spec
CONSTANTS
    k1 = k1
    k2 = k2
    k3 = k3
    Publisher = pub
    Reconciler = rec
    Creators = {c1}
    Updaters = {c1, pub, rec}
    Servers = {s1}
    IDs = {i1, i2}
    Kinds = {k1, k2}
    InbandKinds = {}
    Works <- Chain
    Faults = {"orchestrator_crash", "refresh", "history_error", "delete_error", "put_lost_ack"}
    MaxFaults = 2
    PromptPublisher = TRUE
CHECK_DEADLOCK FALSE
INVARIANTS HistoryAgrees WorkPreserved FailedIffConditionFailed LockedForSomething
PROPERTIES SerialSpec
