SPECIFICATION FairSpec
CONSTANTS
    k1 = k1
    k2 = k2
    k3 = k3
    Publisher = pub
    Reconciler = rec
    Creators = {c1}
    Updaters = {c1, pub, rec}
    Servers = {s1}
    IDs = {i1}
    Kinds = {k1, k2, k3}
    InbandKinds = {k3}
    Works <- Shapes
    Faults = {"controller_dies", "coalesce", "refresh", "publish_error", "put_error"}
    MaxFaults = 1
    PromptPublisher = TRUE
CHECK_DEADLOCK FALSE
PROPERTIES UnitsTerminate OutcomesRecorded StatusCleared
