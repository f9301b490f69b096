SPECIFICATION Spec
CONSTANTS
    k1 = k1
    k2 = k2
    k3 = k3
    Publisher = pub
    Reconciler = rec
    Creators = {c1}
    Updaters = {c1, pub, rec}
    Servers = {s1}
    IDs = {i1, i2}
    Kinds = {k1, k2, k3}
    InbandKinds = {k3}
    Works <- InbandChain
    Faults = {"controller_dies", "coalesce", "put_error", "get_error", "api_crash"}
    MaxFaults = 2
    PromptPublisher = TRUE
SYMMETRY SymmetryOfIDs
CHECK_DEADLOCK FALSE
INVARIANTS TypeOK DispatchedInOrder OneJobPerServer
PROPERTIES SerialSpec ForgottenOnlyWhenRecorded
