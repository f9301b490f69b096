SPECIFICATION Spec
CONSTANTS
    Creators = {r1, r2, r3}
    Orc = orc
    Updaters = {r1, r2, r3, orc}
    Servers = {s1}
    IDs = {i1, i2}
    Kinds <- ApiKinds
    InbandKinds <- InbandKind
    Works <- UnitsOfRequests
    Ops = {"serverEnroll", "serverDelete", "serverConditionCreate", "biosControl", "firmwareInstall", "validateFirmware"}
    InbandFlag = FALSE
    Faults = {"fleetdb_error", "get_error", "put_error", "put_lost_ack", "publish_error", "publish_lost_ack"}
    MaxFaults = 2
SYMMETRY Symmetry
CONSTRAINT OneOtherRequest
CHECK_DEADLOCK FALSE
INVARIANTS TypeOK NothingLeftOver EnrolledComplete NoWorkOfFailedRequests
PROPERTIES RollbackOfOwnRows
