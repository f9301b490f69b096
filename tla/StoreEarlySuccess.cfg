SPECIFICATION SerialSpec
CONSTANTS
    Creators = {c1}
    Updaters = {u1}
    Servers = {s1}
    IDs = {i1}
    Kinds = {k1, k2}
    InbandKinds = {}
    Works <- WorksUpTo2
SYMMETRY Symmetry
CHECK_DEADLOCK FALSE
INVARIANTS SuccessMeansAllDone
