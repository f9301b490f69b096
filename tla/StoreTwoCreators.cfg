SPECIFICATION StoreSpec
CONSTANTS
    Creators = {c1, c2}
    Updaters = {u1}
    Servers = {s1}
    IDs = {i1, i2}
    Kinds = {k1}
    InbandKinds = {}
    Works <- WorksUpTo2
SYMMETRY Symmetry
CHECK_DEADLOCK FALSE
PROPERTIES WorkNotReplaced
