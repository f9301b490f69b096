SPECIFICATION SerialSpec
CONSTANTS
    Creators = {c1, c2}
    Updaters = {u1, u2}
    Servers = {s1, s2}
    IDs = {i1, i2, i3}
    Kinds = {k1, k2}
    InbandKinds = {}
    Works <- WorksUpTo2
SYMMETRY Symmetry
CHECK_DEADLOCK FALSE
INVARIANTS ConditionsInOrder
PROPERTIES WorkNotReplaced FinishedStaysFinished ConditionsAdvance LockSpec
