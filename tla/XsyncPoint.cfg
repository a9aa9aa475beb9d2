SPECIFICATION LinSpec
CONSTANTS
    Thread = {t1, t2}
    Key = {k1, k2}
    Val = {v1, v2}
    Entry = {e1, e2, e3}
    Ops <- PointOps
    None = None
    Expunged = Expunged
    NoMap = NoMap
    ComparesOld = FALSE
SYMMETRY Symmetry
INVARIANTS TypeOK EntryStates UnexpungeHasDirty StoreReaches Linearizable
