SPECIFICATION LinSpec
CONSTANTS
    Thread = {t1, t2}
    Key = {k1, k2}
    Val = {v1, v2}
    Entry = {e1, e2, e3, e4}
    Ops <- RouteOps
    None = None
    Expunged = Expunged
    NoMap = NoMap
    ComparesOld = FALSE
SYMMETRY Symmetry
INVARIANT RangeConsistent
