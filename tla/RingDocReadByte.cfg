SPECIFICATION Spec
CONSTANTS
    x = x  y = y
    Thread = {t1, t2}
    Byte <- TwoBytes
    Size = 1
    Modes = {TRUE}
    Writes <- UpToTwo
    ReadLens = {1}
    Ops <- ByteOps
    CtxErr = CtxErr
    Zero = Zero
    Nobody = Nobody
SYMMETRY Symmetry
CHECK_DEADLOCK FALSE
INVARIANT WritersWait
