SPECIFICATION Spec
CONSTANTS
    x = x  y = y
    Thread = {t1, t2, t3}
    Byte <- TwoBytes
    Size = 1
    Modes = {TRUE}
    Writes <- UpToTwo
    ReadLens = {1}
    Ops <- EofOps
    CtxErr = CtxErr
    Zero = Zero
    Nobody = Nobody
SYMMETRY Symmetry
CHECK_DEADLOCK FALSE
PROPERTY EofFinal
