SPECIFICATION Spec
CONSTANTS
    x = x  y = y
    Thread = {t1, t2}
    Byte <- TwoBytes
    Size = 3
    Modes = {TRUE, FALSE}
    Writes <- UpToThree
    ReadLens = {0, 1, 2}
    Ops <- AllOps
    CtxErr = CtxErr
    Zero = Zero
    Nobody = Nobody
SYMMETRY Symmetry
CHECK_DEADLOCK FALSE
INVARIANTS TypeOK WriteContract EofAtEnd ReadersWait
PROPERTY Fifo
