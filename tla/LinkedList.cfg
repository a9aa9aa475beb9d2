SPECIFICATION Spec
CONSTANTS
    Lists = {l1, l2}
    Value = {x, y}
    MaxElems = 4
    Nil = Nil
SYMMETRY Symmetry
INVARIANT WellFormed
PROPERTIES Implements AsDocumented
