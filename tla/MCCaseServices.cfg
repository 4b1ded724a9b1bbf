SPECIFICATION Spec
CONSTANTS
    Cases = {c1}
    Rows = {i1, i2, i3}
    Requests = {p1, p2}
    Nil = Nil
SYMMETRY Symmetry
INVARIANTS
    
    ClosedCasesSettle
    RowsAreExplained
