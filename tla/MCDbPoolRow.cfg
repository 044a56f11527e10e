SPECIFICATION Spec
CONSTANTS
    q1 = q1
    q2 = q2
    q3 = q3
    q4 = q4
    c1 = c1
    c2 = c2
    Req = {q1, q2, q3, q4}
    Query = {q4}
    Connection = {c1, c2}
    None = None
    Unwritable = {}
    Outages = FALSE
INVARIANTS
    OneRowPerForwardedCall
SYMMETRY Symmetry
CHECK_DEADLOCK FALSE
