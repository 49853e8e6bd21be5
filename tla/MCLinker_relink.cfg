CONSTANTS
    Route = {r1}
    Intent = {i1}
    Interest = {n1, n2}
    Link = {l1, l2}
    Sender = {}
    Nil = Nil
    Size = 1
    Usage = {{}}
CHECK_DEADLOCK FALSE
SYMMETRY Symmetry
SPECIFICATION Spec
INVARIANT NoIllegalRelink
