SPECIFICATION CartSpec
CONSTANTS
    r1 = r1  r2 = r2  c1 = c1  c2 = c2  v1 = v1  v2 = v2
    Requests = {r1, r2}
    Ops <- MCOps
    Carts = {c1, c2}
    NoCart = NoCart
    Variants = {v1, v2}
    MaxQuantity = 2
    MaxLines = 1
INVARIANTS
    CartInv
    OneOpenCart
PROPERTIES
    ServedAtOnce
    ClosedCartsRest
SYMMETRY MCSymmetry
