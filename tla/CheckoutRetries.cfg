SPECIFICATION IdempotencyLiveSpec
CONSTANTS
    r1 = r1  r2 = r2  r3 = r3  r4 = r4  k1 = k1  k2 = k2
    x1 = x1  x2 = x2
    Requests = {r1, r2, r3, r4}
    Keys = {k1, k2}
    KeyOf <- MCKeyOf
    Carts = {x1, x2}
    NoCart = NoCart
INVARIANTS
    IdempotencyInv
    OneOrderPerKeyAndCart
    AnswerIsAnOrder
PROPERTIES
    ClaimsEnd
CHECK_DEADLOCK FALSE
