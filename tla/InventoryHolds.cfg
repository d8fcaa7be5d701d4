SPECIFICATION HoldsLiveSpec
CONSTANTS
    o1 = o1  o2 = o2  o3 = o3
    v1 = v1  v2 = v2
    c1 = c1  p1 = p1  w1 = w1
    Variants = {v1, v2}
    Orders = {o1, o2, o3}
    Lines <- MCLines
    MaxLineQuantity = 2
    Quantity <- MCQuantity
    InitialStock <- MCStock
    Cancellers = {c1}
    Payers = {p1}
    Sweepers = {w1}
    SweepLimit = 1
INVARIANTS
    InventoryInv
    NoLeakedHold
    CommittedDeducted
    ExactClaims
    NoOversell
PROPERTIES
    ExpiredIsSettled
