SPECIFICATION FulfilmentSpec
CONSTANTS
    o1 = o1  o2 = o2  v1 = v1  v2 = v2  e1 = e1  e2 = e2  e3 = e3
    d1 = d1  d2 = d2  d3 = d3  d4 = d4  c1 = c1  w1 = w1
    Variants = {v1}
    Orders = {o1, o2}
    Lines <- MCLines
    MaxLineQuantity = 1
    Quantity <- MCQuantity
    InitialStock <- TwoUnits
    Cancellers = {c1}
    Payers = {d1, d3}
    Sweepers = {w1}
    SweepLimit = 1
    Events = {e1, e2}
    EventOf <- MCEventOf
    OrderFor <- MCOrderFor
    NoOrder = NoOrder
PROPERTIES
    CancelledIsTerminal
