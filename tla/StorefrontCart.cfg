SPECIFICATION StorefrontSpec
CONSTANTS
    Variants = {"a", "b"}
    vat_rate <- MCvat_rate
    HalvesLost <- MCHalvesLost
    FREE_SHIPPING_THRESHOLD = 99500
    STANDARD_SHIPPING = 4900
    Requests = {r1, r2}
    Prices = {33334, 49750}
    Quantities = {0, 1}
    MAX_LINE_QUANTITY = 2
    Nothing = Nothing
    MaxEvents = 3
INVARIANTS
    StorefrontInv
    ViewIsCurrent
    OrderAddsUp
    ChargedAsAgreed
SYMMETRY RequestSymmetry
