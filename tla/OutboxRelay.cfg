SPECIFICATION OutboxLiveSpec
CONSTANTS
    w1 = w1  w2 = w2
    Messages = {1, 2, 3}
    Subscribed = {1, 2}
    Relays = {w1, w2}
    Stoppable = {w2}
    BatchSize = 2
    MaxAttempts = 2
INVARIANTS
    OutboxInv
    OneRelayPerMessage
    RedeliveryNeedsCrash
PROPERTIES
    AtLeastOnce
    EverySettles
