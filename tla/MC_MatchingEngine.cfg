CONSTANTS
    Clients = {c1, c2}
    OrderIds = {1, 2}
    Prices = {1, 2, 3}
    Qtys = {1, 2}
    MaxOrderIds = 4
    MaxPriceLevels = 2
    QueueCapacity = 2
    NoOrder = NoOrder
SPECIFICATION Spec
SYMMETRY ClientSymmetry
INVARIANTS TypeOK BookConsistent NeverCrossed FeedReplaysBook ClientsReconcile
PROPERTIES PriceTimePriority
CHECK_DEADLOCK FALSE
