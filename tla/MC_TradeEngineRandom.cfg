SPECIFICATION FairSpec
CONSTANTS
    Algos = {"RANDOM"}
    Prices = {}
    NoPrice = 0
    Clip = 2
    Quantities = {1, 2}
    MaxOrderSize = 2
    MaxPosition = 1
    RequestCapacity = 2
    MaxOrders = 2
    MaxMessages = 2
    MaxResends = 0
    Reorders = TRUE
    Idle = Idle
INVARIANTS WithinLimits TrueExposure
PROPERTIES Flattens
CHECK_DEADLOCK FALSE
