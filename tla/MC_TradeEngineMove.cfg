SPECIFICATION Spec
CONSTANTS
    Algos = {"MAKER"}
    Prices = {1, 2}
    NoPrice = 0
    Clip = 2
    Quantities = {1}
    MaxOrderSize = 2
    MaxPosition = 2
    RequestCapacity = 2
    MaxOrders = 2
    MaxMessages = 0
    MaxResends = 1
    Reorders = FALSE
    Idle = Idle
PROPERTIES MismatchCancels
CHECK_DEADLOCK FALSE
