SPECIFICATION Spec
CONSTANTS
    MaxOrderIds = 4
    LevelCapacities = {2, 3}
    Prices = {1, 2, 3}
    Qtys = {1, 2}
    NoPrice = 0
    NoQty = 0
    Null = Null
INVARIANTS BookSound BookImplements
