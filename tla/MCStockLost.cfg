SPECIFICATION Spec
CONSTANTS
    Products = {p1}
    Workers = {w1, w2}
    NoWorker = NoWorker
    MaxQty = 2
    MaxDay = 1
    Orders <- AllOrders
    LineQty = {1}
    Openings = {1}
    Edits <- FieldEdit
    Requests = 2
INVARIANTS
    NoLostStockUpdate
CHECK_DEADLOCK FALSE
