SPECIFICATION FairSpec
CONSTANTS
    Products = {p1, p2}
    Workers = {w1, w2}
    NoWorker = NoWorker
    MaxQty = 2
    MaxDay = 1
    Orders <- AllOrders
    LineQty = {1}
    Openings = {1}
    Edits <- SomeEdits
    Requests = 2
PROPERTIES
    EveryRequestEnds
CHECK_DEADLOCK FALSE
