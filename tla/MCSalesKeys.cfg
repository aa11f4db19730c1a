SPECIFICATION Spec
CONSTANTS
    Invoices = {i1, i2}
    MaxCredits = 1
    Keys = {k1, k2}
    NoKey = NoKey
    None = None
    Workers = {w1}
    MaxDay = 0
    Bills <- PlainBill
    Amounts = {1}
    Patches <- Reopening
    MaxRequests = 6
SYMMETRY InterchangeableKeys
INVARIANTS
    ChargedOnce
CHECK_DEADLOCK FALSE
