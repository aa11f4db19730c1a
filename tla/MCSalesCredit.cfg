SPECIFICATION Spec
CONSTANTS
    Invoices = {i1, i2}
    MaxCredits = 2
    Keys = {k1}
    NoKey = NoKey
    None = None
    Workers = {w1, w2}
    MaxDay = 1
    Bills <- SomeBills
    Amounts = {1, 3}
    Patches <- SomePatches
    MaxRequests = 3

INVARIANTS
    NoLostCreditPayment
CHECK_DEADLOCK FALSE
