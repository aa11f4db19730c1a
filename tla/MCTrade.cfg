SPECIFICATION Spec
CONSTANTS
    Customers = {a1, a2}
    NoCustomer = NoCustomer
    Emails = {m1}
    NoEmail = NoEmail
    Phones = {p1}
    NoPhone = NoPhone
    MaxBills = 3
    Desks = {k1}
    Tills = {w1, w2}
    MaxBillingCalls = 4
    Team = {g1}
    Boss = Boss
    Items = {a1, a2}
    NoItem = NoItem
    Runs = {w1, w2}
    Readers = {k1}
    Limit = 1
    Recency = 0
    MaxHour = 1
    MaxRuns = 3
    MaxNotes = 4
    MaxReads = 1
SYMMETRY Interchangeable
INVARIANTS
    TypeOK
    CustomersDistinct
    NumbersExact
    NotTwiceADay
    TeamTold
CHECK_DEADLOCK FALSE
