SPECIFICATION Spec
CONSTANTS
    Users = {u1}
    NoUser = NoUser
    Codes = {c1, c2}
    NoCode = NoCode
    Requests = {q1, q2}
    MaxTries = 2
    MaxRequests = 5
    Pairs = {p1, p2, p3}
    NoPair = NoPair
    Devices = {d1, d2}
    Handlers = {h1, h2}
    AccessLife = 1
    RefreshLife = 2
    RowLife = 3
    Keep = 1
    MaxNow = 3
    MaxSessions = 1
    MaxCalls = 3
    Callers = {r1, r2}
    Endpoints <- TwoEndpoints
    MaxTime = 3
    MaxHits = 4
SYMMETRY Interchangeable
INVARIANTS
    TypeOK
    OneUse
    OneCodePending
    RowAsIntended
    BarredStaysOut
    RotationLinear
    StoresAgree
    WithinLimit
PROPERTIES
    ClosedForGood
CHECK_DEADLOCK FALSE
