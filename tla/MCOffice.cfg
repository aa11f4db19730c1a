SPECIFICATION Spec
CONSTANTS
    Users = {u1, u2, u3}
    NoUser = NoUser
    Businesses = {a1, a2}
    NoBusiness = NoBusiness
    Clerks = {w1, w2}
    MaxMemberCalls = 5
    Salaries = {s1, s2, s3}
    NoSalary = NoSalary
    Employees = {e1}
    NoEmployee = NoEmployee
    Expenses = {x1}
    NoExpense = NoExpense
    Contents = {v1, v2}
    Accountants = {w1, w2}
    Day = 2
    Never = 9
    MaxToday = 3
    MaxFinanceCalls = 3
    Categories = {c1, c2}
    NoCategory = NoCategory
    Subcategories = {t1}
    NoSubcategory = NoSubcategory
    Goods = {a1, a2}
    NoGood = NoGood
    Names = {n1, n2}
    Editors = {w1, w2}
    MaxEdits = 6
    Bills = {a1, a2}
    Outlays = {x1}
    Products = {"rice", "beans"}
    Places <- OfficePlaces
    Nowhere = Nowhere
    Sales <- OfficeSales
    NoSale = NoSale
    Limit = 1
    Owner = "boss"
    Second = 1
    Spans <- OfficeSpans
    MaxNow = 2
    MaxWrites = 2
SYMMETRY Interchangeable
INVARIANTS
    TypeOK
    OneBusinessEach
    OneOpenSalary
    AuditChain
    ScopeSound
    PeriodsApart
    FiguresAgree
CHECK_DEADLOCK FALSE
