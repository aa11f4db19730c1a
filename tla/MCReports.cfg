SPECIFICATION FairSpec
CONSTANTS
    Reports = {r1}
    Workers = {w1, w2}
    Clients = {c1}
    NoReport = NoReport
    MaxRetries = 1
    MaxErrors = 2
    MaxKills = 1
    MaxRepeats = 1
INVARIANTS
    ReportsInv
    UrlHasFile
    InGoodHands
    RetriesOutlastErrors
PROPERTIES
    LifeSpec
    EveryReportSettles
CHECK_DEADLOCK FALSE
