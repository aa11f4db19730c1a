SPECIFICATION Spec
CONSTANTS
    Reports = {r1}
    Workers = {w1, w2}
    Clients = {c1}
    NoReport = NoReport
    MaxRetries = 1
    MaxErrors = 0
    MaxKills = 0
    MaxRepeats = 0
INVARIANTS
    BeingGenerated
CHECK_DEADLOCK FALSE
