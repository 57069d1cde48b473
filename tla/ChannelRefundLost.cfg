SPECIFICATION FairSpec
CONSTANTS
    Calls = {c1}
    Keys = {k1}
    NoKey = NoKey
    Challenges = {h1}
    Workers = {w1}
    Crons = {t1}
    Deposits = {d1}
    NoTx = NoTx
    Amounts = {1}
    PlatformKillsFirst = TRUE
    MaxFaults = 1
PROPERTIES
    FailureIsRefunded
\* Finitely many calls: once all are answered and their jobs have ended,
\* nothing is left to do.
CHECK_DEADLOCK FALSE
