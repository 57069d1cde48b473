SPECIFICATION FairSpec
CONSTANTS
    Calls = {c1, c2}
    Auths = {a1, a2}
    NoAuth = NoAuth
    Targets = {g1}
    Lanes = {"paid"}
    Workers = {w1}
    Crons = {t1}
    WalletLimit = 2
    MayLapse = TRUE
    PlatformKillsFirst = TRUE
    MaxFaults = 1
PROPERTIES
    QueuedJobEnds
\* Finitely many calls: once all are answered and their jobs have ended,
\* nothing is left to do.
CHECK_DEADLOCK FALSE
