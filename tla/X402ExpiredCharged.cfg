SPECIFICATION Spec
CONSTANTS
    Calls = {c1}
    Auths = {a1}
    NoAuth = NoAuth
    Targets = {g1}
    Lanes = {"paid"}
    Workers = {w1}
    Crons = {t1}
    WalletLimit = 1
    MayLapse = TRUE
    PlatformKillsFirst = TRUE
    MaxFaults = 0
INVARIANTS
    ExpiredIsUncharged
\* Finitely many calls: once all are answered and their jobs have ended,
\* nothing is left to do.
CHECK_DEADLOCK FALSE
