SPECIFICATION Spec
CONSTANTS
    Calls = {c1, c2}
    Auths = {a1, a2}
    NoAuth = NoAuth
    Targets = {g1, g2}
    Lanes = {"paid", "free"}
    Workers = {w1}
    Crons = {t1}
    WalletLimit = 2
    MayLapse = TRUE
    PlatformKillsFirst = FALSE
    MaxFaults = 1
SYMMETRY Interchangeable
INVARIANTS
    TypeOK
    SettlementIsTrue
    WorkIsPaid
    OneJobPerTarget
PROPERTIES
    PaymentPromise
\* Finitely many calls: once all are answered and their jobs have ended,
\* nothing is left to do.
CHECK_DEADLOCK FALSE
