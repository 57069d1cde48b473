SPECIFICATION Spec
CONSTANTS
    Calls = {c1, c2}
    Keys = {k1}
    NoKey = NoKey
    Challenges = {h1, h2}
    Workers = {w1, w2}
    Crons = {t1}
    Deposits = {d1}
    NoTx = NoTx
    Amounts = {1}
    PlatformKillsFirst = FALSE
    MaxFaults = 1
SYMMETRY Interchangeable
INVARIANTS
    TypeOK
    PaidBeforeRun
    RefundMatchesDebit
    OneReviewerPerJob
    OneJobPerRequest
    RefundInSight
PROPERTIES
    TerminalIsFinal
    LedgerPromise
\* Finitely many calls: once all are answered and their jobs have ended,
\* nothing is left to do.
CHECK_DEADLOCK FALSE
