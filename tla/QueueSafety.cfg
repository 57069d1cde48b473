SPECIFICATION Spec
CONSTANTS
    Reviews = {r1}
    Deliveries = {d1, d2}
    Hooks = {h1, h2}
    Crons = {t1, t2}
    Partners = {TRUE, FALSE}
    Funds = {0, 1, 2}
    ApiJobs = TRUE
    MaxAttempts = 2
    PlatformKillsFirst = TRUE
    LostAnswers = TRUE
    MaxFaults = 1
SYMMETRY Interchangeable
INVARIANTS
    TypeOK
    OneEffectPerReview
PROPERTIES
    VerdictIsFinal
\* Finitely many deliveries: once every review has its verdict, nothing is
\* left to do.
CHECK_DEADLOCK FALSE
