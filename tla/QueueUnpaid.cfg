SPECIFICATION Spec
CONSTANTS
    Reviews = {r1}
    Deliveries = {d1}
    Hooks = {h1}
    Crons = {t1}
    Partners = {FALSE}
    Funds = {0}
    ApiJobs = FALSE
    MaxAttempts = 2
    PlatformKillsFirst = TRUE
    LostAnswers = FALSE
    MaxFaults = 0
INVARIANTS
    DoneIsPaid
\* Finitely many deliveries: once every review has its verdict, nothing is
\* left to do.
CHECK_DEADLOCK FALSE
