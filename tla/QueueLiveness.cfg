SPECIFICATION FairSpec
CONSTANTS
    Reviews = {r1}
    Deliveries = {d1, d2}
    Hooks = {h1}
    Crons = {t1}
    Partners = {TRUE, FALSE}
    Funds = {0, 1}
    ApiJobs = TRUE
    MaxAttempts = 3
    PlatformKillsFirst = TRUE
    LostAnswers = FALSE
    MaxFaults = 2
INVARIANTS
    ClaimsAreKept
PROPERTIES
    ReviewEnds
\* Finitely many deliveries: once every review has its verdict, nothing is
\* left to do.
CHECK_DEADLOCK FALSE
