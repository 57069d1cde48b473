SPECIFICATION FairSpec
CONSTANTS
    Reviews = {r1}
    Deliveries = {d1}
    Hooks = {h1}
    Crons = {t1, t2}
    Partners = {TRUE}
    Funds = {0}
    ApiJobs = FALSE
    MaxAttempts = 3
    PlatformKillsFirst = TRUE
    LostAnswers = FALSE
    MaxFaults = 0
PROPERTIES
    ReviewEnds
\* Finitely many deliveries: once every review has its verdict, nothing is
\* left to do.
CHECK_DEADLOCK FALSE
