------------------------------ MODULE Scorecard ------------------------------
(***************************************************************************)
(* The tier of a repository and the weekly scorecard.  Operators move       *)
(* repositories into and out of the cyber tier; a snapshot of the scorecard *)
(* is computed from the reviews that are public at that moment and is kept; *)
(* a page serves it unless some tier changed after it was generated.        *)
(*                                                                         *)
(* Times are readings of one clock that may stand still between steps.      *)
(***************************************************************************)
EXTENDS Integers, FiniteSets, Sequences

CONSTANTS
    Repos,        \* repositories, each with a review whose receipt is public
    Operators,    \* calls of the tier route
    Weeks,        \* weeks a scorecard is kept for
    Generators,   \* runs of the snapshot cron or of generate-scorecard
    Readers,      \* requests of a scorecard page
    MaxClock

ASSUME ScorecardAssumption == MaxClock \in Nat

VARIABLES
    clock,
    tiers,      \* repo_tier
    changeLog,  \* repo_tier_change_log, in the order of commits
    snapshots,  \* scorecard_snapshots, by week
    operator,   \* setRepoCyberTier
    generator,  \* computeScorecardForWeek, insertScorecardSnapshot
    reader      \* loadScorecardSnapshot

scorecardVars == <<clock, tiers, changeLog, snapshots, operator, generator, reader>>

Tiers == {"default", "cyber"}
Never == -1

\* repos: the repositories whose reviews the figures come from.  seen: how
\* many tier changes had been committed when the first of them was read.
NoSnapshot == [at |-> Never, repos |-> {}, seen |-> 0]

NewOperator == [at |-> "idle", now |-> 0, repo |-> "none", tier |-> "default"]
NewGenerator == [at |-> "idle", week |-> "none", repos |-> {}, seen |-> 0]

\* since: tier changes committed before the request began.
NewReader ==
    [at |-> "idle", week |-> "none", rowRead |-> FALSE, row |-> NoSnapshot,
     cutoffRead |-> FALSE, cutoff |-> Never, since |-> 0]

ScorecardInit ==
    /\ clock = 0
    /\ tiers = [r \in Repos |-> "default"]
    /\ changeLog = <<>>
    /\ snapshots = [w \in Weeks |-> NoSnapshot]
    /\ operator = [o \in Operators |-> NewOperator]
    /\ generator = [g \in Generators |-> NewGenerator]
    /\ reader = [q \in Readers |-> NewReader]

Tick ==
    /\ clock < MaxClock
    /\ clock' = clock + 1
    /\ UNCHANGED <<tiers, changeLog, snapshots, operator, generator, reader>>

\* setRepoCyberTier takes its time before it takes the lock.
AskTier(o, r, tier) ==
    /\ operator[o].at = "idle"
    /\ operator' = [operator EXCEPT ![o] =
           [at |-> "locking", now |-> clock, repo |-> r, tier |-> tier]]
    /\ UNCHANGED <<clock, tiers, changeLog, snapshots, generator, reader>>

\* Its transaction.
SetTier(o) ==
    LET r == operator[o].repo
    IN  /\ operator[o].at = "locking"
        /\ operator' = [operator EXCEPT ![o].at = "done"]
        /\ IF tiers[r] = operator[o].tier THEN UNCHANGED <<tiers, changeLog>>
           ELSE /\ tiers' = [tiers EXCEPT ![r] = operator[o].tier]
                /\ changeLog' = Append(changeLog,
                       [repo |-> r, to |-> operator[o].tier, at |-> operator[o].now])
        /\ UNCHANGED <<clock, snapshots, generator, reader>>

\* reviewPublicGate, nonCyberTierRepoCondition
PublicNow == {r \in Repos : tiers[r] # "cyber"}

\* computeScorecardForWeek: the reviews of the week.
ReadWeek(g, w) ==
    /\ generator[g].at = "idle"
    /\ generator' = [generator EXCEPT ![g] =
           [at |-> "rolling", week |-> w, repos |-> PublicNow, seen |-> Len(changeLog)]]
    /\ UNCHANGED <<clock, tiers, changeLog, snapshots, operator, reader>>

\* computeRolling4Week
ReadRolling(g) ==
    /\ generator[g].at = "rolling"
    /\ generator' = [generator EXCEPT ![g].at = "insert", ![g].repos = @ \cup PublicNow]
    /\ UNCHANGED <<clock, tiers, changeLog, snapshots, operator, reader>>

\* insertScorecardSnapshot: the row's time is the insertion's, and a week that
\* has its row keeps it.
InsertSnapshot(g) ==
    LET w == generator[g].week
    IN  /\ generator[g].at = "insert"
        /\ generator' = [generator EXCEPT ![g].at = "done"]
        /\ snapshots' = IF snapshots[w] # NoSnapshot THEN snapshots
                        ELSE [snapshots EXCEPT ![w] =
                                [at |-> clock, repos |-> generator[g].repos,
                                 seen |-> generator[g].seen]]
        /\ UNCHANGED <<clock, tiers, changeLog, operator, reader>>

-----------------------------------------------------------------------------
(* loadScorecardSnapshot: two queries in no order.                         *)

\* latestCyberTierChangeAt
LatestChange ==
    IF changeLog = <<>> THEN Never
    ELSE changeLog[CHOOSE n \in DOMAIN changeLog :
                      \A m \in DOMAIN changeLog : changeLog[m].at <= changeLog[n].at].at

AskSnapshot(q, w) ==
    /\ reader[q].at = "idle"
    /\ reader' = [reader EXCEPT ![q] =
           [NewReader EXCEPT !.at = "reading", !.week = w, !.since = Len(changeLog)]]
    /\ UNCHANGED <<clock, tiers, changeLog, snapshots, operator, generator>>

ReadRow(q) ==
    /\ reader[q].at = "reading" /\ ~ reader[q].rowRead
    /\ reader' = [reader EXCEPT ![q].rowRead = TRUE, ![q].row = snapshots[reader[q].week]]
    /\ UNCHANGED <<clock, tiers, changeLog, snapshots, operator, generator>>

ReadCutoff(q) ==
    /\ reader[q].at = "reading" /\ ~ reader[q].cutoffRead
    /\ reader' = [reader EXCEPT ![q].cutoffRead = TRUE, ![q].cutoff = LatestChange]
    /\ UNCHANGED <<clock, tiers, changeLog, snapshots, operator, generator>>

\* A row generated before the latest change is not served.
AnyRow(row, cutoff) == row # NoSnapshot
Fresh(row, cutoff) == row # NoSnapshot /\ row.at >= cutoff

Serve(q) ==
    /\ reader[q].at = "reading" /\ reader[q].rowRead /\ reader[q].cutoffRead
    /\ reader' = [reader EXCEPT ![q].at =
           IF Fresh(reader[q].row, reader[q].cutoff) THEN "served" ELSE "missing"]
    /\ UNCHANGED <<clock, tiers, changeLog, snapshots, operator, generator>>

ScorecardNext ==
    \/ Tick
    \/ \E o \in Operators :
           (\E r \in Repos, tier \in Tiers : AskTier(o, r, tier)) \/ SetTier(o)
    \/ \E g \in Generators :
           (\E w \in Weeks : ReadWeek(g, w)) \/ ReadRolling(g) \/ InsertSnapshot(g)
    \/ \E q \in Readers :
           (\E w \in Weeks : AskSnapshot(q, w)) \/ ReadRow(q) \/ ReadCutoff(q) \/ Serve(q)

ScorecardSpec == ScorecardInit /\ [][ScorecardNext]_scorecardVars

-----------------------------------------------------------------------------
(* Properties.                                                             *)

Times == 0..MaxClock
Snapshots == [at : Times \cup {Never}, repos : SUBSET Repos, seen : Nat]

\* Rows, calls and the log of tier changes hold values of their types.
ScorecardTypeOK ==
    /\ clock \in Times
    /\ tiers \in [Repos -> Tiers]
    /\ changeLog \in Seq([repo : Repos, to : Tiers, at : Times])
    /\ snapshots \in [Weeks -> Snapshots]
    /\ operator \in [Operators -> [at : {"idle", "locking", "done"}, now : Times,
                                   repo : Repos \cup {"none"}, tier : Tiers]]
    /\ generator \in [Generators -> [at : {"idle", "rolling", "insert", "done"},
                                     week : Weeks \cup {"none"}, repos : SUBSET Repos, seen : Nat]]
    /\ reader \in [Readers -> [at : {"idle", "reading", "served", "missing"},
                               week : Weeks \cup {"none"}, rowRead : BOOLEAN, row : Snapshots,
                               cutoffRead : BOOLEAN, cutoff : Times \cup {Never}, since : Nat]]

\* Change n made its repository cyber, and nothing has changed it since.
HiddenBy(n) ==
    /\ changeLog[n].to = "cyber"
    /\ \A m \in DOMAIN changeLog : m > n => changeLog[m].repo # changeLog[n].repo

\* What a page serves holds no figures of a repository that was cyber when the
\* request began and still is, unless the tier changed while the snapshot was
\* being generated: after its first read, with a time not after its row's.
\* (loadScorecardSnapshot, setRepoCyberTier, computeScorecardForWeek)
ServedIsPublic ==
    \A q \in Readers : reader[q].at = "served" =>
        \A n \in 1..reader[q].since :
            (HiddenBy(n) /\ changeLog[n].repo \in reader[q].row.repos) =>
                /\ n > reader[q].row.seen
                /\ changeLog[n].at <= reader[q].row.at

\* The same without the exception, as the comment on setRepoCyberTier has it;
\* the code does not keep it.
HiddenIsNeverServed ==
    \A q \in Readers : reader[q].at = "served" =>
        \A n \in 1..reader[q].since :
            HiddenBy(n) => changeLog[n].repo \notin reader[q].row.repos
=============================================================================
