---------------------------- MODULE ReviewQueue ----------------------------
(***************************************************************************)
(* The review queue of the GitHub App: a pull_request delivery inserts a   *)
(* reviews row, pays for it and starts a worker; the review-retry cron     *)
(* picks up what the first attempt left behind; a channel job drives the   *)
(* same row.  The row is the queue entry and its lease.                    *)
(*                                                                         *)
(* Reviews are the idempotency triples (repo, pull request, head sha).     *)
(* Money is counted in reviews: the channel covers `funds' of them.        *)
(***************************************************************************)
EXTENDS Integers, FiniteSets

CONSTANTS
    Reviews,      \* idempotency triples
    Deliveries,   \* webhook deliveries, redeliveries included
    Hooks,        \* workers started by after() or by a channel job
    Crons,        \* ticks of the review-retry cron that overlap
    Partners,     \* subset of BOOLEAN: may the installation be a legacy partner
    Funds,        \* what the channel may hold at the start
    ApiJobs,      \* TRUE: channel jobs review the same commits
    MaxAttempts,  \* MAX_PROCESSING_ATTEMPTS, 6 in the code
    PlatformKillsFirst,  \* TRUE: a worker dies before its lease turns stale
    LostAnswers,  \* TRUE: a statement may throw although Postgres committed it
    MaxFaults     \* bound on kills, failed statements and lost answers

ASSUME QueueAssumption ==
    /\ Hooks \cap Crons = {} /\ IsFiniteSet(Hooks) /\ IsFiniteSet(Crons)
    /\ Partners \subseteq BOOLEAN
    /\ Funds \subseteq Nat
    /\ {ApiJobs, PlatformKillsFirst, LostAnswers} \subseteq BOOLEAN
    /\ MaxAttempts \in Nat \ {0}
    /\ MaxFaults \in Nat

VARIABLES
    legacyPartner,  \* installations.legacy_partner
    funds,          \* channels.balance_usdc in review prices
    row,            \* reviews
    debits,         \* history: webhook debits per review
    drawdowns,      \* payments rows of type drawdown per review
    apiPaid,        \* reviews a channel job paid for
    comments,       \* comments on GitHub per review
    delivery,       \* webhook handler instances
    scheduled,      \* reviews handed to after() whose callback has not begun
    actor,          \* worker instances
    faults

vars == <<legacyPartner, funds, row, debits, drawdowns, apiPaid, comments,
          delivery, scheduled, actor, faults>>

money == <<legacyPartner, funds, debits, drawdowns, apiPaid>>

Actors == Hooks \cup Crons

NoRow == [status |-> "absent", attempts |-> 0, stale |-> FALSE, commented |-> FALSE]
Idle == [at |-> "idle", review |-> "none", attempts |-> 0]

Init ==
    /\ legacyPartner \in Partners
    /\ funds \in Funds
    /\ row = [r \in Reviews |-> NoRow]
    /\ debits = [r \in Reviews |-> 0]
    /\ drawdowns = [r \in Reviews |-> 0]
    /\ apiPaid = {}
    /\ comments = [r \in Reviews |-> 0]
    /\ delivery = [d \in Deliveries |-> [at |-> "idle", review |-> "none", gate |-> "none"]]
    /\ scheduled = {}
    /\ actor = [a \in Actors |-> Idle]
    /\ faults = 0

-----------------------------------------------------------------------------
(* Statements on a reviews row.                                            *)

\* enqueueReview: INSERT ... ON CONFLICT (repo_hash, pr_number, commit_sha).
AlwaysNew(r) == TRUE
IsNew(r) == row[r].status = "absent"
Enqueued(r) == IF row[r].status = "absent" THEN [NoRow EXCEPT !.status = "pending"] ELSE row[r]

\* claimReviewForProcessing: a hook claims pending rows only, the cron also
\* rows to retry and rows whose lease is stale.
ClaimableAnyLease(a, r) ==
    row[r].status \in IF a \in Crons THEN {"pending", "pending_retry", "in_progress"}
                                     ELSE {"pending"}
ClaimableByAnyone(a, r) ==
    row[r].status \in {"pending", "pending_retry", "in_progress"}
Claimable(a, r) ==
    IF a \in Crons
    THEN \/ row[r].status \in {"pending", "pending_retry"}
         \/ row[r].status = "in_progress" /\ row[r].stale
    ELSE row[r].status = "pending"

\* loadReviewsReadyForRetry; any next_retry_at may have come by now.
DueIgnoringStuck(r) ==
    row[r].attempts < MaxAttempts /\ row[r].status \in {"pending", "pending_retry"}
Due(r) ==
    \/ row[r].attempts < MaxAttempts /\ row[r].status \in {"pending", "pending_retry"}
    \/ row[r].status = "in_progress" /\ row[r].stale

\* processing_attempts >= MAX_PROCESSING_ATTEMPTS on the row just loaded
NeverSpent(attempts) == FALSE
Spent(attempts) == attempts >= MaxAttempts

\* markReviewExhaustedIfStale
Exhaustible(r) ==
    /\ row[r].status = "in_progress" /\ row[r].stale
    /\ Spent(row[r].attempts)
    /\ ~ row[r].commented

\* pr_comment_id IS NOT NULL on the row just loaded
CommentNoted(r) == row[r].commented

SetStatus(r, status) == row' = [row EXCEPT ![r].status = status]

\* The status each way out of runReviewWorker writes.
VerdictOf == [succeeding |-> "done", resettling |-> "done", degraded |-> "pending_retry",
              retrying |-> "pending_retry", failing |-> "failed"]

-----------------------------------------------------------------------------
(* POST /api/github/webhook, pull_request dispatch.                        *)

Goto(d, at) == delivery' = [delivery EXCEPT ![d].at = at]

\* decideGate reads the balance long before the debit.
DecideGate(d, r) ==
    /\ delivery[d].at = "idle"
    /\ delivery' = [delivery EXCEPT ![d] =
           [at |-> "gated", review |-> r,
            gate |-> IF legacyPartner THEN "bypass"
                     ELSE IF funds > 0 THEN "debit" ELSE "insufficient"]]
    /\ UNCHANGED <<money, row, comments, scheduled, actor, faults>>

\* The row is inserted, runnable, before anybody paid; a duplicate delivery
\* stops here, whatever became of the original.
Enqueue(d) ==
    /\ delivery[d].at = "gated"
    /\ LET r == delivery[d].review IN
       /\ row' = [row EXCEPT ![r] = Enqueued(r)]
       /\ Goto(d, IF ~ IsNew(r) THEN "answered"
                  ELSE CASE delivery[d].gate = "bypass" -> "paid"
                         [] delivery[d].gate = "debit" -> "debit"
                         [] OTHER -> "unpaid")
    /\ UNCHANGED <<money, comments, scheduled, actor, faults>>

\* debitChannel's WHERE balance_usdc >= price: the gate's reading is stale by now.
DebitTrustsTheGate == TRUE
DebitCovered == funds > 0

\* debitForReview: debitChannel, or insufficient_at_debit.
Debit(d) ==
    /\ delivery[d].at = "debit"
    /\ IF DebitCovered
       THEN /\ funds' = funds - 1
            /\ debits' = [debits EXCEPT ![delivery[d].review] = @ + 1]
            /\ Goto(d, "debited")
       ELSE /\ Goto(d, "unpaid")
            /\ UNCHANGED <<funds, debits>>
    /\ UNCHANGED <<legacyPartner, drawdowns, apiPaid, row, comments, scheduled,
                   actor, faults>>

\* recordDrawdown is best effort: the debit stands without its ledger row.
RecordDrawdown(d) ==
    /\ delivery[d].at = "debited"
    /\ \/ /\ drawdowns' = [drawdowns EXCEPT ![delivery[d].review] = @ + 1]
          /\ UNCHANGED faults
       \/ /\ faults < MaxFaults
          /\ faults' = faults + 1
          /\ UNCHANGED drawdowns
    /\ Goto(d, "paid")
    /\ UNCHANGED <<legacyPartner, funds, debits, apiPaid, row, comments, scheduled,
                   actor>>

\* failInsufficient: markReviewTerminallyFailed whatever the status, then an
\* invoice on the pull request.
FailInsufficient(d) ==
    /\ delivery[d].at = "unpaid"
    /\ SetStatus(delivery[d].review, "failed")
    /\ Goto(d, "answered")
    /\ UNCHANGED <<money, comments, scheduled, actor, faults>>

ScheduleWorker(d) ==
    /\ delivery[d].at = "paid"
    /\ scheduled' = scheduled \cup {delivery[d].review}
    /\ Goto(d, "answered")
    /\ UNCHANGED <<money, row, comments, actor, faults>>

\* Killed, or a statement throws: GitHub may redeliver, which is another
\* delivery.
DeliveryDies(d) ==
    /\ faults < MaxFaults
    /\ delivery[d].at \notin {"idle", "answered"}
    /\ Goto(d, "answered")
    /\ faults' = faults + 1
    /\ UNCHANGED <<money, row, comments, scheduled, actor>>

ScheduleLost(r) ==
    /\ faults < MaxFaults
    /\ r \in scheduled
    /\ scheduled' = scheduled \ {r}
    /\ faults' = faults + 1
    /\ UNCHANGED <<money, row, comments, delivery, actor>>

-----------------------------------------------------------------------------
(* runReviewWorker.                                                        *)

Step(a, at) == actor' = [actor EXCEPT ![a].at = at]
Rest(a) == actor' = [actor EXCEPT ![a] = Idle]

\* The row is loaded once; what follows goes by this copy.
Load(a, r) ==
    actor' = [actor EXCEPT ![a] =
        IF row[r].status \in {"done", "failed"} THEN Idle
        ELSE [at |-> IF CommentNoted(r) THEN "resettling"
                     ELSE IF Spent(row[r].attempts) THEN "exhausting" ELSE "claiming",
              review |-> r, attempts |-> row[r].attempts]]

StartScheduled(h, r) ==
    /\ actor[h].at = "idle"
    /\ r \in scheduled
    /\ scheduled' = scheduled \ {r}
    /\ Load(h, r)
    /\ UNCHANGED <<money, row, comments, delivery, faults>>

\* A channel job, paid from the same balance on its own rail, enqueues the same
\* triple and runs the worker in place.
StartApi(h, r) ==
    /\ ApiJobs
    /\ actor[h].at = "idle"
    /\ r \notin apiPaid
    /\ apiPaid' = apiPaid \cup {r}
    /\ legacyPartner \/ funds > 0
    /\ funds' = IF legacyPartner THEN funds ELSE funds - 1
    /\ row' = [row EXCEPT ![r] = Enqueued(r)]
    /\ actor' = [actor EXCEPT ![h] = [Idle EXCEPT !.at = "enqueued", !.review = r]]
    /\ UNCHANGED <<legacyPartner, debits, drawdowns, comments, delivery, scheduled,
                   faults>>

LoadApi(h) ==
    /\ actor[h].at = "enqueued"
    /\ Load(h, actor[h].review)
    /\ UNCHANGED <<money, row, comments, delivery, scheduled, faults>>

\* A tick listed the row as due, and reaches it after its earlier candidates.
Select(c, r) ==
    /\ actor[c].at = "idle"
    /\ Due(r)
    /\ actor' = [actor EXCEPT ![c] = [Idle EXCEPT !.at = "selected", !.review = r]]
    /\ UNCHANGED <<money, row, comments, delivery, scheduled, faults>>

LoadSelected(c) ==
    /\ actor[c].at = "selected"
    /\ Load(c, actor[c].review)
    /\ UNCHANGED <<money, row, comments, delivery, scheduled, faults>>

Claim(a) ==
    /\ actor[a].at = "claiming"
    /\ LET r == actor[a].review IN
       IF Claimable(a, r)
       THEN /\ row' = [row EXCEPT ![r].status = "in_progress", ![r].stale = FALSE,
                                  ![r].attempts = @ + 1]
            /\ actor' = [actor EXCEPT ![a].at = "reviewing", ![a].attempts = @ + 1]
       ELSE /\ Rest(a)
            /\ UNCHANGED row
    /\ UNCHANGED <<money, comments, delivery, scheduled, faults>>

Exhaust(a) ==
    /\ actor[a].at = "exhausting"
    /\ row' = IF Exhaustible(actor[a].review)
              THEN [row EXCEPT ![actor[a].review].status = "failed"] ELSE row
    /\ Rest(a)
    /\ UNCHANGED <<money, comments, delivery, scheduled, faults>>

\* The kernel persists its bundle; the lane comments unless it is degraded,
\* empty or embargoed.  A degraded review retries while attempts are left.
KernelReturns(a) ==
    /\ actor[a].at = "reviewing"
    /\ \/ Step(a, "posting")
       \/ Step(a, "succeeding")
       \/ ~ Spent(actor[a].attempts) /\ Step(a, "degraded")
    /\ UNCHANGED <<money, row, comments, delivery, scheduled, faults>>

\* The error class decides, and the attempts this worker believes in.
Caught(a, transient) ==
    Step(a, IF transient /\ ~ Spent(actor[a].attempts) THEN "retrying" ELSE "failing")

KernelThrows(a, transient) ==
    /\ actor[a].at = "reviewing"
    /\ Caught(a, transient)
    /\ UNCHANGED <<money, row, comments, delivery, scheduled, faults>>

Noted(a) == [row EXCEPT ![actor[a].review].commented = TRUE]

\* No verdict looks at the status it overwrites.
Concluded(a) == [row EXCEPT ![actor[a].review].status = VerdictOf[actor[a].at]]

PostComment(a) ==
    /\ actor[a].at = "posting"
    /\ comments' = [comments EXCEPT ![actor[a].review] = @ + 1]
    /\ Step(a, "noting")
    /\ UNCHANGED <<money, row, delivery, scheduled, faults>>

\* setReviewComment
NoteComment(a) ==
    /\ actor[a].at = "noting"
    /\ row' = Noted(a)
    /\ Step(a, "succeeding")
    /\ UNCHANGED <<money, comments, delivery, scheduled, faults>>

\* GitHub created the comment and the answer got lost, or a statement of the
\* try block threw, before or after Postgres committed it.
TryThrows(a, transient) ==
    /\ faults < MaxFaults
    /\ actor[a].at \in {"noting", "succeeding", "degraded"}
    /\ \/ UNCHANGED row
       \/ LostAnswers /\ row' = IF actor[a].at = "noting" THEN Noted(a) ELSE Concluded(a)
    /\ Caught(a, transient)
    /\ faults' = faults + 1
    /\ UNCHANGED <<money, comments, delivery, scheduled>>

\* markReviewSucceeded, markReviewFailedForRetry, markReviewTerminallyFailed.
Conclude(a) ==
    /\ actor[a].at \in DOMAIN VerdictOf
    /\ row' = Concluded(a)
    /\ Rest(a)
    /\ UNCHANGED <<money, comments, delivery, scheduled, faults>>

ActorDies(a) ==
    /\ faults < MaxFaults
    /\ actor[a].at # "idle"
    /\ Rest(a)
    /\ faults' = faults + 1
    /\ UNCHANGED <<money, row, comments, delivery, scheduled>>

\* processing_started_at falls behind STUCK_AFTER_MS, which equals the
\* platform's limit on the instances that hold a lease.
Holds(a, r) == actor[a].review = r /\ actor[a].at \in
    {"reviewing", "posting", "noting", "succeeding", "degraded", "retrying", "failing"}

LeaseTurnsStale(r) ==
    /\ row[r].status = "in_progress" /\ ~ row[r].stale
    /\ PlatformKillsFirst => \A a \in Actors : ~ Holds(a, r)
    /\ row' = [row EXCEPT ![r].stale = TRUE]
    /\ UNCHANGED <<money, comments, delivery, scheduled, actor, faults>>

-----------------------------------------------------------------------------
Handler(d) == Enqueue(d) \/ Debit(d) \/ RecordDrawdown(d) \/ FailInsufficient(d)
                  \/ ScheduleWorker(d)

Work(a) ==
    \/ Claim(a) \/ Exhaust(a) \/ KernelReturns(a)
    \/ \E transient \in BOOLEAN : KernelThrows(a, transient)
    \/ PostComment(a) \/ NoteComment(a) \/ Conclude(a)

Fault ==
    \/ \E d \in Deliveries : DeliveryDies(d)
    \/ \E r \in Reviews : ScheduleLost(r)
    \/ \E a \in Actors : ActorDies(a)
    \/ \E a \in Actors, transient \in BOOLEAN : TryThrows(a, transient)

Next ==
    \/ \E d \in Deliveries, r \in Reviews : DecideGate(d, r)
    \/ \E d \in Deliveries : Handler(d)
    \/ \E h \in Hooks, r \in Reviews : StartScheduled(h, r) \/ StartApi(h, r)
    \/ \E h \in Hooks : LoadApi(h)
    \/ \E c \in Crons, r \in Reviews : Select(c, r)
    \/ \E c \in Crons : LoadSelected(c)
    \/ \E a \in Actors : Work(a)
    \/ \E r \in Reviews : LeaseTurnsStale(r)
    \/ Fault

Spec == Init /\ [][Next]_vars

\* Live instances keep executing, leases age, and the cron runs for ever; a
\* tick is serial, so a row it keeps listing gets its turn.
FairSpec ==
    /\ Spec
    /\ \A d \in Deliveries : WF_vars(Handler(d))
    /\ \A h \in Hooks : WF_vars(LoadApi(h))
    /\ \A c \in Crons : WF_vars(LoadSelected(c))
    /\ \A a \in Actors : WF_vars(Work(a))
    /\ \A r \in Reviews :
        /\ WF_vars(LeaseTurnsStale(r))
        /\ SF_vars(\E h \in Hooks : StartScheduled(h, r))
        /\ SF_vars(\E c \in Crons : Select(c, r))

-----------------------------------------------------------------------------
(* What must hold.                                                         *)

TypeOK ==
    /\ legacyPartner \in BOOLEAN
    /\ funds \in Nat
    /\ row \in [Reviews -> [status : {"absent", "pending", "in_progress", "pending_retry",
                                      "done", "failed"},
                            attempts : Nat, stale : BOOLEAN, commented : BOOLEAN]]
    /\ debits \in [Reviews -> Nat] /\ drawdowns \in [Reviews -> Nat]
    /\ apiPaid \subseteq Reviews
    /\ comments \in [Reviews -> Nat]
    /\ delivery \in [Deliveries ->
           [at : {"idle", "gated", "debit", "debited", "paid", "unpaid", "answered"},
            review : Reviews \cup {"none"},
            gate : {"none", "bypass", "debit", "insufficient"}]]
    /\ scheduled \subseteq Reviews
    /\ actor \in [Actors ->
           [at : {"idle", "enqueued", "selected", "claiming", "exhausting", "reviewing",
                  "posting", "noting"} \cup DOMAIN VerdictOf,
            review : Reviews \cup {"none"}, attempts : Nat]]
    /\ faults \in 0 .. MaxFaults

\* The lease: at most one worker between its claim and its verdict, although
\* hooks, channel jobs and ticks compete and stale leases are taken over.
OneLeaseHolder ==
    \A a, b \in Actors, r \in Reviews :
        Holds(a, r) /\ Holds(b, r) => a = b

\* Attempts are claimed against the cap: a worker that keeps dying is run no
\* more than MaxAttempts times.
AttemptsWithinCap == \A r \in Reviews : row[r].attempts <= MaxAttempts

\* Leases and attempts hold for claims made by anyone, at any time.
ClaimsAreKept == OneLeaseHolder /\ AttemptsWithinCap

\* Redeliveries of an event, in any order and however the first one ended,
\* debit the channel once, and the ledger never lists more than was debited;
\* overlapping ticks, hooks and channel jobs post a review once on its pull
\* request: only a fault between the comment and its note costs a duplicate,
\* one per fault.
OneEffectPerReview ==
    \A r \in Reviews :
        /\ drawdowns[r] <= debits[r] /\ debits[r] <= 1
        /\ comments[r] <= 1 + faults

\* When its delivery is over, a review that ran to its end was paid for, by that
\* delivery or by a channel job, unless the installation is a legacy partner's.
DoneIsPaid ==
    \A r \in Reviews :
        /\ row[r].status = "done"
        /\ \A d \in Deliveries : delivery[d].review = r => delivery[d].at = "answered"
        => legacyPartner \/ debits[r] > 0 \/ r \in apiPaid

\* Workers, hooks and ticks never reopen or flip the verdict of a review paid
\* at its delivery, as long as no statement fails: the verdict writes carry
\* no guard, only the lease keeps late workers away.
VerdictIsFinal ==
    [][\A r \in Reviews :
           /\ row[r].status \in {"done", "failed"}
           /\ legacyPartner \/ debits[r] > 0
           /\ faults = 0
           => row'[r].status = row[r].status]_vars

\* Every enqueued review reaches a verdict, although hooks get lost and
\* workers die: the cron drives it there.
ReviewEnds ==
    \A r \in Reviews : row[r].status = "pending" ~> row[r].status \in {"done", "failed"}
=============================================================================
