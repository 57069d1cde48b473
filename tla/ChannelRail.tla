---------------------------- MODULE ChannelRail ----------------------------
(***************************************************************************)
(* The prepaid rail of the review API: POST .../installations/{id}/review, *)
(* the background worker that runs a job, the every-minute cron that       *)
(* rescues orphaned and stuck jobs, and the refund of a failed job.        *)
(*                                                                         *)
(* Every process is a function instance that talks to one Postgres over    *)
(* single-statement transactions, so a handler is a sequence of atomic     *)
(* statements between which any other instance may run and at each of      *)
(* which the platform may kill the instance.  A job row is named after the *)
(* call that inserted it.                                                  *)
(***************************************************************************)
EXTENDS Integers, Sequences, FiniteSets

CONSTANTS
    Calls,         \* POST /review calls, and the job rows they insert
    Keys,          \* idempotency keys callers send
    NoKey,         \* a call without an idempotency key
    Challenges,    \* signed challenges callers redeem
    Workers,       \* processReviewJob invocations alive at once
    Crons,         \* overlapping ticks of the review-jobs cron
    Deposits,      \* on-chain transfers to the channel
    NoTx,          \* tx_hash of a payment that is not a deposit
    Amounts,       \* deposit sizes and review prices, in price units
    PlatformKillsFirst,  \* TRUE: an instance dies before the stuck threshold
    MaxFaults      \* bound on kills and failed statements

ASSUME ChannelAssumption ==
    /\ Amounts \subseteq Nat \ {0}
    /\ NoKey \notin Keys
    /\ NoTx \notin Deposits
    /\ Workers \cap Crons = {}
    /\ PlatformKillsFirst \in BOOLEAN
    /\ MaxFaults \in Nat

VARIABLES
    legacyPartner,   \* installations.legacy_partner, fixed by the operator
    balance,         \* channels.balance_usdc
    payments,        \* the payments table; a row's id is its position
    used,            \* review_challenges with used_at set
    job,             \* review_jobs
    call,            \* the handler instance of each call
    scheduled,       \* jobs handed to after() whose callback has not begun
    actor,           \* worker and cron instances
    faults           \* kills and failed statements so far

vars == <<legacyPartner, balance, payments, used, job, call, scheduled, actor,
          faults>>

Actors == Workers \cup Crons

\* failure_mode values; the refundable ones are an allow-list.
Refundable == {"provider_error", "timeout", "internal"}
FailureModes == Refundable \cup {"user_input"}

JobStatus == {"absent", "billing_pending", "queued", "running", "complete", "failed"}
Live == {"queued", "running"}
Terminal == {"complete", "failed"}

NoRow == [status |-> "absent", key |-> NoKey, debit |-> 0, refund |-> 0,
          failure |-> "none"]

Payment(type, amount, tx) == [type |-> type, amount |-> amount, tx |-> tx]

NewCall == [at |-> "idle", challenge |-> "none", key |-> NoKey, price |-> 0]
Idle == [at |-> "idle", job |-> "none", mode |-> "none"]

Answered == {"rejected", "replayed", "accepted", "dead"}

Init ==
    /\ legacyPartner \in BOOLEAN
    /\ balance = 0
    /\ payments = <<>>
    /\ used = {}
    /\ job = [c \in Calls |-> NoRow]
    /\ call = [c \in Calls |-> NewCall]
    /\ scheduled = {}
    /\ actor = [a \in Actors |-> Idle]
    /\ faults = 0

-----------------------------------------------------------------------------
(* Guards of single SQL statements.                                        *)

\* The slips beside some of them are the bugs the properties must notice.

\* balance_usdc >= price: read by the gate, tested again by the debit.
GateCovers(price) == balance >= price
TrustTheGate(price) == TRUE
DebitCovers(price) == balance >= price

\* used_at IS NULL, read before the signature check and in the claim.
Unredeemed(ch) == ch \notin used
TrustTheFirstRead(ch) == TRUE
Redeemable(ch) == ch \notin used

\* WHERE status = 'queued' of markJobRunning
ClaimUnguarded(j) == TRUE
Claimable(j) == job[j].status = "queued"

\* WHERE status = 'running' of markJobComplete
Completable(j) == job[j].status = "running"

\* WHERE status = 'running' of markJobFailed
FailUnguarded(j) == TRUE
Failable(j) == job[j].status = "running"

\* The guards refundJobChannelDebit evaluates on the row it loaded.
OwesAnyFailure(row) == row.refund = 0 /\ row.debit # 0
Owes(row) == row.refund = 0 /\ row.debit # 0 /\ row.failure \in Refundable

\* refund_payment_id IS NULL, under the row lock of the refund statement
TrustTheGuards(j) == TRUE
Unrefunded(j) == job[j].refund = 0

\* The failure modes after which the worker refunds.
RefundsTimeout(mode) == mode = "timeout"
Refunds(mode) == mode \in Refundable

\* WHERE status = 'queued' of findStaleQueuedJobs
OnlyUnbilled(j) == job[j].status = "billing_pending"
Orphaned(j) == job[j].status = "queued"

\* The job row holding an idempotency key; NULL keys never conflict.
Holders(key) == {j \in Calls : job[j].status # "absent" /\ job[j].key = key}
KeyTaken(key) == key # NoKey /\ Holders(key) # {}

\* ON CONFLICT (payment_rail, installation_id, idempotency_key) DO NOTHING
NeverConflicts(key) == FALSE
Conflicts(key) == KeyTaken(key)

\* The row createReviewJob inserts: not runnable before it is billed.
NewJobRunnable(key) == [NoRow EXCEPT !.status = "queued", !.key = key]
NewJob(key) == [NoRow EXCEPT !.status = "billing_pending", !.key = key]

\* The unique index on payments (chain_id, tx_hash).
Observed(tx) == \E i \in DOMAIN payments : payments[i].tx = tx

-----------------------------------------------------------------------------
(* POST /api/v1/installations/{id}/review, one action per await.           *)

Goto(c, at) == call' = [call EXCEPT ![c].at = at]

\* The challenge row is loaded and its signature checked.
Authenticate(c, ch, key) ==
    /\ call[c].at = "idle"
    /\ call' = [call EXCEPT ![c] =
           [at |-> IF Unredeemed(ch) THEN "authenticated" ELSE "rejected",
            challenge |-> ch, key |-> key, price |-> 0]]
    /\ UNCHANGED <<legacyPartner, balance, payments, used, job, scheduled,
                   actor, faults>>

\* A legacy partner bypasses billing; anybody else needs the price of the
\* moment (an environment variable) in the channel.
DecideGate(c, price) ==
    /\ call[c].at = "authenticated"
    /\ IF legacyPartner
       THEN Goto(c, "admitted")
       ELSE IF GateCovers(price)
       THEN call' = [call EXCEPT ![c].at = "admitted", ![c].price = price]
       ELSE Goto(c, "rejected")
    /\ UNCHANGED <<legacyPartner, balance, payments, used, job, scheduled,
                   actor, faults>>

\* A job with the caller's idempotency key is returned as it is.
FindExisting(c) ==
    /\ call[c].at = "admitted"
    /\ Goto(c, IF KeyTaken(call[c].key) THEN "replayed" ELSE "fresh")
    /\ UNCHANGED <<legacyPartner, balance, payments, used, job, scheduled,
                   actor, faults>>

ClaimChallenge(c) ==
    /\ call[c].at = "fresh"
    /\ IF Redeemable(call[c].challenge)
       THEN /\ used' = used \cup {call[c].challenge}
            /\ Goto(c, "redeemed")
       ELSE /\ Goto(c, "rejected")
            /\ UNCHANGED used
    /\ UNCHANGED <<legacyPartner, balance, payments, job, scheduled, actor,
                   faults>>

\* The loser of a race for an idempotency key answers with the winner's row.
CreateJob(c) ==
    /\ call[c].at = "redeemed"
    /\ IF Conflicts(call[c].key)
       THEN /\ Goto(c, "replayed")
            /\ UNCHANGED job
       ELSE /\ job' = [job EXCEPT ![c] = NewJob(call[c].key)]
            /\ Goto(c, "created")
    /\ UNCHANGED <<legacyPartner, balance, payments, used, scheduled, actor,
                   faults>>

\* One statement debits the channel, writes the ledger row, links it and
\* queues the job, provided the job still waits for billing.
DebitAndQueue(c) ==
    /\ call[c].at = "created"
    /\ ~ legacyPartner
    /\ job[c].status = "billing_pending"
    /\ DebitCovers(call[c].price)
    /\ balance' = balance - call[c].price
    /\ payments' = Append(payments, Payment("drawdown", call[c].price, NoTx))
    /\ job' = [job EXCEPT ![c].status = "queued", ![c].debit = Len(payments) + 1]
    /\ Goto(c, "billed")
    /\ UNCHANGED <<legacyPartner, used, scheduled, actor, faults>>

\* The balance dropped between the gate and the debit: nothing was debited.
DebitRefused(c) ==
    /\ call[c].at = "created"
    /\ ~ legacyPartner
    /\ ~ DebitCovers(call[c].price)
    /\ Goto(c, "unpaid")
    /\ UNCHANGED <<legacyPartner, balance, payments, used, job, scheduled,
                   actor, faults>>

\* markBillingJobFailed, then 402.
FailBilling(c) ==
    /\ call[c].at = "unpaid"
    /\ job' = IF job[c].status = "billing_pending"
              THEN [job EXCEPT ![c].status = "failed",
                               ![c].failure = "insufficient_channel_balance"]
              ELSE job
    /\ Goto(c, "rejected")
    /\ UNCHANGED <<legacyPartner, balance, payments, used, scheduled, actor,
                   faults>>

\* The bypass of a legacy partner: markJobQueued without a debit.
QueueUnbilled(c) ==
    /\ call[c].at = "created"
    /\ legacyPartner
    /\ job[c].status = "billing_pending"
    /\ job' = [job EXCEPT ![c].status = "queued"]
    /\ Goto(c, "billed")
    /\ UNCHANGED <<legacyPartner, balance, payments, used, scheduled, actor,
                   faults>>

\* after(processReviewJob), then 202.
ScheduleWorker(c) ==
    /\ call[c].at = "billed"
    /\ scheduled' = scheduled \cup {c}
    /\ Goto(c, "accepted")
    /\ UNCHANGED <<legacyPartner, balance, payments, used, job, actor, faults>>

\* The instance is killed, or a statement throws and the handler answers 500.
CallDies(c) ==
    /\ faults < MaxFaults
    /\ call[c].at \notin Answered \cup {"idle"}
    /\ Goto(c, "dead")
    /\ faults' = faults + 1
    /\ UNCHANGED <<legacyPartner, balance, payments, used, job, scheduled, actor>>

-----------------------------------------------------------------------------
(* processReviewJob and the review-jobs cron.                              *)

Become(a, at, j, mode) == actor' = [actor EXCEPT ![a] = [at |-> at, job |-> j, mode |-> mode]]
Step(a, at) == actor' = [actor EXCEPT ![a].at = at]
Rest(a) == actor' = [actor EXCEPT ![a] = Idle]

\* The callback of after() begins: it loads the job and skips one that is
\* no longer queued.
StartScheduled(w, j) ==
    /\ actor[w].at = "idle"
    /\ j \in scheduled
    /\ scheduled' = scheduled \ {j}
    /\ IF job[j].status = "queued" THEN Become(w, "loaded", j, "none")
                                   ELSE UNCHANGED actor
    /\ UNCHANGED <<legacyPartner, balance, payments, used, job, call, faults>>

\* The cron found the job queued for longer than the orphan threshold; no
\* clock here, so any queued job may be old enough.
PickUpOrphan(w, j) ==
    /\ actor[w].at = "idle"
    /\ Orphaned(j)
    /\ Become(w, "loaded", j, "none")
    /\ UNCHANGED <<legacyPartner, balance, payments, used, job, call, scheduled,
                   faults>>

\* markJobRunning; a lost race ends the invocation.
ClaimJob(w) ==
    /\ actor[w].at = "loaded"
    /\ LET j == actor[w].job IN
       IF Claimable(j)
       THEN /\ job' = [job EXCEPT ![j].status = "running"]
            /\ Step(w, "reviewing")
       ELSE /\ Rest(w)
            /\ UNCHANGED job
    /\ UNCHANGED <<legacyPartner, balance, payments, used, call, scheduled, faults>>

\* runJobPipeline returns a result, or throws an error with a failure mode.
PipelineReturns(w) ==
    /\ actor[w].at = "reviewing"
    /\ Step(w, "completing")
    /\ UNCHANGED <<legacyPartner, balance, payments, used, job, call, scheduled,
                   faults>>

PipelineThrows(w, mode) ==
    /\ actor[w].at = "reviewing"
    /\ Become(w, "failing", actor[w].job, mode)
    /\ UNCHANGED <<legacyPartner, balance, payments, used, job, call, scheduled,
                   faults>>

Completed(j) ==
    IF Completable(j) THEN [job EXCEPT ![j].status = "complete"] ELSE job

\* markJobComplete; its answer is not looked at.
Complete(w) ==
    /\ actor[w].at = "completing"
    /\ job' = Completed(actor[w].job)
    /\ Rest(w)
    /\ UNCHANGED <<legacyPartner, balance, payments, used, call, scheduled, faults>>

\* The statement throws, before or after Postgres committed it: the catch
\* block classifies the error as internal and fails the job.
CompleteThrows(w) ==
    /\ faults < MaxFaults
    /\ actor[w].at = "completing"
    /\ job' \in {job, Completed(actor[w].job)}
    /\ Become(w, "failing", actor[w].job, "internal")
    /\ faults' = faults + 1
    /\ UNCHANGED <<legacyPartner, balance, payments, used, call, scheduled>>

\* findStuckRunningJobs: the tick remembers the row and times it out later.
\* The threshold is env-configurable, so it may undercut a live worker
\* unless the platform's own limit kills the worker first.
SelectStuck(c, j) ==
    /\ actor[c].at = "idle"
    /\ job[j].status = "running"
    /\ PlatformKillsFirst => \A w \in Workers : actor[w].job # j
    /\ Become(c, "failing", j, "timeout")
    /\ UNCHANGED <<legacyPartner, balance, payments, used, job, call, scheduled,
                   faults>>

\* markJobFailed, by the worker's catch block or by the cron.  The worker
\* refunds after a refundable failure, the cron always tries.
MarkFailed(a) ==
    /\ actor[a].at = "failing"
    /\ LET j == actor[a].job IN
       job' = IF Failable(j)
              THEN [job EXCEPT ![j].status = "failed", ![j].failure = actor[a].mode]
              ELSE job
    /\ IF Refunds(actor[a].mode) THEN Step(a, "refunding") ELSE Rest(a)
    /\ UNCHANGED <<legacyPartner, balance, payments, used, call, scheduled, faults>>

\* refundJobChannelDebit, first statement: load the job, test the guards.
CheckRefund(a) ==
    /\ actor[a].at = "refunding"
    /\ IF Owes(job[actor[a].job]) THEN Step(a, "crediting") ELSE Rest(a)
    /\ UNCHANGED <<legacyPartner, balance, payments, used, job, call, scheduled,
                   faults>>

\* Second statement: under the row lock, ledger row, credit and link at once.
PayRefund(a) ==
    /\ actor[a].at = "crediting"
    /\ LET j == actor[a].job
           amount == payments[job[j].debit].amount IN
       IF Unrefunded(j)
       THEN /\ payments' = Append(payments, Payment("refund", amount, NoTx))
            /\ balance' = balance + amount
            /\ job' = [job EXCEPT ![j].refund = Len(payments) + 1]
       ELSE UNCHANGED <<payments, balance, job>>
    /\ Rest(a)
    /\ UNCHANGED <<legacyPartner, used, call, scheduled, faults>>

\* A worker or cron instance is killed, or a statement throws: errors of the
\* refund are logged and swallowed, other errors end the invocation.
ActorDies(a) ==
    /\ faults < MaxFaults
    /\ actor[a].at # "idle"
    /\ Rest(a)
    /\ faults' = faults + 1
    /\ UNCHANGED <<legacyPartner, balance, payments, used, job, call, scheduled>>

\* The callback of after() never fires.
ScheduleLost(j) ==
    /\ faults < MaxFaults
    /\ j \in scheduled
    /\ scheduled' = scheduled \ {j}
    /\ faults' = faults + 1
    /\ UNCHANGED <<legacyPartner, balance, payments, used, job, call, actor>>

-----------------------------------------------------------------------------
\* creditChannelFromDeposit: one statement, idempotent on the transfer; a
\* second observation changes nothing.
CreditDeposit(tx, amount) ==
    /\ ~ Observed(tx)
    /\ payments' = Append(payments, Payment("deposit", amount, tx))
    /\ balance' = balance + amount
    /\ UNCHANGED <<legacyPartner, used, job, call, scheduled, actor, faults>>

Handler(c) ==
    \/ \E price \in Amounts : DecideGate(c, price)
    \/ FindExisting(c) \/ ClaimChallenge(c) \/ CreateJob(c)
    \/ DebitAndQueue(c) \/ DebitRefused(c) \/ FailBilling(c)
    \/ QueueUnbilled(c) \/ ScheduleWorker(c)

Worker(w) ==
    \/ ClaimJob(w) \/ PipelineReturns(w) \/ Complete(w)
    \/ \E mode \in FailureModes : PipelineThrows(w, mode)

Settle(a) == MarkFailed(a) \/ CheckRefund(a) \/ PayRefund(a)

Fault ==
    \/ \E c \in Calls : CallDies(c) \/ ScheduleLost(c)
    \/ \E a \in Actors : ActorDies(a)
    \/ \E w \in Workers : CompleteThrows(w)

Next ==
    \/ \E c \in Calls, ch \in Challenges, key \in Keys \cup {NoKey} :
           Authenticate(c, ch, key)
    \/ \E c \in Calls : Handler(c)
    \/ \E w \in Workers, j \in Calls : StartScheduled(w, j) \/ PickUpOrphan(w, j)
    \/ \E w \in Workers : Worker(w)
    \/ \E c \in Crons, j \in Calls : SelectStuck(c, j)
    \/ \E a \in Actors : Settle(a)
    \/ \E tx \in Deposits, amount \in Amounts : CreditDeposit(tx, amount)
    \/ Fault

Spec == Init /\ [][Next]_vars

\* An instance that is not killed keeps executing, after() and the cron,
\* which runs every minute for ever, find their jobs in the end.
Fairness ==
    /\ \A c \in Calls : WF_vars(Handler(c))
    /\ \A w \in Workers : WF_vars(Worker(w))
    /\ \A a \in Actors : WF_vars(Settle(a))
    /\ \A j \in Calls :
        /\ WF_vars(\E w \in Workers : StartScheduled(w, j) \/ PickUpOrphan(w, j))
        /\ WF_vars(\E c \in Crons : SelectStuck(c, j))

FairSpec == Spec /\ Fairness

-----------------------------------------------------------------------------
(* What must hold.                                                         *)

JobRow ==
    [status : JobStatus, key : Keys \cup {NoKey}, debit : Nat, refund : Nat,
     failure : FailureModes \cup {"none", "insufficient_channel_balance"}]

PaymentRow ==
    [type : {"deposit", "drawdown", "refund"}, amount : Nat \ {0},
     tx : Deposits \cup {NoTx}]

CallAt ==
    {"idle", "authenticated", "admitted", "fresh", "redeemed", "created", "unpaid",
     "billed"} \cup Answered

CallState ==
    [at : CallAt, challenge : Challenges \cup {"none"}, key : Keys \cup {NoKey}, price : Nat]

ActorAt ==
    {"idle", "loaded", "reviewing", "completing", "failing", "refunding", "crediting"}

ActorState ==
    [at : ActorAt, job : Calls \cup {"none"}, mode : FailureModes \cup {"none"}]

TypeOK ==
    /\ legacyPartner \in BOOLEAN
    /\ balance \in Nat
    /\ payments \in Seq(PaymentRow)
    /\ used \subseteq Challenges
    /\ job \in [Calls -> JobRow]
    /\ call \in [Calls -> CallState]
    /\ scheduled \subseteq Calls
    /\ actor \in [Actors -> ActorState]
    /\ faults \in 0 .. MaxFaults

\* A job runs, and its review is delivered, only after its own drawdown was
\* taken from the channel, however the gate's reads and the debits of several
\* calls interleave; a legacy partner's job is never charged.
PaidBeforeRun ==
    \A j \in Calls :
        /\ job[j].status \in Live \cup {"complete"} => (job[j].debit # 0 <=> ~ legacyPartner)
        /\ job[j].debit # 0 =>
               /\ job[j].debit \in DOMAIN payments
               /\ payments[job[j].debit].type = "drawdown"
               /\ \A k \in Calls \ {j} : job[k].debit # job[j].debit

\* Money goes back only for a failed job with a refundable failure, in the
\* amount its own drawdown took whatever the price is now, and each refund row
\* of the ledger belongs to exactly one job: a worker and overlapping crons
\* refunding the same job pay once.
RefundMatchesDebit ==
    /\ \A j \in Calls : job[j].refund # 0 =>
           /\ job[j].status = "failed" /\ job[j].failure \in Refundable
           /\ job[j].debit # 0
           /\ job[j].refund \in DOMAIN payments
           /\ payments[job[j].refund] =
                  Payment("refund", payments[job[j].debit].amount, NoTx)
    /\ \A i \in DOMAIN payments : payments[i].type = "refund" =>
           \E j \in Calls : /\ job[j].refund = i
                             /\ \A k \in Calls \ {j} : job[k].refund # i

\* Two invocations of processReviewJob, one from after() and one from the
\* cron, never run the pipeline of the same job.
OneReviewerPerJob ==
    \A v, w \in Workers : v # w /\ actor[v].job = actor[w].job =>
        ~ (actor[v].at = "reviewing" /\ actor[w].at = "reviewing")

\* Concurrent calls with one idempotency key get one job, hence one charge.
OneJobPerKey ==
    \A c, d \in Calls :
        /\ c # d /\ job[c].status # "absent" /\ job[d].status # "absent"
        /\ job[c].key = job[d].key
        => job[c].key = NoKey

\* A challenge redeemed once buys at most one job.
OneJobPerChallenge ==
    \A c, d \in Calls :
        /\ c # d /\ job[c].status # "absent" /\ job[d].status # "absent"
        => call[c].challenge # call[d].challenge

\* However the calls race, a key and a challenge make one job each.
OneJobPerRequest == OneJobPerKey /\ OneJobPerChallenge

\* What a poller saw as the end of a job stays the end: a cron that selected
\* the row while it ran does not fail a complete job, a worker that outlived
\* the threshold does not complete a failed one, and nobody rewrites why.
TerminalIsFinal ==
    [][\A j \in Calls : job[j].status \in Terminal =>
           /\ job'[j].status = job[j].status
           /\ job'[j].failure = job[j].failure]_vars

\* Every job that reached the queue ends, although callbacks get lost and
\* instances die: the cron re-triggers orphans and times out what is stuck.
QueuedJobEnds ==
    \A j \in Calls : job[j].status = "queued" ~> job[j].status \in Terminal

\* A charged job that failed for a refundable reason always has somebody about
\* to refund it, until a fault strikes that somebody: whoever wrote the failure,
\* and however the worker and the crons overtake one another.
RefundInSight ==
    \A j \in Calls : job[j].status = "failed" /\ Owes(job[j]) =>
        \/ faults > 0
        \/ \E a \in Actors : actor[a].job = j /\ actor[a].at \in {"refunding", "crediting"}

\* A job that failed for a refundable reason is refunded, as the message
\* stored with the failure says ("Your channel has been refunded").
FailureIsRefunded ==
    \A j \in Calls : (job[j].status = "failed" /\ Owes(job[j])) ~> job[j].refund # 0

ChargeOf(j) == IF job[j].debit = 0 THEN 0 ELSE payments[job[j].debit].amount

OutcomeOf(j) == CASE job[j].status = "complete" -> "delivered"
                  [] job[j].refund # 0 -> "refunded"
                  [] OTHER -> "open"

Ledger == INSTANCE PrepaidLedger WITH
    Jobs <- Calls,
    funds <- balance,
    credited <- {payments[i].tx : i \in DOMAIN payments} \ {NoTx},
    charge <- [j \in Calls |-> ChargeOf(j)],
    outcome <- [j \in Calls |-> OutcomeOf(j)]

\* Handlers, workers, crons and faults together do no more to the owner's
\* money than the abstract ledger: a transfer counts once, a job is charged
\* at most once and within the balance, and then delivered or refunded in
\* full, never both.
LedgerPromise == Ledger!LedgerSpec
=============================================================================
