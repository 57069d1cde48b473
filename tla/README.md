# AntFleet: verification of the paid review pipeline

AntFleet reviews pull requests with two model providers and sells the reviews
on three rails. Everything that can go wrong *between* statements happens in
`apps/web`: short-lived function instances (HTTP handlers, `after()` callbacks,
cron ticks) that share one Postgres and nothing else, may be killed between any
two statements, and run beside any number of copies of themselves. This project
models that part, and the command line's state directory, in TLA+, model-checks
it with TLC on small instances, and proves its safety properties with TLAPS for
any number of calls, workers, ticks, jobs, findings and faults.

All paths below are relative to `src/apps/web` unless they say otherwise; those
of the command line are relative to `src/src`.

## 1. Inventory

| Part | State it keeps | Operations | Interacts through |
|---|---|---|---|
| GitHub webhook (`app/api/github/webhook/route.ts`) | none of its own | gate, enqueue, debit, `failInsufficient`, `after(runReviewWorker)` | `reviews`, `channels`, `payments` |
| Review worker (`lib/review-worker.ts`, `db/queries.ts`) | lease, attempts, status, comment id in `reviews` | load, claim, exhaust, kernel, comment, three verdict writes | the row, GitHub |
| Review retry cron (`lib/review-retry.ts`) | none | lists due and stuck rows, runs the worker on each | the row |
| Review kernel (`lib/review-worker.ts`) | `reviews`, `finding_status`, `finding_disclosure`, `repo_threat_model` | tier, threat model, decision, reachability, adjudication, embargo, patches, comment, suggestions | the rows, GitHub, the providers |
| Prepaid rail (`app/api/v1/installations/[id]/review`, `lib/review-job-queries.ts`, `lib/review-job-worker.ts`, `lib/paywall/*`) | `review_challenges`, `channels`, `payments`, `review_jobs` | authenticate, gate, look up, claim challenge, create job, debit and queue, run, fail, refund | the rows, `after()` |
| Review jobs cron (`app/api/cron/review-jobs`) | none | re-trigger orphans, time out stuck jobs, purge results | `review_jobs` |
| x402 rail (`app/api/v1/review/x402`, `lib/x402/*`) | `review_jobs`, `x402_review_claims` | verify, claim authorization, limit, create, settle, poll and expire | the rows, the facilitator |
| Scan rail (`app/api/v1/scan/x402`) | `x402_scan_claims` | claim, wallet limit, scan, settle, record | the rows, the facilitator |
| Deposits (`lib/paywall/deposit-verifier.ts`, `scripts/scan-deposits.ts`) | `payments`, `channels`, a block cursor | verify and credit, scan and credit | the chain, the rows |
| ACP rail (`lib/acp/*`, `lib/review-job-worker.ts`) | `acp_provider_events`, `review_jobs` | event inbox with leases, budget, fund and queue, review, submit, complete | a provider CLI, the marketplace |
| Agreement gate (`lib/review-pipeline.ts`, and `providers/agreement.ts` of the command line) | none | consensus of two or three providers, degradation, single-model tier | the providers |
| Sweeper, finding lifecycle, disclosure (`lib/sweep.ts`, `lib/disclosure.ts`, `lib/ghsa-client.ts`) | `finding_status`, `finding_disclosure` | daily closures with receipts, acknowledgement, timers, publication with a reservation | GitHub |
| Scorecard and cyber tier (`lib/cyber-tier-admin.ts`, `lib/scorecard.ts`, `db/queries.ts`) | `repo_tier`, its log, `scorecard_snapshots` | flip, generate, serve | the rows |
| Code scanning upload (`lib/sarif-*.ts`, `lib/codescanning-*.ts`) | token uses, batches, rows | verify, consume, insert, validate, finish, push | GitHub |
| Command line `fleet` (`app.ts`, `state.ts`) | a JSON state directory | map, review, fix, revalidate, triage, clean-locks | files, `git` |
| Onboarder, reactions, reproduction, drift, post drafts, roasts, pages | their own tables | see the components in `PROJECT.json` | mostly read-only or best effort |

What is hard about it:

* the gate reads a balance in one statement and the debit happens several
  awaits later, in competition with other calls;
* a row is the only lock: claims are guarded `UPDATE`s, but several writes
  (the verdicts of `reviews`, the settlement column, the submission's failure)
  are not guarded at all;
* an instance may die between two statements, an `after()` callback may never
  fire, a statement may throw although Postgres committed it, a webhook or an
  event may be delivered again, a facilitator may capture, and a marketplace
  may accept, while nobody waits any more;
* several crons rescue what others left behind from *snapshots*, so two actors
  regularly finish the same work;
* a review's attempts leave rows behind that the next attempt meets, and other
  jobs (sweep, disclosure) start from such rows;
* failures in the kernel are partly swallowed and partly thrown, and what must
  stay hidden has to stay hidden in every mixture of them;
* money must neither be taken twice nor vanish while all of this happens.

What makes each part correct, in one sentence: a prepaid job runs only after its
own drawdown and its charge ends as exactly one of *delivered* and *given back*;
an x402 authorization is captured only for a review that was done or a fault of
the caller, and the receipt is kept; a review is worked on by one lease holder,
charged once, commented once and always driven to a verdict; a transfer counts
once and is not overlooked; an ACP client gets one deliverable and the row says
which; a finding is published only with the backing it claims, and never while
its embargo lasts; a row, a comment and a closure that stand together belong to
one attempt.

`PROJECT.json` lists the hazards at their lines, with the property that covers
each or the reason why none does.

## 2. Modules

| Module | Models |
|---|---|
| `PrepaidLedger` | abstract: what the prepaid rail promises the owner of a channel |
| `DeferredPayment` | abstract: what the x402 rail promises a wallet |
| `ChannelRail` | the prepaid rail with its worker, cron, refund and deposits; maps to `PrepaidLedger` |
| `X402Rail` | the x402 rail with the facilitator as its environment; maps to `DeferredPayment` |
| `ReviewQueue` | webhook, review worker and review-retry cron on the `reviews` rows |
| `Deposits` | registration, deposit endpoint and scanner on a chain that forks |
| `AcpRail` | the ACP rail from the event file to the deliverable |
| `ScanRail` | paid repository scans of one wallet |
| `AgreementGate` | what two or three providers are made to agree on |
| `FindingLifecycle`, `Disclosure` | a finding over the attempts of its review; the second extends the first by embargo, advisory and publication |
| `PatchLane` | functions: patch gate, selector, verdict of a verification |
| `ReviewKernel` | one run of the kernel and the lane after it (extends `PatchLane`) |
| `Scorecard` | tier flips against snapshots |
| `SarifIngest` | one upload of another scanner's report (extends `PatchLane`) |
| `FleetState` | the commands on the state directory |
| `Components` | the parts that share no row while they run, composed by casts |
| `MC...` | instances for TLC: definitions of constants, symmetry, scenes |
| `..._proofs` | eight modules of theorems: `ChannelRail`, `X402Rail`, `ReviewQueue`, `Deposits`, `AcpRail`, `Publication` (kernel, finding and disclosure, scorecard, upload), `CommandLine` (agreement gate and state directory) and `Components` (scan rail and composition) |

**How state and actions correspond to the code.** A variable is a table (or the
columns of it that a property can tell apart) or the program counter of an
instance. An action is the code from one `await` that touches shared state to
the next, so an interleaving of actions is an interleaving of statements; what
an instance remembers across an `await` (the price the gate read, the row a
worker loaded, the settlement status a tick selected) is a field of its record.
Every guarded `UPDATE ... WHERE` is an operator named after what it asks
(`Claimable`, `Failable`, `Unrefunded`, ...). Beside some of them stands a
*slip*: the same guard or step as a plausible bug would have it
(`ClaimUnguarded`, `TrustTheGate`, ...). No action uses a slip; `PROJECT.json`
names under "mutants" which slip must break which property.

*`ChannelRail`.* `call` is the handler of `POST .../review`: `Authenticate`,
`DecideGate`, `FindExisting`, `ClaimChallenge`, `CreateJob`,
`DebitAndQueue` / `DebitRefused`, `FailBilling`, `QueueUnbilled`,
`ScheduleWorker`, in the order of `route.ts:169-446`. `actor` holds the
instances of `processReviewJob` and the ticks of the cron: `StartScheduled` is
the callback of `after()`, `PickUpOrphan` the orphan pass, `ClaimJob` ...
`Complete` the try block, `MarkFailed`, `CheckRefund`, `PayRefund` the catch
block and the stuck pass, which run the same statements. `payments` is the
ledger, an entry's id its position; `debit` and `refund` of a job are the two
foreign keys. Faults: `CallDies`, `ActorDies`, `ScheduleLost`,
`CompleteThrows` (a statement that throws before or after its commit).

*`X402Rail`.* The facilitator is external: `Capture` and `Refuse` happen to a
*sent* authorization at a moment of their own. `earned` is a history variable
that says how the pipeline ended, so that "charged only if earned" can be said.
The worker's statements after the pipeline are steps of one small program
counter because each may throw, and the handler of the failure reloads the row.
`ConfigThrows` is the environment that `settleX402Job` loads outside of the block
that marks settlement errors: refused there, the failure is internal, or a
timeout, and nothing is posted.
`PollExpires` is the caller's GET. Time is `lapsed`: the signed window of a job
has passed. The mapping to `DeferredPayment` reads a job as its caller does: its
lane, the work (`earned`), the authorization it carries, whether the row has a
receipt, and what it ended as. "waived" is a row that failed for another reason
than the cron's timeout and says *not settled*: the caller was told that nothing
was charged. On the paid lane that never follows a fault of the caller; it may
follow a delivered review whose settlement could not even be asked for.

*`ReviewQueue`.* `row` is `reviews`; `stale` stands for
`processing_started_at < now - STUCK_AFTER_MS`. `Load` copies the attempts, as
`runReviewWorker` does, and everything that follows goes by the copy. `Hooks`
are workers started by `after()` and channel jobs that run the worker in place,
`Crons` overlapping ticks. `debits` and `comments` are history. The kernel is
one step with four ways out (comment, nothing to comment, degraded, thrown).

*`Deposits`.* The chain is `height` and the block of each transaction; `Mine`
adds a block, `Fork` drops an unconfirmed transaction, at any moment. The
endpoint is `LoadInstall`, the two calls of `verifyDeposit` (`ReadReceipt`, which
remembers the block and whether the transfers suffice, and `ReadTip`, which
counts the confirmations of that block at a tip read later), `EnsureChannel`,
`CreditDeposit` (one statement that inserts the payment and adds it),
`ActivateIfFunded`. `stale` is the history of transactions a fork took from
under a receipt. A payment row is one per transaction, so a transfer is recorded
for its own wallet (`RecordedFor`) or not at all. The scanner is
`ScanBegin` (cursor), `FetchLogs` and `MatchLog` per chunk, then
`InsertPayment`, `BumpBalance`, `ScanActivates` as three statements outside a
transaction, and `WriteCursor`. `credits` counts how often a transaction was
added; `dropped` is the history of scanners that died between insert and
addition. The scanner has a route although `vercel.json` does not schedule it.

*`AcpRail`.* `market` is the marketplace (what it announced, its budgets, the
deliverables it took), `spool` the event file, `inbox` the table with attempts
and lease, `acpJob` the job rows of this rail, `acpReview` the `reviews` row of
a target, `provider` the worker processes. A worker drains the file
(`Drain`, `RecordEvent`), claims an event (`ClaimEvent`), handles it (`Refuse`,
`CreateJob`, the budget's `ClaimBudget` / `SetBudget` / `MarkBudgetSet` /
`MarkReconcile` / `MarkBudgetFailed`, or `FindFunded` / `QueueFunded`), ends it
(`MarkProcessed`, or `ReadAttempts` and `MarkFailed`), and runs jobs (`RunJob`,
`EnqueueAcpReview`, `KernelEnds`, `BuildDeliverable`, `ClaimSubmit`, `Submit`,
`MarkSubmitted`, `CompleteJob`; on failure `Terminalize`, `ClaimError`,
`RereadJob`, `MarkErrorFailed`, `MarkAmbiguous`, `KeepSubmission`, `FailJob`).
`TakeDue`, `TakeOrphan` and `TakeStuck` are the passes by which it finds them.
`ClientCreates`, `ClientFunds`, `Redeliver` and `OtherRailReviews` (another
rail makes the `reviews` row of the target) are the environment. A call to the
marketplace may be refused, or take effect and be reported as failed.

*`ScanRail`.* `ClaimScan` (the insert that makes an authorization usable once),
`CheckWalletLimit`, `ScanRepo`, `SettleScan`, `RecordSettlement`; `passed` is
the history of claims that got through the limit.

*`AgreementGate`.* `TriageSkips`, `ProviderReturns`, `ProviderFails`, `Merge`.
`FindingsAgree` is symmetric and not transitive: two findings may agree only
through a third, so what the gate does with clusters (components of that graph)
differs from what one pair suggests; the instance has such a triple.

*`FindingLifecycle` and `Disclosure`.* `attempt` is a worker on the review,
numbered; `finding`, `disclosure`, `review` are the three rows, and each
remembers (in history fields) which attempt wrote it. `Decide("none")` is an
attempt without a finding for this index: with nothing agreed at all it ends
there, otherwise it goes on, `RecordFinding` deletes a row whose lifecycle
columns are empty (`Trailing`), `finding_disclosure` going with it, and a comment
is posted all the same. `erased` is the last attempt that deleted a row under
disclosure. `Decide`, `RecordFinding`, `InitializeDisclosure`, `PostComment`, `SetReviewComment`,
`RecordPatch` are the attempt's statements, `LoadClosure` / `LoadAcceptance`,
`PostReceipt`, `MarkFinding` a sweep tick's, `Retract` the operator's.
`publisher` is a call of `publishDisclosure`: `ClaimReservation`,
`ReloadDisclosure`, `FindDraft`, `PostDraft`, `RecordDraft`, `RequestCve`,
`CompleteReservation` / `ReleaseReservation`, `TransitionToPublished`,
`PublishAdvisory`, `MarkAdvised`. `ReservationAges` lets another call take an
old reservation over. `embargo` is time as far as the code asks for it. The two
transitions of one cron tick are two steps that read the row afresh; that two
attempts delete the row and enter it again between them is left out.

*`ReviewKernel`.* `kernel` is an invocation on a commit of its own; `setup` the
feature flags and what is known of the repository. Its steps are the phases of
`runReviewKernel` and of the patch lane, in their order, each with the failure
that is swallowed there or thrown. `SetRepoTier` is the operator. `threatModel`
is shared by the reviews of a repository. `PatchLane` holds the pure functions:
the gate's verdict about two proposals, the selection, the verifier's verdict.

*`Scorecard`.* `AskTier` and `SetTier` are the operator's transaction: its
`now()` is of its beginning and its effect of its end. `ReadWeek`,
`ReadRolling`, `InsertSnapshot` generate, `AskSnapshot`, `ReadRow`,
`ReadCutoff`, `Serve` are a reader.

*`SarifIngest`.* `SignToken`, `VerifyToken`, `ConsumeTokenUse`, `CreateBatch`,
`InsertClaims`, `ValidateClaim`, `FinishBatch`, `PushFindings`;
`PurgeTokenUse` forgets uses, `UploadFails` ends a request anywhere.

*`FleetState`.* `featureFile`, `findingFile`, `patchFile` are the JSON
directories, read and written as whole records; `command` is a process of the
command line, `job` one of its parallel reviewers. A command works on the copy
it read at its start, as the code does. The writes of a review fail one by one,
that of the catch block too: then the run goes on and the feature stays locked
(`unreleased`). `tried` are the findings a fix was tried on since the last
refresh of their feature.

**Casts.** Deposits, ACP rail, scan rail, gate, kernel, finding, scorecard,
upload and command line share no row *while they run* (what one leaves to the
next is in the initial states: the rows the kernel writes are those that
`FindingLifecycle` and `Disclosure` take up). Interleaving them would multiply
their states and show nothing, so `Components` runs them side by side in
*casts*: a cast names the component that moves and the participants that are
there; the others stay where they are. A scene of `MCComponents` is such a cast,
and every property is checked in all of them.

**Abstractions.** Amounts are small numbers of price units. Reviews, jobs, keys
and transactions are model values. Wording, redaction, logging, alerts and the
content of a review are left out; a finding is what the gate compares of it.
One installation (prepaid rail, queue), one wallet (x402, scans) and one finding
(lifecycle) are modelled: rows of different owners meet in no statement. The
price may be different at every call. `cost_cap_exceeded` behaves as
`provider_error`, `validation` as `user_input`. A chain forks only above its
confirmed part. An upload has the default dependencies, which have no
confirmation step. A proof of concept is never run before the patch, a test that
runs out of time leaves the verdict open, and one that ends without an exit code
counts as regressed, as in the code. The command line
reads a directory at once; its run records are left out, and its properties are
about commands that do not overlap, except where the one about overlap says so.

## 3. Runs

All bounds are in the `.cfg` files. `MaxFaults` and its relatives bound kills,
lost callbacks, failed statements and lost answers together. Deadlock is off
everywhere because finitely many calls or deliveries do end.

| Run | Question | Distinct states |
|---|---|---|
| `ChannelSafety` | may any interleaving charge, run, end or refund a job wrongly, and does the rail implement `PrepaidLedger`? | 677,500 |
| `ChannelLiveness` | does every queued job end? | 164,062 |
| `ChannelRefundLost` | *violation*: is a failed job refunded, as its message says? | |
| `X402Safety` | settlement deferred, never invented or doubled, and does the rail implement `DeferredPayment`? | 944,223 |
| `X402Liveness` | does every queued x402 job end although nobody polls? | 29,027 |
| `X402ExpiredCharged` | *violation*: is an expired job uncharged? | |
| `QueueSafety` | one debit, no overdraft, one comment, one verdict | 1,034,407 |
| `QueueLiveness` | one lease holder, attempts within the cap, a verdict for every review | 262,920 |
| `QueueOverlap` | *violation*: do overlapping ticks still drive every review to its end? | |
| `QueueUnpaid` | *violation*: was a review that ran to its end paid for? | |
| `ComponentsSafety` | every other component in its casts: money, deliverables, agreement, embargo, publication, privacy, uploads, state files | 843,750 |
| `ComponentsLiveness` | do recorded events and queued ACP jobs end, and does an expired embargo end published? | 64,012 |

Bounds, and why they are enough:

* `ChannelSafety`: 2 calls (every race is of two), 1 key or none, 2 challenges,
  2 workers and a tick, so three instances can hold one job; one price and one
  deposit, so the balance covers one call and not the other (that every amount
  comes back exactly is proved for all amounts); 1 fault anywhere; the tick may
  time out a live worker. `ChannelLiveness`: 2 calls,
  1 worker, 1 tick, 1 fault. `ChannelRefundLost`: 1 call, 1 fault.
* `X402Safety`: 2 calls, 2 authorizations, 2 targets, both lanes, a worker and a
  tick (two instances on one job; a claimed job never has a second worker, which
  `Owned` proves), 1 fault. `X402Liveness`: 2 calls, 1 worker, 1 tick, 1 fault.
  `X402ExpiredCharged`: 1 call, no fault.
* `QueueSafety`: 1 review, 2 deliveries, a channel job, 2 hooks, 2 overlapping
  ticks, balance 0 to 2, 1 fault with lost answers. `QueueLiveness`: 1 review,
  2 deliveries, 1 hook, 1 tick, cap 3, 2 faults. `QueueOverlap`: 2 ticks, no
  fault. `QueueUnpaid`: 1 delivery, empty channel, no fault.
* `ComponentsSafety`: the scenes of `MCComponents`, 32 casts.
  - Deposits in six: two installations and one transaction with an endpoint and
    a scanner, and with two endpoints; one installation, two wallets and two
    transactions with a scanner; two installations, two wallets and one
    transaction with a scanner; endpoint against scanner; two scanners. The
    chain has 3 blocks, depth 2 and chunks of one block, so a scan takes two
    rounds and a transfer may be seen unconfirmed.
  - ACP in five: two jobs of one target, with faults at the kernel and at the two
    statements of a submission; one job with another rail at its target and a
    fault anywhere; one job with two workers and no fault; a budgeted job with
    one worker and a fault anywhere, and with two workers and faults where the
    budget is set. A cast with two workers and faults everywhere is too large,
    so where two race the faults are those that leave an answer in doubt.
  - The gate with three findings that agree only through the middle one, three
    providers, every mode.
  - A finding in six: over three attempts with the sweep, and with publication
    and no fault (one attempt enters a row, one deletes it, one enters another);
    in one attempt with sweep and publication, and with comment and publication,
    with a fault anywhere; with all three and none; with two overlapping
    publications and a fault where the draft is posted.
  - The kernel in five, under six setups: everything on for a live protocol and
    nothing on, with an operator who changes the tier; no disclosure; everything
    on for another repository and no side table, with the operator; two
    overlapping reviews; two findings without the second gates.
  - The scorecard with two operators, two repositories or two generators. Two
    uploads with one token. Overlapping scans of one wallet.
  - The command line with one feature and three commands; with a feature that has
    two findings; with two features and a command of two jobs; and once with
    overlapping commands.
* `ComponentsLiveness`: one ACP job and worker, 2 faults; one publication, 2
  faults, and with a retry that may delete the row, faults where the draft is
  posted.

The cap on attempts of a review is 6 in the code and 2 or 3 here. It is 3 where
liveness is asked: a hook claims only rows nobody attempted, so with one tick at
a time at most one worker is one attempt behind, and the cap must leave room for
that worker, a retry and the exhausted attempt. In `QueueLiveness` statements
that throw did not commit (`LostAnswers = FALSE`): a verdict that is written,
reported as failed and written again by the catch block, over the progress of
the next worker, breaks the lease and the end of a review; this is in the list
of hazards. `QueueSafety` allows lost answers.

**What the passing runs show.** On the prepaid rail neither the stale gate nor
two refunding instances lose or duplicate money, and a job that failed while no
instance died has its refund under way. On the x402 rail the settlement column
never claims a capture that did not happen, a timeout or a failure never erases
a receipt, a review completes only when it is paid, one authorization pays one
review, and a caller who is told *not settled* for a failure is never asked
again, unless the cron timed the job out. In the queue, redeliveries and overlapping ticks debit once and
comment once, up to one duplicate comment per fault. A channel's balance is its
deposits, each once, and the cursor passes no transfer but a second one of a
transaction that already has its row. An ACP client gets one
deliverable and a budget is accounted for, unless an answer is in doubt. What
the gate publishes is backed by the reviewers it names. Row, comment and closure
of a finding are of one attempt, also where an attempt deletes the row, and an
embargo holds from the kernel's comment to the advisory, or to the deletion of
its row. Scorecards serve nothing of a repository that is and was cyber
when they were asked. A token makes one batch, whose counts add up.

**What they leave out.** Some passing properties exclude the very case their
hazard is named for, because the code does it. Where a sentence of the repository
says otherwise, the module states that sentence as well, and TLC refutes it on
the component alone, at the smallest bounds that show the case; these are
findings, listed below: a credit after a fork (`BalanceIsDeposits` against
`CreditedIsConfirmed`), the second transfer of a transaction
(`CursorLeavesNothing`, `SentIsCredited`), an embargoed row swept early
(`RowMatchesComment`, `ClosedOnItself`), a row entered for another attempt's
finding or deleted with its embargo (`EmbargoIsKept`, `HighIsWithheld` and
`EmbargoOutlivesRetry`), a lost embargo of the single-model tier
(`WithheldIsNotShown`, `ShadowIsWithheld`), a scorecard computed across a flip
(`ServedIsPublic`, `HiddenIsNeverServed`), overlapping commands (`FleetIsSound`,
`NoDoubleClaim`). Two exclusions are stated nowhere else: `AcpWorkEnds` leaves out
an event whose worker died in its fifth attempt, and `DeliveryIsHonest` jobs one
of whose calls the marketplace took without an answer.

**What the violation runs show.** Four sentences of the repository are not what
the code does. (1) `lib/paywall/refund.ts:26-28` tells the caller "Your channel
has been refunded" in a message stored one statement before the refund; a death
in between is repaired by nobody, because the stuck pass selects running rows.
(2) `src/specs/SPEC-001-aeon-x402.md:542` says that an expired job is not
charged; the poll expires rows whose worker is settling. (3) The webhook's
comment at 478-482 and 577-581 says an insufficient balance skips the enqueue
and that the original delivery paid "or correctly skipped it"; the row is
inserted runnable before the gate's verdict is applied, so the retry cron can
review it unpaid. (4) The comment at 612-616 says the retry cron drives every
review to a terminal state; two overlapping ticks leave a row in
`pending_retry` at the attempts cap, where no tick selects it.

**Found while modelling, without a run of its own.** `PROJECT.json` quotes each
under "findings"; the property of the model that speaks of it either states the
sentence that fails, or names the exception.

* Deposits: confirmations are counted from a receipt that a fork may have
  overtaken when the tip is read (`CreditedIsConfirmed`); of two bound wallets
  that pay in one transaction the second is taken for a duplicate
  (`SentIsCredited`); a scanner that dies between insert and addition loses a
  credit (`scan-deposits.ts:340`).
* ACP: a job delivers the payload of a row that is still pending as a review
  (`SuccessIsReviewed`); if recording a submitted error throws, the row says it
  failed (`review-job-worker.ts:1066`); a thrown claim of a submission lets the
  failure handler overwrite the claim of a stuck pass, and a client may get two
  errors (`review-job-worker.ts:1018`).
* Findings: a low finding's disclosure row is kept for the high one of the next
  attempt (`HighIsWithheld`); a retry that agrees on less deletes a row together
  with an embargo a maintainer has acknowledged (`EmbargoOutlivesRetry`); the
  sweep takes up embargoed rows whose comment does not exist yet
  (`ClosedOnItself`); the embargo of single-model findings is lost when its step
  throws (`ShadowIsWithheld`); onboarder events are fired for patches the
  verifier dropped.
* Scorecards: snapshots computed across a flip are served
  (`HiddenIsNeverServed`), and hidden ones are never regenerated.
* Command line: the lock is tested on a stale copy (`NoDoubleClaim`), and
  `refreshFeatureStatus` marks edited features as fixed (`RefreshKeepsWork`).

**Fairness.** Weak fairness of every instance's own steps: an instance that is
not killed keeps executing (a death is an explicit fault). Weak fairness of the
cron's passes: `vercel.json` schedules `review-jobs` every minute and
`review-retry` every 30 minutes for ever. The queue has *strong* fairness for
selecting a due row: a tick is serial and orders by age, so a row that keeps
being due while the tick works on others gets its turn. The same holds for the
ACP worker, which is started every minute (`TakeDue`, `TakeOrphan`, `TakeStuck`
strong, `Drain` and its own steps weak), and for the daily disclosure cron
(`LoadDisclosure` strong). Time passes (`RetryTimePasses`, `ReservationAges`).
The facilitator answers in the end, possibly with a refusal. Callers and clients
owe nothing: no fairness for a call to begin, a redelivery, a poll, a deposit or
a funding.

`PlatformKillsFirst` says whether an instance dies before the stuck threshold.
In the queue it is TRUE: `STUCK_AFTER_MS` equals `maxDuration` (300 s) of the
routes that hold leases. On the job rails the threshold is configured by an
environment variable, so the safety runs take FALSE (a tick may time out a live
worker) and the liveness runs TRUE.

## 4. Proofs

Eight modules hold the theorems listed in `PROJECT.json`. None of them bounds a
constant: calls, workers, ticks, cron overlaps, retries, faults, findings,
attempts, tokens and blocks are arbitrary, and the only hypotheses beyond the
`ASSUME` of a module are those written in a theorem's statement (the queue's,
below). The assumptions say that names of absence ("none") are not names of
things, that bounds are natural numbers, that what the code counts is finite
(the claims of an upload, the findings of a report, the authorizations the
wallet's limit counts), and what the code's own constants satisfy (a deposit's
minimum is positive, uses of a token are remembered longer than it is valid).

Every proof has the same shape: type correctness first, with what each instance
knows about the rows it holds, then an inductive invariant that relates
instances to rows, one lemma per action or family of actions, then the
theorems. Wherever an invariant looked inductive only on small instances, TLC
checked the strengthening on larger ones before it was proved.

**`ChannelRail_proofs`.**

| Theorem | States |
|---|---|
| `TypeCorrect` | `[]TypeOK`: among others, the balance is never negative |
| `TerminalStays` | `TerminalIsFinal` |
| `PaidFirst` | `[]PaidBeforeRun` |
| `RefundsAreExact` | `[]RefundMatchesDebit` |
| `KeyNamesOneJob`, `ChallengeBuysOneJob`, `RequestMakesOneJob`, `JobHasOneReviewer` | `[]OneJobPerKey`, `[]OneJobPerChallenge`, both as `[]OneJobPerRequest`, `[]OneReviewerPerJob` |
| `RefundNeverForgotten` | `[]RefundInSight` |
| `LedgerIsImplemented` | `LedgerPromise`: the rail implements `PrepaidLedger` |

`TypeOK` is not inductive: that the balance stays a natural number needs the
debit's own guard, that `PayRefund` appends a well-formed entry needs the job's
debit to point into the ledger, and that in turn needs to be known of the job an
instance remembered several statements ago. `TypeInv` adds what every instance
knows about its row: a call before its insert has no row, a busy actor has a
job, past the gate a call carries a positive price, links point into the ledger,
only failed jobs have a failure of the pipeline, and whoever is about to credit
holds a failed job with a debit. From it `RowLifecycle` describes one step as
seen by one row (inserted under a free key, moved forward, refunded, or
untouched). `MoneyInv` strengthens the two money properties by "an unbilled row
points nowhere", without which a debit could overwrite a link. `SpentOnce` and
`ReviewersClaimed` are the strengthenings for challenges and reviewers (whoever
reviews a job claimed it, and a claim is never undone). `RefundInSight` is
inductive with `TypeInv`. The simulation of the ledger needs `TypeInv`,
`MoneyInv` and `Quoted` (a handler carries no price that was never asked):
`DebitAndQueue` is a charge, `Complete` a delivery, `PayRefund` gives back,
`CreditDeposit` credits, everything else stutters.

**`X402Rail_proofs`**: `X402TypeCorrect`, `SettlementStaysTrue`,
`WorkStaysPaid`, `OneJobEachTarget`, `OutcomesAreKept`, `PaymentIsImplemented`.
`RailInv` has, next to
`OneJobPerTarget` itself, `Held` (an authorization has one holder: a call
between claim and insert, or a row), `Owned` (a claimed job has one worker),
`RowFits` (what settlement column, status and
facilitator say of each other) and `WorkerFits` / `CronFits`: what an actor at
each place of its program counter may still believe of its row although others
moved it. A worker's copy is mostly stale; the invariant therefore says what no
other actor can have done, not what the row is. The simulation of
`DeferredPayment` needs the same invariant with two parts that the safety
properties alone do not: what the job earned at each step of its worker (nothing
while it reviews, a review where it settles or completes, a caller's fault where
it charges for a failure), and that whoever is about to write *not settled* for
a paid job does not do so for a fault of the caller. With it a statement on a row is a
receipt, a delivery, a waiver, a failure or an expiry (`RowIsSeen`), the end of
the pipeline is the work, `PostSettle` asks, `Capture` and `Refuse` answer,
`CreateJob` opens, and everything else stutters. `DeferredPayment` contains
`OutcomeIsKept` but for the failure mode, so the run checks the former.

**`ReviewQueue_proofs`**: `QueueTypeCorrect`, `OneEffectEachReview`,
`VerdictsAreFinal`, `LeaseIsExclusive`, `ClaimsStayKept`. `PayerInv` says that
the debit belongs to the one delivery that inserted the row. `PermitsInv` bounds
the comments: a review has one permit to begin with, every fault grants one, and
each comment spends one. `CleanInv` describes a run without failed statements, `LeaseInv` is the
lease with what its holder knows, `CapInv` the attempts. Their hypotheses are
real limits of the code. Without `PlatformKillsFirst` a tick takes the lease of
a live worker. With lost answers a committed verdict is followed by the catch
block's `pending_retry` over the next holder's row, so the lease is exclusive
only without them. Two ticks can both pass the check of the cap, so attempts
stay within it only with one tick at a time. The cap is at least 2 (6 in the
code).

**`Deposits_proofs`**: `DepositsTypeCorrect`, `BalanceStaysDeposits`,
`ActiveStaysFunded`, `CursorStaysBehind`. `KnowsInv` says what a call and a scan
know of the chain and rows they read: a call that holds a receipt knows the
transaction's block and sums, unless a fork came in between (`stale`); `OneAdder` that the instance between a
payment's insert and its addition is alone; `DroppedRecorded` that what a dead
scanner left is a recorded payment; `Progress` lists what no step undoes
(blocks, confirmed transactions, payments, matched chunks), which is what makes
a scanner's knowledge survive the others; `CoverInv` follows a chunk from the
fetched log to the cursor.

**`AcpRail_proofs`**: `AcpTypeCorrect`, `DeliveryStaysHonest`,
`BudgetStaysAccounted`. `AcpInv` has three parts: `JobFits` (row, marketplace
and budget of a job agree up to the answers that are in doubt), `Says` (what a
worker at each place may say of its job), `Apart` (the right to submit is a
token: an open row, a worker about to submit or a deliverable the client holds,
and never two of them for one job unless a call was taken to fail that did
not). The first attempt failed at
`MarkErrorFailed` for a good reason: `DeliveredOnce` was false beyond the run's
bounds (three workers and one failed statement), which is the finding at
`review-job-worker.ts:1018`; the property now excludes exactly the jobs whose
claim threw.

**`Publication_proofs`** has five parts, one after the other.
*Scorecard* (`ScorecardTypeCorrect`, `ServedStaysPublic`): `ScorecardInv` says
what readers, generators and operators know of tier and log; the cutoff a reader
read covers every flip whose time is past, except those still in a transaction.
*Upload* (`SarifTypeCorrect`, `TokensMakeOneBatch`, `BatchesAddUp`): a token's
use is remembered as long as a request that verified it may live; the counts of
an upload are those of its rows at every step of the loop.
*Kernel* (`KernelTypeCorrect`, `WithheldStaysHidden`, `SuggestionsStayChecked`,
`PublicModelStaysPublic`): `KernelFits` relates the invocation, its rows and the
comments; the main fact is that on a cyber repository whatever was found is
embargoed before a patch is asked for, and every copy of a public threat model
was built from public reviews.
*Disclosure* (`DisclosureTypeCorrect`, `RowStaysWithComment`, `EmbargoStaysKept`,
`AdvisoryStaysOne`): `AttemptFits` says that rows of earlier attempts have smaller
numbers and that a decision is the recording attempt's, none where it has nothing
for the row; `TickFits` and `SweepFits` that without an embargo nothing is swept
before there is a comment, at which time the row is the last attempt's, except
what was seen of a row that a retry deleted (`Leftover`). `WholeInv` holds while
no row under disclosure was deleted, `DisclosureInv` afterwards too. `CallsFit` says that whoever is between
reservation and release holds the token and drafts only when there is no
advisory. `AdvisoryFits` says that there is at most one advisory, that a
published one has a published row, and that without an operator's force time has
elapsed. The reservation's tokens are random UUIDs in the code, here the calls'
names, of which "stale" is none.
*Patch lane* (`PatchDecisionIsBacked`, `PatchVerdictsAreDecisive`): for every
offer and every checkout, a patch comes of an offer that fits, a verdict of what
the commands reported, and the checkouts the kernel's runs enumerate
(`DecisiveCheckouts`) show every verdict.

**`CommandLine_proofs`** has two parts. *Agreement gate* (`GateTypeCorrect`,
`GateStaysHonest`): lemmas about the operators come first. Clusters partition the
findings, every cluster has a best member (by well-foundedness of a finite
order), and what is merged is backed by the providers named. *State directory*
(`FleetTypeCorrect`, `FleetStaysSound`): `FleetIsSound` speaks of findings, locks
and feature states on disk; what a command writes comes from copies it loaded
earlier. `FleetInv` says that, as long as no two commands have overlapped, the
running command's copies are what is on disk: the feature of a job is as it was
locked (`FleetJobFits`), what `map` and `clean-locks` are about to write keeps
lock and status (`CopyFits`), a decision is made on the finding as it stands, a
lock belongs to a busy job, to a dead run or to one that failed to write the
release (`LockFits`), and features marked fixed are resolved but for findings
tried since, except while the command that refreshes them runs or after it was
killed (`FixedFits`). With overlap nothing is claimed: the finding at
`NoDoubleClaim` (section 3) says why.

**`Components_proofs`** has the scan rail and the composition. *Scan rail*
(`ScanTypeCorrect`, `ScansStayPaidWithinLimit`): a claimed authorization has one
owner, the call that claimed it (`OwnerInv`); while its owner works the claim
reads claimed, and before the owner asks for settlement nothing is captured.
Claims that passed the wallet's check and still count are among those the last
one to pass has counted, because the limit is checked after the insert.
*Composition*: `PartsAreComponents` proves that the specification of
`Components` implies the specification of every module it instantiates, so that
the theorems about the parts speak of the very behaviours its run explores;
`ComponentsTypeCorrect` and `ComponentsStaySound` then state type correctness
and every invariant of the parts of the composition.

**Only model-checked.** All liveness (`QueuedJobEnds` on two rails,
`ReviewEnds`, `AcpWorkEnds`, `ExpiredIsPublished`): fairness and `ENABLED` are
beyond TLAPS here. Every invariant and every action property of a passing run is
stated by a theorem.

## 5. Not modelled, and the plan

By size, what is left out is mostly what has no state of its own or no rival for
it: pages, feeds and the read API, the database schema and its migrations,
one-off scripts, prompts, mappers of languages and the Solidity sidecar (offline
tools that write artifacts of their own). Left out for other reasons:

* issuing a challenge, claiming an installation, purging old results: single
  statements on rows no rail races for; the rails' initial states have them;
* reactions: counters polled from GitHub and overwritten as a whole;
* onboarder and opt-in: one-shot issue creation and a signed link;
* reproduction verification: an operator batch that records the first verdict;
* drift, factory, regression and curation crons: periodic appends of snapshots;
* post drafts and roasts: an editorial queue with a human in the loop;
* rows of the single-model tier in the sweep (no pass closes them), and the
  gate's report of disagreements.

Next: an abstract specification of a submission as refinement target of
`AcpRail`, in the way `PrepaidLedger` is one of `ChannelRail` and
`DeferredPayment` one of `X402Rail`.
