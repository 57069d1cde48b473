------------------------------ MODULE AcpRail ------------------------------
(***************************************************************************)
(* The ACP rail.  A marketplace client creates a job, AntFleet sets its    *)
(* budget there, the client funds it, AntFleet reviews and submits one     *)
(* deliverable: the review, or an error.  The marketplace announces a job  *)
(* and its funding as events; scripts/acp-provider-worker.ts drains them   *)
(* from a spool into an inbox with attempts, a lease and a dead letter     *)
(* status, handles those due, and then recovers queued and stuck jobs.     *)
(*                                                                         *)
(* Runs of the worker may overlap: a lock keeps the scheduled ones apart,  *)
(* the manual reruns of the runbook do not take it.                        *)
(***************************************************************************)
EXTENDS Integers, FiniteSets

CONSTANTS
    AcpJobs,       \* acp_job_id values
    AcpTargets,    \* wallet, repository, pull request and commit
    TargetOf,      \* what each job asks to review
    Budgeted,      \* jobs whose budget was set before the run begins
    AcpWorkers,    \* worker processes
    EventCap,      \* MAX_EVENT_ATTEMPTS, 5 in the code
    OtherRails,    \* TRUE: another rail may enqueue a review of a target
    MaxAcpFaults   \* bound on kills, failed or unanswered calls, redeliveries

ASSUME AcpAssumption ==
    /\ TargetOf \in [AcpJobs -> AcpTargets]
    /\ Budgeted \subseteq AcpJobs
    /\ \A j, o \in Budgeted : TargetOf[j] = TargetOf[o] => j = o
    /\ EventCap \in Nat \ {0}
    /\ OtherRails \in BOOLEAN
    /\ MaxAcpFaults \in Nat

VARIABLES
    market,     \* the marketplace: announced events, budget, deliverables
    spool,      \* the event file
    inbox,      \* acp_provider_events
    acpJob,     \* review_jobs of this rail
    acpReview,  \* reviews row of each target
    provider,   \* worker processes
    unanswered, \* history: jobs with a call that took effect and was taken to fail
    shaky,      \* history: <<"submit", j>> a submission for job j threw,
                \* <<"claim", j>> the claim of its deliverable's did
    acpFaults

acpVars == <<market, spool, inbox, acpJob, acpReview, provider, unanswered,
             shaky, acpFaults>>

Events == {"created", "funded"} \X AcpJobs
NoEvent == <<"none", "none">>

Off == [at |-> "idle", batch |-> {}, ev |-> NoEvent, job |-> "none",
        saw |-> "none", holds |-> "none", sends |-> "none", n |-> 0]

AcpInit ==
    /\ market = [j \in AcpJobs |-> [created |-> j \in Budgeted, budget |-> j \in Budgeted,
                                    funded |-> FALSE, success |-> 0, error |-> 0]]
    /\ spool = {}
    /\ inbox = [e \in Events |->
                   IF e[1] = "created" /\ e[2] \in Budgeted
                   THEN [status |-> "processed", attempts |-> 1, due |-> FALSE]
                   ELSE [status |-> "absent", attempts |-> 0, due |-> FALSE]]
    /\ acpJob = [j \in AcpJobs |->
                    [status |-> IF j \in Budgeted THEN "billing_pending" ELSE "absent",
                     keyed |-> j \in Budgeted,
                     budget |-> IF j \in Budgeted THEN "set" ELSE "pending",
                     submit |-> "pending", result |-> "none"]]
    /\ acpReview = [t \in AcpTargets |-> "none"]
    /\ provider = [w \in AcpWorkers |-> Off]
    /\ unanswered = {}
    /\ shaky = {}
    /\ acpFaults = 0

Fault == acpFaults < MaxAcpFaults /\ acpFaults' = acpFaults + 1
NoFault == UNCHANGED acpFaults

WorkerAt(w, at) == provider[w].at = at
Step(w, at) == provider' = [provider EXCEPT ![w].at = at]

\* What is left of a worker when a task is over: the lines it drained.
Rest(w) == provider' = [provider EXCEPT ![w] = [Off EXCEPT !.batch = provider[w].batch]]

\* handleAcpProviderEvent or recovery returns, or throws: an event is marked
\* accordingly, a recovery just ends.
Return(w) == IF provider[w].ev = NoEvent THEN Rest(w) ELSE Step(w, "processed")
Throw(w) == IF provider[w].ev = NoEvent THEN Rest(w) ELSE Step(w, "failed")

-----------------------------------------------------------------------------
(* The marketplace and the event file.                                     *)

\* A client creates a job; it funds one whose budget is set.
ClientCreates(j) ==
    /\ ~ market[j].created
    /\ market' = [market EXCEPT ![j].created = TRUE]
    /\ spool' = spool \cup {<<"created", j>>}
    /\ UNCHANGED <<inbox, acpJob, acpReview, provider, unanswered, shaky, acpFaults>>

ClientFunds(j) ==
    /\ market[j].budget /\ ~ market[j].funded
    /\ market' = [market EXCEPT ![j].funded = TRUE]
    /\ spool' = spool \cup {<<"funded", j>>}
    /\ UNCHANGED <<inbox, acpJob, acpReview, provider, unanswered, shaky, acpFaults>>

\* The listener writes a recorded event again.
Redeliver(e) ==
    /\ inbox[e].status # "absent" /\ e \notin spool
    /\ spool' = spool \cup {e}
    /\ Fault
    /\ UNCHANGED <<market, inbox, acpJob, acpReview, provider, unanswered, shaky>>

\* Another rail reviews the target: enqueueReview, later its verdict.
OtherRailReviews(t) ==
    /\ OtherRails
    /\ \/ acpReview[t] = "none" /\ acpReview' = [acpReview EXCEPT ![t] = "pending"]
       \/ acpReview[t] = "pending"
          /\ \E verdict \in {"agreed", "degraded"} : acpReview' = [acpReview EXCEPT ![t] = verdict]
    /\ UNCHANGED <<market, spool, inbox, acpJob, provider, unanswered, shaky, acpFaults>>

-----------------------------------------------------------------------------
(* The inbox.                                                              *)

\* acp events drain takes the lines out of the file.
Drain(w) ==
    /\ WorkerAt(w, "idle") /\ provider[w].batch = {} /\ spool # {}
    /\ provider' = [provider EXCEPT ![w].batch = spool]
    /\ spool' = {}
    /\ UNCHANGED <<market, inbox, acpJob, acpReview, unanswered, shaky, acpFaults>>

\* recordAcpProviderEvent: INSERT ... ON CONFLICT DO NOTHING.
RecordEvent(w) ==
    /\ WorkerAt(w, "idle")
    /\ \E e \in provider[w].batch :
           /\ inbox' = IF inbox[e].status = "absent"
                       THEN [inbox EXCEPT ![e] = [status |-> "pending", attempts |-> 0, due |-> TRUE]]
                       ELSE inbox
           /\ provider' = [provider EXCEPT
                  ![w] = IF inbox[e].status = "processed"
                         THEN [Off EXCEPT !.batch = provider[w].batch \ {e}]
                         ELSE [Off EXCEPT !.at = "claim", !.ev = e, !.job = e[2],
                                          !.batch = provider[w].batch \ {e}]]
    /\ UNCHANGED <<market, spool, acpJob, acpReview, unanswered, shaky, acpFaults>>

\* claimAcpProviderEvent and findDueAcpProviderEvents share one predicate.
Uncapped(e) == inbox[e].status \in {"pending", "failed", "processing"} /\ inbox[e].due
Claimable(e) ==
    /\ inbox[e].status \in {"pending", "failed", "processing"}
    /\ inbox[e].attempts < EventCap
    /\ inbox[e].due

TakeDue(w, e) ==
    /\ WorkerAt(w, "idle") /\ provider[w].batch = {}
    /\ Claimable(e)
    /\ provider' = [provider EXCEPT ![w] = [Off EXCEPT !.at = "claim", !.ev = e, !.job = e[2]]]
    /\ UNCHANGED <<market, spool, inbox, acpJob, acpReview, unanswered, shaky, acpFaults>>

ClaimEvent(w) ==
    LET e == provider[w].ev IN
    /\ WorkerAt(w, "claim")
    /\ \/ /\ Claimable(e)
          /\ inbox' = [inbox EXCEPT ![e] = [status |-> "processing", attempts |-> @.attempts + 1,
                                            due |-> FALSE]]
          /\ Step(w, e[1])
       \/ ~ Claimable(e) /\ Rest(w) /\ UNCHANGED inbox
    /\ UNCHANGED <<market, spool, acpJob, acpReview, unanswered, shaky, acpFaults>>

\* next_retry_at goes by: a backoff is over, or a lease although its holder
\* may still be at work.
RetryTimePasses(e) ==
    /\ inbox[e].status \in {"failed", "processing"} /\ ~ inbox[e].due
    /\ inbox' = [inbox EXCEPT ![e].due = TRUE]
    /\ UNCHANGED <<market, spool, acpJob, acpReview, provider, unanswered, shaky, acpFaults>>

\* markAcpProviderEventProcessed; if it throws the event counts as failed.
MarkProcessed(w) ==
    LET e == provider[w].ev IN
    /\ WorkerAt(w, "processed")
    /\ \/ /\ inbox' = IF inbox[e].status = "processing"
                       THEN [inbox EXCEPT ![e].status = "processed", ![e].due = FALSE] ELSE inbox
          /\ Rest(w) /\ NoFault
       \/ UNCHANGED inbox /\ Step(w, "failed") /\ Fault
    /\ UNCHANGED <<market, spool, acpJob, acpReview, unanswered, shaky>>

\* markAcpProviderEventFailed reads the attempts, then writes.
ReadAttempts(w) ==
    /\ WorkerAt(w, "failed")
    /\ provider' = [provider EXCEPT ![w].at = "markFailed", ![w].n = inbox[provider[w].ev].attempts]
    /\ UNCHANGED <<market, spool, inbox, acpJob, acpReview, unanswered, shaky, acpFaults>>

OneTooMany(n) == n > EventCap
Exhausted(n) == n >= EventCap

MarkFailed(w) ==
    LET e == provider[w].ev IN
    /\ WorkerAt(w, "markFailed")
    /\ inbox' = IF inbox[e].status = "processing"
                THEN [inbox EXCEPT ![e].status = IF Exhausted(provider[w].n) THEN "dead_lettered"
                                                                             ELSE "failed",
                                   ![e].due = FALSE]
                ELSE inbox
    /\ Rest(w)
    /\ UNCHANGED <<market, spool, acpJob, acpReview, unanswered, shaky, acpFaults>>

-----------------------------------------------------------------------------
(* createBudgetedAcpReviewJob.                                             *)

SetJob(j, field, value) == acpJob' = [acpJob EXCEPT ![j][field] = value]

\* validateAcpReviewTarget, the wallet limit or the repository's cooldown.
Refuse(w) ==
    /\ WorkerAt(w, "created")
    /\ Throw(w)
    /\ UNCHANGED <<market, spool, inbox, acpJob, acpReview, unanswered, shaky, acpFaults>>

\* Another job that holds the target: failed ones give it up.
Holders(j) == {o \in AcpJobs \ {j} : acpJob[o].keyed /\ TargetOf[o] = TargetOf[j]}
OpenHolder(j) == \E o \in Holders(j) : acpJob[o].status # "failed"

\* createAcpReviewJob: lookups, INSERT, release of a failed holder and second
\* INSERT; the unique indexes make it one step.  A row of another job for the
\* target is refused (assertAcpDuplicateTargetPolicy).
CreateJob(w) ==
    LET j == provider[w].job IN
    /\ WorkerAt(w, "created")
    /\ \/ /\ acpJob[j].status = "absent" /\ ~ OpenHolder(j)
          /\ acpJob' = [o \in AcpJobs |->
                           IF o = j THEN [acpJob[j] EXCEPT !.status = "billing_pending", !.keyed = TRUE]
                           ELSE IF o \in Holders(j) THEN [acpJob[o] EXCEPT !.keyed = FALSE]
                           ELSE acpJob[o]]
          /\ provider' = [provider EXCEPT ![w].at = "claimBudget", ![w].saw = "pending"]
       \/ acpJob[j].status = "absent" /\ OpenHolder(j) /\ Throw(w) /\ UNCHANGED acpJob
       \/ /\ acpJob[j].status # "absent"
          /\ IF acpJob[j].status = "billing_pending" /\ acpJob[j].budget \notin {"set", "set_reconcile"}
             THEN provider' = [provider EXCEPT ![w].at = "claimBudget", ![w].saw = acpJob[j].budget]
             ELSE Return(w)
          /\ UNCHANGED acpJob
    /\ UNCHANGED <<market, spool, inbox, acpReview, unanswered, shaky, acpFaults>>

\* claimAcpJobBudgetSetting; a budget somebody is setting needs an operator.
ClaimBudget(w) ==
    LET j == provider[w].job IN
    /\ WorkerAt(w, "claimBudget")
    /\ \/ /\ acpJob[j].status = "billing_pending" /\ acpJob[j].budget \in {"pending", "set_failed"}
          /\ SetJob(j, "budget", "setting")
          /\ Step(w, "setBudget")
       \/ /\ acpJob[j].status # "billing_pending" \/ acpJob[j].budget \notin {"pending", "set_failed"}
          /\ IF provider[w].saw = "setting" THEN Throw(w) ELSE Return(w)
          /\ UNCHANGED acpJob
    /\ UNCHANGED <<market, spool, inbox, acpReview, unanswered, shaky, acpFaults>>

\* setAcpJobBudget, a call of the marketplace's command line.
SetBudget(w) ==
    LET j == provider[w].job IN
    /\ WorkerAt(w, "setBudget")
    /\ \/ /\ market' = [market EXCEPT ![j].budget = TRUE]
          /\ Step(w, "markSet") /\ NoFault /\ UNCHANGED unanswered
       \/ Fault /\ Step(w, "markSetFailed") /\ UNCHANGED <<market, unanswered>>
       \/ /\ Fault
          /\ market' = [market EXCEPT ![j].budget = TRUE]
          /\ unanswered' = unanswered \cup {j}
          /\ Step(w, "markSetFailed")
    /\ UNCHANGED <<spool, inbox, acpJob, acpReview, shaky>>

\* What the budget is marked as when markAcpJobBudgetSet throws.
ForgottenBudget == "set_failed"
PersistenceFailure == "set_reconcile"

\* markAcpJobBudgetSet; if it throws, committed or not, ask for reconciliation.
MarkBudgetSet(w) ==
    LET j == provider[w].job IN
    /\ WorkerAt(w, "markSet")
    /\ \/ SetJob(j, "budget", "set") /\ Return(w) /\ NoFault
       \/ (SetJob(j, "budget", "set") \/ UNCHANGED acpJob) /\ Step(w, "reconcile") /\ Fault
    /\ UNCHANGED <<market, spool, inbox, acpReview, unanswered, shaky>>

MarkReconcile(w) ==
    LET j == provider[w].job IN
    /\ WorkerAt(w, "reconcile")
    /\ \/ SetJob(j, "budget", PersistenceFailure) /\ NoFault
       \/ UNCHANGED acpJob /\ Fault
    /\ Throw(w)
    /\ UNCHANGED <<market, spool, inbox, acpReview, unanswered, shaky>>

MarkBudgetFailed(w) ==
    LET j == provider[w].job IN
    /\ WorkerAt(w, "markSetFailed")
    /\ \/ SetJob(j, "budget", "set_failed") /\ NoFault
       \/ UNCHANGED acpJob /\ Fault
    /\ Throw(w)
    /\ UNCHANGED <<market, spool, inbox, acpReview, unanswered, shaky>>

-----------------------------------------------------------------------------
(* runFundedAcpReviewJob and processReviewJob.                             *)

FindFunded(w) ==
    LET j == provider[w].job IN
    /\ WorkerAt(w, "funded")
    /\ CASE acpJob[j].status = "absent" -> Throw(w)
         [] acpJob[j].status = "billing_pending" -> Step(w, "queue")
         [] acpJob[j].status \in {"complete", "failed"} -> Return(w)
         [] OTHER -> Step(w, "load")
    /\ UNCHANGED <<market, spool, inbox, acpJob, acpReview, unanswered, shaky, acpFaults>>

\* markAcpJobFundedAndQueued
QueueFunded(w) ==
    LET j == provider[w].job IN
    /\ WorkerAt(w, "queue")
    /\ \/ /\ acpJob[j].status = "billing_pending" /\ acpJob[j].budget = "set"
          /\ SetJob(j, "status", "queued")
          /\ Step(w, "load")
       \/ /\ acpJob[j].status # "billing_pending" \/ acpJob[j].budget # "set"
          /\ Throw(w) /\ UNCHANGED acpJob
    /\ UNCHANGED <<market, spool, inbox, acpReview, unanswered, shaky, acpFaults>>

\* recoverAcpReviewJobs, first pass: a queued job older than a minute.
TakeOrphan(w, j) ==
    /\ WorkerAt(w, "idle") /\ provider[w].batch = {}
    /\ acpJob[j].status = "queued"
    /\ provider' = [provider EXCEPT ![w] = [Off EXCEPT !.at = "load", !.job = j]]
    /\ UNCHANGED <<market, spool, inbox, acpJob, acpReview, unanswered, shaky, acpFaults>>

\* processReviewJob reads the row; a job that is not queued is skipped, which
\* the funded event turns into a throw.
LoadJob(w) ==
    LET j == provider[w].job IN
    /\ WorkerAt(w, "load")
    /\ IF acpJob[j].status = "queued"
       THEN provider' = [provider EXCEPT ![w].at = "run", ![w].saw = acpJob[j].submit]
       ELSE Throw(w)
    /\ UNCHANGED <<market, spool, inbox, acpJob, acpReview, unanswered, shaky, acpFaults>>

\* markJobRunning
RunJob(w) ==
    LET j == provider[w].job IN
    /\ WorkerAt(w, "run")
    /\ \/ acpJob[j].status = "queued" /\ SetJob(j, "status", "running") /\ Step(w, "enqueue")
       \/ acpJob[j].status # "queued" /\ Throw(w) /\ UNCHANGED acpJob
    /\ UNCHANGED <<market, spool, inbox, acpReview, unanswered, shaky, acpFaults>>

\* runAcpJobPipeline: enqueueReview; a row that exists is delivered as it is.
EnqueueAcpReview(w) ==
    LET t == TargetOf[provider[w].job] IN
    /\ WorkerAt(w, "enqueue")
    /\ IF acpReview[t] = "none"
       THEN acpReview' = [acpReview EXCEPT ![t] = "pending"] /\ Step(w, "kernel")
       ELSE UNCHANGED acpReview /\ Step(w, "build")
    /\ UNCHANGED <<market, spool, inbox, acpJob, unanswered, shaky, acpFaults>>

\* The target is gone, the kernel throws or exceeds its wall clock.
PipelineThrows(w) ==
    /\ provider[w].at \in {"enqueue", "kernel"}
    /\ Step(w, "terminalize")
    /\ UNCHANGED <<market, spool, inbox, acpJob, acpReview, unanswered, shaky, acpFaults>>

\* runReviewKernel and markReviewSucceeded
KernelEnds(w) ==
    /\ WorkerAt(w, "kernel")
    /\ \E verdict \in {"agreed", "degraded"} :
           acpReview' = [acpReview EXCEPT ![TargetOf[provider[w].job]] = verdict]
    /\ Step(w, "build")
    /\ UNCHANGED <<market, spool, inbox, acpJob, unanswered, shaky, acpFaults>>

\* acpDeliverableFromReviewPayload: degraded is the only verdict it refuses;
\* a row still pending reads as no findings.
BuildDeliverable(w) ==
    /\ WorkerAt(w, "build")
    /\ IF acpReview[TargetOf[provider[w].job]] = "degraded"
       THEN Step(w, "terminalize")
       ELSE provider' = [provider EXCEPT ![w].at = "claimSubmit", ![w].holds = "deliverable",
                                         ![w].sends = "success"]
    /\ UNCHANGED <<market, spool, inbox, acpJob, acpReview, unanswered, shaky, acpFaults>>

\* The rows markAcpJobSubmitting updates.
AnyRunning(j) == acpJob[j].status = "running"
Submittable(j) == acpJob[j].status = "running" /\ acpJob[j].submit \in {"pending", "submit_failed"}

\* markAcpJobSubmitting for the deliverable
ClaimSubmit(w) ==
    LET j == provider[w].job IN
    /\ WorkerAt(w, "claimSubmit")
    /\ \/ /\ Submittable(j) /\ SetJob(j, "submit", "submitting") /\ Step(w, "submit")
          /\ NoFault /\ UNCHANGED shaky
       \/ ~ Submittable(j) /\ Throw(w) /\ UNCHANGED <<acpJob, shaky>> /\ NoFault
       \/ /\ Fault /\ Step(w, "terminalize")
          /\ UNCHANGED acpJob \/ (Submittable(j) /\ SetJob(j, "submit", "submitting"))
          /\ shaky' = shaky \cup {<<"claim", j>>}
    /\ UNCHANGED <<market, spool, inbox, acpReview, unanswered>>

\* submitAcpDeliverable, of a review or of an error
Deliver(j, what) == market' = [market EXCEPT ![j][what] = @ + 1]

Submit(w) ==
    LET j == provider[w].job IN
    /\ WorkerAt(w, "submit")
    /\ \/ /\ Deliver(j, provider[w].sends)
          /\ provider' = [provider EXCEPT ![w].at = "markSubmitted",
                              ![w].holds = IF @ = "deliverable" THEN "submission" ELSE @]
          /\ UNCHANGED <<unanswered, shaky>> /\ NoFault
       \/ /\ Fault
          /\ shaky' = shaky \cup {<<"submit", j>>}
          /\ \/ UNCHANGED <<market, unanswered>>
             \/ Deliver(j, provider[w].sends) /\ unanswered' = unanswered \cup {j}
          /\ Step(w, IF provider[w].sends = "error" THEN "errorFailed" ELSE "terminalize")
    /\ UNCHANGED <<spool, inbox, acpJob, acpReview>>

\* markAcpJobSubmitted.  An error whose submission cannot be recorded counts
\* as one that failed: one catch block serves both statements.
MarkSubmitted(w) ==
    LET j == provider[w].job IN
    /\ WorkerAt(w, "markSubmitted")
    /\ \/ /\ SetJob(j, "submit", "submitted") /\ NoFault /\ UNCHANGED unanswered
          /\ Step(w, IF provider[w].sends = "error" THEN "failError" ELSE "complete")
       \/ /\ Fault /\ UNCHANGED acpJob
          /\ IF provider[w].sends = "error"
             THEN Step(w, "errorFailed") /\ unanswered' = unanswered \cup {j}
             ELSE Step(w, "terminalize") /\ UNCHANGED unanswered
    /\ UNCHANGED <<market, spool, inbox, acpReview, shaky>>

\* markJobComplete; losing the row to somebody else is an error.
CompleteJob(w) ==
    LET j == provider[w].job IN
    /\ WorkerAt(w, "complete")
    /\ \/ /\ acpJob[j].status = "running"
          /\ acpJob' = [acpJob EXCEPT ![j].status = "complete", ![j].result = "success"]
          /\ Return(w) /\ NoFault
       \/ acpJob[j].status # "running" /\ Step(w, "terminalize") /\ UNCHANGED acpJob /\ NoFault
       \/ Fault /\ Step(w, "terminalize") /\ UNCHANGED acpJob
    /\ UNCHANGED <<market, spool, inbox, acpReview, unanswered, shaky>>

-----------------------------------------------------------------------------
(* terminalizeAcpJobFailure, from the worker's catch block or the stuck    *)
(* pass of recovery.                                                       *)

\* findStuckRunningAcpReviewJobs; its age limit may pass while a worker lives.
NeverSubmitted(j) == acpJob[j].status = "running" /\ acpJob[j].submit = "pending"
Stuck(j) == acpJob[j].status = "running"

\* recoverAcpReviewJobs, second pass, with the row as it was selected.
TakeStuck(w, j) ==
    /\ WorkerAt(w, "idle") /\ provider[w].batch = {}
    /\ Stuck(j)
    /\ provider' = [provider EXCEPT ![w] = [Off EXCEPT !.at = "terminalize", !.job = j,
                                                      !.saw = acpJob[j].submit]]
    /\ UNCHANGED <<market, spool, inbox, acpJob, acpReview, unanswered, shaky, acpFaults>>

\* A submission under way or done is kept; one that may have happened is
\* marked for reconciliation; otherwise an error is submitted.
Terminalize(w) ==
    LET j == provider[w].job IN
    /\ WorkerAt(w, "terminalize")
    /\ Step(w, IF provider[w].saw \in {"submitting", "submitted"} THEN "preserve"
               ELSE IF provider[w].holds = "submission" THEN "keepSubmission"
               ELSE IF provider[w].holds = "deliverable" THEN "markAmbiguous"
               ELSE "claimError")
    /\ UNCHANGED <<market, spool, inbox, acpJob, acpReview, unanswered, shaky, acpFaults>>

KeepSubmission(w) ==
    LET j == provider[w].job IN
    /\ WorkerAt(w, "keepSubmission")
    /\ \/ SetJob(j, "submit", "submitted") /\ NoFault
       \/ UNCHANGED acpJob /\ Fault
    /\ Step(w, "preserve")
    /\ UNCHANGED <<market, spool, inbox, acpReview, unanswered, shaky>>

\* markAcpJobSubmitFailed, where a submission was not recorded meanwhile
SubmitFailed(j) ==
    acpJob' = [acpJob EXCEPT ![j].submit = IF @ = "submitted" THEN @ ELSE "submit_failed"]

MarkAmbiguous(w) ==
    /\ WorkerAt(w, "markAmbiguous")
    /\ \/ SubmitFailed(provider[w].job) /\ NoFault
       \/ UNCHANGED acpJob /\ Fault
    /\ Step(w, "preserve")
    /\ UNCHANGED <<market, spool, inbox, acpReview, unanswered, shaky>>

\* markAcpJobSubmitting for the error; if somebody else's is under way or
\* done, that one is kept.
ClaimError(w) ==
    LET j == provider[w].job IN
    /\ WorkerAt(w, "claimError")
    /\ \/ /\ Submittable(j) /\ SetJob(j, "submit", "submitting")
          /\ provider' = [provider EXCEPT ![w].at = "submit", ![w].sends = "error"]
       \/ ~ Submittable(j) /\ Step(w, "errorRefused") /\ UNCHANGED acpJob
    /\ UNCHANGED <<market, spool, inbox, acpReview, unanswered, shaky, acpFaults>>

RereadJob(w) ==
    /\ WorkerAt(w, "errorRefused")
    /\ IF acpJob[provider[w].job].submit \in {"submitting", "submitted"} THEN Step(w, "preserve")
                                                                       ELSE Throw(w)
    /\ UNCHANGED <<market, spool, inbox, acpJob, acpReview, unanswered, shaky, acpFaults>>

MarkErrorFailed(w) ==
    /\ WorkerAt(w, "errorFailed")
    /\ SubmitFailed(provider[w].job)
    /\ Step(w, "failError")
    /\ UNCHANGED <<market, spool, inbox, acpReview, unanswered, shaky, acpFaults>>

\* What the failed row says the client holds: a deliverable that an operator
\* has to reconcile, or the error.
AnyFailure(w) == "error"
FailureResult(w) == IF WorkerAt(w, "preserve") THEN "preserved" ELSE "error"

\* markJobFailedWithResult
FailJob(w) ==
    LET j == provider[w].job IN
    /\ provider[w].at \in {"preserve", "failError"}
    /\ acpJob' = IF acpJob[j].status = "running"
                 THEN [acpJob EXCEPT ![j].status = "failed", ![j].result = FailureResult(w)]
                 ELSE acpJob
    /\ Return(w)
    /\ UNCHANGED <<market, spool, inbox, acpReview, unanswered, shaky, acpFaults>>

\* The process is killed, or a statement outside every catch block throws and
\* ends the run: drained lines that were not recorded are gone.
WorkerDies(w) ==
    /\ provider[w] # Off
    /\ Fault
    /\ provider' = [provider EXCEPT ![w] = Off]
    /\ UNCHANGED <<market, spool, inbox, acpJob, acpReview, unanswered, shaky>>

-----------------------------------------------------------------------------

\* One step of a worker that is handling something.
Works(w) ==
    \/ RecordEvent(w) \/ ClaimEvent(w) \/ MarkProcessed(w) \/ ReadAttempts(w) \/ MarkFailed(w)
    \/ Refuse(w) \/ CreateJob(w) \/ ClaimBudget(w) \/ SetBudget(w)
    \/ MarkBudgetSet(w) \/ MarkReconcile(w) \/ MarkBudgetFailed(w)
    \/ FindFunded(w) \/ QueueFunded(w) \/ LoadJob(w) \/ RunJob(w)
    \/ EnqueueAcpReview(w) \/ PipelineThrows(w) \/ KernelEnds(w) \/ BuildDeliverable(w)
    \/ ClaimSubmit(w) \/ Submit(w) \/ MarkSubmitted(w) \/ CompleteJob(w)
    \/ Terminalize(w) \/ KeepSubmission(w) \/ MarkAmbiguous(w) \/ ClaimError(w)
    \/ RereadJob(w) \/ MarkErrorFailed(w) \/ FailJob(w)

AcpNext ==
    \/ \E j \in AcpJobs : ClientCreates(j) \/ ClientFunds(j)
    \/ \E e \in Events : Redeliver(e) \/ RetryTimePasses(e)
    \/ \E t \in AcpTargets : OtherRailReviews(t)
    \/ \E w \in AcpWorkers :
           \/ Drain(w) \/ Works(w) \/ WorkerDies(w)
           \/ \E e \in Events : TakeDue(w, e)
           \/ \E j \in AcpJobs : TakeOrphan(w, j) \/ TakeStuck(w, j)

AcpSpec == AcpInit /\ [][AcpNext]_acpVars

-----------------------------------------------------------------------------
(* Properties.                                                             *)

Places == {"idle", "claim", "created", "funded", "processed", "failed", "markFailed",
           "claimBudget", "setBudget", "markSet", "reconcile", "markSetFailed",
           "queue", "load", "run", "enqueue", "kernel", "build", "claimSubmit",
           "submit", "markSubmitted", "complete", "terminalize", "keepSubmission",
           "markAmbiguous", "claimError", "errorRefused", "errorFailed", "preserve",
           "failError"}

AcpTypeOK ==
    /\ market \in [AcpJobs -> [created : BOOLEAN, budget : BOOLEAN, funded : BOOLEAN,
                              success : Nat, error : Nat]]
    /\ spool \subseteq Events
    /\ inbox \in [Events -> [status : {"absent", "pending", "processing", "failed", "processed",
                                       "dead_lettered"},
                             attempts : 0 .. EventCap, due : BOOLEAN]]
    /\ acpJob \in [AcpJobs ->
           [status : {"absent", "billing_pending", "queued", "running", "complete", "failed"},
            keyed : BOOLEAN,
            budget : {"pending", "setting", "set_failed", "set", "set_reconcile"},
            submit : {"pending", "submitting", "submitted", "submit_failed"},
            result : {"none", "success", "error", "preserved"}]]
    /\ acpReview \in [AcpTargets -> {"none", "pending", "agreed", "degraded"}]
    /\ \A w \in AcpWorkers :
           /\ provider[w].at \in Places
           /\ provider[w].batch \subseteq Events
           /\ provider[w].ev \in Events \cup {NoEvent}
           /\ provider[w].at # "idle" => provider[w].job \in AcpJobs
    /\ unanswered \subseteq AcpJobs /\ shaky \subseteq {"submit", "claim"} \X AcpJobs
    /\ acpFaults \in 0 .. MaxAcpFaults

\* The client receives one deliverable, a review or an error, whatever worker,
\* retry and stuck pass do at once: a second one needs a first whose answer
\* was lost, or a claim that threw, after which the worker takes the submission
\* away from a stuck pass that may be making it (markAcpJobSubmitting,
\* terminalizeAcpJobFailure).
DeliveredOnce ==
    \A j \in AcpJobs : market[j].success + market[j].error > 1 =>
        j \in unanswered \/ <<"claim", j>> \in shaky

\* The row says what the client got: complete means a review was accepted and
\* no error, failed with an error means no review was.  A submission that
\* threw, or that could not be recorded, may leave the two apart.
OutcomeMatchesDelivery ==
    \A j \in AcpJobs : j \notin unanswered /\ <<"submit", j>> \notin shaky =>
        /\ acpJob[j].result = "success" => market[j].success = 1 /\ market[j].error = 0
        /\ acpJob[j].result = "error" => market[j].success = 0

\* The client gets one outcome, and the row knows which.
DeliveryIsHonest == DeliveredOnce /\ OutcomeMatchesDelivery

\* A budget the marketplace holds is set here, or being set, or marked for an
\* operator; only an answer that was lost hides one.  And a budget set here is
\* set there (createBudgetedAcpReviewJob).
BudgetIsAccounted ==
    \A j \in AcpJobs :
        /\ market[j].budget => \/ acpJob[j].budget \in {"setting", "set", "set_reconcile"}
                               \/ j \in unanswered
        /\ acpJob[j].budget \in {"set", "set_reconcile"} => market[j].budget

\* An event whose last attempt died with its worker: nobody claims it again.
Stranded(e) ==
    /\ inbox[e].status = "processing"
    /\ inbox[e].attempts = EventCap
    /\ \A w \in AcpWorkers : provider[w].ev # e

\* With the worker's lock held, an event that reached the inbox is processed or
\* dead-lettered, except the stranded ones, whatever fails on the way
\* (processInboxEvent, findDueAcpProviderEvents).
RecordedEventEnds ==
    \A e \in Events : (inbox[e].status = "pending")
        ~> (inbox[e].status \in {"processed", "dead_lettered"} \/ Stranded(e))

\* A funded job that was queued ends, complete or failed, although its worker
\* may die at any step (recoverAcpReviewJobs).
QueuedAcpJobEnds ==
    \A j \in AcpJobs : (acpJob[j].status = "queued") ~> (acpJob[j].status \in {"complete", "failed"})

\* What specs/SPEC-ACP-001 asks for and the code does not keep: a review is
\* delivered only after two reviewers agreed on it.
SuccessIsReviewed ==
    \A j \in AcpJobs : market[j].success > 0 => acpReview[TargetOf[j]] = "agreed"
=============================================================================
