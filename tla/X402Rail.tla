------------------------------ MODULE X402Rail ------------------------------
(***************************************************************************)
(* The x402 rail: a caller attaches a signed USDC authorization to         *)
(* POST /api/v1/review/x402, the worker reviews first and only then asks   *)
(* the facilitator to settle, the caller polls, and the review-jobs cron   *)
(* times out what is stuck.  The facilitator and the chain behind it are   *)
(* external: an authorization that was sent is captured or refused at a    *)
(* moment of their own, whether or not the worker still waits.             *)
(* One wallet calls; a job row is named after the call that inserted it.   *)
(***************************************************************************)
EXTENDS Integers, FiniteSets

CONSTANTS
    Calls,        \* POST calls of one wallet, and the job rows they insert
    Auths,        \* signed EIP-3009 authorizations the wallet holds
    NoAuth,       \* a free-lane job has none
    Targets,      \* (repo, pull request, sha) triples
    Lanes,        \* subset of {"paid", "free"}: what the operator's price allows
    Workers,      \* processReviewJob invocations alive at once
    Crons,        \* overlapping ticks of the review-jobs cron
    WalletLimit,  \* reviews per wallet in the rate-limit window
    MayLapse,     \* TRUE: valid_before may pass while a job is in flight
    PlatformKillsFirst,  \* TRUE: an instance dies before the stuck threshold
    MaxFaults     \* bound on kills, failed statements and lost answers

ASSUME X402Assumption ==
    /\ NoAuth \notin Auths
    /\ Lanes \subseteq {"paid", "free"}
    /\ Workers \cap Crons = {}
    /\ WalletLimit \in Nat \ {0}
    /\ MayLapse \in BOOLEAN /\ PlatformKillsFirst \in BOOLEAN
    /\ MaxFaults \in Nat

VARIABLES
    job,          \* review_jobs, payment_rail = 'x402'
    claimed,      \* x402_review_claims: authorization keys
    lapsed,       \* jobs whose x402_valid_before has passed
    facilitator,  \* external: what became of each authorization
    earned,       \* history: how the pipeline of each job ended
    call,         \* the handler instance of each call
    scheduled,    \* jobs handed to after() whose callback has not begun
    actor,        \* worker and cron instances
    faults

vars == <<job, claimed, lapsed, facilitator, earned, call, scheduled, actor, faults>>

Actors == Workers \cup Crons

CallerFault == {"user_input"}
OurFault == {"provider_error", "timeout", "internal"}

Live == {"queued", "running"}
Terminal == {"complete", "failed", "expired"}

NoRow == [status |-> "absent", target |-> "none", auth |-> NoAuth,
          settlement |-> "pending", failure |-> "none"]
NewCall == [at |-> "idle", target |-> "none", auth |-> NoAuth]
Idle == [at |-> "idle", job |-> "none", mode |-> "none", verdict |-> "none",
         got |-> FALSE]

Init ==
    /\ job = [c \in Calls |-> NoRow]
    /\ claimed = {}
    /\ lapsed = {}
    /\ facilitator = [a \in Auths |-> "unseen"]
    /\ earned = [c \in Calls |-> "nothing"]
    /\ call = [c \in Calls |-> NewCall]
    /\ scheduled = {}
    /\ actor = [a \in Actors |-> Idle]
    /\ faults = 0

Free(row) == row.auth = NoAuth
Captured(row) == ~ Free(row) /\ facilitator[row.auth] = "captured"

-----------------------------------------------------------------------------
(* The UPDATE statements on a review_jobs row.                             *)

\* markX402SettlementSettled: whatever the status of the job.
RecordSettled(row) == [row EXCEPT !.settlement = "settled"]

\* markX402SettlementNotSettled
RecordNotSettled(row) ==
    IF row.settlement = "pending" THEN [row EXCEPT !.settlement = "not_settled"] ELSE row

\* markX402SettlementFailed
RecordSettleFailed(row) ==
    IF row.settlement = "settled" THEN row ELSE [row EXCEPT !.settlement = "settlement_failed"]

\* markX402JobCompleteSettled
CompleteUnguarded(row) == [row EXCEPT !.status = "complete", !.settlement = "settled"]
CompleteSettled(row) ==
    IF row.status = "running"
    THEN [row EXCEPT !.status = "complete", !.settlement = "settled"] ELSE row

\* markJobComplete, for the free lane
CompleteFree(row) ==
    IF row.status = "running" THEN [row EXCEPT !.status = "complete"] ELSE row

\* markX402JobFailedWithResultAndSettlement: a recorded outcome is sticky.
FailOverwriting(row, mode, verdict) ==
    IF row.status = "running"
    THEN [row EXCEPT !.status = "failed", !.failure = mode, !.settlement = verdict]
    ELSE row
Fail(row, mode, verdict) ==
    IF row.status = "running"
    THEN [row EXCEPT !.status = "failed", !.failure = mode,
              !.settlement = IF @ \in {"settled", "settlement_failed"} THEN @ ELSE verdict]
    ELSE row

\* markX402JobExpired
Expire(row) == [row EXCEPT !.status = "expired", !.settlement = "not_settled"]

\* WHERE status = 'queued' of markJobRunning
Claimable(j) == job[j].status = "queued"

\* INSERT INTO x402_review_claims ... ON CONFLICT (authorization_key) DO NOTHING
AlwaysFresh(a) == TRUE
FreshAuth(a) == a \notin claimed

\* The idempotency key is (wallet, repo, pull request, sha); the free lane
\* has a wallet of its own, so its keys never meet those of a paying caller.
Holders(target, free) ==
    {j \in Calls : job[j].status # "absent" /\ job[j].target = target
                                            /\ Free(job[j]) = free}

\* ON CONFLICT (payment_rail, installation_id, idempotency_key) DO NOTHING
NeverConflicts(target, free) == FALSE
Conflicts(target, free) == Holders(target, free) # {}

\* Rows of a wallet that count against its limit, all within the window:
\* successful reviews, and those still in flight.
Successful(free) ==
    {j \in Calls : /\ Free(job[j]) = free
                   /\ \/ job[j].status = "complete"
                      \/ job[j].status = "failed" /\ job[j].failure \in CallerFault}
Counted(free) ==
    Successful(free) \cup {j \in Calls : Free(job[j]) = free /\ job[j].status \in Live}

\* terminalX402SettlementStatus: what a failure may leave in the column.
AsRead(current) == current
TerminalSettlement(current) ==
    IF current \in {"settled", "settlement_failed"} THEN current ELSE "not_settled"

\* isFreeX402Job: decided by what the row carries, not by the price of the day.
FreeAtTodaysPrice(row) == "free" \in Lanes
SkipsSettlement(row) == Free(row)

\* The failure modes the caller pays for.
ChargeAlways(mode) == TRUE
Chargeable(mode) == mode \in CallerFault

\* WHERE status = 'queued' of findStaleQueuedJobs
OrphansIgnored(j) == FALSE
Orphaned(j) == job[j].status = "queued"

-----------------------------------------------------------------------------
(* POST /api/v1/review/x402, one action per await that touches state.      *)

Goto(c, at) == call' = [call EXCEPT ![c].at = at]

\* The facilitator verified the payment and the target resolved; a free price
\* skips the payment.  An existing job of the key, or a recent one of the
\* commit, is returned as it is.
VerifyAndLookUp(c, a, target) ==
    /\ call[c].at = "idle"
    /\ IF a = NoAuth THEN "free" \in Lanes ELSE "paid" \in Lanes
    /\ call' = [call EXCEPT ![c] =
           [at |-> IF Holders(target, a = NoAuth) # {} THEN "answered"
                   ELSE IF a = NoAuth THEN "claimed" ELSE "verified",
            target |-> target, auth |-> a]]
    /\ UNCHANGED <<job, claimed, lapsed, facilitator, earned, scheduled, actor,
                   faults>>

\* One authorization, one review: 409 on a second use.
ClaimAuthorization(c) ==
    /\ call[c].at = "verified"
    /\ IF FreshAuth(call[c].auth)
       THEN /\ claimed' = claimed \cup {call[c].auth}
            /\ Goto(c, "claimed")
       ELSE /\ Goto(c, "answered")
            /\ UNCHANGED claimed
    /\ UNCHANGED <<job, lapsed, facilitator, earned, scheduled, actor, faults>>

\* checkWalletRateLimit counts rows; 429 otherwise.
CheckRateLimit(c) ==
    /\ call[c].at = "claimed"
    /\ Goto(c, IF Cardinality(Counted(call[c].auth = NoAuth)) < WalletLimit
               THEN "limited" ELSE "answered")
    /\ UNCHANGED <<job, claimed, lapsed, facilitator, earned, scheduled, actor,
                   faults>>

\* createX402ReviewJob: the loser of a race gets the winner's row, and both
\* schedule a worker for it.
CreateJob(c) ==
    /\ call[c].at = "limited"
    /\ LET free == call[c].auth = NoAuth IN
       IF Conflicts(call[c].target, free)
       THEN /\ scheduled' = scheduled \cup Holders(call[c].target, free)
            /\ UNCHANGED job
       ELSE /\ job' = [job EXCEPT ![c] =
                  [NoRow EXCEPT !.status = "queued", !.target = call[c].target,
                                !.auth = call[c].auth,
                                !.settlement = IF free THEN "not_settled" ELSE "pending"]]
            /\ scheduled' = scheduled \cup {c}
    /\ Goto(c, "answered")
    /\ UNCHANGED <<claimed, lapsed, facilitator, earned, actor, faults>>

CallDies(c) ==
    /\ faults < MaxFaults
    /\ call[c].at \notin {"idle", "answered"}
    /\ Goto(c, "answered")
    /\ faults' = faults + 1
    /\ UNCHANGED <<job, claimed, lapsed, facilitator, earned, scheduled, actor>>

\* after() never fires although the row was inserted.
ScheduleLost(j) ==
    /\ faults < MaxFaults
    /\ j \in scheduled
    /\ scheduled' = scheduled \ {j}
    /\ faults' = faults + 1
    /\ UNCHANGED <<job, claimed, lapsed, facilitator, earned, call, actor>>

-----------------------------------------------------------------------------
(* Time, the poller and the facilitator.                                   *)

\* valid_before passes.
Lapse(c) ==
    /\ MayLapse
    /\ job[c].status \in Live
    /\ lapsed' = lapsed \cup {c}
    /\ c \notin lapsed
    /\ UNCHANGED <<job, claimed, facilitator, earned, call, scheduled, actor, faults>>

\* GET .../{jobId} finds the window over while the job is in flight.
PollExpires(c) ==
    /\ job[c].status \in Live
    /\ c \in lapsed
    /\ job' = [job EXCEPT ![c] = Expire(@)]
    /\ UNCHANGED <<claimed, lapsed, facilitator, earned, call, scheduled, actor,
                   faults>>

\* USDC moves, only inside the window the caller signed.
Capture(a) ==
    /\ facilitator[a] = "sent"
    /\ \A c \in lapsed : job[c].auth # a
    /\ facilitator' = [facilitator EXCEPT ![a] = "captured"]
    /\ UNCHANGED <<job, claimed, lapsed, earned, call, scheduled, actor, faults>>

\* The facilitator declines, or the treasury or price changed since /verify.
Refuse(a) ==
    /\ facilitator[a] = "sent"
    /\ facilitator' = [facilitator EXCEPT ![a] = "refused"]
    /\ UNCHANGED <<job, claimed, lapsed, earned, call, scheduled, actor, faults>>

-----------------------------------------------------------------------------
(* processReviewJob on this rail.                                          *)

Step(w, at) == actor' = [actor EXCEPT ![w].at = at]
Rest(w) == actor' = [actor EXCEPT ![w] = Idle]
Begin(w, at, j) == actor' = [actor EXCEPT ![w] = [Idle EXCEPT !.at = at, !.job = j]]
Catch(w, mode) == actor' = [actor EXCEPT ![w].at = "caught", ![w].mode = mode]
Conclude(w, at, mode, verdict) ==
    actor' = [actor EXCEPT ![w].at = at, ![w].mode = mode, ![w].verdict = verdict]

RowOf(w) == job[actor[w].job]
AuthOf(w) == RowOf(w).auth

StartScheduled(w, j) ==
    /\ actor[w].at = "idle"
    /\ j \in scheduled
    /\ scheduled' = scheduled \ {j}
    /\ IF job[j].status = "queued" THEN Begin(w, "loaded", j) ELSE UNCHANGED actor
    /\ UNCHANGED <<job, claimed, lapsed, facilitator, earned, call, faults>>

PickUpOrphan(w, j) ==
    /\ actor[w].at = "idle"
    /\ Orphaned(j)
    /\ Begin(w, "loaded", j)
    /\ UNCHANGED <<job, claimed, lapsed, facilitator, earned, call, scheduled, faults>>

ClaimJob(w) ==
    /\ actor[w].at = "loaded"
    /\ IF Claimable(actor[w].job)
       THEN /\ job' = [job EXCEPT ![actor[w].job].status = "running"]
            /\ Step(w, "reviewing")
       ELSE /\ Rest(w)
            /\ UNCHANGED job
    /\ UNCHANGED <<claimed, lapsed, facilitator, earned, call, scheduled, faults>>

\* runX402JobPipeline returns; the free lane never settles.
PipelineReturns(w) ==
    /\ actor[w].at = "reviewing"
    /\ earned' = [earned EXCEPT ![actor[w].job] = "review"]
    /\ Step(w, IF SkipsSettlement(RowOf(w)) THEN "freeing" ELSE "settle")
    /\ UNCHANGED <<job, claimed, lapsed, facilitator, call, scheduled, faults>>

\* ... or throws; cost_cap_exceeded behaves as provider_error does.
PipelineThrows(w, mode) ==
    /\ actor[w].at = "reviewing"
    /\ earned' = [earned EXCEPT ![actor[w].job] =
           IF mode \in CallerFault THEN "caller_fault" ELSE "our_fault"]
    /\ Catch(w, mode)
    /\ UNCHANGED <<job, claimed, lapsed, facilitator, call, scheduled, faults>>

\* settlePayment: the window is checked, then the authorization is posted.
PostSettle(w) ==
    /\ actor[w].at \in {"settle", "charge"}
    /\ LET charging == actor[w].at = "charge" IN
       IF actor[w].job \in lapsed
       THEN /\ IF charging THEN Conclude(w, "noteRefused", "internal", "settlement_failed")
                           ELSE Catch(w, "settle_error")
            /\ UNCHANGED facilitator
       ELSE /\ Step(w, IF charging THEN "charging" ELSE "settling")
            /\ facilitator' = [facilitator EXCEPT ![AuthOf(w)] = "sent"]
    /\ UNCHANGED <<job, claimed, lapsed, earned, call, scheduled, faults>>

\* loadX402Config refuses the environment and nothing is posted: outside of
\* what marks a settlement error, but for a failure that is to be charged.
ConfigThrows(w) ==
    /\ faults < MaxFaults
    /\ actor[w].at \in {"settle", "charge"}
    /\ IF actor[w].at = "charge"
       THEN Conclude(w, "noteRefused", "internal", "settlement_failed")
       ELSE \E mode \in {"internal", "timeout"} : Catch(w, mode)
    /\ faults' = faults + 1
    /\ UNCHANGED <<job, claimed, lapsed, facilitator, earned, call, scheduled>>

\* The facilitator's answer: success, or a thrown settlement error.  The
\* answer to a capture may get lost (a fault), which throws as well.
SettleAnswered(w) ==
    /\ actor[w].at \in {"settling", "charging"}
    /\ facilitator[AuthOf(w)] = "captured"
    /\ actor' = [actor EXCEPT ![w].at = IF @ = "settling" THEN "record" ELSE "recordCharge",
                              ![w].got = @ \/ actor[w].at = "settling"]
    /\ UNCHANGED <<job, claimed, lapsed, facilitator, earned, call, scheduled, faults>>

SettleThrows(w) ==
    /\ actor[w].at \in {"settling", "charging"}
    /\ \/ facilitator[AuthOf(w)] = "refused" /\ UNCHANGED faults
       \/ facilitator[AuthOf(w)] = "captured" /\ faults < MaxFaults /\ faults' = faults + 1
    /\ IF actor[w].at = "charging"
       THEN Conclude(w, "noteRefused", "internal", "settlement_failed")
       ELSE Catch(w, "settle_error")
    /\ UNCHANGED <<job, claimed, lapsed, facilitator, earned, call, scheduled>>

\* The statements of the try block, in their order on each lane.
TryStatement(w) ==
    CASE actor[w].at = "record" -> RecordSettled(RowOf(w))
      [] actor[w].at = "complete" -> CompleteSettled(RowOf(w))
      [] actor[w].at = "freeing" -> RecordNotSettled(RowOf(w))
      [] actor[w].at = "completeFree" -> CompleteFree(RowOf(w))

Trying == {"record", "complete", "freeing", "completeFree"}

RunStatement(w) ==
    /\ actor[w].at \in Trying
    /\ job' = [job EXCEPT ![actor[w].job] = TryStatement(w)]
    /\ CASE actor[w].at = "record" -> Step(w, "complete")
         [] actor[w].at = "freeing" -> Step(w, "completeFree")
         [] OTHER -> Rest(w)
    /\ UNCHANGED <<claimed, lapsed, facilitator, earned, call, scheduled, faults>>

\* The statement throws, before or after Postgres committed it.
StatementThrows(w) ==
    /\ faults < MaxFaults
    /\ actor[w].at \in Trying
    /\ job' \in {job, [job EXCEPT ![actor[w].job] = TryStatement(w)]}
    /\ Catch(w, "internal")
    /\ faults' = faults + 1
    /\ UNCHANGED <<claimed, lapsed, facilitator, earned, call, scheduled>>

\* handleX402JobFailure reloads the row and decides what the failure costs.
DecideFailure(w) ==
    /\ actor[w].at = "caught"
    /\ LET row == RowOf(w) IN
       IF row.settlement \in {"settled", "settlement_failed"}
       THEN Conclude(w, "finish", "internal", row.settlement)
       ELSE IF actor[w].got
       THEN Conclude(w, "noteCaptured", "internal", "settled")
       ELSE IF actor[w].mode = "settle_error"
       THEN Conclude(w, "noteRefused", "internal", "settlement_failed")
       ELSE IF Chargeable(actor[w].mode) /\ ~ SkipsSettlement(row)
       THEN Conclude(w, "charge", actor[w].mode, "settled")
       ELSE Conclude(w, "noteUnsettled", actor[w].mode, "not_settled")
    /\ UNCHANGED <<job, claimed, lapsed, facilitator, earned, call, scheduled, faults>>

\* The settlement column is written first, the failure second.
NotedHopefully(row, at) ==
    IF at = "noteUnsettled" THEN RecordNotSettled(row) ELSE RecordSettled(row)
Noted(row, at) ==
    CASE at = "noteRefused" -> RecordSettleFailed(row)
      [] at = "noteUnsettled" -> RecordNotSettled(row)
      [] at \in {"noteCaptured", "recordCharge"} -> RecordSettled(row)

NoteSettlement(w) ==
    /\ actor[w].at \in {"noteCaptured", "recordCharge", "noteRefused", "noteUnsettled"}
    /\ job' = [job EXCEPT ![actor[w].job] = Noted(@, actor[w].at)]
    /\ Step(w, "finish")
    /\ UNCHANGED <<claimed, lapsed, facilitator, earned, call, scheduled, faults>>

\* Recording the charge throws inside the inner try block: the code takes it
\* for a settlement error.  After a captured settlement it is swallowed.
NoteThrows(w) ==
    /\ faults < MaxFaults
    /\ \/ /\ actor[w].at = "recordCharge"
          /\ Conclude(w, "noteRefused", "internal", "settlement_failed")
       \/ /\ actor[w].at = "noteCaptured"
          /\ Step(w, "finish")
    /\ job' \in {job, [job EXCEPT ![actor[w].job] = RecordSettled(@)]}
    /\ faults' = faults + 1
    /\ UNCHANGED <<claimed, lapsed, facilitator, earned, call, scheduled>>

\* The cron selected a running row and read its settlement status with it.
SelectStuck(t, j) ==
    /\ actor[t].at = "idle"
    /\ job[j].status = "running"
    /\ PlatformKillsFirst => \A w \in Workers : actor[w].job # j
    /\ actor' = [actor EXCEPT ![t] =
           [at |-> "finish", job |-> j, mode |-> "timeout", got |-> FALSE,
            verdict |-> TerminalSettlement(job[j].settlement)]]
    /\ UNCHANGED <<job, claimed, lapsed, facilitator, earned, call, scheduled, faults>>

\* The last statement of the failure handler and of the cron's timeout.
Finish(a) ==
    /\ actor[a].at = "finish"
    /\ job' = [job EXCEPT ![actor[a].job] = Fail(@, actor[a].mode, actor[a].verdict)]
    /\ Rest(a)
    /\ UNCHANGED <<claimed, lapsed, facilitator, earned, call, scheduled, faults>>

\* The instance is killed, or a statement of the failure handler throws.
ActorDies(a) ==
    /\ faults < MaxFaults
    /\ actor[a].at # "idle"
    /\ Rest(a)
    /\ faults' = faults + 1
    /\ UNCHANGED <<job, claimed, lapsed, facilitator, earned, call, scheduled>>

-----------------------------------------------------------------------------
Handler(c) == ClaimAuthorization(c) \/ CheckRateLimit(c) \/ CreateJob(c)

Worker(w) ==
    \/ ClaimJob(w) \/ PipelineReturns(w) \/ PostSettle(w)
    \/ SettleAnswered(w) \/ RunStatement(w) \/ DecideFailure(w) \/ NoteSettlement(w)
    \/ \E mode \in CallerFault \cup OurFault : PipelineThrows(w, mode)

Fault ==
    \/ \E c \in Calls : CallDies(c) \/ ScheduleLost(c)
    \/ \E a \in Actors : ActorDies(a)
    \/ \E w \in Workers : StatementThrows(w) \/ NoteThrows(w) \/ ConfigThrows(w)

Next ==
    \/ \E c \in Calls, a \in Auths \cup {NoAuth}, target \in Targets :
           VerifyAndLookUp(c, a, target)
    \/ \E c \in Calls : Handler(c) \/ Lapse(c) \/ PollExpires(c)
    \/ \E a \in Auths : Capture(a) \/ Refuse(a)
    \/ \E w \in Workers, j \in Calls : StartScheduled(w, j) \/ PickUpOrphan(w, j)
    \/ \E w \in Workers : Worker(w) \/ SettleThrows(w)
    \/ \E t \in Crons, j \in Calls : SelectStuck(t, j)
    \/ \E a \in Actors : Finish(a)
    \/ Fault

Spec == Init /\ [][Next]_vars

\* Live instances keep executing, the facilitator answers (a dispute with it
\* ends in a thrown error), and the cron runs every minute for ever.
\* Callers owe nothing: nobody need poll.
FairSpec ==
    /\ Spec
    /\ \A c \in Calls : WF_vars(Handler(c))
    /\ \A a \in Auths : WF_vars(Capture(a) \/ Refuse(a))
    /\ \A w \in Workers : WF_vars(Worker(w) \/ SettleThrows(w))
    /\ \A a \in Actors : WF_vars(Finish(a))
    /\ \A j \in Calls :
        /\ WF_vars(\E w \in Workers : StartScheduled(w, j) \/ PickUpOrphan(w, j))
        /\ WF_vars(\E t \in Crons : SelectStuck(t, j))

-----------------------------------------------------------------------------
(* What must hold.                                                         *)

JobRow ==
    [status : {"absent"} \cup Live \cup Terminal, target : Targets \cup {"none"},
     auth : Auths \cup {NoAuth},
     settlement : {"pending", "not_settled", "settled", "settlement_failed"},
     failure : CallerFault \cup OurFault \cup {"none"}]

TypeOK ==
    /\ job \in [Calls -> JobRow]
    /\ claimed \subseteq Auths
    /\ lapsed \subseteq Calls
    /\ facilitator \in [Auths -> {"unseen", "sent", "captured", "refused"}]
    /\ earned \in [Calls -> {"nothing", "review", "caller_fault", "our_fault"}]
    /\ call \in [Calls -> [at : {"idle", "verified", "claimed", "limited", "answered"},
                           target : Targets \cup {"none"}, auth : Auths \cup {NoAuth}]]
    /\ scheduled \subseteq Calls
    /\ actor \in [Actors ->
           [at : {"idle", "loaded", "reviewing", "settle", "settling", "caught",
                  "charge", "charging", "noteCaptured", "recordCharge",
                  "noteRefused", "noteUnsettled", "finish"} \cup Trying,
            job : Calls \cup {"none"},
            mode : CallerFault \cup OurFault \cup {"none", "settle_error"},
            verdict : {"none", "settled", "settlement_failed", "not_settled"},
            got : BOOLEAN]]
    /\ faults \in 0 .. MaxFaults

\* A receipt is never invented: the row says settled only of an authorization
\* that was captured, through crashes, reloads and the cron's stale snapshot.
SettledIsCaptured ==
    \A c \in Calls : job[c].settlement = "settled" => Captured(job[c])

\* Who is told that a job failed and the payment was not settled was not
\* charged, unless the failure is the cron's timeout, which cannot know.
UnsettledIsUncharged ==
    \A c \in Calls :
        /\ job[c].status = "failed" /\ job[c].failure # "timeout"
        /\ job[c].settlement = "not_settled"
        => ~ Captured(job[c])

\* What a row says of its settlement is what happened to the money.
SettlementIsTrue == SettledIsCaptured /\ UnsettledIsUncharged

\* The facilitator hears of an authorization only after the review it pays for
\* was done, or failed by the caller's own fault (deferred settlement), and
\* two jobs never share one.
ChargedOnlyIfEarned ==
    \A c \in Calls : ~ Free(job[c]) =>
        /\ facilitator[job[c].auth] # "unseen" => earned[c] \in {"review", "caller_fault"}
        /\ \A d \in Calls \ {c} : job[d].auth # job[c].auth

\* A paid review reaches the caller as complete only with its receipt.
CompleteIsPaid ==
    \A c \in Calls : job[c].status = "complete" /\ ~ Free(job[c]) =>
        job[c].settlement = "settled" /\ Captured(job[c])

\* Money is asked for work that was done, and work is handed out for money.
WorkIsPaid == ChargedOnlyIfEarned /\ CompleteIsPaid

\* One review per commit and wallet, however the calls race: a second
\* authorization for the same target is never sent.
OneJobPerTarget ==
    \A c, d \in Calls :
        /\ c # d /\ job[c].status # "absent" /\ job[d].status # "absent"
        /\ Free(job[c]) = Free(job[d])
        => job[c].target # job[d].target

\* The end of a job and its receipt outlive whatever comes late.  A job that is
\* over keeps its outcome, whatever happens between a worker, the cron and the
\* poller; and a settlement once recorded stays recorded ("The receipt is
\* preserved"), whatever failure follows and however old the cron's copy of the
\* row is: only the poller's expiry may drop it.
OutcomeIsKept ==
    [][\A c \in Calls :
           /\ job[c].status \in Terminal =>
                  job'[c].status = job[c].status /\ job'[c].failure = job[c].failure
           /\ job[c].settlement = "settled" =>
                  job'[c].settlement = "settled" \/ job'[c].status = "expired"]_vars

\* An expired job is a job the caller was not charged for.
ExpiredIsUncharged ==
    \A c \in Calls : job[c].status = "expired" => ~ Captured(job[c])

\* What the caller of a job was told of its end.
OutcomeOf(j) ==
    CASE job[j].status \in {"absent"} \cup Live -> "open"
      [] job[j].status = "complete" -> "delivered"
      [] job[j].status = "expired" -> "expired"
      [] job[j].status = "failed" ->
             IF job[j].settlement = "not_settled" /\ job[j].failure # "timeout"
             THEN "waived" ELSE "failed"

LaneOf(j) == IF job[j].status = "absent" THEN "none"
             ELSE IF Free(job[j]) THEN "free" ELSE "paid"

\* What the facilitator did with the authorization a job carries.
MoneyOf(j) == IF Free(job[j]) THEN "unseen" ELSE facilitator[job[j].auth]

Payment == INSTANCE DeferredPayment WITH
    Jobs <- Calls,
    lane <- [j \in Calls |-> LaneOf(j)],
    work <- earned,
    money <- [j \in Calls |-> MoneyOf(j)],
    receipt <- [j \in Calls |-> job[j].settlement = "settled"],
    outcome <- [j \in Calls |-> OutcomeOf(j)]

\* Handlers, workers, crons, polls and faults together do no more than the
\* abstract payment: work once, ask once and only for what is owed, take nothing
\* of who was told so, end once, and keep the receipt unless the window expires.
PaymentPromise == Payment!PaymentSpec

\* Every queued job ends, although callbacks get lost and instances die.
QueuedJobEnds ==
    \A c \in Calls : job[c].status = "queued" ~> job[c].status \in Terminal
=============================================================================
