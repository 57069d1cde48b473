-------------------------- MODULE FindingLifecycle --------------------------
(***************************************************************************)
(* One row of finding_status over the attempts of its review.  An attempt  *)
(* of the review worker writes the decision, upserts the row, enters it in *)
(* finding_disclosure, posts the pull request comment and records patches; *)
(* an attempt that fails is repeated and its models may agree on something *)
(* else, or on less: the row it has no finding for is then deleted.  The   *)
(* daily sweep, maintainers and operators act on the same row.             *)
(*                                                                         *)
(* Rows of different findings do not meet, so one index of one review is   *)
(* enough; ReviewQueue shows that one attempt runs at a time.              *)
(***************************************************************************)
EXTENDS Integers, FiniteSets

CONSTANTS
    MaxAttempts,    \* MAX_PROCESSING_ATTEMPTS
    Ticks,          \* sweep ticks that overlap
    PublicReceipt   \* reviews.public_receipt

ASSUME LifecycleAssumption ==
    /\ MaxAttempts \in Nat \ {0}
    /\ PublicReceipt \in BOOLEAN

VARIABLES
    finding,     \* the finding_status row
    disclosure,  \* its finding_disclosure row
    review,      \* the reviews row: decision, comment pointer, whether it is done
    attempt,     \* the worker
    tick,        \* sweep ticks
    receipts,    \* marks a receipt was posted for on the pull request
    erased       \* history: the last attempt that deleted a row under disclosure

lifecycleVars == <<finding, disclosure, review, attempt, tick, receipts, erased>>

\* What a tick may establish about a finding, each with a receipt and a mark.
Marks == {"closed", "accepted", "clicked"}
Embargo == {"embargoed", "maintainer-acknowledged", "patch-merged", "embargo-expired"}

\* A finding is named by the attempt that produced it, 0 where there is none.
NoFinding == [id |-> 0, severity |-> "none", marks |-> {}, patch |-> FALSE,
              retracted |-> FALSE, closedOn |-> 0]

\* madeFor: history, the finding the row was entered for.
NoDisclosure == [state |-> "absent", madeFor |-> 0, acknowledged |-> FALSE, forced |-> FALSE,
                 token |-> "none", ghsa |-> "none", cve |-> FALSE, advised |-> FALSE]

Resting == [at |-> "idle", n |-> 0, severity |-> "none"]
NoTick == [at |-> "idle", mark |-> "none", on |-> 0, public |-> FALSE]

LifecycleInit ==
    /\ finding = NoFinding
    /\ disclosure = NoDisclosure
    /\ review = [decision |-> 0, comment |-> 0, done |-> FALSE]
    /\ attempt = Resting
    /\ tick = [t \in Ticks |-> NoTick]
    /\ receipts = {}
    /\ erased = 0

AttemptAt(at) == attempt.at = at
AttemptGoes(at) == attempt' = [attempt EXCEPT !.at = at]

-----------------------------------------------------------------------------
(* An attempt.                                                             *)

\* runReviewWorker: a row with a comment is only settled.
StartAttempt ==
    /\ AttemptAt("idle") /\ ~ review.done
    /\ IF review.comment # 0
       THEN review' = [review EXCEPT !.done = TRUE] /\ UNCHANGED attempt
       ELSE /\ attempt.n < MaxAttempts
            /\ attempt' = [at |-> "decide", n |-> attempt.n + 1, severity |-> "none"]
            /\ UNCHANGED review
    /\ UNCHANGED <<finding, disclosure, tick, receipts, erased>>

FinishAttempt ==
    /\ review' = [review EXCEPT !.done = TRUE]
    /\ attempt' = [attempt EXCEPT !.at = "idle"]

\* updateReview with the agreement decision.  high: what initializeDisclosure
\* embargoes.  Without any finding nothing more is written, and a degraded
\* answer is asked for again; with none here, those of other indexes go on.
Decide(severity) ==
    /\ AttemptAt("decide")
    /\ \/ /\ severity = "none"
          /\ \E again \in {FALSE, attempt.n < MaxAttempts} :
                 review' = [review EXCEPT !.decision = 0, !.done = ~ again]
          /\ AttemptGoes("idle")
       \/ /\ review' = [review EXCEPT !.decision = IF severity = "none" THEN 0 ELSE attempt.n]
          /\ attempt' = [attempt EXCEPT !.at = "record", !.severity = severity]
    /\ UNCHANGED <<finding, disclosure, tick, receipts, erased>>

\* Status open and LIFECYCLE_PRESERVE_COLUMNS all NULL, of which the upsert
\* and the deletion make the same condition.
Untouched == finding.marks = {} /\ ~ finding.retracted

\* reconcilableTrailingRows: fewer findings are agreed than before.
NothingTrails == FALSE
Trailing == attempt.severity = "none" /\ Untouched

\* recordFindingStatuses.  A row that is deleted takes its entry in
\* finding_disclosure with it (ON DELETE CASCADE).
RecordFinding ==
    /\ AttemptAt("record")
    /\ \/ /\ Trailing
          /\ finding' = NoFinding /\ disclosure' = NoDisclosure
          /\ erased' = IF disclosure.state \in {"absent", "none"} THEN erased ELSE attempt.n
       \/ /\ ~ Trailing
          /\ finding' = IF Untouched /\ attempt.severity # "none"
                        THEN [finding EXCEPT !.id = attempt.n, !.severity = attempt.severity]
                        ELSE finding
          /\ UNCHANGED <<disclosure, erased>>
    /\ AttemptGoes("initialize")
    /\ UNCHANGED <<review, tick, receipts>>

\* initializeDisclosureForFindings: INSERT ... ON CONFLICT DO NOTHING.  What
\* this attempt embargoes is kept out of its comment; when nothing is left to
\* say there is no comment.
InitializeDisclosure ==
    /\ AttemptAt("initialize")
    /\ disclosure' = IF disclosure.state # "absent" \/ attempt.severity = "none" THEN disclosure
                     ELSE [NoDisclosure EXCEPT
                              !.state = IF attempt.severity = "high" THEN "embargoed" ELSE "none",
                              !.madeFor = attempt.n]
    /\ \/ AttemptGoes("comment") /\ UNCHANGED review
       \/ attempt.severity # "low" /\ FinishAttempt
    /\ UNCHANGED <<finding, tick, receipts, erased>>

\* postPRComment, then setReviewComment with the answer.
PostComment ==
    /\ AttemptAt("comment")
    /\ AttemptGoes("setComment")
    /\ UNCHANGED <<finding, disclosure, review, tick, receipts, erased>>

SetReviewComment ==
    /\ AttemptAt("setComment")
    /\ review' = [review EXCEPT !.comment = attempt.n]
    /\ AttemptGoes("patch")
    /\ UNCHANGED <<finding, disclosure, tick, receipts, erased>>

\* recordPatchDecisions and recordPatchReviewComment; no patch is proposed
\* for a review with an embargoed finding, or where nothing is agreed.
RecordPatch ==
    /\ AttemptAt("patch")
    /\ \/ UNCHANGED finding
       \/ attempt.severity = "low" /\ finding' = [finding EXCEPT !.patch = TRUE]
    /\ FinishAttempt
    /\ UNCHANGED <<disclosure, tick, receipts, erased>>

\* A kill, or a statement that throws: a retry follows while attempts are left.
AttemptDies ==
    /\ ~ AttemptAt("idle")
    /\ AttemptGoes("idle")
    /\ UNCHANGED <<finding, disclosure, review, tick, receipts, erased>>

-----------------------------------------------------------------------------
(* The sweep.                                                              *)

\* publicReceiptEligible: the SQL that decides whether a finding is shown.
Shown ==
    \/ disclosure.state = "none" /\ PublicReceipt
    \/ disclosure.state = "published" /\ disclosure.ghsa # "none" /\ disclosure.advised

\* WHERE of loadSweepWork: the comment was posted, or an embargo is on.
Sweepable == review.comment # 0 \/ disclosure.state \in Embargo

\* loadSweepWork and detectClosures: the evidence of the decision that is in
\* the review by then has changed on the default branch.
LoadClosure(t) ==
    /\ tick[t].at = "idle"
    /\ finding.id # 0 /\ "closed" \notin finding.marks
    /\ Sweepable
    /\ review.decision # 0
    /\ tick' = [tick EXCEPT ![t] =
                   LET public == review.comment # 0 /\ Shown IN
                   [at |-> IF public THEN "post" ELSE "mark", mark |-> "closed",
                    on |-> review.decision, public |-> public]]
    /\ UNCHANGED <<finding, disclosure, review, attempt, receipts, erased>>

\* loadPatchAcceptanceWork, loadPatchReviewCommentAcceptanceWork: the patch
\* is found in the default branch, or at its anchor in the pull request.
LoadAcceptance(t, mark) ==
    /\ tick[t].at = "idle"
    /\ finding.patch /\ mark \in {"accepted", "clicked"} \ finding.marks
    /\ tick' = [tick EXCEPT ![t] = [at |-> "post", mark |-> mark, on |-> review.decision,
                                    public |-> TRUE]]
    /\ UNCHANGED <<finding, disclosure, review, attempt, receipts, erased>>

\* postPRComment with the receipt: before the mark, which ends the retries.
PostReceipt(t) ==
    /\ tick[t].at = "post"
    /\ receipts' = receipts \cup {tick[t].mark}
    /\ tick' = [tick EXCEPT ![t].at = "mark"]
    /\ UNCHANGED <<finding, disclosure, review, attempt, erased>>

\* markFindingClosed, markPatchAccepted, markPatchApplyClicked.  closedOn:
\* history, the finding whose evidence was looked at.  A row that is gone is
\* not found; one that came back has the same finding_id.
MarkFinding(t) ==
    /\ tick[t].at = "mark"
    /\ finding' = IF finding.id = 0 THEN finding
                  ELSE [finding EXCEPT
                           !.marks = @ \cup {tick[t].mark},
                           !.closedOn = IF tick[t].mark = "closed" THEN tick[t].on ELSE @]
    /\ tick' = [tick EXCEPT ![t] = NoTick]
    /\ UNCHANGED <<disclosure, review, attempt, receipts, erased>>

TickDies(t) ==
    /\ tick[t].at # "idle"
    /\ tick' = [tick EXCEPT ![t] = NoTick]
    /\ UNCHANGED <<finding, disclosure, review, attempt, receipts, erased>>

\* retractFinding, by an operator or a maintainer's dismissal.
Retract ==
    /\ finding.id # 0 /\ ~ finding.retracted
    /\ finding' = [finding EXCEPT !.retracted = TRUE]
    /\ UNCHANGED <<disclosure, review, attempt, tick, receipts, erased>>

-----------------------------------------------------------------------------

LifecycleNext ==
    \/ StartAttempt
    \/ \E severity \in {"none", "low", "high"} : Decide(severity)
    \/ RecordFinding \/ InitializeDisclosure \/ PostComment \/ SetReviewComment
    \/ RecordPatch \/ AttemptDies \/ Retract
    \/ \E t \in Ticks :
           \/ LoadClosure(t) \/ PostReceipt(t) \/ MarkFinding(t) \/ TickDies(t)
           \/ \E mark \in {"accepted", "clicked"} : LoadAcceptance(t, mark)

LifecycleSpec == LifecycleInit /\ [][LifecycleNext]_lifecycleVars
=============================================================================
