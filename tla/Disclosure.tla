----------------------------- MODULE Disclosure -----------------------------
(***************************************************************************)
(* Coordinated disclosure of the finding of FindingLifecycle: its embargo, *)
(* the maintainer's acknowledgement, the daily cron with its timers, and   *)
(* publication as a GitHub security advisory.  A publication reserves the  *)
(* row with a token, drafts the advisory (or finds its earlier draft by a  *)
(* marker), asks for a CVE, moves the row to published and only then       *)
(* publishes the advisory and records that it is out.                      *)
(***************************************************************************)
EXTENDS FindingLifecycle

CONSTANTS
    Advisories,   \* GHSA identifiers
    Publishers,   \* calls of publishDisclosure that overlap
    MaxDisclosureFaults  \* bound on calls that die, fail or stay unanswered

ASSUME DisclosureAssumption ==
    /\ "none" \notin Advisories \cup Publishers /\ "stale" \notin Publishers
    /\ MaxDisclosureFaults \in Nat

VARIABLES
    embargo,     \* time: EMBARGO_DAYS over, MIN_GRACE_DAYS over
    advisory,    \* GitHub's security advisories
    publisher,   \* calls of publishDisclosure
    disclosureFaults

disclosureVars == <<lifecycleVars, embargo, advisory, publisher, disclosureFaults>>

others == <<finding, review, attempt, tick, receipts, erased>>

NoCall == [at |-> "idle", actor |-> "system", state |-> "none", ghsa |-> "none",
           cve |-> FALSE]

NotOver == [over |-> FALSE, grace |-> FALSE]

DisclosureInit ==
    /\ LifecycleInit
    /\ embargo = NotOver
    /\ advisory = [a \in Advisories |-> "absent"]
    /\ publisher = [p \in Publishers |-> NoCall]
    /\ disclosureFaults = 0

CallFails == disclosureFaults < MaxDisclosureFaults /\ disclosureFaults' = disclosureFaults + 1

-----------------------------------------------------------------------------
(* Transitions of the row: read, checked and written in one transaction.   *)

SystemMoves ==
    {<<"embargoed", "maintainer-acknowledged">>, <<"embargoed", "patch-merged">>,
     <<"embargoed", "embargo-expired">>, <<"maintainer-acknowledged", "patch-merged">>,
     <<"maintainer-acknowledged", "embargo-expired">>, <<"patch-merged", "embargo-expired">>,
     <<"embargo-expired", "published">>}

\* isAllowedDisclosureTransition
AllowedMove(from, to, actor) ==
    \/ <<from, to>> \in SystemMoves
    \/ actor = "operator" /\ to = "published" /\ from \in Embargo

MoveTo(to) == disclosure' = [disclosure EXCEPT !.state = to]

\* isFindingPatched
Patched == finding.marks \cap {"accepted", "closed"} # {}

\* shouldExpire
TimerOnly == embargo.grace
ShouldExpire == embargo.over \/ (disclosure.acknowledged /\ Patched /\ embargo.grace)

\* The embargo's minimum of 30 days, then its 90 days, go by.
TimePasses ==
    /\ disclosure.state # "absent" /\ ~ embargo.over
    /\ embargo' = IF embargo.grace THEN [embargo EXCEPT !.over = TRUE]
                                   ELSE [embargo EXCEPT !.grace = TRUE]
    /\ UNCHANGED <<others, disclosure, advisory, publisher, disclosureFaults>>

\* acknowledgeDisclosure; one that meets another transition is refused or lost.
Acknowledge ==
    /\ disclosure.state \in {"embargoed", "maintainer-acknowledged", "patch-merged"}
    /\ disclosure' = [disclosure EXCEPT
           !.acknowledged = TRUE,
           !.state = IF @ = "embargoed" THEN "maintainer-acknowledged" ELSE @]
    /\ UNCHANGED <<others, embargo, advisory, publisher, disclosureFaults>>

\* A step of the review or the sweep; days that went by count for the row.
LifecycleStep(A) ==
    /\ A
    /\ embargo' = IF disclosure'.state = "absent" THEN NotOver ELSE embargo
    /\ UNCHANGED <<advisory, publisher, disclosureFaults>>

\* runDisclosureCronTick over loadDisclosureTimerCandidates.  What a tick read
\* of a row only ever becomes true, so its two transitions are steps of their
\* own; that two attempts delete the row and enter it again between them is
\* left out.
MarkPatchMerged ==
    /\ Patched /\ (embargo.over \/ disclosure.acknowledged)
    /\ AllowedMove(disclosure.state, "patch-merged", "system")
    /\ MoveTo("patch-merged")
    /\ UNCHANGED <<others, embargo, advisory, publisher, disclosureFaults>>

ExpireEmbargo ==
    /\ ShouldExpire
    /\ AllowedMove(disclosure.state, "embargo-expired", "system")
    /\ MoveTo("embargo-expired")
    /\ UNCHANGED <<others, embargo, advisory, publisher, disclosureFaults>>

-----------------------------------------------------------------------------
(* publishDisclosure.                                                      *)

CallAt(p, at) == publisher[p].at = at
CallGoes(p, at) == publisher' = [publisher EXCEPT ![p].at = at]
CallEnds(p) == publisher' = [publisher EXCEPT ![p] = NoCall]

\* prepareGhsaForPublication returned the advisory g.
Prepared(p, g) ==
    publisher' = [publisher EXCEPT ![p].ghsa = g,
                      ![p].at = IF publisher[p].state = "published" THEN "publish" ELSE "transition"]

\* The cron's candidates; an operator may force any embargo.
NeverAgain(actor) ==
    disclosure.state \in (IF actor = "system" THEN {"embargo-expired"} ELSE Embargo)
Publishable(actor) ==
    \/ actor = "system" /\ disclosure.state = "embargo-expired"
    \/ disclosure.state = "published" /\ disclosure.ghsa # "none" /\ ~ disclosure.advised
    \/ actor = "operator" /\ disclosure.state \in Embargo

\* publishDisclosure loads the row; an advisory with a CVE is ready.
LoadDisclosure(p, actor) ==
    /\ CallAt(p, "idle")
    /\ Publishable(actor)
    /\ publisher' = [publisher EXCEPT ![p] =
           [at |-> IF disclosure.ghsa = "none" \/ ~ disclosure.cve THEN "claim"
                   ELSE IF disclosure.state = "published" THEN "publish" ELSE "transition",
            actor |-> actor, state |-> disclosure.state, ghsa |-> disclosure.ghsa,
            cve |-> disclosure.cve]]
    /\ UNCHANGED <<others, disclosure, embargo, advisory, disclosureFaults>>

\* Whether a reservation may be taken: nobody's, or older than 15 minutes.
Unreserved == disclosure.state # "absent" /\ ~ disclosure.cve
Reservable == Unreserved /\ disclosure.token \in {"none", "stale"}

\* claimFindingDisclosureGhsaReservation
ClaimReservation(p) ==
    /\ CallAt(p, "claim")
    /\ \/ /\ Reservable
          /\ disclosure' = [disclosure EXCEPT !.token = p]
          /\ CallGoes(p, IF publisher[p].ghsa = "none" THEN "find" ELSE "cve")
       \/ ~ Reservable /\ CallGoes(p, "reload") /\ UNCHANGED disclosure
    /\ UNCHANGED <<others, embargo, advisory, disclosureFaults>>

\* Somebody else holds, or took over, the reservation: use what is recorded.
ReloadDisclosure(p) ==
    /\ CallAt(p, "reload")
    /\ IF disclosure.ghsa # "none" THEN Prepared(p, disclosure.ghsa) ELSE CallEnds(p)
    /\ UNCHANGED <<others, disclosure, embargo, advisory, disclosureFaults>>

\* createDraftAdvisory first looks for a draft with the finding's marker.
FindDraft(p) ==
    /\ CallAt(p, "find")
    /\ \/ /\ \A a \in Advisories : advisory[a] = "absent"
          /\ CallGoes(p, "draft") /\ UNCHANGED disclosureFaults
       \/ /\ \E a \in Advisories :
                 advisory[a] # "absent"
                 /\ publisher' = [publisher EXCEPT ![p].at = "record", ![p].ghsa = a]
          /\ UNCHANGED disclosureFaults
       \/ CallFails /\ CallGoes(p, "release")
    /\ UNCHANGED <<others, disclosure, embargo, advisory>>

PostDraft(p) ==
    /\ CallAt(p, "draft")
    /\ \/ \E a \in Advisories :
              /\ advisory[a] = "absent"
              /\ advisory' = [advisory EXCEPT ![a] = "draft"]
              /\ \/ publisher' = [publisher EXCEPT ![p].at = "record", ![p].ghsa = a]
                    /\ UNCHANGED disclosureFaults
                 \/ CallFails /\ CallGoes(p, "release")
       \/ CallFails /\ CallGoes(p, "release") /\ UNCHANGED advisory
    /\ UNCHANGED <<others, disclosure, embargo>>

\* recordFindingDisclosureGhsaDraft, for the token.
RecordDraft(p) ==
    /\ CallAt(p, "record")
    /\ \/ /\ disclosure.token = p
          /\ disclosure' = [disclosure EXCEPT !.ghsa = publisher[p].ghsa]
          /\ (CallGoes(p, "cve") /\ UNCHANGED disclosureFaults) \/ (CallGoes(p, "release") /\ CallFails)
       \/ disclosure.token # p /\ CallGoes(p, "reload") /\ UNCHANGED <<disclosure, disclosureFaults>>
       \/ CallFails /\ CallGoes(p, "release") /\ UNCHANGED disclosure
    /\ UNCHANGED <<others, embargo, advisory>>

RequestCve(p) ==
    /\ CallAt(p, "cve")
    /\ \/ CallGoes(p, "complete") /\ UNCHANGED disclosureFaults
       \/ CallGoes(p, "release") /\ CallFails
    /\ UNCHANGED <<others, disclosure, embargo, advisory>>

\* completeFindingDisclosureGhsaReservation, for the token.
CompleteReservation(p) ==
    /\ CallAt(p, "complete")
    /\ \/ /\ disclosure.token = p
          /\ disclosure' = [disclosure EXCEPT !.ghsa = publisher[p].ghsa, !.cve = TRUE, !.token = "none"]
          /\ Prepared(p, publisher[p].ghsa)
       \/ disclosure.token # p /\ CallGoes(p, "reload") /\ UNCHANGED disclosure
    /\ UNCHANGED <<others, embargo, advisory, disclosureFaults>>

\* The catch block, before the error is thrown on.
ReleaseReservation(p) ==
    /\ CallAt(p, "release")
    /\ disclosure' = [disclosure EXCEPT !.token = IF @ = p THEN "none" ELSE @]
    /\ CallEnds(p)
    /\ UNCHANGED <<others, embargo, advisory, disclosureFaults>>

\* transitionFindingDisclosure to published: refused, already there, or done.
TransitionToPublished(p) ==
    /\ CallAt(p, "transition")
    /\ \/ /\ AllowedMove(disclosure.state, "published", publisher[p].actor)
          /\ disclosure' = [disclosure EXCEPT !.state = "published",
                                              !.forced = publisher[p].actor = "operator"]
          /\ CallGoes(p, "publish")
       \/ /\ ~ AllowedMove(disclosure.state, "published", publisher[p].actor)
          /\ CallEnds(p) /\ UNCHANGED disclosure
    /\ UNCHANGED <<others, embargo, advisory, disclosureFaults>>

\* publishAdvisory: done, or refused, or done with the answer lost.
PublishAdvisory(p) ==
    /\ CallAt(p, "publish")
    /\ \/ /\ advisory' = [advisory EXCEPT ![publisher[p].ghsa] = "published"]
          /\ \/ CallGoes(p, "confirm") /\ UNCHANGED disclosureFaults
             \/ CallEnds(p) /\ CallFails
       \/ CallEnds(p) /\ CallFails /\ UNCHANGED advisory
    /\ UNCHANGED <<others, disclosure, embargo>>

\* markFindingDisclosureGhsaPublished
MarkAdvised(p) ==
    /\ CallAt(p, "confirm")
    /\ disclosure' = [disclosure EXCEPT !.advised = @ \/ disclosure.state # "absent"]
    /\ CallEnds(p)
    /\ UNCHANGED <<others, embargo, advisory, disclosureFaults>>

PublisherDies(p) ==
    /\ ~ CallAt(p, "idle")
    /\ CallFails
    /\ CallEnds(p)
    /\ UNCHANGED <<others, disclosure, embargo, advisory>>

\* 15 minutes go by, far longer than a call may live (maxDuration).
Holding == {"find", "draft", "record", "cve", "complete", "release"}
ReservationAges ==
    /\ disclosure.token \in Publishers
    /\ publisher[disclosure.token].at \notin Holding
    /\ disclosure' = [disclosure EXCEPT !.token = "stale"]
    /\ UNCHANGED <<others, embargo, advisory, publisher, disclosureFaults>>

-----------------------------------------------------------------------------

\* One step of a call that has started.
Publishes(p) ==
    \/ ClaimReservation(p) \/ ReloadDisclosure(p) \/ FindDraft(p) \/ PostDraft(p)
    \/ RecordDraft(p) \/ RequestCve(p) \/ CompleteReservation(p) \/ ReleaseReservation(p)
    \/ TransitionToPublished(p) \/ PublishAdvisory(p) \/ MarkAdvised(p)

DisclosureNext ==
    \/ LifecycleStep(LifecycleNext)
    \/ TimePasses \/ Acknowledge \/ MarkPatchMerged \/ ExpireEmbargo \/ ReservationAges
    \/ \E p \in Publishers :
           \/ \E actor \in {"system", "operator"} : LoadDisclosure(p, actor)
           \/ Publishes(p) \/ PublisherDies(p)

DisclosureSpec == DisclosureInit /\ [][DisclosureNext]_disclosureVars

-----------------------------------------------------------------------------
(* Properties.                                                             *)

DisclosureTypeOK ==
    /\ finding \in [id : 0 .. MaxAttempts, severity : {"none", "low", "high"}, marks : SUBSET Marks,
                    patch : BOOLEAN, retracted : BOOLEAN, closedOn : 0 .. MaxAttempts]
    /\ disclosure \in [state : Embargo \cup {"absent", "none", "published"},
                       madeFor : 0 .. MaxAttempts, acknowledged : BOOLEAN, forced : BOOLEAN,
                       token : Publishers \cup {"none", "stale"}, ghsa : Advisories \cup {"none"},
                       cve : BOOLEAN, advised : BOOLEAN]
    /\ review \in [decision : 0 .. MaxAttempts, comment : 0 .. MaxAttempts, done : BOOLEAN]
    /\ attempt \in [at : {"idle", "decide", "record", "initialize", "comment", "setComment", "patch"},
                    n : 0 .. MaxAttempts, severity : {"none", "low", "high"}]
    /\ tick \in [Ticks -> [at : {"idle", "post", "mark"}, mark : Marks \cup {"none"},
                           on : 0 .. MaxAttempts, public : BOOLEAN]]
    /\ receipts \subseteq Marks /\ erased \in 0 .. MaxAttempts
    /\ embargo \in [over : BOOLEAN, grace : BOOLEAN]
    /\ advisory \in [Advisories -> {"absent", "draft", "published"}]
    /\ publisher \in [Publishers ->
           [at : Holding \cup {"idle", "claim", "reload", "transition", "publish", "confirm"},
            actor : {"system", "operator"}, state : Embargo \cup {"none", "published"},
            ghsa : Advisories \cup {"none"}, cve : BOOLEAN]]
    /\ disclosureFaults \in Nat

\* The comment on the pull request, the finding's row and the evidence its
\* closure looked at are those of one attempt, although earlier attempts may
\* have left a row behind, also for a finding that the last one does not have
\* (recordFindingStatuses, reconcilableTrailingRows, loadSweepWork).  Excepted
\* are rows an operator retracted, and rows under an embargo, which the sweep
\* takes before there is a comment, or closed on what it took of one that was
\* deleted: see ClosedOnItself.
RowMatchesComment ==
    /\ (finding.id # 0 /\ disclosure.state = "none" /\ ~ finding.retracted) =>
           \/ /\ review.comment # 0 => finding.id = review.comment
              /\ "closed" \in finding.marks => finding.closedOn = finding.id
           \/ "closed" \in finding.marks /\ finding.closedOn < erased
    /\ review.comment # 0 /\ review.decision = review.comment => finding.id # 0

\* A finding that was put under embargo is shown only when its advisory is
\* out, its advisory is out only when the row is published, and unless an
\* operator forces it that takes the whole embargo or a patch that the
\* maintainer acknowledged (transitionFindingDisclosure, publishDisclosure,
\* runDisclosureCronTick).  The first two end where a retry deletes the row
\* with its reservation and its advisory: see EmbargoOutlivesRetry.  A row
\* entered for the finding of an earlier attempt is not corrected: see
\* HighIsWithheld.
EmbargoIsKept ==
    /\ erased # 0 \/
       /\ (finding.severity = "high" /\ disclosure.madeFor = finding.id /\ Shown) =>
              disclosure.ghsa # "none" /\ advisory[disclosure.ghsa] = "published"
       /\ \A a \in Advisories : advisory[a] = "published" => disclosure.state = "published"
    /\ disclosure.state \in {"embargo-expired", "published"} /\ ~ disclosure.forced =>
           embargo.over \/ (disclosure.acknowledged /\ Patched /\ embargo.grace)

\* One advisory per finding, whatever calls overlap, die or remain unanswered:
\* a draft that was not recorded is found again (prepareGhsaForPublication,
\* createDraftAdvisory).  A deleted row takes its reservation with it.
OneAdvisory == erased # 0 \/ Cardinality({a \in Advisories : advisory[a] # "absent"}) <= 1

\* What the code's comments ask for and the code does not keep: a finding
\* above the bar is never shown without its advisory, whichever attempt of
\* the review produced it (initializeDisclosureForFindings keeps the first).
HighIsWithheld ==
    (finding.severity = "high" /\ disclosure.state # "absent" /\ Shown) =>
        disclosure.state = "published"

\* What loadSweepWork's comment promises, that closure metadata is not
\* attached to another finding; the sweep takes embargoed rows earlier.
ClosedOnItself == "closed" \in finding.marks => finding.closedOn = finding.id

\* What recordFindingStatuses' comment promises, that a retry erases no state
\* another worker wrote; the deletion does not look at finding_disclosure.
EmbargoOutlivesRetry ==
    [][disclosure.acknowledged => disclosure'.acknowledged]_disclosureVars

\* An embargo that has expired ends with the finding shown and its advisory
\* out, or with the row deleted, although calls die between any two statements
\* (runDisclosureCronTick).
ExpiredIsPublished ==
    (disclosure.state = "embargo-expired") ~> (Shown \/ disclosure.state = "absent")
=============================================================================
