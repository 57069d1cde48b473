---------------------------- MODULE ReviewKernel ----------------------------
(***************************************************************************)
(* runReviewKernel: what a review does with the findings its models agree  *)
(* on, and with the shadow tier that only one of them reported.  The tier  *)
(* of the repository is read once; the threat model of the repository is   *)
(* shared by its reviews; gates downgrade or corroborate findings and fail *)
(* open; the findings are recorded, some of them embargoed; on an          *)
(* installation patches are proposed and verified, and what is not         *)
(* embargoed is commented on the pull request.                             *)
(*                                                                         *)
(* Each kernel handles a review of its own, in one attempt: the attempts   *)
(* of one review are the subject of FindingLifecycle.                      *)
(***************************************************************************)
EXTENDS PatchLane

CONSTANTS
    Kernels,      \* invocations of runReviewKernel, each for its own review
    Findings,       \* findings the models may agree on
    Shadows,      \* findings only one of them may report
    KernelSetups, \* records: flags (names of enabled gates), live, access
    MaxKernelFaults

ASSUME KernelAssumption ==
    /\ Findings \cap Shadows = {}
    /\ MaxKernelFaults \in Nat
    /\ \A s \in KernelSetups :
           s.access \in {"private", "live_protocol_review_required", "public"}

VARIABLES
    setup,       \* feature flags and what the repository is, fixed
    repoTier,    \* repo_tier, moved by operators
    threatModel, \* repo_threat_model, the repository's row
    kernel,      \* invocations
    reviewRow,   \* reviews, finding_status and finding_disclosure rows, by kernel
    pullRequest, \* comments on the pull request
    kernelFaults

kernelVars == <<setup, repoTier, threatModel, kernel, reviewRow, pullRequest, kernelFaults>>

NoModel == [access |-> "none", items |-> {}]

\* items: where the model's items come from, a public or a private review.
ThreatModels ==
    [access : {"none", "private", "live_protocol_review_required", "public"},
     items : SUBSET {"public", "private"}]

NewKernel ==
    [at |-> "idle", rail |-> "install", tier |-> "default", receipt |-> FALSE,
     model |-> NoModel, found |-> {}, high |-> {}, raw |-> {}, shadows |-> {},
     corroborated |-> {}, embargoed |-> {}, shadowEmbargoed |-> {},
     patch |-> [f \in Findings |-> NoPatch], verdict |-> [f \in Findings |-> "none"],
     inline |-> {}, lost |-> {}]

\* public: public_receipt.  high, raw: agreementDecision.  severity: of the
\* finding_status rows.  state: of finding_disclosure rows.
NewRow ==
    [public |-> FALSE, decision |-> "none", high |-> {}, raw |-> {},
     severity |-> [f \in Findings |-> "none"], shadows |-> {}, corroborated |-> {},
     state |-> [f \in Findings \cup Shadows |-> "absent"], comment |-> FALSE,
     patch |-> [f \in Findings |-> NoPatch], linked |-> {}, proposed |-> {}]

\* shown: findings the comment names.  patches: the patch it suggests for each,
\* tagged with what the verifier said.  review: line comments with a patch.
EmptyPullRequest ==
    [summary |-> FALSE, shown |-> {}, review |-> {},
     patches |-> [f \in Findings |-> "none"]]

KernelInit ==
    /\ setup \in KernelSetups
    /\ repoTier = "default"
    /\ threatModel \in {NoModel, [access |-> "public", items |-> {"public"}]}
    /\ kernel = [k \in Kernels |-> NewKernel]
    /\ reviewRow = [k \in Kernels |-> NewRow]
    /\ pullRequest = [k \in Kernels |-> EmptyPullRequest]
    /\ kernelFaults = 0

On(flag) == flag \in setup.flags
KernelAt(k, at) == kernel[k].at = at
KernelGoes(k, at) == kernel' = [kernel EXCEPT ![k].at = at]
KernelFault == kernelFaults < MaxKernelFaults /\ kernelFaults' = kernelFaults + 1

rest == <<setup, repoTier, threatModel>>

\* setRepoCyberTier
SetRepoTier ==
    /\ repoTier' = IF repoTier = "cyber" THEN "default" ELSE "cyber"
    /\ UNCHANGED <<setup, threatModel, kernel, reviewRow, pullRequest, kernelFaults>>

-----------------------------------------------------------------------------
(* Before and during the models' work.                                     *)

\* getRepoCyberTier, once; updateReview when the receipt must become private.
\* Without files the review is skipped.
StartKernel(k, rail, asked, empty) ==
    LET tier    == repoTier
        receipt == tier # "cyber" /\ asked
    IN  /\ KernelAt(k, "idle")
        /\ kernel' = [kernel EXCEPT ![k].at = IF empty THEN "done" ELSE "review",
                                    ![k].rail = rail, ![k].tier = tier, ![k].receipt = receipt]
        /\ reviewRow' = [reviewRow EXCEPT ![k].public = receipt,
                                          ![k].decision = IF empty THEN "skipped" ELSE "none"]
        /\ UNCHANGED <<setup, repoTier, threatModel, pullRequest, kernelFaults>>

\* reviewPR.  A degraded review finds nothing; the shadow tier holds high
\* findings only.
Review(k, found, high, shadows) ==
    /\ KernelAt(k, "review")
    /\ high \subseteq found
    /\ kernel' = [kernel EXCEPT ![k].at = "loadModel", ![k].found = found, ![k].high = high,
                                ![k].raw = high, ![k].shadows = shadows]
    /\ UNCHANGED <<rest, reviewRow, pullRequest, kernelFaults>>

\* publicAccessForThreatModel
Access(k) == IF ~ kernel[k].receipt THEN "private" ELSE setup.access
Provenance(k) == IF Access(k) = "public" THEN "public" ELSE "private"

\* isThreatModelEnabledForInstall, loadRepoThreatModel.  A failure skips the model.
LoadThreatModel(k) ==
    /\ KernelAt(k, "loadModel")
    /\ \/ On("threatModel")
          /\ kernel' = [kernel EXCEPT ![k].at = "storeModel", ![k].model = threatModel]
          /\ UNCHANGED kernelFaults
       \/ ~ On("threatModel") /\ KernelGoes(k, "reach") /\ UNCHANGED kernelFaults
       \/ On("threatModel") /\ KernelFault /\ KernelGoes(k, "reach")
    /\ UNCHANGED <<rest, reviewRow, pullRequest>>

\* A public review meets a document that is not.
Publishing(k) == kernel[k].model.access # "public" /\ Access(k) = "public"

\* A document that cannot be built anew does not become public.
OwnAccess(k) == Access(k)
KeptAccess(k) == IF Publishing(k) THEN kernel[k].model.access ELSE Access(k)

\* The document upserted over the row, which another review may have written
\* since it was loaded.  tree: the snapshot of the repository could be taken.
\* touched: a section changes with the reviewed files.
ModelToStore(k, tree, touched) ==
    LET old      == kernel[k].model
        fromTree == [access |-> Access(k), items |-> {Provenance(k)}]
        items    == IF touched THEN old.items \cup {Provenance(k)} ELSE old.items
    IN  IF old.access = "none" THEN IF tree THEN fromTree ELSE threatModel
        ELSE IF Publishing(k) /\ tree THEN fromTree
        ELSE [access |-> KeptAccess(k), items |-> items]

StoreThreatModel(k, tree, touched) ==
    /\ KernelAt(k, "storeModel")
    /\ \/ threatModel' = ModelToStore(k, tree, touched) /\ UNCHANGED kernelFaults
       \/ UNCHANGED threatModel /\ KernelFault
    /\ kernel' = [kernel EXCEPT ![k].at = "reach", ![k].model = NoModel]
    /\ UNCHANGED <<setup, repoTier, reviewRow, pullRequest>>

-----------------------------------------------------------------------------
(* The gates after agreement.  Each fails open.                            *)

\* applyReachabilityGate: high findings found unreachable become low.  The cap
\* of 60 seconds, or any error, leaves all of them as they were.
ReachabilityGate(k, unreachable) ==
    /\ KernelAt(k, "reach")
    /\ unreachable \subseteq kernel[k].high
    /\ unreachable # {} => On("reachability")
    /\ kernel' = [kernel EXCEPT ![k].at = "adjudicate",
                                ![k].high = kernel[k].high \ unreachable]
    /\ UNCHANGED <<rest, reviewRow, pullRequest, kernelFaults>>

\* applyThirdModelAdjudication, for installations that have both tiers on.
Adjudicate(k, confirmed) ==
    /\ KernelAt(k, "adjudicate")
    /\ confirmed \subseteq kernel[k].shadows
    /\ confirmed # {} =>
           kernel[k].rail = "install" /\ {"adjudication", "shadow"} \subseteq setup.flags
    /\ kernel' = [kernel EXCEPT ![k].at = "update", ![k].corroborated = confirmed]
    /\ UNCHANGED <<rest, reviewRow, pullRequest, kernelFaults>>

\* updateReview with the decision, or, on a paid rail, the same and an error
\* when the estimated cost exceeds three times the price.
UpdateReview(k) ==
    /\ KernelAt(k, "update")
    /\ reviewRow' = [reviewRow EXCEPT ![k].decision = "agreed", ![k].high = kernel[k].high,
                                      ![k].raw = kernel[k].raw]
    /\ \/ KernelGoes(k, IF kernel[k].found = {} THEN "shadow" ELSE "record")
       \/ kernel[k].rail # "install" /\ KernelGoes(k, "stopped")
    /\ UNCHANGED <<rest, pullRequest, kernelFaults>>

-----------------------------------------------------------------------------
(* Findings and their disclosure.                                          *)

\* recordFindingStatuses
RecordFindings(k) ==
    /\ KernelAt(k, "record")
    /\ reviewRow' = [reviewRow EXCEPT ![k].severity =
                        [f \in Findings |-> IF f \notin kernel[k].found THEN "none"
                                          ELSE IF f \in kernel[k].high THEN "high" ELSE "low"]]
    /\ KernelGoes(k, "disclose")
    /\ UNCHANGED <<rest, pullRequest, kernelFaults>>

\* Whether initializeDisclosureForFindings is called at all.
Disclosing(k) == On("disclosure") \/ On("sideTable") \/ kernel[k].tier = "cyber"

\* What it embargoes: everything on the cyber tier, high findings of live
\* protocols when the disclosure gate is on.
WithheldNow(k, found, high) ==
    IF repoTier = "cyber" THEN found
    ELSE IF setup.live /\ On("disclosure") THEN high ELSE {}
Withheld(k, found, high) ==
    IF kernel[k].tier = "cyber" THEN found
    ELSE IF setup.live /\ On("disclosure") THEN high ELSE {}

Entered(k, found, withheld) ==
    [f \in Findings \cup Shadows |->
        IF f \notin found THEN reviewRow[k].state[f]
        ELSE IF f \in withheld THEN "embargoed" ELSE "none"]

\* An error here ends the review.
DiscloseFindings(k) ==
    LET withheld == Withheld(k, kernel[k].found, kernel[k].high)
    IN  /\ KernelAt(k, "disclose")
        /\ IF Disclosing(k)
           THEN /\ reviewRow' = [reviewRow EXCEPT
                       ![k].state = Entered(k, kernel[k].found, withheld)]
                /\ kernel' = [kernel EXCEPT ![k].at = "shadow", ![k].embargoed = withheld]
           ELSE KernelGoes(k, "shadow") /\ UNCHANGED reviewRow
        /\ UNCHANGED <<rest, pullRequest, kernelFaults>>

AfterShadow(k) == IF kernel[k].rail = "install" THEN "summary" ELSE "done"

\* recordSingleModelFindingStatuses, then the same embargo.  An error here is
\* swallowed: rows may be embargoed while the kernel takes none to be.
RecordShadows(k) ==
    LET shadows  == kernel[k].shadows
        withheld == Withheld(k, shadows, shadows)
        applies  == kernel[k].rail = "install" /\ On("shadow") /\ shadows # {}
    IN  /\ KernelAt(k, "shadow")
        /\ \/ ~ applies /\ KernelGoes(k, AfterShadow(k)) /\ UNCHANGED <<reviewRow, kernelFaults>>
           \/ /\ applies
              /\ reviewRow' = [reviewRow EXCEPT
                     ![k].shadows = shadows, ![k].corroborated = kernel[k].corroborated,
                     ![k].state = IF Disclosing(k) THEN Entered(k, shadows, withheld) ELSE @]
              /\ \/ kernel' = [kernel EXCEPT ![k].at = AfterShadow(k),
                                   ![k].shadowEmbargoed = IF Disclosing(k) THEN withheld ELSE {}]
                    /\ UNCHANGED kernelFaults
                 \/ Disclosing(k) /\ KernelFault
                    /\ kernel' = [kernel EXCEPT ![k].at = AfterShadow(k), ![k].lost = withheld]
           \/ /\ applies /\ KernelFault /\ UNCHANGED reviewRow
              /\ kernel' = [kernel EXCEPT ![k].at = AfterShadow(k),
                                          ![k].lost = IF Disclosing(k) THEN withheld ELSE {}]
        /\ UNCHANGED <<rest, pullRequest>>

-----------------------------------------------------------------------------
(* runInstallLane.                                                         *)

Public(k) == kernel[k].found \ kernel[k].embargoed
PatchesHeld(k) == {f \in Findings : kernel[k].patch[f] # NoPatch}

\* byIndex, without what the verifier dropped.
PatchesKept(k) == {f \in PatchesHeld(k) : kernel[k].verdict[f] # "regressed"}

\* runFirstReviewSummary, whose errors are swallowed; the lane ends here when
\* there is nothing to comment.
FirstSummary(k) ==
    /\ KernelAt(k, "summary")
    /\ KernelGoes(k, IF Public(k) = {} THEN "done" ELSE "patch")
    /\ \/ kernel[k].embargoed = {}
          /\ pullRequest' = [pullRequest EXCEPT ![k].summary = TRUE] /\ UNCHANGED kernelFaults
       \/ kernel[k].embargoed # {} /\ UNCHANGED <<pullRequest, kernelFaults>>
       \/ kernel[k].embargoed = {} /\ UNCHANGED pullRequest /\ KernelFault
    /\ UNCHANGED <<rest, reviewRow>>

\* Any decision on the patches of the findings; inline is where the patch can
\* stand beside a changed line.
PatchDecisions ==
    {PatchDecision(offers, changed).by : offers \in [Reviewers -> Offers], changed \in BOOLEAN}

\* runPatchAgent, not for a review with withheld findings.  Its errors leave
\* the review without patches.
PatchAgent(k) ==
    /\ KernelAt(k, "patch")
    /\ \/ /\ On("patchAgent") /\ kernel[k].embargoed = {}
          /\ \E by \in [kernel[k].found -> PatchDecisions] :
                LET with == {f \in kernel[k].found : by[f] # NoPatch}
                IN  \E inline \in SUBSET with :
                        kernel' = [kernel EXCEPT
                            ![k].at = IF with = {} THEN "comment" ELSE "verify",
                            ![k].patch = [f \in Findings |-> IF f \in with THEN by[f] ELSE NoPatch],
                            ![k].inline = inline]
       \/ KernelGoes(k, "comment") /\ (On("patchAgent") => kernel[k].embargoed # {})
    /\ UNCHANGED <<rest, reviewRow, pullRequest, kernelFaults>>

PatchAgentFails(k) ==
    /\ KernelAt(k, "patch") /\ On("patchAgent") /\ kernel[k].embargoed = {}
    /\ KernelFault /\ KernelGoes(k, "comment")
    /\ UNCHANGED <<rest, reviewRow, pullRequest>>

Verdicts == {PatchVerdict(c) : c \in DecisiveCheckouts}

\* applyPatchVerifier: regressed patches leave both maps, the others are
\* tagged.  When the flag cannot be read nothing is verified.
VerifyPatches(k) ==
    /\ KernelAt(k, "verify")
    /\ \/ /\ On("patchVerify")
          /\ \E said \in [PatchesHeld(k) -> Verdicts] :
                kernel' = [kernel EXCEPT
                    ![k].at = "comment",
                    ![k].verdict = [f \in Findings |->
                        IF f \in PatchesHeld(k) THEN said[f] ELSE "none"],
                    ![k].inline = {f \in kernel[k].inline : said[f] # "regressed"}]
          /\ UNCHANGED kernelFaults
       \/ ~ On("patchVerify") /\ KernelGoes(k, "comment") /\ UNCHANGED kernelFaults
       \/ On("patchVerify") /\ KernelFault /\ KernelGoes(k, "comment")
    /\ UNCHANGED <<rest, reviewRow, pullRequest>>

\* maybeFormatSingleModelSection; read: the flags could be read.
ShadowSection(k, read) ==
    IF /\ read /\ kernel[k].receipt /\ kernel[k].tier # "cyber"
       /\ {"feedback", "shadow", "shadowRender"} \subseteq setup.flags
    THEN kernel[k].shadows \ kernel[k].shadowEmbargoed ELSE {}

\* postPRComment.
Comment(k, read) ==
    /\ KernelAt(k, "comment")
    /\ IF read THEN UNCHANGED kernelFaults ELSE KernelFault
    /\ pullRequest' = [pullRequest EXCEPT
           ![k].shown = Public(k) \cup ShadowSection(k, read),
           ![k].patches = [f \in Findings |->
               IF f \in PatchesKept(k)
               THEN IF kernel[k].verdict[f] = "none" THEN "untagged" ELSE kernel[k].verdict[f]
               ELSE "none"]]
    /\ KernelGoes(k, "setComment")
    /\ UNCHANGED <<rest, reviewRow>>

SetKernelComment(k) ==
    /\ KernelAt(k, "setComment")
    /\ reviewRow' = [reviewRow EXCEPT ![k].comment = TRUE]
    /\ KernelGoes(k, IF PatchesHeld(k) = {} THEN "done" ELSE "decisions")
    /\ UNCHANGED <<rest, pullRequest, kernelFaults>>

\* recordPatchDecisions: each decision as the agent made it, with the patches
\* the verifier dropped.
RecordPatchDecisions(k) ==
    /\ KernelAt(k, "decisions")
    /\ reviewRow' = [reviewRow EXCEPT ![k].patch = kernel[k].patch]
    /\ KernelGoes(k, IF On("clickApply") /\ kernel[k].inline # {} THEN "inline" ELSE "events")
    /\ UNCHANGED <<rest, pullRequest, kernelFaults>>

\* postPatchReviewComment and recordPatchReviewComment for one finding; a
\* finding on several lines, or a failed post, is passed over; a failed record
\* leaves the comment without a link.
CommentInline(k, f) ==
    /\ KernelAt(k, "inline") /\ f \in kernel[k].inline
    /\ kernel' = [kernel EXCEPT
           ![k].inline = @ \ {f},
           ![k].at = IF kernel[k].inline = {f} THEN "events" ELSE "inline"]
    /\ \/ UNCHANGED <<reviewRow, pullRequest, kernelFaults>>
       \/ /\ pullRequest' = [pullRequest EXCEPT ![k].review = @ \cup {f}]
          /\ \/ reviewRow' = [reviewRow EXCEPT ![k].linked = @ \cup {f}] /\ UNCHANGED kernelFaults
             \/ UNCHANGED reviewRow /\ KernelFault
    /\ UNCHANGED rest

\* recordPatchProposedEvent for each decision with a patch.
ProposeEvents(k) ==
    /\ KernelAt(k, "events")
    /\ reviewRow' = [reviewRow EXCEPT ![k].proposed = PatchesHeld(k)]
    /\ KernelGoes(k, "done")
    /\ UNCHANGED <<rest, pullRequest, kernelFaults>>

\* An error that is not swallowed, or the end of the process.
KernelStops(k) ==
    /\ kernel[k].at \notin {"idle", "done", "stopped"}
    /\ KernelFault /\ KernelGoes(k, "stopped")
    /\ UNCHANGED <<rest, reviewRow, pullRequest>>

KernelNext ==
    \/ SetRepoTier
    \/ \E k \in Kernels :
        \/ \E rail \in {"install", "paid"}, wanted, empty \in BOOLEAN :
               StartKernel(k, rail, wanted, empty)
        \/ \E found \in SUBSET Findings, high \in SUBSET Findings, shadows \in SUBSET Shadows :
               Review(k, found, high, shadows)
        \/ LoadThreatModel(k)
        \/ \E tree, touched \in BOOLEAN : StoreThreatModel(k, tree, touched)
        \/ \E unreachable \in SUBSET Findings : ReachabilityGate(k, unreachable)
        \/ \E confirmed \in SUBSET Shadows : Adjudicate(k, confirmed)
        \/ UpdateReview(k) \/ RecordFindings(k) \/ DiscloseFindings(k) \/ RecordShadows(k)
        \/ FirstSummary(k) \/ PatchAgent(k) \/ PatchAgentFails(k) \/ VerifyPatches(k)
        \/ \E read \in BOOLEAN : Comment(k, read)
        \/ SetKernelComment(k) \/ RecordPatchDecisions(k)
        \/ \E f \in Findings : CommentInline(k, f)
        \/ ProposeEvents(k) \/ KernelStops(k)

KernelSpec == KernelInit /\ [][KernelNext]_kernelVars

-----------------------------------------------------------------------------
(* Properties.                                                             *)

KernelPlaces ==
    {"idle", "review", "loadModel", "storeModel", "reach", "adjudicate", "update", "record",
     "disclose", "shadow", "summary", "patch", "verify", "comment", "setComment", "decisions",
     "inline", "events", "done", "stopped"}

\* Invocations, rows and comments hold values of their types.
KernelTypeOK ==
    /\ setup \in KernelSetups
    /\ repoTier \in {"default", "cyber"}
    /\ threatModel \in ThreatModels
    /\ kernelFaults \in 0..MaxKernelFaults
    /\ \A k \in Kernels :
        /\ kernel[k].at \in KernelPlaces
        /\ kernel[k].rail \in {"install", "paid"}
        /\ kernel[k].tier \in {"default", "cyber"}
        /\ kernel[k].receipt \in BOOLEAN /\ kernel[k].model \in ThreatModels
        /\ kernel[k].high \subseteq kernel[k].raw /\ kernel[k].raw \subseteq kernel[k].found
        /\ kernel[k].corroborated \subseteq kernel[k].shadows
        /\ kernel[k].embargoed \subseteq kernel[k].found
        /\ kernel[k].shadowEmbargoed \cup kernel[k].lost \subseteq kernel[k].shadows
        /\ kernel[k].patch \in [Findings -> Reviewers \cup {NoPatch}]
        /\ kernel[k].verdict \in [Findings -> Verdicts \cup {"none"}]
        /\ kernel[k].inline \subseteq PatchesHeld(k)
        /\ pullRequest[k].summary \in BOOLEAN
        /\ pullRequest[k].shown \subseteq kernel[k].found \cup kernel[k].shadows
        /\ pullRequest[k].review \subseteq kernel[k].found
        /\ reviewRow[k].state \in [Findings \cup Shadows -> {"absent", "none", "embargoed"}]
        /\ reviewRow[k].severity \in [Findings -> {"none", "low", "high"}]

\* Nothing about a finding under embargo reaches the pull request, by whatever
\* comment, and with one such finding the review offers no patch and no
\* summary.  A review that ran as cyber shows no more than the summary of a
\* review without findings, and its row is private, even if the repository
\* has left the tier meanwhile.  The embargo
\* of the single-model tier is the exception the code makes: its errors are
\* swallowed, and the section is rendered all the same (lost).
\* (runReviewKernel, initializeDisclosureForFindings, runInstallLane)
WithheldIsNotShown ==
    \A k \in Kernels :
        LET pr == pullRequest[k]
        IN  /\ \A f \in pr.shown \ kernel[k].lost :
                  /\ reviewRow[k].state[f] # "embargoed"
                  /\ (setup.live /\ On("disclosure"))
                        => f \notin reviewRow[k].high \cup reviewRow[k].shadows
            /\ (\E f \in Findings : reviewRow[k].state[f] = "embargoed")
                  => /\ ~ pr.summary /\ pr.review = {}
                     /\ \A f \in Findings : pr.patches[f] = "none"
            /\ kernel[k].tier = "cyber"
                  => /\ ~ reviewRow[k].public
                     /\ pr \in {EmptyPullRequest, [EmptyPullRequest EXCEPT !.summary = TRUE]}
                     /\ pr.summary => kernel[k].found = {}

\* The same of the single-model section alone and without the exception, as
\* the comment on its embargo in runReviewKernel has it: a step that throws
\* leaves nothing withheld, and the section is rendered.
ShadowIsWithheld ==
    (setup.live /\ On("disclosure")) =>
        \A k \in Kernels : pullRequest[k].shown \cap Shadows = {}

\* Patches on the pull request stand beside a finding that is shown, none of
\* them was found to regress, and a link to a review comment leads to one.
\* A patch recorded as suggested that is not on the pull request is one the
\* verifier dropped.  (applyPatchVerifier, runInstallLane)
SuggestionsAreChecked ==
    \A k \in Kernels :
        LET pr == pullRequest[k]
        IN  /\ \A f \in Findings : pr.patches[f] # "none" =>
                  f \in pr.shown /\ kernel[k].verdict[f] # "regressed"
            /\ reviewRow[k].linked \subseteq pr.review
            /\ \A f \in pr.review : pr.patches[f] # "none"
            /\ \A f \in Findings : reviewRow[k].patch[f] # NoPatch =>
                  (pr.patches[f] = "none" <=> kernel[k].verdict[f] = "regressed")

\* A threat model that may be shown was built from public reviews only,
\* whatever reviews of the repository overlap and whenever its tier changes.
\* (runReviewKernel, upsertRepoThreatModel)
PublicModelIsPublic ==
    threatModel.access = "public" => "private" \notin threatModel.items
=============================================================================
