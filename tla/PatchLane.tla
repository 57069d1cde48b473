------------------------------ MODULE PatchLane ------------------------------
(***************************************************************************)
(* The patch a review proposes for one finding: what each provider offers, *)
(* what survives the checks on an offer, which one is chosen, and what the *)
(* verifier makes of it in a checkout of the reviewed commit.  These are   *)
(* functions; ReviewKernel calls them and acts on the result.              *)
(***************************************************************************)
EXTENDS Integers, FiniteSets

Reviewers == {"anthropic", "openai"}
NoPatch == "none"

\* How a provider's answer fares in runOneProposal: it may be unable to answer,
\* decline, add no line or too many, miss the finding's lines, or quote
\* code the file does not hold.
Offers == {"throws", "declines", "adds_nothing", "too_long", "off_target", "stale", "fits"}

\* runOneProposal after the call: the reason no patch came of it.
SkipReason(offer) ==
    CASE offer = "throws" -> "generation_error"
      [] offer \in {"adds_nothing", "off_target"} -> "outside_diff_hunk"
      [] offer = "too_long" -> "size_cap"
      [] offer = "stale" -> "patch_apply_failed"
      [] OTHER -> "none"

\* Only findings about a changed file are asked about.
Proposal(offer, fileChanged) ==
    IF ~ fileChanged THEN [patch |-> FALSE, reason |-> "outside_diff_hunk"]
    ELSE [patch |-> offer = "fits", reason |-> SkipReason(offer)]

\* pickReason
ReasonOrder ==
    <<"generation_error", "patch_apply_failed", "size_cap", "outside_diff_hunk">>
PickReason(reasons) ==
    LET given == reasons \ {"none"}
        best  == {n \in DOMAIN ReasonOrder : ReasonOrder[n] \in given}
    IN  IF best = {} THEN "models_disagreed"
        ELSE ReasonOrder[CHOOSE n \in best : \A m \in best : n <= m]

\* decideOne: anthropic's patch is preferred, one patch is enough.
DecideOne(proposals) ==
    LET with == {p \in Reviewers : proposals[p].patch}
    IN  [by         |-> IF with = {} THEN NoPatch
                        ELSE IF "anthropic" \in with THEN "anthropic" ELSE "openai",
         confidence |-> IF with = Reviewers THEN "unanimous"
                        ELSE IF with # {} THEN "single_model" ELSE "none",
         skip       |-> IF with # {} THEN "none"
                        ELSE PickReason({proposals[p].reason : p \in Reviewers})]

\* generateReviewPatches, decidePatchOutcomes for one finding.
PatchDecision(offers, fileChanged) ==
    DecideOne([p \in Reviewers |-> Proposal(offers[p], fileChanged)])

-----------------------------------------------------------------------------
(* runPatchVerifier.                                                       *)

\* What a checkout has in store for a patch.  setup: clone, evidence file and
\* adapter succeed.  apply, tests, poc: what the command reports, where
\* "killed" is a command that ends without an exit code and in time.
Checkouts ==
    [setup : BOOLEAN, apply : {"zero", "nonzero", "killed"}, runner : BOOLEAN,
     tests : {"zero", "nonzero", "killed", "timeout"},
     poc : {"absent", "zero", "nonzero", "killed", "timeout"}]

\* Steps end at the first that decides.
PatchVerdict(c) ==
    IF ~ c.setup THEN "inconclusive"
    ELSE IF c.apply # "zero" THEN "regressed"
    ELSE IF ~ c.runner \/ c.tests = "timeout" THEN "inconclusive"
    ELSE IF c.tests # "zero" THEN "regressed"
    ELSE IF c.poc \in {"absent", "timeout"} THEN "inconclusive"
    ELSE IF c.poc = "zero" THEN "regressed" ELSE "verified"

\* Checkouts that differ in what the verifier looks at.
DecisiveCheckouts ==
    {c \in Checkouts :
        /\ ~ c.setup => c.apply = "zero"
        /\ (~ c.setup \/ c.apply # "zero") => c.runner
        /\ (~ c.setup \/ c.apply # "zero" \/ ~ c.runner) => c.tests = "zero"
        /\ (~ c.setup \/ c.apply # "zero" \/ ~ c.runner \/ c.tests # "zero") => c.poc = "absent"}
=============================================================================
