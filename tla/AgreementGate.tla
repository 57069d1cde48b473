---------------------------- MODULE AgreementGate ----------------------------
(***************************************************************************)
(* The agreement gate.  Providers review the same files at once; findings  *)
(* of different providers that agree are clustered, and a cluster counts   *)
(* as agreed when enough providers directly support one of its findings.   *)
(* The review pipeline (reviewPR) refuses to call it agreement when too    *)
(* few providers answered; the command line's stackedProvider goes by the  *)
(* providers that did.                                                     *)
(*                                                                         *)
(* findingsAgree is symmetric and not transitive: a cluster may hold       *)
(* findings that agree only through a third one.                           *)
(***************************************************************************)
EXTENDS Integers, FiniteSets

CONSTANTS
    Stack,       \* STACK, the providers of reviewPR
    Stacks,      \* the stacks a command line may configure
    AllFindings, \* findings
    Reports,     \* what a provider may return: sets of findings
    ShadowTier   \* isSingleModelTierEnabled

\* A finding: severity 0 (critical) .. 3 (low), confidence 0 .. 2, the words
\* of title and reasoning, and evidence entries.  An entry has a normalized
\* path, lines as <<start, end>> with a missing end filled in from the other
\* (<<>> if both are), and its symbol and quote as anchors.
Finding == [category : STRING, severity : 0 .. 3, confidence : 0 .. 2,
            words : SUBSET STRING,
            evidence : SUBSET [path : STRING, lines : (Int \X Int) \cup {<<>>},
                               anchors : SUBSET STRING]]

ASSUME GateAssumption ==
    /\ \A S \in Stacks \cup {Stack} : IsFiniteSet(S) /\ S # {}
    /\ ShadowTier \in BOOLEAN
    /\ IsFiniteSet(AllFindings) /\ Reports \subseteq SUBSET AllFindings
    /\ \A f \in AllFindings : f.severity \in 0 .. 3 /\ f.confidence \in 0 .. 2
                              /\ IsFiniteSet(f.words)

VARIABLES
    asked,     \* who asks which providers, in which mode, about which files
    answers,   \* what each provider returned
    verdict    \* what the gate made of it

gateVars == <<asked, answers, verdict>>

Modes == {"unanimous", "majority", "any"}
NoVerdict == [at |-> "asking", agreed |-> {}, disagreed |-> {}, tier |-> {}]

GateInit ==
    /\ asked \in [caller : {"reviewPR"}, stack : {Stack}, mode : Modes, docsOnly : BOOLEAN]
            \cup [caller : {"stacked"}, stack : Stacks, mode : Modes, docsOnly : {FALSE}]
    /\ answers = [p \in asked.stack |-> [at |-> "pending", found |-> {}]]
    /\ verdict = NoVerdict

-----------------------------------------------------------------------------
(* findingsAgree.                                                          *)

Distance(a, b) == IF a >= b THEN a - b ELSE b - a

\* lineRangesOverlap
LinesMeet(a, b, slack) ==
    /\ a # <<>> /\ b # <<>>
    /\ a[1] <= b[2] + slack /\ b[1] <= a[2] + slack

\* entryOverlapStrength; LINE_OVERLAP_SLACK is 5.
PathOnly(e) == e.lines = <<>> /\ e.anchors = {}
Strong(a, b) == LinesMeet(a.lines, b.lines, 0) \/ a.anchors \cap b.anchors # {}
Weak(a, b) == LinesMeet(a.lines, b.lines, 5) \/ PathOnly(a) \/ PathOnly(b)

\* findingsSimilar: SIMILARITY_MIN_SHARED words, half of the shorter finding's.
Similar(a, b) ==
    LET shared == Cardinality(a.words \cap b.words) IN
    /\ shared >= 2
    /\ 2 * shared >= Cardinality(a.words) \/ 2 * shared >= Cardinality(b.words)

EvidenceOverlaps(a, b) ==
    \E x \in a.evidence, y \in b.evidence :
        /\ x.path = y.path
        /\ Strong(x, y) \/ (Weak(x, y) /\ Similar(a, b))

FindingsAgree(a, b) ==
    /\ a.category = b.category
    /\ Distance(a.severity, b.severity) <= 1
    /\ EvidenceOverlaps(a, b)

-----------------------------------------------------------------------------
(* mergeFindings.  A tagged finding is a pair of provider and finding.     *)

Joined(t, u) == t[1] # u[1] /\ FindingsAgree(t[2], u[2])

\* The union-find's class of t: what every set closed under Joined that has
\* t in it contains.
Closed(C, T) == \A x \in C, y \in T : Joined(x, y) => y \in C
Cluster(t, T) ==
    LET holding == {C \in SUBSET T : t \in C /\ Closed(C, T)} IN {u \in T : \A C \in holding : u \in C}
Clusters(T) == {Cluster(t, T) : t \in T}

\* thresholdFor
Threshold(mode, total) ==
    CASE mode = "unanimous" -> total
      [] mode = "majority" -> total \div 2 + 1
      [] OTHER -> 1

\* directSupportProviders: those that agree with t itself.
ThroughOthers(t, C) == {u[1] : u \in C}
Support(t, C) == {t[1]} \cup {u[1] : u \in {v \in C : Joined(t, v)}}

Qualifying(C, threshold) == {t \in C : Cardinality(Support(t, C)) >= threshold}

\* pickRepresentative: the most severe, then the most confident.  Among equals
\* the code takes the first; an entry here is all of them.
Before(f, g) == f.severity < g.severity \/ (f.severity = g.severity /\ f.confidence <= g.confidence)
Best(C) == {t \in C : \A u \in C : Before(t[2], u[2])}

Agreed(clusters, threshold) ==
    {Best(Qualifying(C, threshold)) : C \in {D \in clusters : Qualifying(D, threshold) # {}}}

Disagreed(clusters, threshold) ==
    {[providers |-> {t[1] : t \in C}, entry |-> Best(C)] :
        C \in {D \in clusters : Qualifying(D, threshold) = {}}}

-----------------------------------------------------------------------------
(* reviewPR and stackedProvider.                                           *)

Pending(p) == answers[p].at = "pending"
Returned == {p \in asked.stack : answers[p].at = "returned"}
Tagged == {t \in Returned \X AllFindings : t[2] \in answers[t[1]].found}

\* requiredVotersFor, for the stack as it was asked.
Survivors(mode, size) == 1
RequiredVoters(mode, size) == Threshold(mode, size)

Degraded ==
    Cardinality(Returned) < IF asked.caller = "reviewPR"
                            THEN RequiredVoters(asked.mode, Cardinality(asked.stack)) ELSE 1

\* selectSingleModelTier
SingleModelTier(disagreed) ==
    {d \in disagreed : Cardinality(d.providers) = 1 /\ \A t \in d.entry : t[2].severity <= 1}

\* triagePR votes to skip, and triageMaySkip allows it for documentation only.
TriageSkips ==
    /\ verdict.at = "asking" /\ asked.mode = "unanimous" /\ asked.docsOnly
    /\ \A p \in asked.stack : Pending(p)
    /\ verdict' = [verdict EXCEPT !.at = "skipped"]
    /\ UNCHANGED <<asked, answers>>

ProviderReturns(p, findings) ==
    /\ verdict.at = "asking" /\ p \in asked.stack /\ Pending(p)
    /\ answers' = [answers EXCEPT ![p] = [at |-> "returned", found |-> findings]]
    /\ UNCHANGED <<asked, verdict>>

ProviderFails(p) ==
    /\ verdict.at = "asking" /\ p \in asked.stack /\ Pending(p)
    /\ answers' = [answers EXCEPT ![p].at = "failed"]
    /\ UNCHANGED <<asked, verdict>>

\* All have settled.
Merge ==
    LET threshold == Threshold(asked.mode, Cardinality(Returned))
        clusters == Clusters(Tagged)
        disagreed == Disagreed(clusters, threshold) IN
    /\ verdict.at = "asking" /\ \A p \in asked.stack : ~ Pending(p)
    /\ verdict' = IF Degraded THEN [verdict EXCEPT !.at = "degraded"]
                  ELSE [at |-> "merged", agreed |-> Agreed(clusters, threshold),
                        disagreed |-> disagreed,
                        tier |-> IF ShadowTier THEN SingleModelTier(disagreed) ELSE {}]
    /\ UNCHANGED <<asked, answers>>

GateNext ==
    \/ TriageSkips
    \/ \E p \in Stack \cup UNION Stacks :
           ProviderFails(p) \/ \E F \in Reports : ProviderReturns(p, F)
    \/ Merge

GateSpec == GateInit /\ [][GateNext]_gateVars

-----------------------------------------------------------------------------
(* Properties.                                                             *)

GateTypeOK ==
    /\ asked.stack \in Stacks \cup {Stack} /\ asked.mode \in Modes /\ asked.caller \in {"reviewPR", "stacked"}
    /\ answers \in [asked.stack -> [at : {"pending", "failed", "returned"}, found : Reports \cup {{}}]]
    /\ verdict.at \in {"asking", "skipped", "degraded", "merged"}
    /\ verdict.agreed \subseteq SUBSET Tagged
    /\ verdict.tier \subseteq verdict.disagreed
    /\ \A d \in verdict.disagreed : d.providers \subseteq Returned /\ d.entry \subseteq Tagged

\* In unanimous mode a finding is agreed only if every provider that counts
\* reported one that agrees with this very finding, not merely with another of
\* its cluster.  For a review of a pull request all providers count, so one
\* that lost a provider agrees on nothing; the command line counts those that
\* answered (directSupportProviders, requiredVotersFor).
AgreementIsReal ==
    asked.mode = "unanimous" =>
        \A entry \in verdict.agreed : \A t \in entry :
            \A p \in IF asked.caller = "reviewPR" THEN asked.stack ELSE Returned :
                p = t[1] \/ \E g \in answers[p].found : FindingsAgree(t[2], g)

\* What the single-model tier holds is nobody else's finding in any guise
\* (selectSingleModelTier).
TierIsAlone ==
    \A d \in verdict.tier : \A t \in d.entry, u \in Tagged : ~ Joined(t, u)

\* Every cluster, so every reported finding, has one entry in the outcome.
NothingIsLost ==
    verdict.at = "merged" =>
        LET entries == verdict.agreed \cup {d.entry : d \in verdict.disagreed} IN
        \A C \in Clusters(Tagged) : Cardinality({e \in entries : e \cap C # {}}) = 1

\* The gate never calls agreement what is not, never presents as one model's
\* find what another model saw, and reports everything once (mergeFindings,
\* reviewPR).
GateIsHonest == AgreementIsReal /\ TierIsAlone /\ NothingIsLost
=============================================================================
