------------------------ MODULE CommandLine_proofs ------------------------
(***************************************************************************)
(* Proofs about what the command line shares with nobody while it runs.    *)
(*                                                                         *)
(* The agreement gate, for any stacks, findings and answers.  Agreement of *)
(* two findings is symmetric, so a set of findings closed under it has a   *)
(* closed complement, and the clusters partition what was reported.  Every *)
(* nonempty set of findings has a best one.  On these rest the three parts *)
(* of GateIsHonest, each for the one step that writes a verdict.           *)
(*                                                                         *)
(* The state directory, for any features, findings, commands, jobs, edits  *)
(* and kills.  What is written is what was read, so the invariant says     *)
(* that as long as commands do not overlap the running command's copies    *)
(* are what is on disk: a job's feature is as it was locked, what a clean  *)
(* or a map is about to write keeps lock and status, a decision is made on *)
(* the finding as it stands.  A fixed feature has an unresolved finding no *)
(* fix was tried on only while the command that will refresh it runs, or   *)
(* after a command was killed.                                             *)
(***************************************************************************)
EXTENDS AgreementGate, FleetState, FiniteSetTheorems, TLAPS

-----------------------------------------------------------------------------
(* Clusters.                                                               *)

LEMMA OverlapIsSymmetric ==
  ASSUME NEW a, NEW b PROVE EvidenceOverlaps(a, b) => EvidenceOverlaps(b, a)
  <1>1. \A x, y : Strong(x, y) => Strong(y, x)
    BY DEF Strong, LinesMeet
  <1>2. \A x, y : Weak(x, y) => Weak(y, x)
    BY DEF Weak, LinesMeet
  <1>3. Similar(a, b) => Similar(b, a)
    <2>1. a.words \cap b.words = b.words \cap a.words
      OBVIOUS
    <2> QED BY <2>1 DEF Similar
  <1> QED BY <1>1, <1>2, <1>3 DEF EvidenceOverlaps

\* findingsAgree does not depend on whose finding comes first.
LEMMA AgreementIsSymmetric ==
  ASSUME NEW a \in AllFindings, NEW b \in AllFindings, FindingsAgree(a, b)
  PROVE  FindingsAgree(b, a)
  <1>1. a.severity \in 0 .. 3 /\ b.severity \in 0 .. 3
    BY GateAssumption
  <1>2. Distance(b.severity, a.severity) = Distance(a.severity, b.severity)
    BY <1>1 DEF Distance
  <1> QED BY <1>2, OverlapIsSymmetric DEF FindingsAgree

\* What providers reported: pairs of a provider and a finding.
Reported(T) == \A t \in T : t[2] \in AllFindings

LEMMA JoinedIsSymmetric ==
  ASSUME NEW T, Reported(T), NEW t \in T, NEW u \in T, Joined(t, u) PROVE Joined(u, t)
  BY AgreementIsSymmetric DEF Joined, Reported

\* What agrees with a member of a cluster is a member.
LEMMA ClusterIsClosed ==
  ASSUME NEW T, NEW t \in T, NEW x \in Cluster(t, T), NEW y \in T, Joined(x, y)
  PROVE  y \in Cluster(t, T)
  BY DEF Cluster, Closed

LEMMA ClusterHasItsSource ==
  ASSUME NEW T, NEW t \in T PROVE t \in Cluster(t, T) /\ Cluster(t, T) \subseteq T
  BY DEF Cluster

LEMMA ClusterIsSymmetric ==
  ASSUME NEW T, Reported(T), NEW t \in T, NEW u \in Cluster(t, T)
  PROVE  t \in Cluster(u, T)
  <1> SUFFICES ASSUME NEW D \in SUBSET T, u \in D, Closed(D, T), t \notin D
               PROVE  FALSE
    BY DEF Cluster
  <1>1. Closed(T \ D, T)
    <2> SUFFICES ASSUME NEW x \in T \ D, NEW y \in T, Joined(x, y), y \in D
                 PROVE  FALSE
      BY DEF Closed
    <2>1. Joined(y, x)
      BY JoinedIsSymmetric
    <2> QED BY <2>1 DEF Closed
  <1>2. T \ D \in SUBSET T /\ t \in T \ D
    OBVIOUS
  <1>3. u \in T \ D
    BY <1>1, <1>2 DEF Cluster
  <1> QED BY <1>3

\* Two clusters with a common member are one (the union-find's classes).
LEMMA ClustersAreApart ==
  ASSUME NEW T, Reported(T), NEW C \in Clusters(T), NEW D \in Clusters(T), NEW x \in C \cap D
  PROVE  C = D
  <1>1. PICK s \in T : C = Cluster(s, T)
    BY DEF Clusters
  <1>2. PICK t \in T : D = Cluster(t, T)
    BY DEF Clusters
  <1>3. \A p, q, r \in T : q \in Cluster(p, T) /\ r \in Cluster(q, T) => r \in Cluster(p, T)
    BY DEF Cluster
  <1>4. x \in T /\ s \in Cluster(x, T) /\ t \in Cluster(x, T)
    BY <1>1, <1>2, ClusterIsSymmetric, ClusterHasItsSource
  <1>5. C \subseteq D /\ D \subseteq C
    BY <1>1, <1>2, <1>3, <1>4, ClusterHasItsSource
  <1> QED BY <1>5

LEMMA ClusterIsPartOfReports ==
  ASSUME NEW T, NEW C \in Clusters(T) PROVE C \subseteq T /\ C # {}
  BY ClusterHasItsSource DEF Clusters

-----------------------------------------------------------------------------
(* Representatives.                                                        *)

\* Every nonempty set of findings has a most severe, most confident one.
LEMMA BestExists ==
  ASSUME NEW C, C # {}, Reported(C) PROVE Best(C) # {} /\ Best(C) \subseteq C
  <1> DEFINE Sev(t) == t[2].severity
             Conf(t) == t[2].confidence
  <1>1. \A t \in C : Sev(t) \in 0 .. 3 /\ Conf(t) \in 0 .. 2
    BY GateAssumption DEF Reported
  <1>2. \E s \in 0 .. 3 : (\E t \in C : Sev(t) = s) /\ \A u \in C : s <= Sev(u)
    <2>1. CASE \E t \in C : Sev(t) = 0
      BY <1>1, <2>1
    <2>2. CASE ~ (\E t \in C : Sev(t) = 0) /\ \E t \in C : Sev(t) = 1
      BY <1>1, <2>2
    <2>3. CASE ~ (\E t \in C : Sev(t) \in 0 .. 1) /\ \E t \in C : Sev(t) = 2
      BY <1>1, <2>3
    <2>4. CASE ~ (\E t \in C : Sev(t) \in 0 .. 2)
      <3>1. \A t \in C : Sev(t) = 3
        BY <1>1, <2>4
      <3> HIDE DEF Sev
      <3> QED BY <3>1
    <2> QED BY <2>1, <2>2, <2>3, <2>4
  <1>3. PICK s \in 0 .. 3 : (\E t \in C : Sev(t) = s) /\ \A u \in C : s <= Sev(u)
    BY <1>2
  <1> DEFINE Top == {t \in C : Sev(t) = s}
  <1>4. \E c \in 0 .. 2 : (\E t \in Top : Conf(t) = c) /\ \A u \in Top : c <= Conf(u)
    <2>1. CASE \E t \in Top : Conf(t) = 0
      BY <1>1, <2>1
    <2>2. CASE ~ (\E t \in Top : Conf(t) = 0) /\ \E t \in Top : Conf(t) = 1
      BY <1>1, <2>2
    <2>3. CASE ~ (\E t \in Top : Conf(t) \in 0 .. 1)
      <3>1. \A t \in Top : Conf(t) = 2
        BY <1>1, <2>3
      <3> QED BY <1>3, <3>1
    <2> QED BY <2>1, <2>2, <2>3
  <1>5. PICK b \in Top : \A u \in Top : Conf(b) <= Conf(u)
    BY <1>4
  <1>6. \A u \in C : Before(b[2], u[2])
    <2> SUFFICES ASSUME NEW u \in C PROVE Before(b[2], u[2])
      OBVIOUS
    <2>1. CASE Sev(u) = s
      BY <1>1, <1>5, <2>1 DEF Before
    <2>2. CASE Sev(u) # s
      BY <1>1, <1>3, <2>2 DEF Before
    <2> QED BY <2>1, <2>2
  <1> QED BY <1>6 DEF Best

-----------------------------------------------------------------------------
(* Verdicts.                                                               *)

\* Who was asked, and what an answer may be.
AskedOK ==
    /\ asked.stack \in Stacks \cup {Stack} /\ asked.mode \in Modes
    /\ asked.caller \in {"reviewPR", "stacked"}
AnswersOK ==
    answers \in [asked.stack -> [at : {"pending", "failed", "returned"}, found : Reports \cup {{}}]]

\* Before the merge there is nothing to be wrong about.
UnmergedIsEmpty ==
    /\ verdict.at \in {"asking", "skipped", "degraded", "merged"}
    /\ verdict.at # "merged" => verdict.agreed = {} /\ verdict.disagreed = {} /\ verdict.tier = {}

GateInv == AskedOK /\ AnswersOK /\ UnmergedIsEmpty /\ GateTypeOK /\ GateIsHonest

LEMMA ReportsAreFindings ==
  ASSUME AskedOK, AnswersOK
  PROVE  Reported(Tagged) /\ IsFiniteSet(asked.stack) /\ IsFiniteSet(Returned)
  <1>1. Reported(Tagged)
    BY DEF Reported, Tagged
  <1>2. IsFiniteSet(asked.stack) /\ Returned \subseteq asked.stack
    BY GateAssumption DEF AskedOK, Returned
  <1> QED BY <1>1, <1>2, FS_Subset

\* As many supporters as there are votes: everybody is one of them.
LEMMA FullSupport ==
  ASSUME AskedOK, AnswersOK, NEW C \in SUBSET Tagged, NEW t \in C,
         Cardinality(Support(t, C)) >= Cardinality(Returned)
  PROVE  Support(t, C) = Returned
  <1>1. Support(t, C) \subseteq Returned
    BY DEF Support, Tagged
  <1>2. IsFiniteSet(Returned)
    BY ReportsAreFindings
  <1>3. /\ Cardinality(Support(t, C)) <= Cardinality(Returned)
        /\ IsFiniteSet(Support(t, C))
    BY <1>1, <1>2, FS_Subset
  <1>4. Cardinality(Support(t, C)) \in Nat /\ Cardinality(Returned) \in Nat
    BY <1>2, <1>3, FS_CardinalityType
  <1>5. Cardinality(Returned) = Cardinality(Support(t, C))
    BY <1>3, <1>4
  <1> QED BY <1>1, <1>2, <1>5, FS_Subset

\* A supporter reported a finding that agrees with the very one it supports.
LEMMA SupportersAgree ==
  ASSUME AskedOK, AnswersOK, NEW C \in SUBSET Tagged, NEW t \in C, NEW p \in Support(t, C)
  PROVE  p = t[1] \/ \E g \in answers[p].found : FindingsAgree(t[2], g)
  <1>1. CASE p = t[1]
    BY <1>1
  <1>2. CASE p # t[1]
    <2>1. PICK u \in C : p = u[1] /\ Joined(t, u)
      BY <1>2 DEF Support
    <2>2. u[2] \in answers[u[1]].found
      BY DEF Tagged
    <2> QED BY <2>1, <2>2 DEF Joined
  <1> QED BY <1>1, <1>2

\* A pull request's review that is not degraded has heard every provider.
LEMMA AllProvidersCount ==
  ASSUME AskedOK, AnswersOK, ~ Degraded, asked.mode = "unanimous"
  PROVE  asked.caller = "reviewPR" => Returned = asked.stack
  <1> SUFFICES ASSUME asked.caller = "reviewPR" PROVE Returned = asked.stack
    OBVIOUS
  <1>1. IsFiniteSet(asked.stack) /\ IsFiniteSet(Returned) /\ Returned \subseteq asked.stack
    BY ReportsAreFindings DEF Returned
  <1>2. /\ Cardinality(asked.stack) \in Nat /\ Cardinality(Returned) \in Nat
        /\ Cardinality(Returned) <= Cardinality(asked.stack)
    BY <1>1, FS_CardinalityType, FS_Subset
  <1>3. ~ Cardinality(Returned) < Cardinality(asked.stack)
    BY DEF Degraded, RequiredVoters, Threshold
  <1>4. Cardinality(Returned) = Cardinality(asked.stack)
    BY <1>2, <1>3
  <1> QED BY <1>1, <1>4, FS_Subset

LEMMA AgreedIsReal ==
  ASSUME AskedOK, AnswersOK, ~ Degraded, asked.mode = "unanimous",
         NEW entry \in Agreed(Clusters(Tagged), Threshold(asked.mode, Cardinality(Returned))),
         NEW t \in entry,
         NEW p \in IF asked.caller = "reviewPR" THEN asked.stack ELSE Returned
  PROVE  p = t[1] \/ \E g \in answers[p].found : FindingsAgree(t[2], g)
  <1> DEFINE n == Threshold(asked.mode, Cardinality(Returned))
  <1>1. n = Cardinality(Returned)
    BY DEF Threshold
  <1>2. PICK C \in Clusters(Tagged) : entry = Best(Qualifying(C, n))
    BY DEF Agreed
  <1>3. C \in SUBSET Tagged
    BY ClusterIsPartOfReports
  <1>4. t \in C /\ Cardinality(Support(t, C)) >= Cardinality(Returned)
    BY <1>1, <1>2 DEF Best, Qualifying
  <1>5. Support(t, C) = Returned
    BY <1>3, <1>4, FullSupport
  <1>6. p \in Support(t, C)
    BY <1>5, AllProvidersCount
  <1> QED BY <1>3, <1>4, <1>6, SupportersAgree

\* A cluster of one provider agrees with nothing outside it.
LEMMA TierAgreesWithNobody ==
  ASSUME AskedOK, AnswersOK, NEW n,
         NEW d \in SingleModelTier(Disagreed(Clusters(Tagged), n)), NEW t \in d.entry, NEW u \in Tagged
  PROVE  ~ Joined(t, u)
  <1> SUFFICES ASSUME Joined(t, u) PROVE FALSE
    OBVIOUS
  <1>1. PICK C \in Clusters(Tagged) : d = [providers |-> {x[1] : x \in C}, entry |-> Best(C)]
    BY DEF SingleModelTier, Disagreed
  <1>2. PICK s \in Tagged : C = Cluster(s, Tagged)
    BY DEF Clusters
  <1>3. t \in C /\ u \in C
    BY <1>1, <1>2, ClusterIsClosed DEF Best
  <1>4. d.providers \subseteq Returned
    BY <1>1, ClusterIsPartOfReports DEF Tagged
  <1>5. IsFiniteSet(d.providers) /\ Cardinality(d.providers) = 1
    BY <1>4, ReportsAreFindings, FS_Subset DEF SingleModelTier
  <1>6. PICK p : d.providers = {p}
    BY <1>5, FS_Singleton
  <1>7. t[1] = u[1]
    BY <1>1, <1>3, <1>6
  <1> QED BY <1>7 DEF Joined

\* The entry a cluster has in the outcome.
EntryOf(C, n) == IF Qualifying(C, n) # {} THEN Best(Qualifying(C, n)) ELSE Best(C)

LEMMA EntryComesFromItsCluster ==
  ASSUME NEW C \in Clusters(Tagged), NEW n, Reported(Tagged)
  PROVE  EntryOf(C, n) \subseteq C /\ EntryOf(C, n) # {}
  <1>1. C \subseteq Tagged /\ C # {} /\ Reported(C)
    BY ClusterIsPartOfReports DEF Reported
  <1>2. Qualifying(C, n) \subseteq C /\ Reported(Qualifying(C, n))
    BY <1>1 DEF Qualifying, Reported
  <1> QED BY <1>1, <1>2, BestExists DEF EntryOf

\* One entry per cluster, and none that mixes clusters.
LEMMA EveryClusterHasOneEntry ==
  ASSUME AskedOK, AnswersOK, NEW n, NEW C \in Clusters(Tagged)
  PROVE  LET entries == Agreed(Clusters(Tagged), n)
                            \cup {d.entry : d \in Disagreed(Clusters(Tagged), n)}
         IN  Cardinality({e \in entries : e \cap C # {}}) = 1
  <1> DEFINE entries == Agreed(Clusters(Tagged), n)
                            \cup {d.entry : d \in Disagreed(Clusters(Tagged), n)}
  <1>1. Reported(Tagged)
    BY ReportsAreFindings
  <1>2. entries = {EntryOf(D, n) : D \in Clusters(Tagged)}
    <2>1. ASSUME NEW e \in Agreed(Clusters(Tagged), n)
          PROVE  \E D \in Clusters(Tagged) : e = EntryOf(D, n)
      BY DEF Agreed, EntryOf
    <2>2. ASSUME NEW d \in Disagreed(Clusters(Tagged), n)
          PROVE  \E D \in Clusters(Tagged) : d.entry = EntryOf(D, n)
      BY DEF Disagreed, EntryOf
    <2>3. ASSUME NEW D \in Clusters(Tagged) PROVE EntryOf(D, n) \in entries
      <3>1. CASE Qualifying(D, n) # {}
        BY <3>1 DEF Agreed, EntryOf
      <3>2. CASE Qualifying(D, n) = {}
        <4> DEFINE d == [providers |-> {t[1] : t \in D}, entry |-> Best(D)]
        <4>1. d \in Disagreed(Clusters(Tagged), n)
          BY <3>2 DEF Disagreed
        <4>2. d.entry = EntryOf(D, n)
          BY <3>2 DEF EntryOf
        <4> QED BY <4>1, <4>2
      <3> QED BY <3>1, <3>2
    <2> HIDE DEF entries
    <2>4. \A e \in entries : \E D \in Clusters(Tagged) : e = EntryOf(D, n)
      BY <2>1, <2>2 DEF entries
    <2> QED BY <2>3, <2>4
  <1>3. {e \in entries : e \cap C # {}} = {EntryOf(C, n)}
    <2>1. EntryOf(C, n) \cap C # {}
      BY <1>1, EntryComesFromItsCluster
    <2>2. ASSUME NEW D \in Clusters(Tagged), EntryOf(D, n) \cap C # {} PROVE D = C
      <3>1. PICK x : x \in C \cap D
        BY <1>1, <2>2, EntryComesFromItsCluster
      <3> QED BY <1>1, <3>1, ClustersAreApart
    <2> HIDE DEF entries
    <2> QED BY <1>2, <2>1, <2>2
  <1> HIDE DEF entries
  <1>4. Cardinality({e \in entries : e \cap C # {}}) = 1
    BY <1>3, FS_Singleton
  <1> QED BY <1>4 DEF entries

-----------------------------------------------------------------------------
(* The invariant.                                                          *)

LEMMA GateStarts == GateInit => GateInv
  <1> SUFFICES ASSUME GateInit PROVE GateInv
    OBVIOUS
  <1>1. AskedOK
    BY DEF GateInit, AskedOK
  <1>2. AnswersOK /\ UnmergedIsEmpty
    BY DEF GateInit, AnswersOK, UnmergedIsEmpty, NoVerdict
  <1>3. GateTypeOK
    BY <1>1, <1>2 DEF GateTypeOK, AskedOK, AnswersOK, UnmergedIsEmpty, GateInit, NoVerdict
  <1>4. GateIsHonest
    BY DEF GateInit, NoVerdict, GateIsHonest, AgreementIsReal, TierIsAlone, NothingIsLost
  <1> QED BY <1>1, <1>2, <1>3, <1>4 DEF GateInv

\* Nothing has been merged: the verdict is empty and says nothing false.
LEMMA AskingGoesOn ==
  ASSUME GateInv, UNCHANGED asked, AnswersOK', UnmergedIsEmpty', verdict'.at # "merged"
  PROVE  GateInv'
  <1>1. AskedOK'
    BY DEF GateInv, AskedOK
  <1>2. verdict'.agreed = {} /\ verdict'.disagreed = {} /\ verdict'.tier = {}
    BY DEF UnmergedIsEmpty
  <1>3. GateTypeOK'
    BY <1>1, <1>2 DEF GateTypeOK, AskedOK, AnswersOK, UnmergedIsEmpty
  <1>4. GateIsHonest'
    BY <1>2 DEF GateIsHonest, AgreementIsReal, TierIsAlone, NothingIsLost
  <1> QED BY <1>1, <1>3, <1>4 DEF GateInv

LEMMA MergeKeepsGate == ASSUME GateInv, Merge PROVE GateInv'
  <1> DEFINE n == Threshold(asked.mode, Cardinality(Returned))
             clusters == Clusters(Tagged)
             disagreed == Disagreed(clusters, n)
  <1> USE DEF GateInv
  <1>1. /\ UNCHANGED <<asked, answers>> /\ AskedOK' /\ AnswersOK'
        /\ Returned' = Returned /\ Tagged' = Tagged
    BY DEF Merge, AskedOK, AnswersOK, Returned, Tagged
  <1>2. CASE Degraded
    <2>1. verdict' = [verdict EXCEPT !.at = "degraded"] /\ verdict.at = "asking"
      BY <1>2 DEF Merge
    <2>2. UnmergedIsEmpty' /\ verdict'.at # "merged"
      BY <2>1 DEF UnmergedIsEmpty
    <2> QED BY <1>1, <2>2, AskingGoesOn
  <1>3. CASE ~ Degraded
    <2> DEFINE tier == IF ShadowTier THEN SingleModelTier(disagreed) ELSE {}
    <2>1. verdict' = [at |-> "merged", agreed |-> Agreed(clusters, n), disagreed |-> disagreed,
                      tier |-> tier]
      BY <1>3 DEF Merge
    <2> HIDE DEF n, clusters, disagreed
    <2>2. /\ verdict'.at = "merged" /\ verdict'.agreed = Agreed(clusters, n)
          /\ verdict'.disagreed = disagreed
          /\ verdict'.tier = tier
      BY <2>1
    <2>3. UnmergedIsEmpty'
      BY <2>2 DEF UnmergedIsEmpty
    <2>4. GateTypeOK'
      <3>1. verdict'.agreed \subseteq SUBSET Tagged
        BY <2>2, ClusterIsPartOfReports DEF Agreed, Best, Qualifying, clusters
      <3>2. verdict'.tier \subseteq verdict'.disagreed
        BY <2>2 DEF SingleModelTier
      <3>3. \A d \in verdict'.disagreed : d.providers \subseteq Returned /\ d.entry \subseteq Tagged
        <4>1. ASSUME NEW d \in disagreed
              PROVE  \E C \in clusters : d = [providers |-> {x[1] : x \in C}, entry |-> Best(C)]
          BY DEF Disagreed, disagreed
        <4>2. \A C \in clusters : Best(C) \subseteq Tagged /\ {x[1] : x \in C} \subseteq Returned
          BY ClusterIsPartOfReports DEF Best, clusters, Tagged
        <4> QED BY <2>2, <4>1, <4>2
      <3> QED BY <1>1, <2>2, <3>1, <3>2, <3>3 DEF GateTypeOK, AskedOK, AnswersOK
    <2>5. AgreementIsReal'
      BY <1>1, <1>3, <2>2, AgreedIsReal DEF AgreementIsReal, n, clusters
    <2>6. TierIsAlone'
      BY <1>1, <2>2, TierAgreesWithNobody DEF TierIsAlone, disagreed, clusters, Joined
    <2>7. NothingIsLost'
      BY <1>1, <2>2, EveryClusterHasOneEntry DEF NothingIsLost, disagreed, clusters
    <2> QED BY <1>1, <2>3, <2>4, <2>5, <2>6, <2>7 DEF GateIsHonest
  <1> QED BY <1>2, <1>3

LEMMA GateKeeps == ASSUME GateInv, [GateNext]_gateVars PROVE GateInv'
  <1> USE DEF GateInv
  <1>1. CASE TriageSkips
    <2>1. AnswersOK' /\ UnmergedIsEmpty' /\ UNCHANGED asked /\ verdict'.at # "merged"
      BY <1>1 DEF TriageSkips, AnswersOK, UnmergedIsEmpty
    <2> QED BY <2>1, AskingGoesOn
  <1>2. ASSUME NEW p, NEW F \in Reports, ProviderReturns(p, F) PROVE GateInv'
    <2>1. AnswersOK' /\ UnmergedIsEmpty' /\ UNCHANGED asked /\ verdict'.at # "merged"
      BY <1>2 DEF ProviderReturns, AnswersOK, UnmergedIsEmpty
    <2> QED BY <2>1, AskingGoesOn
  <1>3. ASSUME NEW p, ProviderFails(p) PROVE GateInv'
    <2>1. AnswersOK' /\ UnmergedIsEmpty' /\ UNCHANGED asked /\ verdict'.at # "merged"
      BY <1>3 DEF ProviderFails, AnswersOK, UnmergedIsEmpty
    <2> QED BY <2>1, AskingGoesOn
  <1>4. CASE Merge
    BY <1>4, MergeKeepsGate
  <1>5. CASE UNCHANGED gateVars
    BY <1>5 DEF gateVars, AskedOK, AnswersOK, UnmergedIsEmpty, GateTypeOK, GateIsHonest,
                AgreementIsReal, TierIsAlone, NothingIsLost, Tagged, Returned
  <1> QED BY <1>1, <1>2, <1>3, <1>4, <1>5 DEF GateNext

\* Whatever the providers return or fail to return, the outcome of a review
\* has its type (mergeFindings, reviewPR).
THEOREM GateTypeCorrect == GateSpec => []GateTypeOK
  <1>1. GateInv => GateTypeOK
    BY DEF GateInv
  <1> QED BY GateStarts, GateKeeps, <1>1, PTL DEF GateSpec

\* For any stack of providers and any findings: what is called agreed is
\* agreed by every provider that counts, the single-model tier holds what one
\* provider alone has seen, and each cluster is reported once.
THEOREM GateStaysHonest == GateSpec => []GateIsHonest
  <1>1. GateInv => GateIsHonest
    BY DEF GateInv
  <1> QED BY GateStarts, GateKeeps, <1>1, PTL DEF GateSpec

-----------------------------------------------------------------------------
(* The command line's records and what a process carries of them.          *)

FeatureStatuses ==
    {"absent", "pending", "claimed", "reviewed", "needs-fix", "fixed", "revalidated", "skipped", "error"}
FeatureRows ==
    [status : FeatureStatuses, lock : Commands \cup {"none"}, lists : SUBSET FleetFindings,
     seed : Seeds \cup {"gone"}]
FindingRows ==
    [status : Decisions \cup {"absent"}, history : SUBSET Commands, patches : SUBSET Commands]

CommandPlaces ==
    {"new", "jobs", "decide", "refresh", "refreshed", "plan", "fixing", "link", "writes", "done", "dead"}
CommandStates ==
    [does : {"nothing", "review", "triage", "revalidate", "fix", "map", "clean-locks"},
     at : CommandPlaces, todo : (SUBSET FleetFeatures) \cup (SUBSET FleetFindings),
     seen : [FleetFeatures -> FeatureRows] \cup {<<>>},
     saw : [FleetFindings -> FindingRows] \cup {<<>>},
     on : FleetFeatures \cup FleetFindings \cup {"none"},
     says : FeatureStatuses \cup {"none", "threw", "failed", "passed"}]
JobStates ==
    [at : {"free", "provider", "read", "write", "finish", "fail"}, f : FleetFeatures \cup {"none"},
     x : FleetFindings \cup {"none"}, found : SUBSET FleetFindings, left : SUBSET FleetFindings,
     was : FindingRows]

\* What a command carries at its place.
CommandCarries(c) ==
    /\ c.at \in {"jobs", "writes"} => c.todo \in SUBSET FleetFeatures /\ c.seen \in [FleetFeatures -> FeatureRows]
    /\ c.at \in {"decide", "refresh", "refreshed"} =>
           c.todo \in SUBSET FleetFindings /\ c.saw \in [FleetFindings -> FindingRows]
    /\ c.at \in {"refresh", "refreshed"} => c.on \in FleetFeatures
    /\ c.at = "refreshed" => c.seen \in [FleetFeatures -> FeatureRows] /\ c.says \in FeatureStatuses
    /\ c.at \in {"plan", "fixing", "link"} =>
           c.on \in FleetFindings /\ c.saw \in [FleetFindings -> FindingRows]
    /\ c.at = "link" => c.says \in {"threw", "failed", "passed"}
Busy(m, j) == job[m][j].at # "free"
\* What a job of a command carries.
JobCarries(b, c) ==
    /\ b.at # "free" =>
           /\ c.at = "jobs" /\ b.f \in FleetFeatures
           /\ b.found \subseteq OfFeature(b.f) /\ b.left \subseteq b.found
    /\ b.at = "free" => b.f = "none"
    /\ b.at = "write" => b.x \in b.left

FleetTyped ==
    /\ seeds \in [FleetFeatures -> Seeds \cup {"gone"}]
    /\ featureFile \in [FleetFeatures -> FeatureRows]
    /\ findingFile \in [FleetFindings -> FindingRows]
    /\ patchFile \in [Commands -> {"absent", "planned", "failed", "applied"}]
    /\ command \in [Commands -> CommandStates]
    /\ job \in [Commands -> [Jobs -> JobStates]]
    /\ decided \in [FleetFindings -> SUBSET Commands]
    /\ tried \subseteq FleetFindings /\ unreleased \subseteq Commands \X FleetFeatures
    /\ overlapped \in BOOLEAN /\ edits \in 0 .. MaxEdits /\ fleetFaults \in 0 .. MaxFleetFaults
    /\ \A m \in Commands : CommandCarries(command[m]) /\ \A j \in Jobs : JobCarries(job[m][j], command[m])

\* The running command's copies are what is on disk.
CopyFits(r, f) ==
    /\ r.status = "claimed" => r.lock # "none"
    /\ r.lock # "none" => r.lock = featureFile[f].lock
    /\ r.status = "fixed" => featureFile[f].status = "fixed"
CommandFits(m) ==
    /\ At(m, "jobs") => \A f \in command[m].todo : command[m].seen[f] = featureFile[f]
    /\ At(m, "writes") => \A f \in command[m].todo : CopyFits(command[m].seen[f], f)
    /\ At(m, "refreshed") =>
           /\ command[m].seen = featureFile
           /\ command[m].says = "fixed" => Unresolved(command[m].on) = {}
           /\ command[m].says = "claimed" => featureFile[command[m].on].status = "claimed"
    /\ At(m, "decide") \/ At(m, "refresh") \/ At(m, "refreshed") =>
           \A x \in command[m].todo : command[m].saw[x] = findingFile[x] /\ Known(x)
    /\ At(m, "plan") \/ At(m, "fixing") \/ At(m, "link") =>
           command[m].saw = findingFile /\ Known(command[m].on)
    /\ patchFile[m] = "applied" => \/ At(m, "link") \/ At(m, "dead")
                                   \/ At(m, "done") /\ \E x \in FleetFindings : m \in findingFile[x].patches
FleetJobFits(m, j) ==
    LET f == job[m][j].f IN
    /\ Busy(m, j) =>
           /\ \/ featureFile[f] = Locked(m, f)
              \/ job[m][j].at = "fail" /\ featureFile[f] = command[m].seen[f]
           /\ Unclaimed(m, f)
           /\ f \notin command[m].todo
           /\ \A k \in Jobs \ {j} : Busy(m, k) => job[m][k].f # f
    /\ job[m][j].at = "write" => job[m][j].was = findingFile[job[m][j].x]
LockFits(f) ==
    /\ featureFile[f].status = "claimed" => featureFile[f].lock # "none"
    /\ featureFile[f].lock # "none" =>
           LET o == featureFile[f].lock IN
           \/ command[o].at = "dead"
           \/ \E j \in Jobs : Busy(o, j) /\ job[o][j].f = f
           \/ <<o, f>> \in unreleased
DecisionFits(x) ==
    /\ findingFile[x].history = decided[x]
    /\ ~ Known(x) => findingFile[x] = NoFindingFile
FixedFits(f) ==
    featureFile[f].status = "fixed" =>
        \/ Unresolved(f) \subseteq tried
        \/ \E m \in Commands : command[m].at \in {"refresh", "refreshed"} /\ command[m].on = f
Dead == \E m \in Commands : command[m].at = "dead"

FleetFits ==
    /\ \A m, o \in Commands : Running(m) /\ Running(o) => m = o
    /\ \A m \in Commands : CommandFits(m) /\ \A j \in Jobs : FleetJobFits(m, j)
    /\ \A f \in FleetFeatures : LockFits(f)
    /\ \A x \in FleetFindings : DecisionFits(x)
    /\ Dead \/ \A f \in FleetFeatures : FixedFits(f)
FleetInv == FleetTyped /\ (overlapped \/ FleetFits)


-----------------------------------------------------------------------------
(* Types.                                                                  *)

LEMMA FleetStarts == FleetInit => FleetTyped
  <1> SUFFICES ASSUME FleetInit PROVE FleetTyped
    OBVIOUS
  <1>1. /\ NoFile \in FeatureRows /\ NoFindingFile \in FindingRows
        /\ Unstarted \in CommandStates /\ FreeJob \in JobStates
    BY DEF NoFile, NoFindingFile, Unstarted, FreeJob, FeatureRows, FindingRows, CommandStates, JobStates,
       FeatureStatuses, CommandPlaces, Decisions
  <1>2. featureFile \in [FleetFeatures -> FeatureRows]
    <2>1. ASSUME NEW f \in FleetFeatures
          PROVE  [NoFile EXCEPT !.status = "pending", !.seed = seeds[f]] \in FeatureRows
      BY <2>1 DEF FleetInit, NoFile, FeatureRows, FeatureStatuses
    <2> QED BY <1>1, <2>1 DEF FleetInit
  <1>3. CommandCarries(Unstarted) /\ JobCarries(FreeJob, Unstarted)
    BY DEF CommandCarries, JobCarries, Unstarted, FreeJob
  <1>4. /\ seeds \in [FleetFeatures -> Seeds \cup {"gone"}]
        /\ findingFile \in [FleetFindings -> FindingRows]
        /\ patchFile \in [Commands -> {"absent", "planned", "failed", "applied"}]
        /\ command \in [Commands -> CommandStates]
        /\ job \in [Commands -> [Jobs -> JobStates]]
        /\ decided \in [FleetFindings -> SUBSET Commands]
        /\ tried \subseteq FleetFindings /\ unreleased \subseteq Commands \X FleetFeatures
    BY <1>1 DEF FleetInit
  <1>5. \A m \in Commands : CommandCarries(command[m]) /\ \A j \in Jobs : JobCarries(job[m][j], command[m])
    BY <1>3 DEF FleetInit
  <1>6. overlapped \in BOOLEAN
    BY DEF FleetInit
  <1>7. edits \in 0 .. MaxEdits /\ fleetFaults \in 0 .. MaxFleetFaults
    <2>1. MaxEdits \in Nat /\ MaxFleetFaults \in Nat
      BY FleetAssumption DEF FleetAssumption
    <2>2. edits = 0 /\ fleetFaults = 0
      BY DEF FleetInit
    <2> QED BY <2>1, <2>2
  <1> QED BY <1>2, <1>4, <1>5, <1>6, <1>7 DEF FleetTyped

\* A command moves on and its jobs are not at work, or are still heard.
LEMMA CommandKeepsTypes ==
  ASSUME FleetTyped, NEW m \in Commands, NEW c \in CommandStates, CommandCarries(c),
         command' = [command EXCEPT ![m] = c], job' = job,
         command[m].at = "jobs" => c.at = "jobs" \/ \A j \in Jobs : ~ Busy(m, j)
  PROVE  /\ command' \in [Commands -> CommandStates] /\ job' \in [Commands -> [Jobs -> JobStates]]
         /\ \A o \in Commands : /\ CommandCarries(command'[o])
                                /\ \A j \in Jobs : JobCarries(job'[o][j], command'[o])
  <1>1. command' \in [Commands -> CommandStates] /\ job' \in [Commands -> [Jobs -> JobStates]]
    BY DEF FleetTyped
  <1>2. ASSUME NEW o \in Commands
        PROVE  CommandCarries(command'[o]) /\ \A j \in Jobs : JobCarries(job'[o][j], command'[o])
    <2>1. CASE o # m
      BY <2>1 DEF FleetTyped
    <2>2. CASE o = m
      <3>1. command'[o] = c
        BY <2>2 DEF FleetTyped
      <3>2. ASSUME NEW j \in Jobs PROVE JobCarries(job[m][j], c)
        <4>1. JobCarries(job[m][j], command[m])
          BY DEF FleetTyped
        <4> QED BY <4>1 DEF JobCarries, Busy
      <3> QED BY <2>2, <3>1, <3>2
    <2> QED BY <2>1, <2>2
  <1> QED BY <1>1, <1>2

LEMMA JobKeepsTypes ==
  ASSUME FleetTyped, NEW m \in Commands, NEW j \in Jobs, NEW b \in JobStates,
         JobCarries(b, command[m]), command' = command, job' = [job EXCEPT ![m][j] = b]
  PROVE  /\ command' \in [Commands -> CommandStates] /\ job' \in [Commands -> [Jobs -> JobStates]]
         /\ \A o \in Commands : /\ CommandCarries(command'[o])
                                /\ \A k \in Jobs : JobCarries(job'[o][k], command'[o])
  BY DEF FleetTyped

\* The rest of the types.
FilesTyped ==
    /\ seeds \in [FleetFeatures -> Seeds \cup {"gone"}]
    /\ featureFile \in [FleetFeatures -> FeatureRows]
    /\ findingFile \in [FleetFindings -> FindingRows]
    /\ patchFile \in [Commands -> {"absent", "planned", "failed", "applied"}]
    /\ decided \in [FleetFindings -> SUBSET Commands]
    /\ tried \subseteq FleetFindings /\ unreleased \subseteq Commands \X FleetFeatures
    /\ overlapped \in BOOLEAN /\ edits \in 0 .. MaxEdits /\ fleetFaults \in 0 .. MaxFleetFaults

ActorsTyped ==
    /\ command \in [Commands -> CommandStates] /\ job \in [Commands -> [Jobs -> JobStates]]
    /\ \A m \in Commands : /\ CommandCarries(command[m])
                           /\ \A j \in Jobs : JobCarries(job[m][j], command[m])

LEMMA TypesSplit == FleetTyped <=> FilesTyped /\ ActorsTyped
  BY DEF FleetTyped, FilesTyped, ActorsTyped


\* What a map writes is a row.
LEMMA MappedIsRow ==
  ASSUME NEW r \in FeatureRows, NEW s \in Seeds \cup {"gone"} PROVE Mapped(r, s) \in FeatureRows
  <1>1. CASE s = "gone" /\ r.status = "absent"
    BY <1>1 DEF Mapped, NoFile, FeatureRows, FeatureStatuses
  <1>2. CASE s = "gone" /\ r.status # "absent"
    BY <1>2 DEF Mapped, FeatureRows, FeatureStatuses
  <1>3. CASE s # "gone" /\ r.status = "absent"
    BY <1>3 DEF Mapped, NoFile, FeatureRows, FeatureStatuses
  <1>4. CASE s # "gone" /\ r.status # "absent"
    <2> DEFINE q == IF \/ r.status = "skipped"
                       \/ r.seed # s /\ r.status \in {"reviewed", "revalidated", "fixed"}
                    THEN "pending" ELSE r.status
    <2>1. Mapped(r, s) = [r EXCEPT !.seed = s, !.status = q]
      BY <1>4 DEF Mapped
    <2>2. q \in FeatureStatuses
      BY DEF FeatureRows, FeatureStatuses
    <2> HIDE DEF q
    <2> QED BY <2>1, <2>2 DEF FeatureRows
  <1> QED BY <1>1, <1>2, <1>3, <1>4

\* A command that starts.
LEMMA StartKeepsTypes ==
  ASSUME FleetTyped, NEW m \in Commands, NEW c \in CommandStates, CommandCarries(c), Starts(m, c),
         UNCHANGED <<seeds, featureFile, findingFile, patchFile, job, outcomes, edits, fleetFaults>>
  PROVE  FleetTyped'
  <1> USE DEF outcomes
  <1>1. command[m].at # "jobs"
    BY DEF Starts
  <1>2. ActorsTyped'
    BY <1>1, CommandKeepsTypes DEF Starts, ActorsTyped
  <1>3. FilesTyped'
    BY TypesSplit DEF FilesTyped, Starts
  <1> QED BY <1>2, <1>3, TypesSplit DEF FleetTyped, FilesTyped, ActorsTyped

LEMMA CommandStartsTyped ==
  ASSUME FleetTyped, NEW m \in Commands, CommandStarts(m) PROVE FleetTyped'
  <1>1. CASE StartReview(m)
    <2>1. PICK S \in SUBSET FleetFeatures :
              Starts(m, [Unstarted EXCEPT !.does = "review", !.at = "jobs", !.todo = S,
                                          !.seen = featureFile])
      BY <1>1 DEF StartReview
    <2> DEFINE c == [Unstarted EXCEPT !.does = "review", !.at = "jobs", !.todo = S, !.seen = featureFile]
    <2>2. c \in CommandStates /\ CommandCarries(c)
      BY DEF FleetTyped, CommandStates, CommandCarries, Unstarted, CommandPlaces
    <2> QED BY <1>1, <2>1, <2>2, StartKeepsTypes DEF StartReview
  <1>2. CASE StartRevalidate(m)
    <2>1. PICK X \in SUBSET {x \in FleetFindings : Known(x)} :
              Starts(m, [Unstarted EXCEPT !.does = "revalidate", !.at = "decide", !.todo = X,
                                          !.saw = findingFile])
      BY <1>2 DEF StartRevalidate
    <2> DEFINE c == [Unstarted EXCEPT !.does = "revalidate", !.at = "decide", !.todo = X, !.saw = findingFile]
    <2>2. c \in CommandStates /\ CommandCarries(c)
      BY DEF FleetTyped, CommandStates, CommandCarries, Unstarted, CommandPlaces
    <2> QED BY <1>2, <2>1, <2>2, StartKeepsTypes DEF StartRevalidate
  <1>3. ASSUME NEW x \in FleetFindings, StartTriage(m, x) PROVE FleetTyped'
    <2> DEFINE c == [Unstarted EXCEPT !.does = "triage", !.at = "decide", !.todo = {x}, !.saw = findingFile]
    <2>1. c \in CommandStates /\ CommandCarries(c)
      BY DEF FleetTyped, CommandStates, CommandCarries, Unstarted, CommandPlaces
    <2> QED BY <1>3, <2>1, StartKeepsTypes DEF StartTriage
  <1>4. ASSUME NEW x \in FleetFindings, StartFix(m, x) PROVE FleetTyped'
    <2> DEFINE c == [Unstarted EXCEPT !.does = "fix", !.at = "plan", !.on = x, !.saw = findingFile]
    <2>1. c \in CommandStates /\ CommandCarries(c)
      BY DEF FleetTyped, CommandStates, CommandCarries, Unstarted, CommandPlaces
    <2> QED BY <1>4, <2>1, StartKeepsTypes DEF StartFix
  <1>5. CASE StartMap(m)
    <2> DEFINE S == {f \in FleetFeatures : seeds[f] # "gone" \/ featureFile[f].status # "absent"}
               F == [f \in FleetFeatures |-> Mapped(featureFile[f], seeds[f])]
               c == [Unstarted EXCEPT !.does = "map", !.at = "writes", !.todo = S, !.seen = F]
    <2>1. ASSUME NEW f \in FleetFeatures PROVE Mapped(featureFile[f], seeds[f]) \in FeatureRows
      BY <2>1, MappedIsRow DEF FleetTyped
    <2>2. F \in [FleetFeatures -> FeatureRows] /\ S \in SUBSET FleetFeatures
      BY <2>1
    <2> HIDE DEF S, F
    <2>3. c \in CommandStates /\ CommandCarries(c)
      BY <2>2 DEF CommandStates, CommandCarries, Unstarted, CommandPlaces
    <2> QED BY <1>5, <2>3, StartKeepsTypes DEF StartMap, S, F
  <1>6. CASE StartCleanLocks(m)
    <2> DEFINE S == {f \in FleetFeatures : featureFile[f].lock # "none"}
               F == [f \in FleetFeatures |-> Unlocked(featureFile[f])]
               c == [Unstarted EXCEPT !.does = "clean-locks", !.at = "writes", !.todo = S, !.seen = F]
    <2>1. ASSUME NEW f \in FleetFeatures PROVE Unlocked(featureFile[f]) \in FeatureRows
      <3>1. ASSUME NEW r \in FeatureRows PROVE Unlocked(r) \in FeatureRows
        BY <3>1 DEF Unlocked, FeatureRows, FeatureStatuses
      <3> QED BY <3>1 DEF FleetTyped
    <2>2. F \in [FleetFeatures -> FeatureRows] /\ S \in SUBSET FleetFeatures
      BY <2>1
    <2> HIDE DEF S, F
    <2>3. c \in CommandStates /\ CommandCarries(c)
      BY <2>2 DEF CommandStates, CommandCarries, Unstarted, CommandPlaces
    <2> QED BY <1>6, <2>3, StartKeepsTypes DEF StartCleanLocks, S, F
  <1> QED BY <1>1, <1>2, <1>3, <1>4, <1>5, <1>6 DEF CommandStarts


\* A command at work on its list.
LEMMA CommandWorksTyped ==
  ASSUME FleetTyped, NEW m \in Commands, CommandWorks(m) PROVE FleetTyped'
  <1> USE DEF outcomes
  <1> DEFINE ended == [Unstarted EXCEPT !.at = "done"]
  <1>1. ended \in CommandStates /\ CommandCarries(ended)
    BY DEF CommandStates, CommandCarries, Unstarted, CommandPlaces
  <1> HIDE DEF ended
  <1>2. command[m] \in CommandStates /\ CommandCarries(command[m])
    BY DEF FleetTyped
  <1>3. CASE EndReview(m)
    <2>1. ActorsTyped'
      BY <1>1, <1>3, CommandKeepsTypes DEF EndReview, Ends, ActorsTyped, Busy, ended
    <2> QED BY <1>3, <2>1, TypesSplit DEF EndReview, FleetTyped, FilesTyped, ActorsTyped
  <1>4. CASE DecideStatus(m)
    <2>1. PICK x \in command[m].todo,
               s \in IF command[m].does = "triage" THEN Decisions ELSE Outcomes :
              /\ findingFile' = [findingFile EXCEPT
                     ![x] = [command[m].saw[x] EXCEPT !.status = s, !.history = @ \cup {m}]]
              /\ decided' = [decided EXCEPT ![x] = @ \cup {m}]
              /\ command' = [command EXCEPT ![m].at = "refresh", ![m].on = FeatureOf[x],
                                            ![m].todo = @ \ {x}]
      BY <1>4 DEF DecideStatus
    <2> DEFINE c == [command[m] EXCEPT !.at = "refresh", !.on = FeatureOf[x], !.todo = @ \ {x}]
    <2>2. /\ command[m].at = "decide" /\ x \in FleetFindings /\ s \in Decisions
          /\ command[m].saw[x] \in FindingRows /\ FeatureOf[x] \in FleetFeatures
          /\ command[m].todo \in SUBSET FleetFindings
      BY <1>2, <1>4, FleetAssumption DEF FleetAssumption, DecideStatus, At, CommandCarries, Outcomes
    <2>3. c \in CommandStates /\ CommandCarries(c)
      BY <1>2, <2>2 DEF CommandStates, CommandCarries, CommandPlaces
    <2>4. command' = [command EXCEPT ![m] = c]
      BY <2>1 DEF FleetTyped
    <2> HIDE DEF c
    <2>5. ActorsTyped'
      BY <1>4, <2>2, <2>3, <2>4, CommandKeepsTypes DEF DecideStatus, ActorsTyped
    <2>6. [command[m].saw[x] EXCEPT !.status = s, !.history = @ \cup {m}] \in FindingRows
      BY <2>2 DEF FindingRows
    <2>7. FilesTyped'
      BY <1>4, <2>1, <2>2, <2>6, TypesSplit DEF DecideStatus, FilesTyped
    <2> QED BY <2>5, <2>7, TypesSplit DEF FleetTyped, FilesTyped, ActorsTyped
  <1>5. CASE RevalidateThrows(m)
    <2>1. ActorsTyped'
      BY <1>1, <1>5, CommandKeepsTypes DEF RevalidateThrows, At, Ends, ActorsTyped, ended
    <2> QED BY <1>5, <2>1, TypesSplit DEF RevalidateThrows, FleetTyped, FilesTyped, ActorsTyped
  <1>6. CASE ReadForRefresh(m)
    <2>1. /\ command[m].at = "refresh" /\ command[m].on \in FleetFeatures
          /\ featureFile \in [FleetFeatures -> FeatureRows]
      BY <1>2, <1>6 DEF ReadForRefresh, At, CommandCarries, FleetTyped
    <2> DEFINE c == [command[m] EXCEPT !.at = "refreshed", !.says = RefreshedStatus(command[m].on),
                                       !.seen = featureFile]
               d == [command[m] EXCEPT !.at = "decide"]
    <2>2. RefreshedStatus(command[m].on) \in FeatureStatuses
      BY <2>1 DEF RefreshedStatus, FeatureRows, FeatureStatuses
    <2>3. c \in CommandStates /\ CommandCarries(c)
      BY <1>2, <2>1, <2>2 DEF CommandStates, CommandCarries, CommandPlaces
    <2>4. d \in CommandStates /\ CommandCarries(d)
      BY <1>2, <2>1 DEF CommandStates, CommandCarries, CommandPlaces
    <2>5. \/ command' = [command EXCEPT ![m] = c] \/ command' = [command EXCEPT ![m] = d]
          \/ command' = [command EXCEPT ![m] = ended]
      BY <1>6 DEF ReadForRefresh, NextDecision, Ends, CommandAt, FleetTyped, ended
    <2> HIDE DEF c, d
    <2>6. ActorsTyped'
      BY <1>1, <1>6, <2>1, <2>3, <2>4, <2>5, CommandKeepsTypes DEF ReadForRefresh, ActorsTyped
    <2> QED BY <1>6, <2>6, TypesSplit DEF ReadForRefresh, FleetTyped, FilesTyped, ActorsTyped
  <1>7. CASE WriteRefreshed(m)
    <2>1. /\ command[m].at = "refreshed" /\ command[m].on \in FleetFeatures
          /\ command[m].seen \in [FleetFeatures -> FeatureRows] /\ command[m].says \in FeatureStatuses
      BY <1>2, <1>7 DEF WriteRefreshed, At, CommandCarries
    <2> DEFINE d == [command[m] EXCEPT !.at = "decide", !.seen = <<>>, !.says = "none", !.on = "none"]
    <2>2. d \in CommandStates /\ CommandCarries(d)
      BY <1>2, <2>1 DEF CommandStates, CommandCarries, CommandPlaces
    <2>3. command' = [command EXCEPT ![m] = d] \/ command' = [command EXCEPT ![m] = ended]
      BY <1>7 DEF WriteRefreshed, Ends, FleetTyped, ended
    <2> HIDE DEF d
    <2>4. ActorsTyped'
      BY <1>1, <1>7, <2>1, <2>2, <2>3, CommandKeepsTypes DEF WriteRefreshed, ActorsTyped
    <2>5. [command[m].seen[command[m].on] EXCEPT !.status = command[m].says] \in FeatureRows
      BY <2>1 DEF FeatureRows
    <2>6. FilesTyped'
      BY <1>7, <2>1, <2>5, TypesSplit DEF WriteRefreshed, FilesTyped
    <2> QED BY <2>4, <2>6, TypesSplit DEF FleetTyped, FilesTyped, ActorsTyped
  <1>8. CASE WritePlan(m)
    <2> DEFINE d == [command[m] EXCEPT !.at = "fixing"]
    <2>1. command[m].at = "plan"
      BY <1>8 DEF WritePlan, At
    <2>2. d \in CommandStates /\ CommandCarries(d)
      BY <1>2, <2>1 DEF CommandStates, CommandCarries, CommandPlaces
    <2>3. command' = [command EXCEPT ![m] = d]
      BY <1>8 DEF WritePlan, CommandAt, FleetTyped
    <2> HIDE DEF d
    <2>4. ActorsTyped'
      BY <1>8, <2>1, <2>2, <2>3, CommandKeepsTypes DEF WritePlan, ActorsTyped
    <2>5. FilesTyped'
      BY <1>8, TypesSplit DEF WritePlan, FilesTyped
    <2> QED BY <2>4, <2>5, TypesSplit DEF FleetTyped, FilesTyped, ActorsTyped
  <1>9. CASE HearFix(m)
    <2>1. command[m].at = "fixing"
      BY <1>9 DEF HearFix, At
    <2>2. ActorsTyped'
      <3>1. CASE Ends(m)
        BY <1>1, <1>9, <2>1, <3>1, CommandKeepsTypes DEF HearFix, Ends, ActorsTyped, ended
      <3>2. ASSUME NEW said \in {"threw", "failed", "passed"},
                   command' = [command EXCEPT ![m].at = "link", ![m].says = said]
            PROVE  ActorsTyped'
        <4> DEFINE d == [command[m] EXCEPT !.at = "link", !.says = said]
        <4>1. d \in CommandStates /\ CommandCarries(d)
          BY <1>2, <2>1, <3>2 DEF CommandStates, CommandCarries, CommandPlaces
        <4>2. command' = [command EXCEPT ![m] = d]
          BY <3>2 DEF FleetTyped
        <4> HIDE DEF d
        <4> QED BY <1>9, <2>1, <4>1, <4>2, CommandKeepsTypes DEF HearFix, ActorsTyped
      <3> QED BY <1>9, <3>1, <3>2 DEF HearFix
    <2>3. FilesTyped'
      BY <1>9, TypesSplit DEF HearFix, FilesTyped
    <2> QED BY <2>2, <2>3, TypesSplit DEF FleetTyped, FilesTyped, ActorsTyped
  <1>10. CASE LinkPatch(m)
    <2>1. /\ command[m].at = "link" /\ command[m].on \in FleetFindings
          /\ command[m].saw[command[m].on] \in FindingRows
      BY <1>2, <1>10 DEF LinkPatch, At, CommandCarries
    <2>2. ActorsTyped'
      BY <1>1, <1>10, <2>1, CommandKeepsTypes DEF LinkPatch, Ends, ActorsTyped, ended
    <2> DEFINE linked == [command[m].saw[command[m].on] EXCEPT !.patches = @ \cup {m}]
    <2>3. /\ linked \in FindingRows /\ [linked EXCEPT !.status = "open"] \in FindingRows
          /\ [linked EXCEPT !.status = "uncertain"] \in FindingRows
      BY <2>1 DEF FindingRows, Decisions
    <2>4. \E r \in FindingRows : findingFile' = [findingFile EXCEPT ![command[m].on] = r]
      BY <1>10, <2>3 DEF LinkPatch
    <2>5. FilesTyped'
      BY <1>10, <2>1, <2>4, TypesSplit DEF LinkPatch, FilesTyped
    <2> QED BY <2>2, <2>5, TypesSplit DEF FleetTyped, FilesTyped, ActorsTyped
  <1>11. CASE WriteNext(m)
    <2>1. /\ command[m].at = "writes" /\ command[m].todo \in SUBSET FleetFeatures
          /\ command[m].seen \in [FleetFeatures -> FeatureRows]
      BY <1>2, <1>11 DEF WriteNext, At, CommandCarries
    <2>2. CASE Ends(m) /\ UNCHANGED featureFile
      <3>1. ActorsTyped'
        BY <1>1, <1>11, <2>1, <2>2, CommandKeepsTypes DEF WriteNext, Ends, ActorsTyped, ended
      <3> QED BY <1>11, <2>2, <3>1, TypesSplit DEF WriteNext, FleetTyped, FilesTyped, ActorsTyped
    <2>3. ASSUME NEW f \in command[m].todo,
                 featureFile' = [featureFile EXCEPT ![f] = command[m].seen[f]],
                 command' = [command EXCEPT ![m].todo = @ \ {f}]
          PROVE  FleetTyped'
      <3> DEFINE d == [command[m] EXCEPT !.todo = @ \ {f}]
      <3>1. d \in CommandStates /\ CommandCarries(d)
        BY <1>2, <2>1 DEF CommandStates, CommandCarries, CommandPlaces
      <3>2. command' = [command EXCEPT ![m] = d]
        BY <2>3 DEF FleetTyped
      <3> HIDE DEF d
      <3>3. ActorsTyped'
        BY <1>11, <2>1, <3>1, <3>2, CommandKeepsTypes DEF WriteNext, ActorsTyped
      <3>4. FilesTyped'
        BY <1>11, <2>1, <2>3, TypesSplit DEF WriteNext, FilesTyped
      <3> QED BY <3>3, <3>4, TypesSplit DEF FleetTyped, FilesTyped, ActorsTyped
    <2> QED BY <1>11, <2>2, <2>3 DEF WriteNext
  <1> QED BY <1>3, <1>4, <1>5, <1>6, <1>7, <1>8, <1>9, <1>10, <1>11 DEF CommandWorks


\* A job at its feature.
LEMMA JobWorksTyped ==
  ASSUME FleetTyped, NEW m \in Commands, NEW j \in Jobs, JobWorks(m, j) PROVE FleetTyped'
  <1> USE DEF outcomes
  <1>1. /\ command[m] \in CommandStates /\ CommandCarries(command[m])
        /\ job[m][j] \in JobStates /\ JobCarries(job[m][j], command[m])
    BY DEF FleetTyped
  <1>2. FreeJob \in JobStates /\ \A c : JobCarries(FreeJob, c)
    BY DEF FreeJob, JobStates, JobCarries, FindingRows, NoFindingFile
  <1>3. ASSUME command[m].at = "jobs", NEW f \in FleetFeatures
        PROVE  /\ Locked(m, f) \in FeatureRows /\ Released(m, f) \in FeatureRows
               /\ \A l \in SUBSET FleetFindings, s \in FeatureStatuses :
                      [Locked(m, f) EXCEPT !.lock = "none", !.lists = l, !.status = s] \in FeatureRows
    <2>1. command[m].seen[f] \in FeatureRows
      BY <1>1, <1>3 DEF CommandCarries
    <2> QED BY <2>1 DEF Locked, Released, FeatureRows, FeatureStatuses
  <1>4. CASE TakeFeature(m, j)
    <2>1. command[m].at = "jobs" /\ ~ Busy(m, j)
      BY <1>4 DEF TakeFeature, At, Busy
    <2>2. PICK f \in command[m].todo, at \in {"provider", "fail"} :
              /\ command' = [command EXCEPT ![m].todo = @ \ {f}]
              /\ featureFile' \in {featureFile, [featureFile EXCEPT ![f] = Locked(m, f)]}
              /\ job' \in {job, [job EXCEPT ![m][j] = [FreeJob EXCEPT !.at = at, !.f = f]]}
              /\ fleetFaults' = fleetFaults \/ FleetFault
      BY <1>4 DEF TakeFeature
    <2> DEFINE d == [command[m] EXCEPT !.todo = @ \ {f}]
               b == [FreeJob EXCEPT !.at = at, !.f = f]
    <2>3. f \in FleetFeatures
      BY <1>1, <2>1 DEF CommandCarries
    <2>4. d \in CommandStates /\ CommandCarries(d) /\ d.at = "jobs"
      BY <1>1, <2>1, <2>3 DEF CommandStates, CommandCarries, CommandPlaces
    <2>5. command' = [command EXCEPT ![m] = d]
      BY <2>2 DEF FleetTyped
    <2>6. b \in JobStates /\ JobCarries(b, d)
      BY <1>2, <2>3, <2>4 DEF JobStates, JobCarries, FreeJob
    <2> HIDE DEF d, b
    <2>7. ActorsTyped'
      <3>1. ASSUME NEW k \in Jobs PROVE JobCarries(job[m][k], d)
        <4>1. JobCarries(job[m][k], command[m])
          BY DEF FleetTyped
        <4> QED BY <2>1, <2>4, <4>1 DEF JobCarries
      <3>2. /\ command' \in [Commands -> CommandStates]
            /\ \A o \in Commands : command'[o] = IF o = m THEN d ELSE command[o]
        BY <2>4, <2>5 DEF FleetTyped
      <3>3. CASE UNCHANGED job
        BY <2>4, <3>1, <3>2, <3>3 DEF FleetTyped, ActorsTyped
      <3>4. CASE job' = [job EXCEPT ![m][j] = b]
        <4>1. /\ job' \in [Commands -> [Jobs -> JobStates]]
              /\ \A o \in Commands, k \in Jobs : job'[o][k] = IF o = m /\ k = j THEN b ELSE job[o][k]
          BY <2>6, <3>4 DEF FleetTyped
        <4>2. ASSUME NEW o \in Commands, NEW k \in Jobs PROVE JobCarries(job'[o][k], command'[o])
          <5>1. JobCarries(job[o][k], command[o])
            BY DEF FleetTyped
          <5> QED BY <2>6, <3>1, <3>2, <4>1, <5>1
        <4>3. ASSUME NEW o \in Commands PROVE CommandCarries(command'[o])
          <5>1. CommandCarries(command[o])
            BY DEF FleetTyped
          <5> QED BY <2>4, <3>2, <5>1
        <4> QED BY <3>2, <4>1, <4>2, <4>3 DEF ActorsTyped
      <3> QED BY <2>2, <3>3, <3>4 DEF b
    <2>8. FilesTyped'
      <3>1. fleetFaults' \in 0 .. MaxFleetFaults
        BY <2>2, FleetAssumption DEF FleetAssumption, FleetFault, FleetTyped
      <3>2. featureFile' \in [FleetFeatures -> FeatureRows]
        BY <1>3, <2>1, <2>2, <2>3 DEF FleetTyped
      <3> QED BY <1>4, <3>1, <3>2, TypesSplit DEF TakeFeature, FilesTyped
    <2> QED BY <2>7, <2>8, TypesSplit DEF FleetTyped, FilesTyped, ActorsTyped
  \* The rest touches no command.
  <1>5. ASSUME Busy(m, j), NEW b \in JobStates, JobCarries(b, command[m]),
               job' = [job EXCEPT ![m][j] = b], command' = command
        PROVE  ActorsTyped'
    BY <1>5, JobKeepsTypes DEF ActorsTyped
  <1>6. Busy(m, j) => /\ command[m].at = "jobs" /\ job[m][j].f \in FleetFeatures
                      /\ job[m][j].found \subseteq OfFeature(job[m][j].f)
                      /\ job[m][j].left \subseteq job[m][j].found
                      /\ job[m][j].found \in SUBSET FleetFindings
    BY <1>1 DEF Busy, JobCarries, JobStates
  <1>7. CASE HearReview(m, j)
    <2>1. Busy(m, j)
      BY <1>7 DEF HearReview, Busy
    <2>2. ActorsTyped'
      <3>1. ASSUME NEW R \in SUBSET OfFeature(job[m][j].f),
                   job' = [job EXCEPT ![m][j].at = IF R = {} THEN "finish" ELSE "read",
                                      ![m][j].found = R, ![m][j].left = R]
            PROVE  ActorsTyped'
        <4> DEFINE b == [job[m][j] EXCEPT !.at = IF R = {} THEN "finish" ELSE "read",
                                          !.found = R, !.left = R]
        <4>1. R \subseteq FleetFindings
          BY DEF OfFeature
        <4>2. b \in JobStates /\ JobCarries(b, command[m])
          BY <1>1, <1>6, <2>1, <4>1 DEF JobStates, JobCarries
        <4>3. job' = [job EXCEPT ![m][j] = b]
          BY <3>1 DEF FleetTyped
        <4> QED BY <1>5, <1>7, <2>1, <4>2, <4>3 DEF HearReview
      <3>2. CASE job' = [job EXCEPT ![m][j].at = "fail"]
        <4> DEFINE b == [job[m][j] EXCEPT !.at = "fail"]
        <4>1. b \in JobStates /\ JobCarries(b, command[m])
          BY <1>1, <1>6, <2>1 DEF JobStates, JobCarries
        <4>2. job' = [job EXCEPT ![m][j] = b]
          BY <3>2 DEF FleetTyped
        <4> QED BY <1>5, <1>7, <2>1, <4>1, <4>2 DEF HearReview
      <3> QED BY <1>7, <3>1, <3>2 DEF HearReview
    <2> QED BY <1>7, <2>2, TypesSplit DEF HearReview, FleetTyped, FilesTyped, ActorsTyped
  <1>8. CASE ReadExisting(m, j)
    <2>1. Busy(m, j)
      BY <1>8 DEF ReadExisting, Busy
    <2>2. PICK x \in job[m][j].left :
              job' = [job EXCEPT ![m][j].at = "write", ![m][j].x = x, ![m][j].was = findingFile[x]]
      BY <1>8 DEF ReadExisting
    <2> DEFINE b == [job[m][j] EXCEPT !.at = "write", !.x = x, !.was = findingFile[x]]
    <2>3. x \in FleetFindings /\ findingFile[x] \in FindingRows
      BY <1>6, <2>1 DEF FleetTyped
    <2>4. b \in JobStates /\ JobCarries(b, command[m])
      BY <1>1, <1>6, <2>1, <2>3 DEF JobStates, JobCarries
    <2>5. job' = [job EXCEPT ![m][j] = b]
      BY <2>2 DEF FleetTyped
    <2> HIDE DEF b
    <2>6. ActorsTyped'
      BY <1>5, <1>8, <2>1, <2>4, <2>5 DEF ReadExisting
    <2> QED BY <1>8, <2>6, TypesSplit DEF ReadExisting, FleetTyped, FilesTyped, ActorsTyped
  <1>9. CASE WriteFinding(m, j)
    <2>1. Busy(m, j) /\ job[m][j].at = "write"
      BY <1>9 DEF WriteFinding, Busy
    <2>2. ActorsTyped'
      <3> DEFINE x == job[m][j].x
                 b == [job[m][j] EXCEPT !.left = @ \ {x}, !.x = "none", !.was = NoFindingFile,
                                        !.at = IF job[m][j].left = {x} THEN "finish" ELSE "read"]
                 d == [job[m][j] EXCEPT !.at = "fail"]
      <3>1. NoFindingFile \in FindingRows
        BY DEF NoFindingFile, FindingRows
      <3>2. b \in JobStates /\ JobCarries(b, command[m])
        BY <1>1, <1>6, <2>1, <3>1 DEF JobStates, JobCarries
      <3>3. d \in JobStates /\ JobCarries(d, command[m])
        BY <1>1, <1>6, <2>1 DEF JobStates, JobCarries
      <3>4. job' = [job EXCEPT ![m][j] = b] \/ job' = [job EXCEPT ![m][j] = d]
        BY <1>9 DEF WriteFinding, FleetTyped
      <3> HIDE DEF b, d
      <3> QED BY <1>5, <1>9, <2>1, <3>2, <3>3, <3>4 DEF WriteFinding
    <2>3. Merged(job[m][j].was) \in FindingRows
      BY <1>1 DEF JobStates, Merged, FindingRows, NoFindingFile, Decisions
    <2>4. findingFile' \in [FleetFindings -> FindingRows]
      BY <1>9, <2>3 DEF WriteFinding, FleetTyped
    <2>5. fleetFaults' \in 0 .. MaxFleetFaults
      BY <1>9, FleetAssumption DEF FleetAssumption, WriteFinding, FleetFault, FleetTyped
    <2> QED BY <1>9, <2>2, <2>4, <2>5, TypesSplit
            DEF WriteFinding, FleetTyped, FilesTyped, ActorsTyped
  <1>10. CASE FinishFeature(m, j)
    <2>1. Busy(m, j) /\ job[m][j].at = "finish"
      BY <1>10 DEF FinishFeature, Busy
    <2>2. ActorsTyped'
      <3> DEFINE d == [job[m][j] EXCEPT !.at = "fail"]
      <3>1. d \in JobStates /\ JobCarries(d, command[m])
        BY <1>1, <1>6, <2>1 DEF JobStates, JobCarries
      <3>2. job' = [job EXCEPT ![m][j] = FreeJob] \/ job' = [job EXCEPT ![m][j] = d]
        BY <1>10 DEF FinishFeature, FleetTyped
      <3> HIDE DEF d
      <3> QED BY <1>2, <1>5, <1>10, <2>1, <3>1, <3>2 DEF FinishFeature
    <2>3. featureFile' \in [FleetFeatures -> FeatureRows]
      <3> DEFINE f == job[m][j].f
                 locked == Locked(m, f)
                 l == locked.lists \cup job[m][j].found
                 s == IF job[m][j].found # {} THEN "needs-fix" ELSE "reviewed"
      <3>1. /\ f \in FleetFeatures /\ command[m].at = "jobs"
            /\ l \in SUBSET FleetFindings /\ s \in FeatureStatuses
        <4>1. f \in FleetFeatures /\ command[m].at = "jobs" /\ job[m][j].found \in SUBSET FleetFindings
          BY <1>6, <2>1
        <4>2. locked \in FeatureRows
          BY <1>3, <4>1
        <4> HIDE DEF locked, f
        <4> QED BY <4>1, <4>2 DEF FeatureRows, FeatureStatuses
      <3>2. [locked EXCEPT !.lock = "none", !.lists = l, !.status = s] \in FeatureRows
        BY <1>3, <3>1
      <3>3. \/ featureFile' = [featureFile EXCEPT ![f] = [locked EXCEPT !.lock = "none", !.lists = l, !.status = s]]
            \/ featureFile' = featureFile
        BY <1>10 DEF FinishFeature
      <3> HIDE DEF locked, l, s
      <3> QED BY <3>1, <3>2, <3>3 DEF FleetTyped
    <2>4. fleetFaults' \in 0 .. MaxFleetFaults
      BY <1>10, FleetAssumption DEF FleetAssumption, FinishFeature, FleetFault, FleetTyped
    <2> QED BY <1>10, <2>2, <2>3, <2>4, TypesSplit
            DEF FinishFeature, FleetTyped, FilesTyped, ActorsTyped
  <1>11. CASE FailFeature(m, j)
    <2>1. Busy(m, j)
      BY <1>11 DEF FailFeature, Busy
    <2>2. ActorsTyped'
      BY <1>2, <1>5, <1>11, <2>1 DEF FailFeature
    <2>3. featureFile' \in [FleetFeatures -> FeatureRows]
      BY <1>3, <1>6, <1>11, <2>1 DEF FailFeature, FleetTyped
    <2>4. fleetFaults' \in 0 .. MaxFleetFaults
      BY <1>11, FleetAssumption DEF FleetAssumption, FailFeature, FleetFault, FleetTyped
    <2>5. unreleased' \subseteq Commands \X FleetFeatures
      BY <1>6, <1>11, <2>1 DEF FailFeature, FleetTyped
    <2> QED BY <1>11, <2>2, <2>3, <2>4, <2>5, TypesSplit DEF FailFeature, FleetTyped, FilesTyped, ActorsTyped
  <1> QED BY <1>4, <1>7, <1>8, <1>9, <1>10, <1>11 DEF JobWorks

LEMMA KillKeepsTypes ==
  ASSUME FleetTyped, NEW m \in Commands, KillCommand(m) PROVE FleetTyped'
  <1> USE DEF outcomes
  <1> DEFINE c == [Unstarted EXCEPT !.at = "dead"]
  <1>1. c \in CommandStates /\ CommandCarries(c)
    BY DEF CommandStates, CommandCarries, Unstarted, CommandPlaces
  <1>2. FreeJob \in JobStates /\ JobCarries(FreeJob, c)
    BY DEF FreeJob, JobStates, JobCarries, FindingRows, NoFindingFile
  <1>3. /\ command' = [command EXCEPT ![m] = c]
        /\ job' = [job EXCEPT ![m] = [j \in Jobs |-> FreeJob]]
    BY DEF KillCommand
  <1> HIDE DEF c
  <1>4. ActorsTyped'
    BY <1>1, <1>2, <1>3 DEF FleetTyped, ActorsTyped
  <1>5. fleetFaults' \in 0 .. MaxFleetFaults
    BY FleetAssumption DEF FleetAssumption, KillCommand, FleetFault, FleetTyped
  <1> QED BY <1>4, <1>5, TypesSplit DEF KillCommand, FleetTyped, FilesTyped, ActorsTyped

\* Whatever overlaps, files, commands and jobs keep their types.
LEMMA FleetKeepsTypes == FleetTyped /\ [FleetNext]_fleetVars => FleetTyped'
  <1> USE DEF outcomes
  <1> SUFFICES ASSUME FleetTyped, [FleetNext]_fleetVars PROVE FleetTyped'
    OBVIOUS
  <1>1. ASSUME NEW f \in FleetFeatures, Edit(f) PROVE FleetTyped'
    <2>1. edits' \in 0 .. MaxEdits
      BY <1>1, FleetAssumption DEF FleetAssumption, Edit, FleetTyped
    <2>2. seeds' \in [FleetFeatures -> Seeds \cup {"gone"}]
      BY <1>1 DEF Edit, FleetTyped
    <2> QED BY <1>1, <2>1, <2>2 DEF Edit, FleetTyped
  <1>2. CASE UNCHANGED fleetVars
    BY <1>2 DEF fleetVars, FleetTyped
  <1> QED BY <1>1, <1>2, CommandStartsTyped, CommandWorksTyped, JobWorksTyped, KillKeepsTypes DEF FleetNext


-----------------------------------------------------------------------------
(* One command at a time.                                                  *)

\* While one command runs, the others neither run nor have jobs.
LEMMA OthersRest ==
  ASSUME FleetTyped, FleetFits, NEW m \in Commands, Running(m)
  PROVE  \A o \in Commands \ {m} : ~ Running(o)
  BY DEF FleetFits

LEMMA RestingHasNoJobs ==
  ASSUME FleetTyped, NEW o \in Commands, ~ Running(o)
  PROVE  \A j \in Jobs : ~ Busy(o, j)
  BY DEF FleetTyped, JobCarries, Running, Busy

OnlyMoves(m) ==
    /\ \A o \in Commands \ {m} : /\ ~ Running(o) /\ command'[o] = command[o] /\ job'[o] = job[o]
                                 /\ patchFile'[o] = patchFile[o]
    /\ \A x \in FleetFindings : findingFile[x].patches \subseteq findingFile'[x].patches

\* What a step of one command leaves to show.
LEMMA OtherCommandsFit ==
  ASSUME FleetTyped, FleetFits, NEW m \in Commands, OnlyMoves(m)
  PROVE  /\ \A o, p \in Commands : Running(o)' /\ Running(p)' => o = p
         /\ \A o \in Commands \ {m} : CommandFits(o)' /\ \A j \in Jobs : FleetJobFits(o, j)'
  <1>1. ASSUME NEW o \in Commands \ {m} PROVE ~ Running(o)'
    BY <1>1 DEF OnlyMoves, Running
  <1>2. ASSUME NEW o \in Commands \ {m} PROVE CommandFits(o)'
    <2>1. command'[o].at \in {"new", "done", "dead"} /\ command'[o] = command[o]
      BY <1>1, <1>2 DEF OnlyMoves, Running
    <2>2. patchFile'[o] = "applied" =>
              \/ command[o].at = "dead"
              \/ command[o].at = "done" /\ \E x \in FleetFindings : o \in findingFile[x].patches
      BY <2>1 DEF OnlyMoves, FleetFits, CommandFits, At
    <2>3. patchFile'[o] = "applied" =>
              \/ command[o].at = "dead"
              \/ command[o].at = "done" /\ \E x \in FleetFindings : o \in findingFile'[x].patches
      BY <2>2 DEF OnlyMoves
    <2> QED BY <2>1, <2>3 DEF CommandFits, At
  <1>3. ASSUME NEW o \in Commands \ {m}, NEW j \in Jobs PROVE FleetJobFits(o, j)'
    <2>1. ~ Busy(o, j) /\ job'[o] = job[o]
      BY RestingHasNoJobs DEF OnlyMoves
    <2> QED BY <2>1 DEF FleetJobFits, Busy
  <1> QED BY <1>1, <1>2, <1>3

\* Only a command that refreshes excuses a fixed feature.
Resolved(f) ==
    featureFile[f].status = "fixed" => Unresolved(f) \subseteq tried

LEMMA FixedUnlessRefreshed ==
  ASSUME FleetFits, ~ Dead, NEW m \in Commands, \A o \in Commands \ {m} : ~ Running(o),
         NEW f \in FleetFeatures,
         command[m].at \in {"refresh", "refreshed"} => command[m].on # f
  PROVE  Resolved(f)
  BY DEF FleetFits, FixedFits, Running, Resolved

\* Locks stay where they are as long as their jobs do.
LEMMA LocksKept ==
  ASSUME FleetTyped, FleetFits, NEW m \in Commands, OnlyMoves(m), command[m].at # "dead",
         unreleased \subseteq unreleased', NEW f \in FleetFeatures,
         \A j \in Jobs : Busy(m, j) /\ job[m][j].f = f => job'[m][j].at # "free" /\ job'[m][j].f = f,
         featureFile'[f].lock # "none" => featureFile'[f].lock = featureFile[f].lock,
         featureFile'[f].status = "claimed" => featureFile'[f].lock # "none"
  PROVE  LockFits(f)'
  <1>1. LockFits(f) /\ (featureFile[f].lock # "none" => featureFile[f].lock \in Commands)
    BY DEF FleetFits, FleetTyped, FeatureRows
  <1> QED BY <1>1 DEF LockFits, Busy, OnlyMoves

\* A step that writes no feature and no finding.
LEMMA QuietStep ==
  ASSUME FleetTyped, FleetFits, NEW m \in Commands, OnlyMoves(m),
         UNCHANGED <<featureFile, findingFile, outcomes, job>>,
         command[m].at # "dead", \A j \in Jobs : ~ Busy(m, j), CommandFits(m)',
         Dead \/ \A f \in FleetFeatures : FixedFits(f)'
  PROVE  FleetFits'
  <1> USE DEF outcomes
  <1>1. \A j \in Jobs : FleetJobFits(m, j)'
    BY DEF FleetJobFits, Busy
  <1>2. ASSUME NEW o \in Commands, command[o].at = "dead" PROVE command'[o].at = "dead"
    BY <1>2 DEF OnlyMoves
  <1>3. ASSUME NEW f \in FleetFeatures PROVE LockFits(f)'
    <2>1. featureFile[f].status = "claimed" => featureFile[f].lock # "none"
      BY DEF FleetFits, LockFits
    <2> QED BY <2>1, LocksKept
  <1>4. \A x \in FleetFindings : DecisionFits(x)'
    BY DEF FleetFits, DecisionFits, Known
  <1>5. Dead => Dead'
    BY <1>2 DEF Dead
  <1> QED BY <1>1, <1>3, <1>4, <1>5, OtherCommandsFit DEF FleetFits

\* Nothing is excused before a step outside of a refresh, and a command that
\* is not about to write a feature leaves it so.
LEMMA QuietOutsideRefresh ==
  ASSUME FleetTyped, FleetFits, NEW m \in Commands, OnlyMoves(m),
         UNCHANGED <<featureFile, findingFile, outcomes, job>>,
         command[m].at \notin {"dead", "refresh", "refreshed"},
         \A j \in Jobs : ~ Busy(m, j), CommandFits(m)'
  PROVE  FleetFits'
  <1> USE DEF outcomes
  <1>1. ASSUME ~ Dead, NEW f \in FleetFeatures PROVE FixedFits(f)'
    <2>1. Resolved(f)
      BY <1>1, FixedUnlessRefreshed DEF OnlyMoves
    <2> QED BY <2>1 DEF Resolved, FixedFits, Unresolved
  <1> QED BY <1>1, QuietStep

\* A command that starts alone.
LEMMA StartKeepsFit ==
  ASSUME FleetTyped, FleetFits, NEW m \in Commands, NEW c, Starts(m, c), ~ overlapped',
         UNCHANGED <<seeds, featureFile, findingFile, patchFile, job, outcomes, edits, fleetFaults>>,
         CommandFits(m)'
  PROVE  FleetFits'
  <1>1. \A o \in Commands : ~ Running(o)
    BY DEF Starts
  <1>2. OnlyMoves(m) /\ command[m].at = "new"
    BY <1>1 DEF Starts, OnlyMoves, FleetTyped
  <1>3. \A j \in Jobs : ~ Busy(m, j)
    BY <1>1, RestingHasNoJobs
  <1> QED BY <1>2, <1>3, QuietOutsideRefresh


LEMMA CommandStartsFit ==
  ASSUME FleetTyped, FleetFits, NEW m \in Commands, CommandStarts(m), ~ overlapped' PROVE FleetFits'
  <1> DEFINE Silent == UNCHANGED <<seeds, featureFile, findingFile, patchFile, job, outcomes, edits,
                                   fleetFaults>>
  <1>1. ASSUME NEW c, Starts(m, c)
        PROVE  command'[m] = c /\ command[m].at = "new"
    BY <1>1 DEF Starts, FleetTyped
  <1>2. command[m].at = "new" => patchFile[m] # "applied"
    BY DEF FleetFits, CommandFits, At
  <1>3. CASE StartReview(m)
    <2>1. PICK S \in SUBSET FleetFeatures :
              Starts(m, [Unstarted EXCEPT !.does = "review", !.at = "jobs", !.todo = S,
                                          !.seen = featureFile])
      BY <1>3 DEF StartReview
    <2>2. command'[m].at = "jobs" /\ command'[m].seen = featureFile
      <3>1. command'[m] = [Unstarted EXCEPT !.does = "review", !.at = "jobs", !.todo = S, !.seen = featureFile]
        BY <1>1, <2>1
      <3> QED BY <3>1 DEF Unstarted
    <2>3. CommandFits(m)'
      BY <1>1, <1>2, <1>3, <2>1, <2>2 DEF StartReview, CommandFits, At
    <2> QED BY <1>3, <2>1, <2>3, StartKeepsFit DEF StartReview
  <1>4. CASE StartRevalidate(m)
    <2>1. PICK X \in SUBSET {x \in FleetFindings : Known(x)} :
              Starts(m, [Unstarted EXCEPT !.does = "revalidate", !.at = "decide", !.todo = X,
                                          !.saw = findingFile])
      BY <1>4 DEF StartRevalidate
    <2>2. command'[m].at = "decide" /\ command'[m].saw = findingFile /\ command'[m].todo = X
      <3>1. command'[m] = [Unstarted EXCEPT !.does = "revalidate", !.at = "decide", !.todo = X, !.saw = findingFile]
        BY <1>1, <2>1
      <3> QED BY <3>1 DEF Unstarted
    <2>3. CommandFits(m)'
      BY <1>1, <1>2, <1>4, <2>1, <2>2 DEF StartRevalidate, CommandFits, At, Known
    <2> QED BY <1>4, <2>1, <2>3, StartKeepsFit DEF StartRevalidate
  <1>5. ASSUME NEW x \in FleetFindings, StartTriage(m, x) PROVE FleetFits'
    <2>1. command'[m].at = "decide" /\ command'[m].saw = findingFile /\ command'[m].todo = {x}
      <3>1. command'[m] = [Unstarted EXCEPT !.does = "triage", !.at = "decide", !.todo = {x}, !.saw = findingFile]
        BY <1>1, <1>5 DEF StartTriage
      <3> QED BY <3>1 DEF Unstarted
    <2>2. command[m].at = "new"
      BY <1>5 DEF StartTriage, Starts
    <2>3. CommandFits(m)'
      BY <1>2, <1>5, <2>1, <2>2 DEF StartTriage, CommandFits, At, Known
    <2> QED BY <1>5, <2>3, StartKeepsFit DEF StartTriage
  <1>6. ASSUME NEW x \in FleetFindings, StartFix(m, x) PROVE FleetFits'
    <2>1. command'[m].at = "plan" /\ command'[m].saw = findingFile /\ command'[m].on = x
      <3>1. command'[m] = [Unstarted EXCEPT !.does = "fix", !.at = "plan", !.on = x, !.saw = findingFile]
        BY <1>1, <1>6 DEF StartFix
      <3> QED BY <3>1 DEF Unstarted
    <2>2. command[m].at = "new"
      BY <1>6 DEF StartFix, Starts
    <2>3. CommandFits(m)'
      BY <1>2, <1>6, <2>1, <2>2 DEF StartFix, CommandFits, At, Known
    <2> QED BY <1>6, <2>3, StartKeepsFit DEF StartFix
  <1>7. ASSUME NEW S \in SUBSET FleetFeatures, NEW F, NEW does,
               \A f \in S : CopyFits(F[f], f),
               Starts(m, [Unstarted EXCEPT !.does = does, !.at = "writes", !.todo = S, !.seen = F]),
               Silent
        PROVE  FleetFits'
    <2>1. command'[m].at = "writes" /\ command'[m].todo = S /\ command'[m].seen = F
      <3>1. command'[m] = [Unstarted EXCEPT !.does = does, !.at = "writes", !.todo = S, !.seen = F]
        BY <1>1, <1>7
      <3> QED BY <3>1 DEF Unstarted
    <2>2. command[m].at = "new"
      BY <1>7 DEF Starts
    <2>3. CommandFits(m)'
      BY <1>2, <1>7, <2>1, <2>2 DEF CommandFits, At, CopyFits
    <2> QED BY <1>7, <2>3, StartKeepsFit
  <1>8. ASSUME NEW f \in FleetFeatures
        PROVE  /\ CopyFits(Mapped(featureFile[f], seeds[f]), f)
               /\ CopyFits(Unlocked(featureFile[f]), f)
    <2>1. LockFits(f) /\ featureFile[f] \in FeatureRows
      BY <1>8 DEF FleetFits, FleetTyped
    <2>2. CopyFits(Unlocked(featureFile[f]), f)
      BY <2>1 DEF Unlocked, CopyFits, FeatureRows, FeatureStatuses
    <2>3. CopyFits(Mapped(featureFile[f], seeds[f]), f)
      <3> DEFINE r == featureFile[f]
                 s == seeds[f]
      <3>1. CASE s = "gone" /\ r.status = "absent"
        BY <3>1 DEF Mapped, CopyFits, NoFile
      <3>2. CASE s = "gone" /\ r.status # "absent"
        BY <2>1, <3>2 DEF Mapped, CopyFits, FeatureRows
      <3>3. CASE s # "gone" /\ r.status = "absent"
        BY <3>3 DEF Mapped, CopyFits, NoFile
      <3>4. CASE s # "gone" /\ r.status # "absent"
        <4> DEFINE q == IF \/ r.status = "skipped"
                           \/ r.seed # s /\ r.status \in {"reviewed", "revalidated", "fixed"}
                        THEN "pending" ELSE r.status
        <4>1. Mapped(r, s) = [r EXCEPT !.seed = s, !.status = q]
          BY <3>4 DEF Mapped
        <4>2. q \in {"pending", r.status}
          OBVIOUS
        <4> HIDE DEF q
        <4> QED BY <2>1, <4>1, <4>2 DEF CopyFits, LockFits, FeatureRows
      <3> QED BY <3>1, <3>2, <3>3, <3>4
    <2> QED BY <2>2, <2>3
  <1>9. CASE StartMap(m)
    <2> DEFINE S == {f \in FleetFeatures : seeds[f] # "gone" \/ featureFile[f].status # "absent"}
               F == [f \in FleetFeatures |-> Mapped(featureFile[f], seeds[f])]
    <2>1. S \in SUBSET FleetFeatures /\ \A f \in S : CopyFits(F[f], f)
      BY <1>8
    <2>2. Starts(m, [Unstarted EXCEPT !.does = "map", !.at = "writes", !.todo = S, !.seen = F]) /\ Silent
      BY <1>9 DEF StartMap
    <2> HIDE DEF S, F, Silent
    <2> QED BY <1>7, <2>1, <2>2
  <1>10. CASE StartCleanLocks(m)
    <2> DEFINE S == {f \in FleetFeatures : featureFile[f].lock # "none"}
               F == [f \in FleetFeatures |-> Unlocked(featureFile[f])]
    <2>1. S \in SUBSET FleetFeatures /\ \A f \in S : CopyFits(F[f], f)
      BY <1>8
    <2>2. Starts(m, [Unstarted EXCEPT !.does = "clean-locks", !.at = "writes", !.todo = S, !.seen = F])
          /\ Silent
      BY <1>10 DEF StartCleanLocks
    <2> HIDE DEF S, F, Silent
    <2> QED BY <1>7, <2>1, <2>2
  <1> QED BY <1>3, <1>4, <1>5, <1>6, <1>9, <1>10 DEF CommandStarts


\* The steps of a running command.
LEMMA CommandWorksFit ==
  ASSUME FleetTyped, FleetTyped', FleetFits, NEW m \in Commands, CommandWorks(m) PROVE FleetFits'
  <1> USE DEF outcomes
  <1>1. command[m] \in CommandStates /\ CommandCarries(command[m]) /\ CommandFits(m)
    BY DEF FleetTyped, FleetFits
  <1>2. Running(m) /\ command[m].at \notin {"new", "done", "dead"}
    BY DEF CommandWorks, EndReview, DecideStatus, RevalidateThrows, ReadForRefresh, WriteRefreshed,
       WritePlan, HearFix, LinkPatch, WriteNext, At, Running
  <1>3. \A o \in Commands \ {m} : ~ Running(o)
    BY <1>2, OthersRest
  <1>4. \A j \in Jobs : ~ Busy(m, j)
    <2>1. command[m].at = "jobs" => EndReview(m)
      BY DEF CommandWorks, DecideStatus, RevalidateThrows, ReadForRefresh, WriteRefreshed,
         WritePlan, HearFix, LinkPatch, WriteNext, At
    <2>2. command[m].at # "jobs" => \A j \in Jobs : ~ Busy(m, j)
      BY DEF Busy, FleetTyped, JobCarries
    <2> QED BY <2>1, <2>2 DEF EndReview, Busy
  <1>5. command[m].at # "link" => patchFile[m] # "applied"
    BY <1>1, <1>2 DEF CommandFits, At
  <1>6. ASSUME NEW d, command' = [command EXCEPT ![m] = d], UNCHANGED job,
               \A o \in Commands \ {m} : patchFile'[o] = patchFile[o],
               \A x \in FleetFindings : findingFile[x].patches \subseteq findingFile'[x].patches
        PROVE  OnlyMoves(m) /\ command'[m] = d
    BY <1>3, <1>6 DEF OnlyMoves, FleetTyped
  <1>7. ASSUME Ends(m), UNCHANGED <<job, patchFile>>, command[m].at # "link",
               \A x \in FleetFindings : findingFile[x].patches \subseteq findingFile'[x].patches
        PROVE  OnlyMoves(m) /\ CommandFits(m)' /\ command'[m].at = "done"
    <2>1. OnlyMoves(m) /\ command'[m].at = "done"
      <3>1. command'[m] = [Unstarted EXCEPT !.at = "done"]
        BY <1>7 DEF Ends, FleetTyped
      <3> QED BY <1>3, <1>7, <3>1 DEF Ends, OnlyMoves, FleetTyped, Unstarted
    <2> QED BY <1>5, <1>7, <2>1 DEF CommandFits, At
  <1>8. CASE EndReview(m) \/ RevalidateThrows(m)
    <2>1. Ends(m) /\ UNCHANGED <<job, patchFile, featureFile, findingFile, outcomes>>
          /\ command[m].at \in {"jobs", "decide"}
      BY <1>8 DEF EndReview, RevalidateThrows, At
    <2> QED BY <1>4, <1>7, <2>1, QuietOutsideRefresh
  <1>9. CASE WritePlan(m)
    <2> DEFINE d == [command[m] EXCEPT !.at = "fixing"]
    <2>1. /\ command[m].at = "plan" /\ command' = [command EXCEPT ![m] = d]
          /\ patchFile' = [patchFile EXCEPT ![m] = "planned"]
          /\ UNCHANGED <<job, featureFile, findingFile, outcomes>>
      BY <1>9 DEF WritePlan, At, CommandAt, FleetTyped
    <2>2. OnlyMoves(m) /\ command'[m] = d
      BY <1>6, <2>1 DEF FleetTyped
    <2>3. /\ command'[m].at = "fixing" /\ command'[m].saw = command[m].saw
          /\ command'[m].on = command[m].on /\ patchFile'[m] = "planned"
      BY <1>1, <2>1, <2>2 DEF CommandStates, FleetTyped
    <2>4. CommandFits(m)'
      BY <1>1, <2>1, <2>3 DEF CommandFits, At, Known
    <2> QED BY <1>4, <2>1, <2>2, <2>4, QuietOutsideRefresh
  <1>10. CASE HearFix(m)
    <2>1. command[m].at = "fixing" /\ UNCHANGED <<job, featureFile, findingFile, outcomes>>
      BY <1>10 DEF HearFix, At
    <2>2. CASE Ends(m) /\ UNCHANGED patchFile
      BY <1>4, <1>7, <2>1, <2>2, QuietOutsideRefresh
    <2>3. ASSUME NEW said \in {"threw", "failed", "passed"},
                 patchFile' = [patchFile EXCEPT ![m] = IF said = "passed" THEN "applied" ELSE "failed"],
                 command' = [command EXCEPT ![m].at = "link", ![m].says = said]
          PROVE  FleetFits'
      <3> DEFINE d == [command[m] EXCEPT !.at = "link", !.says = said]
      <3>1. command' = [command EXCEPT ![m] = d]
        BY <2>3 DEF FleetTyped
      <3>2. OnlyMoves(m) /\ command'[m] = d
        BY <1>6, <2>1, <2>3, <3>1 DEF FleetTyped
      <3>3. /\ command'[m].at = "link" /\ command'[m].saw = command[m].saw
            /\ command'[m].on = command[m].on
        BY <1>1, <3>2 DEF CommandStates
      <3>4. CommandFits(m)'
        BY <1>1, <2>1, <3>3 DEF CommandFits, At, Known
      <3> QED BY <1>4, <2>1, <3>2, <3>4, QuietOutsideRefresh
    <2> QED BY <1>10, <2>2, <2>3 DEF HearFix

  <1>11. CASE ReadForRefresh(m)
    <2> DEFINE f == command[m].on
    <2>1. /\ command[m].at = "refresh" /\ f \in FleetFeatures
          /\ UNCHANGED <<job, featureFile, findingFile, outcomes, patchFile>>
          /\ featureFile[f] \in FeatureRows
      BY <1>1, <1>11 DEF ReadForRefresh, At, CommandCarries, FleetTyped
    <2>2. \A x \in command[m].todo : command[m].saw[x] = findingFile[x] /\ Known(x)
      BY <1>1, <2>1 DEF CommandFits, At
    <2>3. \A g \in FleetFeatures : ~ Dead /\ g # f => Resolved(g)
      BY <1>3, FixedUnlessRefreshed
    <2>4. RefreshedStatus(f) = "fixed" => Unresolved(f) = {}
      BY DEF RefreshedStatus
    <2>5. RefreshedStatus(f) = "claimed" => featureFile[f].status = "claimed"
      BY DEF RefreshedStatus
    <2>6. ASSUME command' = [command EXCEPT ![m].at = "refreshed", ![m].says = RefreshedStatus(command[m].on),
                                            ![m].seen = featureFile]
          PROVE  FleetFits'
      <3> DEFINE d == [command[m] EXCEPT !.at = "refreshed", !.says = RefreshedStatus(command[m].on),
                                         !.seen = featureFile]
      <3>1. command' = [command EXCEPT ![m] = d]
        BY <2>6 DEF FleetTyped
      <3>2. OnlyMoves(m) /\ command'[m] = d
        BY <1>6, <2>1, <3>1
      <3>3. /\ command'[m].at = "refreshed" /\ command'[m].saw = command[m].saw
            /\ command'[m].on = f /\ command'[m].todo = command[m].todo
            /\ command'[m].says = RefreshedStatus(f) /\ command'[m].seen = featureFile
        BY <1>1, <3>2 DEF CommandStates
      <3>4. CommandFits(m)'
        BY <1>5, <2>1, <2>2, <2>4, <2>5, <3>3 DEF CommandFits, At, Known, Unresolved
      <3>5. \A g \in FleetFeatures : ~ Dead => FixedFits(g)'
        BY <2>1, <2>3, <3>3 DEF Resolved, FixedFits, Unresolved
      <3> QED BY <1>2, <1>4, <2>1, <3>2, <3>4, <3>5, QuietStep
    <2>7. CASE Unresolved(f) # {} /\ RefreshedStatus(f) = featureFile[f].status /\ NextDecision(m)
      <3>1. featureFile[f].status # "fixed"
        BY <2>4, <2>7
      <3>2. OnlyMoves(m) => \A g \in FleetFeatures : ~ Dead => FixedFits(g)'
        BY <2>1, <2>3, <3>1 DEF Resolved, FixedFits, Unresolved
      <3>3. CASE Ends(m)
        BY <1>2, <1>4, <1>7, <2>1, <3>2, <3>3, QuietStep
      <3>4. CASE CommandAt(m, "decide")
        <4> DEFINE d == [command[m] EXCEPT !.at = "decide"]
        <4>1. command' = [command EXCEPT ![m] = d]
          BY <3>4 DEF CommandAt, FleetTyped
        <4>2. OnlyMoves(m) /\ command'[m] = d
          BY <1>6, <2>1, <4>1
        <4>3. /\ command'[m].at = "decide" /\ command'[m].saw = command[m].saw
              /\ command'[m].todo = command[m].todo
          BY <1>1, <4>2 DEF CommandStates
        <4>4. CommandFits(m)'
          BY <1>5, <2>1, <2>2, <4>3 DEF CommandFits, At, Known
        <4> QED BY <1>2, <1>4, <2>1, <3>2, <4>2, <4>4, QuietStep
      <3> QED BY <2>7, <3>3, <3>4 DEF NextDecision
    <2> QED BY <1>11, <2>6, <2>7 DEF ReadForRefresh
  <1>12. CASE DecideStatus(m)
    <2>1. PICK x \in command[m].todo,
               s \in IF command[m].does = "triage" THEN Decisions ELSE Outcomes :
              /\ findingFile' = [findingFile EXCEPT
                     ![x] = [command[m].saw[x] EXCEPT !.status = s, !.history = @ \cup {m}]]
              /\ decided' = [decided EXCEPT ![x] = @ \cup {m}]
              /\ command' = [command EXCEPT ![m].at = "refresh", ![m].on = FeatureOf[x],
                                            ![m].todo = @ \ {x}]
      BY <1>12 DEF DecideStatus
    <2>2. /\ command[m].at = "decide" /\ UNCHANGED <<job, featureFile, patchFile, tried, unreleased>>
          /\ command[m].todo \in SUBSET FleetFindings
          /\ x \in FleetFindings /\ s \in Decisions /\ FeatureOf[x] \in FleetFeatures
      BY <1>1, <1>12, FleetAssumption DEF FleetAssumption, DecideStatus, At, CommandCarries, Outcomes
    <2>3. \A y \in command[m].todo : command[m].saw[y] = findingFile[y] /\ Known(y)
      BY <1>1, <2>2 DEF CommandFits, At
    <2>4. /\ findingFile' = [findingFile EXCEPT
                 ![x] = [findingFile[x] EXCEPT !.status = s, !.history = @ \cup {m}]]
          /\ findingFile[x] \in FindingRows
      BY <2>1, <2>2, <2>3 DEF FleetTyped
    <2>5. /\ \A y \in FleetFindings \ {x} : findingFile'[y] = findingFile[y]
          /\ findingFile'[x].status = s /\ findingFile'[x].history = findingFile[x].history \cup {m}
          /\ findingFile'[x].patches = findingFile[x].patches
      BY <2>2, <2>4 DEF FindingRows, FleetTyped
    <2> DEFINE d == [command[m] EXCEPT !.at = "refresh", !.on = FeatureOf[x], !.todo = @ \ {x}]
    <2>6. command' = [command EXCEPT ![m] = d]
      BY <2>1 DEF FleetTyped
    <2>7. OnlyMoves(m) /\ command'[m] = d
      BY <1>6, <2>2, <2>5, <2>6
    <2>8. /\ command'[m].at = "refresh" /\ command'[m].saw = command[m].saw
          /\ command'[m].on = FeatureOf[x] /\ command'[m].todo = command[m].todo \ {x}
      BY <1>1, <2>7 DEF CommandStates
    <2>9. CommandFits(m)'
      <3>1. \A y \in command'[m].todo : command'[m].saw[y] = findingFile'[y] /\ Known(y)'
        BY <2>2, <2>3, <2>5, <2>8 DEF Known
      <3> QED BY <1>5, <2>2, <2>8, <3>1 DEF CommandFits, At
    <2>10. \A g \in FleetFeatures : LockFits(g)'
      BY <1>2, <1>4, <2>2, <2>7, LocksKept DEF FleetFits, LockFits
    <2>11. \A y \in FleetFindings : DecisionFits(y)'
      <3>1. ASSUME NEW y \in FleetFindings PROVE DecisionFits(y)'
        <4>1. DecisionFits(y)
          BY DEF FleetFits
        <4>2. CASE y # x
          BY <2>1, <2>5, <4>1, <4>2 DEF DecisionFits, Known, FleetTyped
        <4>3. CASE y = x
          <5>1. decided'[x] = decided[x] \cup {m} /\ s # "absent"
            BY <2>1, <2>2 DEF FleetTyped, Decisions
          <5> QED BY <2>5, <4>1, <4>3, <5>1 DEF DecisionFits, Known
        <4> QED BY <4>2, <4>3
      <3> QED BY <3>1
    <2>12. ASSUME ~ Dead, NEW g \in FleetFeatures PROVE FixedFits(g)'
      <3>1. CASE g = FeatureOf[x]
        BY <2>8, <3>1 DEF FixedFits
      <3>2. CASE g # FeatureOf[x]
        <4>1. Resolved(g)
          BY <1>3, <2>2, <2>12, FixedUnlessRefreshed
        <4> QED BY <2>2, <2>5, <3>2, <4>1 DEF Resolved, FixedFits, Unresolved, OfFeature
      <3> QED BY <3>1, <3>2
    <2>13. Dead => Dead'
      BY <1>2, <2>7 DEF Dead, OnlyMoves
    <2>14. \A j \in Jobs : FleetJobFits(m, j)'
      BY <1>4, <2>2 DEF FleetJobFits, Busy
    <2> QED BY <2>7, <2>9, <2>10, <2>11, <2>12, <2>13, <2>14, OtherCommandsFit DEF FleetFits
  <1>13. CASE LinkPatch(m)
    <2> DEFINE x == command[m].on
               linked == [findingFile[x] EXCEPT !.patches = @ \cup {m}]
    <2>1. /\ command[m].at = "link" /\ x \in FleetFindings /\ Known(x)
          /\ command[m].saw = findingFile /\ findingFile[x] \in FindingRows
          /\ UNCHANGED <<job, featureFile, decided, unreleased, patchFile>> /\ Ends(m)
          /\ tried' = tried \cup {x}
      BY <1>1, <1>13 DEF LinkPatch, At, CommandCarries, CommandFits, FleetTyped
    <2>2. PICK s \in {findingFile[x].status, "open", "uncertain"} :
              findingFile' = [findingFile EXCEPT ![x] = [linked EXCEPT !.status = s]]
      <3>1. findingFile' = [findingFile EXCEPT
                ![x] = CASE command[m].says = "threw" -> linked
                         [] command[m].says = "failed" -> [linked EXCEPT !.status = "open"]
                         [] OTHER -> [linked EXCEPT !.status = "uncertain"]]
        BY <1>13, <2>1 DEF LinkPatch
      <3>2. linked = [linked EXCEPT !.status = findingFile[x].status]
        BY <2>1 DEF FindingRows
      <3> HIDE DEF x, linked
      <3> QED BY <3>1, <3>2
    <2>3. /\ \A y \in FleetFindings \ {x} : findingFile'[y] = findingFile[y]
          /\ findingFile'[x].status = s /\ findingFile'[x].history = findingFile[x].history
          /\ findingFile'[x].patches = findingFile[x].patches \cup {m} /\ s # "absent"
      BY <2>1, <2>2 DEF FindingRows, FleetTyped, Known
    <2>4. OnlyMoves(m) /\ command'[m].at = "done"
      <3> DEFINE d == [Unstarted EXCEPT !.at = "done"]
      <3>1. command' = [command EXCEPT ![m] = d]
        BY <2>1 DEF Ends
      <3>2. OnlyMoves(m) /\ command'[m] = d
        BY <1>6, <2>1, <2>3, <3>1
      <3> QED BY <3>2 DEF Unstarted
    <2>5. CommandFits(m)'
      BY <2>1, <2>3, <2>4 DEF CommandFits, At
    <2>6. \A g \in FleetFeatures : LockFits(g)'
      BY <1>2, <1>4, <2>1, <2>4, LocksKept DEF FleetFits, LockFits
    <2>7. \A y \in FleetFindings : DecisionFits(y)'
      BY <2>1, <2>3 DEF FleetFits, DecisionFits, Known
    <2>8. ASSUME ~ Dead, NEW g \in FleetFeatures PROVE FixedFits(g)'
      <3>1. Resolved(g)
        BY <1>3, <2>1, <2>8, FixedUnlessRefreshed
      <3>2. \A y \in Unresolved(g)' : y \in tried \/ y = x \/ featureFile[g].status # "fixed"
        BY <2>3, <3>1 DEF Resolved, Unresolved, OfFeature
      <3> QED BY <2>1, <3>2 DEF FixedFits
    <2>9. Dead => Dead'
      BY <1>2, <2>4 DEF Dead, OnlyMoves
    <2>10. \A j \in Jobs : FleetJobFits(m, j)'
      BY <1>4, <2>1 DEF FleetJobFits, Busy
    <2> QED BY <2>4, <2>5, <2>6, <2>7, <2>8, <2>9, <2>10, OtherCommandsFit DEF FleetFits
  \* A step that writes feature f.
  <1>14. ASSUME NEW f \in FleetFeatures, NEW r \in FeatureRows, command[m].at # "link",
                featureFile' = [featureFile EXCEPT ![f] = r], OnlyMoves(m), CommandFits(m)',
                r.lock # "none" => r.lock = featureFile[f].lock,
                r.status = "claimed" => r.lock # "none",
                UNCHANGED <<job, findingFile, decided, unreleased>>,
                tried \ OfFeature(f) \subseteq tried', ~ Dead => FixedFits(f)',
                \A g \in FleetFeatures \ {f} : ~ Dead => Resolved(g)
         PROVE  FleetFits'
    <2>1. /\ featureFile'[f] = r
          /\ \A g \in FleetFeatures \ {f} : featureFile'[g] = featureFile[g]
      BY <1>14 DEF FleetTyped
    <2>2. \A g \in FleetFeatures : featureFile[g].status = "claimed" => featureFile[g].lock # "none"
      BY DEF FleetFits, LockFits
    <2>3. \A g \in FleetFeatures : LockFits(g)'
      BY <1>2, <1>4, <1>14, <2>1, <2>2, LocksKept
    <2>4. \A y \in FleetFindings : DecisionFits(y)'
      BY <1>14 DEF FleetFits, DecisionFits, Known
    <2>5. \A g \in FleetFeatures \ {f} : ~ Dead => FixedFits(g)'
      <3>1. ASSUME NEW g \in FleetFeatures \ {f} PROVE Unresolved(g) \cap OfFeature(f) = {}
        BY <3>1 DEF Unresolved, OfFeature
      <3> QED BY <1>14, <2>1, <3>1 DEF Resolved, FixedFits, Unresolved
    <2>6. Dead => Dead'
      BY <1>2, <1>14 DEF Dead, OnlyMoves
    <2>7. \A j \in Jobs : FleetJobFits(m, j)'
      BY <1>4, <1>14 DEF FleetJobFits, Busy
    <2> QED BY <1>14, <2>3, <2>4, <2>5, <2>6, <2>7, OtherCommandsFit DEF FleetFits
  <1>15. CASE WriteRefreshed(m)
    <2>0. PICK f : f = command[m].on
      OBVIOUS
    <2> DEFINE r == [featureFile[f] EXCEPT !.status = command[m].says]
    <2>1. /\ command[m].at = "refreshed" /\ f \in FleetFeatures
          /\ UNCHANGED <<job, findingFile, decided, unreleased, patchFile>>
          /\ tried' = tried \ OfFeature(f)
          /\ featureFile[f] \in FeatureRows /\ command[m].says \in FeatureStatuses
          /\ command[m].seen = featureFile
          /\ command[m].says = "fixed" => Unresolved(f) = {}
          /\ command[m].says = "claimed" => featureFile[f].status = "claimed"
      BY <1>1, <1>15, <2>0 DEF WriteRefreshed, At, CommandCarries, CommandFits, FleetTyped
    <2>2. featureFile' = [featureFile EXCEPT ![f] = r]
      BY <1>15, <2>0, <2>1 DEF WriteRefreshed
    <2>3. /\ r \in FeatureRows /\ r.lock = featureFile[f].lock /\ r.status = command[m].says
      BY <2>1 DEF FeatureRows
    <2>4. r.status = "claimed" => r.lock # "none"
      BY <2>1, <2>3 DEF FleetFits, LockFits
    <2>5. OnlyMoves(m) /\ CommandFits(m)'
      <3>1. CASE Ends(m)
        BY <1>7, <2>1, <3>1
      <3>2. CASE command' = [command EXCEPT ![m].at = "decide", ![m].seen = <<>>, ![m].says = "none",
                                            ![m].on = "none"]
        <4> DEFINE d == [command[m] EXCEPT !.at = "decide", !.seen = <<>>, !.says = "none", !.on = "none"]
        <4>1. command' = [command EXCEPT ![m] = d]
          BY <3>2 DEF FleetTyped
        <4>2. OnlyMoves(m) /\ command'[m] = d
          BY <1>6, <2>1, <4>1
        <4>3. /\ command'[m].at = "decide" /\ command'[m].saw = command[m].saw
              /\ command'[m].todo = command[m].todo
          BY <1>1, <4>2 DEF CommandStates
        <4>4. \A x \in command[m].todo : command[m].saw[x] = findingFile[x] /\ Known(x)
          BY <1>1, <2>1 DEF CommandFits, At
        <4>5. CommandFits(m)'
          BY <1>5, <2>1, <4>3, <4>4 DEF CommandFits, At, Known
        <4> QED BY <4>2, <4>5
      <3> QED BY <1>15, <3>1, <3>2 DEF WriteRefreshed
    <2>6. featureFile'[f] = r
      BY <2>1, <2>2 DEF FleetTyped
    <2>7. FixedFits(f)'
      BY <2>1, <2>3, <2>6 DEF FixedFits, Unresolved
    <2>8. \A g \in FleetFeatures \ {f} : ~ Dead => Resolved(g)
      BY <1>3, <2>0, FixedUnlessRefreshed
    <2> HIDE DEF r
    <2> QED BY <1>14, <2>1, <2>2, <2>3, <2>4, <2>5, <2>7, <2>8
  <1>16. CASE WriteNext(m)
    <2>1. /\ command[m].at = "writes" /\ command[m].todo \in SUBSET FleetFeatures
          /\ UNCHANGED <<job, findingFile, outcomes, patchFile>>
          /\ command[m].seen \in [FleetFeatures -> FeatureRows]
          /\ \A g \in command[m].todo : CopyFits(command[m].seen[g], g)
      BY <1>1, <1>16 DEF WriteNext, At, CommandCarries, CommandFits
    <2>2. CASE Ends(m) /\ UNCHANGED featureFile
      BY <1>4, <1>7, <2>1, <2>2, QuietOutsideRefresh
    <2>3. ASSUME NEW f \in command[m].todo,
                 featureFile' = [featureFile EXCEPT ![f] = command[m].seen[f]],
                 command' = [command EXCEPT ![m].todo = @ \ {f}]
          PROVE  FleetFits'
      <3> DEFINE d == [command[m] EXCEPT !.todo = @ \ {f}]
                 r == command[m].seen[f]
      <3>1. command' = [command EXCEPT ![m] = d]
        BY <2>3 DEF FleetTyped
      <3>2. OnlyMoves(m) /\ command'[m] = d
        BY <1>6, <2>1, <3>1
      <3>3. /\ command'[m].at = "writes" /\ command'[m].seen = command[m].seen
            /\ command'[m].todo = command[m].todo \ {f}
        BY <1>1, <2>1, <3>2 DEF CommandStates
      <3>4. /\ f \in FleetFeatures /\ r \in FeatureRows /\ CopyFits(r, f)
        BY <2>1
      <3>5. /\ featureFile'[f] = r
            /\ \A g \in FleetFeatures \ {f} : featureFile'[g] = featureFile[g]
        BY <2>3, <3>4 DEF FleetTyped
      <3>6. CommandFits(m)'
        <4>1. ASSUME NEW g \in command'[m].todo PROVE CopyFits(command[m].seen[g], g)'
          <5>1. /\ CopyFits(command[m].seen[g], g) /\ featureFile'[g] = featureFile[g]
                /\ command'[m].seen[g] = command[m].seen[g]
            BY <2>1, <3>3, <3>5
          <5> QED BY <5>1 DEF CopyFits
        <4> QED BY <1>5, <2>1, <3>3, <4>1 DEF CommandFits, At, CopyFits
      <3>7. \A g \in FleetFeatures : ~ Dead => Resolved(g)
        BY <1>3, <2>1, FixedUnlessRefreshed
      <3>8. ~ Dead => FixedFits(f)'
        BY <2>1, <3>4, <3>5, <3>7 DEF CopyFits, Resolved, FixedFits, Unresolved
      <3>9. /\ r.lock # "none" => r.lock = featureFile[f].lock
            /\ r.status = "claimed" => r.lock # "none"
        BY <3>4 DEF CopyFits
      <3> HIDE DEF r, d
      <3> QED BY <1>14, <2>1, <2>3, <3>2, <3>4, <3>6, <3>7, <3>8, <3>9 DEF r
    <2> QED BY <1>16, <2>2, <2>3 DEF WriteNext
  <1> QED BY <1>8, <1>9, <1>10, <1>11, <1>12, <1>13, <1>15, <1>16 DEF CommandWorks

\* A job that hears its provider or reads a finding stays at its feature.
LEMMA JobMoves ==
  ASSUME FleetTyped, NEW m \in Commands, NEW j \in Jobs, HearReview(m, j) \/ ReadExisting(m, j)
  PROVE  \E b \in JobStates :
             /\ job' = [job EXCEPT ![m][j] = b] /\ b.at # "free" /\ b.f = job[m][j].f
             /\ b.at = "write" => b.was = findingFile[b.x]
  <1>0. job[m][j] \in JobStates
    BY DEF FleetTyped
  <1>1. ASSUME NEW R \in SUBSET OfFeature(job[m][j].f),
               job' = [job EXCEPT ![m][j].at = IF R = {} THEN "finish" ELSE "read",
                                  ![m][j].found = R, ![m][j].left = R]
        PROVE  \E b \in JobStates :
                   /\ job' = [job EXCEPT ![m][j] = b] /\ b.at # "free" /\ b.f = job[m][j].f
                   /\ b.at = "write" => b.was = findingFile[b.x]
    <2> DEFINE b == [job[m][j] EXCEPT !.at = IF R = {} THEN "finish" ELSE "read",
                                      !.found = R, !.left = R]
    <2>1. R \subseteq FleetFindings
      BY DEF OfFeature
    <2>2. b \in JobStates /\ b.at \in {"finish", "read"} /\ b.f = job[m][j].f
      BY <1>0, <2>1 DEF JobStates
    <2>3. job' = [job EXCEPT ![m][j] = b]
      BY <1>1 DEF FleetTyped
    <2> HIDE DEF b
    <2> QED BY <2>2, <2>3
  <1>2. ASSUME job' = [job EXCEPT ![m][j].at = "fail"]
        PROVE  \E b \in JobStates :
                   /\ job' = [job EXCEPT ![m][j] = b] /\ b.at # "free" /\ b.f = job[m][j].f
                   /\ b.at = "write" => b.was = findingFile[b.x]
    <2> DEFINE b == [job[m][j] EXCEPT !.at = "fail"]
    <2>1. b \in JobStates /\ b.at = "fail" /\ b.f = job[m][j].f
      BY <1>0 DEF JobStates
    <2>2. job' = [job EXCEPT ![m][j] = b]
      BY <1>2 DEF FleetTyped
    <2> HIDE DEF b
    <2> QED BY <2>1, <2>2
  <1>3. ASSUME NEW x \in job[m][j].left,
               job' = [job EXCEPT ![m][j].at = "write", ![m][j].x = x, ![m][j].was = findingFile[x]]
        PROVE  \E b \in JobStates :
                   /\ job' = [job EXCEPT ![m][j] = b] /\ b.at # "free" /\ b.f = job[m][j].f
                   /\ b.at = "write" => b.was = findingFile[b.x]
    <2> DEFINE b == [job[m][j] EXCEPT !.at = "write", !.x = x, !.was = findingFile[x]]
    <2>1. x \in FleetFindings /\ findingFile[x] \in FindingRows
      BY <1>0 DEF JobStates, FleetTyped
    <2>2. b \in JobStates /\ b.at = "write" /\ b.f = job[m][j].f /\ b.was = findingFile[b.x]
      BY <1>0, <2>1 DEF JobStates
    <2>3. job' = [job EXCEPT ![m][j] = b]
      BY <1>3 DEF FleetTyped
    <2> HIDE DEF b
    <2> QED BY <2>2, <2>3
  <1> QED BY <1>1, <1>2, <1>3 DEF HearReview, ReadExisting

LEMMA JobFails ==
  ASSUME FleetTyped, NEW m \in Commands, NEW j \in Jobs, job' = [job EXCEPT ![m][j].at = "fail"]
  PROVE  \E b \in JobStates : job' = [job EXCEPT ![m][j] = b] /\ b.at = "fail" /\ b.f = job[m][j].f
  <1> DEFINE b == [job[m][j] EXCEPT !.at = "fail"]
  <1>1. job[m][j] \in JobStates
    BY DEF FleetTyped
  <1>2. b \in JobStates /\ b.at = "fail" /\ b.f = job[m][j].f
    BY <1>1 DEF JobStates
  <1>3. job' = [job EXCEPT ![m][j] = b]
    BY DEF FleetTyped
  <1> HIDE DEF b
  <1> QED BY <1>2, <1>3

\* The steps of a review's jobs.
LEMMA JobWorksFit ==
  ASSUME FleetTyped, FleetTyped', FleetFits, NEW m \in Commands, NEW j \in Jobs, JobWorks(m, j)
  PROVE  FleetFits'
  <1> USE DEF outcomes
  <1>1. /\ command[m] \in CommandStates /\ CommandCarries(command[m]) /\ CommandFits(m)
        /\ job[m][j] \in JobStates /\ JobCarries(job[m][j], command[m])
    BY DEF FleetTyped, FleetFits
  <1>2. command[m].at = "jobs" /\ Running(m)
    <2>1. Busy(m, j) => command[m].at = "jobs"
      BY <1>1 DEF JobCarries, Busy
    <2>2. Busy(m, j) \/ At(m, "jobs")
      BY DEF JobWorks, TakeFeature, HearReview, ReadExisting, WriteFinding, FinishFeature, FailFeature, Busy
    <2> QED BY <2>1, <2>2 DEF At, Running
  <1>3. \A o \in Commands \ {m} : ~ Running(o)
    BY <1>2, OthersRest
  <1>4. /\ \A f \in command[m].todo : command[m].seen[f] = featureFile[f] /\ f \in FleetFeatures
        /\ patchFile[m] # "applied"
        /\ command[m].seen \in [FleetFeatures -> FeatureRows]
    BY <1>1, <1>2 DEF CommandFits, CommandCarries, At
  <1>5. \A g \in FleetFeatures : ~ Dead => Resolved(g)
    BY <1>2, <1>3, FixedUnlessRefreshed
  <1>6. \A k \in Jobs : FleetJobFits(m, k) /\ JobCarries(job[m][k], command[m])
    BY DEF FleetFits, FleetTyped
  <1>7. \A f \in FleetFeatures : featureFile[f].status = "claimed" => featureFile[f].lock # "none"
    BY DEF FleetFits, LockFits
  <1>8. ASSUME NEW f \in FleetFeatures
        PROVE  /\ Locked(m, f).status = "claimed" /\ Locked(m, f).lock = m /\ m # "none"
    <2>1. command[m].seen[f] \in FeatureRows
      BY <1>4
    <2>2. m # "none"
      BY FleetAssumption DEF FleetAssumption
    <2> QED BY <2>1, <2>2 DEF Locked, FeatureRows
  <1>9. ASSUME OnlyMoves(m), CommandFits(m)', \A k \in Jobs : FleetJobFits(m, k)',
               \A f \in FleetFeatures : LockFits(f)' /\ (~ Dead => FixedFits(f)'),
               \A x \in FleetFindings : DecisionFits(x)'
        PROVE  FleetFits'
    <2>1. Dead => Dead'
      BY <1>2, <1>9 DEF Dead, OnlyMoves
    <2> QED BY <1>9, <2>1, OtherCommandsFit DEF FleetFits
  <1>10. UNCHANGED <<findingFile, tried>> => \A f \in FleetFeatures : ~ Dead /\ featureFile'[f] = featureFile[f]
                                                               => FixedFits(f)'
    BY <1>5 DEF Resolved, FixedFits, Unresolved
  <1>11. UNCHANGED <<findingFile, decided>> => \A x \in FleetFindings : DecisionFits(x)'
    BY DEF FleetFits, DecisionFits, Known
  \* Steps of a job that stays at its feature.
  <1>12. ASSUME Busy(m, j), NEW b \in JobStates, job' = [job EXCEPT ![m][j] = b],
                b.at # "free", b.f = job[m][j].f, job[m][j].at # "fail",
                UNCHANGED <<command, featureFile, patchFile, unreleased>>
         PROVE  /\ CommandFits(m)' /\ \A f \in FleetFeatures : LockFits(f)'
                /\ \A k \in Jobs : job'[m][k] = IF k = j THEN b ELSE job[m][k]
                /\ OnlyMoves(m) <=> \A x \in FleetFindings : findingFile[x].patches \subseteq findingFile'[x].patches
                /\ \A k \in Jobs : (job'[m][k].at = "write" => job'[m][k].was = findingFile'[job'[m][k].x])
                                       => FleetJobFits(m, k)'
    <2>1. /\ \A k \in Jobs : job'[m][k] = IF k = j THEN b ELSE job[m][k]
          /\ \A o \in Commands \ {m} : job'[o] = job[o]
      BY <1>12 DEF FleetTyped
    <2>2. OnlyMoves(m) <=> \A x \in FleetFindings : findingFile[x].patches \subseteq findingFile'[x].patches
      BY <1>3, <1>12, <2>1 DEF OnlyMoves
    <2>3. CommandFits(m)'
      BY <1>2, <1>4, <1>12 DEF CommandFits, At
    <2>4. ASSUME NEW f \in FleetFeatures PROVE LockFits(f)'
      <3>1. LockFits(f) /\ (featureFile[f].lock # "none" => featureFile[f].lock \in Commands)
        BY DEF FleetFits, FleetTyped, FeatureRows
      <3> QED BY <1>12, <2>1, <3>1 DEF LockFits, Busy
    <2>5. ASSUME NEW k \in Jobs, job'[m][k].at = "write" => job'[m][k].was = findingFile'[job'[m][k].x]
          PROVE  FleetJobFits(m, k)'
      <3>1. job'[m][k].f = job[m][k].f /\ (Busy(m, k)' <=> Busy(m, k))
        BY <1>12, <2>1 DEF Busy
      <3>2. \A i \in Jobs : job'[m][i].f = job[m][i].f /\ (Busy(m, i)' <=> Busy(m, i))
        BY <1>12, <2>1 DEF Busy
      <3>3. \A g \in FleetFeatures : Locked(m, g)' = Locked(m, g) /\ (Unclaimed(m, g)' <=> Unclaimed(m, g))
        BY <1>12 DEF Locked, Unclaimed
      <3>4. CASE Busy(m, k)
        <4>1. PICK f \in FleetFeatures : f = job[m][k].f
          BY <1>6, <3>4 DEF JobCarries, Busy
        <4>2. /\ \/ featureFile[f] = Locked(m, f)
                 \/ job[m][k].at = "fail" /\ featureFile[f] = command[m].seen[f]
              /\ Unclaimed(m, f) /\ f \notin command[m].todo
              /\ \A i \in Jobs \ {k} : Busy(m, i) => job[m][i].f # f
          BY <1>6, <3>4, <4>1 DEF FleetJobFits
        <4>3. /\ \/ featureFile'[f] = Locked(m, f)'
                 \/ job'[m][k].at = "fail" /\ featureFile'[f] = command'[m].seen[f]
              /\ Unclaimed(m, f)' /\ f \notin command'[m].todo
              /\ \A i \in Jobs \ {k} : Busy(m, i)' => job'[m][i].f # f
          BY <1>12, <2>1, <3>2, <3>3, <4>2
        <4>4. job'[m][k].f = f
          BY <3>1, <4>1
        <4> QED BY <2>5, <4>3, <4>4 DEF FleetJobFits
      <3>5. CASE ~ Busy(m, k)
        BY <2>5, <3>1, <3>5 DEF FleetJobFits
      <3> QED BY <3>4, <3>5
    <2> QED BY <2>1, <2>2, <2>3, <2>4, <2>5
  <1>13. CASE HearReview(m, j) \/ ReadExisting(m, j)
    <2>1. /\ Busy(m, j) /\ job[m][j].at # "fail"
          /\ UNCHANGED <<command, featureFile, findingFile, patchFile, outcomes>>
      BY <1>13 DEF HearReview, ReadExisting, Busy
    <2>2. PICK b \in JobStates :
              /\ job' = [job EXCEPT ![m][j] = b] /\ b.at # "free" /\ b.f = job[m][j].f
              /\ b.at = "write" => b.was = findingFile[b.x]
      BY <1>13, JobMoves
    <2>3. /\ CommandFits(m)' /\ \A f \in FleetFeatures : LockFits(f)'
          /\ OnlyMoves(m)
          /\ \A k \in Jobs : job'[m][k] = IF k = j THEN b ELSE job[m][k]
      BY <1>12, <2>1, <2>2
    <2>4. \A k \in Jobs : FleetJobFits(m, k)'
      <3>1. ASSUME NEW k \in Jobs PROVE job'[m][k].at = "write" => job'[m][k].was = findingFile'[job'[m][k].x]
        BY <1>6, <2>1, <2>2, <2>3 DEF FleetJobFits
      <3> QED BY <1>12, <2>1, <2>2, <3>1
    <2> QED BY <1>9, <1>10, <1>11, <2>1, <2>3, <2>4
  \* The job lets go of its feature.
  <1>14. ASSUME Busy(m, j), job' = [job EXCEPT ![m][j] = FreeJob], NEW r \in FeatureRows,
                featureFile' = [featureFile EXCEPT ![job[m][j].f] = r],
                \/ r.lock = "none"
                \/ r.lock = m /\ <<m, job[m][j].f>> \in unreleased',
                r.status = "claimed" => r.lock # "none",
                r.status = "fixed" => r = featureFile[job[m][j].f],
                unreleased \subseteq unreleased',
                UNCHANGED <<command, findingFile, patchFile, decided, tried>>
         PROVE  FleetFits'
    <2>1. PICK f \in FleetFeatures : f = job[m][j].f
      BY <1>1, <1>14 DEF JobCarries, Busy
    <2>2. /\ featureFile'[f] = r /\ \A g \in FleetFeatures \ {f} : featureFile'[g] = featureFile[g]
          /\ \A k \in Jobs : job'[m][k] = IF k = j THEN FreeJob ELSE job[m][k]
          /\ \A o \in Commands \ {m} : job'[o] = job[o]
      BY <1>14, <2>1 DEF FleetTyped
    <2>3. /\ f \notin command[m].todo
          /\ \A k \in Jobs \ {j} : Busy(m, k) => job[m][k].f # f
      BY <1>6, <1>14, <2>1 DEF FleetJobFits
    <2>4. OnlyMoves(m)
      BY <1>3, <1>14, <2>2 DEF OnlyMoves
    <2>5. CommandFits(m)'
      BY <1>2, <1>4, <1>14, <2>2, <2>3 DEF CommandFits, At
    <2>6. ASSUME NEW k \in Jobs PROVE FleetJobFits(m, k)'
      <3>1. CASE k = j \/ ~ Busy(m, k)
        BY <2>2, <3>1 DEF FleetJobFits, Busy, FreeJob
      <3>2. CASE k # j /\ Busy(m, k)
        <4>1. PICK g \in FleetFeatures : g = job[m][k].f
          BY <1>6, <3>2 DEF JobCarries, Busy
        <4>2. /\ \/ featureFile[g] = Locked(m, g)
                 \/ job[m][k].at = "fail" /\ featureFile[g] = command[m].seen[g]
              /\ Unclaimed(m, g) /\ g \notin command[m].todo
              /\ \A i \in Jobs \ {k} : Busy(m, i) => job[m][i].f # g
              /\ job[m][k].at = "write" => job[m][k].was = findingFile[job[m][k].x]
          BY <1>6, <3>2, <4>1 DEF FleetJobFits
        <4>3. g # f /\ job'[m][k] = job[m][k]
          BY <2>2, <2>3, <3>2, <4>1
        <4>4. /\ \/ featureFile'[g] = Locked(m, g)'
                 \/ job[m][k].at = "fail" /\ featureFile'[g] = command'[m].seen[g]
              /\ Unclaimed(m, g)'
          BY <1>14, <2>2, <4>2, <4>3 DEF Locked, Unclaimed
        <4>5. \A i \in Jobs \ {k} : Busy(m, i)' => job'[m][i].f # g
          BY <2>2, <4>2 DEF Busy, FreeJob
        <4> QED BY <1>14, <4>1, <4>2, <4>3, <4>4, <4>5 DEF FleetJobFits
      <3> QED BY <3>1, <3>2
    <2>7. ASSUME NEW g \in FleetFeatures PROVE LockFits(g)'
      <3>1. CASE g = f
        BY <1>14, <2>1, <2>2, <3>1 DEF LockFits
      <3>2. CASE g # f
        <4>1. \A k \in Jobs : Busy(m, k) /\ job[m][k].f = g => job'[m][k].at # "free" /\ job'[m][k].f = g
          BY <2>1, <2>2, <3>2 DEF Busy
        <4> QED BY <1>2, <1>7, <1>14, <2>2, <2>4, <3>2, <4>1, LocksKept
      <3> QED BY <3>1, <3>2
    <2>8. ASSUME NEW g \in FleetFeatures, ~ Dead PROVE FixedFits(g)'
      BY <1>10, <1>14, <2>1, <2>2, <2>8 DEF FixedFits
    <2> QED BY <1>9, <1>11, <1>14, <2>4, <2>5, <2>6, <2>7, <2>8
  <1>15. CASE FailFeature(m, j)
    <2>1. Busy(m, j)
      BY <1>15 DEF FailFeature, Busy
    <2>2. PICK f \in FleetFeatures : f = job[m][j].f
      BY <1>1, <2>1 DEF JobCarries, Busy
    <2>3. Released(m, f) \in FeatureRows /\ Released(m, f).lock = "none" /\ Released(m, f).status = "error"
      <3>1. command[m].seen[f] \in FeatureRows
        BY <1>4
      <3> QED BY <3>1 DEF Released, Locked, FeatureRows, FeatureStatuses
    <2>4. CASE featureFile' = [featureFile EXCEPT ![f] = Released(m, f)] /\ UNCHANGED unreleased
      BY <1>14, <1>15, <2>1, <2>2, <2>3, <2>4 DEF FailFeature
    <2>5. CASE UNCHANGED featureFile /\ unreleased' = unreleased \cup {<<m, f>>}
      <3>1. PICK q : q = featureFile[f]
        OBVIOUS
      <3>2. q \in FeatureRows /\ featureFile' = [featureFile EXCEPT ![f] = q]
        BY <2>5, <3>1 DEF FleetTyped
      <3>3. q = Locked(m, f) \/ (q = command[m].seen[f] /\ Unclaimed(m, f))
        BY <1>6, <2>1, <2>2, <3>1 DEF FleetJobFits
      <3>4. q.lock = "none" \/ q.lock = m
        BY <1>8, <3>3 DEF Unclaimed
      <3>5. q.status = "claimed" => q.lock # "none"
        BY <1>7, <3>1
      <3> QED BY <1>14, <1>15, <2>1, <2>2, <2>5, <3>1, <3>2, <3>4, <3>5 DEF FailFeature
    <2> QED BY <1>15, <2>2, <2>4, <2>5 DEF FailFeature
  \* The write fails, and with it the feature's review.
  <1>16. ASSUME Busy(m, j), job[m][j].at # "fail", job' = [job EXCEPT ![m][j].at = "fail"],
                UNCHANGED <<command, featureFile, findingFile, patchFile, outcomes>>
         PROVE  FleetFits'
    <2>1. PICK b \in JobStates : job' = [job EXCEPT ![m][j] = b] /\ b.at = "fail" /\ b.f = job[m][j].f
      BY <1>16, JobFails
    <2>2. /\ CommandFits(m)' /\ \A f \in FleetFeatures : LockFits(f)'
          /\ OnlyMoves(m)
          /\ \A k \in Jobs : job'[m][k] = IF k = j THEN b ELSE job[m][k]
      BY <1>12, <1>16, <2>1
    <2>3. \A k \in Jobs : FleetJobFits(m, k)'
      <3>1. ASSUME NEW k \in Jobs PROVE job'[m][k].at = "write" => job'[m][k].was = findingFile'[job'[m][k].x]
        BY <1>6, <1>16, <2>1, <2>2 DEF FleetJobFits
      <3> QED BY <1>12, <1>16, <2>1, <3>1
    <2> QED BY <1>9, <1>10, <1>11, <1>16, <2>2, <2>3
  <1>17. CASE FinishFeature(m, j)
    <2>1. Busy(m, j) /\ job[m][j].at # "fail"
      BY <1>17 DEF FinishFeature, Busy
    <2>2. PICK f \in FleetFeatures : f = job[m][j].f
      BY <1>1, <2>1 DEF JobCarries, Busy
    <2>3. PICK r : r = [Locked(m, f) EXCEPT
                           !.lock = "none", !.lists = @ \cup job[m][j].found,
                           !.status = IF job[m][j].found # {} THEN "needs-fix" ELSE "reviewed"]
      OBVIOUS
    <2>4. r \in FeatureRows /\ r.lock = "none" /\ r.status \notin {"claimed", "fixed"}
      <3>1. command[m].seen[f] \in FeatureRows /\ job[m][j].found \in SUBSET FleetFindings
        BY <1>1, <1>4 DEF JobStates
      <3> QED BY <2>3, <3>1 DEF Locked, FeatureRows, FeatureStatuses
    <2>5. CASE /\ featureFile' = [featureFile EXCEPT ![f] = r]
               /\ job' = [job EXCEPT ![m][j] = FreeJob]
      BY <1>14, <1>17, <2>1, <2>2, <2>4, <2>5 DEF FinishFeature
    <2>6. CASE job' = [job EXCEPT ![m][j].at = "fail"] /\ UNCHANGED featureFile
      BY <1>16, <1>17, <2>1, <2>6 DEF FinishFeature
    <2> QED BY <1>17, <2>2, <2>3, <2>5, <2>6 DEF FinishFeature
  <1>18. CASE TakeFeature(m, j)
    <2>1. PICK f \in command[m].todo :
              /\ command' = [command EXCEPT ![m].todo = @ \ {f}]
              /\ \/ /\ Unclaimed(m, f)
                    /\ featureFile' = [featureFile EXCEPT ![f] = Locked(m, f)]
                    /\ job' = [job EXCEPT ![m][j] = [FreeJob EXCEPT !.at = "provider", !.f = f]]
                 \/ /\ Unclaimed(m, f)
                    /\ UNCHANGED featureFile
                    /\ job' = [job EXCEPT ![m][j] = [FreeJob EXCEPT !.at = "fail", !.f = f]]
                 \/ /\ ~ Unclaimed(m, f)
                    /\ UNCHANGED <<featureFile, job>>
      BY <1>18 DEF TakeFeature
    <2>2. /\ ~ Busy(m, j) /\ f \in FleetFeatures
          /\ UNCHANGED <<findingFile, patchFile, outcomes>>
      BY <1>4, <1>18 DEF TakeFeature, Busy
    <2>3. /\ command'[m].todo = command[m].todo \ {f} /\ command'[m].seen = command[m].seen
          /\ command'[m].at = "jobs" /\ \A o \in Commands \ {m} : command'[o] = command[o]
      BY <1>1, <1>2, <2>1 DEF CommandStates, FleetTyped
    <2>4. \A g \in FleetFeatures : Locked(m, g)' = Locked(m, g) /\ (Unclaimed(m, g)' <=> Unclaimed(m, g))
      BY <2>3 DEF Locked, Unclaimed
    \* What a job at another feature still fits.
    <2>5. ASSUME NEW k \in Jobs, Busy(m, k), job'[m][k] = job[m][k],
                 \A g \in FleetFeatures \ {f} : featureFile'[g] = featureFile[g],
                 \A i \in Jobs : \/ job'[m][i].f = job[m][i].f /\ (Busy(m, i)' <=> Busy(m, i))
                                 \/ job'[m][i].f = f
          PROVE  FleetJobFits(m, k)'
      <3>1. PICK g \in FleetFeatures : g = job[m][k].f
        BY <1>6, <2>5 DEF JobCarries, Busy
      <3>2. /\ \/ featureFile[g] = Locked(m, g)
               \/ job[m][k].at = "fail" /\ featureFile[g] = command[m].seen[g]
            /\ Unclaimed(m, g) /\ g \notin command[m].todo
            /\ \A i \in Jobs \ {k} : Busy(m, i) => job[m][i].f # g
            /\ job[m][k].at = "write" => job[m][k].was = findingFile[job[m][k].x]
        BY <1>6, <2>5, <3>1 DEF FleetJobFits
      <3>3. g # f
        BY <3>2
      <3>4. /\ \/ featureFile'[g] = Locked(m, g)'
               \/ job[m][k].at = "fail" /\ featureFile'[g] = command'[m].seen[g]
            /\ Unclaimed(m, g)' /\ g \notin command'[m].todo
            /\ \A i \in Jobs \ {k} : Busy(m, i)' => job'[m][i].f # g
        BY <2>3, <2>4, <2>5, <3>2, <3>3
      <3> QED BY <2>2, <2>5, <3>1, <3>2, <3>4 DEF FleetJobFits
    <2>6. ASSUME Unclaimed(m, f), NEW at \in {"provider", "fail"},
                 job' = [job EXCEPT ![m][j] = [FreeJob EXCEPT !.at = at, !.f = f]],
                 \/ featureFile' = [featureFile EXCEPT ![f] = Locked(m, f)]
                 \/ at = "fail" /\ UNCHANGED featureFile
          PROVE  FleetFits'
      <3>1. PICK b : b = [FreeJob EXCEPT !.at = at, !.f = f]
        OBVIOUS
      <3>2. b.at = at /\ b.f = f
        BY <3>1 DEF FreeJob
      <3>3. /\ \/ featureFile'[f] = Locked(m, f)
               \/ at = "fail" /\ featureFile'[f] = featureFile[f]
            /\ \A g \in FleetFeatures \ {f} : featureFile'[g] = featureFile[g]
            /\ \A k \in Jobs : job'[m][k] = IF k = j THEN b ELSE job[m][k]
            /\ \A o \in Commands \ {m} : job'[o] = job[o]
        BY <2>1, <2>2, <2>6, <3>1 DEF FleetTyped
      <3>4. OnlyMoves(m)
        BY <1>3, <2>2, <2>3, <3>3 DEF OnlyMoves
      <3>5. CommandFits(m)'
        BY <1>4, <2>2, <2>3, <3>3 DEF CommandFits, At
      <3>6. ASSUME NEW k \in Jobs PROVE FleetJobFits(m, k)'
        <4>1. CASE k = j
          <5>1. \A i \in Jobs \ {j} : Busy(m, i)' => job'[m][i].f # f
            BY <1>6, <3>3 DEF FleetJobFits, Busy
          <5>2. /\ job'[m][j].f = f /\ job'[m][j].at = at
                /\ \/ featureFile'[f] = Locked(m, f)'
                   \/ at = "fail" /\ featureFile'[f] = command'[m].seen[f]
                /\ Unclaimed(m, f)' /\ f \notin command'[m].todo
            BY <1>4, <2>2, <2>3, <2>4, <2>6, <3>2, <3>3
          <5> QED BY <4>1, <5>1, <5>2 DEF FleetJobFits
        <4>2. CASE k # j /\ Busy(m, k)
          <5>1. \A i \in Jobs : \/ job'[m][i].f = job[m][i].f /\ (Busy(m, i)' <=> Busy(m, i))
                                \/ job'[m][i].f = f
            BY <3>2, <3>3 DEF Busy
          <5>2. job'[m][k] = job[m][k]
            BY <3>3, <4>2
          <5> QED BY <2>5, <3>3, <4>2, <5>1, <5>2
        <4>3. CASE k # j /\ ~ Busy(m, k)
          BY <3>3, <4>3 DEF FleetJobFits, Busy
        <4> QED BY <4>1, <4>2, <4>3
      <3>7. ASSUME NEW g \in FleetFeatures PROVE LockFits(g)'
        <4>1. CASE g = f
          <5>1. featureFile[f].lock = "none"
            BY <1>4, <2>6 DEF Unclaimed
          <5> QED BY <1>7, <1>8, <3>2, <3>3, <4>1, <5>1 DEF LockFits, Busy
        <4>2. CASE g # f
          <5>1. \A k \in Jobs : Busy(m, k) /\ job[m][k].f = g => job'[m][k].at # "free" /\ job'[m][k].f = g
            BY <2>2, <3>3 DEF Busy
          <5> QED BY <1>2, <1>7, <2>2, <3>3, <3>4, <4>2, <5>1, LocksKept
        <4> QED BY <4>1, <4>2
      <3>8. ASSUME NEW g \in FleetFeatures, ~ Dead PROVE FixedFits(g)'
        <4>1. CASE g = f /\ featureFile'[f] = Locked(m, f)
          BY <1>8, <4>1 DEF FixedFits
        <4> QED BY <1>10, <2>2, <3>3, <3>8, <4>1
      <3> QED BY <1>9, <1>11, <2>2, <3>4, <3>5, <3>6, <3>7, <3>8
    <2>7. CASE ~ Unclaimed(m, f)
      <3>1. UNCHANGED <<featureFile, job>>
        BY <2>1, <2>7
      <3>2. OnlyMoves(m)
        BY <1>3, <2>2, <2>3, <3>1 DEF OnlyMoves
      <3>3. CommandFits(m)'
        BY <1>4, <2>2, <2>3, <3>1 DEF CommandFits, At
      <3>4. ASSUME NEW k \in Jobs PROVE FleetJobFits(m, k)'
        <4>1. CASE Busy(m, k)
          BY <2>5, <3>1, <4>1 DEF Busy
        <4>2. CASE ~ Busy(m, k)
          BY <3>1, <4>2 DEF FleetJobFits, Busy
        <4> QED BY <4>1, <4>2
      <3>5. ASSUME NEW g \in FleetFeatures PROVE LockFits(g)'
        BY <1>2, <1>7, <2>2, <3>1, <3>2, LocksKept DEF Busy
      <3> QED BY <1>9, <1>10, <1>11, <2>2, <3>1, <3>2, <3>3, <3>4, <3>5
    <2> QED BY <2>1, <2>6, <2>7
  <1>19. CASE WriteFinding(m, j)
    <2>1. /\ Busy(m, j) /\ job[m][j].at = "write"
          /\ UNCHANGED <<command, featureFile, patchFile, outcomes>>
      BY <1>19 DEF WriteFinding, Busy
    <2>2. PICK f \in FleetFeatures, x \in FleetFindings : f = job[m][j].f /\ x = job[m][j].x
      BY <1>1, <2>1 DEF JobCarries, JobStates, Busy
    <2>3. /\ FeatureOf[x] = f /\ job[m][j].was = findingFile[x]
          /\ featureFile[f] = Locked(m, f)
          /\ \A k \in Jobs \ {j} : Busy(m, k) => job[m][k].f # f
      BY <1>6, <2>1, <2>2 DEF JobCarries, FleetJobFits, OfFeature
    <2>4. findingFile[x] \in FindingRows /\ DecisionFits(x)
      BY DEF FleetTyped, FleetFits
    <2>5. CASE /\ findingFile' = [findingFile EXCEPT ![x] = Merged(findingFile[x])]
               /\ job' = [job EXCEPT ![m][j] = [job[m][j] EXCEPT
                      !.left = @ \ {x}, !.x = "none", !.was = NoFindingFile,
                      !.at = IF job[m][j].left = {x} THEN "finish" ELSE "read"]]
      <3>1. PICK b : b = [job[m][j] EXCEPT
                             !.left = @ \ {x}, !.x = "none", !.was = NoFindingFile,
                             !.at = IF job[m][j].left = {x} THEN "finish" ELSE "read"]
        OBVIOUS
      <3>2. b \in JobStates /\ b.at \in {"finish", "read"} /\ b.f = f
        BY <1>1, <2>2, <3>1 DEF JobStates, FindingRows, NoFindingFile
      <3>3. job' = [job EXCEPT ![m][j] = b]
        BY <2>5, <3>1
      <3>4. /\ findingFile'[x] = Merged(findingFile[x])
            /\ \A y \in FleetFindings \ {x} : findingFile'[y] = findingFile[y]
        BY <2>5 DEF FleetTyped
      <3>5. /\ findingFile'[x].status # "absent"
            /\ findingFile'[x].history = decided[x]
            /\ findingFile[x].patches \subseteq findingFile'[x].patches
        BY <2>4, <3>4 DEF Merged, DecisionFits, Known, NoFindingFile, FindingRows
      <3>6. /\ CommandFits(m)' /\ \A g \in FleetFeatures : LockFits(g)'
            /\ \A k \in Jobs : job'[m][k] = IF k = j THEN b ELSE job[m][k]
            /\ OnlyMoves(m)
        <4>1. \A y \in FleetFindings : findingFile[y].patches \subseteq findingFile'[y].patches
          BY <3>4, <3>5
        <4> QED BY <1>12, <2>1, <2>2, <3>2, <3>3, <4>1
      <3>7. ASSUME NEW k \in Jobs PROVE FleetJobFits(m, k)'
        <4>1. job'[m][k].at = "write" => job'[m][k].was = findingFile'[job'[m][k].x]
          <5>1. CASE k = j
            BY <3>2, <3>6, <5>1
          <5>2. CASE k # j /\ job[m][k].at = "write"
            <6>1. PICK y \in FleetFindings : y = job[m][k].x /\ FeatureOf[y] = job[m][k].f
              BY <1>6, <5>2 DEF JobCarries, OfFeature
            <6>2. y # x /\ job[m][k].was = findingFile[y]
              BY <1>6, <2>3, <5>2, <6>1 DEF FleetJobFits, Busy
            <6> QED BY <3>4, <3>6, <5>2, <6>1, <6>2
          <5> QED BY <3>6, <5>1, <5>2
        <4> QED BY <1>12, <2>1, <2>2, <3>2, <3>3, <4>1
      <3>8. ASSUME NEW y \in FleetFindings PROVE DecisionFits(y)'
        <4>1. CASE y = x
          BY <2>1, <3>5, <4>1 DEF DecisionFits, Known
        <4>2. CASE y # x
          BY <2>1, <3>4, <4>2 DEF FleetFits, DecisionFits, Known
        <4> QED BY <4>1, <4>2
      <3>9. ASSUME NEW g \in FleetFeatures, ~ Dead PROVE FixedFits(g)'
        <4>1. CASE g = f
          BY <1>8, <2>1, <2>3, <4>1 DEF FixedFits
        <4>2. CASE g # f
          BY <1>5, <2>1, <2>3, <3>4, <3>9, <4>2 DEF Resolved, FixedFits, Unresolved, OfFeature
        <4> QED BY <4>1, <4>2
      <3> QED BY <1>9, <3>6, <3>7, <3>8, <3>9
    <2>6. CASE job' = [job EXCEPT ![m][j].at = "fail"] /\ UNCHANGED findingFile
      BY <1>16, <2>1, <2>6
    <2> QED BY <1>19, <2>2, <2>3, <2>5, <2>6 DEF WriteFinding
  <1> QED BY <1>13, <1>15, <1>17, <1>18, <1>19 DEF JobWorks

\* The running command is killed.
LEMMA KillFits ==
  ASSUME FleetTyped, FleetFits, NEW m \in Commands, KillCommand(m) PROVE FleetFits'
  <1> USE DEF outcomes
  <1>1. /\ Running(m) /\ UNCHANGED <<featureFile, findingFile, patchFile, outcomes>>
        /\ command' = [command EXCEPT ![m] = [Unstarted EXCEPT !.at = "dead"]]
        /\ job' = [job EXCEPT ![m] = [j \in Jobs |-> FreeJob]]
    BY DEF KillCommand
  <1>2. /\ command'[m].at = "dead" /\ \A o \in Commands \ {m} : command'[o] = command[o] /\ job'[o] = job[o]
        /\ \A j \in Jobs : job'[m][j] = FreeJob
    BY <1>1 DEF Unstarted, FleetTyped
  <1>3. OnlyMoves(m)
    BY <1>1, <1>2, OthersRest DEF OnlyMoves
  <1>4. CommandFits(m)' /\ \A j \in Jobs : FleetJobFits(m, j)'
    BY <1>2 DEF CommandFits, At, FleetJobFits, Busy, FreeJob
  <1>5. ASSUME NEW f \in FleetFeatures PROVE LockFits(f)'
    <2>1. LockFits(f) /\ (featureFile[f].lock # "none" => featureFile[f].lock \in Commands)
      BY DEF FleetFits, FleetTyped, FeatureRows
    <2> QED BY <1>1, <1>2, <2>1 DEF LockFits, Busy
  <1>6. \A x \in FleetFindings : DecisionFits(x)'
    BY <1>1 DEF FleetFits, DecisionFits, Known
  <1>7. Dead'
    BY <1>2 DEF Dead
  <1> QED BY <1>3, <1>4, <1>5, <1>6, <1>7, OtherCommandsFit DEF FleetFits

\* A step that changes no record and no command.
LEMMA StutterFits ==
  ASSUME FleetFits, featureFile' = featureFile, findingFile' = findingFile, patchFile' = patchFile,
         command' = command, job' = job, outcomes' = outcomes
  PROVE  FleetFits'
  <1> USE DEF outcomes
  <1>1. ASSUME NEW m \in Commands PROVE CommandFits(m)' /\ \A j \in Jobs : FleetJobFits(m, j)'
    <2>1. CommandFits(m) /\ \A j \in Jobs : FleetJobFits(m, j)
      BY DEF FleetFits
    <2>2. CommandFits(m)'
      BY <2>1 DEF CommandFits, CopyFits, At, Known, Unresolved
    <2>3. ASSUME NEW j \in Jobs PROVE FleetJobFits(m, j)'
      BY <2>1 DEF FleetJobFits, Busy, Locked, Unclaimed
    <2> QED BY <2>2, <2>3
  <1>2. \A f \in FleetFeatures : LockFits(f)' /\ (Dead' \/ FixedFits(f)')
    BY DEF FleetFits, LockFits, FixedFits, Dead, Unresolved, Busy
  <1>3. \A x \in FleetFindings : DecisionFits(x)'
    BY DEF FleetFits, DecisionFits, Known
  <1>4. \A m, o \in Commands : Running(m)' /\ Running(o)' => m = o
    BY DEF FleetFits, Running
  <1>5. Dead' \/ \A f \in FleetFeatures : FixedFits(f)'
    BY <1>2
  <1> QED BY <1>1, <1>2, <1>3, <1>4, <1>5 DEF FleetFits

LEMMA FleetInvStep == FleetInv /\ [FleetNext]_fleetVars => FleetInv'
  <1> SUFFICES ASSUME FleetInv, [FleetNext]_fleetVars PROVE FleetInv'
    OBVIOUS
  <1>1. FleetTyped /\ FleetTyped'
    BY FleetKeepsTypes DEF FleetInv
  <1>2. CASE overlapped
    <2>1. \A m \in Commands : \A c : Starts(m, c) => overlapped'
      BY <1>2 DEF Starts
    <2>2. \A m \in Commands : CommandStarts(m) => overlapped'
      BY <2>1 DEF CommandStarts, StartReview, StartRevalidate, StartMap, StartCleanLocks, StartTriage, StartFix
    <2>3. \A m \in Commands : CommandWorks(m) => overlapped'
      BY <1>2 DEF CommandWorks, EndReview, DecideStatus, RevalidateThrows, ReadForRefresh, WriteRefreshed,
         WritePlan, HearFix, LinkPatch, WriteNext
    <2>4. ASSUME NEW m \in Commands, NEW j \in Jobs, JobWorks(m, j) PROVE overlapped'
      <3>1. TakeFeature(m, j) => overlapped'
        BY <1>2 DEF TakeFeature
      <3>2. HearReview(m, j) \/ ReadExisting(m, j) => overlapped'
        BY <1>2 DEF HearReview, ReadExisting
      <3>3. WriteFinding(m, j) => overlapped'
        BY <1>2 DEF WriteFinding
      <3>4. FinishFeature(m, j) \/ FailFeature(m, j) => overlapped'
        BY <1>2 DEF FinishFeature, FailFeature
      <3> QED BY <2>4, <3>1, <3>2, <3>3, <3>4 DEF JobWorks
    <2>5. /\ \A m \in Commands : KillCommand(m) => overlapped'
          /\ \A f \in FleetFeatures : Edit(f) => overlapped'
          /\ UNCHANGED fleetVars => overlapped'
      BY <1>2 DEF KillCommand, Edit, fleetVars
    <2> QED BY <1>1, <2>2, <2>3, <2>4, <2>5 DEF FleetNext, FleetInv
  <1>3. CASE FleetFits /\ ~ overlapped'
    <2>1. ASSUME NEW f \in FleetFeatures, Edit(f) PROVE FleetFits'
      BY <1>3, <2>1, StutterFits DEF Edit
    <2>2. ASSUME UNCHANGED fleetVars PROVE FleetFits'
      <3>1. /\ featureFile' = featureFile /\ findingFile' = findingFile /\ patchFile' = patchFile
            /\ command' = command /\ job' = job /\ outcomes' = outcomes
        BY <2>2 DEF fleetVars, outcomes
      <3> QED BY <1>3, <3>1, StutterFits
    <2>3. ASSUME NEW m \in Commands, CommandStarts(m) PROVE FleetFits'
      BY <1>1, <1>3, <2>3, CommandStartsFit
    <2>4. ASSUME NEW m \in Commands, CommandWorks(m) PROVE FleetFits'
      BY <1>1, <1>3, <2>4, CommandWorksFit
    <2>5. ASSUME NEW m \in Commands, NEW j \in Jobs, JobWorks(m, j) PROVE FleetFits'
      BY <1>1, <1>3, <2>5, JobWorksFit
    <2>6. ASSUME NEW m \in Commands, KillCommand(m) PROVE FleetFits'
      BY <1>1, <1>3, <2>6, KillFits
    <2> QED BY <1>1, <2>1, <2>2, <2>3, <2>4, <2>5, <2>6 DEF FleetNext, FleetInv
  <1> QED BY <1>1, <1>2, <1>3 DEF FleetInv, FleetTyped

LEMMA FleetInvStarts == FleetInit => FleetInv
  <1> SUFFICES ASSUME FleetInit PROVE FleetInv
    OBVIOUS
  <1>1. /\ \A m \in Commands : command[m] = Unstarted /\ patchFile[m] = "absent"
        /\ \A m \in Commands, j \in Jobs : job[m][j] = FreeJob
        /\ \A x \in FleetFindings : findingFile[x] = NoFindingFile /\ decided[x] = {}
    BY DEF FleetInit
  <1>2. \A m \in Commands : ~ Running(m) /\ CommandFits(m) /\ \A j \in Jobs : FleetJobFits(m, j)
    BY <1>1 DEF Unstarted, Running, CommandFits, At, FleetJobFits, Busy, FreeJob
  <1>3. ASSUME NEW f \in FleetFeatures PROVE LockFits(f) /\ FixedFits(f)
    <2>1. \/ featureFile[f] = NoFile
          \/ featureFile[f] = [NoFile EXCEPT !.status = "pending", !.seed = seeds[f]]
      BY DEF FleetInit
    <2>2. featureFile[f].status \in {"absent", "pending"} /\ featureFile[f].lock = "none"
      <3> DEFINE s == seeds[f]
      <3>1. \/ featureFile[f] = NoFile
            \/ featureFile[f] = [NoFile EXCEPT !.status = "pending", !.seed = s]
        BY <2>1
      <3> HIDE DEF s
      <3>2. CASE featureFile[f] = NoFile
        BY <3>2 DEF NoFile
      <3>3. CASE featureFile[f] = [NoFile EXCEPT !.status = "pending", !.seed = s]
        BY <3>3 DEF NoFile
      <3> QED BY <3>1, <3>2, <3>3
    <2> QED BY <2>2 DEF LockFits, FixedFits
  <1>4. \A x \in FleetFindings : DecisionFits(x)
    BY <1>1 DEF DecisionFits, Known, NoFindingFile
  <1> QED BY <1>2, <1>3, <1>4, FleetStarts DEF FleetInv, FleetFits

\* Features, findings, patch attempts, commands and jobs are always well formed.
THEOREM FleetTypeCorrect == FleetSpec => []FleetTypeOK
  <1>1. FleetTyped => FleetTypeOK
    BY DEF FleetTyped, FleetTypeOK, FeatureRows, FeatureStatuses, FindingRows, CommandStates, CommandPlaces, JobStates
  <1> QED BY <1>1, FleetStarts, FleetKeepsTypes, PTL DEF FleetSpec

\* As long as commands do not overlap, locks belong to jobs, to killed runs or
\* to runs that failed to write the release, decisions and patches are kept, and a fixed feature is resolved.
THEOREM FleetStaysSound == FleetSpec => []FleetIsSound
  <1>1. FleetInv => FleetIsSound
    <2> SUFFICES ASSUME FleetTyped, FleetFits PROVE FleetIsSound
      BY DEF FleetInv, FleetIsSound, LocksAreSound, DecisionsAreKept, FixedIsResolved
    <2>1. LocksAreSound
      <3>1. ASSUME NEW f \in FleetFeatures
            PROVE  /\ featureFile[f].status = "claimed" => featureFile[f].lock # "none"
                   /\ featureFile[f].lock # "none" =>
                          \/ command[featureFile[f].lock].at = "dead"
                          \/ WorksOn(featureFile[f].lock, f)
                          \/ <<featureFile[f].lock, f>> \in unreleased
        BY DEF FleetFits, LockFits, WorksOn
      <3>2. ASSUME NEW m \in Commands, NEW j \in Jobs, job[m][j].f # "none"
            PROVE  /\ \/ featureFile[job[m][j].f].lock = m
                      \/ featureFile[job[m][j].f].lock = "none" /\ job[m][j].at = "fail"
                   /\ \A k \in Jobs \ {j} : job[m][k].f # job[m][j].f
        <4>1. \A k \in Jobs : job[m][k].f # "none" => Busy(m, k)
          BY DEF FleetTyped, JobCarries, Busy
        <4>2. /\ job[m][j].f \in FleetFeatures /\ command[m].seen[job[m][j].f] \in FeatureRows
          BY <3>2, <4>1 DEF FleetTyped, JobCarries, CommandCarries, Busy
        <4>3. /\ \/ featureFile[job[m][j].f] = Locked(m, job[m][j].f)
                 \/ /\ job[m][j].at = "fail" /\ Unclaimed(m, job[m][j].f)
                    /\ featureFile[job[m][j].f] = command[m].seen[job[m][j].f]
              /\ \A k \in Jobs \ {j} : Busy(m, k) => job[m][k].f # job[m][j].f
          BY <3>2, <4>1 DEF FleetFits, FleetJobFits
        <4>4. \/ featureFile[job[m][j].f].lock = m
              \/ featureFile[job[m][j].f].lock = "none" /\ job[m][j].at = "fail"
          BY <4>2, <4>3 DEF Locked, Unclaimed, FeatureRows
        <4> QED BY <3>2, <4>1, <4>3, <4>4
      <3> QED BY <3>1, <3>2 DEF LocksAreSound
    <2>2. DecisionsAreKept
      BY DEF DecisionsAreKept, FleetFits, DecisionFits, CommandFits, At
    <2>3. FixedIsResolved
      BY DEF FixedIsResolved, FleetFits, FixedFits, Dead
    <2> QED BY <2>1, <2>2, <2>3 DEF FleetIsSound
  <1> QED BY <1>1, FleetInvStarts, FleetInvStep, PTL DEF FleetSpec
=============================================================================
