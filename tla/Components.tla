----------------------------- MODULE Components -----------------------------
(***************************************************************************)
(* Components that share no row while they run: deposits, the ACP rail,    *)
(* the scan rail, the agreement gate, the review kernel, the life of a     *)
(* finding with its disclosure, the scorecard, the upload of another       *)
(* scanner's report and the command line.  Since a behaviour of one never  *)
(* meets a behaviour of another, each of them runs in casts of its own: a  *)
(* cast names the component that moves and the participants that take      *)
(* part.  The others stay where they are.                                  *)
(***************************************************************************)
EXTENDS Deposits, AcpRail, ScanRail, AgreementGate, Disclosure, ReviewKernel, Scorecard,
        SarifIngest, FleetState

\* Records with part, who takes part, tries (the attempts of a review),
\* faultsAt (where an ACP worker or a publication may meet a fault), setups
\* (what a kernel may find) and alone (commands of the command line do not
\* overlap).
CONSTANT Casts

VARIABLE cast

componentVars ==
    <<cast, depositVars, acpVars, scanVars, gateVars, disclosureVars, kernelVars,
      scorecardVars, sarifVars, fleetVars>>

ComponentsInit ==
    /\ cast \in Casts
    /\ DepositsInit /\ AcpInit /\ ScanInit /\ GateInit /\ DisclosureInit
    /\ KernelInit /\ ScorecardInit /\ SarifInit /\ FleetInit
    /\ cast.part # "gate" => asked.caller = "reviewPR" /\ asked.mode = "unanimous"
                             /\ ~ asked.docsOnly
    /\ setup \in cast.setups
    /\ cast.part # "kernel" => threatModel = NoModel
    /\ \E s \in Seeds : seeds = [f \in FleetFeatures |->
           IF cast.part = "fleet" /\ f \in cast.who THEN s ELSE "gone"]

\* The participants of a kind that take part.
Here(S) == S \cap cast.who

InDeposits(A) ==
    /\ cast.part = "deposits" /\ A
    /\ UNCHANGED <<cast, acpVars, scanVars, gateVars, disclosureVars,
                   kernelVars, scorecardVars, sarifVars, fleetVars>>

InAcp(A) ==
    /\ cast.part = "acp" /\ A
    /\ acpFaults' > acpFaults => \E w \in AcpWorkers : provider[w].at \in cast.faultsAt
    /\ UNCHANGED <<cast, depositVars, scanVars, gateVars, disclosureVars,
                   kernelVars, scorecardVars, sarifVars, fleetVars>>

InScan(A) ==
    /\ cast.part = "scan" /\ A
    /\ UNCHANGED <<cast, depositVars, acpVars, gateVars, disclosureVars,
                   kernelVars, scorecardVars, sarifVars, fleetVars>>

InGate(A) ==
    /\ cast.part = "gate" /\ A
    /\ UNCHANGED <<cast, depositVars, acpVars, scanVars, disclosureVars,
                   kernelVars, scorecardVars, sarifVars, fleetVars>>

InDisclosure(A) ==
    /\ cast.part = "disclosure" /\ A
    /\ disclosureFaults' > disclosureFaults => \E p \in Publishers : publisher[p].at \in cast.faultsAt
    /\ UNCHANGED <<cast, depositVars, acpVars, scanVars, gateVars,
                   kernelVars, scorecardVars, sarifVars, fleetVars>>

InKernel(A) ==
    /\ cast.part = "kernel" /\ A
    /\ UNCHANGED <<cast, depositVars, acpVars, scanVars, gateVars,
                   disclosureVars, scorecardVars, sarifVars, fleetVars>>

InScorecard(A) ==
    /\ cast.part = "scorecard" /\ A
    /\ UNCHANGED <<cast, depositVars, acpVars, scanVars, gateVars,
                   disclosureVars, kernelVars, sarifVars, fleetVars>>

InSarif(A) ==
    /\ cast.part = "sarif" /\ A
    /\ UNCHANGED <<cast, depositVars, acpVars, scanVars, gateVars,
                   disclosureVars, kernelVars, scorecardVars, fleetVars>>

InFleet(A) ==
    /\ cast.part = "fleet" /\ A
    /\ cast.alone => ~ overlapped'
    /\ UNCHANGED <<cast, depositVars, acpVars, scanVars, gateVars, disclosureVars,
                   kernelVars, scorecardVars, sarifVars>>

InLifecycle(A) ==
    InDisclosure(LifecycleStep(A))

-----------------------------------------------------------------------------

DepositsMove == InDeposits(
    \/ Mine({})
    \/ \E t \in Here(Txs) : Mine({t}) \/ Fork(t)
    \/ \E i \in Here(Installs) : Bind(i) \/ \E w \in Here(Wallets) : Register(i, w)
    \/ \E p \in Here(Posts) :
           \/ \E i \in Here(Installs), t \in Here(Txs) : LoadInstall(p, i, t)
           \/ ReadReceipt(p) \/ ReadTip(p) \/ EnsureChannel(p) \/ CreditDeposit(p)
           \/ ActivateIfFunded(p) \/ PostDies(p)
    \/ \E s \in Here(Scanners) :
           \/ ScanBegin(s) \/ FetchLogs(s) \/ MatchLog(s) \/ InsertPayment(s)
           \/ BumpBalance(s) \/ ScanActivates(s) \/ WriteCursor(s) \/ ScanDies(s))

EventsHere == {e \in Events : e[2] \in cast.who}

AcpMoves == InAcp(
    \/ \E j \in Here(AcpJobs) : ClientCreates(j) \/ ClientFunds(j)
    \/ \E e \in EventsHere : Redeliver(e) \/ RetryTimePasses(e)
    \/ \E t \in Here(AcpTargets) : OtherRailReviews(t)
    \/ \E w \in Here(AcpWorkers) :
           \/ Drain(w) \/ Works(w) \/ WorkerDies(w)
           \/ \E e \in Events : TakeDue(w, e)
           \/ \E j \in AcpJobs : TakeOrphan(w, j) \/ TakeStuck(w, j))

ScansMove == InScan(ScanNext)

GateMoves == InGate(GateNext)

FindingMoves == InLifecycle(
    \/ StartAttempt /\ attempt'.n <= cast.tries
    \/ \E severity \in {"none", "low", "high"} : Decide(severity)
    \/ RecordFinding \/ InitializeDisclosure \/ SetReviewComment \/ RecordPatch \/ AttemptDies
    \/ "comment" \in cast.who /\ (PostComment \/ Retract)
    \/ \E t \in Here(Ticks) :
           \/ LoadClosure(t) \/ PostReceipt(t) \/ MarkFinding(t) \/ TickDies(t)
           \/ \E mark \in {"accepted", "clicked"} : LoadAcceptance(t, mark))

DisclosureMoves == InDisclosure(
    \/ TimePasses \/ Acknowledge \/ MarkPatchMerged \/ ExpireEmbargo \/ ReservationAges
    \/ \E p \in Here(Publishers) :
           \/ \E actor \in {"system", "operator"} : LoadDisclosure(p, actor)
           \/ Publishes(p) \/ PublisherDies(p))

KernelMoves == InKernel(
    \/ "operator" \in cast.who /\ SetRepoTier
    \/ \E k \in Here(Kernels) :
        \/ \E rail \in {"install", "paid"}, wanted, empty \in BOOLEAN :
               StartKernel(k, rail, wanted, empty)
        \/ \E found \in SUBSET Here(Findings), high \in SUBSET Here(Findings),
             shadows \in SUBSET Here(Shadows) :
               Review(k, found, high, shadows)
        \/ LoadThreatModel(k)
        \/ \E tree, touched \in BOOLEAN : StoreThreatModel(k, tree, touched)
        \/ \E unreachable \in SUBSET Findings : ReachabilityGate(k, unreachable)
        \/ \E confirmed \in SUBSET Shadows : Adjudicate(k, confirmed)
        \/ UpdateReview(k) \/ RecordFindings(k) \/ DiscloseFindings(k) \/ RecordShadows(k)
        \/ FirstSummary(k) \/ PatchAgent(k) \/ PatchAgentFails(k) \/ VerifyPatches(k)
        \/ \E read \in BOOLEAN : Comment(k, read)
        \/ SetKernelComment(k) \/ RecordPatchDecisions(k)
        \/ \E f \in Findings : CommentInline(k, f)
        \/ ProposeEvents(k) \/ KernelStops(k))

ScorecardMoves == InScorecard(
    \/ Tick
    \/ \E o \in Here(Operators) :
           \/ \E r \in Here(Repos), tier \in Tiers : AskTier(o, r, tier)
           \/ SetTier(o)
    \/ \E g \in Here(Generators) :
           (\E w \in Weeks : ReadWeek(g, w)) \/ ReadRolling(g) \/ InsertSnapshot(g)
    \/ \E q \in Here(Readers) :
           (\E w \in Weeks : AskSnapshot(q, w)) \/ ReadRow(q) \/ ReadCutoff(q) \/ Serve(q))

SarifMoves == InSarif(SarifNext)

FleetMoves == InFleet(
    \/ \E f \in Here(FleetFeatures) : Edit(f)
    \/ \E m \in Here(Commands) :
           \/ CommandStarts(m) \/ CommandWorks(m) \/ KillCommand(m)
           \/ \E j \in Here(Jobs) : JobWorks(m, j))

ComponentsNext ==
    \/ DepositsMove \/ AcpMoves \/ ScansMove \/ GateMoves \/ FindingMoves \/ DisclosureMoves
    \/ KernelMoves \/ ScorecardMoves \/ SarifMoves \/ FleetMoves

ComponentsSpec == ComponentsInit /\ [][ComponentsNext]_componentVars

Playing(w, A) == w \in cast.who /\ A

\* A process that is not killed keeps executing.  The ACP worker is started
\* every minute, drains what is in the spool, and reaches an event or a job
\* that stays due or keeps becoming due: its passes go by age.  The daily
\* disclosure cron does the same for rows that may be published.
ComponentsFairness ==
    /\ \A w \in AcpWorkers :
           /\ WF_componentVars(InAcp(Playing(w, Drain(w))))
           /\ WF_componentVars(InAcp(Playing(w, Works(w))))
           /\ \A e \in Events : SF_componentVars(InAcp(Playing(w, TakeDue(w, e))))
           /\ \A j \in AcpJobs :
                  /\ SF_componentVars(InAcp(Playing(w, TakeOrphan(w, j))))
                  /\ SF_componentVars(InAcp(Playing(w, TakeStuck(w, j))))
    /\ \A e \in Events : WF_componentVars(InAcp(e \in EventsHere /\ RetryTimePasses(e)))
    /\ \A p \in Publishers :
           /\ WF_componentVars(InDisclosure(Playing(p, Publishes(p))))
           /\ SF_componentVars(InDisclosure(Playing(p, LoadDisclosure(p, "system"))))
    /\ WF_componentVars(InDisclosure(ReservationAges))

ComponentsFairSpec == ComponentsSpec /\ ComponentsFairness

-----------------------------------------------------------------------------

\* Every variable of the components holds values of its type.
ComponentsTypeOK ==
    /\ DepositsTypeOK /\ AcpTypeOK /\ ScanTypeOK /\ GateTypeOK /\ DisclosureTypeOK
    /\ KernelTypeOK /\ ScorecardTypeOK /\ SarifTypeOK /\ FleetTypeOK

\* The ACP worker leaves nothing behind: events end, and so do queued jobs
\* (processInboxEvent, recoverAcpReviewJobs).
AcpWorkEnds == RecordedEventEnds /\ QueuedAcpJobEnds
=============================================================================
