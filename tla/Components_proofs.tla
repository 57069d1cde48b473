------------------------- MODULE Components_proofs -------------------------
(***************************************************************************)
(* Proofs about the composition: a behaviour of Components is a behaviour  *)
(* of every component, whatever the casts, so what is proved of each of    *)
(* them holds of all together in the runs of Components.                   *)
(*                                                                         *)
(* Before it, the one component that has no module of proofs, paid         *)
(* repository scans, for any number of calls, authorizations and faults,   *)
(* and any limit.  An authorization that was claimed has one owner, the    *)
(* call that claimed it; while its owner works the claim reads claimed,    *)
(* and before the owner asks for settlement nothing is captured.  Passed   *)
(* claims that count are among the claims the last one to pass has         *)
(* counted.                                                                *)
(***************************************************************************)
EXTENDS Components, Deposits_proofs, AcpRail_proofs, Publication_proofs, CommandLine_proofs

-----------------------------------------------------------------------------
(* Paid scans.                                                             *)

Working == {"rate", "scan", "settle", "record", "refused"}

\* A call that presented an authorization finds it claimed, by itself or not.
Presented ==
    \A c \in ScanCalls : scanCall[c].at # "idle" =>
        scanCall[c].auth \in ScanAuths /\ claim[scanCall[c].auth] # "absent"

\* One call owns an authorization.
Owner(c) == scanCall[c].at \notin {"idle", "duplicate"}
OneOwner ==
    \A c, d \in ScanCalls : Owner(c) /\ Owner(d) /\ scanCall[c].auth = scanCall[d].auth => c = d

ClaimedWhileWorking ==
    \A c \in ScanCalls : scanCall[c].at \in Working => claim[scanCall[c].auth] = "claimed"

\* When money moves.
UnpaidBeforeSettling ==
    \A c \in ScanCalls : scanCall[c].at \in {"rate", "scan", "settle"} =>
        scanCall[c].auth \notin captured
PaidOnceSettled ==
    \A c \in ScanCalls : scanCall[c].at \in {"record", "settled"} => scanCall[c].auth \in captured

UnclaimedIsUntouched == \A a \in ScanAuths : claim[a] = "absent" => a \notin captured \cup passed

Free == {"rate_limited", "scan_failed", "no_reviewable_files"}
FreeIsUnpaid == \A a \in ScanAuths : claim[a] \in Free => a \notin captured

OwnerInv ==
    /\ ScanTypeOK /\ Presented /\ OneOwner /\ ClaimedWhileWorking
    /\ UnpaidBeforeSettling /\ PaidOnceSettled /\ UnclaimedIsUntouched /\ FreeIsUnpaid

LEMMA OwnersStart == ScanInit => OwnerInv
  BY ScanAssumption DEF ScanInit, OwnerInv, ScanTypeOK, ScanEnds, Presented, OneOwner, Owner,
     ClaimedWhileWorking, Working, UnpaidBeforeSettling, PaidOnceSettled, UnclaimedIsUntouched,
     FreeIsUnpaid, Free

LEMMA ClaimKeepsOwners ==
  ASSUME OwnerInv, NEW c \in ScanCalls, NEW a \in ScanAuths, ClaimScan(c, a) PROVE OwnerInv'
  <1>1. CASE /\ claim[a] = "absent" /\ claim' = [claim EXCEPT ![a] = "claimed"]
             /\ scanCall' = [scanCall EXCEPT ![c] = [at |-> "rate", auth |-> a]]
    <2>1. ScanTypeOK' /\ Presented' /\ OneOwner'
      BY <1>1, ScanAssumption DEF ClaimScan, ScanAt, OwnerInv, ScanTypeOK, ScanEnds, Presented, OneOwner,
       Owner, ClaimedWhileWorking, Working, UnpaidBeforeSettling, PaidOnceSettled,
       UnclaimedIsUntouched, FreeIsUnpaid, Free
    <2>2. ClaimedWhileWorking' /\ UnpaidBeforeSettling' /\ PaidOnceSettled'
      BY <1>1, ScanAssumption DEF ClaimScan, ScanAt, OwnerInv, ScanTypeOK, ScanEnds, Presented, OneOwner,
       Owner, ClaimedWhileWorking, Working, UnpaidBeforeSettling, PaidOnceSettled,
       UnclaimedIsUntouched, FreeIsUnpaid, Free
    <2>3. UnclaimedIsUntouched' /\ FreeIsUnpaid'
      BY <1>1, ScanAssumption DEF ClaimScan, ScanAt, OwnerInv, ScanTypeOK, ScanEnds, Presented, OneOwner,
       Owner, ClaimedWhileWorking, Working, UnpaidBeforeSettling, PaidOnceSettled,
       UnclaimedIsUntouched, FreeIsUnpaid, Free
    <2> QED BY <2>1, <2>2, <2>3 DEF OwnerInv
  <1>2. CASE /\ scanCall' = [scanCall EXCEPT ![c] = [at |-> "duplicate", auth |-> a]]
             /\ claim' = claim
    BY <1>2, ScanAssumption DEF ClaimScan, ScanAt, OwnerInv, ScanTypeOK, ScanEnds, Presented, OneOwner,
       Owner, ClaimedWhileWorking, Working, UnpaidBeforeSettling, PaidOnceSettled,
       UnclaimedIsUntouched, FreeIsUnpaid, Free
  <1> QED BY <1>1, <1>2 DEF ClaimScan

LEMMA CheckKeepsOwners ==
  ASSUME OwnerInv, NEW c \in ScanCalls, CheckWalletLimit(c) PROVE OwnerInv'
  <1>1. CASE ScanGoes(c, "scan") /\ passed' = passed \cup {scanCall[c].auth} /\ UNCHANGED claim
    BY <1>1 DEF CheckWalletLimit, ScanAt, ScanGoes, OwnerInv, ScanTypeOK, ScanEnds, Presented,
       OneOwner, Owner, ClaimedWhileWorking, Working, UnpaidBeforeSettling, PaidOnceSettled,
       UnclaimedIsUntouched, FreeIsUnpaid, Free
  <1>2. CASE EndScan(c, "rate_limited") /\ UNCHANGED passed
    BY <1>2 DEF CheckWalletLimit, ScanAt, ScanGoes, EndScan, OwnerInv, ScanTypeOK, ScanEnds,
       Presented, OneOwner, Owner, ClaimedWhileWorking, Working, UnpaidBeforeSettling,
       PaidOnceSettled, UnclaimedIsUntouched, FreeIsUnpaid, Free
  <1> QED BY <1>1, <1>2 DEF CheckWalletLimit

LEMMA ScanKeepsOwners ==
  ASSUME OwnerInv, NEW c \in ScanCalls, ScanRepo(c) PROVE OwnerInv'
  <1>1. CASE ScanGoes(c, "settle") /\ UNCHANGED claim
    <2>1. ScanTypeOK' /\ Presented' /\ OneOwner'
      BY <1>1 DEF ScanRepo, ScanAt, ScanGoes, OwnerInv, ScanTypeOK, ScanEnds, Presented,
         OneOwner, Owner, ClaimedWhileWorking, Working, UnpaidBeforeSettling, PaidOnceSettled,
         UnclaimedIsUntouched, FreeIsUnpaid, Free
    <2>2. ClaimedWhileWorking' /\ UnpaidBeforeSettling' /\ PaidOnceSettled'
      BY <1>1 DEF ScanRepo, ScanAt, ScanGoes, OwnerInv, ScanTypeOK, ScanEnds, Presented,
         OneOwner, Owner, ClaimedWhileWorking, Working, UnpaidBeforeSettling, PaidOnceSettled,
         UnclaimedIsUntouched, FreeIsUnpaid, Free
    <2>3. UnclaimedIsUntouched' /\ FreeIsUnpaid'
      BY <1>1 DEF ScanRepo, ScanAt, ScanGoes, OwnerInv, ScanTypeOK, ScanEnds, Presented,
         OneOwner, Owner, ClaimedWhileWorking, Working, UnpaidBeforeSettling, PaidOnceSettled,
         UnclaimedIsUntouched, FreeIsUnpaid, Free
    <2> QED BY <2>1, <2>2, <2>3 DEF OwnerInv
  <1>2. ASSUME NEW status \in {"scan_failed", "no_reviewable_files"}, EndScan(c, status)
        PROVE  OwnerInv'
    BY <1>2 DEF ScanRepo, ScanAt, ScanGoes, EndScan, OwnerInv, ScanTypeOK, ScanEnds, Presented, OneOwner, Owner,
     ClaimedWhileWorking, Working, UnpaidBeforeSettling, PaidOnceSettled, UnclaimedIsUntouched,
     FreeIsUnpaid, Free
  <1> QED BY <1>1, <1>2 DEF ScanRepo

\* The one step that moves money: its authorization has no other owner.
LEMMA SettleKeepsOwners ==
  ASSUME OwnerInv, NEW c \in ScanCalls, SettleScan(c) PROVE OwnerInv'
  <1> DEFINE a == scanCall[c].auth
  <1>1. a \in ScanAuths /\ claim[a] = "claimed" /\ ScanAt(c, "settle")
    BY DEF SettleScan, ScanAt, OwnerInv, Presented, ClaimedWhileWorking, Working
  <1>2. CASE captured' = captured \cup {a} /\ ScanGoes(c, "record") /\ UNCHANGED scanFaults
    BY <1>1, <1>2 DEF SettleScan, ScanAt, ScanGoes, OwnerInv, ScanTypeOK, ScanEnds, Presented, OneOwner, Owner,
     ClaimedWhileWorking, Working, UnpaidBeforeSettling, PaidOnceSettled, UnclaimedIsUntouched,
     FreeIsUnpaid, Free
  <1>3. CASE ScanGoes(c, "refused") /\ UNCHANGED <<captured, scanFaults>>
    BY <1>1, <1>3 DEF SettleScan, ScanAt, ScanGoes, OwnerInv, ScanTypeOK, ScanEnds, Presented, OneOwner, Owner,
     ClaimedWhileWorking, Working, UnpaidBeforeSettling, PaidOnceSettled, UnclaimedIsUntouched,
     FreeIsUnpaid, Free
  <1>4. CASE captured' = captured \cup {a} /\ ScanGoes(c, "refused") /\ ScanFault
    BY <1>1, <1>4 DEF SettleScan, ScanAt, ScanGoes, ScanFault, OwnerInv, ScanTypeOK, ScanEnds, Presented, OneOwner, Owner,
     ClaimedWhileWorking, Working, UnpaidBeforeSettling, PaidOnceSettled, UnclaimedIsUntouched,
     FreeIsUnpaid, Free
  <1> QED BY <1>2, <1>3, <1>4 DEF SettleScan

LEMMA RecordKeepsOwners ==
  ASSUME OwnerInv, NEW c \in ScanCalls, RecordSettlement(c) PROVE OwnerInv'
  <1>1. CASE ScanAt(c, "record") /\ EndScan(c, "settled")
    BY <1>1 DEF RecordSettlement, ScanAt, ScanGoes, EndScan, OwnerInv, ScanTypeOK, ScanEnds, Presented, OneOwner, Owner,
     ClaimedWhileWorking, Working, UnpaidBeforeSettling, PaidOnceSettled, UnclaimedIsUntouched,
     FreeIsUnpaid, Free
  <1>2. CASE ScanAt(c, "refused") /\ EndScan(c, "settlement_failed")
    BY <1>2 DEF RecordSettlement, ScanAt, ScanGoes, EndScan, OwnerInv, ScanTypeOK, ScanEnds, Presented, OneOwner, Owner,
     ClaimedWhileWorking, Working, UnpaidBeforeSettling, PaidOnceSettled, UnclaimedIsUntouched,
     FreeIsUnpaid, Free
  <1> QED BY <1>1, <1>2 DEF RecordSettlement

LEMMA DeathKeepsOwners ==
  ASSUME OwnerInv, NEW c \in ScanCalls, ScanCallDies(c) PROVE OwnerInv'
  BY DEF ScanCallDies, ScanAt, ScanGoes, ScanFault, OwnerInv, ScanTypeOK, ScanEnds, Presented, OneOwner, Owner,
     ClaimedWhileWorking, Working, UnpaidBeforeSettling, PaidOnceSettled, UnclaimedIsUntouched,
     FreeIsUnpaid, Free

LEMMA OwnersStay == ASSUME OwnerInv, [ScanNext]_scanVars PROVE OwnerInv'
  <1>1. CASE UNCHANGED scanVars
    BY <1>1 DEF scanVars, OwnerInv, ScanTypeOK, ScanEnds, Presented, OneOwner, Owner,
     ClaimedWhileWorking, Working, UnpaidBeforeSettling, PaidOnceSettled, UnclaimedIsUntouched,
     FreeIsUnpaid, Free
  <1>2. CASE ScanNext
    BY <1>2, ClaimKeepsOwners, CheckKeepsOwners, ScanKeepsOwners, SettleKeepsOwners,
       RecordKeepsOwners, DeathKeepsOwners DEF ScanNext
  <1> QED BY <1>1, <1>2

-----------------------------------------------------------------------------
(* The limit and the charge.                                               *)

Passed == {a \in passed : claim[a] \in Counted}
AllCounted == {a \in ScanAuths : claim[a] \in Counted}

\* Nothing that is counted becomes countable without having been claimed.
LEMMA LimitIsKept ==
  ASSUME OwnerInv, ScansWithinLimit, [ScanNext]_scanVars PROVE ScansWithinLimit'
  <1>1. IsFiniteSet(ScanAuths) /\ passed \subseteq ScanAuths
    BY ScanAssumption DEF OwnerInv, ScanTypeOK
  <1>2. /\ IsFiniteSet(Passed) /\ Cardinality(Passed) \in Nat
        /\ IsFiniteSet(AllCounted) /\ Cardinality(AllCounted) \in Nat
    BY <1>1, FS_Subset, FS_CardinalityType DEF Passed, AllCounted
  <1>3. ScanWalletLimit \in Nat /\ Cardinality(Passed) <= ScanWalletLimit
    BY ScanAssumption DEF ScansWithinLimit, Passed
  <1>4. ASSUME Passed' \subseteq Passed PROVE ScansWithinLimit'
    <2>1. Cardinality(Passed') <= Cardinality(Passed) /\ Cardinality(Passed') \in Nat
      BY <1>2, <1>4, FS_Subset, FS_CardinalityType
    <2> QED BY <1>2, <1>3, <2>1 DEF ScansWithinLimit, Passed
  <1>5. ASSUME NEW c \in ScanCalls, NEW a \in ScanAuths, ClaimScan(c, a) PROVE Passed' \subseteq Passed
    BY <1>1, <1>5 DEF ClaimScan, Passed, OwnerInv, ScanTypeOK, UnclaimedIsUntouched
  <1>6. ASSUME NEW c \in ScanCalls, NEW status \in ScanEnds, EndScan(c, status), UNCHANGED passed
        PROVE  Passed' \subseteq Passed
    BY <1>1, <1>6 DEF EndScan, Passed, OwnerInv, ScanTypeOK, Counted, ScanEnds
  <1>7. ASSUME NEW c \in ScanCalls, CheckWalletLimit(c) PROVE ScansWithinLimit'
    <2>1. CASE Usage <= ScanWalletLimit /\ passed' = passed \cup {scanCall[c].auth}
               /\ UNCHANGED claim
      <3>1. scanCall[c].auth \in ScanAuths
        BY <1>7 DEF CheckWalletLimit, ScanAt, OwnerInv, Presented
      <3>2. Passed' \subseteq AllCounted
        BY <1>1, <2>1, <3>1 DEF Passed, AllCounted
      <3>3. Cardinality(Passed') <= Cardinality(AllCounted) /\ Cardinality(Passed') \in Nat
        BY <1>2, <3>2, FS_Subset, FS_CardinalityType
      <3> QED BY <1>2, <1>3, <2>1, <3>3 DEF ScansWithinLimit, Passed, Usage, AllCounted
    <2>2. CASE EndScan(c, "rate_limited") /\ UNCHANGED passed
      BY <1>4, <1>6, <2>2 DEF ScanEnds
    <2> QED BY <1>7, <2>1, <2>2 DEF CheckWalletLimit
  <1>8. ASSUME NEW c \in ScanCalls, ScanRepo(c) \/ SettleScan(c) \/ RecordSettlement(c) \/ ScanCallDies(c)
        PROVE  Passed' \subseteq Passed
    <2>1. ASSUME UNCHANGED <<claim, passed>> PROVE Passed' \subseteq Passed
      BY <2>1 DEF Passed
    <2> QED BY <1>6, <1>8, <2>1 DEF ScanRepo, SettleScan, RecordSettlement, ScanCallDies, ScanEnds
  <1>9. CASE UNCHANGED scanVars
    BY <1>4, <1>9 DEF scanVars, Passed
  <1> QED BY <1>4, <1>5, <1>7, <1>8, <1>9 DEF ScanNext

\* One owner, so one delivery, and it was paid.
LEMMA OwnersAreCharged == OwnerInv => ScanChargedIfDelivered
  <1> SUFFICES ASSUME OwnerInv PROVE ScanChargedIfDelivered
    OBVIOUS
  <1>1. \A c \in ScanCalls : ScanAt(c, "settled") => scanCall[c].auth \in captured
    BY DEF OwnerInv, PaidOnceSettled, ScanAt
  <1>2. ASSUME NEW a \in ScanAuths
        PROVE  Cardinality({c \in ScanCalls : ScanAt(c, "settled") /\ scanCall[c].auth = a}) <= 1
    <2> DEFINE S == {c \in ScanCalls : ScanAt(c, "settled") /\ scanCall[c].auth = a}
    <2>1. CASE S = {}
      BY <2>1, FS_EmptySet
    <2>2. CASE S # {}
      <3>1. PICK c \in S : TRUE
        BY <2>2
      <3>2. S = {c}
        BY <3>1 DEF OwnerInv, OneOwner, Owner, ScanAt
      <3>3. Cardinality(S) = 1
        BY <3>2, FS_Singleton
      <3> QED BY <3>3
    <2> QED BY <2>1, <2>2
  <1>3. \A a \in ScanAuths : claim[a] \in Free => a \notin captured
    BY DEF OwnerInv, FreeIsUnpaid
  <1> QED BY <1>1, <1>2, <1>3 DEF ScanChargedIfDelivered, Free

\* Rows, calls and the facilitator's captures have their types.
THEOREM ScanTypeCorrect == ScanSpec => []ScanTypeOK
  <1>1. OwnerInv => ScanTypeOK
    BY DEF OwnerInv
  <1> QED BY OwnersStart, OwnersStay, <1>1, PTL DEF ScanSpec

\* For any limit and any number of concurrent calls: a wallet's scans stay
\* within its limit, findings are handed out once and only for captured
\* money, and whoever was refused was not charged.
THEOREM ScansStayPaidWithinLimit == ScanSpec => []ScansArePaidWithinLimit
  <1>1. ScanInit => ScansWithinLimit
    <2> SUFFICES ASSUME ScanInit PROVE ScansWithinLimit
      OBVIOUS
    <2>1. {a \in passed : claim[a] \in Counted} = {}
      BY DEF ScanInit
    <2>2. 0 <= ScanWalletLimit
      BY ScanAssumption
    <2> QED BY <2>1, <2>2, FS_EmptySet DEF ScansWithinLimit
  <1>2. OwnerInv /\ ScansWithinLimit => ScansArePaidWithinLimit
    BY OwnersAreCharged DEF ScansArePaidWithinLimit
  <1> QED BY OwnersStart, OwnersStay, LimitIsKept, <1>1, <1>2, PTL DEF ScanSpec

-----------------------------------------------------------------------------
(* The composition.                                                        *)

\* A move of one component leaves the others where they are.
LEMMA DepositsOnly ==
  DepositsMove => UNCHANGED <<acpVars, scanVars, gateVars, disclosureVars, kernelVars, scorecardVars, sarifVars, fleetVars>>
  BY DEF DepositsMove, InDeposits

LEMMA AcpOnly ==
  AcpMoves => UNCHANGED <<depositVars, scanVars, gateVars, disclosureVars, kernelVars, scorecardVars, sarifVars, fleetVars>>
  BY DEF AcpMoves, InAcp

LEMMA ScanOnly ==
  ScansMove => UNCHANGED <<depositVars, acpVars, gateVars, disclosureVars, kernelVars, scorecardVars, sarifVars, fleetVars>>
  BY DEF ScansMove, InScan

LEMMA GateOnly ==
  GateMoves => UNCHANGED <<depositVars, acpVars, scanVars, disclosureVars, kernelVars, scorecardVars, sarifVars, fleetVars>>
  BY DEF GateMoves, InGate

LEMMA DisclosureOnly ==
  FindingMoves \/ DisclosureMoves => UNCHANGED <<depositVars, acpVars, scanVars, gateVars, kernelVars, scorecardVars, sarifVars, fleetVars>>
  BY DEF FindingMoves, DisclosureMoves, InLifecycle, InDisclosure

LEMMA KernelOnly ==
  KernelMoves => UNCHANGED <<depositVars, acpVars, scanVars, gateVars, disclosureVars, scorecardVars, sarifVars, fleetVars>>
  BY DEF KernelMoves, InKernel

LEMMA ScorecardOnly ==
  ScorecardMoves => UNCHANGED <<depositVars, acpVars, scanVars, gateVars, disclosureVars, kernelVars, sarifVars, fleetVars>>
  BY DEF ScorecardMoves, InScorecard

LEMMA SarifOnly ==
  SarifMoves => UNCHANGED <<depositVars, acpVars, scanVars, gateVars, disclosureVars, kernelVars, scorecardVars, fleetVars>>
  BY DEF SarifMoves, InSarif

LEMMA FleetOnly ==
  FleetMoves => UNCHANGED <<depositVars, acpVars, scanVars, gateVars, disclosureVars, kernelVars, scorecardVars, sarifVars>>
  BY DEF FleetMoves, InFleet

LEMMA DepositsRuns == DepositsMove => DepositsNext
  BY DEF DepositsMove, InDeposits, Here, DepositsNext

LEMMA AcpRuns == AcpMoves => AcpNext
  BY DEF AcpMoves, InAcp, Here, EventsHere, Works, AcpNext

LEMMA ScanRuns == ScansMove => ScanNext
  BY DEF ScansMove, InScan, Here, ScanNext

LEMMA GateRuns == GateMoves => GateNext
  BY DEF GateMoves, InGate, Here, GateNext

LEMMA DisclosureRuns == FindingMoves \/ DisclosureMoves => DisclosureNext
  <1>1. FindingMoves => LifecycleStep(LifecycleNext)
    BY DEF FindingMoves, InLifecycle, InDisclosure, LifecycleStep, Here, LifecycleNext
  <1>2. DisclosureMoves => DisclosureNext
    BY DEF DisclosureMoves, InDisclosure, Here, Publishes, DisclosureNext
  <1> QED BY <1>1, <1>2 DEF DisclosureNext

LEMMA KernelRuns == KernelMoves => KernelNext
  BY DEF KernelMoves, InKernel, Here, KernelNext

LEMMA ScorecardRuns == ScorecardMoves => ScorecardNext
  BY DEF ScorecardMoves, InScorecard, Here, ScorecardNext

LEMMA SarifRuns == SarifMoves => SarifNext
  BY DEF SarifMoves, InSarif, Here, SarifNext

LEMMA FleetRuns == FleetMoves => FleetNext
  BY DEF FleetMoves, InFleet, Here, FleetNext, CommandStarts, CommandWorks, JobWorks

\* A behaviour of the composition is one of each component, whatever the casts.
THEOREM PartsAreComponents ==
  ComponentsSpec => /\ DepositsSpec /\ AcpSpec /\ ScanSpec /\ GateSpec /\ DisclosureSpec
                    /\ KernelSpec /\ ScorecardSpec /\ SarifSpec /\ FleetSpec
  <1>1. ComponentsInit => /\ DepositsInit /\ AcpInit /\ ScanInit /\ GateInit /\ DisclosureInit
                          /\ KernelInit /\ ScorecardInit /\ SarifInit /\ FleetInit
    BY DEF ComponentsInit
  <1>2. [ComponentsNext]_componentVars => [DepositsNext]_depositVars
    <2>1. UNCHANGED componentVars => UNCHANGED depositVars
      BY DEF componentVars
    <2>2. ComponentsNext => DepositsNext \/ UNCHANGED depositVars
      BY DepositsRuns, AcpOnly, ScanOnly, GateOnly, DisclosureOnly, KernelOnly, ScorecardOnly, SarifOnly, FleetOnly DEF ComponentsNext
    <2> QED BY <2>1, <2>2
  <1>3. [ComponentsNext]_componentVars => [AcpNext]_acpVars
    <2>1. UNCHANGED componentVars => UNCHANGED acpVars
      BY DEF componentVars
    <2>2. ComponentsNext => AcpNext \/ UNCHANGED acpVars
      BY AcpRuns, DepositsOnly, ScanOnly, GateOnly, DisclosureOnly, KernelOnly, ScorecardOnly, SarifOnly, FleetOnly DEF ComponentsNext
    <2> QED BY <2>1, <2>2
  <1>4. [ComponentsNext]_componentVars => [ScanNext]_scanVars
    <2>1. UNCHANGED componentVars => UNCHANGED scanVars
      BY DEF componentVars
    <2>2. ComponentsNext => ScanNext \/ UNCHANGED scanVars
      BY ScanRuns, DepositsOnly, AcpOnly, GateOnly, DisclosureOnly, KernelOnly, ScorecardOnly, SarifOnly, FleetOnly DEF ComponentsNext
    <2> QED BY <2>1, <2>2
  <1>5. [ComponentsNext]_componentVars => [GateNext]_gateVars
    <2>1. UNCHANGED componentVars => UNCHANGED gateVars
      BY DEF componentVars
    <2>2. ComponentsNext => GateNext \/ UNCHANGED gateVars
      BY GateRuns, DepositsOnly, AcpOnly, ScanOnly, DisclosureOnly, KernelOnly, ScorecardOnly, SarifOnly, FleetOnly DEF ComponentsNext
    <2> QED BY <2>1, <2>2
  <1>6. [ComponentsNext]_componentVars => [DisclosureNext]_disclosureVars
    <2>1. UNCHANGED componentVars => UNCHANGED disclosureVars
      BY DEF componentVars
    <2>2. ComponentsNext => DisclosureNext \/ UNCHANGED disclosureVars
      BY DisclosureRuns, DepositsOnly, AcpOnly, ScanOnly, GateOnly, KernelOnly, ScorecardOnly, SarifOnly, FleetOnly DEF ComponentsNext
    <2> QED BY <2>1, <2>2
  <1>7. [ComponentsNext]_componentVars => [KernelNext]_kernelVars
    <2>1. UNCHANGED componentVars => UNCHANGED kernelVars
      BY DEF componentVars
    <2>2. ComponentsNext => KernelNext \/ UNCHANGED kernelVars
      BY KernelRuns, DepositsOnly, AcpOnly, ScanOnly, GateOnly, DisclosureOnly, ScorecardOnly, SarifOnly, FleetOnly DEF ComponentsNext
    <2> QED BY <2>1, <2>2
  <1>8. [ComponentsNext]_componentVars => [ScorecardNext]_scorecardVars
    <2>1. UNCHANGED componentVars => UNCHANGED scorecardVars
      BY DEF componentVars
    <2>2. ComponentsNext => ScorecardNext \/ UNCHANGED scorecardVars
      BY ScorecardRuns, DepositsOnly, AcpOnly, ScanOnly, GateOnly, DisclosureOnly, KernelOnly, SarifOnly, FleetOnly DEF ComponentsNext
    <2> QED BY <2>1, <2>2
  <1>9. [ComponentsNext]_componentVars => [SarifNext]_sarifVars
    <2>1. UNCHANGED componentVars => UNCHANGED sarifVars
      BY DEF componentVars
    <2>2. ComponentsNext => SarifNext \/ UNCHANGED sarifVars
      BY SarifRuns, DepositsOnly, AcpOnly, ScanOnly, GateOnly, DisclosureOnly, KernelOnly, ScorecardOnly, FleetOnly DEF ComponentsNext
    <2> QED BY <2>1, <2>2
  <1>10. [ComponentsNext]_componentVars => [FleetNext]_fleetVars
    <2>1. UNCHANGED componentVars => UNCHANGED fleetVars
      BY DEF componentVars
    <2>2. ComponentsNext => FleetNext \/ UNCHANGED fleetVars
      BY FleetRuns, DepositsOnly, AcpOnly, ScanOnly, GateOnly, DisclosureOnly, KernelOnly, ScorecardOnly, SarifOnly DEF ComponentsNext
    <2> QED BY <2>1, <2>2
  <1> QED BY <1>1, <1>2, <1>3, <1>4, <1>5, <1>6, <1>7, <1>8, <1>9, <1>10, PTL
          DEF ComponentsSpec, DepositsSpec, AcpSpec, ScanSpec, GateSpec, DisclosureSpec,
              KernelSpec, ScorecardSpec, SarifSpec, FleetSpec

\* Every variable of the composition holds values of its type.
THEOREM ComponentsTypeCorrect == ComponentsSpec => []ComponentsTypeOK
  <1>1. /\ DepositsTypeOK /\ AcpTypeOK /\ ScanTypeOK /\ GateTypeOK /\ DisclosureTypeOK
        /\ KernelTypeOK /\ ScorecardTypeOK /\ SarifTypeOK /\ FleetTypeOK
        <=> ComponentsTypeOK
    BY DEF ComponentsTypeOK
  <1> QED BY <1>1, PartsAreComponents, DepositsTypeCorrect, AcpTypeCorrect, ScanTypeCorrect,
             GateTypeCorrect, DisclosureTypeCorrect, KernelTypeCorrect, ScorecardTypeCorrect,
             SarifTypeCorrect, FleetTypeCorrect, PTL

\* The invariants of all components hold together in the composition.
THEOREM ComponentsStaySound ==
  ComponentsSpec =>
      [](/\ BalanceIsDeposits /\ ActiveIsFunded /\ CursorLeavesNothing
         /\ DeliveryIsHonest /\ BudgetIsAccounted /\ ScansArePaidWithinLimit /\ GateIsHonest
         /\ RowMatchesComment /\ EmbargoIsKept /\ OneAdvisory
         /\ WithheldIsNotShown /\ SuggestionsAreChecked /\ PublicModelIsPublic
         /\ ServedIsPublic /\ OneBatchPerToken /\ BatchAddsUp /\ FleetIsSound)
  BY PartsAreComponents, BalanceStaysDeposits, ActiveStaysFunded, CursorStaysBehind,
     DeliveryStaysHonest, BudgetStaysAccounted, ScansStayPaidWithinLimit, GateStaysHonest,
     RowStaysWithComment, EmbargoStaysKept, AdvisoryStaysOne, WithheldStaysHidden,
     SuggestionsStayChecked, PublicModelStaysPublic, ServedStaysPublic, TokensMakeOneBatch,
     BatchesAddUp, FleetStaysSound, PTL
=============================================================================
