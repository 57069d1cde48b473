------------------------------ MODULE ScanRail ------------------------------
(***************************************************************************)
(* POST /api/v1/scan/x402: a whole repository scanned in one synchronous,  *)
(* paid call.  The signed authorization is claimed first, the wallet's     *)
(* hourly limit is counted with the claim included, the scan runs, and     *)
(* only then the facilitator captures the payment.                         *)
(*                                                                         *)
(* The calls of one wallet inside one window; other wallets do not         *)
(* interfere, since every statement here is keyed by authorization or      *)
(* counts one wallet's rows.                                               *)
(***************************************************************************)
EXTENDS Integers, FiniteSets

CONSTANTS
    ScanCalls,     \* calls of the route
    ScanAuths,     \* signed payment authorizations
    NoScanAuth,
    ScanWalletLimit,     \* X402_WALLET_LIMIT
    MaxScanFaults  \* bound on kills, failed statements and lost answers

ASSUME ScanAssumption ==
    /\ IsFiniteSet(ScanAuths) /\ NoScanAuth \notin ScanAuths
    /\ ScanWalletLimit \in Nat
    /\ MaxScanFaults \in Nat

VARIABLES
    claim,       \* x402_scan_claims by authorization
    captured,    \* authorizations the facilitator captured
    scanCall,    \* handler instances
    passed,      \* history: authorizations that passed the wallet limit
    scanFaults

scanVars == <<claim, captured, scanCall, passed, scanFaults>>

ScanInit ==
    /\ claim = [a \in ScanAuths |-> "absent"]
    /\ captured = {}
    /\ scanCall = [c \in ScanCalls |-> [at |-> "idle", auth |-> NoScanAuth]]
    /\ passed = {}
    /\ scanFaults = 0

ScanFault == scanFaults < MaxScanFaults /\ scanFaults' = scanFaults + 1
ScanAt(c, at) == scanCall[c].at = at
ScanGoes(c, at) == scanCall' = [scanCall EXCEPT ![c].at = at]

\* claimX402ScanAuthorization after verifyPayment and resolveScanTarget:
\* INSERT ... ON CONFLICT (authorization_key) DO NOTHING.
ClaimScan(c, a) ==
    /\ ScanAt(c, "idle")
    /\ \/ /\ claim[a] = "absent"
          /\ claim' = [claim EXCEPT ![a] = "claimed"]
          /\ scanCall' = [scanCall EXCEPT ![c] = [at |-> "rate", auth |-> a]]
       \/ /\ claim[a] # "absent"
          /\ scanCall' = [scanCall EXCEPT ![c] = [at |-> "duplicate", auth |-> a]]
          /\ UNCHANGED claim
    /\ UNCHANGED <<captured, passed, scanFaults>>

\* markX402ScanClaimStatus, only from claimed; then the answer.
EndScan(c, status) ==
    /\ claim' = [claim EXCEPT ![scanCall[c].auth] = IF @ = "claimed" THEN status ELSE @]
    /\ ScanGoes(c, status)

\* The claims checkWalletRateLimit counts.
SettledOnly == {"settled"}
Counted == {"claimed", "scan_failed", "settlement_failed", "settled"}
Usage == Cardinality({a \in ScanAuths : claim[a] \in Counted})

\* checkWalletRateLimit with includeCurrent
CheckWalletLimit(c) ==
    /\ ScanAt(c, "rate")
    /\ \/ /\ Usage <= ScanWalletLimit
          /\ ScanGoes(c, "scan") /\ passed' = passed \cup {scanCall[c].auth}
          /\ UNCHANGED claim
       \/ /\ Usage > ScanWalletLimit
          /\ EndScan(c, "rate_limited") /\ UNCHANGED passed
    /\ UNCHANGED <<captured, scanFaults>>

\* scanRepo throws, finds no reviewable file, or returns findings.
ScanRepo(c) ==
    /\ ScanAt(c, "scan")
    /\ \/ \E status \in {"scan_failed", "no_reviewable_files"} : EndScan(c, status)
       \/ ScanGoes(c, "settle") /\ UNCHANGED claim
    /\ UNCHANGED <<captured, passed, scanFaults>>

\* settlePayment: captured, refused, or captured with the answer lost.
SettleScan(c) ==
    LET a == scanCall[c].auth IN
    /\ ScanAt(c, "settle")
    /\ \/ captured' = captured \cup {a} /\ ScanGoes(c, "record") /\ UNCHANGED scanFaults
       \/ ScanGoes(c, "refused") /\ UNCHANGED <<captured, scanFaults>>
       \/ captured' = captured \cup {a} /\ ScanGoes(c, "refused") /\ ScanFault
    /\ UNCHANGED <<claim, passed>>

\* The claim is marked; the findings are in the answer only when settled.
RecordSettlement(c) ==
    /\ \/ ScanAt(c, "record") /\ EndScan(c, "settled")
       \/ ScanAt(c, "refused") /\ EndScan(c, "settlement_failed")
    /\ UNCHANGED <<captured, passed, scanFaults>>

\* A kill, or a statement that throws: no answer, or an error without findings.
ScanCallDies(c) ==
    /\ scanCall[c].at \in {"rate", "scan", "settle", "record", "refused"}
    /\ ScanFault
    /\ ScanGoes(c, "died")
    /\ UNCHANGED <<claim, captured, passed>>

ScanNext ==
    \E c \in ScanCalls :
        \/ \E a \in ScanAuths : ClaimScan(c, a)
        \/ CheckWalletLimit(c) \/ ScanRepo(c) \/ SettleScan(c)
        \/ RecordSettlement(c) \/ ScanCallDies(c)

ScanSpec == ScanInit /\ [][ScanNext]_scanVars

-----------------------------------------------------------------------------
(* Properties.                                                             *)

ScanEnds == {"rate_limited", "scan_failed", "no_reviewable_files", "settlement_failed", "settled"}

ScanTypeOK ==
    /\ claim \in [ScanAuths -> ScanEnds \cup {"absent", "claimed"}]
    /\ captured \subseteq ScanAuths /\ passed \subseteq ScanAuths
    /\ scanCall \in [ScanCalls -> [at : ScanEnds \cup {"idle", "rate", "scan", "settle", "record",
                                                   "refused", "duplicate", "died"},
                                   auth : ScanAuths \cup {NoScanAuth}]]
    /\ scanFaults \in Nat

\* Concurrent calls of one wallet cannot scan beyond its limit: of the claims
\* that passed, at most ScanWalletLimit still count (claim before count, in
\* handleX402ScanRequest).
ScansWithinLimit ==
    Cardinality({a \in passed : claim[a] \in Counted}) <= ScanWalletLimit

\* Findings are handed out once per authorization and only for captured
\* money; a caller told that the scan failed, that nothing was reviewable or
\* that it is over the limit was not charged, even by another of its calls.
ScanChargedIfDelivered ==
    /\ \A c \in ScanCalls : ScanAt(c, "settled") => scanCall[c].auth \in captured
    /\ \A a \in ScanAuths :
           /\ Cardinality({c \in ScanCalls : ScanAt(c, "settled") /\ scanCall[c].auth = a}) <= 1
           /\ claim[a] \in {"rate_limited", "scan_failed", "no_reviewable_files"}
                  => a \notin captured

\* A wallet's scans stay within its limit however its calls overlap, and
\* findings change hands only for captured money (handleX402ScanRequest).
ScansArePaidWithinLimit == ScansWithinLimit /\ ScanChargedIfDelivered
=============================================================================
