----------------------------- MODULE SarifIngest -----------------------------
(***************************************************************************)
(* Upload of another scanner's findings.  A token is good for one upload   *)
(* and for Ttl; that it was used is remembered for Retention.  An upload   *)
(* spends its token, enters a batch with a row for each claim, gives each  *)
(* claim a verdict, and writes the counts into the batch.  Any of its      *)
(* steps may fail, and then nothing takes the batch up again.              *)
(*                                                                         *)
(* Times are readings of one clock that may stand still between steps.     *)
(***************************************************************************)
EXTENDS PatchLane

CONSTANTS
    Uploads,   \* POSTs of a report
    Tokens,    \* tokens, by their jti
    Claims,    \* the claims of a report
    Ttl,       \* SARIF_INGEST_TOKEN_TTL_MS
    Retention, \* SARIF_TOKEN_USE_GC_RETENTION_MS
    CallLife,  \* how long the platform lets a request run
    MaxNow

\* Five minutes, an hour, and requests that end within minutes.  A report is
\* finite; "none" is not the jti of a token.
ASSUME SarifAssumption ==
    /\ IsFiniteSet(Claims) /\ "none" \notin Tokens
    /\ Ttl \in Nat /\ Retention \in Nat /\ CallLife \in Nat /\ MaxNow \in Nat
    /\ Ttl + CallLife <= Retention

VARIABLES
    now,
    expires,   \* exp of the tokens that were issued
    usedAt,    \* sarif_ingest_token_use
    upload,    \* requests
    batch,     \* sarif_import_batch, by upload
    claimRow,  \* sarif_finding, by upload
    pushed     \* uploads that made a push to code scanning

sarifVars == <<now, expires, usedAt, upload, batch, claimRow, pushed>>

NoTime == -1
NewUpload ==
    [at |-> "idle", token |-> "none", began |-> 0, claims |-> {},
     said |-> [c \in Claims |-> "none"]]
NoBatch ==
    [status |-> "absent", token |-> "none", total |-> 0,
     counts |-> [real |-> 0, false_positive |-> 0, inconclusive |-> 0, error |-> 0]]

SarifInit ==
    /\ now = 0
    /\ expires = [t \in Tokens |-> NoTime]
    /\ usedAt = [t \in Tokens |-> NoTime]
    /\ upload = [u \in Uploads |-> NewUpload]
    /\ batch = [u \in Uploads |-> NoBatch]
    /\ claimRow = [u \in Uploads |-> [c \in Claims |-> "absent"]]
    /\ pushed = {}

\* The platform ends a request that runs for too long.
Runs(u, at) == upload[u].at = at /\ now <= upload[u].began + CallLife
Goes(u, at) == upload' = [upload EXCEPT ![u].at = at]

TimeGoesOn ==
    /\ now < MaxNow /\ now' = now + 1
    /\ UNCHANGED <<expires, usedAt, upload, batch, claimRow, pushed>>

\* signSarifIngestToken
SignToken(t) ==
    /\ expires[t] = NoTime
    /\ expires' = [expires EXCEPT ![t] = now + Ttl]
    /\ UNCHANGED <<now, usedAt, upload, batch, claimRow, pushed>>

\* verifySarifIngestToken, when the request begins.  The body is read, and
\* the installation's access looked up, before the token is spent.
VerifyToken(u, t) ==
    /\ upload[u].at = "idle"
    /\ expires[t] # NoTime /\ now < expires[t]
    /\ upload' = [upload EXCEPT ![u] =
           [NewUpload EXCEPT !.at = "consume", !.token = t, !.began = now]]
    /\ UNCHANGED <<now, expires, usedAt, batch, claimRow, pushed>>

\* consumeSarifIngestTokenUse: the insert fails for a token that is there.
Unused(t) == usedAt[t] = NoTime
ConsumeTokenUse(u) ==
    LET t == upload[u].token
    IN  /\ Runs(u, "consume")
        /\ IF Unused(t)
           THEN Goes(u, "batch") /\ usedAt' = [usedAt EXCEPT ![t] = now]
           ELSE Goes(u, "replay") /\ UNCHANGED usedAt
        /\ UNCHANGED <<now, expires, batch, claimRow, pushed>>

\* purgeOldSarifIngestTokenUses
UsedBefore(t) == usedAt[t] # NoTime /\ usedAt[t] < now
Forgettable(t) == usedAt[t] # NoTime /\ usedAt[t] < now - Retention
PurgeTokenUse(t) ==
    /\ Forgettable(t)
    /\ usedAt' = [usedAt EXCEPT ![t] = NoTime]
    /\ UNCHANGED <<now, expires, upload, batch, claimRow, pushed>>

\* parseSarif, createSarifImportBatch
CreateBatch(u, claims) ==
    /\ Runs(u, "batch")
    /\ upload' = [upload EXCEPT ![u].at = "rows", ![u].claims = claims]
    /\ batch' = [batch EXCEPT ![u] = [NoBatch EXCEPT
           !.status = "pending", !.token = upload[u].token, !.total = Cardinality(claims)]]
    /\ UNCHANGED <<now, expires, usedAt, claimRow, pushed>>

\* insertSarifFindings.  A fingerprint counts the place in the report: claims
\* of one report do not meet.
InsertClaims(u) ==
    /\ Runs(u, "rows")
    /\ claimRow' = [claimRow EXCEPT ![u] =
           [c \in Claims |-> IF c \in upload[u].claims THEN "pending" ELSE "absent"]]
    /\ Goes(u, "validate")
    /\ UNCHANGED <<now, expires, usedAt, batch, pushed>>

\* What the gates say of a claim.  The reachability gate says "skipped" of a
\* claim it does not look at; patch is the verifier's verdict on the first
\* patch, "none" without one or after an error.
Gates ==
    [reach : {"reachable", "unreachable", "skipped", "throws"},
     patch : {PatchVerdict(c) : c \in Checkouts} \cup {"none"}]

\* sarifVerdictFromPatchVerify under the reachability verdict.
ClaimVerdict(g) ==
    CASE g.reach = "unreachable" -> "false_positive"
      [] g.reach = "throws" -> "error"
      [] g.reach = "reachable" /\ g.patch = "verified" -> "real"
      [] OTHER -> "inconclusive"

\* One turn of the loop: incrementStats, updateSarifFindingValidation.
ValidateClaim(u, c, verdict) ==
    /\ Runs(u, "validate")
    /\ c \in upload[u].claims /\ upload[u].said[c] = "none"
    /\ upload' = [upload EXCEPT ![u].said[c] = verdict]
    /\ claimRow' = [claimRow EXCEPT ![u][c] = verdict]
    /\ UNCHANGED <<now, expires, usedAt, batch, pushed>>

Counts(u) ==
    LET count(verdict) == Cardinality({c \in Claims : upload[u].said[c] = verdict})
    IN  [real |-> count("real"), false_positive |-> count("false_positive"),
         inconclusive |-> count("inconclusive"), error |-> count("error")]

\* finishSarifImportBatch
NotAwaited(u) == TRUE
AllSaid(u) == \A c \in upload[u].claims : upload[u].said[c] # "none"
FinishBatch(u) ==
    /\ Runs(u, "validate") /\ AllSaid(u)
    /\ batch' = [batch EXCEPT
           ![u].status = IF Counts(u).error > 0 THEN "completed_with_errors" ELSE "completed",
           ![u].counts = Counts(u)]
    /\ Goes(u, IF Counts(u).real > 0 THEN "push" ELSE "done")
    /\ UNCHANGED <<now, expires, usedAt, claimRow, pushed>>

\* triggerCodeScanningPush, under its flag; it may be skipped, be rejected or
\* fail, and its errors are swallowed.
PushFindings(u) ==
    /\ Runs(u, "push")
    /\ pushed' \in {pushed, pushed \cup {u}}
    /\ Goes(u, "done")
    /\ UNCHANGED <<now, expires, usedAt, batch, claimRow>>

\* A refusal before the token is spent; afterwards any error, the 400 and 413
\* among them, or the end of the process.
UploadFails(u) ==
    /\ upload[u].at \in {"consume", "batch", "rows", "validate", "push"}
    /\ Goes(u, "failed")
    /\ UNCHANGED <<now, expires, usedAt, batch, claimRow, pushed>>

SarifNext ==
    \/ TimeGoesOn
    \/ \E t \in Tokens : SignToken(t) \/ PurgeTokenUse(t)
    \/ \E u \in Uploads :
        \/ \E t \in Tokens : VerifyToken(u, t)
        \/ ConsumeTokenUse(u)
        \/ \E claims \in SUBSET Claims : CreateBatch(u, claims)
        \/ InsertClaims(u)
        \/ \E c \in Claims, verdict \in {ClaimVerdict(g) : g \in Gates} :
               ValidateClaim(u, c, verdict)
        \/ FinishBatch(u) \/ PushFindings(u) \/ UploadFails(u)

SarifSpec == SarifInit /\ [][SarifNext]_sarifVars

-----------------------------------------------------------------------------
(* Properties.                                                             *)

SarifVerdicts == {"real", "false_positive", "inconclusive", "error"}
Moments == 0..(MaxNow + Ttl) \cup {NoTime}

\* Tokens, uploads, batches and rows hold values of their types.
SarifTypeOK ==
    /\ now \in 0..MaxNow
    /\ expires \in [Tokens -> Moments] /\ usedAt \in [Tokens -> Moments]
    /\ upload \in [Uploads ->
           [at : {"idle", "consume", "batch", "rows", "validate", "push",
                  "done", "replay", "failed"},
            token : Tokens \cup {"none"}, began : 0..MaxNow, claims : SUBSET Claims,
            said : [Claims -> SarifVerdicts \cup {"none"}]]]
    /\ \A u \in Uploads :
           /\ batch[u].status \in {"absent", "pending", "completed", "completed_with_errors"}
           /\ batch[u].token \in Tokens \cup {"none"}
    /\ claimRow \in [Uploads -> [Claims -> SarifVerdicts \cup {"absent", "pending"}]]
    /\ pushed \subseteq Uploads

\* A token makes one batch at most, although its use is forgotten in the end:
\* whoever verified it in time spends it before it can be forgotten.
\* (verifySarifIngestToken, consumeSarifIngestTokenUse, runSarifTokenUseGc)
OneBatchPerToken ==
    \A u, v \in Uploads :
        batch[u].status # "absent" /\ batch[u].token = batch[v].token => u = v

\* The counts of a finished batch are those of its rows, one for each claim,
\* and a push follows from a claim that was found real; a batch whose upload
\* ended early says so by its status.  (ingestSarif, finishSarifImportBatch)
BatchAddsUp ==
    \A u \in Uploads :
        LET rows(verdict) == {c \in Claims : claimRow[u][c] = verdict}
            counts == batch[u].counts
        IN  IF batch[u].status \in {"completed", "completed_with_errors"}
            THEN /\ \A verdict \in SarifVerdicts : counts[verdict] = Cardinality(rows(verdict))
                 /\ counts.real + counts.false_positive + counts.inconclusive + counts.error
                        = batch[u].total
                 /\ u \in pushed => rows("real") # {}
            ELSE u \notin pushed /\ counts = NoBatch.counts
=============================================================================
