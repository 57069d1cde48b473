----------------------------- MODULE FleetState -----------------------------
(***************************************************************************)
(* The fleet command line (src/src/app.ts).  It keeps one JSON file per    *)
(* feature, finding and patch attempt under .fleet/; every file is         *)
(* replaced at once, and every command writes back whole records it read   *)
(* some awaits, or a provider's answer, earlier.  A review claims features *)
(* by a lock in the feature's own record and works on several in parallel. *)
(*                                                                         *)
(* A command is one invocation: it runs once, may be killed, and may       *)
(* overlap another one.  Its run record, which no command reads back, and  *)
(* the text of the records are left out.                                   *)
(***************************************************************************)
EXTENDS Integers, FiniteSets

CONSTANTS
    FleetFeatures,
    FleetFindings,   \* finding ids; an id is a hash that covers the feature's
    FeatureOf,
    Seeds,           \* what the mapper may say of a feature
    Commands,        \* invocations, whose names serve as run ids
    Jobs,            \* the parallel jobs of a review
    MaxFleetFaults,  \* bound on kills and failed writes
    MaxEdits         \* bound on changes of the source between two maps

ASSUME FleetAssumption ==
    /\ FeatureOf \in [FleetFindings -> FleetFeatures]
    /\ MaxFleetFaults \in Nat /\ MaxEdits \in Nat
    /\ "none" \notin Commands /\ "gone" \notin Seeds

VARIABLES
    seeds,        \* what the mapper would say of each feature now
    featureFile,  \* features/*.json
    findingFile,  \* findings/*.json
    patchFile,    \* patches/*.json, by the fix that made it
    command,
    job,          \* jobs of each review
    decided,      \* history: the commands that decided each finding
    tried,        \* history: findings a fix was tried on since their feature's refresh
    unreleased,   \* history: features whose release a run failed to write
    overlapped,   \* history: two commands ran at once
    edits, fleetFaults

fleetVars == <<seeds, featureFile, findingFile, patchFile, command, job, decided,
               tried, unreleased, overlapped, edits, fleetFaults>>

outcomes == <<decided, tried, unreleased>>

NoFile == [status |-> "absent", lock |-> "none", lists |-> {}, seed |-> "gone"]
NoFindingFile == [status |-> "absent", history |-> {}, patches |-> {}]
Unstarted == [does |-> "nothing", at |-> "new", todo |-> {}, seen |-> <<>>, saw |-> <<>>,
              on |-> "none", says |-> "none"]
FreeJob == [at |-> "free", f |-> "none", x |-> "none", found |-> {}, left |-> {},
            was |-> NoFindingFile]

\* fleet init and fleet map have run.
FleetInit ==
    /\ seeds \in [FleetFeatures -> Seeds \cup {"gone"}]
    /\ featureFile = [f \in FleetFeatures |->
                         IF seeds[f] = "gone" THEN NoFile
                         ELSE [NoFile EXCEPT !.status = "pending", !.seed = seeds[f]]]
    /\ findingFile = [x \in FleetFindings |-> NoFindingFile]
    /\ patchFile = [m \in Commands |-> "absent"]
    /\ command = [m \in Commands |-> Unstarted]
    /\ job = [m \in Commands |-> [j \in Jobs |-> FreeJob]]
    /\ decided = [x \in FleetFindings |-> {}]
    /\ tried = {} /\ unreleased = {}
    /\ overlapped = FALSE
    /\ edits = 0 /\ fleetFaults = 0

FleetFault == fleetFaults < MaxFleetFaults /\ fleetFaults' = fleetFaults + 1

Running(m) == command[m].at \notin {"new", "done", "dead"}
Known(x) == findingFile[x].status # "absent"
OfFeature(f) == {x \in FleetFindings : FeatureOf[x] = f}

Starts(m, c) ==
    /\ command[m].at = "new"
    /\ command' = [command EXCEPT ![m] = c]
    /\ overlapped' = (overlapped \/ \E o \in Commands : Running(o))

Ends(m) == command' = [command EXCEPT ![m] = [Unstarted EXCEPT !.at = "done"]]
CommandAt(m, at) == command' = [command EXCEPT ![m].at = at]
At(m, at) == command[m].at = at

\* A developer changes, removes or brings back what a feature is made of.
Edit(f) ==
    /\ edits < MaxEdits /\ edits' = edits + 1
    /\ \E s \in Seeds \cup {"gone"} : s # seeds[f] /\ seeds' = [seeds EXCEPT ![f] = s]
    /\ UNCHANGED <<featureFile, findingFile, patchFile, command, job, outcomes,
                   overlapped, fleetFaults>>

-----------------------------------------------------------------------------
(* reviewCommand and reviewFeature.                                        *)

\* selectFeatures: pending and failed ones up to the limit, or a named one.
Selectable(f) == featureFile[f].status \in {"pending", "error"}

StartReview(m) ==
    /\ \E S \in SUBSET FleetFeatures :
           /\ S # {}
           /\ \/ \A f \in S : Selectable(f)
              \/ Cardinality(S) = 1 /\ \A f \in S : featureFile[f].status # "absent"
           /\ Starts(m, [Unstarted EXCEPT !.does = "review", !.at = "jobs", !.todo = S,
                                          !.seen = featureFile])
    /\ UNCHANGED <<seeds, featureFile, findingFile, patchFile, job, outcomes, edits, fleetFaults>>

\* lockFeature, on the record the command read when it started
Locked(m, f) == [command[m].seen[f] EXCEPT !.status = "claimed", !.lock = m]

\* A job takes the next feature off the list, in one go with the cursor, and
\* writes its lock, unless that write fails; a locked one is a conflict that
\* ends nothing but that feature's review.
Unclaimed(m, f) == command[m].seen[f].lock = "none"
IgnoredLock(m, f) == TRUE

TakeFeature(m, j) ==
    /\ At(m, "jobs") /\ job[m][j].at = "free"
    /\ \E f \in command[m].todo :
           /\ command' = [command EXCEPT ![m].todo = @ \ {f}]
           /\ \/ /\ Unclaimed(m, f)
                 /\ featureFile' = [featureFile EXCEPT ![f] = Locked(m, f)]
                 /\ job' = [job EXCEPT ![m][j] = [FreeJob EXCEPT !.at = "provider", !.f = f]]
                 /\ UNCHANGED fleetFaults
              \/ /\ Unclaimed(m, f)
                 /\ FleetFault
                 /\ job' = [job EXCEPT ![m][j] = [FreeJob EXCEPT !.at = "fail", !.f = f]]
                 /\ UNCHANGED featureFile
              \/ /\ ~ Unclaimed(m, f)
                 /\ UNCHANGED <<featureFile, job, fleetFaults>>
    /\ UNCHANGED <<seeds, findingFile, patchFile, outcomes, overlapped, edits>>

\* provider.review answers with findings, or throws.
HearReview(m, j) ==
    /\ job[m][j].at = "provider"
    /\ \/ \E R \in SUBSET OfFeature(job[m][j].f) :
              job' = [job EXCEPT ![m][j].at = IF R = {} THEN "finish" ELSE "read",
                                 ![m][j].found = R, ![m][j].left = R]
       \/ job' = [job EXCEPT ![m][j].at = "fail"]
    /\ UNCHANGED <<seeds, featureFile, findingFile, patchFile, command, outcomes, overlapped,
                   edits, fleetFaults>>

ReadExisting(m, j) ==
    /\ job[m][j].at = "read"
    /\ \E x \in job[m][j].left :
           job' = [job EXCEPT ![m][j].at = "write", ![m][j].x = x, ![m][j].was = findingFile[x]]
    /\ UNCHANGED <<seeds, featureFile, findingFile, patchFile, command, outcomes, overlapped,
                   edits, fleetFaults>>

\* mergeFinding: a known finding keeps its status, history and patches.
Incoming(was) == [NoFindingFile EXCEPT !.status = "open"]
Merged(was) == IF was.status = "absent" THEN [NoFindingFile EXCEPT !.status = "open"] ELSE was

WriteFinding(m, j) ==
    LET x == job[m][j].x IN
    /\ job[m][j].at = "write"
    /\ \/ /\ findingFile' = [findingFile EXCEPT ![x] = Merged(job[m][j].was)]
          /\ job' = [job EXCEPT
                 ![m][j] = [job[m][j] EXCEPT !.left = @ \ {x}, !.x = "none", !.was = NoFindingFile,
                                             !.at = IF job[m][j].left = {x} THEN "finish" ELSE "read"]]
          /\ UNCHANGED fleetFaults
       \/ /\ FleetFault
          /\ job' = [job EXCEPT ![m][j].at = "fail"]
          /\ UNCHANGED findingFile
    /\ UNCHANGED <<seeds, featureFile, patchFile, command, outcomes, overlapped, edits>>

\* Both ends write the record that was locked, not the one on disk.
FinishFeature(m, j) ==
    LET f == job[m][j].f
        locked == Locked(m, f) IN
    /\ job[m][j].at = "finish"
    /\ \/ /\ featureFile' = [featureFile EXCEPT
                 ![f] = [locked EXCEPT !.lock = "none", !.lists = @ \cup job[m][j].found,
                                       !.status = IF job[m][j].found # {} THEN "needs-fix" ELSE "reviewed"]]
          /\ job' = [job EXCEPT ![m][j] = FreeJob]
          /\ UNCHANGED fleetFaults
       \/ /\ FleetFault
          /\ job' = [job EXCEPT ![m][j].at = "fail"]
          /\ UNCHANGED featureFile
    /\ UNCHANGED <<seeds, findingFile, patchFile, command, outcomes, overlapped, edits>>

\* The record of a feature whose review failed.
StillLocked(m, f) == [Locked(m, f) EXCEPT !.status = "error"]
Released(m, f) == [Locked(m, f) EXCEPT !.status = "error", !.lock = "none"]

\* The catch block's own write may fail: the job's loop collects that error
\* like the first and goes on.
FailFeature(m, j) ==
    LET f == job[m][j].f IN
    /\ job[m][j].at = "fail"
    /\ job' = [job EXCEPT ![m][j] = FreeJob]
    /\ \/ /\ featureFile' = [featureFile EXCEPT ![f] = Released(m, f)]
          /\ UNCHANGED <<unreleased, fleetFaults>>
       \/ /\ FleetFault
          /\ unreleased' = unreleased \cup {<<m, f>>}
          /\ UNCHANGED featureFile
    /\ UNCHANGED <<seeds, findingFile, patchFile, command, decided, tried, overlapped, edits>>

EndReview(m) ==
    /\ At(m, "jobs") /\ command[m].todo = {}
    /\ \A j \in Jobs : job[m][j].at = "free"
    /\ Ends(m)
    /\ UNCHANGED <<seeds, featureFile, findingFile, patchFile, job, outcomes, overlapped,
                   edits, fleetFaults>>

-----------------------------------------------------------------------------
(* triageCommand, revalidateCommand and fixCommand.                        *)

Decisions == {"open", "false-positive", "fixed", "wont-fix", "uncertain"}
Outcomes == Decisions \ {"wont-fix"}

\* selectRevalidationFindings: one finding, or all of one status.
StartTriage(m, x) ==
    /\ Known(x)
    /\ Starts(m, [Unstarted EXCEPT !.does = "triage", !.at = "decide", !.todo = {x},
                                   !.saw = findingFile])
    /\ UNCHANGED <<seeds, featureFile, findingFile, patchFile, job, outcomes, edits, fleetFaults>>

StartRevalidate(m) ==
    /\ \E X \in SUBSET {x \in FleetFindings : Known(x)} :
           /\ X # {}
           /\ \A x, y \in X : findingFile[x].status = findingFile[y].status
           /\ Starts(m, [Unstarted EXCEPT !.does = "revalidate", !.at = "decide", !.todo = X,
                                          !.saw = findingFile])
    /\ UNCHANGED <<seeds, featureFile, findingFile, patchFile, job, outcomes, edits, fleetFaults>>

\* The operator's status, or the provider's outcome, with an entry in the
\* history of the record as it was read.
DecideStatus(m) ==
    /\ At(m, "decide")
    /\ \E x \in command[m].todo,
          s \in IF command[m].does = "triage" THEN Decisions ELSE Outcomes :
           /\ findingFile' = [findingFile EXCEPT
                  ![x] = [command[m].saw[x] EXCEPT !.status = s, !.history = @ \cup {m}]]
           /\ decided' = [decided EXCEPT ![x] = @ \cup {m}]
           /\ command' = [command EXCEPT ![m].at = "refresh", ![m].on = FeatureOf[x],
                                         ![m].todo = @ \ {x}]
    /\ UNCHANGED <<seeds, featureFile, patchFile, job, tried, unreleased, overlapped, edits,
                   fleetFaults>>

\* provider.revalidate throws: the rest of the list is left alone.
RevalidateThrows(m) ==
    /\ At(m, "decide") /\ command[m].does = "revalidate"
    /\ Ends(m)
    /\ UNCHANGED <<seeds, featureFile, findingFile, patchFile, job, outcomes, overlapped,
                   edits, fleetFaults>>

\* refreshFeatureStatus reads all records ...
Unresolved(f) == {x \in OfFeature(f) : findingFile[x].status \in {"open", "uncertain"}}
Forgetful(f) == {x \in OfFeature(f) : findingFile[x].status = "open"}

RefreshedStatus(f) ==
    IF Unresolved(f) = {} THEN "fixed"
    ELSE IF featureFile[f].status \in {"fixed", "revalidated", "reviewed"} THEN "needs-fix"
    ELSE featureFile[f].status

NextDecision(m) == IF command[m].todo = {} THEN Ends(m) ELSE CommandAt(m, "decide")

ReadForRefresh(m) ==
    LET f == command[m].on IN
    /\ At(m, "refresh")
    /\ IF Unresolved(f) = {} \/ RefreshedStatus(f) # featureFile[f].status
       THEN command' = [command EXCEPT ![m].at = "refreshed", ![m].says = RefreshedStatus(f),
                                       ![m].seen = featureFile]
       ELSE NextDecision(m)
    /\ UNCHANGED <<seeds, featureFile, findingFile, patchFile, job, outcomes, overlapped,
                   edits, fleetFaults>>

\* ... and writes back the feature's.
WriteRefreshed(m) ==
    LET f == command[m].on IN
    /\ At(m, "refreshed")
    /\ tried' = tried \ OfFeature(f)
    /\ featureFile' = [featureFile EXCEPT ![f] = [command[m].seen[f] EXCEPT !.status = command[m].says]]
    /\ IF command[m].todo = {} THEN Ends(m)
       ELSE command' = [command EXCEPT ![m].at = "decide", ![m].seen = <<>>, ![m].says = "none",
                                       ![m].on = "none"]
    /\ UNCHANGED <<seeds, findingFile, patchFile, job, decided, unreleased, overlapped, edits,
                   fleetFaults>>

StartFix(m, x) ==
    /\ Known(x) /\ featureFile[FeatureOf[x]].status # "absent"
    /\ Starts(m, [Unstarted EXCEPT !.does = "fix", !.at = "plan", !.on = x, !.saw = findingFile])
    /\ UNCHANGED <<seeds, featureFile, findingFile, patchFile, job, outcomes, edits, fleetFaults>>

WritePlan(m) ==
    /\ At(m, "plan")
    /\ patchFile' = [patchFile EXCEPT ![m] = "planned"]
    /\ CommandAt(m, "fixing")
    /\ UNCHANGED <<seeds, featureFile, findingFile, job, outcomes, overlapped, edits, fleetFaults>>

\* provider.fix throws, or the validation commands fail, pass, or are refused:
\* the last leaves the attempt as planned.
HearFix(m) ==
    /\ At(m, "fixing")
    /\ \/ \E said \in {"threw", "failed", "passed"} :
              /\ patchFile' = [patchFile EXCEPT ![m] = IF said = "passed" THEN "applied" ELSE "failed"]
              /\ command' = [command EXCEPT ![m].at = "link", ![m].says = said]
       \/ Ends(m) /\ UNCHANGED patchFile
    /\ UNCHANGED <<seeds, featureFile, findingFile, job, outcomes, overlapped, edits, fleetFaults>>

\* The finding as it was read before the provider was asked; its feature is
\* left to the next revalidation.
LinkPatch(m) ==
    LET x == command[m].on
        linked == [command[m].saw[x] EXCEPT !.patches = @ \cup {m}]
    IN
    /\ At(m, "link")
    /\ tried' = tried \cup {x}
    /\ findingFile' = [findingFile EXCEPT
           ![x] = CASE command[m].says = "threw" -> linked
                    [] command[m].says = "failed" -> [linked EXCEPT !.status = "open"]
                    [] OTHER -> [linked EXCEPT !.status = "uncertain"]]
    /\ Ends(m)
    /\ UNCHANGED <<seeds, featureFile, patchFile, job, decided, unreleased, overlapped, edits,
                   fleetFaults>>

-----------------------------------------------------------------------------
(* mapCommand and cleanLocksCommand: records computed from what was read   *)
(* are written one by one.                                                 *)

\* mapFeatures: a feature keeps status, lock and findings; one that changed
\* after it was reviewed, or came back, is pending.
Mapped(r, s) ==
    CASE s = "gone" /\ r.status = "absent" -> NoFile
      [] s = "gone" /\ r.status # "absent" -> [r EXCEPT !.status = "skipped", !.lock = "none"]
      [] s # "gone" /\ r.status = "absent" -> [NoFile EXCEPT !.status = "pending", !.seed = s]
      [] OTHER -> [r EXCEPT !.seed = s,
                            !.status = IF \/ @ = "skipped"
                                          \/ r.seed # s /\ @ \in {"reviewed", "revalidated", "fixed"}
                                       THEN "pending" ELSE @]

StartMap(m) ==
    /\ Starts(m, [Unstarted EXCEPT !.does = "map", !.at = "writes",
                      !.todo = {f \in FleetFeatures : seeds[f] # "gone" \/ featureFile[f].status # "absent"},
                      !.seen = [f \in FleetFeatures |-> Mapped(featureFile[f], seeds[f])]])
    /\ UNCHANGED <<seeds, featureFile, findingFile, patchFile, job, outcomes, edits, fleetFaults>>

\* A claimed feature is pending again.
Unlocked(r) == [r EXCEPT !.lock = "none", !.status = IF @ = "claimed" THEN "pending" ELSE @]

StartCleanLocks(m) ==
    /\ Starts(m, [Unstarted EXCEPT !.does = "clean-locks", !.at = "writes",
                      !.todo = {f \in FleetFeatures : featureFile[f].lock # "none"},
                      !.seen = [f \in FleetFeatures |-> Unlocked(featureFile[f])]])
    /\ UNCHANGED <<seeds, featureFile, findingFile, patchFile, job, outcomes, edits, fleetFaults>>

WriteNext(m) ==
    /\ At(m, "writes")
    /\ \/ \E f \in command[m].todo :
              /\ featureFile' = [featureFile EXCEPT ![f] = command[m].seen[f]]
              /\ command' = [command EXCEPT ![m].todo = @ \ {f}]
       \/ command[m].todo = {} /\ Ends(m) /\ UNCHANGED featureFile
    /\ UNCHANGED <<seeds, findingFile, patchFile, job, outcomes, overlapped, edits, fleetFaults>>

\* The process is killed, or ends at a failed write of another record: its
\* locks stay.
KillCommand(m) ==
    /\ Running(m)
    /\ FleetFault
    /\ command' = [command EXCEPT ![m] = [Unstarted EXCEPT !.at = "dead"]]
    /\ job' = [job EXCEPT ![m] = [j \in Jobs |-> FreeJob]]
    /\ UNCHANGED <<seeds, featureFile, findingFile, patchFile, outcomes, overlapped, edits>>

-----------------------------------------------------------------------------

CommandStarts(m) ==
    \/ StartReview(m) \/ StartRevalidate(m) \/ StartMap(m) \/ StartCleanLocks(m)
    \/ \E x \in FleetFindings : StartTriage(m, x) \/ StartFix(m, x)

CommandWorks(m) ==
    \/ EndReview(m) \/ DecideStatus(m) \/ RevalidateThrows(m) \/ ReadForRefresh(m)
    \/ WriteRefreshed(m) \/ WritePlan(m) \/ HearFix(m) \/ LinkPatch(m) \/ WriteNext(m)

JobWorks(m, j) ==
    \/ TakeFeature(m, j) \/ HearReview(m, j) \/ ReadExisting(m, j) \/ WriteFinding(m, j)
    \/ FinishFeature(m, j) \/ FailFeature(m, j)

FleetNext ==
    \/ \E f \in FleetFeatures : Edit(f)
    \/ \E m \in Commands :
           \/ CommandStarts(m) \/ CommandWorks(m) \/ KillCommand(m)
           \/ \E j \in Jobs : JobWorks(m, j)

FleetSpec == FleetInit /\ [][FleetNext]_fleetVars

-----------------------------------------------------------------------------
(* Properties.                                                             *)

FleetTypeOK ==
    /\ seeds \in [FleetFeatures -> Seeds \cup {"gone"}]
    /\ featureFile \in [FleetFeatures ->
           [status : {"absent", "pending", "claimed", "reviewed", "needs-fix", "fixed", "revalidated",
                      "skipped", "error"},
            lock : Commands \cup {"none"}, lists : SUBSET FleetFindings, seed : Seeds \cup {"gone"}]]
    /\ findingFile \in [FleetFindings ->
           [status : Decisions \cup {"absent"}, history : SUBSET Commands, patches : SUBSET Commands]]
    /\ patchFile \in [Commands -> {"absent", "planned", "failed", "applied"}]
    /\ \A m \in Commands :
           /\ command[m].at \in {"new", "jobs", "decide", "refresh", "refreshed", "plan", "fixing",
                                 "link", "writes", "done", "dead"}
           /\ \A j \in Jobs : job[m][j].at \in {"free", "provider", "read", "write", "finish", "fail"}
    /\ tried \subseteq FleetFindings /\ unreleased \subseteq Commands \X FleetFeatures
    /\ overlapped \in BOOLEAN /\ edits \in 0 .. MaxEdits /\ fleetFaults \in 0 .. MaxFleetFaults

WorksOn(m, f) == \E j \in Jobs : job[m][j].f = f

\* As long as commands do not overlap, a lock belongs to a job at work on the
\* feature, to a run that was killed, or to one that failed to write the
\* feature's release and went on; no feature is claimed without a lock, by
\* which clean-locks finds it.  Parallel jobs never meet on a feature, and hold
\* its lock unless the write of that failed (lockFeature, reviewFeature's
\* catch, mapFeatures, cleanLocksCommand).
LocksAreSound ==
    overlapped \/
    /\ \A f \in FleetFeatures : LET owner == featureFile[f].lock IN
           /\ featureFile[f].status = "claimed" => owner # "none"
           /\ owner # "none" => \/ command[owner].at = "dead"
                               \/ WorksOn(owner, f)
                               \/ <<owner, f>> \in unreleased
    /\ \A m \in Commands : At(m, "jobs") => \A j \in Jobs :
           LET f == job[m][j].f IN
           f # "none" => /\ \/ featureFile[f].lock = m
                            \/ featureFile[f].lock = "none" /\ job[m][j].at = "fail"
                         /\ \A k \in Jobs \ {j} : job[m][k].f # f

\* As long as commands do not overlap, no review, retry, kill or failed write
\* takes back what an operator or a revalidation decided of a finding, or a
\* patch linked to it (mergeFinding, appendFindingHistory).
DecisionsAreKept ==
    overlapped \/
    /\ \A x \in FleetFindings : findingFile[x].history = decided[x]
    /\ \A m \in Commands : patchFile[m] = "applied" /\ At(m, "done") =>
           \E x \in FleetFindings : m \in findingFile[x].patches

\* Unless a command was killed or overlapped, a feature shown as fixed has no
\* open or uncertain finding but those a fix was tried on after the refresh
\* that made it fixed (refreshFeatureStatus; fixCommand does not call it).
FixedIsResolved ==
    overlapped \/ (\E m \in Commands : command[m].at \in {"dead", "refresh", "refreshed"}) \/
    \A f \in FleetFeatures : featureFile[f].status = "fixed" => Unresolved(f) \subseteq tried

\* The three together: what the records promise as long as the commands of
\* one repository are run one after the other.
FleetIsSound == LocksAreSound /\ DecisionsAreKept /\ FixedIsResolved

\* What ARCHITECTURE.md says of the lock and two reviews at once break: the
\* second read the record before the first wrote its lock.
NoDoubleClaim ==
    \A f \in FleetFeatures, m, o \in Commands : WorksOn(m, f) /\ WorksOn(o, f) => m = o

\* A feature whose review is pending or failed is not shown as fixed before
\* it was reviewed: refreshFeatureStatus, which overwrites every status, breaks
\* it when the last finding of an earlier review is resolved.
RefreshKeepsWork ==
    [][\A f \in FleetFeatures :
           featureFile[f].status \in {"pending", "error"} => featureFile'[f].status # "fixed"]_fleetVars
=============================================================================
