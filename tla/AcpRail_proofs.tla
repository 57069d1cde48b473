--------------------------- MODULE AcpRail_proofs ---------------------------
(***************************************************************************)
(* Proofs about the ACP rail, for any number of jobs, targets, workers and *)
(* faults, with any cap on the attempts of an event.                       *)
(*                                                                         *)
(* Workers meet only on a job.  Says(x, j) is what the place x of a worker *)
(* says of job j's row and of its client; Apart(x, y, j) keeps two workers *)
(* of one job from being where only one may be: at its budget, in its      *)
(* review, or with the right to submit.  That right is a token: an open    *)
(* row, a worker about to submit, or a deliverable the client holds, and   *)
(* never two of them, unless a call was taken to fail that did not.        *)
(***************************************************************************)
EXTENDS AcpRail, TLAPS

WorkerStates ==
    [at : Places, batch : SUBSET Events, ev : Events \cup {NoEvent}, job : AcpJobs \cup {"none"},
     saw : {"none", "pending", "setting", "set_failed", "set", "set_reconcile",
            "submitting", "submitted", "submit_failed"},
     holds : {"none", "deliverable", "submission"}, sends : {"none", "success", "error"}, n : Nat]
JobRows ==
    [status : {"absent", "billing_pending", "queued", "running", "complete", "failed"},
     keyed : BOOLEAN,
     budget : {"pending", "setting", "set_failed", "set", "set_reconcile"},
     submit : {"pending", "submitting", "submitted", "submit_failed"},
     result : {"none", "success", "error", "preserved"}]
MarketRows == [created : BOOLEAN, budget : BOOLEAN, funded : BOOLEAN, success : Nat, error : Nat]

-----------------------------------------------------------------------------
(* Where a worker may be.                                                  *)

Budgeting == {"setBudget", "markSet", "reconcile", "markSetFailed"}
Reviewing == {"enqueue", "kernel", "build", "claimSubmit"}
EventAt == {"claim", "created", "funded", "processed", "failed", "markFailed"}

\* It runs the review of its job, or ran it; it has not sent the review yet;
\* it may submit, or failed to.
Owns(x) == x.at \in Reviewing \/ x.holds # "none"
Sending(x) == x.at \in Reviewing \/ (x.at = "submit" /\ x.sends = "success")
Token(x) ==
    \/ x.at \in {"submit", "errorFailed"}
    \/ x.at \in {"terminalize", "markAmbiguous"} /\ x.holds = "deliverable"

\* What it holds and sends fits its place.
Fits(x) ==
    /\ x.at # "idle" => x.job \in AcpJobs
    /\ x.at \in EventAt => x.ev \in Events
    /\ x.at \notin {"terminalize", "preserve", "processed", "failed", "markFailed", "claimSubmit",
                    "submit", "markSubmitted", "complete", "keepSubmission", "markAmbiguous"}
           => x.holds = "none"
    /\ x.at = "claimSubmit" => x.holds = "deliverable" /\ x.sends = "success"
    /\ x.at = "submit" => \/ x.sends = "success" /\ x.holds = "deliverable"
                          \/ x.sends = "error" /\ x.holds = "none"
    /\ x.at = "markSubmitted" => \/ x.sends = "success" /\ x.holds = "submission"
                                 \/ x.sends = "error" /\ x.holds = "none"
    /\ x.at \in {"complete", "keepSubmission"} => x.holds = "submission"
    /\ x.at = "markAmbiguous" => x.holds = "deliverable"

-----------------------------------------------------------------------------
(* Jobs.                                                                   *)

Ran(j) == acpJob[j].status \in {"running", "complete", "failed"}

\* A submission may still be claimed.
Open(j) ==
    /\ acpJob[j].submit \in {"pending", "submit_failed"}
    /\ acpJob[j].status \notin {"complete", "failed"}

ClaimThrew(j) == <<"claim", j>> \in shaky
Clear(j) == j \notin unanswered /\ ~ ClaimThrew(j)
Sure(j) == j \notin unanswered /\ <<"submit", j>> \notin shaky

Says(x, j) ==
    /\ x.at \in {"setBudget", "markSetFailed"} =>
           acpJob[j].budget = "setting" /\ (market[j].budget => j \in unanswered)
    /\ x.at = "markSet" => acpJob[j].budget = "setting" /\ market[j].budget
    /\ x.at = "reconcile" => acpJob[j].budget \in {"setting", "set"} /\ market[j].budget
    /\ Owns(x) => Ran(j)
    /\ Sending(x) => market[j].success = 0 /\ ~ ClaimThrew(j)
    /\ x.holds = "submission" => market[j].success = 1
    /\ Token(x) /\ Clear(j) => market[j].success = 0 /\ market[j].error = 0 /\ ~ Open(j)
    /\ x.at = "markSubmitted" /\ x.sends = "error" => market[j].error > 0
    /\ x.at = "errorFailed" => ~ Sure(j)
    /\ x.at = "failError" /\ Sure(j) => market[j].error > 0

Apart(x, y, j) ==
    /\ ~ (x.at \in Budgeting /\ y.at \in Budgeting)
    /\ ~ (Owns(x) /\ Owns(y))
    /\ Clear(j) => ~ (Token(x) /\ Token(y))

JobFits(j) ==
    /\ market[j].budget => \/ acpJob[j].budget \in {"setting", "set", "set_reconcile"}
                           \/ j \in unanswered
    /\ acpJob[j].budget \in {"set", "set_reconcile"} => market[j].budget
    /\ market[j].success > 0 \/ ClaimThrew(j) => Ran(j)
    /\ ClaimThrew(j) => market[j].success = 0
    /\ acpJob[j].result = "success" => market[j].success = 1
    /\ acpJob[j].result = "error" /\ Sure(j) => market[j].error > 0
    /\ Clear(j) => /\ market[j].success + market[j].error <= 1
                   /\ Open(j) => market[j].success = 0 /\ market[j].error = 0

OnJob(w, j) == provider[w].at # "idle" /\ provider[w].job = j

TypeInv ==
    /\ AcpTypeOK
    /\ provider \in [AcpWorkers -> WorkerStates]
    /\ \A w \in AcpWorkers : Fits(provider[w])

AcpInv ==
    /\ \A j \in AcpJobs : JobFits(j)
    /\ \A w \in AcpWorkers, j \in AcpJobs : OnJob(w, j) => Says(provider[w], j)
    /\ \A v, w \in AcpWorkers, j \in AcpJobs :
           v # w /\ OnJob(v, j) /\ OnJob(w, j) => Apart(provider[v], provider[w], j)

-----------------------------------------------------------------------------
(* Steps of a worker.                                                      *)

\* Worker w becomes s; while it is under way its job stays the same.
Into(w, s) ==
    /\ s \in WorkerStates /\ Fits(s)
    /\ provider' = [provider EXCEPT ![w] = s]
    /\ provider[w].at # "idle" /\ s.at # "idle" => s.job = provider[w].job

Moves(w) == \E s : Into(w, s)

SameRow(o) ==
    /\ acpJob'[o].status = acpJob[o].status /\ acpJob'[o].budget = acpJob[o].budget
    /\ acpJob'[o].submit = acpJob[o].submit /\ acpJob'[o].result = acpJob[o].result

SameClient(o) ==
    /\ market'[o].budget = market[o].budget
    /\ market'[o].success = market[o].success /\ market'[o].error = market[o].error

SameHistory(o) ==
    /\ o \in unanswered' <=> o \in unanswered
    /\ <<"claim", o>> \in shaky' <=> <<"claim", o>> \in shaky
    /\ <<"submit", o>> \in shaky' <=> <<"submit", o>> \in shaky

SameView(o) == SameRow(o) /\ SameClient(o) /\ SameHistory(o)

\* What s says of its job, p said already.
Weaker(s, p) ==
    /\ s.at \notin Budgeting \cup {"markSubmitted", "errorFailed", "failError"}
    /\ Owns(s) => Owns(p)
    /\ Sending(s) => Sending(p)
    /\ s.holds = "submission" => p.holds = "submission"
    /\ Token(s) => Token(p)

PassesOn(w) ==
    /\ \E s : Into(w, s) /\ Weaker(s, provider[w])
    /\ \A o \in AcpJobs : SameView(o)

LEMMA Typed ==
  ASSUME TypeInv
  PROVE  /\ acpJob \in [AcpJobs -> JobRows] /\ market \in [AcpJobs -> MarketRows]
         /\ provider \in [AcpWorkers -> WorkerStates]
         /\ \A w \in AcpWorkers : Fits(provider[w])
  BY DEF TypeInv, AcpTypeOK, JobRows, MarketRows

LEMMA Kept == (UNCHANGED <<market, acpJob, unanswered, shaky>>) => \A o \in AcpJobs : SameView(o)
  BY DEF SameView, SameRow, SameClient, SameHistory

LEMMA Stepping ==
  ASSUME TypeInv, NEW w \in AcpWorkers, NEW at \in Places, provider[w].at # "idle", Step(w, at),
         Fits([provider[w] EXCEPT !.at = at])
  PROVE  Into(w, [provider[w] EXCEPT !.at = at])
<1>1. provider \in [AcpWorkers -> WorkerStates]
  BY Typed
<1>2. [provider[w] EXCEPT !.at = at] \in WorkerStates
  BY <1>1 DEF WorkerStates
<1>3. [provider[w] EXCEPT !.at = at].job = provider[w].job
  BY <1>1 DEF WorkerStates
<1> QED
  BY <1>1, <1>2, <1>3 DEF Into, Step

LEMMA Idling ==
  ASSUME TypeInv, NEW w \in AcpWorkers, NEW b \in SUBSET Events,
         provider' = [provider EXCEPT ![w] = [Off EXCEPT !.batch = b]]
  PROVE  \E s : Into(w, s) /\ Weaker(s, provider[w])
<1> DEFINE s == [Off EXCEPT !.batch = b]
<1>1. s \in WorkerStates /\ s.at = "idle" /\ s.holds = "none"
  BY DEF Off, WorkerStates, Places, NoEvent
<1>2. Fits(s) /\ Weaker(s, provider[w])
  BY <1>1 DEF Fits, Weaker, Owns, Sending, Token, Budgeting, Reviewing, EventAt
<1> QED
  BY <1>1, <1>2 DEF Into

LEMMA Ending ==
  ASSUME TypeInv, NEW w \in AcpWorkers, provider[w].at # "idle", Return(w) \/ Throw(w)
  PROVE  \E s : Into(w, s) /\ Weaker(s, provider[w])
<1>1. provider[w] \in WorkerStates /\ Fits(provider[w])
  BY Typed
<1>2. CASE Rest(w)
  BY <1>1, <1>2, Idling DEF Rest, WorkerStates
<1>3. ASSUME NEW at \in {"processed", "failed"}, Step(w, at), provider[w].ev # NoEvent
      PROVE  \E s : Into(w, s) /\ Weaker(s, provider[w])
  <2>1. PICK s : s = [provider[w] EXCEPT !.at = at]
    OBVIOUS
  <2>2. /\ s.at = at /\ s.job = provider[w].job /\ s.ev \in Events /\ s.holds = provider[w].holds
        /\ s.sends = provider[w].sends /\ s.job \in AcpJobs
    BY <1>1, <1>3, <2>1 DEF WorkerStates, Fits
  <2>3. Fits(s)
    BY <2>2 DEF Fits, EventAt
  <2>4. Weaker(s, provider[w])
    BY <2>2 DEF Weaker, Owns, Sending, Token, Budgeting, Reviewing
  <2> QED
    BY <1>3, <2>1, <2>3, <2>4, Stepping DEF Places
<1> QED
  BY <1>2, <1>3 DEF Return, Throw

-----------------------------------------------------------------------------
(* Steps that change nothing a job or its client sees.                     *)

\* Where a worker that holds nothing says nothing.
Plain == (Places \ (Budgeting \cup Reviewing)) \ {"submit", "markSubmitted", "errorFailed", "failError"}

LEMMA PlainIsWeak ==
  ASSUME NEW s \in WorkerStates, NEW p, s.at \in Plain, s.holds = "none"
  PROVE  Weaker(s, p)
  BY DEF Plain, Weaker, Owns, Sending, Token

LEMMA GoesPlain ==
  ASSUME TypeInv, NEW w \in AcpWorkers, NEW s \in WorkerStates, Fits(s), s.at \in Plain, s.holds = "none",
         provider' = [provider EXCEPT ![w] = s],
         provider[w].at # "idle" /\ s.at # "idle" => s.job = provider[w].job
  PROVE  \E t : Into(w, t) /\ Weaker(t, provider[w])
  BY PlainIsWeak DEF Into

\* A worker that holds nothing takes a step to such a place.
LEMMA StepsPlain ==
  ASSUME TypeInv, NEW w \in AcpWorkers, NEW at \in Plain, provider[w].at # "idle",
         provider[w].holds = "none", Step(w, at), at \in EventAt => provider[w].ev \in Events,
         at \notin {"claimSubmit", "submit", "markSubmitted", "complete", "keepSubmission", "markAmbiguous"}
  PROVE  \E s : Into(w, s) /\ Weaker(s, provider[w])
<1>1. provider[w] \in WorkerStates /\ Fits(provider[w])
  BY Typed
<1>2. PICK s : s = [provider[w] EXCEPT !.at = at]
  OBVIOUS
<1>3. at \in Places /\ s \in WorkerStates
  BY <1>1, <1>2 DEF WorkerStates, Plain
<1>4. /\ s.at = at /\ s.job = provider[w].job /\ s.holds = "none" /\ s.ev = provider[w].ev
      /\ s.job \in AcpJobs
  BY <1>1, <1>2 DEF WorkerStates, Fits
<1>5. Fits(s)
  BY <1>4 DEF Fits
<1>6. Into(w, s)
  BY <1>2, <1>3, <1>5, Stepping
<1> QED
  BY <1>3, <1>4, <1>6, PlainIsWeak

LEMMA RecordPasses == ASSUME TypeInv, NEW w \in AcpWorkers, RecordEvent(w) PROVE PassesOn(w)
<1>1. provider[w] \in WorkerStates /\ provider[w].at = "idle"
  BY Typed DEF RecordEvent, WorkerAt
<1>2. PICK e \in provider[w].batch :
          provider' = [provider EXCEPT
                  ![w] = IF inbox[e].status = "processed"
                         THEN [Off EXCEPT !.batch = provider[w].batch \ {e}]
                         ELSE [Off EXCEPT !.at = "claim", !.ev = e, !.job = e[2],
                                          !.batch = provider[w].batch \ {e}]]
  BY DEF RecordEvent
<1>3. provider[w].batch \ {e} \in SUBSET Events /\ e \in Events /\ e[2] \in AcpJobs
  BY <1>1 DEF WorkerStates, Events
<1>4. CASE inbox[e].status = "processed"
  BY <1>2, <1>3, <1>4, Idling, Kept DEF PassesOn, RecordEvent
<1>5. CASE inbox[e].status # "processed"
  <2>1. PICK s : s = [Off EXCEPT !.at = "claim", !.ev = e, !.job = e[2], !.batch = provider[w].batch \ {e}]
    OBVIOUS
  <2>2. /\ s \in WorkerStates /\ s.at = "claim" /\ s.holds = "none" /\ s.ev = e /\ s.job = e[2]
        /\ s.at \in Plain
    BY <1>3, <2>1 DEF Off, WorkerStates, Places, Plain, Budgeting, Reviewing
  <2>3. Fits(s)
    BY <1>3, <2>2 DEF Fits, EventAt
  <2>4. provider' = [provider EXCEPT ![w] = s]
    BY <1>2, <1>5, <2>1
  <2>5. \E t : Into(w, t) /\ Weaker(t, provider[w])
    BY <1>1, <2>2, <2>3, <2>4, GoesPlain
  <2> QED
    BY <2>5, Kept DEF PassesOn, RecordEvent
<1> QED
  BY <1>4, <1>5

LEMMA DrainPasses == ASSUME TypeInv, NEW w \in AcpWorkers, Drain(w) PROVE PassesOn(w)
<1>1. provider[w] \in WorkerStates /\ provider[w].at = "idle" /\ Fits(provider[w])
  BY Typed DEF Drain, WorkerAt
<1>2. PICK s : s = [provider[w] EXCEPT !.batch = spool]
  OBVIOUS
<1>3. spool \subseteq Events
  BY DEF TypeInv, AcpTypeOK
<1>4. /\ s \in WorkerStates /\ s.at = "idle" /\ s.holds = provider[w].holds /\ s.at \in Plain
      /\ provider[w].holds = "none"
  BY <1>1, <1>2, <1>3 DEF WorkerStates, Fits, Places, Plain, Budgeting, Reviewing
<1>5. Fits(s)
  BY <1>4 DEF Fits, EventAt
<1>6. \E t : Into(w, t) /\ Weaker(t, provider[w])
  BY <1>1, <1>2, <1>4, <1>5, GoesPlain DEF Drain
<1> QED
  BY <1>6, Kept DEF PassesOn, Drain

LEMMA TakePasses ==
  ASSUME TypeInv, NEW w \in AcpWorkers,
         \/ \E e \in Events : TakeDue(w, e)
         \/ \E j \in AcpJobs : TakeOrphan(w, j) \/ TakeStuck(w, j)
  PROVE  PassesOn(w)
<1>1. provider[w].at = "idle"
  BY DEF TakeDue, TakeOrphan, TakeStuck, WorkerAt
<1>2. ASSUME NEW e \in Events, TakeDue(w, e)
      PROVE  \E t : Into(w, t) /\ Weaker(t, provider[w])
  <2>1. PICK s : s = [Off EXCEPT !.at = "claim", !.ev = e, !.job = e[2]]
    OBVIOUS
  <2>2. /\ s \in WorkerStates /\ s.at = "claim" /\ s.holds = "none" /\ s.ev = e /\ s.job = e[2]
        /\ s.at \in Plain /\ e[2] \in AcpJobs
    BY <2>1 DEF Off, WorkerStates, Places, Plain, Budgeting, Reviewing, Events
  <2>3. Fits(s)
    BY <2>2 DEF Fits, EventAt
  <2> QED
    BY <1>1, <1>2, <2>1, <2>2, <2>3, GoesPlain DEF TakeDue
<1>3. ASSUME NEW j \in AcpJobs, TakeOrphan(w, j)
      PROVE  \E t : Into(w, t) /\ Weaker(t, provider[w])
  <2>1. PICK s : s = [Off EXCEPT !.at = "load", !.job = j]
    OBVIOUS
  <2>2. s \in WorkerStates /\ s.at = "load" /\ s.holds = "none" /\ s.job = j /\ s.at \in Plain
    BY <2>1 DEF Off, WorkerStates, Places, Plain, Budgeting, Reviewing
  <2>3. Fits(s)
    BY <2>2 DEF Fits, EventAt
  <2> QED
    BY <1>1, <1>3, <2>1, <2>2, <2>3, GoesPlain DEF TakeOrphan
<1>4. ASSUME NEW j \in AcpJobs, TakeStuck(w, j)
      PROVE  \E t : Into(w, t) /\ Weaker(t, provider[w])
  <2>1. PICK s : s = [Off EXCEPT !.at = "terminalize", !.job = j, !.saw = acpJob[j].submit]
    OBVIOUS
  <2>2. acpJob[j].submit \in {"pending", "submitting", "submitted", "submit_failed"}
    BY Typed DEF JobRows
  <2>3. s \in WorkerStates /\ s.at = "terminalize" /\ s.holds = "none" /\ s.job = j /\ s.at \in Plain
    BY <2>1, <2>2 DEF Off, WorkerStates, Places, Plain, Budgeting, Reviewing
  <2>4. Fits(s)
    BY <2>3 DEF Fits, EventAt
  <2> QED
    BY <1>1, <1>4, <2>1, <2>3, <2>4, GoesPlain DEF TakeStuck
<1>5. UNCHANGED <<market, acpJob, unanswered, shaky>>
  BY DEF TakeDue, TakeOrphan, TakeStuck
<1> QED
  BY <1>2, <1>3, <1>4, <1>5, Kept DEF PassesOn

\* A worker carries what it holds along to a place where that says no more.
LEMMA Carries ==
  ASSUME TypeInv, NEW w \in AcpWorkers, NEW at \in Places, provider[w].at # "idle", Step(w, at),
         \/ at \in {"preserve", "processed", "failed", "markFailed"}
         \/ at = "terminalize" /\ (provider[w].holds = "deliverable" => Token(provider[w]))
         \/ at \in Reviewing \ {"claimSubmit"} /\ provider[w].holds = "none" /\ Sending(provider[w])
         \/ at = "keepSubmission" /\ provider[w].holds = "submission"
         \/ at = "markAmbiguous" /\ provider[w].holds = "deliverable" /\ Token(provider[w]),
         at \in EventAt => provider[w].ev \in Events
  PROVE  \E s : Into(w, s) /\ Weaker(s, provider[w])
<1>1. provider[w] \in WorkerStates /\ Fits(provider[w])
  BY Typed
<1>2. PICK s : s = [provider[w] EXCEPT !.at = at]
  OBVIOUS
<1>3. s \in WorkerStates
  BY <1>1, <1>2 DEF WorkerStates
<1>4. /\ s.at = at /\ s.job = provider[w].job /\ s.holds = provider[w].holds
      /\ s.ev = provider[w].ev /\ s.sends = provider[w].sends /\ s.job \in AcpJobs
  BY <1>1, <1>2 DEF WorkerStates, Fits
<1>5. Fits(s)
  BY <1>4 DEF Fits, Reviewing, EventAt
<1>6. Into(w, s)
  BY <1>2, <1>3, <1>5, Stepping
<1>7. Weaker(s, provider[w])
  BY <1>1, <1>4 DEF Fits, Weaker, Owns, Sending, Token, Budgeting, Reviewing
<1> QED
  BY <1>6, <1>7

LEMMA EventPasses ==
  ASSUME TypeInv, NEW w \in AcpWorkers,
         ClaimEvent(w) \/ MarkProcessed(w) \/ ReadAttempts(w) \/ MarkFailed(w)
  PROVE  PassesOn(w)
<1>1. provider[w] \in WorkerStates /\ Fits(provider[w])
  BY Typed
<1>2. provider[w].batch \in SUBSET Events
  BY <1>1 DEF WorkerStates
<1>3. CASE ClaimEvent(w)
  <2>1. provider[w].at = "claim" /\ provider[w].ev \in Events /\ provider[w].holds = "none"
    BY <1>1, <1>3 DEF ClaimEvent, WorkerAt, Fits, EventAt
  <2>2. provider[w].ev[1] \in {"created", "funded"}
    BY <2>1 DEF Events
  <2>3. provider[w].ev[1] \in Plain
    BY <2>2 DEF Plain, Places, Budgeting, Reviewing
  <2>4. Step(w, provider[w].ev[1]) \/ Rest(w)
    BY <1>3 DEF ClaimEvent
  <2>5. \E s : Into(w, s) /\ Weaker(s, provider[w])
    BY <1>2, <2>1, <2>2, <2>3, <2>4, StepsPlain, Idling DEF Rest
  <2> QED
    BY <1>3, <2>5, Kept DEF ClaimEvent, PassesOn
<1>4. CASE MarkProcessed(w)
  <2>1. provider[w].at = "processed" /\ provider[w].ev \in Events
    BY <1>1, <1>4 DEF MarkProcessed, WorkerAt, Fits, EventAt
  <2>2. Step(w, "failed") \/ Rest(w)
    BY <1>4 DEF MarkProcessed
  <2>3. \E s : Into(w, s) /\ Weaker(s, provider[w])
    BY <1>2, <2>1, <2>2, Carries, Idling DEF Rest, Places
  <2> QED
    BY <1>4, <2>3, Kept DEF MarkProcessed, PassesOn
<1>5. CASE ReadAttempts(w)
  <2>1. provider[w].at = "failed" /\ provider[w].ev \in Events
    BY <1>1, <1>5 DEF ReadAttempts, WorkerAt, Fits, EventAt
  <2>2. inbox[provider[w].ev].attempts \in Nat
    BY <2>1, AcpAssumption DEF TypeInv, AcpTypeOK
  <2>3. PICK s : s = [provider[w] EXCEPT !.at = "markFailed", !.n = inbox[provider[w].ev].attempts]
    OBVIOUS
  <2>4. s \in WorkerStates
    BY <1>1, <2>2, <2>3 DEF WorkerStates, Places
  <2>5. /\ s.at = "markFailed" /\ s.job = provider[w].job /\ s.holds = provider[w].holds
        /\ s.ev = provider[w].ev /\ s.sends = provider[w].sends /\ s.job \in AcpJobs
    BY <1>1, <2>1, <2>3 DEF WorkerStates, Fits
  <2>6. Fits(s) /\ Weaker(s, provider[w])
    BY <2>1, <2>5 DEF Fits, EventAt, Weaker, Owns, Sending, Token, Budgeting, Reviewing
  <2>7. provider' = [provider EXCEPT ![w] = s]
    BY <1>5, <1>1, <2>3, Typed DEF ReadAttempts, WorkerStates
  <2> QED
    BY <1>5, <2>4, <2>5, <2>6, <2>7, Kept DEF ReadAttempts, PassesOn, Into
<1>6. CASE MarkFailed(w)
  BY <1>2, <1>6, Idling, Kept DEF Rest, MarkFailed, PassesOn
<1> QED
  BY <1>3, <1>4, <1>5, <1>6

LEMMA PlainPasses ==
  ASSUME TypeInv, NEW w \in AcpWorkers,
         Refuse(w) \/ FindFunded(w) \/ LoadJob(w) \/ RereadJob(w) \/ WorkerDies(w)
  PROVE  PassesOn(w)
<1>1. provider[w] \in WorkerStates /\ Fits(provider[w])
  BY Typed
<1>2. CASE Refuse(w)
  BY <1>2, Ending, Kept DEF Refuse, WorkerAt, PassesOn
<1>3. CASE FindFunded(w)
  <2>1. provider[w].at = "funded" /\ provider[w].holds = "none"
    BY <1>1, <1>3 DEF FindFunded, WorkerAt, Fits
  <2>2. Throw(w) \/ Return(w) \/ Step(w, "queue") \/ Step(w, "load")
    BY <1>3 DEF FindFunded
  <2>3. \E s : Into(w, s) /\ Weaker(s, provider[w])
    BY <2>1, <2>2, Ending, StepsPlain DEF Plain, Places, Budgeting, Reviewing, EventAt
  <2> QED
    BY <1>3, <2>3, Kept DEF FindFunded, PassesOn
<1>4. CASE LoadJob(w)
  <2>1. provider[w].at = "load" /\ provider[w].holds = "none" /\ provider[w].job \in AcpJobs
    BY <1>1, <1>4 DEF LoadJob, WorkerAt, Fits
  <2>2. CASE acpJob[provider[w].job].status = "queued"
    <3>1. PICK s : s = [provider[w] EXCEPT !.at = "run", !.saw = acpJob[provider[w].job].submit]
      OBVIOUS
    <3>2. acpJob[provider[w].job].submit \in {"pending", "submitting", "submitted", "submit_failed"}
      BY <2>1, Typed DEF JobRows
    <3>3. /\ s \in WorkerStates /\ s.at = "run" /\ s.holds = "none" /\ s.job = provider[w].job
          /\ s.at \in Plain
      BY <1>1, <2>1, <3>1, <3>2 DEF WorkerStates, Places, Plain, Budgeting, Reviewing
    <3>4. Fits(s)
      BY <2>1, <3>3 DEF Fits, EventAt
    <3>5. provider' = [provider EXCEPT ![w] = s]
      BY <1>4, <2>2, <3>1, <1>1, Typed DEF LoadJob, WorkerStates
    <3>6. \E t : Into(w, t) /\ Weaker(t, provider[w])
      BY <3>3, <3>4, <3>5, GoesPlain
    <3> QED
      BY <1>4, <3>6, Kept DEF LoadJob, PassesOn
  <2>3. CASE acpJob[provider[w].job].status # "queued"
    BY <1>4, <2>1, <2>3, Ending, Kept DEF LoadJob, PassesOn
  <2> QED
    BY <2>2, <2>3
<1>5. CASE RereadJob(w)
  <2>1. provider[w].at = "errorRefused"
    BY <1>5 DEF RereadJob, WorkerAt
  <2>2. Step(w, "preserve") \/ Throw(w)
    BY <1>5 DEF RereadJob
  <2>3. \E s : Into(w, s) /\ Weaker(s, provider[w])
    BY <2>1, <2>2, Ending, Carries DEF Places, EventAt
  <2> QED
    BY <1>5, <2>3, Kept DEF RereadJob, PassesOn
<1>6. CASE WorkerDies(w)
  <2>1. Off = [Off EXCEPT !.batch = {}] /\ {} \in SUBSET Events
    BY DEF Off
  <2> QED
    BY <1>6, <2>1, Idling, Kept DEF WorkerDies, PassesOn
<1> QED
  BY <1>2, <1>3, <1>4, <1>5, <1>6

LEMMA PipelinePasses ==
  ASSUME TypeInv, NEW w \in AcpWorkers,
         \/ EnqueueAcpReview(w) \/ PipelineThrows(w) \/ KernelEnds(w) \/ BuildDeliverable(w)
         \/ Terminalize(w)
  PROVE  PassesOn(w)
<1>1. provider[w] \in WorkerStates /\ Fits(provider[w])
  BY Typed
<1>2. CASE EnqueueAcpReview(w) \/ PipelineThrows(w) \/ KernelEnds(w)
  <2>1. provider[w].at \in {"enqueue", "kernel"}
    BY <1>2 DEF EnqueueAcpReview, PipelineThrows, KernelEnds, WorkerAt
  <2>2. provider[w].holds = "none" /\ Sending(provider[w])
    BY <1>1, <2>1 DEF Fits, Sending, Reviewing
  <2>3. Step(w, "kernel") \/ Step(w, "build") \/ Step(w, "terminalize")
    BY <1>2 DEF EnqueueAcpReview, PipelineThrows, KernelEnds
  <2>4. \E s : Into(w, s) /\ Weaker(s, provider[w])
    BY <2>1, <2>2, <2>3, Carries DEF Places, Reviewing, EventAt
  <2>5. UNCHANGED <<market, acpJob, unanswered, shaky>>
    BY <1>2 DEF EnqueueAcpReview, PipelineThrows, KernelEnds
  <2> QED
    BY <2>4, <2>5, Kept DEF PassesOn
<1>3. CASE BuildDeliverable(w)
  <2>1. provider[w].at = "build" /\ provider[w].holds = "none" /\ provider[w].job \in AcpJobs
    BY <1>1, <1>3 DEF BuildDeliverable, WorkerAt, Fits
  <2>2. CASE acpReview[TargetOf[provider[w].job]] = "degraded"
    <3>1. \E s : Into(w, s) /\ Weaker(s, provider[w])
      BY <1>3, <2>1, <2>2, Carries DEF BuildDeliverable, Places, EventAt
    <3> QED
      BY <1>3, <3>1, Kept DEF BuildDeliverable, PassesOn
  <2>3. CASE acpReview[TargetOf[provider[w].job]] # "degraded"
    <3>1. PICK s : s = [provider[w] EXCEPT !.at = "claimSubmit", !.holds = "deliverable",
                                           !.sends = "success"]
      OBVIOUS
    <3>2. /\ s \in WorkerStates /\ s.at = "claimSubmit" /\ s.holds = "deliverable"
          /\ s.sends = "success" /\ s.job = provider[w].job
      <4>1. "claimSubmit" \in Places
        BY DEF Places
      <4> QED
        BY <1>1, <3>1, <4>1 DEF WorkerStates
    <3>3. Fits(s) /\ Weaker(s, provider[w])
      BY <2>1, <3>2 DEF Fits, EventAt, Weaker, Owns, Sending, Token, Budgeting, Reviewing
    <3>4. provider' = [provider EXCEPT ![w] = s]
      BY <1>3, <2>3, <3>1, <1>1, Typed DEF BuildDeliverable, WorkerStates
    <3> QED
      BY <1>3, <3>2, <3>3, <3>4, Kept DEF BuildDeliverable, PassesOn, Into
  <2> QED
    BY <2>2, <2>3
<1>4. CASE Terminalize(w)
  <2>1. provider[w].at = "terminalize" /\ provider[w].holds \in {"none", "deliverable", "submission"}
    BY <1>1, <1>4 DEF Terminalize, WorkerAt, WorkerStates
  <2>2. \/ Step(w, "preserve")
        \/ Step(w, "keepSubmission") /\ provider[w].holds = "submission"
        \/ Step(w, "markAmbiguous") /\ provider[w].holds = "deliverable"
        \/ Step(w, "claimError") /\ provider[w].holds = "none"
    BY <1>4, <2>1 DEF Terminalize
  <2>3. provider[w].holds = "deliverable" => Token(provider[w])
    BY <2>1 DEF Token
  <2>4. "claimError" \in Plain
    BY DEF Plain, Places, Budgeting, Reviewing
  <2>5. \E s : Into(w, s) /\ Weaker(s, provider[w])
    BY <2>1, <2>2, <2>3, <2>4, Carries, StepsPlain DEF Places, EventAt
  <2> QED
    BY <1>4, <2>5, Kept DEF Terminalize, PassesOn
<1> QED
  BY <1>2, <1>3, <1>4

-----------------------------------------------------------------------------
(* What such a step leaves true.                                           *)

LEMMA ViewKeeps ==
  ASSUME NEW o \in AcpJobs, SameView(o)
  PROVE  /\ JobFits(o)' <=> JobFits(o)
         /\ \A x : Says(x, o)' <=> Says(x, o)
         /\ \A x, y : Apart(x, y, o)' <=> Apart(x, y, o)
  BY DEF SameView, SameRow, SameClient, SameHistory, JobFits, Says, Apart, Ran, Open, ClaimThrew,
         Clear, Sure

\* What the invariant asks of a step, worker by worker.
LEMMA Assembled ==
  ASSUME TypeInv, AcpInv, NEW w \in AcpWorkers, NEW s, Into(w, s),
         \A j \in AcpJobs : JobFits(j)' /\ (Clear(j)' => Clear(j)),
         \A j \in AcpJobs : s.at # "idle" /\ s.job = j => Says(s, j)',
         \A j \in AcpJobs, v \in AcpWorkers \ {w}, x \in WorkerStates :
             x = provider[v] /\ OnJob(v, j) =>
                 Says(x, j)' /\ (s.at # "idle" /\ s.job = j => Apart(x, s, j)')
  PROVE  AcpInv' /\ Moves(w)
<1>1. provider'[w] = s /\ \A v \in AcpWorkers : v # w => provider'[v] = provider[v]
  BY Typed DEF Into
<1>2. ASSUME NEW v \in AcpWorkers, NEW j \in AcpJobs, OnJob(v, j)'
      PROVE  Says(provider[v], j)'
  <2>1. CASE v = w
    <3>1. s.at # "idle" /\ s.job = j
      BY <1>1, <1>2, <2>1 DEF OnJob
    <3>2. Says(s, j)'
      BY <3>1
    <3> QED
      BY <1>1, <2>1, <3>2 DEF Says, Sending, Owns, Token, Ran, Open, Clear, Sure, ClaimThrew
  <2>2. CASE v # w
    <3>1. PICK x \in WorkerStates : x = provider[v]
      BY Typed
    <3>2. OnJob(v, j)
      BY <1>1, <1>2, <2>2 DEF OnJob
    <3>3. Says(x, j)' /\ x = provider'[v]
      BY <1>1, <2>2, <3>1, <3>2
    <3> QED
      BY <3>3 DEF Says, Sending, Owns, Token, Ran, Open, Clear, Sure, ClaimThrew
  <2> QED
    BY <2>1, <2>2
<1>3. ASSUME NEW v \in AcpWorkers, NEW j \in AcpJobs, v # w, OnJob(v, j)', OnJob(w, j)'
      PROVE  Apart(provider[v], provider[w], j)' /\ Apart(provider[w], provider[v], j)'
  <2>1. PICK x \in WorkerStates : x = provider[v]
    BY Typed
  <2>2. OnJob(v, j) /\ s.at # "idle" /\ s.job = j
    BY <1>1, <1>3 DEF OnJob
  <2>3. Apart(x, s, j)' /\ x = provider'[v] /\ s = provider'[w]
    BY <1>1, <1>3, <2>1, <2>2
  <2> QED
    BY <2>3 DEF Apart, Owns, Token, Clear, ClaimThrew
<1>4. ASSUME NEW u \in AcpWorkers, NEW v \in AcpWorkers, NEW j \in AcpJobs, u # v, u # w, v # w,
             OnJob(u, j)', OnJob(v, j)'
      PROVE  Apart(provider[u], provider[v], j)'
  <2>1. Apart(provider[u], provider[v], j) /\ provider'[u] = provider[u] /\ provider'[v] = provider[v]
    BY <1>1, <1>4 DEF AcpInv, OnJob
  <2>2. Clear(j)' => Clear(j)
    OBVIOUS
  <2> QED
    BY <2>1, <2>2 DEF Apart, Owns, Token
<1> QED
  BY <1>2, <1>3, <1>4 DEF AcpInv, Moves

LEMMA PassingKeeps ==
  ASSUME TypeInv, AcpInv, NEW w \in AcpWorkers, PassesOn(w)
  PROVE  AcpInv' /\ Moves(w)
<1>1. PICK s : Into(w, s) /\ Weaker(s, provider[w])
  BY DEF PassesOn
<1>2. \A j \in AcpJobs : JobFits(j)' /\ (Clear(j)' => Clear(j))
  BY ViewKeeps DEF AcpInv, PassesOn, SameView, SameHistory, Clear, ClaimThrew
<1>3. Fits(provider[w])
  BY Typed
<1>4. ASSUME NEW j \in AcpJobs, s.at # "idle", s.job = j
      PROVE  Says(s, j)'
  <2>1. CASE provider[w].at # "idle"
    <3>1. Says(provider[w], j)
      BY <1>1, <1>4, <2>1 DEF AcpInv, OnJob, Into
    <3>2. Says(s, j)
      BY <1>1, <3>1 DEF Says, Weaker, Budgeting
    <3> QED
      BY <3>2, ViewKeeps DEF PassesOn
  <2>2. CASE provider[w].at = "idle"
    <3>1. Says(s, j)
      BY <1>1, <1>3, <2>2 DEF Says, Weaker, Budgeting, Owns, Sending, Token, Reviewing, Fits
    <3> QED
      BY <3>1, ViewKeeps DEF PassesOn
  <2> QED
    BY <2>1, <2>2
<1>5. ASSUME NEW j \in AcpJobs, NEW v \in AcpWorkers \ {w}, NEW x \in WorkerStates, x = provider[v],
             OnJob(v, j)
      PROVE  Says(x, j)' /\ (s.at # "idle" /\ s.job = j => Apart(x, s, j)')
  <2>1. Says(x, j)'
    BY <1>5, ViewKeeps DEF PassesOn, AcpInv
  <2>2. ASSUME s.at # "idle", s.job = j
        PROVE  Apart(x, s, j)'
    <3>1. CASE provider[w].at # "idle"
      <4>1. Apart(x, provider[w], j)
        BY <1>1, <1>5, <2>2, <3>1 DEF AcpInv, OnJob, Into
      <4>2. Apart(x, s, j)
        BY <1>1, <4>1 DEF Apart, Weaker
      <4> QED
        BY <4>2, ViewKeeps DEF PassesOn
    <3>2. CASE provider[w].at = "idle"
      <4>1. Apart(x, s, j)
        BY <1>1, <1>3, <3>2 DEF Apart, Weaker, Owns, Token, Reviewing, Fits
      <4> QED
        BY <4>1, ViewKeeps DEF PassesOn
    <3> QED
      BY <3>1, <3>2
  <2> QED
    BY <2>1, <2>2
<1> QED
  BY <1>1, <1>2, <1>4, <1>5, Assembled

\* Worker w becomes s and changes the view of its own job j alone.
Acts(w, s, j) ==
    /\ provider[w].at # "idle" /\ j = provider[w].job /\ j \in AcpJobs
    /\ Into(w, s)
    /\ \A o \in AcpJobs : o # j => SameView(o)
    /\ unanswered \subseteq unanswered' /\ shaky \subseteq shaky'

LEMMA ActingKeeps ==
  ASSUME TypeInv, AcpInv, NEW w \in AcpWorkers, NEW s, NEW j, NEW p, p = provider[w], Acts(w, s, j),
         JobFits(j)', s.at # "idle" => Says(s, j)',
         \A x \in WorkerStates :
             Fits(x) /\ x.at # "idle" /\ Says(x, j) /\ Apart(x, p, j) =>
                 Says(x, j)' /\ (s.at # "idle" => Apart(x, s, j)')
  PROVE  AcpInv' /\ Moves(w)
<1>1. j \in AcpJobs /\ Into(w, s) /\ OnJob(w, j)
  BY DEF Acts, OnJob
<1>2. \A o \in AcpJobs : JobFits(o)' /\ (Clear(o)' => Clear(o))
  <2>1. ASSUME NEW o \in AcpJobs, o # j
        PROVE  JobFits(o)'
    BY <2>1, ViewKeeps DEF AcpInv, Acts
  <2> QED
    BY <2>1 DEF Acts, Clear, ClaimThrew
<1>3. \A o \in AcpJobs : s.at # "idle" /\ s.job = o => Says(s, o)'
  BY <1>1 DEF Acts, Into
<1>4. ASSUME NEW o \in AcpJobs, NEW v \in AcpWorkers \ {w}, NEW x \in WorkerStates, x = provider[v],
             OnJob(v, o)
      PROVE  Says(x, o)' /\ (s.at # "idle" /\ s.job = o => Apart(x, s, o)')
  <2>1. CASE o = j
    <3>1. x \in WorkerStates /\ Fits(x) /\ x.at # "idle" /\ Says(x, j) /\ Apart(x, p, j)
      BY <1>1, <1>4, <2>1, Typed DEF AcpInv, OnJob
    <3> QED
      BY <2>1, <3>1
  <2>2. CASE o # j
    <3>1. ~ (s.at # "idle" /\ s.job = o)
      BY <1>1, <2>2 DEF Acts, Into
    <3>2. Says(x, o)'
      BY <1>4, <2>2, ViewKeeps DEF AcpInv, Acts
    <3> QED
      BY <3>1, <3>2
  <2> QED
    BY <2>1, <2>2
<1> QED
  BY <1>1, <1>2, <1>3, <1>4, Assembled

-----------------------------------------------------------------------------
(* Steps at a job's budget.                                                *)

\* What SetJob changes of a row, and what it leaves alone.
LEMMA StatusSet ==
  ASSUME TypeInv, NEW j \in AcpJobs, NEW v, SetJob(j, "status", v)
  PROVE  /\ acpJob'[j].status = v /\ acpJob'[j].budget = acpJob[j].budget
         /\ acpJob'[j].submit = acpJob[j].submit /\ acpJob'[j].result = acpJob[j].result
         /\ \A o \in AcpJobs : o # j => SameRow(o)
  BY Typed DEF SetJob, JobRows, SameRow

LEMMA BudgetSet ==
  ASSUME TypeInv, NEW j \in AcpJobs, NEW v, SetJob(j, "budget", v)
  PROVE  /\ acpJob'[j].budget = v /\ acpJob'[j].status = acpJob[j].status
         /\ acpJob'[j].submit = acpJob[j].submit /\ acpJob'[j].result = acpJob[j].result
         /\ \A o \in AcpJobs : o # j => SameRow(o)
  BY Typed DEF SetJob, JobRows, SameRow

LEMMA SubmitSet ==
  ASSUME TypeInv, NEW j \in AcpJobs, NEW v, SetJob(j, "submit", v)
  PROVE  /\ acpJob'[j].submit = v /\ acpJob'[j].status = acpJob[j].status
         /\ acpJob'[j].budget = acpJob[j].budget /\ acpJob'[j].result = acpJob[j].result
         /\ \A o \in AcpJobs : o # j => SameRow(o)
  BY Typed DEF SetJob, JobRows, SameRow

LEMMA RowsKept == (UNCHANGED acpJob) => \A o \in AcpJobs : SameRow(o)
  BY DEF SameRow

LEMMA ClientsKept == (UNCHANGED market) => \A o \in AcpJobs : SameClient(o)
  BY DEF SameClient

LEMMA HistoryKept ==
  (UNCHANGED <<unanswered, shaky>>) =>
      /\ \A o \in AcpJobs : SameHistory(o)
      /\ unanswered \subseteq unanswered' /\ shaky \subseteq shaky'
  BY DEF SameHistory

\* A worker at at that steps to another place of its task.
LEMMA StepGoes ==
  ASSUME TypeInv, NEW w \in AcpWorkers, NEW p, p = provider[w], p.at # "idle",
         NEW at \in Places \ EventAt, at # "idle", Step(w, at),
         \/ /\ p.holds = "none"
            /\ at \notin {"claimSubmit", "submit", "markSubmitted", "complete", "keepSubmission", "markAmbiguous"}
         \/ at \in {"terminalize", "preserve"}
         \/ at = "submit" /\ p.holds = "deliverable" /\ p.sends = "success"
         \/ at = "complete" /\ p.holds = "submission"
  PROVE  \E s : /\ Into(w, s) /\ s.at = at /\ s.job = p.job /\ s.holds = p.holds /\ s.sends = p.sends
                /\ s \in WorkerStates
<1>1. provider[w] \in WorkerStates /\ Fits(provider[w])
  BY Typed
<1>2. PICK s : s = [provider[w] EXCEPT !.at = at]
  OBVIOUS
<1>3. s \in WorkerStates
  BY <1>1, <1>2 DEF WorkerStates
<1>4. /\ s.at = at /\ s.job = p.job /\ s.holds = p.holds
      /\ s.ev = p.ev /\ s.sends = p.sends /\ s.job \in AcpJobs
  BY <1>1, <1>2 DEF WorkerStates, Fits
<1>5. Fits(s)
  BY <1>4 DEF Fits
<1>6. Into(w, s)
  BY <1>2, <1>3, <1>5, Stepping
<1> QED
  BY <1>3, <1>4, <1>6

LEMMA ClaimBudgetKeeps ==
  ASSUME TypeInv, AcpInv, NEW w \in AcpWorkers, ClaimBudget(w)
  PROVE  AcpInv' /\ Moves(w)
<1>1. PICK p, j : p = provider[w] /\ j = provider[w].job
  OBVIOUS
<1>2. p \in WorkerStates /\ Fits(p) /\ p.at = "claimBudget" /\ j \in AcpJobs /\ p.holds = "none"
  BY <1>1, Typed DEF ClaimBudget, WorkerAt, Fits
<1>3. ASSUME acpJob[j].status = "billing_pending", acpJob[j].budget \in {"pending", "set_failed"},
             SetJob(j, "budget", "setting"), Step(w, "setBudget")
      PROVE  AcpInv' /\ Moves(w)
  <2>1. PICK s : Into(w, s) /\ s.at = "setBudget" /\ s.job = j /\ s.holds = "none" /\ s \in WorkerStates
    BY <1>1, <1>2, <1>3, StepGoes DEF Places, EventAt
  <2>2. /\ acpJob'[j].budget = "setting" /\ acpJob'[j].status = acpJob[j].status
        /\ acpJob'[j].submit = acpJob[j].submit /\ acpJob'[j].result = acpJob[j].result
        /\ \A o \in AcpJobs : o # j => SameRow(o)
    BY <1>2, <1>3, BudgetSet
  <2>3. UNCHANGED <<market, unanswered, shaky>>
    BY DEF ClaimBudget
  <2>4. Acts(w, s, j)
    BY <1>1, <1>2, <2>1, <2>2, <2>3, ClientsKept, HistoryKept DEF Acts, SameView
  <2>5. JobFits(j)
    BY <1>2 DEF AcpInv
  <2>6. JobFits(j)'
    BY <2>2, <2>3, <2>5 DEF JobFits, Ran, Open, Clear, ClaimThrew, Sure
  <2>7. Says(s, j)'
    BY <1>3, <2>1, <2>2, <2>3, <2>5 DEF Says, Owns, Sending, Token, Reviewing, JobFits
  <2>8. ASSUME NEW x \in WorkerStates, Says(x, j), Apart(x, p, j)
        PROVE  Says(x, j)' /\ Apart(x, s, j)'
    <3>1. x.at \notin Budgeting
      BY <1>3, <2>8 DEF Says, Budgeting
    <3>2. Says(x, j)'
      BY <2>2, <2>3, <2>8, <3>1 DEF Says, Budgeting, Ran, Open, Clear, ClaimThrew, Sure
    <3>3. Apart(x, s, j)'
      BY <2>1, <3>1 DEF Apart, Owns, Token, Reviewing
    <3> QED
      BY <3>2, <3>3
  <2> QED
    BY <1>1, <2>4, <2>6, <2>7, <2>8, ActingKeeps
<1>4. ASSUME Throw(w) \/ Return(w), UNCHANGED acpJob
      PROVE  AcpInv' /\ Moves(w)
  <2>1. PassesOn(w)
    BY <1>1, <1>2, <1>4, Ending, Kept DEF ClaimBudget, PassesOn
  <2> QED
    BY <2>1, PassingKeeps
<1> QED
  BY <1>1, <1>3, <1>4 DEF ClaimBudget

\* A worker that alone is at the budget of its job.
LEMMA BudgetKeeps ==
  ASSUME TypeInv, AcpInv, NEW w \in AcpWorkers, NEW s, NEW j, NEW p, p = provider[w], Acts(w, s, j),
         p.at \in Budgeting,
         s.at \in Budgeting => s.holds = "none",
         s.at \notin Budgeting => Weaker(s, p),
         acpJob'[j].status = acpJob[j].status, acpJob'[j].submit = acpJob[j].submit,
         acpJob'[j].result = acpJob[j].result,
         market'[j].success = market[j].success, market'[j].error = market[j].error,
         UNCHANGED shaky,
         market'[j].budget => acpJob'[j].budget \in {"setting", "set", "set_reconcile"} \/ j \in unanswered',
         acpJob'[j].budget \in {"set", "set_reconcile"} => market'[j].budget,
         s.at \in {"setBudget", "markSetFailed"} =>
             acpJob'[j].budget = "setting" /\ (market'[j].budget => j \in unanswered'),
         s.at = "markSet" => acpJob'[j].budget = "setting" /\ market'[j].budget,
         s.at = "reconcile" => acpJob'[j].budget \in {"setting", "set"} /\ market'[j].budget
  PROVE  AcpInv' /\ Moves(w)
<1>1. j \in AcpJobs /\ JobFits(j) /\ Says(p, j) /\ Fits(p) /\ p.holds = "none" /\ s.holds # "submission"
  BY Typed DEF Acts, AcpInv, OnJob, Budgeting, Fits, Weaker
<1>2. Clear(j)' => Clear(j)
  BY DEF Acts, Clear, ClaimThrew
<1>3. Sure(j)' => Sure(j)
  BY DEF Acts, Sure
<1>4. JobFits(j)'
  BY <1>1, <1>2, <1>3 DEF JobFits, Ran, Open, ClaimThrew
<1>5. ~ Owns(p) /\ ~ Sending(p) /\ ~ Token(p)
  BY <1>1 DEF Owns, Sending, Token, Budgeting, Reviewing
<1>6. ~ Owns(s) /\ ~ Sending(s) /\ ~ Token(s) /\ s.at \notin {"markSubmitted", "errorFailed", "failError"}
  BY <1>5 DEF Weaker, Owns, Sending, Token, Budgeting, Reviewing
<1>7. Says(s, j)'
  BY <1>1, <1>6 DEF Says, Owns, Sending, Token
<1>8. ASSUME NEW x \in WorkerStates, Says(x, j), Apart(x, p, j)
      PROVE  Says(x, j)' /\ Apart(x, s, j)'
  <2>1. x.at \notin Budgeting
    BY <1>8 DEF Apart
  <2>2. Says(x, j)'
    BY <1>2, <1>3, <1>8, <2>1 DEF Says, Budgeting, Ran, Open, ClaimThrew
  <2>3. Apart(x, s, j)'
    BY <1>6, <2>1 DEF Apart, Owns, Token
  <2> QED
    BY <2>2, <2>3
<1> QED
  BY <1>4, <1>7, <1>8, ActingKeeps

LEMMA SetBudgetKeeps ==
  ASSUME TypeInv, AcpInv, NEW w \in AcpWorkers, SetBudget(w)
  PROVE  AcpInv' /\ Moves(w)
<1>1. PICK p, j : p = provider[w] /\ j = provider[w].job
  OBVIOUS
<1>2. /\ p \in WorkerStates /\ Fits(p) /\ p.at = "setBudget" /\ j \in AcpJobs /\ p.holds = "none"
      /\ JobFits(j) /\ Says(p, j)
  BY <1>1, Typed DEF SetBudget, WorkerAt, Fits, AcpInv, OnJob
<1>3. UNCHANGED <<acpJob, shaky>>
  BY DEF SetBudget
<1>4. PICK at \in {"markSet", "markSetFailed"} :
          /\ Step(w, at)
          /\ \/ market' = [market EXCEPT ![j].budget = TRUE] /\ at = "markSet" /\ UNCHANGED unanswered
             \/ UNCHANGED <<market, unanswered>> /\ at = "markSetFailed"
             \/ /\ market' = [market EXCEPT ![j].budget = TRUE] /\ at = "markSetFailed"
                /\ unanswered' = unanswered \cup {j}
  BY <1>1 DEF SetBudget
<1>5. PICK s : Into(w, s) /\ s.at = at /\ s.holds = "none"
  BY <1>1, <1>2, <1>4, StepGoes DEF Places, EventAt
<1>6. /\ \A o \in AcpJobs : o # j => SameClient(o) /\ SameHistory(o)
      /\ market'[j].success = market[j].success /\ market'[j].error = market[j].error
      /\ unanswered \subseteq unanswered'
  BY <1>2, <1>3, <1>4, Typed DEF SameClient, SameHistory, MarketRows
<1>7. Acts(w, s, j)
  BY <1>1, <1>2, <1>3, <1>5, <1>6, RowsKept DEF Acts, SameView
<1>8. /\ acpJob'[j].budget = "setting"
      /\ at = "markSet" => market'[j].budget
      /\ at = "markSetFailed" /\ market'[j].budget => j \in unanswered'
  BY <1>2, <1>3, <1>4, Typed DEF Says, MarketRows
<1> QED
  BY <1>1, <1>2, <1>3, <1>5, <1>6, <1>7, <1>8, BudgetKeeps DEF Budgeting

LEMMA NoteBudgetKeeps ==
  ASSUME TypeInv, AcpInv, NEW w \in AcpWorkers, MarkBudgetSet(w) \/ MarkReconcile(w) \/ MarkBudgetFailed(w)
  PROVE  AcpInv' /\ Moves(w)
<1>1. PICK p, j : p = provider[w] /\ j = provider[w].job
  OBVIOUS
<1>2. /\ p \in WorkerStates /\ Fits(p) /\ p.at \in {"markSet", "reconcile", "markSetFailed"}
      /\ j \in AcpJobs /\ p.holds = "none" /\ JobFits(j) /\ Says(p, j) /\ p.at # "idle"
  BY <1>1, Typed DEF MarkBudgetSet, MarkReconcile, MarkBudgetFailed, WorkerAt, Fits, AcpInv, OnJob
<1>3. UNCHANGED <<market, unanswered, shaky>>
  BY DEF MarkBudgetSet, MarkReconcile, MarkBudgetFailed
<1>4. \/ p.at = "markSet" /\ SetJob(j, "budget", "set") /\ Return(w)
      \/ p.at = "markSet" /\ SetJob(j, "budget", "set") /\ Step(w, "reconcile")
      \/ p.at = "markSet" /\ UNCHANGED acpJob /\ Step(w, "reconcile")
      \/ p.at = "reconcile" /\ SetJob(j, "budget", "set_reconcile") /\ Throw(w)
      \/ p.at = "reconcile" /\ UNCHANGED acpJob /\ Throw(w)
      \/ p.at = "markSetFailed" /\ SetJob(j, "budget", "set_failed") /\ Throw(w)
      \/ p.at = "markSetFailed" /\ UNCHANGED acpJob /\ Throw(w)
  BY <1>1, Zenon DEF MarkBudgetSet, MarkReconcile, MarkBudgetFailed, WorkerAt, PersistenceFailure
<1>5. /\ \/ p.at = "markSet" /\ acpJob'[j].budget = "set"
         \/ p.at = "reconcile" /\ acpJob'[j].budget = "set_reconcile"
         \/ p.at = "markSetFailed" /\ acpJob'[j].budget = "set_failed"
         \/ acpJob'[j].budget = acpJob[j].budget
      /\ acpJob'[j].status = acpJob[j].status
      /\ acpJob'[j].submit = acpJob[j].submit /\ acpJob'[j].result = acpJob[j].result
      /\ \A o \in AcpJobs : o # j => SameRow(o)
  <2>1. CASE UNCHANGED acpJob
    BY <2>1, RowsKept
  <2>2. CASE SetJob(j, "budget", "set") /\ p.at = "markSet"
    BY <1>2, <2>2, BudgetSet
  <2>3. CASE SetJob(j, "budget", "set_reconcile") /\ p.at = "reconcile"
    BY <1>2, <2>3, BudgetSet
  <2>4. CASE SetJob(j, "budget", "set_failed") /\ p.at = "markSetFailed"
    BY <1>2, <2>4, BudgetSet
  <2> QED
    BY <1>4, <2>1, <2>2, <2>3, <2>4
<1>6. PICK s : /\ Into(w, s)
               /\ \/ s.at = "reconcile" /\ s.holds = "none" /\ p.at = "markSet"
                  \/ Weaker(s, p) /\ s.at \notin Budgeting
  BY <1>1, <1>2, <1>4, StepGoes, Ending DEF Places, EventAt, Weaker
<1>7. Acts(w, s, j)
  BY <1>1, <1>2, <1>3, <1>5, <1>6, ClientsKept, HistoryKept DEF Acts, SameView
<1>8. p.at \in Budgeting /\ (s.at = "reconcile" => p.at = "markSet")
  BY <1>2, <1>6 DEF Budgeting
<1>9. p.at = "markSet" => acpJob[j].budget = "setting" /\ market[j].budget
  BY <1>2 DEF Says
<1>10. /\ p.at = "reconcile" => acpJob[j].budget \in {"setting", "set"} /\ market[j].budget
       /\ p.at = "markSetFailed" => acpJob[j].budget = "setting"
                                    /\ (market[j].budget => j \in unanswered)
  BY <1>2 DEF Says
<1>11. s.at \in Budgeting => s.at = "reconcile" /\ s.holds = "none"
  BY <1>6
<1>12. s.at \notin Budgeting => Weaker(s, p)
  BY <1>6 DEF Budgeting
<1>13. /\ market'[j].budget => acpJob'[j].budget \in {"setting", "set", "set_reconcile"} \/ j \in unanswered'
       /\ acpJob'[j].budget \in {"set", "set_reconcile"} => market'[j].budget
       /\ s.at = "reconcile" => acpJob'[j].budget \in {"setting", "set"} /\ market'[j].budget
  BY <1>2, <1>3, <1>5, <1>8, <1>9, <1>10
<1> QED
  BY <1>1, <1>2, <1>3, <1>5, <1>7, <1>8, <1>11, <1>12, <1>13, BudgetKeeps DEF Budgeting

-----------------------------------------------------------------------------
(* Steps at a job's status.                                                *)

LEMMA StatusKeeps ==
  ASSUME TypeInv, AcpInv, NEW w \in AcpWorkers, NEW s, NEW j, NEW p, p = provider[w], Acts(w, s, j),
         acpJob'[j].budget = acpJob[j].budget, acpJob'[j].submit = acpJob[j].submit,
         UNCHANGED <<market, unanswered, shaky>>,
         Ran(j) => Ran(j)', Open(j)' => Open(j),
         \/ Weaker(s, p)
         \/ s.at = "enqueue" /\ s.holds = "none" /\ ~ Ran(j) /\ Ran(j)',
         acpJob'[j].result = "success" => market[j].success = 1,
         acpJob'[j].result = "error" /\ Sure(j) => market[j].error > 0
  PROVE  AcpInv' /\ Moves(w)
<1>1. j \in AcpJobs /\ JobFits(j) /\ Says(p, j)
  BY DEF Acts, AcpInv, OnJob
<1>2. (Clear(j)' <=> Clear(j)) /\ (Sure(j)' <=> Sure(j)) /\ (ClaimThrew(j)' <=> ClaimThrew(j))
  BY DEF Clear, ClaimThrew, Sure
<1>3. JobFits(j)'
  BY <1>1, <1>2 DEF JobFits
<1>4. CASE Weaker(s, p)
  <2>1. Says(s, j)'
    BY <1>1, <1>2, <1>4 DEF Says, Weaker, Budgeting
  <2>2. ASSUME NEW x \in WorkerStates, Says(x, j), Apart(x, p, j)
        PROVE  Says(x, j)' /\ Apart(x, s, j)'
    <3>1. Says(x, j)'
      BY <1>2, <2>2 DEF Says
    <3>2. Apart(x, s, j)'
      BY <1>2, <1>4, <2>2 DEF Apart, Weaker
    <3> QED
      BY <3>1, <3>2
  <2> QED
    BY <1>3, <2>1, <2>2, ActingKeeps
<1>5. CASE s.at = "enqueue" /\ s.holds = "none" /\ ~ Ran(j) /\ Ran(j)'
  <2>1. ~ Token(s) /\ market[j].success = 0 /\ ~ ClaimThrew(j)
    <3>1. market[j].success \in Nat
      BY <1>1, Typed DEF MarketRows
    <3> QED
      BY <1>1, <1>5, <3>1 DEF Token, JobFits
  <2>2. Says(s, j)'
    BY <1>2, <1>5, <2>1 DEF Says, Token
  <2>3. ASSUME NEW x \in WorkerStates, Says(x, j), Apart(x, p, j)
        PROVE  Says(x, j)' /\ Apart(x, s, j)'
    <3>1. Says(x, j)' /\ ~ Owns(x)
      BY <1>2, <1>5, <2>3 DEF Says
    <3>2. Apart(x, s, j)'
      BY <1>5, <2>1, <3>1 DEF Apart, Budgeting
    <3> QED
      BY <3>1, <3>2
  <2> QED
    BY <1>3, <2>2, <2>3, ActingKeeps
<1> QED
  BY <1>4, <1>5

LEMMA CreateJobKeeps ==
  ASSUME TypeInv, AcpInv, NEW w \in AcpWorkers, CreateJob(w)
  PROVE  AcpInv' /\ Moves(w)
<1>1. PICK p, j : p = provider[w] /\ j = provider[w].job
  OBVIOUS
<1>2. p \in WorkerStates /\ Fits(p) /\ p.at = "created" /\ j \in AcpJobs /\ p.holds = "none" /\ JobFits(j)
  BY <1>1, Typed DEF CreateJob, WorkerAt, Fits, AcpInv
<1>3. UNCHANGED <<market, unanswered, shaky>>
  BY DEF CreateJob
<1>4. ASSUME NEW v \in {"pending", "setting", "set_failed"},
             provider' = [provider EXCEPT ![w].at = "claimBudget", ![w].saw = v]
      PROVE  \E s : Into(w, s) /\ Weaker(s, p)
  <2>1. PICK s : s = [p EXCEPT !.at = "claimBudget", !.saw = v]
    OBVIOUS
  <2>5. "claimBudget" \in Places /\ "claimBudget" \in Plain
    BY DEF Places, Plain, Budgeting, Reviewing
  <2>2. /\ s \in WorkerStates /\ s.at = "claimBudget" /\ s.holds = "none" /\ s.job = j
        /\ s.at \in Plain
    BY <1>1, <1>2, <2>1, <2>5 DEF WorkerStates
  <2>3. Fits(s)
    BY <1>2, <2>2 DEF Fits, EventAt
  <2>4. provider' = [provider EXCEPT ![w] = s]
    BY <1>1, <1>2, <1>4, <2>1, Typed DEF WorkerStates
  <2> QED
    BY <1>1, <2>2, <2>3, <2>4, GoesPlain
<1>5. ASSUME acpJob[j].status = "absent",
             acpJob' = [o \in AcpJobs |->
                           IF o = j THEN [acpJob[j] EXCEPT !.status = "billing_pending", !.keyed = TRUE]
                           ELSE IF o \in Holders(j) THEN [acpJob[o] EXCEPT !.keyed = FALSE]
                           ELSE acpJob[o]],
             provider' = [provider EXCEPT ![w].at = "claimBudget", ![w].saw = "pending"]
      PROVE  AcpInv' /\ Moves(w)
  <2>1. PICK s : Into(w, s) /\ Weaker(s, p)
    BY <1>4, <1>5
  <2>2. /\ acpJob'[j].status = "billing_pending" /\ acpJob'[j].budget = acpJob[j].budget
        /\ acpJob'[j].submit = acpJob[j].submit /\ acpJob'[j].result = acpJob[j].result
    BY <1>2, <1>5, Typed DEF JobRows
  <2>3. \A o \in AcpJobs : o # j => SameRow(o)
    BY <1>5, Typed DEF JobRows, SameRow
  <2>4. Acts(w, s, j)
    BY <1>1, <1>2, <1>3, <2>1, <2>3, ClientsKept, HistoryKept DEF Acts, SameView
  <2>5. ~ Ran(j) /\ (Open(j)' => Open(j))
    BY <1>5, <2>2 DEF Ran, Open
  <2> QED
    BY <1>1, <1>2, <1>3, <2>1, <2>2, <2>4, <2>5, StatusKeeps DEF JobFits
<1>6. ASSUME UNCHANGED acpJob, \E s : Into(w, s) /\ Weaker(s, p)
      PROVE  AcpInv' /\ Moves(w)
  BY <1>1, <1>3, <1>6, Kept, PassingKeeps DEF PassesOn
<1>7. ASSUME UNCHANGED acpJob, Throw(w) \/ Return(w)
      PROVE  AcpInv' /\ Moves(w)
  BY <1>1, <1>2, <1>6, <1>7, Ending
<1>8. ASSUME UNCHANGED acpJob, acpJob[j].budget \notin {"set", "set_reconcile"},
             provider' = [provider EXCEPT ![w].at = "claimBudget", ![w].saw = acpJob[j].budget]
      PROVE  AcpInv' /\ Moves(w)
  <2>1. acpJob[j].budget \in {"pending", "setting", "set_failed"}
    BY <1>2, <1>8, Typed DEF JobRows
  <2> QED
    BY <1>4, <1>6, <1>8, <2>1
<1> QED
  BY <1>1, <1>5, <1>7, <1>8 DEF CreateJob

LEMMA QueueFundedKeeps ==
  ASSUME TypeInv, AcpInv, NEW w \in AcpWorkers, QueueFunded(w)
  PROVE  AcpInv' /\ Moves(w)
<1>1. PICK p, j : p = provider[w] /\ j = provider[w].job
  OBVIOUS
<1>2. p \in WorkerStates /\ Fits(p) /\ p.at = "queue" /\ j \in AcpJobs /\ p.holds = "none" /\ JobFits(j)
  BY <1>1, Typed DEF QueueFunded, WorkerAt, Fits, AcpInv
<1>3. UNCHANGED <<market, unanswered, shaky>>
  BY DEF QueueFunded
<1>4. ASSUME acpJob[j].status = "billing_pending", SetJob(j, "status", "queued"), Step(w, "load")
      PROVE  AcpInv' /\ Moves(w)
  <2>1. PICK s : Into(w, s) /\ Weaker(s, p)
    BY <1>1, <1>2, <1>4, StepsPlain DEF Plain, Places, Budgeting, Reviewing, EventAt
  <2>2. /\ acpJob'[j].status = "queued" /\ acpJob'[j].budget = acpJob[j].budget
        /\ acpJob'[j].submit = acpJob[j].submit /\ acpJob'[j].result = acpJob[j].result
        /\ \A o \in AcpJobs : o # j => SameRow(o)
    BY <1>2, <1>4, StatusSet
  <2>3. Acts(w, s, j)
    BY <1>1, <1>2, <1>3, <2>1, <2>2, ClientsKept, HistoryKept DEF Acts, SameView
  <2>4. ~ Ran(j) /\ (Open(j)' => Open(j))
    BY <1>4, <2>2 DEF Ran, Open
  <2> QED
    BY <1>1, <1>2, <1>3, <2>1, <2>2, <2>3, <2>4, StatusKeeps DEF JobFits
<1>5. ASSUME UNCHANGED acpJob, Throw(w)
      PROVE  AcpInv' /\ Moves(w)
  BY <1>1, <1>2, <1>3, <1>5, Kept, Ending, PassingKeeps DEF PassesOn
<1> QED
  BY <1>1, <1>4, <1>5 DEF QueueFunded

LEMMA RunJobKeeps ==
  ASSUME TypeInv, AcpInv, NEW w \in AcpWorkers, RunJob(w)
  PROVE  AcpInv' /\ Moves(w)
<1>1. PICK p, j : p = provider[w] /\ j = provider[w].job
  OBVIOUS
<1>2. p \in WorkerStates /\ Fits(p) /\ p.at = "run" /\ j \in AcpJobs /\ p.holds = "none" /\ JobFits(j)
  BY <1>1, Typed DEF RunJob, WorkerAt, Fits, AcpInv
<1>3. UNCHANGED <<market, unanswered, shaky>>
  BY DEF RunJob
<1>4. ASSUME acpJob[j].status = "queued", SetJob(j, "status", "running"), Step(w, "enqueue")
      PROVE  AcpInv' /\ Moves(w)
  <2>1. PICK s : Into(w, s) /\ s.at = "enqueue" /\ s.holds = "none"
    BY <1>1, <1>2, <1>4, StepGoes DEF Places, EventAt
  <2>2. /\ acpJob'[j].status = "running" /\ acpJob'[j].budget = acpJob[j].budget
        /\ acpJob'[j].submit = acpJob[j].submit /\ acpJob'[j].result = acpJob[j].result
        /\ \A o \in AcpJobs : o # j => SameRow(o)
    BY <1>2, <1>4, StatusSet
  <2>3. Acts(w, s, j)
    BY <1>1, <1>2, <1>3, <2>1, <2>2, ClientsKept, HistoryKept DEF Acts, SameView
  <2>4. ~ Ran(j) /\ Ran(j)' /\ (Open(j)' => Open(j))
    BY <1>4, <2>2 DEF Ran, Open
  <2> QED
    BY <1>1, <1>2, <1>3, <2>1, <2>2, <2>3, <2>4, StatusKeeps DEF JobFits
<1>5. ASSUME UNCHANGED acpJob, Throw(w)
      PROVE  AcpInv' /\ Moves(w)
  BY <1>1, <1>2, <1>3, <1>5, Kept, Ending, PassingKeeps DEF PassesOn
<1> QED
  BY <1>1, <1>4, <1>5 DEF RunJob

LEMMA CompleteJobKeeps ==
  ASSUME TypeInv, AcpInv, NEW w \in AcpWorkers, CompleteJob(w)
  PROVE  AcpInv' /\ Moves(w)
<1>1. PICK p, j : p = provider[w] /\ j = provider[w].job
  OBVIOUS
<1>2. /\ p \in WorkerStates /\ Fits(p) /\ p.at = "complete" /\ j \in AcpJobs /\ p.holds = "submission"
      /\ JobFits(j) /\ Says(p, j)
  BY <1>1, Typed DEF CompleteJob, WorkerAt, Fits, AcpInv, OnJob
<1>3. UNCHANGED <<market, unanswered, shaky>>
  BY DEF CompleteJob
<1>4. ASSUME acpJob[j].status = "running",
             acpJob' = [acpJob EXCEPT ![j].status = "complete", ![j].result = "success"], Return(w)
      PROVE  AcpInv' /\ Moves(w)
  <2>1. PICK s : Into(w, s) /\ Weaker(s, p)
    BY <1>1, <1>2, <1>4, Ending
  <2>2. /\ acpJob'[j].status = "complete" /\ acpJob'[j].budget = acpJob[j].budget
        /\ acpJob'[j].submit = acpJob[j].submit /\ acpJob'[j].result = "success"
        /\ \A o \in AcpJobs : o # j => SameRow(o)
    BY <1>2, <1>4, Typed DEF JobRows, SameRow
  <2>3. Acts(w, s, j)
    BY <1>1, <1>2, <1>3, <2>1, <2>2, ClientsKept, HistoryKept DEF Acts, SameView
  <2>4. Ran(j)' /\ ~ Open(j)' /\ market[j].success = 1
    BY <1>2, <2>2 DEF Ran, Open, Says
  <2> QED
    BY <1>1, <1>2, <1>3, <2>1, <2>2, <2>3, <2>4, StatusKeeps
<1>5. ASSUME UNCHANGED acpJob, Step(w, "terminalize")
      PROVE  AcpInv' /\ Moves(w)
  BY <1>1, <1>2, <1>3, <1>5, Kept, Carries, PassingKeeps DEF PassesOn, Places, EventAt
<1> QED
  BY <1>1, <1>4, <1>5 DEF CompleteJob

LEMMA FailJobKeeps ==
  ASSUME TypeInv, AcpInv, NEW w \in AcpWorkers, FailJob(w)
  PROVE  AcpInv' /\ Moves(w)
<1>1. PICK p, j : p = provider[w] /\ j = provider[w].job
  OBVIOUS
<1>2. /\ p \in WorkerStates /\ Fits(p) /\ p.at \in {"preserve", "failError"} /\ j \in AcpJobs
      /\ p.at # "idle" /\ JobFits(j) /\ Says(p, j)
  BY <1>1, Typed DEF FailJob, Fits, AcpInv, OnJob
<1>3. UNCHANGED <<market, unanswered, shaky>> /\ Return(w)
  BY DEF FailJob
<1>4. CASE acpJob[j].status = "running"
  <2>1. PICK s : Into(w, s) /\ Weaker(s, p)
    BY <1>1, <1>2, <1>3, Ending
  <2>2. /\ acpJob'[j].status = "failed" /\ acpJob'[j].budget = acpJob[j].budget
        /\ acpJob'[j].submit = acpJob[j].submit /\ acpJob'[j].result = FailureResult(w)
        /\ \A o \in AcpJobs : o # j => SameRow(o)
    BY <1>1, <1>2, <1>4, Typed DEF FailJob, JobRows, SameRow
  <2>3. Acts(w, s, j)
    BY <1>1, <1>2, <1>3, <2>1, <2>2, ClientsKept, HistoryKept DEF Acts, SameView
  <2>4. Ran(j)' /\ ~ Open(j)'
    BY <2>2 DEF Ran, Open
  <2>5. /\ acpJob'[j].result # "success"
        /\ acpJob'[j].result = "error" /\ Sure(j) => market[j].error > 0
    BY <1>1, <1>2, <2>2 DEF FailureResult, WorkerAt, Says
  <2> QED
    BY <1>1, <1>2, <1>3, <2>1, <2>2, <2>3, <2>4, <2>5, StatusKeeps
<1>5. CASE acpJob[j].status # "running"
  <2>1. UNCHANGED acpJob
    BY <1>1, <1>5 DEF FailJob
  <2> QED
    BY <1>1, <1>2, <1>3, <2>1, Kept, Ending, PassingKeeps DEF PassesOn
<1> QED
  BY <1>4, <1>5

-----------------------------------------------------------------------------
(* Steps at a job's submission.                                            *)

\* The right to submit comes from an open row, and goes back to one.
LEMMA SubmitRowKeeps ==
  ASSUME TypeInv, AcpInv, NEW w \in AcpWorkers, NEW s, NEW j, NEW p, p = provider[w], Acts(w, s, j),
         acpJob'[j].budget = acpJob[j].budget, acpJob'[j].status = acpJob[j].status,
         acpJob'[j].result = acpJob[j].result,
         UNCHANGED <<market, unanswered, shaky>>,
         Open(j)' => Open(j) \/ Token(p),
         Owns(s) => Owns(p), Sending(s) => Sending(p), s.holds = "submission" => p.holds = "submission",
         Token(s) => Open(j) /\ ~ Open(j)',
         s.at \notin Budgeting \cup {"markSubmitted", "errorFailed"},
         s.at = "failError" /\ Sure(j) => market[j].error > 0
  PROVE  AcpInv' /\ Moves(w)
<1>1. j \in AcpJobs /\ JobFits(j) /\ Says(p, j)
  BY DEF Acts, AcpInv, OnJob
<1>2. /\ Clear(j)' <=> Clear(j)
      /\ Sure(j)' <=> Sure(j)
      /\ ClaimThrew(j)' <=> ClaimThrew(j)
      /\ Ran(j)' <=> Ran(j)
  BY DEF Clear, ClaimThrew, Sure, Ran
<1>3. Clear(j) /\ (Open(j)' \/ Open(j)) => market[j].success = 0 /\ market[j].error = 0
  BY <1>1 DEF JobFits, Says
<1>4. JobFits(j)'
  BY <1>1, <1>2, <1>3 DEF JobFits
<1>5. Says(s, j)'
  BY <1>1, <1>2, <1>3 DEF Says, Budgeting
<1>6. ASSUME NEW x \in WorkerStates, Says(x, j), Apart(x, p, j)
      PROVE  Says(x, j)' /\ Apart(x, s, j)'
  <2>1. Token(x) /\ Clear(j) => ~ Open(j) /\ ~ Token(p) /\ ~ Open(j)'
    BY <1>6 DEF Says, Apart
  <2>2. Says(x, j)'
    BY <1>2, <1>6, <2>1 DEF Says
  <2>3. Apart(x, s, j)'
    BY <1>2, <1>6, <2>1 DEF Apart
  <2> QED
    BY <2>2, <2>3
<1> QED
  BY <1>4, <1>5, <1>6, ActingKeeps

LEMMA ClaimErrorKeeps ==
  ASSUME TypeInv, AcpInv, NEW w \in AcpWorkers, ClaimError(w)
  PROVE  AcpInv' /\ Moves(w)
<1>1. PICK p, j : p = provider[w] /\ j = provider[w].job
  OBVIOUS
<1>2. p \in WorkerStates /\ Fits(p) /\ p.at = "claimError" /\ j \in AcpJobs /\ p.holds = "none"
  BY <1>1, Typed DEF ClaimError, WorkerAt, Fits
<1>3. UNCHANGED <<market, unanswered, shaky>>
  BY DEF ClaimError
<1>4. ASSUME Submittable(j), SetJob(j, "submit", "submitting"),
             provider' = [provider EXCEPT ![w].at = "submit", ![w].sends = "error"]
      PROVE  AcpInv' /\ Moves(w)
  <2>1. PICK s : s = [p EXCEPT !.at = "submit", !.sends = "error"]
    OBVIOUS
  <2>2. "submit" \in Places
    BY DEF Places
  <2>3. s \in WorkerStates /\ s.at = "submit" /\ s.holds = "none" /\ s.job = j /\ s.sends = "error"
    BY <1>1, <1>2, <2>1, <2>2 DEF WorkerStates
  <2>4. Fits(s)
    BY <1>2, <2>3 DEF Fits, EventAt
  <2>5. provider' = [provider EXCEPT ![w] = s]
    BY <1>1, <1>4, <2>1, Typed DEF WorkerStates
  <2>6. Into(w, s)
    BY <1>1, <2>3, <2>4, <2>5 DEF Into
  <2>7. /\ acpJob'[j].submit = "submitting" /\ acpJob'[j].budget = acpJob[j].budget
        /\ acpJob'[j].status = acpJob[j].status /\ acpJob'[j].result = acpJob[j].result
        /\ \A o \in AcpJobs : o # j => SameRow(o)
    BY <1>2, <1>4, SubmitSet
  <2>8. Acts(w, s, j)
    BY <1>1, <1>2, <1>3, <2>6, <2>7, ClientsKept, HistoryKept DEF Acts, SameView
  <2>9. Open(j) /\ ~ Open(j)' /\ ~ Owns(s) /\ ~ Sending(s) /\ s.at \notin Budgeting
    BY <1>4, <2>3, <2>7 DEF Open, Submittable, Owns, Sending, Reviewing, Budgeting
  <2> QED
    BY <1>1, <1>3, <2>3, <2>7, <2>8, <2>9, SubmitRowKeeps
<1>5. ASSUME UNCHANGED acpJob, Step(w, "errorRefused")
      PROVE  AcpInv' /\ Moves(w)
  <2>1. "errorRefused" \in Plain
    BY DEF Plain, Places, Budgeting, Reviewing
  <2>2. PassesOn(w)
    BY <1>1, <1>2, <1>3, <1>5, <2>1, Kept, StepsPlain DEF PassesOn, EventAt
  <2> QED
    BY <2>2, PassingKeeps
<1> QED
  BY <1>1, <1>4, <1>5 DEF ClaimError

\* A submission that goes wrong in a way nobody can tell from outside.
LEMMA UnsureKeeps ==
  ASSUME TypeInv, AcpInv, NEW w \in AcpWorkers, NEW s, NEW j, NEW p, p = provider[w], Acts(w, s, j),
         acpJob'[j].budget = acpJob[j].budget, acpJob'[j].status = acpJob[j].status,
         acpJob'[j].result = acpJob[j].result, UNCHANGED market,
         ~ Clear(j)',
         (Owns(p) /\ Sending(p)) \/ (ClaimThrew(j)' <=> ClaimThrew(j)),
         Owns(s) => Owns(p), ~ Sending(s), s.holds = "submission" => p.holds = "submission",
         s.at = "errorFailed" => ~ Sure(j)',
         s.at \notin Budgeting \cup {"markSubmitted", "failError"}
  PROVE  AcpInv' /\ Moves(w)
<1>1. j \in AcpJobs /\ JobFits(j) /\ Says(p, j) /\ (Sure(j)' => Sure(j))
  BY DEF Acts, AcpInv, OnJob, Sure
<1>2. (Ran(j)' <=> Ran(j)) /\ (j \in unanswered => j \in unanswered')
  BY DEF Ran, Acts
<1>3. market[j].success \in Nat
  BY <1>1, Typed DEF MarketRows
<1>4. JobFits(j)'
  <2>1. ClaimThrew(j)' => market[j].success = 0 /\ Ran(j)
    BY <1>1 DEF JobFits, Says
  <2> QED
    BY <1>1, <1>2, <2>1 DEF JobFits
<1>5. Says(s, j)'
  BY <1>1, <1>2 DEF Says, Budgeting
<1>6. ASSUME NEW x \in WorkerStates, Fits(x), Says(x, j), Apart(x, p, j)
      PROVE  Says(x, j)' /\ Apart(x, s, j)'
  <2>1. Sending(x) => ~ ClaimThrew(j)'
    <3>1. Sending(x) => Owns(x)
      BY <1>6 DEF Sending, Owns, Fits
    <3> QED
      BY <1>6, <3>1 DEF Says, Apart
  <2>2. Says(x, j)'
    BY <1>1, <1>2, <1>6, <2>1 DEF Says
  <2>3. Apart(x, s, j)'
    BY <1>6 DEF Apart
  <2> QED
    BY <2>2, <2>3
<1> QED
  BY <1>4, <1>5, <1>6, ActingKeeps

LEMMA ClaimSubmitKeeps ==
  ASSUME TypeInv, AcpInv, NEW w \in AcpWorkers, ClaimSubmit(w)
  PROVE  AcpInv' /\ Moves(w)
<1>1. PICK p, j : p = provider[w] /\ j = provider[w].job
  OBVIOUS
<1>2. /\ p \in WorkerStates /\ Fits(p) /\ p.at = "claimSubmit" /\ j \in AcpJobs
      /\ p.holds = "deliverable" /\ p.sends = "success"
  BY <1>1, Typed DEF ClaimSubmit, WorkerAt, Fits
<1>3. UNCHANGED <<market, unanswered>> /\ Owns(p) /\ Sending(p)
  BY <1>2 DEF ClaimSubmit, Owns, Sending, Reviewing
<1>4. ASSUME Submittable(j), SetJob(j, "submit", "submitting"), Step(w, "submit"), UNCHANGED shaky
      PROVE  AcpInv' /\ Moves(w)
  <2>1. PICK s : Into(w, s) /\ s.at = "submit" /\ s.holds = "deliverable" /\ s.sends = "success"
    BY <1>1, <1>2, <1>4, StepGoes DEF Places, EventAt
  <2>2. /\ acpJob'[j].submit = "submitting" /\ acpJob'[j].budget = acpJob[j].budget
        /\ acpJob'[j].status = acpJob[j].status /\ acpJob'[j].result = acpJob[j].result
        /\ \A o \in AcpJobs : o # j => SameRow(o)
    BY <1>2, <1>4, SubmitSet
  <2>3. Acts(w, s, j)
    BY <1>1, <1>2, <1>3, <1>4, <2>1, <2>2, ClientsKept, HistoryKept DEF Acts, SameView
  <2>4. Open(j) /\ ~ Open(j)' /\ s.at \notin Budgeting
    BY <1>4, <2>1, <2>2 DEF Open, Submittable, Budgeting
  <2> QED
    BY <1>1, <1>3, <1>4, <2>1, <2>2, <2>3, <2>4, SubmitRowKeeps
<1>5. ASSUME UNCHANGED <<acpJob, shaky>>, Throw(w)
      PROVE  AcpInv' /\ Moves(w)
  BY <1>1, <1>2, <1>3, <1>5, Kept, Ending, PassingKeeps DEF PassesOn
<1>6. ASSUME Step(w, "terminalize"), shaky' = shaky \cup {<<"claim", j>>},
             UNCHANGED acpJob \/ SetJob(j, "submit", "submitting")
      PROVE  AcpInv' /\ Moves(w)
  <2>1. PICK s : Into(w, s) /\ s.at = "terminalize" /\ s.holds = "deliverable"
    BY <1>1, <1>2, <1>6, StepGoes DEF Places, EventAt
  <2>2. /\ acpJob'[j].budget = acpJob[j].budget
        /\ acpJob'[j].status = acpJob[j].status /\ acpJob'[j].result = acpJob[j].result
        /\ \A o \in AcpJobs : o # j => SameRow(o)
    BY <1>2, <1>6, SubmitSet, RowsKept
  <2>3. \A o \in AcpJobs : o # j => SameHistory(o)
    BY <1>3, <1>6 DEF SameHistory
  <2>4. Acts(w, s, j)
    BY <1>1, <1>2, <1>3, <1>6, <2>1, <2>2, <2>3, ClientsKept DEF Acts, SameView
  <2>5. ~ Clear(j)' /\ ~ Sending(s) /\ s.at \notin Budgeting
    BY <1>6, <2>1 DEF Clear, ClaimThrew, Sending, Reviewing, Budgeting
  <2> QED
    BY <1>1, <1>3, <2>1, <2>2, <2>4, <2>5, UnsureKeeps
<1> QED
  BY <1>1, <1>4, <1>5, <1>6 DEF ClaimSubmit

\* markAcpJobSubmitFailed writes its own job alone.
LEMMA SubmitFailedSet ==
  ASSUME TypeInv, NEW j \in AcpJobs, SubmitFailed(j)
  PROVE  /\ acpJob'[j].status = acpJob[j].status /\ acpJob'[j].budget = acpJob[j].budget
         /\ acpJob'[j].result = acpJob[j].result
         /\ \A o \in AcpJobs : o # j => SameRow(o)
  BY Typed DEF SubmitFailed, JobRows, SameRow

LEMMA RecordSubmitKeeps ==
  ASSUME TypeInv, AcpInv, NEW w \in AcpWorkers, KeepSubmission(w) \/ MarkAmbiguous(w)
  PROVE  AcpInv' /\ Moves(w)
<1>1. PICK p, j : p = provider[w] /\ j = provider[w].job
  OBVIOUS
<1>2. /\ p \in WorkerStates /\ Fits(p) /\ p.at \in {"keepSubmission", "markAmbiguous"} /\ j \in AcpJobs
      /\ p.at # "idle"
  BY <1>1, Typed DEF KeepSubmission, MarkAmbiguous, WorkerAt, Fits
<1>3. UNCHANGED <<market, unanswered, shaky>> /\ Step(w, "preserve")
  BY DEF KeepSubmission, MarkAmbiguous
<1>4. PICK s : Into(w, s) /\ s.at = "preserve" /\ s.holds = p.holds
  BY <1>1, <1>2, <1>3, StepGoes DEF Places, EventAt
<1>5. /\ acpJob'[j].budget = acpJob[j].budget
      /\ acpJob'[j].status = acpJob[j].status /\ acpJob'[j].result = acpJob[j].result
      /\ \A o \in AcpJobs : o # j => SameRow(o)
  BY <1>1, <1>2, SubmitSet, SubmitFailedSet, RowsKept DEF KeepSubmission, MarkAmbiguous
<1>6. Open(j)' => Open(j) \/ Token(p)
  <2>1. CASE UNCHANGED acpJob
    BY <2>1 DEF Open
  <2>2. CASE KeepSubmission(w) /\ SetJob(j, "submit", "submitted")
    <3>1. acpJob'[j].submit = "submitted"
      BY <1>2, <2>2, SubmitSet
    <3> QED
      BY <3>1 DEF Open
  <2>3. CASE MarkAmbiguous(w)
    BY <1>1, <1>2, <2>3 DEF MarkAmbiguous, WorkerAt, Token, Fits
  <2> QED
    BY <1>1, <2>1, <2>2, <2>3 DEF KeepSubmission
<1>7. Acts(w, s, j)
  BY <1>1, <1>2, <1>3, <1>4, <1>5, ClientsKept, HistoryKept DEF Acts, SameView
<1>8. (Owns(s) => Owns(p)) /\ ~ Sending(s) /\ ~ Token(s) /\ s.at \notin Budgeting
  BY <1>4 DEF Owns, Sending, Token, Reviewing, Budgeting
<1> QED
  BY <1>1, <1>3, <1>4, <1>5, <1>6, <1>7, <1>8, SubmitRowKeeps

LEMMA MarkErrorFailedKeeps ==
  ASSUME TypeInv, AcpInv, NEW w \in AcpWorkers, MarkErrorFailed(w)
  PROVE  AcpInv' /\ Moves(w)
<1>1. PICK p, j : p = provider[w] /\ j = provider[w].job
  OBVIOUS
<1>2. /\ p \in WorkerStates /\ Fits(p) /\ p.at = "errorFailed" /\ j \in AcpJobs /\ p.holds = "none"
      /\ ~ Sure(j)
  BY <1>1, Typed DEF MarkErrorFailed, WorkerAt, Fits, AcpInv, OnJob, Says
<1>3. UNCHANGED <<market, unanswered, shaky>> /\ Step(w, "failError") /\ SubmitFailed(j)
  BY <1>1 DEF MarkErrorFailed
<1>4. PICK s : Into(w, s) /\ s.at = "failError" /\ s.holds = "none"
  BY <1>1, <1>2, <1>3, StepGoes DEF Places, EventAt
<1>5. Acts(w, s, j)
  BY <1>1, <1>2, <1>3, <1>4, SubmitFailedSet, ClientsKept, HistoryKept DEF Acts, SameView
<1>6. Token(p) /\ ~ Owns(s) /\ ~ Sending(s) /\ ~ Token(s) /\ s.at \notin Budgeting
  BY <1>2, <1>4 DEF Owns, Sending, Token, Reviewing, Budgeting
<1> QED
  BY <1>1, <1>2, <1>3, <1>4, <1>5, <1>6, SubmitFailedSet, SubmitRowKeeps

LEMMA MarkSubmittedKeeps ==
  ASSUME TypeInv, AcpInv, NEW w \in AcpWorkers, MarkSubmitted(w)
  PROVE  AcpInv' /\ Moves(w)
<1>1. PICK p, j : p = provider[w] /\ j = provider[w].job
  OBVIOUS
<1>2. /\ p \in WorkerStates /\ Fits(p) /\ p.at = "markSubmitted" /\ j \in AcpJobs /\ Says(p, j)
      /\ \/ p.sends = "success" /\ p.holds = "submission"
         \/ p.sends = "error" /\ p.holds = "none"
  <2>1. p \in WorkerStates /\ Fits(p) /\ p.at = "markSubmitted"
    BY <1>1, Typed DEF MarkSubmitted, WorkerAt
  <2> QED
    BY <1>1, <2>1 DEF Fits, AcpInv, OnJob
<1>3. UNCHANGED <<market, shaky>>
  BY DEF MarkSubmitted
<1>4. ASSUME SetJob(j, "submit", "submitted"), UNCHANGED unanswered,
             Step(w, IF p.sends = "error" THEN "failError" ELSE "complete")
      PROVE  AcpInv' /\ Moves(w)
  <2>1. PICK s : /\ Into(w, s) /\ s.holds = p.holds
                 /\ (s.at = "failError" /\ p.sends = "error") \/ s.at = "complete"
    BY <1>1, <1>2, <1>4, StepGoes DEF Places, EventAt
  <2>2. /\ acpJob'[j].submit = "submitted" /\ acpJob'[j].budget = acpJob[j].budget
        /\ acpJob'[j].status = acpJob[j].status /\ acpJob'[j].result = acpJob[j].result
        /\ \A o \in AcpJobs : o # j => SameRow(o)
    BY <1>2, <1>4, SubmitSet
  <2>3. Acts(w, s, j)
    BY <1>1, <1>2, <1>3, <1>4, <2>1, <2>2, ClientsKept, HistoryKept DEF Acts, SameView
  <2>4. /\ ~ Open(j)' /\ s.at \notin Budgeting /\ ~ Sending(s) /\ ~ Token(s) /\ (Owns(s) => Owns(p))
        /\ s.at = "failError" => market[j].error > 0
    BY <1>2, <2>1, <2>2 DEF Open, Budgeting, Sending, Token, Owns, Reviewing, Says
  <2> QED
    BY <1>1, <1>3, <1>4, <2>1, <2>2, <2>3, <2>4, SubmitRowKeeps
<1>5. ASSUME UNCHANGED acpJob, p.sends = "error", Step(w, "errorFailed"),
             unanswered' = unanswered \cup {j}
      PROVE  AcpInv' /\ Moves(w)
  <2>1. PICK s : Into(w, s) /\ s.at = "errorFailed" /\ s.holds = "none"
    BY <1>1, <1>2, <1>5, StepGoes DEF Places, EventAt
  <2>2. \A o \in AcpJobs : o # j => SameHistory(o)
    BY <1>3, <1>5 DEF SameHistory
  <2>3. Acts(w, s, j)
    BY <1>1, <1>2, <1>3, <1>5, <2>1, <2>2, ClientsKept, RowsKept DEF Acts, SameView
  <2>4. /\ ~ Clear(j)' /\ ~ Sure(j)' /\ (ClaimThrew(j)' <=> ClaimThrew(j)) /\ ~ Owns(s) /\ ~ Sending(s)
        /\ s.at \notin Budgeting
    BY <1>3, <1>5, <2>1 DEF Clear, Sure, ClaimThrew, Owns, Sending, Reviewing, Budgeting
  <2> QED
    BY <1>1, <1>3, <1>5, <2>1, <2>3, <2>4, UnsureKeeps
<1>6. ASSUME UNCHANGED <<acpJob, unanswered>>, p.sends # "error", Step(w, "terminalize")
      PROVE  AcpInv' /\ Moves(w)
  <2>1. PassesOn(w)
    BY <1>1, <1>2, <1>3, <1>6, Kept, Carries DEF PassesOn, Places, EventAt
  <2> QED
    BY <2>1, PassingKeeps
<1> QED
  BY <1>1, <1>4, <1>5, <1>6 DEF MarkSubmitted

LEMMA Delivers ==
  ASSUME TypeInv, NEW j \in AcpJobs, NEW what \in {"success", "error"}, Deliver(j, what)
  PROVE  /\ market'[j].budget = market[j].budget
         /\ market'[j].success = market[j].success + (IF what = "success" THEN 1 ELSE 0)
         /\ market'[j].error = market[j].error + (IF what = "error" THEN 1 ELSE 0)
         /\ market[j].success \in Nat /\ market[j].error \in Nat
         /\ \A o \in AcpJobs : o # j => SameClient(o)
<1>1. market \in [AcpJobs -> MarketRows] /\ market[j].success \in Nat /\ market[j].error \in Nat
  BY Typed DEF MarketRows
<1>2. CASE what = "success"
  <2>1. market' = [market EXCEPT ![j] = [market[j] EXCEPT !.success = market[j].success + 1]]
    BY <1>1, <1>2 DEF Deliver, MarketRows
  <2>2. market'[j] = [market[j] EXCEPT !.success = market[j].success + 1]
    BY <1>1, <2>1
  <2>3. \A o \in AcpJobs : o # j => SameClient(o)
    BY <1>1, <2>1 DEF SameClient
  <2> QED
    BY <1>1, <1>2, <2>2, <2>3 DEF MarketRows
<1>3. CASE what = "error"
  <2>1. market' = [market EXCEPT ![j] = [market[j] EXCEPT !.error = market[j].error + 1]]
    BY <1>1, <1>3 DEF Deliver, MarketRows
  <2>2. market'[j] = [market[j] EXCEPT !.error = market[j].error + 1]
    BY <1>1, <2>1
  <2>3. \A o \in AcpJobs : o # j => SameClient(o)
    BY <1>1, <2>1 DEF SameClient
  <2> QED
    BY <1>1, <1>3, <2>2, <2>3 DEF MarketRows
<1> QED
  BY <1>2, <1>3

\* A worker that submits: only it reviews the job, and while no call is in
\* doubt only it may submit.
LEMMA SubmitKeeps ==
  ASSUME TypeInv, AcpInv, NEW w \in AcpWorkers, Submit(w)
  PROVE  AcpInv' /\ Moves(w)
<1>1. PICK p, j : p = provider[w] /\ j = provider[w].job
  OBVIOUS
<1>2. /\ p \in WorkerStates /\ Fits(p) /\ p.at = "submit" /\ j \in AcpJobs /\ Says(p, j) /\ JobFits(j)
      /\ Token(p)
      /\ \/ p.sends = "success" /\ p.holds = "deliverable"
         \/ p.sends = "error" /\ p.holds = "none"
  <2>1. p \in WorkerStates /\ Fits(p) /\ p.at = "submit"
    BY <1>1, Typed DEF Submit, WorkerAt
  <2> QED
    BY <1>1, <2>1 DEF Fits, AcpInv, OnJob, Token
<1>3. /\ p.sends = "success" => Sending(p) /\ Owns(p) /\ market[j].success = 0 /\ ~ ClaimThrew(j) /\ Ran(j)
      /\ Clear(j) => market[j].success = 0 /\ market[j].error = 0 /\ ~ Open(j)
      /\ market[j].success \in Nat /\ market[j].error \in Nat
  <2>1. market[j].success \in Nat /\ market[j].error \in Nat
    BY <1>2, Typed DEF MarketRows
  <2>2. p.sends = "success" => Sending(p) /\ Owns(p)
    BY <1>2 DEF Sending, Owns
  <2> QED
    BY <1>2, <2>1, <2>2 DEF Says
<1>4. UNCHANGED acpJob
  BY DEF Submit
<1>5. (Ran(j)' <=> Ran(j)) /\ (Open(j)' <=> Open(j))
  BY <1>4 DEF Ran, Open
<1>6. ASSUME Deliver(j, p.sends), UNCHANGED <<unanswered, shaky>>,
             provider' = [provider EXCEPT ![w].at = "markSubmitted",
                              ![w].holds = IF @ = "deliverable" THEN "submission" ELSE @]
      PROVE  AcpInv' /\ Moves(w)
  <2> DEFINE h == IF p.sends = "success" THEN "submission" ELSE "none"
  <2>1. PICK s : s = [p EXCEPT !.at = "markSubmitted", !.holds = h]
    OBVIOUS
  <2>2. /\ "markSubmitted" \in Places /\ h \in {"none", "deliverable", "submission"}
        /\ h = IF p.holds = "deliverable" THEN "submission" ELSE p.holds
    BY <1>2 DEF Places
  <2> HIDE DEF h
  <2>3. /\ s \in WorkerStates /\ s.at = "markSubmitted" /\ s.job = j /\ s.sends = p.sends
        /\ s.holds = h
    BY <1>1, <1>2, <2>1, <2>2 DEF WorkerStates
  <2>4. Fits(s)
    BY <1>2, <2>3 DEF Fits, EventAt, h
  <2>5. provider' = [provider EXCEPT ![w] = s]
    BY <1>1, <1>6, <2>1, <2>2, Typed DEF WorkerStates
  <2>6. Into(w, s)
    BY <1>1, <2>3, <2>4, <2>5 DEF Into
  <2>7. /\ market'[j].budget = market[j].budget
        /\ market'[j].success = market[j].success + (IF p.sends = "success" THEN 1 ELSE 0)
        /\ market'[j].error = market[j].error + (IF p.sends = "error" THEN 1 ELSE 0)
        /\ \A o \in AcpJobs : o # j => SameClient(o)
    BY <1>2, <1>6, Delivers
  <2>8. Acts(w, s, j)
    BY <1>1, <1>2, <1>4, <1>6, <2>6, <2>7, RowsKept, HistoryKept DEF Acts, SameView
  <2>9. /\ Clear(j)' <=> Clear(j)
        /\ Sure(j)' <=> Sure(j)
        /\ ClaimThrew(j)' <=> ClaimThrew(j)
    BY <1>6 DEF Clear, Sure, ClaimThrew
  <2>10. JobFits(j)'
    BY <1>2, <1>3, <1>4, <1>5, <1>6, <2>7, <2>9 DEF JobFits
  <2>11. Says(s, j)'
    BY <1>2, <1>3, <1>5, <2>3, <2>7 DEF Says, Owns, Sending, Token, Reviewing, h
  <2>12. ASSUME NEW x \in WorkerStates, Fits(x), Says(x, j), Apart(x, p, j)
         PROVE  Says(x, j)' /\ Apart(x, s, j)'
    <3>1. Sending(x) => Owns(x)
      BY <2>12 DEF Sending, Owns, Fits
    <3>2. /\ p.sends = "success" => ~ Owns(x) /\ ~ Sending(x) /\ x.holds # "submission"
          /\ Clear(j) => ~ Token(x)
      BY <1>2, <1>3, <2>12, <3>1 DEF Apart, Owns
    <3>3. market[j].error > 0 => market'[j].error > 0
      BY <1>3, <2>7
    <3>4. p.sends = "error" => market'[j].success = market[j].success
      BY <1>3, <2>7
    <3>5. Says(x, j)'
      BY <1>2, <1>4, <1>5, <1>6, <2>7, <2>9, <2>12, <3>2, <3>3, <3>4 DEF Says
    <3>6. Owns(s) => p.sends = "success"
      BY <2>3 DEF Owns, Reviewing, h
    <3>7. Apart(x, s, j)'
      BY <2>3, <3>2, <3>6 DEF Apart, Budgeting, Token
    <3> QED
      BY <3>5, <3>7
  <2> QED
    BY <1>1, <2>8, <2>10, <2>11, <2>12, ActingKeeps
<1>7. ASSUME shaky' = shaky \cup {<<"submit", j>>},
             \/ UNCHANGED <<market, unanswered>>
             \/ Deliver(j, p.sends) /\ unanswered' = unanswered \cup {j},
             Step(w, IF p.sends = "error" THEN "errorFailed" ELSE "terminalize")
      PROVE  AcpInv' /\ Moves(w)
  <2>1. PICK s : /\ Into(w, s) /\ s.holds = p.holds
                 /\ s.at = IF p.sends = "error" THEN "errorFailed" ELSE "terminalize"
    BY <1>1, <1>2, <1>7, StepGoes DEF Places, EventAt
  <2>2. /\ market'[j].budget = market[j].budget
        /\ \/ /\ j \in unanswered'
              /\ market'[j].success = market[j].success + (IF p.sends = "success" THEN 1 ELSE 0)
              /\ market'[j].error = market[j].error + (IF p.sends = "error" THEN 1 ELSE 0)
           \/ market'[j].success = market[j].success /\ market'[j].error = market[j].error
        /\ \A o \in AcpJobs : o # j => SameClient(o)
    BY <1>2, <1>7, Delivers, ClientsKept
  <2>3. \A o \in AcpJobs : o # j => SameHistory(o)
    BY <1>7 DEF SameHistory
  <2>4. Acts(w, s, j)
    BY <1>1, <1>2, <1>4, <1>7, <2>1, <2>2, <2>3, RowsKept DEF Acts, SameView
  <2>5. /\ Clear(j)' => Clear(j) /\ j \notin unanswered'
        /\ ~ Sure(j)'
        /\ ClaimThrew(j)' <=> ClaimThrew(j)
        /\ j \in unanswered => j \in unanswered'
    BY <1>7 DEF Clear, Sure, ClaimThrew
  <2>6. JobFits(j)'
    BY <1>2, <1>3, <1>4, <1>5, <2>2, <2>5 DEF JobFits
  <2>7. Token(s) /\ ~ Sending(s) /\ (Owns(s) <=> Owns(p)) /\ s.holds # "submission" /\ s.at \notin Budgeting
    BY <1>2, <2>1 DEF Token, Sending, Owns, Reviewing, Budgeting
  <2>8. Says(s, j)'
    BY <1>2, <1>3, <1>5, <2>1, <2>2, <2>5, <2>7 DEF Says, Budgeting
  <2>9. ASSUME NEW x \in WorkerStates, Fits(x), Says(x, j), Apart(x, p, j)
        PROVE  Says(x, j)' /\ Apart(x, s, j)'
    <3>1. Sending(x) => Owns(x)
      BY <2>9 DEF Sending, Owns, Fits
    <3>2. /\ p.sends = "success" => ~ Owns(x) /\ ~ Sending(x) /\ x.holds # "submission"
          /\ Clear(j) => ~ Token(x)
      BY <1>2, <1>3, <2>9, <3>1 DEF Apart, Owns
    <3>3. market[j].error > 0 => market'[j].error > 0
      BY <1>3, <2>2
    <3>4. p.sends = "error" => market'[j].success = market[j].success
      BY <1>3, <2>2
    <3>5. Says(x, j)'
      BY <1>2, <1>4, <1>5, <2>2, <2>5, <2>9, <3>2, <3>3, <3>4 DEF Says
    <3>6. Apart(x, s, j)'
      BY <2>5, <2>7, <2>9, <3>2 DEF Apart
    <3> QED
      BY <3>5, <3>6
  <2> QED
    BY <1>1, <2>4, <2>6, <2>8, <2>9, ActingKeeps
<1> QED
  BY <1>1, <1>6, <1>7 DEF Submit

-----------------------------------------------------------------------------
(* Types.                                                                  *)

Inboxes == [status : {"absent", "pending", "processing", "failed", "processed", "dead_lettered"},
            attempts : 0 .. EventCap, due : BOOLEAN]

\* Everything but the workers has its type.
DataTyped ==
    /\ market \in [AcpJobs -> MarketRows]
    /\ spool \subseteq Events
    /\ inbox \in [Events -> Inboxes]
    /\ acpJob \in [AcpJobs -> JobRows]
    /\ acpReview \in [AcpTargets -> {"none", "pending", "agreed", "degraded"}]
    /\ unanswered \subseteq AcpJobs /\ shaky \subseteq {"submit", "claim"} \X AcpJobs
    /\ acpFaults \in 0 .. MaxAcpFaults

LEMMA TypeParts == TypeInv => DataTyped
  BY DEF TypeInv, AcpTypeOK, DataTyped, MarketRows, JobRows, Inboxes

LEMMA FaultType ==
  ASSUME TypeInv, UNCHANGED acpFaults \/ Fault
  PROVE  acpFaults' \in 0 .. MaxAcpFaults
  BY AcpAssumption DEF TypeInv, AcpTypeOK, Fault

LEMMA MovedTyped ==
  ASSUME TypeInv, NEW w \in AcpWorkers, Moves(w), DataTyped'
  PROVE  TypeInv'
<1>1. provider \in [AcpWorkers -> WorkerStates] /\ \A v \in AcpWorkers : Fits(provider[v])
  BY Typed
<1>2. PICK s : s \in WorkerStates /\ Fits(s) /\ provider' = [provider EXCEPT ![w] = s]
  BY DEF Moves, Into
<1>3. provider' \in [AcpWorkers -> WorkerStates]
  BY <1>1, <1>2
<1>4. ASSUME NEW v \in AcpWorkers
      PROVE  Fits(provider'[v])
  BY <1>1, <1>2
<1>5. \A v \in AcpWorkers : Fits(provider[v])'
  BY <1>4 DEF Fits
<1>6. ASSUME NEW v \in AcpWorkers
      PROVE  /\ provider'[v].at \in Places /\ provider'[v].batch \subseteq Events
             /\ provider'[v].ev \in Events \cup {NoEvent}
             /\ provider'[v].at # "idle" => provider'[v].job \in AcpJobs
  BY <1>3, <1>4 DEF WorkerStates, Fits
<1> QED
  BY <1>3, <1>5, <1>6 DEF TypeInv, AcpTypeOK, DataTyped, MarketRows, JobRows, Inboxes

LEMMA InboxType ==
  ASSUME TypeInv, NEW w \in AcpWorkers,
         RecordEvent(w) \/ ClaimEvent(w) \/ MarkProcessed(w) \/ ReadAttempts(w) \/ MarkFailed(w)
  PROVE  DataTyped'
<1> DataTyped
  BY TypeParts
<1>1. UNCHANGED <<market, acpJob, acpReview, unanswered, shaky>> /\ spool' \subseteq Events
  BY DEF DataTyped, RecordEvent, ClaimEvent, MarkProcessed, ReadAttempts, MarkFailed
<1>2. acpFaults' \in 0 .. MaxAcpFaults
  BY FaultType DEF RecordEvent, ClaimEvent, MarkProcessed, ReadAttempts, MarkFailed, NoFault
<1>3. inbox' \in [Events -> Inboxes]
  <2>1. CASE RecordEvent(w)
    <3>1. [status |-> "pending", attempts |-> 0, due |-> TRUE] \in Inboxes
      BY AcpAssumption DEF Inboxes
    <3> QED
      BY <2>1, <3>1 DEF RecordEvent, DataTyped
  <2>2. CASE ClaimEvent(w)
    <3>1. CASE UNCHANGED inbox
      BY <3>1 DEF DataTyped
    <3>2. CASE Claimable(provider[w].ev)
               /\ inbox' = [inbox EXCEPT ![provider[w].ev] =
                                [status |-> "processing", attempts |-> @.attempts + 1, due |-> FALSE]]
      <4>1. PICK e : e = provider[w].ev
        OBVIOUS
      <4>2. CASE e \in Events
        <5>1. inbox[e].attempts \in 0 .. EventCap /\ inbox[e].attempts < EventCap
          BY <3>2, <4>1, <4>2 DEF Claimable, DataTyped, Inboxes
        <5>2. [status |-> "processing", attempts |-> inbox[e].attempts + 1, due |-> FALSE] \in Inboxes
          BY <5>1, AcpAssumption DEF Inboxes
        <5> QED
          BY <3>2, <4>1, <4>2, <5>2 DEF DataTyped
      <4>3. CASE e \notin Events
        BY <3>2, <4>1, <4>3 DEF DataTyped
      <4> QED
        BY <4>2, <4>3
    <3> QED
      BY <2>2, <3>1, <3>2 DEF ClaimEvent
  <2>3. CASE MarkProcessed(w)
    BY <2>3 DEF MarkProcessed, DataTyped, Inboxes
  <2>4. CASE ReadAttempts(w)
    BY <2>4 DEF ReadAttempts, DataTyped
  <2>5. CASE MarkFailed(w)
    <3>1. PICK e : e = provider[w].ev
      OBVIOUS
    <3>2. PICK v : v = IF Exhausted(provider[w].n) THEN "dead_lettered" ELSE "failed"
      OBVIOUS
    <3>3. UNCHANGED inbox \/ inbox' = [inbox EXCEPT ![e].status = v, ![e].due = FALSE]
      BY <2>5, <3>1, <3>2 DEF MarkFailed
    <3>4. \A d \in Events : [inbox[d] EXCEPT !.status = v, !.due = FALSE] \in Inboxes
      BY <3>2 DEF DataTyped, Inboxes
    <3>5. e \in Events
      BY <2>5, <3>1, Typed DEF MarkFailed, WorkerAt, Fits, EventAt
    <3>6. UNCHANGED inbox \/ inbox' = [inbox EXCEPT ![e] = [inbox[e] EXCEPT !.status = v, !.due = FALSE]]
      BY <3>3, <3>5 DEF DataTyped, Inboxes
    <3> QED
      BY <3>4, <3>5, <3>6 DEF DataTyped
  <2> QED
    BY <2>1, <2>2, <2>3, <2>4, <2>5
<1> QED
  BY <1>1, <1>2, <1>3 DEF DataTyped

\* Steps that write a field of a job.
LEMMA JobFieldType ==
  ASSUME TypeInv, NEW j \in AcpJobs, NEW field, NEW v, SetJob(j, field, v),
         \/ field = "status" /\ v \in {"queued", "running"}
         \/ field = "budget" /\ v \in {"setting", "set_failed", "set", "set_reconcile"}
         \/ field = "submit" /\ v \in {"submitting", "submitted"}
  PROVE  acpJob' \in [AcpJobs -> JobRows]
<1>1. acpJob \in [AcpJobs -> JobRows]
  BY Typed
<1>2. CASE field = "status"
  BY <1>1, <1>2 DEF SetJob, JobRows
<1>3. CASE field = "budget"
  BY <1>1, <1>3 DEF SetJob, JobRows
<1>4. CASE field = "submit"
  BY <1>1, <1>4 DEF SetJob, JobRows
<1> QED
  BY <1>2, <1>3, <1>4

\* A job's worker has a job.
LEMMA HasJob ==
  ASSUME TypeInv, NEW w \in AcpWorkers, provider[w].at # "idle"
  PROVE  provider[w].job \in AcpJobs
  BY Typed DEF Fits

LEMMA QuietType ==
  ASSUME TypeInv, UNCHANGED <<market, spool, inbox, acpJob, acpReview, unanswered, shaky>>,
         UNCHANGED acpFaults \/ Fault
  PROVE  DataTyped'
  BY TypeParts, FaultType DEF DataTyped

LEMMA BudgetType ==
  ASSUME TypeInv, NEW w \in AcpWorkers,
         \/ CreateJob(w) \/ ClaimBudget(w) \/ SetBudget(w) \/ MarkBudgetSet(w) \/ MarkReconcile(w)
         \/ MarkBudgetFailed(w) \/ QueueFunded(w) \/ RunJob(w)
  PROVE  DataTyped'
<1>1. PICK j : j = provider[w].job
  OBVIOUS
<1>2. j \in AcpJobs
  BY <1>1, HasJob DEF CreateJob, ClaimBudget, SetBudget, MarkBudgetSet, MarkReconcile, MarkBudgetFailed,
                      QueueFunded, RunJob, WorkerAt
<1>3. DataTyped
  BY TypeParts
<1>4. UNCHANGED <<spool, inbox, acpReview, shaky>>
  BY DEF CreateJob, ClaimBudget, SetBudget, MarkBudgetSet, MarkReconcile, MarkBudgetFailed,
         QueueFunded, RunJob
<1>5. acpFaults' \in 0 .. MaxAcpFaults
  BY FaultType DEF CreateJob, ClaimBudget, SetBudget, MarkBudgetSet, MarkReconcile,
                   MarkBudgetFailed, QueueFunded, RunJob, NoFault
<1>6. acpJob' \in [AcpJobs -> JobRows]
  <2>1. CASE UNCHANGED acpJob
    BY <1>3, <2>1 DEF DataTyped
  <2>2. CASE CreateJob(w)
    <3>1. CASE acpJob' = [o \in AcpJobs |->
                           IF o = j THEN [acpJob[j] EXCEPT !.status = "billing_pending", !.keyed = TRUE]
                           ELSE IF o \in Holders(j) THEN [acpJob[o] EXCEPT !.keyed = FALSE]
                           ELSE acpJob[o]]
      <4>1. [acpJob[j] EXCEPT !.status = "billing_pending", !.keyed = TRUE] \in JobRows
        BY <1>2, Typed DEF JobRows
      <4>2. \A o \in AcpJobs : acpJob[o] \in JobRows /\ [acpJob[o] EXCEPT !.keyed = FALSE] \in JobRows
        BY Typed DEF JobRows
      <4> QED
        BY <3>1, <4>1, <4>2
    <3> QED
      BY <1>1, <2>1, <2>2, <3>1 DEF CreateJob
  <2>3. CASE \E v \in {"setting", "set_failed", "set", "set_reconcile"} : SetJob(j, "budget", v)
    BY <1>2, <2>3, JobFieldType
  <2>4. CASE \E v \in {"queued", "running"} : SetJob(j, "status", v)
    BY <1>2, <2>4, JobFieldType
  <2>5. CASE ClaimBudget(w)
    BY <1>1, <2>1, <2>3, <2>5 DEF ClaimBudget
  <2>6. CASE SetBudget(w)
    BY <2>1, <2>6 DEF SetBudget
  <2>7. CASE MarkBudgetSet(w)
    BY <1>1, <2>1, <2>3, <2>7 DEF MarkBudgetSet
  <2>8. CASE MarkReconcile(w)
    BY <1>1, <2>1, <2>3, <2>8 DEF MarkReconcile, PersistenceFailure
  <2>9. CASE MarkBudgetFailed(w)
    BY <1>1, <2>1, <2>3, <2>9 DEF MarkBudgetFailed
  <2>10. CASE QueueFunded(w)
    BY <1>1, <2>1, <2>4, <2>10 DEF QueueFunded
  <2>11. CASE RunJob(w)
    BY <1>1, <2>1, <2>4, <2>11 DEF RunJob
  <2> QED
    BY <2>2, <2>5, <2>6, <2>7, <2>8, <2>9, <2>10, <2>11
<1>7. market' \in [AcpJobs -> MarketRows] /\ unanswered' \subseteq AcpJobs
  <2>1. CASE SetBudget(w)
    <3>1. /\ UNCHANGED market \/ market' = [market EXCEPT ![j].budget = TRUE]
          /\ UNCHANGED unanswered \/ unanswered' = unanswered \cup {j}
      BY <1>1, <2>1 DEF SetBudget
    <3>2. market' \in [AcpJobs -> MarketRows]
      BY <1>2, <3>1, Typed DEF MarketRows
    <3> QED
      BY <1>2, <1>3, <3>1, <3>2 DEF DataTyped
  <2>2. CASE UNCHANGED <<market, unanswered>>
    BY <1>3, <2>2 DEF DataTyped
  <2> QED
    BY <2>1, <2>2 DEF CreateJob, ClaimBudget, MarkBudgetSet, MarkReconcile, MarkBudgetFailed,
                      QueueFunded, RunJob
<1> QED
  BY <1>3, <1>4, <1>5, <1>6, <1>7 DEF DataTyped

LEMMA SubmitType ==
  ASSUME TypeInv, NEW w \in AcpWorkers,
         \/ ClaimSubmit(w) \/ Submit(w) \/ MarkSubmitted(w) \/ CompleteJob(w) \/ KeepSubmission(w)
         \/ MarkAmbiguous(w) \/ ClaimError(w) \/ MarkErrorFailed(w) \/ FailJob(w)
  PROVE  DataTyped'
<1>1. PICK j : j = provider[w].job
  OBVIOUS
<1>2. j \in AcpJobs
  BY <1>1, HasJob DEF ClaimSubmit, Submit, MarkSubmitted, CompleteJob, KeepSubmission, MarkAmbiguous,
                      ClaimError, MarkErrorFailed, FailJob, WorkerAt
<1>3. DataTyped
  BY TypeParts
<1>4. UNCHANGED <<spool, inbox, acpReview>>
  BY DEF ClaimSubmit, Submit, MarkSubmitted, CompleteJob, KeepSubmission, MarkAmbiguous,
         ClaimError, MarkErrorFailed, FailJob
<1>5. acpFaults' \in 0 .. MaxAcpFaults
  BY FaultType DEF ClaimSubmit, Submit, MarkSubmitted, CompleteJob, KeepSubmission, MarkAmbiguous,
                   ClaimError, MarkErrorFailed, FailJob, NoFault
<1>6. acpJob' \in [AcpJobs -> JobRows]
  <2>1. CASE UNCHANGED acpJob
    BY <1>3, <2>1 DEF DataTyped
  <2>2. CASE \E v \in {"submitting", "submitted"} : SetJob(j, "submit", v)
    BY <1>2, <2>2, JobFieldType
  <2>3. CASE SubmitFailed(j)
    <3>1. PICK v \in {"submitted", "submit_failed"} :
              acpJob' = [acpJob EXCEPT ![j] = [acpJob[j] EXCEPT !.submit = v]]
      BY <1>2, <2>3, Typed DEF SubmitFailed, JobRows
    <3>2. [acpJob[j] EXCEPT !.submit = v] \in JobRows
      BY <1>2, Typed DEF JobRows
    <3> QED
      BY <3>1, <3>2, Typed
  <2>4. CASE ClaimSubmit(w)
    BY <1>1, <2>1, <2>2, <2>4 DEF ClaimSubmit
  <2>5. CASE Submit(w)
    BY <2>1, <2>5 DEF Submit
  <2>6. CASE MarkSubmitted(w)
    BY <1>1, <2>1, <2>2, <2>6 DEF MarkSubmitted
  <2>7. CASE CompleteJob(w)
    BY <1>1, <1>2, <1>3, <2>1, <2>7 DEF CompleteJob, DataTyped, JobRows
  <2>8. CASE KeepSubmission(w)
    BY <1>1, <2>1, <2>2, <2>8 DEF KeepSubmission
  <2>9. CASE MarkAmbiguous(w) \/ MarkErrorFailed(w)
    BY <1>1, <2>1, <2>3, <2>9 DEF MarkAmbiguous, MarkErrorFailed
  <2>10. CASE ClaimError(w)
    BY <1>1, <2>1, <2>2, <2>10 DEF ClaimError
  <2>11. CASE FailJob(w)
    BY <1>1, <1>2, <1>3, <2>1, <2>11 DEF FailJob, FailureResult, DataTyped, JobRows
  <2> QED
    BY <2>4, <2>5, <2>6, <2>7, <2>8, <2>9, <2>10, <2>11
<1>7. market' \in [AcpJobs -> MarketRows]
  <2>1. CASE UNCHANGED market
    BY <1>3, <2>1 DEF DataTyped
  <2>2. CASE Deliver(j, "success") \/ Deliver(j, "error")
    BY <1>2, <1>3, <2>2 DEF Deliver, DataTyped, MarketRows
  <2>3. CASE Submit(w)
    <3>1. provider[w].sends \in {"success", "error"}
      BY <2>3, Typed DEF Submit, WorkerAt, Fits
    <3> QED
      BY <1>1, <2>1, <2>2, <2>3, <3>1 DEF Submit
  <2> QED
    BY <2>1, <2>3 DEF ClaimSubmit, MarkSubmitted, CompleteJob, KeepSubmission, MarkAmbiguous,
                      ClaimError, MarkErrorFailed, FailJob
<1>8. unanswered' \subseteq AcpJobs
  <2>1. unanswered' = unanswered \/ unanswered' = unanswered \cup {j}
    BY <1>1 DEF ClaimSubmit, Submit, MarkSubmitted, CompleteJob, KeepSubmission, MarkAmbiguous,
                ClaimError, MarkErrorFailed, FailJob
  <2> QED
    BY <1>2, <1>3, <2>1 DEF DataTyped
<1>9. shaky' \subseteq {"submit", "claim"} \X AcpJobs
  <2>1. \/ shaky' = shaky \/ shaky' = shaky \cup {<<"claim", j>>}
        \/ shaky' = shaky \cup {<<"submit", j>>}
    BY <1>1 DEF ClaimSubmit, Submit, MarkSubmitted, CompleteJob, KeepSubmission, MarkAmbiguous,
                ClaimError, MarkErrorFailed, FailJob
  <2> QED
    BY <1>2, <1>3, <2>1 DEF DataTyped
<1> QED
  BY <1>4, <1>3, <1>5, <1>6, <1>7, <1>8, <1>9 DEF DataTyped

-----------------------------------------------------------------------------
(* Every step.                                                             *)

LEMMA PipelineType ==
  ASSUME TypeInv, NEW w \in AcpWorkers,
         \/ EnqueueAcpReview(w) \/ PipelineThrows(w) \/ KernelEnds(w) \/ BuildDeliverable(w)
         \/ Terminalize(w)
  PROVE  DataTyped'
<1>1. DataTyped
  BY TypeParts
<1>2. UNCHANGED <<market, spool, inbox, acpJob, unanswered, shaky, acpFaults>>
  BY DEF EnqueueAcpReview, PipelineThrows, KernelEnds, BuildDeliverable, Terminalize
<1>3. acpReview' \in [AcpTargets -> {"none", "pending", "agreed", "degraded"}]
  BY <1>1 DEF DataTyped, EnqueueAcpReview, PipelineThrows, KernelEnds, BuildDeliverable, Terminalize
<1> QED
  BY <1>1, <1>2, <1>3 DEF DataTyped

LEMMA WorkerStep ==
  ASSUME TypeInv, AcpInv, NEW w \in AcpWorkers,
         \/ Drain(w) \/ Works(w) \/ WorkerDies(w)
         \/ \E e \in Events : TakeDue(w, e)
         \/ \E j \in AcpJobs : TakeOrphan(w, j) \/ TakeStuck(w, j)
  PROVE  TypeInv' /\ AcpInv'
<1>1. ASSUME PassesOn(w), DataTyped'
      PROVE  TypeInv' /\ AcpInv'
  BY <1>1, PassingKeeps, MovedTyped
<1>2. ASSUME AcpInv' /\ Moves(w), DataTyped'
      PROVE  TypeInv' /\ AcpInv'
  BY <1>2, MovedTyped
<1>3. CASE Drain(w)
  <2>1. DataTyped'
    BY <1>3, TypeParts DEF DataTyped, Drain
  <2> QED
    BY <1>1, <1>3, <2>1, DrainPasses
<1>4. CASE \/ WorkerDies(w) \/ Refuse(w) \/ FindFunded(w) \/ LoadJob(w) \/ RereadJob(w)
  <2>1. DataTyped'
    BY <1>4, QuietType DEF WorkerDies, Refuse, FindFunded, LoadJob, RereadJob
  <2> QED
    BY <1>1, <1>4, <2>1, PlainPasses
<1>5. CASE \/ \E e \in Events : TakeDue(w, e)
           \/ \E j \in AcpJobs : TakeOrphan(w, j) \/ TakeStuck(w, j)
  <2>1. DataTyped'
    BY <1>5, QuietType DEF TakeDue, TakeOrphan, TakeStuck
  <2> QED
    BY <1>1, <1>5, <2>1, TakePasses
<1>6. CASE RecordEvent(w) \/ ClaimEvent(w) \/ MarkProcessed(w) \/ ReadAttempts(w) \/ MarkFailed(w)
  BY <1>1, <1>6, InboxType, RecordPasses, EventPasses
<1>7. CASE \/ EnqueueAcpReview(w) \/ PipelineThrows(w) \/ KernelEnds(w) \/ BuildDeliverable(w)
           \/ Terminalize(w)
  BY <1>1, <1>7, PipelineType, PipelinePasses
<1>8. CASE CreateJob(w) \/ ClaimBudget(w) \/ SetBudget(w) \/ MarkBudgetSet(w)
  BY <1>2, <1>8, BudgetType, CreateJobKeeps, ClaimBudgetKeeps, SetBudgetKeeps, NoteBudgetKeeps
<1>9. CASE MarkReconcile(w) \/ MarkBudgetFailed(w) \/ QueueFunded(w) \/ RunJob(w)
  BY <1>2, <1>9, BudgetType, NoteBudgetKeeps, QueueFundedKeeps, RunJobKeeps
<1>10. CASE ClaimSubmit(w) \/ Submit(w) \/ MarkSubmitted(w) \/ CompleteJob(w) \/ KeepSubmission(w)
  BY <1>2, <1>10, SubmitType, ClaimSubmitKeeps, SubmitKeeps, MarkSubmittedKeeps, CompleteJobKeeps,
     RecordSubmitKeeps
<1>11. CASE MarkAmbiguous(w) \/ ClaimError(w) \/ MarkErrorFailed(w) \/ FailJob(w)
  BY <1>2, <1>11, SubmitType, RecordSubmitKeeps, ClaimErrorKeeps, MarkErrorFailedKeeps, FailJobKeeps
<1> QED
  BY <1>3, <1>4, <1>5, <1>6, <1>7, <1>8, <1>9, <1>10, <1>11 DEF Works

\* The marketplace, the listener, time and the other rails.
LEMMA OutsideStep ==
  ASSUME TypeInv, AcpInv,
         \/ \E j \in AcpJobs : ClientCreates(j) \/ ClientFunds(j)
         \/ \E e \in Events : Redeliver(e) \/ RetryTimePasses(e)
         \/ \E t \in AcpTargets : OtherRailReviews(t)
         \/ UNCHANGED acpVars
  PROVE  TypeInv' /\ AcpInv'
<1>1. DataTyped /\ market \in [AcpJobs -> MarketRows]
  BY TypeParts, Typed
<1>2. UNCHANGED <<provider, acpJob, unanswered, shaky>>
  BY DEF ClientCreates, ClientFunds, Redeliver, RetryTimePasses, OtherRailReviews, acpVars
<1>3. market' \in [AcpJobs -> MarketRows] /\ \A o \in AcpJobs : SameClient(o)
  <2>1. CASE UNCHANGED market
    BY <1>1, <2>1 DEF SameClient
  <2>2. CASE \E j \in AcpJobs : market' = [market EXCEPT ![j].created = TRUE]
                                \/ market' = [market EXCEPT ![j].funded = TRUE]
    <3>1. PICK j \in AcpJobs : \/ market' = [market EXCEPT ![j] = [market[j] EXCEPT !.created = TRUE]]
                               \/ market' = [market EXCEPT ![j] = [market[j] EXCEPT !.funded = TRUE]]
      BY <1>1, <2>2
    <3>2. /\ [market[j] EXCEPT !.created = TRUE] \in MarketRows
          /\ [market[j] EXCEPT !.funded = TRUE] \in MarketRows
      BY <1>1 DEF MarketRows
    <3>3. market' \in [AcpJobs -> MarketRows]
      BY <1>1, <3>1, <3>2
    <3>4. \A o \in AcpJobs : SameClient(o)
      BY <1>1, <3>1 DEF SameClient, MarketRows
    <3> QED
      BY <3>3, <3>4
  <2> QED
    BY <2>1, <2>2 DEF ClientCreates, ClientFunds, Redeliver, RetryTimePasses, OtherRailReviews, acpVars
<1>4. spool' \subseteq Events
  BY <1>1 DEF DataTyped, Events, ClientCreates, ClientFunds, Redeliver, RetryTimePasses,
              OtherRailReviews, acpVars
<1>5. inbox' \in [Events -> Inboxes]
  <2>1. CASE \E e \in Events : RetryTimePasses(e)
    <3>1. \A e \in Events : [inbox[e] EXCEPT !.due = TRUE] \in Inboxes
      BY <1>1 DEF DataTyped, Inboxes
    <3> QED
      BY <1>1, <2>1, <3>1 DEF DataTyped, RetryTimePasses
  <2>2. CASE UNCHANGED inbox
    BY <1>1, <2>2 DEF DataTyped
  <2> QED
    BY <2>1, <2>2 DEF ClientCreates, ClientFunds, Redeliver, OtherRailReviews, acpVars
<1>6. acpReview' \in [AcpTargets -> {"none", "pending", "agreed", "degraded"}]
  BY <1>1 DEF DataTyped, ClientCreates, ClientFunds, Redeliver, RetryTimePasses,
              OtherRailReviews, acpVars
<1>7. acpFaults' \in 0 .. MaxAcpFaults
  BY FaultType DEF ClientCreates, ClientFunds, Redeliver, RetryTimePasses, OtherRailReviews, acpVars
<1>8. DataTyped'
  BY <1>1, <1>2, <1>3, <1>4, <1>5, <1>6, <1>7 DEF DataTyped
<1>9. TypeInv'
  BY <1>2, <1>8 DEF TypeInv, AcpTypeOK, DataTyped, MarketRows, JobRows, Inboxes, Fits
<1>10. \A o \in AcpJobs : SameView(o)
  BY <1>2, <1>3, RowsKept, HistoryKept DEF SameView
<1>11. \A j \in AcpJobs : JobFits(j)'
  BY <1>10, ViewKeeps DEF AcpInv
<1>12. ASSUME NEW w \in AcpWorkers, NEW j \in AcpJobs, OnJob(w, j)'
       PROVE  Says(provider[w], j)'
  <2>1. PICK x : x = provider[w]
    OBVIOUS
  <2>2. x = provider'[w] /\ Says(x, j)'
    BY <1>2, <1>10, <1>12, <2>1, ViewKeeps DEF AcpInv, OnJob
  <2> QED
    BY <2>2 DEF Says, Sending, Owns, Token, Ran, Open, Clear, Sure, ClaimThrew
<1>13. ASSUME NEW v \in AcpWorkers, NEW w \in AcpWorkers, NEW j \in AcpJobs, v # w,
              OnJob(v, j)', OnJob(w, j)'
       PROVE  Apart(provider[v], provider[w], j)'
  <2>1. PICK x, y : x = provider[v] /\ y = provider[w]
    OBVIOUS
  <2>2. x = provider'[v] /\ y = provider'[w] /\ Apart(x, y, j)'
    BY <1>2, <1>10, <1>13, <2>1, ViewKeeps DEF AcpInv, OnJob
  <2> QED
    BY <2>2 DEF Apart, Owns, Token, Clear, ClaimThrew
<1> QED
  BY <1>9, <1>11, <1>12, <1>13 DEF AcpInv

LEMMA AcpStep == TypeInv /\ AcpInv /\ [AcpNext]_acpVars => TypeInv' /\ AcpInv'
  BY WorkerStep, OutsideStep DEF AcpNext

LEMMA AcpInitHolds == AcpInit => TypeInv /\ AcpInv
<1> SUFFICES ASSUME AcpInit
             PROVE  TypeInv /\ AcpInv
  OBVIOUS
<1>1. Off \in WorkerStates /\ Off.at = "idle" /\ Off.holds = "none" /\ Fits(Off)
  BY DEF Off, WorkerStates, Places, NoEvent, Fits, EventAt
<1>2. provider \in [AcpWorkers -> WorkerStates] /\ \A w \in AcpWorkers : provider[w] = Off
  BY <1>1 DEF AcpInit
<1>3. market \in [AcpJobs -> MarketRows] /\ acpJob \in [AcpJobs -> JobRows]
  BY DEF AcpInit, MarketRows, JobRows
<1>4. inbox \in [Events -> Inboxes]
  BY AcpAssumption DEF AcpInit, Inboxes
<1>5. /\ spool = {} /\ unanswered = {} /\ shaky = {} /\ acpFaults \in 0 .. MaxAcpFaults
      /\ acpReview \in [AcpTargets -> {"none", "pending", "agreed", "degraded"}]
  BY AcpAssumption DEF AcpInit
<1>6. DataTyped
  BY <1>3, <1>4, <1>5 DEF DataTyped
<1>7. TypeInv
  <2>1. ASSUME NEW w \in AcpWorkers
        PROVE  /\ provider[w].at \in Places /\ provider[w].batch \subseteq Events
               /\ provider[w].ev \in Events \cup {NoEvent}
               /\ provider[w].at # "idle" => provider[w].job \in AcpJobs
    BY <1>1, <1>2 DEF WorkerStates
  <2> QED
    BY <1>1, <1>2, <1>6, <2>1 DEF TypeInv, AcpTypeOK, DataTyped, MarketRows, JobRows, Inboxes
<1>8. ASSUME NEW j \in AcpJobs
      PROVE  JobFits(j)
  <2>1. /\ market[j].budget <=> j \in Budgeted
        /\ market[j].success = 0 /\ market[j].error = 0
        /\ acpJob[j].budget = IF j \in Budgeted THEN "set" ELSE "pending"
        /\ acpJob[j].result = "none" /\ ~ ClaimThrew(j)
    BY <1>8 DEF AcpInit, ClaimThrew
  <2> QED
    BY <2>1 DEF JobFits
<1>9. \A w \in AcpWorkers, j \in AcpJobs : ~ OnJob(w, j)
  BY <1>1, <1>2 DEF OnJob
<1> QED
  BY <1>7, <1>8, <1>9 DEF AcpInv

LEMMA AcpHolds == AcpSpec => [](TypeInv /\ AcpInv)
  BY AcpInitHolds, AcpStep, PTL DEF AcpSpec

-----------------------------------------------------------------------------
(* Theorems.                                                               *)

\* Rows, events, workers and the marketplace keep their types.
THEOREM AcpTypeCorrect == AcpSpec => []AcpTypeOK
<1>1. TypeInv => AcpTypeOK
  BY DEF TypeInv
<1> QED
  BY <1>1, AcpHolds, PTL

\* However many workers, retries and stuck passes are at a job, its client gets
\* one deliverable unless an answer was lost or the claim of the submission
\* threw; and the row's outcome is what the client got unless a submission
\* threw (markAcpJobSubmitting, submitAcpDeliverable, terminalizeAcpJobFailure).
THEOREM DeliveryStaysHonest == AcpSpec => []DeliveryIsHonest
<1>1. ASSUME TypeInv, AcpInv
      PROVE  DeliveryIsHonest
  <2>1. ASSUME NEW j \in AcpJobs
        PROVE  JobFits(j) /\ market[j].success \in Nat /\ market[j].error \in Nat
    BY <1>1, <2>1, Typed DEF AcpInv, MarketRows
  <2>2. DeliveredOnce
    BY <2>1 DEF DeliveredOnce, JobFits, Clear, ClaimThrew
  <2>3. OutcomeMatchesDelivery
    <3>1. ASSUME NEW j \in AcpJobs, Sure(j)
          PROVE  /\ acpJob[j].result = "success" => market[j].success = 1 /\ market[j].error = 0
                 /\ acpJob[j].result = "error" => market[j].success = 0
      <4>1. market[j].success \in Nat /\ market[j].error \in Nat
        BY <2>1
      <4>2. ClaimThrew(j) => market[j].success = 0
        BY <2>1 DEF JobFits
      <4>3. ~ ClaimThrew(j) => market[j].success + market[j].error <= 1
        BY <2>1, <3>1 DEF JobFits, Clear, Sure
      <4>4. /\ acpJob[j].result = "success" => market[j].success = 1
            /\ acpJob[j].result = "error" => market[j].error > 0
        BY <2>1, <3>1 DEF JobFits
      <4> QED
        BY <4>1, <4>2, <4>3, <4>4
    <3> QED
      BY <3>1 DEF OutcomeMatchesDelivery, Sure
  <2> QED
    BY <2>2, <2>3 DEF DeliveryIsHonest
<1> QED
  BY <1>1, AcpHolds, PTL

\* A budget the marketplace holds is set in the row, being set or marked for an
\* operator, unless the answer to setting it was lost; a budget set in the row
\* is set there (claimAcpJobBudgetSetting, createBudgetedAcpReviewJob).
THEOREM BudgetStaysAccounted == AcpSpec => []BudgetIsAccounted
<1>1. AcpInv => BudgetIsAccounted
  BY DEF AcpInv, JobFits, BudgetIsAccounted
<1> QED
  BY <1>1, AcpHolds, PTL
=============================================================================
