--------------------------- MODULE X402Rail_proofs ---------------------------
(***************************************************************************)
(* Proofs about the x402 rail, for any number of calls, authorizations,    *)
(* targets, workers, crons and faults.                                     *)
(*                                                                         *)
(* TypeInv says of what type everything is and who may be where.  The      *)
(* money is followed by RailInv: an authorization has one holder (Held),   *)
(* a job that was claimed has one worker (Owned), what that worker knows   *)
(* of the money at each of its steps is true (WorkerFits), a cron knows    *)
(* less (CronFits), and what a row says is what happened (RowFits).        *)
(***************************************************************************)
EXTENDS X402Rail, TLAPS

-----------------------------------------------------------------------------
(* Types, and who may be where.                                            *)

CallState ==
    [at : {"idle", "verified", "claimed", "limited", "answered"},
     target : Targets \cup {"none"}, auth : Auths \cup {NoAuth}]

ActorAt ==
    {"idle", "loaded", "reviewing", "settle", "settling", "caught", "charge", "charging",
     "noteCaptured", "recordCharge", "noteRefused", "noteUnsettled", "finish"} \cup Trying
Modes == CallerFault \cup OurFault
Verdicts == {"settled", "settlement_failed", "not_settled"}
ActorState ==
    [at : ActorAt, job : Calls \cup {"none"}, mode : Modes \cup {"none", "settle_error"},
     verdict : Verdicts \cup {"none"}, got : BOOLEAN]

\* A call that was not answered has no row yet; one that was verified has paid.
RowAwaitsCall ==
    \A c \in Calls : /\ call[c].at # "answered" => job[c] = NoRow
                     /\ call[c].at = "verified" => call[c].auth \in Auths

\* Whoever is about to write how a job failed knows why, and what it cost.
Deciding == {"charge", "charging", "noteCaptured", "recordCharge", "noteRefused",
             "noteUnsettled", "finish"}
Explained(s) ==
    /\ s.at # "idle" => s.job \in Calls
    /\ s.at = "caught" => s.mode # "none"
    /\ s.at \in Deciding => s.mode \in Modes /\ s.verdict # "none"

\* A cron does nothing but finish what timed out.
CronState(s) == s.at = "idle" \/ (s.at = "finish" /\ s.mode = "timeout")

TypeInv ==
    /\ TypeOK
    /\ RowAwaitsCall
    /\ \A a \in Actors : actor[a].at # "idle" => job[actor[a].job].status # "absent"
    /\ \A a \in Actors : Explained(actor[a])
    /\ \A t \in Crons : CronState(actor[t])

-----------------------------------------------------------------------------
(* Where the money is.                                                     *)

\* Nothing was asked for what a row carries.
Quiet(row) == Free(row) \/ facilitator[row.auth] = "unseen"

\* A call or a row has an authorization that was claimed.
Holds(c, a) ==
    \/ call[c].at \in {"claimed", "limited"} /\ call[c].auth = a
    \/ job[c].auth = a

Held ==
    /\ \A c \in Calls, a \in Auths : Holds(c, a) => a \in claimed
    /\ \A c, d \in Calls, a \in Auths : Holds(c, a) /\ Holds(d, a) => c = d
    /\ \A a \in Auths : facilitator[a] # "unseen" => \E c \in Calls : job[c].auth = a

Working(w) == actor[w].at \notin {"idle", "loaded"}

\* A claimed job has one worker, and none once a worker said how it failed.
Owned ==
    \A v, w \in Workers : Working(v) /\ Working(w) /\ actor[v].job = actor[w].job => v = w

\* Nothing was asked for, and nothing will be.
Unpaid(s) ==
    \/ s.at = "caught" /\ ~ s.got /\ s.mode \in OurFault
    \/ s.at = "noteUnsettled"
    \/ s.at = "finish" /\ s.verdict = "not_settled"

\* What worker s knows of its job's row and of what the job earned.
FitsRow(s, row, gain) ==
    /\ s.at \notin {"idle", "loaded"} =>
           /\ row.status \in {"running", "complete", "failed", "expired"}
           /\ row.status = "failed" => row.failure = "timeout"
    /\ \/ s.at \in {"reviewing", "settle", "charge", "noteUnsettled"}
       \/ s.at = "caught" /\ ~ s.got /\ s.mode # "settle_error"
       \/ s.at = "finish" /\ s.verdict = "not_settled"
       => Quiet(row)
    /\ s.at \in {"settle", "settling", "charge", "charging"} => ~ Free(row)
    /\ s.at \in {"freeing", "completeFree"} => Free(row)
    /\ s.at \in {"record", "complete"} => s.got
    /\ s.got \/ s.at = "recordCharge" => Captured(row)
    /\ s.at \in {"charge", "charging", "recordCharge"} => s.verdict = "settled"
    /\ s.at = "noteCaptured" => s.got /\ s.verdict = "settled"
    /\ s.at = "finish" /\ s.verdict = "settled" => Captured(row)
    /\ s.at = "noteRefused" => s.verdict = "settlement_failed"
    /\ s.at = "noteUnsettled" => s.verdict = "not_settled"
    /\ s.at = "reviewing" => gain = "nothing"
    /\ s.at \notin {"idle", "loaded", "reviewing"} => gain # "nothing"
    /\ s.at \in {"settle", "settling"} \cup Trying => gain = "review"
    /\ s.at \in {"charge", "charging"} => gain = "caller_fault"
    /\ s.at = "caught" /\ s.mode \in CallerFault => gain = "caller_fault"
    /\ Unpaid(s) => Free(row) \/ gain # "caller_fault"

WorkerFits(w) ==
    actor[w].at # "idle" => FitsRow(actor[w], job[actor[w].job], earned[actor[w].job])

CronFits(t) ==
    actor[t].at # "idle" /\ actor[t].verdict = "settled" => Captured(job[actor[t].job])

\* What a row says, and what became of the money.
RowTells(row, gain) ==
    /\ row.status \in {"absent", "queued"} => Quiet(row) /\ gain = "nothing"
    /\ row.status = "complete" => gain = "review"
    /\ row.status = "failed" /\ row.failure # "timeout" => gain # "nothing"
    /\ ~ Quiet(row) => gain \in {"review", "caller_fault"}
    /\ row.settlement = "settled" => Captured(row)
    /\ row.status = "complete" /\ ~ Free(row) => row.settlement = "settled"
    /\ row.status = "failed" /\ row.failure # "timeout" /\ row.settlement = "not_settled"
           => Quiet(row) /\ (Free(row) \/ gain # "caller_fault")
RowFits(c) == RowTells(job[c], earned[c])

RailInv ==
    /\ Held
    /\ Owned
    /\ \A w \in Workers : WorkerFits(w)
    /\ \A t \in Crons : CronFits(t)
    /\ \A c \in Calls : RowFits(c)
    /\ OneJobPerTarget

-----------------------------------------------------------------------------
(* One row changes.                                                        *)

\* A row that is written again: its identity stays, an outcome is final, and a
\* receipt is dropped by expiry alone.
Outlives(r, row) ==
    /\ row.status \in Terminal => r.status = row.status /\ r.failure = row.failure
    /\ row.settlement = "settled" => r.settlement = "settled" \/ r.status = "expired"
Follows(r, row) ==
    /\ row.status # "absent" /\ r.status # "absent"
    /\ r.auth = row.auth /\ r.target = row.target
    /\ Outlives(r, row)

RowsOutlive == \A c \in Calls : Outlives(job'[c], job[c])

\* What every step is shown to do.
Kept == TypeInv' /\ RailInv' /\ RowsOutlive

LEMMA Typed ==
  ASSUME TypeInv
  PROVE  /\ job \in [Calls -> JobRow] /\ actor \in [Actors -> ActorState]
         /\ call \in [Calls -> CallState] /\ earned \in [Calls -> {"nothing", "review", "caller_fault", "our_fault"}]
         /\ facilitator \in [Auths -> {"unseen", "sent", "captured", "refused"}]
         /\ Workers \subseteq Actors /\ Crons \subseteq Actors /\ NoAuth \notin Auths
  BY X402Assumption DEF TypeInv, TypeOK, ActorState, ActorAt, Modes, Verdicts, CallState, Actors

LEMMA WriteRow ==
  ASSUME job \in [Calls -> JobRow], NEW j \in Calls, NEW r \in JobRow,
         job' = [job EXCEPT ![j] = r], Follows(r, job[j])
  PROVE  /\ job' \in [Calls -> JobRow] /\ job'[j] = r
         /\ \A c \in Calls : c # j => job'[c] = job[c]
         /\ RowsOutlive
         /\ \A c \in Calls : /\ job'[c].auth = job[c].auth /\ job'[c].target = job[c].target
                             /\ job'[c].status = "absent" <=> job[c].status = "absent"
  <1>1. job' \in [Calls -> JobRow] /\ job'[j] = r /\ \A c \in Calls : c # j => job'[c] = job[c]
    OBVIOUS
  <1> QED BY <1>1 DEF Follows, RowsOutlive, Outlives

LEMMA WriteActor ==
  ASSUME actor \in [Actors -> ActorState], NEW a \in Actors, NEW s \in ActorState,
         actor' = [actor EXCEPT ![a] = s]
  PROVE  /\ actor' \in [Actors -> ActorState] /\ actor'[a] = s
         /\ \A b \in Actors : b # a => actor'[b] = actor[b]
  OBVIOUS

\* The rows keep who they belong to, and the rest keeps its types.
SameRows ==
    /\ job' \in [Calls -> JobRow]
    /\ \A c \in Calls : /\ job'[c].auth = job[c].auth /\ job'[c].target = job[c].target
                        /\ job'[c].status = "absent" <=> job[c].status = "absent"
                        /\ job[c].status = "absent" => job'[c] = job[c]
Elsewhere ==
    /\ UNCHANGED <<call, claimed>>
    /\ lapsed' \subseteq Calls /\ scheduled' \subseteq Calls /\ faults' \in 0 .. MaxFaults

LEMMA TypesFollow ==
  ASSUME TypeInv, SameRows, Elsewhere, actor' \in [Actors -> ActorState],
         \A a \in Actors : Explained(actor'[a]),
         \A t \in Crons : CronState(actor'[t]),
         \A a \in Actors : actor'[a].at # "idle" => job'[actor'[a].job].status # "absent",
         facilitator' \in [Auths -> {"unseen", "sent", "captured", "refused"}],
         earned' \in [Calls -> {"nothing", "review", "caller_fault", "our_fault"}]
  PROVE  TypeInv'
  <1>1. TypeOK'
    BY DEF TypeInv, TypeOK, ActorState, ActorAt, Modes, Verdicts, SameRows, Elsewhere
  <1>2. RowAwaitsCall'
    <2>1. NoRow.status = "absent"
      BY DEF NoRow
    <2> QED BY <2>1 DEF TypeInv, RowAwaitsCall, SameRows, Elsewhere
  <1> QED BY <1>1, <1>2 DEF TypeInv

\* Rows that keep who they belong to keep their holders, and stay one a target.
LEMMA HoldersFollow ==
  ASSUME TypeInv, Held, OneJobPerTarget, SameRows, Elsewhere,
         \A a \in Auths : facilitator'[a] # "unseen" =>
             facilitator[a] # "unseen" \/ \E c \in Calls : job[c].auth = a
  PROVE  Held' /\ OneJobPerTarget'
  <1>1. \A c \in Calls, a \in Auths : Holds(c, a)' <=> Holds(c, a)
    BY DEF Holds, SameRows, Elsewhere
  <1>2. Held'
    BY <1>1 DEF Held, SameRows, Elsewhere
  <1>3. OneJobPerTarget'
    BY DEF OneJobPerTarget, SameRows, Free
  <1> QED BY <1>2, <1>3

-----------------------------------------------------------------------------
(* What survives a step of somebody else.                                  *)

\* Authorizations move on: what was captured stays so, and nothing becomes
\* quiet or stops being so but the authorizations in S.
MoneyMoves(S) ==
    /\ facilitator' \in [Auths -> {"unseen", "sent", "captured", "refused"}]
    /\ \A a \in Auths :
           /\ facilitator[a] = "captured" => facilitator'[a] = "captured"
           /\ a \notin S => (facilitator'[a] = "unseen" <=> facilitator[a] = "unseen")

LEMMA RowMoney ==
  ASSUME NEW S, MoneyMoves(S), NEW row \in JobRow, row.auth \notin S
  PROVE  /\ Quiet(row)' <=> Quiet(row)
         /\ Captured(row) => Captured(row)'
  <1>1. Free(row)' <=> Free(row)
    BY DEF Free
  <1>2. CASE Free(row)
    BY <1>1, <1>2 DEF Quiet, Captured
  <1>3. CASE ~ Free(row)
    <2>1. row.auth \in Auths
      BY <1>3 DEF JobRow, Free
    <2> QED BY <1>1, <1>3, <2>1 DEF Quiet, Captured, MoneyMoves
  <1> QED BY <1>2, <1>3

\* The same row, told again.
LEMMA StillTells ==
  ASSUME NEW S, MoneyMoves(S), NEW row \in JobRow, row.auth \notin S, NEW gain, RowTells(row, gain)
  PROVE  RowTells(row, gain)'
  <1>1. (Quiet(row)' <=> Quiet(row)) /\ (Captured(row) => Captured(row)') /\ (Free(row)' <=> Free(row))
    BY RowMoney DEF Free
  <1> QED BY <1>1 DEF RowTells

\* A worker's knowledge survives another writer of its row, while the row is not
\* said to have failed but by the cron.
LEMMA StillFits ==
  ASSUME NEW S, MoneyMoves(S), NEW row \in JobRow, row.auth \notin S, NEW gain,
         NEW s \in ActorState, FitsRow(s, row, gain),
         NEW r \in JobRow, r.auth = row.auth,
         s.at \notin {"idle", "loaded"} =>
             /\ r.status \in {"running", "complete", "failed", "expired"}
             /\ r.status = "failed" => r.failure = "timeout"
  PROVE  FitsRow(s, r, gain)'
  <1>1. (Quiet(row)' <=> Quiet(row)) /\ (Captured(row) => Captured(row)') /\ (Free(row)' <=> Free(row))
    BY RowMoney DEF Free
  <1>2. (Quiet(r)' <=> Quiet(row)') /\ (Captured(r)' <=> Captured(row)') /\ (Free(r)' <=> Free(row)')
    BY DEF Quiet, Captured, Free
  <1> QED BY <1>1, <1>2 DEF FitsRow

\* What somebody who works on another job knows, or waits to load one.
LEMMA OthersFit ==
  ASSUME TypeInv, RailInv, NEW j \in Calls, MoneyMoves({job[j].auth} \cap Auths), SameRows,
         \A c \in Calls : c # j => job'[c] = job[c] /\ earned'[c] = earned[c],
         NEW v \in Workers, actor'[v] = actor[v], Working(v) => actor[v].job # j
  PROVE  WorkerFits(v)'
  <1>1. CASE actor[v].at = "idle"
    BY <1>1 DEF WorkerFits
  <1>2. CASE actor[v].at # "idle"
    <2> DEFINE i == actor[v].job
    <2>1. i \in Calls /\ actor[v] \in ActorState /\ job[i] \in JobRow /\ job'[i] \in JobRow
      BY <1>2, Typed DEF TypeInv, Explained, SameRows
    <2>2. FitsRow(actor[v], job[i], earned[i])
      BY <1>2 DEF RailInv, WorkerFits
    <2>3. CASE i # j
      <3>1. job[i].auth \notin {job[j].auth} \cap Auths
        BY <2>1, <2>3 DEF RailInv, Held, Holds
      <3>2. FitsRow(actor[v], job[i], earned[i])'
        <4>1. job'[i] = job[i] /\ earned'[i] = earned[i]
          BY <2>1, <2>3
        <4>2. actor[v].at \notin {"idle", "loaded"} =>
                 /\ job[i].status \in {"running", "complete", "failed", "expired"}
                 /\ job[i].status = "failed" => job[i].failure = "timeout"
          BY <2>2 DEF FitsRow
        <4> QED BY <2>1, <2>2, <3>1, <4>1, <4>2, StillFits
      <3> QED BY <3>2 DEF WorkerFits
    <2>4. CASE i = j
      <3>1. actor[v].at = "loaded"
        BY <1>2, <2>4 DEF Working
      <3>2. actor[v].got => Captured(job[i])
        BY <2>2 DEF FitsRow
      <3>3. Captured(job[i]) => Captured(job[i])'
        <4> QED BY <2>1 DEF Captured, Free, SameRows, MoneyMoves, JobRow
      <3>4. FitsRow(actor[v], job[i], earned[i])'
        BY <3>1, <3>2, <3>3 DEF FitsRow, Unpaid, Trying, OurFault, CallerFault
      <3> QED BY <3>4 DEF WorkerFits
    <2> QED BY <2>3, <2>4
  <1> QED BY <1>1, <1>2

LEMMA CronsFit ==
  ASSUME TypeInv, RailInv, NEW S, MoneyMoves(S), SameRows, NEW t \in Crons, actor'[t] = actor[t]
  PROVE  CronFits(t)'
  <1>1. ASSUME actor[t].at # "idle", actor[t].verdict = "settled"
        PROVE  Captured(job[actor[t].job])'
    <2>1. actor[t].job \in Calls
      BY <1>1, Typed DEF TypeInv, Explained
    <2>2. Captured(job[actor[t].job])
      BY <1>1 DEF RailInv, CronFits
    <2> QED BY <2>1, <2>2, Typed DEF Captured, Free, SameRows, MoneyMoves, JobRow
  <1> QED BY <1>1 DEF CronFits

LEMMA RowsFit ==
  ASSUME TypeInv, RailInv, NEW j \in Calls, MoneyMoves({job[j].auth} \cap Auths), SameRows,
         \A c \in Calls : c # j => job'[c] = job[c] /\ earned'[c] = earned[c],
         NEW c \in Calls, c # j
  PROVE  RowFits(c)'
  <1>1. job[c] \in JobRow /\ job'[c] = job[c] /\ earned'[c] = earned[c]
    BY Typed
  <1>2. job[c].auth \notin {job[j].auth} \cap Auths
    BY DEF RailInv, Held, Holds
  <1>3. RowTells(job[c], earned[c])
    BY DEF RailInv, RowFits
  <1> QED BY <1>1, <1>2, <1>3, StillTells DEF RowFits

-----------------------------------------------------------------------------
(* The three kinds of steps.                                               *)

\* A worker that is alone with its job moves on: it becomes s, its row r.
LEMMA WorkerMoves ==
  ASSUME TypeInv, RailInv, NEW w \in Workers, NEW j \in Calls, actor[w].job = j,
         actor[w].at # "idle",
         \A v \in Workers : v # w /\ Working(v) => actor[v].job # j,
         NEW s \in ActorState, Explained(s), s.at = "idle" \/ s.job = j, s.at # "loaded",
         actor' = [actor EXCEPT ![w] = s],
         NEW r \in JobRow, Follows(r, job[j]), job' = [job EXCEPT ![j] = r],
         MoneyMoves({job[j].auth} \cap Auths),
         earned' \in [Calls -> {"nothing", "review", "caller_fault", "our_fault"}],
         \A c \in Calls : c # j => earned'[c] = earned[c],
         Elsewhere,
         s.at # "idle" => FitsRow(s, r, earned[j])',
         RowTells(r, earned[j])'
  PROVE  Kept
  <1>1. /\ job' \in [Calls -> JobRow] /\ job'[j] = r /\ RowsOutlive
        /\ \A c \in Calls : c # j => job'[c] = job[c]
        /\ SameRows
    <2>1. job \in [Calls -> JobRow]
      BY Typed
    <2>2. /\ job' \in [Calls -> JobRow] /\ job'[j] = r /\ RowsOutlive
          /\ \A c \in Calls : c # j => job'[c] = job[c]
          /\ \A c \in Calls : /\ job'[c].auth = job[c].auth /\ job'[c].target = job[c].target
                              /\ job'[c].status = "absent" <=> job[c].status = "absent"
      BY <2>1, WriteRow
    <2>3. job[j].status # "absent"
      BY DEF Follows
    <2> QED BY <2>2, <2>3 DEF SameRows
  <1>2. /\ actor' \in [Actors -> ActorState] /\ actor'[w] = s
        /\ \A b \in Actors : b # w => actor'[b] = actor[b]
    BY Typed, WriteActor
  <1>3. w \notin Crons
    BY X402Assumption
  <1>4. TypeInv'
    <2>1. \A a \in Actors : Explained(actor'[a])
      BY <1>2 DEF TypeInv
    <2>2. \A t \in Crons : CronState(actor'[t])
      BY <1>2, <1>3, Typed DEF TypeInv
    <2>3. \A a \in Actors : actor'[a].at # "idle" => job'[actor'[a].job].status # "absent"
      <3>1. CASE s.at # "idle"
        BY <1>1, <1>2, <3>1 DEF TypeInv, Follows, SameRows, Explained
      <3>2. CASE s.at = "idle"
        BY <1>1, <1>2, <3>2 DEF TypeInv, SameRows, Explained
      <3> QED BY <3>1, <3>2
    <2> QED BY <1>1, <1>2, <2>1, <2>2, <2>3, TypesFollow DEF MoneyMoves
  <1>5. Held' /\ OneJobPerTarget'
    BY <1>1, HoldersFollow DEF RailInv, MoneyMoves
  <1>6. Owned'
    BY <1>2, Typed DEF RailInv, Owned, Working
  <1>7. ASSUME NEW v \in Workers PROVE WorkerFits(v)'
    <2>1. CASE v = w
      BY <1>1, <1>2, <2>1 DEF WorkerFits
    <2>2. CASE v # w
      BY <1>1, <1>2, <2>2, Typed, OthersFit
    <2> QED BY <2>1, <2>2
  <1>8. ASSUME NEW t \in Crons PROVE CronFits(t)'
    BY <1>1, <1>2, <1>3, Typed, CronsFit
  <1>9. ASSUME NEW c \in Calls PROVE RowFits(c)'
    <2>1. CASE c = j
      BY <1>1, <2>1 DEF RowFits
    <2>2. CASE c # j
      BY <1>1, <2>2, RowsFit
    <2> QED BY <2>1, <2>2
  <1> QED BY <1>1, <1>4, <1>5, <1>6, <1>7, <1>8, <1>9 DEF Kept, RailInv

\* Only an actor changes: it rests, loads a job nobody has yet told the end of,
\* or is a cron that takes one up.
LEMMA OnlyActorMoves ==
  ASSUME TypeInv, RailInv, NEW a \in Actors, NEW s \in ActorState, Explained(s),
         actor' = [actor EXCEPT ![a] = s], UNCHANGED <<job, facilitator, earned>>, Elsewhere,
         s.at # "idle" => job[s.job].status # "absent",
         s.at = "idle" \/ (a \in Workers /\ s.at = "loaded" /\ ~ s.got)
                       \/ (a \in Crons /\ CronState(s) /\ (s.verdict = "settled" => Captured(job[s.job])))
  PROVE  Kept
  <1>1. /\ actor' \in [Actors -> ActorState] /\ actor'[a] = s
        /\ \A b \in Actors : b # a => actor'[b] = actor[b]
    BY Typed, WriteActor
  <1>2. SameRows /\ MoneyMoves({}) /\ RowsOutlive
    BY Typed DEF SameRows, MoneyMoves, RowsOutlive, Outlives
  <1>3. TypeInv'
    <2>1. \A b \in Actors : Explained(actor'[b])
      BY <1>1 DEF TypeInv
    <2>2. \A t \in Crons : CronState(actor'[t])
      BY <1>1, Typed, X402Assumption DEF TypeInv, CronState
    <2>3. \A b \in Actors : actor'[b].at # "idle" => job'[actor'[b].job].status # "absent"
      BY <1>1 DEF TypeInv
    <2> QED BY <1>1, <1>2, <2>1, <2>2, <2>3, Typed, TypesFollow
  <1>4. Held' /\ OneJobPerTarget'
    BY <1>2, HoldersFollow DEF RailInv
  <1>5. Owned'
    BY <1>1, Typed, X402Assumption DEF RailInv, Owned, Working
  <1>6. ASSUME NEW v \in Workers PROVE WorkerFits(v)'
    <2>1. CASE v = a /\ s.at # "idle"
      BY <1>1, <2>1, X402Assumption DEF WorkerFits, FitsRow, Unpaid, Trying, OurFault, CallerFault
    <2>2. CASE v = a /\ s.at = "idle"
      BY <1>1, <2>2 DEF WorkerFits
    <2>3. CASE v # a
      BY <1>1, <2>3, Typed DEF RailInv, WorkerFits, FitsRow, Quiet, Captured, Free
    <2> QED BY <2>1, <2>2, <2>3
  <1>7. ASSUME NEW t \in Crons PROVE CronFits(t)'
    BY <1>1, Typed, X402Assumption DEF RailInv, CronFits, Captured, Free
  <1>8. ASSUME NEW c \in Calls PROVE RowFits(c)'
    BY DEF RailInv, RowFits, RowTells, Quiet, Captured, Free
  <1> QED BY <1>2, <1>3, <1>4, <1>5, <1>6, <1>7, <1>8 DEF Kept, RailInv

\* Somebody who does not work on a job writes its row: the poller, or a cron
\* that then rests.
LEMMA OutsiderWrites ==
  ASSUME TypeInv, RailInv, NEW j \in Calls,
         NEW r \in JobRow, Follows(r, job[j]), job' = [job EXCEPT ![j] = r],
         UNCHANGED <<facilitator, earned>>, Elsewhere,
         actor' = actor \/ \E t \in Crons : actor' = [actor EXCEPT ![t] = Idle],
         r.status \in {"running", "complete", "failed", "expired"} \/ r = job[j],
         r.status = "failed" => r.failure = "timeout" \/ r = job[j],
         RowTells(r, earned[j])
  PROVE  Kept
  <1>1. /\ job' \in [Calls -> JobRow] /\ job'[j] = r /\ RowsOutlive
        /\ \A c \in Calls : c # j => job'[c] = job[c]
        /\ SameRows
    <2>1. job \in [Calls -> JobRow]
      BY Typed
    <2>2. /\ job' \in [Calls -> JobRow] /\ job'[j] = r /\ RowsOutlive
          /\ \A c \in Calls : c # j => job'[c] = job[c]
          /\ \A c \in Calls : /\ job'[c].auth = job[c].auth /\ job'[c].target = job[c].target
                              /\ job'[c].status = "absent" <=> job[c].status = "absent"
      BY <2>1, WriteRow
    <2>3. job[j].status # "absent"
      BY DEF Follows
    <2> QED BY <2>2, <2>3 DEF SameRows
  <1>2. /\ actor' \in [Actors -> ActorState]
        /\ \A b \in Actors : actor'[b] = actor[b] \/ (b \in Crons /\ actor'[b] = Idle)
    <2>1. Idle \in ActorState
      BY DEF Idle, ActorState, ActorAt
    <2> QED BY <2>1, Typed
  <1>3. MoneyMoves({}) /\ MoneyMoves({job[j].auth} \cap Auths)
    BY Typed DEF MoneyMoves
  <1>4. TypeInv'
    <2>1. \A b \in Actors : Explained(actor'[b])
      BY <1>2 DEF TypeInv, Explained, Idle, Deciding
    <2>2. \A t \in Crons : CronState(actor'[t])
      BY <1>2, Typed DEF TypeInv, CronState, Idle
    <2>3. \A b \in Actors : actor'[b].at # "idle" => job'[actor'[b].job].status # "absent"
      BY <1>1, <1>2 DEF TypeInv, Explained, SameRows, Idle
    <2> QED BY <1>1, <1>2, <2>1, <2>2, <2>3, Typed, TypesFollow
  <1>5. Held' /\ OneJobPerTarget'
    BY <1>1, HoldersFollow DEF RailInv
  <1>6. \A v \in Workers : actor'[v] = actor[v]
    BY <1>2, Typed, X402Assumption
  <1>7. Owned'
    BY <1>6 DEF RailInv, Owned, Working
  <1>8. ASSUME NEW v \in Workers PROVE WorkerFits(v)'
    <2>1. CASE Working(v) => actor[v].job # j
      BY <1>1, <1>3, <1>6, <2>1, OthersFit
    <2>2. CASE Working(v) /\ actor[v].job = j
      <3>1. actor[v] \in ActorState /\ job[j] \in JobRow /\ FitsRow(actor[v], job[j], earned[j])
        BY <2>2, Typed DEF RailInv, WorkerFits, Working
      <3>2. /\ job[j].status \in {"running", "complete", "failed", "expired"}
            /\ job[j].status = "failed" => job[j].failure = "timeout"
        BY <2>2, <3>1 DEF FitsRow, Working
      <3>3. FitsRow(actor[v], r, earned[j])'
        <4>1. r.auth = job[j].auth
          BY DEF Follows
        <4>2. FitsRow(actor[v], r, earned[j])
          BY <3>1, <3>2, <4>1 DEF FitsRow, Quiet, Captured, Free
        <4> QED BY <1>6, <4>2 DEF FitsRow, Quiet, Captured, Free
      <3> QED BY <1>1, <1>6, <2>2, <3>3 DEF WorkerFits
    <2> QED BY <2>1, <2>2
  <1>9. ASSUME NEW t \in Crons PROVE CronFits(t)'
    <2>1. CASE actor'[t] = actor[t]
      BY <1>1, <1>3, <2>1, CronsFit
    <2>2. CASE actor'[t] = Idle
      BY <2>2 DEF CronFits, Idle
    <2> QED BY <1>2, <2>1, <2>2, Typed
  <1>10. ASSUME NEW c \in Calls PROVE RowFits(c)'
    <2>1. CASE c = j
      BY <1>1, <2>1 DEF RowFits, RowTells, Quiet, Captured, Free
    <2>2. CASE c # j
      BY <1>1, <1>3, <2>2, RowsFit
    <2> QED BY <2>1, <2>2
  <1> QED BY <1>1, <1>4, <1>5, <1>7, <1>8, <1>9, <1>10 DEF Kept, RailInv

\* The same while no money moves.
LEMMA WorkerGoes ==
  ASSUME TypeInv, RailInv, NEW w \in Workers, NEW j \in Calls, actor[w].job = j,
         actor[w].at # "idle",
         \A v \in Workers : v # w /\ Working(v) => actor[v].job # j,
         NEW s \in ActorState, Explained(s), s.at = "idle" \/ s.job = j, s.at # "loaded",
         actor' = [actor EXCEPT ![w] = s],
         NEW r \in JobRow, Follows(r, job[j]), job' = [job EXCEPT ![j] = r],
         UNCHANGED <<facilitator, earned>>, Elsewhere,
         s.at # "idle" => FitsRow(s, r, earned[j]),
         RowTells(r, earned[j])
  PROVE  Kept
  <1>1. MoneyMoves({job[j].auth} \cap Auths)
    BY Typed DEF MoneyMoves
  <1>2. (s.at # "idle" => FitsRow(s, r, earned[j])') /\ RowTells(r, earned[j])'
    BY DEF FitsRow, RowTells, Quiet, Captured, Free
  <1> QED BY <1>1, <1>2, Typed, WorkerMoves

-----------------------------------------------------------------------------
(* The steps of a worker.                                                  *)

\* What is known of a worker that is busy with job j.
LEMMA AtWork ==
  ASSUME TypeInv, RailInv, NEW w \in Workers, actor[w].at # "idle"
  PROVE  /\ actor[w].job \in Calls /\ actor[w] \in ActorState /\ RowOf(w) \in JobRow
         /\ RowOf(w).status # "absent" /\ Explained(actor[w])
         /\ FitsRow(actor[w], RowOf(w), earned[actor[w].job])
         /\ RowTells(RowOf(w), earned[actor[w].job])
         /\ Working(w) => \A v \in Workers : v # w /\ Working(v) => actor[v].job # actor[w].job
  BY Typed DEF TypeInv, Explained, RailInv, WorkerFits, RowOf, RowFits, Owned, Working

LEMMA ResumeIdle == Idle \in ActorState /\ Explained(Idle) /\ Idle.at = "idle"
  BY DEF Idle, ActorState, ActorAt, Explained, Deciding

LEMMA StayElsewhere == ASSUME TypeInv, UNCHANGED <<call, claimed, lapsed, scheduled>>,
                              faults' \in 0 .. MaxFaults
                       PROVE  Elsewhere
  BY DEF TypeInv, TypeOK, Elsewhere

LEMMA ClaimJobKeeps == ASSUME TypeInv, RailInv, NEW w \in Workers, ClaimJob(w) PROVE Kept
  <1>1. actor[w].at = "loaded" /\ UNCHANGED <<facilitator, earned>> /\ Elsewhere
    BY StayElsewhere DEF ClaimJob, TypeInv, TypeOK
  <1>2. PICK j \in Calls : j = actor[w].job
    BY <1>1, AtWork
  <1>3. /\ actor[w] \in ActorState /\ job[j] \in JobRow /\ Explained(actor[w])
        /\ FitsRow(actor[w], job[j], earned[j]) /\ RowTells(job[j], earned[j])
    BY <1>1, <1>2, AtWork DEF RowOf
  <1>4. CASE Claimable(j)
    <2>1. PICK s : s = [actor[w] EXCEPT !.at = "reviewing"]
      OBVIOUS
    <2>2. PICK r : r = [job[j] EXCEPT !.status = "running"]
      OBVIOUS
    <2>3. job[j].status = "queued" /\ actor' = [actor EXCEPT ![w] = s] /\ job' = [job EXCEPT ![j] = r]
      BY <1>2, <1>4, <2>1, <2>2, Typed DEF ClaimJob, Claimable, Step
    <2>4. \A v \in Workers : v # w /\ Working(v) => actor[v].job # j
      <3> SUFFICES ASSUME NEW v \in Workers, Working(v), actor[v].job = j PROVE FALSE
        OBVIOUS
      <3>1. FitsRow(actor[v], job[j], earned[j])
        BY DEF RailInv, WorkerFits, Working
      <3> QED BY <2>3, <3>1 DEF FitsRow, Working
    <2>5. s \in ActorState /\ Explained(s) /\ s.job = j /\ s.at = "reviewing" /\ s.got = actor[w].got
      BY <1>1, <1>2, <1>3, <2>1 DEF ActorState, ActorAt, Explained, Deciding
    <2>6. r \in JobRow /\ r.auth = job[j].auth /\ r.target = job[j].target /\ r.status = "running"
          /\ r.settlement = job[j].settlement
      BY <1>3, <2>2 DEF JobRow, Live
    <2>7. Follows(r, job[j])
      BY <2>3, <2>6 DEF Follows, Outlives, Terminal
    <2>8. FitsRow(s, r, earned[j]) /\ RowTells(r, earned[j])
      BY <1>3, <2>3, <2>5, <2>6 DEF FitsRow, RowTells, Quiet, Captured, Free, Unpaid, Trying, OurFault, CallerFault
    <2> QED BY <1>1, <1>2, <2>3, <2>4, <2>5, <2>6, <2>7, <2>8, WorkerGoes
  <1>5. CASE ~ Claimable(j)
    BY <1>1, <1>2, <1>5, ResumeIdle, OnlyActorMoves, Typed DEF ClaimJob, Rest
  <1> QED BY <1>4, <1>5

\* A busy worker goes on to s and leaves its row alone.
LEMMA WorkerGoesOn ==
  ASSUME TypeInv, RailInv, NEW w \in Workers, Working(w),
         NEW s \in ActorState, Explained(s), s.job = actor[w].job, s.at # "loaded",
         actor' = [actor EXCEPT ![w] = s], UNCHANGED <<job, facilitator, earned>>, Elsewhere,
         FitsRow(s, RowOf(w), earned[actor[w].job])
  PROVE  Kept
  <1>1. PICK j \in Calls : j = actor[w].job
    BY AtWork DEF Working
  <1>2. PICK r : r = job[j]
    OBVIOUS
  <1>3. r \in JobRow /\ RowTells(r, earned[j]) /\ r.status # "absent"
    BY <1>1, <1>2, AtWork DEF Working, RowOf
  <1>4. Follows(r, job[j]) /\ job' = [job EXCEPT ![j] = r]
    BY <1>1, <1>2, <1>3, Typed DEF Follows, Outlives
  <1>5. \A v \in Workers : v # w /\ Working(v) => actor[v].job # j
    BY <1>1, AtWork DEF Working
  <1> QED BY <1>1, <1>2, <1>3, <1>4, <1>5, WorkerGoes DEF Working, RowOf

\* ... and rests.
LEMMA WorkerRests ==
  ASSUME TypeInv, RailInv, NEW a \in Actors, Rest(a), UNCHANGED <<job, facilitator, earned>>, Elsewhere
  PROVE  Kept
  BY ResumeIdle, OnlyActorMoves DEF Rest

\* The pipeline returns or throws: what the job earned is settled.
LEMMA PipelineKeeps ==
  ASSUME TypeInv, RailInv, NEW w \in Workers, actor[w].at = "reviewing",
         NEW s \in ActorState, Explained(s), s.job = actor[w].job, s.at \notin {"idle", "loaded"},
         NEW gain \in {"review", "caller_fault", "our_fault"},
         actor' = [actor EXCEPT ![w] = s], earned' = [earned EXCEPT ![actor[w].job] = gain],
         UNCHANGED <<job, facilitator>>, Elsewhere,
         FitsRow(s, RowOf(w), gain)
  PROVE  Kept
  <1>1. PICK j \in Calls : j = actor[w].job
    BY AtWork
  <1>2. PICK r : r = job[j]
    OBVIOUS
  <1>3. r \in JobRow /\ RowTells(r, earned[j]) /\ r.status # "absent" /\ Quiet(r)
        /\ earned[j] = "nothing" /\ r.status # "queued"
        /\ \A v \in Workers : v # w /\ Working(v) => actor[v].job # j
    BY <1>1, <1>2, AtWork DEF Working, RowOf, FitsRow
  <1>4. Follows(r, job[j]) /\ job' = [job EXCEPT ![j] = r] /\ MoneyMoves({job[j].auth} \cap Auths)
    BY <1>1, <1>2, <1>3, Typed DEF Follows, Outlives, MoneyMoves
  <1>5. /\ earned' \in [Calls -> {"nothing", "review", "caller_fault", "our_fault"}]
        /\ earned'[j] = gain /\ \A c \in Calls : c # j => earned'[c] = earned[c]
    BY <1>1, Typed
  <1>6. FitsRow(s, r, earned[j])'
    BY <1>1, <1>2, <1>5 DEF FitsRow, Quiet, Captured, Free, RowOf
  <1>7. RowTells(r, earned[j])'
    BY <1>3, <1>5 DEF RowTells, Quiet, Captured, Free
  <1> QED BY <1>1, <1>3, <1>4, <1>5, <1>6, <1>7, WorkerMoves

LEMMA PipelineReturnsKeeps == ASSUME TypeInv, RailInv, NEW w \in Workers, PipelineReturns(w) PROVE Kept
  <1>1. actor[w].at = "reviewing" /\ Elsewhere
    BY StayElsewhere DEF PipelineReturns, TypeInv, TypeOK
  <1>2. PICK s : s = [actor[w] EXCEPT !.at = IF SkipsSettlement(RowOf(w)) THEN "freeing" ELSE "settle"]
    OBVIOUS
  <1>3. /\ actor[w] \in ActorState /\ Explained(actor[w])
        /\ FitsRow(actor[w], RowOf(w), earned[actor[w].job])
    BY <1>1, AtWork
  <1>4. /\ s \in ActorState /\ s.job = actor[w].job /\ s.got = actor[w].got
        /\ s.at = IF SkipsSettlement(RowOf(w)) THEN "freeing" ELSE "settle"
    BY <1>2, <1>3 DEF ActorState, ActorAt, Trying
  <1>5. Explained(s)
    BY <1>1, <1>3, <1>4 DEF Explained, Deciding
  <1>6. actor' = [actor EXCEPT ![w] = s]
    BY <1>2, Typed DEF PipelineReturns, Step
  <1>7. FitsRow(s, RowOf(w), "review")
    BY <1>1, <1>3, <1>4 DEF FitsRow, SkipsSettlement, Unpaid, Trying, OurFault, CallerFault
  <1> QED BY <1>1, <1>4, <1>5, <1>6, <1>7, PipelineKeeps DEF PipelineReturns

LEMMA PipelineThrowsKeeps ==
  ASSUME TypeInv, RailInv, NEW w \in Workers, NEW mode \in Modes, PipelineThrows(w, mode) PROVE Kept
  <1>1. actor[w].at = "reviewing" /\ Elsewhere
    BY StayElsewhere DEF PipelineThrows, TypeInv, TypeOK
  <1>2. PICK s : s = [actor[w] EXCEPT !.at = "caught", !.mode = mode]
    OBVIOUS
  <1>3. PICK gain : gain = IF mode \in CallerFault THEN "caller_fault" ELSE "our_fault"
    OBVIOUS
  <1>4. /\ actor[w] \in ActorState /\ Explained(actor[w])
        /\ FitsRow(actor[w], RowOf(w), earned[actor[w].job])
    BY <1>1, AtWork
  <1>5. /\ s \in ActorState /\ s.job = actor[w].job /\ s.got = actor[w].got
        /\ s.at = "caught" /\ s.mode = mode
    BY <1>2, <1>4 DEF ActorState, ActorAt
  <1>6. Explained(s)
    BY <1>1, <1>4, <1>5 DEF Explained, Deciding, Modes, CallerFault, OurFault
  <1>7. actor' = [actor EXCEPT ![w] = s] /\ earned' = [earned EXCEPT ![actor[w].job] = gain]
    BY <1>2, <1>3, Typed DEF PipelineThrows, Catch
  <1>8. FitsRow(s, RowOf(w), gain) /\ gain \in {"review", "caller_fault", "our_fault"}
    BY <1>1, <1>3, <1>4, <1>5 DEF FitsRow, Unpaid, Trying, OurFault, CallerFault
  <1> QED BY <1>1, <1>5, <1>6, <1>7, <1>8, PipelineKeeps DEF PipelineThrows

LEMMA PostSettleKeeps == ASSUME TypeInv, RailInv, NEW w \in Workers, PostSettle(w) PROVE Kept
  <1>1. actor[w].at \in {"settle", "charge"} /\ Working(w) /\ Elsewhere
    BY StayElsewhere DEF PostSettle, TypeInv, TypeOK, Working
  <1>2. PICK j \in Calls : j = actor[w].job
    BY <1>1, AtWork DEF Working
  <1>3. PICK r : r = job[j]
    OBVIOUS
  <1>4. /\ actor[w] \in ActorState /\ Explained(actor[w]) /\ r \in JobRow /\ r.status # "absent"
        /\ FitsRow(actor[w], r, earned[j]) /\ RowTells(r, earned[j])
        /\ \A v \in Workers : v # w /\ Working(v) => actor[v].job # j
    BY <1>1, <1>2, <1>3, AtWork DEF Working, RowOf
  <1>5. Quiet(r) /\ ~ Free(r) /\ r.auth \in Auths /\ facilitator[r.auth] = "unseen"
        /\ earned[j] \in {"review", "caller_fault"}
    BY <1>1, <1>4 DEF FitsRow, Quiet, Free, JobRow
  <1>6. CASE actor[w].job \in lapsed
    <2>1. PICK s : s = IF actor[w].at = "charge"
                       THEN [actor[w] EXCEPT !.at = "noteRefused", !.mode = "internal",
                                             !.verdict = "settlement_failed"]
                       ELSE [actor[w] EXCEPT !.at = "caught", !.mode = "settle_error"]
      OBVIOUS
    <2>2. actor' = [actor EXCEPT ![w] = s] /\ UNCHANGED <<job, facilitator, earned>>
      BY <1>1, <1>6, <2>1, Typed DEF PostSettle, Conclude, Catch
    <2>3. s \in ActorState /\ Explained(s) /\ s.job = actor[w].job /\ s.got = actor[w].got
      BY <1>1, <1>4, <2>1 DEF ActorState, ActorAt, Explained, Deciding, Modes, OurFault, Verdicts
    <2>4. \/ s.at = "noteRefused" /\ s.verdict = "settlement_failed"
          \/ s.at = "caught" /\ s.mode = "settle_error"
      BY <1>4, <2>1 DEF ActorState
    <2>5. FitsRow(s, r, earned[j])
      BY <1>1, <1>4, <2>3, <2>4 DEF FitsRow, CallerFault, Unpaid, Trying, OurFault
    <2> QED BY <1>1, <1>2, <1>3, <2>2, <2>3, <2>4, <2>5, WorkerGoesOn DEF RowOf
  <1>7. CASE actor[w].job \notin lapsed
    <2>1. PICK s : s = [actor[w] EXCEPT !.at = IF actor[w].at = "charge" THEN "charging" ELSE "settling"]
      OBVIOUS
    <2>2. /\ actor' = [actor EXCEPT ![w] = s] /\ UNCHANGED <<job, earned>>
          /\ facilitator' = [facilitator EXCEPT ![r.auth] = "sent"]
      BY <1>1, <1>2, <1>3, <1>7, <2>1, Typed DEF PostSettle, Step, AuthOf, RowOf
    <2>3. s \in ActorState /\ Explained(s) /\ s.job = j /\ s.got = actor[w].got
          /\ s.at = (IF actor[w].at = "charge" THEN "charging" ELSE "settling")
          /\ s.mode = actor[w].mode /\ s.verdict = actor[w].verdict
      BY <1>1, <1>2, <1>4, <2>1 DEF ActorState, ActorAt, Explained, Deciding
    <2>4. MoneyMoves({job[j].auth} \cap Auths)
      BY <1>3, <1>5, <2>2, Typed DEF MoneyMoves
    <2>5. facilitator'[r.auth] = "sent"
      BY <1>5, <2>2, Typed
    <2>6. ~ actor[w].got
      BY <1>4, <1>5 DEF FitsRow, Captured
    <2>7. FitsRow(s, r, earned[j])'
      BY <1>1, <1>4, <1>5, <2>2, <2>3, <2>6 DEF FitsRow, Quiet, Captured, Free, Unpaid, Trying, OurFault, CallerFault
    <2>8. RowTells(r, earned[j])'
      BY <1>1, <1>4, <1>5, <2>2, <2>5 DEF RowTells, FitsRow, Quiet, Captured, Free
    <2>9. Follows(r, job[j]) /\ job' = [job EXCEPT ![j] = r]
      BY <1>3, <1>4, <2>2, Typed DEF Follows, Outlives
    <2> QED BY <1>1, <1>2, <1>4, <2>2, <2>3, <2>4, <2>7, <2>8, <2>9, Typed, WorkerMoves DEF Working
  <1> QED BY <1>6, <1>7

LEMMA SettleAnsweredKeeps == ASSUME TypeInv, RailInv, NEW w \in Workers, SettleAnswered(w) PROVE Kept
  <1>1. actor[w].at \in {"settling", "charging"} /\ Working(w) /\ Elsewhere
    BY StayElsewhere DEF SettleAnswered, TypeInv, TypeOK, Working
  <1>2. /\ actor[w] \in ActorState /\ Explained(actor[w]) /\ RowOf(w) \in JobRow
        /\ FitsRow(actor[w], RowOf(w), earned[actor[w].job])
    BY <1>1, AtWork DEF Working
  <1>3. PICK s : s = [actor[w] EXCEPT !.at = IF actor[w].at = "settling" THEN "record" ELSE "recordCharge",
                                      !.got = actor[w].got \/ actor[w].at = "settling"]
    OBVIOUS
  <1>4. actor' = [actor EXCEPT ![w] = s]
    BY <1>3, Typed DEF SettleAnswered
  <1>5. s \in ActorState /\ Explained(s) /\ s.job = actor[w].job /\ s.verdict = actor[w].verdict
        /\ s.at = IF actor[w].at = "settling" THEN "record" ELSE "recordCharge"
    BY <1>1, <1>2, <1>3 DEF ActorState, ActorAt, Trying, Explained, Deciding
  <1>6. actor[w].at = "settling" => s.got
    BY <1>2, <1>3 DEF ActorState
  <1>7. Captured(RowOf(w))
    BY <1>1, <1>2 DEF SettleAnswered, Captured, AuthOf, FitsRow
  <1>8. FitsRow(s, RowOf(w), earned[actor[w].job])
    BY <1>1, <1>2, <1>5, <1>6, <1>7 DEF FitsRow, Unpaid, Trying, OurFault, CallerFault
  <1> QED BY <1>1, <1>4, <1>5, <1>8, WorkerGoesOn DEF SettleAnswered

LEMMA SettleThrowsKeeps == ASSUME TypeInv, RailInv, NEW w \in Workers, SettleThrows(w) PROVE Kept
  <1>1. actor[w].at \in {"settling", "charging"} /\ Working(w) /\ Elsewhere
    BY StayElsewhere, X402Assumption DEF SettleThrows, TypeInv, TypeOK, Working
  <1>2. /\ actor[w] \in ActorState /\ Explained(actor[w])
        /\ FitsRow(actor[w], RowOf(w), earned[actor[w].job])
    BY <1>1, AtWork DEF Working
  <1>3. PICK s : s = IF actor[w].at = "charging"
                     THEN [actor[w] EXCEPT !.at = "noteRefused", !.mode = "internal",
                                           !.verdict = "settlement_failed"]
                     ELSE [actor[w] EXCEPT !.at = "caught", !.mode = "settle_error"]
    OBVIOUS
  <1>4. actor' = [actor EXCEPT ![w] = s] /\ UNCHANGED <<job, facilitator, earned>>
    BY <1>1, <1>3, Typed DEF SettleThrows, Conclude, Catch
  <1>5. s \in ActorState /\ Explained(s) /\ s.job = actor[w].job /\ s.got = actor[w].got
    BY <1>1, <1>2, <1>3 DEF ActorState, ActorAt, Explained, Deciding, Modes, OurFault, Verdicts
  <1>6. \/ s.at = "noteRefused" /\ s.verdict = "settlement_failed"
        \/ s.at = "caught" /\ s.mode = "settle_error"
    BY <1>2, <1>3 DEF ActorState
  <1>7. FitsRow(s, RowOf(w), earned[actor[w].job])
    BY <1>1, <1>2, <1>5, <1>6 DEF FitsRow, CallerFault, Unpaid, Trying, OurFault
  <1> QED BY <1>1, <1>4, <1>5, <1>6, <1>7, WorkerGoesOn

LEMMA ConfigThrowsKeeps == ASSUME TypeInv, RailInv, NEW w \in Workers, ConfigThrows(w) PROVE Kept
  <1>1. actor[w].at \in {"settle", "charge"} /\ Working(w) /\ Elsewhere
    BY StayElsewhere, X402Assumption DEF ConfigThrows, TypeInv, TypeOK, Working
  <1>2. /\ actor[w] \in ActorState /\ Explained(actor[w])
        /\ FitsRow(actor[w], RowOf(w), earned[actor[w].job])
    BY <1>1, AtWork DEF Working
  <1>3. PICK mode \in {"internal", "timeout"} :
            actor' = [actor EXCEPT ![w] =
                IF actor[w].at = "charge"
                THEN [actor[w] EXCEPT !.at = "noteRefused", !.mode = "internal",
                                      !.verdict = "settlement_failed"]
                ELSE [actor[w] EXCEPT !.at = "caught", !.mode = mode]]
    BY <1>1, Typed DEF ConfigThrows, Conclude, Catch
  <1>4. PICK s : s = IF actor[w].at = "charge"
                     THEN [actor[w] EXCEPT !.at = "noteRefused", !.mode = "internal",
                                           !.verdict = "settlement_failed"]
                     ELSE [actor[w] EXCEPT !.at = "caught", !.mode = mode]
    OBVIOUS
  <1>5. actor' = [actor EXCEPT ![w] = s] /\ UNCHANGED <<job, facilitator, earned>>
    BY <1>3, <1>4 DEF ConfigThrows
  <1>6. s \in ActorState /\ Explained(s) /\ s.job = actor[w].job /\ s.got = actor[w].got
    BY <1>1, <1>2, <1>4 DEF ActorState, ActorAt, Explained, Deciding, Modes, OurFault, Verdicts
  <1>7. \/ s.at = "noteRefused" /\ s.verdict = "settlement_failed"
        \/ s.at = "caught" /\ s.mode \in OurFault /\ actor[w].at = "settle"
    BY <1>1, <1>2, <1>4 DEF ActorState, OurFault
  <1>8. FitsRow(s, RowOf(w), earned[actor[w].job])
    BY <1>1, <1>2, <1>6, <1>7 DEF FitsRow, CallerFault, Unpaid, Trying, OurFault
  <1> QED BY <1>1, <1>5, <1>6, <1>7, <1>8, WorkerGoesOn

LEMMA DecideFailureKeeps == ASSUME TypeInv, RailInv, NEW w \in Workers, DecideFailure(w) PROVE Kept
  <1>1. actor[w].at = "caught" /\ Working(w) /\ Elsewhere /\ UNCHANGED <<job, facilitator, earned>>
    BY StayElsewhere DEF DecideFailure, TypeInv, TypeOK, Working
  <1>2. /\ actor[w] \in ActorState /\ Explained(actor[w]) /\ RowOf(w) \in JobRow
        /\ FitsRow(actor[w], RowOf(w), earned[actor[w].job])
        /\ RowTells(RowOf(w), earned[actor[w].job])
    BY <1>1, AtWork DEF Working
  <1>3. ASSUME NEW at \in Deciding, NEW mode \in Modes, NEW verdict \in Verdicts,
               Conclude(w, at, mode, verdict), at # "recordCharge", at # "charging",
               at \in {"charge", "noteUnsettled"} => Quiet(RowOf(w)),
               at = "charge" => ~ Free(RowOf(w)) /\ earned[actor[w].job] = "caller_fault"
                                /\ verdict = "settled",
               at = "noteCaptured" => actor[w].got /\ verdict = "settled",
               at = "noteRefused" => verdict = "settlement_failed",
               at = "noteUnsettled" =>
                   /\ verdict = "not_settled"
                   /\ Free(RowOf(w)) \/ earned[actor[w].job] # "caller_fault",
               at = "finish" => verdict = RowOf(w).settlement
                                /\ RowOf(w).settlement \in {"settled", "settlement_failed"}
        PROVE  Kept
    <2>1. PICK s : s = [actor[w] EXCEPT !.at = at, !.mode = mode, !.verdict = verdict]
      OBVIOUS
    <2>2. actor' = [actor EXCEPT ![w] = s]
      BY <1>3, <2>1, Typed DEF Conclude
    <2>3. /\ s \in ActorState /\ s.at = at /\ s.mode = mode /\ s.verdict = verdict
          /\ s.job = actor[w].job /\ s.got = actor[w].got
      BY <1>2, <1>3, <2>1 DEF ActorState, ActorAt, Deciding
    <2>4. Explained(s)
      BY <1>1, <1>2, <1>3, <2>3 DEF Explained, Verdicts, Deciding
    <2>5. FitsRow(s, RowOf(w), earned[actor[w].job])
      BY <1>1, <1>2, <1>3, <2>3 DEF FitsRow, RowTells, Deciding, Unpaid, Trying, OurFault, CallerFault
    <2> QED BY <1>1, <1>3, <2>2, <2>3, <2>4, <2>5, WorkerGoesOn DEF Deciding
  <1>4. CASE RowOf(w).settlement \in {"settled", "settlement_failed"}
    <2>1. Conclude(w, "finish", "internal", RowOf(w).settlement)
      BY <1>4 DEF DecideFailure
    <2> QED BY <1>3, <1>4, <2>1 DEF Deciding, Modes, OurFault, Verdicts
  <1>5. CASE RowOf(w).settlement \notin {"settled", "settlement_failed"} /\ actor[w].got
    <2>1. Conclude(w, "noteCaptured", "internal", "settled")
      BY <1>5 DEF DecideFailure
    <2> QED BY <1>3, <1>5, <2>1 DEF Deciding, Modes, OurFault, Verdicts
  <1>6. CASE /\ RowOf(w).settlement \notin {"settled", "settlement_failed"} /\ ~ actor[w].got
             /\ actor[w].mode = "settle_error"
    <2>1. Conclude(w, "noteRefused", "internal", "settlement_failed")
      BY <1>6 DEF DecideFailure
    <2> QED BY <1>3, <2>1 DEF Deciding, Modes, OurFault, Verdicts
  <1>7. CASE /\ RowOf(w).settlement \notin {"settled", "settlement_failed"} /\ ~ actor[w].got
             /\ actor[w].mode # "settle_error"
    <2>1. Quiet(RowOf(w)) /\ actor[w].mode \in Modes
      BY <1>1, <1>2, <1>7 DEF FitsRow, Explained, ActorState
    <2>2. CASE Chargeable(actor[w].mode) /\ ~ SkipsSettlement(RowOf(w))
      <3>1. Conclude(w, "charge", actor[w].mode, "settled")
        BY <1>7, <2>2 DEF DecideFailure
      <3>2. ~ Free(RowOf(w)) /\ earned[actor[w].job] = "caller_fault"
        BY <1>1, <1>2, <2>2 DEF SkipsSettlement, Chargeable, FitsRow
      <3> QED BY <1>3, <2>1, <3>1, <3>2 DEF Deciding, Verdicts
    <2>3. CASE ~ (Chargeable(actor[w].mode) /\ ~ SkipsSettlement(RowOf(w)))
      <3>1. Conclude(w, "noteUnsettled", actor[w].mode, "not_settled")
        BY <1>7, <2>3 DEF DecideFailure
      <3>2. Free(RowOf(w)) \/ earned[actor[w].job] # "caller_fault"
        BY <1>1, <1>2, <1>7, <2>1, <2>3
           DEF FitsRow, Unpaid, Chargeable, SkipsSettlement, Modes
      <3> QED BY <1>3, <2>1, <3>1, <3>2 DEF Deciding, Verdicts
    <2> QED BY <2>2, <2>3
  <1> QED BY <1>4, <1>5, <1>6, <1>7

\* The row a worker leaves behind: of the same job, as true as before, and not
\* said to have failed but by the cron.
Leaves(r, row, gain) ==
    /\ r \in JobRow /\ Follows(r, row) /\ RowTells(r, gain)
    /\ r.status \in {"running", "complete", "failed", "expired"}
    /\ r.status = "failed" => r.failure = "timeout"

LEMMA LeavesAlone ==
  ASSUME NEW row \in JobRow, NEW gain, RowTells(row, gain),
         row.status \in {"running", "complete", "failed", "expired"},
         row.status = "failed" => row.failure = "timeout"
  PROVE  Leaves(row, row, gain)
  BY DEF Leaves, Follows, Outlives

\* A settlement is recorded of what was captured, none of what was not.
LEMMA Recording ==
  ASSUME NEW row \in JobRow, NEW gain, Leaves(row, row, gain)
  PROVE  /\ Captured(row) => Leaves(RecordSettled(row), row, gain)
         /\ Leaves(RecordNotSettled(row), row, gain)
         /\ Leaves(RecordSettleFailed(row), row, gain)
         /\ Captured(row) /\ gain = "review" => Leaves(CompleteSettled(row), row, gain)
         /\ Free(row) /\ gain = "review" => Leaves(CompleteFree(row), row, gain)
  <1>1. ASSUME NEW r \in JobRow, r.auth = row.auth, r.target = row.target, r.failure = row.failure,
               \/ r.status = row.status
               \/ row.status = "running" /\ r.status = "complete" /\ gain = "review",
               row.settlement = "settled" => r.settlement = "settled",
               r.settlement = "settled" => Captured(row),
               r.status = "complete" /\ ~ Free(row) => r.settlement = "settled"
        PROVE  Leaves(r, row, gain)
    BY <1>1 DEF Leaves, Follows, Outlives, Terminal, RowTells, Quiet, Captured, Free
  <1>2. ASSUME NEW s \in {"settled", "not_settled", "settlement_failed"}
        PROVE  [row EXCEPT !.settlement = s] \in JobRow
    BY DEF JobRow
  <1>3. Captured(row) => Leaves(RecordSettled(row), row, gain)
    BY <1>1, <1>2 DEF RecordSettled, JobRow
  <1>4. Leaves(RecordNotSettled(row), row, gain)
    <2>1. row.status = "complete" /\ ~ Free(row) => row.settlement = "settled"
      BY DEF Leaves, RowTells
    <2>2. row.settlement = "settled" => Captured(row)
      BY DEF Leaves, RowTells
    <2> QED BY <1>1, <1>2, <2>1, <2>2 DEF RecordNotSettled, JobRow
  <1>5. Leaves(RecordSettleFailed(row), row, gain)
    <2>1. row.status = "complete" /\ ~ Free(row) => row.settlement = "settled"
      BY DEF Leaves, RowTells
    <2>2. row.settlement = "settled" => Captured(row)
      BY DEF Leaves, RowTells
    <2> QED BY <1>1, <1>2, <2>1, <2>2 DEF RecordSettleFailed, JobRow
  <1>6. Captured(row) /\ gain = "review" => Leaves(CompleteSettled(row), row, gain)
    <2>1. CASE row.status = "running"
      <3>1. CompleteSettled(row) \in JobRow
        BY <2>1 DEF CompleteSettled, JobRow, Terminal
      <3> QED BY <1>1, <2>1, <3>1 DEF CompleteSettled, JobRow
    <2>2. CASE row.status # "running"
      BY <2>2 DEF CompleteSettled
    <2> QED BY <2>1, <2>2
  <1>7. Free(row) /\ gain = "review" => Leaves(CompleteFree(row), row, gain)
    <2>1. CASE row.status = "running"
      <3>1. CompleteFree(row) \in JobRow
        BY <2>1 DEF CompleteFree, JobRow, Terminal
      <3>2. row.settlement = "settled" => Captured(row)
        BY DEF Leaves, RowTells
      <3> QED BY <1>1, <2>1, <3>1, <3>2 DEF CompleteFree, JobRow
    <2>2. CASE row.status # "running"
      BY <2>2 DEF CompleteFree
    <2> QED BY <2>1, <2>2
  <1> QED BY <1>3, <1>4, <1>5, <1>6, <1>7

\* A worker's statement leaves a row behind, and the worker goes on or rests.
LEMMA WorkerLeaves ==
  ASSUME TypeInv, RailInv, NEW w \in Workers, Working(w),
         NEW r, Leaves(r, RowOf(w), earned[actor[w].job]), job' = [job EXCEPT ![actor[w].job] = r],
         NEW s \in ActorState, Explained(s), s.at = "idle" \/ s.job = actor[w].job, s.at # "loaded",
         actor' = [actor EXCEPT ![w] = s], UNCHANGED <<facilitator, earned>>, Elsewhere,
         s.at # "idle" => FitsRow(s, RowOf(w), earned[actor[w].job])
  PROVE  Kept
  <1>1. PICK j \in Calls : j = actor[w].job
    BY AtWork DEF Working
  <1>2. \A v \in Workers : v # w /\ Working(v) => actor[v].job # j
    BY <1>1, AtWork DEF Working
  <1>3. r \in JobRow /\ Follows(r, job[j]) /\ RowTells(r, earned[j])
    BY <1>1 DEF Leaves, RowOf
  <1>4. ASSUME s.at # "idle" PROVE FitsRow(s, r, earned[j])
    <2>1. FitsRow(s, job[j], earned[j]) /\ r.auth = job[j].auth
      BY <1>1, <1>3, <1>4 DEF Follows, RowOf
    <2> QED BY <2>1 DEF FitsRow, Leaves, Quiet, Captured, Free
  <1> QED BY <1>1, <1>2, <1>3, <1>4, WorkerGoes DEF Working

\* What the statements of the try block leave behind.
LEMMA TryLeaves ==
  ASSUME TypeInv, RailInv, NEW w \in Workers, actor[w].at \in Trying
  PROVE  Leaves(TryStatement(w), RowOf(w), earned[actor[w].job])
  <1>1. /\ RowOf(w) \in JobRow /\ FitsRow(actor[w], RowOf(w), earned[actor[w].job])
        /\ RowTells(RowOf(w), earned[actor[w].job])
    BY AtWork DEF Trying
  <1>2. Leaves(RowOf(w), RowOf(w), earned[actor[w].job])
    BY <1>1, LeavesAlone DEF FitsRow, Trying
  <1>3. /\ earned[actor[w].job] = "review"
        /\ actor[w].at \in {"record", "complete"} => Captured(RowOf(w))
    BY <1>1 DEF FitsRow
  <1>4. actor[w].at \in {"freeing", "completeFree"} => Free(RowOf(w))
    BY <1>1 DEF FitsRow
  <1>5. CASE actor[w].at = "record"
    BY <1>1, <1>2, <1>3, <1>5, Recording DEF TryStatement
  <1>6. CASE actor[w].at = "complete"
    <2>1. TryStatement(w) = CompleteSettled(RowOf(w))
      BY <1>6 DEF TryStatement
    <2> QED BY <1>1, <1>2, <1>3, <1>6, <2>1, Recording
  <1>7. CASE actor[w].at = "freeing"
    <2>1. TryStatement(w) = RecordNotSettled(RowOf(w))
      BY <1>7 DEF TryStatement
    <2> QED BY <1>1, <1>2, <2>1, Recording
  <1>8. CASE actor[w].at = "completeFree"
    <2>1. TryStatement(w) = CompleteFree(RowOf(w))
      BY <1>8 DEF TryStatement
    <2> QED BY <1>1, <1>2, <1>3, <1>4, <1>8, <2>1, Recording
  <1> QED BY <1>5, <1>6, <1>7, <1>8 DEF Trying

\* Where the statements of the try block and of the failure handler start from.
LEMMA BeforeStatement ==
  ASSUME TypeInv, RailInv, NEW w \in Workers, Working(w)
  PROVE  /\ actor[w] \in ActorState /\ actor[w].job \in Calls /\ Explained(actor[w])
         /\ FitsRow(actor[w], RowOf(w), earned[actor[w].job])
         /\ RowOf(w) \in JobRow
         /\ Leaves(RowOf(w), RowOf(w), earned[actor[w].job])
         /\ job = [job EXCEPT ![actor[w].job] = RowOf(w)]
  <1>1. /\ actor[w] \in ActorState /\ actor[w].job \in Calls /\ Explained(actor[w])
        /\ FitsRow(actor[w], RowOf(w), earned[actor[w].job])
        /\ RowOf(w) \in JobRow /\ RowTells(RowOf(w), earned[actor[w].job])
    BY AtWork DEF Working
  <1>2. Leaves(RowOf(w), RowOf(w), earned[actor[w].job])
    BY <1>1, LeavesAlone DEF FitsRow, Working
  <1>3. job = [job EXCEPT ![actor[w].job] = RowOf(w)]
    BY <1>1, Typed DEF RowOf
  <1> QED BY <1>1, <1>2, <1>3

LEMMA RunStatementKeeps == ASSUME TypeInv, RailInv, NEW w \in Workers, RunStatement(w) PROVE Kept
  <1>1. /\ actor[w].at \in Trying /\ Working(w) /\ Elsewhere /\ UNCHANGED <<facilitator, earned>>
        /\ job' = [job EXCEPT ![actor[w].job] = TryStatement(w)]
    BY StayElsewhere DEF RunStatement, TypeInv, TypeOK, Trying, Working
  <1>2. Leaves(TryStatement(w), RowOf(w), earned[actor[w].job])
    BY <1>1, TryLeaves
  <1>3. /\ actor[w] \in ActorState /\ actor[w].job \in Calls /\ Explained(actor[w])
        /\ FitsRow(actor[w], RowOf(w), earned[actor[w].job])
    BY <1>1, BeforeStatement
  <1>4. CASE actor[w].at \in {"record", "freeing"}
    <2>1. PICK s : s = [actor[w] EXCEPT !.at = IF actor[w].at = "record" THEN "complete" ELSE "completeFree"]
      OBVIOUS
    <2>2. actor' = [actor EXCEPT ![w] = s]
      BY <1>4, <2>1, Typed DEF RunStatement, Step
    <2>3. /\ s \in ActorState /\ s.job = actor[w].job /\ s.got = actor[w].got
          /\ s.at = IF actor[w].at = "record" THEN "complete" ELSE "completeFree"
      BY <1>3, <2>1 DEF ActorState, ActorAt, Trying
    <2>4. Explained(s)
      BY <1>3, <2>3 DEF Explained, Deciding, ActorState
    <2>5. FitsRow(s, RowOf(w), earned[actor[w].job])
      BY <1>3, <1>4, <2>3 DEF FitsRow, Unpaid, Trying, OurFault, CallerFault
    <2> QED BY <1>1, <1>2, <2>2, <2>3, <2>4, <2>5, WorkerLeaves
  <1>5. CASE actor[w].at \in {"complete", "completeFree"}
    <2>1. Rest(w)
      BY <1>5 DEF RunStatement
    <2> QED BY <1>1, <1>2, <2>1, ResumeIdle, WorkerLeaves DEF Rest
  <1> QED BY <1>1, <1>4, <1>5 DEF Trying

LEMMA StatementThrowsKeeps == ASSUME TypeInv, RailInv, NEW w \in Workers, StatementThrows(w) PROVE Kept
  <1>1. /\ actor[w].at \in Trying /\ Working(w) /\ Elsewhere /\ UNCHANGED <<facilitator, earned>>
        /\ job' \in {job, [job EXCEPT ![actor[w].job] = TryStatement(w)]}
    BY StayElsewhere, X402Assumption DEF StatementThrows, TypeInv, TypeOK, Trying, Working
  <1>2. PICK r : /\ Leaves(r, RowOf(w), earned[actor[w].job])
                 /\ job' = [job EXCEPT ![actor[w].job] = r]
    BY <1>1, TryLeaves, BeforeStatement
  <1>3. /\ actor[w] \in ActorState /\ Explained(actor[w]) /\ actor[w].job \in Calls
        /\ FitsRow(actor[w], RowOf(w), earned[actor[w].job])
    BY <1>1, BeforeStatement
  <1>4. PICK s : s = [actor[w] EXCEPT !.at = "caught", !.mode = "internal"]
    OBVIOUS
  <1>5. actor' = [actor EXCEPT ![w] = s]
    BY <1>4, Typed DEF StatementThrows, Catch
  <1>6. /\ s \in ActorState /\ s.job = actor[w].job /\ s.got = actor[w].got
        /\ s.at = "caught" /\ s.mode = "internal"
    BY <1>3, <1>4 DEF ActorState, ActorAt, Modes, OurFault
  <1>7. Explained(s)
    BY <1>3, <1>6 DEF Explained, Deciding
  <1>8. s.got \/ Quiet(RowOf(w))
    BY <1>1, <1>3, <1>6 DEF FitsRow, Trying, Quiet
  <1>9. FitsRow(s, RowOf(w), earned[actor[w].job])
    BY <1>1, <1>3, <1>6, <1>8 DEF FitsRow, Trying, CallerFault, Unpaid, OurFault
  <1> QED BY <1>1, <1>2, <1>5, <1>6, <1>7, <1>9, WorkerLeaves

\* What noting a settlement leaves behind, and what the worker then knows.
LEMMA NotedLeaves ==
  ASSUME TypeInv, RailInv, NEW w \in Workers,
         actor[w].at \in {"noteCaptured", "recordCharge", "noteRefused", "noteUnsettled"}
  PROVE  Leaves(Noted(RowOf(w), actor[w].at), RowOf(w), earned[actor[w].job])
  <1>1. /\ RowOf(w) \in JobRow /\ FitsRow(actor[w], RowOf(w), earned[actor[w].job])
        /\ Leaves(RowOf(w), RowOf(w), earned[actor[w].job])
    BY BeforeStatement DEF Working
  <1>2. CASE actor[w].at \in {"noteCaptured", "recordCharge"}
    <2>1. Captured(RowOf(w))
      BY <1>1, <1>2 DEF FitsRow
    <2>2. Noted(RowOf(w), actor[w].at) = RecordSettled(RowOf(w))
      BY <1>2 DEF Noted
    <2> QED BY <1>1, <2>1, <2>2, Recording
  <1>3. CASE actor[w].at = "noteRefused"
    <2>1. Noted(RowOf(w), actor[w].at) = RecordSettleFailed(RowOf(w))
      BY <1>3 DEF Noted
    <2> QED BY <1>1, <2>1, Recording
  <1>4. CASE actor[w].at = "noteUnsettled"
    <2>1. Noted(RowOf(w), actor[w].at) = RecordNotSettled(RowOf(w))
      BY <1>4 DEF Noted
    <2> QED BY <1>1, <2>1, Recording
  <1> QED BY <1>2, <1>3, <1>4

\* A worker that has noted the settlement finishes with what it knew.
LEMMA GoesToFinish ==
  ASSUME TypeInv, RailInv, NEW w \in Workers,
         actor[w].at \in {"noteCaptured", "recordCharge", "noteRefused", "noteUnsettled"},
         NEW r, Leaves(r, RowOf(w), earned[actor[w].job]), job' = [job EXCEPT ![actor[w].job] = r],
         Step(w, "finish"), UNCHANGED <<facilitator, earned>>, Elsewhere
  PROVE  Kept
  <1>1. /\ actor[w] \in ActorState /\ Explained(actor[w]) /\ actor[w].job \in Calls
        /\ FitsRow(actor[w], RowOf(w), earned[actor[w].job])
    BY BeforeStatement DEF Working
  <1>2. PICK s : s = [actor[w] EXCEPT !.at = "finish"]
    OBVIOUS
  <1>3. actor' = [actor EXCEPT ![w] = s]
    BY <1>2, Typed DEF Step
  <1>4. /\ s \in ActorState /\ s.job = actor[w].job /\ s.got = actor[w].got
        /\ s.at = "finish" /\ s.mode = actor[w].mode /\ s.verdict = actor[w].verdict
    BY <1>1, <1>2 DEF ActorState, ActorAt
  <1>5. Explained(s)
    BY <1>1, <1>4 DEF Explained, Deciding
  <1>6. FitsRow(s, RowOf(w), earned[actor[w].job])
    BY <1>1, <1>4 DEF FitsRow, Unpaid, Trying, OurFault, CallerFault
  <1> QED BY <1>3, <1>4, <1>5, <1>6, WorkerLeaves DEF Working

LEMMA NoteSettlementKeeps == ASSUME TypeInv, RailInv, NEW w \in Workers, NoteSettlement(w) PROVE Kept
  <1>1. /\ actor[w].at \in {"noteCaptured", "recordCharge", "noteRefused", "noteUnsettled"}
        /\ Working(w) /\ Elsewhere /\ UNCHANGED <<facilitator, earned>> /\ Step(w, "finish")
    BY StayElsewhere DEF NoteSettlement, TypeInv, TypeOK, Working
  <1>2. job' = [job EXCEPT ![actor[w].job] = Noted(RowOf(w), actor[w].at)]
    BY <1>1, BeforeStatement, Typed DEF NoteSettlement, RowOf
  <1> QED BY <1>1, <1>2, NotedLeaves, GoesToFinish

LEMMA NoteThrowsKeeps == ASSUME TypeInv, RailInv, NEW w \in Workers, NoteThrows(w) PROVE Kept
  <1>1. /\ actor[w].at \in {"noteCaptured", "recordCharge"} /\ Working(w) /\ Elsewhere
        /\ UNCHANGED <<facilitator, earned>>
        /\ job' \in {job, [job EXCEPT ![actor[w].job] = RecordSettled(@)]}
    BY StayElsewhere, X402Assumption DEF NoteThrows, TypeInv, TypeOK, Working
  <1>2. /\ actor[w] \in ActorState /\ Explained(actor[w]) /\ actor[w].job \in Calls
        /\ FitsRow(actor[w], RowOf(w), earned[actor[w].job])
        /\ RowOf(w) \in JobRow
        /\ Leaves(RowOf(w), RowOf(w), earned[actor[w].job])
        /\ job = [job EXCEPT ![actor[w].job] = RowOf(w)]
    BY <1>1, BeforeStatement
  <1>3. Leaves(RecordSettled(RowOf(w)), RowOf(w), earned[actor[w].job])
    <2>1. Captured(RowOf(w))
      BY <1>1, <1>2 DEF FitsRow
    <2> QED BY <1>2, <2>1, Recording
  <1>4. PICK r : /\ Leaves(r, RowOf(w), earned[actor[w].job])
                 /\ job' = [job EXCEPT ![actor[w].job] = r]
    BY <1>1, <1>2, <1>3, Typed DEF RowOf
  <1>5. CASE actor[w].at = "noteCaptured"
    <2>1. Step(w, "finish")
      BY <1>5 DEF NoteThrows
    <2> QED BY <1>1, <1>4, <2>1, GoesToFinish
  <1>6. CASE actor[w].at = "recordCharge"
    <2>1. PICK s : s = [actor[w] EXCEPT !.at = "noteRefused", !.mode = "internal",
                                        !.verdict = "settlement_failed"]
      OBVIOUS
    <2>2. actor' = [actor EXCEPT ![w] = s]
      BY <1>6, <2>1, Typed DEF NoteThrows, Conclude
    <2>3. /\ s \in ActorState /\ s.job = actor[w].job /\ s.got = actor[w].got
          /\ s.at = "noteRefused" /\ s.mode = "internal" /\ s.verdict = "settlement_failed"
      BY <1>2, <2>1 DEF ActorState, ActorAt, Modes, OurFault, Verdicts
    <2>4. Explained(s)
      BY <1>2, <2>3 DEF Explained, Deciding, Modes, OurFault
    <2>5. FitsRow(s, RowOf(w), earned[actor[w].job])
      BY <1>2, <1>6, <2>3 DEF FitsRow, Unpaid, Trying, OurFault, CallerFault
    <2> QED BY <1>1, <1>4, <2>2, <2>3, <2>4, <2>5, WorkerLeaves
  <1> QED BY <1>1, <1>5, <1>6

\* Writing how a job failed, with a verdict that is true of the money.
LEMMA Failing ==
  ASSUME NEW row \in JobRow, NEW gain, RowTells(row, gain), row.status # "absent",
         NEW mode \in Modes, NEW verdict \in Verdicts,
         verdict = "settled" => Captured(row),
         mode # "timeout" => gain # "nothing",
         verdict = "not_settled" /\ mode # "timeout" =>
             Quiet(row) /\ (Free(row) \/ gain # "caller_fault")
  PROVE  /\ Fail(row, mode, verdict) \in JobRow
         /\ Follows(Fail(row, mode, verdict), row)
         /\ RowTells(Fail(row, mode, verdict), gain)
         /\ \/ Fail(row, mode, verdict) = row
            \/ /\ Fail(row, mode, verdict).status = "failed"
               /\ Fail(row, mode, verdict).failure = mode
  <1>1. CASE row.status # "running"
    BY <1>1 DEF Fail, Follows, Outlives
  <1>2. CASE row.status = "running"
    <2>1. PICK r : r = Fail(row, mode, verdict)
      OBVIOUS
    <2>2. /\ r \in JobRow /\ r.status = "failed" /\ r.failure = mode
          /\ r.auth = row.auth /\ r.target = row.target
          /\ r.settlement = IF row.settlement \in {"settled", "settlement_failed"}
                            THEN row.settlement ELSE verdict
      BY <1>2, <2>1 DEF Fail, JobRow, Terminal, Modes, Verdicts
    <2>3. Follows(r, row)
      BY <1>2, <2>2 DEF Follows, Outlives, Terminal
    <2>4. RowTells(r, gain)
      BY <1>2, <2>2 DEF RowTells, Quiet, Captured, Free
    <2> QED BY <2>1, <2>2, <2>3, <2>4
  <1> QED BY <1>1, <1>2

LEMMA FinishKeeps == ASSUME TypeInv, RailInv, NEW a \in Actors, Finish(a) PROVE Kept
  <1>1. actor[a].at = "finish" /\ Elsewhere /\ UNCHANGED <<facilitator, earned>> /\ Rest(a)
    BY StayElsewhere DEF Finish, TypeInv, TypeOK
  <1>2. PICK j \in Calls : j = actor[a].job
    BY <1>1 DEF TypeInv, Explained
  <1>3. /\ actor[a] \in ActorState /\ Explained(actor[a]) /\ job[j] \in JobRow
        /\ job[j].status # "absent" /\ RowTells(job[j], earned[j])
    BY <1>1, <1>2, Typed DEF TypeInv, RailInv, RowFits
  <1>4. PICK mode \in Modes, verdict \in Verdicts : mode = actor[a].mode /\ verdict = actor[a].verdict
    BY <1>1, <1>3 DEF Explained, Deciding, ActorState
  <1>5. PICK r : r = Fail(job[j], mode, verdict)
    OBVIOUS
  <1>6. job' = [job EXCEPT ![j] = r]
    BY <1>2, <1>4, <1>5, Typed DEF Finish
  <1>7. CASE a \in Workers
    <2>1. FitsRow(actor[a], job[j], earned[j])
      BY <1>1, <1>2, <1>7 DEF RailInv, WorkerFits
    <2>2. /\ verdict = "settled" => Captured(job[j])
          /\ earned[j] # "nothing"
          /\ verdict = "not_settled" =>
                 Quiet(job[j]) /\ (Free(job[j]) \/ earned[j] # "caller_fault")
      BY <1>1, <1>4, <2>1 DEF FitsRow, Unpaid
    <2>3. r \in JobRow /\ Follows(r, job[j]) /\ RowTells(r, earned[j])
      BY <1>3, <1>5, <2>2, Failing
    <2>4. \A v \in Workers : v # a /\ Working(v) => actor[v].job # j
      BY <1>1, <1>2, <1>7, AtWork DEF Working
    <2> QED BY <1>1, <1>2, <1>6, <1>7, <2>3, <2>4, ResumeIdle, WorkerGoes DEF Rest
  <1>8. CASE a \in Crons
    <2>1. mode = "timeout"
      BY <1>1, <1>4, <1>8 DEF TypeInv, CronState
    <2>2. verdict = "settled" => Captured(job[j])
      BY <1>1, <1>2, <1>4, <1>8 DEF RailInv, CronFits
    <2>3. /\ r \in JobRow /\ Follows(r, job[j]) /\ RowTells(r, earned[j])
          /\ r = job[j] \/ (r.status = "failed" /\ r.failure = "timeout")
      BY <1>3, <1>5, <2>1, <2>2, Failing
    <2>4. \E t \in Crons : actor' = [actor EXCEPT ![t] = Idle]
      BY <1>1, <1>8 DEF Rest
    <2> QED BY <1>1, <1>2, <1>6, <2>3, <2>4, OutsiderWrites
  <1> QED BY <1>7, <1>8 DEF Actors

LEMMA ActorDiesKeeps == ASSUME TypeInv, RailInv, NEW a \in Actors, ActorDies(a) PROVE Kept
  <1>1. Rest(a) /\ UNCHANGED <<job, facilitator, earned>> /\ Elsewhere
    BY StayElsewhere, X402Assumption DEF ActorDies, TypeInv, TypeOK
  <1> QED BY <1>1, WorkerRests

-----------------------------------------------------------------------------
(* The steps of the others.                                                *)

\* The rows, the money and the actors stay as they are.
LEMMA NobodyMoves ==
  ASSUME TypeInv, RailInv, UNCHANGED <<job, facilitator, earned, actor>>, Elsewhere
  PROVE  Kept
  <1>1. SameRows /\ RowsOutlive
    BY Typed DEF SameRows, RowsOutlive, Outlives
  <1>2. TypeInv'
    BY <1>1, Typed, TypesFollow DEF TypeInv
  <1>3. Held' /\ OneJobPerTarget'
    BY <1>1, HoldersFollow DEF RailInv
  <1>4. Owned' /\ \A w \in Workers : WorkerFits(w)'
    BY DEF RailInv, Owned, Working, WorkerFits, FitsRow, Quiet, Captured, Free
  <1>5. \A t \in Crons : CronFits(t)'
    BY DEF RailInv, CronFits, Captured, Free
  <1>6. \A c \in Calls : RowFits(c)'
    BY DEF RailInv, RowFits, RowTells, Quiet, Captured, Free
  <1> QED BY <1>1, <1>2, <1>3, <1>4, <1>5, <1>6 DEF Kept, RailInv

\* A worker takes up a job: it knows nothing yet.
LEMMA BeginKeeps ==
  ASSUME TypeInv, RailInv, NEW w \in Workers, NEW j \in Calls, job[j].status = "queued",
         Begin(w, "loaded", j), UNCHANGED <<job, facilitator, earned>>, Elsewhere
  PROVE  Kept
  <1>1. PICK s : s = [Idle EXCEPT !.at = "loaded", !.job = j]
    OBVIOUS
  <1>2. s \in ActorState /\ s.at = "loaded" /\ s.job = j /\ ~ s.got
    BY <1>1 DEF Idle, ActorState, ActorAt
  <1>3. Explained(s)
    BY <1>2 DEF Explained, Deciding
  <1>4. actor' = [actor EXCEPT ![w] = s]
    BY <1>1 DEF Begin
  <1> QED BY <1>2, <1>3, <1>4, Typed, OnlyActorMoves

LEMMA StartScheduledKeeps ==
  ASSUME TypeInv, RailInv, NEW w \in Workers, NEW j \in Calls, StartScheduled(w, j) PROVE Kept
  <1>1. Elsewhere /\ UNCHANGED <<job, facilitator, earned>>
    BY DEF StartScheduled, TypeInv, TypeOK, Elsewhere
  <1>2. CASE job[j].status = "queued"
    BY <1>1, <1>2, BeginKeeps DEF StartScheduled
  <1>3. CASE job[j].status # "queued"
    BY <1>1, <1>3, NobodyMoves DEF StartScheduled
  <1> QED BY <1>2, <1>3

LEMMA PickUpOrphanKeeps ==
  ASSUME TypeInv, RailInv, NEW w \in Workers, NEW j \in Calls, PickUpOrphan(w, j) PROVE Kept
  <1>1. Elsewhere /\ UNCHANGED <<job, facilitator, earned>>
    BY StayElsewhere DEF PickUpOrphan, TypeInv, TypeOK
  <1> QED BY <1>1, BeginKeeps DEF PickUpOrphan, Orphaned

\* The cron's copy of the settlement is true when it is read.
LEMMA SelectStuckKeeps ==
  ASSUME TypeInv, RailInv, NEW t \in Crons, NEW j \in Calls, SelectStuck(t, j) PROVE Kept
  <1>1. Elsewhere /\ UNCHANGED <<job, facilitator, earned>> /\ job[j].status = "running"
    BY StayElsewhere DEF SelectStuck, TypeInv, TypeOK
  <1>2. PICK verdict : verdict = TerminalSettlement(job[j].settlement)
    OBVIOUS
  <1>3. verdict \in Verdicts /\ (verdict = "settled" => job[j].settlement = "settled")
    BY <1>2 DEF TerminalSettlement, Verdicts
  <1>4. PICK s : s = [at |-> "finish", job |-> j, mode |-> "timeout", got |-> FALSE, verdict |-> verdict]
    OBVIOUS
  <1>5. actor' = [actor EXCEPT ![t] = s]
    BY <1>2, <1>4 DEF SelectStuck
  <1>6. s \in ActorState /\ s.at = "finish" /\ s.job = j /\ s.mode = "timeout" /\ s.verdict = verdict
    BY <1>3, <1>4 DEF ActorState, ActorAt, Modes, OurFault
  <1>7. Explained(s) /\ CronState(s)
    BY <1>3, <1>6 DEF Explained, Deciding, CronState, Modes, OurFault, Verdicts
  <1>8. s.verdict = "settled" => Captured(job[s.job])
    BY <1>3, <1>6 DEF RailInv, RowFits, RowTells
  <1> QED BY <1>1, <1>5, <1>6, <1>7, <1>8, Typed, OnlyActorMoves

LEMMA PollExpiresKeeps == ASSUME TypeInv, RailInv, NEW c \in Calls, PollExpires(c) PROVE Kept
  <1>1. Elsewhere /\ UNCHANGED <<facilitator, earned, actor>> /\ job[c].status \in Live
    BY StayElsewhere DEF PollExpires, TypeInv, TypeOK
  <1>2. job[c] \in JobRow /\ RowTells(job[c], earned[c])
    BY Typed DEF RailInv, RowFits
  <1>3. PICK r : r = Expire(job[c])
    OBVIOUS
  <1>4. job' = [job EXCEPT ![c] = r]
    BY <1>3, Typed DEF PollExpires
  <1>5. /\ r \in JobRow /\ r.status = "expired" /\ r.settlement = "not_settled"
        /\ r.auth = job[c].auth /\ r.target = job[c].target
    BY <1>2, <1>3 DEF Expire, JobRow, Terminal
  <1>6. Follows(r, job[c])
    BY <1>1, <1>5 DEF Follows, Outlives, Live, Terminal
  <1>7. RowTells(r, earned[c])
    BY <1>2, <1>5 DEF RowTells, Quiet, Captured, Free
  <1> QED BY <1>1, <1>4, <1>5, <1>6, <1>7, OutsiderWrites

LEMMA LapseKeeps == ASSUME TypeInv, RailInv, NEW c \in Calls, Lapse(c) PROVE Kept
  <1>1. Elsewhere
    BY DEF Lapse, TypeInv, TypeOK, Elsewhere
  <1> QED BY <1>1, NobodyMoves DEF Lapse

LEMMA ScheduleLostKeeps == ASSUME TypeInv, RailInv, NEW c \in Calls, ScheduleLost(c) PROVE Kept
  <1>1. Elsewhere
    BY X402Assumption DEF ScheduleLost, TypeInv, TypeOK, Elsewhere
  <1> QED BY <1>1, NobodyMoves DEF ScheduleLost

\* The facilitator moves an authorization it was sent.
LEMMA MoneyMovesKeeps ==
  ASSUME TypeInv, RailInv, MoneyMoves({}), UNCHANGED <<job, earned, actor>>, Elsewhere
  PROVE  Kept
  <1>1. SameRows /\ RowsOutlive
    BY Typed DEF SameRows, RowsOutlive, Outlives
  <1>2. TypeInv'
    BY <1>1, Typed, TypesFollow DEF TypeInv, MoneyMoves
  <1>3. Held' /\ OneJobPerTarget'
    <2>1. \A a \in Auths : facilitator'[a] # "unseen" => facilitator[a] # "unseen"
      BY DEF MoneyMoves
    <2> QED BY <1>1, <2>1, HoldersFollow DEF RailInv
  <1>4. Owned'
    BY DEF RailInv, Owned, Working
  <1>5. ASSUME NEW w \in Workers PROVE WorkerFits(w)'
    <2>1. CASE actor[w].at = "idle"
      BY <2>1 DEF WorkerFits
    <2>2. CASE actor[w].at # "idle"
      <3>1. PICK j \in Calls : j = actor[w].job
        BY <2>2, AtWork
      <3>2. actor[w] \in ActorState /\ job[j] \in JobRow /\ FitsRow(actor[w], job[j], earned[j])
        BY <2>2, <3>1, AtWork DEF RowOf
      <3>3. FitsRow(actor[w], job[j], earned[j])'
        <4>1. PICK s \in ActorState, row \in JobRow, gain \in {earned[j]} : s = actor[w] /\ row = job[j] /\ gain = earned[j]
          BY <3>2
        <4>2. FitsRow(s, row, gain)'
          BY <3>2, <4>1, StillFits DEF FitsRow
        <4> QED BY <4>1, <4>2 DEF FitsRow, Quiet, Captured, Free
      <3> QED BY <3>1, <3>3 DEF WorkerFits
    <2> QED BY <2>1, <2>2
  <1>6. \A t \in Crons : CronFits(t)'
    BY <1>1, CronsFit
  <1>7. ASSUME NEW c \in Calls PROVE RowFits(c)'
    <2>1. PICK row \in JobRow, gain \in {earned[c]} : row = job[c] /\ gain = earned[c]
      BY Typed
    <2>2. RowTells(row, gain)'
      BY <2>1, StillTells DEF RailInv, RowFits
    <2> QED BY <2>1, <2>2 DEF RowFits, RowTells, Quiet, Captured, Free
  <1> QED BY <1>1, <1>2, <1>3, <1>4, <1>5, <1>6, <1>7 DEF Kept, RailInv

LEMMA FacilitatorKeeps ==
  ASSUME TypeInv, RailInv, NEW a \in Auths, Capture(a) \/ Refuse(a) PROVE Kept
  <1>1. Elsewhere /\ UNCHANGED <<job, earned, actor>>
    BY StayElsewhere DEF Capture, Refuse, TypeInv, TypeOK
  <1>2. MoneyMoves({})
    BY Typed DEF Capture, Refuse, MoneyMoves
  <1> QED BY <1>1, <1>2, MoneyMovesKeeps

-----------------------------------------------------------------------------
(* The steps of a caller.                                                  *)

\* Only calls move on, and claims are made: the rows stay.
LEMMA CallsMove ==
  ASSUME TypeInv, RailInv, UNCHANGED <<job, facilitator, earned, actor, lapsed>>, scheduled' \subseteq Calls,
         NEW c \in Calls, NEW s \in CallState, call' = [call EXCEPT ![c] = s],
         s.at # "answered" => job[c] = NoRow,
         s.at = "verified" => s.auth \in Auths,
         claimed' \subseteq Auths, claimed \subseteq claimed', faults' \in 0 .. MaxFaults,
         s.at \in {"claimed", "limited"} /\ s.auth \in Auths =>
             /\ s.auth \in claimed'
             /\ \/ s.auth \notin claimed
                \/ call[c].at \in {"claimed", "limited"} /\ call[c].auth = s.auth
  PROVE  Kept
  <1>1. /\ call' \in [Calls -> CallState] /\ call'[c] = s
        /\ \A d \in Calls : d # c => call'[d] = call[d]
    BY Typed
  <1>2. TypeInv'
    <2>1. TypeOK'
      BY <1>1 DEF TypeInv, TypeOK, CallState
    <2>2. RowAwaitsCall'
      BY <1>1 DEF TypeInv, RowAwaitsCall
    <2> QED BY <2>1, <2>2 DEF TypeInv
  <1>3. Held'
    <2>1. \A d \in Calls, a \in Auths : d # c => (Holds(d, a)' <=> Holds(d, a))
      BY <1>1 DEF Holds
    <2>2. \A a \in Auths : Holds(c, a)' =>
              Holds(c, a) \/ (a \in claimed' /\ a \notin claimed)
      BY <1>1 DEF Holds
    <2>3. \A d \in Calls, a \in Auths : Holds(d, a)' => a \in claimed'
      BY <2>1, <2>2 DEF RailInv, Held
    <2>4. \A d, e \in Calls, a \in Auths : Holds(d, a)' /\ Holds(e, a)' => d = e
      BY <2>1, <2>2 DEF RailInv, Held
    <2> QED BY <2>3, <2>4 DEF RailInv, Held
  <1>4. Owned' /\ OneJobPerTarget' /\ RowsOutlive
    BY DEF RailInv, Owned, Working, OneJobPerTarget, Free, RowsOutlive, Outlives
  <1>5. \A w \in Workers : WorkerFits(w)'
    BY DEF RailInv, WorkerFits, FitsRow, Quiet, Captured, Free
  <1>6. \A t \in Crons : CronFits(t)'
    BY DEF RailInv, CronFits, Captured, Free
  <1>7. \A d \in Calls : RowFits(d)'
    BY DEF RailInv, RowFits, RowTells, Quiet, Captured, Free
  <1> QED BY <1>2, <1>3, <1>4, <1>5, <1>6, <1>7 DEF Kept, RailInv

\* A call only goes on to another step of the handler.
LEMMA CallGoes ==
  ASSUME TypeInv, RailInv, UNCHANGED <<job, claimed, facilitator, earned, actor, lapsed, scheduled>>,
         faults' \in 0 .. MaxFaults,
         NEW c \in Calls, NEW at \in {"limited", "answered"}, Goto(c, at),
         at = "limited" => call[c].at = "claimed"
  PROVE  Kept
  <1>1. PICK s : s = [call[c] EXCEPT !.at = at]
    OBVIOUS
  <1>2. s \in CallState /\ s.at = at /\ s.auth = call[c].auth
    BY <1>1, Typed DEF CallState
  <1>3. call' = [call EXCEPT ![c] = s]
    BY <1>1, Typed DEF Goto
  <1>4. s.at # "answered" => job[c] = NoRow
    BY <1>2 DEF TypeInv, RowAwaitsCall
  <1>5. s.at \in {"claimed", "limited"} /\ s.auth \in Auths =>
            s.auth \in claimed /\ call[c].at \in {"claimed", "limited"}
    BY <1>2 DEF RailInv, Held, Holds
  <1>6. claimed' \subseteq Auths /\ claimed \subseteq claimed' /\ scheduled' \subseteq Calls
    BY DEF TypeInv, TypeOK
  <1> QED BY <1>2, <1>3, <1>4, <1>5, <1>6, CallsMove

LEMMA VerifyAndLookUpKeeps ==
  ASSUME TypeInv, RailInv, NEW c \in Calls, NEW a \in Auths \cup {NoAuth}, NEW target \in Targets,
         VerifyAndLookUp(c, a, target)
  PROVE  Kept
  <1>1. PICK s : s = [at |-> IF Holders(target, a = NoAuth) # {} THEN "answered"
                             ELSE IF a = NoAuth THEN "claimed" ELSE "verified",
                      target |-> target, auth |-> a]
    OBVIOUS
  <1>2. /\ s \in CallState /\ s.auth = a
        /\ s.at = "claimed" => a = NoAuth
        /\ s.at = "verified" => a # NoAuth
        /\ s.at # "limited"
    BY <1>1 DEF CallState
  <1>3. call' = [call EXCEPT ![c] = s]
    BY <1>1 DEF VerifyAndLookUp
  <1>4. job[c] = NoRow
    BY DEF VerifyAndLookUp, TypeInv, RowAwaitsCall
  <1>5. /\ claimed' \subseteq Auths /\ claimed \subseteq claimed' /\ faults' \in 0 .. MaxFaults
        /\ scheduled' \subseteq Calls
    BY DEF VerifyAndLookUp, TypeInv, TypeOK
  <1> QED BY <1>2, <1>3, <1>4, <1>5, Typed, CallsMove DEF VerifyAndLookUp

LEMMA ClaimAuthorizationKeeps ==
  ASSUME TypeInv, RailInv, NEW c \in Calls, ClaimAuthorization(c) PROVE Kept
  <1>1. /\ call[c].at = "verified" /\ call[c].auth \in Auths /\ job[c] = NoRow
        /\ UNCHANGED <<job, facilitator, earned, actor, lapsed, scheduled>>
        /\ faults' \in 0 .. MaxFaults /\ scheduled' \subseteq Calls
    BY DEF ClaimAuthorization, TypeInv, TypeOK, RowAwaitsCall
  <1>2. CASE FreshAuth(call[c].auth)
    <2>1. PICK s : s = [call[c] EXCEPT !.at = "claimed"]
      OBVIOUS
    <2>2. s \in CallState /\ s.at = "claimed" /\ s.auth = call[c].auth
      BY <2>1, Typed DEF CallState
    <2>3. call' = [call EXCEPT ![c] = s] /\ claimed' = claimed \cup {s.auth} /\ s.auth \notin claimed
      BY <1>2, <2>1, <2>2, Typed DEF ClaimAuthorization, Goto, FreshAuth
    <2>4. claimed' \subseteq Auths /\ claimed \subseteq claimed'
      BY <1>1, <2>2, <2>3 DEF TypeInv, TypeOK
    <2> QED BY <1>1, <2>2, <2>3, <2>4, CallsMove
  <1>3. CASE ~ FreshAuth(call[c].auth)
    BY <1>1, <1>3, CallGoes DEF ClaimAuthorization
  <1> QED BY <1>2, <1>3

LEMMA CheckRateLimitKeeps ==
  ASSUME TypeInv, RailInv, NEW c \in Calls, CheckRateLimit(c) PROVE Kept
  <1>1. PICK at \in {"limited", "answered"} : Goto(c, at)
    BY DEF CheckRateLimit
  <1>2. faults' \in 0 .. MaxFaults
    BY DEF CheckRateLimit, TypeInv, TypeOK
  <1> QED BY <1>1, <1>2, CallGoes DEF CheckRateLimit

LEMMA CallDiesKeeps == ASSUME TypeInv, RailInv, NEW c \in Calls, CallDies(c) PROVE Kept
  <1>1. faults' \in 0 .. MaxFaults
    BY X402Assumption DEF CallDies, TypeInv, TypeOK
  <1> QED BY <1>1, CallGoes DEF CallDies

\* A row that was not there: it carries what its call claimed, for a target
\* nobody else has.
LEMMA RowAppears ==
  ASSUME TypeInv, RailInv, NEW c \in Calls, NEW row \in JobRow, NEW s \in CallState,
         job[c] = NoRow, job' = [job EXCEPT ![c] = row],
         call' = [call EXCEPT ![c] = s], s.at = "answered",
         row.status = "queued", row.settlement # "settled",
         Free(row) \/ Holds(c, row.auth),
         \A d \in Calls : job[d].status # "absent" /\ Free(job[d]) = Free(row) => job[d].target # row.target,
         UNCHANGED <<claimed, lapsed, facilitator, earned, actor, faults>>,
         scheduled' \subseteq Calls
  PROVE  Kept
  <1>1. /\ job' \in [Calls -> JobRow] /\ job'[c] = row
        /\ \A d \in Calls : d # c => job'[d] = job[d]
        /\ call' \in [Calls -> CallState] /\ call'[c] = s
        /\ \A d \in Calls : d # c => call'[d] = call[d]
    BY Typed
  <1>2. job[c].status = "absent" /\ job[c].auth = NoAuth /\ job[c].settlement # "settled"
    BY DEF NoRow
  <1>3. \A a \in Actors : actor[a].at # "idle" => actor[a].job # c
    BY <1>2 DEF TypeInv
  <1>4. TypeInv'
    <2>1. TypeOK'
      BY <1>1 DEF TypeInv, TypeOK, CallState
    <2>2. RowAwaitsCall'
      BY <1>1 DEF TypeInv, RowAwaitsCall
    <2>3. \A a \in Actors : actor'[a].at # "idle" => job'[actor'[a].job].status # "absent"
      BY <1>1, <1>3 DEF TypeInv, Explained
    <2> QED BY <2>1, <2>2, <2>3 DEF TypeInv
  <1>5. Held'
    <2>1. \A d \in Calls, a \in Auths : Holds(d, a)' => Holds(d, a)
      BY <1>1, X402Assumption DEF Holds, Free
    <2>2. \A a \in Auths : facilitator[a] # "unseen" => \E d \in Calls : job'[d].auth = a
      <3> SUFFICES ASSUME NEW a \in Auths, facilitator[a] # "unseen"
                   PROVE  \E d \in Calls : job'[d].auth = a
        OBVIOUS
      <3>1. PICK d \in Calls : job[d].auth = a
        BY DEF RailInv, Held
      <3>2. d # c
        BY <1>2, <3>1, X402Assumption
      <3> QED BY <1>1, <3>1, <3>2
    <2> QED BY <2>1, <2>2 DEF RailInv, Held
  <1>6. Owned'
    BY DEF RailInv, Owned, Working
  <1>7. ASSUME NEW w \in Workers PROVE WorkerFits(w)'
    <2>1. CASE actor[w].at = "idle"
      BY <2>1 DEF WorkerFits
    <2>2. CASE actor[w].at # "idle"
      <3>1. PICK j \in Calls : j = actor[w].job
        BY <2>2, AtWork
      <3>2. FitsRow(actor[w], job[j], earned[j]) /\ job'[j] = job[j]
        BY <1>1, <1>3, <2>2, <3>1, Typed DEF RailInv, WorkerFits
      <3>3. FitsRow(actor[w], job[j], earned[j])'
        BY <3>2 DEF FitsRow, Quiet, Captured, Free
      <3> QED BY <3>1, <3>3 DEF WorkerFits
    <2> QED BY <2>1, <2>2
  <1>8. \A t \in Crons : CronFits(t)'
    BY <1>1, <1>3, Typed DEF RailInv, CronFits, Captured, Free, TypeInv, Explained
  <1>9. ASSUME NEW d \in Calls PROVE RowFits(d)'
    <2>1. CASE d = c
      <3>1. Quiet(row)
        <4> SUFFICES ASSUME ~ Free(row), facilitator[row.auth] # "unseen" PROVE FALSE
          BY DEF Quiet
        <4>1. row.auth \in Auths
          BY DEF JobRow, Free
        <4>2. PICK e \in Calls : job[e].auth = row.auth
          BY <4>1 DEF RailInv, Held
        <4>3. e = c
          BY <4>1, <4>2 DEF RailInv, Held, Holds
        <4> QED BY <1>2, <4>1, <4>2, <4>3, X402Assumption
      <3>2. earned[c] = "nothing"
        BY <1>2 DEF RailInv, RowFits, RowTells
      <3> QED BY <1>1, <2>1, <3>1, <3>2 DEF RowFits, RowTells, Quiet, Captured, Free
    <2>2. CASE d # c
      BY <1>1, <2>2 DEF RailInv, RowFits, RowTells, Quiet, Captured, Free
    <2> QED BY <2>1, <2>2
  <1>10. OneJobPerTarget'
    BY <1>1 DEF RailInv, OneJobPerTarget, Free
  <1>11. RowsOutlive
    BY <1>1, <1>2 DEF RowsOutlive, Outlives, Terminal
  <1> QED BY <1>4, <1>5, <1>6, <1>7, <1>8, <1>9, <1>10, <1>11 DEF Kept, RailInv

LEMMA CreateJobKeeps == ASSUME TypeInv, RailInv, NEW c \in Calls, CreateJob(c) PROVE Kept
  <1>1. PICK free : free = (call[c].auth = NoAuth)
    OBVIOUS
  <1>2. call[c].at = "limited" /\ job[c] = NoRow /\ call[c] \in CallState /\ call[c].target \in Targets \cup {"none"}
    BY Typed DEF CreateJob, TypeInv, RowAwaitsCall, CallState
  <1>3. PICK s : s = [call[c] EXCEPT !.at = "answered"]
    OBVIOUS
  <1>4. s \in CallState /\ s.at = "answered" /\ call' = [call EXCEPT ![c] = s]
    BY <1>2, <1>3, Typed DEF CallState, CreateJob, Goto
  <1>5. CASE Conflicts(call[c].target, free)
    <2>1. /\ UNCHANGED <<job, facilitator, earned, actor, lapsed, claimed, faults>>
          /\ scheduled' \subseteq Calls
      BY <1>1, <1>5 DEF CreateJob, Holders, TypeInv, TypeOK
    <2>2. claimed' \subseteq Auths /\ claimed \subseteq claimed' /\ faults' \in 0 .. MaxFaults
      BY <2>1 DEF TypeInv, TypeOK
    <2> QED BY <1>4, <2>1, <2>2, CallsMove
  <1>6. CASE ~ Conflicts(call[c].target, free)
    <2>1. PICK row : row = [NoRow EXCEPT !.status = "queued", !.target = call[c].target,
                                         !.auth = call[c].auth,
                                         !.settlement = IF free THEN "not_settled" ELSE "pending"]
      OBVIOUS
    <2>2. /\ row \in JobRow /\ row.status = "queued" /\ row.settlement # "settled"
          /\ row.auth = call[c].auth /\ row.target = call[c].target
      BY <1>2, <2>1 DEF NoRow, JobRow, CallState, Live
    <2>3. /\ job' = [job EXCEPT ![c] = row] /\ scheduled' \subseteq Calls
          /\ UNCHANGED <<claimed, lapsed, facilitator, earned, actor, faults>>
      <3>1. scheduled \subseteq Calls
        BY DEF TypeInv, TypeOK
      <3>2. job' = [job EXCEPT ![c] = row] /\ scheduled' = scheduled \cup {c}
        BY <1>1, <1>6, <2>1 DEF CreateJob
      <3> QED BY <3>1, <3>2 DEF CreateJob
    <2>4. Free(row) = free /\ Holds(c, row.auth)
      BY <1>1, <1>2, <2>2 DEF Free, Holds
    <2>5. \A d \in Calls : job[d].status # "absent" /\ Free(job[d]) = Free(row) => job[d].target # row.target
      BY <1>6, <2>2, <2>4 DEF Conflicts, Holders
    <2> QED BY <1>2, <1>4, <2>2, <2>3, <2>4, <2>5, RowAppears
  <1> QED BY <1>5, <1>6

-----------------------------------------------------------------------------
(* Every step, and what follows.                                           *)

LEMMA NextKeeps == ASSUME TypeInv, RailInv, Next PROVE Kept
  <1>1. ASSUME NEW c \in Calls, NEW a \in Auths \cup {NoAuth}, NEW target \in Targets,
               VerifyAndLookUp(c, a, target)
        PROVE  Kept
    BY <1>1, VerifyAndLookUpKeeps
  <1>2. ASSUME NEW c \in Calls, Handler(c) \/ Lapse(c) \/ PollExpires(c)
        PROVE  Kept
    BY <1>2, ClaimAuthorizationKeeps, CheckRateLimitKeeps, CreateJobKeeps, LapseKeeps, PollExpiresKeeps
       DEF Handler
  <1>3. ASSUME NEW a \in Auths, Capture(a) \/ Refuse(a)
        PROVE  Kept
    BY <1>3, FacilitatorKeeps
  <1>4. ASSUME NEW w \in Workers, NEW j \in Calls, StartScheduled(w, j) \/ PickUpOrphan(w, j)
        PROVE  Kept
    BY <1>4, StartScheduledKeeps, PickUpOrphanKeeps
  <1>5. ASSUME NEW w \in Workers, Worker(w) \/ SettleThrows(w)
        PROVE  Kept
    <2>1. CASE \E mode \in CallerFault \cup OurFault : PipelineThrows(w, mode)
      BY <2>1, PipelineThrowsKeeps DEF Modes
    <2>2. CASE SettleThrows(w)
      BY <2>2, SettleThrowsKeeps
    <2>3. CASE ClaimJob(w) \/ PipelineReturns(w) \/ PostSettle(w)
      BY <2>3, ClaimJobKeeps, PipelineReturnsKeeps, PostSettleKeeps
    <2>4. CASE SettleAnswered(w) \/ RunStatement(w) \/ DecideFailure(w) \/ NoteSettlement(w)
      BY <2>4, SettleAnsweredKeeps, RunStatementKeeps, DecideFailureKeeps, NoteSettlementKeeps
    <2> QED BY <1>5, <2>1, <2>2, <2>3, <2>4 DEF Worker
  <1>6. ASSUME NEW t \in Crons, NEW j \in Calls, SelectStuck(t, j)
        PROVE  Kept
    BY <1>6, SelectStuckKeeps
  <1>7. ASSUME NEW a \in Actors, Finish(a) \/ ActorDies(a)
        PROVE  Kept
    BY <1>7, FinishKeeps, ActorDiesKeeps
  <1>8. ASSUME NEW c \in Calls, CallDies(c) \/ ScheduleLost(c)
        PROVE  Kept
    BY <1>8, CallDiesKeeps, ScheduleLostKeeps
  <1>9. ASSUME NEW w \in Workers, StatementThrows(w) \/ NoteThrows(w) \/ ConfigThrows(w)
        PROVE  Kept
    BY <1>9, StatementThrowsKeeps, NoteThrowsKeeps, ConfigThrowsKeeps
  <1> QED BY <1>1, <1>2, <1>3, <1>4, <1>5, <1>6, <1>7, <1>8, <1>9 DEF Next, Fault

LEMMA StepKeeps == ASSUME TypeInv, RailInv, [Next]_vars PROVE Kept
  <1>1. CASE Next
    BY <1>1, NextKeeps
  <1>2. CASE UNCHANGED vars
    <2>1. Elsewhere
      BY <1>2 DEF vars, Elsewhere, TypeInv, TypeOK
    <2> QED BY <1>2, <2>1, NobodyMoves DEF vars
  <1> QED BY <1>1, <1>2

LEMMA InitHolds == Init => TypeInv /\ RailInv
  <1> SUFFICES ASSUME Init PROVE TypeInv /\ RailInv
    OBVIOUS
  <1>1. NoRow \in JobRow /\ NoRow.status = "absent" /\ NoRow.auth = NoAuth /\ NoRow.settlement = "pending"
    BY DEF NoRow, JobRow
  <1>2. NewCall \in CallState /\ NewCall.at = "idle"
    BY DEF NewCall, CallState
  <1>3. TypeOK
    BY <1>1, <1>2, ResumeIdle, X402Assumption
       DEF Init, TypeOK, CallState, ActorState, ActorAt, Modes, Verdicts
  <1>4. RowAwaitsCall
    BY <1>2 DEF Init, RowAwaitsCall
  <1>5. TypeInv
    BY <1>3, <1>4, ResumeIdle DEF Init, TypeInv, CronState, Actors
  <1>6. Held
    BY <1>1, <1>2, X402Assumption DEF Init, Held, Holds
  <1>7. Owned
    BY ResumeIdle DEF Init, Owned, Working, Actors
  <1>8. (\A w \in Workers : WorkerFits(w)) /\ (\A t \in Crons : CronFits(t))
    BY ResumeIdle DEF Init, WorkerFits, CronFits, Actors
  <1>9. \A c \in Calls : RowFits(c)
    BY <1>1 DEF Init, RowFits, RowTells, Quiet, Captured, Free
  <1>10. OneJobPerTarget
    BY <1>1 DEF Init, OneJobPerTarget
  <1> QED BY <1>5, <1>6, <1>7, <1>8, <1>9, <1>10 DEF RailInv

LEMMA InvHolds == Spec => [](TypeInv /\ RailInv)
  <1>1. TypeInv /\ RailInv /\ [Next]_vars => (TypeInv /\ RailInv)'
    BY StepKeeps DEF Kept
  <1> QED BY InitHolds, <1>1, PTL DEF Spec

-----------------------------------------------------------------------------
(* The rail implements the abstract payment: each step does one thing to   *)
(* one job, as the caller sees it, or nothing.                             *)

\* The next payment step, or none.
Pays == Payment!PaymentNext \/ UNCHANGED Payment!paymentVars

\* Nothing is seen of a step that leaves rows, facilitator and work alone.
LEMMA Unseen == ASSUME UNCHANGED <<job, facilitator, earned>> PROVE Pays
  <1>1. \A j \in Calls : /\ LaneOf(j)' = LaneOf(j) /\ MoneyOf(j)' = MoneyOf(j)
                         /\ OutcomeOf(j)' = OutcomeOf(j)
                         /\ job'[j] = job[j]
    BY DEF LaneOf, MoneyOf, OutcomeOf, Free
  <1> QED BY <1>1 DEF Pays, Payment!paymentVars

\* One row is written: what is seen of all others stays.
LEMMA OneRowSeen ==
  ASSUME TypeInv, TypeInv', NEW j \in Calls, \A c \in Calls : c # j => job'[c] = job[c],
         UNCHANGED facilitator, job'[j].auth = job[j].auth,
         job[j].status # "absent", job'[j].status # "absent"
  PROVE  /\ \A c \in Calls : LaneOf(c)' = LaneOf(c) /\ MoneyOf(c)' = MoneyOf(c)
         /\ \A c \in Calls : c # j => OutcomeOf(c)' = OutcomeOf(c)
  BY DEF LaneOf, MoneyOf, OutcomeOf, Free

\* How a statement may write a row.
Rewrites(r, row) ==
    /\ r.status = row.status /\ r.failure = row.failure
    /\ row.settlement = "settled" => r.settlement = "settled"
    /\ row.status = "failed" => row.failure = "timeout"
Starts(r, row) == row.status = "queued" /\ r = [row EXCEPT !.status = "running"]
Ends(r, row) ==
    /\ row.status \in Live /\ r.status \in Terminal
    /\ r.status = "expired" => r.settlement # "settled"

LEMMA RowIsSeen ==
  ASSUME TypeInv, RailInv, Kept, NEW j \in Calls, \A c \in Calls : c # j => job'[c] = job[c],
         UNCHANGED <<facilitator, earned>>, job'[j].auth = job[j].auth,
         Rewrites(job'[j], job[j]) \/ Starts(job'[j], job[j]) \/ Ends(job'[j], job[j]),
         job[j].status # "absent"
  PROVE  Pays
  <1> DEFINE row == job[j]
             r == job'[j]
             seen == [c \in Calls |-> job[c].settlement = "settled"]
             told == [c \in Calls |-> OutcomeOf(c)]
  <1>1. row \in JobRow /\ r \in JobRow /\ RowTells(row, earned[j]) /\ RowTells(job[j], earned[j])'
    BY Typed DEF Kept, TypeInv, TypeOK, RailInv, RowFits
  <1>2. /\ Free(job[j])' <=> Free(row)
        /\ Captured(job[j])' <=> Captured(row)
        /\ Quiet(job[j])' <=> Quiet(row)
    BY DEF Free, Captured, Quiet
  <1>3. Outlives(r, row) /\ r.status # "absent"
    BY <1>1 DEF Kept, RowsOutlive, Rewrites, Starts, Ends, Terminal, JobRow
  <1>4. /\ \A c \in Calls : LaneOf(c)' = LaneOf(c) /\ MoneyOf(c)' = MoneyOf(c)
        /\ \A c \in Calls : c # j => OutcomeOf(c)' = OutcomeOf(c)
    BY <1>3, OneRowSeen DEF Kept
  <1>5. /\ UNCHANGED <<[c \in Calls |-> LaneOf(c)], earned, [c \in Calls |-> MoneyOf(c)]>>
        /\ seen' = [seen EXCEPT ![j] = (r.settlement = "settled")]
        /\ told' = [told EXCEPT ![j] = OutcomeOf(j)']
    BY <1>4
  <1>6. /\ seen[j] = (row.settlement = "settled") /\ told[j] = OutcomeOf(j)
        /\ LaneOf(j) = IF Free(row) THEN "free" ELSE "paid"
        /\ Captured(row) => MoneyOf(j) = "captured"
        /\ Quiet(row) => MoneyOf(j) = "unseen"
    BY DEF LaneOf, MoneyOf, Captured, Quiet
  <1>7. CASE Rewrites(r, row) \/ Starts(r, row)
    <2>1. OutcomeOf(j)' = OutcomeOf(j)
      <3>1. CASE Rewrites(r, row)
        BY <3>1 DEF Rewrites, OutcomeOf
      <3>2. CASE Starts(r, row)
        BY <3>2, <1>1 DEF Starts, OutcomeOf, Live, JobRow
      <3> QED BY <1>7, <3>1, <3>2
    <2>2. UNCHANGED told
      BY <1>4, <2>1
    <2>3. CASE (r.settlement = "settled") = (row.settlement = "settled")
      <3>1. UNCHANGED seen
        BY <1>5, <2>3
      <3> QED BY <1>5, <2>2, <3>1 DEF Pays, Payment!paymentVars
    <2>4. CASE (r.settlement = "settled") # (row.settlement = "settled")
      <3>1. row.settlement # "settled" /\ r.settlement = "settled"
        BY <1>7, <1>1, <2>4 DEF Rewrites, Starts, JobRow
      <3>2. MoneyOf(j) = "captured"
        BY <1>1, <1>2, <1>6, <3>1 DEF RowTells
      <3>3. Payment!Acknowledge(j)
        BY <1>5, <2>2, <3>1, <3>2 DEF Payment!Acknowledge
      <3> QED BY <3>3 DEF Pays, Payment!PaymentNext
    <2> QED BY <2>3, <2>4
  <1>8. CASE Ends(r, row)
    <2>1. OutcomeOf(j) = "open" /\ LaneOf(j) # "none"
      <3>1. row.status \in Live
        BY <1>8 DEF Ends
      <3>2. OutcomeOf(j) = "open"
        BY <3>1 DEF OutcomeOf, Live
      <3> QED BY <1>6, <3>2
    <2>2. ASSUME OutcomeOf(j)' = "delivered" PROVE Payment!Deliver(j)
      <3>1. r.status = "complete"
        BY <1>8, <2>2 DEF Ends, Terminal, OutcomeOf
      <3>2. earned[j] = "review" /\ (LaneOf(j) = "paid" <=> r.settlement = "settled")
            /\ (LaneOf(j) = "paid" => MoneyOf(j) = "captured")
        BY <1>1, <1>2, <1>6, <3>1 DEF RowTells, Captured
      <3>3. seen' = [seen EXCEPT ![j] = (LaneOf(j) = "paid")]
        BY <1>5, <3>2
      <3> QED BY <1>5, <2>1, <2>2, <3>2, <3>3 DEF Payment!Deliver, Payment!End
    <2>3. ASSUME OutcomeOf(j)' = "waived" PROVE Payment!Waive(j)
      <3>1. r.status = "failed" /\ r.settlement = "not_settled" /\ r.failure # "timeout"
        BY <1>8, <2>3 DEF Ends, Terminal, OutcomeOf
      <3>2. /\ earned[j] # "nothing" /\ MoneyOf(j) = "unseen"
            /\ LaneOf(j) = "paid" => earned[j] # "caller_fault"
        BY <1>1, <1>2, <1>6, <3>1 DEF RowTells
      <3>3. row.settlement # "settled"
        BY <1>3, <3>1 DEF Outlives
      <3>4. UNCHANGED seen
        BY <1>5, <3>1, <3>3
      <3> QED BY <1>5, <2>1, <2>3, <3>2, <3>4 DEF Payment!Waive, Payment!End
    <2>4. ASSUME OutcomeOf(j)' = "failed" PROVE Payment!Fail(j)
      <3>1. r.status = "failed"
        BY <1>8, <2>4 DEF Ends, Terminal, OutcomeOf
      <3>2. row.settlement = "settled" => r.settlement = "settled"
        BY <1>3, <3>1 DEF Outlives
      <3>3. \/ UNCHANGED seen
            \/ MoneyOf(j) = "captured" /\ seen' = [seen EXCEPT ![j] = TRUE]
        <4>1. CASE (r.settlement = "settled") = (row.settlement = "settled")
          BY <1>5, <4>1
        <4>2. CASE r.settlement = "settled"
          BY <1>1, <1>2, <1>5, <1>6, <4>2 DEF RowTells
        <4> QED BY <3>2, <4>1, <4>2
      <3> QED BY <1>5, <2>1, <2>4, <3>3 DEF Payment!Fail, Payment!End
    <2>5. ASSUME OutcomeOf(j)' = "expired" PROVE Payment!Expire(j)
      <3>1. r.settlement # "settled"
        BY <1>8, <2>5 DEF Ends, Terminal, OutcomeOf
      <3> QED BY <1>5, <2>1, <2>5, <3>1 DEF Payment!Expire, Payment!End
    <2>6. OutcomeOf(j)' \in {"delivered", "waived", "failed", "expired"}
      BY <1>8 DEF Ends, Terminal, Live, OutcomeOf
    <2> QED BY <2>2, <2>3, <2>4, <2>5, <2>6 DEF Pays, Payment!PaymentNext
  <1> QED BY <1>7, <1>8

\* The statements of a worker write its row in one of the three ways.
LEMMA TryRewrites ==
  ASSUME TypeInv, RailInv, NEW w \in Workers, actor[w].at \in Trying
  PROVE  LET r == TryStatement(w)
             row == RowOf(w)
         IN  r.auth = row.auth /\ (Rewrites(r, row) \/ Ends(r, row))
  <1>1. /\ RowOf(w) \in JobRow /\ FitsRow(actor[w], RowOf(w), earned[actor[w].job])
    BY BeforeStatement DEF Trying, Working
  <1>2. RowOf(w).status = "failed" => RowOf(w).failure = "timeout"
    BY <1>1 DEF FitsRow, Trying
  <1> QED BY <1>1, <1>2
          DEF TryStatement, Trying, RecordSettled, RecordNotSettled, CompleteSettled, CompleteFree,
              Rewrites, Ends, Live, Terminal, JobRow

LEMMA NotedRewrites ==
  ASSUME TypeInv, RailInv, NEW w \in Workers,
         actor[w].at \in {"noteCaptured", "recordCharge", "noteRefused", "noteUnsettled"}
  PROVE  /\ Rewrites(Noted(RowOf(w), actor[w].at), RowOf(w))
         /\ Noted(RowOf(w), actor[w].at).auth = RowOf(w).auth
         /\ Rewrites(RecordSettled(RowOf(w)), RowOf(w))
         /\ RecordSettled(RowOf(w)).auth = RowOf(w).auth
  <1>1. RowOf(w) \in JobRow /\ FitsRow(actor[w], RowOf(w), earned[actor[w].job])
    BY BeforeStatement DEF Working
  <1>2. RowOf(w).status = "failed" => RowOf(w).failure = "timeout"
    BY <1>1 DEF FitsRow
  <1> QED BY <1>1, <1>2
          DEF Noted, RecordSettled, RecordNotSettled, RecordSettleFailed, Rewrites, JobRow

\* A statement of a worker is a payment step, whether or not it is committed.
LEMMA WorkerWrites ==
  ASSUME TypeInv, RailInv, Kept, NEW w \in Workers, Working(w), NEW r,
         r.auth = RowOf(w).auth,
         Rewrites(r, RowOf(w)) \/ Starts(r, RowOf(w)) \/ Ends(r, RowOf(w)),
         job' = [job EXCEPT ![actor[w].job] = r], UNCHANGED <<facilitator, earned>>
  PROVE  Pays
  <1>1. PICK j \in Calls : j = actor[w].job
    BY AtWork DEF Working
  <1>2. job'[j] = r /\ RowOf(w) = job[j] /\ job[j].status # "absent"
        /\ \A c \in Calls : c # j => job'[c] = job[c]
    BY <1>1, Typed DEF RowOf, TypeInv, Working
  <1> QED BY <1>1, <1>2, RowIsSeen

LEMMA ClaimJobPays == ASSUME TypeInv, RailInv, Kept, NEW w \in Workers, ClaimJob(w) PROVE Pays
  <1>1. CASE UNCHANGED job
    BY <1>1, Unseen DEF ClaimJob
  <1>2. CASE Claimable(actor[w].job) /\ job' = [job EXCEPT ![actor[w].job].status = "running"]
    <2>1. PICK j \in Calls : j = actor[w].job
      BY AtWork DEF ClaimJob
    <2>2. job[j].status = "queued" /\ job[j] \in JobRow
      BY <1>2, <2>1, Typed DEF Claimable
    <2>3. /\ job'[j] = [job[j] EXCEPT !.status = "running"]
          /\ \A c \in Calls : c # j => job'[c] = job[c]
      BY <1>2, <2>1, Typed
    <2>4. Starts(job'[j], job[j]) /\ job'[j].auth = job[j].auth
      BY <2>2, <2>3 DEF Starts, JobRow
    <2> QED BY <2>2, <2>3, <2>4, RowIsSeen DEF ClaimJob
  <1> QED BY <1>1, <1>2 DEF ClaimJob

LEMMA StatementsPay ==
  ASSUME TypeInv, RailInv, Kept, NEW w \in Workers,
         RunStatement(w) \/ StatementThrows(w) \/ NoteSettlement(w) \/ NoteThrows(w)
  PROVE  Pays
  <1>1. CASE UNCHANGED job
    BY <1>1, Unseen DEF RunStatement, StatementThrows, NoteSettlement, NoteThrows
  <1>2. CASE (RunStatement(w) \/ StatementThrows(w)) /\ ~ UNCHANGED job
    <2>1. /\ actor[w].at \in Trying /\ Working(w) /\ UNCHANGED <<facilitator, earned>>
          /\ job' = [job EXCEPT ![actor[w].job] = TryStatement(w)]
      BY <1>2 DEF RunStatement, StatementThrows, Trying, Working
    <2> QED BY <2>1, TryRewrites, WorkerWrites
  <1>3. CASE (NoteSettlement(w) \/ NoteThrows(w)) /\ ~ UNCHANGED job
    <2>1. /\ actor[w].at \in {"noteCaptured", "recordCharge", "noteRefused", "noteUnsettled"}
          /\ Working(w) /\ UNCHANGED <<facilitator, earned>>
          /\ \/ job' = [job EXCEPT ![actor[w].job] = Noted(RowOf(w), actor[w].at)]
             \/ job' = [job EXCEPT ![actor[w].job] = RecordSettled(RowOf(w))]
      BY <1>3 DEF NoteSettlement, NoteThrows, Working, RowOf
    <2> QED BY <2>1, NotedRewrites, WorkerWrites
  <1> QED BY <1>1, <1>2, <1>3

LEMMA FinishPays == ASSUME TypeInv, RailInv, Kept, NEW a \in Actors, Finish(a) PROVE Pays
  <1>1. PICK j \in Calls : j = actor[a].job /\ job[j].status # "absent" /\ actor[a].at = "finish"
    BY DEF Finish, TypeInv, Explained
  <1>2. CASE UNCHANGED job
    BY <1>2, Unseen DEF Finish
  <1>3. CASE ~ UNCHANGED job
    <2>1. PICK r : r = Fail(job[j], actor[a].mode, actor[a].verdict)
      OBVIOUS
    <2>2. job[j] \in JobRow /\ job' = [job EXCEPT ![j] = r]
      BY <1>1, <2>1, Typed DEF Finish
    <2>3. job'[j] = r /\ \A c \in Calls : c # j => job'[c] = job[c]
      BY <2>2, Typed
    <2>4. job[j].status = "running"
      BY <1>3, <2>1, <2>2, Typed DEF Fail
    <2>5. r.auth = job[j].auth /\ Ends(r, job[j])
      BY <2>1, <2>2, <2>4 DEF Fail, Ends, Live, Terminal, JobRow
    <2> QED BY <1>1, <2>3, <2>5, RowIsSeen DEF Finish
  <1> QED BY <1>2, <1>3

LEMMA PollExpiresPays == ASSUME TypeInv, RailInv, Kept, NEW c \in Calls, PollExpires(c) PROVE Pays
  <1>1. job[c] \in JobRow /\ job'[c] = Expire(job[c]) /\ \A d \in Calls : d # c => job'[d] = job[d]
    BY Typed DEF PollExpires
  <1>2. /\ job'[c].auth = job[c].auth /\ job'[c].status = "expired"
        /\ job'[c].settlement = "not_settled"
    BY <1>1 DEF Expire, JobRow
  <1>3. Ends(job'[c], job[c]) /\ job[c].status # "absent"
    BY <1>2 DEF PollExpires, Ends, Live, Terminal
  <1> QED BY <1>1, <1>2, <1>3, RowIsSeen DEF PollExpires

\* The pipeline ends: the work of a job is done, once.
LEMMA PipelinePays ==
  ASSUME TypeInv, RailInv, NEW w \in Workers, actor[w].at = "reviewing",
         NEW gain \in {"review", "caller_fault", "our_fault"},
         earned' = [earned EXCEPT ![actor[w].job] = gain], UNCHANGED <<job, facilitator>>
  PROVE  Pays
  <1>1. PICK j \in Calls : j = actor[w].job
    BY AtWork
  <1>2. /\ job[j] \in JobRow /\ FitsRow(actor[w], job[j], earned[j])
        /\ RowTells(job[j], earned[j]) /\ job[j].status # "absent"
    BY <1>1, AtWork DEF RowOf
  <1>3. earned[j] = "nothing" /\ LaneOf(j) # "none"
    BY <1>2 DEF FitsRow, LaneOf
  <1>4. \/ job[j].status \in {"running", "expired"}
        \/ job[j].status = "failed" /\ job[j].failure = "timeout"
    <2>1. /\ job[j].status \in {"running", "complete", "failed", "expired"}
          /\ job[j].status = "failed" => job[j].failure = "timeout"
      BY <1>2 DEF FitsRow
    <2>2. job[j].status # "complete"
      BY <1>2, <1>3 DEF RowTells
    <2> QED BY <2>1, <2>2
  <1>5. OutcomeOf(j) \notin Payment!Settled
    BY <1>4 DEF OutcomeOf, Live, Payment!Settled
  <1>6. \A c \in Calls : LaneOf(c)' = LaneOf(c) /\ MoneyOf(c)' = MoneyOf(c) /\ OutcomeOf(c)' = OutcomeOf(c)
    BY DEF LaneOf, MoneyOf, OutcomeOf, Free
  <1>7. Payment!Perform(j, gain)
    BY <1>1, <1>3, <1>5, <1>6 DEF Payment!Perform
  <1> QED BY <1>7 DEF Pays, Payment!PaymentNext, Payment!Worked, Payment!Owing

\* The facilitator hears or decides of one authorization: one job sees it, and
\* all else stays.
LEMMA MoneySeen ==
  ASSUME TypeInv, RailInv, NEW j \in Calls, ~ Free(job[j]), NEW m,
         facilitator' = [facilitator EXCEPT ![job[j].auth] = m], UNCHANGED <<job, earned>>
  PROVE  /\ MoneyOf(j) = facilitator[job[j].auth]
         /\ [c \in Calls |-> MoneyOf(c)]' = [[c \in Calls |-> MoneyOf(c)] EXCEPT ![j] = m]
         /\ \A c \in Calls : LaneOf(c)' = LaneOf(c) /\ OutcomeOf(c)' = OutcomeOf(c)
  <1>1. job[j].auth \in Auths
    BY Typed DEF JobRow, Free
  <1>2. \A c \in Calls : c # j => job[c].auth # job[j].auth
    BY <1>1 DEF RailInv, Held, Holds
  <1>3. MoneyOf(j)' = m /\ \A c \in Calls : c # j => MoneyOf(c)' = MoneyOf(c)
    BY <1>1, <1>2, Typed DEF MoneyOf, Free, JobRow
  <1> QED BY <1>3 DEF LaneOf, OutcomeOf, Free, MoneyOf

LEMMA PostSettlePays == ASSUME TypeInv, RailInv, NEW w \in Workers, PostSettle(w) PROVE Pays
  <1>1. CASE UNCHANGED facilitator
    BY <1>1, Unseen DEF PostSettle
  <1>2. CASE facilitator' = [facilitator EXCEPT ![AuthOf(w)] = "sent"]
    <2>1. PICK j \in Calls : j = actor[w].job
      BY AtWork DEF PostSettle
    <2>2. /\ job[j] \in JobRow /\ FitsRow(actor[w], job[j], earned[j])
          /\ RowTells(job[j], earned[j]) /\ job[j].status # "absent"
      BY <2>1, AtWork DEF PostSettle, RowOf
    <2>3. ~ Free(job[j]) /\ Quiet(job[j]) /\ earned[j] \in Payment!Owing
      BY <2>2 DEF PostSettle, FitsRow, Trying, Payment!Owing
    <2>4. LaneOf(j) = "paid" /\ MoneyOf(j) = "unseen"
      BY <2>2, <2>3 DEF LaneOf, MoneyOf, Quiet
    <2>5. job[j].status # "complete" /\ (job[j].status = "failed" => job[j].failure = "timeout")
      BY <2>2, <2>3 DEF PostSettle, FitsRow, RowTells, Quiet, Captured
    <2>6. OutcomeOf(j) \notin Payment!Settled
      BY <2>2, <2>5 DEF OutcomeOf, Live, Terminal, JobRow, Payment!Settled
    <2>7. Payment!Ask(j)
      BY <1>2, <2>1, <2>3, <2>4, <2>6, MoneySeen DEF Payment!Ask, PostSettle, AuthOf, RowOf
    <2> QED BY <2>7 DEF Pays, Payment!PaymentNext
  <1> QED BY <1>1, <1>2 DEF PostSettle

LEMMA FacilitatorPays ==
  ASSUME TypeInv, RailInv, NEW a \in Auths, Capture(a) \/ Refuse(a) PROVE Pays
  <1>1. PICK m \in {"captured", "refused"} : facilitator' = [facilitator EXCEPT ![a] = m]
    BY DEF Capture, Refuse
  <1>2. facilitator[a] = "sent" /\ UNCHANGED <<job, earned>>
    BY DEF Capture, Refuse
  <1>3. PICK j \in Calls : job[j].auth = a
    BY <1>2 DEF RailInv, Held
  <1>4. ~ Free(job[j])
    BY <1>3, Typed DEF Free
  <1>5. Payment!Answer(j, m)
    BY <1>1, <1>2, <1>3, <1>4, MoneySeen DEF Payment!Answer
  <1> QED BY <1>5 DEF Pays, Payment!PaymentNext

LEMMA CreateJobPays == ASSUME TypeInv, RailInv, Kept, NEW c \in Calls, CreateJob(c) PROVE Pays
  <1>1. CASE UNCHANGED job
    BY <1>1, Unseen DEF CreateJob
  <1>2. CASE ~ UNCHANGED job
    <2>1. PICK row : /\ row = [NoRow EXCEPT !.status = "queued", !.target = call[c].target,
                                           !.auth = call[c].auth,
                                           !.settlement = IF call[c].auth = NoAuth THEN "not_settled"
                                                          ELSE "pending"]
                     /\ job' = [job EXCEPT ![c] = row]
      BY <1>2 DEF CreateJob
    <2>2. job[c] = NoRow
      BY DEF CreateJob, TypeInv, RowAwaitsCall
    <2>3. row.status = "queued" /\ row.settlement # "settled"
      BY <2>1 DEF NoRow
    <2>4. job'[c] = row /\ \A d \in Calls : d # c => job'[d] = job[d]
      BY <2>1, Typed
    <2>5. RowTells(job[c], earned[c])' /\ UNCHANGED <<facilitator, earned>>
      BY DEF Kept, RailInv, RowFits, CreateJob
    <2>6. MoneyOf(c)' = "unseen" /\ MoneyOf(c) = "unseen"
      BY <2>2, <2>3, <2>4, <2>5 DEF RowTells, Quiet, MoneyOf, Free, NoRow
    <2>7. LaneOf(c) = "none" /\ LaneOf(c)' \in {"free", "paid"}
      BY <2>2, <2>3, <2>4 DEF LaneOf, NoRow
    <2>8. OutcomeOf(c) = "open" /\ OutcomeOf(c)' = "open"
      BY <2>2, <2>3, <2>4 DEF OutcomeOf, NoRow, Live
    <2>9. \A d \in Calls : d # c => /\ LaneOf(d)' = LaneOf(d) /\ MoneyOf(d)' = MoneyOf(d)
                                    /\ OutcomeOf(d)' = OutcomeOf(d)
      BY <2>4, <2>5 DEF LaneOf, MoneyOf, OutcomeOf, Free
    <2>10. \A d \in Calls : (job'[d].settlement = "settled") = (job[d].settlement = "settled")
      BY <2>2, <2>3, <2>4 DEF NoRow
    <2>11. PICK l \in {"free", "paid"} : LaneOf(c)' = l
      BY <2>7
    <2>12. Payment!Open(c, l)
      BY <2>5, <2>6, <2>7, <2>8, <2>9, <2>10, <2>11 DEF Payment!Open
    <2> QED BY <2>12 DEF Pays, Payment!PaymentNext
  <1> QED BY <1>1, <1>2

LEMMA NextPays == ASSUME TypeInv, RailInv, Next PROVE Pays
  <1>0. Kept
    BY NextKeeps
  <1>1. ASSUME NEW c \in Calls, NEW a \in Auths \cup {NoAuth}, NEW target \in Targets,
               VerifyAndLookUp(c, a, target)
        PROVE  Pays
    BY <1>1, Unseen DEF VerifyAndLookUp
  <1>2. ASSUME NEW c \in Calls, Handler(c) \/ Lapse(c) \/ PollExpires(c)
        PROVE  Pays
    <2>1. CASE ClaimAuthorization(c) \/ CheckRateLimit(c) \/ Lapse(c)
      BY <2>1, Unseen DEF ClaimAuthorization, CheckRateLimit, Lapse
    <2> QED BY <1>0, <1>2, <2>1, CreateJobPays, PollExpiresPays DEF Handler
  <1>3. ASSUME NEW a \in Auths, Capture(a) \/ Refuse(a)
        PROVE  Pays
    BY <1>3, FacilitatorPays
  <1>4. ASSUME NEW w \in Workers, NEW j \in Calls, StartScheduled(w, j) \/ PickUpOrphan(w, j)
        PROVE  Pays
    BY <1>4, Unseen DEF StartScheduled, PickUpOrphan
  <1>5. ASSUME NEW w \in Workers, Worker(w) \/ SettleThrows(w)
        PROVE  Pays
    <2>1. CASE \E mode \in CallerFault \cup OurFault : PipelineThrows(w, mode)
      BY <2>1, PipelinePays DEF PipelineThrows
    <2>2. CASE PipelineReturns(w)
      BY <2>2, PipelinePays DEF PipelineReturns
    <2>3. CASE SettleThrows(w) \/ SettleAnswered(w) \/ DecideFailure(w)
      BY <2>3, Unseen DEF SettleThrows, SettleAnswered, DecideFailure
    <2>4. CASE ClaimJob(w) \/ PostSettle(w) \/ RunStatement(w) \/ NoteSettlement(w)
      BY <1>0, <2>4, ClaimJobPays, PostSettlePays, StatementsPay
    <2> QED BY <1>5, <2>1, <2>2, <2>3, <2>4 DEF Worker
  <1>6. ASSUME NEW t \in Crons, NEW j \in Calls, SelectStuck(t, j)
        PROVE  Pays
    BY <1>6, Unseen DEF SelectStuck
  <1>7. ASSUME NEW a \in Actors, Finish(a) \/ ActorDies(a)
        PROVE  Pays
    <2>1. CASE ActorDies(a)
      BY <2>1, Unseen DEF ActorDies
    <2> QED BY <1>0, <1>7, <2>1, FinishPays
  <1>8. ASSUME NEW c \in Calls, CallDies(c) \/ ScheduleLost(c)
        PROVE  Pays
    BY <1>8, Unseen DEF CallDies, ScheduleLost
  <1>9. ASSUME NEW w \in Workers, StatementThrows(w) \/ NoteThrows(w) \/ ConfigThrows(w)
        PROVE  Pays
    <2>1. CASE ConfigThrows(w)
      BY <2>1, Unseen DEF ConfigThrows
    <2> QED BY <1>0, <1>9, <2>1, StatementsPay
  <1> QED BY <1>1, <1>2, <1>3, <1>4, <1>5, <1>6, <1>7, <1>8, <1>9 DEF Next, Fault

LEMMA PaymentStarts == Init => Payment!PaymentInit
  <1> SUFFICES ASSUME Init PROVE Payment!PaymentInit
    OBVIOUS
  <1>1. ASSUME NEW j \in Calls
        PROVE  /\ LaneOf(j) = "none" /\ MoneyOf(j) = "unseen" /\ OutcomeOf(j) = "open"
               /\ job[j].settlement # "settled"
    <2>1. job[j].status = "absent" /\ job[j].auth = NoAuth /\ job[j].settlement = "pending"
      BY DEF Init, NoRow
    <2> QED BY <2>1 DEF LaneOf, MoneyOf, OutcomeOf, Free
  <1> QED BY <1>1 DEF Init, Payment!PaymentInit

\* Every reachable state of the rail has its types, whatever happens.
THEOREM X402TypeCorrect == Spec => []TypeOK
  <1>1. TypeInv /\ RailInv => TypeOK
    BY DEF TypeInv
  <1> QED BY InvHolds, <1>1, PTL

\* The settlement column never says what the chain does not: a recorded receipt
\* is of a captured authorization, and a job that failed for another reason than
\* the cron's timeout and says not settled was not charged.
THEOREM SettlementStaysTrue == Spec => []SettlementIsTrue
  <1>1. ASSUME TypeInv, RailInv PROVE SettlementIsTrue
    <2>1. SettledIsCaptured
      BY <1>1 DEF RailInv, RowFits, RowTells, SettledIsCaptured
    <2>2. UnsettledIsUncharged
      <3> SUFFICES ASSUME NEW c \in Calls, job[c].status = "failed", job[c].failure # "timeout",
                          job[c].settlement = "not_settled"
                   PROVE  ~ Captured(job[c])
        BY DEF UnsettledIsUncharged
      <3> QED BY <1>1 DEF RailInv, RowFits, RowTells, Quiet, Captured
    <2> QED BY <2>1, <2>2 DEF SettlementIsTrue
  <1> QED BY InvHolds, <1>1, PTL

\* Nobody is asked for money before the work was done or spoilt by the caller,
\* no authorization pays twice, and a paid review is complete with its receipt.
THEOREM WorkStaysPaid == Spec => []WorkIsPaid
  <1>1. ASSUME TypeInv, RailInv PROVE WorkIsPaid
    <2>1. ASSUME NEW c \in Calls, ~ Free(job[c])
          PROVE  /\ facilitator[job[c].auth] # "unseen" => earned[c] \in {"review", "caller_fault"}
                 /\ \A d \in Calls \ {c} : job[d].auth # job[c].auth
      <3>1. job[c].auth \in Auths
        BY <1>1, <2>1, Typed DEF JobRow, Free
      <3>2. facilitator[job[c].auth] # "unseen" => earned[c] \in {"review", "caller_fault"}
        BY <1>1, <2>1 DEF RailInv, RowFits, RowTells, Quiet
      <3>3. \A d \in Calls \ {c} : job[d].auth # job[c].auth
        BY <1>1, <3>1 DEF RailInv, Held, Holds
      <3> QED BY <3>2, <3>3
    <2>2. CompleteIsPaid
      BY <1>1 DEF RailInv, RowFits, RowTells, CompleteIsPaid
    <2> QED BY <2>1, <2>2 DEF WorkIsPaid, ChargedOnlyIfEarned
  <1> QED BY InvHolds, <1>1, PTL

\* However the calls of a wallet race, one row stands for a commit.
THEOREM OneJobEachTarget == Spec => []OneJobPerTarget
  <1>1. TypeInv /\ RailInv => OneJobPerTarget
    BY DEF RailInv
  <1> QED BY InvHolds, <1>1, PTL

\* No late worker, cron or poller changes how a job ended, and nothing but the
\* expiry of the window takes a receipt back.
THEOREM OutcomesAreKept == Spec => OutcomeIsKept
  <1>1. ASSUME TypeInv, RailInv, [Next]_vars
        PROVE  [\A c \in Calls :
                   /\ job[c].status \in Terminal =>
                          job'[c].status = job[c].status /\ job'[c].failure = job[c].failure
                   /\ job[c].settlement = "settled" =>
                          job'[c].settlement = "settled" \/ job'[c].status = "expired"]_vars
    BY <1>1, StepKeeps DEF Kept, RowsOutlive, Outlives
  <1> QED BY InvHolds, <1>1, PTL DEF Spec, OutcomeIsKept

\* The rail implements deferred payment: with every interleaving of calls,
\* workers, ticks, polls and faults, each step does to a job what one step of
\* the abstract payment may do, or nothing.
THEOREM PaymentIsImplemented == Spec => PaymentPromise
  <1>1. ASSUME TypeInv, RailInv, [Next]_vars
        PROVE  [Payment!PaymentNext]_(Payment!paymentVars)
    <2>1. CASE Next
      BY <1>1, <2>1, NextPays DEF Pays
    <2>2. CASE UNCHANGED vars
      BY <2>2, Unseen DEF Pays, vars
    <2> QED BY <1>1, <2>1, <2>2
  <1> QED BY PaymentStarts, InvHolds, <1>1, PTL DEF Spec, PaymentPromise, Payment!PaymentSpec
=============================================================================
