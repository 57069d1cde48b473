------------------------- MODULE ChannelRail_proofs -------------------------
(***************************************************************************)
(* Proofs about the prepaid rail, for any number of calls, keys, workers,  *)
(* ticks, deposits and faults.                                             *)
(*                                                                         *)
(* The argument rests on TypeInv: types, who may be where, and what a      *)
(* process knows about the row it is about to write.  RowLifecycle states  *)
(* how one step may change a row.  On these rest MoneyInv (the ledger and  *)
(* the rows that point into it), the invariants of the races (keys,        *)
(* challenges, reviewers, refunds) and the step simulation of the ledger.  *)
(***************************************************************************)
EXTENDS ChannelRail, TLAPS

-----------------------------------------------------------------------------
(* Types, and who may be where.                                            *)

\* A call that has not inserted its job yet: its row does not exist.
Inserting == {"idle", "authenticated", "admitted", "fresh", "redeemed"}
RowAwaitsCall == \A c \in Calls : call[c].at \in Inserting => job[c] = NoRow

\* Whoever is busy works on a job.
BusyHasJob == \A a \in Actors : actor[a].at # "idle" => actor[a].job \in Calls

\* Whoever left the start presented a challenge.
Presented == \A c \in Calls : call[c].at # "idle" => call[c].challenge \in Challenges

\* Past the gate a call carries the price it will be charged.
Charging == {"admitted", "fresh", "redeemed", "created"}
Priced == ~ legacyPartner => \A c \in Calls : call[c].at \in Charging => call[c].price # 0

\* A job's links point into the ledger.
Linked ==
    \A j \in Calls : job[j].debit \in 0 .. Len(payments) /\ job[j].refund \in 0 .. Len(payments)

\* Only a failed job carries a failure mode of the pipeline.
FailureExplained == \A j \in Calls : job[j].failure \in FailureModes => job[j].status = "failed"

\* Whoever is about to credit a job found a debit to give back.
RefundDue(row) == row.status = "failed" /\ row.failure \in Refundable /\ row.debit # 0
CreditsWhatIsDue ==
    \A a \in Actors : actor[a].at = "crediting" => RefundDue(job[actor[a].job])

TypeInv ==
    /\ TypeOK
    /\ RowAwaitsCall
    /\ BusyHasJob
    /\ Presented
    /\ Priced
    /\ Linked
    /\ FailureExplained
    /\ CreditsWhatIsDue

LEMMA TypeInit == Init => TypeInv
  <1> SUFFICES ASSUME Init PROVE TypeInv
    OBVIOUS
  <1> USE ChannelAssumption DEF Init
  <1>1. TypeOK
    BY DEF TypeOK, NoRow, NewCall, Idle, JobRow, JobStatus, Live, Terminal, CallState, CallAt,
           Answered, ActorState, ActorAt, PaymentRow, Actors
  <1>2. RowAwaitsCall /\ Linked /\ FailureExplained
    BY DEF RowAwaitsCall, Linked, FailureExplained, FailureModes, Refundable, NoRow
  <1>3. BusyHasJob /\ Presented /\ Priced /\ CreditsWhatIsDue
    BY DEF BusyHasJob, Presented, Priced, Charging, CreditsWhatIsDue, Idle, NewCall
  <1> QED BY <1>1, <1>2, <1>3 DEF TypeInv

\* A deposit, drawdown or refund extends the ledger and moves no entry.
LEMMA LedgerGrows ==
  ASSUME NEW p \in PaymentRow, payments \in Seq(PaymentRow), payments' = Append(payments, p)
  PROVE  /\ payments' \in Seq(PaymentRow)
         /\ Len(payments) \in Nat /\ Len(payments) + 1 \in Nat
         /\ Len(payments') = Len(payments) + 1
         /\ payments'[Len(payments) + 1] = p
         /\ \A i \in 1 .. Len(payments) : payments'[i] = payments[i]
  OBVIOUS

\* One row of review_jobs is written.
OnlyRow(j, r) == job' = [job EXCEPT ![j] = r]

LEMMA WriteRow ==
  ASSUME job \in [Calls -> JobRow], NEW j \in Calls, NEW r \in JobRow, OnlyRow(j, r)
  PROVE  /\ job' \in [Calls -> JobRow]
         /\ job'[j] = r
         /\ \A k \in Calls \ {j} : job'[k] = job[k]
  BY DEF OnlyRow

\* A handler that moves on carries its request and its price along.
SameRequest(c) ==
    /\ call'[c].price = call[c].price
    /\ call'[c].key = call[c].key
    /\ call'[c].challenge = call[c].challenge

MovesTo(c, at) ==
    /\ call' \in [Calls -> CallState]
    /\ call'[c].at = at
    /\ \A d \in Calls : SameRequest(d)
    /\ \A d \in Calls \ {c} : call'[d] = call[d]

LEMMA MoveCall ==
  ASSUME call \in [Calls -> CallState], NEW c \in Calls, NEW at \in CallAt, Goto(c, at)
  PROVE  MovesTo(c, at)
  <1> DEFINE s == [call[c] EXCEPT !.at = at]
  <1>1. s \in CallState /\ s.at = at /\ s.price = call[c].price /\ s.key = call[c].key
        /\ s.challenge = call[c].challenge
    BY DEF CallState, CallAt
  <1>2. call' = [call EXCEPT ![c] = s]
    BY DEF Goto
  <1> QED BY <1>1, <1>2 DEF MovesTo, SameRequest

LEMMA OnlyCallMoves ==
  ASSUME TypeInv, NEW c \in Calls, NEW at \in CallAt, Goto(c, at), call[c].at # "idle",
         at \in Inserting => call[c].at \in Inserting,
         at \in Charging => call[c].at \in Charging,
         UNCHANGED <<legacyPartner, balance, payments, job, actor>>,
         used' \subseteq Challenges, scheduled' \subseteq Calls, faults' \in 0 .. MaxFaults
  PROVE  TypeInv'
  <1> USE DEF TypeInv
  <1>1. call \in [Calls -> CallState]
    BY DEF TypeOK
  <1>2. MovesTo(c, at)
    BY <1>1, MoveCall
  <1>3. TypeOK'
    BY <1>2 DEF TypeOK, MovesTo
  <1>4. RowAwaitsCall'
    BY <1>2 DEF RowAwaitsCall, MovesTo
  <1>5. Presented' /\ Priced'
    BY <1>1, <1>2 DEF Presented, Priced, MovesTo, SameRequest
  <1>6. BusyHasJob' /\ Linked' /\ FailureExplained' /\ CreditsWhatIsDue'
    BY DEF BusyHasJob, Linked, FailureExplained, CreditsWhatIsDue
  <1> QED BY <1>3, <1>4, <1>5, <1>6

\* An instance that becomes s.
LEMMA MoveActor ==
  ASSUME actor \in [Actors -> ActorState], BusyHasJob,
         NEW a \in Actors, NEW s \in ActorState, actor' = [actor EXCEPT ![a] = s],
         s.at # "idle" => s.job \in Calls
  PROVE  /\ actor' \in [Actors -> ActorState]
         /\ actor'[a] = s
         /\ \A b \in Actors \ {a} : actor'[b] = actor[b]
         /\ BusyHasJob'
  BY DEF BusyHasJob

LEMMA StepActor ==
  ASSUME actor \in [Actors -> ActorState], BusyHasJob,
         NEW a \in Actors, NEW at \in ActorAt, actor[a].at # "idle", Step(a, at)
  PROVE  /\ actor' \in [Actors -> ActorState]
         /\ actor'[a].at = at /\ actor'[a].job = actor[a].job /\ actor'[a].mode = actor[a].mode
         /\ \A b \in Actors \ {a} : actor'[b] = actor[b]
         /\ BusyHasJob'
  <1> DEFINE s == [actor[a] EXCEPT !.at = at]
  <1>1. s \in ActorState /\ s.job \in Calls /\ s.at = at /\ s.job = actor[a].job
        /\ s.mode = actor[a].mode
    BY DEF ActorState, ActorAt, BusyHasJob
  <1>2. actor' = [actor EXCEPT ![a] = s]
    BY DEF Step
  <1> HIDE DEF s
  <1> QED BY <1>1, <1>2, MoveActor

LEMMA BecomeActor ==
  ASSUME actor \in [Actors -> ActorState], BusyHasJob, NEW a \in Actors, NEW at \in ActorAt,
         NEW j \in Calls, NEW mode \in FailureModes \cup {"none"}, Become(a, at, j, mode)
  PROVE  /\ actor' \in [Actors -> ActorState]
         /\ actor'[a].at = at /\ actor'[a].job = j /\ actor'[a].mode = mode
         /\ \A b \in Actors \ {a} : actor'[b] = actor[b]
         /\ BusyHasJob'
  <1> DEFINE s == [at |-> at, job |-> j, mode |-> mode]
  <1>1. s \in ActorState /\ s.job = j /\ s.at = at /\ s.mode = mode
    BY DEF ActorState
  <1>2. actor' = [actor EXCEPT ![a] = s]
    BY DEF Become
  <1> HIDE DEF s
  <1> QED BY <1>1, <1>2, MoveActor

LEMMA RestActor ==
  ASSUME actor \in [Actors -> ActorState], BusyHasJob, NEW a \in Actors, Rest(a)
  PROVE  /\ actor' \in [Actors -> ActorState]
         /\ actor'[a].at = "idle" /\ actor'[a].job = "none"
         /\ \A b \in Actors \ {a} : actor'[b] = actor[b]
         /\ BusyHasJob'
  <1>1. Idle \in ActorState /\ Idle.at = "idle" /\ Idle.job = "none"
    BY DEF Idle, ActorState, ActorAt
  <1> QED BY <1>1, MoveActor DEF Rest

\* Nobody starts to credit a job in this step.
NobodyTurnsToCredit ==
    \A b \in Actors : actor'[b].at = "crediting" => actor'[b] = actor[b]

LEMMA OnlyActorMoves ==
  ASSUME TypeInv, actor' \in [Actors -> ActorState], BusyHasJob', NobodyTurnsToCredit,
         UNCHANGED <<legacyPartner, balance, payments, used, job, call>>,
         scheduled' \subseteq Calls, faults' \in 0 .. MaxFaults
  PROVE  TypeInv'
  <1> USE DEF TypeInv
  <1>1. TypeOK'
    BY DEF TypeOK
  <1>2. CreditsWhatIsDue'
    BY DEF CreditsWhatIsDue, NobodyTurnsToCredit
  <1>3. RowAwaitsCall' /\ Presented' /\ Priced' /\ Linked' /\ FailureExplained'
    BY DEF RowAwaitsCall, Presented, Priced, Linked, FailureExplained
  <1> QED BY <1>1, <1>2, <1>3

\* A statement that writes one row, neither its links nor, once the job has
\* failed, anything else, while a call or an instance moves on.
Advances(j, r) ==
    /\ job[j].status \notin {"absent", "failed"}
    /\ r.debit = job[j].debit /\ r.refund = job[j].refund
    /\ r.failure \in FailureModes => r.status = "failed" \/ r.failure = job[j].failure

CallsPastCharging ==
    \A d \in Calls :
        \/ call'[d] = call[d]
        \/ /\ call'[d].at \notin Inserting \cup Charging
           /\ call[d].at # "idle"
           /\ SameRequest(d)

LEMMA OnlyRowChanges ==
  ASSUME TypeInv, NEW j \in Calls, NEW r \in JobRow, OnlyRow(j, r), Advances(j, r),
         actor' \in [Actors -> ActorState], BusyHasJob', NobodyTurnsToCredit,
         call' \in [Calls -> CallState], CallsPastCharging,
         UNCHANGED <<legacyPartner, balance, payments, used, scheduled>>,
         faults' \in 0 .. MaxFaults
  PROVE  TypeInv'
  <1> USE DEF TypeInv
  <1>1. job \in [Calls -> JobRow]
    BY DEF TypeOK
  <1>2. /\ job' \in [Calls -> JobRow]
        /\ job'[j] = r
        /\ \A k \in Calls \ {j} : job'[k] = job[k]
    BY <1>1, WriteRow
  <1>3. TypeOK'
    BY <1>2 DEF TypeOK
  <1>4. RowAwaitsCall'
    BY <1>2 DEF RowAwaitsCall, NoRow, CallsPastCharging, Advances
  <1>5. Presented' /\ Priced'
    BY DEF Presented, Priced, CallsPastCharging, SameRequest
  <1>6. Linked'
    BY <1>2 DEF Linked, Advances
  <1>7. FailureExplained'
    BY <1>2 DEF FailureExplained, Advances
  <1>8. CreditsWhatIsDue'
    BY <1>2 DEF Advances, CreditsWhatIsDue, RefundDue, NobodyTurnsToCredit, BusyHasJob
  <1> QED BY <1>3, <1>4, <1>5, <1>6, <1>7, <1>8

LEMMA TypeNext == TypeInv /\ [Next]_vars => TypeInv'
  <1> SUFFICES ASSUME TypeInv, [Next]_vars PROVE TypeInv'
    OBVIOUS
  <1> USE ChannelAssumption
  <1>0. /\ call \in [Calls -> CallState] /\ actor \in [Actors -> ActorState]
        /\ job \in [Calls -> JobRow] /\ payments \in Seq(PaymentRow)
        /\ BusyHasJob /\ Workers \subseteq Actors /\ Crons \subseteq Actors
        /\ legacyPartner \in BOOLEAN /\ balance \in Nat /\ used \subseteq Challenges
        /\ scheduled \subseteq Calls /\ faults \in 0 .. MaxFaults
    BY DEF TypeInv, TypeOK, Actors
  <1>1. ASSUME NEW c \in Calls, NEW ch \in Challenges, NEW key \in Keys \cup {NoKey},
               Authenticate(c, ch, key)
        PROVE  TypeInv'
    <2> DEFINE s == [at |-> IF Unredeemed(ch) THEN "authenticated" ELSE "rejected",
                     challenge |-> ch, key |-> key, price |-> 0]
    <2>1. s \in CallState /\ s.at \in {"authenticated", "rejected"} /\ s.challenge \in Challenges
          /\ call' = [call EXCEPT ![c] = s]
      BY <1>1 DEF Authenticate, CallState, CallAt, Answered
    <2> HIDE DEF s
    <2>2. TypeOK'
      BY <1>1, <1>0, <2>1 DEF Authenticate, TypeOK, TypeInv
    <2>3. RowAwaitsCall' /\ Presented' /\ Priced'
      BY <1>1, <1>0, <2>1 DEF Authenticate, TypeInv, RowAwaitsCall, Inserting, Presented, Priced, Charging
    <2>4. BusyHasJob' /\ Linked' /\ FailureExplained' /\ CreditsWhatIsDue'
      BY <1>1 DEF Authenticate, TypeInv, BusyHasJob, Linked, FailureExplained, CreditsWhatIsDue
    <2> QED BY <2>2, <2>3, <2>4 DEF TypeInv
  <1>2. ASSUME NEW c \in Calls, NEW price \in Amounts, DecideGate(c, price)
        PROVE  TypeInv'
    <2>1. CASE ~ legacyPartner /\ GateCovers(price)
      <3> DEFINE s == [call[c] EXCEPT !.at = "admitted", !.price = price]
      <3>1. /\ s \in CallState /\ s.at = "admitted" /\ s.price = price /\ price # 0
            /\ s.challenge = call[c].challenge
        BY <1>0 DEF CallState, CallAt
      <3>2. call' = [call EXCEPT ![c] = s]
        BY <1>2, <2>1 DEF DecideGate
      <3> HIDE DEF s
      <3>3. TypeOK'
        BY <1>2, <1>0, <3>1, <3>2 DEF DecideGate, TypeOK, TypeInv
      <3>4. RowAwaitsCall' /\ Presented' /\ Priced'
        BY <1>2, <1>0, <3>1, <3>2 DEF DecideGate, TypeInv, RowAwaitsCall, Inserting, Presented, Priced
      <3>5. BusyHasJob' /\ Linked' /\ FailureExplained' /\ CreditsWhatIsDue'
        BY <1>2 DEF DecideGate, TypeInv, BusyHasJob, Linked, FailureExplained, CreditsWhatIsDue
      <3> QED BY <3>3, <3>4, <3>5 DEF TypeInv
    <2>2. CASE legacyPartner
      <3>1. Goto(c, "admitted")
        BY <1>2, <2>2 DEF DecideGate
      <3>2. MovesTo(c, "admitted")
        BY <1>0, <3>1, MoveCall DEF CallAt
      <3>3. TypeOK'
        BY <1>2, <3>2 DEF DecideGate, TypeOK, TypeInv, MovesTo
      <3>4. RowAwaitsCall' /\ Presented' /\ Priced'
        BY <1>2, <1>0, <2>2, <3>2 DEF DecideGate, TypeInv, MovesTo, SameRequest, RowAwaitsCall, Inserting,
                              Presented, Priced
      <3>5. BusyHasJob' /\ Linked' /\ FailureExplained' /\ CreditsWhatIsDue'
        BY <1>2 DEF DecideGate, TypeInv, BusyHasJob, Linked, FailureExplained, CreditsWhatIsDue
      <3> QED BY <3>3, <3>4, <3>5 DEF TypeInv
    <2>3. CASE ~ legacyPartner /\ ~ GateCovers(price)
      BY <1>2, <1>0, <2>3, OnlyCallMoves DEF DecideGate, CallAt, Answered, Inserting, Charging
    <2> QED BY <2>1, <2>2, <2>3
  <1>3. ASSUME NEW c \in Calls, FindExisting(c)
        PROVE  TypeInv'
    BY <1>3, <1>0, OnlyCallMoves DEF FindExisting, CallAt, Answered, Inserting, Charging
  <1>4. ASSUME NEW c \in Calls, ClaimChallenge(c)
        PROVE  TypeInv'
    <2>1. used' \subseteq Challenges
      BY <1>4, <1>0 DEF ClaimChallenge, TypeInv, Presented
    <2> QED
      BY <1>4, <1>0, <2>1, OnlyCallMoves DEF ClaimChallenge, CallAt, Answered, Inserting, Charging
  <1>5. ASSUME NEW c \in Calls, CreateJob(c)
        PROVE  TypeInv'
    <2>1. CASE Conflicts(call[c].key)
      BY <1>5, <1>0, <2>1, OnlyCallMoves DEF CreateJob, CallAt, Answered, Inserting, Charging
    <2>2. CASE ~ Conflicts(call[c].key)
      <3> DEFINE r == NewJob(call[c].key)
      <3>1. /\ r \in JobRow /\ r.debit = 0 /\ r.refund = 0 /\ r.failure \notin FailureModes
            /\ job[c] = NoRow
        BY <1>5, <1>0 DEF CreateJob, NewJob, NoRow, CallState, JobRow, JobStatus, FailureModes, Refundable,
                      TypeInv, RowAwaitsCall, Inserting
      <3>2. OnlyRow(c, r) /\ Goto(c, "created")
        BY <1>5, <2>2 DEF CreateJob, OnlyRow
      <3>3. MovesTo(c, "created")
        BY <1>0, <3>2, MoveCall DEF CallAt
      <3> HIDE DEF r
      <3>4. job' \in [Calls -> JobRow] /\ job'[c] = r /\ (\A d \in Calls \ {c} : job'[d] = job[d])
        BY <1>0, <3>1, <3>2, WriteRow
      <3>5. TypeOK'
        BY <1>5, <3>3, <3>4 DEF CreateJob, TypeOK, TypeInv, MovesTo
      <3>6. RowAwaitsCall'
        BY <3>3, <3>4 DEF TypeInv, RowAwaitsCall, Inserting, MovesTo
      <3>7. Presented' /\ Priced'
        BY <1>5, <1>0, <3>3 DEF CreateJob, TypeInv, Presented, Priced, Charging, MovesTo, SameRequest
      <3>8. BusyHasJob' /\ Linked' /\ FailureExplained'
        BY <1>5, <1>0, <3>1, <3>4 DEF CreateJob, TypeInv, BusyHasJob, Linked, FailureExplained
      <3>9. CreditsWhatIsDue'
        BY <1>5, <3>1, <3>4 DEF CreateJob, TypeInv, BusyHasJob, CreditsWhatIsDue, RefundDue, NoRow
      <3> QED BY <3>5, <3>6, <3>7, <3>8, <3>9 DEF TypeInv
    <2> QED BY <2>1, <2>2
  <1>6. ASSUME NEW c \in Calls, DebitAndQueue(c)
        PROVE  TypeInv'
    <2> DEFINE p == Payment("drawdown", call[c].price, NoTx)
               r == [job[c] EXCEPT !.status = "queued", !.debit = Len(payments) + 1]
    <2>1. p \in PaymentRow /\ balance' \in Nat
      BY <1>6, <1>0 DEF DebitAndQueue, DebitCovers, Payment, TypeInv, TypeOK, Priced, Charging, PaymentRow,
                    CallState
    <2>2. /\ payments' \in Seq(PaymentRow) /\ Len(payments') = Len(payments) + 1
          /\ Len(payments) \in Nat /\ Len(payments) + 1 \in Nat
      BY <1>6, <1>0, <2>1, LedgerGrows DEF DebitAndQueue
    <2>3. MovesTo(c, "billed")
      BY <1>6, <1>0, MoveCall DEF DebitAndQueue, CallAt
    <2>4. /\ r \in JobRow /\ r.debit = Len(payments) + 1 /\ r.refund = job[c].refund
          /\ r.failure = job[c].failure
      <3>1. job[c] \in JobRow
        BY <1>0
      <3> QED BY <2>2, <3>1 DEF JobRow, JobStatus, Live, Terminal
    <2>5. OnlyRow(c, r)
      BY <1>6 DEF DebitAndQueue, OnlyRow
    <2> HIDE DEF r
    <2>6. job' \in [Calls -> JobRow] /\ job'[c] = r /\ (\A d \in Calls \ {c} : job'[d] = job[d])
      BY <1>0, <2>4, <2>5, WriteRow
    <2>7. TypeOK'
      BY <1>6, <2>1, <2>2, <2>3, <2>6 DEF DebitAndQueue, TypeInv, TypeOK, MovesTo
    <2>8. Linked'
      BY <1>6, <2>2, <2>4, <2>6 DEF TypeInv, Linked
    <2>9. FailureExplained' /\ BusyHasJob'
      BY <1>6, <2>4, <2>6 DEF DebitAndQueue, TypeInv, FailureExplained, BusyHasJob
    <2>10. CreditsWhatIsDue'
      BY <1>6, <2>4, <2>6 DEF DebitAndQueue, TypeInv, BusyHasJob, CreditsWhatIsDue, RefundDue
    <2>11. RowAwaitsCall'
      BY <2>3, <2>6 DEF TypeInv, RowAwaitsCall, Inserting, MovesTo
    <2>12. Presented' /\ Priced'
      BY <1>6, <1>0, <2>3 DEF DebitAndQueue, TypeInv, Presented, Priced, Charging, MovesTo, SameRequest
    <2> QED BY <2>7, <2>8, <2>9, <2>10, <2>11, <2>12 DEF TypeInv
  <1>7. ASSUME NEW c \in Calls, DebitRefused(c)
        PROVE  TypeInv'
    BY <1>7, <1>0, OnlyCallMoves DEF DebitRefused, CallAt, Answered, Inserting, Charging
  <1>8. ASSUME NEW c \in Calls, FailBilling(c)
        PROVE  TypeInv'
    <2> DEFINE r == [job[c] EXCEPT !.status = "failed",
                             !.failure = "insufficient_channel_balance"]
    <2>1. MovesTo(c, "rejected")
      BY <1>8, <1>0, MoveCall DEF FailBilling, CallAt, Answered
    <2>2. CASE job[c].status = "billing_pending"
      <3>1. r \in JobRow /\ Advances(c, r)
        BY <1>0, <2>2 DEF JobRow, JobStatus, Live, Terminal, Advances
      <3>2. OnlyRow(c, r)
        BY <1>8, <2>2 DEF FailBilling, OnlyRow
      <3> HIDE DEF r
      <3>3. call' \in [Calls -> CallState] /\ CallsPastCharging
        BY <1>8, <2>1 DEF FailBilling, MovesTo, CallsPastCharging, SameRequest, Inserting, Charging
      <3>4. actor' \in [Actors -> ActorState] /\ BusyHasJob' /\ NobodyTurnsToCredit
        BY <1>8, <1>0 DEF FailBilling, BusyHasJob, NobodyTurnsToCredit
      <3>5. UNCHANGED <<legacyPartner, balance, payments, used, scheduled, faults>>
        BY <1>8 DEF FailBilling
      <3> QED BY <1>0, <3>1, <3>2, <3>3, <3>4, <3>5, OnlyRowChanges
    <2>3. CASE job[c].status # "billing_pending"
      <3>1. UNCHANGED job
        BY <1>8, <2>3 DEF FailBilling
      <3> QED BY <1>8, <1>0, <3>1, OnlyCallMoves DEF FailBilling, CallAt, Answered, Inserting, Charging
    <2> QED BY <2>2, <2>3
  <1>9. ASSUME NEW c \in Calls, QueueUnbilled(c)
        PROVE  TypeInv'
    <2> DEFINE r == [job[c] EXCEPT !.status = "queued"]
    <2>1. MovesTo(c, "billed")
      BY <1>9, <1>0, MoveCall DEF QueueUnbilled, CallAt, Answered
    <2>2. CASE job[c].status = "billing_pending"
      <3>1. r \in JobRow /\ Advances(c, r)
        BY <1>0, <2>2 DEF JobRow, JobStatus, Live, Terminal, Advances
      <3>2. OnlyRow(c, r)
        BY <1>9, <2>2 DEF QueueUnbilled, OnlyRow
      <3> HIDE DEF r
      <3>3. call' \in [Calls -> CallState] /\ CallsPastCharging
        BY <1>9, <2>1 DEF QueueUnbilled, MovesTo, CallsPastCharging, SameRequest, Inserting, Charging
      <3>4. actor' \in [Actors -> ActorState] /\ BusyHasJob' /\ NobodyTurnsToCredit
        BY <1>9, <1>0 DEF QueueUnbilled, BusyHasJob, NobodyTurnsToCredit
      <3>5. UNCHANGED <<legacyPartner, balance, payments, used, scheduled, faults>>
        BY <1>9 DEF QueueUnbilled
      <3> QED BY <1>0, <3>1, <3>2, <3>3, <3>4, <3>5, OnlyRowChanges
    <2> QED BY <1>9, <2>2 DEF QueueUnbilled
  <1>10. ASSUME NEW c \in Calls, ScheduleWorker(c)
        PROVE  TypeInv'
    BY <1>10, <1>0, OnlyCallMoves DEF ScheduleWorker, CallAt, Answered, Inserting, Charging
  <1>11. ASSUME NEW c \in Calls, CallDies(c)
        PROVE  TypeInv'
    BY <1>11, <1>0, OnlyCallMoves DEF CallDies, CallAt, Answered, Inserting, Charging
  <1>12. ASSUME NEW w \in Workers, NEW j \in Calls, StartScheduled(w, j)
        PROVE  TypeInv'
    BY <1>12, <1>0, BecomeActor, OnlyActorMoves
    DEF StartScheduled, NobodyTurnsToCredit, ActorAt, BusyHasJob
  <1>13. ASSUME NEW w \in Workers, NEW j \in Calls, PickUpOrphan(w, j)
        PROVE  TypeInv'
    BY <1>13, <1>0, BecomeActor, OnlyActorMoves
    DEF PickUpOrphan, NobodyTurnsToCredit, ActorAt, BusyHasJob
  <1>14. ASSUME NEW t \in Crons, NEW j \in Calls, SelectStuck(t, j)
        PROVE  TypeInv'
    BY <1>14, <1>0, BecomeActor, OnlyActorMoves
    DEF SelectStuck, NobodyTurnsToCredit, ActorAt, BusyHasJob, FailureModes, Refundable
  <1>15. ASSUME NEW w \in Workers, NEW mode \in FailureModes, PipelineThrows(w, mode)
        PROVE  TypeInv'
    <2>1. actor[w].job \in Calls
      BY <1>15, <1>0 DEF PipelineThrows, BusyHasJob
    <2> QED
      BY <1>15, <1>0, <2>1, BecomeActor, OnlyActorMoves DEF PipelineThrows, NobodyTurnsToCredit, ActorAt
  <1>16. ASSUME NEW w \in Workers, PipelineReturns(w)
        PROVE  TypeInv'
    BY <1>16, <1>0, StepActor, OnlyActorMoves DEF PipelineReturns, NobodyTurnsToCredit, ActorAt
  <1>17. ASSUME NEW a \in Actors, ActorDies(a)
        PROVE  TypeInv'
    BY <1>17, <1>0, RestActor, OnlyActorMoves DEF ActorDies, NobodyTurnsToCredit
  <1>18. ASSUME NEW j \in Calls, ScheduleLost(j)
        PROVE  TypeInv'
    BY <1>18, <1>0, OnlyActorMoves DEF ScheduleLost, NobodyTurnsToCredit, BusyHasJob
  <1>19. ASSUME NEW a \in Actors, CheckRefund(a)
        PROVE  TypeInv'
    <2>1. CASE Owes(job[actor[a].job])
      <3>1. Step(a, "crediting") /\ actor[a].job \in Calls
        BY <1>19, <1>0, <2>1 DEF CheckRefund, BusyHasJob
      <3>2. /\ actor' \in [Actors -> ActorState] /\ BusyHasJob' /\ actor'[a].job = actor[a].job
            /\ \A b \in Actors \ {a} : actor'[b] = actor[b]
        BY <1>19, <1>0, <3>1, StepActor DEF CheckRefund, ActorAt
      <3>3. RefundDue(job[actor[a].job])
        BY <2>1, <3>1 DEF Owes, RefundDue, TypeInv, FailureExplained, FailureModes
      <3>4. CreditsWhatIsDue'
        BY <1>19, <3>2, <3>3 DEF CheckRefund, TypeInv, CreditsWhatIsDue
      <3>5. TypeOK'
        BY <1>19, <3>2 DEF CheckRefund, TypeInv, TypeOK
      <3>6. RowAwaitsCall' /\ Presented' /\ Priced' /\ Linked' /\ FailureExplained'
        BY <1>19 DEF CheckRefund, TypeInv, RowAwaitsCall, Presented, Priced, Linked, FailureExplained
      <3> QED BY <3>2, <3>4, <3>5, <3>6 DEF TypeInv
    <2>2. CASE ~ Owes(job[actor[a].job])
      BY <1>19, <1>0, <2>2, RestActor, OnlyActorMoves DEF CheckRefund, NobodyTurnsToCredit
    <2> QED BY <2>1, <2>2
  <1>20. ASSUME NEW w \in Workers, ClaimJob(w)
        PROVE  TypeInv'
    <2>1. PICK j \in Calls : actor[w].job = j
      BY <1>20, <1>0 DEF ClaimJob, BusyHasJob
    <2>2. actor' \in [Actors -> ActorState] /\ BusyHasJob' /\ NobodyTurnsToCredit
      <3>1. CASE Step(w, "reviewing")
        BY <1>20, <1>0, <3>1, StepActor DEF ClaimJob, ActorAt, NobodyTurnsToCredit
      <3>2. CASE Rest(w)
        BY <1>20, <1>0, <3>2, RestActor DEF NobodyTurnsToCredit
      <3> QED BY <1>20, <3>1, <3>2 DEF ClaimJob
    <2> DEFINE r == [job[j] EXCEPT !.status = "running"]
    <2>3. CASE Claimable(j) /\ job' # job
      <3>0. job[j] \in JobRow
        BY <1>0
      <3>1. r \in JobRow /\ Advances(j, r)
        BY <2>3, <3>0 DEF JobRow, JobStatus, Live, Terminal, Advances, Claimable
      <3>2. OnlyRow(j, r)
        BY <1>20, <2>1, <2>3 DEF ClaimJob, OnlyRow
      <3> HIDE DEF r
      <3>3. call' \in [Calls -> CallState] /\ CallsPastCharging
        BY <1>20, <1>0 DEF ClaimJob, CallsPastCharging, SameRequest
      <3>4. UNCHANGED <<legacyPartner, balance, payments, used, scheduled>> /\ faults' \in 0 .. MaxFaults
        BY <1>20, <1>0 DEF ClaimJob
      <3> QED BY <2>2, <3>1, <3>2, <3>3, <3>4, OnlyRowChanges
    <2>4. CASE job' = job
      BY <1>20, <1>0, <2>2, <2>4, OnlyActorMoves DEF ClaimJob
    <2> QED BY <1>20, <2>1, <2>3, <2>4 DEF ClaimJob
  <1>21. ASSUME NEW w \in Workers, Complete(w)
        PROVE  TypeInv'
    <2>1. PICK j \in Calls : actor[w].job = j
      BY <1>21, <1>0 DEF Complete, BusyHasJob
    <2>2. actor' \in [Actors -> ActorState] /\ BusyHasJob' /\ NobodyTurnsToCredit
      BY <1>21, <1>0, RestActor DEF Complete, NobodyTurnsToCredit
    <2> DEFINE r == [job[j] EXCEPT !.status = "complete"]
    <2>3. CASE Completable(j) /\ job' # job
      <3>0. job[j] \in JobRow
        BY <1>0
      <3>1. r \in JobRow /\ Advances(j, r)
        BY <2>3, <3>0 DEF JobRow, JobStatus, Live, Terminal, Advances, Completable
      <3>2. OnlyRow(j, r)
        BY <1>21, <2>1, <2>3 DEF Complete, OnlyRow, Completed
      <3> HIDE DEF r
      <3>3. call' \in [Calls -> CallState] /\ CallsPastCharging
        BY <1>21, <1>0 DEF Complete, CallsPastCharging, SameRequest
      <3>4. UNCHANGED <<legacyPartner, balance, payments, used, scheduled>> /\ faults' \in 0 .. MaxFaults
        BY <1>21, <1>0 DEF Complete
      <3> QED BY <2>2, <3>1, <3>2, <3>3, <3>4, OnlyRowChanges
    <2>4. CASE job' = job
      BY <1>21, <1>0, <2>2, <2>4, OnlyActorMoves DEF Complete
    <2> QED BY <1>21, <2>1, <2>3, <2>4 DEF Complete, Completed
  <1>22. ASSUME NEW w \in Workers, CompleteThrows(w)
        PROVE  TypeInv'
    <2>1. PICK j \in Calls : actor[w].job = j
      BY <1>22, <1>0 DEF CompleteThrows, BusyHasJob
    <2>2. actor' \in [Actors -> ActorState] /\ BusyHasJob' /\ NobodyTurnsToCredit
      BY <1>22, <1>0, <2>1, BecomeActor
      DEF CompleteThrows, ActorAt, FailureModes, Refundable, NobodyTurnsToCredit
    <2> DEFINE r == [job[j] EXCEPT !.status = "complete"]
    <2>3. CASE Completable(j) /\ job' # job
      <3>0. job[j] \in JobRow
        BY <1>0
      <3>1. r \in JobRow /\ Advances(j, r)
        BY <2>3, <3>0 DEF JobRow, JobStatus, Live, Terminal, Advances, Completable
      <3>2. OnlyRow(j, r)
        BY <1>22, <2>1, <2>3 DEF CompleteThrows, OnlyRow, Completed
      <3> HIDE DEF r
      <3>3. call' \in [Calls -> CallState] /\ CallsPastCharging
        BY <1>22, <1>0 DEF CompleteThrows, CallsPastCharging, SameRequest
      <3>4. UNCHANGED <<legacyPartner, balance, payments, used, scheduled>> /\ faults' \in 0 .. MaxFaults
        BY <1>22, <1>0 DEF CompleteThrows
      <3> QED BY <2>2, <3>1, <3>2, <3>3, <3>4, OnlyRowChanges
    <2>4. CASE job' = job
      BY <1>22, <1>0, <2>2, <2>4, OnlyActorMoves DEF CompleteThrows
    <2> QED BY <1>22, <2>1, <2>3, <2>4 DEF CompleteThrows, Completed
  <1>23. ASSUME NEW a \in Actors, MarkFailed(a)
        PROVE  TypeInv'
    <2>1. PICK j \in Calls : actor[a].job = j
      BY <1>23, <1>0 DEF MarkFailed, BusyHasJob
    <2>2. actor' \in [Actors -> ActorState] /\ BusyHasJob' /\ NobodyTurnsToCredit
      <3>1. CASE Step(a, "refunding")
        BY <1>23, <1>0, <3>1, StepActor DEF MarkFailed, ActorAt, NobodyTurnsToCredit
      <3>2. CASE Rest(a)
        BY <1>23, <1>0, <3>2, RestActor DEF NobodyTurnsToCredit
      <3> QED BY <1>23, <3>1, <3>2 DEF MarkFailed
    <2> DEFINE r == [job[j] EXCEPT !.status = "failed", !.failure = actor[a].mode]
    <2>3. CASE Failable(j) /\ job' # job
      <3>0. job[j] \in JobRow /\ actor[a].mode \in FailureModes \cup {"none"}
        BY <1>0 DEF ActorState
      <3>1. r \in JobRow /\ Advances(j, r)
        BY <2>3, <3>0 DEF JobRow, JobStatus, Live, Terminal, Advances, Failable
      <3>2. OnlyRow(j, r)
        BY <1>23, <2>1, <2>3 DEF MarkFailed, OnlyRow
      <3> HIDE DEF r
      <3>3. call' \in [Calls -> CallState] /\ CallsPastCharging
        BY <1>23, <1>0 DEF MarkFailed, CallsPastCharging, SameRequest
      <3>4. UNCHANGED <<legacyPartner, balance, payments, used, scheduled>> /\ faults' \in 0 .. MaxFaults
        BY <1>23, <1>0 DEF MarkFailed
      <3> QED BY <2>2, <3>1, <3>2, <3>3, <3>4, OnlyRowChanges
    <2>4. CASE job' = job
      BY <1>23, <1>0, <2>2, <2>4, OnlyActorMoves DEF MarkFailed
    <2> QED BY <1>23, <2>1, <2>3, <2>4 DEF MarkFailed
  <1>24. ASSUME NEW a \in Actors, PayRefund(a)
        PROVE  TypeInv'
    <2>1. PICK j \in Calls : actor[a].job = j
      BY <1>24, <1>0 DEF PayRefund, BusyHasJob
    <2>2. actor' \in [Actors -> ActorState] /\ BusyHasJob' /\ NobodyTurnsToCredit
      BY <1>24, <1>0, RestActor DEF PayRefund, NobodyTurnsToCredit
    <2>3. CASE ~ Unrefunded(j)
      BY <1>24, <1>0, <2>1, <2>2, <2>3, OnlyActorMoves DEF PayRefund
    <2>4. CASE Unrefunded(j)
      <3> DEFINE amount == payments[job[j].debit].amount
                 p == Payment("refund", amount, NoTx)
                 r == [job[j] EXCEPT !.refund = Len(payments) + 1]
      <3>1. job[j].debit \in 1 .. Len(payments) /\ job[j] \in JobRow /\ job[j] # NoRow
        BY <1>24, <1>0, <2>1 DEF PayRefund, TypeInv, CreditsWhatIsDue, RefundDue, Linked, JobRow, NoRow
      <3>2. amount \in Nat \ {0} /\ p \in PaymentRow
        <4>1. payments[job[j].debit] \in PaymentRow
          BY <1>0, <3>1
        <4> QED BY <4>1 DEF PaymentRow, Payment
      <3>3. payments' = Append(payments, p) /\ balance' = balance + amount /\ OnlyRow(j, r)
        BY <1>24, <2>1, <2>4 DEF PayRefund, OnlyRow
      <3> HIDE DEF amount
      <3>4. /\ payments' \in Seq(PaymentRow) /\ Len(payments') = Len(payments) + 1
            /\ Len(payments) \in Nat /\ Len(payments) + 1 \in Nat
        BY <1>0, <3>2, <3>3, LedgerGrows
      <3>5. /\ r \in JobRow /\ r.debit = job[j].debit /\ r.refund = Len(payments) + 1
            /\ r.failure = job[j].failure /\ r.status = job[j].status
        BY <3>1, <3>4 DEF JobRow, JobStatus, Live, Terminal
      <3> HIDE DEF r
      <3>6. job' \in [Calls -> JobRow] /\ job'[j] = r /\ (\A k \in Calls \ {j} : job'[k] = job[k])
        BY <1>0, <3>3, <3>5, WriteRow
      <3>7. TypeOK'
        BY <1>24, <1>0, <2>2, <3>2, <3>3, <3>4, <3>6 DEF PayRefund, TypeInv, TypeOK
      <3>8. CreditsWhatIsDue' /\ FailureExplained'
        BY <1>0, <2>2, <3>5, <3>6
        DEF TypeInv, CreditsWhatIsDue, RefundDue, FailureExplained, NobodyTurnsToCredit, BusyHasJob
      <3>9. RowAwaitsCall'
        BY <1>24, <3>1, <3>6 DEF PayRefund, TypeInv, RowAwaitsCall
      <3>10. Linked'
        BY <3>4, <3>5, <3>6 DEF TypeInv, Linked
      <3>11. Presented' /\ Priced'
        BY <1>24 DEF PayRefund, TypeInv, Presented, Priced
      <3> QED BY <2>2, <3>7, <3>8, <3>9, <3>10, <3>11 DEF TypeInv
    <2> QED BY <2>3, <2>4
  <1>25. ASSUME NEW tx \in Deposits, NEW amount \in Amounts, CreditDeposit(tx, amount)
        PROVE  TypeInv'
    <2> DEFINE p == Payment("deposit", amount, tx)
    <2>1. p \in PaymentRow /\ balance' \in Nat
      BY <1>25, <1>0 DEF CreditDeposit, Payment, PaymentRow
    <2>2. /\ payments' \in Seq(PaymentRow) /\ Len(payments') = Len(payments) + 1
          /\ Len(payments) \in Nat
      BY <1>25, <1>0, <2>1, LedgerGrows DEF CreditDeposit
    <2>3. TypeOK'
      BY <1>25, <2>1, <2>2 DEF CreditDeposit, TypeInv, TypeOK
    <2>4. Linked'
      BY <1>25, <2>2 DEF CreditDeposit, TypeInv, Linked
    <2>5. RowAwaitsCall' /\ BusyHasJob' /\ Presented' /\ Priced' /\ FailureExplained'
          /\ CreditsWhatIsDue'
      BY <1>25 DEF CreditDeposit, TypeInv, RowAwaitsCall, BusyHasJob, Presented, Priced, FailureExplained,
                CreditsWhatIsDue
    <2> QED BY <2>3, <2>4, <2>5 DEF TypeInv
  <1>26. CASE UNCHANGED vars
    BY <1>26 DEF vars, TypeInv, TypeOK, RowAwaitsCall, BusyHasJob, Presented, Priced, Linked, FailureExplained, CreditsWhatIsDue
  <1> QED
    BY <1>1, <1>2, <1>3, <1>4, <1>5, <1>6, <1>7, <1>8, <1>9, <1>10, <1>11, <1>12, <1>13, <1>14,
       <1>15, <1>16, <1>17, <1>18, <1>19, <1>20, <1>21, <1>22, <1>23, <1>24, <1>25, <1>26
    DEF Next, Handler, Worker, Settle, Fault, Actors

LEMMA TypeInvariant == Spec => []TypeInv
  BY TypeInit, TypeNext, PTL DEF Spec

\* The balance never goes negative, every ledger row has a positive amount and
\* every row, call and instance is well formed, for any number of calls,
\* workers, ticks and faults.
THEOREM TypeCorrect == Spec => []TypeOK
  <1>1. TypeInv => TypeOK
    BY DEF TypeInv
  <1> QED BY <1>1, TypeInvariant, PTL

-----------------------------------------------------------------------------
(* The life of a row.                                                      *)

\* The statements that write job rows, under their guards: a row is inserted
\* unbilled and under a key nobody holds, and then only moves forward.
Inserted(j) ==
    /\ job[j] = NoRow /\ job'[j] = NewJob(call[j].key)
    /\ call[j].at = "redeemed"
    /\ ~ Conflicts(call[j].key)
    /\ \A k \in Calls \ {j} : job'[k] = job[k]

Moves(from, to) ==
    \/ from = "billing_pending" /\ to \in {"queued", "failed"}
    \/ from = "queued" /\ to = "running"
    \/ from = "running" /\ to \in Terminal

Forward(j) ==
    /\ job'[j].key = job[j].key
    /\ Moves(job[j].status, job'[j].status)

Refunded(j) == job'[j] = [job[j] EXCEPT !.refund = Len(payments) + 1] /\ job[j].status = "failed"

Lifecycle(j) == UNCHANGED job[j] \/ Inserted(j) \/ Forward(j) \/ Refunded(j)

LEMMA RowLifecycle == TypeInv /\ [Next]_vars => \A j \in Calls : Lifecycle(j)
  <1> SUFFICES ASSUME TypeInv, [Next]_vars, NEW j \in Calls PROVE Lifecycle(j)
    OBVIOUS
  <1>0. job \in [Calls -> JobRow] /\ BusyHasJob /\ Workers \subseteq Actors
    BY DEF TypeInv, TypeOK, Actors
  <1>1. CASE UNCHANGED job
    BY <1>1 DEF Lifecycle
  <1>2. ASSUME NEW c \in Calls, CreateJob(c)
        PROVE  Lifecycle(j)
    <2>1. job[c] = NoRow
      BY <1>2 DEF CreateJob, TypeInv, RowAwaitsCall, Inserting
    <2> QED BY <1>2, <1>0, <2>1 DEF CreateJob, Lifecycle, Inserted
  <1>3. ASSUME NEW c \in Calls, DebitAndQueue(c)
        PROVE  Lifecycle(j)
    BY <1>3, <1>0 DEF DebitAndQueue, Lifecycle, Forward, Moves, JobRow
  <1>4. ASSUME NEW c \in Calls, FailBilling(c)
        PROVE  Lifecycle(j)
    BY <1>4, <1>0 DEF FailBilling, Lifecycle, Forward, Moves, JobRow
  <1>5. ASSUME NEW c \in Calls, QueueUnbilled(c)
        PROVE  Lifecycle(j)
    BY <1>5, <1>0 DEF QueueUnbilled, Lifecycle, Forward, Moves, JobRow
  <1>6. ASSUME NEW w \in Workers, ClaimJob(w)
        PROVE  Lifecycle(j)
    <2>1. PICK k \in Calls : actor[w].job = k
      BY <1>6, <1>0 DEF ClaimJob, BusyHasJob
    <2> QED BY <1>6, <1>0, <2>1 DEF ClaimJob, Claimable, Lifecycle, Forward, Moves, Terminal, JobRow
  <1>7. ASSUME NEW w \in Workers, Complete(w)
        PROVE  Lifecycle(j)
    <2>1. PICK k \in Calls : actor[w].job = k
      BY <1>7, <1>0 DEF Complete, BusyHasJob
    <2> QED BY <1>7, <1>0, <2>1 DEF Complete, Completed, Completable, Lifecycle, Forward, Moves, Terminal, JobRow
  <1>8. ASSUME NEW w \in Workers, CompleteThrows(w)
        PROVE  Lifecycle(j)
    <2>1. PICK k \in Calls : actor[w].job = k
      BY <1>8, <1>0 DEF CompleteThrows, BusyHasJob
    <2> QED BY <1>8, <1>0, <2>1 DEF CompleteThrows, Completed, Completable, Lifecycle, Forward, Moves, Terminal, JobRow
  <1>9. ASSUME NEW a \in Actors, MarkFailed(a)
        PROVE  Lifecycle(j)
    <2>1. PICK k \in Calls : actor[a].job = k
      BY <1>9, <1>0 DEF MarkFailed, BusyHasJob
    <2> QED BY <1>9, <1>0, <2>1 DEF MarkFailed, Failable, Lifecycle, Forward, Moves, Terminal, JobRow
  <1>10. ASSUME NEW a \in Actors, PayRefund(a)
        PROVE  Lifecycle(j)
    <2>1. PICK k \in Calls : actor[a].job = k
      BY <1>10, <1>0 DEF PayRefund, BusyHasJob
    <2>2. job[k].status = "failed"
      BY <1>10, <2>1 DEF PayRefund, TypeInv, CreditsWhatIsDue, RefundDue
    <2> QED BY <1>10, <1>0, <2>1, <2>2 DEF PayRefund, Lifecycle, Refunded
  <1> QED
    BY <1>1, <1>2, <1>3, <1>4, <1>5, <1>6, <1>7, <1>8, <1>9, <1>10
    DEF Next, Handler, Worker, Settle, Fault, vars, Authenticate, DecideGate, FindExisting, ClaimChallenge, DebitRefused, ScheduleWorker,
        CallDies, StartScheduled, PickUpOrphan, PipelineReturns, PipelineThrows, SelectStuck,
        CheckRefund, ActorDies, ScheduleLost, CreditDeposit

\* What a poller saw as the end of a job stays its end, with its reason.
THEOREM TerminalStays == Spec => TerminalIsFinal
  <1>1. ASSUME TypeInv, [Next]_vars, NEW j \in Calls, job[j].status \in Terminal
        PROVE  /\ job'[j].status = job[j].status
               /\ job'[j].failure = job[j].failure
    <2>1. Lifecycle(j) /\ job[j] \in JobRow
      BY <1>1, RowLifecycle DEF TypeInv, TypeOK
    <2>2. ~ Inserted(j) /\ ~ Forward(j)
      BY <1>1 DEF Inserted, Forward, Moves, NoRow, Terminal
    <2> QED BY <2>1, <2>2 DEF Lifecycle, Refunded, JobRow
  <1>2. TypeInv /\ [Next]_vars =>
          [\A j \in Calls : job[j].status \in Terminal =>
              /\ job'[j].status = job[j].status
              /\ job'[j].failure = job[j].failure]_vars
    BY <1>1
  <1>3. Spec => []TypeInv
    BY TypeInvariant
  <1> QED BY <1>2, <1>3, PTL DEF Spec, TerminalIsFinal

-----------------------------------------------------------------------------
(* The ledger and the rows that point into it.                             *)

\* A row not billed yet points nowhere.
UnbilledIsFree ==
    \A j \in Calls : job[j].status \in {"absent", "billing_pending"} =>
        job[j].debit = 0 /\ job[j].refund = 0

MoneyInv == PaidBeforeRun /\ RefundMatchesDebit /\ UnbilledIsFree

\* A write that leaves the row's links alone, moves nobody into the queue and
\* does not touch a refunded row.
KeepsDebts(j) ==
    /\ job'[j].debit = job[j].debit
    /\ job'[j].refund = job[j].refund
    /\ job'[j].status \in Live \cup {"complete"} => job[j].status \in Live \cup {"complete"}
    /\ job'[j].status \in {"absent", "billing_pending"} =>
           job[j].status \in {"absent", "billing_pending"}
    /\ job[j].refund # 0 => UNCHANGED job[j]

LEMMA DebtsKept ==
  ASSUME MoneyInv, UNCHANGED <<payments, legacyPartner>>, \A j \in Calls : KeepsDebts(j)
  PROVE  MoneyInv'
  <1>1. PaidBeforeRun'
    BY DEF MoneyInv, PaidBeforeRun, KeepsDebts
  <1>2. RefundMatchesDebit'
    BY DEF MoneyInv, RefundMatchesDebit, KeepsDebts, Payment
  <1>3. UnbilledIsFree'
    BY DEF MoneyInv, UnbilledIsFree, KeepsDebts
  <1> QED BY <1>1, <1>2, <1>3 DEF MoneyInv

LEMMA MoneyInit == Init => MoneyInv
  BY DEF Init, MoneyInv, PaidBeforeRun, RefundMatchesDebit, UnbilledIsFree, NoRow, Live

\* A new entry of the ledger leaves what rows say about the old ones.
LEMMA OldEntries ==
  ASSUME TypeInv, NEW p \in PaymentRow, payments' = Append(payments, p)
  PROVE  /\ DOMAIN payments = 1 .. Len(payments)
         /\ DOMAIN payments' = 1 .. (Len(payments) + 1)
         /\ Len(payments) \in Nat
         /\ payments'[Len(payments) + 1] = p
         /\ \A i \in 1 .. Len(payments) : payments'[i] = payments[i]
         /\ \A j \in Calls : job[j].debit \in 0 .. Len(payments)
                             /\ job[j].refund \in 0 .. Len(payments)
  BY LedgerGrows DEF TypeInv, TypeOK, Linked

\* An entry that is no refund, and that no refund points to.
LEMMA RefundsKept ==
  ASSUME TypeInv, MoneyInv, NEW p \in PaymentRow, payments' = Append(payments, p),
         p.type # "refund",
         \A j \in Calls : /\ job'[j].refund = job[j].refund
                          /\ job[j].refund # 0 => UNCHANGED job[j]
  PROVE  RefundMatchesDebit'
  <1> USE OldEntries
  <1>1. ASSUME NEW j \in Calls, job'[j].refund # 0
        PROVE  /\ job'[j].status = "failed" /\ job'[j].failure \in Refundable
               /\ job'[j].debit # 0
               /\ job'[j].refund \in DOMAIN payments'
               /\ payments'[job'[j].refund] =
                      Payment("refund", payments'[job'[j].debit].amount, NoTx)
    <2>1. UNCHANGED job[j] /\ job[j].refund # 0
      BY <1>1
    <2>2. /\ job[j].status = "failed" /\ job[j].failure \in Refundable /\ job[j].debit # 0
          /\ payments[job[j].refund] = Payment("refund", payments[job[j].debit].amount, NoTx)
      BY <2>1 DEF MoneyInv, RefundMatchesDebit
    <2>3. job[j].debit \in 1 .. Len(payments) /\ job[j].refund \in 1 .. Len(payments)
      BY <2>1, <2>2
    <2> QED BY <2>1, <2>2, <2>3
  <1>2. ASSUME NEW i \in DOMAIN payments', payments'[i].type = "refund"
        PROVE  \E k \in Calls : /\ job'[k].refund = i
                                /\ \A l \in Calls \ {k} : job'[l].refund # i
    <2>1. i \in DOMAIN payments /\ payments[i].type = "refund"
      BY <1>2
    <2> QED BY <2>1 DEF MoneyInv, RefundMatchesDebit
  <1> QED BY <1>1, <1>2 DEF RefundMatchesDebit

LEMMA MoneyDebit ==
  ASSUME TypeInv, MoneyInv, NEW c \in Calls, DebitAndQueue(c)
  PROVE  MoneyInv'
  <1> DEFINE n == Len(payments) + 1
             p == Payment("drawdown", call[c].price, NoTx)
  <1>1. p \in PaymentRow
    BY DEF Payment, PaymentRow, TypeInv, TypeOK, CallState, Priced, Charging, DebitAndQueue
  <1>2. payments' = Append(payments, p)
    BY DEF DebitAndQueue
  <1>3. p.type = "drawdown"
    BY DEF Payment
  <1> HIDE DEF p
  <1>4. job \in [Calls -> JobRow] /\ job[c].status = "billing_pending" /\ ~ legacyPartner
        /\ UNCHANGED legacyPartner
        /\ job' = [job EXCEPT ![c].status = "queued", ![c].debit = n]
    BY DEF DebitAndQueue, TypeInv, TypeOK
  <1>5. job'[c].debit = n /\ job'[c].status = "queued" /\ job'[c].refund = 0
    BY <1>4 DEF JobRow, MoneyInv, UnbilledIsFree
  <1>6. \A j \in Calls \ {c} : job'[j] = job[j]
    BY <1>4
  <1> USE <1>1, <1>2, OldEntries
  <1>7. PaidBeforeRun'
    BY <1>3, <1>4, <1>5, <1>6 DEF MoneyInv, PaidBeforeRun, Live
  <1>8. RefundMatchesDebit'
    <2>1. job[c].refund = 0
      BY <1>4 DEF MoneyInv, UnbilledIsFree
    <2> QED BY <2>1, <1>3, <1>5, <1>6, RefundsKept
  <1>9. UnbilledIsFree'
    BY <1>5, <1>6 DEF MoneyInv, UnbilledIsFree
  <1> QED BY <1>7, <1>8, <1>9 DEF MoneyInv

LEMMA MoneyRefund ==
  ASSUME TypeInv, MoneyInv, NEW a \in Actors, PayRefund(a)
  PROVE  MoneyInv'
  <1>0. job \in [Calls -> JobRow] /\ UNCHANGED legacyPartner
    BY DEF TypeInv, TypeOK, PayRefund
  <1>1. PICK j \in Calls : actor[a].job = j
    BY DEF PayRefund, TypeInv, BusyHasJob
  <1>2. RefundDue(job[j])
    BY <1>1 DEF PayRefund, TypeInv, CreditsWhatIsDue
  <1>3. CASE job[j].refund # 0
    <2>1. UNCHANGED <<payments, job>>
      BY <1>1, <1>3 DEF PayRefund, Unrefunded
    <2> QED BY <2>1, <1>0, DebtsKept DEF KeepsDebts
  <1>4. CASE job[j].refund = 0
    <2> DEFINE n == Len(payments) + 1
               p == Payment("refund", payments[job[j].debit].amount, NoTx)
    <2>1. payments' = Append(payments, p) /\ job' = [job EXCEPT ![j].refund = n]
      BY <1>1, <1>4 DEF PayRefund, Unrefunded
    <2>2. payments[job[j].debit] \in PaymentRow
      BY <1>2 DEF TypeInv, TypeOK, Linked, RefundDue
    <2>3. p \in PaymentRow
      BY <2>2 DEF Payment, PaymentRow
    <2>4. p.type = "refund"
      BY DEF Payment
    <2>5. p = Payment("refund", payments[job[j].debit].amount, NoTx)
      OBVIOUS
    <2> HIDE DEF p
    <2>6. job'[j] = [job[j] EXCEPT !.refund = n] /\ job[j] \in JobRow
      BY <1>0, <2>1
    <2>7. /\ job'[j].refund = n /\ job'[j].status = "failed" /\ job'[j].failure \in Refundable
          /\ job'[j].debit = job[j].debit /\ job[j].debit # 0
      BY <2>6, <1>2 DEF JobRow, RefundDue
    <2>8. \A k \in Calls \ {j} : job'[k] = job[k]
      BY <1>0, <2>1
    <2> USE <2>1, <2>3, OldEntries
    <2>9. PaidBeforeRun'
      BY <1>0, <2>7, <2>8 DEF MoneyInv, PaidBeforeRun, Live
    <2>10. RefundMatchesDebit'
      <3>1. ASSUME NEW k \in Calls, job'[k].refund # 0
            PROVE  /\ job'[k].status = "failed" /\ job'[k].failure \in Refundable
                   /\ job'[k].debit # 0
                   /\ job'[k].refund \in DOMAIN payments'
                   /\ payments'[job'[k].refund] =
                          Payment("refund", payments'[job'[k].debit].amount, NoTx)
        <4>1. CASE k = j
          BY <4>1, <2>5, <2>7
        <4>2. CASE k # j
          BY <4>2, <3>1, <2>8 DEF MoneyInv, RefundMatchesDebit
        <4> QED BY <4>1, <4>2
      <3>2. ASSUME NEW i \in DOMAIN payments', payments'[i].type = "refund"
            PROVE  \E k \in Calls : /\ job'[k].refund = i
                                    /\ \A l \in Calls \ {k} : job'[l].refund # i
        <4>1. CASE i = n
          BY <4>1, <2>7, <2>8
        <4>2. CASE i \in 1 .. Len(payments)
          <5>1. payments[i].type = "refund" /\ i \in DOMAIN payments
            BY <4>2, <3>2
          <5>2. PICK k \in Calls : /\ job[k].refund = i
                                   /\ \A l \in Calls \ {k} : job[l].refund # i
            BY <5>1 DEF MoneyInv, RefundMatchesDebit
          <5>3. k # j
            BY <4>2, <5>2, <1>4
          <5> QED BY <4>2, <5>2, <5>3, <2>7, <2>8
        <4> QED BY <4>1, <4>2, <3>2
      <3> QED BY <3>1, <3>2 DEF RefundMatchesDebit
    <2>11. UnbilledIsFree'
      BY <2>7, <2>8 DEF MoneyInv, UnbilledIsFree
    <2> QED BY <2>9, <2>10, <2>11 DEF MoneyInv
  <1> QED BY <1>3, <1>4, <1>0, <1>1 DEF JobRow

LEMMA MoneyDeposit ==
  ASSUME TypeInv, MoneyInv, NEW tx \in Deposits, NEW amount \in Amounts, CreditDeposit(tx, amount)
  PROVE  MoneyInv'
  <1> DEFINE p == Payment("deposit", amount, tx)
  <1>1. p \in PaymentRow /\ p.type = "deposit"
    BY ChannelAssumption DEF Payment, PaymentRow
  <1>2. payments' = Append(payments, p) /\ UNCHANGED <<job, legacyPartner>>
    BY DEF CreditDeposit
  <1> HIDE DEF p
  <1> USE <1>1, <1>2, OldEntries
  <1>3. PaidBeforeRun'
    BY DEF MoneyInv, PaidBeforeRun
  <1>4. RefundMatchesDebit'
    BY RefundsKept
  <1>5. UnbilledIsFree'
    BY DEF MoneyInv, UnbilledIsFree
  <1> QED BY <1>3, <1>4, <1>5 DEF MoneyInv

LEMMA MoneyBypass ==
  ASSUME TypeInv, MoneyInv, NEW c \in Calls, QueueUnbilled(c)
  PROVE  MoneyInv'
  <1>1. /\ job \in [Calls -> JobRow] /\ job[c].status = "billing_pending" /\ legacyPartner
        /\ UNCHANGED <<legacyPartner, payments>> /\ job' = [job EXCEPT ![c].status = "queued"]
    BY DEF QueueUnbilled, TypeInv, TypeOK
  <1>2. job'[c].status = "queued" /\ job'[c].debit = 0 /\ job'[c].refund = 0
    BY <1>1 DEF JobRow, MoneyInv, UnbilledIsFree
  <1>3. \A j \in Calls \ {c} : job'[j] = job[j]
    BY <1>1
  <1>4. PaidBeforeRun'
    BY <1>1, <1>2, <1>3 DEF MoneyInv, PaidBeforeRun
  <1>5. RefundMatchesDebit'
    <2>1. \A j \in Calls : job'[j].refund = job[j].refund
      BY <1>1, <1>2, <1>3 DEF MoneyInv, UnbilledIsFree
    <2> QED BY <1>1, <1>2, <1>3, <2>1 DEF MoneyInv, RefundMatchesDebit, Payment
  <1>6. UnbilledIsFree'
    BY <1>2, <1>3 DEF MoneyInv, UnbilledIsFree
  <1> QED BY <1>4, <1>5, <1>6 DEF MoneyInv

LEMMA MoneyNext == TypeInv /\ MoneyInv /\ [Next]_vars => MoneyInv'
  <1> SUFFICES ASSUME TypeInv, MoneyInv, [Next]_vars PROVE MoneyInv'
    OBVIOUS
  <1>0. job \in [Calls -> JobRow] /\ BusyHasJob /\ Workers \subseteq Actors /\ RefundMatchesDebit
    BY DEF TypeInv, TypeOK, Actors, MoneyInv
  <1>1. CASE UNCHANGED <<job, payments, legacyPartner>>
    BY <1>1, DebtsKept DEF KeepsDebts
  <1>2. ASSUME NEW c \in Calls, CreateJob(c)
        PROVE  MoneyInv'
    <2>1. job[c] = NoRow /\ UNCHANGED <<payments, legacyPartner>>
      BY <1>2 DEF CreateJob, TypeInv, RowAwaitsCall, Inserting
    <2> DEFINE r == NewJob(call[c].key)
    <2>2. r.status = "billing_pending" /\ r.debit = 0 /\ r.refund = 0
      BY DEF NewJob, NoRow
    <2>3. job' = job \/ job' = [job EXCEPT ![c] = r]
      BY <1>2 DEF CreateJob
    <2> HIDE DEF r
    <2>4. \A j \in Calls : KeepsDebts(j)
      BY <1>0, <2>1, <2>2, <2>3 DEF KeepsDebts, NoRow, Live
    <2> QED BY <2>1, <2>4, DebtsKept
  <1>3. ASSUME NEW c \in Calls, FailBilling(c)
        PROVE  MoneyInv'
    <2>1. job[c].status = "billing_pending" => job[c].refund = 0
      BY DEF MoneyInv, UnbilledIsFree
    <2>2. \A j \in Calls : KeepsDebts(j)
      BY <1>3, <1>0, <2>1 DEF FailBilling, KeepsDebts, JobRow, Live
    <2> QED BY <1>3, <2>2, DebtsKept DEF FailBilling
  <1>4. ASSUME NEW w \in Workers, ClaimJob(w)
        PROVE  MoneyInv'
    <2>1. PICK k \in Calls : actor[w].job = k
      BY <1>4, <1>0 DEF ClaimJob, BusyHasJob
    <2>2. job[k].status \in Live => job[k].refund = 0
      BY <1>0 DEF RefundMatchesDebit, Live
    <2>3. \A j \in Calls : KeepsDebts(j)
      BY <1>4, <1>0, <2>1, <2>2 DEF ClaimJob, Claimable, KeepsDebts, JobRow, Live
    <2> QED BY <1>4, <2>3, DebtsKept DEF ClaimJob
  <1>5. ASSUME NEW w \in Workers, Complete(w)
        PROVE  MoneyInv'
    <2>1. PICK k \in Calls : actor[w].job = k
      BY <1>5, <1>0 DEF Complete, BusyHasJob
    <2>2. job[k].status \in Live => job[k].refund = 0
      BY <1>0 DEF RefundMatchesDebit, Live
    <2>3. \A j \in Calls : KeepsDebts(j)
      BY <1>5, <1>0, <2>1, <2>2 DEF Complete, Completed, Completable, KeepsDebts, JobRow, Live
    <2> QED BY <1>5, <2>3, DebtsKept DEF Complete
  <1>6. ASSUME NEW w \in Workers, CompleteThrows(w)
        PROVE  MoneyInv'
    <2>1. PICK k \in Calls : actor[w].job = k
      BY <1>6, <1>0 DEF CompleteThrows, BusyHasJob
    <2>2. job[k].status \in Live => job[k].refund = 0
      BY <1>0 DEF RefundMatchesDebit, Live
    <2>3. \A j \in Calls : KeepsDebts(j)
      BY <1>6, <1>0, <2>1, <2>2 DEF CompleteThrows, Completed, Completable, KeepsDebts, JobRow, Live
    <2> QED BY <1>6, <2>3, DebtsKept DEF CompleteThrows
  <1>7. ASSUME NEW a \in Actors, MarkFailed(a)
        PROVE  MoneyInv'
    <2>1. PICK k \in Calls : actor[a].job = k
      BY <1>7, <1>0 DEF MarkFailed, BusyHasJob
    <2>2. job[k].status \in Live => job[k].refund = 0
      BY <1>0 DEF RefundMatchesDebit, Live
    <2>3. \A j \in Calls : KeepsDebts(j)
      BY <1>7, <1>0, <2>1, <2>2 DEF MarkFailed, Failable, KeepsDebts, JobRow, Live
    <2> QED BY <1>7, <2>3, DebtsKept DEF MarkFailed
  <1>8. ASSUME NEW c \in Calls, DebitAndQueue(c)
        PROVE  MoneyInv'
    BY <1>8, MoneyDebit
  <1>9. ASSUME NEW c \in Calls, QueueUnbilled(c)
        PROVE  MoneyInv'
    BY <1>9, MoneyBypass
  <1>10. ASSUME NEW a \in Actors, PayRefund(a)
        PROVE  MoneyInv'
    BY <1>10, MoneyRefund
  <1>11. ASSUME NEW tx \in Deposits, NEW amount \in Amounts, CreditDeposit(tx, amount)
        PROVE  MoneyInv'
    BY <1>11, MoneyDeposit
  <1> QED
    BY <1>1, <1>2, <1>3, <1>4, <1>5, <1>6, <1>7, <1>8, <1>9, <1>10, <1>11
    DEF Next, Handler, Worker, Settle, Fault, vars, Authenticate, DecideGate, FindExisting, ClaimChallenge, DebitRefused, ScheduleWorker,
        CallDies, StartScheduled, PickUpOrphan, PipelineReturns, PipelineThrows, SelectStuck,
        CheckRefund, ActorDies, ScheduleLost

LEMMA MoneyInvariant == Spec => []MoneyInv
  <1>1. Spec => []TypeInv
    BY TypeInvariant
  <1> QED BY <1>1, MoneyInit, MoneyNext, PTL DEF Spec

\* A job runs, and its review is delivered, only after its own drawdown.
THEOREM PaidFirst == Spec => []PaidBeforeRun
  <1>1. MoneyInv => PaidBeforeRun
    BY DEF MoneyInv
  <1> QED BY <1>1, MoneyInvariant, PTL

\* Money goes back once, in the amount taken, for refundable failures only.
THEOREM RefundsAreExact == Spec => []RefundMatchesDebit
  <1>1. MoneyInv => RefundMatchesDebit
    BY DEF MoneyInv
  <1> QED BY <1>1, MoneyInvariant, PTL

-----------------------------------------------------------------------------
(* What processes race for: keys, challenges, jobs.                        *)

LEMMA KeysStay ==
  ASSUME TypeInv, OneJobPerKey, \A j \in Calls : Lifecycle(j)
  PROVE  OneJobPerKey'
  <1> SUFFICES ASSUME NEW c \in Calls, NEW d \in Calls, c # d,
                      job'[c].status # "absent", job'[d].status # "absent",
                      job'[c].key = job'[d].key
               PROVE  job'[c].key = NoKey
    BY DEF OneJobPerKey
  <1>1. \A j \in Calls : job[j] \in JobRow
    BY DEF TypeInv, TypeOK
  <1>2. \A j \in Calls : ~ Inserted(j) =>
            job'[j].key = job[j].key /\ (job'[j].status # "absent" => job[j].status # "absent")
    BY <1>1 DEF Lifecycle, Forward, Moves, Refunded, JobRow
  <1>3. ASSUME NEW i \in Calls, NEW k \in Calls, i # k, Inserted(i),
               job'[k].status # "absent", job'[i].key = job'[k].key
        PROVE  job'[i].key = NoKey
    <2>1. job'[k] = job[k] /\ job'[i].key = call[i].key /\ ~ Conflicts(call[i].key)
      BY <1>3 DEF Inserted, NewJob, NoRow
    <2> QED BY <2>1, <1>3 DEF Conflicts, KeyTaken, Holders
  <1>4. CASE Inserted(c)
    BY <1>4, <1>3
  <1>5. CASE Inserted(d)
    BY <1>5, <1>3
  <1>6. CASE ~ Inserted(c) /\ ~ Inserted(d)
    BY <1>6, <1>2 DEF OneJobPerKey
  <1> QED BY <1>4, <1>5, <1>6

\* Concurrent calls with one idempotency key get one job.
THEOREM KeyNamesOneJob == Spec => []OneJobPerKey
  <1>1. Init => OneJobPerKey
    BY DEF Init, OneJobPerKey, NoRow
  <1>2. TypeInv /\ OneJobPerKey /\ [Next]_vars => OneJobPerKey'
    BY KeysStay, RowLifecycle
  <1>3. Spec => []TypeInv
    BY TypeInvariant
  <1> QED BY <1>1, <1>2, <1>3, PTL DEF Spec

\* A call between claiming its challenge and inserting its row, or past it.
Redeemed(c) == call[c].at = "redeemed" \/ job[c].status # "absent"

SpentOnce ==
    /\ \A c \in Calls : Redeemed(c) => call[c].challenge \in used
    /\ \A c, d \in Calls : c # d /\ Redeemed(c) /\ Redeemed(d) =>
           call[c].challenge # call[d].challenge

\* Every handler step but the claim: nobody gets to hold a claimed challenge.
NoClaim ==
    /\ used \subseteq used'
    /\ \A c \in Calls : Redeemed(c)' => Redeemed(c) /\ call'[c].challenge = call[c].challenge

LEMMA SpentStays == SpentOnce /\ NoClaim => SpentOnce'
  BY DEF SpentOnce, NoClaim

\* A row appears only where its call holds a claimed challenge.
LEMMA RowsAppear ==
  ASSUME TypeInv, \A j \in Calls : Lifecycle(j), NEW j \in Calls, job'[j].status # "absent"
  PROVE  Redeemed(j)
  <1>1. job[j] \in JobRow
    BY DEF TypeInv, TypeOK
  <1> QED BY <1>1 DEF Lifecycle, Inserted, Forward, Moves, Refunded, JobRow, Redeemed

LEMMA SpentNext == TypeInv /\ SpentOnce /\ [Next]_vars => SpentOnce'
  <1> SUFFICES ASSUME TypeInv, SpentOnce, [Next]_vars PROVE SpentOnce'
    OBVIOUS
  <1>0. /\ \A j \in Calls : Lifecycle(j)
        /\ call \in [Calls -> CallState] /\ RowAwaitsCall
    BY RowLifecycle DEF TypeInv, TypeOK
  <1>1. CASE UNCHANGED <<call, used>>
    BY <1>0, <1>1, RowsAppear, SpentStays DEF NoClaim, Redeemed
  <1>2. ASSUME NEW c \in Calls, NEW ch \in Challenges, NEW key \in Keys \cup {NoKey},
               Authenticate(c, ch, key)
        PROVE  SpentOnce'
    <2>1. /\ job[c].status = "absent" /\ call[c].at # "redeemed" /\ UNCHANGED <<job, used>>
      BY <1>0, <1>2 DEF Authenticate, RowAwaitsCall, Inserting, NoRow
    <2>2. call'[c].at # "redeemed" /\ \A d \in Calls \ {c} : call'[d] = call[d]
      BY <1>0, <1>2 DEF Authenticate
    <2> QED BY <2>1, <2>2, SpentStays DEF NoClaim, Redeemed
  <1>3. ASSUME NEW c \in Calls, ClaimChallenge(c)
        PROVE  SpentOnce'
    <2>1. CASE ~ Redeemable(call[c].challenge)
      <3>1. UNCHANGED <<job, used>> /\ Goto(c, "rejected")
        BY <1>3, <2>1 DEF ClaimChallenge
      <3> QED BY <1>0, <3>1, SpentStays DEF Goto, CallState, NoClaim, Redeemed
    <2>2. CASE Redeemable(call[c].challenge)
      <3>1. used' = used \cup {call[c].challenge} /\ Goto(c, "redeemed") /\ UNCHANGED job
        BY <1>3, <2>2 DEF ClaimChallenge
      <3>2. \A d \in Calls : /\ call'[d].challenge = call[d].challenge
                             /\ d # c => call'[d] = call[d]
        BY <1>0, <3>1 DEF Goto, CallState
      <3>3. \A d \in Calls \ {c} : Redeemed(d) => call[d].challenge # call[c].challenge
        BY <2>2 DEF SpentOnce, Redeemable
      <3> QED BY <3>1, <3>2, <3>3 DEF SpentOnce, Redeemed
    <2> QED BY <2>1, <2>2
  <1>4. ASSUME NEW c \in Calls, NEW at \in CallAt \ {"redeemed"}, Goto(c, at), UNCHANGED used
        PROVE  SpentOnce'
    <2>1. call'[c].at # "redeemed" /\ \A d \in Calls : call'[d].challenge = call[d].challenge
      BY <1>0, <1>4 DEF Goto, CallState
    <2>2. \A d \in Calls \ {c} : call'[d] = call[d]
      BY <1>0, <1>4 DEF Goto
    <2>3. NoClaim
      BY <1>0, <1>4, <2>1, <2>2, RowsAppear DEF NoClaim, Redeemed
    <2> QED BY <2>3, SpentStays
  <1>5. ASSUME NEW c \in Calls, NEW price \in Amounts, DecideGate(c, price)
        PROVE  SpentOnce'
    <2>1. CASE \E at \in {"admitted", "rejected"} : Goto(c, at)
      BY <1>5, <2>1, <1>4 DEF DecideGate, CallAt, Answered
    <2>2. CASE call' = [call EXCEPT ![c].at = "admitted", ![c].price = price]
      <3>1. call'[c].at # "redeemed" /\ \A d \in Calls : call'[d].challenge = call[d].challenge
        BY <1>0, <2>2 DEF CallState
      <3>2. \A d \in Calls \ {c} : call'[d] = call[d]
        BY <1>0, <2>2
      <3> QED BY <1>5, <3>1, <3>2, SpentStays DEF DecideGate, NoClaim, Redeemed
    <2> QED BY <1>5, <2>1, <2>2 DEF DecideGate
  <1>6. ASSUME NEW c \in Calls, FindExisting(c)
        PROVE  SpentOnce'
    BY <1>6, <1>4 DEF FindExisting, CallAt, Answered
  <1>7. ASSUME NEW c \in Calls, CreateJob(c)
        PROVE  SpentOnce'
    BY <1>7, <1>4 DEF CreateJob, CallAt, Answered
  <1>8. ASSUME NEW c \in Calls, DebitAndQueue(c)
        PROVE  SpentOnce'
    BY <1>8, <1>4 DEF DebitAndQueue, CallAt, Answered
  <1>9. ASSUME NEW c \in Calls, DebitRefused(c)
        PROVE  SpentOnce'
    BY <1>9, <1>4 DEF DebitRefused, CallAt, Answered
  <1>10. ASSUME NEW c \in Calls, FailBilling(c)
        PROVE  SpentOnce'
    BY <1>10, <1>4 DEF FailBilling, CallAt, Answered
  <1>11. ASSUME NEW c \in Calls, QueueUnbilled(c)
        PROVE  SpentOnce'
    BY <1>11, <1>4 DEF QueueUnbilled, CallAt, Answered
  <1>12. ASSUME NEW c \in Calls, ScheduleWorker(c)
        PROVE  SpentOnce'
    BY <1>12, <1>4 DEF ScheduleWorker, CallAt, Answered
  <1>13. ASSUME NEW c \in Calls, CallDies(c)
        PROVE  SpentOnce'
    BY <1>13, <1>4 DEF CallDies, CallAt, Answered
  <1> QED
    BY <1>1, <1>2, <1>3, <1>5, <1>6, <1>7, <1>8, <1>9, <1>10, <1>11, <1>12, <1>13
    DEF Next, Handler, Worker, Settle, Fault, vars, StartScheduled, PickUpOrphan, ClaimJob, PipelineReturns, PipelineThrows, Complete,
        CompleteThrows, SelectStuck, MarkFailed, CheckRefund, PayRefund, ActorDies,
        ScheduleLost, CreditDeposit

\* A challenge redeemed once buys at most one job.
THEOREM ChallengeBuysOneJob == Spec => []OneJobPerChallenge
  <1>1. Init => SpentOnce
    BY DEF Init, SpentOnce, Redeemed, NoRow, NewCall
  <1>2. Spec => []SpentOnce
    BY <1>1, SpentNext, TypeInvariant, PTL DEF Spec
  <1>3. SpentOnce => OneJobPerChallenge
    BY DEF SpentOnce, OneJobPerChallenge, Redeemed
  <1> QED BY <1>2, <1>3, PTL

\* Two calls with one key, or with one challenge, never make two jobs.
THEOREM RequestMakesOneJob == Spec => []OneJobPerRequest
  <1>1. OneJobPerKey /\ OneJobPerChallenge => OneJobPerRequest
    BY DEF OneJobPerRequest
  <1> QED BY <1>1, KeyNamesOneJob, ChallengeBuysOneJob, PTL

\* Whoever runs the pipeline claimed the job, and a claim is never undone.
ReviewersClaimed ==
    \A w \in Workers : actor[w].at = "reviewing" =>
        job[actor[w].job].status \in {"running"} \cup Terminal

ReviewInv == ReviewersClaimed /\ OneReviewerPerJob

\* Every step but the claim: nobody begins to review.
NoNewReviewer ==
    \A w \in Workers : actor'[w].at = "reviewing" => actor'[w] = actor[w]

LEMMA ClaimsStay ==
  ASSUME TypeInv, \A j \in Calls : Lifecycle(j), NEW j \in Calls,
         job[j].status \in {"running"} \cup Terminal
  PROVE  job'[j].status \in {"running"} \cup Terminal
  <1>1. job[j] \in JobRow
    BY DEF TypeInv, TypeOK
  <1>2. ~ Inserted(j)
    BY DEF Inserted, NoRow, Terminal
  <1>3. Forward(j) => job'[j].status \in Terminal
    BY DEF Forward, Moves, Terminal
  <1>4. Refunded(j) => job'[j].status = "failed"
    BY <1>1 DEF Refunded, JobRow
  <1> QED BY <1>2, <1>3, <1>4 DEF Lifecycle, Terminal

LEMMA ReviewersStay ==
  ASSUME TypeInv, \A j \in Calls : Lifecycle(j), ReviewInv, NoNewReviewer
  PROVE  ReviewInv'
  <1>1. ReviewersClaimed'
    <2> SUFFICES ASSUME NEW w \in Workers, actor'[w].at = "reviewing"
                 PROVE  job'[actor'[w].job].status \in {"running"} \cup Terminal
      BY DEF ReviewersClaimed
    <2>1. actor'[w] = actor[w] /\ actor[w].at = "reviewing" /\ actor[w].job \in Calls
      BY DEF NoNewReviewer, TypeInv, BusyHasJob, Actors
    <2> QED BY <2>1, ClaimsStay DEF ReviewInv, ReviewersClaimed
  <1>2. OneReviewerPerJob'
    BY DEF ReviewInv, OneReviewerPerJob, NoNewReviewer
  <1> QED BY <1>1, <1>2 DEF ReviewInv

LEMMA ReviewClaim ==
  ASSUME TypeInv, ReviewInv, \A j \in Calls : Lifecycle(j), NEW w \in Workers, ClaimJob(w)
  PROVE  ReviewInv'
  <1>0. actor \in [Actors -> ActorState] /\ job \in [Calls -> JobRow] /\ w \in Actors
    BY DEF TypeInv, TypeOK, Actors
  <1>1. PICK j \in Calls : actor[w].job = j
    BY <1>0 DEF ClaimJob, TypeInv, BusyHasJob
  <1>2. CASE ~ Claimable(j)
    <2>1. actor' = [actor EXCEPT ![w] = Idle]
      BY <1>1, <1>2 DEF ClaimJob, Rest
    <2>2. NoNewReviewer
      BY <1>0, <2>1 DEF NoNewReviewer, Idle, Actors
    <2> QED BY <2>2, ReviewersStay
  <1>3. CASE Claimable(j)
    <2>1. /\ job' = [job EXCEPT ![j].status = "running"] /\ job[j].status = "queued"
          /\ actor' = [actor EXCEPT ![w].at = "reviewing"]
      BY <1>1, <1>3 DEF ClaimJob, Step, Claimable
    <2>2. \A v \in Workers \ {w} : actor'[v] = actor[v]
      BY <1>0, <2>1 DEF Actors
    <2>3. actor'[w].job = j
      BY <1>0, <1>1, <2>1 DEF ActorState
    <2>4. job'[j].status = "running"
      BY <1>0, <2>1 DEF JobRow
    <2>5. \A v \in Workers \ {w} : actor[v].at = "reviewing" => actor[v].job # j
      BY <2>1 DEF ReviewInv, ReviewersClaimed, Terminal
    <2>6. OneReviewerPerJob'
      BY <2>2, <2>3, <2>5 DEF ReviewInv, OneReviewerPerJob
    <2>7. ReviewersClaimed'
      <3> SUFFICES ASSUME NEW v \in Workers, actor'[v].at = "reviewing"
                   PROVE  job'[actor'[v].job].status \in {"running"} \cup Terminal
        BY DEF ReviewersClaimed
      <3>1. CASE v = w
        BY <3>1, <2>3, <2>4
      <3>2. CASE v # w
        <4>1. actor'[v] = actor[v] /\ actor[v].job \in Calls
          BY <3>2, <2>2 DEF TypeInv, BusyHasJob, Actors
        <4> QED BY <4>1, ClaimsStay DEF ReviewInv, ReviewersClaimed
      <3> QED BY <3>1, <3>2
    <2> QED BY <2>6, <2>7 DEF ReviewInv
  <1> QED BY <1>2, <1>3

LEMMA ReviewNext == TypeInv /\ ReviewInv /\ [Next]_vars => ReviewInv'
  <1> SUFFICES ASSUME TypeInv, ReviewInv, [Next]_vars PROVE ReviewInv'
    OBVIOUS
  <1>0. \A j \in Calls : Lifecycle(j)
    BY RowLifecycle
  <1>1. CASE UNCHANGED actor
    BY <1>0, <1>1, ReviewersStay DEF NoNewReviewer
  <1>2. ASSUME NEW w \in Workers, ClaimJob(w)
        PROVE  ReviewInv'
    BY <1>0, <1>2, ReviewClaim
  <1>3. ASSUME NEW a \in Actors, NEW s \in ActorAt \ {"reviewing"}, Step(a, s)
        PROVE  ReviewInv'
    <2>1. actor'[a].at # "reviewing" /\ \A b \in Actors \ {a} : actor'[b] = actor[b]
      BY <1>3 DEF Step, TypeInv, TypeOK, ActorState
    <2> QED BY <1>0, <2>1, ReviewersStay DEF NoNewReviewer, Actors
  <1>4. ASSUME NEW a \in Actors, Rest(a)
        PROVE  ReviewInv'
    <2>1. actor'[a].at # "reviewing" /\ \A b \in Actors \ {a} : actor'[b] = actor[b]
      BY <1>4 DEF Rest, Idle, TypeInv, TypeOK
    <2> QED BY <1>0, <2>1, ReviewersStay DEF NoNewReviewer, Actors
  <1>5. ASSUME NEW a \in Actors, NEW s, s # "reviewing", NEW j, NEW mode, Become(a, s, j, mode)
        PROVE  ReviewInv'
    <2>1. actor'[a].at # "reviewing" /\ \A b \in Actors \ {a} : actor'[b] = actor[b]
      BY <1>5 DEF Become, TypeInv, TypeOK
    <2> QED BY <1>0, <2>1, ReviewersStay DEF NoNewReviewer, Actors
  <1>6. ASSUME NEW w \in Workers, NEW j \in Calls, StartScheduled(w, j)
        PROVE  ReviewInv'
    BY <1>6, <1>1, <1>5 DEF StartScheduled, ActorAt, Actors
  <1>7. ASSUME NEW w \in Workers, NEW j \in Calls, PickUpOrphan(w, j)
        PROVE  ReviewInv'
    BY <1>7, <1>5 DEF PickUpOrphan, ActorAt, Actors
  <1>8. ASSUME NEW w \in Workers, PipelineReturns(w)
        PROVE  ReviewInv'
    BY <1>8, <1>3 DEF PipelineReturns, ActorAt, Actors
  <1>9. ASSUME NEW w \in Workers, NEW mode \in FailureModes, PipelineThrows(w, mode)
        PROVE  ReviewInv'
    BY <1>9, <1>5 DEF PipelineThrows, ActorAt, Actors
  <1>10. ASSUME NEW w \in Workers, Complete(w)
        PROVE  ReviewInv'
    BY <1>10, <1>4 DEF Complete, ActorAt, Actors
  <1>11. ASSUME NEW w \in Workers, CompleteThrows(w)
        PROVE  ReviewInv'
    BY <1>11, <1>5 DEF CompleteThrows, ActorAt, Actors
  <1>12. ASSUME NEW c \in Crons, NEW j \in Calls, SelectStuck(c, j)
        PROVE  ReviewInv'
    BY <1>12, <1>5 DEF SelectStuck, ActorAt, Actors
  <1>13. ASSUME NEW a \in Actors, MarkFailed(a)
        PROVE  ReviewInv'
    BY <1>13, <1>3, <1>4 DEF MarkFailed, ActorAt, Actors
  <1>14. ASSUME NEW a \in Actors, CheckRefund(a)
        PROVE  ReviewInv'
    BY <1>14, <1>3, <1>4 DEF CheckRefund, ActorAt, Actors
  <1>15. ASSUME NEW a \in Actors, PayRefund(a)
        PROVE  ReviewInv'
    BY <1>15, <1>4 DEF PayRefund, ActorAt, Actors
  <1>16. ASSUME NEW a \in Actors, ActorDies(a)
        PROVE  ReviewInv'
    BY <1>16, <1>4 DEF ActorDies, ActorAt, Actors
  <1> QED
    BY <1>1, <1>2, <1>6, <1>7, <1>8, <1>9, <1>10, <1>11, <1>12, <1>13, <1>14, <1>15, <1>16
    DEF Next, Handler, Worker, Settle, Fault, vars, Authenticate, DecideGate, FindExisting, ClaimChallenge, CreateJob, DebitAndQueue,
        DebitRefused, FailBilling, QueueUnbilled, ScheduleWorker, CallDies, ScheduleLost,
        CreditDeposit

\* Two invocations of processReviewJob never review the same job.
THEOREM JobHasOneReviewer == Spec => []OneReviewerPerJob
  <1>1. Init => ReviewInv
    BY DEF Init, ReviewInv, ReviewersClaimed, OneReviewerPerJob, Idle, Actors
  <1>2. Spec => []ReviewInv
    BY <1>1, ReviewNext, TypeInvariant, PTL DEF Spec
  <1>3. ReviewInv => OneReviewerPerJob
    BY DEF ReviewInv
  <1> QED BY <1>2, <1>3, PTL

\* A job the failure of which is still owed to the caller.
Indebted(row) == row.status = "failed" /\ Owes(row)

\* Somebody is about to give the money back, or a fault struck him.
InSight(j) ==
    \/ faults > 0
    \/ \E a \in Actors : actor[a].job = j /\ actor[a].at \in {"refunding", "crediting"}

\* A step that makes nobody indebted and takes no refunder off his job.
KeepsSight ==
    /\ \A j \in Calls : Indebted(job'[j]) => Indebted(job[j])
    /\ UNCHANGED faults
    /\ \A a \in Actors : actor[a].at \in {"refunding", "crediting"} =>
           \/ actor'[a].job = actor[a].job /\ actor'[a].at \in {"refunding", "crediting"}
           \/ ~ Indebted(job'[actor[a].job])

LEMMA SightIsIndebted == RefundInSight <=> \A j \in Calls : Indebted(job[j]) => InSight(j)
  BY DEF RefundInSight, Indebted, InSight

LEMMA SightKept ==
  ASSUME TypeInv, RefundInSight, KeepsSight
  PROVE  RefundInSight'
  <1> SUFFICES ASSUME NEW j \in Calls, Indebted(job'[j]) PROVE InSight(j)'
    BY DEF RefundInSight, Indebted, InSight
  <1>1. InSight(j)
    BY SightIsIndebted DEF KeepsSight
  <1>2. CASE faults > 0
    BY <1>2 DEF KeepsSight, InSight
  <1>3. CASE \E a \in Actors : actor[a].job = j /\ actor[a].at \in {"refunding", "crediting"}
    BY <1>3 DEF KeepsSight, InSight
  <1> QED BY <1>1, <1>2, <1>3 DEF InSight

\* A fault leaves no promise.
LEMMA SightExcused ==
  ASSUME TypeInv, faults' = faults + 1
  PROVE  RefundInSight'
  BY ChannelAssumption DEF TypeInv, TypeOK, RefundInSight

LEMMA SightMarkFailed ==
  ASSUME TypeInv, RefundInSight, NEW a \in Actors, MarkFailed(a)
  PROVE  RefundInSight'
  <1>0. actor \in [Actors -> ActorState] /\ job \in [Calls -> JobRow] /\ faults \in Nat
    BY ChannelAssumption DEF TypeInv, TypeOK
  <1>1. PICK j \in Calls : actor[a].job = j
    BY DEF MarkFailed, TypeInv, BusyHasJob
  <1>2. /\ actor[a].at = "failing" /\ UNCHANGED faults
        /\ \A k \in Calls \ {j} : job'[k] = job[k]
        /\ \A b \in Actors \ {a} : actor'[b] = actor[b]
    BY <1>0, <1>1 DEF MarkFailed, Step, Rest
  <1>3. CASE ~ Failable(j)
    <2>1. UNCHANGED job
      BY <1>1, <1>3 DEF MarkFailed
    <2> QED BY <1>2, <2>1, <1>0, SightKept DEF KeepsSight
  <1>4. CASE Failable(j)
    <2>1. job' = [job EXCEPT ![j].status = "failed", ![j].failure = actor[a].mode]
      BY <1>1, <1>4 DEF MarkFailed
    <2>2. job'[j].failure = actor[a].mode
      BY <1>0, <2>1 DEF JobRow
    <2>3. CASE actor[a].mode \in Refundable
      <3>1. actor'[a].at = "refunding" /\ actor'[a].job = j
        BY <1>0, <1>1, <2>3 DEF MarkFailed, Refunds, Step, ActorState
      <3> SUFFICES ASSUME NEW k \in Calls, Indebted(job'[k]), faults' = 0
                   PROVE  \E b \in Actors : /\ actor'[b].job = k
                                            /\ actor'[b].at \in {"refunding", "crediting"}
        BY <1>0, <1>2 DEF RefundInSight, Indebted
      <3>2. CASE k = j
        BY <3>1, <3>2
      <3>3. CASE k # j
        <4>1. PICK b \in Actors : /\ actor[b].job = k
                                  /\ actor[b].at \in {"refunding", "crediting"}
          BY <1>2, <3>3 DEF RefundInSight, Indebted
        <4> QED BY <4>1, <1>2
      <3> QED BY <3>2, <3>3
    <2>4. CASE actor[a].mode \notin Refundable
      <3>1. ~ Indebted(job'[j])
        BY <2>2, <2>4 DEF Indebted, Owes
      <3> QED BY <1>0, <1>2, <3>1, SightKept DEF KeepsSight
    <2> QED BY <2>3, <2>4
  <1> QED BY <1>3, <1>4

LEMMA SightNext == TypeInv /\ RefundInSight /\ [Next]_vars => RefundInSight'
  <1> SUFFICES ASSUME TypeInv, RefundInSight, [Next]_vars PROVE RefundInSight'
    OBVIOUS
  <1>0. /\ \A j \in Calls : Lifecycle(j)
        /\ actor \in [Actors -> ActorState] /\ job \in [Calls -> JobRow] /\ faults \in Nat
        /\ BusyHasJob /\ Workers \subseteq Actors /\ Crons \subseteq Actors
    BY RowLifecycle, ChannelAssumption DEF TypeInv, TypeOK, Actors
  <1>1. CASE faults' = faults + 1
    BY <1>1, SightExcused
  <1>2. CASE UNCHANGED <<job, actor, faults>>
    BY <1>0, <1>2, SightKept DEF KeepsSight
  \* A handler writes its row and turns no job from running to failed.
  <1>3. ASSUME UNCHANGED <<actor, faults>>,
               \A j \in Calls : Indebted(job'[j]) => Indebted(job[j])
        PROVE  RefundInSight'
    BY <1>0, <1>3, SightKept DEF KeepsSight
  \* An instance that does not refund moves and fails no job.
  <1>4. ASSUME NEW a \in Actors, actor[a].at \notin {"refunding", "crediting"},
               \A b \in Actors \ {a} : actor'[b] = actor[b], UNCHANGED faults,
               \A j \in Calls : Indebted(job'[j]) => Indebted(job[j])
        PROVE  RefundInSight'
    BY <1>0, <1>4, SightKept DEF KeepsSight
  <1>5. ASSUME NEW c \in Calls, CreateJob(c)
        PROVE  RefundInSight'
    <2>1. ~ Indebted(NewJob(call[c].key))
      BY DEF Indebted, NewJob, NoRow
    <2>2. \A j \in Calls : Indebted(job'[j]) => Indebted(job[j])
      BY <1>5, <1>0, <2>1 DEF CreateJob
    <2> QED BY <1>5, <1>3, <2>2 DEF CreateJob
  <1>6. ASSUME NEW c \in Calls, DebitAndQueue(c)
        PROVE  RefundInSight'
    <2>1. \A j \in Calls : Indebted(job'[j]) => Indebted(job[j])
      BY <1>6, <1>0 DEF DebitAndQueue, Indebted, JobRow
    <2> QED BY <1>6, <1>3, <2>1 DEF DebitAndQueue
  <1>7. ASSUME NEW c \in Calls, QueueUnbilled(c)
        PROVE  RefundInSight'
    <2>1. \A j \in Calls : Indebted(job'[j]) => Indebted(job[j])
      BY <1>7, <1>0 DEF QueueUnbilled, Indebted, JobRow
    <2> QED BY <1>7, <1>3, <2>1 DEF QueueUnbilled
  <1>8. ASSUME NEW c \in Calls, FailBilling(c)
        PROVE  RefundInSight'
    <2>1. job[c].status = "billing_pending" => ~ Indebted(job'[c])
      BY <1>8, <1>0 DEF FailBilling, Indebted, Owes, Refundable, JobRow
    <2>2. \A j \in Calls : Indebted(job'[j]) => Indebted(job[j])
      BY <1>8, <1>0, <2>1 DEF FailBilling
    <2> QED BY <1>8, <1>3, <2>2 DEF FailBilling
  <1>9. ASSUME NEW w \in Workers, NEW j \in Calls, StartScheduled(w, j)
        PROVE  RefundInSight'
    <2>1. actor[w].at \notin {"refunding", "crediting"} /\ UNCHANGED <<job, faults>>
      BY <1>9 DEF StartScheduled
    <2>2. \A b \in Actors \ {w} : actor'[b] = actor[b]
      BY <1>9, <1>0 DEF StartScheduled, Become, Step
    <2> QED BY <1>0, <1>4, <2>1, <2>2
  <1>10. ASSUME NEW w \in Workers, NEW j \in Calls, PickUpOrphan(w, j)
        PROVE  RefundInSight'
    <2>1. actor[w].at \notin {"refunding", "crediting"} /\ UNCHANGED <<job, faults>>
      BY <1>10 DEF PickUpOrphan
    <2>2. \A b \in Actors \ {w} : actor'[b] = actor[b]
      BY <1>10, <1>0 DEF PickUpOrphan, Become, Step
    <2> QED BY <1>0, <1>4, <2>1, <2>2
  <1>11. ASSUME NEW w \in Workers, PipelineReturns(w)
        PROVE  RefundInSight'
    <2>1. actor[w].at \notin {"refunding", "crediting"} /\ UNCHANGED <<job, faults>>
      BY <1>11 DEF PipelineReturns
    <2>2. \A b \in Actors \ {w} : actor'[b] = actor[b]
      BY <1>11, <1>0 DEF PipelineReturns, Become, Step
    <2> QED BY <1>0, <1>4, <2>1, <2>2
  <1>12. ASSUME NEW w \in Workers, NEW mode \in FailureModes, PipelineThrows(w, mode)
        PROVE  RefundInSight'
    <2>1. actor[w].at \notin {"refunding", "crediting"} /\ UNCHANGED <<job, faults>>
      BY <1>12 DEF PipelineThrows
    <2>2. \A b \in Actors \ {w} : actor'[b] = actor[b]
      BY <1>12, <1>0 DEF PipelineThrows, Become, Step
    <2> QED BY <1>0, <1>4, <2>1, <2>2
  <1>13. ASSUME NEW c \in Crons, NEW j \in Calls, SelectStuck(c, j)
        PROVE  RefundInSight'
    <2>1. actor[c].at \notin {"refunding", "crediting"} /\ UNCHANGED <<job, faults>>
      BY <1>13 DEF SelectStuck
    <2>2. \A b \in Actors \ {c} : actor'[b] = actor[b]
      BY <1>13, <1>0 DEF SelectStuck, Become, Step
    <2> QED BY <1>0, <1>4, <2>1, <2>2
  <1>14. ASSUME NEW w \in Workers, ClaimJob(w)
        PROVE  RefundInSight'
    <2>1. PICK j \in Calls : actor[w].job = j
      BY <1>14, <1>0 DEF ClaimJob, BusyHasJob
    <2>2. /\ actor[w].at \notin {"refunding", "crediting"} /\ UNCHANGED faults
          /\ job' = job \/ job' = [job EXCEPT ![j].status = "running"]
      BY <1>14, <2>1 DEF ClaimJob, Claimable
    <2>3. \A k \in Calls : Indebted(job'[k]) => Indebted(job[k])
      BY <1>0, <2>2 DEF Indebted, JobRow
    <2>4. \A b \in Actors \ {w} : actor'[b] = actor[b]
      BY <1>14, <1>0 DEF ClaimJob, Rest, Step
    <2> QED BY <1>0, <1>4, <2>2, <2>3, <2>4
  <1>15. ASSUME NEW w \in Workers, Complete(w)
        PROVE  RefundInSight'
    <2>1. PICK j \in Calls : actor[w].job = j
      BY <1>15, <1>0 DEF Complete, BusyHasJob
    <2>2. /\ actor[w].at \notin {"refunding", "crediting"} /\ UNCHANGED faults
          /\ job' = job \/ job' = [job EXCEPT ![j].status = "complete"]
      BY <1>15, <2>1 DEF Complete, Completed, Completable
    <2>3. \A k \in Calls : Indebted(job'[k]) => Indebted(job[k])
      BY <1>0, <2>2 DEF Indebted, JobRow
    <2>4. \A b \in Actors \ {w} : actor'[b] = actor[b]
      BY <1>15, <1>0 DEF Complete, Rest, Step
    <2> QED BY <1>0, <1>4, <2>2, <2>3, <2>4
  <1>16. ASSUME NEW a \in Actors, MarkFailed(a)
        PROVE  RefundInSight'
    BY <1>16, SightMarkFailed
  <1>17. ASSUME NEW a \in Actors, CheckRefund(a)
        PROVE  RefundInSight'
    <2>1. PICK j \in Calls : actor[a].job = j
      BY <1>17, <1>0 DEF CheckRefund, BusyHasJob
    <2>2. CASE Owes(job[j])
      <3>1. actor'[a].at = "crediting" /\ actor'[a].job = j /\ UNCHANGED <<job, faults>>
        BY <1>17, <1>0, <2>1, <2>2 DEF CheckRefund, Step, ActorState
      <3>2. \A b \in Actors \ {a} : actor'[b] = actor[b]
        BY <1>17, <1>0 DEF CheckRefund, Step, Rest
      <3> QED BY <1>0, <2>1, <3>1, <3>2, SightKept DEF KeepsSight
    <2>3. CASE ~ Owes(job[j])
      <3>1. ~ Indebted(job'[j]) /\ UNCHANGED <<job, faults>>
        BY <1>17, <2>1, <2>3 DEF CheckRefund, Indebted
      <3>2. \A b \in Actors \ {a} : actor'[b] = actor[b]
        BY <1>17, <1>0 DEF CheckRefund, Step, Rest
      <3> QED BY <1>0, <2>1, <3>1, <3>2, SightKept DEF KeepsSight
    <2> QED BY <2>2, <2>3
  <1>18. ASSUME NEW a \in Actors, PayRefund(a)
        PROVE  RefundInSight'
    <2>1. PICK j \in Calls : actor[a].job = j
      BY <1>18, <1>0 DEF PayRefund, BusyHasJob
    <2>2. Len(payments) \in Nat
      BY DEF TypeInv, TypeOK
    <2>3. UNCHANGED faults /\ job' = IF job[j].refund = 0
                                     THEN [job EXCEPT ![j].refund = Len(payments) + 1]
                                     ELSE job
      BY <1>18, <2>1 DEF PayRefund, Unrefunded
    <2>4. job'[j].refund # 0 /\ \A k \in Calls \ {j} : job'[k] = job[k]
      BY <1>0, <2>2, <2>3 DEF JobRow
    <2>5. ~ Indebted(job'[j])
      BY <2>4 DEF Indebted, Owes
    <2>6. \A b \in Actors \ {a} : actor'[b] = actor[b]
      BY <1>18, <1>0 DEF PayRefund, Rest
    <2> QED BY <1>0, <2>1, <2>3, <2>4, <2>5, <2>6, SightKept DEF KeepsSight
  <1> QED
    BY <1>1, <1>2, <1>5, <1>6, <1>7, <1>8, <1>9, <1>10, <1>11, <1>12, <1>13, <1>14, <1>15,
       <1>16, <1>17, <1>18
    DEF Next, Handler, Worker, Settle, Fault, vars, Authenticate, DecideGate, FindExisting, ClaimChallenge, DebitRefused, ScheduleWorker,
        CreditDeposit, CallDies, ScheduleLost, ActorDies, CompleteThrows

\* Until a fault strikes, a charged job that failed for a refundable reason has
\* somebody about to refund it, however workers and ticks overtake one another.
THEOREM RefundNeverForgotten == Spec => []RefundInSight
  <1>1. Init => RefundInSight
    BY DEF Init, RefundInSight, NoRow
  <1> QED BY <1>1, SightNext, TypeInvariant, PTL DEF Spec

-----------------------------------------------------------------------------
(* The rail implements the abstract ledger.                                *)

\* A handler carries no price that was never asked.
Quoted == \A c \in Calls : call[c].price \in Amounts \cup {0}

LEMMA QuotedNext == TypeInv /\ Quoted /\ [Next]_vars => Quoted'
  <1> SUFFICES ASSUME TypeInv, Quoted, [Next]_vars PROVE Quoted'
    OBVIOUS
  <1>0. call \in [Calls -> CallState]
    BY DEF TypeInv, TypeOK
  <1>1. CASE UNCHANGED call
    BY <1>1 DEF Quoted
  <1>2. ASSUME NEW c \in Calls, NEW ch \in Challenges, NEW key \in Keys \cup {NoKey},
               Authenticate(c, ch, key)
        PROVE  Quoted'
    BY <1>0, <1>2 DEF Authenticate, Quoted
  <1>3. ASSUME NEW c \in Calls, NEW at, Goto(c, at)
        PROVE  Quoted'
    BY <1>0, <1>3 DEF Goto, Quoted, CallState
  <1>4. ASSUME NEW c \in Calls, NEW price \in Amounts, DecideGate(c, price)
        PROVE  Quoted'
    <2>1. CASE call' = [call EXCEPT ![c].at = "admitted", ![c].price = price]
      BY <1>0, <2>1 DEF Quoted, CallState
    <2> QED BY <1>3, <1>4, <2>1 DEF DecideGate
  <1>5. ASSUME NEW c \in Calls,
               \/ FindExisting(c) \/ ClaimChallenge(c) \/ CreateJob(c) \/ DebitAndQueue(c)
               \/ DebitRefused(c) \/ FailBilling(c) \/ QueueUnbilled(c) \/ ScheduleWorker(c)
               \/ CallDies(c)
        PROVE  Quoted'
    BY <1>3, <1>5
    DEF FindExisting, ClaimChallenge, CreateJob, DebitAndQueue, DebitRefused, FailBilling,
        QueueUnbilled, ScheduleWorker, CallDies
  <1> QED
    BY <1>1, <1>2, <1>4, <1>5
    DEF Next, Handler, Worker, Settle, Fault, vars, StartScheduled, PickUpOrphan, ClaimJob, PipelineReturns, PipelineThrows, Complete,
        CompleteThrows, SelectStuck, MarkFailed, CheckRefund, PayRefund, ActorDies,
        ScheduleLost, CreditDeposit

LEMMA LedgerStarts == Init => Ledger!LedgerInit
  BY DEF Init, Ledger!LedgerInit, ChargeOf, OutcomeOf, NoRow

\* A write the ledger does not see.
Quiet(j) ==
    /\ job'[j].debit = job[j].debit
    /\ job'[j].refund = job[j].refund
    /\ job'[j].status = "complete" <=> job[j].status = "complete"

LEMMA QuietStep ==
  ASSUME UNCHANGED <<balance, payments>>, \A j \in Calls : Quiet(j)
  PROVE  UNCHANGED Ledger!ledgerVars
  <1>1. \A j \in Calls : ChargeOf(j)' = ChargeOf(j) /\ OutcomeOf(j)' = OutcomeOf(j)
    BY DEF Quiet, ChargeOf, OutcomeOf
  <1> QED BY <1>1 DEF Ledger!ledgerVars

\* The transfers an entry adds to those counted.
LEMMA CountedTransfers ==
  ASSUME TypeInv, NEW p \in PaymentRow, payments' = Append(payments, p)
  PROVE  {payments'[i].tx : i \in DOMAIN payments'} =
             {payments[i].tx : i \in DOMAIN payments} \cup {p.tx}
  BY OldEntries

\* What a row was charged is read from an entry that stays.
LEMMA OldCharges ==
  ASSUME TypeInv, NEW p \in PaymentRow, payments' = Append(payments, p),
         NEW j \in Calls, job'[j].debit = job[j].debit
  PROVE  ChargeOf(j)' = ChargeOf(j)
  <1>1. job[j].debit \in 0 .. Len(payments) /\ Len(payments) \in Nat
    BY OldEntries
  <1> QED BY <1>1, OldEntries DEF ChargeOf

LEMMA DebitCharges ==
  ASSUME TypeInv, MoneyInv, Quoted, NEW c \in Calls, DebitAndQueue(c)
  PROVE  Ledger!LedgerNext
  <1> DEFINE n == Len(payments) + 1
             p == Payment("drawdown", call[c].price, NoTx)
  <1>1. p \in PaymentRow /\ p.tx = NoTx /\ p.amount = call[c].price
    BY DEF Payment, PaymentRow, TypeInv, TypeOK, CallState, Priced, Charging, DebitAndQueue
  <1>2. payments' = Append(payments, p)
    BY DEF DebitAndQueue
  <1> HIDE DEF p
  <1>3. /\ job \in [Calls -> JobRow] /\ job[c].status = "billing_pending"
        /\ job' = [job EXCEPT ![c].status = "queued", ![c].debit = n]
        /\ n \in Nat \ {0}
    BY DEF DebitAndQueue, TypeInv, TypeOK
  <1>4. job'[c].debit = n /\ job'[c].status = "queued" /\ job'[c].refund = job[c].refund
    BY <1>3 DEF JobRow
  <1>5. job[c].debit = 0 /\ job[c].refund = 0
    BY <1>3 DEF MoneyInv, UnbilledIsFree
  <1>6. \A j \in Calls \ {c} : job'[j] = job[j]
    BY <1>3
  <1>7. ChargeOf(c) = 0 /\ ChargeOf(c)' = call[c].price
    BY <1>1, <1>2, <1>3, <1>4, <1>5, OldEntries DEF ChargeOf
  <1>8. \A j \in Calls \ {c} : ChargeOf(j)' = ChargeOf(j)
    BY <1>1, <1>2, <1>6, OldCharges
  <1>9. \A j \in Calls : OutcomeOf(j)' = OutcomeOf(j)
    BY <1>3, <1>4, <1>5, <1>6 DEF OutcomeOf
  <1>10. OutcomeOf(c) = "open"
    BY <1>3, <1>5 DEF OutcomeOf
  <1>11. call[c].price \in Amounts
    BY <1>1 DEF Quoted, PaymentRow
  <1>12. {payments'[i].tx : i \in DOMAIN payments'} \ {NoTx} =
             {payments[i].tx : i \in DOMAIN payments} \ {NoTx}
    BY <1>1, <1>2, CountedTransfers
  <1>13. call[c].price <= balance /\ balance' = balance - call[c].price
    BY DEF DebitAndQueue, DebitCovers, TypeInv, TypeOK, CallState
  <1>14. Ledger!Charge(c, call[c].price)
    BY <1>7, <1>8, <1>9, <1>10, <1>12, <1>13 DEF Ledger!Charge
  <1> QED BY <1>11, <1>14 DEF Ledger!LedgerNext

LEMMA RefundGivesBack ==
  ASSUME TypeInv, MoneyInv, NEW a \in Actors, PayRefund(a)
  PROVE  Ledger!LedgerNext \/ UNCHANGED Ledger!ledgerVars
  <1>0. job \in [Calls -> JobRow]
    BY DEF TypeInv, TypeOK
  <1>1. PICK j \in Calls : actor[a].job = j
    BY DEF PayRefund, TypeInv, BusyHasJob
  <1>2. RefundDue(job[j])
    BY <1>1 DEF PayRefund, TypeInv, CreditsWhatIsDue
  <1>3. CASE job[j].refund # 0
    <2>1. UNCHANGED <<balance, payments, job>>
      BY <1>1, <1>3 DEF PayRefund, Unrefunded
    <2> QED BY <2>1, QuietStep DEF Quiet
  <1>4. CASE job[j].refund = 0
    <2> DEFINE n == Len(payments) + 1
               p == Payment("refund", payments[job[j].debit].amount, NoTx)
    <2>1. /\ payments' = Append(payments, p) /\ job' = [job EXCEPT ![j].refund = n]
          /\ balance' = balance + payments[job[j].debit].amount
      BY <1>1, <1>4 DEF PayRefund, Unrefunded
    <2>2. payments[job[j].debit] \in PaymentRow
      BY <1>2 DEF TypeInv, TypeOK, Linked, RefundDue
    <2>3. p \in PaymentRow /\ p.tx = NoTx
      BY <2>2 DEF Payment, PaymentRow
    <2> HIDE DEF p
    <2>4. n \in Nat \ {0}
      BY DEF TypeInv, TypeOK
    <2>5. /\ job'[j].refund = n /\ job'[j].status = job[j].status
          /\ job'[j].debit = job[j].debit
      BY <1>0, <2>1 DEF JobRow
    <2>6. \A k \in Calls \ {j} : job'[k] = job[k]
      BY <1>0, <2>1
    <2>7. \A k \in Calls : ChargeOf(k)' = ChargeOf(k)
      BY <2>1, <2>3, <2>5, <2>6, OldCharges
    <2>8. ChargeOf(j) = payments[job[j].debit].amount /\ ChargeOf(j) > 0
      BY <1>2, <2>2 DEF ChargeOf, RefundDue, PaymentRow
    <2>9. OutcomeOf(j) = "open" /\ OutcomeOf(j)' = "refunded"
      BY <1>2, <1>4, <2>4, <2>5 DEF OutcomeOf, RefundDue
    <2>10. \A k \in Calls \ {j} : OutcomeOf(k)' = OutcomeOf(k)
      BY <2>6 DEF OutcomeOf
    <2>11. {payments'[i].tx : i \in DOMAIN payments'} \ {NoTx} =
               {payments[i].tx : i \in DOMAIN payments} \ {NoTx}
      BY <2>1, <2>3, CountedTransfers
    <2>12. Ledger!GiveBack(j)
      BY <2>1, <2>7, <2>8, <2>9, <2>10, <2>11 DEF Ledger!GiveBack
    <2> QED BY <2>12 DEF Ledger!LedgerNext
  <1> QED BY <1>3, <1>4

LEMMA DepositCredits ==
  ASSUME TypeInv, NEW tx \in Deposits, NEW amount \in Amounts, CreditDeposit(tx, amount)
  PROVE  Ledger!LedgerNext
  <1> DEFINE p == Payment("deposit", amount, tx)
  <1>1. p \in PaymentRow /\ p.tx = tx /\ tx # NoTx
    BY ChannelAssumption DEF Payment, PaymentRow
  <1>2. payments' = Append(payments, p) /\ UNCHANGED job /\ balance' = balance + amount
    BY DEF CreditDeposit
  <1> HIDE DEF p
  <1>3. \A j \in Calls : ChargeOf(j)' = ChargeOf(j)
    BY <1>1, <1>2, OldCharges
  <1>4. \A j \in Calls : OutcomeOf(j)' = OutcomeOf(j)
    BY <1>2 DEF OutcomeOf
  <1>5. {payments'[i].tx : i \in DOMAIN payments'} \ {NoTx} =
            ({payments[i].tx : i \in DOMAIN payments} \ {NoTx}) \cup {tx}
    BY <1>1, <1>2, CountedTransfers
  <1>6. tx \notin {payments[i].tx : i \in DOMAIN payments} \ {NoTx}
    BY DEF CreditDeposit, Observed
  <1>7. Ledger!Credit(tx, amount)
    BY <1>2, <1>3, <1>4, <1>5, <1>6 DEF Ledger!Credit
  <1> QED BY <1>7 DEF Ledger!LedgerNext

\* A completed job was open: it ran, and only failed jobs are refunded.
LEMMA CompletionDelivers ==
  ASSUME TypeInv, MoneyInv, NEW j \in Calls, job' \in {job, Completed(j)},
         UNCHANGED <<balance, payments>>
  PROVE  Ledger!LedgerNext \/ UNCHANGED Ledger!ledgerVars
  <1>0. job \in [Calls -> JobRow]
    BY DEF TypeInv, TypeOK
  <1>1. CASE UNCHANGED job
    BY <1>1, QuietStep DEF Quiet
  <1>2. CASE job' = [job EXCEPT ![j].status = "complete"] /\ job[j].status = "running"
    <2>1. job[j].refund = 0
      BY <1>2 DEF MoneyInv, RefundMatchesDebit
    <2>2. job'[j].status = "complete" /\ job'[j].debit = job[j].debit
      BY <1>0, <1>2 DEF JobRow
    <2>3. \A k \in Calls \ {j} : job'[k] = job[k]
      BY <1>0, <1>2
    <2>4. \A k \in Calls : ChargeOf(k)' = ChargeOf(k)
      BY <2>2, <2>3 DEF ChargeOf
    <2>5. OutcomeOf(j) = "open" /\ OutcomeOf(j)' = "delivered"
      BY <1>2, <2>1, <2>2 DEF OutcomeOf
    <2>6. \A k \in Calls \ {j} : OutcomeOf(k)' = OutcomeOf(k)
      BY <2>3 DEF OutcomeOf
    <2>7. Ledger!Deliver(j)
      BY <2>4, <2>5, <2>6 DEF Ledger!Deliver
    <2> QED BY <2>7 DEF Ledger!LedgerNext
  <1> QED BY <1>1, <1>2 DEF Completed, Completable

LEMMA LedgerSteps ==
  TypeInv /\ MoneyInv /\ Quoted /\ [Next]_vars => [Ledger!LedgerNext]_(Ledger!ledgerVars)
  <1> SUFFICES ASSUME TypeInv, MoneyInv, Quoted, [Next]_vars
               PROVE  Ledger!LedgerNext \/ UNCHANGED Ledger!ledgerVars
    OBVIOUS
  <1>0. job \in [Calls -> JobRow] /\ BusyHasJob /\ Workers \subseteq Actors
    BY DEF TypeInv, TypeOK, Actors
  <1>1. CASE UNCHANGED <<job, payments, balance>>
    BY <1>1, QuietStep DEF Quiet
  <1>2. ASSUME NEW c \in Calls, CreateJob(c)
        PROVE  Ledger!LedgerNext \/ UNCHANGED Ledger!ledgerVars
    <2> DEFINE r == NewJob(call[c].key)
    <2>1. r.status = "billing_pending" /\ r.debit = 0 /\ r.refund = 0
      BY DEF NewJob, NoRow
    <2>2. job' = job \/ job' = [job EXCEPT ![c] = r]
      BY <1>2 DEF CreateJob
    <2> HIDE DEF r
    <2>3. job[c] = NoRow
      BY <1>2 DEF CreateJob, TypeInv, RowAwaitsCall, Inserting
    <2>4. \A j \in Calls : Quiet(j)
      BY <1>0, <2>1, <2>2, <2>3 DEF Quiet, NoRow
    <2> QED BY <1>2, <2>4, QuietStep DEF CreateJob
  <1>3. ASSUME NEW c \in Calls, FailBilling(c)
        PROVE  Ledger!LedgerNext \/ UNCHANGED Ledger!ledgerVars
    <2>1. \A j \in Calls : Quiet(j)
      BY <1>3, <1>0 DEF FailBilling, Quiet, JobRow
    <2> QED BY <1>3, <2>1, QuietStep DEF FailBilling
  <1>4. ASSUME NEW c \in Calls, QueueUnbilled(c)
        PROVE  Ledger!LedgerNext \/ UNCHANGED Ledger!ledgerVars
    <2>1. \A j \in Calls : Quiet(j)
      BY <1>4, <1>0 DEF QueueUnbilled, Quiet, JobRow
    <2> QED BY <1>4, <2>1, QuietStep DEF QueueUnbilled
  <1>5. ASSUME NEW w \in Workers, ClaimJob(w)
        PROVE  Ledger!LedgerNext \/ UNCHANGED Ledger!ledgerVars
    <2>1. PICK k \in Calls : actor[w].job = k
      BY <1>5, <1>0 DEF ClaimJob, BusyHasJob
    <2>2. \A j \in Calls : Quiet(j)
      BY <1>5, <1>0, <2>1 DEF ClaimJob, Claimable, Quiet, JobRow
    <2> QED BY <1>5, <2>2, QuietStep DEF ClaimJob
  <1>6. ASSUME NEW a \in Actors, MarkFailed(a)
        PROVE  Ledger!LedgerNext \/ UNCHANGED Ledger!ledgerVars
    <2>1. PICK k \in Calls : actor[a].job = k
      BY <1>6, <1>0 DEF MarkFailed, BusyHasJob
    <2>2. \A j \in Calls : Quiet(j)
      BY <1>6, <1>0, <2>1 DEF MarkFailed, Failable, Quiet, JobRow
    <2> QED BY <1>6, <2>2, QuietStep DEF MarkFailed
  <1>7. ASSUME NEW w \in Workers, Complete(w)
        PROVE  Ledger!LedgerNext \/ UNCHANGED Ledger!ledgerVars
    <2>1. PICK k \in Calls : actor[w].job = k
      BY <1>7, <1>0 DEF Complete, BusyHasJob
    <2> QED BY <1>7, <2>1, CompletionDelivers DEF Complete
  <1>8. ASSUME NEW w \in Workers, CompleteThrows(w)
        PROVE  Ledger!LedgerNext \/ UNCHANGED Ledger!ledgerVars
    <2>1. PICK k \in Calls : actor[w].job = k
      BY <1>8, <1>0 DEF CompleteThrows, BusyHasJob
    <2> QED BY <1>8, <2>1, CompletionDelivers DEF CompleteThrows
  <1>9. ASSUME NEW c \in Calls, DebitAndQueue(c)
        PROVE  Ledger!LedgerNext \/ UNCHANGED Ledger!ledgerVars
    BY <1>9, DebitCharges
  <1>10. ASSUME NEW a \in Actors, PayRefund(a)
        PROVE  Ledger!LedgerNext \/ UNCHANGED Ledger!ledgerVars
    BY <1>10, RefundGivesBack
  <1>11. ASSUME NEW tx \in Deposits, NEW amount \in Amounts, CreditDeposit(tx, amount)
        PROVE  Ledger!LedgerNext \/ UNCHANGED Ledger!ledgerVars
    BY <1>11, DepositCredits
  <1> QED
    BY <1>1, <1>2, <1>3, <1>4, <1>5, <1>6, <1>7, <1>8, <1>9, <1>10, <1>11
    DEF Next, Handler, Worker, Settle, Fault, vars, Authenticate, DecideGate, FindExisting, ClaimChallenge, DebitRefused, ScheduleWorker,
        CallDies, StartScheduled, PickUpOrphan, PipelineReturns, PipelineThrows, SelectStuck,
        CheckRefund, ActorDies, ScheduleLost

\* Handlers, workers, ticks and faults together do no more to the owner's money
\* than the abstract ledger: every step is a credit, a charge, a delivery, a
\* refund in full, or no step of the ledger at all.
THEOREM LedgerIsImplemented == Spec => LedgerPromise
  <1>1. Init => Quoted
    BY DEF Init, Quoted, NewCall
  <1>2. Spec => []TypeInv /\ []MoneyInv
    BY TypeInvariant, MoneyInvariant
  <1>3. Spec => []Quoted
    BY <1>1, <1>2, QuotedNext, PTL DEF Spec
  <1> QED BY <1>2, <1>3, LedgerStarts, LedgerSteps, PTL DEF Spec, LedgerPromise, Ledger!LedgerSpec

=============================================================================
