------------------------- MODULE ReviewQueue_proofs -------------------------
(***************************************************************************)
(* Proofs about the review queue, for any number of reviews, deliveries,   *)
(* hooks, ticks and faults.                                                *)
(*                                                                         *)
(* The comment on a pull request is bounded by permits: a review has one   *)
(* to begin with, a fault may add one, and posting a comment spends one    *)
(* (PermitsInv).  The debit is bounded by the one delivery that inserted   *)
(* the row (PayerInv).  While nothing fails a row that runs has a worker   *)
(* which its lease protects, unless the row was refused for its money      *)
(* (CleanInv); with answers that are never lost that holds under faults    *)
(* too (LeaseInv), and a single tick at a time keeps the cap (CapInv).     *)
(***************************************************************************)
EXTENDS ReviewQueue, FiniteSetTheorems, TLAPS

ActorAt ==
    {"idle", "enqueued", "selected", "claiming", "exhausting", "reviewing", "posting", "noting",
     "succeeding", "resettling", "degraded", "retrying", "failing"}
ActorState == [at : ActorAt, review : Reviews \cup {"none"}, attempts : Nat]
Rows ==
    [status : {"absent", "pending", "in_progress", "pending_retry", "done", "failed"},
     attempts : Nat, stale : BOOLEAN, commented : BOOLEAN]
DeliveryState ==
    [at : {"idle", "gated", "debit", "debited", "paid", "unpaid", "answered"},
     review : Reviews \cup {"none"}, gate : {"none", "bypass", "debit", "insufficient"}]

HolderAt == {"reviewing", "posting", "noting", "succeeding", "degraded", "retrying", "failing"}

\* Who is under way has a review, and who holds its lease a row; who settles one again has seen its comment.
TypeInv ==
    /\ TypeOK
    /\ \A a \in Actors :
           /\ actor[a].at # "idle" => actor[a].review \in Reviews
           /\ actor[a].at = "resettling" => row[actor[a].review].commented
           /\ actor[a].at \in HolderAt => row[actor[a].review].status # "absent"
    /\ \A r \in Reviews : row[r].status = "absent" => ~ row[r].commented
    /\ \A d \in Deliveries : delivery[d].at \notin {"idle", "answered"} => delivery[d].review \in Reviews

-----------------------------------------------------------------------------
(* The payer.                                                              *)

\* The delivery that inserted the row, until it is over.
Inserting == {"debit", "debited", "paid", "unpaid"}
Inserter(d, r) == delivery[d].review = r /\ delivery[d].at \in Inserting

\* A row its delivery could not pay for, and never will.
Refused(r) ==
    /\ row[r].status # "absent" /\ ~ legacyPartner /\ debits[r] = 0
    /\ \A d \in Deliveries : ~ (delivery[d].review = r /\ delivery[d].at = "debit")

Paying(d) ==
    LET r == delivery[d].review IN
    /\ delivery[d].at = "gated" => delivery[d].gate = "bypass" \/ ~ legacyPartner
    /\ delivery[d].at \in {"debit", "unpaid"} => ~ legacyPartner /\ debits[r] = 0
    /\ delivery[d].at = "debited" => debits[r] = 1 /\ drawdowns[r] = 0

PayerInv ==
    /\ \A d \in Deliveries : Paying(d)
    /\ \A d, e \in Deliveries, r \in Reviews : Inserter(d, r) /\ Inserter(e, r) => d = e
    /\ \A d \in Deliveries, r \in Reviews : Inserter(d, r) => row[r].status # "absent"
    /\ \A r \in Reviews :
           /\ row[r].status = "absent" => debits[r] = 0
           /\ drawdowns[r] <= debits[r] /\ debits[r] <= 1

-----------------------------------------------------------------------------
(* The permits to comment.                                                 *)

\* A worker that may still comment, or send the row back for a retry.
Spends(s, r) == s.review = r /\ s.at \in {"reviewing", "posting", "degraded", "retrying"}
Spending(r) == {a \in Actors : Spends(actor[a], r)}

Held(r) == \E a \in Actors : Holds(a, r)

\* A row that may be claimed, now or when its lease turns stale.
RowPermits(r) ==
    \/ row[r].status \in {"absent", "pending", "pending_retry"}
    \/ row[r].status = "in_progress" /\ ~ Held(r)

Permits(r) == Cardinality(Spending(r)) + (IF RowPermits(r) THEN 1 ELSE 0)

PermitsInv ==
    \A r \in Reviews :
        /\ comments[r] + Permits(r) <= 1 + faults
        /\ row[r].status = "in_progress" /\ row[r].stale => ~ Held(r)

-----------------------------------------------------------------------------
(* A row that nothing went wrong with.                                     *)

Clean(r) ==
    /\ \A a \in Actors : Holds(a, r) =>
           \/ row[r].status = "in_progress"
           \/ row[r].status = "done" /\ row[r].commented
    /\ row[r].status = "in_progress" => Held(r) /\ ~ row[r].stale
    /\ \A a, b \in Actors : Holds(a, r) /\ Holds(b, r) => a = b
    /\ row[r].commented =>
           /\ row[r].status \in {"in_progress", "done"}
           /\ \A a \in Actors : Holds(a, r) => actor[a].at = "succeeding"

CleanInv == faults = 0 => \A r \in Reviews : Refused(r) \/ Clean(r)

-----------------------------------------------------------------------------
(* The lease under faults, and the cap.                                    *)

LeaseInv ==
    /\ OneLeaseHolder
    /\ \A a \in Actors, r \in Reviews : Holds(a, r) =>
           \/ row[r].status = "failed"
           \/ row[r].status = "in_progress" /\ ~ row[r].stale
           \/ row[r].status = "done" /\ row[r].commented

CapInv ==
    /\ AttemptsWithinCap
    /\ \A r \in Reviews : row[r].status \in {"absent", "pending"} => row[r].attempts = 0
    /\ \A c \in Crons : actor[c].at = "claiming" => row[actor[c].review].attempts < MaxAttempts

-----------------------------------------------------------------------------
(* What a step of an actor is, as seen from the review it is about.        *)

\* Actor a becomes s, the row of review r becomes q.
ActorMoves(a, s, r, q) ==
    /\ a \in Actors /\ s \in ActorState /\ r \in Reviews /\ q \in Rows
    /\ actor' = [actor EXCEPT ![a] = s] /\ row' = [row EXCEPT ![r] = q]
    /\ actor[a].at = "idle" \/ actor[a].review = r
    /\ s.at = "idle" \/ s.review = r
    /\ s.at = "resettling" => q.commented
    /\ s.at \in HolderAt => q.status # "absent"
    /\ q.status = "absent" => row[r].status = "absent" /\ ~ q.commented
    /\ row[r].commented => q.commented
    /\ UNCHANGED <<legacyPartner, debits, drawdowns, delivery>>
    /\ funds' \in Nat /\ apiPaid' \subseteq Reviews /\ scheduled' \subseteq Reviews

Calm == UNCHANGED <<comments, faults>>
Faulty == UNCHANGED comments /\ faults < MaxFaults /\ faults' = faults + 1

\* It comes to the row, or leaves it without a lease.
Approaches(a, s, r, q) ==
    /\ Calm
    /\ actor[a].at \in {"idle", "enqueued", "selected", "claiming", "exhausting"}
    /\ s.at \in {"idle", "enqueued", "selected", "claiming", "exhausting", "resettling"}
    /\ s.at = "claiming" => q.attempts < MaxAttempts
    /\ \/ q = row[r]
       \/ row[r].status = "absent" /\ q = [NoRow EXCEPT !.status = "pending"]
       \/ row[r].status = "in_progress" /\ row[r].stale /\ q = [row[r] EXCEPT !.status = "failed"]

Claims(a, s, r, q) ==
    /\ Calm
    /\ actor[a].at = "claiming" /\ s.at = "reviewing" /\ Claimable(a, r)
    /\ q = [row[r] EXCEPT !.status = "in_progress", !.stale = FALSE, !.attempts = @ + 1]

\* It goes on under its lease: reviews, posts, notes.
GoesOn(a, s, r, q) ==
    /\ UNCHANGED faults
    /\ \/ /\ actor[a].at = "reviewing" /\ q = row[r] /\ UNCHANGED comments
          /\ s.at \in {"posting", "succeeding", "degraded", "retrying", "failing"}
       \/ /\ actor[a].at = "posting" /\ s.at = "noting" /\ q = row[r]
          /\ comments' = [comments EXCEPT ![r] = @ + 1]
       \/ /\ actor[a].at = "noting" /\ s.at = "succeeding" /\ UNCHANGED comments
          /\ q = [row[r] EXCEPT !.commented = TRUE]

Throws(a, s, r, q) ==
    /\ Faulty
    /\ actor[a].at \in {"noting", "succeeding", "degraded"}
    /\ s.at \in {"retrying", "failing"}
    /\ \/ q = row[r]
       \/ LostAnswers /\ actor[a].at = "noting" /\ q = [row[r] EXCEPT !.commented = TRUE]
       \/ LostAnswers /\ actor[a].at \in {"succeeding", "degraded"}
          /\ q = [row[r] EXCEPT !.status = VerdictOf[actor[a].at]]

Concludes(a, s, r, q) ==
    /\ Calm
    /\ actor[a].at \in DOMAIN VerdictOf /\ s.at = "idle"
    /\ q = [row[r] EXCEPT !.status = VerdictOf[actor[a].at]]

Dies(a, s, r, q) == Faulty /\ s.at = "idle" /\ q = row[r]

ActorSteps(a, s, r, q) ==
    /\ ActorMoves(a, s, r, q)
    /\ \/ Approaches(a, s, r, q) \/ Claims(a, s, r, q) \/ GoesOn(a, s, r, q)
       \/ Throws(a, s, r, q) \/ Concludes(a, s, r, q) \/ Dies(a, s, r, q)

LEMMA Typed ==
  ASSUME TypeInv
  PROVE  /\ row \in [Reviews -> Rows] /\ actor \in [Actors -> ActorState]
         /\ delivery \in [Deliveries -> DeliveryState]
         /\ comments \in [Reviews -> Nat] /\ debits \in [Reviews -> Nat] /\ drawdowns \in [Reviews -> Nat]
         /\ legacyPartner \in BOOLEAN /\ funds \in Nat /\ apiPaid \subseteq Reviews
         /\ scheduled \subseteq Reviews /\ faults \in Nat /\ faults \in 0 .. MaxFaults
         /\ Hooks \subseteq Actors /\ Crons \subseteq Actors /\ Hooks \cap Crons = {}
         /\ MaxFaults \in Nat /\ MaxAttempts \in Nat \ {0}
  BY QueueAssumption DEF TypeInv, TypeOK, Rows, ActorState, ActorAt, DeliveryState, VerdictOf, Actors

LEMMA Idles == Idle \in ActorState /\ Idle.at = "idle" /\ Idle.review = "none"
  BY DEF Idle, ActorState, ActorAt

LEMMA FreshRow == [NoRow EXCEPT !.status = "pending"] \in Rows
                  /\ NoRow \in Rows /\ NoRow.status = "absent" /\ NoRow.attempts = 0 /\ ~ NoRow.commented
  BY DEF NoRow, Rows

\* What becomes of rows and actors when an actor moves.
LEMMA Moved ==
  ASSUME TypeInv, NEW a, NEW s, NEW r, NEW q, ActorMoves(a, s, r, q)
  PROVE  /\ row' \in [Reviews -> Rows] /\ row'[r] = q /\ \A o \in Reviews : o # r => row'[o] = row[o]
         /\ actor' \in [Actors -> ActorState] /\ actor'[a] = s
         /\ \A b \in Actors : b # a => actor'[b] = actor[b]
  BY Typed DEF ActorMoves

LEMMA MovesType ==
  ASSUME TypeInv, NEW a, NEW s, NEW r, NEW q, ActorSteps(a, s, r, q)
  PROVE  TypeInv'
  <1>1. ActorMoves(a, s, r, q)
    BY DEF ActorSteps
  <1>2. comments' \in [Reviews -> Nat] /\ faults' \in 0 .. MaxFaults
    <2>1. Calm \/ Faulty \/ GoesOn(a, s, r, q)
      BY DEF ActorSteps, Approaches, Claims, Throws, Concludes, Dies
    <2>2. CASE Calm \/ Faulty
      BY <2>2, Typed DEF Calm, Faulty
    <2>3. CASE GoesOn(a, s, r, q)
      BY <1>1, <2>3, Typed DEF GoesOn, ActorMoves
    <2> QED BY <2>1, <2>2, <2>3
  <1>3. TypeOK'
    BY <1>1, <1>2, Moved, Typed
       DEF ActorMoves, TypeOK, TypeInv, Rows, ActorState, ActorAt, DeliveryState, VerdictOf
  <1>4. \A b \in Actors :
           /\ actor'[b].at # "idle" => actor'[b].review \in Reviews
           /\ actor'[b].at = "resettling" => row'[actor'[b].review].commented
           /\ actor'[b].at \in HolderAt => row'[actor'[b].review].status # "absent"
    <2> TAKE b \in Actors
    <2>1. CASE b = a
      <3>1. actor'[b] = s /\ row'[r] = q
        BY <1>1, <2>1, Moved
      <3>2. /\ r \in Reviews /\ (s.at = "idle" \/ s.review = r)
            /\ s.at = "resettling" => q.commented
            /\ s.at \in HolderAt => q.status # "absent"
        BY <1>1 DEF ActorMoves
      <3> QED BY <3>1, <3>2 DEF HolderAt
    <2>2. CASE b # a
      <3>1. actor'[b] = actor[b]
        BY <1>1, <2>2, Moved
      <3>2. \A o \in Reviews : /\ row[o].commented => row'[o].commented
                               /\ row[o].status # "absent" => row'[o].status # "absent"
        BY <1>1, Moved DEF ActorMoves
      <3> QED BY <3>1, <3>2 DEF TypeInv, HolderAt
    <2> QED BY <2>1, <2>2
  <1>5. \A d \in Deliveries : delivery'[d].at \notin {"idle", "answered"} => delivery'[d].review \in Reviews
    BY <1>1 DEF ActorMoves, TypeInv
  <1>6. \A o \in Reviews : row'[o].status = "absent" => ~ row'[o].commented
    BY <1>1, Moved DEF ActorMoves, TypeInv
  <1> QED BY <1>3, <1>4, <1>5, <1>6 DEF TypeInv

-----------------------------------------------------------------------------
(* Every action of an actor is such a step.                                *)

LEMMA RowStays ==
  ASSUME TypeInv, NEW r \in Reviews, UNCHANGED row
  PROVE  row' = [row EXCEPT ![r] = row[r]] /\ row[r] \in Rows
  BY Typed

\* Loading: what an actor knows of the row is what the row says.
LEMMA LoadSteps ==
  ASSUME TypeInv, NEW a \in Actors, NEW r \in Reviews, Load(a, r),
         actor[a].at \in {"idle", "enqueued", "selected"}, actor[a].at = "idle" \/ actor[a].review = r,
         UNCHANGED <<money, row, comments, delivery, faults>>, scheduled' \subseteq Reviews
  PROVE  \E s, q : ActorSteps(a, s, r, q)
  <1>1. PICK s : s = IF row[r].status \in {"done", "failed"} THEN Idle
                     ELSE [at |-> IF CommentNoted(r) THEN "resettling"
                                  ELSE IF Spent(row[r].attempts) THEN "exhausting" ELSE "claiming",
                           review |-> r, attempts |-> row[r].attempts]
    OBVIOUS
  <1>2. PICK q : q = row[r]
    OBVIOUS
  <1>3. q \in Rows /\ row' = [row EXCEPT ![r] = q]
    BY <1>2, RowStays
  <1>4. /\ s \in ActorState /\ (s.at = "idle" \/ s.review = r)
        /\ s.at \in {"idle", "resettling", "exhausting", "claiming"}
        /\ s.at = "resettling" => q.commented
        /\ s.at = "claiming" => q.attempts < MaxAttempts
        /\ s.at \notin HolderAt /\ (q.status = "absent" => ~ q.commented)
    <2>1. CASE row[r].status \in {"done", "failed"}
      BY <1>1, <1>2, <2>1, Idles DEF HolderAt
    <2>2. CASE row[r].status \notin {"done", "failed"}
      BY <1>1, <1>2, <1>3, <2>2, Typed DEF ActorState, ActorAt, Rows, CommentNoted, Spent, HolderAt, TypeInv
    <2> QED BY <2>1, <2>2
  <1>5. actor' = [actor EXCEPT ![a] = s]
    BY <1>1 DEF Load
  <1>6. ActorMoves(a, s, r, q)
    BY <1>2, <1>3, <1>4, <1>5, Typed DEF ActorMoves, money
  <1>7. Approaches(a, s, r, q)
    BY <1>2, <1>4 DEF Approaches, Calm
  <1> QED BY <1>6, <1>7 DEF ActorSteps

LEMMA LoaderSteps ==
  ASSUME TypeInv, NEW a \in Actors, NEW r \in Reviews,
         StartScheduled(a, r) \/ LoadApi(a) \/ LoadSelected(a)
  PROVE  \E s, o, q : ActorSteps(a, s, o, q)
  <1>1. CASE StartScheduled(a, r)
    BY <1>1, LoadSteps, Typed DEF StartScheduled
  <1>2. CASE LoadApi(a) \/ LoadSelected(a)
    <2>1. PICK o \in Reviews : o = actor[a].review
      BY <1>2 DEF LoadApi, LoadSelected, TypeInv
    <2> QED BY <1>2, <2>1, LoadSteps, Typed DEF LoadApi, LoadSelected
  <1> QED BY <1>1, <1>2

LEMMA StartApiSteps ==
  ASSUME TypeInv, NEW h \in Hooks, NEW r \in Reviews, StartApi(h, r)
  PROVE  \E s, q : ActorSteps(h, s, r, q)
  <1>1. PICK s : s = [Idle EXCEPT !.at = "enqueued", !.review = r]
    OBVIOUS
  <1>2. PICK q : q = Enqueued(r)
    OBVIOUS
  <1>3. s \in ActorState /\ s.at = "enqueued" /\ s.review = r
    BY <1>1 DEF Idle, ActorState, ActorAt
  <1>4. /\ q \in Rows /\ (row[r].commented => q.commented)
        /\ q.status = "absent" => row[r].status = "absent" /\ ~ q.commented
        /\ q = row[r] \/ (row[r].status = "absent" /\ q = [NoRow EXCEPT !.status = "pending"])
    BY <1>2, Typed, FreshRow DEF Enqueued, TypeInv, NoRow
  <1>5. actor' = [actor EXCEPT ![h] = s] /\ row' = [row EXCEPT ![r] = q]
    BY <1>1, <1>2 DEF StartApi
  <1>6. funds' \in Nat /\ apiPaid' \subseteq Reviews
    BY Typed DEF StartApi
  <1>7. ActorMoves(h, s, r, q)
    BY <1>3, <1>4, <1>5, <1>6, Typed DEF ActorMoves, StartApi, HolderAt
  <1>8. Approaches(h, s, r, q)
    BY <1>3, <1>4 DEF Approaches, Calm, StartApi
  <1> QED BY <1>7, <1>8 DEF ActorSteps

LEMMA SelectSteps ==
  ASSUME TypeInv, NEW c \in Crons, NEW r \in Reviews, Select(c, r)
  PROVE  \E s, q : ActorSteps(c, s, r, q)
  <1>1. PICK s : s = [Idle EXCEPT !.at = "selected", !.review = r]
    OBVIOUS
  <1>2. PICK q : q = row[r]
    OBVIOUS
  <1>3. actor' = [actor EXCEPT ![c] = s] /\ s \in ActorState /\ s.at = "selected" /\ s.review = r
    BY <1>1 DEF Idle, ActorState, ActorAt, Select
  <1>4. q \in Rows /\ row' = [row EXCEPT ![r] = q]
    BY <1>2, RowStays DEF Select
  <1>5. ActorMoves(c, s, r, q)
    BY <1>2, <1>3, <1>4, Typed DEF ActorMoves, Select, money, HolderAt, TypeInv
  <1>6. Approaches(c, s, r, q)
    BY <1>2, <1>3 DEF Approaches, Calm, Select
  <1> QED BY <1>5, <1>6 DEF ActorSteps

\* A busy actor, its review and its row.
LEMMA Busy ==
  ASSUME TypeInv, NEW a \in Actors, actor[a].at # "idle"
  PROVE  \E r \in Reviews, q \in Rows : r = actor[a].review /\ q = row[r]
                                        /\ (q.status = "absent" => ~ q.commented)
                                        /\ (actor[a].at \in HolderAt => q.status # "absent")
  BY Typed DEF TypeInv

\* An actor that moves to another place, and what that asks for.
LEMMA GoesTo ==
  ASSUME TypeInv, NEW a \in Actors, NEW r \in Reviews, r = actor[a].review, NEW q \in Rows,
         row' = [row EXCEPT ![r] = q],
         NEW at \in ActorAt \ {"idle", "resettling"}, Step(a, at),
         at \in HolderAt => q.status # "absent",
         q.status = "absent" => row[r].status = "absent" /\ ~ q.commented,
         row[r].commented => q.commented,
         UNCHANGED <<money, delivery, scheduled>>
  PROVE  \E s : s.at = at /\ ActorMoves(a, s, r, q)
  <1>1. PICK s : s = [actor[a] EXCEPT !.at = at]
    OBVIOUS
  <1>2. s \in ActorState /\ s.at = at /\ s.review = r
    BY <1>1, Typed DEF ActorState
  <1>3. actor' = [actor EXCEPT ![a] = s]
    BY <1>1, Typed DEF Step
  <1> QED BY <1>2, <1>3, Typed DEF ActorMoves, money

LEMMA Rests ==
  ASSUME TypeInv, NEW a \in Actors, NEW r \in Reviews, r = actor[a].review, NEW q \in Rows,
         row' = [row EXCEPT ![r] = q], Rest(a),
         q.status = "absent" => row[r].status = "absent" /\ ~ q.commented,
         row[r].commented => q.commented,
         UNCHANGED <<money, delivery, scheduled>>
  PROVE  ActorMoves(a, Idle, r, q)
  BY Idles, Typed DEF ActorMoves, money, Rest, HolderAt

LEMMA ClaimSteps ==
  ASSUME TypeInv, NEW a \in Actors, Claim(a)
  PROVE  \E s, r, q : ActorSteps(a, s, r, q)
  <1>1. PICK r \in Reviews, p \in Rows : /\ r = actor[a].review /\ p = row[r]
                                         /\ p.status = "absent" => ~ p.commented
    BY Busy DEF Claim
  <1>2. Calm /\ UNCHANGED <<money, delivery, scheduled>> /\ actor[a].at = "claiming"
    BY DEF Claim, Calm
  <1>3. CASE Claimable(a, r)
    <2>1. PICK q : q = [p EXCEPT !.status = "in_progress", !.stale = FALSE, !.attempts = @ + 1]
      OBVIOUS
    <2>2. PICK s : s = [actor[a] EXCEPT !.at = "reviewing", !.attempts = @ + 1]
      OBVIOUS
    <2>3. q \in Rows /\ q.status = "in_progress" /\ q.commented = p.commented
      <3>1. p.attempts + 1 \in Nat
        BY DEF Rows
      <3> QED BY <2>1, <3>1 DEF Rows
    <2>4. s \in ActorState /\ s.at = "reviewing" /\ s.review = r
      <3>1. actor[a] \in ActorState /\ actor[a].attempts + 1 \in Nat
        BY Typed DEF ActorState
      <3> QED BY <1>1, <2>2, <3>1 DEF ActorState, ActorAt
    <2>5. actor' = [actor EXCEPT ![a] = s] /\ row' = [row EXCEPT ![r] = q]
      BY <1>1, <1>3, <2>1, <2>2, Typed DEF Claim
    <2>6. ActorMoves(a, s, r, q)
      BY <1>1, <1>2, <2>3, <2>4, <2>5, Typed DEF ActorMoves, money
    <2>7. Claims(a, s, r, q)
      BY <1>1, <1>2, <1>3, <2>1, <2>4 DEF Claims
    <2> QED BY <2>6, <2>7 DEF ActorSteps
  <1>4. CASE ~ Claimable(a, r)
    <2>1. Rest(a) /\ row' = [row EXCEPT ![r] = p]
      BY <1>1, <1>4, Typed DEF Claim
    <2>2. ActorMoves(a, Idle, r, p)
      BY <1>1, <1>2, <2>1, Rests
    <2>3. Approaches(a, Idle, r, p)
      BY <1>1, <1>2, Idles DEF Approaches
    <2> QED BY <2>2, <2>3 DEF ActorSteps
  <1> QED BY <1>3, <1>4

LEMMA ExhaustSteps ==
  ASSUME TypeInv, NEW a \in Actors, Exhaust(a)
  PROVE  \E s, r, q : ActorSteps(a, s, r, q)
  <1>1. PICK r \in Reviews, p \in Rows : /\ r = actor[a].review /\ p = row[r]
                                         /\ p.status = "absent" => ~ p.commented
    BY Busy DEF Exhaust
  <1>2. Calm /\ UNCHANGED <<money, delivery, scheduled>> /\ actor[a].at = "exhausting" /\ Rest(a)
    BY DEF Exhaust, Calm
  <1>3. PICK q : q = IF Exhaustible(r) THEN [p EXCEPT !.status = "failed"] ELSE p
    OBVIOUS
  <1>4. /\ q \in Rows /\ q.commented = p.commented
        /\ q = p \/ (p.status = "in_progress" /\ p.stale /\ q = [p EXCEPT !.status = "failed"])
        /\ q.status = "absent" => p.status = "absent"
    BY <1>1, <1>3 DEF Rows, Exhaustible
  <1>5. row' = [row EXCEPT ![r] = q]
    BY <1>1, <1>3, Typed DEF Exhaust
  <1>6. ActorMoves(a, Idle, r, q)
    BY <1>1, <1>2, <1>4, <1>5, Rests
  <1>7. Approaches(a, Idle, r, q)
    BY <1>1, <1>2, <1>4, Idles DEF Approaches
  <1> QED BY <1>6, <1>7 DEF ActorSteps

LEMMA KernelSteps ==
  ASSUME TypeInv, NEW a \in Actors,
         KernelReturns(a) \/ \E transient \in BOOLEAN : KernelThrows(a, transient)
  PROVE  \E s, r, q : ActorSteps(a, s, r, q)
  <1>1. PICK r \in Reviews, p \in Rows : r = actor[a].review /\ p = row[r] /\ p.status # "absent"
    BY Busy DEF KernelReturns, KernelThrows, HolderAt
  <1>2. Calm /\ UNCHANGED row /\ UNCHANGED <<money, delivery, scheduled>> /\ actor[a].at = "reviewing"
    BY DEF KernelReturns, KernelThrows, Calm
  <1>3. PICK at \in {"posting", "succeeding", "degraded", "retrying", "failing"} : Step(a, at)
    BY DEF KernelReturns, KernelThrows, Caught
  <1>4. row' = [row EXCEPT ![r] = p]
    BY <1>1, <1>2, Typed
  <1>5. PICK s : s.at = at /\ ActorMoves(a, s, r, p)
    <2>1. at \in ActorAt \ {"idle", "resettling"}
      BY <1>3 DEF ActorAt
    <2>2. r = actor[a].review /\ p.status # "absent" /\ (row[r].commented => p.commented)
      BY <1>1
    <2> QED BY <1>2, <1>3, <1>4, <2>1, <2>2, GoesTo
  <1>6. GoesOn(a, s, r, p)
    BY <1>1, <1>2, <1>3, <1>5 DEF GoesOn, Calm
  <1> QED BY <1>5, <1>6 DEF ActorSteps

LEMMA PostSteps ==
  ASSUME TypeInv, NEW a \in Actors, PostComment(a)
  PROVE  \E s, r, q : ActorSteps(a, s, r, q)
  <1>1. PICK r \in Reviews, p \in Rows : r = actor[a].review /\ p = row[r] /\ p.status # "absent"
    BY Busy DEF PostComment, HolderAt
  <1>2. UNCHANGED <<money, delivery, scheduled>> /\ row' = [row EXCEPT ![r] = p]
    BY <1>1, Typed DEF PostComment
  <1>3. PICK s : s.at = "noting" /\ ActorMoves(a, s, r, p)
    <2>1. "noting" \in ActorAt \ {"idle", "resettling"} /\ Step(a, "noting")
      BY DEF ActorAt, PostComment
    <2>2. r = actor[a].review /\ p.status # "absent" /\ (row[r].commented => p.commented)
      BY <1>1
    <2> QED BY <1>2, <2>1, <2>2, GoesTo
  <1>4. GoesOn(a, s, r, p)
    BY <1>1, <1>3 DEF GoesOn, PostComment
  <1> QED BY <1>3, <1>4 DEF ActorSteps

LEMMA NoteSteps ==
  ASSUME TypeInv, NEW a \in Actors, NoteComment(a)
  PROVE  \E s, r, q : ActorSteps(a, s, r, q)
  <1>1. PICK r \in Reviews, p \in Rows : r = actor[a].review /\ p = row[r] /\ p.status # "absent"
    BY Busy DEF NoteComment, HolderAt
  <1>2. PICK q : q = [p EXCEPT !.commented = TRUE]
    OBVIOUS
  <1>3. q \in Rows /\ q.commented /\ q.status # "absent"
    BY <1>1, <1>2 DEF Rows
  <1>4. UNCHANGED <<money, delivery, scheduled, faults>> /\ row' = [row EXCEPT ![r] = q]
    BY <1>1, <1>2, Typed DEF NoteComment, Noted
  <1>5. PICK s : s.at = "succeeding" /\ ActorMoves(a, s, r, q)
    BY <1>1, <1>3, <1>4, GoesTo DEF ActorAt, NoteComment
  <1>6. GoesOn(a, s, r, q)
    BY <1>1, <1>2, <1>5 DEF GoesOn, NoteComment
  <1> QED BY <1>5, <1>6 DEF ActorSteps

LEMMA ThrowSteps ==
  ASSUME TypeInv, NEW a \in Actors, NEW transient \in BOOLEAN, TryThrows(a, transient)
  PROVE  \E s, r, q : ActorSteps(a, s, r, q)
  <1>1. PICK r \in Reviews, p \in Rows : r = actor[a].review /\ p = row[r] /\ p.status # "absent"
    BY Busy DEF TryThrows, HolderAt
  <1>2. /\ UNCHANGED <<money, delivery, scheduled>> /\ Faulty
        /\ actor[a].at \in {"noting", "succeeding", "degraded"}
    BY DEF TryThrows, Faulty
  <1>3. PICK at \in {"retrying", "failing"} : Step(a, at)
    BY DEF TryThrows, Caught
  <1>4. PICK q : /\ row' = [row EXCEPT ![r] = q]
                 /\ \/ q = p
                    \/ LostAnswers /\ actor[a].at = "noting" /\ q = [p EXCEPT !.commented = TRUE]
                    \/ LostAnswers /\ actor[a].at \in {"succeeding", "degraded"}
                       /\ q = [p EXCEPT !.status = VerdictOf[actor[a].at]]
    <2>1. CASE UNCHANGED row
      BY <1>1, <2>1, Typed
    <2>2. CASE LostAnswers /\ actor[a].at = "noting" /\ row' = Noted(a)
      BY <1>1, <2>2, Typed DEF Noted
    <2>3. CASE LostAnswers /\ actor[a].at # "noting" /\ row' = Concluded(a)
      BY <1>1, <1>2, <2>3, Typed DEF Concluded
    <2> QED BY <2>1, <2>2, <2>3 DEF TryThrows
  <1>5. q \in Rows /\ q.status # "absent" /\ (p.commented => q.commented)
    <2>1. CASE q = p
      BY <1>1, <2>1
    <2>2. CASE q = [p EXCEPT !.commented = TRUE]
      BY <1>1, <2>2 DEF Rows
    <2>3. CASE actor[a].at \in {"succeeding", "degraded"} /\ q = [p EXCEPT !.status = VerdictOf[actor[a].at]]
      <3>1. VerdictOf[actor[a].at] \in {"done", "pending_retry"}
        BY <2>3 DEF VerdictOf
      <3> QED BY <2>3, <3>1 DEF Rows
    <2> QED BY <1>4, <2>1, <2>2, <2>3
  <1>6. PICK s : s.at = at /\ ActorMoves(a, s, r, q)
    <2>1. at \in ActorAt \ {"idle", "resettling"}
      BY <1>3 DEF ActorAt
    <2> QED BY <1>1, <1>2, <1>3, <1>4, <1>5, <2>1, GoesTo
  <1>7. Throws(a, s, r, q)
    BY <1>1, <1>2, <1>3, <1>4, <1>6 DEF Throws
  <1> QED BY <1>6, <1>7 DEF ActorSteps

LEMMA ConcludeSteps ==
  ASSUME TypeInv, NEW a \in Actors, Conclude(a)
  PROVE  \E s, r, q : ActorSteps(a, s, r, q)
  <1>1. PICK r \in Reviews, p \in Rows : r = actor[a].review /\ p = row[r]
    BY Busy DEF Conclude, VerdictOf
  <1>2. PICK q : q = [p EXCEPT !.status = VerdictOf[actor[a].at]]
    OBVIOUS
  <1>3. q \in Rows /\ q.status # "absent" /\ q.commented = p.commented
    BY <1>1, <1>2 DEF Rows, VerdictOf, Conclude
  <1>4. row' = [row EXCEPT ![r] = q] /\ Calm /\ UNCHANGED <<money, delivery, scheduled>>
    BY <1>1, <1>2, Typed DEF Conclude, Concluded, Calm
  <1>5. ActorMoves(a, Idle, r, q)
    BY <1>1, <1>3, <1>4, Rests DEF Conclude
  <1>6. Concludes(a, Idle, r, q)
    BY <1>1, <1>2, <1>4, Idles DEF Concludes, Conclude
  <1> QED BY <1>5, <1>6 DEF ActorSteps

LEMMA DiesSteps ==
  ASSUME TypeInv, NEW a \in Actors, ActorDies(a)
  PROVE  \E s, r, q : ActorSteps(a, s, r, q)
  <1>1. PICK r \in Reviews, p \in Rows : /\ r = actor[a].review /\ p = row[r]
                                         /\ p.status = "absent" => ~ p.commented
    BY Busy DEF ActorDies
  <1>2. row' = [row EXCEPT ![r] = p] /\ Faulty /\ UNCHANGED <<money, delivery, scheduled>>
    BY <1>1, Typed DEF ActorDies, Faulty
  <1>3. ActorMoves(a, Idle, r, p)
    BY <1>1, <1>2, Rests DEF ActorDies
  <1>4. Dies(a, Idle, r, p)
    BY <1>1, <1>2, Idles DEF Dies
  <1> QED BY <1>3, <1>4 DEF ActorSteps

LEMMA ActorActions ==
  ASSUME TypeInv,
         \/ \E h \in Hooks, r \in Reviews : StartScheduled(h, r) \/ StartApi(h, r)
         \/ \E h \in Hooks : LoadApi(h)
         \/ \E c \in Crons, r \in Reviews : Select(c, r)
         \/ \E c \in Crons : LoadSelected(c)
         \/ \E a \in Actors : Work(a) \/ ActorDies(a)
         \/ \E a \in Actors, transient \in BOOLEAN : TryThrows(a, transient)
  PROVE  \E a, s, r, q : ActorSteps(a, s, r, q)
  <1>1. ASSUME NEW h \in Hooks, NEW r \in Reviews, StartScheduled(h, r) \/ StartApi(h, r)
        PROVE  \E a, s, o, q : ActorSteps(a, s, o, q)
    BY <1>1, LoaderSteps, StartApiSteps, Typed
  <1>2. ASSUME NEW h \in Hooks, LoadApi(h)
        PROVE  \E a, s, o, q : ActorSteps(a, s, o, q)
    <2>1. actor[h].review \in Reviews
      BY <1>2, Typed DEF LoadApi, TypeInv
    <2> QED BY <1>2, <2>1, LoaderSteps, Typed
  <1>3. ASSUME NEW c \in Crons, NEW r \in Reviews, Select(c, r)
        PROVE  \E a, s, o, q : ActorSteps(a, s, o, q)
    BY <1>3, SelectSteps
  <1>4. ASSUME NEW c \in Crons, LoadSelected(c)
        PROVE  \E a, s, o, q : ActorSteps(a, s, o, q)
    <2>1. actor[c].review \in Reviews
      BY <1>4, Typed DEF LoadSelected, TypeInv
    <2> QED BY <1>4, <2>1, LoaderSteps, Typed
  <1>5. ASSUME NEW a \in Actors, Work(a) \/ ActorDies(a)
        PROVE  \E b, s, o, q : ActorSteps(b, s, o, q)
    <2>1. CASE Claim(a) \/ Exhaust(a)
      BY <2>1, ClaimSteps, ExhaustSteps
    <2>2. CASE KernelReturns(a) \/ \E transient \in BOOLEAN : KernelThrows(a, transient)
      BY <2>2, KernelSteps
    <2>3. CASE PostComment(a) \/ NoteComment(a)
      BY <2>3, PostSteps, NoteSteps
    <2>4. CASE Conclude(a) \/ ActorDies(a)
      BY <2>4, ConcludeSteps, DiesSteps
    <2> QED BY <1>5, <2>1, <2>2, <2>3, <2>4 DEF Work
  <1>6. ASSUME NEW a \in Actors, NEW transient \in BOOLEAN, TryThrows(a, transient)
        PROVE  \E b, s, o, q : ActorSteps(b, s, o, q)
    BY <1>6, ThrowSteps
  <1> QED BY <1>1, <1>2, <1>3, <1>4, <1>5, <1>6

-----------------------------------------------------------------------------
(* The steps of a delivery.                                                *)

\* The sums of review r alone may change.
Sums(r) ==
    /\ funds' \in Nat /\ scheduled' \subseteq Reviews
    /\ faults' \in 0 .. MaxFaults /\ faults' >= faults
    /\ debits' \in [Reviews -> Nat] /\ drawdowns' \in [Reviews -> Nat]
    /\ \A o \in Reviews : o # r => debits'[o] = debits[o] /\ drawdowns'[o] = drawdowns[o]

\* Delivery d becomes e, the row of its review r becomes q.
DeliveryMoves(d, e, r, q) ==
    /\ d \in Deliveries /\ e \in DeliveryState /\ r \in Reviews /\ q \in Rows
    /\ delivery' = [delivery EXCEPT ![d] = e] /\ row' = [row EXCEPT ![r] = q]
    /\ delivery[d].at = "idle" \/ delivery[d].review = r
    /\ e.at # "idle" /\ e.review = r
    /\ q.status = "absent" => row[r].status = "absent"
    /\ UNCHANGED <<legacyPartner, apiPaid, comments, actor>>
    /\ Sums(r)

\* What it does to the row, and what for.
Inserts(d, e, r, q) ==
    /\ delivery[d].at = "gated" /\ row[r].status = "absent"
    /\ q = [NoRow EXCEPT !.status = "pending"]
    /\ e.at \in {"paid", "debit", "unpaid"} /\ (e.at # "paid" => delivery[d].gate # "bypass")
    /\ UNCHANGED <<debits, drawdowns, faults>>
Refuses(d, e, r, q) ==
    /\ delivery[d].at = "unpaid" /\ e.at = "answered"
    /\ q = [row[r] EXCEPT !.status = "failed"]
    /\ UNCHANGED <<debits, drawdowns, faults>>
Pays(d, e, r, q) ==
    /\ q = row[r]
    /\ \/ /\ delivery[d].at = "debit" /\ e.at = "debited"
          /\ debits'[r] = debits[r] + 1 /\ drawdowns' = drawdowns
       \/ /\ delivery[d].at = "debit" /\ e.at = "unpaid" /\ UNCHANGED <<debits, drawdowns>>
       \/ /\ delivery[d].at = "debited" /\ e.at = "paid" /\ debits' = debits
          /\ drawdowns'[r] \in {drawdowns[r], drawdowns[r] + 1}
Passes(d, e, r, q) ==
    /\ q = row[r] /\ UNCHANGED <<debits, drawdowns>>
    /\ \/ e.at = "answered"
       \/ e.at = "gated" /\ (e.gate = "bypass" \/ ~ legacyPartner)

DeliverySteps(d, e, r, q) ==
    /\ DeliveryMoves(d, e, r, q)
    /\ Inserts(d, e, r, q) \/ Refuses(d, e, r, q) \/ Pays(d, e, r, q) \/ Passes(d, e, r, q)

LEMMA SameSums ==
  ASSUME TypeInv, NEW r \in Reviews, UNCHANGED <<funds, debits, drawdowns>>,
         scheduled' \subseteq Reviews, faults' \in 0 .. MaxFaults, faults' >= faults
  PROVE  Sums(r)
  BY Typed DEF Sums

LEMMA DecideGateSteps ==
  ASSUME TypeInv, NEW d \in Deliveries, NEW r \in Reviews, DecideGate(d, r)
  PROVE  \E e, q : DeliverySteps(d, e, r, q)
  <1>1. PICK e : e = [at |-> "gated", review |-> r,
                      gate |-> IF legacyPartner THEN "bypass"
                               ELSE IF funds > 0 THEN "debit" ELSE "insufficient"]
    OBVIOUS
  <1>2. PICK q : q = row[r]
    OBVIOUS
  <1>3. /\ e \in DeliveryState /\ e.at = "gated" /\ e.review = r
        /\ e.gate = "bypass" \/ ~ legacyPartner
    BY <1>1, Typed DEF DeliveryState
  <1>4. q \in Rows /\ row' = [row EXCEPT ![r] = q]
    BY <1>2, Typed DEF DecideGate
  <1>5. delivery' = [delivery EXCEPT ![d] = e]
    BY <1>1 DEF DecideGate
  <1>6. DeliveryMoves(d, e, r, q)
    <2>1. Sums(r)
      BY SameSums, Typed DEF DecideGate, money
    <2> QED BY <1>2, <1>3, <1>4, <1>5, <2>1 DEF DeliveryMoves, DecideGate, money
  <1>7. Passes(d, e, r, q)
    BY <1>2, <1>3 DEF Passes, DecideGate, money
  <1> QED BY <1>6, <1>7 DEF DeliverySteps

\* A delivery under way goes to another place.
LEMMA DeliveryGoes ==
  ASSUME TypeInv, NEW d \in Deliveries, NEW r \in Reviews, r = delivery[d].review,
         NEW q \in Rows, row' = [row EXCEPT ![r] = q],
         q.status = "absent" => row[r].status = "absent",
         NEW at \in {"debit", "debited", "paid", "unpaid", "answered"}, Goto(d, at),
         UNCHANGED <<legacyPartner, apiPaid, comments, actor>>, Sums(r)
  PROVE  \E e : e.at = at /\ DeliveryMoves(d, e, r, q)
  <1>1. PICK e : e = [delivery[d] EXCEPT !.at = at]
    OBVIOUS
  <1>2. e \in DeliveryState /\ e.at = at /\ e.review = r
    BY <1>1, Typed DEF DeliveryState
  <1>3. delivery' = [delivery EXCEPT ![d] = e]
    BY <1>1, Typed DEF Goto
  <1> QED BY <1>2, <1>3 DEF DeliveryMoves

LEMMA EnqueueSteps ==
  ASSUME TypeInv, NEW d \in Deliveries, Enqueue(d)
  PROVE  \E e, r, q : DeliverySteps(d, e, r, q)
  <1>1. PICK r \in Reviews : r = delivery[d].review
    BY DEF Enqueue, TypeInv
  <1>2. PICK q \in Rows : q = Enqueued(r)
    BY Typed, FreshRow DEF Enqueued
  <1>3. row' = [row EXCEPT ![r] = q] /\ q.status # "absent"
    BY <1>1, <1>2 DEF Enqueue, Enqueued, NoRow
  <1>4. /\ delivery[d].at = "gated" /\ UNCHANGED <<legacyPartner, apiPaid, comments, actor>>
        /\ UNCHANGED <<funds, scheduled, faults, debits, drawdowns>>
    BY DEF Enqueue, money
  <1>5. PICK at \in {"debit", "paid", "unpaid", "answered"} :
            /\ Goto(d, at)
            /\ ~ IsNew(r) => at = "answered"
            /\ IsNew(r) => at # "answered" /\ (at # "paid" => delivery[d].gate # "bypass")
    BY <1>1 DEF Enqueue
  <1>6. PICK e : e.at = at /\ DeliveryMoves(d, e, r, q)
    <2>1. at \in {"debit", "debited", "paid", "unpaid", "answered"} /\ r = delivery[d].review
      BY <1>1
    <2>2. Sums(r)
      BY <1>4, SameSums, Typed
    <2>3. Goto(d, at) /\ UNCHANGED <<legacyPartner, apiPaid, comments, actor>>
      BY <1>4, <1>5
    <2>4. CASE at = "answered"
      BY <1>3, <2>1, <2>2, <2>3, <2>4, DeliveryGoes
    <2>5. CASE at = "debit"
      BY <1>3, <2>1, <2>2, <2>3, <2>5, DeliveryGoes
    <2>6. CASE at = "paid"
      BY <1>3, <2>1, <2>2, <2>3, <2>6, DeliveryGoes
    <2>7. CASE at = "unpaid"
      BY <1>3, <2>1, <2>2, <2>3, <2>7, DeliveryGoes
    <2> QED BY <2>4, <2>5, <2>6, <2>7
  <1>7. Inserts(d, e, r, q) \/ Passes(d, e, r, q)
    BY <1>2, <1>4, <1>5, <1>6 DEF Inserts, Passes, IsNew, Enqueued
  <1> QED BY <1>6, <1>7 DEF DeliverySteps

LEMMA DebitSteps ==
  ASSUME TypeInv, NEW d \in Deliveries, Debit(d)
  PROVE  \E e, r, q : DeliverySteps(d, e, r, q)
  <1>1. PICK r \in Reviews, q \in Rows : r = delivery[d].review /\ q = row[r]
    BY Typed DEF Debit, TypeInv
  <1>2. /\ delivery[d].at = "debit" /\ UNCHANGED <<legacyPartner, apiPaid, comments, actor>>
        /\ UNCHANGED <<scheduled, faults, drawdowns>> /\ row' = [row EXCEPT ![r] = q]
    BY <1>1, Typed DEF Debit
  <1>3. CASE DebitCovered
    <2>1. /\ funds' \in Nat /\ debits' \in [Reviews -> Nat] /\ debits'[r] = debits[r] + 1
          /\ \A o \in Reviews : o # r => debits'[o] = debits[o]
          /\ Goto(d, "debited")
      BY <1>1, <1>3, Typed DEF Debit, DebitCovered
    <2>2. PICK e : e.at = "debited" /\ DeliveryMoves(d, e, r, q)
      <3>1. Sums(r)
        BY <1>2, <2>1, Typed DEF Sums
      <3> QED BY <1>1, <1>2, <2>1, <3>1, DeliveryGoes
    <2>3. Pays(d, e, r, q)
      BY <1>1, <1>2, <2>1, <2>2 DEF Pays
    <2> QED BY <2>2, <2>3 DEF DeliverySteps
  <1>4. CASE ~ DebitCovered
    <2>1. UNCHANGED <<funds, debits>> /\ Goto(d, "unpaid")
      BY <1>4 DEF Debit
    <2>2. PICK e : e.at = "unpaid" /\ DeliveryMoves(d, e, r, q)
      <3>1. Sums(r)
        BY <1>2, <2>1, Typed DEF Sums
      <3> QED BY <1>1, <1>2, <2>1, <3>1, DeliveryGoes
    <2>3. Pays(d, e, r, q)
      BY <1>1, <1>2, <2>1, <2>2 DEF Pays
    <2> QED BY <2>2, <2>3 DEF DeliverySteps
  <1> QED BY <1>3, <1>4

LEMMA RecordDrawdownSteps ==
  ASSUME TypeInv, NEW d \in Deliveries, RecordDrawdown(d)
  PROVE  \E e, r, q : DeliverySteps(d, e, r, q)
  <1>1. PICK r \in Reviews, q \in Rows : r = delivery[d].review /\ q = row[r]
    BY Typed DEF RecordDrawdown, TypeInv
  <1>2. /\ delivery[d].at = "debited" /\ UNCHANGED <<legacyPartner, apiPaid, comments, actor>>
        /\ UNCHANGED <<scheduled, funds, debits>> /\ row' = [row EXCEPT ![r] = q] /\ Goto(d, "paid")
    BY <1>1, Typed DEF RecordDrawdown
  <1>3. /\ faults' \in 0 .. MaxFaults /\ faults' >= faults
        /\ drawdowns' \in [Reviews -> Nat] /\ drawdowns'[r] \in {drawdowns[r], drawdowns[r] + 1}
        /\ \A o \in Reviews : o # r => drawdowns'[o] = drawdowns[o]
    BY <1>1, Typed DEF RecordDrawdown
  <1>4. PICK e : e.at = "paid" /\ DeliveryMoves(d, e, r, q)
    <2>1. Sums(r)
      BY <1>2, <1>3, Typed DEF Sums
    <2> QED BY <1>1, <1>2, <2>1, DeliveryGoes
  <1>5. Pays(d, e, r, q)
    BY <1>1, <1>2, <1>3, <1>4 DEF Pays
  <1> QED BY <1>4, <1>5 DEF DeliverySteps

LEMMA AnswerSteps ==
  ASSUME TypeInv, NEW d \in Deliveries, FailInsufficient(d) \/ ScheduleWorker(d)
  PROVE  \E e, r, q : DeliverySteps(d, e, r, q)
  <1>1. PICK r \in Reviews, p \in Rows : r = delivery[d].review /\ p = row[r]
    BY Typed DEF FailInsufficient, ScheduleWorker, TypeInv
  <1>2. /\ UNCHANGED <<legacyPartner, apiPaid, comments, actor>> /\ Goto(d, "answered")
        /\ UNCHANGED <<funds, debits, drawdowns, faults>> /\ scheduled' \subseteq Reviews
    BY <1>1, Typed DEF FailInsufficient, ScheduleWorker, money
  <1>3. CASE FailInsufficient(d)
    <2>1. PICK q : q = [p EXCEPT !.status = "failed"]
      OBVIOUS
    <2>2. q \in Rows /\ q.status = "failed" /\ row' = [row EXCEPT ![r] = q]
      BY <1>1, <1>3, <2>1, Typed DEF Rows, FailInsufficient, SetStatus
    <2>3. PICK e : e.at = "answered" /\ DeliveryMoves(d, e, r, q)
      <3>1. Sums(r)
        BY <1>2, SameSums, Typed
      <3> QED BY <1>1, <1>2, <2>2, <3>1, DeliveryGoes
    <2>4. Refuses(d, e, r, q)
      BY <1>1, <1>2, <1>3, <2>1, <2>3 DEF Refuses, FailInsufficient
    <2> QED BY <2>3, <2>4 DEF DeliverySteps
  <1>4. CASE ScheduleWorker(d)
    <2>1. row' = [row EXCEPT ![r] = p]
      BY <1>1, <1>4, Typed DEF ScheduleWorker
    <2>2. PICK e : e.at = "answered" /\ DeliveryMoves(d, e, r, p)
      <3>1. Sums(r)
        BY <1>2, SameSums, Typed
      <3> QED BY <1>1, <1>2, <2>1, <3>1, DeliveryGoes
    <2>3. Passes(d, e, r, p)
      BY <1>1, <1>2, <2>2 DEF Passes
    <2> QED BY <2>2, <2>3 DEF DeliverySteps
  <1> QED BY <1>3, <1>4

LEMMA DeliveryDiesSteps ==
  ASSUME TypeInv, NEW d \in Deliveries, DeliveryDies(d)
  PROVE  \E e, r, q : DeliverySteps(d, e, r, q)
  <1>1. PICK r \in Reviews, q \in Rows : r = delivery[d].review /\ q = row[r]
    BY Typed DEF DeliveryDies, TypeInv
  <1>2. /\ UNCHANGED <<legacyPartner, apiPaid, comments, actor>> /\ Goto(d, "answered")
        /\ UNCHANGED <<funds, debits, drawdowns, scheduled>> /\ row' = [row EXCEPT ![r] = q]
        /\ faults' \in 0 .. MaxFaults /\ faults' >= faults
    BY <1>1, Typed DEF DeliveryDies, money
  <1>3. PICK e : e.at = "answered" /\ DeliveryMoves(d, e, r, q)
    <2>1. Sums(r)
      BY <1>2, SameSums, Typed
    <2> QED BY <1>1, <1>2, <2>1, DeliveryGoes
  <1>4. Passes(d, e, r, q)
    BY <1>1, <1>2, <1>3 DEF Passes
  <1> QED BY <1>3, <1>4 DEF DeliverySteps

LEMMA DeliveryActions ==
  ASSUME TypeInv,
         \/ \E d \in Deliveries, r \in Reviews : DecideGate(d, r)
         \/ \E d \in Deliveries : Handler(d) \/ DeliveryDies(d)
  PROVE  \E d, e, r, q : DeliverySteps(d, e, r, q)
  <1>1. ASSUME NEW d \in Deliveries, NEW r \in Reviews, DecideGate(d, r)
        PROVE  \E f, e, o, q : DeliverySteps(f, e, o, q)
    BY <1>1, DecideGateSteps
  <1>2. ASSUME NEW d \in Deliveries, Handler(d) \/ DeliveryDies(d)
        PROVE  \E f, e, o, q : DeliverySteps(f, e, o, q)
    BY <1>2, EnqueueSteps, DebitSteps, RecordDrawdownSteps, AnswerSteps, DeliveryDiesSteps DEF Handler
  <1> QED BY <1>1, <1>2


-----------------------------------------------------------------------------
(* The kinds of steps, and the types they keep.                            *)

\* A scheduled worker gets lost, or nothing happens.
Quiet ==
    /\ UNCHANGED <<money, row, comments, delivery, actor>>
    /\ scheduled' \subseteq Reviews /\ faults' \in 0 .. MaxFaults /\ faults' >= faults

LEMMA Kinds ==
  ASSUME TypeInv, [Next]_vars
  PROVE  \/ \E a, s, r, q : ActorSteps(a, s, r, q)
         \/ \E d, e, r, q : DeliverySteps(d, e, r, q)
         \/ \E r \in Reviews : LeaseTurnsStale(r)
         \/ Quiet
  <1>1. CASE \/ \E h \in Hooks, r \in Reviews : StartScheduled(h, r) \/ StartApi(h, r)
             \/ \E h \in Hooks : LoadApi(h)
             \/ \E c \in Crons, r \in Reviews : Select(c, r)
             \/ \E c \in Crons : LoadSelected(c)
             \/ \E a \in Actors : Work(a) \/ ActorDies(a)
             \/ \E a \in Actors, transient \in BOOLEAN : TryThrows(a, transient)
    BY <1>1, ActorActions
  <1>2. CASE \/ \E d \in Deliveries, r \in Reviews : DecideGate(d, r)
             \/ \E d \in Deliveries : Handler(d) \/ DeliveryDies(d)
    BY <1>2, DeliveryActions
  <1>3. CASE \E r \in Reviews : ScheduleLost(r)
    BY <1>3, Typed DEF ScheduleLost, Quiet
  <1>4. CASE UNCHANGED vars
    BY <1>4, Typed DEF vars, money, Quiet
  <1>5. CASE Next
    BY <1>1, <1>2, <1>3, <1>5 DEF Next, Fault
  <1> QED BY <1>4, <1>5

LEMMA DeliveryMoved ==
  ASSUME TypeInv, NEW d, NEW e, NEW r, NEW q, DeliveryMoves(d, e, r, q)
  PROVE  /\ row' \in [Reviews -> Rows] /\ row'[r] = q /\ \A o \in Reviews : o # r => row'[o] = row[o]
         /\ delivery' \in [Deliveries -> DeliveryState] /\ delivery'[d] = e
         /\ \A f \in Deliveries : f # d => delivery'[f] = delivery[f]
  BY Typed DEF DeliveryMoves

LEMMA DeliveryType ==
  ASSUME TypeInv, NEW d, NEW e, NEW r, NEW q, DeliverySteps(d, e, r, q)
  PROVE  TypeInv'
  <1>1. DeliveryMoves(d, e, r, q)
    BY DEF DeliverySteps
  <1>2. q.commented = row[r].commented
    BY Typed, <1>1 DEF DeliverySteps, DeliveryMoves, Inserts, Refuses, Pays, Passes, TypeInv, NoRow, Rows
  <1>3. TypeOK'
    BY <1>1, DeliveryMoved, Typed
       DEF DeliveryMoves, Sums, TypeOK, TypeInv, Rows, ActorState, ActorAt, DeliveryState, VerdictOf
  <1>4. q.status = "absent" => row[r].status = "absent" /\ ~ q.commented
    BY <1>1, <1>2 DEF DeliveryMoves, TypeInv
  <1>5. \A o \in Reviews : /\ row'[o].commented = row[o].commented
                           /\ row'[o].status = "absent" => row[o].status = "absent"
    BY <1>1, <1>2, <1>4, DeliveryMoved DEF DeliveryMoves
  <1>6. \A a \in Actors :
           /\ actor'[a].at # "idle" => actor'[a].review \in Reviews
           /\ actor'[a].at = "resettling" => row'[actor'[a].review].commented
           /\ actor'[a].at \in HolderAt => row'[actor'[a].review].status # "absent"
    BY <1>1, <1>5 DEF TypeInv, DeliveryMoves, HolderAt
  <1>7. \A o \in Reviews : row'[o].status = "absent" => ~ row'[o].commented
    BY <1>5 DEF TypeInv
  <1>8. \A f \in Deliveries : delivery'[f].at \notin {"idle", "answered"} => delivery'[f].review \in Reviews
    BY <1>1, DeliveryMoved DEF DeliveryMoves, TypeInv
  <1> QED BY <1>3, <1>6, <1>7, <1>8 DEF TypeInv

\* A lease turns stale: only that changes.
LEMMA Stale ==
  ASSUME TypeInv, NEW r \in Reviews, LeaseTurnsStale(r)
  PROVE  /\ row' \in [Reviews -> Rows] /\ row'[r] = [row[r] EXCEPT !.stale = TRUE]
         /\ \A o \in Reviews :
                /\ o # r => row'[o] = row[o]
                /\ row'[o].status = row[o].status /\ row'[o].commented = row[o].commented
                /\ row'[o].attempts = row[o].attempts
  BY Typed DEF LeaseTurnsStale, Rows

LEMMA StaleType ==
  ASSUME TypeInv, NEW r \in Reviews, LeaseTurnsStale(r)
  PROVE  TypeInv'
  <1>1. UNCHANGED <<legacyPartner, funds, debits, drawdowns, apiPaid, comments, delivery, scheduled, actor, faults>>
    BY DEF LeaseTurnsStale, money
  <1>2. TypeOK'
    BY <1>1, Stale, Typed DEF TypeOK, TypeInv, Rows, ActorState, ActorAt, DeliveryState, VerdictOf
  <1> QED BY <1>1, <1>2, Stale DEF TypeInv, HolderAt

LEMMA QuietType ==
  ASSUME TypeInv, Quiet
  PROVE  TypeInv'
  BY DEF TypeInv, TypeOK, Quiet, money, HolderAt

LEMMA TypeStep == TypeInv /\ [Next]_vars => TypeInv'
  BY Kinds, MovesType, DeliveryType, StaleType, QuietType


-----------------------------------------------------------------------------
(* A review is debited by the delivery that inserted it, once.             *)

\* Steps that leave the money and the deliveries alone insert at most a row.
LEMMA PayerRests ==
  ASSUME TypeInv, PayerInv, UNCHANGED <<legacyPartner, debits, drawdowns, delivery>>,
         \A r \in Reviews : row'[r].status = "absent" => row[r].status = "absent"
  PROVE  /\ PayerInv'
         /\ \A r \in Reviews : Refused(r) => Refused(r)'
  BY DEF PayerInv, Paying, Inserter, Inserting, Refused

LEMMA PayerInvOfDelivery ==
  ASSUME TypeInv, PayerInv, NEW d, NEW e, NEW r, NEW q, DeliverySteps(d, e, r, q)
  PROVE  PayerInv'
  <1>1. DeliveryMoves(d, e, r, q)
    BY DEF DeliverySteps
  <1>2. /\ d \in Deliveries /\ r \in Reviews /\ e.review = r
        /\ delivery'[d] = e /\ \A f \in Deliveries : f # d => delivery'[f] = delivery[f]
        /\ \A o \in Reviews : o # r => /\ row'[o] = row[o] /\ debits'[o] = debits[o]
                                       /\ drawdowns'[o] = drawdowns[o]
        /\ row'[r] = q /\ legacyPartner' = legacyPartner
        /\ q.status = "absent" => row[r].status = "absent"
        /\ delivery[d].at = "idle" \/ delivery[d].review = r
    <2>1. /\ d \in Deliveries /\ r \in Reviews /\ e.review = r /\ legacyPartner' = legacyPartner
          /\ q.status = "absent" => row[r].status = "absent"
          /\ delivery[d].at = "idle" \/ delivery[d].review = r
          /\ Sums(r)
      BY <1>1 DEF DeliveryMoves
    <2>2. \A o \in Reviews : o # r => debits'[o] = debits[o] /\ drawdowns'[o] = drawdowns[o]
      BY <2>1 DEF Sums
    <2>3. /\ row'[r] = q /\ \A o \in Reviews : o # r => row'[o] = row[o]
          /\ delivery'[d] = e /\ \A f \in Deliveries : f # d => delivery'[f] = delivery[f]
      BY <1>1, DeliveryMoved
    <2> QED BY <2>1, <2>2, <2>3
  <1>3. /\ debits[r] \in Nat /\ drawdowns[r] \in Nat /\ debits'[r] \in Nat /\ drawdowns'[r] \in Nat
        /\ drawdowns[r] <= debits[r] /\ debits[r] <= 1
        /\ row[r].status = "absent" => debits[r] = 0
    BY <1>1, <1>2, Typed DEF DeliveryMoves, Sums, PayerInv
  <1>4. Inserter(d, r) => row[r].status # "absent"
    BY <1>2 DEF PayerInv
  <1>5. /\ drawdowns'[r] <= debits'[r] /\ debits'[r] <= 1
        /\ q.status = "absent" => debits'[r] = 0
        /\ e.at = "gated" => e.gate = "bypass" \/ ~ legacyPartner
        /\ e.at \in {"debit", "unpaid"} => ~ legacyPartner /\ debits'[r] = 0
        /\ e.at = "debited" => debits'[r] = 1 /\ drawdowns'[r] = 0
    <2>1. CASE Inserts(d, e, r, q)
      BY <1>2, <1>3, <2>1 DEF Inserts, NoRow, PayerInv, Paying
    <2>2. CASE Refuses(d, e, r, q)
      BY <1>2, <1>3, <2>2 DEF Refuses, PayerInv, Paying
    <2>3. CASE Pays(d, e, r, q)
      BY <1>2, <1>3, <1>4, <2>3 DEF Pays, PayerInv, Paying, Inserter, Inserting
    <2>4. CASE Passes(d, e, r, q)
      BY <1>2, <1>3, <2>4 DEF Passes, PayerInv, Paying
    <2> QED BY <1>1, <2>1, <2>2, <2>3, <2>4 DEF DeliverySteps
  <1>6. /\ e.at \in Inserting => Inserter(d, r) \/ row[r].status = "absent"
        /\ e.at \in Inserting => q.status # "absent"
    BY <1>2, <1>4 DEF DeliverySteps, Inserts, Refuses, Pays, Passes, Inserting, Inserter, NoRow
  \* A delivery of the same review that is not d has inserted nothing.
  <1>7. ASSUME NEW f \in Deliveries, f # d, Inserter(f, r)
        PROVE  e.at \notin Inserting /\ debits'[r] = debits[r] /\ drawdowns'[r] = drawdowns[r]
    <2>1. row[r].status # "absent" /\ ~ Inserter(d, r)
      BY <1>2, <1>7 DEF PayerInv
    <2>2. debits' = debits /\ drawdowns' = drawdowns
      BY <1>1, <1>2, <2>1 DEF DeliverySteps, Inserts, Refuses, Pays, Passes, Inserter, Inserting
    <2> QED BY <1>6, <2>1, <2>2
  <1>8. \A f \in Deliveries : Paying(f)'
    <2> TAKE f \in Deliveries
    <2>1. CASE f = d
      BY <1>2, <1>5, <2>1 DEF Paying
    <2>2. CASE f # d /\ delivery[f].review # r
      <3>1. delivery'[f] = delivery[f] /\ Paying(f)
        BY <1>2, <2>2 DEF PayerInv
      <3>2. delivery[f].at \in {"debit", "unpaid", "debited"} => delivery[f].review \in Reviews
        BY DEF TypeInv
      <3> QED BY <1>2, <2>2, <3>1, <3>2 DEF Paying
    <2>3. CASE f # d /\ delivery[f].review = r
      <3>1. delivery'[f] = delivery[f] /\ Paying(f)
        BY <1>2, <2>3 DEF PayerInv
      <3>2. delivery[f].at \in Inserting => debits'[r] = debits[r] /\ drawdowns'[r] = drawdowns[r]
        BY <1>7, <2>3 DEF Inserter
      <3> QED BY <1>2, <2>3, <3>1, <3>2 DEF Paying, Inserting
    <2> QED BY <2>1, <2>2, <2>3
  <1>9. \A f, g \in Deliveries, o \in Reviews : Inserter(f, o)' /\ Inserter(g, o)' => f = g
    <2> TAKE f, g \in Deliveries, o \in Reviews
    <2>1. \A x \in Deliveries : Inserter(x, o)' => Inserter(x, o) \/ (x = d /\ o = r /\ e.at \in Inserting)
      BY <1>2 DEF Inserter
    <2>2. Inserter(f, o) /\ Inserter(g, o) => f = g
      BY DEF PayerInv
    <2>3. \A x \in Deliveries : x # d /\ Inserter(x, r) => e.at \notin Inserting
      BY <1>7
    <2>4. \A x \in Deliveries : x = d /\ o # r => (Inserter(x, o)' => FALSE)
      BY <1>2 DEF Inserter
    <2> QED BY <2>1, <2>2, <2>3, <2>4
  <1>10. \A f \in Deliveries, o \in Reviews : Inserter(f, o)' => row'[o].status # "absent"
    BY <1>2, <1>6 DEF PayerInv, Inserter
  <1>11. \A o \in Reviews : /\ row'[o].status = "absent" => debits'[o] = 0
                            /\ drawdowns'[o] <= debits'[o] /\ debits'[o] <= 1
    BY <1>2, <1>5 DEF PayerInv
  <1> QED BY <1>8, <1>9, <1>10, <1>11 DEF PayerInv

\* What was refused stays refused.
LEMMA RefusedOfDelivery ==
  ASSUME TypeInv, PayerInv, NEW d, NEW e, NEW r, NEW q, DeliverySteps(d, e, r, q),
         NEW o \in Reviews, Refused(o)
  PROVE  Refused(o)'
  <1>1. DeliveryMoves(d, e, r, q)
    BY DEF DeliverySteps
  <1>2. /\ d \in Deliveries /\ r \in Reviews /\ e.review = r
        /\ delivery'[d] = e /\ \A f \in Deliveries : f # d => delivery'[f] = delivery[f]
        /\ \A p \in Reviews : p # r => row'[p] = row[p] /\ debits'[p] = debits[p]
        /\ row'[r] = q /\ legacyPartner' = legacyPartner
        /\ q.status = "absent" => row[r].status = "absent"
        /\ delivery[d].at = "idle" \/ delivery[d].review = r
    <2>1. /\ d \in Deliveries /\ r \in Reviews /\ e.review = r /\ legacyPartner' = legacyPartner
          /\ q.status = "absent" => row[r].status = "absent"
          /\ delivery[d].at = "idle" \/ delivery[d].review = r
          /\ Sums(r)
      BY <1>1 DEF DeliveryMoves
    <2>2. \A p \in Reviews : p # r => debits'[p] = debits[p] /\ drawdowns'[p] = drawdowns[p]
      BY <2>1 DEF Sums
    <2>3. /\ row'[r] = q /\ \A p \in Reviews : p # r => row'[p] = row[p]
          /\ delivery'[d] = e /\ \A f \in Deliveries : f # d => delivery'[f] = delivery[f]
      BY <1>1, DeliveryMoved
    <2> QED BY <2>1, <2>2, <2>3
  <1>3. CASE o # r
    BY <1>2, <1>3 DEF Refused
  <1>4. CASE o = r
    <2>1. debits' = debits /\ e.at # "debit"
      BY <1>2, <1>4 DEF DeliverySteps, Inserts, Refuses, Pays, Passes, Refused
    <2> QED BY <1>2, <1>4, <2>1 DEF Refused
  <1> QED BY <1>3, <1>4

LEMMA PayerStep ==
  ASSUME TypeInv, PayerInv, [Next]_vars
  PROVE  PayerInv' /\ \A r \in Reviews : Refused(r) => Refused(r)'
  <1>1. ASSUME NEW a, NEW s, NEW r, NEW q, ActorSteps(a, s, r, q)
        PROVE  PayerInv' /\ \A o \in Reviews : Refused(o) => Refused(o)'
    <2>1. ActorMoves(a, s, r, q)
      BY <1>1 DEF ActorSteps
    <2>2. \A o \in Reviews : row'[o].status = "absent" => row[o].status = "absent"
      BY <2>1, Moved DEF ActorMoves
    <2>3. UNCHANGED <<legacyPartner, debits, drawdowns, delivery>>
      BY <2>1 DEF ActorMoves
    <2> QED BY <2>2, <2>3, PayerRests
  <1>2. ASSUME NEW d, NEW e, NEW r, NEW q, DeliverySteps(d, e, r, q)
        PROVE  PayerInv' /\ \A o \in Reviews : Refused(o) => Refused(o)'
    BY <1>2, PayerInvOfDelivery, RefusedOfDelivery
  <1>3. ASSUME NEW r \in Reviews, LeaseTurnsStale(r)
        PROVE  PayerInv' /\ \A o \in Reviews : Refused(o) => Refused(o)'
    <2>1. \A o \in Reviews : row'[o].status = "absent" => row[o].status = "absent"
      BY <1>3, Stale
    <2>2. UNCHANGED <<legacyPartner, debits, drawdowns, delivery>>
      BY <1>3 DEF LeaseTurnsStale, money
    <2> QED BY <2>1, <2>2, PayerRests
  <1>4. ASSUME Quiet
        PROVE  PayerInv' /\ \A o \in Reviews : Refused(o) => Refused(o)'
    <2>1. UNCHANGED <<legacyPartner, debits, drawdowns, delivery, row>>
      BY <1>4 DEF Quiet, money
    <2> QED BY <2>1, PayerRests
  <1> QED BY <1>1, <1>2, <1>3, <1>4, Kinds


-----------------------------------------------------------------------------
(* Comments are bounded by the permits.                                    *)

Tok(p) == IF p THEN 1 ELSE 0

LEMMA FiniteSpending ==
  ASSUME NEW r \in Reviews
  PROVE  IsFiniteSet(Spending(r)) /\ Cardinality(Spending(r)) \in Nat
  <1>1. IsFiniteSet(Actors)
    BY QueueAssumption, FS_Union DEF Actors
  <1>2. Spending(r) \subseteq Actors
    BY DEF Spending
  <1> QED BY <1>1, <1>2, FS_Subset, FS_CardinalityType

\* An actor's step adds or removes that actor among the spenders.
LEMMA SpendingMoves ==
  ASSUME TypeInv, NEW a, NEW s, NEW r, NEW q, ActorMoves(a, s, r, q)
  PROVE  /\ Cardinality(Spending(r)') = Cardinality(Spending(r)) - Tok(Spends(actor[a], r)) + Tok(Spends(s, r))
         /\ Cardinality(Spending(r)') \in Nat
         /\ \A o \in Reviews : o # r => Spending(o)' = Spending(o)
  <1>1. a \in Actors /\ r \in Reviews /\ actor'[a] = s /\ \A b \in Actors : b # a => actor'[b] = actor[b]
    BY Moved DEF ActorMoves
  <1>2. /\ Spends(actor[a], r) /\ Spends(s, r) => Spending(r)' = Spending(r)
        /\ ~ Spends(actor[a], r) /\ ~ Spends(s, r) => Spending(r)' = Spending(r)
        /\ Spends(actor[a], r) /\ ~ Spends(s, r) => Spending(r)' = Spending(r) \ {a} /\ a \in Spending(r)
        /\ ~ Spends(actor[a], r) /\ Spends(s, r) => Spending(r)' = Spending(r) \cup {a} /\ a \notin Spending(r)
    BY <1>1 DEF Spending, Spends
  <1>3. IsFiniteSet(Spending(r)) /\ Cardinality(Spending(r)) \in Nat
    BY <1>1, FiniteSpending
  <1>6. \A o \in Reviews : o # r => Spending(o)' = Spending(o)
    <2>1. \A o \in Reviews : o # r => ~ Spends(s, o) /\ ~ Spends(actor[a], o)
      BY DEF ActorMoves, Spends
    <2> QED BY <1>1, <2>1 DEF Spending
  <1>4. CASE Spends(actor[a], r) /\ ~ Spends(s, r)
    <2>1. IsFiniteSet(Spending(r) \ {a}) /\ Cardinality(Spending(r) \ {a}) = Cardinality(Spending(r)) - 1
      BY <1>2, <1>3, <1>4, FS_RemoveElement
    <2>2. Cardinality(Spending(r) \ {a}) \in Nat
      BY <2>1, FS_CardinalityType
    <2>3. Cardinality(Spending(r)') = Cardinality(Spending(r)) - 1 /\ Cardinality(Spending(r)') \in Nat
      BY <1>2, <1>4, <2>1, <2>2
    <2> QED BY <1>3, <1>4, <2>3, <1>6 DEF Tok
  <1>5. CASE ~ Spends(actor[a], r) /\ Spends(s, r)
    <2>1. Cardinality(Spending(r) \cup {a}) = Cardinality(Spending(r)) + 1
      BY <1>2, <1>3, <1>5, FS_AddElement
    <2>3. Cardinality(Spending(r)') = Cardinality(Spending(r)) + 1
      BY <1>2, <1>5, <2>1
    <2> QED BY <1>3, <1>5, <2>3, <1>6 DEF Tok
  <1>7. CASE Spends(actor[a], r) <=> Spends(s, r)
    BY <1>2, <1>3, <1>6, <1>7 DEF Tok
  <1> QED BY <1>4, <1>5, <1>7


\* Who holds the lease of a review after the step.
LEMMA HoldsMoves ==
  ASSUME TypeInv, NEW a, NEW s, NEW r, NEW q, ActorMoves(a, s, r, q)
  PROVE  /\ \A o \in Reviews, b \in Actors : o # r \/ b # a => (Holds(b, o)' <=> Holds(b, o))
         /\ Holds(a, r) <=> actor[a].at \in HolderAt
         /\ Holds(a, r)' <=> s.at \in HolderAt
         /\ \A o \in Reviews : o # r => ~ Holds(a, o) /\ ~ Holds(a, o)'
  <1>1. a \in Actors /\ r \in Reviews /\ actor'[a] = s /\ \A b \in Actors : b # a => actor'[b] = actor[b]
    BY Moved DEF ActorMoves
  <1>2. (actor[a].at = "idle" \/ actor[a].review = r) /\ (s.at = "idle" \/ s.review = r)
    BY DEF ActorMoves
  <1> QED BY <1>1, <1>2 DEF Holds, HolderAt

LEMMA SameHeld ==
  ASSUME NEW r \in Reviews, \A a \in Actors : Holds(a, r)' <=> Holds(a, r)
  PROVE  Held(r)' <=> Held(r)
  BY DEF Held

\* The permits of the other reviews.
LEMMA OtherPermits ==
  ASSUME TypeInv, PermitsInv, NEW o \in Reviews,
         row'[o] = row[o], Spending(o)' = Spending(o), Held(o)' <=> Held(o),
         comments'[o] = comments[o], faults' \in Nat, faults' >= faults
  PROVE  /\ comments'[o] + Permits(o)' <= 1 + faults'
         /\ row'[o].status = "in_progress" /\ row'[o].stale => ~ Held(o)'
  <1>1. RowPermits(o)' <=> RowPermits(o)
    BY DEF RowPermits
  <1>2. Permits(o)' = Permits(o)
    BY <1>1 DEF Permits
  <1>3. Permits(o) \in Nat
    BY FiniteSpending DEF Permits
  <1> QED BY <1>2, <1>3, Typed DEF PermitsInv

\* The account of the review a step is about.
LEMMA PermitsAdd ==
  ASSUME TypeInv, PermitsInv, NEW a, NEW s, NEW r, NEW q, ActorMoves(a, s, r, q),
         comments'[r] \in Nat, faults' \in Nat,
         comments'[r] + Tok(Spends(s, r)) + Tok(RowPermits(r)') + faults
             <= comments[r] + Tok(Spends(actor[a], r)) + Tok(RowPermits(r)) + faults'
  PROVE  comments'[r] + Permits(r)' <= 1 + faults'
  <1> DEFINE C == Cardinality(Spending(r))
             D == Cardinality(Spending(r)')
  <1>1. r \in Reviews
    BY DEF ActorMoves
  <1>2. C \in Nat /\ D \in Nat /\ D = C - Tok(Spends(actor[a], r)) + Tok(Spends(s, r))
    BY <1>1, FiniteSpending, SpendingMoves
  <1>3. Permits(r) = C + Tok(RowPermits(r)) /\ Permits(r)' = D + Tok(RowPermits(r)')
    BY DEF Permits, Tok
  <1>4. comments[r] + Permits(r) <= 1 + faults /\ comments[r] \in Nat /\ faults \in Nat
    BY <1>1, Typed DEF PermitsInv
  <1>5. /\ Tok(RowPermits(r)) \in 0..1 /\ Tok(RowPermits(r)') \in 0..1
        /\ Tok(Spends(s, r)) \in 0..1 /\ Tok(Spends(actor[a], r)) \in 0..1
    BY DEF Tok
  <1> HIDE DEF C, D
  <1> QED BY <1>2, <1>3, <1>4, <1>5

LEMMA ActorPermits ==
  ASSUME TypeInv, PermitsInv, NEW a, NEW s, NEW r, NEW q, ActorSteps(a, s, r, q)
  PROVE  PermitsInv'
  <1>1. ActorMoves(a, s, r, q)
    BY DEF ActorSteps
  <1>2. /\ a \in Actors /\ r \in Reviews /\ row'[r] = q /\ \A o \in Reviews : o # r => row'[o] = row[o]
        /\ actor[a].at = "idle" \/ actor[a].review = r
        /\ s.at = "idle" \/ s.review = r
    BY <1>1, Moved DEF ActorMoves
  <1>3. /\ Holds(a, r) <=> actor[a].at \in HolderAt
        /\ Holds(a, r)' <=> s.at \in HolderAt
        /\ \A b \in Actors : b # a => (Holds(b, r)' <=> Holds(b, r))
    BY <1>1, <1>2, HoldsMoves
  <1>4. /\ Spends(actor[a], r) <=> actor[a].at \in {"reviewing", "posting", "degraded", "retrying"}
        /\ Spends(s, r) <=> s.at \in {"reviewing", "posting", "degraded", "retrying"}
    BY <1>2 DEF Spends
  <1>5. /\ row[r].status = "in_progress" /\ row[r].stale => ~ Held(r)
        /\ row[r].status = "absent" => ~ Held(r)
        /\ comments[r] \in Nat /\ faults \in Nat
    BY <1>2, Typed DEF PermitsInv, TypeInv, Held, Holds, HolderAt
  <1>6. /\ Holds(a, r) => Held(r)
        /\ Holds(a, r)' => Held(r)'
        /\ (Holds(a, r)' <=> Holds(a, r)) => (Held(r)' <=> Held(r))
        /\ ~ Holds(a, r)' /\ Held(r)' => Held(r)
    BY <1>2, <1>3 DEF Held
  <1> DEFINE Goal ==
         /\ comments'[r] \in Nat /\ faults' \in Nat /\ faults' >= faults
         /\ \A o \in Reviews : o # r => comments'[o] = comments[o]
         /\ comments'[r] + Tok(Spends(s, r)) + Tok(RowPermits(r)') + faults
                <= comments[r] + Tok(Spends(actor[a], r)) + Tok(RowPermits(r)) + faults'
         /\ q.status = "in_progress" /\ q.stale => ~ Held(r)'
  <1>7. Goal
    <2>1. CASE Approaches(a, s, r, q)
      <3>1. comments' = comments /\ faults' = faults
        BY <2>1 DEF Approaches, Calm
      <3>2. ~ Holds(a, r) /\ ~ Holds(a, r)' /\ ~ Spends(actor[a], r) /\ ~ Spends(s, r)
        BY <1>3, <1>4, <2>1 DEF Approaches, HolderAt
      <3>3. Held(r)' <=> Held(r)
        BY <1>6, <3>2
      <3>4. RowPermits(r)' => RowPermits(r)
        <4>1. \/ q = row[r]
              \/ row[r].status = "absent" /\ q.status = "pending"
              \/ q.status = "failed"
          BY <1>1, <2>1, Typed DEF Approaches, NoRow, Rows, ActorMoves
        <4> QED BY <1>2, <3>3, <4>1 DEF RowPermits
      <3>5. q.status = "in_progress" /\ q.stale => ~ Held(r)'
        BY <1>1, <1>2, <1>5, <2>1, <3>3, Typed DEF Approaches, NoRow, Rows
      <3> QED BY <1>5, <3>1, <3>2, <3>4, <3>5 DEF Tok
    <2>2. CASE Claims(a, s, r, q)
      <3>1. comments' = comments /\ faults' = faults
        BY <2>2 DEF Claims, Calm
      <3>2. ~ Spends(actor[a], r) /\ Held(r)'
        BY <1>3, <1>4, <1>6, <2>2 DEF Claims, HolderAt
      <3>3. RowPermits(r)
        BY <1>5, <2>2 DEF Claims, Claimable, RowPermits
      <3>4. q.status = "in_progress" /\ ~ q.stale
        BY <1>1, <1>2, <2>2, Typed DEF Claims, Rows
      <3>5. ~ RowPermits(r)'
        BY <1>2, <3>2, <3>4 DEF RowPermits
      <3> QED BY <1>5, <3>1, <3>2, <3>3, <3>4, <3>5 DEF Tok
    <2>3. CASE GoesOn(a, s, r, q)
      <3>1. Holds(a, r) /\ Holds(a, r)'
        BY <1>3, <2>3 DEF GoesOn, HolderAt
      <3>2. q.status = row[r].status /\ q.stale = row[r].stale
        BY <1>1, <1>2, <2>3, Typed DEF GoesOn, Rows
      <3>3. (RowPermits(r)' <=> RowPermits(r)) /\ ~ (q.status = "in_progress" /\ q.stale)
        BY <1>2, <1>5, <1>6, <3>1, <3>2 DEF RowPermits
      <3>4. faults' = faults
        BY <2>3 DEF GoesOn
      <3>5. CASE actor[a].at = "posting"
        <4>1. s.at = "noting" /\ comments' = [comments EXCEPT ![r] = @ + 1]
          BY <2>3, <3>5 DEF GoesOn
        <4>2. comments'[r] = comments[r] + 1 /\ \A o \in Reviews : o # r => comments'[o] = comments[o]
          BY <1>2, <4>1, Typed
        <4> QED BY <1>4, <1>5, <3>3, <3>4, <3>5, <4>1, <4>2 DEF Tok
      <3>6. CASE actor[a].at # "posting"
        <4>1. comments' = comments /\ (Spends(s, r) => Spends(actor[a], r))
          BY <1>4, <2>3, <3>6 DEF GoesOn
        <4> QED BY <1>5, <3>3, <3>4, <4>1 DEF Tok
      <3> QED BY <3>5, <3>6
    <2>4. CASE Throws(a, s, r, q)
      <3>1. comments' = comments /\ faults' = faults + 1
        BY <2>4 DEF Throws, Faulty
      <3>2. Holds(a, r) /\ Holds(a, r)' /\ Held(r) /\ Held(r)'
        BY <1>3, <1>6, <2>4 DEF Throws, HolderAt
      <3>3. ~ (q.status = "in_progress" /\ q.stale)
        BY <1>1, <1>2, <1>5, <2>4, <3>2, Typed DEF Throws, Rows, VerdictOf
      <3>4. CASE actor[a].at \in {"noting", "succeeding"}
        <4>1. ~ Spends(actor[a], r)
          BY <1>4, <3>4
        <4>2. RowPermits(r)' => RowPermits(r)
          BY <1>1, <1>2, <2>4, <3>2, <3>4, Typed DEF Throws, Rows, VerdictOf, RowPermits
        <4> QED BY <1>5, <3>1, <3>3, <4>1, <4>2 DEF Tok
      <3>5. CASE actor[a].at = "degraded"
        <4>1. Spends(actor[a], r)
          BY <1>4, <3>5
        <4> QED BY <1>5, <3>1, <3>3, <4>1 DEF Tok
      <3> QED BY <2>4, <3>4, <3>5 DEF Throws
    <2>5. CASE Concludes(a, s, r, q)
      <3>1. comments' = comments /\ faults' = faults
        BY <2>5 DEF Concludes, Calm
      <3>2. ~ Spends(s, r)
        BY <1>4, <2>5 DEF Concludes
      <3>3. q.status = VerdictOf[actor[a].at] /\ q.status \in {"done", "pending_retry", "failed"}
        BY <1>1, <1>2, <2>5, Typed DEF Concludes, Rows, VerdictOf
      <3>4. RowPermits(r)' => Spends(actor[a], r)
        BY <1>2, <1>4, <2>5, <3>3 DEF Concludes, RowPermits, VerdictOf
      <3> QED BY <1>5, <3>1, <3>2, <3>3, <3>4 DEF Tok
    <2>6. CASE Dies(a, s, r, q)
      <3>1. comments' = comments /\ faults' = faults + 1 /\ q = row[r]
        BY <2>6 DEF Dies, Faulty
      <3>2. ~ Holds(a, r)' /\ ~ Spends(s, r)
        BY <1>3, <1>4, <2>6 DEF Dies, HolderAt
      <3> QED BY <1>5, <1>6, <3>1, <3>2 DEF Tok
    <2> QED BY <2>1, <2>2, <2>3, <2>4, <2>5, <2>6 DEF ActorSteps
  <1>8. ASSUME NEW o \in Reviews
        PROVE  /\ comments'[o] + Permits(o)' <= 1 + faults'
               /\ row'[o].status = "in_progress" /\ row'[o].stale => ~ Held(o)'
    <2>1. CASE o = r
      <3>1. comments'[r] + Permits(r)' <= 1 + faults'
        BY <1>1, <1>7, PermitsAdd
      <3> QED BY <1>2, <1>7, <2>1, <3>1
    <2>2. CASE o # r
      <3>1. Spending(o)' = Spending(o)
        BY <1>1, <1>8, <2>2, SpendingMoves
      <3>2. Held(o)' <=> Held(o)
        BY <1>1, <1>8, <2>2, HoldsMoves, SameHeld
      <3> QED BY <1>2, <1>7, <2>2, <3>1, <3>2, OtherPermits
    <2> QED BY <2>1, <2>2
  <1> QED BY <1>8 DEF PermitsInv


\* Steps that no actor makes give no permit.
LEMMA NoPermits ==
  ASSUME TypeInv, PermitsInv, UNCHANGED <<actor, comments>>, faults' \in Nat, faults' >= faults,
         \A r \in Reviews :
             /\ RowPermits(r)' => RowPermits(r)
             /\ row'[r].status = "in_progress" /\ row'[r].stale => ~ Held(r)
  PROVE  PermitsInv'
  <1> SUFFICES ASSUME NEW r \in Reviews
               PROVE  /\ comments'[r] + Permits(r)' <= 1 + faults'
                      /\ row'[r].status = "in_progress" /\ row'[r].stale => ~ Held(r)'
    BY DEF PermitsInv
  <1>1. Spending(r)' = Spending(r) /\ (Held(r)' <=> Held(r))
    BY DEF Spending, Held, Holds
  <1>2. Permits(r) \in Nat /\ Permits(r)' \in Nat /\ Permits(r)' <= Permits(r)
    BY <1>1, FiniteSpending DEF Permits
  <1> QED BY <1>1, <1>2, Typed DEF PermitsInv

LEMMA PermitsStep ==
  ASSUME PlatformKillsFirst, TypeInv, PermitsInv, [Next]_vars
  PROVE  PermitsInv'
  <1>1. ASSUME NEW a, NEW s, NEW r, NEW q, ActorSteps(a, s, r, q)
        PROVE  PermitsInv'
    BY <1>1, ActorPermits
  <1>2. ASSUME NEW d, NEW e, NEW r, NEW q, DeliverySteps(d, e, r, q)
        PROVE  PermitsInv'
    <2>1. DeliveryMoves(d, e, r, q)
      BY <1>2 DEF DeliverySteps
    <2>2. /\ UNCHANGED <<actor, comments>> /\ faults' \in Nat /\ faults' >= faults
          /\ r \in Reviews /\ row'[r] = q /\ \A o \in Reviews : o # r => row'[o] = row[o]
      BY <2>1, DeliveryMoved, Typed DEF DeliveryMoves, Sums
    <2>3. \A o \in Reviews : Held(o)' <=> Held(o)
      BY <2>2 DEF Held, Holds
    <2>4. /\ q = row[r] \/ q.status = "failed" \/ (q.status = "pending" /\ row[r].status = "absent")
      BY <1>2, <2>2, Typed DEF DeliverySteps, Inserts, Refuses, Pays, Passes, NoRow, Rows
    <2>5. \A o \in Reviews :
             /\ RowPermits(o)' => RowPermits(o)
             /\ row'[o].status = "in_progress" /\ row'[o].stale => ~ Held(o)
      BY <2>2, <2>3, <2>4 DEF RowPermits, PermitsInv
    <2> QED BY <2>2, <2>5, NoPermits
  <1>3. ASSUME NEW r \in Reviews, LeaseTurnsStale(r)
        PROVE  PermitsInv'
    <2>1. UNCHANGED <<actor, comments, faults>>
      BY <1>3 DEF LeaseTurnsStale
    <2>2. \A o \in Reviews : Held(o)' <=> Held(o)
      BY <2>1 DEF Held, Holds
    <2>3. ~ Held(r)
      BY <1>3 DEF LeaseTurnsStale, Held
    <2>4. \A o \in Reviews :
             /\ RowPermits(o)' => RowPermits(o)
             /\ row'[o].status = "in_progress" /\ row'[o].stale => ~ Held(o)
      BY <1>3, <2>2, <2>3, Stale DEF RowPermits, PermitsInv
    <2> QED BY <2>1, <2>4, NoPermits, Typed
  <1>4. ASSUME Quiet
        PROVE  PermitsInv'
    <2>1. UNCHANGED <<actor, comments, row>> /\ faults' \in Nat /\ faults' >= faults
      BY <1>4, Typed DEF Quiet, money
    <2>2. \A o \in Reviews :
             /\ RowPermits(o)' => RowPermits(o)
             /\ row'[o].status = "in_progress" /\ row'[o].stale => ~ Held(o)
      BY <2>1 DEF RowPermits, PermitsInv, Held, Holds
    <2> QED BY <2>1, <2>2, NoPermits
  <1> QED BY <1>1, <1>2, <1>3, <1>4, Kinds

-----------------------------------------------------------------------------
(* While nothing fails, a row that was paid for is clean.                  *)

\* A row that keeps its status and its note, seen by holders that stay.
LEMMA CleanRests ==
  ASSUME NEW o \in Reviews, Clean(o), row'[o] = row[o],
         \A b \in Actors : /\ Holds(b, o)' <=> Holds(b, o)
                           /\ Holds(b, o) => actor'[b] = actor[b]
  PROVE  Clean(o)'
  BY DEF Clean, Held

LEMMA ActorClean ==
  ASSUME TypeInv, NEW a, NEW s, NEW r, NEW q, ActorSteps(a, s, r, q), Clean(r), faults' = faults
  PROVE  Clean(r)'
  <1>1. ActorMoves(a, s, r, q)
    BY DEF ActorSteps
  <1>2. /\ a \in Actors /\ r \in Reviews /\ row'[r] = q /\ row[r] \in Rows /\ q \in Rows
        /\ actor[a].at = "idle" \/ actor[a].review = r
        /\ actor'[a] = s /\ \A b \in Actors : b # a => actor'[b] = actor[b]
    BY <1>1, Moved, Typed DEF ActorMoves
  <1>3. /\ Holds(a, r) <=> actor[a].at \in HolderAt
        /\ Holds(a, r)' <=> s.at \in HolderAt
        /\ \A b \in Actors : b # a => (Holds(b, r)' <=> Holds(b, r))
    BY <1>1, <1>2, HoldsMoves
  <1>4. row[r].status = "absent" => ~ row[r].commented /\ \A b \in Actors : ~ Holds(b, r)
    BY <1>2 DEF TypeInv, Holds, HolderAt
  <1>5. faults \in Nat
    BY Typed
  <1>6. ~ Throws(a, s, r, q) /\ ~ Dies(a, s, r, q)
    BY <1>5 DEF Throws, Dies, Faulty
  <1>7. CASE Approaches(a, s, r, q)
    <2>1. \A b \in Actors : Holds(b, r)' <=> Holds(b, r)
      BY <1>2, <1>3, <1>7 DEF Approaches, HolderAt
    <2>2. \A b \in Actors : Holds(b, r) => actor'[b] = actor[b]
      BY <1>2, <1>3, <1>7 DEF Approaches, HolderAt
    <2>3. CASE q = row[r]
      BY <1>2, <2>1, <2>2, <2>3, CleanRests
    <2>4. CASE row[r].status = "absent" /\ q = [NoRow EXCEPT !.status = "pending"]
      BY <1>2, <1>4, <2>1, <2>4 DEF Clean, NoRow, Held
    <2>5. ~ (row[r].status = "in_progress" /\ row[r].stale)
      BY DEF Clean
    <2> QED BY <1>7, <2>3, <2>4, <2>5 DEF Approaches
  <1>8. CASE Claims(a, s, r, q)
    <2>1. row[r].status \in {"pending", "pending_retry"} /\ ~ row[r].commented
      BY <1>8 DEF Claims, Claimable, Clean
    <2>2. \A b \in Actors : ~ Holds(b, r)
      BY <2>1 DEF Clean
    <2>3. q.status = "in_progress" /\ ~ q.stale /\ q.commented = row[r].commented
      BY <1>2, <1>8 DEF Claims, Rows
    <2>4. Holds(a, r)'
      BY <1>3, <1>8 DEF Claims, HolderAt
    <2> QED BY <1>2, <1>3, <2>1, <2>2, <2>3, <2>4 DEF Clean, Held
  <1>9. CASE GoesOn(a, s, r, q)
    <2>1. Holds(a, r) /\ Holds(a, r)' /\ \A b \in Actors : Holds(b, r)' <=> Holds(b, r)
      BY <1>3, <1>9 DEF GoesOn, HolderAt
    <2>2. ~ row[r].commented
      BY <1>2, <1>9, <2>1 DEF Clean, GoesOn
    <2>3. /\ q.status = row[r].status /\ q.stale = row[r].stale
          /\ q.commented => s.at = "succeeding"
      BY <1>2, <1>9, <2>2 DEF GoesOn, Rows
    <2>4. q.status = "in_progress"
      BY <1>2, <2>1, <2>2, <2>3 DEF Clean
    <2> QED BY <1>2, <2>1, <2>3, <2>4 DEF Clean, Held
  <1>10. CASE Concludes(a, s, r, q)
    <2>1. /\ q.status = VerdictOf[actor[a].at] /\ q.commented = row[r].commented /\ ~ Holds(a, r)'
      BY <1>2, <1>3, <1>10 DEF Concludes, Rows, HolderAt
    <2>2. CASE actor[a].at = "resettling"
      <3>1. q.status = "done" /\ row[r].commented /\ q.commented
        BY <1>1, <1>2, <2>1, <2>2 DEF VerdictOf, TypeInv
      <3>2. \A b \in Actors : /\ Holds(b, r)' <=> Holds(b, r)
                              /\ Holds(b, r) => actor'[b] = actor[b]
        BY <1>2, <1>3, <2>1, <2>2 DEF HolderAt
      <3> QED BY <1>2, <3>1, <3>2 DEF Clean
    <2>3. CASE actor[a].at \in {"succeeding", "degraded", "retrying", "failing"}
      <3>1. Holds(a, r) /\ \A b \in Actors : ~ Holds(b, r)'
        BY <1>2, <1>3, <2>1, <2>3 DEF HolderAt, Clean
      <3>2. q.status # "in_progress" /\ (q.commented => q.status = "done")
        BY <1>2, <2>1, <2>3, <3>1 DEF VerdictOf, Clean
      <3> QED BY <1>2, <3>1, <3>2 DEF Clean
    <2> QED BY <1>10, <2>2, <2>3 DEF Concludes, VerdictOf
  <1> QED BY <1>6, <1>7, <1>8, <1>9, <1>10 DEF ActorSteps

LEMMA CleanStep ==
  ASSUME PlatformKillsFirst, TypeInv, PayerInv, CleanInv, [Next]_vars
  PROVE  CleanInv'
  <1>1. ASSUME NEW a, NEW s, NEW r, NEW q, ActorSteps(a, s, r, q), NEW o \in Reviews, Clean(o),
               faults' = faults
        PROVE  Clean(o)'
    <2>1. ActorMoves(a, s, r, q)
      BY <1>1 DEF ActorSteps
    <2>2. CASE o = r
      BY <1>1, <2>2, ActorClean
    <2>3. CASE o # r
      <3>1. /\ row'[o] = row[o] /\ ~ Holds(a, o)
            /\ \A b \in Actors : Holds(b, o)' <=> Holds(b, o)
            /\ \A b \in Actors : b # a => actor'[b] = actor[b]
        BY <1>1, <2>1, <2>3, Moved, HoldsMoves
      <3> QED BY <1>1, <3>1, CleanRests
    <2> QED BY <2>2, <2>3
  <1>2. ASSUME NEW d, NEW e, NEW r, NEW q, DeliverySteps(d, e, r, q), NEW o \in Reviews, Clean(o)
        PROVE  Refused(o)' \/ Clean(o)'
    <2>1. DeliveryMoves(d, e, r, q)
      BY <1>2 DEF DeliverySteps
    <2>2. /\ UNCHANGED actor /\ d \in Deliveries /\ legacyPartner' = legacyPartner
          /\ r \in Reviews /\ row'[r] = q /\ \A x \in Reviews : x # r => row'[x] = row[x]
          /\ delivery'[d] = e /\ \A f \in Deliveries : f # d => delivery'[f] = delivery[f]
          /\ delivery[d].at = "idle" \/ delivery[d].review = r
      BY <2>1, DeliveryMoved DEF DeliveryMoves
    <2>3. \A b \in Actors, x \in Reviews : Holds(b, x)' <=> Holds(b, x)
      BY <2>2 DEF Holds
    <2>4. CASE o # r \/ q = row[r]
      <3>1. row'[o] = row[o]
        BY <2>2, <2>4
      <3> QED BY <1>2, <2>2, <2>3, <3>1, CleanRests
    <2>5. CASE o = r /\ Inserts(d, e, r, q)
      <3>1. row'[o].status = "pending" /\ ~ row'[o].commented
        BY <2>2, <2>5 DEF Inserts, NoRow
      <3>2. \A b \in Actors : ~ Holds(b, o)'
        BY <2>3, <2>5 DEF Inserts, TypeInv, Holds, HolderAt
      <3> QED BY <3>1, <3>2 DEF Clean
    <2>6. CASE o = r /\ Refuses(d, e, r, q)
      <3>1. Inserter(d, r) /\ ~ legacyPartner /\ debits[r] = 0 /\ debits' = debits
        BY <2>2, <2>6 DEF Refuses, PayerInv, Paying, Inserter, Inserting
      <3>2. \A f \in Deliveries : f # d => ~ (delivery'[f].review = r /\ delivery'[f].at = "debit")
        BY <2>2, <3>1 DEF PayerInv, Inserter, Inserting
      <3>3. q.status # "absent" /\ e.at # "debit"
        BY <2>1, <2>2, <2>6, Typed DEF Refuses, Rows
      <3> QED BY <2>2, <2>6, <3>1, <3>2, <3>3 DEF Refused
    <2> QED BY <1>2, <2>4, <2>5, <2>6 DEF DeliverySteps, Pays, Passes
  <1>3. ASSUME NEW r \in Reviews, LeaseTurnsStale(r), NEW o \in Reviews, Clean(o)
        PROVE  Clean(o)'
    <2>1. UNCHANGED actor /\ row[r].status = "in_progress" /\ ~ Held(r)
      BY <1>3 DEF LeaseTurnsStale, Held
    <2>2. o # r
      BY <1>3, <2>1 DEF Clean
    <2>3. \A b \in Actors, x \in Reviews : Holds(b, x)' <=> Holds(b, x)
      BY <2>1 DEF Holds
    <2> QED BY <1>3, <2>1, <2>2, <2>3, Stale, CleanRests
  <1>4. ASSUME Quiet, NEW o \in Reviews, Clean(o)
        PROVE  Clean(o)'
    BY <1>4 DEF Quiet, Clean, Held, Holds
  <1>5. faults' >= faults /\ faults' \in Nat /\ faults \in Nat
    <2>1. faults' \in Nat /\ faults \in Nat
      BY TypeStep, Typed DEF TypeInv, TypeOK
    <2>2. ASSUME NEW a, NEW s, NEW r, NEW q, ActorSteps(a, s, r, q)
          PROVE  faults' >= faults
      BY <2>1, <2>2 DEF ActorSteps, Approaches, Claims, GoesOn, Throws, Concludes, Dies, Calm, Faulty
    <2>3. ASSUME NEW d, NEW e, NEW r, NEW q, DeliverySteps(d, e, r, q)
          PROVE  faults' >= faults
      BY <2>3 DEF DeliverySteps, DeliveryMoves, Sums
    <2> QED BY <2>1, <2>2, <2>3, Kinds DEF LeaseTurnsStale, Quiet
  <1> SUFFICES ASSUME faults' = 0, NEW o \in Reviews
               PROVE  Refused(o)' \/ Clean(o)'
    BY DEF CleanInv
  <1>6. faults = 0 /\ faults' = faults
    BY <1>5
  <1>7. CASE Refused(o)
    BY <1>7, PayerStep
  <1>8. CASE Clean(o)
    BY <1>1, <1>2, <1>3, <1>4, <1>6, <1>8, Kinds
  <1> QED BY <1>6, <1>7, <1>8 DEF CleanInv


-----------------------------------------------------------------------------
(* With answers that are not lost, the lease is exclusive under faults too.  *)

Protects(p) ==
    \/ p.status = "failed"
    \/ p.status = "in_progress" /\ ~ p.stale
    \/ p.status = "done" /\ p.commented

LEMMA LeaseRests ==
  ASSUME LeaseInv, \A a \in Actors, r \in Reviews : Holds(a, r)' => Holds(a, r),
         \A a \in Actors, r \in Reviews : Holds(a, r)' /\ Protects(row[r]) => Protects(row'[r])
  PROVE  LeaseInv'
  BY DEF LeaseInv, OneLeaseHolder, Protects

LEMMA ActorLease ==
  ASSUME ~ LostAnswers, TypeInv, LeaseInv, NEW a, NEW s, NEW r, NEW q, ActorSteps(a, s, r, q)
  PROVE  LeaseInv'
  <1>1. ActorMoves(a, s, r, q)
    BY DEF ActorSteps
  <1>2. /\ a \in Actors /\ r \in Reviews /\ row'[r] = q /\ row[r] \in Rows /\ q \in Rows
        /\ \A o \in Reviews : o # r => row'[o] = row[o]
    BY <1>1, Moved, Typed DEF ActorMoves
  <1>3. /\ Holds(a, r) <=> actor[a].at \in HolderAt
        /\ Holds(a, r)' <=> s.at \in HolderAt
        /\ \A o \in Reviews, b \in Actors : o # r \/ b # a => (Holds(b, o)' <=> Holds(b, o))
    BY <1>1, HoldsMoves
  \* Whoever claims finds the row unprotected.
  <1>4. CASE Claims(a, s, r, q)
    <2>1. ~ Protects(row[r])
      BY <1>4 DEF Claims, Claimable, Protects
    <2>2. \A b \in Actors : ~ Holds(b, r)
      BY <1>2, <2>1 DEF LeaseInv, Protects
    <2>3. Protects(q)
      BY <1>2, <1>4 DEF Claims, Protects, Rows
    <2> QED BY <1>2, <1>3, <2>2, <2>3 DEF LeaseInv, OneLeaseHolder, Protects
  <1>5. CASE ~ Claims(a, s, r, q)
    <2>1. Holds(a, r)' => Holds(a, r)
      BY <1>3, <1>5 DEF ActorSteps, Approaches, GoesOn, Throws, Concludes, Dies, HolderAt
    <2>2. \A b \in Actors, o \in Reviews : Holds(b, o)' => Holds(b, o)
      BY <1>3, <2>1
    <2>3. ASSUME NEW b \in Actors, Holds(b, r)', Protects(row[r])
          PROVE  Protects(q)
      <3>1. Holds(a, r) => b = a
        BY <1>2, <2>2, <2>3 DEF LeaseInv, OneLeaseHolder
      <3>2. CASE Approaches(a, s, r, q)
        <4>1. row[r].status = "absent" => ~ Holds(b, r)
          BY <1>2, <2>3 DEF TypeInv, Holds, HolderAt
        <4>2. q = row[r] \/ q.status = "failed"
          BY <1>2, <2>2, <2>3, <3>2, <4>1 DEF Approaches, Rows
        <4> QED BY <2>3, <4>2 DEF Protects
      <3>3. CASE GoesOn(a, s, r, q)
        BY <1>2, <2>3, <3>3 DEF GoesOn, Rows, Protects
      <3>4. CASE Throws(a, s, r, q)
        BY <2>3, <3>4 DEF Throws
      <3>5. CASE Dies(a, s, r, q)
        BY <2>3, <3>5 DEF Dies
      <3>6. CASE Concludes(a, s, r, q)
        <4>1. ~ Holds(a, r)'
          BY <1>3, <3>6 DEF Concludes, HolderAt
        <4>2. actor[a].at = "resettling"
          BY <1>3, <2>3, <3>1, <3>6, <4>1 DEF Concludes, VerdictOf, HolderAt
        <4>3. row[r].commented
          BY <1>1, <1>2, <4>2 DEF ActorMoves, TypeInv
        <4>4. q.status = "done" /\ q.commented
          BY <1>2, <3>6, <4>2, <4>3 DEF Concludes, VerdictOf, Rows
        <4> QED BY <4>4 DEF Protects
      <3> QED BY <1>5, <3>2, <3>3, <3>4, <3>5, <3>6 DEF ActorSteps
    <2>4. \A b \in Actors, o \in Reviews : Holds(b, o)' /\ Protects(row[o]) => Protects(row'[o])
      BY <1>2, <2>3
    <2> QED BY <2>2, <2>4, LeaseRests
  <1> QED BY <1>4, <1>5

LEMMA LeaseStep ==
  ASSUME PlatformKillsFirst, ~ LostAnswers, TypeInv, LeaseInv, [Next]_vars
  PROVE  LeaseInv'
  <1>1. ASSUME NEW a, NEW s, NEW r, NEW q, ActorSteps(a, s, r, q)
        PROVE  LeaseInv'
    BY <1>1, ActorLease
  <1>2. ASSUME NEW d, NEW e, NEW r, NEW q, DeliverySteps(d, e, r, q)
        PROVE  LeaseInv'
    <2>1. DeliveryMoves(d, e, r, q)
      BY <1>2 DEF DeliverySteps
    <2>2. /\ UNCHANGED actor /\ r \in Reviews
          /\ row'[r] = q /\ \A o \in Reviews : o # r => row'[o] = row[o]
      BY <2>1, DeliveryMoved DEF DeliveryMoves
    <2>3. \A b \in Actors, o \in Reviews : Holds(b, o)' <=> Holds(b, o)
      BY <2>2 DEF Holds
    <2>4. q = row[r] \/ q.status = "failed" \/ row[r].status = "absent"
      BY <1>2, <2>2, Typed DEF DeliverySteps, Inserts, Refuses, Pays, Passes, Rows
    <2>5. \A o \in Reviews : Protects(row[o]) => Protects(row'[o])
      BY <2>2, <2>4 DEF Protects
    <2> QED BY <2>3, <2>5, LeaseRests
  <1>3. ASSUME NEW r \in Reviews, LeaseTurnsStale(r)
        PROVE  LeaseInv'
    <2>1. UNCHANGED actor /\ \A b \in Actors : ~ Holds(b, r)
      BY <1>3 DEF LeaseTurnsStale
    <2>2. \A b \in Actors, o \in Reviews : Holds(b, o)' <=> Holds(b, o)
      BY <2>1 DEF Holds
    <2>3. \A b \in Actors, o \in Reviews : Holds(b, o)' => o # r
      BY <2>1, <2>2
    <2>4. \A b \in Actors, o \in Reviews : Holds(b, o)' => row'[o] = row[o]
      BY <1>3, <2>3, Stale
    <2> QED BY <2>2, <2>4, LeaseRests
  <1>4. ASSUME Quiet
        PROVE  LeaseInv'
    <2>1. UNCHANGED <<actor, row>>
      BY <1>4 DEF Quiet
    <2> QED BY <2>1, LeaseRests DEF Holds
  <1> QED BY <1>1, <1>2, <1>3, <1>4, Kinds

-----------------------------------------------------------------------------
(* The cap on the attempts, with one tick at a time.                       *)

LEMMA CapRests ==
  ASSUME TypeInv, CapInv,
         \A r \in Reviews :
             \/ row'[r].attempts = row[r].attempts
                /\ (row'[r].status \in {"absent", "pending"} => row[r].status \in {"absent", "pending"})
             \/ row'[r].attempts = 0,
         \A c \in Crons : actor'[c].at = "claiming" => actor'[c].review \in Reviews /\
             (row'[actor'[c].review].attempts < MaxAttempts \/ actor'[c] = actor[c])
  PROVE  CapInv'
  <1>1. MaxAttempts \in Nat \ {0}
    BY Typed
  <1> QED BY <1>1 DEF CapInv, AttemptsWithinCap

LEMMA ActorCap ==
  ASSUME MaxAttempts >= 2, \A b, c \in Crons : b = c, TypeInv, CapInv,
         NEW a, NEW s, NEW r, NEW q, ActorSteps(a, s, r, q)
  PROVE  CapInv'
  <1>1. ActorMoves(a, s, r, q)
    BY DEF ActorSteps
  <1>2. /\ a \in Actors /\ r \in Reviews /\ row'[r] = q /\ row[r] \in Rows /\ q \in Rows
        /\ \A o \in Reviews : o # r => row'[o] = row[o]
        /\ actor[a].at = "idle" \/ actor[a].review = r
        /\ s.at = "idle" \/ s.review = r
        /\ actor'[a] = s /\ \A b \in Actors : b # a => actor'[b] = actor[b]
    BY <1>1, Moved, Typed DEF ActorMoves
  <1>3. /\ Crons \subseteq Actors /\ Actors = Hooks \cup Crons /\ MaxAttempts \in Nat \ {0}
        /\ row[r].attempts \in Nat /\ row[r].attempts <= MaxAttempts
    BY <1>2, Typed DEF Rows, CapInv, AttemptsWithinCap, Actors
  <1>4. \A c \in Crons : actor'[c].at # "idle" => actor'[c].review \in Reviews
    BY <1>1, <1>2, <1>3, MovesType DEF TypeInv
  <1>5. CASE Claims(a, s, r, q)
    <2>1. q.attempts = row[r].attempts + 1 /\ q.status = "in_progress"
      BY <1>2, <1>5 DEF Claims, Rows
    <2>2. CASE a \in Crons
      <3>1. row[r].attempts < MaxAttempts
        BY <1>2, <1>5, <2>2 DEF Claims, CapInv
      <3>2. q.attempts <= MaxAttempts
        BY <1>3, <2>1, <3>1
      <3>3. \A c \in Crons : actor'[c].at # "claiming"
        BY <1>2, <1>5, <2>2 DEF Claims
      <3> QED BY <1>2, <2>1, <3>2, <3>3 DEF CapInv, AttemptsWithinCap
    <2>3. CASE a \notin Crons
      <3>1. row[r].status = "pending"
        BY <1>5, <2>3 DEF Claims, Claimable
      <3>2. row[r].attempts = 0
        BY <1>2, <3>1 DEF CapInv
      <3>3. q.attempts = 1 /\ 1 < MaxAttempts
        BY <1>3, <2>1, <3>2
      <3>4. \A c \in Crons : actor'[c] = actor[c]
        BY <1>2, <1>3, <2>3
      <3>5. \A c \in Crons : actor'[c].at = "claiming" => row'[actor'[c].review].attempts < MaxAttempts
        <4> SUFFICES ASSUME NEW c \in Crons, actor'[c].at = "claiming"
                     PROVE  row'[actor'[c].review].attempts < MaxAttempts
          OBVIOUS
        <4>1. row[actor[c].review].attempts < MaxAttempts /\ actor[c].review \in Reviews
          BY <1>4, <3>4 DEF CapInv
        <4>2. CASE actor[c].review = r
          BY <1>2, <3>3, <3>4, <4>2
        <4>3. CASE actor[c].review # r
          BY <1>2, <3>4, <4>1, <4>3
        <4> QED BY <4>2, <4>3
      <3>6. \A o \in Reviews :
               /\ row'[o].attempts <= MaxAttempts
               /\ row'[o].status \in {"absent", "pending"} => row'[o].attempts = 0
        BY <1>2, <1>3, <2>1, <3>3 DEF CapInv, AttemptsWithinCap
      <3> QED BY <3>5, <3>6 DEF CapInv, AttemptsWithinCap
    <2> QED BY <2>2, <2>3
  <1>6. CASE ~ Claims(a, s, r, q)
    <2>1. \/ q.attempts = row[r].attempts
             /\ (q.status \in {"absent", "pending"} => row[r].status \in {"absent", "pending"})
          \/ q.attempts = 0
      <3>1. CASE Approaches(a, s, r, q)
        BY <1>2, <3>1 DEF Approaches, NoRow, Rows
      <3>2. CASE GoesOn(a, s, r, q) \/ Dies(a, s, r, q)
        BY <1>2, <3>2 DEF GoesOn, Dies, Rows
      <3>3. CASE Throws(a, s, r, q)
        BY <1>2, <3>3 DEF Throws, VerdictOf, Rows
      <3>4. CASE Concludes(a, s, r, q)
        BY <1>2, <3>4 DEF Concludes, VerdictOf, Rows
      <3> QED BY <1>6, <3>1, <3>2, <3>3, <3>4 DEF ActorSteps
    <2>2. s.at = "claiming" => q.attempts < MaxAttempts
      BY <1>6 DEF ActorSteps, Approaches, GoesOn, Throws, Concludes, Dies
    <2>3. \A c \in Crons : actor'[c].at = "claiming" => actor'[c].review \in Reviews /\
             (row'[actor'[c].review].attempts < MaxAttempts \/ actor'[c] = actor[c])
      BY <1>2, <1>3, <1>4, <2>2
    <2>4. \A o \in Reviews :
             \/ row'[o].attempts = row[o].attempts
                /\ (row'[o].status \in {"absent", "pending"} => row[o].status \in {"absent", "pending"})
             \/ row'[o].attempts = 0
      BY <1>2, <2>1
    <2> QED BY <2>3, <2>4, CapRests
  <1> QED BY <1>5, <1>6

LEMMA CapStep ==
  ASSUME MaxAttempts >= 2, \A b, c \in Crons : b = c, TypeInv, CapInv, [Next]_vars
  PROVE  CapInv'
  <1>1. ASSUME NEW a, NEW s, NEW r, NEW q, ActorSteps(a, s, r, q)
        PROVE  CapInv'
    BY <1>1, ActorCap
  <1> DEFINE Kept == \A o \in Reviews :
             \/ row'[o].attempts = row[o].attempts
                /\ (row'[o].status \in {"absent", "pending"} => row[o].status \in {"absent", "pending"})
             \/ row'[o].attempts = 0
  <1>2. ASSUME UNCHANGED actor, Kept
        PROVE  CapInv'
    <2>1. \A c \in Crons : actor[c].at = "claiming" => actor[c].review \in Reviews
      BY Typed DEF TypeInv
    <2> QED BY <1>2, <2>1, CapRests
  <1>3. ASSUME NEW d, NEW e, NEW r, NEW q, DeliverySteps(d, e, r, q)
        PROVE  CapInv'
    <2>1. DeliveryMoves(d, e, r, q)
      BY <1>3 DEF DeliverySteps
    <2>2. /\ UNCHANGED actor /\ r \in Reviews /\ row[r] \in Rows
          /\ row'[r] = q /\ \A o \in Reviews : o # r => row'[o] = row[o]
      BY <2>1, DeliveryMoved, Typed DEF DeliveryMoves
    <2>3. \/ q = row[r] \/ q.attempts = 0
          \/ q.status = "failed" /\ q.attempts = row[r].attempts
      BY <1>3, <2>2 DEF DeliverySteps, Inserts, Refuses, Pays, Passes, Rows, NoRow
    <2>4. Kept
      BY <2>2, <2>3
    <2> QED BY <1>2, <2>2, <2>4
  <1>4. ASSUME NEW r \in Reviews, LeaseTurnsStale(r)
        PROVE  CapInv'
    <2>1. UNCHANGED actor /\ Kept
      BY <1>4, Stale DEF LeaseTurnsStale
    <2> QED BY <1>2, <2>1
  <1>5. ASSUME Quiet
        PROVE  CapInv'
    <2>1. UNCHANGED actor /\ Kept
      BY <1>5 DEF Quiet
    <2> QED BY <1>2, <2>1
  <1> QED BY <1>1, <1>3, <1>4, <1>5, Kinds


-----------------------------------------------------------------------------
(* The theorems.                                                           *)

LEMMA InitHolds == Init => TypeInv /\ PayerInv /\ PermitsInv /\ CleanInv /\ LeaseInv /\ CapInv
  <1> SUFFICES ASSUME Init
               PROVE  TypeInv /\ PayerInv /\ PermitsInv /\ CleanInv /\ LeaseInv /\ CapInv
    OBVIOUS
  <1>1. /\ \A a \in Actors : actor[a].at = "idle" /\ actor[a].review = "none"
        /\ \A r \in Reviews : /\ row[r] = NoRow /\ comments[r] = 0
                              /\ debits[r] = 0 /\ drawdowns[r] = 0
        /\ \A d \in Deliveries : delivery[d].at = "idle"
        /\ faults = 0
    BY DEF Init, Idle
  <1>2. TypeInv
    <2>1. actor \in [Actors -> ActorState] /\ row \in [Reviews -> Rows]
      BY Idles, FreshRow DEF Init
    <2>2. TypeOK
      BY <2>1, QueueAssumption DEF Init, TypeOK, Rows, ActorState, ActorAt, VerdictOf
    <2> QED BY <1>1, <2>2, FreshRow DEF TypeInv, HolderAt
  <1>3. \A a \in Actors, r \in Reviews : ~ Holds(a, r) /\ ~ Spends(actor[a], r)
    BY <1>1 DEF Holds, Spends
  <1>4. PayerInv
    BY <1>1, FreshRow DEF PayerInv, Paying, Inserter, Inserting
  <1>5. PermitsInv
    <2>1. \A r \in Reviews : Spending(r) = {}
      BY <1>3 DEF Spending
    <2>2. \A r \in Reviews : Permits(r) <= 1 /\ Permits(r) \in Nat
      <3>1. \A r \in Reviews : Cardinality(Spending(r)) = 0
        BY <2>1, FS_EmptySet
      <3> QED BY <3>1 DEF Permits
    <2> QED BY <1>1, <2>2, FreshRow DEF PermitsInv
  <1>6. CleanInv
    BY <1>1, <1>3, FreshRow DEF CleanInv, Clean
  <1>7. LeaseInv
    BY <1>3 DEF LeaseInv, OneLeaseHolder
  <1>8. CapInv
    <2>1. MaxAttempts \in Nat /\ Crons \subseteq Actors
      BY QueueAssumption DEF Actors
    <2> QED BY <1>1, <2>1, FreshRow DEF CapInv, AttemptsWithinCap
  <1> QED BY <1>2, <1>4, <1>5, <1>6, <1>7, <1>8

LEMMA MoneyHolds == Spec => [](TypeInv /\ PayerInv)
  <1>1. TypeInv /\ PayerInv /\ [Next]_vars => (TypeInv /\ PayerInv)'
    BY TypeStep, PayerStep
  <1>2. Init => TypeInv /\ PayerInv
    BY InitHolds
  <1> QED BY <1>1, <1>2, PTL DEF Spec

\* Every reachable state of the queue has its types, whatever its platform does.
THEOREM QueueTypeCorrect == Spec => []TypeOK
  <1>1. TypeInv => TypeOK
    BY DEF TypeInv
  <1> QED BY MoneyHolds, <1>1, PTL

\* Redeliveries debit a review once, and as long as the platform kills an instance
\* before its lease turns stale, hooks, ticks and channel jobs that overlap post
\* it once, or once more for each fault.
THEOREM OneEffectEachReview ==
  ASSUME PlatformKillsFirst PROVE Spec => []OneEffectPerReview
  <1>1. TypeInv /\ PayerInv /\ PermitsInv /\ [Next]_vars => PermitsInv'
    BY PermitsStep
  <1>2. Init => PermitsInv
    BY InitHolds
  <1>3. TypeInv /\ PayerInv /\ PermitsInv => OneEffectPerReview
    <2> SUFFICES ASSUME TypeInv, PayerInv, PermitsInv, NEW r \in Reviews
                 PROVE  /\ drawdowns[r] <= debits[r] /\ debits[r] <= 1
                        /\ comments[r] <= 1 + faults
      BY DEF OneEffectPerReview
    <2>1. Permits(r) \in Nat /\ comments[r] \in Nat /\ faults \in Nat
      BY FiniteSpending, Typed DEF Permits
    <2>2. comments[r] + Permits(r) <= 1 + faults
      BY DEF PermitsInv
    <2> QED BY <2>1, <2>2 DEF PayerInv
  <1> QED BY MoneyHolds, <1>1, <1>2, <1>3, PTL DEF Spec

\* Although no verdict looks at the status it overwrites, none is reopened or
\* flipped while nothing fails, on a review that was paid at its delivery.
THEOREM VerdictsAreFinal ==
  ASSUME PlatformKillsFirst PROVE Spec => VerdictIsFinal
  <1>1. TypeInv /\ PayerInv /\ CleanInv /\ [Next]_vars => CleanInv'
    BY CleanStep
  <1>2. Init => CleanInv
    BY InitHolds
  <1>3. ASSUME TypeInv, PayerInv, CleanInv, [Next]_vars, NEW o \in Reviews,
               row[o].status \in {"done", "failed"}, legacyPartner \/ debits[o] > 0, faults = 0
        PROVE  row'[o].status = row[o].status
    <2>1. Clean(o) /\ row \in [Reviews -> Rows]
      BY <1>3, Typed DEF CleanInv, Refused
    <2>2. ASSUME NEW a, NEW s, NEW r, NEW q, ActorSteps(a, s, r, q)
          PROVE  row'[o].status = row[o].status
      <3>1. ActorMoves(a, s, r, q)
        BY <2>2 DEF ActorSteps
      <3>2. /\ a \in Actors /\ r \in Reviews /\ row'[r] = q /\ row[r] \in Rows
            /\ \A x \in Reviews : x # r => row'[x] = row[x]
            /\ (Holds(a, r) <=> actor[a].at \in HolderAt)
            /\ actor[a].at = "idle" \/ actor[a].review = r
        BY <1>3, <3>1, Moved, HoldsMoves, Typed DEF ActorMoves
      <3>3. CASE o # r
        BY <1>3, <3>2, <3>3
      \* A holder finds the review done and noted, and is about to say so.
      <3>4. CASE o = r
        <4>1. Holds(a, r) => row[r].status = "done" /\ actor[a].at = "succeeding"
          BY <1>3, <2>1, <3>2, <3>4 DEF Clean
        <4>2. actor[a].at = "resettling" => row[r].status = "done"
          BY <1>3, <2>1, <3>2, <3>4 DEF Clean, TypeInv
        <4>3. ~ Claims(a, s, r, q) /\ ~ GoesOn(a, s, r, q)
          BY <1>3, <3>2, <3>4, <4>1 DEF Claims, Claimable, GoesOn, HolderAt
        <4>4. q.status = row[r].status
          BY <1>3, <2>2, <3>2, <3>4, <4>1, <4>2, <4>3
             DEF ActorSteps, Approaches, Throws, Concludes, Dies, VerdictOf, HolderAt, Rows
        <4> QED BY <3>2, <3>4, <4>4
      <3> QED BY <3>3, <3>4
    <2>3. ASSUME NEW d, NEW e, NEW r, NEW q, DeliverySteps(d, e, r, q)
          PROVE  row'[o].status = row[o].status
      <3>1. DeliveryMoves(d, e, r, q)
        BY <2>3 DEF DeliverySteps
      <3>2. /\ d \in Deliveries /\ r \in Reviews /\ row'[r] = q
            /\ \A x \in Reviews : x # r => row'[x] = row[x]
            /\ delivery[d].at = "idle" \/ delivery[d].review = r
        BY <1>3, <3>1, DeliveryMoved DEF DeliveryMoves
      <3>3. CASE o # r
        BY <1>3, <3>2, <3>3
      <3>4. CASE o = r
        <4>1. ~ Refuses(d, e, r, q)
          BY <1>3, <3>2, <3>4 DEF Refuses, PayerInv, Paying
        <4>2. q = row[r]
          BY <1>3, <2>3, <3>4, <4>1 DEF DeliverySteps, Inserts, Pays, Passes
        <4> QED BY <3>2, <3>4, <4>2
      <3> QED BY <3>3, <3>4
    <2>4. ASSUME NEW r \in Reviews, LeaseTurnsStale(r)
          PROVE  row'[o].status = row[o].status
      BY <1>3, <2>4, Stale
    <2>5. Quiet => row'[o].status = row[o].status
      BY DEF Quiet
    <2> QED BY <1>3, <2>2, <2>3, <2>4, <2>5, Kinds
  <1>4. ASSUME TypeInv, PayerInv, CleanInv, [Next]_vars
        PROVE  [\A r \in Reviews :
                   /\ row[r].status \in {"done", "failed"}
                   /\ legacyPartner \/ debits[r] > 0
                   /\ faults = 0
                   => row'[r].status = row[r].status]_vars
    BY <1>3, <1>4
  <1> QED BY MoneyHolds, <1>1, <1>2, <1>4, PTL DEF Spec, VerdictIsFinal

\* With any number of ticks, a review has one worker between its claim and its
\* verdict, if the platform kills first and no committed statement seems to fail.
THEOREM LeaseIsExclusive ==
  ASSUME PlatformKillsFirst, ~ LostAnswers PROVE Spec => []OneLeaseHolder
  <1>1. TypeInv /\ LeaseInv /\ [Next]_vars => LeaseInv'
    BY LeaseStep
  <1>2. Init => LeaseInv
    BY InitHolds
  <1>3. LeaseInv => OneLeaseHolder
    BY DEF LeaseInv
  <1> QED BY MoneyHolds, <1>1, <1>2, <1>3, PTL DEF Spec

\* If moreover one tick runs at a time, workers that keep dying are run no more
\* often than the cap says, hooks and channel jobs included.
THEOREM ClaimsStayKept ==
  ASSUME PlatformKillsFirst, ~ LostAnswers, MaxAttempts >= 2, \A b, c \in Crons : b = c
  PROVE  Spec => []ClaimsAreKept
  <1>1. TypeInv /\ LeaseInv /\ CapInv /\ [Next]_vars => LeaseInv' /\ CapInv'
    BY LeaseStep, CapStep
  <1>2. Init => LeaseInv /\ CapInv
    BY InitHolds
  <1>3. LeaseInv /\ CapInv => ClaimsAreKept
    BY DEF LeaseInv, CapInv, ClaimsAreKept
  <1> QED BY MoneyHolds, <1>1, <1>2, <1>3, PTL DEF Spec
=============================================================================
