------------------------- MODULE Publication_proofs -------------------------
(***************************************************************************)
(* Proofs about what is published: the scorecard a page serves, the batch  *)
(* an upload leaves behind, what a review shows of its findings, and when  *)
(* the advisory of an embargoed finding comes out.                         *)
(* Each part is a specification of its own, so each has an invariant of    *)
(* its own.                                                                *)
(***************************************************************************)
EXTENDS Disclosure, ReviewKernel, Scorecard, SarifIngest, FiniteSetTheorems, TLAPS

-----------------------------------------------------------------------------
(* The scorecard.                                                          *)

\* Calls that are under way know their repository or week.
CallsKnow ==
    /\ \A o \in Operators : operator[o].at = "locking" => operator[o].repo \in Repos
    /\ \A g \in Generators : generator[g].at \in {"rolling", "insert"} => generator[g].week \in Weeks
    /\ \A q \in Readers : reader[q].at # "idle" => reader[q].week \in Weeks

\* What a change has hidden is cyber still, and no collection of figures that
\* was begun after the change holds it.
TierFollowsLog ==
    \A n \in DOMAIN changeLog : HiddenBy(n) => tiers[changeLog[n].repo] = "cyber"

Clean(repos, seen) ==
    /\ seen <= Len(changeLog)
    /\ \A n \in 1..seen : HiddenBy(n) => changeLog[n].repo \notin repos

CollectedIsClean ==
    /\ \A g \in Generators :
           generator[g].at \in {"rolling", "insert"} => Clean(generator[g].repos, generator[g].seen)
    /\ \A w \in Weeks : Clean(snapshots[w].repos, snapshots[w].seen)
    /\ \A q \in Readers : Clean(reader[q].row.repos, reader[q].row.seen)

\* One of the changes is the latest, so that latestCyberTierChangeAt finds it.
SomeChangeIsLatest ==
    changeLog # <<>> =>
        \E n \in DOMAIN changeLog : \A m \in DOMAIN changeLog : changeLog[m].at <= changeLog[n].at

\* A reader's cutoff covers the changes that were committed before it asked.
CutoffCovers ==
    \A q \in Readers :
        /\ reader[q].since <= Len(changeLog)
        /\ reader[q].cutoffRead =>
               \A n \in 1..reader[q].since : changeLog[n].at <= reader[q].cutoff
        /\ reader[q].at = "served" => reader[q].cutoffRead /\ reader[q].row.at >= reader[q].cutoff

ScorecardInv ==
    /\ ScorecardTypeOK /\ CallsKnow /\ TierFollowsLog /\ CollectedIsClean
    /\ SomeChangeIsLatest /\ CutoffCovers

ChangeRow == [repo : Repos, to : Tiers, at : Times]
OperatorCall == [at : {"idle", "locking", "done"}, now : Times, repo : Repos \cup {"none"}, tier : Tiers]
GeneratorRun ==
    [at : {"idle", "rolling", "insert", "done"}, week : Weeks \cup {"none"}, repos : SUBSET Repos, seen : Nat]
ReaderCall ==
    [at : {"idle", "reading", "served", "missing"}, week : Weeks \cup {"none"}, rowRead : BOOLEAN,
     row : Snapshots, cutoffRead : BOOLEAN, cutoff : Times \cup {Never}, since : Nat]

LEMMA ScorecardTyped ==
  ScorecardTypeOK <=>
    /\ clock \in Times /\ tiers \in [Repos -> Tiers] /\ changeLog \in Seq(ChangeRow)
    /\ snapshots \in [Weeks -> Snapshots] /\ operator \in [Operators -> OperatorCall]
    /\ generator \in [Generators -> GeneratorRun] /\ reader \in [Readers -> ReaderCall]
  BY DEF ScorecardTypeOK, ChangeRow, OperatorCall, GeneratorRun, ReaderCall

\* Nothing is hidden or revealed while the log stands still.
LEMMA LogStands ==
  ASSUME changeLog' = changeLog
  PROVE  /\ \A n : HiddenBy(n)' <=> HiddenBy(n)
         /\ \A S, k : Clean(S, k)' <=> Clean(S, k)
  BY DEF HiddenBy, Clean

\* A new change hides at most itself.
LEMMA LogGrows ==
  ASSUME changeLog \in Seq(ChangeRow), NEW e \in ChangeRow, changeLog' = Append(changeLog, e)
  PROVE  /\ changeLog' \in Seq(ChangeRow) /\ Len(changeLog') = Len(changeLog) + 1
         /\ \A n \in 1..Len(changeLog) : changeLog'[n] = changeLog[n]
         /\ changeLog'[Len(changeLog) + 1] = e
         /\ \A n \in 1..Len(changeLog) :
                HiddenBy(n)' => HiddenBy(n) /\ changeLog[n].repo # e.repo
         /\ \A S : \A k \in Nat : Clean(S, k) => Clean(S, k)'
  <1>1. /\ changeLog' \in Seq(ChangeRow) /\ Len(changeLog') = Len(changeLog) + 1
        /\ Len(changeLog) \in Nat
        /\ \A n \in 1..Len(changeLog) : changeLog'[n] = changeLog[n]
        /\ changeLog'[Len(changeLog) + 1] = e
    OBVIOUS
  <1>2. DOMAIN changeLog = 1..Len(changeLog) /\ DOMAIN changeLog' = 1..(Len(changeLog) + 1)
    BY <1>1
  <1>3. ASSUME NEW n \in 1..Len(changeLog), HiddenBy(n)'
        PROVE  HiddenBy(n) /\ changeLog[n].repo # e.repo
    <2>1. changeLog[n].to = "cyber"
      BY <1>1, <1>3 DEF HiddenBy
    <2>2. \A m \in 1..Len(changeLog) : m > n => changeLog[m].repo # changeLog[n].repo
      BY <1>1, <1>2, <1>3 DEF HiddenBy
    <2>3. changeLog[n].repo # e.repo
      BY <1>1, <1>2, <1>3 DEF HiddenBy
    <2> QED BY <1>2, <2>1, <2>2, <2>3 DEF HiddenBy
  <1>4. ASSUME NEW S, NEW k \in Nat, Clean(S, k) PROVE Clean(S, k)'
    <2>1. k <= Len(changeLog) /\ \A n \in 1..k : HiddenBy(n) => changeLog[n].repo \notin S
      BY <1>4 DEF Clean
    <2>2. \A n \in 1..k : n \in 1..Len(changeLog)
      BY <1>1, <2>1
    <2> QED BY <1>1, <1>3, <2>1, <2>2 DEF Clean
  <1> QED BY <1>1, <1>3, <1>4

LEMMA ScorecardStarts == ScorecardInit => ScorecardInv
  <1> SUFFICES ASSUME ScorecardInit PROVE ScorecardInv
    OBVIOUS
  <1>1. 0 \in Times /\ NoSnapshot \in Snapshots /\ Len(changeLog) = 0 /\ changeLog = <<>>
    BY ScorecardAssumption DEF ScorecardInit, Times, NoSnapshot, Snapshots
  <1>2. NewOperator \in OperatorCall /\ NewGenerator \in GeneratorRun /\ NewReader \in ReaderCall
    BY <1>1 DEF NewOperator, OperatorCall, NewGenerator, GeneratorRun, NewReader, ReaderCall, Tiers
  <1>3. ScorecardTypeOK
    BY <1>1, <1>2, ScorecardTyped DEF ScorecardInit, Tiers
  <1>4. CallsKnow /\ TierFollowsLog /\ SomeChangeIsLatest
    BY <1>1 DEF ScorecardInit, CallsKnow, TierFollowsLog, SomeChangeIsLatest, NewOperator, NewGenerator,
                NewReader
  <1>5. Clean({}, 0)
    BY <1>1 DEF Clean
  <1>6. CollectedIsClean
    BY <1>5 DEF ScorecardInit, CollectedIsClean, NewGenerator, NewReader, NoSnapshot
  <1>7. CutoffCovers
    BY <1>1 DEF ScorecardInit, CutoffCovers, NewReader
  <1> QED BY <1>3, <1>4, <1>6, <1>7 DEF ScorecardInv

\* What the steps that leave the log alone must see to.
LEMMA OperatorStep ==
  ASSUME ScorecardInv, NEW o \in Operators, NEW c \in OperatorCall,
         c.at = "locking" => c.repo \in Repos, operator' = [operator EXCEPT ![o] = c],
         UNCHANGED <<clock, tiers, changeLog, snapshots, generator, reader>>
  PROVE  ScorecardInv'
  <1>1. operator' \in [Operators -> OperatorCall]
        /\ \A p \in Operators : operator'[p] = IF p = o THEN c ELSE operator[p]
    BY ScorecardTyped DEF ScorecardInv
  <1>2. ScorecardTypeOK'
    BY <1>1, ScorecardTyped DEF ScorecardInv, ScorecardTypeOK, OperatorCall
  <1>3. CallsKnow'
    BY <1>1 DEF ScorecardInv, CallsKnow
  <1>4. CollectedIsClean' /\ TierFollowsLog'
    BY LogStands DEF ScorecardInv, CollectedIsClean, TierFollowsLog
  <1>5. SomeChangeIsLatest' /\ CutoffCovers'
    BY DEF ScorecardInv, SomeChangeIsLatest, CutoffCovers
  <1> QED BY <1>2, <1>3, <1>4, <1>5 DEF ScorecardInv

LEMMA GeneratorStep ==
  ASSUME ScorecardInv, NEW g \in Generators, NEW c \in GeneratorRun,
         c.at \in {"rolling", "insert"} => c.week \in Weeks /\ Clean(c.repos, c.seen),
         generator' = [generator EXCEPT ![g] = c],
         UNCHANGED <<clock, tiers, changeLog, snapshots, operator, reader>>
  PROVE  ScorecardInv'
  <1>1. generator' \in [Generators -> GeneratorRun]
        /\ \A p \in Generators : generator'[p] = IF p = g THEN c ELSE generator[p]
    BY ScorecardTyped DEF ScorecardInv
  <1>2. ScorecardTypeOK'
    BY <1>1 DEF ScorecardInv, ScorecardTypeOK, GeneratorRun
  <1>3. CallsKnow'
    BY <1>1 DEF ScorecardInv, CallsKnow
  <1>4. CollectedIsClean' /\ TierFollowsLog'
    BY <1>1, LogStands DEF ScorecardInv, CollectedIsClean, TierFollowsLog
  <1>5. SomeChangeIsLatest' /\ CutoffCovers'
    BY DEF ScorecardInv, SomeChangeIsLatest, CutoffCovers
  <1> QED BY <1>2, <1>3, <1>4, <1>5 DEF ScorecardInv

LEMMA ReaderStep ==
  ASSUME ScorecardInv, NEW q \in Readers, NEW c \in ReaderCall,
         c.at # "idle" => c.week \in Weeks, Clean(c.row.repos, c.row.seen),
         c.since <= Len(changeLog),
         c.cutoffRead => \A n \in 1..c.since : changeLog[n].at <= c.cutoff,
         c.at = "served" => c.cutoffRead /\ c.row.at >= c.cutoff,
         reader' = [reader EXCEPT ![q] = c],
         UNCHANGED <<clock, tiers, changeLog, snapshots, operator, generator>>
  PROVE  ScorecardInv'
  <1>1. reader' \in [Readers -> ReaderCall]
        /\ \A p \in Readers : reader'[p] = IF p = q THEN c ELSE reader[p]
    BY ScorecardTyped DEF ScorecardInv
  <1>2. ScorecardTypeOK'
    BY <1>1 DEF ScorecardInv, ScorecardTypeOK, ReaderCall
  <1>3. CallsKnow'
    BY <1>1 DEF ScorecardInv, CallsKnow
  <1>4. CollectedIsClean' /\ TierFollowsLog'
    BY <1>1, LogStands DEF ScorecardInv, CollectedIsClean, TierFollowsLog
  <1>5. SomeChangeIsLatest' /\ CutoffCovers'
    BY <1>1 DEF ScorecardInv, SomeChangeIsLatest, CutoffCovers
  <1> QED BY <1>2, <1>3, <1>4, <1>5 DEF ScorecardInv

LEMMA TickKeeps ==
  ASSUME ScorecardInv, Tick PROVE ScorecardInv'
  <1>1. clock' \in Times
    BY ScorecardAssumption DEF ScorecardInv, ScorecardTypeOK, Tick, Times
  <1>2. ScorecardTypeOK' /\ CallsKnow' /\ SomeChangeIsLatest' /\ CutoffCovers'
    BY <1>1 DEF ScorecardInv, ScorecardTypeOK, CallsKnow, SomeChangeIsLatest, CutoffCovers, Tick
  <1>3. CollectedIsClean' /\ TierFollowsLog'
    BY LogStands DEF ScorecardInv, CollectedIsClean, TierFollowsLog, Tick
  <1> QED BY <1>2, <1>3 DEF ScorecardInv

LEMMA SetTierKeeps ==
  ASSUME ScorecardInv, NEW o \in Operators, SetTier(o) PROVE ScorecardInv'
  <1>1. operator[o] \in OperatorCall /\ operator[o].at = "locking" /\ operator[o].repo \in Repos
    BY ScorecardTyped DEF ScorecardInv, SetTier, CallsKnow
  <1>2. PICK c \in OperatorCall : c = [operator[o] EXCEPT !.at = "done"]
    BY <1>1 DEF OperatorCall
  <1>3. operator' = [operator EXCEPT ![o] = c] /\ c.at = "done"
    BY <1>1, <1>2 DEF SetTier, OperatorCall
  <1>4. CASE tiers' = tiers /\ changeLog' = changeLog
    BY <1>3, <1>4, OperatorStep DEF SetTier
  <1>5. CASE tiers[operator[o].repo] # operator[o].tier
    <2>1. PICK e \in ChangeRow : e = [repo |-> operator[o].repo, to |-> operator[o].tier,
                                      at |-> operator[o].now]
      BY <1>1 DEF ChangeRow, OperatorCall
    <2>2. /\ tiers' = [tiers EXCEPT ![e.repo] = e.to] /\ changeLog' = Append(changeLog, e)
          /\ UNCHANGED <<clock, snapshots, generator, reader>>
      BY <1>5, <2>1 DEF SetTier
    <2>3. tiers \in [Repos -> Tiers] /\ changeLog \in Seq(ChangeRow) /\ e.repo \in Repos /\ e.to \in Tiers
      BY <2>1, ScorecardTyped DEF ScorecardInv, ChangeRow
    <2>4. /\ changeLog' \in Seq(ChangeRow) /\ Len(changeLog') = Len(changeLog) + 1
          /\ \A n \in 1..Len(changeLog) : changeLog'[n] = changeLog[n]
          /\ changeLog'[Len(changeLog) + 1] = e
          /\ \A n \in 1..Len(changeLog) :
                 HiddenBy(n)' => HiddenBy(n) /\ changeLog[n].repo # e.repo
          /\ \A S : \A k \in Nat : Clean(S, k) => Clean(S, k)'
      BY <2>2, <2>3, LogGrows
    <2>5. /\ Len(changeLog) \in Nat /\ DOMAIN changeLog = 1..Len(changeLog)
          /\ DOMAIN changeLog' = 1..(Len(changeLog) + 1)
          /\ \A n \in 1..Len(changeLog) :
                 changeLog[n].repo \in Repos /\ changeLog[n].at \in Int
      <3>1. Len(changeLog) \in Nat /\ \A n \in 1..Len(changeLog) : changeLog[n] \in ChangeRow
        BY <2>3
      <3>2. \A d \in ChangeRow : d.repo \in Repos /\ d.at \in Int
        BY ScorecardAssumption DEF ChangeRow, Times
      <3> QED BY <2>3, <2>4, <3>1, <3>2
    <2>6. ScorecardTypeOK'
      <3>1. tiers' \in [Repos -> Tiers] /\ operator' \in [Operators -> OperatorCall]
        BY <1>3, <2>2, <2>3, ScorecardTyped DEF ScorecardInv
      <3> QED BY <2>2, <2>4, <3>1 DEF ScorecardInv, ScorecardTypeOK, ChangeRow, OperatorCall
    <2>7. CallsKnow'
      BY <1>3, <2>2, ScorecardTyped DEF ScorecardInv, CallsKnow
    <2>8. TierFollowsLog'
      <3>1. ASSUME NEW n \in 1..Len(changeLog), HiddenBy(n)' PROVE tiers'[changeLog'[n].repo] = "cyber"
        <4>1. HiddenBy(n) /\ changeLog[n].repo # e.repo /\ changeLog'[n] = changeLog[n]
          BY <2>4, <3>1
        <4>2. tiers[changeLog[n].repo] = "cyber" /\ changeLog[n].repo \in Repos
          BY <2>5, <4>1 DEF ScorecardInv, TierFollowsLog
        <4> QED BY <2>2, <2>3, <4>1, <4>2
      <3>2. PICK k \in Nat : k = Len(changeLog) + 1
        BY <2>5
      <3>3. changeLog'[k] = e /\ \A n \in 1..k : n \in 1..Len(changeLog) \/ n = k
        BY <2>4, <2>5, <3>2
      <3>4. HiddenBy(k)' => tiers'[changeLog'[k].repo] = "cyber"
        BY <2>2, <2>3, <3>3 DEF HiddenBy
      <3> QED BY <2>5, <3>1, <3>2, <3>3, <3>4 DEF TierFollowsLog
    <2>9. CollectedIsClean'
      <3>1. /\ \A g \in Generators : generator[g].seen \in Nat
            /\ \A w \in Weeks : snapshots[w].seen \in Nat
            /\ \A q \in Readers : reader[q].row.seen \in Nat
        BY ScorecardTyped DEF ScorecardInv, GeneratorRun, ReaderCall, Snapshots
      <3> QED BY <2>2, <2>4, <3>1 DEF ScorecardInv, CollectedIsClean
    <2>10. SomeChangeIsLatest'
      <3>1. \A n \in 1..Len(changeLog) : changeLog[n].at \in Int
        BY <2>5
      <3>2. e.at \in Int
        BY ScorecardAssumption DEF ChangeRow, Times
      <3>3. CASE changeLog = <<>>
        <4>1. Len(changeLog) = 0
          BY <3>3
        <4> QED BY <2>4, <2>5, <3>2, <4>1 DEF SomeChangeIsLatest
      <3>4. CASE changeLog # <<>>
        <4>1. PICK n \in 1..Len(changeLog) :
                  \A m \in 1..Len(changeLog) : changeLog[m].at <= changeLog[n].at
          BY <2>5, <3>4 DEF ScorecardInv, SomeChangeIsLatest
        <4>2. PICK k \in Nat : k = Len(changeLog) + 1
          BY <2>5
        <4>3. /\ n \in 1..k /\ k \in 1..k /\ changeLog'[k].at = e.at /\ changeLog'[n].at = changeLog[n].at
              /\ \A m \in 1..k : m = k \/ (m \in 1..Len(changeLog) /\ changeLog'[m].at = changeLog[m].at)
          BY <2>4, <2>5, <4>2
        <4>4. CASE e.at <= changeLog[n].at
          <5>1. \A m \in 1..k : changeLog'[m].at <= changeLog'[n].at
            BY <4>1, <4>3, <4>4
          <5> QED BY <2>5, <4>2, <4>3, <5>1 DEF SomeChangeIsLatest
        <4>5. CASE ~ (e.at <= changeLog[n].at)
          <5>1. \A m \in 1..Len(changeLog) : changeLog[m].at <= e.at
            BY <3>1, <3>2, <4>1, <4>5
          <5>2. \A m \in 1..k : changeLog'[m].at <= changeLog'[k].at
            BY <3>2, <4>3, <5>1
          <5> QED BY <2>5, <4>2, <4>3, <5>2 DEF SomeChangeIsLatest
        <4> QED BY <4>4, <4>5
      <3> QED BY <3>3, <3>4
    <2>11. CutoffCovers'
      <3>1. \A q \in Readers : reader[q].since \in Nat
        BY ScorecardTyped DEF ScorecardInv, ReaderCall
      <3> QED BY <2>2, <2>4, <2>5, <3>1 DEF ScorecardInv, CutoffCovers
    <2> QED BY <2>6, <2>7, <2>8, <2>9, <2>10, <2>11 DEF ScorecardInv
  <1> QED BY <1>4, <1>5 DEF SetTier

LEMMA AskTierKeeps ==
  ASSUME ScorecardInv, NEW o \in Operators, NEW r \in Repos, NEW tier \in Tiers, AskTier(o, r, tier)
  PROVE  ScorecardInv'
  <1>1. PICK c \in OperatorCall : c = [at |-> "locking", now |-> clock, repo |-> r, tier |-> tier]
    BY DEF ScorecardInv, ScorecardTypeOK, OperatorCall
  <1>2. operator' = [operator EXCEPT ![o] = c] /\ c.repo \in Repos
    BY <1>1 DEF AskTier
  <1> QED BY <1>2, OperatorStep DEF AskTier

\* Figures are read from repositories that no change has hidden.
LEMMA PublicIsClean ==
  ASSUME ScorecardInv
  PROVE  Clean(PublicNow, Len(changeLog)) /\ PublicNow \in SUBSET Repos /\ Len(changeLog) \in Nat
  <1>1. Len(changeLog) \in Nat /\ DOMAIN changeLog = 1..Len(changeLog)
    BY ScorecardTyped DEF ScorecardInv
  <1> QED BY <1>1 DEF Clean, PublicNow, ScorecardInv, TierFollowsLog

LEMMA ReadWeekKeeps ==
  ASSUME ScorecardInv, NEW g \in Generators, NEW w \in Weeks, ReadWeek(g, w) PROVE ScorecardInv'
  <1>1. PICK c \in GeneratorRun :
            c = [at |-> "rolling", week |-> w, repos |-> PublicNow, seen |-> Len(changeLog)]
    BY PublicIsClean DEF GeneratorRun
  <1>2. generator' = [generator EXCEPT ![g] = c] /\ c.week \in Weeks /\ Clean(c.repos, c.seen)
    BY <1>1, PublicIsClean DEF ReadWeek
  <1> QED BY <1>2, GeneratorStep DEF ReadWeek

LEMMA ReadRollingKeeps ==
  ASSUME ScorecardInv, NEW g \in Generators, ReadRolling(g) PROVE ScorecardInv'
  <1>1. /\ generator[g] \in GeneratorRun /\ generator[g].week \in Weeks
        /\ Clean(generator[g].repos, generator[g].seen)
    BY ScorecardTyped DEF ScorecardInv, ReadRolling, CallsKnow, CollectedIsClean
  <1>2. PICK c \in GeneratorRun :
            c = [generator[g] EXCEPT !.at = "insert", !.repos = generator[g].repos \cup PublicNow]
    BY <1>1, PublicIsClean DEF GeneratorRun
  <1>3. /\ generator' = [generator EXCEPT ![g] = c]
        /\ c.week = generator[g].week /\ c.seen = generator[g].seen
        /\ c.repos = generator[g].repos \cup PublicNow
    BY <1>1, <1>2 DEF ReadRolling, GeneratorRun
  <1>4. Clean(c.repos, c.seen)
    <2>1. c.seen \in Nat /\ Len(changeLog) \in Nat
      BY <1>1, <1>3, PublicIsClean DEF GeneratorRun
    <2> QED BY <1>1, <1>3, <2>1, PublicIsClean DEF Clean
  <1> QED BY <1>1, <1>3, <1>4, GeneratorStep DEF ReadRolling

LEMMA InsertSnapshotKeeps ==
  ASSUME ScorecardInv, NEW g \in Generators, InsertSnapshot(g) PROVE ScorecardInv'
  <1>1. PICK w \in Weeks : w = generator[g].week
    BY DEF ScorecardInv, InsertSnapshot, CallsKnow
  <1>2. generator[g] \in GeneratorRun /\ Clean(generator[g].repos, generator[g].seen)
    BY ScorecardTyped DEF ScorecardInv, InsertSnapshot, CollectedIsClean
  <1>3. PICK s \in Snapshots : s = [at |-> clock, repos |-> generator[g].repos, seen |-> generator[g].seen]
    BY <1>2 DEF GeneratorRun, Snapshots, ScorecardInv, ScorecardTypeOK
  <1>4. PICK c \in GeneratorRun : c = [generator[g] EXCEPT !.at = "done"]
    BY <1>2 DEF GeneratorRun
  <1>5. /\ generator' = [generator EXCEPT ![g] = c] /\ c.at = "done"
        /\ snapshots' = snapshots \/ snapshots' = [snapshots EXCEPT ![w] = s]
    BY <1>1, <1>2, <1>3, <1>4 DEF InsertSnapshot, GeneratorRun
  <1>6. /\ generator' \in [Generators -> GeneratorRun]
        /\ \A p \in Generators : generator'[p] = IF p = g THEN c ELSE generator[p]
        /\ snapshots' \in [Weeks -> Snapshots]
        /\ \A v \in Weeks : snapshots'[v] = snapshots[v] \/ snapshots'[v] = s
    BY <1>5, ScorecardTyped DEF ScorecardInv
  <1>7. ScorecardTypeOK' /\ CallsKnow' /\ SomeChangeIsLatest' /\ CutoffCovers'
    BY <1>5, <1>6 DEF ScorecardInv, ScorecardTypeOK, CallsKnow, SomeChangeIsLatest, CutoffCovers,
                      InsertSnapshot, GeneratorRun
  <1>8. CollectedIsClean' /\ TierFollowsLog'
    <2>1. /\ changeLog' = changeLog /\ tiers' = tiers /\ reader' = reader
      BY DEF InsertSnapshot
    <2>2. Clean(s.repos, s.seen)
      BY <1>2, <1>3
    <2>3. /\ \A w2 \in Weeks : Clean(snapshots'[w2].repos, snapshots'[w2].seen)
          /\ \A p \in Generators : generator'[p].at \in {"rolling", "insert"}
                 => Clean(generator'[p].repos, generator'[p].seen)
      BY <1>5, <1>6, <2>2 DEF ScorecardInv, CollectedIsClean
    <2> QED BY <2>1, <2>3, LogStands DEF ScorecardInv, CollectedIsClean, TierFollowsLog
  <1> QED BY <1>7, <1>8 DEF ScorecardInv

LEMMA ReaderKnown ==
  ASSUME ScorecardInv, NEW q \in Readers, reader[q].at = "reading"
  PROVE  /\ reader[q] \in ReaderCall /\ reader[q].week \in Weeks
         /\ Clean(reader[q].row.repos, reader[q].row.seen) /\ reader[q].since <= Len(changeLog)
         /\ reader[q].cutoffRead => \A n \in 1..reader[q].since : changeLog[n].at <= reader[q].cutoff
         /\ Len(changeLog) \in Nat
  BY ScorecardTyped DEF ScorecardInv, CallsKnow, CollectedIsClean, CutoffCovers

LEMMA AskSnapshotKeeps ==
  ASSUME ScorecardInv, NEW q \in Readers, NEW w \in Weeks, AskSnapshot(q, w) PROVE ScorecardInv'
  <1>1. NewReader \in ReaderCall /\ Clean({}, 0) /\ Len(changeLog) \in Nat
    BY ScorecardTyped DEF NewReader, ReaderCall, NoSnapshot, Snapshots, Clean, ScorecardInv
  <1>2. PICK c \in ReaderCall :
            c = [NewReader EXCEPT !.at = "reading", !.week = w, !.since = Len(changeLog)]
    BY <1>1 DEF ReaderCall
  <1>3. /\ reader' = [reader EXCEPT ![q] = c] /\ c.week \in Weeks /\ c.row = NoSnapshot
        /\ c.since = Len(changeLog) /\ c.cutoffRead = FALSE /\ c.at = "reading"
    BY <1>2 DEF AskSnapshot, NewReader
  <1>4. Clean(c.row.repos, c.row.seen) /\ c.since <= Len(changeLog)
    BY <1>1, <1>3 DEF NoSnapshot
  <1> QED BY <1>3, <1>4, ReaderStep DEF AskSnapshot

LEMMA ReadRowKeeps ==
  ASSUME ScorecardInv, NEW q \in Readers, ReadRow(q) PROVE ScorecardInv'
  <1>1. PICK d \in ReaderCall : d = reader[q] /\ d.at = "reading" /\ d.week \in Weeks
    BY ReaderKnown DEF ReadRow
  <1>2. PICK s \in Snapshots : s = snapshots[d.week] /\ Clean(s.repos, s.seen)
    BY <1>1, ScorecardTyped DEF ScorecardInv, CollectedIsClean
  <1>3. PICK c \in ReaderCall : c = [d EXCEPT !.rowRead = TRUE, !.row = s]
    BY <1>1 DEF ReaderCall
  <1>4. /\ reader' = [reader EXCEPT ![q] = c] /\ c.at = "reading" /\ c.week = d.week /\ c.row = s
        /\ c.since = d.since /\ c.cutoffRead = d.cutoffRead /\ c.cutoff = d.cutoff
    BY <1>1, <1>2, <1>3 DEF ReadRow, ReaderCall
  <1>5. Clean(c.row.repos, c.row.seen) /\ c.week \in Weeks /\ c.since <= Len(changeLog)
        /\ (c.cutoffRead => \A n \in 1..c.since : changeLog[n].at <= c.cutoff)
    BY <1>1, <1>2, <1>4, ReaderKnown
  <1> QED BY <1>4, <1>5, ReaderStep DEF ReadRow

\* The latest change is not earlier than any.
LEMMA LatestCovers ==
  ASSUME ScorecardInv
  PROVE  /\ LatestChange \in Times \cup {Never}
         /\ \A n \in 1..Len(changeLog) : changeLog[n].at <= LatestChange
  <1>1. Len(changeLog) \in Nat /\ DOMAIN changeLog = 1..Len(changeLog)
        /\ \A n \in 1..Len(changeLog) : changeLog[n].at \in Times
    <2>1. changeLog \in Seq(ChangeRow)
      BY ScorecardTyped DEF ScorecardInv
    <2>2. Len(changeLog) \in Nat /\ \A n \in 1..Len(changeLog) : changeLog[n] \in ChangeRow
      BY <2>1
    <2>3. \A d \in ChangeRow : d.at \in Times
      BY DEF ChangeRow
    <2> QED BY <2>1, <2>2, <2>3
  <1>2. CASE changeLog = <<>>
    BY <1>2 DEF LatestChange
  <1>3. CASE changeLog # <<>>
    <2>1. \E n \in DOMAIN changeLog : \A m \in DOMAIN changeLog : changeLog[m].at <= changeLog[n].at
      BY <1>3 DEF ScorecardInv, SomeChangeIsLatest
    <2>2. PICK k : k = CHOOSE n \in DOMAIN changeLog :
                           \A m \in DOMAIN changeLog : changeLog[m].at <= changeLog[n].at
      OBVIOUS
    <2>3. k \in DOMAIN changeLog /\ \A m \in DOMAIN changeLog : changeLog[m].at <= changeLog[k].at
      BY <2>1, <2>2
    <2>4. LatestChange = changeLog[k].at
      BY <1>3, <2>2 DEF LatestChange
    <2> QED BY <1>1, <2>3, <2>4
  <1> QED BY <1>2, <1>3

LEMMA ReadCutoffKeeps ==
  ASSUME ScorecardInv, NEW q \in Readers, ReadCutoff(q) PROVE ScorecardInv'
  <1>1. PICK d \in ReaderCall : d = reader[q] /\ d.at = "reading" /\ d.week \in Weeks
    BY ReaderKnown DEF ReadCutoff
  <1>2. PICK c \in ReaderCall : c = [d EXCEPT !.cutoffRead = TRUE, !.cutoff = LatestChange]
    BY <1>1, LatestCovers DEF ReaderCall
  <1>3. /\ reader' = [reader EXCEPT ![q] = c] /\ c.at = "reading" /\ c.week = d.week /\ c.row = d.row
        /\ c.since = d.since /\ c.cutoff = LatestChange
    <2>1. /\ c.at = d.at /\ c.week = d.week /\ c.row = d.row /\ c.since = d.since
          /\ c.cutoff = LatestChange
      BY <1>2 DEF ReaderCall
    <2>2. reader' = [reader EXCEPT ![q] = c]
      BY <1>1, <1>2 DEF ReadCutoff
    <2> QED BY <1>1, <2>1, <2>2
  <1>4. Clean(c.row.repos, c.row.seen) /\ c.week \in Weeks /\ c.since <= Len(changeLog)
    BY <1>1, <1>3, ReaderKnown
  <1>5. \A n \in 1..c.since : changeLog[n].at <= c.cutoff
    <2>1. c.since \in Nat /\ Len(changeLog) \in Nat
      BY <1>1, ReaderKnown DEF ReaderCall
    <2>2. \A n \in 1..c.since : n \in 1..Len(changeLog)
      BY <1>4, <2>1
    <2> QED BY <1>3, <2>2, LatestCovers
  <1> QED BY <1>3, <1>4, <1>5, ReaderStep DEF ReadCutoff

LEMMA ServeKeeps ==
  ASSUME ScorecardInv, NEW q \in Readers, Serve(q) PROVE ScorecardInv'
  <1>1. PICK d \in ReaderCall : d = reader[q] /\ d.at = "reading" /\ d.week \in Weeks /\ d.cutoffRead
    BY ReaderKnown DEF Serve
  <1>2. PICK c \in ReaderCall :
            c = [d EXCEPT !.at = IF Fresh(d.row, d.cutoff) THEN "served" ELSE "missing"]
    BY <1>1 DEF ReaderCall
  <1>3. /\ reader' = [reader EXCEPT ![q] = c] /\ c.week = d.week /\ c.row = d.row
        /\ c.since = d.since /\ c.cutoff = d.cutoff /\ c.cutoffRead = d.cutoffRead
        /\ c.at = "served" => d.row.at >= d.cutoff
    BY <1>1, <1>2 DEF Serve, ReaderCall, Fresh
  <1>4. Clean(c.row.repos, c.row.seen) /\ c.week \in Weeks /\ c.since <= Len(changeLog)
        /\ (c.cutoffRead => \A n \in 1..c.since : changeLog[n].at <= c.cutoff)
    BY <1>1, <1>3, ReaderKnown
  <1> QED BY <1>1, <1>3, <1>4, ReaderStep DEF Serve

LEMMA ScorecardStep == ScorecardInv /\ [ScorecardNext]_scorecardVars => ScorecardInv'
  <1> SUFFICES ASSUME ScorecardInv, [ScorecardNext]_scorecardVars PROVE ScorecardInv'
    OBVIOUS
  <1>1. CASE UNCHANGED scorecardVars
    <2>1. CollectedIsClean' /\ TierFollowsLog'
      BY <1>1, LogStands DEF scorecardVars, ScorecardInv, CollectedIsClean, TierFollowsLog
    <2>2. ScorecardTypeOK' /\ CallsKnow' /\ SomeChangeIsLatest' /\ CutoffCovers'
      BY <1>1 DEF scorecardVars, ScorecardInv, ScorecardTypeOK, CallsKnow, SomeChangeIsLatest,
                  CutoffCovers
    <2> QED BY <2>1, <2>2 DEF ScorecardInv
  <1>2. CASE Tick
    BY <1>2, TickKeeps
  <1>3. CASE \E o \in Operators :
                (\E r \in Repos, tier \in Tiers : AskTier(o, r, tier)) \/ SetTier(o)
    BY <1>3, AskTierKeeps, SetTierKeeps
  <1>4. CASE \E g \in Generators :
                (\E w \in Weeks : ReadWeek(g, w)) \/ ReadRolling(g) \/ InsertSnapshot(g)
    BY <1>4, ReadWeekKeeps, ReadRollingKeeps, InsertSnapshotKeeps
  <1>5. CASE \E q \in Readers :
                (\E w \in Weeks : AskSnapshot(q, w)) \/ ReadRow(q) \/ ReadCutoff(q) \/ Serve(q)
    BY <1>5, AskSnapshotKeeps, ReadRowKeeps, ReadCutoffKeeps, ServeKeeps
  <1> QED BY <1>1, <1>2, <1>3, <1>4, <1>5 DEF ScorecardNext

\* Rows, calls and the log hold values of their types, for any number of
\* repositories, operators, weeks, generators and readers.
THEOREM ScorecardTypeCorrect == ScorecardSpec => []ScorecardTypeOK
  <1>1. ScorecardInv => ScorecardTypeOK
    BY DEF ScorecardInv
  <1> QED BY <1>1, ScorecardStarts, ScorecardStep, PTL DEF ScorecardSpec

LEMMA InvServes == ScorecardInv => ServedIsPublic
  <1> SUFFICES ASSUME ScorecardInv, NEW q \in Readers, reader[q].at = "served",
                      NEW n \in 1..reader[q].since, HiddenBy(n),
                      changeLog[n].repo \in reader[q].row.repos
               PROVE  n > reader[q].row.seen /\ changeLog[n].at <= reader[q].row.at
    BY DEF ServedIsPublic
  <1>1. reader[q] \in ReaderCall /\ changeLog \in Seq(ChangeRow)
    BY ScorecardTyped DEF ScorecardInv
  <1>2. Clean(reader[q].row.repos, reader[q].row.seen)
    BY DEF ScorecardInv, CollectedIsClean
  <1>3. /\ reader[q].since <= Len(changeLog) /\ reader[q].row.at >= reader[q].cutoff
        /\ changeLog[n].at <= reader[q].cutoff
    BY DEF ScorecardInv, CutoffCovers
  <1>4. reader[q].row.seen \in Nat /\ reader[q].since \in Nat
    BY <1>1 DEF ReaderCall, Snapshots
  <1>5. n > reader[q].row.seen
    BY <1>2, <1>4 DEF Clean
  <1>6. reader[q].row.at \in Int /\ reader[q].cutoff \in Int
    BY <1>1, ScorecardAssumption DEF ReaderCall, Snapshots, Times, Never
  <1>7. changeLog[n].at \in Int
    <2>1. Len(changeLog) \in Nat /\ \A m \in 1..Len(changeLog) : changeLog[m] \in ChangeRow
      BY <1>1
    <2>2. changeLog[n] \in ChangeRow
      BY <1>3, <1>4, <2>1
    <2> QED BY <2>2, ScorecardAssumption DEF ChangeRow, Times
  <1> QED BY <1>3, <1>5, <1>6, <1>7

\* A served scorecard holds no figures of a repository that was hidden before
\* the request began and still is, but those of a change that met the
\* snapshot's own computation (loadScorecardSnapshot), however many
\* operators, generators and readers overlap.
THEOREM ServedStaysPublic == ScorecardSpec => []ServedIsPublic
  BY InvServes, ScorecardStarts, ScorecardStep, PTL DEF ScorecardSpec

-----------------------------------------------------------------------------
(* The upload of a report.                                                 *)

UploadRow ==
    [at : {"idle", "consume", "batch", "rows", "validate", "push", "done", "replay", "failed"},
     token : Tokens \cup {"none"}, began : 0..MaxNow, claims : SUBSET Claims,
     said : [Claims -> SarifVerdicts \cup {"none"}]]
CountRow == [real : Nat, false_positive : Nat, inconclusive : Nat, error : Nat]
BatchRow ==
    [status : {"absent", "pending", "completed", "completed_with_errors"},
     token : Tokens \cup {"none"}, total : Nat, counts : CountRow]
ClaimRows == [Claims -> SarifVerdicts \cup {"absent", "pending"}]

Finished(b) == b.status \in {"completed", "completed_with_errors"}
Holds(s, b) == s.at = "batch" \/ b.status # "absent"

\* A token is used after it was issued, and its use is forgotten only when no
\* request that verified it can still run; until then nobody else spends it.
TokenInv ==
    /\ \A t \in Tokens : usedAt[t] # NoTime =>
           expires[t] # NoTime /\ expires[t] <= usedAt[t] + Ttl /\ usedAt[t] <= now
    /\ \A t \in Tokens : expires[t] # NoTime => expires[t] <= now + Ttl
    /\ \A u \in Uploads :
           /\ upload[u].at # "idle" => upload[u].token \in Tokens
           /\ upload[u].at = "consume" =>
                  /\ expires[upload[u].token] # NoTime
                  /\ upload[u].began < expires[upload[u].token]
           /\ Holds(upload[u], batch[u]) =>
                  /\ expires[upload[u].token] # NoTime
                  /\ \/ usedAt[upload[u].token] # NoTime
                     \/ expires[upload[u].token] + CallLife < now

\* One upload at most holds, or has spent for a batch, each token.
SpentOnce ==
    \A u, v \in Uploads :
        (/\ Holds(upload[u], batch[u]) /\ Holds(upload[v], batch[v])
         /\ upload[u].token = upload[v].token) => u = v

\* What the place of an upload says of its batch and of the rows of its claims.
Placed(s, b, rows) ==
    /\ s.at \in {"idle", "consume", "batch", "replay"} => b.status = "absent"
    /\ s.at \in {"idle", "consume", "batch", "rows"} => \A c \in Claims : s.said[c] = "none"
    /\ s.at \in {"rows", "validate"} =>
           b.status = "pending" /\ b.total = Cardinality(s.claims)
    /\ s.at = "validate" => \A c \in Claims :
           /\ s.said[c] # "none" => c \in s.claims
           /\ rows[c] = IF s.said[c] # "none" THEN s.said[c]
                        ELSE IF c \in s.claims THEN "pending" ELSE "absent"
    /\ s.at \in {"push", "done"} => Finished(b)
    /\ s.at = "push" => \E c \in Claims : rows[c] = "real"
    /\ b.status # "absent" => s.at # "idle" /\ b.token = s.token
    /\ b.status = "absent" => b.token = "none"

Tallied(b, rows, push) ==
    IF Finished(b)
    THEN /\ \A verdict \in SarifVerdicts :
                b.counts[verdict] = Cardinality({c \in Claims : rows[c] = verdict})
         /\ b.counts.real + b.counts.false_positive + b.counts.inconclusive + b.counts.error = b.total
         /\ push => \E c \in Claims : rows[c] = "real"
    ELSE ~ push /\ b.counts = NoBatch.counts

AddsUp(u) ==
    /\ Placed(upload[u], batch[u], claimRow[u])
    /\ Tallied(batch[u], claimRow[u], u \in pushed)

SarifTyped ==
    /\ now \in 0..MaxNow /\ expires \in [Tokens -> Moments] /\ usedAt \in [Tokens -> Moments]
    /\ upload \in [Uploads -> UploadRow] /\ batch \in [Uploads -> BatchRow]
    /\ claimRow \in [Uploads -> ClaimRows] /\ pushed \subseteq Uploads

SarifInv == SarifTyped /\ TokenInv /\ SpentOnce /\ \A u \in Uploads : AddsUp(u)

LEMMA SarifStarts == SarifInit => SarifInv
  <1> SUFFICES ASSUME SarifInit PROVE SarifInv
    OBVIOUS
  <1>1. NewUpload \in UploadRow /\ NoBatch \in BatchRow
    BY SarifAssumption DEF NewUpload, UploadRow, NoBatch, BatchRow, CountRow
  <1>2. SarifTyped
    BY <1>1, SarifAssumption DEF SarifInit, SarifTyped, Moments, ClaimRows
  <1>3. ~ Holds(NewUpload, NoBatch)
    BY DEF Holds, NewUpload, NoBatch
  <1>4. TokenInv /\ SpentOnce
    BY <1>3 DEF SarifInit, TokenInv, SpentOnce, NewUpload
  <1>5. \A rows : Placed(NewUpload, NoBatch, rows)
    BY DEF NewUpload, NoBatch, Placed
  <1>6. ASSUME NEW u \in Uploads PROVE AddsUp(u)
    <2>1. upload[u] = NewUpload /\ batch[u] = NoBatch /\ u \notin pushed
      BY DEF SarifInit
    <2>2. Tallied(batch[u], claimRow[u], u \in pushed)
      BY <2>1 DEF Tallied, Finished, NoBatch
    <2> QED BY <1>5, <2>1, <2>2 DEF AddsUp
  <1> QED BY <1>2, <1>4, <1>6 DEF SarifInv

\* A step of one upload.
Moved(u, s, b, r) ==
    /\ upload' = [upload EXCEPT ![u] = s] /\ batch' = [batch EXCEPT ![u] = b]
    /\ claimRow' = [claimRow EXCEPT ![u] = r]
    /\ pushed' \in {pushed, pushed \cup {u}}
    /\ now' = now /\ expires' = expires

LEMMA UploadMoves ==
  ASSUME SarifInv, NEW u \in Uploads, NEW s \in UploadRow, NEW b \in BatchRow, NEW r \in ClaimRows,
         Moved(u, s, b, r), usedAt' \in [Tokens -> Moments],
         Placed(s, b, r), Tallied(b, r, u \in pushed')
  PROVE  /\ SarifTyped' /\ \A v \in Uploads : AddsUp(v)'
         /\ upload'[u] = s /\ batch'[u] = b
         /\ \A v \in Uploads : v # u => upload'[v] = upload[v] /\ batch'[v] = batch[v]
  <1>1. /\ upload' \in [Uploads -> UploadRow] /\ batch' \in [Uploads -> BatchRow]
        /\ claimRow' \in [Uploads -> ClaimRows]
        /\ upload'[u] = s /\ batch'[u] = b /\ claimRow'[u] = r
        /\ \A v \in Uploads : v # u => /\ upload'[v] = upload[v] /\ batch'[v] = batch[v]
                                       /\ claimRow'[v] = claimRow[v] /\ (v \in pushed' <=> v \in pushed)
    BY DEF SarifInv, SarifTyped, Moved
  <1>2. SarifTyped'
    BY <1>1 DEF SarifInv, SarifTyped, Moved, Moments
  <1>3. \A v \in Uploads : AddsUp(v)'
    <2>1. AddsUp(u)'
      BY <1>1 DEF AddsUp, Placed, Tallied
    <2>2. ASSUME NEW v \in Uploads, v # u PROVE AddsUp(v)'
      <3>1. AddsUp(v)
        BY DEF SarifInv
      <3>2. /\ upload'[v] = upload[v] /\ batch'[v] = batch[v] /\ claimRow'[v] = claimRow[v]
            /\ (v \in pushed)' <=> v \in pushed
        BY <1>1, <2>2
      <3> QED BY <3>1, <3>2 DEF AddsUp, Placed, Tallied
    <2> QED BY <2>1, <2>2
  <1> QED BY <1>1, <1>2, <1>3

\* A step that neither verifies nor spends a token.
LEMMA TokensKept ==
  ASSUME SarifInv, NEW u \in Uploads, NEW s \in UploadRow, NEW b \in BatchRow, NEW r \in ClaimRows,
         Moved(u, s, b, r), usedAt' = usedAt, Placed(s, b, r), Tallied(b, r, u \in pushed'),
         upload[u].at # "idle", s.token = upload[u].token, s.began = upload[u].began,
         s.at # "consume", Holds(s, b) => Holds(upload[u], batch[u])
  PROVE  SarifInv'
  <1>1. usedAt' \in [Tokens -> Moments]
    BY DEF SarifInv, SarifTyped
  <1>2. /\ SarifTyped' /\ \A v \in Uploads : AddsUp(v)'
        /\ upload'[u] = s /\ batch'[u] = b
        /\ \A v \in Uploads : v # u => upload'[v] = upload[v] /\ batch'[v] = batch[v]
    BY <1>1, UploadMoves
  <1>3. now' = now /\ expires' = expires
    BY DEF Moved
  <1>4. \A v \in Uploads : /\ Holds(upload[v], batch[v])' => Holds(upload[v], batch[v])
                           /\ upload'[v].token = upload[v].token /\ upload'[v].began = upload[v].began
                           /\ upload'[v].at # "idle" => upload[v].at # "idle"
                           /\ upload'[v].at = "consume" => upload[v].at = "consume"
    BY <1>2 DEF Holds
  <1>5. TokenInv'
    BY <1>3, <1>4 DEF SarifInv, TokenInv
  <1>6. SpentOnce'
    BY <1>4 DEF SarifInv, SpentOnce
  <1> QED BY <1>2, <1>5, <1>6 DEF SarifInv

\* What is known of an upload that takes a step.
LEMMA UploadKnown ==
  ASSUME SarifInv, NEW u \in Uploads
  PROVE  /\ upload[u] \in UploadRow /\ batch[u] \in BatchRow /\ claimRow[u] \in ClaimRows
         /\ Placed(upload[u], batch[u], claimRow[u]) /\ Tallied(batch[u], claimRow[u], u \in pushed)
         /\ usedAt \in [Tokens -> Moments] /\ expires \in [Tokens -> Moments]
         /\ upload[u].at # "idle" => upload[u].token \in Tokens
         /\ batch = [batch EXCEPT ![u] = batch[u]] /\ claimRow = [claimRow EXCEPT ![u] = claimRow[u]]
  BY DEF SarifInv, SarifTyped, AddsUp, TokenInv

LEMMA TimeGoesOnKeeps == SarifInv /\ TimeGoesOn => SarifInv'
  <1> SUFFICES ASSUME SarifInv, TimeGoesOn PROVE SarifInv'
    OBVIOUS
  <1>1. now' = now + 1 /\ now \in Int /\ UNCHANGED <<expires, usedAt, upload, batch, claimRow, pushed>>
    BY SarifAssumption DEF SarifInv, SarifTyped, TimeGoesOn
  <1>2. \A t \in Tokens : expires[t] \in Int /\ usedAt[t] \in Int
    BY SarifAssumption DEF SarifInv, SarifTyped, Moments, NoTime
  <1>3. SarifTyped' /\ SpentOnce' /\ \A u \in Uploads : AddsUp(u)'
    BY SarifAssumption DEF SarifInv, SarifTyped, TimeGoesOn, SpentOnce, AddsUp, Moments
  <1>4. TokenInv'
    <2>1. \A t \in Tokens : usedAt'[t] # NoTime =>
              expires'[t] # NoTime /\ expires'[t] <= usedAt'[t] + Ttl /\ usedAt'[t] <= now'
      BY <1>1, <1>2, SarifAssumption DEF SarifInv, TokenInv
    <2>2. \A t \in Tokens : expires'[t] # NoTime => expires'[t] <= now' + Ttl
      BY <1>1, <1>2, SarifAssumption DEF SarifInv, TokenInv
    <2>3. ASSUME NEW u \in Uploads, Holds(upload[u], batch[u])
          PROVE  expires[upload[u].token] + CallLife < now => expires[upload[u].token] + CallLife < now'
      <3>1. PICK t \in Tokens : t = upload[u].token
        BY <2>3, UploadKnown DEF Holds, Placed
      <3> QED BY <1>1, <1>2, <3>1, SarifAssumption
    <2> QED BY <1>1, <2>1, <2>2, <2>3 DEF SarifInv, TokenInv
  <1> QED BY <1>3, <1>4 DEF SarifInv

LEMMA SignTokenKeeps ==
  ASSUME SarifInv, NEW t \in Tokens, SignToken(t) PROVE SarifInv'
  <1>1. /\ expires' = [expires EXCEPT ![t] = now + Ttl] /\ expires[t] = NoTime
        /\ UNCHANGED <<now, usedAt, upload, batch, claimRow, pushed>>
    BY DEF SignToken
  <1>2. now \in 0..MaxNow /\ now + Ttl \in Moments /\ now + Ttl \in Int /\ now + Ttl # NoTime
    BY SarifAssumption DEF SarifInv, SarifTyped, Moments, NoTime
  <1>3. /\ expires' \in [Tokens -> Moments]
        /\ \A d \in Tokens : expires'[d] = IF d = t THEN now + Ttl ELSE expires[d]
    BY <1>1, <1>2 DEF SarifInv, SarifTyped
  <1>4. SarifTyped' /\ SpentOnce' /\ \A u \in Uploads : AddsUp(u)'
    BY <1>1, <1>3 DEF SarifInv, SarifTyped, SpentOnce, AddsUp
  <1>5. TokenInv'
    <2>1. usedAt[t] = NoTime
      BY <1>1 DEF SarifInv, TokenInv
    <2>2. \A u \in Uploads : upload[u].at = "consume" \/ Holds(upload[u], batch[u]) => upload[u].token # t
      BY <1>1 DEF SarifInv, TokenInv
    <2>3. \A u \in Uploads : upload[u].at = "consume" \/ Holds(upload[u], batch[u]) => upload[u].token \in Tokens
      BY UploadKnown DEF Holds, Placed
    <2>4. \A d \in Tokens : expires'[d] # NoTime => expires'[d] <= now' + Ttl
      BY <1>1, <1>2, <1>3 DEF SarifInv, TokenInv
    <2> QED BY <1>1, <1>3, <2>1, <2>2, <2>3, <2>4 DEF SarifInv, TokenInv
  <1> QED BY <1>4, <1>5 DEF SarifInv

\* A use is forgotten when no request that knows the token can run any more.
LEMMA PurgeKeeps ==
  ASSUME SarifInv, NEW t \in Tokens, PurgeTokenUse(t) PROVE SarifInv'
  <1>1. /\ usedAt' = [usedAt EXCEPT ![t] = NoTime] /\ usedAt[t] # NoTime /\ usedAt[t] < now - Retention
        /\ UNCHANGED <<now, expires, upload, batch, claimRow, pushed>>
    BY DEF PurgeTokenUse, Forgettable
  <1>2. /\ usedAt' \in [Tokens -> Moments] /\ usedAt'[t] = NoTime
        /\ \A d \in Tokens : d # t => usedAt'[d] = usedAt[d]
    BY <1>1 DEF SarifInv, SarifTyped, Moments
  <1>3. SarifTyped' /\ SpentOnce' /\ \A u \in Uploads : AddsUp(u)'
    BY <1>1, <1>2 DEF SarifInv, SarifTyped, SpentOnce, AddsUp
  <1>4. TokenInv'
    <2>1. usedAt[t] \in Int /\ expires[t] \in Int /\ now \in Int
      BY SarifAssumption DEF SarifInv, SarifTyped, Moments, NoTime
    <2>2. expires[t] <= usedAt[t] + Ttl
      BY <1>1 DEF SarifInv, TokenInv
    <2>3. expires[t] + CallLife < now
      BY <1>1, <2>1, <2>2, SarifAssumption
    <2>4. \A u \in Uploads : Holds(upload[u], batch[u]) => upload[u].token \in Tokens
      BY UploadKnown DEF Holds, Placed
    <2> QED BY <1>1, <1>2, <2>3, <2>4 DEF SarifInv, TokenInv
  <1> QED BY <1>3, <1>4 DEF SarifInv

LEMMA VerifyTokenKeeps ==
  ASSUME SarifInv, NEW u \in Uploads, NEW t \in Tokens, VerifyToken(u, t) PROVE SarifInv'
  <1>1. NewUpload \in UploadRow /\ now \in 0..MaxNow
    BY SarifAssumption DEF NewUpload, UploadRow, SarifInv, SarifTyped
  <1>2. PICK s \in UploadRow : s = [NewUpload EXCEPT !.at = "consume", !.token = t, !.began = now]
    BY <1>1 DEF UploadRow
  <1>3. /\ s.at = "consume" /\ s.token = t /\ s.began = now /\ \A c \in Claims : s.said[c] = "none"
    BY <1>2 DEF NewUpload
  <1>4. PICK b \in BatchRow, r \in ClaimRows :
            b = batch[u] /\ r = claimRow[u] /\ Placed(upload[u], b, r) /\ Tallied(b, r, u \in pushed)
            /\ b.status = "absent" /\ Moved(u, s, b, r) /\ pushed' = pushed /\ usedAt' = usedAt
    BY <1>2, UploadKnown DEF VerifyToken, Placed, Moved
  <1>5. Placed(s, b, r) /\ Tallied(b, r, u \in pushed') /\ ~ Holds(s, b)
    BY <1>3, <1>4 DEF Placed, Holds
  <1>6. /\ SarifTyped' /\ \A v \in Uploads : AddsUp(v)'
        /\ upload'[u] = s /\ batch'[u] = b
        /\ \A v \in Uploads : v # u => upload'[v] = upload[v] /\ batch'[v] = batch[v]
    BY <1>4, <1>5, UploadMoves, UploadKnown
  <1>7. now' = now /\ expires' = expires /\ usedAt' = usedAt /\ expires[t] # NoTime /\ now < expires[t]
    BY DEF VerifyToken
  <1>8. TokenInv' /\ SpentOnce'
    BY <1>3, <1>5, <1>6, <1>7 DEF SarifInv, TokenInv, SpentOnce
  <1> QED BY <1>6, <1>8 DEF SarifInv

LEMMA ConsumeKeeps ==
  ASSUME SarifInv, NEW u \in Uploads, ConsumeTokenUse(u) PROVE SarifInv'
  <1>1. PICK t \in Tokens, d \in UploadRow :
            /\ t = upload[u].token /\ d = upload[u] /\ d.at = "consume" /\ now <= d.began + CallLife
            /\ d.token = t
    BY UploadKnown DEF ConsumeTokenUse, Runs
  <1>2. PICK b \in BatchRow, r \in ClaimRows :
            b = batch[u] /\ r = claimRow[u] /\ Placed(d, b, r) /\ Tallied(b, r, u \in pushed)
            /\ b.status = "absent" /\ b.token = "none"
    BY <1>1, UploadKnown DEF Placed
  <1>3. ASSUME NEW at \in {"batch", "replay"}, Goes(u, at)
        PROVE  \E s \in UploadRow :
                   /\ s.at = at /\ s.token = t /\ s.began = d.began /\ Moved(u, s, b, r)
                   /\ Placed(s, b, r) /\ Tallied(b, r, u \in pushed')
    <2>1. PICK s \in UploadRow : s = [d EXCEPT !.at = at]
      BY <1>1 DEF UploadRow
    <2>2. s.at = at /\ s.token = t /\ s.began = d.began /\ s.said = d.said
      BY <1>1, <2>1 DEF UploadRow
    <2>3. Moved(u, s, b, r) /\ pushed' = pushed
      BY <1>1, <1>2, <1>3, <2>1, UploadKnown DEF Moved, Goes, ConsumeTokenUse
    <2>4. Placed(s, b, r)
      BY <1>1, <1>2, <2>2 DEF Placed
    <2> QED BY <1>2, <2>2, <2>3, <2>4
  <1>4. CASE Goes(u, "replay") /\ usedAt' = usedAt
    <2>1. PICK s \in UploadRow : /\ s.at = "replay" /\ s.token = t /\ s.began = d.began /\ Moved(u, s, b, r)
                                 /\ Placed(s, b, r) /\ Tallied(b, r, u \in pushed')
      BY <1>3, <1>4
    <2>2. Holds(s, b) => Holds(upload[u], batch[u])
      BY <1>2, <2>1 DEF Holds
    <2> QED BY <1>1, <1>4, <2>1, <2>2, TokensKept
  <1>5. CASE Unused(t) /\ Goes(u, "batch") /\ usedAt' = [usedAt EXCEPT ![t] = now]
    <2>1. PICK s \in UploadRow : /\ s.at = "batch" /\ s.token = t /\ s.began = d.began /\ Moved(u, s, b, r)
                                 /\ Placed(s, b, r) /\ Tallied(b, r, u \in pushed')
      BY <1>3, <1>5
    <2>2. now \in 0..MaxNow /\ now \in Moments /\ now # NoTime
      BY SarifAssumption DEF SarifInv, SarifTyped, Moments, NoTime
    <2>3. /\ usedAt' \in [Tokens -> Moments] /\ usedAt'[t] = now
          /\ \A e \in Tokens : e # t => usedAt'[e] = usedAt[e]
      BY <1>5, <2>2, UploadKnown
    <2>4. /\ SarifTyped' /\ \A v \in Uploads : AddsUp(v)'
          /\ upload'[u] = s /\ batch'[u] = b
          /\ \A v \in Uploads : v # u => upload'[v] = upload[v] /\ batch'[v] = batch[v]
      BY <2>1, <2>3, UploadMoves
    <2>5. now' = now /\ expires' = expires
      BY <2>1 DEF Moved
    <2>6. d.began < expires[t] /\ expires[t] # NoTime /\ usedAt[t] = NoTime /\ expires[t] <= now + Ttl
      BY <1>1, <1>5 DEF SarifInv, TokenInv, Unused
    <2>7. ~ (expires[t] + CallLife < now)
      <3>1. expires[t] \in Int /\ d.began \in Int /\ now \in Int
        BY SarifAssumption, UploadKnown DEF Moments, NoTime, UploadRow, SarifInv, SarifTyped
      <3> QED BY <1>1, <2>6, <3>1, SarifAssumption
    <2>8. \A v \in Uploads : Holds(upload[v], batch[v]) => upload[v].token # t
      BY <2>6, <2>7 DEF SarifInv, TokenInv
    <2>9. SpentOnce'
      BY <2>1, <2>4, <2>8 DEF SarifInv, SpentOnce
    <2>10. TokenInv'
      <3>1. \A e \in Tokens : usedAt'[e] # NoTime =>
                expires'[e] # NoTime /\ expires'[e] <= usedAt'[e] + Ttl /\ usedAt'[e] <= now'
        BY <2>2, <2>3, <2>5, <2>6 DEF SarifInv, TokenInv
      <3>2. \A e \in Tokens : expires'[e] # NoTime => expires'[e] <= now' + Ttl
        BY <2>5 DEF SarifInv, TokenInv
      <3>3. ASSUME NEW v \in Uploads
            PROVE  /\ upload'[v].at # "idle" => upload'[v].token \in Tokens
                   /\ upload'[v].at = "consume" =>
                          /\ expires'[upload'[v].token] # NoTime
                          /\ upload'[v].began < expires'[upload'[v].token]
                   /\ Holds(upload'[v], batch'[v]) =>
                          /\ expires'[upload'[v].token] # NoTime
                          /\ \/ usedAt'[upload'[v].token] # NoTime
                             \/ expires'[upload'[v].token] + CallLife < now'
        <4>1. CASE v = u
          BY <2>1, <2>2, <2>3, <2>4, <2>5, <2>6, <4>1 DEF Holds
        <4>2. CASE v # u
          <5>1. upload'[v] = upload[v] /\ batch'[v] = batch[v]
            BY <2>4, <4>2
          <5>2. Holds(upload[v], batch[v]) => upload[v].token \in Tokens \ {t}
            BY <2>8, UploadKnown DEF Holds, Placed
          <5> QED BY <2>3, <2>5, <5>1, <5>2 DEF SarifInv, TokenInv
        <4> QED BY <4>1, <4>2
      <3> QED BY <3>1, <3>2, <3>3 DEF TokenInv
    <2> QED BY <2>4, <2>9, <2>10 DEF SarifInv
  <1> QED BY <1>1, <1>4, <1>5 DEF ConsumeTokenUse

LEMMA CreateBatchKeeps ==
  ASSUME SarifInv, NEW u \in Uploads, NEW C \in SUBSET Claims, CreateBatch(u, C) PROVE SarifInv'
  <1>1. PICK d \in UploadRow, r \in ClaimRows :
            /\ d = upload[u] /\ d.at = "batch" /\ d.token \in Tokens /\ r = claimRow[u]
            /\ Placed(d, batch[u], r) /\ Tallied(batch[u], r, u \in pushed)
    BY UploadKnown DEF CreateBatch, Runs
  <1>2. IsFiniteSet(C) /\ Cardinality(C) \in Nat
    BY FS_Subset, FS_CardinalityType, SarifAssumption
  <1>3. NoBatch \in BatchRow
    BY SarifAssumption DEF NoBatch, BatchRow, CountRow
  <1>4. PICK b \in BatchRow :
            b = [NoBatch EXCEPT !.status = "pending", !.token = upload[u].token, !.total = Cardinality(C)]
    BY <1>1, <1>2, <1>3 DEF BatchRow
  <1>5. PICK s \in UploadRow : s = [d EXCEPT !.at = "rows", !.claims = C]
    BY <1>1 DEF UploadRow
  <1>6. /\ s.at = "rows" /\ s.claims = C /\ s.token = d.token /\ s.began = d.began /\ s.said = d.said
        /\ b.status = "pending" /\ b.token = d.token /\ b.total = Cardinality(C) /\ b.counts = NoBatch.counts
    BY <1>1, <1>4, <1>5 DEF UploadRow, NoBatch
  <1>7. Moved(u, s, b, r) /\ pushed' = pushed /\ usedAt' = usedAt
    BY <1>1, <1>4, <1>5, UploadKnown DEF CreateBatch, Moved
  <1>8. Placed(s, b, r)
    BY <1>1, <1>6 DEF Placed
  <1>9. Tallied(b, r, u \in pushed')
    BY <1>1, <1>6, <1>7 DEF Tallied, Placed, Finished
  <1>10. Holds(upload[u], batch[u])
    BY <1>1 DEF Holds
  <1> QED BY <1>1, <1>6, <1>7, <1>8, <1>9, <1>10, TokensKept

LEMMA InsertClaimsKeeps ==
  ASSUME SarifInv, NEW u \in Uploads, InsertClaims(u) PROVE SarifInv'
  <1>1. PICK d \in UploadRow, b \in BatchRow :
            /\ d = upload[u] /\ d.at = "rows" /\ d.token \in Tokens /\ b = batch[u]
            /\ Placed(d, b, claimRow[u]) /\ Tallied(b, claimRow[u], u \in pushed)
    BY UploadKnown DEF InsertClaims, Runs
  <1>2. PICK r \in ClaimRows : r = [c \in Claims |-> IF c \in d.claims THEN "pending" ELSE "absent"]
    BY DEF ClaimRows
  <1>3. PICK s \in UploadRow : s = [d EXCEPT !.at = "validate"]
    BY <1>1 DEF UploadRow
  <1>4. /\ s.at = "validate" /\ s.claims = d.claims /\ s.token = d.token /\ s.began = d.began
        /\ s.said = d.said
    BY <1>1, <1>3 DEF UploadRow
  <1>5. Moved(u, s, b, r) /\ pushed' = pushed /\ usedAt' = usedAt
    BY <1>1, <1>2, <1>3, UploadKnown DEF InsertClaims, Moved, Goes
  <1>6. Placed(s, b, r)
    BY <1>1, <1>2, <1>4 DEF Placed
  <1>7. Tallied(b, r, u \in pushed')
    BY <1>1, <1>5 DEF Tallied, Placed, Finished
  <1>8. Holds(upload[u], batch[u])
    BY <1>1 DEF Holds, Placed
  <1> QED BY <1>1, <1>4, <1>5, <1>6, <1>7, <1>8, TokensKept

LEMMA ClaimsGetVerdicts ==
  ASSUME NEW g \in Gates PROVE ClaimVerdict(g) \in SarifVerdicts
  BY DEF ClaimVerdict, SarifVerdicts

LEMMA ValidateClaimKeeps ==
  ASSUME SarifInv, NEW u \in Uploads, NEW c \in Claims, NEW v \in SarifVerdicts, ValidateClaim(u, c, v)
  PROVE  SarifInv'
  <1>1. PICK d \in UploadRow, b \in BatchRow, q \in ClaimRows :
            /\ d = upload[u] /\ d.at = "validate" /\ d.token \in Tokens /\ b = batch[u] /\ q = claimRow[u]
            /\ Placed(d, b, q) /\ Tallied(b, q, u \in pushed) /\ c \in d.claims
    BY UploadKnown DEF ValidateClaim, Runs
  <1>2. PICK r \in ClaimRows : r = [q EXCEPT ![c] = v]
    BY <1>1 DEF ClaimRows
  <1>3. PICK said \in [Claims -> SarifVerdicts \cup {"none"}] : said = [d.said EXCEPT ![c] = v]
    BY <1>1 DEF UploadRow
  <1>4. PICK s \in UploadRow : s = [d EXCEPT !.said = said]
    BY <1>1 DEF UploadRow
  <1>5. /\ s.at = "validate" /\ s.claims = d.claims /\ s.token = d.token /\ s.began = d.began
        /\ s.said = said
    BY <1>1, <1>4 DEF UploadRow
  <1>6. /\ \A e \in Claims : said[e] = (IF e = c THEN v ELSE d.said[e]) /\ r[e] = (IF e = c THEN v ELSE q[e])
        /\ v # "none"
    BY <1>1, <1>2, <1>3 DEF UploadRow, ClaimRows, SarifVerdicts
  <1>7. Moved(u, s, b, r) /\ pushed' = pushed /\ usedAt' = usedAt
    <2>1. upload' = [upload EXCEPT ![u] = s] /\ claimRow' = [claimRow EXCEPT ![u] = r]
      BY <1>1, <1>2, <1>3, <1>4, UploadKnown DEF ValidateClaim, UploadRow
    <2> QED BY <1>1, <2>1, UploadKnown DEF ValidateClaim, Moved
  <1>8. Placed(s, b, r)
    BY <1>1, <1>5, <1>6 DEF Placed
  <1>9. Tallied(b, r, u \in pushed')
    BY <1>1, <1>7 DEF Tallied, Placed, Finished
  <1>10. Holds(upload[u], batch[u])
    BY <1>1 DEF Holds, Placed
  <1> QED BY <1>1, <1>5, <1>7, <1>8, <1>9, <1>10, TokensKept

\* Four kinds of verdict share out the claims of a report.
SharedOut(of, C, said) ==
    /\ \A v \in SarifVerdicts : Cardinality(of[v]) \in Nat
    /\ Cardinality(of["real"]) + Cardinality(of["false_positive"])
           + Cardinality(of["inconclusive"]) + Cardinality(of["error"]) = Cardinality(C)
    /\ Cardinality(of["real"]) > 0 => \E c \in Claims : said[c] = "real"

LEMMA ClaimsAreShared ==
  ASSUME NEW C \in SUBSET Claims, NEW said \in [Claims -> SarifVerdicts \cup {"none"}],
         \A c \in Claims : said[c] # "none" <=> c \in C,
         NEW of, of = [v \in SarifVerdicts |-> {c \in Claims : said[c] = v}]
  PROVE  SharedOut(of, C, said)
  <1>1. /\ of["real"] = {c \in Claims : said[c] = "real"}
        /\ of["false_positive"] = {c \in Claims : said[c] = "false_positive"}
        /\ of["inconclusive"] = {c \in Claims : said[c] = "inconclusive"}
        /\ of["error"] = {c \in Claims : said[c] = "error"}
    BY DEF SarifVerdicts
  <1>2. \A v \in SarifVerdicts : IsFiniteSet(of[v]) /\ Cardinality(of[v]) \in Nat
    <2>1. ASSUME NEW v \in SarifVerdicts PROVE IsFiniteSet(of[v]) /\ Cardinality(of[v]) \in Nat
      <3>1. of[v] \in SUBSET Claims
        OBVIOUS
      <3> QED BY <3>1, FS_Subset, FS_CardinalityType, SarifAssumption
    <2> QED BY <2>1
  <1>3. PICK A, B, D, E : A = of["real"] /\ B = of["false_positive"] /\ D = of["inconclusive"] /\ E = of["error"]
    OBVIOUS
  <1>4. IsFiniteSet(A) /\ IsFiniteSet(B) /\ IsFiniteSet(D) /\ IsFiniteSet(E)
        /\ Cardinality(A) \in Nat /\ Cardinality(B) \in Nat /\ Cardinality(D) \in Nat /\ Cardinality(E) \in Nat
    BY <1>2, <1>3 DEF SarifVerdicts
  <1>5. A \cap B = {} /\ (A \cup B) \cap D = {} /\ ((A \cup B) \cup D) \cap E = {}
        /\ ((A \cup B) \cup D) \cup E = C
    BY <1>1, <1>3 DEF SarifVerdicts
  <1>6. IsFiniteSet(A \cup B) /\ Cardinality(A \cup B) = Cardinality(A) + Cardinality(B)
    <2>1. /\ IsFiniteSet(A \cup B)
          /\ Cardinality(A \cup B) = Cardinality(A) + Cardinality(B) - Cardinality(A \cap B)
      BY <1>4, <1>5, FS_Union
    <2>2. Cardinality(A \cap B) = 0 /\ Cardinality(A) \in Nat
      BY <1>4, <1>5, FS_EmptySet, FS_CardinalityType
    <2> QED BY <1>4, <2>1, <2>2
  <1>7. /\ IsFiniteSet((A \cup B) \cup D)
        /\ Cardinality((A \cup B) \cup D) = Cardinality(A \cup B) + Cardinality(D)
    <2>1. /\ IsFiniteSet((A \cup B) \cup D)
          /\ Cardinality((A \cup B) \cup D) = Cardinality((A \cup B)) + Cardinality(D) - Cardinality((A \cup B) \cap D)
      BY <1>4, <1>5, <1>6, FS_Union
    <2>2. Cardinality((A \cup B) \cap D) = 0 /\ Cardinality((A \cup B)) \in Nat
      BY <1>4, <1>5, <1>6, FS_EmptySet, FS_CardinalityType
    <2> QED BY <1>4, <2>1, <2>2
  <1>8. Cardinality(((A \cup B) \cup D) \cup E) = Cardinality((A \cup B) \cup D) + Cardinality(E)
    <2>1. /\ IsFiniteSet(((A \cup B) \cup D) \cup E)
          /\ Cardinality(((A \cup B) \cup D) \cup E) = Cardinality(((A \cup B) \cup D)) + Cardinality(E) - Cardinality(((A \cup B) \cup D) \cap E)
      BY <1>4, <1>5, <1>6, <1>7, FS_Union
    <2>2. Cardinality(((A \cup B) \cup D) \cap E) = 0 /\ Cardinality(((A \cup B) \cup D)) \in Nat
      BY <1>4, <1>5, <1>6, <1>7, FS_EmptySet, FS_CardinalityType
    <2> QED BY <1>4, <2>1, <2>2
  <1>9. Cardinality(A) + Cardinality(B) + Cardinality(D) + Cardinality(E) = Cardinality(C)
    BY <1>4, <1>5, <1>6, <1>7, <1>8
  <1>10. Cardinality(A) > 0 => \E c \in Claims : said[c] = "real"
    <2>1. A # {} => \E c \in Claims : said[c] = "real"
      BY <1>1, <1>3
    <2>2. A = {} => Cardinality(A) = 0
      BY FS_EmptySet
    <2> QED BY <1>4, <2>1, <2>2
  <1> QED BY <1>2, <1>3, <1>9, <1>10 DEF SharedOut

LEMMA FinishBatchKeeps ==
  ASSUME SarifInv, NEW u \in Uploads, FinishBatch(u) PROVE SarifInv'
  <1>1. PICK d \in UploadRow, q \in BatchRow, r \in ClaimRows :
            /\ d = upload[u] /\ d.at = "validate" /\ d.token \in Tokens /\ q = batch[u] /\ r = claimRow[u]
            /\ Placed(d, q, r) /\ Tallied(q, r, u \in pushed)
    BY UploadKnown DEF FinishBatch, Runs
  <1>2. \A c \in Claims : (d.said[c] # "none" <=> c \in d.claims)
    BY <1>1 DEF FinishBatch, AllSaid, Placed
  <1>3. \A c \in Claims, v \in SarifVerdicts : r[c] = v <=> d.said[c] = v
    BY <1>1, <1>2 DEF Placed, SarifVerdicts
  <1>4. PICK of : of = [v \in SarifVerdicts |-> {c \in Claims : d.said[c] = v}]
    OBVIOUS
  <1>5. /\ \A v \in SarifVerdicts : Cardinality(of[v]) \in Nat
        /\ Cardinality(of["real"]) + Cardinality(of["false_positive"])
               + Cardinality(of["inconclusive"]) + Cardinality(of["error"]) = Cardinality(d.claims)
        /\ Cardinality(of["real"]) > 0 => \E c \in Claims : d.said[c] = "real"
    <2>1. d.said \in [Claims -> SarifVerdicts \cup {"none"}] /\ d.claims \in SUBSET Claims
      BY <1>1 DEF UploadRow
    <2>2. PICK C \in SUBSET Claims, said \in [Claims -> SarifVerdicts \cup {"none"}] :
              C = d.claims /\ said = d.said
      BY <2>1
    <2>3. \A c \in Claims : said[c] # "none" <=> c \in C
      BY <1>2, <2>2
    <2>4. of = [v \in SarifVerdicts |-> {c \in Claims : said[c] = v}]
      BY <1>4, <2>2
    <2>5. SharedOut(of, C, said)
      BY <2>3, <2>4, ClaimsAreShared
    <2> QED BY <2>2, <2>5 DEF SharedOut
  <1>6. \A v \in SarifVerdicts : of[v] = {c \in Claims : r[c] = v}
    BY <1>3, <1>4
  <1>7. Counts(u) = [real |-> Cardinality(of["real"]), false_positive |-> Cardinality(of["false_positive"]),
                     inconclusive |-> Cardinality(of["inconclusive"]), error |-> Cardinality(of["error"])]
    BY <1>1, <1>4 DEF Counts, SarifVerdicts
  <1>8. PICK n \in CountRow : n = Counts(u)
    BY <1>5, <1>7 DEF CountRow, SarifVerdicts
  <1>9. \A v \in SarifVerdicts : n[v] = Cardinality(of[v])
    BY <1>7, <1>8 DEF SarifVerdicts
  <1>10. PICK status \in {"completed", "completed_with_errors"}, at \in {"push", "done"} :
            /\ status = IF Counts(u).error > 0 THEN "completed_with_errors" ELSE "completed"
            /\ at = IF Counts(u).real > 0 THEN "push" ELSE "done"
    OBVIOUS
  <1>11. PICK b \in BatchRow : b = [q EXCEPT !.status = status, !.counts = n]
    BY <1>1 DEF BatchRow
  <1>12. PICK s \in UploadRow : s = [d EXCEPT !.at = at]
    BY <1>1 DEF UploadRow
  <1>13. /\ s.at = at /\ s.claims = d.claims /\ s.token = d.token /\ s.began = d.began /\ s.said = d.said
         /\ b.status = status /\ b.token = q.token /\ b.total = q.total /\ b.counts = n
    BY <1>1, <1>11, <1>12 DEF UploadRow, BatchRow
  <1>14. Moved(u, s, b, r) /\ pushed' = pushed /\ usedAt' = usedAt
    <2>1. /\ batch' = [batch EXCEPT ![u].status = status, ![u].counts = n]
          /\ upload' = [upload EXCEPT ![u].at = at]
      BY <1>8, <1>10 DEF FinishBatch, Goes
    <2>2. batch' = [batch EXCEPT ![u] = b] /\ upload' = [upload EXCEPT ![u] = s]
      BY <1>1, <1>11, <1>12, <2>1
    <2> QED BY <1>1, <2>2, UploadKnown DEF FinishBatch, Moved
  <1>15. at = "push" => \E c \in Claims : r[c] = "real"
    BY <1>3, <1>5, <1>7, <1>10 DEF SarifVerdicts
  <1>16. Placed(s, b, r)
    BY <1>1, <1>10, <1>13, <1>15 DEF Placed, Finished
  <1>17. Tallied(b, r, u \in pushed')
    <2>1. u \notin pushed'
      BY <1>1, <1>14 DEF Tallied, Placed, Finished
    <2>2. \A v \in SarifVerdicts : b.counts[v] = Cardinality({c \in Claims : r[c] = v})
      BY <1>6, <1>9, <1>13
    <2>3. b.counts.real + b.counts.false_positive + b.counts.inconclusive + b.counts.error = b.total
      BY <1>1, <1>5, <1>7, <1>8, <1>13 DEF Placed
    <2> QED BY <1>10, <1>13, <2>1, <2>2, <2>3 DEF Tallied, Finished
  <1>18. Holds(upload[u], batch[u])
    BY <1>1 DEF Holds, Placed
  <1> QED BY <1>1, <1>10, <1>13, <1>14, <1>16, <1>17, <1>18, TokensKept

LEMMA PushKeeps ==
  ASSUME SarifInv, NEW u \in Uploads, PushFindings(u) PROVE SarifInv'
  <1>1. PICK d \in UploadRow, b \in BatchRow, r \in ClaimRows :
            /\ d = upload[u] /\ d.at = "push" /\ d.token \in Tokens /\ b = batch[u] /\ r = claimRow[u]
            /\ Placed(d, b, r) /\ Tallied(b, r, u \in pushed)
    BY UploadKnown DEF PushFindings, Runs
  <1>2. PICK s \in UploadRow : s = [d EXCEPT !.at = "done"]
    BY <1>1 DEF UploadRow
  <1>3. s.at = "done" /\ s.token = d.token /\ s.began = d.began
    BY <1>1, <1>2 DEF UploadRow
  <1>4. Moved(u, s, b, r) /\ usedAt' = usedAt
    BY <1>1, <1>2, UploadKnown DEF PushFindings, Moved, Goes
  <1>5. Placed(s, b, r)
    BY <1>1, <1>3 DEF Placed, Finished
  <1>6. Tallied(b, r, u \in pushed')
    BY <1>1 DEF Tallied, Placed
  <1>7. Holds(upload[u], batch[u])
    BY <1>1 DEF Holds, Placed, Finished
  <1> QED BY <1>1, <1>3, <1>4, <1>5, <1>6, <1>7, TokensKept

LEMMA UploadFailsKeeps ==
  ASSUME SarifInv, NEW u \in Uploads, UploadFails(u) PROVE SarifInv'
  <1>1. PICK d \in UploadRow, b \in BatchRow, r \in ClaimRows :
            /\ d = upload[u] /\ d.at # "idle" /\ d.token \in Tokens /\ b = batch[u] /\ r = claimRow[u]
            /\ Placed(d, b, r) /\ Tallied(b, r, u \in pushed)
    BY UploadKnown DEF UploadFails
  <1>2. PICK s \in UploadRow : s = [d EXCEPT !.at = "failed"]
    BY <1>1 DEF UploadRow
  <1>3. s.at = "failed" /\ s.token = d.token /\ s.began = d.began
    BY <1>1, <1>2 DEF UploadRow
  <1>4. Moved(u, s, b, r) /\ usedAt' = usedAt /\ pushed' = pushed
    BY <1>1, <1>2, UploadKnown DEF UploadFails, Moved, Goes
  <1>5. Placed(s, b, r) /\ Tallied(b, r, u \in pushed') /\ (Holds(s, b) => Holds(upload[u], batch[u]))
    BY <1>1, <1>3, <1>4 DEF Placed, Holds
  <1> QED BY <1>1, <1>3, <1>4, <1>5, TokensKept

LEMMA SarifStep == SarifInv /\ [SarifNext]_sarifVars => SarifInv'
  <1> SUFFICES ASSUME SarifInv, [SarifNext]_sarifVars PROVE SarifInv'
    OBVIOUS
  <1>1. CASE UNCHANGED sarifVars
    BY <1>1 DEF sarifVars, SarifInv, SarifTyped, TokenInv, SpentOnce, AddsUp
  <1>2. CASE TimeGoesOn
    BY <1>2, TimeGoesOnKeeps
  <1>3. CASE \E t \in Tokens : SignToken(t) \/ PurgeTokenUse(t)
    BY <1>3, SignTokenKeeps, PurgeKeeps
  <1>4. CASE \E u \in Uploads : \/ \E t \in Tokens : VerifyToken(u, t)
                                \/ ConsumeTokenUse(u)
                                \/ \E claims \in SUBSET Claims : CreateBatch(u, claims)
    BY <1>4, VerifyTokenKeeps, ConsumeKeeps, CreateBatchKeeps
  <1>5. CASE \E u \in Uploads : InsertClaims(u) \/ FinishBatch(u) \/ PushFindings(u) \/ UploadFails(u)
    BY <1>5, InsertClaimsKeeps, FinishBatchKeeps, PushKeeps, UploadFailsKeeps
  <1>6. CASE \E u \in Uploads : \E c \in Claims, verdict \in {ClaimVerdict(g) : g \in Gates} :
                 ValidateClaim(u, c, verdict)
    BY <1>6, ClaimsGetVerdicts, ValidateClaimKeeps
  <1> QED BY <1>1, <1>2, <1>3, <1>4, <1>5, <1>6 DEF SarifNext

LEMMA SarifTells == SarifInv => SarifTypeOK /\ OneBatchPerToken /\ BatchAddsUp
  <1> SUFFICES ASSUME SarifInv PROVE SarifTypeOK /\ OneBatchPerToken /\ BatchAddsUp
    OBVIOUS
  <1>1. SarifTypeOK
    BY DEF SarifInv, SarifTyped, SarifTypeOK, UploadRow, BatchRow, ClaimRows
  <1>2. OneBatchPerToken
    <2> SUFFICES ASSUME NEW u \in Uploads, NEW v \in Uploads, batch[u].status # "absent",
                        batch[u].token = batch[v].token
                 PROVE  u = v
      BY DEF OneBatchPerToken
    <2>1. batch[u].token = upload[u].token /\ upload[u].token \in Tokens
      BY UploadKnown DEF Placed
    <2>2. batch[v].status # "absent" /\ batch[v].token = upload[v].token
      <3>1. batch[v].status = "absent" => batch[v].token = "none"
        BY UploadKnown DEF Placed
      <3>2. batch[v].status # "absent"
        BY <2>1, <3>1, SarifAssumption
      <3> QED BY <3>2, UploadKnown DEF Placed
    <2> QED BY <2>1, <2>2 DEF SarifInv, SpentOnce, Holds
  <1>3. BatchAddsUp
    <2> SUFFICES ASSUME NEW u \in Uploads PROVE BatchAddsUp!(u)
      BY DEF BatchAddsUp
    <2>1. Tallied(batch[u], claimRow[u], u \in pushed)
      BY UploadKnown
    <2> QED BY <2>1 DEF Tallied, Finished
  <1> QED BY <1>1, <1>2, <1>3

\* Tokens, uploads, batches and rows hold values of their types.
THEOREM SarifTypeCorrect == SarifSpec => []SarifTypeOK
  BY SarifStarts, SarifStep, SarifTells, PTL DEF SarifSpec

\* A token makes one batch at most, for any number of uploads and tokens,
\* because a use is remembered longer than a token and a request live
\* (consumeSarifIngestTokenUse, runSarifTokenUseGc).
THEOREM TokensMakeOneBatch == SarifSpec => []OneBatchPerToken
  BY SarifStarts, SarifStep, SarifTells, PTL DEF SarifSpec

\* The counts of a finished batch are those of its rows, whatever the gates say
\* of each claim and wherever an upload ends (ingestSarif,
\* finishSarifImportBatch).
THEOREM BatchesAddUp == SarifSpec => []BatchAddsUp
  BY SarifStarts, SarifStep, SarifTells, PTL DEF SarifSpec

-----------------------------------------------------------------------------
(* The kernel of a review.                                                 *)

KernelState ==
    [at : KernelPlaces, rail : {"install", "paid"}, tier : {"default", "cyber"}, receipt : BOOLEAN,
     model : ThreatModels, found : SUBSET Findings, high : SUBSET Findings, raw : SUBSET Findings,
     shadows : SUBSET Shadows, corroborated : SUBSET Shadows, embargoed : SUBSET Findings,
     shadowEmbargoed : SUBSET Shadows, patch : [Findings -> Reviewers \cup {NoPatch}],
     verdict : [Findings -> Verdicts \cup {"none"}], inline : SUBSET Findings, lost : SUBSET Shadows]
RowState ==
    [public : BOOLEAN, decision : {"none", "skipped", "agreed"}, high : SUBSET Findings,
     raw : SUBSET Findings, severity : [Findings -> {"none", "low", "high"}],
     shadows : SUBSET Shadows, corroborated : SUBSET Shadows,
     state : [Findings \cup Shadows -> {"absent", "none", "embargoed"}], comment : BOOLEAN,
     patch : [Findings -> Reviewers \cup {NoPatch}], linked : SUBSET Findings,
     proposed : SUBSET Findings]
PullState ==
    [summary : BOOLEAN, shown : SUBSET (Findings \cup Shadows), review : SUBSET Findings,
     patches : [Findings -> Verdicts \cup {"none", "untagged"}]]

KernelTyped ==
    /\ setup \in KernelSetups /\ repoTier \in {"default", "cyber"} /\ threatModel \in ThreatModels
    /\ kernelFaults \in 0..MaxKernelFaults
    /\ kernel \in [Kernels -> KernelState] /\ reviewRow \in [Kernels -> RowState]
    /\ pullRequest \in [Kernels -> PullState]

\* Places before the decision is written, before anything is posted, and
\* before the comment.
Undecided == {"idle", "review", "loadModel", "storeModel", "reach", "adjudicate", "update"}
Unposted == Undecided \cup {"record", "disclose", "shadow", "summary"}
Uncommented == Unposted \cup {"patch", "verify", "comment"}
Ended == {"done", "stopped"}

LiveGate == setup.live /\ On("disclosure")
Offered(s) == {f \in Findings : s.patch[f] # NoPatch}

\* What an invocation knows.
KnowsItself(s) ==
    /\ s.high \subseteq s.raw /\ s.raw \subseteq s.found /\ s.corroborated \subseteq s.shadows
    /\ s.embargoed \subseteq s.found
    /\ s.shadowEmbargoed \subseteq s.shadows /\ s.lost \subseteq s.shadows
    /\ s.at \in {"idle", "review"} => s.found = {} /\ s.shadows = {} /\ s.corroborated = {}
    /\ s.at \in Undecided \cup {"record", "disclose"} => s.embargoed = {}
    /\ s.at \in Undecided \cup {"record", "disclose", "shadow"} => s.shadowEmbargoed = {} /\ s.lost = {}
    /\ s.inline \subseteq Offered(s) /\ Offered(s) \subseteq s.found
    /\ Offered(s) # {} => s.embargoed = {}
    /\ s.at \in Unposted \cup {"patch"} => Offered(s) = {}
    /\ s.at \in Unposted \cup {"patch", "verify"} => \A f \in Findings : s.verdict[f] = "none"
    /\ \A f \in s.inline : s.verdict[f] # "regressed"
    /\ s.tier = "cyber" => ~ s.receipt /\ s.at \in Unposted \cup Ended

\* What its rows say of it: who is embargoed in the table is embargoed in the
\* invocation's own view, or lost; from some place on all that must be is.
RowKnows(s, r) ==
    /\ r.public = s.receipt
    /\ s.at \in Undecided => r.high = {} /\ r.shadows = {}
    /\ s.at \in Undecided \cup {"record", "disclose", "shadow"} => r.shadows = {}
    /\ r.high \subseteq s.high /\ r.shadows \subseteq s.shadows
    /\ \A f \in Findings : r.state[f] = "embargoed" => f \in s.embargoed
    /\ \A f \in Shadows : r.state[f] = "embargoed" => f \in s.shadowEmbargoed \cup s.lost
    /\ s.at \notin Undecided \cup {"record", "disclose"} \cup Ended =>
           /\ s.tier = "cyber" => s.found \subseteq s.embargoed
           /\ LiveGate => s.high \subseteq s.embargoed
    /\ s.at \notin Undecided \cup {"record", "disclose", "shadow"} \cup Ended =>
           (LiveGate => r.shadows \subseteq s.shadowEmbargoed \cup s.lost)
    /\ s.at \in Uncommented \cup {"setComment", "decisions"} =>
           r.linked = {} /\ \A f \in Findings : r.patch[f] = NoPatch

\* What the pull request says of it.
PullKnows(s, r, p) ==
    /\ s.at \in Unposted => ~ p.summary
    /\ s.at \in Uncommented => p.shown = {} /\ p.review = {} /\ \A f \in Findings : p.patches[f] = "none"
    /\ p.summary => s.embargoed = {} /\ (s.tier = "cyber" => s.found = {})
    /\ s.tier = "cyber" => p.shown = {} /\ p.review = {} /\ \A f \in Findings : p.patches[f] = "none"
    /\ p.shown \subseteq (s.found \ s.embargoed) \cup (s.shadows \ s.shadowEmbargoed)
    /\ LiveGate => \A f \in p.shown \ s.lost : f \notin r.high \cup r.shadows
    /\ \A f \in Findings : p.patches[f] # "none" =>
           f \in p.shown /\ f \in Offered(s) /\ s.verdict[f] # "regressed"
    /\ s.at \in {"setComment", "decisions", "inline"} => \A f \in s.inline : p.patches[f] # "none"
    /\ \A f \in p.review : p.patches[f] # "none"
    /\ r.linked \subseteq p.review
    /\ \A f \in Findings : (s.at \in {"setComment", "decisions"} /\ f \in Offered(s)) \/ r.patch[f] # NoPatch =>
           (p.patches[f] = "none" <=> s.verdict[f] = "regressed")

KernelFits(k) ==
    /\ KnowsItself(kernel[k]) /\ RowKnows(kernel[k], reviewRow[k])
    /\ PullKnows(kernel[k], reviewRow[k], pullRequest[k])

\* No copy of the threat model is public with something private in it.
ModelsAreClean ==
    /\ PublicModelIsPublic
    /\ \A k \in Kernels : kernel[k].model.access = "public" => "private" \notin kernel[k].model.items

KernelInv == KernelTyped /\ ModelsAreClean /\ \A k \in Kernels : KernelFits(k)

KernelMoved(k, s, r, p) ==
    /\ kernel' = [kernel EXCEPT ![k] = s] /\ reviewRow' = [reviewRow EXCEPT ![k] = r]
    /\ pullRequest' = [pullRequest EXCEPT ![k] = p]
    /\ setup' = setup /\ repoTier' = repoTier
    /\ kernelFaults' = kernelFaults \/ KernelFault

CleanModel(m) == m.access = "public" => "private" \notin m.items

LEMMA KernelKeeps ==
  ASSUME KernelInv, NEW k \in Kernels, NEW s \in KernelState, NEW r \in RowState, NEW p \in PullState,
         KernelMoved(k, s, r, p), threatModel' \in ThreatModels, CleanModel(threatModel)',
         CleanModel(s.model), KnowsItself(s), RowKnows(s, r), PullKnows(s, r, p)
  PROVE  KernelInv'
  <1>1. /\ kernel' \in [Kernels -> KernelState] /\ reviewRow' \in [Kernels -> RowState]
        /\ pullRequest' \in [Kernels -> PullState]
        /\ kernel'[k] = s /\ reviewRow'[k] = r /\ pullRequest'[k] = p
        /\ \A j \in Kernels : j # k => /\ kernel'[j] = kernel[j] /\ reviewRow'[j] = reviewRow[j]
                                       /\ pullRequest'[j] = pullRequest[j]
    BY DEF KernelInv, KernelTyped, KernelMoved
  <1>2. kernelFaults' \in 0..MaxKernelFaults
    BY KernelAssumption DEF KernelInv, KernelTyped, KernelMoved, KernelFault
  <1>3. KernelTyped'
    BY <1>1, <1>2 DEF KernelInv, KernelTyped, KernelMoved
  <1>4. ModelsAreClean'
    BY <1>1 DEF KernelInv, ModelsAreClean, PublicModelIsPublic, CleanModel
  <1>5. LiveGate' <=> LiveGate
    BY DEF KernelMoved, LiveGate, On
  <1>6. KernelFits(k)'
    BY <1>1, <1>5 DEF KernelFits, KnowsItself, RowKnows, PullKnows, Offered
  <1>7. ASSUME NEW j \in Kernels, j # k PROVE KernelFits(j)'
    <2>1. KernelFits(j) /\ kernel'[j] = kernel[j] /\ reviewRow'[j] = reviewRow[j]
          /\ pullRequest'[j] = pullRequest[j]
      BY <1>1, <1>7 DEF KernelInv
    <2> QED BY <1>5, <2>1 DEF KernelFits, KnowsItself, RowKnows, PullKnows, Offered
  <1> QED BY <1>3, <1>4, <1>6, <1>7 DEF KernelInv

\* What is known of the invocation that takes a step.
Saw(k, d, r, p) ==
    /\ d = kernel[k] /\ r = reviewRow[k] /\ p = pullRequest[k]
    /\ KnowsItself(d) /\ RowKnows(d, r) /\ PullKnows(d, r, p) /\ CleanModel(d.model)

LEMMA KernelKnown ==
  ASSUME KernelInv, NEW k \in Kernels
  PROVE  /\ \E d \in KernelState, r \in RowState, p \in PullState : Saw(k, d, r, p)
         /\ kernel = [kernel EXCEPT ![k] = kernel[k]] /\ reviewRow = [reviewRow EXCEPT ![k] = reviewRow[k]]
         /\ pullRequest = [pullRequest EXCEPT ![k] = pullRequest[k]]
         /\ threatModel \in ThreatModels /\ CleanModel(threatModel)
  <1>1. kernel[k] \in KernelState /\ reviewRow[k] \in RowState /\ pullRequest[k] \in PullState
    BY DEF KernelInv, KernelTyped
  <1>2. Saw(k, kernel[k], reviewRow[k], pullRequest[k])
    BY DEF KernelInv, KernelFits, Saw, ModelsAreClean, CleanModel
  <1> QED BY <1>1, <1>2 DEF KernelInv, KernelTyped, ModelsAreClean, PublicModelIsPublic, CleanModel

\* Records that differ in the place alone.
Alike(s, d) ==
    /\ s.rail = d.rail /\ s.tier = d.tier /\ s.receipt = d.receipt /\ s.model = d.model
    /\ s.found = d.found /\ s.high = d.high /\ s.raw = d.raw /\ s.shadows = d.shadows
    /\ s.corroborated = d.corroborated /\ s.embargoed = d.embargoed
    /\ s.shadowEmbargoed = d.shadowEmbargoed /\ s.patch = d.patch /\ s.verdict = d.verdict
    /\ s.inline = d.inline /\ s.lost = d.lost

LEMMA OnwardState ==
  ASSUME NEW d \in KernelState, NEW at \in KernelPlaces
  PROVE  \E s \in KernelState : s = [d EXCEPT !.at = at] /\ s.at = at /\ Alike(s, d)
  <1>1. PICK s : s = [d EXCEPT !.at = at]
    OBVIOUS
  <1>2. s \in KernelState
    BY <1>1 DEF KernelState
  <1>3. s.at = at /\ Alike(s, d)
    BY <1>1 DEF KernelState, Alike
  <1> QED BY <1>1, <1>2, <1>3

\* A step onward that posts nothing and writes nothing.
LEMMA OnwardKeeps ==
  ASSUME KernelInv, NEW k \in Kernels, NEW at \in KernelPlaces, KernelGoes(k, at),
         UNCHANGED <<rest, reviewRow, pullRequest>>, kernelFaults' = kernelFaults \/ KernelFault,
         \A d \in KernelState, r \in RowState, p \in PullState :
             Saw(k, d, r, p) => \A s \in KernelState :
                 s.at = at /\ Alike(s, d) => KnowsItself(s) /\ RowKnows(s, r) /\ PullKnows(s, r, p)
  PROVE  KernelInv'
  <1>1. PICK d \in KernelState, r \in RowState, p \in PullState : Saw(k, d, r, p)
    BY KernelKnown
  <1>2. PICK s \in KernelState : s = [d EXCEPT !.at = at] /\ s.at = at /\ Alike(s, d)
    BY OnwardState
  <1>3. KnowsItself(s) /\ RowKnows(s, r) /\ PullKnows(s, r, p) /\ CleanModel(s.model)
    BY <1>1, <1>2 DEF Saw, Alike
  <1>4. KernelMoved(k, s, r, p) /\ threatModel' = threatModel
    BY <1>1, <1>2, KernelKnown DEF KernelMoved, KernelGoes, Saw, rest
  <1> QED BY <1>3, <1>4, KernelKeeps, KernelKnown

LEMMA KernelStarts == KernelInit => KernelInv
  <1> SUFFICES ASSUME KernelInit PROVE KernelInv
    OBVIOUS
  <1>1. NoModel \in ThreatModels /\ [access |-> "public", items |-> {"public"}] \in ThreatModels
    BY DEF NoModel, ThreatModels
  <1>2. NewKernel \in KernelState
    BY <1>1 DEF NewKernel, KernelState, KernelPlaces, NoPatch
  <1>3. NewRow \in RowState /\ EmptyPullRequest \in PullState
    BY DEF NewRow, RowState, EmptyPullRequest, PullState, NoPatch
  <1>4. threatModel \in ThreatModels /\ CleanModel(threatModel) /\ CleanModel(NoModel)
    BY <1>1 DEF KernelInit, CleanModel, NoModel
  <1>5. KernelTyped
    BY <1>2, <1>3, <1>4, KernelAssumption DEF KernelInit, KernelTyped
  <1>6. ModelsAreClean
    BY <1>4 DEF KernelInit, ModelsAreClean, PublicModelIsPublic, CleanModel, NewKernel
  <1>7. KnowsItself(NewKernel)
    BY DEF NewKernel, KnowsItself, Offered, Undecided, Unposted
  <1>8. RowKnows(NewKernel, NewRow)
    BY DEF NewKernel, NewRow, RowKnows, Undecided, Unposted, Uncommented
  <1>9. PullKnows(NewKernel, NewRow, EmptyPullRequest)
    BY DEF NewKernel, NewRow, EmptyPullRequest, PullKnows, Unposted, Uncommented, Undecided
  <1>10. \A k \in Kernels : KernelFits(k)
    BY <1>7, <1>8, <1>9 DEF KernelInit, KernelFits
  <1> QED BY <1>5, <1>6, <1>10 DEF KernelInv

LEMMA SetRepoTierKeeps == KernelInv /\ SetRepoTier => KernelInv'
  <1> SUFFICES ASSUME KernelInv, SetRepoTier PROVE KernelInv'
    OBVIOUS
  <1>1. UNCHANGED <<setup, threatModel, kernel, reviewRow, pullRequest, kernelFaults>>
        /\ repoTier' \in {"default", "cyber"}
    BY DEF SetRepoTier
  <1>2. KernelTyped' /\ ModelsAreClean'
    BY <1>1 DEF KernelInv, KernelTyped, ModelsAreClean, PublicModelIsPublic
  <1>3. \A k \in Kernels : KernelFits(k)'
    BY <1>1 DEF KernelInv, KernelFits, KnowsItself, RowKnows, PullKnows, Offered, LiveGate, On
  <1> QED BY <1>2, <1>3 DEF KernelInv

\* Whether the receipt is public is decided with the tier.
LEMMA StartKernelKeeps ==
  ASSUME KernelInv, NEW k \in Kernels, NEW rail \in {"install", "paid"}, NEW wanted \in BOOLEAN,
         NEW empty \in BOOLEAN, StartKernel(k, rail, wanted, empty)
  PROVE  KernelInv'
  <1>1. PICK d \in KernelState, r \in RowState, p \in PullState : Saw(k, d, r, p)
    BY KernelKnown
  <1>2. PICK tier \in {"default", "cyber"}, at \in {"done", "review"} :
            tier = repoTier /\ at = IF empty THEN "done" ELSE "review"
    BY DEF KernelInv, KernelTyped
  <1>3. PICK receipt \in BOOLEAN : receipt = (tier # "cyber" /\ wanted)
    OBVIOUS
  <1>4. PICK decision \in {"skipped", "none"} : decision = IF empty THEN "skipped" ELSE "none"
    OBVIOUS
  <1>5. PICK s \in KernelState : s = [d EXCEPT !.at = at, !.rail = rail, !.tier = tier, !.receipt = receipt]
    <2>1. at \in KernelPlaces /\ tier \in {"default", "cyber"} /\ receipt \in BOOLEAN
      BY <1>2, <1>3 DEF KernelPlaces
    <2> QED BY <2>1 DEF KernelState
  <1>6. PICK q \in RowState : q = [r EXCEPT !.public = receipt, !.decision = decision]
    BY DEF RowState
  <1>7. d.at = "idle" /\ threatModel' = threatModel
    BY <1>1 DEF StartKernel, KernelAt, Saw
  <1>8. KernelMoved(k, s, q, p)
    <2>1. /\ kernel' = [kernel EXCEPT ![k].at = at, ![k].rail = rail, ![k].tier = tier, ![k].receipt = receipt]
          /\ reviewRow' = [reviewRow EXCEPT ![k].public = receipt, ![k].decision = decision]
      BY <1>2, <1>3, <1>4 DEF StartKernel
    <2>2. kernel' = [kernel EXCEPT ![k] = s] /\ reviewRow' = [reviewRow EXCEPT ![k] = q]
      BY <1>1, <1>5, <1>6, <2>1 DEF Saw
    <2> QED BY <1>1, <2>2, KernelKnown DEF KernelMoved, StartKernel, Saw
  <1>9. /\ s.at = at /\ s.tier = tier /\ s.receipt = receipt /\ s.model = d.model
        /\ s.found = d.found /\ s.high = d.high /\ s.raw = d.raw /\ s.shadows = d.shadows
        /\ s.corroborated = d.corroborated /\ s.embargoed = d.embargoed
        /\ s.shadowEmbargoed = d.shadowEmbargoed /\ s.patch = d.patch /\ s.verdict = d.verdict
        /\ s.inline = d.inline /\ s.lost = d.lost
    BY <1>5 DEF KernelState
  <1>10. /\ q.public = receipt /\ q.high = r.high /\ q.shadows = r.shadows /\ q.state = r.state
         /\ q.patch = r.patch /\ q.linked = r.linked
    BY <1>6 DEF RowState
  <1>11. KnowsItself(s)
    <2>1. s.tier = "cyber" => ~ s.receipt
      <3>1. tier = "cyber" => ~ receipt
        BY <1>3, Zenon
      <3> QED BY <1>9, <3>1
    <2> QED BY <1>1, <1>2, <1>7, <1>9, <2>1 DEF Saw, KnowsItself, Offered, Undecided, Unposted, Ended
  <1>12. RowKnows(s, q)
    BY <1>1, <1>7, <1>9, <1>10 DEF Saw, RowKnows, Undecided, Unposted, Uncommented, Ended
  <1>13. PullKnows(s, q, p)
    BY <1>1, <1>7, <1>9, <1>10 DEF Saw, PullKnows, KnowsItself, Unposted, Uncommented, Undecided, Offered
  <1>14. CleanModel(s.model)
    BY <1>1, <1>9 DEF Saw
  <1> QED BY <1>7, <1>8, <1>11, <1>12, <1>13, <1>14, KernelKeeps, KernelKnown

LEMMA ReviewKeeps ==
  ASSUME KernelInv, NEW k \in Kernels, NEW F \in SUBSET Findings, NEW H \in SUBSET Findings,
         NEW S \in SUBSET Shadows, Review(k, F, H, S)
  PROVE  KernelInv'
  <1>1. PICK d \in KernelState, r \in RowState, p \in PullState : Saw(k, d, r, p)
    BY KernelKnown
  <1>2. PICK s \in KernelState : s = [d EXCEPT !.at = "loadModel", !.found = F, !.high = H, !.raw = H,
                                               !.shadows = S]
    BY DEF KernelState, KernelPlaces
  <1>3. d.at = "review" /\ threatModel' = threatModel /\ H \subseteq F
    BY <1>1 DEF Review, KernelAt, Saw, rest
  <1>4. KernelMoved(k, s, r, p)
    BY <1>1, <1>2, KernelKnown DEF KernelMoved, Review, Saw, rest
  <1>5. /\ s.at = "loadModel" /\ s.tier = d.tier /\ s.receipt = d.receipt /\ s.model = d.model
        /\ s.found = F /\ s.high = H /\ s.raw = H /\ s.shadows = S
        /\ s.corroborated = d.corroborated /\ s.embargoed = d.embargoed
        /\ s.shadowEmbargoed = d.shadowEmbargoed /\ s.patch = d.patch /\ s.verdict = d.verdict
        /\ s.inline = d.inline /\ s.lost = d.lost
    BY <1>2 DEF KernelState
  <1>6. KnowsItself(s)
    BY <1>1, <1>3, <1>5 DEF Saw, KnowsItself, Offered, Undecided, Unposted, Ended
  <1>7. RowKnows(s, r)
    BY <1>1, <1>3, <1>5 DEF Saw, RowKnows, Undecided, Unposted, Uncommented, Ended
  <1>8. PullKnows(s, r, p)
    BY <1>1, <1>3, <1>5 DEF Saw, PullKnows, KnowsItself, Unposted, Uncommented, Undecided, Offered
  <1>9. CleanModel(s.model)
    BY <1>1, <1>5 DEF Saw
  <1> QED BY <1>3, <1>4, <1>6, <1>7, <1>8, <1>9, KernelKeeps, KernelKnown

\* Copies of the threat model travel between invocations; nothing else changes.
LEMMA ModelOnwardKeeps ==
  ASSUME KernelInv, NEW k \in Kernels, NEW at \in {"storeModel", "reach"}, NEW m \in ThreatModels,
         CleanModel(m), kernel[k].at \in {"loadModel", "storeModel"},
         kernel' = [kernel EXCEPT ![k].at = at, ![k].model = m],
         UNCHANGED <<setup, repoTier, reviewRow, pullRequest>>,
         kernelFaults' = kernelFaults \/ KernelFault,
         threatModel' \in ThreatModels, CleanModel(threatModel)'
  PROVE  KernelInv'
  <1>1. PICK d \in KernelState, r \in RowState, p \in PullState : Saw(k, d, r, p)
    BY KernelKnown
  <1>2. PICK s \in KernelState : s = [d EXCEPT !.at = at, !.model = m]
    BY DEF KernelState, KernelPlaces
  <1>3. /\ s.at = at /\ s.model = m /\ s.tier = d.tier /\ s.receipt = d.receipt
        /\ s.found = d.found /\ s.high = d.high /\ s.raw = d.raw /\ s.shadows = d.shadows
        /\ s.corroborated = d.corroborated /\ s.embargoed = d.embargoed
        /\ s.shadowEmbargoed = d.shadowEmbargoed /\ s.patch = d.patch /\ s.verdict = d.verdict
        /\ s.inline = d.inline /\ s.lost = d.lost
    BY <1>2 DEF KernelState
  <1>4. d.at \in {"loadModel", "storeModel"} /\ kernel' = [kernel EXCEPT ![k] = s]
    BY <1>1, <1>2 DEF Saw
  <1>5. KernelMoved(k, s, r, p)
    BY <1>1, <1>4, KernelKnown DEF KernelMoved, Saw
  <1>6. KnowsItself(s)
    BY <1>1, <1>3, <1>4 DEF Saw, KnowsItself, Offered, Undecided, Unposted, Ended
  <1>7. RowKnows(s, r)
    BY <1>1, <1>3, <1>4 DEF Saw, RowKnows, Undecided, Unposted, Uncommented, Ended
  <1>8. PullKnows(s, r, p)
    BY <1>1, <1>3, <1>4 DEF Saw, PullKnows, Unposted, Uncommented, Undecided, Offered
  <1>9. CleanModel(s.model)
    BY <1>3
  <1> QED BY <1>5, <1>6, <1>7, <1>8, <1>9, KernelKeeps

LEMMA LoadThreatModelKeeps ==
  ASSUME KernelInv, NEW k \in Kernels, LoadThreatModel(k) PROVE KernelInv'
  <1>1. kernel[k].at = "loadModel" /\ UNCHANGED <<rest, reviewRow, pullRequest>>
        /\ (kernelFaults' = kernelFaults \/ KernelFault)
    BY DEF LoadThreatModel, KernelAt
  <1>2. CASE kernel' = [kernel EXCEPT ![k].at = "storeModel", ![k].model = threatModel]
    <2>1. threatModel' = threatModel /\ threatModel \in ThreatModels /\ CleanModel(threatModel)
      BY <1>1, KernelKnown DEF rest
    <2> QED BY <1>1, <1>2, <2>1, ModelOnwardKeeps DEF rest
  <1>3. CASE KernelGoes(k, "reach")
    <2>1. \A d \in KernelState, r \in RowState, p \in PullState :
             Saw(k, d, r, p) => \A s \in KernelState :
                 s.at = "reach" /\ Alike(s, d) => KnowsItself(s) /\ RowKnows(s, r) /\ PullKnows(s, r, p)
      BY <1>1 DEF Saw, Alike, KnowsItself, RowKnows, PullKnows, Undecided, Unposted, Uncommented, Ended,
                  Offered
    <2> QED BY <1>1, <1>3, <2>1, OnwardKeeps DEF KernelPlaces
  <1> QED BY <1>1, <1>2, <1>3 DEF LoadThreatModel

\* A document becomes public only when it is built anew from a public review.
LEMMA StoredIsClean ==
  ASSUME KernelInv, NEW k \in Kernels, NEW tree \in BOOLEAN, NEW touched \in BOOLEAN
  PROVE  /\ ModelToStore(k, tree, touched) \in ThreatModels
         /\ CleanModel(ModelToStore(k, tree, touched))
  <1>1. PICK d \in KernelState : d = kernel[k] /\ CleanModel(d.model)
    BY KernelKnown DEF Saw
  <1>2. PICK access \in {"private", "live_protocol_review_required", "public"} : access = Access(k)
    BY KernelAssumption DEF Access, KernelInv, KernelTyped
  <1>3. PICK from \in {"public", "private"} : from = Provenance(k) /\ (access = "public" => from = "public")
    BY <1>2 DEF Provenance
  <1>4. PICK old \in ThreatModels : old = d.model /\ CleanModel(old)
    BY <1>1 DEF KernelState
  <1>5. PICK built \in ThreatModels : built = [access |-> access, items |-> {from}] /\ CleanModel(built)
    <2>1. [access |-> access, items |-> {from}] \in ThreatModels
      BY <1>2, <1>3 DEF ThreatModels
    <2>2. "private" \in {from} => access # "public"
      BY <1>2, <1>3
    <2> QED BY <2>1, <2>2 DEF CleanModel
  <1>6. PICK items \in SUBSET {"public", "private"} :
            items = IF touched THEN old.items \cup {from} ELSE old.items
    BY <1>4 DEF ThreatModels
  <1>7. Publishing(k) <=> old.access # "public" /\ access = "public"
    BY <1>1, <1>2, <1>4 DEF Publishing
  <1>8. PICK kept \in ThreatModels :
            kept = [access |-> IF Publishing(k) THEN old.access ELSE access, items |-> items]
    BY <1>4, <1>6 DEF ThreatModels
  <1>9. CleanModel(kept)
    BY <1>3, <1>4, <1>6, <1>7, <1>8 DEF CleanModel, ThreatModels
  <1>10. ModelToStore(k, tree, touched) \in {built, threatModel, kept}
    BY <1>1, <1>2, <1>3, <1>4, <1>5, <1>6, <1>8 DEF ModelToStore, KeptAccess
  <1> QED BY <1>5, <1>8, <1>9, <1>10, KernelKnown

LEMMA StoreThreatModelKeeps ==
  ASSUME KernelInv, NEW k \in Kernels, NEW tree \in BOOLEAN, NEW touched \in BOOLEAN,
         StoreThreatModel(k, tree, touched)
  PROVE  KernelInv'
  <1>1. /\ kernel[k].at = "storeModel" /\ UNCHANGED <<setup, repoTier, reviewRow, pullRequest>>
        /\ kernel' = [kernel EXCEPT ![k].at = "reach", ![k].model = NoModel]
        /\ (kernelFaults' = kernelFaults \/ KernelFault)
        /\ (threatModel' = ModelToStore(k, tree, touched) \/ threatModel' = threatModel)
    BY DEF StoreThreatModel, KernelAt
  <1>2. NoModel \in ThreatModels /\ CleanModel(NoModel)
    BY DEF NoModel, ThreatModels, CleanModel
  <1>3. threatModel' \in ThreatModels /\ CleanModel(threatModel)'
    BY <1>1, StoredIsClean, KernelKnown DEF CleanModel
  <1> QED BY <1>1, <1>2, <1>3, ModelOnwardKeeps

LEMMA ReachabilityGateKeeps ==
  ASSUME KernelInv, NEW k \in Kernels, NEW U \in SUBSET Findings, ReachabilityGate(k, U)
  PROVE  KernelInv'
  <1>1. PICK d \in KernelState, r \in RowState, p \in PullState : Saw(k, d, r, p)
    BY KernelKnown
  <1>2. PICK H \in SUBSET Findings : H = d.high \ U
    BY DEF KernelState
  <1>3. PICK s \in KernelState : s = [d EXCEPT !.at = "adjudicate", !.high = H]
    BY DEF KernelState, KernelPlaces
  <1>4. d.at = "reach" /\ threatModel' = threatModel
    BY <1>1 DEF ReachabilityGate, KernelAt, Saw, rest
  <1>5. KernelMoved(k, s, r, p)
    BY <1>1, <1>2, <1>3, KernelKnown DEF KernelMoved, ReachabilityGate, Saw, rest
  <1>6. /\ s.at = "adjudicate" /\ s.high = H /\ s.tier = d.tier /\ s.receipt = d.receipt /\ s.model = d.model
        /\ s.found = d.found /\ s.raw = d.raw /\ s.shadows = d.shadows
        /\ s.corroborated = d.corroborated /\ s.embargoed = d.embargoed
        /\ s.shadowEmbargoed = d.shadowEmbargoed /\ s.patch = d.patch /\ s.verdict = d.verdict
        /\ s.inline = d.inline /\ s.lost = d.lost
    BY <1>3 DEF KernelState
  <1>7. KnowsItself(s)
    BY <1>1, <1>2, <1>4, <1>6 DEF Saw, KnowsItself, Offered, Undecided, Unposted, Ended
  <1>8. RowKnows(s, r)
    BY <1>1, <1>4, <1>6 DEF Saw, RowKnows, Undecided, Unposted, Uncommented, Ended
  <1>9. PullKnows(s, r, p)
    BY <1>1, <1>4, <1>6 DEF Saw, PullKnows, Unposted, Uncommented, Undecided, Offered
  <1>10. CleanModel(s.model)
    BY <1>1, <1>6 DEF Saw
  <1> QED BY <1>4, <1>5, <1>7, <1>8, <1>9, <1>10, KernelKeeps, KernelKnown

LEMMA AdjudicateKeeps ==
  ASSUME KernelInv, NEW k \in Kernels, NEW C \in SUBSET Shadows, Adjudicate(k, C) PROVE KernelInv'
  <1>1. PICK d \in KernelState, r \in RowState, p \in PullState : Saw(k, d, r, p)
    BY KernelKnown
  <1>2. PICK s \in KernelState : s = [d EXCEPT !.at = "update", !.corroborated = C]
    BY DEF KernelState, KernelPlaces
  <1>3. d.at = "adjudicate" /\ threatModel' = threatModel /\ C \subseteq d.shadows
    BY <1>1 DEF Adjudicate, KernelAt, Saw, rest
  <1>4. KernelMoved(k, s, r, p)
    BY <1>1, <1>2, KernelKnown DEF KernelMoved, Adjudicate, Saw, rest
  <1>5. /\ s.at = "update" /\ s.corroborated = C /\ s.tier = d.tier /\ s.receipt = d.receipt
        /\ s.model = d.model /\ s.found = d.found /\ s.high = d.high /\ s.raw = d.raw
        /\ s.shadows = d.shadows /\ s.embargoed = d.embargoed
        /\ s.shadowEmbargoed = d.shadowEmbargoed /\ s.patch = d.patch /\ s.verdict = d.verdict
        /\ s.inline = d.inline /\ s.lost = d.lost
    BY <1>2 DEF KernelState
  <1>6. KnowsItself(s)
    BY <1>1, <1>3, <1>5 DEF Saw, KnowsItself, Offered, Undecided, Unposted, Ended
  <1>7. RowKnows(s, r)
    BY <1>1, <1>3, <1>5 DEF Saw, RowKnows, Undecided, Unposted, Uncommented, Ended
  <1>8. PullKnows(s, r, p)
    BY <1>1, <1>3, <1>5 DEF Saw, PullKnows, Unposted, Uncommented, Undecided, Offered
  <1>9. CleanModel(s.model)
    BY <1>1, <1>5 DEF Saw
  <1> QED BY <1>3, <1>4, <1>6, <1>7, <1>8, <1>9, KernelKeeps, KernelKnown


\* A step onward that writes to the rows or posts.
LEMMA WritingKeeps ==
  ASSUME KernelInv, NEW k \in Kernels, NEW at \in KernelPlaces, KernelGoes(k, at), UNCHANGED rest,
         kernelFaults' = kernelFaults \/ KernelFault,
         NEW d \in KernelState, NEW r \in RowState, NEW p \in PullState, Saw(k, d, r, p),
         NEW q \in RowState, NEW o \in PullState,
         reviewRow' = [reviewRow EXCEPT ![k] = q], pullRequest' = [pullRequest EXCEPT ![k] = o],
         \A s \in KernelState :
             s.at = at /\ Alike(s, d) => KnowsItself(s) /\ RowKnows(s, q) /\ PullKnows(s, q, o)
  PROVE  KernelInv'
  <1>1. PICK s \in KernelState : s = [d EXCEPT !.at = at] /\ s.at = at /\ Alike(s, d)
    BY OnwardState
  <1>2. KnowsItself(s) /\ RowKnows(s, q) /\ PullKnows(s, q, o) /\ CleanModel(s.model)
    BY <1>1 DEF Saw, Alike
  <1>3. KernelMoved(k, s, q, o) /\ threatModel' = threatModel
    BY <1>1 DEF KernelMoved, KernelGoes, Saw, rest
  <1> QED BY <1>2, <1>3, KernelKeeps, KernelKnown

LEMMA UpdateReviewKeeps ==
  ASSUME KernelInv, NEW k \in Kernels, UpdateReview(k) PROVE KernelInv'
  <1>1. PICK d \in KernelState, r \in RowState, p \in PullState : Saw(k, d, r, p)
    BY KernelKnown
  <1>2. PICK at \in {"shadow", "record", "stopped"} :
            KernelGoes(k, at) /\ (at = "shadow" => d.found = {})
    BY <1>1 DEF UpdateReview, Saw
  <1>3. PICK q \in RowState : q = [r EXCEPT !.decision = "agreed", !.high = d.high, !.raw = d.raw]
    BY DEF RowState, KernelState
  <1>4. /\ q.public = r.public /\ q.high = d.high /\ q.shadows = r.shadows /\ q.state = r.state
        /\ q.patch = r.patch /\ q.linked = r.linked
    BY <1>3 DEF RowState
  <1>5. d.at = "update" /\ reviewRow' = [reviewRow EXCEPT ![k] = q] /\ UNCHANGED <<rest, pullRequest, kernelFaults>>
    BY <1>1, <1>3 DEF UpdateReview, KernelAt, Saw
  <1>6. ASSUME NEW s \in KernelState, s.at = at, Alike(s, d)
        PROVE  KnowsItself(s) /\ RowKnows(s, q) /\ PullKnows(s, q, p)
    <2>1. KnowsItself(s)
      BY <1>1, <1>5, <1>6 DEF Saw, Alike, KnowsItself, Offered, Undecided, Unposted, Ended
    <2>2. RowKnows(s, q)
      BY <1>1, <1>2, <1>4, <1>5, <1>6 DEF Saw, Alike, KnowsItself, RowKnows, Undecided, Unposted, Uncommented, Ended
    <2>3. PullKnows(s, q, p)
      BY <1>1, <1>4, <1>5, <1>6 DEF Saw, Alike, PullKnows, Unposted, Uncommented, Undecided, Offered
    <2> QED BY <2>1, <2>2, <2>3
  <1>7. at \in KernelPlaces /\ pullRequest' = [pullRequest EXCEPT ![k] = p] /\ UNCHANGED rest
    BY <1>1, <1>5, KernelKnown DEF KernelPlaces, Saw, rest
  <1> QED BY <1>1, <1>2, <1>5, <1>6, <1>7, WritingKeeps

LEMMA RecordFindingsKeeps ==
  ASSUME KernelInv, NEW k \in Kernels, RecordFindings(k) PROVE KernelInv'
  <1>1. PICK d \in KernelState, r \in RowState, p \in PullState : Saw(k, d, r, p)
    BY KernelKnown
  <1>2. PICK severity \in [Findings -> {"none", "low", "high"}] :
            severity = [f \in Findings |-> IF f \notin d.found THEN "none"
                                           ELSE IF f \in d.high THEN "high" ELSE "low"]
    OBVIOUS
  <1>3. PICK q \in RowState : q = [r EXCEPT !.severity = severity]
    BY DEF RowState
  <1>4. /\ q.public = r.public /\ q.high = r.high /\ q.shadows = r.shadows /\ q.state = r.state
        /\ q.patch = r.patch /\ q.linked = r.linked
    BY <1>3 DEF RowState
  <1>5. /\ d.at = "record" /\ reviewRow' = [reviewRow EXCEPT ![k] = q] /\ KernelGoes(k, "disclose")
        /\ UNCHANGED <<rest, pullRequest, kernelFaults>>
    BY <1>1, <1>2, <1>3 DEF RecordFindings, KernelAt, Saw
  <1>6. ASSUME NEW s \in KernelState, s.at = "disclose", Alike(s, d)
        PROVE  KnowsItself(s) /\ RowKnows(s, q) /\ PullKnows(s, q, p)
    <2>1. KnowsItself(s)
      BY <1>1, <1>5, <1>6 DEF Saw, Alike, KnowsItself, Offered, Undecided, Unposted, Ended
    <2>2. RowKnows(s, q)
      BY <1>1, <1>4, <1>5, <1>6 DEF Saw, Alike, RowKnows, Undecided, Unposted, Uncommented, Ended
    <2>3. PullKnows(s, q, p)
      BY <1>1, <1>4, <1>5, <1>6 DEF Saw, Alike, PullKnows, Unposted, Uncommented, Undecided, Offered
    <2> QED BY <2>1, <2>2, <2>3
  <1>7. "disclose" \in KernelPlaces /\ pullRequest' = [pullRequest EXCEPT ![k] = p] /\ UNCHANGED rest
    BY <1>1, <1>5, KernelKnown DEF KernelPlaces, Saw, rest
  <1> QED BY <1>1, <1>5, <1>6, <1>7, WritingKeeps

\* Everything that must be withheld is; nothing else is found.
LEMMA WithheldAll ==
  ASSUME KernelInv, NEW k \in Kernels, NEW X, NEW H \in SUBSET X
  PROVE  /\ Withheld(k, X, H) \subseteq X
         /\ kernel[k].tier = "cyber" => Withheld(k, X, H) = X
         /\ LiveGate => H \subseteq Withheld(k, X, H)
         /\ (kernel[k].tier = "cyber" \/ LiveGate) => Disclosing(k)
  BY DEF Withheld, LiveGate, Disclosing

LEMMA EnteredState ==
  ASSUME NEW k \in Kernels, NEW r \in RowState, r = reviewRow[k], NEW X \in SUBSET (Findings \cup Shadows), NEW W
  PROVE  /\ Entered(k, X, W) \in [Findings \cup Shadows -> {"absent", "none", "embargoed"}]
         /\ \A f \in Findings \cup Shadows :
                Entered(k, X, W)[f] = "embargoed"
                    => IF f \in X THEN f \in W ELSE r.state[f] = "embargoed"
  BY DEF Entered, RowState


LEMMA DiscloseFindingsKeeps ==
  ASSUME KernelInv, NEW k \in Kernels, DiscloseFindings(k) PROVE KernelInv'
  <1>1. PICK d \in KernelState, r \in RowState, p \in PullState : Saw(k, d, r, p)
    BY KernelKnown
  <1>2. PICK F \in SUBSET Findings, H \in SUBSET Findings : F = d.found /\ H = d.high /\ H \subseteq F
    BY <1>1 DEF KernelState, Saw, KnowsItself
  <1>3. PICK W : W = Withheld(k, F, H)
    OBVIOUS
  <1>4. /\ W \subseteq F /\ (d.tier = "cyber" => W = F) /\ (LiveGate => H \subseteq W)
        /\ (d.tier = "cyber" \/ LiveGate) => Disclosing(k)
    <2>1. H \in SUBSET F
      BY <1>2
    <2> QED BY <1>1, <1>3, <2>1, WithheldAll DEF Saw
  <1>5. d.at = "disclose" /\ UNCHANGED <<rest, pullRequest, kernelFaults>>
    BY <1>1 DEF DiscloseFindings, KernelAt, Saw
  <1>6. CASE Disclosing(k)
    <2>1. PICK state \in [Findings \cup Shadows -> {"absent", "none", "embargoed"}] :
              /\ state = Entered(k, F, W)
              /\ \A f \in Findings \cup Shadows :
                     state[f] = "embargoed" => IF f \in F THEN f \in W ELSE r.state[f] = "embargoed"
      <3>1. F \in SUBSET (Findings \cup Shadows) /\ r = reviewRow[k]
        BY <1>1, <1>2 DEF Saw
      <3> QED BY <3>1, EnteredState
    <2>2. PICK q \in RowState : q = [r EXCEPT !.state = state]
      BY <2>1 DEF RowState
    <2>3. PICK s \in KernelState : s = [d EXCEPT !.at = "shadow", !.embargoed = W]
      BY <1>2, <1>4 DEF KernelState, KernelPlaces
    <2>4. /\ q.public = r.public /\ q.high = r.high /\ q.shadows = r.shadows /\ q.state = state
          /\ q.patch = r.patch /\ q.linked = r.linked
      BY <2>2 DEF RowState
    <2>5. /\ s.at = "shadow" /\ s.embargoed = W /\ s.tier = d.tier /\ s.receipt = d.receipt
          /\ s.model = d.model /\ s.found = d.found /\ s.high = d.high /\ s.raw = d.raw
          /\ s.shadows = d.shadows /\ s.corroborated = d.corroborated
          /\ s.shadowEmbargoed = d.shadowEmbargoed /\ s.patch = d.patch /\ s.verdict = d.verdict
          /\ s.inline = d.inline /\ s.lost = d.lost
      BY <2>3 DEF KernelState
    <2>6. KernelMoved(k, s, q, p) /\ threatModel' = threatModel
      <3>1. /\ reviewRow' = [reviewRow EXCEPT ![k].state = state]
            /\ kernel' = [kernel EXCEPT ![k].at = "shadow", ![k].embargoed = W]
        BY <1>1, <1>2, <1>3, <1>6, <2>1 DEF DiscloseFindings, Saw
      <3>2. reviewRow' = [reviewRow EXCEPT ![k] = q] /\ kernel' = [kernel EXCEPT ![k] = s]
        BY <1>1, <2>2, <2>3, <3>1 DEF Saw
      <3> QED BY <1>1, <1>5, <3>2, KernelKnown DEF KernelMoved, Saw, rest
    <2>7. KnowsItself(s)
      BY <1>1, <1>2, <1>4, <1>5, <2>5 DEF Saw, KnowsItself, Offered, Undecided, Unposted, Ended
    <2>8. RowKnows(s, q)
      <3>1. \A f \in Findings : q.state[f] = "embargoed" => f \in s.embargoed
        BY <1>1, <1>5, <2>1, <2>4, <2>5 DEF Saw, RowKnows, KnowsItself
      <3>2. \A f \in Shadows : q.state[f] = "embargoed" => f \in s.shadowEmbargoed \cup s.lost
        BY <1>1, <1>2, <2>1, <2>4, <2>5, KernelAssumption DEF Saw, RowKnows
      <3> QED BY <1>1, <1>2, <1>4, <1>5, <2>4, <2>5, <3>1, <3>2
              DEF Saw, RowKnows, Undecided, Unposted, Uncommented, Ended
    <2>9. PullKnows(s, q, p)
      BY <1>1, <1>5, <2>4, <2>5 DEF Saw, PullKnows, Unposted, Uncommented, Undecided, Offered
    <2>10. CleanModel(s.model)
      BY <1>1, <2>5 DEF Saw
    <2> QED BY <2>6, <2>7, <2>8, <2>9, <2>10, KernelKeeps, KernelKnown
  <1>7. CASE ~ Disclosing(k)
    <2>1. KernelGoes(k, "shadow") /\ UNCHANGED <<rest, reviewRow, pullRequest, kernelFaults>>
      BY <1>7 DEF DiscloseFindings
    <2>2. ASSUME NEW s \in KernelState, s.at = "shadow", Alike(s, d)
          PROVE  KnowsItself(s) /\ RowKnows(s, r) /\ PullKnows(s, r, p)
      <3>1. KnowsItself(s)
        BY <1>1, <1>5, <2>2 DEF Saw, Alike, KnowsItself, Offered, Undecided, Unposted, Ended
      <3>2. RowKnows(s, r)
        BY <1>1, <1>4, <1>5, <1>7, <2>2 DEF Saw, Alike, RowKnows, Undecided, Unposted, Uncommented, Ended
      <3>3. PullKnows(s, r, p)
        BY <1>1, <1>5, <2>2 DEF Saw, Alike, PullKnows, Unposted, Uncommented, Undecided, Offered
      <3> QED BY <3>1, <3>2, <3>3
    <2>3. /\ "shadow" \in KernelPlaces /\ UNCHANGED rest /\ kernelFaults' = kernelFaults
          /\ reviewRow' = [reviewRow EXCEPT ![k] = r] /\ pullRequest' = [pullRequest EXCEPT ![k] = p]
      BY <1>1, <2>1, KernelKnown DEF KernelPlaces, Saw, rest
    <2> QED BY <1>1, <2>1, <2>2, <2>3, WritingKeeps
  <1> QED BY <1>6, <1>7

\* The lane goes on to its comment, or the invocation ends.
ShadowsLeft(s, d, E, L) ==
    /\ s.at \in {"summary", "done"} /\ s.shadowEmbargoed = E /\ s.lost = L /\ s.tier = d.tier
    /\ s.receipt = d.receipt /\ s.model = d.model /\ s.found = d.found /\ s.high = d.high
    /\ s.raw = d.raw /\ s.shadows = d.shadows /\ s.corroborated = d.corroborated
    /\ s.embargoed = d.embargoed /\ s.patch = d.patch /\ s.verdict = d.verdict /\ s.inline = d.inline
    /\ E \subseteq d.shadows /\ L \subseteq d.shadows
ShadowsWritten(q, r, d, E, L) ==
    /\ q.public = r.public /\ q.high = r.high /\ q.patch = r.patch /\ q.linked = r.linked
    /\ q.shadows \subseteq d.shadows /\ (LiveGate => q.shadows \subseteq E \cup L)
    /\ \A f \in Findings : q.state[f] = "embargoed" => r.state[f] = "embargoed"
    /\ \A f \in Shadows : q.state[f] = "embargoed" => r.state[f] = "embargoed" \/ f \in E \cup L

LEMMA AfterShadowKeeps ==
  ASSUME KernelInv, NEW k \in Kernels, NEW d \in KernelState, NEW r \in RowState, NEW p \in PullState,
         Saw(k, d, r, p), d.at = "shadow", NEW s \in KernelState, NEW q \in RowState, NEW E, NEW L,
         KernelMoved(k, s, q, p), threatModel' = threatModel,
         ShadowsLeft(s, d, E, L), ShadowsWritten(q, r, d, E, L)
  PROVE  KernelInv'
  <1>1. KnowsItself(s)
    BY DEF ShadowsLeft, Saw, KnowsItself, Offered, Undecided, Unposted, Ended
  <1>2. RowKnows(s, q)
    <2>1. \A f \in Shadows : q.state[f] = "embargoed" => f \in s.shadowEmbargoed \cup s.lost
      BY DEF ShadowsLeft, ShadowsWritten, Saw, RowKnows, KnowsItself
    <2> QED BY <2>1 DEF ShadowsLeft, ShadowsWritten, Saw, RowKnows, Undecided, Unposted, Uncommented, Ended
  <1>3. PullKnows(s, q, p)
    BY DEF ShadowsLeft, ShadowsWritten, Saw, PullKnows, Unposted, Uncommented, Undecided, Offered
  <1>4. CleanModel(s.model)
    BY DEF ShadowsLeft, Saw
  <1> QED BY <1>1, <1>2, <1>3, <1>4, KernelKeeps, KernelKnown

LEMMA RecordShadowsKeeps ==
  ASSUME KernelInv, NEW k \in Kernels, RecordShadows(k) PROVE KernelInv'
  <1>1. PICK d \in KernelState, r \in RowState, p \in PullState : Saw(k, d, r, p)
    BY KernelKnown
  <1>2. PICK S \in SUBSET Shadows, C \in SUBSET Shadows : S = d.shadows /\ C = d.corroborated
    BY DEF KernelState
  <1>3. PICK W : W = Withheld(k, S, S)
    OBVIOUS
  <1>4. W \in SUBSET S /\ (LiveGate => W = S) /\ (LiveGate => Disclosing(k))
    <2>1. S \in SUBSET S
      OBVIOUS
    <2> QED BY <1>3, <2>1, WithheldAll
  <1>5. d.at = "shadow" /\ UNCHANGED <<rest, pullRequest>> /\ d.shadowEmbargoed = {} /\ d.lost = {}
    BY <1>1 DEF RecordShadows, KernelAt, Saw, KnowsItself
  <1>6. PICK at \in {"summary", "done"} : at = AfterShadow(k)
    BY DEF AfterShadow
  <1>7. pullRequest' = [pullRequest EXCEPT ![k] = p] /\ setup' = setup /\ repoTier' = repoTier
        /\ threatModel' = threatModel
    BY <1>1, <1>5, KernelKnown DEF Saw, rest
  <1>8. r.shadows = {} /\ r.shadows \subseteq S
    BY <1>1, <1>5 DEF Saw, RowKnows
  <1>9. ASSUME NEW E \in SUBSET S, NEW L \in SUBSET S, reviewRow' = reviewRow,
               kernel' = [kernel EXCEPT ![k].at = at, ![k].shadowEmbargoed = E, ![k].lost = L],
               kernelFaults' = kernelFaults \/ KernelFault
        PROVE  KernelInv'
    <2>1. PICK s \in KernelState : s = [d EXCEPT !.at = at, !.shadowEmbargoed = E, !.lost = L]
      BY <1>2, <1>6 DEF KernelState, KernelPlaces
    <2>2. KernelMoved(k, s, r, p)
      <3>1. kernel' = [kernel EXCEPT ![k] = s] /\ reviewRow' = [reviewRow EXCEPT ![k] = r]
        BY <1>1, <1>9, <2>1, KernelKnown DEF Saw
      <3> QED BY <1>7, <1>9, <3>1 DEF KernelMoved
    <2>3. ShadowsLeft(s, d, E, L)
      BY <1>2, <1>6, <2>1 DEF ShadowsLeft, KernelState
    <2>4. ShadowsWritten(r, r, d, E, L)
      BY <1>2, <1>8 DEF ShadowsWritten
    <2> QED BY <1>1, <1>5, <1>7, <2>2, <2>3, <2>4, AfterShadowKeeps
  <1>10. ASSUME NEW E \in SUBSET S, NEW L \in SUBSET S, (LiveGate => S \subseteq E \cup L),
                Disclosing(k) => W \subseteq E \cup L,
                reviewRow' = [reviewRow EXCEPT
                    ![k].shadows = S, ![k].corroborated = C,
                    ![k].state = IF Disclosing(k) THEN Entered(k, S, W) ELSE @],
                kernel' = [kernel EXCEPT ![k].at = at, ![k].shadowEmbargoed = E, ![k].lost = L],
                kernelFaults' = kernelFaults \/ KernelFault
        PROVE  KernelInv'
    <2>1. PICK s \in KernelState : s = [d EXCEPT !.at = at, !.shadowEmbargoed = E, !.lost = L]
      BY <1>2, <1>6 DEF KernelState, KernelPlaces
    <2>2. PICK state \in [Findings \cup Shadows -> {"absent", "none", "embargoed"}] :
              /\ state = IF Disclosing(k) THEN Entered(k, S, W) ELSE r.state
              /\ \A f \in Findings \cup Shadows :
                     state[f] = "embargoed" =>
                         r.state[f] = "embargoed" \/ (Disclosing(k) /\ f \in S /\ f \in W)
      <3>1. S \in SUBSET (Findings \cup Shadows) /\ r = reviewRow[k]
        BY <1>1, <1>2 DEF Saw
      <3>2. CASE Disclosing(k)
        BY <3>1, <3>2, EnteredState
      <3>3. CASE ~ Disclosing(k)
        BY <3>3 DEF RowState
      <3> QED BY <3>2, <3>3
    <2>3. PICK q \in RowState : q = [r EXCEPT !.shadows = S, !.corroborated = C, !.state = state]
      BY <2>2 DEF RowState
    <2>4. /\ q.public = r.public /\ q.high = r.high /\ q.shadows = S /\ q.state = state
          /\ q.patch = r.patch /\ q.linked = r.linked
      BY <2>3 DEF RowState
    <2>5. KernelMoved(k, s, q, p)
      <3>1. reviewRow' = [reviewRow EXCEPT ![k].shadows = S, ![k].corroborated = C, ![k].state = state]
        BY <1>1, <1>10, <2>2 DEF Saw
      <3>2. reviewRow' = [reviewRow EXCEPT ![k] = q]
        BY <1>1, <2>3, <3>1 DEF Saw
      <3>3. kernel' = [kernel EXCEPT ![k] = s]
        BY <1>1, <1>10, <2>1 DEF Saw
      <3> QED BY <1>7, <1>10, <3>2, <3>3 DEF KernelMoved
    <2>6. \A f \in Findings : q.state[f] = "embargoed" => r.state[f] = "embargoed"
      BY <1>2, <2>2, <2>4, KernelAssumption
    <2>7. \A f \in Shadows : q.state[f] = "embargoed" => r.state[f] = "embargoed" \/ f \in E \cup L
      BY <1>10, <2>2, <2>4
    <2>8. ShadowsLeft(s, d, E, L)
      BY <1>2, <1>6, <2>1 DEF ShadowsLeft, KernelState
    <2>9. ShadowsWritten(q, r, d, E, L)
      BY <1>2, <1>10, <2>4, <2>6, <2>7 DEF ShadowsWritten
    <2> QED BY <1>1, <1>5, <1>7, <2>5, <2>8, <2>9, AfterShadowKeeps
  <1>11. CASE KernelGoes(k, AfterShadow(k)) /\ UNCHANGED <<reviewRow, kernelFaults>>
    <2>1. kernel' = [kernel EXCEPT ![k].at = at, ![k].shadowEmbargoed = {}, ![k].lost = {}]
      <3>1. [d EXCEPT !.at = at] = [d EXCEPT !.at = at, !.shadowEmbargoed = {}, !.lost = {}]
        BY <1>5 DEF KernelState
      <3>2. kernel' = [kernel EXCEPT ![k] = [d EXCEPT !.at = at]]
        BY <1>1, <1>6, <1>11 DEF KernelGoes, Saw
      <3>3. [kernel EXCEPT ![k].at = at, ![k].shadowEmbargoed = {}, ![k].lost = {}]
            = [kernel EXCEPT ![k] = [d EXCEPT !.at = at, !.shadowEmbargoed = {}, !.lost = {}]]
        BY <1>1 DEF Saw
      <3> QED BY <3>1, <3>2, <3>3
    <2> QED BY <1>9, <1>11, <2>1
  <1>12. CASE /\ reviewRow' = [reviewRow EXCEPT
                     ![k].shadows = S, ![k].corroborated = C,
                     ![k].state = IF Disclosing(k) THEN Entered(k, S, W) ELSE @]
              /\ kernelFaults' = kernelFaults
              /\ kernel' = [kernel EXCEPT ![k].at = AfterShadow(k),
                                   ![k].shadowEmbargoed = IF Disclosing(k) THEN W ELSE {}]
    <2>1. PICK E \in SUBSET S : E = IF Disclosing(k) THEN W ELSE {}
      BY <1>4
    <2>2. kernel' = [kernel EXCEPT ![k].at = at, ![k].shadowEmbargoed = E, ![k].lost = {}]
      <3>1. [d EXCEPT !.at = at, !.shadowEmbargoed = E] = [d EXCEPT !.at = at, !.shadowEmbargoed = E, !.lost = {}]
        BY <1>5 DEF KernelState
      <3>2. kernel' = [kernel EXCEPT ![k] = [d EXCEPT !.at = at, !.shadowEmbargoed = E]]
        BY <1>1, <1>6, <1>12, <2>1 DEF Saw
      <3>3. [kernel EXCEPT ![k].at = at, ![k].shadowEmbargoed = E, ![k].lost = {}]
            = [kernel EXCEPT ![k] = [d EXCEPT !.at = at, !.shadowEmbargoed = E, !.lost = {}]]
        BY <1>1 DEF Saw
      <3> QED BY <3>1, <3>2, <3>3
    <2>3. {} \in SUBSET S /\ (LiveGate => S \subseteq E \cup {}) /\ (Disclosing(k) => W \subseteq E \cup {})
      BY <1>4, <2>1
    <2> QED BY <1>10, <1>12, <2>1, <2>2, <2>3
  <1>13. ASSUME NEW L \in SUBSET S, kernel' = [kernel EXCEPT ![k].at = AfterShadow(k), ![k].lost = L]
         PROVE  kernel' = [kernel EXCEPT ![k].at = at, ![k].shadowEmbargoed = {}, ![k].lost = L]
    <2>1. [d EXCEPT !.at = at, !.lost = L] = [d EXCEPT !.at = at, !.shadowEmbargoed = {}, !.lost = L]
      BY <1>5 DEF KernelState
    <2>2. kernel' = [kernel EXCEPT ![k] = [d EXCEPT !.at = at, !.lost = L]]
      BY <1>1, <1>6, <1>13 DEF Saw
    <2>3. [kernel EXCEPT ![k].at = at, ![k].shadowEmbargoed = {}, ![k].lost = L]
          = [kernel EXCEPT ![k] = [d EXCEPT !.at = at, !.shadowEmbargoed = {}, !.lost = L]]
      BY <1>1 DEF Saw
    <2> QED BY <2>1, <2>2, <2>3
  <1>14. CASE /\ reviewRow' = [reviewRow EXCEPT
                     ![k].shadows = S, ![k].corroborated = C,
                     ![k].state = IF Disclosing(k) THEN Entered(k, S, W) ELSE @]
              /\ KernelFault
              /\ kernel' = [kernel EXCEPT ![k].at = AfterShadow(k), ![k].lost = W]
    <2>1. kernel' = [kernel EXCEPT ![k].at = at, ![k].shadowEmbargoed = {}, ![k].lost = W]
      BY <1>4, <1>13, <1>14
    <2>2. (LiveGate => S \subseteq {} \cup W) /\ (Disclosing(k) => W \subseteq {} \cup W)
      BY <1>4
    <2> QED BY <1>4, <1>10, <1>14, <2>1, <2>2
  <1>15. CASE /\ KernelFault /\ UNCHANGED reviewRow
              /\ kernel' = [kernel EXCEPT ![k].at = AfterShadow(k),
                                          ![k].lost = IF Disclosing(k) THEN W ELSE {}]
    <2>1. PICK L \in SUBSET S : L = IF Disclosing(k) THEN W ELSE {}
      BY <1>4
    <2>2. kernel' = [kernel EXCEPT ![k].at = at, ![k].shadowEmbargoed = {}, ![k].lost = L]
      BY <1>13, <1>15, <2>1
    <2> QED BY <1>9, <1>15, <2>2
  <1> QED
    BY <1>1, <1>2, <1>3, <1>11, <1>12, <1>14, <1>15 DEF RecordShadows, Saw


LEMMA FirstSummaryKeeps ==
  ASSUME KernelInv, NEW k \in Kernels, FirstSummary(k) PROVE KernelInv'
  <1>1. PICK d \in KernelState, r \in RowState, p \in PullState : Saw(k, d, r, p)
    BY KernelKnown
  <1>2. PICK at \in {"done", "patch"} : /\ at = IF d.found \ d.embargoed = {} THEN "done" ELSE "patch"
                                        /\ KernelGoes(k, at)
    BY <1>1 DEF FirstSummary, Public, Saw
  <1>3. /\ d.at = "summary" /\ UNCHANGED <<rest, reviewRow>> /\ at \in KernelPlaces
        /\ (kernelFaults' = kernelFaults \/ KernelFault)
    BY <1>1 DEF FirstSummary, KernelAt, Saw, KernelPlaces
  <1>4. /\ (d.tier = "cyber" => d.found \subseteq d.embargoed)
        /\ (at = "patch" => d.tier # "cyber")
    BY <1>1, <1>2, <1>3 DEF Saw, RowKnows, Undecided, Ended
  <1>5. PICK o \in PullState : /\ pullRequest' = [pullRequest EXCEPT ![k] = o]
                               /\ o = p \/ (o = [p EXCEPT !.summary = TRUE] /\ d.embargoed = {})
    <2>1. CASE pullRequest' = pullRequest
      BY <1>1, <2>1, KernelKnown DEF Saw
    <2>2. CASE kernel[k].embargoed = {} /\ pullRequest' = [pullRequest EXCEPT ![k].summary = TRUE]
      <3>1. PICK o \in PullState : o = [p EXCEPT !.summary = TRUE]
        BY DEF PullState
      <3> QED BY <1>1, <2>2, <3>1 DEF Saw
    <2> QED BY <2>1, <2>2 DEF FirstSummary
  <1>6. /\ o.shown = p.shown /\ o.review = p.review /\ o.patches = p.patches
        /\ o.summary = p.summary \/ d.embargoed = {}
    BY <1>5 DEF PullState
  <1>7. ASSUME NEW s \in KernelState, s.at = at, Alike(s, d)
        PROVE  KnowsItself(s) /\ RowKnows(s, r) /\ PullKnows(s, r, o)
    <2>1. KnowsItself(s)
      BY <1>1, <1>3, <1>4, <1>7 DEF Saw, Alike, KnowsItself, Offered, Undecided, Unposted, Ended
    <2>2. RowKnows(s, r)
      BY <1>1, <1>3, <1>7 DEF Saw, Alike, RowKnows, Undecided, Unposted, Uncommented, Ended
    <2>3. o.summary => s.embargoed = {} /\ (s.tier = "cyber" => s.found = {})
      BY <1>1, <1>4, <1>6, <1>7 DEF Saw, Alike, PullKnows
    <2>4. PullKnows(s, r, o)
      BY <1>1, <1>3, <1>6, <1>7, <2>3 DEF Saw, Alike, PullKnows, Unposted, Uncommented, Undecided, Offered
    <2> QED BY <2>1, <2>2, <2>4
  <1>8. reviewRow' = [reviewRow EXCEPT ![k] = r] /\ UNCHANGED rest
    BY <1>1, <1>3, KernelKnown DEF Saw
  <1> QED BY <1>1, <1>2, <1>3, <1>5, <1>7, <1>8, WritingKeeps

\* Who goes on to the comment leaves the row and the pull request alone.
LEMMA ToCommentKeeps ==
  ASSUME KernelInv, NEW k \in Kernels, kernel[k].at \in {"patch", "verify"}, KernelGoes(k, "comment"),
         UNCHANGED <<rest, reviewRow, pullRequest>>, kernelFaults' = kernelFaults \/ KernelFault
  PROVE  KernelInv'
  <1>1. ASSUME NEW d \in KernelState, NEW r \in RowState, NEW p \in PullState, Saw(k, d, r, p),
               NEW s \in KernelState, s.at = "comment", Alike(s, d)
        PROVE  KnowsItself(s) /\ RowKnows(s, r) /\ PullKnows(s, r, p)
    <2>1. d.at \in {"patch", "verify"}
      BY <1>1 DEF Saw
    <2>2. KnowsItself(s)
      BY <1>1, <2>1 DEF Saw, Alike, KnowsItself, Offered, Undecided, Unposted, Ended
    <2>3. RowKnows(s, r)
      BY <1>1, <2>1 DEF Saw, Alike, RowKnows, Undecided, Unposted, Uncommented, Ended
    <2>4. PullKnows(s, r, p)
      BY <1>1, <2>1 DEF Saw, Alike, PullKnows, Unposted, Uncommented, Undecided, Offered
    <2> QED BY <2>2, <2>3, <2>4
  <1>2. "comment" \in KernelPlaces
    BY DEF KernelPlaces
  <1> QED BY <1>1, <1>2, OnwardKeeps

LEMMA DecisionsAreNamed == PatchDecisions \subseteq Reviewers \cup {NoPatch}
  <1>1. ASSUME NEW proposals PROVE DecideOne(proposals).by \in Reviewers \cup {NoPatch}
    <2>1. PICK by : by = DecideOne(proposals).by
      OBVIOUS
    <2>2. by = IF {p \in Reviewers : proposals[p].patch} = {} THEN NoPatch
               ELSE IF "anthropic" \in {p \in Reviewers : proposals[p].patch} THEN "anthropic" ELSE "openai"
      BY <2>1 DEF DecideOne
    <2> QED BY <2>1, <2>2 DEF Reviewers
  <1>2. \A offers \in [Reviewers -> Offers], changed \in BOOLEAN :
            PatchDecision(offers, changed).by \in Reviewers \cup {NoPatch}
    BY <1>1 DEF PatchDecision
  <1> QED BY <1>2 DEF PatchDecisions

LEMMA PatchAgentKeeps ==
  ASSUME KernelInv, NEW k \in Kernels, PatchAgent(k) PROVE KernelInv'
  <1>1. PICK d \in KernelState, r \in RowState, p \in PullState : Saw(k, d, r, p)
    BY KernelKnown
  <1>2. d.at = "patch" /\ kernel[k].at = "patch" /\ UNCHANGED <<rest, reviewRow, pullRequest, kernelFaults>>
    BY <1>1 DEF PatchAgent, KernelAt, Saw
  <1>3. CASE KernelGoes(k, "comment")
    BY <1>2, <1>3, ToCommentKeeps
  <1>4. CASE /\ kernel[k].embargoed = {}
             /\ \E by \in [kernel[k].found -> PatchDecisions] :
                   LET with == {f \in kernel[k].found : by[f] # NoPatch}
                   IN  \E inline \in SUBSET with :
                           kernel' = [kernel EXCEPT
                               ![k].at = IF with = {} THEN "comment" ELSE "verify",
                               ![k].patch = [f \in Findings |-> IF f \in with THEN by[f] ELSE NoPatch],
                               ![k].inline = inline]
    <2>1. PICK by \in [kernel[k].found -> PatchDecisions] :
              \E inline \in SUBSET {f \in kernel[k].found : by[f] # NoPatch} :
                  kernel' = [kernel EXCEPT
                      ![k].at = IF {f \in kernel[k].found : by[f] # NoPatch} = {} THEN "comment" ELSE "verify",
                      ![k].patch = [f \in Findings |->
                          IF f \in {g \in kernel[k].found : by[g] # NoPatch} THEN by[f] ELSE NoPatch],
                      ![k].inline = inline]
      BY <1>4
    <2>2. kernel[k].found = d.found /\ d.found \in SUBSET Findings
      BY <1>1 DEF KernelState, Saw
    <2>3. PICK with \in SUBSET Findings : with = {f \in kernel[k].found : by[f] # NoPatch}
      BY <2>2
    <2>4. PICK inline \in SUBSET with :
              kernel' = [kernel EXCEPT
                  ![k].at = IF with = {} THEN "comment" ELSE "verify",
                  ![k].patch = [f \in Findings |-> IF f \in with THEN by[f] ELSE NoPatch],
                  ![k].inline = inline]
      BY <2>1, <2>3
    <2>5. PICK at \in {"comment", "verify"} : at = IF with = {} THEN "comment" ELSE "verify"
      OBVIOUS
    <2>6. PICK patch \in [Findings -> Reviewers \cup {NoPatch}] :
              /\ patch = [f \in Findings |-> IF f \in with THEN by[f] ELSE NoPatch]
              /\ {f \in Findings : patch[f] # NoPatch} = with
      <3>1. \A f \in with : by[f] \in Reviewers \cup {NoPatch} /\ by[f] # NoPatch
        BY <2>3, DecisionsAreNamed
      <3>2. PICK patch : patch = [f \in Findings |-> IF f \in with THEN by[f] ELSE NoPatch]
        OBVIOUS
      <3>3. \A f \in Findings : patch[f] = IF f \in with THEN by[f] ELSE NoPatch
        BY <3>2
      <3>4. {f \in Findings : patch[f] # NoPatch} = with
        BY <2>3, <3>1, <3>3
      <3>5. patch \in [Findings -> Reviewers \cup {NoPatch}]
        BY <3>1, <3>2
      <3> QED BY <3>2, <3>4, <3>5
    <2>7. PICK s \in KernelState : s = [d EXCEPT !.at = at, !.patch = patch, !.inline = inline]
      BY <2>3, <2>4, <2>5 DEF KernelState, KernelPlaces
    <2>8. KernelMoved(k, s, r, p) /\ threatModel' = threatModel
      <3>1. kernel' = [kernel EXCEPT ![k].at = at, ![k].patch = patch, ![k].inline = inline]
        BY <2>4, <2>5, <2>6
      <3>2. kernel' = [kernel EXCEPT ![k] = s]
        BY <1>1, <2>7, <3>1 DEF Saw
      <3> QED BY <1>1, <1>2, <3>2, KernelKnown DEF KernelMoved, Saw, rest
    <2>9. /\ s.at = at /\ s.patch = patch /\ s.inline = inline /\ s.tier = d.tier /\ s.receipt = d.receipt
          /\ s.model = d.model /\ s.found = d.found /\ s.high = d.high /\ s.raw = d.raw
          /\ s.shadows = d.shadows /\ s.corroborated = d.corroborated /\ s.embargoed = d.embargoed
          /\ s.shadowEmbargoed = d.shadowEmbargoed /\ s.verdict = d.verdict /\ s.lost = d.lost
      BY <2>7 DEF KernelState
    <2>10. Offered(s) = with /\ with \subseteq d.found /\ d.embargoed = {}
      <3>1. Offered(s) = {f \in Findings : patch[f] # NoPatch}
        BY <2>9 DEF Offered
      <3>2. d.embargoed = {}
        BY <1>1, <1>4 DEF Saw
      <3> QED BY <2>2, <2>3, <2>6, <3>1, <3>2
    <2>11. KnowsItself(s)
      BY <1>1, <1>2, <2>4, <2>9, <2>10 DEF Saw, KnowsItself, Undecided, Unposted, Ended
    <2>12. RowKnows(s, r)
      BY <1>1, <1>2, <2>9 DEF Saw, RowKnows, Undecided, Unposted, Uncommented, Ended
    <2>13. PullKnows(s, r, p)
      BY <1>1, <1>2, <2>9 DEF Saw, PullKnows, RowKnows, Unposted, Uncommented, Undecided
    <2>14. CleanModel(s.model)
      BY <1>1, <2>9 DEF Saw
    <2> QED BY <2>8, <2>11, <2>12, <2>13, <2>14, KernelKeeps, KernelKnown
  <1> QED BY <1>3, <1>4 DEF PatchAgent

LEMMA VerifyPatchesKeeps ==
  ASSUME KernelInv, NEW k \in Kernels, VerifyPatches(k) PROVE KernelInv'
  <1>1. PICK d \in KernelState, r \in RowState, p \in PullState : Saw(k, d, r, p)
    BY KernelKnown
  <1>2. /\ d.at = "verify" /\ kernel[k].at = "verify" /\ UNCHANGED <<rest, reviewRow, pullRequest>>
        /\ (kernelFaults' = kernelFaults \/ KernelFault)
    BY <1>1 DEF VerifyPatches, KernelAt, Saw
  <1>3. CASE KernelGoes(k, "comment")
    BY <1>2, <1>3, ToCommentKeeps
  <1>4. CASE \E said \in [PatchesHeld(k) -> Verdicts] :
                kernel' = [kernel EXCEPT
                    ![k].at = "comment",
                    ![k].verdict = [f \in Findings |-> IF f \in PatchesHeld(k) THEN said[f] ELSE "none"],
                    ![k].inline = {f \in kernel[k].inline : said[f] # "regressed"}]
    <2>1. PICK held \in SUBSET Findings : held = PatchesHeld(k) /\ held = Offered(d)
      BY <1>1 DEF PatchesHeld, Offered, Saw
    <2>2. PICK said \in [PatchesHeld(k) -> Verdicts] :
              kernel' = [kernel EXCEPT
                  ![k].at = "comment",
                  ![k].verdict = [f \in Findings |-> IF f \in held THEN said[f] ELSE "none"],
                  ![k].inline = {f \in kernel[k].inline : said[f] # "regressed"}]
      BY <1>4, <2>1
    <2>3. PICK verdict \in [Findings -> Verdicts \cup {"none"}] :
              verdict = [f \in Findings |-> IF f \in held THEN said[f] ELSE "none"]
      BY <2>1, <2>2
    <2>4. PICK inline \in SUBSET d.inline : inline = {f \in kernel[k].inline : said[f] # "regressed"}
      BY <1>1 DEF Saw
    <2>5. PICK s \in KernelState : s = [d EXCEPT !.at = "comment", !.verdict = verdict, !.inline = inline]
      BY <2>3, <2>4 DEF KernelState, KernelPlaces
    <2>6. KernelMoved(k, s, r, p) /\ threatModel' = threatModel
      <3>1. kernel' = [kernel EXCEPT ![k].at = "comment", ![k].verdict = verdict, ![k].inline = inline]
        BY <2>1, <2>2, <2>3, <2>4
      <3>2. kernel' = [kernel EXCEPT ![k] = s]
        BY <1>1, <2>5, <3>1 DEF Saw
      <3> QED BY <1>1, <1>2, <3>2, KernelKnown DEF KernelMoved, Saw, rest
    <2>7. /\ s.at = "comment" /\ s.verdict = verdict /\ s.inline = inline /\ s.tier = d.tier
          /\ s.receipt = d.receipt /\ s.model = d.model /\ s.found = d.found /\ s.high = d.high
          /\ s.raw = d.raw /\ s.shadows = d.shadows /\ s.corroborated = d.corroborated
          /\ s.embargoed = d.embargoed /\ s.shadowEmbargoed = d.shadowEmbargoed /\ s.patch = d.patch
          /\ s.lost = d.lost
      BY <2>5 DEF KernelState
    <2>8. \A f \in inline : verdict[f] # "regressed"
      BY <1>1, <2>1, <2>3, <2>4 DEF Saw, KnowsItself, Offered
    <2>9. KnowsItself(s)
      BY <1>1, <1>2, <2>4, <2>7, <2>8 DEF Saw, KnowsItself, Offered, Undecided, Unposted, Ended
    <2>10. RowKnows(s, r)
      BY <1>1, <1>2, <2>7 DEF Saw, RowKnows, Undecided, Unposted, Uncommented, Ended
    <2>11. PullKnows(s, r, p)
      BY <1>1, <1>2, <2>7 DEF Saw, PullKnows, RowKnows, Unposted, Uncommented, Undecided
    <2>12. CleanModel(s.model)
      BY <1>1, <2>7 DEF Saw
    <2> QED BY <2>6, <2>9, <2>10, <2>11, <2>12, KernelKeeps, KernelKnown
  <1> QED BY <1>3, <1>4 DEF VerifyPatches


\* What the comment shows is what nobody withholds: the table's embargoes are
\* the invocation's own, or lost.
LEMMA CommentKeeps ==
  ASSUME KernelInv, NEW k \in Kernels, NEW read \in BOOLEAN, Comment(k, read) PROVE KernelInv'
  <1>1. PICK d \in KernelState, r \in RowState, p \in PullState : Saw(k, d, r, p)
    BY KernelKnown
  <1>2. /\ d.at = "comment" /\ UNCHANGED <<rest, reviewRow>> /\ KernelGoes(k, "setComment")
        /\ kernelFaults' = kernelFaults \/ KernelFault
    BY <1>1 DEF Comment, KernelAt, Saw
  <1>3. PICK shown \in SUBSET (Findings \cup Shadows) :
            /\ shown = Public(k) \cup ShadowSection(k, read)
            /\ d.found \ d.embargoed \subseteq shown
            /\ shown \subseteq (d.found \ d.embargoed) \cup (d.shadows \ d.shadowEmbargoed)
    <2>1. Public(k) = d.found \ d.embargoed /\ ShadowSection(k, read) \subseteq d.shadows \ d.shadowEmbargoed
      BY <1>1 DEF Public, ShadowSection, Saw
    <2>2. d.found \subseteq Findings /\ d.shadows \subseteq Shadows
      BY DEF KernelState
    <2> QED BY <2>1, <2>2
  <1>4. PICK patches \in [Findings -> Verdicts \cup {"none", "untagged"}] :
            /\ patches = [f \in Findings |->
                   IF f \in PatchesKept(k)
                   THEN IF kernel[k].verdict[f] = "none" THEN "untagged" ELSE kernel[k].verdict[f]
                   ELSE "none"]
            /\ \A f \in Findings :
                   patches[f] # "none" <=> f \in Offered(d) /\ d.verdict[f] # "regressed"
    <2>1. PatchesKept(k) = {f \in Offered(d) : d.verdict[f] # "regressed"} /\ d = kernel[k]
      BY <1>1 DEF PatchesKept, PatchesHeld, Offered, Saw
    <2>2. d.verdict \in [Findings -> Verdicts \cup {"none"}] /\ Offered(d) \subseteq Findings
      BY DEF KernelState, Offered
    <2>3. PICK patches : patches = [f \in Findings |->
              IF f \in PatchesKept(k)
              THEN IF kernel[k].verdict[f] = "none" THEN "untagged" ELSE kernel[k].verdict[f]
              ELSE "none"]
      OBVIOUS
    <2>4. \A f \in Findings :
              patches[f] = IF f \in Offered(d) /\ d.verdict[f] # "regressed"
                           THEN IF d.verdict[f] = "none" THEN "untagged" ELSE d.verdict[f]
                           ELSE "none"
      BY <2>1, <2>3
    <2>5. \A f \in Findings : patches[f] # "none" <=> f \in Offered(d) /\ d.verdict[f] # "regressed"
      BY <2>4
    <2>6. \A f \in Findings : patches[f] \in Verdicts \cup {"none", "untagged"}
      BY <2>2, <2>4
    <2>7. patches \in [Findings -> Verdicts \cup {"none", "untagged"}]
      BY <2>3, <2>6
    <2> QED BY <2>3, <2>5, <2>7
  <1>5. PICK o \in PullState : o = [p EXCEPT !.shown = shown, !.patches = patches]
    BY DEF PullState
  <1>6. o.summary = p.summary /\ o.review = p.review /\ o.shown = shown /\ o.patches = patches
    BY <1>5 DEF PullState
  <1>7. pullRequest' = [pullRequest EXCEPT ![k] = o] /\ reviewRow' = [reviewRow EXCEPT ![k] = r]
    <2>1. pullRequest' = [pullRequest EXCEPT ![k].shown = shown, ![k].patches = patches]
      BY <1>3, <1>4 DEF Comment
    <2> QED BY <1>1, <1>2, <1>5, <2>1, KernelKnown DEF Saw
  <1>8. d.tier # "cyber" /\ (Offered(d) # {} => d.embargoed = {}) /\ Offered(d) \subseteq d.found
        /\ d.inline \subseteq Offered(d) /\ (\A f \in d.inline : d.verdict[f] # "regressed")
    BY <1>1, <1>2 DEF Saw, KnowsItself, Unposted, Undecided, Ended
  <1>9. p.review = {} /\ r.linked = {} /\ \A f \in Findings : r.patch[f] = NoPatch
    BY <1>1, <1>2 DEF Saw, PullKnows, RowKnows, Uncommented
  <1>10. LiveGate => \A f \in shown \ d.lost : f \notin r.high \cup r.shadows
    <2>1. ASSUME LiveGate PROVE d.high \subseteq d.embargoed /\ r.shadows \subseteq d.shadowEmbargoed \cup d.lost
      BY <1>1, <1>2, <2>1 DEF Saw, RowKnows, Undecided, Ended
    <2>2. r.high \subseteq d.high /\ r.high \subseteq Findings /\ r.shadows \subseteq Shadows
          /\ d.found \subseteq Findings /\ d.shadows \subseteq Shadows
      BY <1>1 DEF Saw, RowKnows, KernelState, RowState
    <2> QED BY <1>3, <2>1, <2>2, KernelAssumption
  <1>11. ASSUME NEW s \in KernelState, s.at = "setComment", Alike(s, d)
         PROVE  KnowsItself(s) /\ RowKnows(s, r) /\ PullKnows(s, r, o)
    <2>1. KnowsItself(s)
      BY <1>1, <1>2, <1>8, <1>11 DEF Saw, Alike, KnowsItself, Offered, Undecided, Unposted, Ended
    <2>2. RowKnows(s, r)
      BY <1>1, <1>2, <1>11 DEF Saw, Alike, RowKnows, Undecided, Unposted, Uncommented, Ended
    <2>3. Offered(s) = Offered(d)
      BY <1>11 DEF Alike, Offered
    <2>4. \A f \in Findings : o.patches[f] # "none" =>
              f \in o.shown /\ f \in Offered(s) /\ s.verdict[f] # "regressed"
      BY <1>3, <1>4, <1>6, <1>8, <1>11, <2>3 DEF Alike
    <2>5. \A f \in s.inline : o.patches[f] # "none"
      BY <1>4, <1>6, <1>8, <1>11, <2>3 DEF Alike, Offered
    <2>6. \A f \in Findings : f \in Offered(s) => (o.patches[f] = "none" <=> s.verdict[f] = "regressed")
      BY <1>4, <1>6, <1>11, <2>3 DEF Alike
    <2>7. LiveGate => \A f \in o.shown \ s.lost : f \notin r.high \cup r.shadows
      BY <1>6, <1>10, <1>11 DEF Alike
    <2>8. o.shown \subseteq (s.found \ s.embargoed) \cup (s.shadows \ s.shadowEmbargoed)
      BY <1>3, <1>6, <1>11 DEF Alike
    <2>9. o.summary => s.embargoed = {} /\ (s.tier = "cyber" => s.found = {})
      BY <1>1, <1>6, <1>11 DEF Saw, Alike, PullKnows
    <2>10. s.at \notin Uncommented /\ s.tier # "cyber" /\ o.review = {} /\ r.linked = {}
           /\ \A f \in Findings : r.patch[f] = NoPatch
      BY <1>6, <1>8, <1>9, <1>11 DEF Alike, Uncommented, Unposted, Undecided
    <2>11. PullKnows(s, r, o)
      BY <2>4, <2>5, <2>6, <2>7, <2>8, <2>9, <2>10 DEF PullKnows, Uncommented
    <2> QED BY <2>1, <2>2, <2>11
  <1>12. "setComment" \in KernelPlaces /\ UNCHANGED rest
    BY <1>2 DEF KernelPlaces
  <1> QED BY <1>1, <1>2, <1>7, <1>11, <1>12, WritingKeeps

LEMMA SetCommentKeeps ==
  ASSUME KernelInv, NEW k \in Kernels, SetKernelComment(k) PROVE KernelInv'
  <1>1. PICK d \in KernelState, r \in RowState, p \in PullState : Saw(k, d, r, p)
    BY KernelKnown
  <1>2. PICK at \in {"done", "decisions"} : KernelGoes(k, at)
    BY DEF SetKernelComment
  <1>3. PICK q \in RowState : q = [r EXCEPT !.comment = TRUE]
    BY DEF RowState
  <1>4. /\ q.public = r.public /\ q.high = r.high /\ q.shadows = r.shadows /\ q.state = r.state
        /\ q.patch = r.patch /\ q.linked = r.linked
    BY <1>3 DEF RowState
  <1>5. d.at = "setComment" /\ reviewRow' = [reviewRow EXCEPT ![k] = q] /\ UNCHANGED <<rest, pullRequest, kernelFaults>>
    BY <1>1, <1>3 DEF SetKernelComment, KernelAt, Saw
  <1>6. ASSUME NEW s \in KernelState, s.at = at, Alike(s, d)
        PROVE  KnowsItself(s) /\ RowKnows(s, q) /\ PullKnows(s, q, p)
    <2>1. KnowsItself(s)
      BY <1>1, <1>5, <1>6 DEF Saw, Alike, KnowsItself, Offered, Undecided, Unposted, Ended
    <2>2. RowKnows(s, q)
      BY <1>1, <1>4, <1>5, <1>6 DEF Saw, Alike, RowKnows, Undecided, Unposted, Uncommented, Ended
    <2>3. PullKnows(s, q, p)
      BY <1>1, <1>4, <1>5, <1>6 DEF Saw, Alike, PullKnows, Unposted, Uncommented, Undecided, Offered
    <2> QED BY <2>1, <2>2, <2>3
  <1>7. at \in KernelPlaces /\ pullRequest' = [pullRequest EXCEPT ![k] = p] /\ UNCHANGED rest
    BY <1>1, <1>5, KernelKnown DEF KernelPlaces, Saw, rest
  <1> QED BY <1>1, <1>2, <1>5, <1>6, <1>7, WritingKeeps

LEMMA RecordDecisionsKeeps ==
  ASSUME KernelInv, NEW k \in Kernels, RecordPatchDecisions(k) PROVE KernelInv'
  <1>1. PICK d \in KernelState, r \in RowState, p \in PullState : Saw(k, d, r, p)
    BY KernelKnown
  <1>2. PICK at \in {"inline", "events"} : KernelGoes(k, at)
    BY DEF RecordPatchDecisions
  <1>3. PICK q \in RowState : q = [r EXCEPT !.patch = d.patch]
    BY DEF RowState, KernelState
  <1>4. /\ q.public = r.public /\ q.high = r.high /\ q.shadows = r.shadows /\ q.state = r.state
        /\ q.patch = d.patch /\ q.linked = r.linked
    BY <1>3 DEF RowState
  <1>5. d.at = "decisions" /\ reviewRow' = [reviewRow EXCEPT ![k] = q] /\ UNCHANGED <<rest, pullRequest, kernelFaults>>
    BY <1>1, <1>3 DEF RecordPatchDecisions, KernelAt, Saw
  <1>6. ASSUME NEW s \in KernelState, s.at = at, Alike(s, d)
        PROVE  KnowsItself(s) /\ RowKnows(s, q) /\ PullKnows(s, q, p)
    <2>1. KnowsItself(s)
      BY <1>1, <1>5, <1>6 DEF Saw, Alike, KnowsItself, Offered, Undecided, Unposted, Ended
    <2>2. RowKnows(s, q)
      BY <1>1, <1>4, <1>5, <1>6 DEF Saw, Alike, RowKnows, Undecided, Unposted, Uncommented, Ended
    <2>3. PullKnows(s, q, p)
      BY <1>1, <1>4, <1>5, <1>6 DEF Saw, Alike, PullKnows, Unposted, Uncommented, Undecided, Offered
    <2> QED BY <2>1, <2>2, <2>3
  <1>7. at \in KernelPlaces /\ pullRequest' = [pullRequest EXCEPT ![k] = p] /\ UNCHANGED rest
    BY <1>1, <1>5, KernelKnown DEF KernelPlaces, Saw, rest
  <1> QED BY <1>1, <1>2, <1>5, <1>6, <1>7, WritingKeeps


LEMMA CommentInlineKeeps ==
  ASSUME KernelInv, NEW k \in Kernels, NEW f \in Findings, CommentInline(k, f) PROVE KernelInv'
  <1>1. PICK d \in KernelState, r \in RowState, p \in PullState : Saw(k, d, r, p)
    BY KernelKnown
  <1>2. PICK at \in {"events", "inline"} : at = IF kernel[k].inline = {f} THEN "events" ELSE "inline"
    OBVIOUS
  <1>3. PICK inline \in SUBSET Findings : inline = d.inline \ {f} /\ inline \subseteq d.inline
    <2>1. d.inline \in SUBSET Findings
      BY DEF KernelState
    <2> QED BY <2>1
  <1>4. PICK s \in KernelState : s = [d EXCEPT !.inline = inline, !.at = at]
    BY <1>2 DEF KernelState, KernelPlaces
  <1>5. d.at = "inline" /\ f \in d.inline /\ UNCHANGED rest
    BY <1>1 DEF CommentInline, KernelAt, Saw
  <1>6. kernel' = [kernel EXCEPT ![k] = s]
    <2>1. kernel' = [kernel EXCEPT ![k].inline = inline, ![k].at = at]
      BY <1>1, <1>2, <1>3 DEF CommentInline, Saw
    <2> QED BY <1>1, <1>4, <2>1 DEF Saw
  <1>7. /\ s.at = at /\ s.inline = inline /\ s.tier = d.tier /\ s.receipt = d.receipt /\ s.model = d.model
        /\ s.found = d.found /\ s.high = d.high /\ s.raw = d.raw /\ s.shadows = d.shadows
        /\ s.corroborated = d.corroborated /\ s.embargoed = d.embargoed
        /\ s.shadowEmbargoed = d.shadowEmbargoed /\ s.patch = d.patch /\ s.verdict = d.verdict
        /\ s.lost = d.lost
    BY <1>4 DEF KernelState
  <1>8. PICK o \in PullState : /\ pullRequest' = [pullRequest EXCEPT ![k] = o]
                               /\ o = p \/ o = [p EXCEPT !.review = p.review \cup {f}]
    <2>1. CASE pullRequest' = pullRequest
      BY <1>1, <2>1, KernelKnown DEF Saw
    <2>2. CASE pullRequest' = [pullRequest EXCEPT ![k].review = @ \cup {f}]
      <3>1. PICK o \in PullState : o = [p EXCEPT !.review = p.review \cup {f}]
        BY DEF PullState
      <3> QED BY <1>1, <2>2, <3>1 DEF Saw
    <2> QED BY <2>1, <2>2 DEF CommentInline
  <1>9. PICK q \in RowState : /\ reviewRow' = [reviewRow EXCEPT ![k] = q]
                              /\ q = r \/ (q = [r EXCEPT !.linked = r.linked \cup {f}] /\ f \in o.review)
    <2>1. CASE reviewRow' = reviewRow
      BY <1>1, <2>1, KernelKnown DEF Saw
    <2>2. CASE /\ pullRequest' = [pullRequest EXCEPT ![k].review = @ \cup {f}]
               /\ reviewRow' = [reviewRow EXCEPT ![k].linked = @ \cup {f}]
      <3>1. PICK q \in RowState : q = [r EXCEPT !.linked = r.linked \cup {f}]
        BY DEF RowState
      <3>2. f \in o.review
        <4>1. pullRequest'[k] = o /\ pullRequest'[k].review = pullRequest[k].review \cup {f}
          BY <1>8, <2>2 DEF KernelInv, KernelTyped, PullState
        <4> QED BY <4>1
      <3> QED BY <1>1, <2>2, <3>1, <3>2 DEF Saw
    <2> QED BY <2>1, <2>2 DEF CommentInline
  <1>10. /\ o.summary = p.summary /\ o.shown = p.shown /\ o.patches = p.patches
         /\ o.review = p.review \/ o.review = p.review \cup {f}
    BY <1>8 DEF PullState
  <1>11. /\ q.public = r.public /\ q.high = r.high /\ q.shadows = r.shadows /\ q.state = r.state
         /\ q.patch = r.patch /\ (q.linked = r.linked \/ (q.linked = r.linked \cup {f} /\ f \in o.review))
    BY <1>9 DEF RowState
  <1>12. KernelMoved(k, s, q, o) /\ threatModel' = threatModel
    <2>1. kernelFaults' = kernelFaults \/ KernelFault
      BY DEF CommentInline
    <2> QED BY <1>5, <1>6, <1>8, <1>9, <2>1 DEF KernelMoved, rest
  <1>13. KnowsItself(s)
    BY <1>1, <1>2, <1>3, <1>5, <1>7 DEF Saw, KnowsItself, Offered, Undecided, Unposted, Ended
  <1>14. RowKnows(s, q)
    BY <1>1, <1>2, <1>5, <1>7, <1>11 DEF Saw, RowKnows, Undecided, Unposted, Uncommented, Ended
  <1>15. PullKnows(s, q, o)
    <2>1. \A g \in d.inline : p.patches[g] # "none"
      BY <1>1, <1>5 DEF Saw, PullKnows
    <2>2. s.tier # "cyber"
      BY <1>1, <1>5, <1>7 DEF Saw, KnowsItself, Unposted, Undecided, Ended
    <2>3. Offered(s) = Offered(d)
      BY <1>7 DEF Offered
    <2>4. q.linked \subseteq o.review
      BY <1>1, <1>10, <1>11 DEF Saw, PullKnows
    <2>5. \A g \in o.review : o.patches[g] # "none"
      BY <1>1, <1>5, <1>10, <2>1 DEF Saw, PullKnows
    <2>6. s.at \notin Uncommented \cup {"setComment", "decisions"}
      BY <1>2, <1>7 DEF Uncommented, Unposted, Undecided
    <2> QED BY <1>1, <1>3, <1>7, <1>10, <1>11, <2>1, <2>2, <2>3, <2>4, <2>5, <2>6
            DEF Saw, PullKnows, Uncommented
  <1>16. CleanModel(s.model)
    BY <1>1, <1>7 DEF Saw
  <1> QED BY <1>12, <1>13, <1>14, <1>15, <1>16, KernelKeeps, KernelKnown

LEMMA ProposeEventsKeeps ==
  ASSUME KernelInv, NEW k \in Kernels, ProposeEvents(k) PROVE KernelInv'
  <1>1. PICK d \in KernelState, r \in RowState, p \in PullState : Saw(k, d, r, p)
    BY KernelKnown
  <1>2. PICK q \in RowState : q = [r EXCEPT !.proposed = PatchesHeld(k)]
    <2>1. PatchesHeld(k) \in SUBSET Findings
      BY DEF PatchesHeld
    <2> QED BY <2>1 DEF RowState
  <1>3. /\ q.public = r.public /\ q.high = r.high /\ q.shadows = r.shadows /\ q.state = r.state
        /\ q.patch = r.patch /\ q.linked = r.linked
    BY <1>2 DEF RowState
  <1>4. /\ d.at = "events" /\ KernelGoes(k, "done") /\ UNCHANGED <<rest, pullRequest, kernelFaults>>
        /\ reviewRow' = [reviewRow EXCEPT ![k] = q]
    BY <1>1, <1>2 DEF ProposeEvents, KernelAt, Saw
  <1>5. ASSUME NEW s \in KernelState, s.at = "done", Alike(s, d)
        PROVE  KnowsItself(s) /\ RowKnows(s, q) /\ PullKnows(s, q, p)
    <2>1. KnowsItself(s)
      BY <1>1, <1>4, <1>5 DEF Saw, Alike, KnowsItself, Offered, Undecided, Unposted, Ended
    <2>2. RowKnows(s, q)
      BY <1>1, <1>3, <1>4, <1>5 DEF Saw, Alike, RowKnows, Undecided, Unposted, Uncommented, Ended
    <2>3. PullKnows(s, q, p)
      BY <1>1, <1>3, <1>4, <1>5 DEF Saw, Alike, PullKnows, Unposted, Uncommented, Undecided, Offered
    <2> QED BY <2>1, <2>2, <2>3
  <1>6. "done" \in KernelPlaces /\ pullRequest' = [pullRequest EXCEPT ![k] = p] /\ UNCHANGED rest
    BY <1>1, <1>4, KernelKnown DEF KernelPlaces, Saw, rest
  <1> QED BY <1>1, <1>4, <1>5, <1>6, WritingKeeps

LEMMA PatchAgentFailsKeeps ==
  ASSUME KernelInv, NEW k \in Kernels, PatchAgentFails(k) PROVE KernelInv'
  <1>1. /\ kernel[k].at = "patch" /\ KernelGoes(k, "comment") /\ UNCHANGED <<rest, reviewRow, pullRequest>>
        /\ KernelFault
    BY DEF PatchAgentFails, KernelAt
  <1> QED BY <1>1, ToCommentKeeps

\* An invocation may end anywhere.
LEMMA KernelStopsKeeps ==
  ASSUME KernelInv, NEW k \in Kernels, KernelStops(k) PROVE KernelInv'
  <1>1. ASSUME NEW d \in KernelState, NEW r \in RowState, NEW p \in PullState, Saw(k, d, r, p),
               NEW s \in KernelState, s.at = "stopped", Alike(s, d)
        PROVE  KnowsItself(s) /\ RowKnows(s, r) /\ PullKnows(s, r, p)
    <2>1. KnowsItself(s)
      BY <1>1 DEF Saw, Alike, KnowsItself, Offered, Undecided, Unposted, Ended
    <2>2. RowKnows(s, r)
      BY <1>1 DEF Saw, Alike, RowKnows, Undecided, Unposted, Uncommented, Ended
    <2>3. PullKnows(s, r, p)
      BY <1>1 DEF Saw, Alike, PullKnows, Unposted, Uncommented, Undecided, Offered
    <2> QED BY <2>1, <2>2, <2>3
  <1>2. "stopped" \in KernelPlaces
    BY DEF KernelPlaces
  <1>3. KernelGoes(k, "stopped") /\ UNCHANGED <<rest, reviewRow, pullRequest>> /\ KernelFault
    BY DEF KernelStops
  <1> QED BY <1>1, <1>2, <1>3, OnwardKeeps

LEMMA KernelStep == KernelInv /\ [KernelNext]_kernelVars => KernelInv'
  <1> SUFFICES ASSUME KernelInv, [KernelNext]_kernelVars PROVE KernelInv'
    OBVIOUS
  <1>1. CASE UNCHANGED kernelVars
    <2>1. UNCHANGED <<setup, repoTier, threatModel, kernel, reviewRow, pullRequest, kernelFaults>>
      BY <1>1 DEF kernelVars
    <2>2. KernelTyped' /\ ModelsAreClean'
      BY <2>1 DEF KernelInv, KernelTyped, ModelsAreClean, PublicModelIsPublic
    <2>3. \A k \in Kernels : KernelFits(k)'
      BY <2>1 DEF KernelInv, KernelFits, KnowsItself, RowKnows, PullKnows, Offered, LiveGate, On
    <2> QED BY <2>2, <2>3 DEF KernelInv
  <1>2. CASE SetRepoTier
    BY <1>2, SetRepoTierKeeps
  <1>3. ASSUME NEW k \in Kernels,
               \/ \E rail \in {"install", "paid"}, wanted, empty \in BOOLEAN :
                      StartKernel(k, rail, wanted, empty)
               \/ \E found \in SUBSET Findings, high \in SUBSET Findings, shadows \in SUBSET Shadows :
                      Review(k, found, high, shadows)
        PROVE  KernelInv'
    BY <1>3, StartKernelKeeps, ReviewKeeps
  <1>4. ASSUME NEW k \in Kernels,
               \/ LoadThreatModel(k)
               \/ \E tree, touched \in BOOLEAN : StoreThreatModel(k, tree, touched)
               \/ \E unreachable \in SUBSET Findings : ReachabilityGate(k, unreachable)
               \/ \E confirmed \in SUBSET Shadows : Adjudicate(k, confirmed)
        PROVE  KernelInv'
    BY <1>4, LoadThreatModelKeeps, StoreThreatModelKeeps, ReachabilityGateKeeps, AdjudicateKeeps
  <1>5. ASSUME NEW k \in Kernels,
               \/ UpdateReview(k) \/ RecordFindings(k) \/ DiscloseFindings(k) \/ RecordShadows(k)
               \/ FirstSummary(k) \/ PatchAgent(k) \/ PatchAgentFails(k) \/ VerifyPatches(k)
        PROVE  KernelInv'
    BY <1>5, UpdateReviewKeeps, RecordFindingsKeeps, DiscloseFindingsKeeps, RecordShadowsKeeps,
       FirstSummaryKeeps, PatchAgentKeeps, PatchAgentFailsKeeps, VerifyPatchesKeeps
  <1>6. ASSUME NEW k \in Kernels,
               \/ \E read \in BOOLEAN : Comment(k, read)
               \/ SetKernelComment(k) \/ RecordPatchDecisions(k)
               \/ \E f \in Findings : CommentInline(k, f)
               \/ ProposeEvents(k) \/ KernelStops(k)
        PROVE  KernelInv'
    BY <1>6, CommentKeeps, SetCommentKeeps, RecordDecisionsKeeps, CommentInlineKeeps,
       ProposeEventsKeeps, KernelStopsKeeps
  <1> QED BY <1>1, <1>2, <1>3, <1>4, <1>5, <1>6 DEF KernelNext


LEMMA KernelTells ==
  KernelInv => KernelTypeOK /\ WithheldIsNotShown /\ SuggestionsAreChecked /\ PublicModelIsPublic
  <1> SUFFICES ASSUME KernelInv
               PROVE  KernelTypeOK /\ WithheldIsNotShown /\ SuggestionsAreChecked /\ PublicModelIsPublic
    OBVIOUS
  <1>1. KernelTypeOK
    <2> SUFFICES ASSUME NEW k \in Kernels PROVE KernelTypeOK!5!(k)
      BY DEF KernelTypeOK, KernelInv, KernelTyped
    <2>1. PICK d \in KernelState, r \in RowState, p \in PullState : Saw(k, d, r, p)
      BY KernelKnown
    <2>2. /\ d.at \in KernelPlaces /\ d.rail \in {"install", "paid"} /\ d.tier \in {"default", "cyber"}
          /\ d.receipt \in BOOLEAN /\ d.model \in ThreatModels
          /\ d.patch \in [Findings -> Reviewers \cup {NoPatch}]
          /\ d.verdict \in [Findings -> Verdicts \cup {"none"}]
          /\ p.summary \in BOOLEAN
          /\ r.state \in [Findings \cup Shadows -> {"absent", "none", "embargoed"}]
          /\ r.severity \in [Findings -> {"none", "low", "high"}]
      BY DEF KernelState, RowState, PullState
    <2>3. /\ d.high \subseteq d.raw /\ d.raw \subseteq d.found /\ d.corroborated \subseteq d.shadows
          /\ d.embargoed \subseteq d.found /\ d.shadowEmbargoed \cup d.lost \subseteq d.shadows
          /\ d.inline \subseteq Offered(d) /\ Offered(d) \subseteq d.found
      BY <2>1 DEF Saw, KnowsItself
    <2>4. p.shown \subseteq d.found \cup d.shadows
      BY <2>1 DEF Saw, PullKnows
    <2>5. p.review \subseteq d.found
      <3>1. p.review \subseteq Findings
        BY DEF PullState
      <3> QED BY <2>1, <2>3, <3>1 DEF Saw, PullKnows
    <2>6. PatchesHeld(k) = Offered(d)
      BY <2>1 DEF PatchesHeld, Offered, Saw
    <2> QED BY <2>1, <2>2, <2>3, <2>4, <2>5, <2>6 DEF Saw
  <1>2. WithheldIsNotShown
    <2> SUFFICES ASSUME NEW k \in Kernels PROVE WithheldIsNotShown!(k)
      BY DEF WithheldIsNotShown
    <2>1. PICK d \in KernelState, r \in RowState, p \in PullState : Saw(k, d, r, p)
      BY KernelKnown
    <2>2. d.found \subseteq Findings /\ d.shadows \subseteq Shadows /\ p.review \subseteq Findings
      BY DEF KernelState, PullState
    <2>3. ASSUME NEW f \in p.shown \ d.lost
          PROVE  /\ r.state[f] # "embargoed"
                 /\ (setup.live /\ On("disclosure")) => f \notin r.high \cup r.shadows
      BY <2>1, <2>2, <2>3 DEF Saw, RowKnows, PullKnows, LiveGate
    <2>4. ASSUME NEW g \in Findings, r.state[g] = "embargoed"
          PROVE  /\ ~ p.summary /\ p.review = {}
                 /\ \A f \in Findings : p.patches[f] = "none"
      <3>1. d.embargoed # {}
        BY <2>1, <2>4 DEF Saw, RowKnows
      <3>2. Offered(d) = {}
        BY <2>1, <3>1 DEF Saw, KnowsItself
      <3> QED BY <2>1, <2>2, <3>1, <3>2 DEF Saw, PullKnows
    <2>5. ASSUME d.tier = "cyber"
          PROVE  /\ ~ r.public
                 /\ p \in {EmptyPullRequest, [EmptyPullRequest EXCEPT !.summary = TRUE]}
                 /\ p.summary => d.found = {}
      <3>1. ~ r.public /\ (p.summary => d.found = {})
        BY <2>1, <2>5 DEF Saw, KnowsItself, RowKnows, PullKnows
      <3>2. p.shown = {} /\ p.review = {} /\ \A f \in Findings : p.patches[f] = "none"
        BY <2>1, <2>5 DEF Saw, PullKnows
      <3>3. p.patches = [f \in Findings |-> "none"]
        BY <3>2 DEF PullState
      <3>4. p = [summary |-> p.summary, shown |-> {}, review |-> {}, patches |-> [f \in Findings |-> "none"]]
        BY <3>2, <3>3 DEF PullState
      <3>5. p.summary \in BOOLEAN
        BY DEF PullState
      <3>6. p.summary = FALSE => p = EmptyPullRequest
        BY <3>4 DEF EmptyPullRequest
      <3>7. p.summary = TRUE => p = [EmptyPullRequest EXCEPT !.summary = TRUE]
        BY <3>4 DEF EmptyPullRequest
      <3> QED BY <3>1, <3>5, <3>6, <3>7
    <2> QED BY <2>1, <2>3, <2>4, <2>5 DEF Saw
  <1>3. SuggestionsAreChecked
    <2> SUFFICES ASSUME NEW k \in Kernels PROVE SuggestionsAreChecked!(k)
      BY DEF SuggestionsAreChecked
    <2>1. PICK d \in KernelState, r \in RowState, p \in PullState : Saw(k, d, r, p)
      BY KernelKnown
    <2> QED BY <2>1 DEF Saw, PullKnows
  <1> QED BY <1>1, <1>2, <1>3 DEF KernelInv, ModelsAreClean

\* Invocations, rows and comments hold values of their types.
THEOREM KernelTypeCorrect == KernelSpec => []KernelTypeOK
  BY KernelStarts, KernelStep, KernelTells, PTL DEF KernelSpec

\* What is under embargo is not shown, for any number of reviews, findings and
\* errors, and whenever an operator moves the repository between tiers: the
\* embargoes of the table are those the invocation knows of, or lost ones
\* (runReviewKernel, runInstallLane).
THEOREM WithheldStaysHidden == KernelSpec => []WithheldIsNotShown
  BY KernelStarts, KernelStep, KernelTells, PTL DEF KernelSpec

\* Patches on the pull request are those the verifier did not find to regress,
\* beside findings that are shown (applyPatchVerifier, runInstallLane).
THEOREM SuggestionsStayChecked == KernelSpec => []SuggestionsAreChecked
  BY KernelStarts, KernelStep, KernelTells, PTL DEF KernelSpec

\* The public threat model is built from public reviews, because each copy of
\* it that is public is (runReviewKernel, upsertRepoThreatModel).
THEOREM PublicModelStaysPublic == KernelSpec => []PublicModelIsPublic
  BY KernelStarts, KernelStep, KernelTells, PTL DEF KernelSpec

-----------------------------------------------------------------------------
(* The disclosure of a finding.                                            *)

FindingRow ==
    [id : 0 .. MaxAttempts, severity : {"none", "low", "high"}, marks : SUBSET Marks,
     patch : BOOLEAN, retracted : BOOLEAN, closedOn : 0 .. MaxAttempts]
DisclosureRow ==
    [state : Embargo \cup {"absent", "none", "published"}, madeFor : 0 .. MaxAttempts,
     acknowledged : BOOLEAN, forced : BOOLEAN, token : Publishers \cup {"none", "stale"},
     ghsa : Advisories \cup {"none"}, cve : BOOLEAN, advised : BOOLEAN]
ReviewRow == [decision : 0 .. MaxAttempts, comment : 0 .. MaxAttempts, done : BOOLEAN]
AttemptState ==
    [at : {"idle", "decide", "record", "initialize", "comment", "setComment", "patch"},
     n : 0 .. MaxAttempts, severity : {"none", "low", "high"}]
TickState ==
    {c \in [at : {"idle", "post", "mark"}, mark : Marks \cup {"none"}, on : 0 .. MaxAttempts,
            public : BOOLEAN] : c.at = "idle" \/ c.mark \in Marks}
PublisherCall ==
    [at : Holding \cup {"idle", "claim", "reload", "transition", "publish", "confirm"},
     actor : {"system", "operator"}, state : Embargo \cup {"none", "published"},
     ghsa : Advisories \cup {"none"}, cve : BOOLEAN]

LifecycleTyped ==
    /\ finding \in FindingRow /\ review \in ReviewRow /\ attempt \in AttemptState
    /\ tick \in [Ticks -> TickState] /\ receipts \subseteq Marks /\ erased \in 0 .. MaxAttempts
CallsTyped ==
    /\ embargo \in [over : BOOLEAN, grace : BOOLEAN]
    /\ advisory \in [Advisories -> {"absent", "draft", "published"}]
    /\ publisher \in [Publishers -> PublisherCall] /\ disclosureFaults \in Nat

\* No embargo was entered yet.
Quiet(d) == d.state \in {"absent", "none"}
Entering == {"decide", "record", "initialize"}
Commented == {"comment", "setComment", "patch"}

\* What an attempt has written so far: rows of earlier attempts have smaller
\* numbers, the decision is that of the attempt that records, 0 without the
\* finding.  x: the last attempt that deleted a row under disclosure.
AttemptFits(f, d, r, a, x) ==
    /\ f.id <= a.n /\ d.madeFor <= a.n /\ x <= a.n /\ r.decision <= a.n
    /\ a.at # "idle" => a.n > 0
    /\ a.at \in {"decide", "record"} => f.id < a.n
    /\ a.at = "decide" => r.decision < a.n
    /\ a.at \in Entering => d.madeFor < a.n
    /\ f.id = a.n => f.severity = a.severity
    /\ d.state = "none" /\ d.madeFor = f.id => f.severity # "high"
    /\ a.at \in {"record", "initialize"} \cup Commented =>
           r.decision = IF a.severity = "none" THEN 0 ELSE a.n
    /\ a.at \in {"initialize"} \cup Commented /\ a.severity # "none" => f.id # 0
    /\ a.at \in Entering \cup {"comment", "setComment"} => r.comment = 0
    /\ a.at = "patch" => r.comment = a.n
    /\ r.comment # 0 => r.decision \in {0, r.comment}
    /\ r.comment # 0 /\ r.decision # 0 => f.id # 0
    /\ f.id = 0 => f.severity = "none" /\ f.marks = {} /\ ~ f.retracted
    /\ f.patch => r.comment # 0

\* What a tick looked at: before there is a comment, closures of an earlier
\* decision than that which deletes a row.
TickFits(r, a, c) ==
    c.at # "idle" =>
        /\ c.on <= a.n
        /\ a.at = "decide" \/ (a.at = "record" /\ a.severity = "none") => c.on < a.n
        /\ r.comment = 0 => c.mark = "closed"
        /\ c.mark = "closed" => c.on # 0

\* The row is closed, or only about to be, on what was seen of a deleted one.
Leftover(f, k, x) ==
    /\ "closed" \in f.marks /\ f.closedOn < x
    /\ \A t \in Ticks : k[t].at # "idle" /\ k[t].mark = "closed" => k[t].on < x

\* Without an embargo only what is left of a deleted row is swept before there
\* is a comment, and by then the row is the last attempt's.
SweepFits(f, d, r, a, k, x) ==
    /\ \A t \in Ticks : TickFits(r, a, k[t])
    /\ "closed" \in f.marks => f.closedOn # 0
    /\ Quiet(d) =>
           /\ r.comment = 0 =>
                  /\ f.marks = {} \/ ("closed" \in f.marks /\ f.closedOn < x)
                  /\ \A t \in Ticks : k[t].at # "idle" => k[t].on < x
           /\ ~ f.retracted /\ f.id # 0 /\ a.at \in {"initialize"} \cup Commented =>
                  f.id = a.n \/ Leftover(f, k, x)
           /\ ~ f.retracted /\ f.id # 0 /\ r.comment # 0 => f.id = r.comment \/ Leftover(f, k, x)
           /\ \A t \in Ticks : k[t].at # "idle" /\ k[t].mark = "closed" =>
                  k[t].on < x \/ k[t].on = r.decision
           /\ "closed" \in f.marks => f.closedOn < x \/ f.closedOn = r.decision

LifecycleInv ==
    /\ LifecycleTyped /\ disclosure \in DisclosureRow
    /\ AttemptFits(finding, disclosure, review, attempt, erased)
    /\ SweepFits(finding, disclosure, review, attempt, tick, erased)

\* The rows, the attempt and the ticks before a step.
Now(f, d, r, a, k, x) ==
    f = finding /\ d = disclosure /\ r = review /\ a = attempt /\ k = tick /\ x = erased
LEMMA LifecycleKnown ==
  ASSUME LifecycleInv
  PROVE  \E f \in FindingRow, d \in DisclosureRow, r \in ReviewRow, a \in AttemptState,
            k \in [Ticks -> TickState], x \in 0 .. MaxAttempts :
             Now(f, d, r, a, k, x) /\ AttemptFits(f, d, r, a, x) /\ SweepFits(f, d, r, a, k, x)
  BY DEF LifecycleInv, LifecycleTyped, Now

LEMMA LifecycleComes ==
  ASSUME NEW f \in FindingRow, NEW d \in DisclosureRow, NEW r \in ReviewRow, NEW a \in AttemptState,
         NEW k \in [Ticks -> TickState], NEW x \in 0 .. MaxAttempts,
         f = finding', d = disclosure', r = review', a = attempt', k = tick', x = erased',
         receipts' \subseteq Marks, AttemptFits(f, d, r, a, x), SweepFits(f, d, r, a, k, x)
  PROVE  LifecycleInv'
  BY DEF LifecycleInv, LifecycleTyped, AttemptFits, SweepFits, TickFits, Leftover, Quiet

LEMMA RowsHoldNumbers ==
  ASSUME NEW f \in FindingRow, NEW d \in DisclosureRow, NEW r \in ReviewRow, NEW a \in AttemptState,
         NEW k \in [Ticks -> TickState], NEW x \in 0 .. MaxAttempts
  PROVE  /\ f.id \in Nat /\ f.closedOn \in Nat /\ d.madeFor \in Nat /\ r.decision \in Nat
         /\ r.comment \in Nat /\ a.n \in Nat /\ x \in Nat
         /\ \A t \in Ticks : k[t].on \in Nat
  <1>1. \A t \in Ticks : k[t].on \in 0 .. MaxAttempts
    BY DEF TickState
  <1> QED BY <1>1 DEF FindingRow, DisclosureRow, ReviewRow, AttemptState

LEMMA LifecycleStarts == LifecycleInit => LifecycleInv
  BY LifecycleAssumption DEF LifecycleInit, LifecycleInv, LifecycleTyped, AttemptFits, SweepFits, TickFits,
     FindingRow, DisclosureRow, ReviewRow, AttemptState, TickState, NoFinding, NoDisclosure, Resting, NoTick,
     Marks, Embargo, Quiet, Entering, Commented

\* What the sweep relies on is left alone by an attempt that leaves the row,
\* its disclosure and the comment alone.
LEMMA SweepStays ==
  ASSUME NEW f \in FindingRow, NEW d \in DisclosureRow, NEW r \in ReviewRow, NEW a \in AttemptState,
         NEW k \in [Ticks -> TickState], NEW x \in 0 .. MaxAttempts,
         AttemptFits(f, d, r, a, x), SweepFits(f, d, r, a, k, x),
         NEW s \in ReviewRow, NEW b \in AttemptState, s.comment = r.comment,
         s.decision = r.decision \/ r.comment = 0, b.n >= a.n,
         b.at \in {"decide", "record"} => b.n > a.n \/ a.at = "decide",
         b.at \in {"initialize"} \cup Commented => a.at \in {"initialize"} \cup Commented /\ b.n = a.n
  PROVE  SweepFits(f, d, s, b, k, x)
  <1>1. /\ f.closedOn \in Nat /\ r.comment \in Nat /\ a.n \in Nat /\ b.n \in Nat /\ x \in Nat
        /\ \A t \in Ticks : k[t].on \in Nat
    BY RowsHoldNumbers
  <1>2. ASSUME NEW t \in Ticks PROVE TickFits(s, b, k[t])
    <2>1. TickFits(r, a, k[t])
      BY DEF SweepFits
    <2> QED BY <1>1, <2>1 DEF TickFits
  <1>3. ASSUME Quiet(d), s.decision # r.decision
        PROVE  /\ \A t \in Ticks : k[t].at # "idle" => k[t].on < x
               /\ "closed" \in f.marks => f.closedOn < x
    BY <1>3 DEF SweepFits
  <1> QED BY <1>2, <1>3 DEF SweepFits

LEMMA StartAttemptKeeps == LifecycleInv /\ StartAttempt => LifecycleInv'
  <1> SUFFICES ASSUME LifecycleInv, StartAttempt PROVE LifecycleInv'
    OBVIOUS
  <1>1. PICK f \in FindingRow, d \in DisclosureRow, r \in ReviewRow, a \in AttemptState,
             k \in [Ticks -> TickState], x \in 0 .. MaxAttempts :
                 Now(f, d, r, a, k, x) /\ AttemptFits(f, d, r, a, x) /\ SweepFits(f, d, r, a, k, x)
    BY LifecycleKnown
  <1>2. /\ a.at = "idle" /\ f = finding' /\ d = disclosure' /\ k = tick' /\ x = erased' /\ receipts' \subseteq Marks
    BY <1>1 DEF StartAttempt, AttemptAt, Now, LifecycleInv, LifecycleTyped
  <1>3. CASE r.comment # 0
    <2>1. PICK s \in ReviewRow : s = [r EXCEPT !.done = TRUE]
      BY DEF ReviewRow
    <2>2. s = review' /\ a = attempt'
      BY <1>1, <1>3, <2>1 DEF StartAttempt, Now
    <2>3. s.decision = r.decision /\ s.comment = r.comment
      BY <2>1 DEF ReviewRow
    <2>4. AttemptFits(f, d, s, a, x) /\ SweepFits(f, d, s, a, k, x)
      BY <1>1, <2>3 DEF AttemptFits, SweepFits, TickFits
    <2> QED BY <1>1, <1>2, <2>2, <2>4, LifecycleComes
  <1>4. CASE r.comment = 0
    <2>1. PICK b \in AttemptState : b = [at |-> "decide", n |-> a.n + 1, severity |-> "none"] /\ a.n \in Nat
      BY <1>1, <1>4, LifecycleAssumption DEF StartAttempt, AttemptState, Now
    <2>2. r = review' /\ b = attempt'
      BY <1>1, <1>4, <2>1 DEF StartAttempt, Now
    <2>3. b.at = "decide" /\ b.n = a.n + 1
      BY <2>1
    <2>4. f.id \in Nat /\ d.madeFor \in Nat /\ r.decision \in Nat /\ x \in Nat
      BY RowsHoldNumbers
    <2>5. AttemptFits(f, d, r, b, x)
      BY <1>1, <1>2, <1>4, <2>1, <2>3, <2>4 DEF AttemptFits, Entering, Commented
    <2>6. SweepFits(f, d, r, b, k, x)
      BY <1>1, <2>1, <2>3, SweepStays DEF Commented
    <2> QED BY <1>1, <1>2, <2>2, <2>5, <2>6, LifecycleComes
  <1> QED BY <1>3, <1>4

LEMMA DecideKeeps ==
  ASSUME LifecycleInv, NEW severity \in {"none", "low", "high"}, Decide(severity) PROVE LifecycleInv'
  <1>1. PICK f \in FindingRow, d \in DisclosureRow, r \in ReviewRow, a \in AttemptState,
             k \in [Ticks -> TickState], x \in 0 .. MaxAttempts :
                 Now(f, d, r, a, k, x) /\ AttemptFits(f, d, r, a, x) /\ SweepFits(f, d, r, a, k, x)
    BY LifecycleKnown
  <1>2. a.at = "decide" /\ f = finding' /\ d = disclosure' /\ k = tick' /\ x = erased' /\ receipts' \subseteq Marks
    BY <1>1 DEF Decide, AttemptAt, Now, LifecycleInv, LifecycleTyped
  <1>3. f.id \in Nat /\ d.madeFor \in Nat /\ a.n \in Nat /\ r.decision \in Nat /\ x \in Nat
    BY RowsHoldNumbers
  <1>4. r.comment = 0 /\ f.id < a.n /\ d.madeFor < a.n /\ x <= a.n /\ 0 < a.n
    BY <1>1, <1>2, <1>3 DEF AttemptFits, Entering
  <1>5. ASSUME severity = "none", NEW again \in BOOLEAN, AttemptGoes("idle"),
               review' = [review EXCEPT !.decision = 0, !.done = ~ again]
        PROVE  LifecycleInv'
    <2>1. PICK s \in ReviewRow : s = [r EXCEPT !.decision = 0, !.done = ~ again]
      <3>1. 0 \in 0 .. MaxAttempts
        BY LifecycleAssumption
      <3> QED BY <3>1 DEF ReviewRow
    <2>2. PICK b \in AttemptState : b = [a EXCEPT !.at = "idle"]
      BY DEF AttemptState
    <2>3. s = review' /\ b = attempt'
      BY <1>1, <1>5, <2>1, <2>2 DEF AttemptGoes, Now
    <2>4. s.decision = 0 /\ s.comment = r.comment /\ b.at = "idle" /\ b.n = a.n /\ b.severity = a.severity
      BY <2>1, <2>2 DEF ReviewRow, AttemptState
    <2>5. AttemptFits(f, d, s, b, x)
      BY <1>1, <1>2, <1>3, <1>4, <2>4 DEF AttemptFits, Entering, Commented
    <2>6. SweepFits(f, d, s, b, k, x)
      BY <1>1, <1>3, <1>4, <2>4, SweepStays DEF Commented
    <2> QED BY <1>1, <1>2, <2>3, <2>5, <2>6, LifecycleComes
  <1>6. ASSUME review' = [review EXCEPT !.decision = IF severity = "none" THEN 0 ELSE attempt.n],
               attempt' = [attempt EXCEPT !.at = "record", !.severity = severity]
        PROVE  LifecycleInv'
    <2>1. PICK n \in 0 .. MaxAttempts : n = IF severity = "none" THEN 0 ELSE a.n
      BY LifecycleAssumption DEF AttemptState
    <2>2. PICK s \in ReviewRow : s = [r EXCEPT !.decision = n]
      BY DEF ReviewRow
    <2>3. PICK b \in AttemptState : b = [a EXCEPT !.at = "record", !.severity = severity]
      BY DEF AttemptState
    <2>4. s = review' /\ b = attempt'
      BY <1>1, <1>6, <2>1, <2>2, <2>3 DEF Now
    <2>5. s.decision = n /\ s.comment = r.comment /\ b.at = "record" /\ b.n = a.n /\ b.severity = severity
      BY <2>2, <2>3 DEF ReviewRow, AttemptState
    <2>6. AttemptFits(f, d, s, b, x)
      BY <1>1, <1>2, <1>3, <1>4, <2>1, <2>5 DEF AttemptFits, Entering, Commented
    <2>7. SweepFits(f, d, s, b, k, x)
      BY <1>1, <1>2, <1>3, <1>4, <2>5, SweepStays DEF Commented
    <2> QED BY <1>1, <1>2, <2>4, <2>6, <2>7, LifecycleComes
  <1>7. ASSUME severity = "none", AttemptGoes("idle"),
               \E again \in {FALSE, attempt.n < MaxAttempts} :
                   review' = [review EXCEPT !.decision = 0, !.done = ~ again]
        PROVE  LifecycleInv'
    <2>1. PICK again \in BOOLEAN : review' = [review EXCEPT !.decision = 0, !.done = ~ again]
      BY <1>7, Zenon
    <2> QED BY <1>5, <1>7, <2>1
  <1> QED BY <1>6, <1>7, Zenon DEF Decide

\* The row of a finding the attempt does not have is deleted.
LEMMA TrailingKeeps ==
  ASSUME LifecycleInv, RecordFinding, Trailing, finding' = NoFinding, disclosure' = NoDisclosure,
         erased' = IF disclosure.state \in {"absent", "none"} THEN erased ELSE attempt.n
  PROVE  LifecycleInv'
  <1>1. PICK f \in FindingRow, d \in DisclosureRow, r \in ReviewRow, a \in AttemptState,
             k \in [Ticks -> TickState], x \in 0 .. MaxAttempts :
                 Now(f, d, r, a, k, x) /\ AttemptFits(f, d, r, a, x) /\ SweepFits(f, d, r, a, k, x)
    BY LifecycleKnown
  <1>2. a.at = "record" /\ a.severity = "none" /\ r = review' /\ k = tick' /\ receipts' \subseteq Marks
    BY <1>1 DEF RecordFinding, AttemptAt, Trailing, Now, LifecycleInv, LifecycleTyped
  <1>3. PICK b \in AttemptState : b = [a EXCEPT !.at = "initialize"]
    BY DEF AttemptState
  <1>4. b = attempt' /\ b.at = "initialize" /\ b.n = a.n /\ b.severity = "none"
    BY <1>1, <1>2, <1>3 DEF RecordFinding, AttemptGoes, Now, AttemptState
  <1>5. PICK g \in FindingRow, e \in DisclosureRow : g = NoFinding /\ e = NoDisclosure
    <2>1. 0 \in 0 .. MaxAttempts
      BY LifecycleAssumption
    <2>2. NoFinding \in FindingRow
      BY <2>1 DEF NoFinding, FindingRow
    <2>3. NoDisclosure \in DisclosureRow
      BY <2>1 DEF NoDisclosure, DisclosureRow
    <2> QED BY <2>2, <2>3
  <1>6. /\ g = finding' /\ g.id = 0 /\ g.severity = "none" /\ g.marks = {} /\ ~ g.retracted /\ ~ g.patch
        /\ e = disclosure' /\ e.state = "absent" /\ e.madeFor = 0
    BY <1>5 DEF NoFinding, NoDisclosure
  <1>7. PICK y \in 0 .. MaxAttempts : y = IF Quiet(d) THEN x ELSE a.n
    BY DEF AttemptState
  <1>8. y = erased'
    BY <1>1, <1>7 DEF Quiet, Now
  <1>9. /\ a.n \in Nat /\ x \in Nat /\ r.decision \in Nat
        /\ \A t \in Ticks : k[t].on \in Nat
    BY RowsHoldNumbers
  <1>10. r.comment = 0 /\ r.decision = 0 /\ a.n > 0 /\ x <= a.n
    BY <1>1, <1>2 DEF AttemptFits, Entering
  <1>11. AttemptFits(g, e, r, b, y)
    BY <1>4, <1>6, <1>7, <1>9, <1>10 DEF AttemptFits, Entering, Commented
  <1>12. ASSUME NEW t \in Ticks
         PROVE  TickFits(r, b, k[t]) /\ (k[t].at # "idle" => k[t].on < y)
    <2>1. TickFits(r, a, k[t])
      BY <1>1 DEF SweepFits
    <2>2. Quiet(d) /\ k[t].at # "idle" => k[t].on < x
      BY <1>1, <1>10 DEF SweepFits
    <2> QED BY <1>2, <1>4, <1>7, <1>9, <1>10, <2>1, <2>2 DEF TickFits
  <1>13. SweepFits(g, e, r, b, k, y)
    BY <1>6, <1>10, <1>12 DEF SweepFits
  <1> QED BY <1>2, <1>4, <1>6, <1>8, <1>11, <1>13, LifecycleComes

LEMMA RecordFindingKeeps == LifecycleInv /\ RecordFinding => LifecycleInv'
  <1> SUFFICES ASSUME LifecycleInv, RecordFinding PROVE LifecycleInv'
    OBVIOUS
  <1> SUFFICES ASSUME ~ Trailing, UNCHANGED <<disclosure, erased>>,
                      finding' = IF Untouched /\ attempt.severity # "none"
                                 THEN [finding EXCEPT !.id = attempt.n, !.severity = attempt.severity]
                                 ELSE finding
               PROVE  LifecycleInv'
    BY TrailingKeeps DEF RecordFinding
  <1>1. PICK f \in FindingRow, d \in DisclosureRow, r \in ReviewRow, a \in AttemptState,
             k \in [Ticks -> TickState], x \in 0 .. MaxAttempts :
                 Now(f, d, r, a, k, x) /\ AttemptFits(f, d, r, a, x) /\ SweepFits(f, d, r, a, k, x)
    BY LifecycleKnown
  <1>2. a.at = "record" /\ r = review' /\ d = disclosure' /\ k = tick' /\ x = erased' /\ receipts' \subseteq Marks
    BY <1>1 DEF RecordFinding, AttemptAt, Now, LifecycleInv, LifecycleTyped
  <1>3. PICK b \in AttemptState : b = [a EXCEPT !.at = "initialize"]
    BY DEF AttemptState
  <1>4. b = attempt' /\ b.at = "initialize" /\ b.n = a.n /\ b.severity = a.severity
    BY <1>1, <1>3 DEF RecordFinding, AttemptGoes, Now, AttemptState
  <1>5. /\ f.id \in Nat /\ f.closedOn \in Nat /\ d.madeFor \in Nat /\ a.n \in Nat /\ x \in Nat
        /\ r.decision \in Nat /\ r.comment \in Nat /\ \A t \in Ticks : k[t].on \in Nat
    BY RowsHoldNumbers
  <1>6. /\ f.id < a.n /\ a.n > 0 /\ r.comment = 0 /\ d.madeFor < a.n
        /\ r.decision = IF a.severity = "none" THEN 0 ELSE a.n
    BY <1>1, <1>2, <1>5 DEF AttemptFits, Entering
  <1>7. \A t \in Ticks : TickFits(r, b, k[t])
    BY <1>1, <1>2, <1>4 DEF SweepFits, TickFits
  <1>8. CASE f.marks = {} /\ ~ f.retracted
    <2>1. a.severity # "none"
      BY <1>1, <1>8 DEF Trailing, Untouched, Now
    <2>2. PICK g \in FindingRow : g = [f EXCEPT !.id = a.n, !.severity = a.severity]
      BY DEF FindingRow, AttemptState
    <2>3. g = finding'
      BY <1>1, <1>8, <2>1, <2>2 DEF Untouched, Now
    <2>4. g.id = a.n /\ g.severity = a.severity /\ g.marks = {} /\ g.patch = f.patch
      BY <1>8, <2>2 DEF FindingRow
    <2>5. AttemptFits(g, d, r, b, x)
      BY <1>1, <1>4, <1>5, <1>6, <2>4 DEF AttemptFits, Entering, Commented
    <2>6. SweepFits(g, d, r, b, k, x)
      BY <1>1, <1>4, <1>6, <1>7, <2>4 DEF SweepFits, Commented
    <2> QED BY <1>1, <1>2, <1>4, <2>3, <2>5, <2>6, LifecycleComes
  <1>9. CASE f.marks # {} \/ f.retracted
    <2>1. f = finding'
      BY <1>1, <1>9 DEF Untouched, Now
    <2>2. f.id # 0
      BY <1>1, <1>9 DEF AttemptFits
    <2>3. AttemptFits(f, d, r, b, x)
      BY <1>1, <1>4, <1>5, <1>6, <2>2 DEF AttemptFits, Entering, Commented
    <2>4. Quiet(d) /\ ~ f.retracted => Leftover(f, k, x)
      BY <1>1, <1>6, <1>9 DEF SweepFits, Leftover
    <2>5. SweepFits(f, d, r, b, k, x)
      BY <1>1, <1>4, <1>6, <1>7, <2>4 DEF SweepFits
    <2> QED BY <1>1, <1>2, <1>4, <2>1, <2>3, <2>5, LifecycleComes
  <1> QED BY <1>8, <1>9

LEMMA InitializeKeeps == LifecycleInv /\ InitializeDisclosure => LifecycleInv'
  <1> SUFFICES ASSUME LifecycleInv, InitializeDisclosure PROVE LifecycleInv'
    OBVIOUS
  <1>1. PICK f \in FindingRow, d \in DisclosureRow, r \in ReviewRow, a \in AttemptState,
             k \in [Ticks -> TickState], x \in 0 .. MaxAttempts :
                 Now(f, d, r, a, k, x) /\ AttemptFits(f, d, r, a, x) /\ SweepFits(f, d, r, a, k, x)
    BY LifecycleKnown
  <1>2. a.at = "initialize" /\ f = finding' /\ k = tick' /\ x = erased' /\ receipts' \subseteq Marks
    BY <1>1 DEF InitializeDisclosure, AttemptAt, Now, LifecycleInv, LifecycleTyped
  <1>3. f.id \in Nat /\ d.madeFor \in Nat /\ a.n \in Nat /\ x \in Nat /\ r.decision \in Nat
    BY RowsHoldNumbers
  <1>4. PICK e \in DisclosureRow :
            /\ e = disclosure'
            /\ e = d \/ (/\ d.state = "absent" /\ e.madeFor = a.n /\ a.severity # "none"
                         /\ e.state = IF a.severity = "high" THEN "embargoed" ELSE "none")
    <2>1. CASE d.state # "absent" \/ a.severity = "none"
      BY <1>1, <2>1 DEF InitializeDisclosure, Now
    <2>2. CASE d.state = "absent" /\ a.severity # "none"
      <3>1. PICK state \in {"embargoed", "none"} : state = IF a.severity = "high" THEN "embargoed" ELSE "none"
        OBVIOUS
      <3>2. PICK e : e = [NoDisclosure EXCEPT !.state = state, !.madeFor = a.n]
        OBVIOUS
      <3>3. e = disclosure'
        BY <1>1, <2>2, <3>1, <3>2 DEF InitializeDisclosure, Now
      <3>4. e = [state |-> state, madeFor |-> a.n, acknowledged |-> FALSE, forced |-> FALSE,
                 token |-> "none", ghsa |-> "none", cve |-> FALSE, advised |-> FALSE]
        BY <3>2 DEF NoDisclosure
      <3>5. e \in DisclosureRow /\ e.state = state /\ e.madeFor = a.n
        BY <3>1, <3>4 DEF DisclosureRow, AttemptState, Embargo
      <3> QED BY <2>2, <3>1, <3>3, <3>5
    <2> QED BY <2>1, <2>2
  <1>5. PICK s \in ReviewRow, b \in AttemptState :
            /\ s = review' /\ b = attempt' /\ s.decision = r.decision /\ s.comment = r.comment
            /\ b.at \in {"comment", "idle"} /\ b.n = a.n /\ b.severity = a.severity
    <2>1. CASE AttemptGoes("comment") /\ UNCHANGED review
      <3>1. PICK b \in AttemptState : b = [a EXCEPT !.at = "comment"]
        BY DEF AttemptState
      <3>2. b.at = "comment" /\ b.n = a.n /\ b.severity = a.severity
        BY <3>1 DEF AttemptState
      <3> QED BY <1>1, <2>1, <3>1, <3>2 DEF AttemptGoes, Now
    <2>2. CASE FinishAttempt
      <3>1. PICK b \in AttemptState : b = [a EXCEPT !.at = "idle"]
        BY DEF AttemptState
      <3>2. b.at = "idle" /\ b.n = a.n /\ b.severity = a.severity
        BY <3>1 DEF AttemptState
      <3>3. PICK s \in ReviewRow : s = [r EXCEPT !.done = TRUE]
        BY DEF ReviewRow
      <3>4. s.decision = r.decision /\ s.comment = r.comment
        BY <3>3 DEF ReviewRow
      <3> QED BY <1>1, <2>2, <3>1, <3>2, <3>3, <3>4 DEF FinishAttempt, Now
    <2> QED BY <2>1, <2>2 DEF InitializeDisclosure
  <1>6. AttemptFits(f, e, s, b, x)
    BY <1>1, <1>2, <1>3, <1>4, <1>5 DEF AttemptFits, Entering, Commented
  <1>7. SweepFits(f, d, s, b, k, x)
    BY <1>1, <1>2, <1>3, <1>5, SweepStays DEF Commented
  <1>8. SweepFits(f, e, s, b, k, x)
    BY <1>4, <1>7 DEF SweepFits, Quiet
  <1> QED BY <1>2, <1>4, <1>5, <1>6, <1>8, LifecycleComes

\* The attempt goes on, or ends, and changes nothing but its comment.
LEMMA AttemptOnKeeps ==
  ASSUME LifecycleInv, finding' = finding, disclosure' = disclosure, tick' = tick, receipts' = receipts,
         erased' = erased, NEW s \in ReviewRow, NEW b \in AttemptState, s = review', b = attempt',
         s.decision = review.decision, b.n = attempt.n, b.severity = attempt.severity,
         \/ /\ s.comment = review.comment
            /\ b.at = "idle" \/ (attempt.at = "comment" /\ b.at = "setComment")
         \/ s.comment = attempt.n /\ attempt.at = "setComment" /\ b.at = "patch"
  PROVE  LifecycleInv'
  <1>1. PICK f \in FindingRow, d \in DisclosureRow, r \in ReviewRow, a \in AttemptState,
             k \in [Ticks -> TickState], x \in 0 .. MaxAttempts :
                 Now(f, d, r, a, k, x) /\ AttemptFits(f, d, r, a, x) /\ SweepFits(f, d, r, a, k, x)
    BY LifecycleKnown
  <1>2. f = finding' /\ d = disclosure' /\ k = tick' /\ x = erased' /\ receipts' \subseteq Marks
    BY <1>1 DEF Now, LifecycleInv, LifecycleTyped
  <1>3. /\ f.id \in Nat /\ d.madeFor \in Nat /\ a.n \in Nat /\ r.comment \in Nat /\ r.decision \in Nat
        /\ x \in Nat /\ \A t \in Ticks : k[t].on \in Nat
    BY RowsHoldNumbers
  <1>4. /\ s.decision = r.decision /\ b.n = a.n /\ b.severity = a.severity
        /\ \/ /\ s.comment = r.comment
              /\ b.at = "idle" \/ (a.at = "comment" /\ b.at = "setComment")
           \/ s.comment = a.n /\ a.at = "setComment" /\ b.at = "patch"
    BY <1>1 DEF Now
  <1>5. AttemptFits(f, d, s, b, x)
    BY <1>1, <1>3, <1>4 DEF AttemptFits, Entering, Commented
  <1>6. CASE s.comment = r.comment
    <2>1. SweepFits(f, d, s, b, k, x)
      BY <1>1, <1>3, <1>4, <1>6, SweepStays DEF Commented, AttemptFits, Entering
    <2> QED BY <1>2, <1>5, <2>1, LifecycleComes
  <1>7. CASE s.comment = a.n /\ a.at = "setComment" /\ b.at = "patch"
    <2>1. r.comment = 0 /\ a.n # 0
      BY <1>1, <1>3, <1>7 DEF AttemptFits, Entering
    <2>2. \A t \in Ticks : TickFits(s, b, k[t])
      BY <1>1, <1>4, <1>7, <2>1 DEF SweepFits, TickFits
    <2>3. SweepFits(f, d, s, b, k, x)
      BY <1>1, <1>4, <1>7, <2>1, <2>2 DEF SweepFits, Commented
    <2> QED BY <1>2, <1>5, <2>3, LifecycleComes
  <1> QED BY <1>4, <1>6, <1>7

LEMMA CommentsKeep ==
  ASSUME LifecycleInv, PostComment \/ SetReviewComment \/ AttemptDies PROVE LifecycleInv'
  <1>1. review \in ReviewRow /\ attempt \in AttemptState
    BY DEF LifecycleInv, LifecycleTyped
  <1>2. CASE PostComment
    <2>1. PICK b \in AttemptState : b = [attempt EXCEPT !.at = "setComment"]
      BY <1>1 DEF AttemptState
    <2>2. b.at = "setComment" /\ b.n = attempt.n /\ b.severity = attempt.severity
      BY <1>1, <2>1 DEF AttemptState
    <2>3. /\ b = attempt' /\ attempt.at = "comment"
          /\ UNCHANGED <<finding, disclosure, review, tick, receipts, erased>>
      BY <1>2, <2>1 DEF PostComment, AttemptAt, AttemptGoes
    <2> QED BY <1>1, <2>2, <2>3, AttemptOnKeeps
  <1>3. CASE SetReviewComment
    <2>1. PICK b \in AttemptState : b = [attempt EXCEPT !.at = "patch"]
      BY <1>1 DEF AttemptState
    <2>2. PICK s \in ReviewRow : s = [review EXCEPT !.comment = attempt.n]
      BY <1>1 DEF AttemptState, ReviewRow
    <2>3. b.at = "patch" /\ b.n = attempt.n /\ b.severity = attempt.severity
          /\ s.comment = attempt.n /\ s.decision = review.decision
      BY <1>1, <2>1, <2>2 DEF AttemptState, ReviewRow
    <2>4. s = review' /\ b = attempt' /\ attempt.at = "setComment"
          /\ UNCHANGED <<finding, disclosure, tick, receipts, erased>>
      BY <1>3, <2>1, <2>2 DEF SetReviewComment, AttemptAt, AttemptGoes
    <2> QED BY <2>3, <2>4, AttemptOnKeeps
  <1>4. CASE AttemptDies
    <2>1. PICK b \in AttemptState : b = [attempt EXCEPT !.at = "idle"]
      BY <1>1 DEF AttemptState
    <2>2. b.at = "idle" /\ b.n = attempt.n /\ b.severity = attempt.severity
      BY <1>1, <2>1 DEF AttemptState
    <2>3. b = attempt' /\ UNCHANGED <<finding, disclosure, review, tick, receipts, erased>>
      BY <1>4, <2>1 DEF AttemptDies, AttemptGoes
    <2> QED BY <1>1, <2>2, <2>3, AttemptOnKeeps
  <1> QED BY <1>2, <1>3, <1>4

LEMMA RecordPatchKeeps == LifecycleInv /\ RecordPatch => LifecycleInv'
  <1> SUFFICES ASSUME LifecycleInv, RecordPatch PROVE LifecycleInv'
    OBVIOUS
  <1>1. PICK f \in FindingRow, d \in DisclosureRow, r \in ReviewRow, a \in AttemptState,
             k \in [Ticks -> TickState], x \in 0 .. MaxAttempts :
                 Now(f, d, r, a, k, x) /\ AttemptFits(f, d, r, a, x) /\ SweepFits(f, d, r, a, k, x)
    BY LifecycleKnown
  <1>2. a.at = "patch" /\ d = disclosure' /\ k = tick' /\ x = erased' /\ receipts' \subseteq Marks
    BY <1>1 DEF RecordPatch, AttemptAt, Now, LifecycleInv, LifecycleTyped
  <1>3. PICK s \in ReviewRow, b \in AttemptState : s = [r EXCEPT !.done = TRUE] /\ b = [a EXCEPT !.at = "idle"]
    BY DEF ReviewRow, AttemptState
  <1>4. s = review' /\ b = attempt' /\ s.decision = r.decision /\ s.comment = r.comment
        /\ b.at = "idle" /\ b.n = a.n /\ b.severity = a.severity
    <2>1. s = review' /\ b = attempt'
      BY <1>1, <1>3 DEF RecordPatch, FinishAttempt, Now
    <2> QED BY <1>3, <2>1 DEF ReviewRow, AttemptState
  <1>5. PICK g \in FindingRow :
            /\ g = finding' /\ g.id = f.id /\ g.severity = f.severity /\ g.marks = f.marks
            /\ g.retracted = f.retracted /\ g.closedOn = f.closedOn
    <2>1. CASE finding' = finding
      BY <1>1, <2>1 DEF Now
    <2>2. CASE finding' = [finding EXCEPT !.patch = TRUE]
      <3>1. PICK g \in FindingRow : g = [f EXCEPT !.patch = TRUE]
        BY DEF FindingRow
      <3>2. /\ g.id = f.id /\ g.severity = f.severity /\ g.marks = f.marks
            /\ g.retracted = f.retracted /\ g.closedOn = f.closedOn
        BY <3>1 DEF FindingRow
      <3> QED BY <1>1, <2>2, <3>1, <3>2 DEF Now
    <2> QED BY <2>1, <2>2 DEF RecordPatch
  <1>6. /\ f.id \in Nat /\ d.madeFor \in Nat /\ a.n \in Nat /\ r.comment \in Nat /\ r.decision \in Nat
        /\ x \in Nat
    BY RowsHoldNumbers
  <1>7. AttemptFits(g, d, s, b, x)
    BY <1>1, <1>2, <1>4, <1>5, <1>6 DEF AttemptFits, Entering, Commented
  <1>8. SweepFits(f, d, s, b, k, x)
    BY <1>1, <1>2, <1>4, <1>6, SweepStays DEF Commented
  <1>9. SweepFits(g, d, s, b, k, x)
    BY <1>5, <1>8 DEF SweepFits, Leftover
  <1> QED BY <1>2, <1>4, <1>5, <1>7, <1>9, LifecycleComes

LEMMA RetractKeeps == LifecycleInv /\ Retract => LifecycleInv'
  <1> SUFFICES ASSUME LifecycleInv, Retract PROVE LifecycleInv'
    OBVIOUS
  <1>1. PICK f \in FindingRow, d \in DisclosureRow, r \in ReviewRow, a \in AttemptState,
             k \in [Ticks -> TickState], x \in 0 .. MaxAttempts :
                 Now(f, d, r, a, k, x) /\ AttemptFits(f, d, r, a, x) /\ SweepFits(f, d, r, a, k, x)
    BY LifecycleKnown
  <1>2. d = disclosure' /\ r = review' /\ a = attempt' /\ k = tick' /\ x = erased' /\ receipts' \subseteq Marks
    BY <1>1 DEF Retract, Now, LifecycleInv, LifecycleTyped
  <1>3. PICK g \in FindingRow : g = [f EXCEPT !.retracted = TRUE]
    BY DEF FindingRow
  <1>4. /\ g = finding' /\ g.id = f.id /\ g.severity = f.severity /\ g.marks = f.marks
        /\ g.retracted = TRUE /\ g.closedOn = f.closedOn /\ g.patch = f.patch
    <2>1. g = finding'
      BY <1>1, <1>3 DEF Retract, Now
    <2> QED BY <1>3, <2>1 DEF FindingRow
  <1>5. f.id # 0
    BY <1>1 DEF Retract, Now
  <1>6. AttemptFits(g, d, r, a, x) /\ SweepFits(g, d, r, a, k, x)
    BY <1>1, <1>4, <1>5 DEF AttemptFits, SweepFits, Leftover
  <1> QED BY <1>2, <1>4, <1>6, LifecycleComes

-----------------------------------------------------------------------------
(* The sweep.                                                              *)

\* A tick reads what is there, posts, or dies.
LEMMA SweepTickKeeps ==
  ASSUME LifecycleInv, UNCHANGED <<finding, disclosure, review, attempt, erased>>, NEW t \in Ticks,
         NEW c \in TickState, tick' = [tick EXCEPT ![t] = c], receipts' \subseteq Marks,
         \/ c.at = "idle"
         \/ tick[t].at # "idle" /\ c.on = tick[t].on /\ c.mark = tick[t].mark
         \/ /\ tick[t].at = "idle" /\ c.on = review.decision /\ (Quiet(disclosure) => review.comment # 0)
            /\ \/ c.mark = "closed" /\ c.on # 0 /\ "closed" \notin finding.marks
               \/ c.mark # "closed" /\ review.comment # 0
  PROVE  LifecycleInv'
  <1>1. PICK f \in FindingRow, d \in DisclosureRow, r \in ReviewRow, a \in AttemptState,
             k \in [Ticks -> TickState], x \in 0 .. MaxAttempts :
                 Now(f, d, r, a, k, x) /\ AttemptFits(f, d, r, a, x) /\ SweepFits(f, d, r, a, k, x)
    BY LifecycleKnown
  <1>2. PICK l \in [Ticks -> TickState] : l = [k EXCEPT ![t] = c]
    OBVIOUS
  <1>3. l[t] = c /\ \A u \in Ticks : u # t => l[u] = k[u]
    BY <1>2
  <1>4. f = finding' /\ d = disclosure' /\ r = review' /\ a = attempt' /\ l = tick' /\ x = erased'
    BY <1>1, <1>2 DEF Now
  <1>5. /\ a.n \in Nat /\ r.decision \in Nat /\ r.comment \in Nat /\ x \in Nat
        /\ \A u \in Ticks : k[u].on \in Nat
    BY RowsHoldNumbers
  <1>6. CASE c.at = "idle" \/ (k[t].at # "idle" /\ c.on = k[t].on /\ c.mark = k[t].mark)
    <2>1. ASSUME NEW u \in Ticks, l[u].at # "idle"
          PROVE  k[u].at # "idle" /\ l[u].on = k[u].on /\ l[u].mark = k[u].mark
      BY <1>3, <1>6, <2>1
    <2>2. \A u \in Ticks : TickFits(r, a, l[u])
      BY <1>1, <2>1 DEF SweepFits, TickFits
    <2>3. Leftover(f, k, x) => Leftover(f, l, x)
      BY <2>1 DEF Leftover
    <2>4. SweepFits(f, d, r, a, l, x)
      BY <1>1, <2>1, <2>2, <2>3 DEF SweepFits
    <2> QED BY <1>1, <1>4, <2>4, LifecycleComes
  <1>7. CASE /\ c.on = r.decision /\ (Quiet(d) => r.comment # 0)
             /\ \/ c.mark = "closed" /\ c.on # 0 /\ "closed" \notin f.marks
                \/ c.mark # "closed" /\ r.comment # 0
    <2>1. TickFits(r, a, c)
      BY <1>1, <1>5, <1>7 DEF AttemptFits, TickFits, Entering
    <2>2. \A u \in Ticks : TickFits(r, a, l[u])
      BY <1>1, <1>3, <2>1 DEF SweepFits
    <2>3. Leftover(f, k, x) => Leftover(f, l, x)
      BY <1>3, <1>7 DEF Leftover
    <2>4. SweepFits(f, d, r, a, l, x)
      BY <1>1, <1>3, <1>7, <2>2, <2>3 DEF SweepFits
    <2> QED BY <1>1, <1>4, <2>4, LifecycleComes
  <1> QED BY <1>1, <1>6, <1>7 DEF Now

LEMMA LoadClosureKeeps ==
  ASSUME LifecycleInv, NEW t \in Ticks, LoadClosure(t) PROVE LifecycleInv'
  <1> DEFINE public == review.comment # 0 /\ Shown
  <1>1. tick' = [tick EXCEPT ![t] = [at |-> IF public THEN "post" ELSE "mark", mark |-> "closed",
                                     on |-> review.decision, public |-> public]]
    BY DEF LoadClosure
  <1>2. public \in BOOLEAN
    OBVIOUS
  <1>3. PICK b \in BOOLEAN : b = public
    BY <1>2
  <1>4. PICK at \in {"post", "mark"} : at = IF public THEN "post" ELSE "mark"
    OBVIOUS
  <1> HIDE DEF public
  <1>5. review.decision \in 0 .. MaxAttempts
    BY DEF LifecycleInv, LifecycleTyped, ReviewRow
  <1>6. PICK c \in TickState : c = [at |-> at, mark |-> "closed", on |-> review.decision, public |-> b]
    BY <1>5 DEF TickState, Marks
  <1>7. /\ tick' = [tick EXCEPT ![t] = c] /\ c.on = review.decision /\ c.mark = "closed"
        /\ tick[t].at = "idle" /\ review.decision # 0 /\ "closed" \notin finding.marks
    BY <1>1, <1>3, <1>4, <1>6 DEF LoadClosure
  <1>8. Quiet(disclosure) => review.comment # 0
    BY DEF LoadClosure, Sweepable, Quiet, Embargo
  <1>9. UNCHANGED <<finding, disclosure, review, attempt, receipts, erased>>
    BY DEF LoadClosure
  <1>10. receipts' \subseteq Marks
    BY <1>9 DEF LifecycleInv, LifecycleTyped
  <1> QED BY <1>7, <1>8, <1>9, <1>10, SweepTickKeeps

LEMMA LoadAcceptanceKeeps ==
  ASSUME LifecycleInv, NEW t \in Ticks, NEW mark \in {"accepted", "clicked"}, LoadAcceptance(t, mark)
  PROVE  LifecycleInv'
  <1>1. review.decision \in 0 .. MaxAttempts
    BY DEF LifecycleInv, LifecycleTyped, ReviewRow
  <1>2. PICK c \in TickState : c = [at |-> "post", mark |-> mark, on |-> review.decision, public |-> TRUE]
    BY <1>1 DEF TickState, Marks
  <1>3. /\ tick' = [tick EXCEPT ![t] = c] /\ c.on = review.decision /\ finding.patch
        /\ tick[t].at = "idle" /\ c.mark # "closed"
        /\ UNCHANGED <<finding, disclosure, review, attempt, receipts, erased>>
    BY <1>2 DEF LoadAcceptance
  <1>4. review.comment # 0
    BY <1>3 DEF LifecycleInv, AttemptFits
  <1>5. receipts' \subseteq Marks
    BY <1>3 DEF LifecycleInv, LifecycleTyped
  <1> QED BY <1>3, <1>4, <1>5, SweepTickKeeps

LEMMA PostReceiptKeeps ==
  ASSUME LifecycleInv, NEW t \in Ticks, PostReceipt(t) PROVE LifecycleInv'
  <1>1. tick[t] \in TickState /\ receipts \subseteq Marks
    BY DEF LifecycleInv, LifecycleTyped
  <1>2. PICK c \in TickState : c = [tick[t] EXCEPT !.at = "mark"]
    BY <1>1 DEF TickState, PostReceipt
  <1>3. c.on = tick[t].on /\ c.mark = tick[t].mark
    BY <1>1, <1>2 DEF TickState
  <1>4. /\ tick[t].at = "post" /\ receipts' = receipts \cup {tick[t].mark}
        /\ tick' = [tick EXCEPT ![t] = c] /\ UNCHANGED <<finding, disclosure, review, attempt, erased>>
    BY <1>2 DEF PostReceipt
  <1>5. receipts' \subseteq Marks
    BY <1>1, <1>4 DEF TickState
  <1> QED BY <1>3, <1>4, <1>5, SweepTickKeeps

LEMMA TickDiesKeeps ==
  ASSUME LifecycleInv, NEW t \in Ticks, TickDies(t) PROVE LifecycleInv'
  <1>1. PICK c \in TickState : c = NoTick
    <2>1. NoTick \in TickState
      BY LifecycleAssumption DEF TickState, NoTick
    <2> QED BY <2>1
  <1>2. c.at = "idle" /\ tick' = [tick EXCEPT ![t] = c]
        /\ UNCHANGED <<finding, disclosure, review, attempt, receipts, erased>>
    BY <1>1 DEF TickDies, NoTick
  <1>3. receipts' \subseteq Marks
    BY <1>2 DEF LifecycleInv, LifecycleTyped
  <1> QED BY <1>2, <1>3, SweepTickKeeps

LEMMA MarkFindingKeeps ==
  ASSUME LifecycleInv, NEW t \in Ticks, MarkFinding(t) PROVE LifecycleInv'
  <1>1. PICK f \in FindingRow, d \in DisclosureRow, r \in ReviewRow, a \in AttemptState,
             k \in [Ticks -> TickState], x \in 0 .. MaxAttempts :
                 Now(f, d, r, a, k, x) /\ AttemptFits(f, d, r, a, x) /\ SweepFits(f, d, r, a, k, x)
    BY LifecycleKnown
  <1>2. /\ k[t].at = "mark" /\ d = disclosure' /\ r = review' /\ a = attempt' /\ x = erased'
        /\ receipts' \subseteq Marks
    BY <1>1 DEF MarkFinding, Now, LifecycleInv, LifecycleTyped
  <1>3. PICK c \in TickState : c = NoTick
    <2>1. NoTick \in TickState
      BY LifecycleAssumption DEF TickState, NoTick
    <2> QED BY <2>1
  <1>4. PICK l \in [Ticks -> TickState] : l = [k EXCEPT ![t] = c]
    OBVIOUS
  <1>5. l = tick' /\ l[t].at = "idle" /\ \A u \in Ticks : u # t => l[u] = k[u]
    BY <1>1, <1>3, <1>4 DEF MarkFinding, Now, NoTick
  <1>6. /\ k[t].mark \in Marks /\ k[t].on \in 0 .. MaxAttempts
        /\ x \in Nat /\ r.decision \in Nat /\ r.comment \in Nat /\ \A u \in Ticks : k[u].on \in Nat
    <2>1. k[t] \in TickState
      OBVIOUS
    <2> QED BY <1>2, <2>1, RowsHoldNumbers DEF TickState
  <1>7. /\ \A u \in Ticks : TickFits(r, a, l[u])
        /\ \A u \in Ticks : l[u].at # "idle" => k[u].at # "idle" /\ l[u] = k[u]
        /\ Leftover(f, k, x) => Leftover(f, l, x)
    <2>1. TickFits(r, a, l[t])
      BY <1>5 DEF TickFits
    <2>2. \A u \in Ticks : l[u].at # "idle" => k[u].at # "idle" /\ l[u] = k[u]
      BY <1>5
    <2> QED BY <1>1, <1>5, <2>1, <2>2 DEF SweepFits, Leftover
  <1>8. CASE f.id = 0
    <2>1. f = finding'
      BY <1>1, <1>8 DEF MarkFinding, Now
    <2>2. SweepFits(f, d, r, a, l, x)
      BY <1>1, <1>7 DEF SweepFits
    <2> QED BY <1>1, <1>2, <1>5, <2>1, <2>2, LifecycleComes
  <1>9. CASE f.id # 0
    <2>1. PICK g \in FindingRow :
              g = [f EXCEPT !.marks = f.marks \cup {k[t].mark},
                            !.closedOn = IF k[t].mark = "closed" THEN k[t].on ELSE f.closedOn]
      BY <1>6 DEF FindingRow
    <2>2. g = finding'
      BY <1>1, <1>9, <2>1 DEF MarkFinding, Now
    <2>3. /\ g.id = f.id /\ g.severity = f.severity /\ g.patch = f.patch /\ g.retracted = f.retracted
          /\ g.marks = f.marks \cup {k[t].mark}
          /\ g.closedOn = IF k[t].mark = "closed" THEN k[t].on ELSE f.closedOn
      BY <2>1 DEF FindingRow
    <2>4. AttemptFits(g, d, r, a, x)
      BY <1>1, <1>9, <2>3 DEF AttemptFits
    <2>5. TickFits(r, a, k[t])
      BY <1>1 DEF SweepFits
    <2>6. "closed" \in g.marks => g.closedOn # 0
      BY <1>1, <1>2, <2>3, <2>5 DEF SweepFits, TickFits
    <2>7. Leftover(f, k, x) => Leftover(g, l, x)
      BY <1>2, <1>7, <2>3 DEF Leftover
    <2>8. ASSUME Quiet(d)
          PROVE  "closed" \in g.marks => g.closedOn < x \/ g.closedOn = r.decision
      BY <1>1, <1>2, <2>3, <2>8 DEF SweepFits
    <2>9. ASSUME Quiet(d), r.comment = 0
          PROVE  "closed" \in g.marks /\ g.closedOn < x
      BY <1>1, <1>2, <2>3, <2>5, <2>9 DEF SweepFits, TickFits
    <2>10. SweepFits(g, d, r, a, l, x)
      BY <1>1, <1>7, <2>3, <2>6, <2>7, <2>8, <2>9 DEF SweepFits
    <2> QED BY <1>2, <1>5, <2>2, <2>4, <2>10, LifecycleComes
  <1> QED BY <1>8, <1>9

LEMMA LifecycleGoes == LifecycleInv /\ LifecycleNext => LifecycleInv'
  <1> SUFFICES ASSUME LifecycleInv, LifecycleNext PROVE LifecycleInv'
    OBVIOUS
  <1>1. CASE StartAttempt
    BY <1>1, StartAttemptKeeps
  <1>2. CASE \E severity \in {"none", "low", "high"} : Decide(severity)
    BY <1>2, DecideKeeps
  <1>3. CASE RecordFinding
    BY <1>3, RecordFindingKeeps
  <1>4. CASE InitializeDisclosure
    BY <1>4, InitializeKeeps
  <1>5. CASE PostComment \/ SetReviewComment \/ AttemptDies
    BY <1>5, CommentsKeep
  <1>6. CASE RecordPatch
    BY <1>6, RecordPatchKeeps
  <1>7. CASE Retract
    BY <1>7, RetractKeeps
  <1>8. ASSUME NEW t \in Ticks,
               \/ LoadClosure(t) \/ PostReceipt(t) \/ MarkFinding(t) \/ TickDies(t)
               \/ \E mark \in {"accepted", "clicked"} : LoadAcceptance(t, mark)
        PROVE  LifecycleInv'
    <2>1. CASE LoadClosure(t)
      BY <2>1, LoadClosureKeeps
    <2>2. CASE PostReceipt(t)
      BY <2>2, PostReceiptKeeps
    <2>3. CASE MarkFinding(t)
      BY <2>3, MarkFindingKeeps
    <2>4. CASE TickDies(t)
      BY <2>4, TickDiesKeeps
    <2>5. CASE \E mark \in {"accepted", "clicked"} : LoadAcceptance(t, mark)
      BY <2>5, LoadAcceptanceKeeps
    <2> QED BY <1>8, <2>1, <2>2, <2>3, <2>4, <2>5
  <1> QED BY <1>1, <1>2, <1>3, <1>4, <1>5, <1>6, <1>7, <1>8 DEF LifecycleNext

-----------------------------------------------------------------------------
(* The publication of the advisory.                                        *)

\* The row enters an embargo once, moves on within it, and stays published.
RowMoves(d, e) ==
    /\ e.madeFor = d.madeFor
    /\ e.state = d.state \/ (~ Quiet(d) /\ ~ Quiet(e) /\ d.state # "published")

\* What a call knows: who is between the reservation and its release holds it,
\* a draft is posted when there is none, an advisory that is named is there.
CallFits(p, c, d, v) ==
    /\ Quiet(d) => c.at = "idle"
    /\ c.at \in Holding => d.token = p
    /\ c.ghsa # "none" => v[c.ghsa] # "absent"
    /\ c.at \in {"record", "cve", "complete", "transition", "publish", "confirm"} => c.ghsa # "none"
    /\ c.at = "draft" => \A a \in Advisories : v[a] = "absent"
    /\ c.at \in {"publish", "confirm"} \/ c.state = "published" => d.state = "published"
    /\ c.at = "confirm" => v[c.ghsa] = "published"

\* The embargo e was kept for a finding with the marks m.
Elapsed(d, e, m) == e.over \/ (d.acknowledged /\ m \cap {"accepted", "closed"} # {} /\ e.grace)

EmbargoFits(d, e, m) ==
    /\ d.forced => d.state = "published"
    /\ d.state \in {"embargo-expired", "published"} /\ ~ d.forced => Elapsed(d, e, m)

AdvisoryFits(d, v, e, m) ==
    /\ \A a, b \in Advisories : v[a] # "absent" /\ v[b] # "absent" => a = b
    /\ d.ghsa # "none" => v[d.ghsa] # "absent"
    /\ \A a \in Advisories : v[a] = "published" => d.state = "published"
    /\ d.advised => \E a \in Advisories : v[a] = "published"
    /\ EmbargoFits(d, e, m)

CallsFit == \A p \in Publishers : CallFits(p, publisher[p], disclosure, advisory)

\* What holds while no row under disclosure was deleted, and what holds after.
WholeInv ==
    /\ LifecycleInv /\ CallsTyped /\ CallsFit
    /\ AdvisoryFits(disclosure, advisory, embargo, finding.marks)
DisclosureInv ==
    /\ LifecycleInv /\ CallsTyped /\ EmbargoFits(disclosure, embargo, finding.marks)
    /\ erased = 0 => WholeInv

LEMMA DisclosureStarts == DisclosureInit => WholeInv
  <1> SUFFICES ASSUME DisclosureInit PROVE WholeInv
    OBVIOUS
  <1>1. LifecycleInv
    BY LifecycleStarts DEF DisclosureInit
  <1>2. NoCall \in PublisherCall
    BY DEF NoCall, PublisherCall
  <1>3. CallsTyped
    BY <1>2 DEF DisclosureInit, CallsTyped, NotOver
  <1>4. CallsFit
    BY DEF DisclosureInit, CallsFit, CallFits, NoCall, Holding
  <1>5. disclosure = NoDisclosure
    BY DEF DisclosureInit, LifecycleInit
  <1>6. AdvisoryFits(disclosure, advisory, embargo, finding.marks)
    BY <1>5 DEF DisclosureInit, AdvisoryFits, EmbargoFits, NoDisclosure
  <1> QED BY <1>1, <1>3, <1>4, <1>6 DEF WholeInv

\* A step of the row keeps what the lifecycle relies on.
LEMMA LifecycleStays ==
  ASSUME LifecycleInv, UNCHANGED others, disclosure' \in DisclosureRow, RowMoves(disclosure, disclosure')
  PROVE  LifecycleInv'
  <1>1. PICK f \in FindingRow, d \in DisclosureRow, r \in ReviewRow, a \in AttemptState,
             k \in [Ticks -> TickState], x \in 0 .. MaxAttempts :
                 Now(f, d, r, a, k, x) /\ AttemptFits(f, d, r, a, x) /\ SweepFits(f, d, r, a, k, x)
    BY LifecycleKnown
  <1>2. PICK e \in DisclosureRow : e = disclosure' /\ RowMoves(d, e)
    BY <1>1 DEF Now
  <1>3. f = finding' /\ r = review' /\ a = attempt' /\ k = tick' /\ x = erased' /\ receipts' \subseteq Marks
    BY <1>1 DEF others, Now, LifecycleInv, LifecycleTyped
  <1>4. AttemptFits(f, e, r, a, x)
    BY <1>1, <1>2 DEF AttemptFits, RowMoves, Quiet
  <1>5. SweepFits(f, e, r, a, k, x)
    BY <1>1, <1>2 DEF SweepFits, RowMoves, Quiet
  <1> QED BY <1>2, <1>3, <1>4, <1>5, LifecycleComes

\* The other calls do not notice a step of the row and of the advisories.
LEMMA OthersFit ==
  ASSUME NEW p, NEW c \in PublisherCall, NEW d, NEW e, NEW v, NEW w, CallFits(p, c, d, v),
         RowMoves(d, e), e.token = d.token \/ d.token # p,
         \A a \in Advisories : v[a] # "absent" => w[a] # "absent",
         \A a \in Advisories : v[a] = "published" => w[a] = "published",
         d.token = p => \A a \in Advisories : v[a] = "absent" => w[a] = "absent"
  PROVE  CallFits(p, c, e, w)
  <1>1. c.ghsa # "none" => c.ghsa \in Advisories
    BY DEF PublisherCall
  <1>2. c.at = "draft" => c.at \in Holding
    BY DEF Holding
  <1>3. c.at = "confirm" => c.ghsa \in Advisories
    BY <1>1 DEF CallFits
  <1> QED BY <1>1, <1>2, <1>3 DEF CallFits, RowMoves, Quiet

LEMMA DisclosureKnown ==
  ASSUME WholeInv
  PROVE  \E d \in DisclosureRow, v \in [Advisories -> {"absent", "draft", "published"}],
            e \in [over : BOOLEAN, grace : BOOLEAN], m \in SUBSET Marks :
             /\ d = disclosure /\ v = advisory /\ e = embargo /\ m = finding.marks
             /\ AdvisoryFits(d, v, e, m)
             /\ \A p \in Publishers : publisher[p] \in PublisherCall /\ CallFits(p, publisher[p], d, v)
  <1>1. finding.marks \in SUBSET Marks
    BY DEF WholeInv, LifecycleInv, LifecycleTyped, FindingRow
  <1> QED BY <1>1 DEF WholeInv, LifecycleInv, CallsTyped, CallsFit

\* A step of the call p.
LEMMA CallKeeps ==
  ASSUME WholeInv, UNCHANGED <<others, embargo>>, NEW p \in Publishers, NEW c \in PublisherCall,
         publisher' = [publisher EXCEPT ![p] = c], disclosureFaults' \in Nat,
         NEW d \in DisclosureRow, d = disclosure', RowMoves(disclosure, d),
         d.token = disclosure.token \/ disclosure.token \in {p, "none", "stale"},
         NEW v \in [Advisories -> {"absent", "draft", "published"}], v = advisory',
         \A a \in Advisories : advisory[a] # "absent" => v[a] # "absent",
         \A a \in Advisories : advisory[a] = "published" => v[a] = "published",
         disclosure.token = p \/ \A a \in Advisories : advisory[a] = "absent" => v[a] = "absent",
         CallFits(p, c, d, v), AdvisoryFits(d, v, embargo, finding.marks)
  PROVE  WholeInv'
  <1>1. LifecycleInv'
    BY LifecycleStays DEF WholeInv
  <1>2. publisher \in [Publishers -> PublisherCall] /\ CallsTyped'
    BY DEF WholeInv, CallsTyped
  <1>3. ASSUME NEW q \in Publishers PROVE CallFits(q, publisher'[q], d, v)
    <2>1. CASE q = p
      BY <1>2, <2>1
    <2>2. CASE q # p
      <3>1. publisher'[q] = publisher[q] /\ publisher[q] \in PublisherCall
        BY <1>2, <2>2
      <3>2. CallFits(q, publisher[q], disclosure, advisory)
        BY DEF WholeInv, CallsFit
      <3>3. d.token = disclosure.token \/ disclosure.token # q
        BY <2>2, DisclosureAssumption
      <3>4. disclosure.token = q => \A a \in Advisories : advisory[a] = "absent" => v[a] = "absent"
        BY <2>2
      <3> QED BY <3>1, <3>2, <3>3, <3>4, OthersFit
    <2> QED BY <2>1, <2>2
  <1>4. CallsFit'
    BY <1>3 DEF CallsFit
  <1>5. embargo' = embargo /\ finding'.marks = finding.marks
    BY DEF others
  <1>6. AdvisoryFits(disclosure, advisory, embargo, finding.marks)'
    BY <1>5 DEF AdvisoryFits, EmbargoFits, Elapsed
  <1> QED BY <1>1, <1>2, <1>4, <1>6 DEF WholeInv

\* A step of the call p that leaves the row and the advisories alone.
LEMMA CallMovesOn ==
  ASSUME WholeInv, UNCHANGED <<others, disclosure, embargo, advisory>>, NEW p \in Publishers,
         NEW c \in PublisherCall, publisher' = [publisher EXCEPT ![p] = c], disclosureFaults' \in Nat,
         CallFits(p, c, disclosure, advisory)
  PROVE  WholeInv'
  <1>1. disclosure \in DisclosureRow /\ advisory \in [Advisories -> {"absent", "draft", "published"}]
    BY DEF WholeInv, LifecycleInv, CallsTyped
  <1>2. RowMoves(disclosure, disclosure) /\ AdvisoryFits(disclosure, advisory, embargo, finding.marks)
    BY DEF RowMoves, WholeInv
  <1> QED BY <1>1, <1>2, CallKeeps

LEMMA LoadDisclosureKeeps ==
  ASSUME WholeInv, NEW p \in Publishers, NEW actor \in {"system", "operator"}, LoadDisclosure(p, actor)
  PROVE  WholeInv'
  <1>1. PICK d \in DisclosureRow, v \in [Advisories -> {"absent", "draft", "published"}],
             e \in [over : BOOLEAN, grace : BOOLEAN], m \in SUBSET Marks :
             /\ d = disclosure /\ v = advisory /\ e = embargo /\ m = finding.marks
             /\ AdvisoryFits(d, v, e, m)
             /\ \A q \in Publishers : publisher[q] \in PublisherCall /\ CallFits(q, publisher[q], d, v)
    BY DisclosureKnown
  <1>2. PICK at \in {"claim", "publish", "transition"} :
             at = IF d.ghsa = "none" \/ ~ d.cve THEN "claim"
                  ELSE IF d.state = "published" THEN "publish" ELSE "transition"
    OBVIOUS
  <1>3. d.state \in Embargo \cup {"published"}
    BY <1>1 DEF LoadDisclosure, Publishable, Embargo
  <1>4. PICK c \in PublisherCall :
             c = [at |-> at, actor |-> actor, state |-> d.state, ghsa |-> d.ghsa, cve |-> d.cve]
    BY <1>3 DEF PublisherCall, DisclosureRow
  <1>5. publisher' = [publisher EXCEPT ![p] = c]
        /\ UNCHANGED <<others, disclosure, embargo, advisory, disclosureFaults>>
    BY <1>1, <1>2, <1>4 DEF LoadDisclosure
  <1>6. c.at = at /\ c.state = d.state /\ c.ghsa = d.ghsa
    BY <1>4
  <1>7. CallFits(p, c, d, v)
    BY <1>1, <1>2, <1>3, <1>6 DEF CallFits, AdvisoryFits, EmbargoFits, Quiet, Holding, Embargo
  <1>8. disclosureFaults' \in Nat
    BY <1>5 DEF WholeInv, CallsTyped
  <1> QED BY <1>1, <1>5, <1>7, <1>8, CallMovesOn

LEMMA FaultsCount ==
  ASSUME WholeInv, CallFails \/ UNCHANGED disclosureFaults PROVE disclosureFaults' \in Nat
  BY DEF WholeInv, CallsTyped, CallFails

LEMMA CallIsKnown ==
  ASSUME WholeInv, NEW p \in Publishers
  PROVE  publisher[p] \in PublisherCall /\ CallFits(p, publisher[p], disclosure, advisory)
  BY DEF WholeInv, CallsTyped, CallsFit

LEMMA CallGoesTo ==
  ASSUME WholeInv, NEW p \in Publishers,
         NEW at \in Holding \cup {"idle", "claim", "reload", "transition", "publish", "confirm"}
  PROVE  \E c \in PublisherCall :
             /\ CallGoes(p, at) => publisher' = [publisher EXCEPT ![p] = c]
             /\ c.at = at /\ c.state = publisher[p].state /\ c.ghsa = publisher[p].ghsa
             /\ c.actor = publisher[p].actor
  <1>1. publisher[p] \in PublisherCall
    BY CallIsKnown
  <1>2. PICK c \in PublisherCall : c = [publisher[p] EXCEPT !.at = at]
    BY <1>1 DEF PublisherCall
  <1>3. c.at = at /\ c.state = publisher[p].state /\ c.ghsa = publisher[p].ghsa /\ c.actor = publisher[p].actor
    BY <1>1, <1>2 DEF PublisherCall
  <1>4. CallGoes(p, at) => publisher' = [publisher EXCEPT ![p] = c]
    BY <1>2 DEF CallGoes
  <1> QED BY <1>3, <1>4

\* The call goes on to a statement that needs no more than it knows.
LEMMA CallGoesOn ==
  ASSUME WholeInv, UNCHANGED <<others, disclosure, embargo, advisory>>, NEW p \in Publishers,
         CallFails \/ UNCHANGED disclosureFaults, publisher[p].at # "idle",
         NEW at \in Holding \cup {"reload"}, CallGoes(p, at),
         at \in Holding => disclosure.token = p,
         at \in {"record", "cve", "complete"} => publisher[p].ghsa # "none",
         at = "draft" => \A a \in Advisories : advisory[a] = "absent"
  PROVE  WholeInv'
  <1>1. PICK c \in PublisherCall :
             /\ publisher' = [publisher EXCEPT ![p] = c]
             /\ c.at = at /\ c.state = publisher[p].state /\ c.ghsa = publisher[p].ghsa
    BY CallGoesTo
  <1>2. CallFits(p, c, disclosure, advisory)
    BY <1>1, CallIsKnown DEF CallFits, Holding
  <1> QED BY <1>1, <1>2, FaultsCount, CallMovesOn

LEMMA NobodyFits ==
  ASSUME NEW p, NEW d, NEW v PROVE NoCall \in PublisherCall /\ CallFits(p, NoCall, d, v)
  BY DEF NoCall, PublisherCall, CallFits, Holding

\* The call ends, whatever it had found.
LEMMA CallGivesUp ==
  ASSUME WholeInv, UNCHANGED <<others, disclosure, embargo, advisory>>, NEW p \in Publishers,
         CallFails \/ UNCHANGED disclosureFaults, CallEnds(p)
  PROVE  WholeInv'
  <1>1. publisher' = [publisher EXCEPT ![p] = NoCall]
    BY DEF CallEnds
  <1> QED BY <1>1, NobodyFits, FaultsCount, CallMovesOn

\* The call learns which advisory it publishes.
LEMMA PreparedFits ==
  ASSUME WholeInv, NEW p \in Publishers, NEW g \in Advisories, Prepared(p, g),
         publisher[p].at # "idle", advisory[g] # "absent", NEW d, RowMoves(disclosure, d)
  PROVE  \E c \in PublisherCall : publisher' = [publisher EXCEPT ![p] = c] /\ CallFits(p, c, d, advisory)
  <1>1. publisher[p] \in PublisherCall /\ CallFits(p, publisher[p], disclosure, advisory)
    BY CallIsKnown
  <1>2. PICK at \in {"publish", "transition"} :
             at = IF publisher[p].state = "published" THEN "publish" ELSE "transition"
    OBVIOUS
  <1>3. PICK c \in PublisherCall : c = [publisher[p] EXCEPT !.ghsa = g, !.at = at]
    BY <1>1 DEF PublisherCall
  <1>4. c.at = at /\ c.ghsa = g /\ c.state = publisher[p].state
    BY <1>1, <1>3 DEF PublisherCall
  <1>5. publisher' = [publisher EXCEPT ![p] = c]
    BY <1>2, <1>3 DEF Prepared
  <1>6. CallFits(p, c, d, advisory)
    BY <1>1, <1>2, <1>4, DisclosureAssumption DEF CallFits, Holding, RowMoves, Quiet
  <1> QED BY <1>5, <1>6

LEMMA ReloadKeeps ==
  ASSUME WholeInv, NEW p \in Publishers, ReloadDisclosure(p) PROVE WholeInv'
  <1>1. UNCHANGED <<others, disclosure, embargo, advisory, disclosureFaults>> /\ publisher[p].at = "reload"
    BY DEF ReloadDisclosure, CallAt
  <1>2. CASE disclosure.ghsa # "none"
    <2>1. disclosure.ghsa \in Advisories /\ advisory[disclosure.ghsa] # "absent"
      BY <1>2 DEF WholeInv, LifecycleInv, DisclosureRow, AdvisoryFits, EmbargoFits
    <2>2. Prepared(p, disclosure.ghsa) /\ RowMoves(disclosure, disclosure)
      BY <1>2 DEF ReloadDisclosure, RowMoves
    <2>3. PICK c \in PublisherCall :
               publisher' = [publisher EXCEPT ![p] = c] /\ CallFits(p, c, disclosure, advisory)
      BY <1>1, <2>1, <2>2, PreparedFits
    <2> QED BY <1>1, <2>3, FaultsCount, CallMovesOn
  <1>3. CASE disclosure.ghsa = "none"
    <2>1. CallEnds(p)
      BY <1>3 DEF ReloadDisclosure
    <2> QED BY <1>1, <2>1, CallGivesUp
  <1> QED BY <1>2, <1>3

LEMMA ClaimKeeps ==
  ASSUME WholeInv, NEW p \in Publishers, ClaimReservation(p) PROVE WholeInv'
  <1>1. UNCHANGED <<others, embargo, advisory, disclosureFaults>> /\ publisher[p].at = "claim"
    BY DEF ClaimReservation, CallAt
  <1>2. CASE Reservable /\ disclosure' = [disclosure EXCEPT !.token = p]
             /\ CallGoes(p, IF publisher[p].ghsa = "none" THEN "find" ELSE "cve")
    <2>1. PICK at \in {"find", "cve"} : at = IF publisher[p].ghsa = "none" THEN "find" ELSE "cve"
      OBVIOUS
    <2>2. PICK c \in PublisherCall :
               /\ publisher' = [publisher EXCEPT ![p] = c]
               /\ c.at = at /\ c.state = publisher[p].state /\ c.ghsa = publisher[p].ghsa
      <3>1. at \in Holding /\ CallGoes(p, at)
        BY <1>2, <2>1 DEF Holding
      <3> QED BY <3>1, CallGoesTo
    <2>3. disclosure \in DisclosureRow
      BY DEF WholeInv, LifecycleInv
    <2>4. PICK d \in DisclosureRow : d = [disclosure EXCEPT !.token = p]
      BY <2>3 DEF DisclosureRow
    <2>5. /\ d.token = p /\ d.state = disclosure.state /\ d.madeFor = disclosure.madeFor
          /\ d.ghsa = disclosure.ghsa /\ d.advised = disclosure.advised /\ d.forced = disclosure.forced
          /\ d.acknowledged = disclosure.acknowledged
      BY <2>3, <2>4 DEF DisclosureRow
    <2>6. d = disclosure' /\ RowMoves(disclosure, d) /\ disclosure.token \in {p, "none", "stale"}
      BY <1>2, <2>4, <2>5 DEF RowMoves, Reservable
    <2>7. CallFits(p, c, d, advisory)
      BY <1>1, <2>1, <2>2, <2>5, CallIsKnown DEF CallFits, Holding, Quiet
    <2>8. AdvisoryFits(d, advisory, embargo, finding.marks)
      BY <2>5 DEF WholeInv, AdvisoryFits, EmbargoFits, Elapsed
    <2>9. advisory \in [Advisories -> {"absent", "draft", "published"}] /\ advisory' = advisory
          /\ disclosureFaults' \in Nat
      BY <1>1, FaultsCount DEF WholeInv, CallsTyped
    <2> QED BY <1>1, <2>2, <2>6, <2>7, <2>8, <2>9, CallKeeps
  <1>3. CASE CallGoes(p, "reload") /\ UNCHANGED disclosure
    <2>1. "reload" \notin Holding
      BY DEF Holding
    <2> QED BY <1>1, <1>3, <2>1, CallGoesOn
  <1> QED BY <1>2, <1>3 DEF ClaimReservation

LEMMA FindDraftKeeps ==
  ASSUME WholeInv, NEW p \in Publishers, FindDraft(p) PROVE WholeInv'
  <1>1. UNCHANGED <<others, disclosure, embargo, advisory>> /\ publisher[p].at = "find"
    BY DEF FindDraft, CallAt
  <1>2. disclosure.token = p
    BY <1>1, CallIsKnown DEF CallFits, Holding
  <1>3. {"draft", "release", "record"} \subseteq Holding
    BY DEF Holding
  <1>4. CASE (\A a \in Advisories : advisory[a] = "absent") /\ CallGoes(p, "draft") /\ UNCHANGED disclosureFaults
    BY <1>1, <1>2, <1>3, <1>4, CallGoesOn
  <1>5. CASE CallFails /\ CallGoes(p, "release")
    BY <1>1, <1>2, <1>3, <1>5, CallGoesOn
  <1>6. ASSUME NEW a \in Advisories, advisory[a] # "absent", UNCHANGED disclosureFaults,
               publisher' = [publisher EXCEPT ![p].at = "record", ![p].ghsa = a]
        PROVE  WholeInv'
    <2>1. publisher[p] \in PublisherCall
      BY CallIsKnown
    <2>2. PICK c \in PublisherCall : c = [publisher[p] EXCEPT !.at = "record", !.ghsa = a]
      BY <1>3, <2>1 DEF PublisherCall
    <2>3. c.at = "record" /\ c.ghsa = a /\ c.state = publisher[p].state
      BY <2>1, <2>2 DEF PublisherCall
    <2>4. publisher' = [publisher EXCEPT ![p] = c]
      BY <1>6, <2>2
    <2>5. CallFits(p, c, disclosure, advisory)
      BY <1>1, <1>2, <1>6, <2>3, CallIsKnown, DisclosureAssumption DEF CallFits
    <2> QED BY <1>1, <1>6, <2>4, <2>5, FaultsCount, CallMovesOn
  <1> QED BY <1>4, <1>5, <1>6 DEF FindDraft

LEMMA PostDraftKeeps ==
  ASSUME WholeInv, NEW p \in Publishers, PostDraft(p) PROVE WholeInv'
  <1>1. UNCHANGED <<others, disclosure, embargo>> /\ publisher[p].at = "draft"
    BY DEF PostDraft, CallAt
  <1>2. publisher[p] \in PublisherCall /\ CallFits(p, publisher[p], disclosure, advisory)
    BY CallIsKnown
  <1>3. disclosure.token = p /\ ~ Quiet(disclosure) /\ \A b \in Advisories : advisory[b] = "absent"
    BY <1>1, <1>2 DEF CallFits, Holding
  <1>4. {"record", "release"} \subseteq Holding
    BY DEF Holding
  <1>5. CASE CallFails /\ CallGoes(p, "release") /\ UNCHANGED advisory
    BY <1>1, <1>3, <1>4, <1>5, CallGoesOn
  <1>6. ASSUME NEW a \in Advisories, advisory' = [advisory EXCEPT ![a] = "draft"],
               \/ /\ publisher' = [publisher EXCEPT ![p].at = "record", ![p].ghsa = a]
                  /\ UNCHANGED disclosureFaults
               \/ CallFails /\ CallGoes(p, "release")
        PROVE  WholeInv'
    <2>1. PICK v \in [Advisories -> {"absent", "draft", "published"}] :
               v = advisory' /\ v[a] = "draft" /\ \A b \in Advisories : b # a => v[b] = "absent"
      BY <1>3, <1>6 DEF WholeInv, CallsTyped
    <2>2. PICK c \in PublisherCall :
               /\ publisher' = [publisher EXCEPT ![p] = c] /\ c.state = publisher[p].state
               /\ (c.at = "record" /\ c.ghsa = a) \/ (c.at = "release" /\ c.ghsa = publisher[p].ghsa)
      <3>1. CASE publisher' = [publisher EXCEPT ![p].at = "record", ![p].ghsa = a]
        <4>1. PICK c \in PublisherCall : c = [publisher[p] EXCEPT !.at = "record", !.ghsa = a]
          BY <1>2, <1>4 DEF PublisherCall
        <4>2. c.at = "record" /\ c.ghsa = a /\ c.state = publisher[p].state
          BY <1>2, <4>1 DEF PublisherCall
        <4>3. publisher' = [publisher EXCEPT ![p] = c]
          BY <3>1, <4>1
        <4> QED BY <4>2, <4>3
      <3>2. CASE CallGoes(p, "release")
        <4>1. "release" \in Holding
          BY <1>4
        <4> QED BY <3>2, <4>1, CallGoesTo
      <3> QED BY <1>6, <3>1, <3>2
    <2>3. publisher[p].ghsa = "none" /\ disclosure.ghsa = "none"
      <3>1. publisher[p].ghsa \in Advisories \cup {"none"} /\ disclosure.ghsa \in Advisories \cup {"none"}
        BY <1>2 DEF PublisherCall, WholeInv, LifecycleInv, DisclosureRow
      <3>2. disclosure.ghsa # "none" => advisory[disclosure.ghsa] # "absent"
        BY DEF WholeInv, AdvisoryFits, EmbargoFits
      <3> QED BY <1>2, <1>3, <3>1, <3>2 DEF CallFits
    <2>4. CallFits(p, c, disclosure, v)
      BY <1>2, <1>3, <2>1, <2>2, <2>3, DisclosureAssumption DEF CallFits
    <2>5. AdvisoryFits(disclosure, v, embargo, finding.marks)
      <3>1. AdvisoryFits(disclosure, advisory, embargo, finding.marks)
        BY DEF WholeInv
      <3> QED BY <1>3, <2>1, <2>3, <3>1 DEF AdvisoryFits, EmbargoFits
    <2>6. disclosure \in DisclosureRow /\ RowMoves(disclosure, disclosure) /\ disclosure' = disclosure
      BY <1>1 DEF WholeInv, LifecycleInv, RowMoves
    <2>7. disclosureFaults' \in Nat
      BY <1>6, FaultsCount
    <2>8. \A b \in Advisories : /\ advisory[b] # "absent" => v[b] # "absent"
                                /\ advisory[b] = "published" => v[b] = "published"
      BY <1>3
    <2> QED BY <1>1, <1>3, <2>1, <2>2, <2>4, <2>5, <2>6, <2>7, <2>8, CallKeeps
  <1> QED BY <1>5, <1>6 DEF PostDraft

LEMMA RecordDraftKeeps ==
  ASSUME WholeInv, NEW p \in Publishers, RecordDraft(p) PROVE WholeInv'
  <1>1. UNCHANGED <<others, embargo, advisory>> /\ publisher[p].at = "record"
    BY DEF RecordDraft, CallAt
  <1>2. /\ publisher[p].ghsa \in Advisories /\ advisory[publisher[p].ghsa] # "absent"
        /\ disclosure.token = p /\ ~ Quiet(disclosure)
    BY <1>1, CallIsKnown DEF CallFits, Holding, PublisherCall
  <1>3. {"cve", "release"} \subseteq Holding
    BY DEF Holding
  <1>4. CASE CallFails /\ CallGoes(p, "release") /\ UNCHANGED disclosure
    BY <1>1, <1>2, <1>3, <1>4, CallGoesOn
  <1>5. ASSUME disclosure' = [disclosure EXCEPT !.ghsa = publisher[p].ghsa],
               NEW at \in {"cve", "release"}, CallGoes(p, at), CallFails \/ UNCHANGED disclosureFaults
        PROVE  WholeInv'
    <2>1. PICK c \in PublisherCall :
               /\ publisher' = [publisher EXCEPT ![p] = c]
               /\ c.at = at /\ c.state = publisher[p].state /\ c.ghsa = publisher[p].ghsa
      <3>1. at \in Holding
        BY <1>3
      <3> QED BY <1>5, <3>1, CallGoesTo
    <2>2. disclosure \in DisclosureRow
      BY DEF WholeInv, LifecycleInv
    <2>3. PICK d \in DisclosureRow : d = [disclosure EXCEPT !.ghsa = publisher[p].ghsa]
      BY <1>2, <2>2 DEF DisclosureRow
    <2>4. /\ d.token = p /\ d.state = disclosure.state /\ d.madeFor = disclosure.madeFor
          /\ d.ghsa = publisher[p].ghsa /\ d.advised = disclosure.advised /\ d.forced = disclosure.forced
          /\ d.acknowledged = disclosure.acknowledged
      BY <1>2, <2>2, <2>3 DEF DisclosureRow
    <2>5. d = disclosure' /\ RowMoves(disclosure, d) /\ d.token = disclosure.token
      BY <1>2, <1>5, <2>3, <2>4 DEF RowMoves
    <2>6. CallFits(p, c, d, advisory)
      BY <1>1, <1>2, <2>1, <2>4, CallIsKnown DEF CallFits, Holding, Quiet
    <2>7. AdvisoryFits(d, advisory, embargo, finding.marks)
      BY <1>2, <2>4 DEF WholeInv, AdvisoryFits, EmbargoFits, Elapsed
    <2>8. advisory \in [Advisories -> {"absent", "draft", "published"}] /\ advisory' = advisory
          /\ disclosureFaults' \in Nat
      BY <1>1, <1>5, FaultsCount DEF WholeInv, CallsTyped
    <2> QED BY <1>1, <2>1, <2>5, <2>6, <2>7, <2>8, CallKeeps
  <1> QED BY <1>2, <1>4, <1>5 DEF RecordDraft

LEMMA RequestCveKeeps ==
  ASSUME WholeInv, NEW p \in Publishers, RequestCve(p) PROVE WholeInv'
  <1>1. UNCHANGED <<others, disclosure, embargo, advisory>> /\ publisher[p].at = "cve"
    BY DEF RequestCve, CallAt
  <1>2. disclosure.token = p /\ publisher[p].ghsa # "none"
    BY <1>1, CallIsKnown DEF CallFits, Holding
  <1>3. PICK at \in {"complete", "release"} : CallGoes(p, at) /\ (CallFails \/ UNCHANGED disclosureFaults)
    BY DEF RequestCve
  <1>4. at \in Holding \cup {"reload"} /\ at # "draft"
    BY DEF Holding
  <1> QED BY <1>1, <1>2, <1>3, <1>4, CallGoesOn

LEMMA CompleteKeeps ==
  ASSUME WholeInv, NEW p \in Publishers, CompleteReservation(p) PROVE WholeInv'
  <1>1. UNCHANGED <<others, embargo, advisory, disclosureFaults>> /\ publisher[p].at = "complete"
    BY DEF CompleteReservation, CallAt
  <1>2. /\ publisher[p].ghsa \in Advisories /\ advisory[publisher[p].ghsa] # "absent"
        /\ disclosure.token = p /\ ~ Quiet(disclosure)
    BY <1>1, CallIsKnown DEF CallFits, Holding, PublisherCall
  <1>3. disclosure' = [disclosure EXCEPT !.ghsa = publisher[p].ghsa, !.cve = TRUE, !.token = "none"]
        /\ Prepared(p, publisher[p].ghsa)
    BY <1>2 DEF CompleteReservation
  <1>4. disclosure \in DisclosureRow
    BY DEF WholeInv, LifecycleInv
  <1>5. PICK d \in DisclosureRow :
             d = [disclosure EXCEPT !.ghsa = publisher[p].ghsa, !.cve = TRUE, !.token = "none"]
    BY <1>2, <1>4 DEF DisclosureRow
  <1>6. /\ d.token = "none" /\ d.state = disclosure.state /\ d.madeFor = disclosure.madeFor
        /\ d.ghsa = publisher[p].ghsa /\ d.advised = disclosure.advised /\ d.forced = disclosure.forced
        /\ d.acknowledged = disclosure.acknowledged
    BY <1>4, <1>5 DEF DisclosureRow
  <1>7. d = disclosure' /\ RowMoves(disclosure, d) /\ disclosure.token \in {p, "none", "stale"}
    BY <1>2, <1>3, <1>5, <1>6 DEF RowMoves
  <1>8. PICK c \in PublisherCall : publisher' = [publisher EXCEPT ![p] = c] /\ CallFits(p, c, d, advisory)
    BY <1>1, <1>2, <1>3, <1>7, PreparedFits
  <1>9. AdvisoryFits(d, advisory, embargo, finding.marks)
    BY <1>2, <1>6 DEF WholeInv, AdvisoryFits, EmbargoFits, Elapsed
  <1>10. advisory \in [Advisories -> {"absent", "draft", "published"}] /\ advisory' = advisory
         /\ disclosureFaults' \in Nat
    BY <1>1, FaultsCount DEF WholeInv, CallsTyped
  <1> QED BY <1>1, <1>7, <1>8, <1>9, <1>10, CallKeeps

LEMMA ReleaseKeeps ==
  ASSUME WholeInv, NEW p \in Publishers, ReleaseReservation(p) PROVE WholeInv'
  <1>1. UNCHANGED <<others, embargo, advisory, disclosureFaults>>
        /\ publisher' = [publisher EXCEPT ![p] = NoCall]
    BY DEF ReleaseReservation, CallEnds
  <1>2. disclosure \in DisclosureRow
    BY DEF WholeInv, LifecycleInv
  <1>3. PICK token \in Publishers \cup {"none", "stale"} :
             token = IF disclosure.token = p THEN "none" ELSE disclosure.token
    BY <1>2 DEF DisclosureRow
  <1>4. PICK d \in DisclosureRow : d = [disclosure EXCEPT !.token = token]
    BY <1>2 DEF DisclosureRow
  <1>5. /\ d.token = token /\ d.state = disclosure.state /\ d.madeFor = disclosure.madeFor
        /\ d.ghsa = disclosure.ghsa /\ d.advised = disclosure.advised /\ d.forced = disclosure.forced
        /\ d.acknowledged = disclosure.acknowledged
    BY <1>2, <1>4 DEF DisclosureRow
  <1>6. d = disclosure'
    BY <1>3, <1>4 DEF ReleaseReservation
  <1>7. RowMoves(disclosure, d) /\ (d.token = disclosure.token \/ disclosure.token \in {p, "none", "stale"})
    BY <1>3, <1>5 DEF RowMoves
  <1>8. AdvisoryFits(d, advisory, embargo, finding.marks)
    BY <1>5 DEF WholeInv, AdvisoryFits, EmbargoFits, Elapsed
  <1>9. advisory \in [Advisories -> {"absent", "draft", "published"}] /\ advisory' = advisory
        /\ disclosureFaults' \in Nat
    BY <1>1, FaultsCount DEF WholeInv, CallsTyped
  <1>10. NoCall \in PublisherCall /\ CallFits(p, NoCall, d, advisory)
    BY NobodyFits
  <1> QED BY <1>1, <1>6, <1>7, <1>8, <1>9, <1>10, CallKeeps

LEMMA TransitionKeeps ==
  ASSUME WholeInv, NEW p \in Publishers, TransitionToPublished(p) PROVE WholeInv'
  <1>1. UNCHANGED <<others, embargo, advisory, disclosureFaults>> /\ publisher[p].at = "transition"
    BY DEF TransitionToPublished, CallAt
  <1>2. CASE ~ AllowedMove(disclosure.state, "published", publisher[p].actor)
    <2>1. CallEnds(p) /\ UNCHANGED disclosure
      BY <1>2 DEF TransitionToPublished
    <2> QED BY <1>1, <2>1, CallGivesUp
  <1>3. CASE AllowedMove(disclosure.state, "published", publisher[p].actor)
    <2>1. PICK forced \in BOOLEAN : forced = (publisher[p].actor = "operator")
      OBVIOUS
    <2>2. disclosure' = [disclosure EXCEPT !.state = "published", !.forced = forced]
          /\ CallGoes(p, "publish")
      BY <1>3, <2>1 DEF TransitionToPublished
    <2>3. disclosure \in DisclosureRow /\ AdvisoryFits(disclosure, advisory, embargo, finding.marks)
      BY DEF WholeInv, LifecycleInv
    <2>4. PICK d \in DisclosureRow : d = [disclosure EXCEPT !.state = "published", !.forced = forced]
      BY <2>3 DEF DisclosureRow
    <2>5. /\ d.token = disclosure.token /\ d.state = "published" /\ d.madeFor = disclosure.madeFor
          /\ d.ghsa = disclosure.ghsa /\ d.advised = disclosure.advised /\ d.forced = forced
          /\ d.acknowledged = disclosure.acknowledged
      BY <2>3, <2>4 DEF DisclosureRow
    <2>6. ~ Quiet(disclosure) /\ disclosure.state # "published"
          /\ (forced \/ disclosure.state = "embargo-expired")
      BY <1>3, <2>1 DEF AllowedMove, SystemMoves, Embargo, Quiet
    <2>7. d = disclosure' /\ RowMoves(disclosure, d)
      BY <2>2, <2>4, <2>5, <2>6 DEF RowMoves, Quiet
    <2>8. PICK c \in PublisherCall :
               /\ publisher' = [publisher EXCEPT ![p] = c]
               /\ c.at = "publish" /\ c.state = publisher[p].state /\ c.ghsa = publisher[p].ghsa
      BY <2>2, CallGoesTo
    <2>9. CallFits(p, c, d, advisory)
      BY <1>1, <2>5, <2>8, CallIsKnown DEF CallFits, Holding, Quiet
    <2>10. AdvisoryFits(d, advisory, embargo, finding.marks)
      BY <2>3, <2>5, <2>6 DEF AdvisoryFits, EmbargoFits, Elapsed
    <2>11. advisory \in [Advisories -> {"absent", "draft", "published"}] /\ advisory' = advisory
           /\ disclosureFaults' \in Nat
      BY <1>1, FaultsCount DEF WholeInv, CallsTyped
    <2> QED BY <1>1, <2>5, <2>7, <2>8, <2>9, <2>10, <2>11, CallKeeps
  <1> QED BY <1>2, <1>3

LEMMA PublishKeeps ==
  ASSUME WholeInv, NEW p \in Publishers, PublishAdvisory(p) PROVE WholeInv'
  <1>1. UNCHANGED <<others, disclosure, embargo>> /\ publisher[p].at = "publish"
    BY DEF PublishAdvisory, CallAt
  <1>2. /\ publisher[p].ghsa \in Advisories /\ advisory[publisher[p].ghsa] # "absent"
        /\ ~ Quiet(disclosure) /\ disclosure.state = "published"
    BY <1>1, CallIsKnown DEF CallFits, PublisherCall
  <1>3. CASE CallEnds(p) /\ CallFails /\ UNCHANGED advisory
    BY <1>1, <1>3, CallGivesUp
  <1>4. ASSUME advisory' = [advisory EXCEPT ![publisher[p].ghsa] = "published"],
               \/ CallGoes(p, "confirm") /\ UNCHANGED disclosureFaults
               \/ CallEnds(p) /\ CallFails
        PROVE  WholeInv'
    <2>1. PICK v \in [Advisories -> {"absent", "draft", "published"}] :
               /\ v = advisory' /\ v[publisher[p].ghsa] = "published"
               /\ \A b \in Advisories : b # publisher[p].ghsa => v[b] = advisory[b]
      BY <1>2, <1>4 DEF WholeInv, CallsTyped
    <2>2. PICK c \in PublisherCall :
               publisher' = [publisher EXCEPT ![p] = c] /\ CallFits(p, c, disclosure, v)
      <3>1. CASE CallGoes(p, "confirm")
        <4>1. PICK c \in PublisherCall :
                   /\ publisher' = [publisher EXCEPT ![p] = c]
                   /\ c.at = "confirm" /\ c.state = publisher[p].state /\ c.ghsa = publisher[p].ghsa
          BY <3>1, CallGoesTo
        <4>2. CallFits(p, c, disclosure, v)
          BY <1>2, <2>1, <4>1, DisclosureAssumption DEF CallFits, Holding
        <4> QED BY <4>1, <4>2
      <3>2. CASE CallEnds(p)
        BY <3>2, NobodyFits DEF CallEnds
      <3> QED BY <1>4, <3>1, <3>2
    <2>3. \A b \in Advisories : /\ advisory[b] # "absent" => v[b] # "absent"
                                /\ advisory[b] = "published" => v[b] = "published"
                                /\ advisory[b] = "absent" => v[b] = "absent"
      BY <1>2, <2>1
    <2>4. disclosure \in DisclosureRow /\ AdvisoryFits(disclosure, advisory, embargo, finding.marks)
      BY DEF WholeInv, LifecycleInv
    <2>5. AdvisoryFits(disclosure, v, embargo, finding.marks)
      <3>1. disclosure.ghsa # "none" => disclosure.ghsa \in Advisories
        BY <2>4 DEF DisclosureRow
      <3> QED BY <1>2, <2>1, <2>3, <2>4, <3>1 DEF AdvisoryFits, EmbargoFits
    <2>6. RowMoves(disclosure, disclosure) /\ disclosure' = disclosure /\ disclosureFaults' \in Nat
      BY <1>1, <1>4, FaultsCount DEF RowMoves
    <2> QED BY <1>1, <2>1, <2>2, <2>3, <2>4, <2>5, <2>6, CallKeeps
  <1> QED BY <1>3, <1>4 DEF PublishAdvisory

LEMMA MarkAdvisedKeeps ==
  ASSUME WholeInv, NEW p \in Publishers, MarkAdvised(p) PROVE WholeInv'
  <1>1. /\ UNCHANGED <<others, embargo, advisory, disclosureFaults>> /\ publisher[p].at = "confirm"
        /\ publisher' = [publisher EXCEPT ![p] = NoCall]
    BY DEF MarkAdvised, CallAt, CallEnds
  <1>2. publisher[p].ghsa \in Advisories /\ advisory[publisher[p].ghsa] = "published"
    BY <1>1, CallIsKnown DEF CallFits, PublisherCall
  <1>3. disclosure \in DisclosureRow /\ disclosure.state # "absent"
    BY <1>1, CallIsKnown DEF WholeInv, LifecycleInv, CallFits
  <1>4. PICK d \in DisclosureRow : d = [disclosure EXCEPT !.advised = TRUE]
    BY <1>3 DEF DisclosureRow
  <1>5. /\ d.token = disclosure.token /\ d.state = disclosure.state /\ d.madeFor = disclosure.madeFor
        /\ d.ghsa = disclosure.ghsa /\ d.forced = disclosure.forced /\ d.acknowledged = disclosure.acknowledged
    BY <1>3, <1>4 DEF DisclosureRow
  <1>6. d = disclosure' /\ RowMoves(disclosure, d)
    BY <1>3, <1>4, <1>5 DEF MarkAdvised, RowMoves
  <1>7. AdvisoryFits(d, advisory, embargo, finding.marks)
    BY <1>2, <1>5 DEF WholeInv, AdvisoryFits, EmbargoFits, Elapsed
  <1>8. advisory \in [Advisories -> {"absent", "draft", "published"}] /\ advisory' = advisory
        /\ disclosureFaults' \in Nat
    BY <1>1, FaultsCount DEF WholeInv, CallsTyped
  <1>9. NoCall \in PublisherCall /\ CallFits(p, NoCall, d, advisory)
    BY NobodyFits
  <1> QED BY <1>1, <1>5, <1>6, <1>7, <1>8, <1>9, CallKeeps

LEMMA PublishesKeeps ==
  ASSUME WholeInv, NEW p \in Publishers, Publishes(p) \/ PublisherDies(p) PROVE WholeInv'
  <1>1. CASE ClaimReservation(p)
    BY <1>1, ClaimKeeps
  <1>2. CASE ReloadDisclosure(p)
    BY <1>2, ReloadKeeps
  <1>3. CASE FindDraft(p)
    BY <1>3, FindDraftKeeps
  <1>4. CASE PostDraft(p)
    BY <1>4, PostDraftKeeps
  <1>5. CASE RecordDraft(p)
    BY <1>5, RecordDraftKeeps
  <1>6. CASE RequestCve(p)
    BY <1>6, RequestCveKeeps
  <1>7. CASE CompleteReservation(p)
    BY <1>7, CompleteKeeps
  <1>8. CASE ReleaseReservation(p)
    BY <1>8, ReleaseKeeps
  <1>9. CASE TransitionToPublished(p)
    BY <1>9, TransitionKeeps
  <1>10. CASE PublishAdvisory(p)
    BY <1>10, PublishKeeps
  <1>11. CASE MarkAdvised(p)
    BY <1>11, MarkAdvisedKeeps
  <1>12. CASE PublisherDies(p)
    BY <1>12, CallGivesUp DEF PublisherDies
  <1> QED BY <1>1, <1>2, <1>3, <1>4, <1>5, <1>6, <1>7, <1>8, <1>9, <1>10, <1>11, <1>12 DEF Publishes

-----------------------------------------------------------------------------
(* Time and the cron's transitions.                                        *)

\* A step of the row that no call takes.
LEMMA RowKeeps ==
  ASSUME WholeInv, UNCHANGED <<others, advisory, publisher, disclosureFaults>>,
         NEW d \in DisclosureRow, d = disclosure', RowMoves(disclosure, d),
         NEW e \in [over : BOOLEAN, grace : BOOLEAN], e = embargo',
         \A p \in Publishers : d.token = disclosure.token \/ disclosure.token # p \/ publisher[p].at \notin Holding,
         AdvisoryFits(d, advisory, e, finding.marks)
  PROVE  WholeInv'
  <1>1. LifecycleInv'
    BY LifecycleStays DEF WholeInv
  <1>2. CallsTyped'
    BY DEF WholeInv, CallsTyped
  <1>3. ASSUME NEW p \in Publishers PROVE CallFits(p, publisher[p], d, advisory)
    BY CallIsKnown DEF CallFits, RowMoves, Quiet
  <1>4. CallsFit'
    BY <1>3 DEF CallsFit
  <1>5. finding'.marks = finding.marks
    BY DEF others
  <1>6. AdvisoryFits(disclosure, advisory, embargo, finding.marks)'
    BY <1>5 DEF AdvisoryFits, EmbargoFits, Elapsed
  <1> QED BY <1>1, <1>2, <1>4, <1>6 DEF WholeInv

LEMMA RowIsKnown ==
  ASSUME WholeInv
  PROVE  /\ disclosure \in DisclosureRow /\ embargo \in [over : BOOLEAN, grace : BOOLEAN]
         /\ AdvisoryFits(disclosure, advisory, embargo, finding.marks)
  BY DEF WholeInv, LifecycleInv, CallsTyped

LEMMA TimePassesKeeps == WholeInv /\ TimePasses => WholeInv'
  <1> SUFFICES ASSUME WholeInv, TimePasses PROVE WholeInv'
    OBVIOUS
  <1>1. UNCHANGED <<others, disclosure, advisory, publisher, disclosureFaults>>
    BY DEF TimePasses
  <1>2. PICK e \in [over : BOOLEAN, grace : BOOLEAN] :
             e = embargo' /\ (embargo.over => e.over) /\ (embargo.grace => e.grace)
    <2>1. embargo \in [over : BOOLEAN, grace : BOOLEAN]
      BY RowIsKnown
    <2>2. PICK e, g \in [over : BOOLEAN, grace : BOOLEAN] :
               e = [embargo EXCEPT !.over = TRUE] /\ g = [embargo EXCEPT !.grace = TRUE]
      BY <2>1
    <2>3. (embargo.grace => e.grace) /\ e.over /\ (embargo.over => g.over) /\ g.grace
      BY <2>1, <2>2
    <2>4. embargo' = e \/ embargo' = g
      BY <2>2 DEF TimePasses
    <2> QED BY <2>3, <2>4
  <1>3. AdvisoryFits(disclosure, advisory, e, finding.marks)
    BY <1>2, RowIsKnown DEF AdvisoryFits, EmbargoFits, Elapsed
  <1>4. RowMoves(disclosure, disclosure)
    BY DEF RowMoves
  <1> QED BY <1>1, <1>2, <1>3, <1>4, RowIsKnown, RowKeeps

LEMMA AcknowledgeKeeps == WholeInv /\ Acknowledge => WholeInv'
  <1> SUFFICES ASSUME WholeInv, Acknowledge PROVE WholeInv'
    OBVIOUS
  <1>1. UNCHANGED <<others, embargo, advisory, publisher, disclosureFaults>>
        /\ disclosure.state \in {"embargoed", "maintainer-acknowledged", "patch-merged"}
    BY DEF Acknowledge
  <1>2. PICK state \in {"maintainer-acknowledged", "patch-merged"} :
             state = IF disclosure.state = "embargoed" THEN "maintainer-acknowledged" ELSE disclosure.state
    BY <1>1
  <1>3. PICK d \in DisclosureRow : d = [disclosure EXCEPT !.acknowledged = TRUE, !.state = state]
    BY RowIsKnown DEF DisclosureRow, Embargo
  <1>4. /\ d.token = disclosure.token /\ d.state = state /\ d.madeFor = disclosure.madeFor
        /\ d.ghsa = disclosure.ghsa /\ d.forced = disclosure.forced /\ d.advised = disclosure.advised
        /\ d.acknowledged = TRUE
    BY <1>3, RowIsKnown DEF DisclosureRow
  <1>5. d = disclosure' /\ RowMoves(disclosure, d)
    BY <1>1, <1>2, <1>3, <1>4 DEF Acknowledge, RowMoves, Quiet
  <1>6. AdvisoryFits(d, advisory, embargo, finding.marks)
    BY <1>1, <1>4, RowIsKnown DEF AdvisoryFits, EmbargoFits
  <1> QED BY <1>1, <1>4, <1>5, <1>6, RowIsKnown, RowKeeps

\* The two moves of the daily cron.
LEMMA CronMovesKeep ==
  ASSUME WholeInv, UNCHANGED <<others, embargo, advisory, publisher, disclosureFaults>>,
         NEW to \in {"patch-merged", "embargo-expired"}, MoveTo(to),
         AllowedMove(disclosure.state, to, "system"), to = "embargo-expired" => ShouldExpire
  PROVE  WholeInv'
  <1>1. disclosure.state \in {"embargoed", "maintainer-acknowledged", "patch-merged"}
    BY DEF AllowedMove, SystemMoves
  <1>2. PICK d \in DisclosureRow : d = [disclosure EXCEPT !.state = to]
    BY RowIsKnown DEF DisclosureRow, Embargo
  <1>3. /\ d.token = disclosure.token /\ d.state = to /\ d.madeFor = disclosure.madeFor
        /\ d.ghsa = disclosure.ghsa /\ d.forced = disclosure.forced /\ d.advised = disclosure.advised
        /\ d.acknowledged = disclosure.acknowledged
    BY <1>2, RowIsKnown DEF DisclosureRow
  <1>4. d = disclosure' /\ RowMoves(disclosure, d)
    BY <1>1, <1>2, <1>3 DEF MoveTo, RowMoves, Quiet
  <1>5. to = "embargo-expired" => Elapsed(d, embargo, finding.marks)
    BY <1>3 DEF ShouldExpire, Patched, Elapsed
  <1>6. AdvisoryFits(d, advisory, embargo, finding.marks)
    BY <1>1, <1>3, <1>5, RowIsKnown DEF AdvisoryFits, EmbargoFits
  <1> QED BY <1>3, <1>4, <1>6, RowIsKnown, RowKeeps

LEMMA ReservationAgesKeeps == WholeInv /\ ReservationAges => WholeInv'
  <1> SUFFICES ASSUME WholeInv, ReservationAges PROVE WholeInv'
    OBVIOUS
  <1>1. UNCHANGED <<others, embargo, advisory, publisher, disclosureFaults>>
        /\ publisher[disclosure.token].at \notin Holding
    BY DEF ReservationAges
  <1>2. PICK d \in DisclosureRow : d = [disclosure EXCEPT !.token = "stale"]
    BY RowIsKnown DEF DisclosureRow
  <1>3. /\ d.state = disclosure.state /\ d.madeFor = disclosure.madeFor
        /\ d.ghsa = disclosure.ghsa /\ d.forced = disclosure.forced /\ d.advised = disclosure.advised
        /\ d.acknowledged = disclosure.acknowledged
    BY <1>2, RowIsKnown DEF DisclosureRow
  <1>4. d = disclosure' /\ RowMoves(disclosure, d)
    BY <1>2, <1>3 DEF ReservationAges, RowMoves
  <1>5. AdvisoryFits(d, advisory, embargo, finding.marks)
    BY <1>3, RowIsKnown DEF AdvisoryFits, EmbargoFits, Elapsed
  <1> QED BY <1>1, <1>4, <1>5, RowIsKnown, RowKeeps

-----------------------------------------------------------------------------
(* The lifecycle's steps, as the publication sees them.                    *)

\* Marks are taken back only with the row.  A row is entered under no embargo or
\* at the start of one, and one that is deleted leaves its number behind unless
\* it never was under disclosure.
JustEntered(d) ==
    d.state \in {"absent", "none", "embargoed"} /\ ~ d.forced /\ ~ d.advised /\ d.ghsa = "none"
LEMMA LifecycleLeaves ==
  ASSUME LifecycleInv, LifecycleNext
  PROVE  \/ UNCHANGED <<disclosure, erased>> /\ finding.marks \subseteq finding'.marks
         \/ JustEntered(disclosure') /\ (erased' = 0 => erased = 0 /\ Quiet(disclosure))
  <1>1. finding \in FindingRow /\ attempt \in AttemptState /\ erased \in Nat
    BY DEF LifecycleInv, LifecycleTyped
  <1>2. CASE InitializeDisclosure
    <2>1. finding' = finding /\ erased' = erased
      BY <1>2 DEF InitializeDisclosure
    <2>2. CASE disclosure.state # "absent" \/ attempt.severity = "none"
      BY <1>2, <2>1, <2>2 DEF InitializeDisclosure
    <2>3. CASE disclosure.state = "absent" /\ attempt.severity # "none"
      <3>1. disclosure' = [NoDisclosure EXCEPT
                              !.state = IF attempt.severity = "high" THEN "embargoed" ELSE "none",
                              !.madeFor = attempt.n]
        BY <1>2, <2>3 DEF InitializeDisclosure
      <3> QED BY <2>1, <2>3, <3>1 DEF NoDisclosure, JustEntered, Quiet
    <2> QED BY <2>2, <2>3
  <1>3. CASE finding' = finding /\ UNCHANGED <<disclosure, erased>>
    BY <1>3
  <1>4. CASE RecordFinding
    <2>1. CASE Trailing
      <3>1. attempt.at = "record" /\ attempt.n # 0
        BY <1>1, <1>4 DEF RecordFinding, AttemptAt, LifecycleInv, AttemptFits, AttemptState
      <3>2. /\ disclosure' = NoDisclosure
            /\ erased' = IF disclosure.state \in {"absent", "none"} THEN erased ELSE attempt.n
        BY <1>4, <2>1 DEF RecordFinding
      <3> QED BY <3>1, <3>2 DEF NoDisclosure, JustEntered, Quiet
    <2>2. CASE ~ Trailing
      <3>1. UNCHANGED <<disclosure, erased>> /\ finding'.marks = finding.marks
        BY <1>1, <1>4, <2>2 DEF RecordFinding, FindingRow
      <3> QED BY <3>1
    <2> QED BY <2>1, <2>2
  <1>5. CASE RecordPatch \/ Retract
    <2>1. UNCHANGED <<disclosure, erased>> /\ finding'.marks = finding.marks
      BY <1>1, <1>5 DEF RecordPatch, Retract, FindingRow
    <2> QED BY <2>1
  <1>6. ASSUME NEW t \in Ticks, MarkFinding(t)
        PROVE  finding.marks \subseteq finding'.marks /\ UNCHANGED <<disclosure, erased>>
    BY <1>1, <1>6 DEF MarkFinding, FindingRow
  <1> QED BY <1>2, <1>3, <1>4, <1>5, <1>6
       DEF LifecycleNext, StartAttempt, Decide, PostComment, SetReviewComment, AttemptDies,
           LoadClosure, LoadAcceptance, PostReceipt, TickDies

LEMMA LifecycleStepKeeps ==
  ASSUME DisclosureInv, LifecycleStep(LifecycleNext) PROVE DisclosureInv'
  <1>1. /\ LifecycleNext /\ UNCHANGED <<advisory, publisher, disclosureFaults>>
        /\ embargo' = IF disclosure'.state = "absent" THEN NotOver ELSE embargo
    BY DEF LifecycleStep
  <1>2. LifecycleInv'
    BY <1>1, LifecycleGoes DEF DisclosureInv
  <1>3. CallsTyped'
    BY <1>1 DEF DisclosureInv, CallsTyped, NotOver
  <1>4. CASE UNCHANGED <<disclosure, erased>> /\ finding.marks \subseteq finding'.marks
    <2>1. EmbargoFits(disclosure, embargo', finding'.marks)
      BY <1>1, <1>4 DEF DisclosureInv, EmbargoFits, Elapsed
    <2>2. EmbargoFits(disclosure, embargo, finding.marks)'
      BY <1>4, <2>1 DEF EmbargoFits, Elapsed
    <2>3. ASSUME erased' = 0 PROVE WholeInv'
      <3>1. CallsFit' /\ AdvisoryFits(disclosure, advisory, embargo, finding.marks)
        BY <1>1, <1>4, <2>3 DEF DisclosureInv, WholeInv, CallsFit
      <3>2. AdvisoryFits(disclosure, advisory, embargo', finding'.marks)
        BY <2>1, <3>1 DEF AdvisoryFits
      <3>3. AdvisoryFits(disclosure, advisory, embargo, finding.marks)'
        BY <1>1, <1>4, <3>2 DEF AdvisoryFits, EmbargoFits, Elapsed
      <3> QED BY <1>2, <1>3, <3>1, <3>3 DEF WholeInv
    <2> QED BY <1>2, <1>3, <2>2, <2>3 DEF DisclosureInv
  <1>5. CASE JustEntered(disclosure') /\ (erased' = 0 => erased = 0 /\ Quiet(disclosure))
    <2>1. PICK d : d = disclosure' /\ JustEntered(d)
      BY <1>5
    <2>2. EmbargoFits(disclosure, embargo, finding.marks)'
      BY <2>1 DEF EmbargoFits, JustEntered
    <2>3. ASSUME erased' = 0 PROVE WholeInv'
      <3>1. WholeInv /\ Quiet(disclosure)
        BY <1>5, <2>3 DEF DisclosureInv
      <3>2. ASSUME NEW p \in Publishers PROVE CallFits(p, publisher[p], d, advisory)
        <4>1. publisher[p].at = "idle" /\ publisher[p].state # "published"
          BY <3>1, CallIsKnown DEF CallFits, Quiet
        <4> QED BY <3>1, <4>1, CallIsKnown DEF CallFits, Holding
      <3>3. CallsFit'
        BY <1>1, <2>1, <3>2 DEF CallsFit
      <3>4. AdvisoryFits(disclosure, advisory, embargo, finding.marks)
        BY <3>1, RowIsKnown
      <3>5. AdvisoryFits(d, advisory, embargo', finding'.marks)
        BY <2>1, <3>1, <3>4 DEF AdvisoryFits, EmbargoFits, JustEntered, Quiet
      <3>6. AdvisoryFits(disclosure, advisory, embargo, finding.marks)'
        BY <1>1, <2>1, <3>5 DEF AdvisoryFits, EmbargoFits, Elapsed
      <3> QED BY <1>2, <1>3, <3>3, <3>6 DEF WholeInv
    <2> QED BY <1>2, <1>3, <2>2, <2>3 DEF DisclosureInv
  <1> QED BY <1>1, <1>4, <1>5, LifecycleLeaves DEF DisclosureInv

-----------------------------------------------------------------------------
(* What is left once a row under disclosure was deleted: calls may find it *)
(* gone, or another one, and still leave rows of their types; the time an  *)
(* embargo takes is that of the row that is there.                         *)

LEMMA CallLeavesTypes ==
  ASSUME DisclosureInv, NEW p \in Publishers,
         \/ \E actor \in {"system", "operator"} : LoadDisclosure(p, actor)
         \/ Publishes(p) \/ PublisherDies(p)
  PROVE  CallsTyped'
  <1>1. /\ publisher[p] \in PublisherCall /\ disclosure \in DisclosureRow /\ disclosureFaults \in Nat
        /\ publisher \in [Publishers -> PublisherCall]
        /\ advisory \in [Advisories -> {"absent", "draft", "published"}]
    BY DEF DisclosureInv, CallsTyped, LifecycleInv
  <1>2. embargo' = embargo
    BY DEF LoadDisclosure, Publishes, PublisherDies, ClaimReservation, ReloadDisclosure, FindDraft, PostDraft,
           RecordDraft, RequestCve, CompleteReservation, ReleaseReservation, TransitionToPublished,
           PublishAdvisory, MarkAdvised
  <1>3. disclosureFaults' \in Nat
    BY <1>1 DEF LoadDisclosure, Publishes, PublisherDies, ClaimReservation, ReloadDisclosure, FindDraft, PostDraft,
           RecordDraft, RequestCve, CompleteReservation, ReleaseReservation, TransitionToPublished,
           PublishAdvisory, MarkAdvised, CallFails
  <1>4. advisory' \in [Advisories -> {"absent", "draft", "published"}]
    BY <1>1 DEF LoadDisclosure, Publishes, PublisherDies, ClaimReservation, ReloadDisclosure, FindDraft, PostDraft,
           RecordDraft, RequestCve, CompleteReservation, ReleaseReservation, TransitionToPublished,
           PublishAdvisory, MarkAdvised
  <1>5. \/ CallEnds(p)
        \/ \E at \in Holding \cup {"reload", "publish", "confirm"} : CallGoes(p, at)
        \/ \E g \in Advisories \cup {"none"} : Prepared(p, g)
        \/ \E a \in Advisories : publisher' = [publisher EXCEPT ![p].at = "record", ![p].ghsa = a]
        \/ \E actor \in {"system", "operator"} : LoadDisclosure(p, actor)
    <2>1. disclosure.ghsa \in Advisories \cup {"none"} /\ publisher[p].ghsa \in Advisories \cup {"none"}
      BY <1>1 DEF DisclosureRow, PublisherCall
    <2>2. CASE ClaimReservation(p)
      BY <2>2 DEF ClaimReservation, Holding
    <2>3. CASE ReloadDisclosure(p)
      BY <2>1, <2>3 DEF ReloadDisclosure
    <2>4. CASE FindDraft(p) \/ PostDraft(p)
      BY <2>4 DEF FindDraft, PostDraft, Holding
    <2>5. CASE RecordDraft(p) \/ RequestCve(p)
      BY <2>5 DEF RecordDraft, RequestCve, Holding
    <2>6. CASE CompleteReservation(p)
      BY <2>1, <2>6 DEF CompleteReservation
    <2>7. CASE ReleaseReservation(p) \/ TransitionToPublished(p) \/ PublishAdvisory(p) \/ MarkAdvised(p)
               \/ PublisherDies(p)
      BY <2>7 DEF ReleaseReservation, TransitionToPublished, PublishAdvisory, MarkAdvised, PublisherDies
    <2> QED BY <2>2, <2>3, <2>4, <2>5, <2>6, <2>7 DEF Publishes
  <1>6. publisher' \in [Publishers -> PublisherCall]
    <2>1. CASE CallEnds(p)
      BY <1>1, <2>1 DEF CallEnds, NoCall, PublisherCall
    <2>2. ASSUME NEW at \in Holding \cup {"reload", "publish", "confirm"}, CallGoes(p, at)
          PROVE  publisher' \in [Publishers -> PublisherCall]
      <3>1. PICK c \in PublisherCall : c = [publisher[p] EXCEPT !.at = at]
        BY <1>1 DEF PublisherCall
      <3>2. publisher' = [publisher EXCEPT ![p] = c]
        BY <2>2, <3>1 DEF CallGoes
      <3> QED BY <1>1, <3>2
    <2>3. ASSUME NEW g \in Advisories \cup {"none"}, Prepared(p, g)
          PROVE  publisher' \in [Publishers -> PublisherCall]
      <3>1. PICK at \in {"publish", "transition"} :
                 at = IF publisher[p].state = "published" THEN "publish" ELSE "transition"
        OBVIOUS
      <3>2. PICK c \in PublisherCall : c = [publisher[p] EXCEPT !.ghsa = g, !.at = at]
        BY <1>1 DEF PublisherCall
      <3>3. publisher' = [publisher EXCEPT ![p] = c]
        BY <2>3, <3>1, <3>2 DEF Prepared
      <3> QED BY <1>1, <3>3
    <2>4. ASSUME NEW a \in Advisories, publisher' = [publisher EXCEPT ![p].at = "record", ![p].ghsa = a]
          PROVE  publisher' \in [Publishers -> PublisherCall]
      <3>1. PICK c \in PublisherCall : c = [publisher[p] EXCEPT !.at = "record", !.ghsa = a]
        BY <1>1 DEF PublisherCall, Holding
      <3>2. publisher' = [publisher EXCEPT ![p] = c]
        BY <2>4, <3>1
      <3> QED BY <1>1, <3>2
    <2>5. ASSUME NEW actor \in {"system", "operator"}, LoadDisclosure(p, actor)
          PROVE  publisher' \in [Publishers -> PublisherCall]
      <3>1. PICK at \in {"claim", "publish", "transition"} :
                 at = IF disclosure.ghsa = "none" \/ ~ disclosure.cve THEN "claim"
                      ELSE IF disclosure.state = "published" THEN "publish" ELSE "transition"
        OBVIOUS
      <3>2. disclosure.state \in Embargo \cup {"published"}
        BY <2>5 DEF LoadDisclosure, Publishable, Embargo
      <3>3. PICK c \in PublisherCall :
                 c = [at |-> at, actor |-> actor, state |-> disclosure.state, ghsa |-> disclosure.ghsa,
                      cve |-> disclosure.cve]
        BY <1>1, <3>2 DEF PublisherCall, DisclosureRow
      <3>4. publisher' = [publisher EXCEPT ![p] = c]
        BY <2>5, <3>1, <3>3 DEF LoadDisclosure
      <3> QED BY <1>1, <3>4
    <2> QED BY <1>5, <2>1, <2>2, <2>3, <2>4, <2>5
  <1> QED BY <1>2, <1>3, <1>4, <1>6 DEF DisclosureInv, CallsTyped

LEMMA CallMovesRow ==
  ASSUME DisclosureInv, NEW p \in Publishers,
         \/ \E actor \in {"system", "operator"} : LoadDisclosure(p, actor)
         \/ Publishes(p) \/ PublisherDies(p)
  PROVE  \E d \in DisclosureRow :
             d = disclosure' /\ RowMoves(disclosure, d) /\ EmbargoFits(d, embargo, finding.marks)
  <1>1. /\ disclosure \in DisclosureRow /\ publisher[p] \in PublisherCall
        /\ EmbargoFits(disclosure, embargo, finding.marks)
    BY DEF DisclosureInv, CallsTyped, LifecycleInv
  <1>2. CASE TransitionToPublished(p) /\ AllowedMove(disclosure.state, "published", publisher[p].actor)
    <2>1. PICK forced \in BOOLEAN : forced = (publisher[p].actor = "operator")
      OBVIOUS
    <2>2. PICK d \in DisclosureRow : d = [disclosure EXCEPT !.state = "published", !.forced = forced]
      BY <1>1 DEF DisclosureRow
    <2>3. d = disclosure'
      BY <1>2, <2>1, <2>2 DEF TransitionToPublished
    <2>4. /\ d.state = "published" /\ d.madeFor = disclosure.madeFor /\ d.forced = forced
          /\ d.acknowledged = disclosure.acknowledged
      BY <1>1, <2>2 DEF DisclosureRow
    <2>5. ~ Quiet(disclosure) /\ disclosure.state # "published"
          /\ (forced \/ disclosure.state = "embargo-expired")
      BY <1>2, <2>1 DEF AllowedMove, SystemMoves, Embargo, Quiet
    <2> QED BY <1>1, <2>3, <2>4, <2>5 DEF RowMoves, Quiet, EmbargoFits, Elapsed
  <1>3. \/ disclosure' = disclosure
        \/ \E token \in Publishers \cup {"none"}, g \in Advisories \cup {"none"}, cve \in BOOLEAN :
               \/ disclosure' = [disclosure EXCEPT !.token = token]
               \/ disclosure' = [disclosure EXCEPT !.ghsa = g]
               \/ disclosure' = [disclosure EXCEPT !.ghsa = g, !.cve = TRUE, !.token = "none"]
               \/ disclosure' = [disclosure EXCEPT !.advised = cve]
        \/ TransitionToPublished(p) /\ AllowedMove(disclosure.state, "published", publisher[p].actor)
    <2>1. publisher[p].ghsa \in Advisories \cup {"none"}
      BY <1>1 DEF PublisherCall
    <2>2. CASE ClaimReservation(p)
      BY <2>2 DEF ClaimReservation
    <2>3. CASE RecordDraft(p)
      BY <2>1, <2>3 DEF RecordDraft
    <2>4. CASE CompleteReservation(p)
      BY <2>1, <2>4 DEF CompleteReservation
    <2>5. CASE ReleaseReservation(p)
      <3>1. CASE disclosure.token = p
        BY <2>5, <3>1 DEF ReleaseReservation
      <3>2. CASE disclosure.token # p
        <4>1. disclosure' = disclosure
          BY <1>1, <2>5, <3>2 DEF ReleaseReservation, DisclosureRow
        <4> QED BY <4>1
      <3> QED BY <3>1, <3>2
    <2>6. CASE MarkAdvised(p)
      <3>1. PICK advised \in BOOLEAN : advised = (disclosure.advised \/ disclosure.state # "absent")
        OBVIOUS
      <3>2. disclosure' = [disclosure EXCEPT !.advised = advised]
        BY <2>6, <3>1 DEF MarkAdvised
      <3> QED BY <3>2
    <2>7. CASE ~ (ClaimReservation(p) \/ RecordDraft(p) \/ CompleteReservation(p) \/ ReleaseReservation(p)
                  \/ MarkAdvised(p))
      BY <2>7 DEF Publishes, PublisherDies, LoadDisclosure, ReloadDisclosure, FindDraft, PostDraft, RequestCve,
                  TransitionToPublished, PublishAdvisory
    <2> QED BY <2>2, <2>3, <2>4, <2>5, <2>6, <2>7
  <1>4. ASSUME NEW token \in Publishers \cup {"none"}, NEW g \in Advisories \cup {"none"}, NEW cve \in BOOLEAN,
               \/ disclosure' = [disclosure EXCEPT !.token = token]
               \/ disclosure' = [disclosure EXCEPT !.ghsa = g]
               \/ disclosure' = [disclosure EXCEPT !.ghsa = g, !.cve = TRUE, !.token = "none"]
               \/ disclosure' = [disclosure EXCEPT !.advised = cve]
        PROVE  \E d \in DisclosureRow :
                   d = disclosure' /\ RowMoves(disclosure, d) /\ EmbargoFits(d, embargo, finding.marks)
    <2>1. PICK d \in DisclosureRow :
               /\ d = disclosure' /\ d.state = disclosure.state /\ d.madeFor = disclosure.madeFor
               /\ d.forced = disclosure.forced /\ d.acknowledged = disclosure.acknowledged
      <3>1. CASE disclosure' = [disclosure EXCEPT !.token = token]
        BY <1>1, <3>1 DEF DisclosureRow
      <3>2. CASE disclosure' = [disclosure EXCEPT !.ghsa = g]
        BY <1>1, <3>2 DEF DisclosureRow
      <3>3. CASE disclosure' = [disclosure EXCEPT !.ghsa = g, !.cve = TRUE, !.token = "none"]
        <4>1. PICK d \in DisclosureRow :
                   d = [disclosure EXCEPT !.ghsa = g, !.cve = TRUE, !.token = "none"]
          BY <1>1 DEF DisclosureRow
        <4>2. /\ d.state = disclosure.state /\ d.madeFor = disclosure.madeFor
              /\ d.forced = disclosure.forced /\ d.acknowledged = disclosure.acknowledged
          BY <1>1, <4>1 DEF DisclosureRow
        <4> QED BY <3>3, <4>1, <4>2
      <3>4. CASE disclosure' = [disclosure EXCEPT !.advised = cve]
        BY <1>1, <3>4 DEF DisclosureRow
      <3> QED BY <1>4, <3>1, <3>2, <3>3, <3>4
    <2> QED BY <1>1, <2>1 DEF RowMoves, EmbargoFits, Elapsed
  <1>5. CASE disclosure' = disclosure
    BY <1>1, <1>5 DEF RowMoves
  <1> QED BY <1>2, <1>3, <1>4, <1>5

LEMMA AfterErasure ==
  ASSUME DisclosureInv, erased # 0, UNCHANGED others, CallsTyped', NEW d \in DisclosureRow, d = disclosure',
         RowMoves(disclosure, d), NEW e, e = embargo', EmbargoFits(d, e, finding.marks)
  PROVE  DisclosureInv'
  <1>1. LifecycleInv'
    BY LifecycleStays DEF DisclosureInv
  <1>2. erased' # 0 /\ finding' = finding
    BY DEF others
  <1>3. EmbargoFits(disclosure, embargo, finding.marks)'
    BY <1>2 DEF EmbargoFits, Elapsed
  <1> QED BY <1>1, <1>2, <1>3 DEF DisclosureInv

\* The maintainer, the cron and time act on the row that is there.
LEMMA RowMovesAfterErasure ==
  ASSUME DisclosureInv, erased # 0,
         TimePasses \/ Acknowledge \/ MarkPatchMerged \/ ExpireEmbargo \/ ReservationAges
  PROVE  DisclosureInv'
  <1>1. /\ disclosure \in DisclosureRow /\ embargo \in [over : BOOLEAN, grace : BOOLEAN]
        /\ EmbargoFits(disclosure, embargo, finding.marks)
    BY DEF DisclosureInv, CallsTyped, LifecycleInv
  <1>2. UNCHANGED <<others, advisory, publisher, disclosureFaults>>
    BY DEF TimePasses, Acknowledge, MarkPatchMerged, ExpireEmbargo, ReservationAges
  <1>3. CASE TimePasses
    <2>1. PICK e, g \in [over : BOOLEAN, grace : BOOLEAN] :
               e = [embargo EXCEPT !.over = TRUE] /\ g = [embargo EXCEPT !.grace = TRUE]
      BY <1>1
    <2>2. (embargo.grace => e.grace) /\ e.over /\ (embargo.over => g.over) /\ g.grace
      BY <1>1, <2>1
    <2>3. disclosure' = disclosure /\ (embargo' = e \/ embargo' = g)
      BY <1>3, <2>1 DEF TimePasses
    <2>4. PICK f \in [over : BOOLEAN, grace : BOOLEAN] :
               f = embargo' /\ (embargo.over => f.over) /\ (embargo.grace => f.grace)
      BY <2>2, <2>3
    <2>5. CallsTyped'
      BY <1>2, <2>4 DEF DisclosureInv, CallsTyped
    <2>6. RowMoves(disclosure, disclosure) /\ EmbargoFits(disclosure, f, finding.marks)
      BY <1>1, <2>4 DEF RowMoves, EmbargoFits, Elapsed
    <2> QED BY <1>1, <1>2, <2>3, <2>4, <2>5, <2>6, AfterErasure
  <1>4. CASE ~ TimePasses
    <2>1. embargo' = embargo
      BY <1>4 DEF Acknowledge, MarkPatchMerged, ExpireEmbargo, ReservationAges
    <2>2. CallsTyped'
      BY <1>2, <2>1 DEF DisclosureInv, CallsTyped
    <2>3. CASE Acknowledge
      <3>1. disclosure.state \in {"embargoed", "maintainer-acknowledged", "patch-merged"}
        BY <2>3 DEF Acknowledge
      <3>2. PICK state \in {"maintainer-acknowledged", "patch-merged"} :
                 state = IF disclosure.state = "embargoed" THEN "maintainer-acknowledged" ELSE disclosure.state
        BY <3>1
      <3>3. PICK d \in DisclosureRow : d = [disclosure EXCEPT !.acknowledged = TRUE, !.state = state]
        BY <1>1 DEF DisclosureRow, Embargo
      <3>4. d.state = state /\ d.madeFor = disclosure.madeFor /\ d.forced = disclosure.forced
        BY <1>1, <3>3 DEF DisclosureRow
      <3>5. d = disclosure' /\ RowMoves(disclosure, d) /\ EmbargoFits(d, embargo, finding.marks)
        BY <1>1, <2>3, <3>1, <3>2, <3>3, <3>4 DEF Acknowledge, RowMoves, Quiet, EmbargoFits
      <3> QED BY <1>2, <2>1, <2>2, <3>5, AfterErasure
    <2>4. ASSUME NEW to \in {"patch-merged", "embargo-expired"}, MoveTo(to),
                 AllowedMove(disclosure.state, to, "system"), to = "embargo-expired" => ShouldExpire
          PROVE  DisclosureInv'
      <3>1. disclosure.state \in {"embargoed", "maintainer-acknowledged", "patch-merged"}
        BY <2>4 DEF AllowedMove, SystemMoves
      <3>2. PICK d \in DisclosureRow : d = [disclosure EXCEPT !.state = to]
        BY <1>1 DEF DisclosureRow, Embargo
      <3>3. /\ d.state = to /\ d.madeFor = disclosure.madeFor /\ d.forced = disclosure.forced
            /\ d.acknowledged = disclosure.acknowledged
        BY <1>1, <3>2 DEF DisclosureRow
      <3>4. to = "embargo-expired" => Elapsed(d, embargo, finding.marks)
        BY <2>4, <3>3 DEF ShouldExpire, Patched, Elapsed
      <3>5. d = disclosure' /\ RowMoves(disclosure, d) /\ EmbargoFits(d, embargo, finding.marks)
        BY <1>1, <2>4, <3>1, <3>2, <3>3, <3>4 DEF MoveTo, RowMoves, Quiet, EmbargoFits
      <3> QED BY <1>2, <2>1, <2>2, <3>5, AfterErasure
    <2>5. CASE ReservationAges
      <3>1. PICK d \in DisclosureRow : d = [disclosure EXCEPT !.token = "stale"]
        BY <1>1 DEF DisclosureRow
      <3>2. /\ d.state = disclosure.state /\ d.madeFor = disclosure.madeFor /\ d.forced = disclosure.forced
            /\ d.acknowledged = disclosure.acknowledged
        BY <1>1, <3>1 DEF DisclosureRow
      <3>3. d = disclosure' /\ RowMoves(disclosure, d) /\ EmbargoFits(d, embargo, finding.marks)
        BY <1>1, <2>5, <3>1, <3>2 DEF ReservationAges, RowMoves, EmbargoFits, Elapsed
      <3> QED BY <1>2, <2>1, <2>2, <3>3, AfterErasure
    <2>6. CASE MarkPatchMerged
      BY <2>4, <2>6 DEF MarkPatchMerged
    <2>7. CASE ExpireEmbargo
      BY <2>4, <2>7 DEF ExpireEmbargo
    <2> QED BY <1>4, <2>3, <2>5, <2>6, <2>7
  <1> QED BY <1>3, <1>4

LEMMA DisclosureStep == DisclosureInv /\ [DisclosureNext]_disclosureVars => DisclosureInv'
  <1> SUFFICES ASSUME DisclosureInv, [DisclosureNext]_disclosureVars PROVE DisclosureInv'
    OBVIOUS
  <1>1. CASE LifecycleStep(LifecycleNext)
    BY <1>1, LifecycleStepKeeps
  <1>2. CASE UNCHANGED disclosureVars
    <2>1. UNCHANGED <<finding, disclosure, review, attempt, tick, receipts, erased>>
      BY <1>2 DEF disclosureVars, lifecycleVars
    <2>2. UNCHANGED <<embargo, advisory, publisher, disclosureFaults>>
      BY <1>2 DEF disclosureVars
    <2>3. LifecycleInv'
      BY <2>1 DEF DisclosureInv, LifecycleInv, LifecycleTyped, AttemptFits, SweepFits, TickFits, Leftover, Quiet
    <2>4. CallsTyped' /\ EmbargoFits(disclosure, embargo, finding.marks)'
      BY <2>1, <2>2 DEF DisclosureInv, CallsTyped, EmbargoFits, Elapsed
    <2>5. ASSUME erased = 0 PROVE WholeInv'
      <3>1. CallsFit' /\ AdvisoryFits(disclosure, advisory, embargo, finding.marks)'
        BY <2>1, <2>2, <2>5 DEF DisclosureInv, WholeInv, CallsFit, AdvisoryFits, EmbargoFits, Elapsed
      <3> QED BY <2>3, <2>4, <3>1 DEF WholeInv
    <2> QED BY <2>1, <2>3, <2>4, <2>5 DEF DisclosureInv
  <1>3. CASE /\ erased = 0
             /\ \/ TimePasses \/ Acknowledge \/ MarkPatchMerged \/ ExpireEmbargo \/ ReservationAges
                \/ \E p \in Publishers :
                       \/ \E actor \in {"system", "operator"} : LoadDisclosure(p, actor)
                       \/ Publishes(p) \/ PublisherDies(p)
    <2>1. WholeInv
      BY <1>3 DEF DisclosureInv
    <2>2. MarkPatchMerged \/ ExpireEmbargo => WholeInv'
      BY <2>1, CronMovesKeep DEF MarkPatchMerged, ExpireEmbargo
    <2>3. WholeInv'
      BY <1>3, <2>1, <2>2, TimePassesKeeps, AcknowledgeKeeps, ReservationAgesKeeps, LoadDisclosureKeeps,
         PublishesKeeps
    <2> QED BY <2>3 DEF DisclosureInv, WholeInv, AdvisoryFits
  <1>4. CASE /\ erased # 0
             /\ TimePasses \/ Acknowledge \/ MarkPatchMerged \/ ExpireEmbargo \/ ReservationAges
    BY <1>4, RowMovesAfterErasure
  <1>5. ASSUME erased # 0, NEW p \in Publishers,
               \/ \E actor \in {"system", "operator"} : LoadDisclosure(p, actor)
               \/ Publishes(p) \/ PublisherDies(p)
        PROVE  DisclosureInv'
    <2>1. UNCHANGED <<others, embargo>>
      BY <1>5 DEF LoadDisclosure, Publishes, PublisherDies, ClaimReservation, ReloadDisclosure, FindDraft,
             PostDraft, RecordDraft, RequestCve, CompleteReservation, ReleaseReservation,
             TransitionToPublished, PublishAdvisory, MarkAdvised
    <2> QED BY <1>5, <2>1, CallLeavesTypes, CallMovesRow, AfterErasure
  <1> QED BY <1>1, <1>2, <1>3, <1>4, <1>5 DEF DisclosureNext

LEMMA DisclosureInvariant == DisclosureSpec => []DisclosureInv
  <1>1. DisclosureInit => DisclosureInv
    BY DisclosureStarts DEF DisclosureInv, WholeInv, AdvisoryFits
  <1> QED BY <1>1, DisclosureStep, PTL DEF DisclosureSpec

-----------------------------------------------------------------------------

\* Every row, call and tick of a finding's disclosure stays of its type, for
\* any number of attempts, ticks, calls and advisories.
THEOREM DisclosureTypeCorrect == DisclosureSpec => []DisclosureTypeOK
  <1>1. DisclosureInv => DisclosureTypeOK
    BY DEF DisclosureInv, LifecycleInv, LifecycleTyped, CallsTyped, DisclosureTypeOK, FindingRow,
       DisclosureRow, ReviewRow, AttemptState, TickState, PublisherCall
  <1> QED BY <1>1, DisclosureInvariant, PTL

\* The comment, the row and the evidence a closure looked at are those of one
\* attempt, whichever attempts died and whatever they agreed on, for as many
\* attempts as there are; a row that an attempt has no finding for is deleted
\* before its comment is posted, also when attempts before it were closed,
\* retracted or embargoed (recordFindingStatuses, reconcilableTrailingRows,
\* loadSweepWork).
THEOREM RowStaysWithComment == DisclosureSpec => []RowMatchesComment
  <1>1. ASSUME DisclosureInv PROVE RowMatchesComment
    <2>1. PICK f \in FindingRow, d \in DisclosureRow, r \in ReviewRow, a \in AttemptState,
               k \in [Ticks -> TickState], x \in 0 .. MaxAttempts :
                   Now(f, d, r, a, k, x) /\ AttemptFits(f, d, r, a, x) /\ SweepFits(f, d, r, a, k, x)
      BY <1>1, LifecycleKnown DEF DisclosureInv
    <2>2. f.closedOn \in Nat /\ r.decision \in Nat /\ r.comment \in Nat /\ x \in Nat
      BY RowsHoldNumbers
    <2>3. ASSUME f.id # 0, d.state = "none", ~ f.retracted, ~ ("closed" \in f.marks /\ f.closedOn < x)
          PROVE  /\ r.comment # 0 => f.id = r.comment
                 /\ "closed" \in f.marks => f.closedOn = f.id
      <3>1. r.comment # 0 => f.id = r.comment
        BY <2>1, <2>3 DEF SweepFits, Quiet, Leftover
      <3>2. ASSUME "closed" \in f.marks
            PROVE  f.closedOn = r.decision /\ r.decision # 0 /\ r.comment # 0
        BY <2>1, <2>2, <2>3, <3>2 DEF SweepFits, Quiet
      <3> QED BY <2>1, <3>1, <3>2 DEF AttemptFits
    <2>4. r.comment # 0 /\ r.decision = r.comment => f.id # 0
      BY <2>1 DEF AttemptFits
    <2> QED BY <2>1, <2>3, <2>4 DEF RowMatchesComment, Now
  <1> QED BY <1>1, DisclosureInvariant, PTL

\* A finding under embargo is shown only with its advisory out, the advisory is
\* out only when the row is published, as long as no retry deleted a row under
\* disclosure; and always, without an operator's force, a row expires only when
\* its embargo took its time (transitionFindingDisclosure, publishDisclosure).
THEOREM EmbargoStaysKept == DisclosureSpec => []EmbargoIsKept
  <1>1. ASSUME DisclosureInv PROVE EmbargoIsKept
    <2>1. ASSUME erased = 0
          PROVE  /\ (finding.severity = "high" /\ disclosure.madeFor = finding.id /\ Shown) =>
                        disclosure.ghsa # "none" /\ advisory[disclosure.ghsa] = "published"
                 /\ \A a \in Advisories : advisory[a] = "published" => disclosure.state = "published"
      <3>1. disclosure \in DisclosureRow /\ AdvisoryFits(disclosure, advisory, embargo, finding.marks)
        BY <1>1, <2>1, RowIsKnown DEF DisclosureInv
      <3>2. ASSUME finding.severity = "high", disclosure.madeFor = finding.id, Shown
            PROVE  disclosure.ghsa # "none" /\ advisory[disclosure.ghsa] = "published"
        <4>1. disclosure.state # "none"
          BY <1>1, <3>2 DEF DisclosureInv, LifecycleInv, AttemptFits
        <4>2. disclosure.ghsa # "none" /\ disclosure.advised
          BY <3>2, <4>1 DEF Shown
        <4>3. PICK a \in Advisories : advisory[a] = "published"
          BY <3>1, <4>2 DEF AdvisoryFits
        <4>4. disclosure.ghsa \in Advisories /\ advisory[disclosure.ghsa] # "absent"
          BY <3>1, <4>2 DEF AdvisoryFits, DisclosureRow
        <4>5. a = disclosure.ghsa
          BY <3>1, <4>3, <4>4 DEF AdvisoryFits
        <4> QED BY <4>2, <4>3, <4>5
      <3> QED BY <3>1, <3>2 DEF AdvisoryFits
    <2> QED BY <1>1, <2>1 DEF EmbargoIsKept, DisclosureInv, EmbargoFits, Elapsed, Patched
  <1> QED BY <1>1, DisclosureInvariant, PTL

\* One advisory for a finding, whatever calls overlap, die or stay unanswered,
\* unless a retry deleted the row with its reservation
\* (prepareGhsaForPublication, createDraftAdvisory).
THEOREM AdvisoryStaysOne == DisclosureSpec => []OneAdvisory
  <1>1. ASSUME DisclosureInv, erased = 0
        PROVE  Cardinality({a \in Advisories : advisory[a] # "absent"}) <= 1
    <2> DEFINE There == {a \in Advisories : advisory[a] # "absent"}
    <2>1. \A a, b \in There : a = b
      BY <1>1, RowIsKnown DEF DisclosureInv, AdvisoryFits
    <2>2. CASE There = {}
      <3>1. Cardinality(There) = 0
        BY <2>2, FS_EmptySet
      <3> QED BY <3>1
    <2>3. ASSUME NEW a \in There PROVE Cardinality(There) <= 1
      <3>1. There = {a}
        BY <2>1, <2>3
      <3>2. Cardinality({a}) = 1
        BY FS_Singleton
      <3> QED BY <3>1, <3>2
    <2> QED BY <2>2, <2>3
  <1>2. DisclosureInv => OneAdvisory
    BY <1>1 DEF OneAdvisory
  <1> QED BY <1>2, DisclosureInvariant, PTL
-----------------------------------------------------------------------------
(* The patch lane's functions.                                             *)

\* A finding's patch is of a reviewer whose offer fits a changed file, it counts
\* as unanimous only if both offers fit, and a finding without one has a reason
\* (decidePatchOutcomes, decideOne, pickReason).
THEOREM PatchDecisionIsBacked ==
  ASSUME NEW offers \in [Reviewers -> Offers], NEW changed \in BOOLEAN
  PROVE  LET d == PatchDecision(offers, changed)
         IN  /\ d.by \in Reviewers => changed /\ offers[d.by] = "fits"
             /\ d.by \in Reviewers <=> d.skip = "none"
             /\ d.by \notin Reviewers => d.by = NoPatch /\ d.confidence = "none"
             /\ d.confidence = "unanimous" <=> changed /\ \A p \in Reviewers : offers[p] = "fits"
  <1> DEFINE proposals == [p \in Reviewers |-> Proposal(offers[p], changed)]
             with == {p \in Reviewers : proposals[p].patch}
             d == DecideOne(proposals)
  <1>1. \A p \in Reviewers : proposals[p].patch <=> changed /\ offers[p] = "fits"
    BY DEF Proposal
  <1>2. \A p \in Reviewers : p \in with <=> changed /\ offers[p] = "fits"
    BY <1>1
  <1>3. \A reasons : PickReason(reasons) # "none"
    <2> SUFFICES ASSUME NEW reasons PROVE PickReason(reasons) # "none"
      OBVIOUS
    <2> DEFINE best == {n \in 1 .. 4 : ReasonOrder[n] \in reasons \ {"none"}}
    <2>1. DOMAIN ReasonOrder = 1 .. 4
      BY DEF ReasonOrder
    <2>2. CASE best = {}
      BY <2>1, <2>2 DEF PickReason
    <2>3. CASE best # {}
      <3>1. \E n \in best : \A m \in best : n <= m
        BY <2>3
      <3> DEFINE least == CHOOSE n \in best : \A m \in best : n <= m
      <3>2. least \in best
        BY <3>1
      <3>3. PickReason(reasons) = ReasonOrder[least]
        BY <2>1, <2>3 DEF PickReason
      <3> QED BY <3>2, <3>3
    <2> QED BY <2>2, <2>3
  <1>4. /\ with = {} => d.by = NoPatch /\ d.confidence = "none"
        /\ with # {} => d.by \in with /\ d.skip = "none"
        /\ d.confidence = "unanimous" <=> with = Reviewers
    BY DEF DecideOne, Reviewers
  <1>5. with = {} => d.skip # "none"
    BY <1>3 DEF DecideOne
  <1>6. NoPatch \notin Reviewers
    BY DEF NoPatch, Reviewers
  <1>7. PatchDecision(offers, changed) = d
    BY DEF PatchDecision
  <1> QED BY <1>2, <1>4, <1>5, <1>6, <1>7 DEF Reviewers

\* A patch is verified only in a checkout where it applied, the tests ran and
\* passed, and the exploit that worked before no longer does; and the checkouts
\* the kernel's runs look at show every verdict there is (runPatchVerifier).
THEOREM PatchVerdictsAreDecisive ==
  ASSUME NEW c \in Checkouts
  PROVE  /\ PatchVerdict(c) = "verified" =>
                /\ c.setup /\ c.apply = "zero" /\ c.runner /\ c.tests = "zero"
                /\ c.poc \in {"nonzero", "killed"}
         /\ \E o \in DecisiveCheckouts : PatchVerdict(o) = PatchVerdict(c)
  <1>1. /\ c.setup \in BOOLEAN /\ c.apply \in {"zero", "nonzero", "killed"} /\ c.runner \in BOOLEAN
        /\ c.tests \in {"zero", "nonzero", "killed", "timeout"}
        /\ c.poc \in {"absent", "zero", "nonzero", "killed", "timeout"}
    BY DEF Checkouts
  <1>2. PatchVerdict(c) = "verified" =>
            /\ c.setup /\ c.apply = "zero" /\ c.runner /\ c.tests = "zero"
            /\ c.poc \in {"nonzero", "killed"}
    BY <1>1 DEF PatchVerdict
  <1>3. PICK o : o = [setup  |-> c.setup,
                      apply  |-> IF c.setup THEN c.apply ELSE "zero",
                      runner |-> c.setup /\ c.apply = "zero" => c.runner,
                      tests  |-> IF c.setup /\ c.apply = "zero" /\ c.runner THEN c.tests ELSE "zero",
                      poc    |-> IF c.setup /\ c.apply = "zero" /\ c.runner /\ c.tests = "zero"
                                 THEN c.poc ELSE "absent"]
    OBVIOUS
  <1>4. o \in Checkouts
    BY <1>1, <1>3 DEF Checkouts
  <1>5. o \in DecisiveCheckouts
    BY <1>1, <1>3, <1>4 DEF DecisiveCheckouts
  <1>6. PatchVerdict(o) = PatchVerdict(c)
    BY <1>1, <1>3 DEF PatchVerdict
  <1> QED BY <1>2, <1>5, <1>6
=============================================================================
