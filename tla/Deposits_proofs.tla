--------------------------- MODULE Deposits_proofs ---------------------------
(***************************************************************************)
(* Proofs about deposits, for any number of installations, wallets,        *)
(* transactions, calls and overlapping scans, any chunk size, depth and    *)
(* minimum.                                                                *)
(*                                                                         *)
(* KnowsInv adds to the types what a call or a scan knows about the rows   *)
(* it goes by.  Progress says what no step undoes: final blocks, payment   *)
(* rows, channels, bindings, what a call's receipt said unless a fork came *)
(* in between.  On these rest the three invariants: who is active, what a  *)
(* balance holds, and what lies behind the cursor.                         *)
(***************************************************************************)
EXTENDS Deposits, FiniteSetTheorems, TLAPS

-----------------------------------------------------------------------------
(* Types.                                                                  *)

\* Whoever writes for a transaction and an installation names both.
PostNamed == \A p \in Posts : post[p].at \notin {"idle", "done"} =>
                 post[p].inst \in Installs /\ post[p].tx \in Txs /\ post[p].status \in Bound
EntryNamed == \A s \in Scanners : scan[s].at \in {"bump", "activate"} =>
                  scan[s].entry \in Installs \X Txs

\* A registered installation has a wallet.
WalletNamed == \A i \in Installs : install[i].status # "absent" => install[i].wallet \in Wallets

NamedOK == DepositsTypeOK /\ PostNamed /\ EntryNamed /\ WalletNamed

LEMMA TypeStarts == DepositsInit => NamedOK
  BY DepositsAssumption DEF DepositsInit, NamedOK, DepositsTypeOK, PostNamed, EntryNamed, WalletNamed,
     NoPost, NoScan, AnyStatus, Bound

LEMMA ChainKeepsTypes ==
  ASSUME NamedOK, (\E txs \in SUBSET Txs : Mine(txs)) \/ (\E t \in Txs : Fork(t))
  PROVE  NamedOK'
  <1>1. ASSUME NEW txs \in SUBSET Txs, Mine(txs) PROVE NamedOK'
    BY <1>1, DepositsAssumption DEF Mine, rows, history, NamedOK, DepositsTypeOK, PostNamed,
       EntryNamed, WalletNamed, AnyStatus, Bound
  <1>2. ASSUME NEW t \in Txs, Fork(t) PROVE NamedOK'
    BY <1>2, DepositsAssumption DEF Fork, rows, history, NamedOK, DepositsTypeOK, PostNamed,
       EntryNamed, WalletNamed, AnyStatus, Bound
  <1> QED BY <1>1, <1>2

\* The values of the rows and of the processes.
InstallRow == [status : AnyStatus \cup {"absent"}, wallet : Wallets \cup {"none"}]
PostState == [at : {"idle", "verify", "tip", "channel", "credit", "activate", "done"},
              inst : Installs \cup {NoInstall}, tx : Txs \cup {"none"}, status : Bound \cup {"none"},
              seen : Nat, pays : BOOLEAN]

\* The status of a row is written.
LEMMA WriteStatus ==
  ASSUME install \in [Installs -> InstallRow], NEW i \in Installs,
         NEW st \in AnyStatus \cup {"absent"}
  PROVE  LET new == [install EXCEPT ![i].status = st]
         IN  /\ new \in [Installs -> InstallRow]
             /\ new[i].status = st /\ new[i].wallet = install[i].wallet
             /\ \A o \in Installs \ {i} : new[o] = install[o]
  <1> DEFINE row == [install[i] EXCEPT !.status = st]
  <1>1. row \in InstallRow /\ row.status = st /\ row.wallet = install[i].wallet
    BY DEF InstallRow
  <1>2. [install EXCEPT ![i].status = st] = [install EXCEPT ![i] = row]
    OBVIOUS
  <1> QED BY <1>1, <1>2

LEMMA ActivatedRow ==
  ASSUME install \in [Installs -> InstallRow], NEW i \in Installs
  PROVE  /\ Activated(i) \in [Installs -> InstallRow]
         /\ Activated(i)[i].status = IF install[i].status \in Bound THEN "active" ELSE install[i].status
         /\ Activated(i)[i].wallet = install[i].wallet
         /\ \A o \in Installs \ {i} : Activated(i)[o] = install[o]
  <1> DEFINE st == IF install[i].status \in Bound THEN "active" ELSE install[i].status
  <1>1. st \in AnyStatus \cup {"absent"}
    BY DEF InstallRow, AnyStatus
  <1>2. Activated(i) = [install EXCEPT ![i].status = st]
    BY DEF Activated
  <1> QED BY <1>1, <1>2, WriteStatus

LEMMA InstallKeepsTypes ==
  ASSUME NamedOK, NEW i \in Installs, Bind(i) \/ \E w \in Wallets : Register(i, w)
  PROVE  NamedOK'
  <1>1. CASE Bind(i)
    <2>1. install \in [Installs -> InstallRow] /\ "awaiting_deposit" \in AnyStatus \cup {"absent"}
      BY DEF NamedOK, DepositsTypeOK, InstallRow, AnyStatus
    <2>2. /\ install' \in [Installs -> InstallRow]
          /\ install'[i].wallet = install[i].wallet
          /\ \A o \in Installs \ {i} : install'[o] = install[o]
      BY <1>1, <2>1, WriteStatus DEF Bind
    <2>3. WalletNamed'
      BY <1>1, <2>2 DEF Bind, NamedOK, WalletNamed
    <2> QED BY <1>1, <2>2, <2>3 DEF Bind, chain, history, NamedOK, DepositsTypeOK, PostNamed, EntryNamed,
                              InstallRow
  <1>2. ASSUME NEW w \in Wallets, Register(i, w) PROVE NamedOK'
    BY <1>2 DEF Register, chain, history, NamedOK, DepositsTypeOK, PostNamed, EntryNamed,
       WalletNamed, AnyStatus, Bound
  <1> QED BY <1>1, <1>2

\* Activation leaves the wallets alone.
LEMMA ActivatedNamed ==
  ASSUME install \in [Installs -> InstallRow], WalletNamed, NEW i \in Installs,
         install' = Activated(i)
  PROVE  install' \in [Installs -> InstallRow] /\ WalletNamed'
  BY ActivatedRow DEF WalletNamed, Bound

\* The amount of a transaction is added to a balance.
Credited(i, t) ==
    /\ credits' \in [Installs -> [Txs -> Nat]]
    /\ credits'[i][t] = credits[i][t] + 1
    /\ \A j \in Installs, u \in Txs : j # i \/ u # t => credits'[j][u] = credits[j][u]

LEMMA AddCredit ==
  ASSUME credits \in [Installs -> [Txs -> Nat]], NEW i \in Installs, NEW t \in Txs,
         credits' = [credits EXCEPT ![i][t] = @ + 1]
  PROVE  Credited(i, t)
  <1> DEFINE row == [credits[i] EXCEPT ![t] = credits[i][t] + 1]
  <1>1. /\ row \in [Txs -> Nat] /\ row[t] = credits[i][t] + 1
        /\ \A u \in Txs \ {t} : row[u] = credits[i][u]
    OBVIOUS
  <1>2. credits' = [credits EXCEPT ![i] = row]
    OBVIOUS
  <1> HIDE DEF row
  <1> QED BY <1>1, <1>2 DEF Credited

\* A call moves to another statement, or ends.
PostStays(p, at) ==
    /\ post' \in [Posts -> PostState]
    /\ post'[p].at = at
    /\ at # "done" => /\ post'[p].inst = post[p].inst /\ post'[p].tx = post[p].tx
                      /\ post'[p].status = post[p].status
    /\ \A o \in Posts \ {p} : post'[o] = post[o]

LEMMA PostMoves ==
  ASSUME post \in [Posts -> PostState], NEW p \in Posts,
         NEW at \in {"credit", "activate"}, PostAt(p, at)
  PROVE  PostStays(p, at)
  <1> DEFINE r == [post[p] EXCEPT !.at = at]
  <1>1. /\ r \in PostState /\ r.at = at /\ r.inst = post[p].inst /\ r.tx = post[p].tx
        /\ r.status = post[p].status
    BY DEF PostState
  <1>2. post' = [post EXCEPT ![p] = r]
    BY DEF PostAt
  <1> QED BY <1>1, <1>2 DEF PostStays

LEMMA PostStops ==
  ASSUME post \in [Posts -> PostState], NEW p \in Posts, PostEnds(p)
  PROVE  PostStays(p, "done")
  BY DEF PostEnds, NoPost, PostState, PostStays

\* The receipt is read, and then the tip.
LEMMA PostReads ==
  ASSUME post \in [Posts -> PostState], NEW p \in Posts, NEW at \in {"tip", "channel"},
         NEW n \in Nat, NEW b \in BOOLEAN,
         post' = [post EXCEPT ![p].at = at, ![p].seen = n, ![p].pays = b]
  PROVE  PostStays(p, at) /\ post'[p].seen = n /\ post'[p].pays = b
  <1> DEFINE r == [post[p] EXCEPT !.at = at, !.seen = n, !.pays = b]
  <1>1. /\ r \in PostState /\ r.at = at /\ r.inst = post[p].inst /\ r.tx = post[p].tx
        /\ r.status = post[p].status /\ r.seen = n /\ r.pays = b
    BY DEF PostState
  <1>2. post' = [post EXCEPT ![p] = r]
    OBVIOUS
  <1> QED BY <1>1, <1>2 DEF PostStays

\* What the receipt says of the minimum.
Pays(t, i) == sent[t][install[i].wallet] >= MinDeposit

LEMMA ReadReceiptStep ==
  ASSUME post \in [Posts -> PostState], NEW p \in Posts, ReadReceipt(p),
         block[post[p].tx] \in Nat
  PROVE  \/ PostStays(p, "done")
         \/ /\ PostStays(p, "tip") /\ block[post[p].tx] > 0
            /\ post'[p].seen = block[post[p].tx]
            /\ post'[p].pays = Pays(post[p].tx, post[p].inst)
  <1> DEFINE n == block[post[p].tx]
             b == Pays(post[p].tx, post[p].inst)
  <1>1. n \in Nat /\ b \in BOOLEAN
    BY DEF Pays
  <1>2. \/ PostEnds(p)
        \/ n > 0 /\ post' = [post EXCEPT ![p].at = "tip", ![p].seen = n, ![p].pays = b]
    BY DEF ReadReceipt, Pays
  <1> HIDE DEF n, b
  <1>3. \/ PostStays(p, "done")
        \/ n > 0 /\ PostStays(p, "tip") /\ post'[p].seen = n /\ post'[p].pays = b
    BY <1>1, <1>2, PostReads, PostStops
  <1> QED BY <1>3 DEF n, b

LEMMA ReadTipStep ==
  ASSUME post \in [Posts -> PostState], NEW p \in Posts, ReadTip(p)
  PROVE  PostStays(p, "done") \/ (PostStays(p, "channel") /\ Confirmed(p) /\ post[p].pays)
  BY PostReads, PostStops DEF ReadTip

\* What a call does to its own record keeps the types.
LEMMA PostStaysNamed ==
  ASSUME NamedOK, NEW p \in Posts, NEW at \in {"tip", "channel", "credit", "activate", "done"},
         PostStays(p, at), post[p].at \notin {"idle", "done"}
  PROVE  post' \in [Posts -> PostState] /\ PostNamed'
  BY DEF PostStays, NamedOK, PostNamed

LEMMA PostKeepsTypes ==
  ASSUME NamedOK, NEW p \in Posts,
         \/ \E i \in Installs, t \in Txs : LoadInstall(p, i, t)
         \/ ReadReceipt(p) \/ ReadTip(p) \/ EnsureChannel(p) \/ CreditDeposit(p)
         \/ ActivateIfFunded(p) \/ PostDies(p)
  PROVE  NamedOK'
  <1> USE DEF rows, chain, history
  <1>1. post \in [Posts -> PostState] /\ install \in [Installs -> InstallRow]
    BY DEF NamedOK, DepositsTypeOK, PostState, InstallRow
  <1>2. ASSUME NEW i \in Installs, NEW t \in Txs, LoadInstall(p, i, t) PROVE NamedOK'
    <2> DEFINE r == [NoPost EXCEPT !.at = "verify", !.inst = i, !.tx = t,
                                   !.status = install[i].status]
    <2>1. r \in PostState /\ r.inst = i /\ r.tx = t /\ r.status \in Bound
      BY <1>2 DEF LoadInstall, PostState, NoPost
    <2>2. post' = [post EXCEPT ![p] = r]
      BY <1>2 DEF LoadInstall
    <2> HIDE DEF r
    <2>3. post' \in [Posts -> PostState] /\ PostNamed'
      BY <1>1, <2>1, <2>2 DEF NamedOK, PostNamed
    <2> QED BY <1>2, <2>3 DEF LoadInstall, NamedOK, DepositsTypeOK, EntryNamed, WalletNamed,
                              PostState
  <1>3. CASE ReadReceipt(p) \/ ReadTip(p)
    <2>1. post[p].at \in {"verify", "tip"} /\ block[post[p].tx] \in Nat
      BY <1>3 DEF ReadReceipt, ReadTip, NamedOK, PostNamed, DepositsTypeOK
    <2>2. PostStays(p, "tip") \/ PostStays(p, "channel") \/ PostStays(p, "done")
      BY <1>1, <1>3, <2>1, ReadReceiptStep, ReadTipStep
    <2>3. post' \in [Posts -> PostState] /\ PostNamed'
      BY <2>1, <2>2, PostStaysNamed
    <2> QED BY <1>3, <2>3 DEF ReadReceipt, ReadTip, NamedOK, DepositsTypeOK, EntryNamed,
                              WalletNamed, PostState
  <1>4. CASE EnsureChannel(p)
    <2>1. post' \in [Posts -> PostState] /\ PostNamed'
      BY <1>1, <1>4, PostMoves, PostStaysNamed DEF EnsureChannel
    <2>2. channel' \subseteq Installs
      BY <1>4 DEF EnsureChannel, NamedOK, DepositsTypeOK, PostNamed
    <2> QED BY <1>4, <2>1, <2>2 DEF EnsureChannel, NamedOK, DepositsTypeOK, EntryNamed,
                                    WalletNamed, PostState
  <1>5. CASE CreditDeposit(p)
    <2>1. post[p].inst \in Installs /\ post[p].tx \in Txs
      BY <1>5 DEF CreditDeposit, NamedOK, PostNamed
    <2>2. post' \in [Posts -> PostState] /\ PostNamed'
      BY <1>1, <1>5, PostMoves, PostStops, PostStaysNamed DEF CreditDeposit
    <2>3. install' \in [Installs -> InstallRow] /\ WalletNamed'
      BY <1>1, <1>5, <2>1, ActivatedNamed DEF CreditDeposit, NamedOK, WalletNamed
    <2>4. payment' \in [Txs -> Installs \cup {NoInstall}]
      BY <1>5, <2>1 DEF CreditDeposit, NamedOK, DepositsTypeOK
    <2>5. credits' \in [Installs -> [Txs -> Nat]]
      <3>1. credits \in [Installs -> [Txs -> Nat]]
        BY DEF NamedOK, DepositsTypeOK
      <3>2. \/ credits' = [credits EXCEPT ![post[p].inst][post[p].tx] = @ + 1]
            \/ credits' = credits
        BY <1>5 DEF CreditDeposit
      <3> QED BY <2>1, <3>1, <3>2, AddCredit DEF Credited
    <2> QED BY <1>5, <2>2, <2>3, <2>4, <2>5
            DEF CreditDeposit, NamedOK, DepositsTypeOK, EntryNamed, PostState, InstallRow
  <1>6. CASE ActivateIfFunded(p)
    <2>1. post' \in [Posts -> PostState] /\ PostNamed'
      BY <1>1, <1>6, PostStops, PostStaysNamed DEF ActivateIfFunded
    <2>2. install' \in [Installs -> InstallRow] /\ WalletNamed'
      BY <1>1, <1>6, ActivatedNamed DEF ActivateIfFunded, NamedOK, PostNamed, WalletNamed
    <2> QED BY <1>6, <2>1, <2>2
            DEF ActivateIfFunded, NamedOK, DepositsTypeOK, EntryNamed, PostState, InstallRow
  <1>7. CASE PostDies(p)
    <2>1. post' \in [Posts -> PostState] /\ PostNamed'
      BY <1>1, <1>7, PostStops, PostStaysNamed DEF PostDies
    <2> QED BY <1>7, <2>1, DepositsAssumption
            DEF PostDies, NamedOK, DepositsTypeOK, EntryNamed, WalletNamed, PostState
  <1> QED BY <1>2, <1>3, <1>4, <1>5, <1>6, <1>7

\* A scan: where it is, and what it holds.
ScanState == [at : {"idle", "fetch", "match", "bump", "activate"}, from : Nat, to : Nat,
              logs : SUBSET (Txs \X Wallets), due : SUBSET (Installs \X Txs),
              entry : (Installs \X Txs) \cup {<<>>}]

\* Only the record of s is written.
ScanIs(s, r) == /\ scan' \in [Scanners -> ScanState] /\ scan'[s] = r
                /\ \A o \in Scanners \ {s} : scan'[o] = scan[o]

LEMMA ScanWritten ==
  ASSUME scan \in [Scanners -> ScanState], NEW s \in Scanners, NEW r \in ScanState,
         scan' = [scan EXCEPT ![s] = r]
  PROVE  ScanIs(s, r)
  BY DEF ScanIs

LEMMA LimitIsNat == ASSUME height \in Nat PROVE ScanLimit \in Nat
  BY DepositsAssumption DEF ScanLimit

LEMMA ChunkEndIsNat ==
  ASSUME scan \in [Scanners -> ScanState], NEW s \in Scanners
  PROVE  /\ ChunkEnd(s) \in Nat /\ ChunkEnd(s) <= scan[s].to
         /\ scan[s].from <= scan[s].to => scan[s].from <= ChunkEnd(s)
  <1>1. scan[s].from \in Nat /\ scan[s].to \in Nat
    BY DEF ScanState
  <1> QED BY <1>1, DepositsAssumption DEF ChunkEnd

\* What each statement of a scan makes of its record.
LEMMA ScanSteps ==
  ASSUME NamedOK, NEW s \in Scanners
  PROVE  /\ ScanBegin(s) => ScanIs(s, [scan[s] EXCEPT !.at = "fetch", !.from = cursor + 1,
                                                      !.to = ScanLimit])
         /\ FetchLogs(s) => ScanIs(s, [scan[s] EXCEPT !.at = "match",
                !.logs = {l \in Txs \X Wallets : /\ block[l[1]] \in scan[s].from .. ChunkEnd(s)
                                                 /\ sent[l[1]][l[2]] > 0}])
         /\ BumpBalance(s) => ScanIs(s, [scan[s] EXCEPT !.at = "activate"])
         /\ ScanActivates(s) => ScanIs(s, [scan[s] EXCEPT !.at = "match", !.entry = <<>>])
         /\ ScanDies(s) => ScanIs(s, NoScan)
  <1>1. scan \in [Scanners -> ScanState] /\ scan[s] \in ScanState
    BY DEF NamedOK, DepositsTypeOK, ScanState
  <1>2. cursor + 1 \in Nat /\ ScanLimit \in Nat
    BY LimitIsNat DEF NamedOK, DepositsTypeOK
  <1>3. ASSUME ScanBegin(s)
        PROVE ScanIs(s, [scan[s] EXCEPT !.at = "fetch", !.from = cursor + 1, !.to = ScanLimit])
    <2> DEFINE r == [scan[s] EXCEPT !.at = "fetch", !.from = cursor + 1, !.to = ScanLimit]
    <2>1. r \in ScanState
      BY <1>1, <1>2 DEF ScanState
    <2>2. scan' = [scan EXCEPT ![s] = r]
      BY <1>3 DEF ScanBegin
    <2> QED BY <1>1, <2>1, <2>2, ScanWritten
  <1>4. ASSUME FetchLogs(s)
        PROVE ScanIs(s, [scan[s] EXCEPT !.at = "match",
                !.logs = {l \in Txs \X Wallets : /\ block[l[1]] \in scan[s].from .. ChunkEnd(s)
                                                 /\ sent[l[1]][l[2]] > 0}])
    <2> DEFINE got == {l \in Txs \X Wallets : /\ block[l[1]] \in scan[s].from .. ChunkEnd(s)
                                              /\ sent[l[1]][l[2]] > 0}
               r == [scan[s] EXCEPT !.at = "match", !.logs = got]
    <2>1. got \in SUBSET (Txs \X Wallets)
      OBVIOUS
    <2>2. scan' = [scan EXCEPT ![s] = r]
      BY <1>4 DEF FetchLogs
    <2> HIDE DEF got
    <2>3. r \in ScanState
      BY <1>1, <2>1 DEF ScanState
    <2> QED BY <1>1, <2>2, <2>3, ScanWritten DEF got
  <1>5. ASSUME BumpBalance(s) PROVE ScanIs(s, [scan[s] EXCEPT !.at = "activate"])
    <2> DEFINE r == [scan[s] EXCEPT !.at = "activate"]
    <2>1. r \in ScanState
      BY <1>1 DEF ScanState
    <2>2. scan' = [scan EXCEPT ![s] = r]
      BY <1>5 DEF BumpBalance
    <2> QED BY <1>1, <2>1, <2>2, ScanWritten
  <1>6. ASSUME ScanActivates(s) PROVE ScanIs(s, [scan[s] EXCEPT !.at = "match", !.entry = <<>>])
    <2> DEFINE r == [scan[s] EXCEPT !.at = "match", !.entry = <<>>]
    <2>1. r \in ScanState
      BY <1>1 DEF ScanState
    <2>2. scan' = [scan EXCEPT ![s] = r]
      BY <1>6 DEF ScanActivates
    <2> QED BY <1>1, <2>1, <2>2, ScanWritten
  <1>7. ASSUME ScanDies(s) PROVE ScanIs(s, NoScan)
    <2>1. NoScan \in ScanState
      BY DEF ScanState, NoScan
    <2> QED BY <1>1, <1>7, <2>1, ScanWritten DEF ScanDies
  <1> QED BY <1>3, <1>4, <1>5, <1>6, <1>7

\* One log is matched: to the one bound installation of its wallet, or to none.
Matched(s, l) ==
    LET found == {<<i, l[1]>> : i \in Eligible(l[2])} IN
    \/ /\ Cardinality(Eligible(l[2])) = 1
       /\ ScanIs(s, [scan[s] EXCEPT !.logs = @ \ {l}, !.due = @ \cup found])
       /\ channel' = channel \cup Eligible(l[2]) /\ unmatched' = unmatched
    \/ /\ Cardinality(Eligible(l[2])) # 1
       /\ ScanIs(s, [scan[s] EXCEPT !.logs = @ \ {l}])
       /\ channel' = channel /\ unmatched' = unmatched \cup {l}

LEMMA MatchLogStep ==
  ASSUME NamedOK, NEW s \in Scanners, MatchLog(s)
  PROVE  \E l \in scan[s].logs : l \in Txs \X Wallets /\ Matched(s, l)
  <1>1. scan \in [Scanners -> ScanState] /\ scan[s] \in ScanState
    BY DEF NamedOK, DepositsTypeOK, ScanState
  <1>2. PICK l \in scan[s].logs :
            LET owners == Eligible(l[2]) IN
            /\ scan' = [scan EXCEPT
                  ![s].logs = @ \ {l},
                  ![s].due = IF Cardinality(owners) = 1
                             THEN @ \cup {<<i, l[1]>> : i \in owners} ELSE @]
            /\ channel' = IF Cardinality(owners) = 1 THEN channel \cup owners ELSE channel
            /\ unmatched' = IF Cardinality(owners) = 1 THEN unmatched ELSE unmatched \cup {l}
    BY DEF MatchLog
  <1>3. l \in Txs \X Wallets
    BY <1>1 DEF ScanState
  <1> DEFINE found == {<<i, l[1]>> : i \in Eligible(l[2])}
  <1>4. found \in SUBSET (Installs \X Txs)
    BY <1>3 DEF Eligible
  <1>5. CASE Cardinality(Eligible(l[2])) = 1
    <2> DEFINE r == [scan[s] EXCEPT !.logs = @ \ {l}, !.due = @ \cup found]
    <2>1. scan' = [scan EXCEPT ![s] = r]
      BY <1>2, <1>5
    <2> HIDE DEF found
    <2>2. r \in ScanState
      BY <1>1, <1>4 DEF ScanState
    <2>3. ScanIs(s, r)
      BY <1>1, <2>1, <2>2, ScanWritten
    <2> QED BY <1>2, <1>3, <1>5, <2>3 DEF Matched, found
  <1>6. CASE Cardinality(Eligible(l[2])) # 1
    <2> DEFINE r == [scan[s] EXCEPT !.logs = @ \ {l}]
    <2>1. scan' = [scan EXCEPT ![s] = r]
      BY <1>2, <1>6
    <2>2. r \in ScanState
      BY <1>1 DEF ScanState
    <2>3. ScanIs(s, r)
      BY <1>1, <2>1, <2>2, ScanWritten
    <2> QED BY <1>2, <1>3, <1>6, <2>3 DEF Matched
  <1> QED BY <1>5, <1>6

\* One entry of a chunk is recorded, or passed over.
Inserts(s, d) ==
    \/ /\ LargeEnough(d) /\ ~ Recorded(d[2])
       /\ payment' = [payment EXCEPT ![d[2]] = d[1]]
       /\ ScanIs(s, [scan[s] EXCEPT !.at = "bump", !.due = @ \ {d}, !.entry = d])
    \/ /\ ~ LargeEnough(d) \/ Recorded(d[2])
       /\ payment' = payment
       /\ ScanIs(s, [scan[s] EXCEPT !.due = @ \ {d}])

LEMMA InsertStep ==
  ASSUME NamedOK, NEW s \in Scanners, InsertPayment(s)
  PROVE  \E d \in scan[s].due : d \in Installs \X Txs /\ Inserts(s, d)
  <1>1. scan \in [Scanners -> ScanState] /\ scan[s] \in ScanState
    BY DEF NamedOK, DepositsTypeOK, ScanState
  <1>2. PICK d \in scan[s].due :
           \/ /\ LargeEnough(d) /\ ~ Recorded(d[2])
              /\ payment' = [payment EXCEPT ![d[2]] = d[1]]
              /\ scan' = [scan EXCEPT ![s].at = "bump", ![s].due = @ \ {d}, ![s].entry = d]
           \/ /\ ~ LargeEnough(d) \/ Recorded(d[2])
              /\ scan' = [scan EXCEPT ![s].due = @ \ {d}]
              /\ UNCHANGED payment
    BY DEF InsertPayment
  <1>3. d \in Installs \X Txs
    BY <1>1 DEF ScanState
  <1> DEFINE r == [scan[s] EXCEPT !.at = "bump", !.due = @ \ {d}, !.entry = d]
             q == [scan[s] EXCEPT !.due = @ \ {d}]
  <1>4. r \in ScanState /\ q \in ScanState
    BY <1>1, <1>3 DEF ScanState
  <1>5. scan' = [scan EXCEPT ![s].at = "bump", ![s].due = @ \ {d}, ![s].entry = d]
            => scan' = [scan EXCEPT ![s] = r]
    OBVIOUS
  <1>6. scan' = [scan EXCEPT ![s].due = @ \ {d}] => scan' = [scan EXCEPT ![s] = q]
    OBVIOUS
  <1> HIDE DEF r, q
  <1>7. /\ scan' = [scan EXCEPT ![s] = r] => ScanIs(s, r)
        /\ scan' = [scan EXCEPT ![s] = q] => ScanIs(s, q)
    BY <1>1, <1>4, ScanWritten
  <1> QED BY <1>2, <1>3, <1>5, <1>6, <1>7 DEF Inserts, r, q

LEMMA CursorStep ==
  ASSUME NamedOK, NEW s \in Scanners, WriteCursor(s)
  PROVE  LET next == [NoScan EXCEPT !.at = "fetch", !.from = ChunkEnd(s) + 1, !.to = scan[s].to]
         IN  ScanIs(s, IF ChunkEnd(s) < scan[s].to THEN next ELSE NoScan)
  <1>1. scan \in [Scanners -> ScanState] /\ scan[s] \in ScanState
    BY DEF NamedOK, DepositsTypeOK, ScanState
  <1> DEFINE next == [NoScan EXCEPT !.at = "fetch", !.from = ChunkEnd(s) + 1, !.to = scan[s].to]
             r == IF ChunkEnd(s) < scan[s].to THEN next ELSE NoScan
  <1>2. ChunkEnd(s) + 1 \in Nat /\ scan[s].to \in Nat
    BY <1>1, ChunkEndIsNat DEF ScanState
  <1>3. r \in ScanState
    BY <1>2 DEF ScanState, NoScan
  <1>4. scan' = [scan EXCEPT ![s] = r]
    BY DEF WriteCursor
  <1> HIDE DEF r
  <1>5. ScanIs(s, r)
    BY <1>1, <1>3, <1>4, ScanWritten
  <1> QED BY <1>5 DEF r

ScanStep(s) ==
    \/ ScanBegin(s) \/ FetchLogs(s) \/ MatchLog(s) \/ InsertPayment(s)
    \/ BumpBalance(s) \/ ScanActivates(s) \/ WriteCursor(s) \/ ScanDies(s)
PostStep(p) ==
    \/ \E i \in Installs, t \in Txs : LoadInstall(p, i, t)
    \/ ReadReceipt(p) \/ ReadTip(p) \/ EnsureChannel(p) \/ CreditDeposit(p)
    \/ ActivateIfFunded(p) \/ PostDies(p)
ChainStep == (\E txs \in SUBSET Txs : Mine(txs)) \/ (\E t \in Txs : Fork(t))
InstallStep(i) == Bind(i) \/ \E w \in Wallets : Register(i, w)

LEMMA StepCases ==
  DepositsNext => \/ ChainStep \/ (\E i \in Installs : InstallStep(i))
                  \/ (\E p \in Posts : PostStep(p)) \/ (\E s \in Scanners : ScanStep(s))
  <1>1. \A t \in Txs : {t} \in SUBSET Txs
    OBVIOUS
  <1>2. {} \in SUBSET Txs
    OBVIOUS
  <1> QED BY <1>1, <1>2 DEF DepositsNext, ChainStep, InstallStep, PostStep, ScanStep

\* A written record that keeps the rule keeps it for all.
LEMMA ScanStaysNamed ==
  ASSUME NamedOK, NEW s \in Scanners, NEW r, ScanIs(s, r),
         r.at \in {"bump", "activate"} => r.entry \in Installs \X Txs
  PROVE  scan' \in [Scanners -> ScanState] /\ EntryNamed'
  BY DEF ScanIs, NamedOK, EntryNamed

LEMMA ScanKeepsTypes ==
  ASSUME NamedOK, NEW s \in Scanners, ScanStep(s) PROVE NamedOK'
  <1> USE DEF rows, chain, history
  <1>1. scan \in [Scanners -> ScanState] /\ scan[s] \in ScanState
    BY DEF NamedOK, DepositsTypeOK, ScanState
  <1>2. CASE ScanBegin(s) \/ FetchLogs(s)
    <2> DEFINE got == {l \in Txs \X Wallets : /\ block[l[1]] \in scan[s].from .. ChunkEnd(s)
                                              /\ sent[l[1]][l[2]] > 0}
               b == [scan[s] EXCEPT !.at = "fetch", !.from = cursor + 1, !.to = ScanLimit]
               f == [scan[s] EXCEPT !.at = "match", !.logs = got]
    <2>a. b.at = "fetch" /\ f.at = "match"
      BY <1>1 DEF ScanState
    <2>b. ScanIs(s, b) \/ ScanIs(s, f)
      BY <1>2, ScanSteps
    <2>1. EntryNamed' /\ scan' \in [Scanners -> ScanState]
      <3> HIDE DEF b, f
      <3> QED BY <2>a, <2>b, ScanStaysNamed
    <2> QED BY <1>2, <2>1 DEF ScanBegin, FetchLogs, NamedOK, DepositsTypeOK, PostNamed, WalletNamed,
       ScanState
  <1>3. CASE MatchLog(s)
    <2>1. PICK l \in scan[s].logs : l \in Txs \X Wallets /\ Matched(s, l)
      BY <1>3, MatchLogStep
    <2> DEFINE m == [scan[s] EXCEPT !.logs = @ \ {l},
                                    !.due = @ \cup {<<i, l[1]>> : i \in Eligible(l[2])}]
               u == [scan[s] EXCEPT !.logs = @ \ {l}]
    <2>a. m.at = "match" /\ u.at = "match"
      BY <1>1, <1>3 DEF MatchLog, ScanState
    <2>b. ScanIs(s, m) \/ ScanIs(s, u)
      BY <2>1 DEF Matched
    <2>2. EntryNamed' /\ scan' \in [Scanners -> ScanState]
      <3> HIDE DEF m, u
      <3> QED BY <2>a, <2>b, ScanStaysNamed
    <2>3. channel' \subseteq Installs /\ unmatched' \subseteq Txs \X Wallets
      BY <2>1 DEF Matched, Eligible, NamedOK, DepositsTypeOK
    <2> QED BY <1>3, <2>2, <2>3 DEF MatchLog, NamedOK, DepositsTypeOK, PostNamed, WalletNamed,
       ScanState
  <1>4. CASE InsertPayment(s)
    <2>1. PICK d \in scan[s].due : d \in Installs \X Txs /\ Inserts(s, d)
      BY <1>4, InsertStep
    <2> DEFINE r == [scan[s] EXCEPT !.at = "bump", !.due = @ \ {d}, !.entry = d]
               q == [scan[s] EXCEPT !.due = @ \ {d}]
    <2>a. r.entry = d /\ q.at = "match"
      BY <1>1, <1>4 DEF InsertPayment, ScanState
    <2>b. ScanIs(s, r) \/ ScanIs(s, q)
      BY <2>1 DEF Inserts
    <2>2. EntryNamed' /\ scan' \in [Scanners -> ScanState]
      <3> HIDE DEF r, q
      <3> QED BY <2>1, <2>a, <2>b, ScanStaysNamed
    <2>3. payment' \in [Txs -> Installs \cup {NoInstall}]
      BY <2>1 DEF Inserts, NamedOK, DepositsTypeOK
    <2> QED BY <1>4, <2>2, <2>3 DEF InsertPayment, NamedOK, DepositsTypeOK, PostNamed, WalletNamed,
       ScanState
  <1>5. CASE BumpBalance(s)
    <2>1. EntryNamed' /\ scan' \in [Scanners -> ScanState]
      BY <1>1, <1>5, ScanSteps DEF BumpBalance, ScanIs, EntryNamed, NamedOK, ScanState
    <2>2. scan[s].entry[1] \in Installs /\ scan[s].entry[2] \in Txs
      BY <1>5 DEF BumpBalance, NamedOK, EntryNamed
    <2>3. credits \in [Installs -> [Txs -> Nat]]
          /\ credits' = [credits EXCEPT ![scan[s].entry[1]][scan[s].entry[2]] = @ + 1]
      BY <1>5 DEF BumpBalance, NamedOK, DepositsTypeOK
    <2>4. credits' \in [Installs -> [Txs -> Nat]]
      BY <2>2, <2>3, AddCredit DEF Credited
    <2> QED BY <1>5, <2>1, <2>4 DEF BumpBalance, NamedOK, DepositsTypeOK, PostNamed, WalletNamed,
       ScanState
  <1>6. CASE ScanActivates(s)
    <2>1. EntryNamed' /\ scan' \in [Scanners -> ScanState]
      BY <1>1, <1>6, ScanSteps DEF ScanActivates, ScanIs, EntryNamed, NamedOK, ScanState
    <2>2. scan[s].entry[1] \in Installs
      BY <1>6 DEF ScanActivates, NamedOK, EntryNamed
    <2>3. install' \in [Installs -> InstallRow] /\ WalletNamed'
      BY <1>6, <2>2, ActivatedNamed DEF ScanActivates, NamedOK, DepositsTypeOK, InstallRow
    <2> QED BY <1>6, <2>1, <2>3 DEF ScanActivates, NamedOK, DepositsTypeOK, PostNamed, WalletNamed,
       ScanState,
                                    InstallRow
  <1>7. CASE WriteCursor(s)
    <2> DEFINE n == [NoScan EXCEPT !.at = "fetch", !.from = ChunkEnd(s) + 1, !.to = scan[s].to]
    <2>a. n.at = "fetch" /\ NoScan.at = "idle"
      BY DEF NoScan
    <2>b. ScanIs(s, n) \/ ScanIs(s, NoScan)
      BY <1>7, CursorStep
    <2>1. EntryNamed' /\ scan' \in [Scanners -> ScanState]
      <3> HIDE DEF n
      <3> QED BY <2>a, <2>b, ScanStaysNamed DEF NoScan
    <2>2. cursor' \in Nat
      BY <1>1, <1>7, ChunkEndIsNat DEF WriteCursor
    <2> QED BY <1>7, <2>1, <2>2 DEF WriteCursor, NamedOK, DepositsTypeOK, PostNamed, WalletNamed,
       ScanState
  <1>8. CASE ScanDies(s)
    <2>1. EntryNamed' /\ scan' \in [Scanners -> ScanState]
      <3>1. NoScan.at = "idle" /\ ScanIs(s, NoScan)
        BY <1>8, ScanSteps DEF NoScan
      <3> QED BY <3>1, ScanStaysNamed
    <2>2. dropped' \subseteq Txs /\ depositFaults' \in Nat
      BY <1>8, DepositsAssumption DEF ScanDies, NamedOK, EntryNamed, DepositsTypeOK
    <2> QED BY <1>8, <2>1, <2>2 DEF ScanDies, NamedOK, DepositsTypeOK, PostNamed, WalletNamed,
       ScanState
  <1> QED BY <1>2, <1>3, <1>4, <1>5, <1>6, <1>7, <1>8 DEF ScanStep

LEMMA TypesStay == ASSUME NamedOK, [DepositsNext]_depositVars PROVE NamedOK'
  <1>1. CASE UNCHANGED depositVars
    BY <1>1 DEF depositVars, NamedOK, DepositsTypeOK, PostNamed, EntryNamed, WalletNamed
  <1> QED BY <1>1, StepCases, ChainKeepsTypes, InstallKeepsTypes, PostKeepsTypes, ScanKeepsTypes
          DEF ChainStep, InstallStep, PostStep

-----------------------------------------------------------------------------
(* What calls and scans know, and what no step undoes.                     *)

\* No fork replaces the transaction's block any more.
Final(t) == block[t] \in 1 .. height - Depth + 1
\* The channel and the transaction an entry of a scan names.
Ready(d) == install[d[1]].status \in Bound /\ d[1] \in channel /\ Final(d[2])

\* A transaction that may be recorded for an installation: out of reach, and
\* its wallet's transfer counts; or a fork took it from under a call.
Settled(t, i) == t \in stale \/ (Final(t) /\ Pays(t, i))
\* What the receipt said, unless a fork came since.
ReceiptHolds(p) ==
    \/ post[p].tx \in stale
    \/ /\ post[p].seen > 0 /\ block[post[p].tx] = post[p].seen
       /\ post[p].pays => Pays(post[p].tx, post[p].inst)

PostKnows(p) ==
    /\ post[p].at \in {"verify", "tip", "channel", "credit", "activate"}
           => install[post[p].inst].status \in Bound
    /\ post[p].at = "tip" => ReceiptHolds(p)
    /\ post[p].at \in {"channel", "credit", "activate"} => Settled(post[p].tx, post[p].inst)
    /\ post[p].at \in {"credit", "activate"} => post[p].inst \in channel

ScanKnows(s) ==
    /\ scan[s].at # "idle" => scan[s].from >= 1 /\ scan[s].to <= height - Depth + 1
    /\ \A l \in scan[s].logs : Final(l[1])
    /\ \A d \in scan[s].due : Ready(d)
    /\ scan[s].at \in {"bump", "activate"} =>
           Ready(scan[s].entry) /\ payment[scan[s].entry[2]] = scan[s].entry[1]
    /\ scan[s].at = "activate" => credits[scan[s].entry[1]][scan[s].entry[2]] > 0
    /\ scan[s].at = "bump" => scan[s].entry[2] \notin dropped

\* At most one scan is about to add a transaction's amount.
OneAdder ==
    \A s, q \in Scanners : scan[s].at = "bump" /\ scan[q].at = "bump"
                           /\ scan[s].entry[2] = scan[q].entry[2] => s = q

DroppedRecorded == \A t \in dropped : Recorded(t)

\* A payment row is a bound installation's whose wallet paid the minimum.
RowPaid(t) == Recorded(t) => install[payment[t]].status \in Bound /\ Settled(t, payment[t])
RowsPaid == \A t \in Txs : RowPaid(t)

KnowsInv ==
    /\ NamedOK
    /\ \A p \in Posts : PostKnows(p)
    /\ \A s \in Scanners : ScanKnows(s)
    /\ OneAdder
    /\ DroppedRecorded
    /\ RowsPaid

DepositsInv == KnowsInv /\ BalanceIsDeposits /\ ActiveIsFunded

\* What no step undoes.
Progress ==
    /\ height' >= height
    /\ \A t \in Txs : Final(t) => block'[t] = block[t] /\ sent'[t] = sent[t]
    /\ \A t \in Txs : block'[t] \in 1 .. height - Depth + 1 => Final(t)
    /\ \A t \in Txs : HoldsReceipt(t) /\ block[t] > 0 =>
           t \in stale' \/ (block'[t] = block[t] /\ sent'[t] = sent[t])
    /\ stale \subseteq stale'
    /\ channel \subseteq channel'
    /\ \A t \in Txs : Recorded(t) => payment'[t] = payment[t]
    /\ \A i \in Installs : install[i].status \in Bound =>
           install'[i].status \in Bound /\ install'[i].wallet = install[i].wallet
    /\ \A i \in Installs, t \in Txs : credits'[i][t] >= credits[i][t]

LEMMA ChainProgress == ASSUME NamedOK, ChainStep PROVE Progress
  <1>1. ASSUME NEW txs \in SUBSET Txs, Mine(txs) PROVE Progress
    BY <1>1, DepositsAssumption DEF Mine, rows, history, NamedOK, DepositsTypeOK, Progress, Final, Recorded
  <1>2. ASSUME NEW t \in Txs, Fork(t) PROVE Progress
    BY <1>2, DepositsAssumption DEF Fork, rows, NamedOK, DepositsTypeOK, Progress, Final, Recorded
  <1> QED BY <1>1, <1>2 DEF ChainStep

LEMMA InstallProgress == ASSUME NamedOK, NEW i \in Installs, InstallStep(i) PROVE Progress
  <1>1. CASE Bind(i)
    <2>1. \A o \in Installs : install[o].status \in Bound => install'[o] = install[o]
      BY <1>1 DEF Bind, NamedOK, DepositsTypeOK, Bound
    <2> QED BY <1>1, <2>1 DEF Bind, chain, history, NamedOK, DepositsTypeOK, Progress, Final, Recorded
  <1>2. ASSUME NEW w \in Wallets, Register(i, w) PROVE Progress
    <2>1. \A o \in Installs : install[o].status \in Bound => install'[o] = install[o]
      BY <1>2 DEF Register, NamedOK, DepositsTypeOK, Bound
    <2> QED BY <1>2, <2>1 DEF Register, chain, history, NamedOK, DepositsTypeOK, Progress, Final, Recorded
  <1> QED BY <1>1, <1>2 DEF InstallStep

\* A row that is set to active stays bound, with its wallet.
LEMMA ActivatedStaysBound ==
  ASSUME install \in [Installs -> InstallRow], NEW i \in Installs, install' = Activated(i)
  PROVE  \A o \in Installs :
             /\ install[o].status \in Bound =>
                    install'[o].status \in Bound /\ install'[o].wallet = install[o].wallet
             /\ install'[o].status = "active" => install[o].status = "active" \/ o = i
  BY ActivatedRow DEF Bound

LEMMA PostProgress == ASSUME NamedOK, NEW p \in Posts, PostStep(p) PROVE Progress
  <1> USE DEF rows, chain, history
  <1>1. install \in [Installs -> InstallRow] /\ credits \in [Installs -> [Txs -> Nat]]
    BY DEF NamedOK, DepositsTypeOK, InstallRow
  <1>2. CASE (\E i \in Installs, t \in Txs : LoadInstall(p, i, t))
              \/ ReadReceipt(p) \/ ReadTip(p) \/ PostDies(p)
    <2>1. UNCHANGED <<install, channel, credits, payment, height, block, sent, stale>>
      BY <1>2 DEF LoadInstall, ReadReceipt, ReadTip, PostDies
    <2> QED BY <1>1, <2>1 DEF NamedOK, DepositsTypeOK, Progress, Final
  <1>3. CASE EnsureChannel(p)
    BY <1>1, <1>3 DEF EnsureChannel, NamedOK, DepositsTypeOK, Progress, Final
  <1>4. CASE CreditDeposit(p)
    <2>1. post[p].inst \in Installs /\ post[p].tx \in Txs
      BY <1>4 DEF CreditDeposit, NamedOK, PostNamed
    <2>2. \A o \in Installs : install[o].status \in Bound =>
              install'[o].status \in Bound /\ install'[o].wallet = install[o].wallet
      BY <1>1, <1>4, <2>1, ActivatedStaysBound DEF CreditDeposit
    <2>3. \A t \in Txs : Recorded(t) => payment'[t] = payment[t]
      BY <1>4, <2>1 DEF CreditDeposit, Recorded, NamedOK, DepositsTypeOK
    <2>4. \/ credits' = [credits EXCEPT ![post[p].inst][post[p].tx] = @ + 1]
          \/ credits' = credits
      BY <1>4 DEF CreditDeposit
    <2>5. \A i \in Installs, t \in Txs : credits'[i][t] >= credits[i][t]
      <3>1. credits' = credits \/ Credited(post[p].inst, post[p].tx)
        BY <1>1, <2>1, <2>4, AddCredit
      <3> QED BY <1>1, <2>1, <3>1 DEF Credited
    <2> QED BY <1>4, <2>2, <2>3, <2>5 DEF CreditDeposit, NamedOK, DepositsTypeOK, Progress, Final
  <1>5. CASE ActivateIfFunded(p)
    <2>1. post[p].inst \in Installs
      BY <1>5 DEF ActivateIfFunded, NamedOK, PostNamed
    <2>2. \A o \in Installs : install[o].status \in Bound =>
              install'[o].status \in Bound /\ install'[o].wallet = install[o].wallet
      BY <1>1, <1>5, <2>1, ActivatedStaysBound DEF ActivateIfFunded
    <2> QED BY <1>1, <1>5, <2>2 DEF ActivateIfFunded, NamedOK, DepositsTypeOK, Progress, Final
  <1> QED BY <1>2, <1>3, <1>4, <1>5 DEF PostStep

LEMMA ScanProgress == ASSUME NamedOK, NEW s \in Scanners, ScanStep(s) PROVE Progress
  <1> USE DEF rows, chain, history
  <1>1. install \in [Installs -> InstallRow] /\ credits \in [Installs -> [Txs -> Nat]]
    BY DEF NamedOK, DepositsTypeOK, InstallRow
  <1>2. CASE ScanBegin(s) \/ FetchLogs(s) \/ WriteCursor(s) \/ ScanDies(s)
    BY <1>1, <1>2 DEF ScanBegin, FetchLogs, WriteCursor, ScanDies, NamedOK, DepositsTypeOK, Progress,
       Final
  <1>3. CASE MatchLog(s)
    <2>1. channel \subseteq channel'
      BY <1>3, MatchLogStep DEF Matched
    <2> QED BY <1>1, <1>3, <2>1 DEF MatchLog, NamedOK, DepositsTypeOK, Progress, Final
  <1>4. CASE InsertPayment(s)
    <2>1. \A t \in Txs : Recorded(t) => payment'[t] = payment[t]
      BY <1>4, InsertStep DEF Inserts, Recorded, NamedOK, DepositsTypeOK
    <2> QED BY <1>1, <1>4, <2>1 DEF InsertPayment, NamedOK, DepositsTypeOK, Progress, Final
  <1>5. CASE BumpBalance(s)
    <2>1. scan[s].entry[1] \in Installs /\ scan[s].entry[2] \in Txs
      BY <1>5 DEF BumpBalance, NamedOK, EntryNamed
    <2>2. Credited(scan[s].entry[1], scan[s].entry[2])
      BY <1>1, <1>5, <2>1, AddCredit DEF BumpBalance
    <2>3. \A i \in Installs, t \in Txs : credits'[i][t] >= credits[i][t]
      BY <1>1, <2>1, <2>2 DEF Credited
    <2> QED BY <1>5, <2>3 DEF BumpBalance, NamedOK, DepositsTypeOK, Progress, Final
  <1>6. CASE ScanActivates(s)
    <2>1. scan[s].entry[1] \in Installs
      BY <1>6 DEF ScanActivates, NamedOK, EntryNamed
    <2>2. \A o \in Installs : install[o].status \in Bound =>
              install'[o].status \in Bound /\ install'[o].wallet = install[o].wallet
      BY <1>1, <1>6, <2>1, ActivatedStaysBound DEF ScanActivates
    <2> QED BY <1>1, <1>6, <2>2 DEF ScanActivates, NamedOK, DepositsTypeOK, Progress, Final
  <1> QED BY <1>2, <1>3, <1>4, <1>5, <1>6 DEF ScanStep

\* What is known of a transaction or an owner stays true.
LEMMA StillKnown ==
  ASSUME NamedOK, NamedOK', Progress
  PROVE  /\ \A t \in Txs : Final(t) => Final(t)'
         /\ \A d \in Installs \X Txs : Ready(d) => Ready(d)'
         /\ \A t \in Txs, i \in Installs :
                install[i].status \in Bound /\ Settled(t, i) => Settled(t, i)'
         /\ \A t \in Txs : Recorded(t) => Recorded(t)'
         /\ height' >= height
  <1>1. \A t \in Txs : Final(t) => Final(t)'
    BY DepositsAssumption DEF NamedOK, DepositsTypeOK, Progress, Final
  <1>2. \A d \in Installs \X Txs : Ready(d) => Ready(d)'
    BY <1>1 DEF Progress, Ready
  <1>3. \A t \in Txs, i \in Installs :
            install[i].status \in Bound /\ Settled(t, i) => Settled(t, i)'
    BY <1>1 DEF Progress, Settled, Pays
  <1> QED BY <1>1, <1>2, <1>3 DEF Progress, Recorded

-----------------------------------------------------------------------------
(* What is known stays known.                                              *)

LEMMA DepositsStart == DepositsInit => DepositsInv
  <1> SUFFICES ASSUME DepositsInit PROVE DepositsInv
    OBVIOUS
  <1>1. \A p \in Posts : post[p].at = "idle"
    BY DEF DepositsInit, NoPost
  <1>2. \A s \in Scanners : scan[s].at = "idle" /\ scan[s].logs = {} /\ scan[s].due = {}
    BY DEF DepositsInit, NoScan
  <1>3. \A p \in Posts : PostKnows(p)
    BY <1>1 DEF PostKnows
  <1>4. \A s \in Scanners : ScanKnows(s)
    BY <1>2 DEF ScanKnows
  <1>5. OneAdder /\ DroppedRecorded /\ RowsPaid
    BY <1>2 DEF OneAdder, DroppedRecorded, RowsPaid, RowPaid, Recorded, DepositsInit
  <1>6. BalanceIsDeposits
    BY <1>2, DepositsAssumption DEF BalanceIsDeposits, BeingAdded, DepositsInit
  <1>7. ActiveIsFunded
    BY DEF ActiveIsFunded, DepositsInit
  <1> QED BY <1>3, <1>4, <1>5, <1>6, <1>7, TypeStarts DEF DepositsInv, KnowsInv

\* A call whose record is as before knows what it knew.
LEMMA PostStillKnows ==
  ASSUME NamedOK, NamedOK', Progress, NEW p \in Posts, PostKnows(p), post'[p] = post[p]
  PROVE  PostKnows(p)'
  <1>1. CASE post[p].at \in {"idle", "done"}
    BY <1>1 DEF PostKnows
  <1>2. CASE post[p].at \notin {"idle", "done"}
    <2>1. PICK t \in Txs, i \in Installs : t = post[p].tx /\ i = post[p].inst
      BY <1>2 DEF NamedOK, PostNamed
    <2>2. install[i].status \in Bound /\ install'[i].status \in Bound
          /\ install'[i].wallet = install[i].wallet
      BY <1>2, <2>1 DEF PostKnows, Progress, NamedOK, DepositsTypeOK
    <2>3. post[p].at = "tip" => ReceiptHolds(p)'
      BY <2>1, <2>2 DEF PostKnows, ReceiptHolds, HoldsReceipt, Pays, Progress
    <2>4. post[p].at \in {"channel", "credit", "activate"} => Settled(t, i)'
      BY <2>1, <2>2, StillKnown DEF PostKnows
    <2> QED BY <2>1, <2>2, <2>3, <2>4 DEF PostKnows, Settled, Progress
  <1> QED BY <1>1, <1>2

\* So does a scan.
LEMMA ScanStillKnows ==
  ASSUME NamedOK, NamedOK', Progress, NEW s \in Scanners, ScanKnows(s), scan'[s] = scan[s],
         scan[s].at = "bump" => scan[s].entry[2] \notin dropped'
  PROVE  ScanKnows(s)'
  <1>1. /\ \A l \in scan[s].logs : l[1] \in Txs
        /\ \A d \in scan[s].due : d \in Installs \X Txs
        /\ scan[s].from \in Nat /\ scan[s].to \in Nat
    BY DEF NamedOK, DepositsTypeOK
  <1>2. (\A l \in scan[s].logs : Final(l[1]))' /\ (\A d \in scan[s].due : Ready(d))'
    BY <1>1, StillKnown DEF ScanKnows
  <1>3. (scan[s].at # "idle" => scan[s].from >= 1 /\ scan[s].to <= height - Depth + 1)'
    <2>1. height \in Nat /\ height' \in Nat /\ height' >= height /\ Depth \in Nat
      BY StillKnown, DepositsAssumption DEF NamedOK, DepositsTypeOK
    <2> QED BY <1>1, <2>1 DEF ScanKnows
  <1>4. CASE scan[s].at \in {"bump", "activate"}
    <2>1. /\ scan[s].entry \in Installs \X Txs
          /\ scan[s].entry[1] \in Installs /\ scan[s].entry[2] \in Txs
      BY <1>4 DEF NamedOK, EntryNamed
    <2>2. Ready(scan[s].entry) /\ payment[scan[s].entry[2]] = scan[s].entry[1]
      BY <1>4 DEF ScanKnows
    <2>3. Recorded(scan[s].entry[2])
      BY <2>1, <2>2, DepositsAssumption DEF Recorded
    <2>4. \A d \in Installs \X Txs : Ready(d) => Ready(d)'
      BY StillKnown
    <2>5. Ready(scan[s].entry)' /\ (payment[scan[s].entry[2]] = scan[s].entry[1])'
      <3> DEFINE e == scan[s].entry
      <3>1. /\ install'[e[1]].status \in Bound /\ e[1] \in channel'
            /\ block'[e[2]] \in 1 .. height' - Depth + 1
        BY <2>1, <2>2, <2>4 DEF Ready, Final
      <3> QED BY <2>1, <2>2, <2>3, <3>1 DEF Progress, Ready, Final
    <2>6. credits[scan[s].entry[1]][scan[s].entry[2]] > 0
              => credits'[scan[s].entry[1]][scan[s].entry[2]] > 0
      BY <2>1 DEF Progress, NamedOK, DepositsTypeOK
    <2> QED BY <1>2, <1>3, <2>5, <2>6 DEF ScanKnows
  <1>5. CASE scan[s].at \notin {"bump", "activate"}
    BY <1>2, <1>3, <1>5 DEF ScanKnows
  <1> QED BY <1>4, <1>5

\* Steps that write no record of a scan leave all scans with what they know.
LEMMA ScansUntouched ==
  ASSUME KnowsInv, NamedOK', Progress, scan' = scan, dropped' = dropped
  PROVE  (\A s \in Scanners : ScanKnows(s)') /\ OneAdder' /\ DroppedRecorded'
  <1>1. \A s \in Scanners : ScanKnows(s)'
    BY ScanStillKnows DEF KnowsInv, ScanKnows
  <1>2. OneAdder'
    BY DEF KnowsInv, OneAdder
  <1>3. DroppedRecorded'
    BY StillKnown DEF KnowsInv, DroppedRecorded, NamedOK, DepositsTypeOK
  <1> QED BY <1>1, <1>2, <1>3

LEMMA PostsUntouched ==
  ASSUME KnowsInv, NamedOK', Progress, post' = post
  PROVE  \A p \in Posts : PostKnows(p)'
  BY PostStillKnows DEF KnowsInv

\* A call's own step.
LEMMA PostKnowsMore ==
  ASSUME KnowsInv, NamedOK', Progress, NEW p \in Posts, PostStep(p)
  PROVE  PostKnows(p)' /\ \A o \in Posts \ {p} : post'[o] = post[o]
  <1> USE DEF KnowsInv
  <1>1. post \in [Posts -> PostState] /\ PostKnows(p)
    BY DEF NamedOK, DepositsTypeOK, PostState
  <1>2. ASSUME NEW i \in Installs, NEW t \in Txs, LoadInstall(p, i, t)
        PROVE PostKnows(p)' /\ \A o \in Posts \ {p} : post'[o] = post[o]
    <2>1. post'[p].at = "verify" /\ post'[p].inst = i /\ install'[i].status \in Bound
      BY <1>1, <1>2 DEF LoadInstall, rows, PostState, NoPost
    <2> QED BY <1>1, <1>2, <2>1 DEF LoadInstall, PostKnows
  <1>3. CASE ReadReceipt(p) \/ ReadTip(p)
    <2>1. PICK t \in Txs, i \in Installs :
              /\ t = post[p].tx /\ i = post[p].inst /\ block[t] \in Nat /\ height \in Nat
              /\ install[i].status \in Bound
      BY <1>1, <1>3 DEF ReadReceipt, ReadTip, NamedOK, PostNamed, DepositsTypeOK, PostKnows
    <2>2. UNCHANGED <<install, block, sent, height, stale>>
      BY <1>3 DEF ReadReceipt, ReadTip, rows, chain, history
    <2>3. CASE PostStays(p, "done")
      BY <2>3 DEF PostStays, PostKnows
    <2>4. CASE /\ PostStays(p, "tip") /\ block[t] > 0 /\ post'[p].seen = block[t]
               /\ post'[p].pays = Pays(t, i)
      <3>1. post'[p].at = "tip" /\ post'[p].tx = t /\ post'[p].inst = i
        BY <2>1, <2>4 DEF PostStays
      <3>2. ReceiptHolds(p)'
        BY <2>2, <2>4, <3>1 DEF ReceiptHolds, Pays
      <3> QED BY <2>1, <2>2, <2>4, <3>1, <3>2 DEF PostStays, PostKnows
    <2>5. CASE ReadTip(p) /\ PostStays(p, "channel") /\ Confirmed(p) /\ post[p].pays
      <3>1. post'[p].at = "channel" /\ post'[p].tx = t /\ post'[p].inst = i
        BY <2>1, <2>5 DEF PostStays
      <3>2. ReceiptHolds(p)
        BY <1>1, <2>5 DEF ReadTip, PostKnows
      <3>3. Settled(t, i)
        <4>1. CASE t \in stale
          BY <4>1 DEF Settled
        <4>2. CASE t \notin stale
          <5>1. block[t] > 0 /\ height - block[t] + 1 >= Depth /\ Pays(t, i)
            BY <2>1, <2>5, <3>2, <4>2 DEF ReceiptHolds, Confirmed
          <5> QED BY <2>1, <5>1, DepositsAssumption DEF Settled, Final
        <4> QED BY <4>1, <4>2
      <3>4. Settled(t, i)'
        BY <2>2, <3>3 DEF Settled, Final, Pays
      <3> QED BY <2>1, <2>2, <2>5, <3>1, <3>4 DEF PostStays, PostKnows, Settled, Final, Pays
    <2>6. CASE ReadReceipt(p)
      BY <1>1, <2>1, <2>3, <2>4, <2>6, ReadReceiptStep
    <2>7. CASE ReadTip(p)
      BY <1>1, <2>3, <2>5, <2>7, ReadTipStep
    <2> QED BY <1>3, <2>6, <2>7
  <1>4. ASSUME EnsureChannel(p) \/ CreditDeposit(p)
        PROVE PostKnows(p)' /\ \A o \in Posts \ {p} : post'[o] = post[o]
    <2>1. PICK t \in Txs, i \in Installs :
              /\ t = post[p].tx /\ i = post[p].inst
              /\ install[i].status \in Bound /\ Settled(t, i)
      BY <1>1, <1>4 DEF EnsureChannel, CreditDeposit, NamedOK, PostNamed, PostKnows
    <2>2. install'[i].status \in Bound /\ Settled(t, i)'
      BY <2>1, StillKnown DEF Progress
    <2>3. \/ PostStays(p, "credit") /\ i \in channel'
          \/ PostStays(p, "activate") /\ i \in channel'
          \/ PostStays(p, "done")
      BY <1>1, <1>4, <2>1, PostMoves, PostStops DEF EnsureChannel, CreditDeposit, PostKnows
    <2>4. \/ post'[p].at = "done"
          \/ /\ post'[p].at \in {"credit", "activate"} /\ i \in channel'
             /\ post'[p].tx = t /\ post'[p].inst = i
      BY <2>1, <2>3 DEF PostStays
    <2>5. \A o \in Posts \ {p} : post'[o] = post[o]
      BY <2>3 DEF PostStays
    <2> QED BY <2>2, <2>4, <2>5 DEF PostKnows, Settled, Final, Pays
  <1>6. CASE ActivateIfFunded(p) \/ PostDies(p)
    <2>1. PostStays(p, "done")
      BY <1>1, <1>6, PostStops DEF ActivateIfFunded, PostDies
    <2> QED BY <2>1 DEF PostStays, PostKnows
  <1> QED BY <1>2, <1>3, <1>4, <1>6 DEF PostStep

LEMMA PostsKnow ==
  ASSUME KnowsInv, NamedOK', Progress, NEW p \in Posts, PostStep(p)
  PROVE  \A o \in Posts : PostKnows(o)'
  <1>1. PostKnows(p)' /\ \A o \in Posts \ {p} : post'[o] = post[o]
    BY PostKnowsMore
  <1>2. ASSUME NEW o \in Posts \ {p} PROVE PostKnows(o)'
    BY <1>1, <1>2, PostStillKnows DEF KnowsInv
  <1> QED BY <1>1, <1>2

\* Where a scan is after its own step; what it holds was held or has been read.
LEMMA ScanKnowsMore ==
  ASSUME KnowsInv, NamedOK', Progress, NEW s \in Scanners, ScanStep(s)
  PROVE  ScanKnows(s)' /\ \A o \in Scanners \ {s} : scan'[o] = scan[o]
  <1> USE DEF rows, chain, history
  <1>1. /\ scan \in [Scanners -> ScanState] /\ scan[s] \in ScanState /\ ScanKnows(s)
        /\ NamedOK /\ height \in Nat /\ height' \in Nat /\ Depth \in Nat /\ cursor \in Nat
    BY DepositsAssumption DEF KnowsInv, NamedOK, DepositsTypeOK, ScanState
  <1>2. /\ \A t \in Txs : Final(t) => Final(t)'
        /\ \A d \in Installs \X Txs : Ready(d) => Ready(d)'
        /\ height' >= height
    BY <1>1, StillKnown
  <1>3. (\A l \in scan[s].logs : l[1] \in Txs) /\ \A d \in scan[s].due : d \in Installs \X Txs
    BY <1>1 DEF ScanState
  <1>4. /\ \A l \in scan[s].logs : Final(l[1])'
        /\ \A d \in scan[s].due : Ready(d)'
    BY <1>1, <1>2, <1>3 DEF ScanKnows
  <1>5. scan[s].at # "idle" => scan[s].from >= 1 /\ scan[s].to <= height' - Depth + 1
    BY <1>1, <1>2 DEF ScanKnows, ScanState
  <1>6. CASE ScanBegin(s)
    <2>1. ScanIs(s, [scan[s] EXCEPT !.at = "fetch", !.from = cursor + 1, !.to = ScanLimit])
      BY <1>1, <1>6, ScanSteps
    <2>2. /\ scan'[s].at = "fetch" /\ scan'[s].from = cursor + 1 /\ scan'[s].to = ScanLimit
          /\ scan'[s].logs = scan[s].logs /\ scan'[s].due = scan[s].due
          /\ \A o \in Scanners \ {s} : scan'[o] = scan[o]
      BY <1>1, <2>1 DEF ScanIs, ScanState
    <2>3. cursor + 1 >= 1 /\ ScanLimit <= height' - Depth + 1
      BY <1>1, <1>2, <1>6 DEF ScanBegin, ScanLimit
    <2> QED BY <1>4, <2>2, <2>3 DEF ScanKnows
  <1>7. CASE FetchLogs(s)
    <2> DEFINE got == {l \in Txs \X Wallets : /\ block[l[1]] \in scan[s].from .. ChunkEnd(s)
                                              /\ sent[l[1]][l[2]] > 0}
    <2>1. ScanIs(s, [scan[s] EXCEPT !.at = "match", !.logs = got])
      BY <1>1, <1>7, ScanSteps
    <2>2. /\ scan'[s].at = "match" /\ scan'[s].from = scan[s].from /\ scan'[s].to = scan[s].to
          /\ scan'[s].logs = got /\ scan'[s].due = scan[s].due
          /\ \A o \in Scanners \ {s} : scan'[o] = scan[o]
      <3> HIDE DEF got
      <3> QED BY <1>1, <2>1 DEF ScanIs, ScanState
    <2>3. ASSUME NEW l \in got PROVE Final(l[1])'
      <3>1. l[1] \in Txs /\ block[l[1]] \in scan[s].from .. ChunkEnd(s)
        BY <2>3
      <3>2. block[l[1]] \in Nat /\ scan[s].from \in Nat /\ scan[s].to \in Nat
        BY <1>1, <3>1 DEF NamedOK, DepositsTypeOK, ScanState
      <3>3. scan[s].from >= 1 /\ scan[s].to <= height - Depth + 1
        BY <1>1, <1>7 DEF FetchLogs, ScanKnows
      <3>4. ChunkEnd(s) \in Nat /\ ChunkEnd(s) <= scan[s].to
        BY <1>1, ChunkEndIsNat
      <3>5. Final(l[1])
        BY <1>1, <3>1, <3>2, <3>3, <3>4 DEF Final
      <3> QED BY <1>2, <3>1, <3>5
    <2>4. \A l \in scan'[s].logs : Final(l[1])'
      BY <2>2, <2>3
    <2> HIDE DEF got
    <2> QED BY <1>4, <1>5, <1>7, <2>2, <2>4 DEF FetchLogs, ScanKnows
  <1>8. CASE MatchLog(s)
    <2>1. PICK l \in scan[s].logs : l \in Txs \X Wallets /\ Matched(s, l)
      BY <1>1, <1>8, MatchLogStep
    <2>2. /\ scan'[s].at = "match" /\ scan'[s].from = scan[s].from /\ scan'[s].to = scan[s].to
          /\ scan'[s].logs = scan[s].logs \ {l}
          /\ \A o \in Scanners \ {s} : scan'[o] = scan[o]
          /\ \/ scan'[s].due = scan[s].due
             \/ /\ scan'[s].due = scan[s].due \cup {<<i, l[1]>> : i \in Eligible(l[2])}
                /\ Eligible(l[2]) \subseteq channel'
      BY <1>1, <1>8, <2>1 DEF MatchLog, Matched, ScanIs, ScanState
    <2>3. Final(l[1])' /\ l[1] \in Txs
      BY <1>4, <2>1
    <2>4. ASSUME NEW i \in Eligible(l[2]), Eligible(l[2]) \subseteq channel'
          PROVE Ready(<<i, l[1]>>)'
      <3>1. i \in Installs /\ install'[i].status \in Bound /\ i \in channel'
        BY <2>4 DEF Eligible, Progress
      <3> QED BY <2>3, <3>1 DEF Ready
    <2>5. \A d \in scan'[s].due : Ready(d)'
      BY <1>4, <2>2, <2>4
    <2> QED BY <1>4, <1>5, <1>8, <2>2, <2>5 DEF MatchLog, ScanKnows
  <1>9. CASE InsertPayment(s)
    <2>1. PICK d \in scan[s].due : d \in Installs \X Txs /\ Inserts(s, d)
      BY <1>1, <1>9, InsertStep
    <2>2. /\ scan'[s].from = scan[s].from /\ scan'[s].to = scan[s].to
          /\ scan'[s].logs = scan[s].logs /\ scan'[s].due = scan[s].due \ {d}
          /\ \A o \in Scanners \ {s} : scan'[o] = scan[o]
          /\ \/ scan'[s].at = "match"
             \/ /\ scan'[s].at = "bump" /\ scan'[s].entry = d /\ ~ Recorded(d[2])
                /\ payment' = [payment EXCEPT ![d[2]] = d[1]]
      BY <1>1, <1>9, <2>1 DEF InsertPayment, Inserts, ScanIs, ScanState
    <2>3. CASE scan'[s].at = "match"
      BY <1>4, <1>5, <1>9, <2>2, <2>3 DEF InsertPayment, ScanKnows
    <2>4. CASE scan'[s].at = "bump"
      <3>1. scan'[s].entry = d /\ ~ Recorded(d[2]) /\ payment'[d[2]] = d[1]
        BY <1>1, <2>1, <2>2, <2>4 DEF NamedOK, DepositsTypeOK
      <3>2. Ready(scan[s].entry)'
        BY <1>4, <2>1, <3>1 DEF Ready, Final
      <3>3. d[2] \notin dropped
        BY <3>1 DEF KnowsInv, DroppedRecorded
      <3> QED BY <1>4, <1>5, <1>9, <2>2, <2>4, <3>1, <3>2, <3>3 DEF InsertPayment, ScanKnows
    <2> QED BY <2>2, <2>3, <2>4
  <1>10. CASE BumpBalance(s)
    <2>1. ScanIs(s, [scan[s] EXCEPT !.at = "activate"])
      BY <1>1, <1>10, ScanSteps
    <2>2. /\ scan'[s].at = "activate" /\ scan'[s].from = scan[s].from /\ scan'[s].to = scan[s].to
          /\ scan'[s].logs = scan[s].logs /\ scan'[s].due = scan[s].due
          /\ scan'[s].entry = scan[s].entry
          /\ \A o \in Scanners \ {s} : scan'[o] = scan[o]
      BY <1>1, <2>1 DEF ScanIs, ScanState
    <2>3. scan[s].entry[1] \in Installs /\ scan[s].entry[2] \in Txs
          /\ scan[s].entry \in Installs \X Txs
      BY <1>1, <1>10 DEF BumpBalance, NamedOK, EntryNamed
    <2>4. Ready(scan[s].entry) /\ payment[scan[s].entry[2]] = scan[s].entry[1]
      BY <1>1, <1>10 DEF BumpBalance, ScanKnows
    <2>5. Ready(scan[s].entry)'
      BY <1>2, <2>2, <2>3, <2>4 DEF Ready, Final, Progress
    <2>6. Credited(scan[s].entry[1], scan[s].entry[2])
      BY <1>1, <1>10, <2>3, AddCredit DEF BumpBalance, NamedOK, DepositsTypeOK
    <2>7. credits'[scan[s].entry[1]][scan[s].entry[2]] > 0
      BY <1>1, <2>3, <2>6 DEF Credited, NamedOK, DepositsTypeOK
    <2> QED BY <1>4, <1>5, <1>10, <2>2, <2>4, <2>5, <2>7 DEF BumpBalance, ScanKnows
  <1>11. CASE ScanActivates(s)
    <2>1. ScanIs(s, [scan[s] EXCEPT !.at = "match", !.entry = <<>>])
      BY <1>1, <1>11, ScanSteps
    <2>2. /\ scan'[s].at = "match" /\ scan'[s].from = scan[s].from /\ scan'[s].to = scan[s].to
          /\ scan'[s].logs = scan[s].logs /\ scan'[s].due = scan[s].due
          /\ \A o \in Scanners \ {s} : scan'[o] = scan[o]
      BY <1>1, <2>1 DEF ScanIs, ScanState
    <2> QED BY <1>4, <1>5, <1>11, <2>2 DEF ScanActivates, ScanKnows
  <1>12. CASE WriteCursor(s)
    <2> DEFINE n == [NoScan EXCEPT !.at = "fetch", !.from = ChunkEnd(s) + 1, !.to = scan[s].to]
    <2>1. ScanIs(s, n) \/ ScanIs(s, NoScan)
      BY <1>1, <1>12, CursorStep
    <2>2. /\ NoScan.at = "idle" /\ NoScan.logs = {} /\ NoScan.due = {}
          /\ n.at = "fetch" /\ n.logs = {} /\ n.due = {} /\ n.from = ChunkEnd(s) + 1
          /\ n.to = scan[s].to /\ ChunkEnd(s) \in Nat
      BY <1>1, ChunkEndIsNat DEF NoScan
    <2> HIDE DEF n
    <2>3. /\ scan'[s] = n \/ scan'[s] = NoScan
          /\ \A o \in Scanners \ {s} : scan'[o] = scan[o]
      BY <2>1 DEF ScanIs
    <2>4. scan[s].to <= height' - Depth + 1
      BY <1>5, <1>12 DEF WriteCursor
    <2> QED BY <2>2, <2>3, <2>4 DEF ScanKnows
  <1>13. CASE ScanDies(s)
    <2>1. ScanIs(s, NoScan)
      BY <1>1, <1>13, ScanSteps
    <2> QED BY <2>1 DEF ScanIs, NoScan, ScanKnows
  <1> QED BY <1>6, <1>7, <1>8, <1>9, <1>10, <1>11, <1>12, <1>13 DEF ScanStep

\* Only an INSERT puts a scan before the UPDATE, and only of a new transaction.
LEMMA NewAdder ==
  ASSUME KnowsInv, NEW s \in Scanners, ScanStep(s), scan'[s].at = "bump"
  PROVE  /\ InsertPayment(s) /\ scan[s].at = "match"
         /\ scan'[s].entry \in Installs \X Txs /\ ~ Recorded(scan'[s].entry[2])
         /\ payment' = [payment EXCEPT ![scan'[s].entry[2]] = scan'[s].entry[1]]
         /\ Ready(scan'[s].entry)
  <1>1. /\ scan \in [Scanners -> ScanState] /\ scan[s] \in ScanState /\ NamedOK /\ ScanKnows(s)
    BY DEF KnowsInv, NamedOK, DepositsTypeOK, ScanState
  <1>2. ASSUME ScanBegin(s) \/ FetchLogs(s) PROVE FALSE
    <2> DEFINE got == {l \in Txs \X Wallets : /\ block[l[1]] \in scan[s].from .. ChunkEnd(s)
                                              /\ sent[l[1]][l[2]] > 0}
               b == [scan[s] EXCEPT !.at = "fetch", !.from = cursor + 1, !.to = ScanLimit]
               f == [scan[s] EXCEPT !.at = "match", !.logs = got]
    <2>1. b.at = "fetch" /\ f.at = "match"
      BY <1>1 DEF ScanState
    <2>2. ScanIs(s, b) \/ ScanIs(s, f)
      BY <1>1, <1>2, ScanSteps
    <2> HIDE DEF b, f
    <2> QED BY <2>1, <2>2 DEF ScanIs
  <1>3. ASSUME MatchLog(s) PROVE FALSE
    <2>1. PICK l \in scan[s].logs : l \in Txs \X Wallets /\ Matched(s, l)
      BY <1>1, <1>3, MatchLogStep
    <2> QED BY <1>1, <1>3, <2>1 DEF MatchLog, Matched, ScanIs, ScanState
  <1>4. ASSUME BumpBalance(s) \/ ScanActivates(s) PROVE FALSE
    <2> DEFINE b == [scan[s] EXCEPT !.at = "activate"]
               a == [scan[s] EXCEPT !.at = "match", !.entry = <<>>]
    <2>1. b.at = "activate" /\ a.at = "match"
      BY <1>1 DEF ScanState
    <2>2. ScanIs(s, b) \/ ScanIs(s, a)
      BY <1>1, <1>4, ScanSteps
    <2> HIDE DEF a, b
    <2> QED BY <2>1, <2>2 DEF ScanIs
  <1>5. ASSUME WriteCursor(s) \/ ScanDies(s) PROVE FALSE
    <2> DEFINE n == [NoScan EXCEPT !.at = "fetch", !.from = ChunkEnd(s) + 1, !.to = scan[s].to]
    <2>1. n.at = "fetch" /\ NoScan.at = "idle"
      BY DEF NoScan
    <2>2. ScanIs(s, n) \/ ScanIs(s, NoScan)
      BY <1>1, <1>5, CursorStep, ScanSteps
    <2> HIDE DEF n
    <2> QED BY <2>1, <2>2 DEF ScanIs
  <1>7. CASE InsertPayment(s)
    <2>1. PICK d \in scan[s].due : d \in Installs \X Txs /\ Inserts(s, d)
      BY <1>1, <1>7, InsertStep
    <2>2. scan[s].at = "match" /\ Ready(d)
      BY <1>1, <1>7, <2>1 DEF InsertPayment, ScanKnows
    <2>3. scan'[s].entry = d /\ ~ Recorded(d[2]) /\ payment' = [payment EXCEPT ![d[2]] = d[1]]
      BY <1>1, <2>1, <2>2 DEF Inserts, ScanIs, ScanState
    <2> QED BY <1>7, <2>1, <2>2, <2>3
  <1> QED BY <1>2, <1>3, <1>4, <1>5, <1>7 DEF ScanStep

\* A scan that dies before the UPDATE leaves its transaction behind.
LEMMA DroppedGrows ==
  ASSUME NEW s \in Scanners, ScanStep(s)
  PROVE  \/ dropped' = dropped
         \/ ScanDies(s) /\ scan[s].at = "bump" /\ dropped' = dropped \cup {scan[s].entry[2]}
  BY DEF ScanStep, ScanBegin, FetchLogs, MatchLog, InsertPayment, BumpBalance, ScanActivates,
     WriteCursor, ScanDies, history

LEMMA ScansKnow ==
  ASSUME KnowsInv, NamedOK', Progress, NEW s \in Scanners, ScanStep(s)
  PROVE  (\A o \in Scanners : ScanKnows(o)') /\ OneAdder' /\ DroppedRecorded'
  <1>1. ScanKnows(s)' /\ \A o \in Scanners \ {s} : scan'[o] = scan[o]
    BY ScanKnowsMore
  <1>2. NamedOK /\ OneAdder /\ DroppedRecorded /\ \A o \in Scanners : ScanKnows(o)
    BY DEF KnowsInv
  <1>3. \A o \in Scanners : scan[o].at = "bump" => /\ scan[o].entry[1] \in Installs
                                                  /\ scan[o].entry[2] \in Txs
                                                  /\ Recorded(scan[o].entry[2])
    BY <1>2, DepositsAssumption DEF NamedOK, EntryNamed, ScanKnows, Recorded
  <1>4. ASSUME NEW o \in Scanners \ {s} PROVE ScanKnows(o)'
    <2>1. scan[o].at = "bump" => scan[o].entry[2] \notin dropped'
      BY <1>2, DroppedGrows DEF ScanKnows, OneAdder
    <2> QED BY <1>1, <1>2, <2>1, ScanStillKnows
  <1>5. OneAdder'
    <2>1. scan'[s].at = "bump" => ~ Recorded(scan'[s].entry[2])
      BY NewAdder
    <2> QED BY <1>1, <1>2, <1>3, <2>1 DEF OneAdder
  <1>6. DroppedRecorded'
    <2>1. dropped \subseteq Txs
      BY <1>2 DEF NamedOK, DepositsTypeOK
    <2>2. \A t \in dropped' : t \in Txs /\ Recorded(t)
      BY <1>2, <1>3, <2>1, DroppedGrows DEF DroppedRecorded
    <2> QED BY <1>2, <2>2, StillKnown DEF DroppedRecorded
  <1> QED BY <1>1, <1>4, <1>5, <1>6

LEMMA StepIsProgress ==
  ASSUME NamedOK, DepositsNext PROVE Progress
  BY StepCases, ChainProgress, InstallProgress, PostProgress, ScanProgress

\* Who leaves whose records alone.
LEMMA OthersUntouched ==
  /\ ChainStep \/ (\E i \in Installs : InstallStep(i))
         => UNCHANGED <<channel, credits, payment, post, scan, dropped>>
  /\ \A p \in Posts : PostStep(p) => UNCHANGED <<scan, dropped, chain, cursor, unmatched>>
  /\ \A s \in Scanners : ScanStep(s) => UNCHANGED <<post, chain>>
  <1>1. ChainStep => UNCHANGED <<channel, credits, payment, post, scan, dropped>>
    BY DEF ChainStep, Mine, Fork, rows, history
  <1>2. (\E i \in Installs : InstallStep(i))
            => UNCHANGED <<channel, credits, payment, post, scan, dropped>>
    BY DEF InstallStep, Register, Bind, history
  <1>3. \A p \in Posts : PostStep(p) => UNCHANGED <<scan, dropped, chain, cursor, unmatched>>
    BY DEF PostStep, LoadInstall, ReadReceipt, ReadTip, EnsureChannel, CreditDeposit,
       ActivateIfFunded, PostDies, chain, history
  <1>4. \A s \in Scanners : ScanStep(s) => UNCHANGED <<post, chain>>
    BY DEF ScanStep, ScanBegin, FetchLogs, MatchLog, InsertPayment, BumpBalance, ScanActivates,
       WriteCursor, ScanDies
  <1> QED BY <1>1, <1>2, <1>3, <1>4

\* A new payment row is the endpoint's or a scan's.
LEMMA NewPaymentRow ==
  ASSUME KnowsInv, DepositsNext, NEW t \in Txs, ~ Recorded(t), Recorded(t)'
  PROVE  payment'[t] \in Installs /\ install[payment'[t]].status \in Bound
         /\ Settled(t, payment'[t])
  <1>1. NamedOK /\ payment \in [Txs -> Installs \cup {NoInstall}] /\ payment' # payment
    BY DEF KnowsInv, NamedOK, DepositsTypeOK, Recorded
  <1>2. CASE ChainStep \/ (\E i \in Installs : InstallStep(i))
    BY <1>1, <1>2, OthersUntouched
  <1>3. ASSUME NEW p \in Posts, PostStep(p)
        PROVE  payment'[t] \in Installs /\ install[payment'[t]].status \in Bound
               /\ Settled(t, payment'[t])
    <2>1. CreditDeposit(p) /\ payment' = [payment EXCEPT ![post[p].tx] = post[p].inst]
      BY <1>1, <1>3 DEF PostStep, LoadInstall, ReadReceipt, ReadTip, EnsureChannel, CreditDeposit,
         ActivateIfFunded, PostDies, rows
    <2>2. post[p].inst \in Installs /\ post[p].tx \in Txs /\ post[p].at = "credit"
      BY <1>1, <2>1 DEF CreditDeposit, NamedOK, PostNamed
    <2>3. post[p].tx = t /\ payment'[t] = post[p].inst
      BY <1>1, <2>1, <2>2 DEF Recorded
    <2> QED BY <2>2, <2>3 DEF KnowsInv, PostKnows
  <1>4. ASSUME NEW s \in Scanners, ScanStep(s)
        PROVE  payment'[t] \in Installs /\ install[payment'[t]].status \in Bound
               /\ Settled(t, payment'[t])
    <2>1. InsertPayment(s)
      BY <1>1, <1>4 DEF ScanStep, ScanBegin, FetchLogs, MatchLog, BumpBalance, ScanActivates,
         WriteCursor, ScanDies, rows
    <2>2. PICK d \in scan[s].due : d \in Installs \X Txs /\ Inserts(s, d)
      BY <1>1, <2>1, InsertStep
    <2>3. LargeEnough(d) /\ payment' = [payment EXCEPT ![d[2]] = d[1]]
      BY <1>1, <2>2 DEF Inserts
    <2>4. d[1] \in Installs /\ d[2] = t /\ payment'[t] = d[1]
      BY <1>1, <2>2, <2>3 DEF Recorded
    <2>5. Ready(d)
      BY <2>2 DEF KnowsInv, ScanKnows
    <2> QED BY <2>3, <2>4, <2>5 DEF Ready, Settled, Pays, LargeEnough
  <1> QED BY <1>2, <1>3, <1>4, StepCases

LEMMA RowsStayPaid ==
  ASSUME KnowsInv, NamedOK', Progress, DepositsNext PROVE RowsPaid'
  <1>1. NamedOK /\ RowsPaid /\ payment \in [Txs -> Installs \cup {NoInstall}]
    BY DEF KnowsInv, NamedOK, DepositsTypeOK
  <1>2. ASSUME NEW t \in Txs, Recorded(t)' PROVE RowPaid(t)'
    <2>1. PICK i \in Installs :
              i = payment'[t] /\ install[i].status \in Bound /\ Settled(t, i)
      <3>1. CASE Recorded(t)
        BY <1>1, <3>1 DEF RowsPaid, RowPaid, Recorded, Progress
      <3>2. CASE ~ Recorded(t)
        BY <1>2, <3>2, NewPaymentRow
      <3> QED BY <3>1, <3>2
    <2>2. install'[i].status \in Bound /\ Settled(t, i)'
      BY <1>1, <2>1, StillKnown DEF Progress
    <2> QED BY <2>1, <2>2 DEF RowPaid, Settled, Final, Pays
  <1> QED BY <1>2 DEF RowsPaid, RowPaid

LEMMA KnownStays == ASSUME KnowsInv, DepositsNext PROVE KnowsInv'
  <1>1. NamedOK' /\ Progress /\ RowsPaid'
    BY TypesStay, StepIsProgress, RowsStayPaid DEF KnowsInv
  <1>2. CASE ChainStep \/ (\E i \in Installs : InstallStep(i))
    BY <1>1, <1>2, OthersUntouched, PostsUntouched, ScansUntouched DEF KnowsInv
  <1>3. CASE \E p \in Posts : PostStep(p)
    BY <1>1, <1>3, OthersUntouched, PostsKnow, ScansUntouched DEF KnowsInv
  <1>4. CASE \E s \in Scanners : ScanStep(s)
    BY <1>1, <1>4, OthersUntouched, PostsUntouched, ScansKnow DEF KnowsInv
  <1> QED BY <1>2, <1>3, <1>4, StepCases

-----------------------------------------------------------------------------
(* Balances.                                                               *)

\* No fork undoes the transaction, or one did while a call held its receipt.
Safe(t) == t \in stale \/ Final(t)

LEMMA SafeStays ==
  ASSUME NamedOK, NamedOK', Progress, NEW t \in Txs, Safe(t) PROVE Safe(t)'
  BY StillKnown DEF Safe, Progress

\* One channel's part of BalanceIsDeposits.
Agrees(i, t) ==
    /\ credits[i][t] = IF payment[t] = i /\ t \notin dropped /\ ~ BeingAdded(t) THEN 1 ELSE 0
    /\ payment[t] = i => Safe(t)

LEMMA BalanceCounts == BalanceIsDeposits <=> \A i \in Installs, t \in Txs : Agrees(i, t)
  BY DEF BalanceIsDeposits, Agrees, Safe, Final

LEMMA CountsStays ==
  ASSUME NamedOK, NamedOK', Progress, NEW i \in Installs, NEW t \in Txs, Agrees(i, t),
         credits'[i][t] = credits[i][t], payment'[t] = payment[t],
         t \in dropped' <=> t \in dropped, BeingAdded(t)' <=> BeingAdded(t)
  PROVE  Agrees(i, t)'
  BY SafeStays DEF Agrees

LEMMA BalanceStays == ASSUME KnowsInv, BalanceIsDeposits, DepositsNext PROVE BalanceIsDeposits'
  <1>1. NamedOK /\ NamedOK' /\ KnowsInv' /\ Progress
    BY KnownStays, StepIsProgress DEF KnowsInv
  <1>2. \A i \in Installs, t \in Txs : Agrees(i, t)
    BY BalanceCounts
  <1>3. \A s \in Scanners : scan[s].at = "bump" => /\ scan[s].entry \in Installs \X Txs
                                                  /\ scan[s].entry[1] \in Installs
                                                  /\ scan[s].entry[2] \in Txs
                                                  /\ payment[scan[s].entry[2]] = scan[s].entry[1]
                                                  /\ scan[s].entry[2] \notin dropped
    BY <1>1 DEF NamedOK, EntryNamed, KnowsInv, ScanKnows
  <1>4. credits \in [Installs -> [Txs -> Nat]] /\ payment \in [Txs -> Installs \cup {NoInstall}]
    BY <1>1 DEF NamedOK, DepositsTypeOK
  <1>5. CASE ChainStep \/ (\E i \in Installs : InstallStep(i))
    <2>1. UNCHANGED <<credits, payment, scan, dropped>>
      BY <1>5, OthersUntouched
    <2>2. \A i \in Installs, t \in Txs : Agrees(i, t)'
      BY <1>1, <1>2, <2>1, CountsStays DEF BeingAdded
    <2> QED BY <2>2 DEF BalanceIsDeposits, Agrees, Safe, Final
  <1>6. CASE \E p \in Posts : PostStep(p)
    <2>1. PICK p \in Posts : PostStep(p)
      BY <1>6
    <2>2. UNCHANGED <<scan, dropped>>
      BY <2>1, OthersUntouched
    <2>3. \A u \in Txs : BeingAdded(u)' <=> BeingAdded(u)
      BY <2>2 DEF BeingAdded
    <2>4. CASE CreditDeposit(p) /\ ~ Recorded(post[p].tx)
      <3>0. post[p].inst \in Installs /\ post[p].tx \in Txs /\ Safe(post[p].tx)
        BY <1>1, <2>4 DEF CreditDeposit, NamedOK, PostNamed, KnowsInv, PostKnows, Settled, Safe
      <3>1. PICK i \in Installs, t \in Txs : i = post[p].inst /\ t = post[p].tx /\ Safe(t)
        BY <3>0
      <3>2. payment' = [payment EXCEPT ![t] = i] /\ Credited(i, t)
        BY <1>4, <2>4, <3>1, AddCredit DEF CreditDeposit
      <3>3. t \notin dropped /\ ~ BeingAdded(t)
        BY <1>1, <1>3, <2>4, <3>1, DepositsAssumption DEF KnowsInv, DroppedRecorded, BeingAdded, Recorded
      <3>4. \A j \in Installs : credits[j][t] = 0
        BY <1>2, <2>4, <3>1, DepositsAssumption DEF Agrees, Recorded
      <3>5. Safe(t)'
        BY <1>1, <3>1, SafeStays
      <3>6. \A j \in Installs : Agrees(j, t)'
        BY <1>4, <2>2, <2>3, <3>1, <3>2, <3>3, <3>4, <3>5 DEF Agrees, Credited
      <3>7. ASSUME NEW j \in Installs, NEW u \in Txs, u # t PROVE Agrees(j, u)'
        <4>1. payment'[u] = payment[u] /\ credits'[j][u] = credits[j][u]
          BY <1>4, <3>2, <3>7 DEF Credited
        <4>2. BeingAdded(u)' <=> BeingAdded(u)
          BY <2>2 DEF BeingAdded
        <4> QED BY <1>1, <1>2, <2>2, <4>1, <4>2, CountsStays
      <3> QED BY <3>6, <3>7 DEF BalanceIsDeposits, Agrees, Safe, Final
    <2>5. CASE ~ (CreditDeposit(p) /\ ~ Recorded(post[p].tx))
      <3>1. UNCHANGED <<credits, payment>>
        BY <2>1, <2>5 DEF PostStep, LoadInstall, ReadReceipt, ReadTip, EnsureChannel, CreditDeposit,
           ActivateIfFunded, PostDies, rows
      <3>2. \A j \in Installs, u \in Txs : Agrees(j, u)'
        BY <1>1, <1>2, <2>2, <3>1, CountsStays DEF BeingAdded
      <3> QED BY <3>2 DEF BalanceIsDeposits, Agrees, Safe, Final
    <2> QED BY <2>4, <2>5
  <1>7. CASE \E s \in Scanners : ScanStep(s)
    <2>1. PICK s \in Scanners : ScanStep(s)
      BY <1>7
    <2>2. \A o \in Scanners \ {s} : scan'[o] = scan[o]
      BY <1>1, <2>1, ScanKnowsMore
    <2>3. CASE scan'[s].at = "bump"
      <3>0. /\ InsertPayment(s) /\ scan[s].at = "match" /\ scan'[s].entry \in Installs \X Txs
            /\ ~ Recorded(scan'[s].entry[2]) /\ Ready(scan'[s].entry)
            /\ payment' = [payment EXCEPT ![scan'[s].entry[2]] = scan'[s].entry[1]]
        BY <1>1, <2>1, <2>3, NewAdder
      <3>1. PICK i \in Installs, t \in Txs :
                /\ InsertPayment(s) /\ scan[s].at = "match" /\ scan'[s].entry[2] = t
                /\ ~ Recorded(t) /\ payment' = [payment EXCEPT ![t] = i] /\ Safe(t)
        BY <3>0 DEF Ready, Safe
      <3>2. credits' = credits /\ dropped' = dropped
        BY <3>1 DEF InsertPayment, history
      <3>3. t \notin dropped /\ ~ BeingAdded(t) /\ BeingAdded(t)'
        <4>1. t \notin dropped /\ ~ BeingAdded(t)
          BY <1>1, <1>3, <3>1, DepositsAssumption DEF KnowsInv, DroppedRecorded, BeingAdded, Recorded
        <4> QED BY <2>3, <3>1, <4>1 DEF BeingAdded
      <3>4. \A j \in Installs : credits[j][t] = 0
        BY <1>2, <3>1, DepositsAssumption DEF Agrees, Recorded
      <3>5. Safe(t)'
        BY <1>1, <3>1, SafeStays
      <3>6. \A j \in Installs : Agrees(j, t)'
        BY <3>2, <3>3, <3>4, <3>5 DEF Agrees
      <3>7. ASSUME NEW j \in Installs, NEW u \in Txs, u # t PROVE Agrees(j, u)'
        <4>1. payment'[u] = payment[u] /\ credits'[j][u] = credits[j][u]
          BY <1>4, <3>1, <3>2, <3>7
        <4>2. BeingAdded(u)' <=> BeingAdded(u)
          BY <2>2, <2>3, <3>1, <3>7 DEF BeingAdded
        <4> QED BY <1>1, <1>2, <3>2, <4>1, <4>2, CountsStays
      <3> QED BY <3>6, <3>7 DEF BalanceIsDeposits, Agrees, Safe, Final
    <2>4. CASE scan[s].at = "bump" /\ scan'[s].at # "bump"
      <3>0. Safe(scan[s].entry[2])
        BY <1>1, <2>4 DEF KnowsInv, ScanKnows, Ready, Safe
      <3>1. PICK i \in Installs, t \in Txs :
                /\ scan[s].entry[1] = i /\ scan[s].entry[2] = t
                /\ payment[t] = i /\ t \notin dropped /\ BeingAdded(t) /\ Safe(t)
        BY <1>3, <2>4, <3>0 DEF BeingAdded
      <3>2. ~ BeingAdded(t)' /\ \A u \in Txs \ {t} : BeingAdded(u)' <=> BeingAdded(u)
        BY <1>1, <2>2, <2>4, <3>1 DEF BeingAdded, KnowsInv, OneAdder
      <3>3. payment' = payment
        BY <2>1, <2>4 DEF ScanStep, ScanBegin, FetchLogs, MatchLog, InsertPayment, BumpBalance,
           ScanActivates, WriteCursor, ScanDies, rows
      <3>4. \/ dropped' = dropped /\ Credited(i, t)
            \/ dropped' = dropped \cup {t} /\ credits' = credits
        <4>1. CASE BumpBalance(s)
          BY <1>4, <3>1, <4>1, AddCredit DEF BumpBalance, history
        <4>2. CASE ScanDies(s)
          BY <2>4, <3>1, <4>2 DEF ScanDies, rows
        <4> QED BY <2>1, <2>4, <4>1, <4>2 DEF ScanStep, ScanBegin, FetchLogs, MatchLog,
                InsertPayment, ScanActivates, WriteCursor
      <3>5. Safe(t)'
        BY <1>1, <3>1, SafeStays
      <3>6. \A j \in Installs : credits[j][t] = 0
        BY <1>2, <3>1 DEF Agrees
      <3>7. \A j \in Installs : Agrees(j, t)'
        BY <1>4, <3>1, <3>2, <3>3, <3>4, <3>5, <3>6 DEF Agrees, Credited
      <3>8. ASSUME NEW j \in Installs, NEW u \in Txs \ {t} PROVE Agrees(j, u)'
        <4>1. credits'[j][u] = credits[j][u] /\ (u \in dropped' <=> u \in dropped)
          BY <3>4 DEF Credited
        <4> QED BY <1>1, <1>2, <3>2, <3>3, <4>1, CountsStays
      <3> QED BY <3>7, <3>8 DEF BalanceIsDeposits, Agrees, Safe, Final
    <2>5. CASE scan[s].at # "bump" /\ scan'[s].at # "bump"
      <3>1. \A u \in Txs : BeingAdded(u)' <=> BeingAdded(u)
        BY <2>2, <2>5 DEF BeingAdded
      <3>2. UNCHANGED <<credits, dropped>>
        BY <2>1, <2>5 DEF ScanStep, ScanBegin, FetchLogs, MatchLog, InsertPayment, BumpBalance,
           ScanActivates, WriteCursor, ScanDies, rows, history
      <3>3. payment' = payment
        <4>1. CASE InsertPayment(s)
          <5>1. PICK d \in scan[s].due : d \in Installs \X Txs /\ Inserts(s, d)
            BY <1>1, <4>1, InsertStep
          <5>2. scan[s] \in ScanState
            BY <1>1 DEF NamedOK, DepositsTypeOK, ScanState
          <5>3. scan'[s] # [scan[s] EXCEPT !.at = "bump", !.due = @ \ {d}, !.entry = d]
            BY <2>5, <5>2 DEF ScanState
          <5> QED BY <5>1, <5>3 DEF Inserts, ScanIs
        <4> QED BY <2>1, <4>1 DEF ScanStep, ScanBegin, FetchLogs, MatchLog, BumpBalance,
                ScanActivates, WriteCursor, ScanDies, rows
      <3>4. \A j \in Installs, u \in Txs : Agrees(j, u)'
        BY <1>1, <1>2, <3>1, <3>2, <3>3, CountsStays
      <3> QED BY <3>4 DEF BalanceIsDeposits, Agrees, Safe, Final
    <2> QED BY <2>3, <2>4, <2>5
  <1> QED BY <1>5, <1>6, <1>7, StepCases

-----------------------------------------------------------------------------
(* Who is active.                                                          *)

\* The rows and balances behind an active installation.
Backed(i) == i \in channel /\ \E t \in Txs : credits[i][t] > 0

LEMMA BackedStays ==
  ASSUME NamedOK, NamedOK', Progress
  PROVE  \A i \in Installs : Backed(i) => Backed(i)'
  BY DEF Backed, NamedOK, DepositsTypeOK, Progress

LEMMA ActiveStays == ASSUME KnowsInv, ActiveIsFunded, DepositsNext PROVE ActiveIsFunded'
  <1>1. NamedOK /\ NamedOK' /\ Progress /\ \A i \in Installs : Backed(i) => Backed(i)'
    BY KnownStays, StepIsProgress, BackedStays DEF KnowsInv
  <1>2. install \in [Installs -> InstallRow] /\ credits \in [Installs -> [Txs -> Nat]]
    BY <1>1 DEF NamedOK, DepositsTypeOK, InstallRow
  <1>3. ASSUME \A i \in Installs : install'[i].status = "active"
                                       => install[i].status = "active" \/ Backed(i) \/ Backed(i)'
        PROVE ActiveIsFunded'
    <2>1. \A i \in Installs : install'[i].status = "active" => Backed(i)'
      BY <1>1, <1>3 DEF ActiveIsFunded, Backed
    <2> QED BY <2>1 DEF ActiveIsFunded, Backed
  <1>4. CASE ChainStep
    BY <1>3, <1>4 DEF ChainStep, Mine, Fork, rows
  <1>5. CASE \E i \in Installs : InstallStep(i)
    <2>1. \A i \in Installs : install'[i].status = "active" => install[i].status = "active"
      <3>1. ASSUME NEW i \in Installs, Bind(i)
            PROVE  \A o \in Installs : install'[o].status = "active" => install[o].status = "active"
        BY <1>2, <3>1, WriteStatus DEF Bind, AnyStatus
      <3>2. ASSUME NEW i \in Installs, NEW w \in Wallets, Register(i, w)
            PROVE  \A o \in Installs : install'[o].status = "active" => install[o].status = "active"
        BY <1>2, <3>2 DEF Register
      <3> QED BY <1>5, <3>1, <3>2 DEF InstallStep
    <2> QED BY <1>3, <2>1
  <1>6. ASSUME NEW p \in Posts, PostStep(p) PROVE ActiveIsFunded'
    <2>1. CASE CreditDeposit(p)
      <3>1. /\ post[p].inst \in Installs /\ post[p].tx \in Txs /\ post[p].inst \in channel
        BY <1>1, <2>1 DEF CreditDeposit, NamedOK, PostNamed, KnowsInv, PostKnows
      <3>2. \/ install' = install
            \/ install' = Activated(post[p].inst) /\ Credited(post[p].inst, post[p].tx)
        BY <1>2, <2>1, <3>1, AddCredit DEF CreditDeposit
      <3>3. Credited(post[p].inst, post[p].tx) => credits'[post[p].inst][post[p].tx] > 0
        BY <1>2, <3>1 DEF Credited
      <3>4. \A i \in Installs : install'[i].status = "active"
                => \/ install[i].status = "active"
                   \/ i = post[p].inst /\ credits'[post[p].inst][post[p].tx] > 0
        BY <1>2, <3>1, <3>2, <3>3, ActivatedStaysBound
      <3>5. channel' = channel
        BY <2>1 DEF CreditDeposit
      <3> QED BY <1>3, <3>1, <3>4, <3>5 DEF Backed
    <2>2. CASE ActivateIfFunded(p)
      <3>1. post[p].inst \in Installs /\ post[p].inst \in channel
        BY <1>1, <2>2 DEF ActivateIfFunded, NamedOK, PostNamed, KnowsInv, PostKnows
      <3>2. install' = install \/ (install' = Activated(post[p].inst) /\ Backed(post[p].inst))
        <4>1. CASE Funded(post[p].inst)
          BY <2>2, <3>1, <4>1 DEF ActivateIfFunded, Funded, Backed
        <4>2. CASE ~ Funded(post[p].inst)
          BY <2>2, <4>2 DEF ActivateIfFunded, Funded
        <4> QED BY <4>1, <4>2
      <3> QED BY <1>2, <1>3, <3>1, <3>2, ActivatedStaysBound
    <2>3. CASE ~ (CreditDeposit(p) \/ ActivateIfFunded(p))
      BY <1>3, <1>6, <2>3 DEF PostStep, LoadInstall, ReadReceipt, ReadTip, EnsureChannel, PostDies, rows
    <2> QED BY <2>1, <2>2, <2>3
  <1>7. ASSUME NEW s \in Scanners, ScanStep(s) PROVE ActiveIsFunded'
    <2>1. CASE ScanActivates(s)
      <3>1. /\ scan[s].entry[1] \in Installs /\ scan[s].entry[2] \in Txs
            /\ Ready(scan[s].entry) /\ credits[scan[s].entry[1]][scan[s].entry[2]] > 0
        BY <1>1, <2>1 DEF ScanActivates, NamedOK, EntryNamed, KnowsInv, ScanKnows
      <3>2. Backed(scan[s].entry[1])
        BY <3>1 DEF Ready, Backed
      <3> QED BY <1>2, <1>3, <2>1, <3>1, <3>2, ActivatedStaysBound DEF ScanActivates
    <2>2. CASE ~ ScanActivates(s)
      BY <1>3, <1>7, <2>2 DEF ScanStep, ScanBegin, FetchLogs, MatchLog, InsertPayment, BumpBalance,
         WriteCursor, ScanDies, rows
    <2> QED BY <2>1, <2>2
  <1> QED BY <1>4, <1>5, <1>6, <1>7, StepCases

LEMMA InvStays == ASSUME DepositsInv, [DepositsNext]_depositVars PROVE DepositsInv'
  <1>1. CASE UNCHANGED depositVars
    BY <1>1, TypesStay
       DEF depositVars, DepositsInv, KnowsInv, PostKnows, ReceiptHolds, Settled, Pays, ScanKnows,
           Ready, Final, OneAdder, DroppedRecorded, RowsPaid, RowPaid, Recorded,
           BalanceIsDeposits, BeingAdded, ActiveIsFunded
  <1>2. CASE DepositsNext
    BY <1>2, KnownStays, BalanceStays, ActiveStays DEF DepositsInv
  <1> QED BY <1>1, <1>2

LEMMA InvHolds == DepositsSpec => []DepositsInv
  BY DepositsStart, InvStays, PTL DEF DepositsSpec

\* Rows, calls, scans and the chain keep their types.
THEOREM DepositsTypeCorrect == DepositsSpec => []DepositsTypeOK
  <1>1. DepositsInv => DepositsTypeOK
    BY DEF DepositsInv, KnowsInv, NamedOK
  <1> QED BY <1>1, InvHolds, PTL

\* However endpoint and scanners overlap, and wherever they die, a channel's
\* balance is what its payment rows say, once each, less the transactions a
\* dead scan left between its INSERT and its UPDATE, and every row is for a
\* transaction no fork can undo, save those a fork took between the receipt
\* and the tip of a call that asked for them.
THEOREM BalanceStaysDeposits == DepositsSpec => []BalanceIsDeposits
  <1>1. DepositsInv => BalanceIsDeposits
    BY DEF DepositsInv
  <1> QED BY <1>1, InvHolds, PTL

\* No path, the replayed or rescued one included, makes an installation active
\* without a deposit of its own.
THEOREM ActiveStaysFunded == DepositsSpec => []ActiveIsFunded
  <1>1. DepositsInv => ActiveIsFunded
    BY DEF DepositsInv
  <1> QED BY <1>1, InvHolds, PTL

-----------------------------------------------------------------------------
(* What lies behind the cursor.                                            *)

Payable(t, w) == sent[t][w] >= MinDeposit
Seen(t, w) == Recorded(t) \/ <<t, w>> \in unmatched
Covered(n) == \A t \in Txs, w \in Wallets : block[t] \in 1 .. n /\ Payable(t, w) => Seen(t, w)

\* A transfer of the chunk a scan is in: seen, or still before it.
Held(s, t, w) ==
    \/ Seen(t, w)
    \/ <<t, w>> \in scan[s].logs
    \/ \E i \in Installs : <<i, t>> \in scan[s].due /\ install[i].wallet = w

ScanCovers(s) ==
    /\ scan[s].at # "idle" => Covered(scan[s].from - 1) /\ scan[s].from <= scan[s].to
    /\ scan[s].at \in {"match", "bump", "activate"} =>
           \A t \in Txs, w \in Wallets :
               block[t] \in scan[s].from .. ChunkEnd(s) /\ Payable(t, w) => Held(s, t, w)

CoverInv ==
    /\ KnowsInv
    /\ cursor > 0 => cursor <= height - Depth + 1
    /\ Covered(cursor)
    /\ \A s \in Scanners : ScanCovers(s)

Numbers == /\ height \in Nat /\ cursor \in Nat /\ Depth \in Nat \ {0} /\ MinDeposit \in Nat \ {0}
           /\ \A t \in Txs : block[t] \in Nat /\ \A w \in Wallets : sent[t][w] \in Nat
           /\ \A s \in Scanners : scan[s].from \in Nat /\ scan[s].to \in Nat

LEMMA TypesAreNumbers == NamedOK => Numbers
  BY DepositsAssumption DEF NamedOK, DepositsTypeOK, Numbers

LEMMA TypesAreNumbersNext == NamedOK' => Numbers'
  BY TypesAreNumbers, PTL

LEMMA UnmatchedGrows == ASSUME NamedOK, DepositsNext PROVE unmatched \subseteq unmatched'
  <1>1. CASE ChainStep
    BY <1>1 DEF ChainStep, Mine, Fork, history
  <1>2. ASSUME NEW i \in Installs, InstallStep(i) PROVE unmatched \subseteq unmatched'
    BY <1>2 DEF InstallStep, Register, Bind, history
  <1>3. ASSUME NEW p \in Posts, PostStep(p) PROVE unmatched \subseteq unmatched'
    BY <1>3, OthersUntouched
  <1>4. ASSUME NEW s \in Scanners, ScanStep(s) PROVE unmatched \subseteq unmatched'
    <2>1. CASE MatchLog(s)
      BY <2>1, MatchLogStep DEF Matched
    <2>2. CASE ~ MatchLog(s)
      BY <1>4, <2>2 DEF ScanStep, ScanBegin, FetchLogs, InsertPayment, BumpBalance, ScanActivates,
         WriteCursor, ScanDies, history
    <2> QED BY <2>1, <2>2
  <1> QED BY <1>1, <1>2, <1>3, <1>4, StepCases

\* What is final and covered stays covered.
LEMMA SeenStays ==
  ASSUME NamedOK, DepositsNext
  PROVE  /\ \A t \in Txs, w \in Wallets : Seen(t, w) => Seen(t, w)'
         /\ \A t \in Txs, w \in Wallets : Final(t) => (Payable(t, w)' <=> Payable(t, w))
  <1>1. NamedOK' /\ Progress /\ unmatched \subseteq unmatched'
    BY TypesStay, StepIsProgress, UnmatchedGrows
  <1> QED BY <1>1, StillKnown DEF Seen, Payable, Progress

LEMMA CoveredStays ==
  ASSUME NamedOK, DepositsNext, NEW n \in Int, n <= height - Depth + 1, Covered(n)
  PROVE  Covered(n)'
  <1>1. NamedOK' /\ Progress /\ Numbers /\ Numbers'
    BY TypesStay, StepIsProgress, TypesAreNumbers, TypesAreNumbersNext
  <1>2. ASSUME NEW t \in Txs, NEW w \in Wallets, block'[t] \in 1 .. n, Payable(t, w)'
        PROVE  Seen(t, w)'
    <2>1. block'[t] \in 1 .. height - Depth + 1
      BY <1>1, <1>2 DEF Numbers
    <2>2. Final(t) /\ block'[t] = block[t]
      BY <1>1, <2>1 DEF Progress
    <2> QED BY <1>2, <2>2, SeenStays DEF Covered
  <1> QED BY <1>2 DEF Covered

\* A scan whose record is as before covers what it covered.
LEMMA ScanStillCovers ==
  ASSUME KnowsInv, DepositsNext, NEW s \in Scanners, ScanCovers(s), scan'[s] = scan[s]
  PROVE  ScanCovers(s)'
  <1>1. /\ NamedOK /\ NamedOK' /\ Progress /\ Numbers /\ Numbers' /\ ScanKnows(s)
        /\ scan \in [Scanners -> ScanState]
    <2>1. NamedOK /\ NamedOK' /\ Progress /\ ScanKnows(s)
      BY TypesStay, StepIsProgress DEF KnowsInv
    <2> QED BY <2>1, TypesAreNumbers, TypesAreNumbersNext DEF NamedOK, DepositsTypeOK, ScanState
  <1>2. PICK from \in Nat, to \in Nat, end \in Nat :
            /\ scan[s].from = from /\ scan[s].to = to /\ ChunkEnd(s) = end /\ ChunkEnd(s)' = end
            /\ end <= to
    BY <1>1, ChunkEndIsNat DEF Numbers, ChunkEnd
  <1>3. ASSUME scan[s].at # "idle"
        PROVE  from >= 1 /\ to <= height - Depth + 1 /\ from <= to /\ Covered(from - 1)
               /\ Covered(from - 1)'
    <2>1. from >= 1 /\ to <= height - Depth + 1 /\ from <= to /\ Covered(from - 1)
      BY <1>1, <1>2, <1>3 DEF ScanKnows, ScanCovers
    <2>2. from - 1 \in Int /\ from - 1 <= height - Depth + 1
      BY <1>1, <2>1 DEF Numbers
    <2> QED BY <1>1, <2>1, <2>2, CoveredStays
  <1>4. ASSUME scan[s].at \in {"match", "bump", "activate"}, NEW t \in Txs, NEW w \in Wallets,
               block'[t] \in from .. end, Payable(t, w)'
        PROVE  Held(s, t, w)'
    <2>1. block'[t] \in 1 .. height - Depth + 1
      BY <1>1, <1>2, <1>3, <1>4 DEF Numbers
    <2>2. Final(t) /\ block'[t] = block[t] /\ Payable(t, w)
      BY <1>1, <1>4, <2>1, SeenStays DEF Progress
    <2>3. Held(s, t, w)
      BY <1>2, <1>4, <2>2 DEF ScanCovers
    <2>4. \A i \in Installs : <<i, t>> \in scan[s].due => install'[i].wallet = install[i].wallet
      <3>1. \A i \in Installs : <<i, t>> \in scan[s].due => Ready(<<i, t>>)
        BY <1>1 DEF ScanKnows
      <3> QED BY <1>1, <3>1 DEF Ready, Progress
    <2> QED BY <1>1, <2>3, <2>4, SeenStays DEF Held
  <1> QED BY <1>2, <1>3, <1>4 DEF ScanCovers

\* A scan's own step.
LEMMA ScanCoversMore ==
  ASSUME CoverInv, DepositsNext, NEW s \in Scanners, ScanStep(s)
  PROVE  ScanCovers(s)' /\ (WriteCursor(s) => Covered(ChunkEnd(s)) /\ ChunkEnd(s) <= height - Depth + 1)
  <1> USE DEF rows, chain, history
  <1>1. /\ NamedOK /\ NamedOK' /\ Progress /\ ScanKnows(s) /\ ScanCovers(s)
        /\ scan \in [Scanners -> ScanState] /\ scan[s] \in ScanState
    <2>1. NamedOK /\ NamedOK' /\ Progress /\ ScanKnows(s) /\ ScanCovers(s)
      BY TypesStay, StepIsProgress DEF CoverInv, KnowsInv
    <2> QED BY <2>1 DEF NamedOK, DepositsTypeOK, ScanState
  <1>2. Numbers /\ Numbers' /\ Chunk \in Nat \ {0}
    BY <1>1, TypesAreNumbers, TypesAreNumbersNext, DepositsAssumption
  <1>3. UNCHANGED <<block, sent, height>>
    BY OthersUntouched
  <1>4. PICK from \in Nat, to \in Nat, end \in Nat :
            /\ scan[s].from = from /\ scan[s].to = to /\ ChunkEnd(s) = end
            /\ end <= to /\ (from <= to => from <= end)
    BY <1>1, <1>2, ChunkEndIsNat DEF Numbers
  <1>5. ASSUME scan[s].at # "idle"
        PROVE  from >= 1 /\ to <= height - Depth + 1 /\ from <= to /\ Covered(from - 1)
               /\ Covered(from - 1)'
    <2>1. from >= 1 /\ to <= height - Depth + 1 /\ from <= to /\ Covered(from - 1)
      BY <1>1, <1>4, <1>5 DEF ScanKnows, ScanCovers
    <2>2. from - 1 \in Int /\ from - 1 <= height - Depth + 1
      BY <1>2, <2>1 DEF Numbers
    <2> QED BY <1>1, <2>1, <2>2, CoveredStays
  <1>6. scan[s].at \in {"match", "bump", "activate"} =>
            \A t \in Txs, w \in Wallets : block[t] \in from .. end /\ Payable(t, w) => Held(s, t, w)
    BY <1>1, <1>4 DEF ScanCovers
  <1>7. \A t \in Txs, w \in Wallets : Seen(t, w) => Seen(t, w)'
    BY <1>1, SeenStays
  \* A record that keeps the range keeps what it covers, if it holds the rest.
  <1>8. ASSUME scan'[s].from = from, scan'[s].to = to, scan[s].at # "idle",
               scan'[s].at \in {"match", "bump", "activate"} =>
                   \A t \in Txs, w \in Wallets :
                       block[t] \in from .. end /\ Payable(t, w) => Held(s, t, w)'
        PROVE  ScanCovers(s)'
    <2>1. ChunkEnd(s)' = end
      BY <1>4, <1>8 DEF ChunkEnd
    <2> QED BY <1>3, <1>5, <1>8, <2>1 DEF ScanCovers, Payable
  <1>9. CASE ScanBegin(s)
    <2>1. ScanIs(s, [scan[s] EXCEPT !.at = "fetch", !.from = cursor + 1, !.to = ScanLimit])
      BY <1>1, <1>9, ScanSteps
    <2>2. scan'[s].at = "fetch" /\ scan'[s].from = cursor + 1 /\ scan'[s].to = ScanLimit
      BY <1>1, <2>1 DEF ScanIs, ScanState
    <2>3. cursor + 1 <= ScanLimit /\ cursor <= height - Depth + 1 /\ cursor \in Int
      BY <1>2, <1>9 DEF ScanBegin, ScanLimit, Numbers
    <2>4. Covered(cursor)'
      <3>1. PICK n \in Int : n = cursor
        BY <2>3
      <3>2. n <= height - Depth + 1 /\ Covered(n) /\ cursor' = n
        BY <1>9, <2>3, <3>1 DEF CoverInv, ScanBegin
      <3>3. Covered(n)'
        BY <1>1, <3>2, CoveredStays
      <3> QED BY <3>2, <3>3 DEF Covered
    <2>5. cursor' = cursor /\ scan'[s].from - 1 = cursor
      BY <1>2, <1>9, <2>2 DEF ScanBegin, Numbers
    <2>6. Covered(scan[s].from - 1)'
      BY <2>4, <2>5 DEF Covered
    <2> QED BY <1>9, <2>2, <2>3, <2>6 DEF ScanCovers, ScanBegin, WriteCursor
  <1>10. CASE FetchLogs(s)
    <2> DEFINE got == {l \in Txs \X Wallets : /\ block[l[1]] \in scan[s].from .. ChunkEnd(s)
                                              /\ sent[l[1]][l[2]] > 0}
    <2>1. ScanIs(s, [scan[s] EXCEPT !.at = "match", !.logs = got])
      BY <1>1, <1>10, ScanSteps
    <2>2. scan'[s].from = from /\ scan'[s].to = to /\ scan'[s].logs = got
      <3> HIDE DEF got
      <3> QED BY <1>1, <1>4, <2>1 DEF ScanIs, ScanState
    <2>3. ASSUME NEW t \in Txs, NEW w \in Wallets, block[t] \in from .. end, Payable(t, w)
          PROVE  Held(s, t, w)'
      <3>1. sent[t][w] > 0
        BY <1>2, <2>3 DEF Payable, Numbers
      <3>2. <<t, w>> \in got
        BY <1>4, <2>3, <3>1
      <3> QED BY <2>2, <3>2 DEF Held
    <2> QED BY <1>8, <1>10, <2>2, <2>3 DEF FetchLogs, WriteCursor
  <1>11. CASE MatchLog(s)
    <2>1. PICK l \in scan[s].logs : l \in Txs \X Wallets /\ Matched(s, l)
      BY <1>1, <1>11, MatchLogStep
    <2>2. /\ scan'[s].from = from /\ scan'[s].to = to /\ scan'[s].logs = scan[s].logs \ {l}
          /\ \/ /\ scan'[s].due = scan[s].due \cup {<<i, l[1]>> : i \in Eligible(l[2])}
                /\ Cardinality(Eligible(l[2])) = 1
             \/ scan'[s].due = scan[s].due /\ unmatched' = unmatched \cup {l}
      BY <1>1, <1>4, <2>1 DEF Matched, ScanIs, ScanState
    <2>3. ASSUME NEW t \in Txs, NEW w \in Wallets, block[t] \in from .. end, Payable(t, w)
          PROVE  Held(s, t, w)'
      <3>1. Held(s, t, w)
        BY <1>6, <1>11, <2>3 DEF MatchLog
      <3>2. install' = install /\ scan[s].due \subseteq scan'[s].due
        BY <1>11, <2>2 DEF MatchLog
      <3>3. CASE <<t, w>> # l
        BY <1>7, <2>2, <3>1, <3>2, <3>3 DEF Held
      <3>4. CASE <<t, w>> = l
        <4>1. l[1] = t /\ l[2] = w
          BY <3>4
        <4>2. CASE unmatched' = unmatched \cup {l}
          BY <3>4, <4>2 DEF Held, Seen
        <4>3. CASE /\ scan'[s].due = scan[s].due \cup {<<i, l[1]>> : i \in Eligible(l[2])}
                   /\ Cardinality(Eligible(l[2])) = 1
          <5>1. Eligible(w) # {}
            BY <4>1, <4>3, FS_EmptySet
          <5>2. PICK i \in Installs : i \in Eligible(w) /\ install[i].wallet = w
            BY <5>1 DEF Eligible
          <5>3. <<i, t>> \in scan'[s].due
            BY <4>1, <4>3, <5>2
          <5> QED BY <3>2, <5>2, <5>3 DEF Held
        <4> QED BY <2>2, <4>2, <4>3
      <3> QED BY <3>3, <3>4
    <2> QED BY <1>8, <1>11, <2>1, <2>2, <2>3 DEF MatchLog, WriteCursor, ChunkDone
  <1>12. CASE InsertPayment(s)
    <2>1. PICK d \in scan[s].due : d \in Installs \X Txs /\ Inserts(s, d)
      BY <1>1, <1>12, InsertStep
    <2>2. /\ scan'[s].from = from /\ scan'[s].to = to /\ scan'[s].logs = scan[s].logs
          /\ scan'[s].due = scan[s].due \ {d}
          /\ install' = install
      BY <1>1, <1>4, <1>12, <2>1 DEF InsertPayment, Inserts, ScanIs, ScanState
    <2>3. Recorded(d[2])' \/ ~ LargeEnough(d)
      <3>1. d[1] \in Installs /\ d[2] \in Txs /\ d[1] # NoInstall
        BY <2>1, DepositsAssumption
      <3>2. payment \in [Txs -> Installs \cup {NoInstall}]
        BY <1>1 DEF NamedOK, DepositsTypeOK
      <3>3. CASE payment' = [payment EXCEPT ![d[2]] = d[1]]
        <4>1. payment'[d[2]] = d[1]
          BY <3>1, <3>2, <3>3
        <4> QED BY <3>1, <4>1 DEF Recorded
      <3>4. CASE (~ LargeEnough(d) \/ Recorded(d[2])) /\ payment' = payment
        BY <3>4 DEF Recorded
      <3> QED BY <2>1, <3>3, <3>4 DEF Inserts
    <2>4. ASSUME NEW t \in Txs, NEW w \in Wallets, block[t] \in from .. end, Payable(t, w)
          PROVE  Held(s, t, w)'
      <3>1. Held(s, t, w)
        BY <1>6, <1>12, <2>4 DEF InsertPayment
      <3>2. ASSUME NEW i \in Installs, <<i, t>> \in scan[s].due, install[i].wallet = w
            PROVE  Held(s, t, w)'
        <4>1. CASE <<i, t>> # d
          BY <2>2, <3>2, <4>1 DEF Held
        <4>2. CASE <<i, t>> = d
          <5>1. d[1] = i /\ d[2] = t
            BY <4>2
          <5>2. LargeEnough(d)
            BY <2>4, <3>2, <5>1 DEF LargeEnough, Payable
          <5>3. Recorded(t)'
            BY <2>3, <5>1, <5>2 DEF Recorded
          <5> QED BY <5>3 DEF Held, Seen
        <4> QED BY <4>1, <4>2
      <3> QED BY <1>7, <2>2, <3>1, <3>2 DEF Held
    <2> QED BY <1>8, <1>12, <2>1, <2>2, <2>4 DEF InsertPayment, WriteCursor, ChunkDone
  <1>13. CASE BumpBalance(s)
    <2>1. ScanIs(s, [scan[s] EXCEPT !.at = "activate"])
      BY <1>1, <1>13, ScanSteps
    <2>2. /\ scan'[s].from = from /\ scan'[s].to = to /\ scan'[s].logs = scan[s].logs
          /\ scan'[s].due = scan[s].due /\ install' = install
      BY <1>1, <1>4, <1>13, <2>1 DEF BumpBalance, ScanIs, ScanState
    <2>3. \A t \in Txs, w \in Wallets : Held(s, t, w) => Held(s, t, w)'
      BY <1>7, <2>2 DEF Held
    <2> QED BY <1>6, <1>8, <1>13, <2>2, <2>3 DEF BumpBalance, WriteCursor
  <1>14. CASE ScanActivates(s)
    <2>1. ScanIs(s, [scan[s] EXCEPT !.at = "match", !.entry = <<>>])
      BY <1>1, <1>14, ScanSteps
    <2>2. /\ scan'[s].from = from /\ scan'[s].to = to /\ scan'[s].logs = scan[s].logs
          /\ scan'[s].due = scan[s].due
      BY <1>1, <1>4, <2>1 DEF ScanIs, ScanState
    <2>3. scan[s].entry[1] \in Installs /\ install \in [Installs -> InstallRow]
      BY <1>1, <1>14 DEF ScanActivates, NamedOK, EntryNamed, DepositsTypeOK, InstallRow
    <2>4. \A i \in Installs : install'[i].wallet = install[i].wallet
      BY <1>14, <2>3, ActivatedRow DEF ScanActivates
    <2>5. \A t \in Txs, w \in Wallets : Held(s, t, w) => Held(s, t, w)'
      BY <1>7, <2>2, <2>4 DEF Held
    <2> QED BY <1>6, <1>8, <1>14, <2>2, <2>5 DEF ScanActivates, WriteCursor
  <1>15. CASE WriteCursor(s)
    <2> DEFINE n == [NoScan EXCEPT !.at = "fetch", !.from = ChunkEnd(s) + 1, !.to = scan[s].to]
    <2>1. scan[s].at = "match" /\ scan[s].logs = {} /\ scan[s].due = {}
      BY <1>15 DEF WriteCursor, ChunkDone
    <2>2. Covered(end)
      <3>1. \A t \in Txs, w \in Wallets :
                block[t] \in from .. end /\ Payable(t, w) => Seen(t, w)
        BY <1>6, <2>1 DEF Held
      <3>2. \A t \in Txs, w \in Wallets :
                block[t] \in 1 .. from - 1 /\ Payable(t, w) => Seen(t, w)
        BY <1>5, <2>1 DEF Covered
      <3>3. \A t \in Txs : block[t] \in 1 .. end
                                => block[t] \in from .. end \/ block[t] \in 1 .. from - 1
        BY <1>2 DEF Numbers
      <3> QED BY <3>1, <3>2, <3>3 DEF Covered
    <2>3. end \in Int /\ end <= height - Depth + 1
      BY <1>2, <1>4, <1>5, <2>1 DEF Numbers
    <2>4. Covered(end)'
      BY <1>1, <2>2, <2>3, CoveredStays
    <2>5. IF end < to THEN ScanIs(s, n) ELSE ScanIs(s, NoScan)
      BY <1>1, <1>4, <1>15, CursorStep
    <2>6. n.at = "fetch" /\ n.from = end + 1 /\ n.to = to /\ NoScan.at = "idle"
      BY <1>4 DEF NoScan
    <2> HIDE DEF n
    <2>7. \/ scan'[s].at = "fetch" /\ scan'[s].from = end + 1 /\ scan'[s].to = to /\ end < to
          \/ scan'[s].at = "idle"
      BY <2>5, <2>6 DEF ScanIs
    <2>8. scan'[s].from = end + 1 => scan'[s].from - 1 = end
      OBVIOUS
    <2>9. ScanCovers(s)'
      BY <2>4, <2>7, <2>8 DEF ScanCovers, Covered
    <2> QED BY <1>4, <2>2, <2>3, <2>9 DEF Covered
  <1>16. CASE ScanDies(s)
    <2>1. scan'[s].at = "idle"
      <3>1. ScanIs(s, NoScan) /\ NoScan.at = "idle"
        BY <1>1, <1>16, ScanSteps DEF NoScan
      <3> QED BY <3>1 DEF ScanIs
    <2>2. ~ WriteCursor(s)
      BY <1>1, <1>16, <2>1, DepositsAssumption DEF ScanDies, WriteCursor, NamedOK, DepositsTypeOK
    <2> QED BY <2>1, <2>2 DEF ScanCovers
  <1> QED BY <1>9, <1>10, <1>11, <1>12, <1>13, <1>14, <1>15, <1>16 DEF ScanStep

LEMMA BoundGrows ==
  ASSUME NEW n \in Nat, NEW low \in Nat, NEW high \in Nat, NEW d \in Nat,
         high >= low, n <= low - d + 1
  PROVE  n <= high - d + 1
  OBVIOUS

LEMMA CoverStarts == DepositsInit => CoverInv
  <1> SUFFICES ASSUME DepositsInit PROVE CoverInv
    OBVIOUS
  <1>1. KnowsInv /\ cursor = 0
    BY DepositsStart DEF DepositsInv, DepositsInit
  <1>2. Covered(cursor)
    BY <1>1 DEF Covered
  <1>3. \A s \in Scanners : ScanCovers(s)
    BY DEF ScanCovers, DepositsInit, NoScan
  <1> QED BY <1>1, <1>2, <1>3 DEF CoverInv

LEMMA CoverStays == ASSUME CoverInv, [DepositsNext]_depositVars PROVE CoverInv'
  <1>1. CASE UNCHANGED depositVars
    <2>1. KnowsInv'
      BY <1>1, TypesStay
         DEF depositVars, CoverInv, KnowsInv, PostKnows, ReceiptHolds, Settled, Pays, ScanKnows,
             Ready, Final, OneAdder, DroppedRecorded, RowsPaid, RowPaid, Recorded
    <2> QED BY <1>1, <2>1 DEF depositVars, CoverInv, Covered, Payable, Seen, Recorded, ScanCovers,
                              Held, ChunkEnd
  <1>2. CASE DepositsNext
    <2>1. KnowsInv /\ KnowsInv' /\ NamedOK /\ Progress /\ Numbers /\ Numbers'
      <3>1. KnowsInv /\ KnowsInv' /\ NamedOK /\ NamedOK' /\ Progress
        BY <1>2, KnownStays, StepIsProgress DEF CoverInv, KnowsInv
      <3> QED BY <3>1, TypesAreNumbers, TypesAreNumbersNext
    <2>2. \A s \in Scanners : ScanCovers(s)'
      <3>1. CASE \E s \in Scanners : ScanStep(s)
        <4>1. PICK s \in Scanners : ScanStep(s)
          BY <3>1
        <4>2. \A o \in Scanners \ {s} : scan'[o] = scan[o]
          BY <2>1, <4>1, ScanKnowsMore DEF KnowsInv
        <4> QED BY <1>2, <2>1, <4>1, <4>2, ScanCoversMore, ScanStillCovers DEF CoverInv
      <3>2. CASE ~ \E s \in Scanners : ScanStep(s)
        <4>1. scan' = scan
          BY <1>2, <3>2, StepCases, OthersUntouched
        <4> QED BY <1>2, <2>1, <4>1, ScanStillCovers DEF CoverInv
      <3> QED BY <3>1, <3>2
    <2>3. (cursor > 0 => cursor <= height - Depth + 1)' /\ Covered(cursor)'
      <3>1. CASE \E s \in Scanners : WriteCursor(s)
        <4>1. PICK s \in Scanners : WriteCursor(s)
          BY <3>1
        <4>2. scan \in [Scanners -> ScanState]
          BY <2>1 DEF NamedOK, DepositsTypeOK, ScanState
        <4>3. PICK n \in Nat : n = ChunkEnd(s)
          BY <4>2, ChunkEndIsNat
        <4>4. Covered(n) /\ n <= height - Depth + 1 /\ cursor' = n
          BY <1>2, <4>1, <4>3, ScanCoversMore DEF ScanStep, WriteCursor, Covered
        <4>5. Covered(n)'
          BY <1>2, <2>1, <4>4, CoveredStays
        <4>6. Covered(cursor)'
          BY <4>4, <4>5 DEF Covered
        <4>7. height' >= height /\ height \in Nat /\ height' \in Nat /\ Depth \in Nat
          BY <2>1 DEF Progress, Numbers
        <4>8. (cursor > 0 => cursor <= height - Depth + 1)'
          <5>1. cursor' = n /\ n <= height - Depth + 1
            BY <4>4
          <5>2. n <= height' - Depth + 1
            BY <4>3, <4>7, <5>1, BoundGrows
          <5> QED BY <5>1, <5>2
        <4> QED BY <4>6, <4>8
      <3>2. CASE ~ \E s \in Scanners : WriteCursor(s)
        <4>1. cursor' = cursor
          BY <1>2, <3>2, StepCases
             DEF ChainStep, Mine, Fork, InstallStep, Register, Bind, PostStep, LoadInstall,
                 ReadReceipt, ReadTip, EnsureChannel, CreditDeposit, ActivateIfFunded, PostDies,
                 ScanStep, ScanBegin, FetchLogs, MatchLog, InsertPayment, BumpBalance, ScanActivates, ScanDies
        <4>2. PICK n \in Nat : n = cursor
          BY <2>1 DEF Numbers
        <4>3. Covered(n) /\ (n > 0 => n <= height - Depth + 1) /\ cursor' = n
          BY <4>1, <4>2 DEF CoverInv, Covered
        <4>4. Covered(n)'
          <5>1. CASE n > 0
            BY <1>2, <2>1, <4>3, <5>1, CoveredStays
          <5>2. CASE n = 0
            BY <5>2 DEF Covered
          <5> QED BY <5>1, <5>2
        <4>5. Covered(cursor)'
          BY <4>3, <4>4 DEF Covered
        <4>6. height' >= height /\ height \in Nat /\ height' \in Nat /\ Depth \in Nat
          BY <2>1 DEF Progress, Numbers
        <4>7. (cursor > 0 => cursor <= height - Depth + 1)'
          <5>1. cursor' = n /\ (n > 0 => n <= height - Depth + 1)
            BY <4>3
          <5>2. ASSUME n > 0 PROVE n <= height' - Depth + 1
            <6>1. n \in Nat
              BY <4>2
            <6>2. n <= height - Depth + 1
              BY <5>1, <5>2
            <6> QED BY <4>6, <6>1, <6>2, BoundGrows
          <5> QED BY <5>1, <5>2
        <4> QED BY <4>5, <4>7
      <3> QED BY <3>1, <3>2
    <2> QED BY <2>1, <2>2, <2>3 DEF CoverInv
  <1> QED BY <1>1, <1>2

\* Whatever scans overlap, die or move the cursor back, behind the cursor every
\* transfer of the minimum or more is recorded for its own wallet, or was
\* looked up when no single bound installation had that wallet, or lost its
\* row to another wallet's transfer in the same transaction.
THEOREM CursorStaysBehind == DepositsSpec => []CursorLeavesNothing
  <1>1. ASSUME CoverInv PROVE CursorLeavesNothing
    <2>1. ASSUME NEW t \in Txs, NEW w \in Wallets, block[t] \in 1 .. cursor, Payable(t, w),
                 <<t, w>> \notin unmatched
          PROVE  RecordedFor(t, w) \/ TakenFrom(t, w)
      <3>1. Recorded(t)
        BY <1>1, <2>1 DEF CoverInv, Covered, Seen
      <3>2. PICK i \in Installs : i = payment[t]
        BY <1>1, <3>1 DEF CoverInv, KnowsInv, NamedOK, DepositsTypeOK, Recorded
      <3>3. install[i].status \in Bound /\ Settled(t, i)
        BY <1>1, <3>1, <3>2 DEF CoverInv, KnowsInv, RowsPaid, RowPaid
      <3>4. PICK v \in Wallets : v = install[i].wallet
        BY <1>1, <3>3 DEF CoverInv, KnowsInv, NamedOK, WalletNamed, Bound
      <3>5. RecordedFor(t, v) /\ (sent[t][v] >= MinDeposit \/ t \in stale)
        BY <3>1, <3>2, <3>3, <3>4 DEF RecordedFor, Settled, Pays
      <3>6. CASE v = w
        BY <3>5, <3>6
      <3>7. CASE v # w
        BY <3>5, <3>7 DEF TakenFrom
      <3> QED BY <3>6, <3>7
    <2> QED BY <2>1 DEF CursorLeavesNothing, Payable
  <1> QED BY <1>1, CoverStarts, CoverStays, PTL DEF DepositsSpec
=============================================================================
