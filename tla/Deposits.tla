------------------------------ MODULE Deposits ------------------------------
(***************************************************************************)
(* How a transfer on Base becomes channel balance.  An installation is     *)
(* registered with a claimed wallet and bound by that wallet's signature;  *)
(* a transfer to the deposit address is then credited by whichever comes   *)
(* first, POST /installations/{id}/deposit with the transaction's hash or  *)
(* the scanner that walks the chain behind a cursor.                       *)
(*                                                                         *)
(* The endpoint credits in one statement, the scanner in three.  Drawdowns *)
(* are ChannelRail's business: here a channel's balance is kept as the     *)
(* number of times each transaction's amount was added to it.              *)
(***************************************************************************)
EXTENDS Integers, FiniteSets

CONSTANTS
    Installs,    \* installations rows
    Wallets,     \* addresses that bind and pay
    Txs,         \* transactions with transfers to the deposit address
    Posts,       \* calls of the deposit endpoint
    Scanners,    \* scans that overlap
    NoInstall,   \* a payment row that does not exist
    Transfers,   \* what one transaction may send: units per wallet
    MinDeposit,  \* getMinDepositUsdc, in units
    Depth,       \* confirmations: CONFIRMATION_DEPTH, DEPOSIT_MIN_CONFIRMATIONS
    Chunk,       \* LOG_RANGE_LIMIT
    MaxHeight,   \* bound on the chain's height
    MaxDepositFaults  \* bound on calls and scans that die

ASSUME DepositsAssumption ==
    /\ NoInstall \notin Installs
    /\ Transfers \subseteq [Wallets -> Nat]
    /\ MinDeposit \in Nat \ {0}
    /\ Depth \in Nat \ {0}
    /\ Chunk \in Nat \ {0}
    /\ MaxHeight \in Nat
    /\ MaxDepositFaults \in Nat

VARIABLES
    install,   \* installations: status and wallet_address
    channel,   \* installations that have a channels row
    credits,   \* channels.balance_usdc: times each transaction was added
    payment,   \* payments rows of type deposit: the channel by transaction
    height,    \* the latest block
    block,     \* the block of each transaction, 0 before it is mined
    sent,      \* what each transaction transferred to the deposit address
    cursor,    \* cron_cursors: the last processed block
    post,      \* calls of the endpoint
    scan,      \* scans
    unmatched, \* history: transfers a scan found no channel for
    dropped,   \* history: transactions recorded by a scan that died
    stale,     \* history: transactions a fork took from under a call's receipt
    depositFaults

depositVars == <<install, channel, credits, payment, height, block, sent,
                 cursor, post, scan, unmatched, dropped, stale, depositFaults>>

rows == <<install, channel, credits, payment>>
chain == <<height, block, sent>>
history == <<unmatched, dropped, stale>>

NoPost == [at |-> "idle", inst |-> NoInstall, tx |-> "none", status |-> "none",
           seen |-> 0, pays |-> FALSE]
NoScan == [at |-> "idle", from |-> 1, to |-> 0, logs |-> {}, due |-> {}, entry |-> <<>>]

DepositsInit ==
    /\ install = [i \in Installs |-> [status |-> "absent", wallet |-> "none"]]
    /\ channel = {}
    /\ credits = [i \in Installs |-> [t \in Txs |-> 0]]
    /\ payment = [t \in Txs |-> NoInstall]
    /\ height = 0
    /\ block = [t \in Txs |-> 0]
    /\ sent = [t \in Txs |-> [w \in Wallets |-> 0]]
    /\ cursor = 0
    /\ post = [p \in Posts |-> NoPost]
    /\ scan = [s \in Scanners |-> NoScan]
    /\ unmatched = {}
    /\ dropped = {}
    /\ stale = {}
    /\ depositFaults = 0

-----------------------------------------------------------------------------
(* Statements.                                                             *)

\* Statuses the deposit paths accept: the wallet has proved itself.
AnyStatus == {"pending_binding", "awaiting_deposit", "active"}
Bound == {"awaiting_deposit", "active"}

Activated(i) == [install EXCEPT ![i].status = IF @ \in Bound THEN "active" ELSE @]

\* balance_usdc >= minimum; before the first drawdown any recorded deposit
\* is enough, since none below the minimum is recorded.
Ignoring(i) == TRUE
Funded(i) == \E t \in Txs : credits[i][t] > 0

\* loadChannelByWallet: the one bound installation of the wallet, if it is one.
EligibleAny(w) == {i \in Installs : install[i].wallet = w}
Eligible(w) == {i \in Installs : install[i].wallet = w /\ install[i].status \in Bound}

\* Block numbers a scan may read: its upper end is Depth - 1 behind the tip.
TipItself == height
ScanLimit == IF height + 1 > Depth THEN height - Depth + 1 ELSE 0

ChunkEnd(s) == IF scan[s].from + Chunk - 1 < scan[s].to THEN scan[s].from + Chunk - 1
                                                         ELSE scan[s].to

-----------------------------------------------------------------------------
(* The chain and the accounts.                                             *)

\* One block, with at most one transaction that matters.
Mine(txs) ==
    /\ height < MaxHeight
    /\ height' = height + 1
    /\ Cardinality(txs) <= 1
    /\ \A t \in txs : block[t] = 0
    /\ block' = [t \in Txs |-> IF t \in txs THEN height + 1 ELSE block[t]]
    /\ \E moved \in Transfers :
           sent' = [t \in Txs |-> IF t \in txs THEN moved ELSE sent[t]]
    /\ UNCHANGED <<rows, cursor, post, scan, history, depositFaults>>

\* A call of the endpoint has t's receipt and not yet the tip.
HoldsReceipt(t) == \E p \in Posts : post[p].at = "tip" /\ post[p].tx = t

\* A fork drops a transaction, which may be mined again or not; blocks Depth or
\* more deep are final.
Fork(t) ==
    /\ block[t] > 0 /\ height - block[t] + 1 < Depth
    /\ stale' = IF HoldsReceipt(t) THEN stale \cup {t} ELSE stale
    /\ block' = [block EXCEPT ![t] = 0]
    /\ sent' = [sent EXCEPT ![t] = [w \in Wallets |-> 0]]
    /\ UNCHANGED <<height, rows, cursor, post, scan, unmatched, dropped, depositFaults>>

\* POST /installations: a row with a wallet that is only claimed so far.
Register(i, w) ==
    /\ install[i].status = "absent"
    /\ install' = [install EXCEPT ![i] = [status |-> "pending_binding", wallet |-> w]]
    /\ UNCHANGED <<channel, credits, payment, chain, cursor, post, scan, history,
                   depositFaults>>

\* POST /installations/{id}/bind with a signature that recovers to the wallet.
Bind(i) ==
    /\ install[i].status = "pending_binding"
    /\ install' = [install EXCEPT ![i].status = "awaiting_deposit"]
    /\ UNCHANGED <<channel, credits, payment, chain, cursor, post, scan, history,
                   depositFaults>>

-----------------------------------------------------------------------------
(* POST /installations/{id}/deposit.                                       *)

PostAt(p, at) == post' = [post EXCEPT ![p].at = at]
PostEnds(p) == post' = [post EXCEPT ![p] = [NoPost EXCEPT !.at = "done"]]

\* handleDepositInstallation loads the row and refuses an unbound wallet.
LoadInstall(p, i, t) ==
    /\ post[p].at = "idle"
    /\ install[i].status \in Bound
    /\ post' = [post EXCEPT ![p] = [NoPost EXCEPT !.at = "verify", !.inst = i, !.tx = t,
                                                  !.status = install[i].status]]
    /\ UNCHANGED <<rows, chain, cursor, scan, history, depositFaults>>

\* verifyDeposit asks for the receipt: its block, and whether the transfers
\* from the installation's wallet come to the minimum.
ReadReceipt(p) ==
    LET t == post[p].tx IN
    /\ post[p].at = "verify"
    /\ IF block[t] > 0
       THEN post' = [post EXCEPT
                ![p].at = "tip",
                ![p].seen = block[t],
                ![p].pays = sent[t][install[post[p].inst].wallet] >= MinDeposit]
       ELSE PostEnds(p)
    /\ UNCHANGED <<rows, chain, cursor, scan, history, depositFaults>>

\* The confirmations of the block the receipt named, at the tip read after it.
Confirmed(p) == height - post[p].seen + 1 >= Depth

\* Its second call, for the tip: the receipt is not asked for again.
ReadTip(p) ==
    /\ post[p].at = "tip"
    /\ IF Confirmed(p) /\ post[p].pays
       THEN post' = [post EXCEPT ![p].at = "channel", ![p].seen = 0, ![p].pays = FALSE]
       ELSE PostEnds(p)
    /\ UNCHANGED <<rows, chain, cursor, scan, history, depositFaults>>

EnsureChannel(p) ==
    /\ post[p].at = "channel"
    /\ channel' = channel \cup {post[p].inst}
    /\ PostAt(p, "credit")
    /\ UNCHANGED <<install, credits, payment, chain, cursor, scan, history, depositFaults>>

\* The INSERT's ON CONFLICT (chain_id, tx_hash) DO NOTHING.
NeverRecorded(t) == FALSE
Recorded(t) == payment[t] # NoInstall

\* creditChannelFromDeposit: payment, balance and status in one statement.
CreditDeposit(p) ==
    LET i == post[p].inst
        t == post[p].tx IN
    /\ post[p].at = "credit"
    /\ \/ /\ ~ Recorded(t)
          /\ payment' = [payment EXCEPT ![t] = i]
          /\ credits' = [credits EXCEPT ![i][t] = @ + 1]
          /\ install' = Activated(i)
          /\ PostEnds(p)
       \/ /\ Recorded(t)
          /\ IF post[p].status = "active" THEN PostEnds(p) ELSE PostAt(p, "activate")
          /\ UNCHANGED <<payment, credits, install>>
    /\ UNCHANGED <<channel, chain, cursor, scan, history, depositFaults>>

\* markInstallationActiveIfFunded, for a row that was not active when loaded.
ActivateIfFunded(p) ==
    /\ post[p].at = "activate"
    /\ install' = IF Funded(post[p].inst) THEN Activated(post[p].inst) ELSE install
    /\ PostEnds(p)
    /\ UNCHANGED <<channel, credits, payment, chain, cursor, scan, history, depositFaults>>

\* The handler is killed, a statement throws or the RPC gives no answer.
PostDies(p) ==
    /\ depositFaults < MaxDepositFaults
    /\ post[p].at \notin {"idle", "done"}
    /\ depositFaults' = depositFaults + 1
    /\ PostEnds(p)
    /\ UNCHANGED <<rows, chain, cursor, scan, history>>

-----------------------------------------------------------------------------
(* scanDepositsWithDeps.                                                   *)

\* The tip and the cursor are read once, at the start.
ScanBegin(s) ==
    /\ scan[s].at = "idle"
    /\ cursor + 1 <= ScanLimit
    /\ scan' = [scan EXCEPT ![s].at = "fetch", ![s].from = cursor + 1, ![s].to = ScanLimit]
    /\ UNCHANGED <<rows, chain, cursor, post, history, depositFaults>>

\* getLogs of one chunk.
FetchLogs(s) ==
    /\ scan[s].at = "fetch"
    /\ scan' = [scan EXCEPT
           ![s].at = "match",
           ![s].logs = {l \in Txs \X Wallets : /\ block[l[1]] \in scan[s].from .. ChunkEnd(s)
                                               /\ sent[l[1]][l[2]] > 0}]
    /\ UNCHANGED <<rows, chain, cursor, post, history, depositFaults>>

\* One log: its channel, created if need be, or none.
MatchLog(s) ==
    /\ scan[s].at = "match"
    /\ \E l \in scan[s].logs :
           LET owners == Eligible(l[2]) IN
           /\ \A o \in scan[s].logs : block[l[1]] <= block[o[1]]
           /\ scan' = [scan EXCEPT
                  ![s].logs = @ \ {l},
                  ![s].due = IF Cardinality(owners) = 1
                             THEN @ \cup {<<i, l[1]>> : i \in owners} ELSE @]
           /\ channel' = IF Cardinality(owners) = 1 THEN channel \cup owners ELSE channel
           /\ unmatched' = IF Cardinality(owners) = 1 THEN unmatched ELSE unmatched \cup {l}
    /\ UNCHANGED <<install, credits, payment, chain, cursor, post, dropped, stale, depositFaults>>

\* compareUsdcStrings on the sum of one transaction's logs to one channel
LargeEnough(d) == sent[d[2]][install[d[1]].wallet] >= MinDeposit

\* One entry: skipped below the minimum, else the INSERT of its payment row.
InsertPayment(s) ==
    /\ scan[s].at = "match" /\ scan[s].logs = {}
    /\ \E d \in scan[s].due :
           /\ \A o \in scan[s].due : block[d[2]] <= block[o[2]]
           /\ \/ /\ LargeEnough(d) /\ ~ Recorded(d[2])
                 /\ payment' = [payment EXCEPT ![d[2]] = d[1]]
                 /\ scan' = [scan EXCEPT ![s].at = "bump", ![s].due = @ \ {d}, ![s].entry = d]
              \/ /\ ~ LargeEnough(d) \/ Recorded(d[2])
                 /\ scan' = [scan EXCEPT ![s].due = @ \ {d}]
                 /\ UNCHANGED payment
    /\ UNCHANGED <<install, channel, credits, chain, cursor, post, history, depositFaults>>

\* UPDATE channels, a statement of its own.
BumpBalance(s) ==
    /\ scan[s].at = "bump"
    /\ credits' = [credits EXCEPT ![scan[s].entry[1]][scan[s].entry[2]] = @ + 1]
    /\ scan' = [scan EXCEPT ![s].at = "activate"]
    /\ UNCHANGED <<install, channel, payment, chain, cursor, post, history, depositFaults>>

\* UPDATE installations, the third one.
ScanActivates(s) ==
    /\ scan[s].at = "activate"
    /\ install' = Activated(scan[s].entry[1])
    /\ scan' = [scan EXCEPT ![s].at = "match", ![s].entry = <<>>]
    /\ UNCHANGED <<channel, credits, payment, chain, cursor, post, history, depositFaults>>

\* Whether the entries of the chunk are behind us.
FetchedIsEnough(s) == scan[s].logs = {}
ChunkDone(s) == scan[s].logs = {} /\ scan[s].due = {}

\* writeCursor(chunkTo), whatever the row holds by now; then the next chunk.
WriteCursor(s) ==
    /\ scan[s].at = "match" /\ ChunkDone(s)
    /\ cursor' = ChunkEnd(s)
    /\ scan' = [scan EXCEPT ![s] = IF ChunkEnd(s) < scan[s].to
                                   THEN [NoScan EXCEPT !.at = "fetch", !.from = ChunkEnd(s) + 1,
                                                       !.to = scan[s].to]
                                   ELSE NoScan]
    /\ UNCHANGED <<rows, chain, post, history, depositFaults>>

\* The scan is killed or a statement throws: nothing is cleaned up.
ScanDies(s) ==
    /\ depositFaults < MaxDepositFaults
    /\ scan[s].at # "idle"
    /\ depositFaults' = depositFaults + 1
    /\ dropped' = IF scan[s].at = "bump" THEN dropped \cup {scan[s].entry[2]} ELSE dropped
    /\ scan' = [scan EXCEPT ![s] = NoScan]
    /\ UNCHANGED <<rows, chain, cursor, post, unmatched, stale>>

-----------------------------------------------------------------------------

DepositsNext ==
    \/ Mine({})
    \/ \E t \in Txs : Mine({t}) \/ Fork(t)
    \/ \E i \in Installs : Bind(i) \/ \E w \in Wallets : Register(i, w)
    \/ \E p \in Posts :
           \/ \E i \in Installs, t \in Txs : LoadInstall(p, i, t)
           \/ ReadReceipt(p) \/ ReadTip(p) \/ EnsureChannel(p) \/ CreditDeposit(p)
           \/ ActivateIfFunded(p) \/ PostDies(p)
    \/ \E s \in Scanners :
           \/ ScanBegin(s) \/ FetchLogs(s) \/ MatchLog(s) \/ InsertPayment(s)
           \/ BumpBalance(s) \/ ScanActivates(s) \/ WriteCursor(s) \/ ScanDies(s)

DepositsSpec == DepositsInit /\ [][DepositsNext]_depositVars

-----------------------------------------------------------------------------
(* Properties.                                                             *)

DepositsTypeOK ==
    /\ install \in [Installs -> [status : AnyStatus \cup {"absent"},
                                 wallet : Wallets \cup {"none"}]]
    /\ channel \subseteq Installs
    /\ credits \in [Installs -> [Txs -> Nat]]
    /\ payment \in [Txs -> Installs \cup {NoInstall}]
    /\ height \in Nat /\ cursor \in Nat
    /\ block \in [Txs -> Nat]
    /\ sent \in [Txs -> [Wallets -> Nat]]
    /\ post \in [Posts -> [at : {"idle", "verify", "tip", "channel", "credit", "activate", "done"},
                           inst : Installs \cup {NoInstall}, tx : Txs \cup {"none"},
                           status : Bound \cup {"none"}, seen : Nat, pays : BOOLEAN]]
    /\ scan \in [Scanners -> [at : {"idle", "fetch", "match", "bump", "activate"},
                              from : Nat, to : Nat, logs : SUBSET (Txs \X Wallets),
                              due : SUBSET (Installs \X Txs),
                              entry : (Installs \X Txs) \cup {<<>>}]]
    /\ unmatched \subseteq Txs \X Wallets
    /\ dropped \subseteq Txs
    /\ stale \subseteq Txs
    /\ depositFaults \in Nat

\* A scan that has inserted the payment row and not yet added the amount.
BeingAdded(t) == \E s \in Scanners : scan[s].at = "bump" /\ scan[s].entry[2] = t

\* Endpoint and scanner, whichever sees a transfer first and however they
\* overlap, add it to one channel, once: to the channel of its payment row.  A
\* recorded transfer is missing from its balance only while a scan is between
\* its INSERT and its UPDATE, or for good if the scan died there; and what is
\* recorded is Depth deep, out of any fork's reach, unless a fork came between
\* the receipt and the tip of some call for it (creditChannelFromDeposit,
\* creditDeposit of scan-deposits.ts, verifyDeposit).
BalanceIsDeposits ==
    \A i \in Installs, t \in Txs :
        /\ credits[i][t] = IF payment[t] = i /\ t \notin dropped /\ ~ BeingAdded(t) THEN 1 ELSE 0
        /\ payment[t] = i => t \in stale \/ block[t] \in 1 .. height - Depth + 1

\* t's one payment row is an installation's of wallet w.
RecordedFor(t, w) == Recorded(t) /\ install[payment[t]].wallet = w

\* Another wallet's transfer has t's row: the row is one per transaction.
TakenFrom(t, w) ==
    \E v \in Wallets \ {w} : RecordedFor(t, v) /\ (sent[t][v] >= MinDeposit \/ t \in stale)

\* The cursor passes no block that a scan has not read whole: behind it every
\* transfer of the minimum or more is recorded for its own wallet, or was
\* looked up when no single bound installation had that wallet, or shares its
\* transaction with another wallet's transfer that has the row.  The third is a
\* loss: two wallets that pay in one transaction are credited once
\* (scanDepositsWithDeps, payments_tx_hash_uniq).
CursorLeavesNothing ==
    \A t \in Txs, w \in Wallets :
        (block[t] \in 1 .. cursor /\ sent[t][w] >= MinDeposit)
            => \/ RecordedFor(t, w) \/ <<t, w>> \in unmatched
               \/ TakenFrom(t, w)

\* A deposit is credited only with the confirmations the endpoint requires
\* (env.ts on DEPOSIT_MIN_CONFIRMATIONS).
CreditedIsConfirmed ==
    \A t \in Txs : Recorded(t) => block[t] \in 1 .. height - Depth + 1

\* What an agent sent from a wallet of one installation is credited though it
\* never called the endpoint, once the scan has passed its block (header of
\* scan-deposits.ts).
SentIsCredited ==
    \A t \in Txs, w \in Wallets :
        (block[t] \in 1 .. cursor /\ sent[t][w] >= MinDeposit /\ <<t, w>> \notin unmatched)
            => RecordedFor(t, w)

\* An installation is active only with a deposit of its own behind it: a
\* transaction already recorded for another installation activates nothing
\* (deposit route, markInstallationActiveIfFunded).
ActiveIsFunded ==
    \A i \in Installs :
        install[i].status = "active" => i \in channel /\ \E t \in Txs : credits[i][t] > 0
=============================================================================
