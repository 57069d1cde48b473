-------------------------- MODULE DeferredPayment --------------------------
(***************************************************************************)
(* What the x402 rail promises a wallet, with no trace of the handlers,    *)
(* workers, crons and polls that keep the promise.  The work comes first   *)
(* and is done once.  Money is asked for once, only for a review or for a  *)
(* failure that is the caller's own, and never of a caller who was told    *)
(* that nothing was charged.  A receipt is written only of money that      *)
(* moved.  A job ends once, and what it ends as agrees with the work, the  *)
(* money and the receipt.                                                  *)
(***************************************************************************)
EXTENDS Naturals

CONSTANT Jobs       \* review jobs of one wallet

VARIABLES lane,     \* "none" before there is a job, then "free" or "paid"
          work,     \* what the pipeline made of it
          money,    \* the caller's authorization, as the facilitator sees it
          receipt,  \* the job carries the facilitator's receipt
          outcome   \* "open", or how the job ended

paymentVars == <<lane, work, money, receipt, outcome>>

Owing == {"review", "caller_fault"}
Worked == Owing \cup {"our_fault"}

\* Nothing may be asked for any more.
Settled == {"delivered", "waived"}

PaymentInit ==
    /\ lane = [j \in Jobs |-> "none"]
    /\ work = [j \in Jobs |-> "nothing"]
    /\ money = [j \in Jobs |-> "unseen"]
    /\ receipt = [j \in Jobs |-> FALSE]
    /\ outcome = [j \in Jobs |-> "open"]

Open(j, l) ==
    /\ lane[j] = "none"
    /\ lane' = [lane EXCEPT ![j] = l]
    /\ UNCHANGED <<work, money, receipt, outcome>>

Perform(j, w) ==
    /\ lane[j] # "none" /\ work[j] = "nothing"
    /\ outcome[j] \notin Settled
    /\ work' = [work EXCEPT ![j] = w]
    /\ UNCHANGED <<lane, money, receipt, outcome>>

\* Also of a job that the cron has timed out or the poll has expired: who asks
\* is a worker that still lives.
Ask(j) ==
    /\ lane[j] = "paid" /\ money[j] = "unseen"
    /\ work[j] \in Owing
    /\ outcome[j] \notin Settled
    /\ money' = [money EXCEPT ![j] = "sent"]
    /\ UNCHANGED <<lane, work, receipt, outcome>>

Answer(j, a) ==
    /\ money[j] = "sent"
    /\ money' = [money EXCEPT ![j] = a]
    /\ UNCHANGED <<lane, work, receipt, outcome>>

\* Whatever became of the job meanwhile.
Acknowledge(j) ==
    /\ money[j] = "captured"
    /\ receipt' = [receipt EXCEPT ![j] = TRUE]
    /\ UNCHANGED <<lane, work, money, outcome>>

End(j, o) ==
    /\ lane[j] # "none" /\ outcome[j] = "open"
    /\ outcome' = [outcome EXCEPT ![j] = o]
    /\ UNCHANGED <<lane, work, money>>

\* A paid review is handed out with its receipt.
Deliver(j) ==
    /\ work[j] = "review"
    /\ lane[j] = "paid" => money[j] = "captured"
    /\ receipt' = [receipt EXCEPT ![j] = lane[j] = "paid"]
    /\ End(j, "delivered")

\* The caller is told that nothing was charged: a paid job has not failed by
\* the caller's fault, no review is handed out, and its authorization was not
\* even sent.
Waive(j) ==
    /\ work[j] # "nothing" /\ money[j] = "unseen"
    /\ lane[j] = "paid" => work[j] # "caller_fault"
    /\ UNCHANGED receipt
    /\ End(j, "waived")

\* Any other failure keeps the receipt, or brings it.
Fail(j) ==
    /\ \/ UNCHANGED receipt
       \/ money[j] = "captured" /\ receipt' = [receipt EXCEPT ![j] = TRUE]
    /\ End(j, "failed")

\* The window of the signature is over, whatever was captured before.
Expire(j) ==
    /\ receipt' = [receipt EXCEPT ![j] = FALSE]
    /\ End(j, "expired")

PaymentNext ==
    \E j \in Jobs :
        \/ \E l \in {"free", "paid"} : Open(j, l)
        \/ \E w \in Worked : Perform(j, w)
        \/ Ask(j)
        \/ \E a \in {"captured", "refused"} : Answer(j, a)
        \/ Acknowledge(j)
        \/ Deliver(j) \/ Waive(j) \/ Fail(j) \/ Expire(j)

PaymentSpec == PaymentInit /\ [][PaymentNext]_paymentVars
=============================================================================
