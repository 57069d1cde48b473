--------------------------- MODULE PrepaidLedger ---------------------------
(***************************************************************************)
(* What the prepaid rail promises the owner of a channel, with no trace of *)
(* the handlers, workers and crons that keep the promise.  A deposit       *)
(* counts once.  A job is charged at most once and never beyond the        *)
(* balance.  A charged job ends in at most one of two ways: its review is  *)
(* delivered, or its exact charge is given back.                           *)
(***************************************************************************)
EXTENDS Integers

CONSTANTS Jobs,      \* review jobs of one installation
          Deposits,  \* on-chain transfers to its channel
          Amounts    \* sizes of transfers and prices, in USDC units

VARIABLES funds,     \* what the owner may still spend
          credited,  \* the transfers counted so far
          charge,    \* what each job was charged, 0 for nothing
          outcome    \* how each job ended: "open", "delivered", "refunded"

ledgerVars == <<funds, credited, charge, outcome>>

LedgerInit ==
    /\ funds = 0
    /\ credited = {}
    /\ charge = [j \in Jobs |-> 0]
    /\ outcome = [j \in Jobs |-> "open"]

Credit(d, amount) ==
    /\ d \notin credited
    /\ credited' = credited \cup {d}
    /\ funds' = funds + amount
    /\ UNCHANGED <<charge, outcome>>

Charge(j, price) ==
    /\ outcome[j] = "open"
    /\ charge[j] = 0
    /\ price <= funds
    /\ charge' = [charge EXCEPT ![j] = price]
    /\ funds' = funds - price
    /\ UNCHANGED <<credited, outcome>>

\* A job of a legacy partner is delivered without a charge.
Deliver(j) ==
    /\ outcome[j] = "open"
    /\ outcome' = [outcome EXCEPT ![j] = "delivered"]
    /\ UNCHANGED <<funds, credited, charge>>

GiveBack(j) ==
    /\ outcome[j] = "open"
    /\ charge[j] > 0
    /\ outcome' = [outcome EXCEPT ![j] = "refunded"]
    /\ funds' = funds + charge[j]
    /\ UNCHANGED <<credited, charge>>

LedgerNext ==
    \/ \E d \in Deposits, amount \in Amounts : Credit(d, amount)
    \/ \E j \in Jobs, price \in Amounts : Charge(j, price)
    \/ \E j \in Jobs : Deliver(j) \/ GiveBack(j)

LedgerSpec == LedgerInit /\ [][LedgerNext]_ledgerVars
=============================================================================
