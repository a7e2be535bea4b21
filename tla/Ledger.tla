-------------------------------- MODULE Ledger --------------------------------
(***************************************************************************)
(* What the banking API promises, without its queue, workers, sessions and *)
(* replicas: a transfer is accepted once, and an accepted transfer is      *)
(* either completed, at the instant its money moves, or rejected, without  *)
(* any effect on the accounts.  Neither outcome is ever revised.           *)
(***************************************************************************)
EXTENDS Integers

CONSTANTS
  Txs,
  Accounts,
  Orders,            \* records with fields src, dst and amount
  NoOrder,
  InitialBalance,
  Transfer(_, _)     \* Transfer(b, o): the balances b after order o

VARIABLES
  balance,
  outcome,           \* "absent", "pending", "completed" or "failed"
  order              \* the accepted order, NoOrder while there is none

ledgerVars == <<balance, outcome, order>>

Init ==
  /\ balance = InitialBalance
  /\ outcome = [tx \in Txs |-> "absent"]
  /\ order = [tx \in Txs |-> NoOrder]

Accept(tx, o) ==
  /\ outcome[tx] = "absent"
  /\ {o.src, o.dst} \subseteq Accounts
  /\ outcome' = [outcome EXCEPT ![tx] = "pending"]
  /\ order' = [order EXCEPT ![tx] = o]
  /\ UNCHANGED balance

Complete(tx) ==
  /\ outcome[tx] = "pending"
  /\ balance[order[tx].src] >= order[tx].amount
  /\ outcome' = [outcome EXCEPT ![tx] = "completed"]
  /\ balance' = Transfer(balance, order[tx])
  /\ UNCHANGED order

(* The transfers in S are rejected, several at once when a process dies.   *)
Reject(S) ==
  /\ S # {}
  /\ \A tx \in S : outcome[tx] = "pending"
  /\ outcome' = [tx \in Txs |-> IF tx \in S THEN "failed" ELSE outcome[tx]]
  /\ UNCHANGED <<balance, order>>

Next ==
  \/ \E tx \in Txs : (\E o \in Orders : Accept(tx, o)) \/ Complete(tx)
  \/ \E S \in SUBSET Txs : Reject(S)

Spec == Init /\ [][Next]_ledgerVars
=============================================================================
