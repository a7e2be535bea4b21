----------------------------- MODULE MCTransferDB -----------------------------
(* A small instance of TransferDB: all balances start at two cents.         *)
EXTENDS TransferDB

MCInitialBalance == [a \in Accounts |-> 2 * Scale]
=============================================================================
