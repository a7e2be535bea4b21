----------------------------- MODULE MCSettlement -----------------------------
(***************************************************************************)
(* Small instances of Settlement: two accounts with two cents each,        *)
(* opposite transfers of one cent, one of more than an account holds and   *)
(* one to an account that does not exist.                                  *)
(***************************************************************************)
EXTENDS Settlement, TLC

CONSTANTS s1, s2, p1, p2

MCInitialBalance == [a \in Accounts |-> 2 * Scale]

Order(src, dst, cents) == [src |-> src, dst |-> dst, amount |-> cents * Scale]

Opposite == {Order(1, 2, 1), Order(2, 1, 1)}

WithUnknown == Opposite \cup {Order(2, 9, 1)}

AllRequests == WithUnknown \cup {Order(1, 2, 3)}

OneProc == (s1 :> p1) @@ (s2 :> p1)

TwoProcs == (s1 :> p1) @@ (s2 :> p2)
=============================================================================
