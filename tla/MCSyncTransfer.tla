---------------------------- MODULE MCSyncTransfer ----------------------------
(***************************************************************************)
(* A small instance of SyncTransfer: three accounts with two cents each,   *)
(* two processes, transfers in a circle of one cent, one and a half and    *)
(* half a cent, one of more than an account holds, to and from an unknown  *)
(* account, and bodies that lack a field.                                  *)
(***************************************************************************)
EXTENDS SyncTransfer, TLC

CONSTANTS s1, s2, s3, p1, p2

MCInitialBalance == [a \in Accounts |-> 2 * Scale]

(* All requests go to one process, or one of them to another.              *)
MCHomes == {[s \in Sessions |-> p1], [s \in Sessions |-> IF s = s3 THEN p2 ELSE p1]}

Body(src, dst, amount) == [src |-> src, dst |-> dst, amount |-> amount]

MCBodies ==
  (s1 :> {Body(1, 2, 3)}) @@
  (s2 :> {Body(2, 3, 1)}) @@
  (s3 :> {Body(3, 1, 2), Body(1, 3, 3), Body(1, 1, 2),
          Body(1, 9, 2), Body(9, 1, 2), Body(2, 1, 0)})
=============================================================================
