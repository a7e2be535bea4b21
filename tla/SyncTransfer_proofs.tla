------------------------- MODULE SyncTransfer_proofs -------------------------
(***************************************************************************)
(* Proofs about SyncTransfer, for any number of requests, processes,       *)
(* connections and faults: what createSync answers and records is what     *)
(* happened to the money, and the path as a whole implements the ledger.   *)
(***************************************************************************)
EXTENDS SyncTransfer, TransferDB_proofs

-----------------------------------------------------------------------------
(* Bodies and rows                                                         *)

(* A body that passes the handler's validation is a transfer.              *)
LEMMA ValidBody ==
  ASSUME NEW s \in Sessions, NEW b \in Bodies[s], Valid(b)
  PROVE  b \in Job
  <1>1. b \in [src : AccountIds \cup {0}, dst : AccountIds \cup {0},
               amount : Amounts \cup {0}]
    BY SyncTransferAssumption
  <1>2. b.amount # 0
    BY <1>1, TransferDBAssumption DEF Valid
  <1> QED
    BY <1>1, <1>2 DEF Valid, Job

(***************************************************************************)
(* The row of a transfer: what it gives to the destination, in whole       *)
(* cents, and never mistaken for the absence of a row.                     *)
(***************************************************************************)
LEMMA RoundedRow ==
  ASSUME NEW b \in Job, {b.src, b.dst} \subseteq Accounts
  PROVE  /\ Rounded(b) \in [src : Accounts, dst : Accounts, amount : Nat]
         /\ Rounded(b) # NoJob
         /\ Rounded(b) = [b EXCEPT !.amount = Given(b)]
  <1>1. b.amount \in Nat /\ b.src # 0
    BY TransferDBAssumption, SyncTransferAssumption DEF Job
  <1>2. Round(b.amount) \in Nat
    BY <1>1, RoundNat
  <1>3. Round(b.amount) = Given(b)
    BY <1>1 DEF Round, Given
  <1>4. Rounded(b) = [src |-> b.src, dst |-> b.dst, amount |-> Round(b.amount)]
    BY DEF Rounded, Job
  <1>5. Rounded(b) # NoJob
    BY <1>1, <1>4 DEF NoJob
  <1> QED
    BY <1>2, <1>3, <1>4, <1>5 DEF Rounded
-----------------------------------------------------------------------------
(* The inductive invariant                                                 *)

ReqTypeOK ==
  /\ pc \in [Sessions -> PCs]
  /\ home \in [Sessions -> Procs]
  /\ DOMAIN body = Sessions
  /\ \A s \in Sessions : body[s] \in Bodies[s] \cup {NoJob}
  /\ id \in [Sessions -> Ids \cup {NoId}]
  /\ rows \in [Ids -> [src : Accounts, dst : Accounts, amount : Nat] \cup {NoJob}]
  /\ moved \subseteq Sessions
  /\ faults \in 0..MaxFaults

(***************************************************************************)
(* A request that was taken up is a transfer and has an id, and its        *)
(* destination exists once it may write.                                   *)
(***************************************************************************)
RequestInv ==
  \A s \in Sessions :
    /\ pc[s] \notin {"none", "400"} => body[s] \in Job /\ id[s] \in Ids
    /\ pc[s] = "write" => body[s].dst \in Accounts

(* A transaction is open only for the handler that began it, or a dead one. *)
SessionInv ==
  \A s \in Sessions :
    Open(s) => pc[s] \in {"exists", "write", "dead"} /\ job[s] = body[s]

(***************************************************************************)
(* Money moves in the step that leaves the transaction: afterwards the     *)
(* handler can only finish, and before it the request has not moved any.   *)
(***************************************************************************)
MovedInv ==
  \A s \in Sessions :
    /\ s \in moved => /\ pc[s] \in {"invalidate", "201", "500", "dead"}
                      /\ ~Open(s)
                      /\ {body[s].src, body[s].dst} \subseteq Accounts
    /\ pc[s] \in {"invalidate", "201"} => s \in moved

(* Each row is that of a request with this id that moved money.            *)
RowsInv ==
  \A i \in Ids :
    \/ rows[i] = NoJob /\ \A s \in moved : id[s] # i
    \/ \E s \in moved : id[s] = i /\ rows[i] = Rounded(body[s])

PathInv == ReqTypeOK /\ RequestInv /\ SessionInv /\ MovedInv /\ RowsInv

SyncInv == Inv /\ PathInv

(* At first every request is still to come.                                *)
LEMMA InitSync == Init => SyncInv
  <1> SUFFICES ASSUME Init PROVE SyncInv
    OBVIOUS
  <1>1. Inv
    BY InitInv DEF Init
  <1>2. ReqTypeOK
    BY SyncTransferAssumption DEF Init, ReqTypeOK, PCs
  <1>3. RequestInv /\ SessionInv /\ MovedInv /\ RowsInv
    BY DEF Init, DBInit, RequestInv, SessionInv, MovedInv, RowsInv, Open
  <1> QED
    BY <1>1, <1>2, <1>3 DEF SyncInv, PathInv

(* The handler before and after its transaction.                           *)
LEMMA RefuseSync ==
  ASSUME SyncInv, NEW s \in Sessions, NEW b \in Bodies[s], Refuse(s, b)
  PROVE  UNCHANGED dbVars /\ PathInv'
  <1> USE DEF SyncInv, PathInv, Refuse, Goto, dbVars
  <1>1. ReqTypeOK'
    BY DEF ReqTypeOK, PCs, Answers
  <1>2. RequestInv' /\ SessionInv' /\ MovedInv'
    BY DEF ReqTypeOK, RequestInv, SessionInv, MovedInv, Open
  <1>3. RowsInv'
    BY DEF ReqTypeOK, MovedInv, RowsInv
  <1> QED
    BY <1>1, <1>2, <1>3

LEMMA SubmitSync ==
  ASSUME SyncInv, NEW s \in Sessions, NEW b \in Bodies[s], NEW i \in Ids, Submit(s, b, i)
  PROVE  UNCHANGED dbVars /\ PathInv'
  <1> USE DEF SyncInv, PathInv, Submit, Goto, dbVars
  <1>1. ReqTypeOK'
    BY DEF ReqTypeOK, PCs, Running
  <1>2. RequestInv' /\ SessionInv' /\ MovedInv'
    BY ValidBody DEF ReqTypeOK, RequestInv, SessionInv, MovedInv, Open
  <1>3. RowsInv'
    BY DEF ReqTypeOK, MovedInv, RowsInv
  <1> QED
    BY <1>1, <1>2, <1>3

LEMMA PauseSync ==
  ASSUME SyncInv, NEW s \in Sessions, Begin(s) \/ Respond(s)
  PROVE  UNCHANGED dbVars /\ PathInv'
  <1> USE DEF SyncInv, PathInv, Begin, Respond, Goto, dbVars
  <1>1. ReqTypeOK'
    BY DEF ReqTypeOK, PCs, Running, Connected, Answers
  <1>2. RequestInv' /\ SessionInv' /\ MovedInv'
    BY DEF ReqTypeOK, RequestInv, SessionInv, MovedInv, Open
  <1>3. RowsInv'
    BY DEF ReqTypeOK, RowsInv
  <1> QED
    BY <1>1, <1>2, <1>3

LEMMA LockSync ==
  ASSUME SyncInv, NEW s \in Sessions, Lock(s)
  PROVE  [DBNext]_dbVars /\ PathInv'
  <1> USE DEF SyncInv, PathInv, Lock, Goto
  <1>1. body[s] \in Job
    BY DEF RequestInv
  <1>2. ReqTypeOK'
    BY DEF ReqTypeOK, PCs, Running, Connected, Answers
  <1>3. RowsInv'
    BY DEF ReqTypeOK, RowsInv
  <1>4. RequestInv'
    BY DEF ReqTypeOK, RequestInv
  <1>5. CASE LockSource(s, body[s]) /\ pc' = [pc EXCEPT ![s] = "exists"]
    <2>1. DBNext
      BY <1>1, <1>5 DEF DBNext
    <2>2. SessionInv' /\ MovedInv'
      BY <1>5, LockOpens DEF ReqTypeOK, SessionInv, MovedInv, Open
    <2> QED
      BY <1>2, <1>3, <1>4, <2>1, <2>2
  <1>6. CASE UNCHANGED dbVars /\ pc' = [pc EXCEPT ![s] = "422"]
    <2>1. SessionInv' /\ MovedInv'
      BY <1>6 DEF dbVars, ReqTypeOK, SessionInv, MovedInv, Open
    <2> QED
      BY <1>2, <1>3, <1>4, <1>6, <2>1
  <1> QED
    BY <1>5, <1>6

(* A handler gives its transaction up, or fails before it has one.         *)
LEMMA GiveUpSync ==
  ASSUME SyncInv, NEW s \in Sessions,
         pc[s] \in {"begin"} \cup Connected, NEW answer \in {"422", "500"},
         pc' = [pc EXCEPT ![s] = answer],
         IF Open(s) THEN Rollback({s}) ELSE UNCHANGED dbVars,
         faults' \in 0..MaxFaults,
         UNCHANGED <<home, body, id, rows, moved>>
  PROVE  [DBNext]_dbVars /\ PathInv'
  <1> USE DEF SyncInv, PathInv
  <1>1. ReqTypeOK'
    BY DEF ReqTypeOK, PCs, Answers
  <1>2. RequestInv' /\ RowsInv'
    BY DEF ReqTypeOK, RequestInv, RowsInv, Connected
  <1>3. CASE Open(s)
    <2>1. DBNext
      BY <1>3 DEF DBNext
    <2>2. EndTransactions({s})
      BY <1>3 DEF Rollback
    <2>3. SessionInv' /\ MovedInv'
      BY <2>2, EndCloses DEF ReqTypeOK, SessionInv, MovedInv, Open, Connected
    <2> QED
      BY <1>1, <1>2, <2>1, <2>3
  <1>4. CASE ~Open(s)
    <2>1. UNCHANGED dbVars
      BY <1>4
    <2>2. SessionInv' /\ MovedInv'
      BY <1>4, <2>1 DEF dbVars, ReqTypeOK, SessionInv, MovedInv, Open, Connected
    <2> QED
      BY <1>1, <1>2, <2>1, <2>2
  <1> QED
    BY <1>3, <1>4

LEMMA CheckDestSync ==
  ASSUME SyncInv, NEW s \in Sessions, CheckDest(s)
  PROVE  [DBNext]_dbVars /\ PathInv'
  <1>1. CASE body[s].dst \in Accounts
    <2>1. UNCHANGED dbVars /\ pc' = [pc EXCEPT ![s] = "write"]
      BY <1>1 DEF CheckDest, Goto
    <2> USE <2>1 DEF SyncInv, PathInv, CheckDest
    <2>2. ReqTypeOK'
      BY DEF ReqTypeOK, PCs, Running, Connected
    <2>3. RequestInv' /\ RowsInv'
      BY <1>1 DEF ReqTypeOK, RequestInv, RowsInv
    <2>4. SessionInv' /\ MovedInv'
      BY DEF dbVars, ReqTypeOK, SessionInv, MovedInv, Open
    <2> QED
      BY <2>2, <2>3, <2>4
  <1>2. CASE body[s].dst \notin Accounts
    <2>1. Rollback({s}) /\ pc' = [pc EXCEPT ![s] = "422"]
      BY <1>2 DEF CheckDest, Goto
    <2>2. Open(s)
      BY <2>1 DEF Rollback
    <2>3. faults' \in 0..MaxFaults
      BY DEF SyncInv, PathInv, ReqTypeOK, CheckDest
    <2> QED
      BY <2>1, <2>2, <2>3, GiveUpSync DEF CheckDest, Connected
  <1> QED
    BY <1>1, <1>2

LEMMA FailSync ==
  ASSUME SyncInv, NEW s \in Sessions, CallFails(s) \/ SyncDeadlock(s)
  PROVE  [DBNext]_dbVars /\ PathInv'
  <1>1. CASE CallFails(s)
    <2>1. faults' \in 0..MaxFaults
      BY <1>1, SyncTransferAssumption
         DEF SyncInv, PathInv, ReqTypeOK, CallFails, Fault
    <2> QED
      BY <1>1, <2>1, GiveUpSync DEF CallFails, Goto
  <1>2. CASE SyncDeadlock(s)
    <2>1. Rollback({s}) /\ Open(s)
      BY <1>2 DEF SyncDeadlock, DeadlockVictim, Rollback
    <2>2. faults' \in 0..MaxFaults
      BY <1>2 DEF SyncInv, PathInv, ReqTypeOK, SyncDeadlock
    <2> QED
      BY <1>2, <2>1, <2>2, GiveUpSync DEF SyncDeadlock, Connected, Goto
  <1> QED
    BY <1>1, <1>2

(* createSync has asked for the destination before it writes.              *)
LEMMA WriteSync ==
  ASSUME SyncInv, NEW s \in Sessions, Write(s)
  PROVE  [DBNext]_dbVars /\ PathInv'
  <1> USE DEF SyncInv, PathInv
  <1>1. pc[s] = "write" /\ (Debit(s) \/ Credit(s) \/ Record(s))
    BY DEF Write
  <1>2. UNCHANGED <<pc, home, body, id, rows, moved, faults>>
    BY DEF Write, reqVars
  <1>3. job[s].dst \in Accounts
    BY <1>1, StatementOpens DEF RequestInv, SessionInv
  <1>4. DBNext
    BY <1>1, <1>3 DEF DBNext
  <1>5. ReqTypeOK' /\ RequestInv' /\ RowsInv'
    BY <1>2 DEF ReqTypeOK, RequestInv, RowsInv
  <1>6. SessionInv' /\ MovedInv'
    BY <1>1, <1>2, StatementOpens DEF ReqTypeOK, SessionInv, MovedInv, Open
  <1> QED
    BY <1>4, <1>5, <1>6

(***************************************************************************)
(* The commit of a request, by its handler or by the server after the      *)
(* handler's death: the row it leaves is the request's own, unless an      *)
(* earlier mover has the same id.                                          *)
(***************************************************************************)
LEMMA CommitSync ==
  ASSUME SyncInv, NEW s \in Sessions, pc[s] \in {"write", "dead"},
         Commit(s), Upsert(s),
         NEW next \in {"invalidate", "500", "dead"},
         pc' = [pc EXCEPT ![s] = next],
         faults' \in 0..MaxFaults,
         UNCHANGED <<home, body, id>>
  PROVE  [DBNext]_dbVars /\ PathInv'
  <1> USE DEF SyncInv, PathInv
  <1>1. Open(s) /\ EndTransactions({s})
    BY DEF Commit, Open
  <1>2. DBNext
    BY DEF DBNext
  <1>3. /\ job[s] = body[s] /\ body[s] \in Job /\ id[s] \in Ids
        /\ {body[s].src, body[s].dst} \subseteq Accounts
    BY <1>1, CommitMoves DEF SessionInv, RequestInv
  <1>4. /\ Rounded(body[s]) \in [src : Accounts, dst : Accounts, amount : Nat]
        /\ Rounded(body[s]) # NoJob
    BY <1>3, RoundedRow
  <1>5. /\ moved' = moved \cup {s}
        /\ rows' = [rows EXCEPT ![id[s]] =
                      IF rows[id[s]] = NoJob THEN Rounded(body[s]) ELSE rows[id[s]]]
    BY DEF Upsert
  <1>6. ReqTypeOK'
    BY <1>3, <1>4, <1>5 DEF ReqTypeOK, PCs, Running, Answers
  <1>7. RequestInv'
    BY DEF ReqTypeOK, RequestInv
  <1>8. SessionInv' /\ MovedInv'
    BY <1>1, <1>3, <1>5, EndCloses DEF ReqTypeOK, SessionInv, MovedInv, Open
  <1>9. RowsInv'
    <2> SUFFICES ASSUME NEW i \in Ids
                 PROVE  \/ rows'[i] = NoJob /\ \A t \in moved' : id[t] # i
                        \/ \E t \in moved' : id[t] = i /\ rows'[i] = Rounded(body[t])
      BY DEF RowsInv, Rounded, Round
    <2>1. CASE i # id[s]
      BY <1>5, <2>1 DEF ReqTypeOK, RowsInv
    <2>2. CASE i = id[s] /\ rows[i] = NoJob
      BY <1>3, <1>5, <2>2 DEF ReqTypeOK
    <2>3. CASE i = id[s] /\ rows[i] # NoJob
      BY <1>3, <1>5, <2>3 DEF ReqTypeOK, RowsInv
    <2> QED
      BY <2>1, <2>2, <2>3
  <1> QED
    BY <1>2, <1>6, <1>7, <1>8, <1>9

LEMMA SyncCommitSync ==
  ASSUME SyncInv, NEW s \in Sessions, SyncCommit(s)
  PROVE  [DBNext]_dbVars /\ PathInv'
  <1>1. faults' \in 0..MaxFaults
    BY SyncTransferAssumption DEF SyncInv, PathInv, ReqTypeOK, SyncCommit, Fault
  <1> QED
    BY <1>1, CommitSync DEF SyncCommit, Goto

LEMMA OrphanEndsSync ==
  ASSUME SyncInv, NEW s \in Sessions, OrphanEnds(s)
  PROVE  [DBNext]_dbVars /\ PathInv'
  <1> USE DEF SyncInv, PathInv
  <1>1. /\ pc[s] = "dead"
        /\ UNCHANGED <<pc, home, body, id, faults>>
    BY DEF OrphanEnds, reqVars
  <1>2. CASE Rollback({s}) /\ UNCHANGED <<rows, moved>>
    <2>1. DBNext
      BY <1>2 DEF DBNext
    <2>2. EndTransactions({s})
      BY <1>2 DEF Rollback
    <2>3. ReqTypeOK' /\ RequestInv' /\ RowsInv'
      BY <1>1, <1>2 DEF ReqTypeOK, RequestInv, RowsInv
    <2>4. SessionInv' /\ MovedInv'
      BY <1>1, <1>2, <2>2, EndCloses DEF ReqTypeOK, SessionInv, MovedInv, Open
    <2> QED
      BY <2>1, <2>3, <2>4
  <1>3. CASE Commit(s) /\ Upsert(s)
    <2>1. pc' = [pc EXCEPT ![s] = "dead"] /\ faults' \in 0..MaxFaults
      BY <1>1 DEF ReqTypeOK
    <2> QED
      BY <1>1, <1>3, <2>1, CommitSync
  <1> QED
    BY <1>2, <1>3 DEF OrphanEnds

LEMMA CrashSync ==
  ASSUME SyncInv, NEW p \in Procs, Crash(p)
  PROVE  UNCHANGED dbVars /\ PathInv'
  <1> USE SyncTransferAssumption DEF SyncInv, PathInv, Crash, Fault, dbVars
  <1>1. ReqTypeOK'
    BY DEF ReqTypeOK, PCs
  <1>2. RequestInv' /\ SessionInv' /\ MovedInv'
    BY DEF ReqTypeOK, RequestInv, SessionInv, MovedInv, Open, Running, Connected
  <1>3. RowsInv'
    BY DEF ReqTypeOK, RowsInv
  <1> QED
    BY <1>1, <1>2, <1>3

LEMMA StepSync ==
  ASSUME SyncInv, [Next]_vars
  PROVE  [DBNext]_dbVars /\ PathInv'
  <1>1. ASSUME NEW s \in Sessions, NEW b \in Bodies[s],
               Refuse(s, b) \/ \E i \in Ids : Submit(s, b, i)
        PROVE  [DBNext]_dbVars /\ PathInv'
    BY <1>1, RefuseSync, SubmitSync
  <1>2. ASSUME NEW s \in Sessions, Step(s) \/ CallFails(s)
        PROVE  [DBNext]_dbVars /\ PathInv'
    BY <1>2, PauseSync, LockSync, CheckDestSync, WriteSync, SyncCommitSync, FailSync,
       OrphanEndsSync DEF Step
  <1>3. ASSUME NEW p \in Procs, Crash(p)
        PROVE  [DBNext]_dbVars /\ PathInv'
    BY <1>3, CrashSync
  <1>4. CASE UNCHANGED vars
    BY <1>4 DEF vars, reqVars, dbVars, SyncInv, PathInv, ReqTypeOK, RequestInv,
                SessionInv, MovedInv, RowsInv, Open
  <1> QED
    BY <1>1, <1>2, <1>3, <1>4 DEF Next

(* The invariant is inductive,                                             *)
LEMMA NextSync == SyncInv /\ [Next]_vars => SyncInv'
  <1> SUFFICES ASSUME SyncInv, [Next]_vars PROVE SyncInv'
    OBVIOUS
  <1>1. [DBNext]_dbVars /\ PathInv'
    BY StepSync
  <1>2. Inv'
    BY <1>1, NextInv DEF SyncInv
  <1> QED
    BY <1>1, <1>2 DEF SyncInv

(* and therefore always true.                                              *)
LEMMA SyncInvHolds == Spec => []SyncInv
  BY InitSync, NextSync, PTL DEF Spec
-----------------------------------------------------------------------------
(***************************************************************************)
(* Whatever its handlers do and whichever processes die, what createSync   *)
(* does to the database is a run of the transfer transaction: the SELECT   *)
(* EXISTS makes up for the UPDATE that reports no missing destination.     *)
(***************************************************************************)
THEOREM SyncUsesTransferDB == Spec => DBSpec
  <1>1. Init => DBInit
    BY DEF Init
  <1>2. SyncInv /\ [Next]_vars => [DBNext]_dbVars
    BY StepSync
  <1> QED
    BY <1>1, <1>2, SyncInvHolds, PTL DEF Spec, DBSpec

(* So no number of concurrent requests overdraws an account.               *)
THEOREM SyncNeverOverdraws == Spec => []NoOverdraft
  BY SyncUsesTransferDB, NeverOverdrawn, PTL

(* And no half transfer of createSync becomes visible.                     *)
THEOREM SyncTransfersAtomic == Spec => OnlyTransfers
  BY SyncUsesTransferDB, TransfersAtomic, PTL

(* Every reachable state of the synchronous path is well typed.            *)
THEOREM SyncTypeCorrect == Spec => []TypeOK
  <1>1. SyncInv => TypeOK
    BY DEF SyncInv, Inv, PathInv, ReqTypeOK, TypeOK
  <1> QED
    BY <1>1, SyncInvHolds, PTL

(***************************************************************************)
(* The response of createSync is the truth about the money, for any number *)
(* of requests and faults: 201 only after the COMMIT, 400 and 422 only     *)
(* when no transaction is left that could still commit.                    *)
(***************************************************************************)
THEOREM SyncResponsesTruthful == Spec => []ResponsesTruthful
  <1>1. SyncInv => ResponsesTruthful
    <2> SUFFICES ASSUME SyncInv, NEW s \in Sessions
                 PROVE  /\ pc[s] = "201" => s \in moved /\ rows[id[s]] # NoJob
                        /\ pc[s] \in {"400", "422"} => s \notin moved /\ ~Open(s)
      BY DEF ResponsesTruthful
    <2> USE DEF SyncInv, PathInv
    <2>1. CASE pc[s] = "201"
      <3>1. s \in moved /\ id[s] \in Ids
        BY <2>1 DEF MovedInv, RequestInv
      <3>2. PICK t \in moved : id[t] = id[s] /\ rows[id[s]] = Rounded(body[t])
        BY <3>1 DEF RowsInv
      <3>3. body[t] \in Job /\ {body[t].src, body[t].dst} \subseteq Accounts
        BY <3>2 DEF ReqTypeOK, MovedInv, RequestInv
      <3>4. rows[id[s]] # NoJob
        BY <3>2, <3>3, RoundedRow
      <3> QED
        BY <2>1, <3>1, <3>4
    <2>2. CASE pc[s] \in {"400", "422"}
      BY <2>2 DEF MovedInv, SessionInv
    <2> QED
      BY <2>1, <2>2
  <1> QED
    BY <1>1, SyncInvHolds, PTL

(***************************************************************************)
(* Table transactions holds exactly the transfers that were made, although *)
(* INSERT ... ON CONFLICT never reports that an id is taken.               *)
(***************************************************************************)
THEOREM SyncRowsTellTransfers == Spec => []RowsTellTransfers
  <1>1. SyncInv => RowsTellTransfers
    <2> SUFFICES ASSUME SyncInv, NEW i \in Ids
                 PROVE  LET movers == {s \in moved : id[s] = i}
                        IN  IF movers = {} THEN rows[i] = NoJob
                            ELSE \E s \in movers :
                                   rows[i] = [body[s] EXCEPT !.amount = Given(body[s])]
      BY DEF RowsTellTransfers
    <2> USE DEF SyncInv, PathInv
    <2>1. CASE rows[i] = NoJob /\ \A s \in moved : id[s] # i
      BY <2>1
    <2>2. CASE \E s \in moved : id[s] = i /\ rows[i] = Rounded(body[s])
      <3>1. PICK s \in moved : id[s] = i /\ rows[i] = Rounded(body[s])
        BY <2>2
      <3>2. body[s] \in Job /\ {body[s].src, body[s].dst} \subseteq Accounts
        BY <3>1 DEF ReqTypeOK, MovedInv, RequestInv
      <3>3. rows[i] = [body[s] EXCEPT !.amount = Given(body[s])]
        BY <3>1, <3>2, RoundedRow
      <3> QED
        BY <3>1, <3>3
    <2> QED
      BY <2>1, <2>2 DEF RowsInv
  <1> QED
    BY <1>1, SyncInvHolds, PTL
-----------------------------------------------------------------------------
(***************************************************************************)
(* Refinement of the ledger.  What the ledger sees of a request depends on *)
(* its own state only, so a step concerns the requests it touches.         *)
(***************************************************************************)
outcomes == [s \in Sessions |-> Outcome(s)]
orders == [s \in Sessions |-> IF Outcome(s) = "absent" THEN NoJob ELSE body[s]]

Untouched(t) ==
  /\ pc'[t] = pc[t] /\ body'[t] = body[t] /\ stage'[t] = stage[t]
  /\ t \in moved' <=> t \in moved

(* A session that a step leaves alone keeps its outcome.                   *)
LEMMA UntouchedOutcome ==
  ASSUME NEW t, Untouched(t) PROVE Outcome(t)' = Outcome(t) /\ body'[t] = body[t]
  BY DEF Untouched, Outcome, Open

(* A step that changes no outcome and no balance is none of the ledger's.  *)
LEMMA LedgerStutter ==
  ASSUME UNCHANGED balance,
         \A t \in Sessions : Outcome(t)' = Outcome(t)
                             /\ (Outcome(t) # "absent" => body'[t] = body[t])
  PROVE  UNCHANGED L!ledgerVars
  <1>1. outcomes' = outcomes
    BY DEF outcomes
  <1>2. orders' = orders
    BY DEF orders
  <1> QED
    BY <1>1, <1>2 DEF L!ledgerVars, outcomes, orders

(* Sessions whose transactions ended without a commit are rejected         *)
(* together.                                                               *)
LEMMA LedgerReject ==
  ASSUME NEW S \in SUBSET Sessions, UNCHANGED balance, UNCHANGED body,
         \A t \in S : Outcome(t) = "pending" /\ Outcome(t)' = "failed",
         \A t \in Sessions \ S : Outcome(t)' = Outcome(t)
  PROVE  [L!Next]_L!ledgerVars
  <1>1. CASE S = {}
    BY <1>1, LedgerStutter
  <1>2. CASE S # {}
    <2>1. L!Reject(S)
      BY <1>2 DEF L!Reject
    <2> QED
      BY <2>1 DEF L!Next
  <1> QED
    BY <1>1, <1>2

(* A request is accepted when its transfer names two accounts.             *)
LEMMA SubmitLedger ==
  ASSUME SyncInv, NEW s \in Sessions, NEW b \in Bodies[s], NEW i \in Ids, Submit(s, b, i)
  PROVE  [L!Next]_L!ledgerVars
  <1> USE DEF SyncInv, PathInv
  <1>1. /\ pc[s] = "none" /\ s \notin moved /\ s \notin moved'
        /\ pc'[s] = "begin" /\ body'[s] = b /\ UNCHANGED balance
    BY DEF Submit, Goto, ReqTypeOK, MovedInv, dbVars
  <1>2. \A t \in Sessions \ {s} : Untouched(t)
    BY DEF Submit, Goto, ReqTypeOK, Untouched, dbVars
  <1>3. Outcome(s) = "absent"
    BY <1>1 DEF Outcome
  <1>4. CASE {b.src, b.dst} \subseteq Accounts
    <2>1. Outcome(s)' = "pending"
      BY <1>1, <1>4 DEF Outcome, Running
    <2>2. outcomes' = [outcomes EXCEPT ![s] = "pending"]
      BY <1>2, <2>1, UntouchedOutcome DEF outcomes
    <2>3. orders' = [orders EXCEPT ![s] = b]
      BY <1>1, <1>2, <2>1, UntouchedOutcome DEF orders
    <2>4. L!Accept(s, b)
      BY <1>1, <1>3, <1>4, <2>2, <2>3 DEF L!Accept, outcomes, orders
    <2> QED
      BY <2>4 DEF L!Next
  <1>5. CASE ~({b.src, b.dst} \subseteq Accounts)
    <2>1. Outcome(s)' = "absent"
      BY <1>1, <1>5 DEF Outcome
    <2> QED
      BY <1>1, <1>2, <1>3, <2>1, UntouchedOutcome, LedgerStutter
  <1> QED
    BY <1>4, <1>5

(* A request whose handler gives up is rejected, if it was accepted.       *)
LEMMA GiveUpLedger ==
  ASSUME SyncInv, NEW s \in Sessions,
         pc[s] \in Running \/ Open(s), s \notin moved, s \notin moved',
         pc'[s] \in {"422", "500", "dead"}, ~Open(s)',
         UNCHANGED <<balance, body>>,
         \A t \in Sessions \ {s} : Untouched(t)
  PROVE  [L!Next]_L!ledgerVars
  <1>1. \A t \in Sessions \ {s} : Outcome(t)' = Outcome(t)
    BY UntouchedOutcome
  <1>2. CASE {body[s].src, body[s].dst} \subseteq Accounts
    <2>1. pc[s] \notin {"none", "400"}
      BY DEF Running, Connected, SyncInv, PathInv, SessionInv
    <2>2. Outcome(s) = "pending" /\ Outcome(s)' = "failed"
      BY <1>2, <2>1 DEF Outcome, Running, Connected
    <2> QED
      BY <1>1, <2>2, LedgerReject
  <1>3. CASE ~({body[s].src, body[s].dst} \subseteq Accounts)
    <2>1. Outcome(s)' = Outcome(s)
      BY <1>3 DEF Outcome
    <2> QED
      BY <1>1, <2>1, LedgerStutter
  <1> QED
    BY <1>2, <1>3

(* COMMIT completes the request with the transfer it was accepted with.    *)
LEMMA CommitLedger ==
  ASSUME SyncInv, NEW s \in Sessions, Commit(s), Upsert(s), UNCHANGED body,
         \A t \in Sessions \ {s} : pc'[t] = pc[t]
  PROVE  [L!Next]_L!ledgerVars
  <1> USE DEF SyncInv, PathInv
  <1>1. Open(s) /\ EndTransactions({s})
    BY DEF Commit, Open
  <1>2. /\ job[s] = body[s] /\ pc[s] \notin {"none", "400"} /\ s \notin moved
        /\ moved' = moved \cup {s}
    BY <1>1 DEF SessionInv, MovedInv, Upsert
  <1>3. /\ {body[s].src, body[s].dst} \subseteq Accounts
        /\ balance[body[s].src] >= body[s].amount
        /\ balance' = Moved(balance, body[s])
    BY <1>2, CommitMoves
  <1>4. \A t \in Sessions \ {s} : Untouched(t)
    BY <1>1, <1>2, EndCloses DEF Untouched
  <1>5. Outcome(s) = "pending" /\ Outcome(s)' = "completed"
    BY <1>1, <1>2, <1>3 DEF Outcome
  <1>6. outcomes' = [outcomes EXCEPT ![s] = "completed"]
    BY <1>4, <1>5, UntouchedOutcome DEF outcomes
  <1>7. orders' = orders /\ orders[s] = body[s]
    BY <1>4, <1>5, UntouchedOutcome DEF orders
  <1>8. L!Complete(s)
    BY <1>3, <1>5, <1>6, <1>7 DEF L!Complete, outcomes, orders
  <1> QED
    BY <1>8 DEF L!Next

(* The steps within a transaction and after it are invisible.              *)
LEMMA InvisibleLedger ==
  ASSUME SyncInv, NEW s \in Sessions,
         \/ \E b \in Bodies[s] : Refuse(s, b)
         \/ Begin(s) \/ Write(s) \/ Respond(s)
         \/ LockSource(s, body[s]) /\ Lock(s) /\ pc'[s] = "exists"
         \/ CheckDest(s) /\ body[s].dst \in Accounts
  PROVE  [L!Next]_L!ledgerVars
  <1> USE DEF SyncInv, PathInv
  <1>1. UNCHANGED <<balance, moved>>
    BY DEF Refuse, Begin, Write, Respond, LockSource, Lock, CheckDest, Debit, Credit,
           Record, dbVars, reqVars
  <1>2. \A t \in Sessions \ {s} : Untouched(t)
    BY LockOpens, StatementOpens
    DEF Refuse, Begin, Write, Respond, Lock, CheckDest, Goto, ReqTypeOK, Untouched,
        dbVars, reqVars
  <1>3. Outcome(s)' = Outcome(s) /\ (Outcome(s) # "absent" => body'[s] = body[s])
    <2>1. CASE \E b \in Bodies[s] : Refuse(s, b)
      BY <1>1, <2>1 DEF Refuse, Goto, ReqTypeOK, MovedInv, Outcome
    <2>2. CASE ~ \E b \in Bodies[s] : Refuse(s, b)
      <3>1. UNCHANGED body
        BY <2>2 DEF Begin, Write, Respond, Lock, CheckDest, reqVars
      <3>2. CASE Respond(s)
        <4>1. s \in moved
          BY <3>2 DEF Respond, MovedInv
        <4> QED
          BY <1>1, <3>1, <4>1 DEF Outcome
      <3>3. CASE ~Respond(s)
        <4>1. pc[s] \in Running /\ pc'[s] \in Running
          BY <2>2, <3>3 DEF Begin, Write, Lock, CheckDest, Goto, ReqTypeOK, reqVars,
                            Running, Connected
        <4>2. pc[s] \notin {"none", "400"} /\ pc'[s] \notin {"none", "400"}
          BY <4>1 DEF Running, Connected
        <4> QED
          BY <1>1, <3>1, <4>1, <4>2 DEF Outcome
      <3> QED
        BY <3>2, <3>3
    <2> QED
      BY <2>1, <2>2
  <1> QED
    BY <1>1, <1>2, <1>3, UntouchedOutcome, LedgerStutter

LEMMA FailLedger ==
  ASSUME SyncInv, NEW s \in Sessions,
         \/ Lock(s) /\ UNCHANGED dbVars
         \/ CheckDest(s) /\ body[s].dst \notin Accounts
         \/ CallFails(s) \/ SyncDeadlock(s)
         \/ OrphanEnds(s) /\ Rollback({s}) /\ UNCHANGED moved
  PROVE  [L!Next]_L!ledgerVars \/ pc'[s] = "exists"
  <1> SUFFICES ASSUME pc'[s] # "exists" PROVE [L!Next]_L!ledgerVars
    OBVIOUS
  <1> USE DEF SyncInv, PathInv
  <1>1. UNCHANGED <<body, moved>>
    BY DEF Lock, CheckDest, CallFails, SyncDeadlock, OrphanEnds, reqVars
  <1>2. \A t \in Sessions \ {s} : pc'[t] = pc[t]
    BY DEF Lock, CheckDest, CallFails, SyncDeadlock, OrphanEnds, Goto, reqVars, ReqTypeOK
  <1>3. (UNCHANGED dbVars /\ ~Open(s)) \/ Rollback({s})
    BY DEF Lock, CheckDest, CallFails, SyncDeadlock, DeadlockVictim, SessionInv
  <1>4. /\ UNCHANGED balance /\ ~Open(s)'
        /\ \A t \in Sessions \ {s} : stage'[t] = stage[t]
    BY <1>3, EndCloses DEF Rollback, dbVars, Open
  <1>5. pc[s] \in Running \/ Open(s)
    BY DEF Lock, CheckDest, CallFails, SyncDeadlock, Rollback, Running, Connected
  <1>6. s \notin moved
    BY DEF Lock, CheckDest, CallFails, SyncDeadlock, Rollback, Connected, MovedInv
  <1>7. pc'[s] \in {"422", "500", "dead"}
    BY DEF Lock, CheckDest, CallFails, SyncDeadlock, OrphanEnds, Goto, reqVars, ReqTypeOK
  <1> QED
    BY <1>1, <1>2, <1>4, <1>5, <1>6, <1>7, GiveUpLedger DEF Untouched

(* The requests that a crash leaves without a transaction are rejected.    *)
LEMMA CrashLedger ==
  ASSUME SyncInv, NEW p \in Procs, Crash(p)
  PROVE  [L!Next]_L!ledgerVars
  <1> USE DEF SyncInv, PathInv
  <1> DEFINE S == {t \in Sessions : Outcome(t) = "pending" /\ pc'[t] # pc[t] /\ ~Open(t)}
  <1>1. UNCHANGED <<balance, body, moved, stage>>
    BY DEF Crash, dbVars
  <1>2. \A t \in Sessions : pc'[t] = pc[t] \/ (pc'[t] = "dead" /\ pc[t] \in Running)
    <2>1. pc' = [t \in Sessions |-> IF home[t] = p /\ pc[t] \in Running
                                       THEN "dead" ELSE pc[t]]
      BY DEF Crash
    <2> HIDE DEF S
    <2> QED
      BY <2>1
  <1>3. \A t \in S : Outcome(t) = "pending" /\ Outcome(t)' = "failed"
    BY <1>1, <1>2 DEF Outcome, Open, Running, Connected
  <1>4. \A t \in Sessions \ S : Outcome(t)' = Outcome(t)
    BY <1>1, <1>2 DEF Outcome, Open, Running, Connected
  <1> HIDE DEF S
  <1>5. S \in SUBSET Sessions
    BY DEF S
  <1> QED
    BY <1>1, <1>3, <1>4, <1>5, LedgerReject

LEMMA StepLedger ==
  ASSUME SyncInv, [Next]_vars
  PROVE  [L!Next]_L!ledgerVars
  <1>1. ASSUME NEW s \in Sessions, NEW b \in Bodies[s],
               Refuse(s, b) \/ \E i \in Ids : Submit(s, b, i)
        PROVE  [L!Next]_L!ledgerVars
    BY <1>1, InvisibleLedger, SubmitLedger
  <1>2. ASSUME NEW s \in Sessions, Begin(s) \/ Write(s) \/ Respond(s)
        PROVE  [L!Next]_L!ledgerVars
    BY <1>2, InvisibleLedger
  <1>3. ASSUME NEW s \in Sessions, Lock(s) PROVE [L!Next]_L!ledgerVars
    <2>1. CASE LockSource(s, body[s]) /\ pc' = [pc EXCEPT ![s] = "exists"]
      BY <1>3, <2>1, InvisibleLedger DEF SyncInv, PathInv, ReqTypeOK
    <2>2. CASE UNCHANGED dbVars /\ pc' = [pc EXCEPT ![s] = "422"]
      BY <1>3, <2>2, FailLedger DEF SyncInv, PathInv, ReqTypeOK
    <2> QED
      BY <1>3, <2>1, <2>2 DEF Lock, Goto
  <1>4. ASSUME NEW s \in Sessions, CheckDest(s) PROVE [L!Next]_L!ledgerVars
    <2>1. pc'[s] # "exists"
      BY <1>4 DEF CheckDest, Goto, SyncInv, PathInv, ReqTypeOK
    <2> QED
      BY <1>4, <2>1, InvisibleLedger, FailLedger
  <1>5. ASSUME NEW s \in Sessions, CallFails(s) \/ SyncDeadlock(s)
        PROVE  [L!Next]_L!ledgerVars
    <2>1. pc'[s] = "500"
      BY <1>5 DEF CallFails, SyncDeadlock, Goto, SyncInv, PathInv, ReqTypeOK
    <2> QED
      BY <1>5, <2>1, FailLedger
  <1>6. ASSUME NEW s \in Sessions, SyncCommit(s) PROVE [L!Next]_L!ledgerVars
    BY <1>6, CommitLedger DEF SyncCommit, Goto, SyncInv, PathInv, ReqTypeOK
  <1>7. ASSUME NEW s \in Sessions, OrphanEnds(s) PROVE [L!Next]_L!ledgerVars
    <2>1. pc' = pc /\ body' = body /\ pc[s] = "dead"
      BY <1>7 DEF OrphanEnds, reqVars
    <2>2. CASE Rollback({s}) /\ UNCHANGED <<rows, moved>>
      BY <1>7, <2>1, <2>2, FailLedger
    <2>3. CASE Commit(s) /\ Upsert(s)
      BY <2>1, <2>3, CommitLedger
    <2> QED
      BY <1>7, <2>2, <2>3 DEF OrphanEnds
  <1>8. ASSUME NEW p \in Procs, Crash(p) PROVE [L!Next]_L!ledgerVars
    BY <1>8, CrashLedger
  <1>9. CASE UNCHANGED vars
    BY <1>9, UntouchedOutcome, LedgerStutter DEF vars, reqVars, dbVars, Untouched
  <1> QED
    BY <1>1, <1>2, <1>3, <1>4, <1>5, <1>6, <1>7, <1>8, <1>9 DEF Next, Step

(***************************************************************************)
(* Under every fault, the synchronous path is an atomic ledger: money      *)
(* moves in one step, once, for an accepted request whose source covers    *)
(* it, and a request that failed never moves any.                          *)
(***************************************************************************)
THEOREM SyncImplementsLedger == Spec => ImplementsLedger
  <1>1. Init => L!Init
    <2> SUFFICES ASSUME Init PROVE L!Init
      OBVIOUS
    <2>1. \A s \in Sessions : Outcome(s) = "absent"
      BY DEF Init, Outcome
    <2>2. balance = InitialBalance
      BY DEF Init, DBInit
    <2> QED
      BY <2>1, <2>2 DEF L!Init
  <1>2. SyncInv /\ [Next]_vars => [L!Next]_L!ledgerVars
    BY StepLedger
  <1> QED
    BY <1>1, <1>2, SyncInvHolds, PTL DEF Spec, ImplementsLedger, L!Spec
-----------------------------------------------------------------------------
(* The books                                                               *)

(* A request that has moved money is not changed any more.                 *)
LEMMA BooksFrame ==
  ASSUME SyncInv, [Next]_vars,
         ~ \E s \in Sessions : Commit(s) /\ Upsert(s) /\ UNCHANGED body
  PROVE  UNCHANGED <<balance, moved>> /\ \A t \in moved : body'[t] = body[t]
  <1> USE DEF SyncInv, PathInv
  <1>1. ASSUME NEW s \in Sessions, NEW b \in Bodies[s],
               Refuse(s, b) \/ \E i \in Ids : Submit(s, b, i)
        PROVE  UNCHANGED <<balance, moved>> /\ \A t \in moved : body'[t] = body[t]
    BY <1>1 DEF Refuse, Submit, MovedInv, ReqTypeOK, dbVars
  <1>2. ASSUME NEW s \in Sessions, Step(s) \/ CallFails(s)
        PROVE  UNCHANGED <<balance, moved, body>>
    BY <1>2 DEF Step, Begin, Lock, LockSource, CheckDest, Write, Debit, Credit, Record,
                SyncCommit, Respond, SyncDeadlock, DeadlockVictim, Rollback, OrphanEnds,
                CallFails, dbVars, reqVars
  <1>3. ASSUME NEW p \in Procs, Crash(p)
        PROVE  UNCHANGED <<balance, moved, body>>
    BY <1>3 DEF Crash, dbVars
  <1>4. CASE UNCHANGED vars
    BY <1>4 DEF vars, dbVars, reqVars
  <1> QED
    BY <1>1, <1>2, <1>3, <1>4 DEF Next

(* What a request has added to an account is a number.                     *)
LEMMA NetInt ==
  ASSUME SyncInv, NEW s \in Sessions, NEW a
  PROVE  Net(s, a) \in Int
  <1>1. CASE s \in moved
    <2>1. body[s] \in Job
      BY <1>1 DEF SyncInv, PathInv, MovedInv, RequestInv
    <2>2. body[s].amount \in Nat
      BY <2>1, TransferDBAssumption DEF Job
    <2>3. Given(body[s]) \in Int /\ Taken(body[s]) \in Int
      BY <2>2, RoundedTypes DEF Given, Taken, GivenBy, TakenBy
    <2> QED
      BY <2>3 DEF Net
  <1>2. CASE s \notin moved
    BY <1>2 DEF Net
  <1> QED
    BY <1>1, <1>2

(* A commit adds to each balance what it adds to the sum of the transfers. *)
LEMMA CommitNet ==
  ASSUME SyncInv, NEW s \in Sessions, Commit(s), Upsert(s), UNCHANGED body,
         NEW a \in Accounts
  PROVE  /\ Net(s, a) = 0
         /\ balance'[a] = balance[a] + Net(s, a)'
         /\ Net(s, a)' \in Int
         /\ \A t \in Sessions \ {s} : Net(t, a)' = Net(t, a)
  <1> USE DEF SyncInv, PathInv
  <1>1. Open(s)
    BY DEF Commit, Open
  <1>2. s \notin moved /\ job[s] = body[s] /\ moved' = moved \cup {s}
    BY <1>1 DEF MovedInv, SessionInv, Upsert
  <1>3. PICK j : j = body[s]
    OBVIOUS
  <1>4. /\ j \in Job /\ j.src \in Accounts /\ j.dst \in Accounts
        /\ balance[j.src] >= j.amount
        /\ balance' = Moved(balance, j)
    BY <1>2, <1>3, CommitMoves
  <1>5. balance \in [Accounts -> Nat] /\ \A c \in Accounts : balance[c] % Scale = 0
    BY BalanceNat DEF Inv, DBTypeOK
  <1>6. balance'[a] = balance[a] + ((IF j.dst = a THEN GivenBy(j.amount) ELSE 0)
                                    - (IF j.src = a THEN TakenBy(j.amount) ELSE 0))
    BY <1>4, <1>5, MovedBy
  <1>7. Net(s, a)' = (IF j.dst = a THEN GivenBy(j.amount) ELSE 0)
                     - (IF j.src = a THEN TakenBy(j.amount) ELSE 0)
    BY <1>2, <1>3 DEF Net, Given, Taken, GivenBy, TakenBy
  <1>8. \A t \in Sessions \ {s} : Net(t, a)' = Net(t, a)
    BY <1>2 DEF Net, Given, Taken
  <1>9. GivenBy(j.amount) \in Int /\ TakenBy(j.amount) \in Int
    BY <1>4, TransferDBAssumption, RoundedTypes DEF Job
  <1> QED
    BY <1>2, <1>6, <1>7, <1>8, <1>9 DEF Net

(* Every step keeps the accounts and the transfers that moved together.    *)
LEMMA BooksStep ==
  ASSUME IsFiniteSet(Sessions), SyncInv, BooksBalance, [Next]_vars
  PROVE  BooksBalance'
  <1> SUFFICES ASSUME NEW a \in Accounts
               PROVE  balance'[a] = InitialBalance[a]
                                    + SumFunction([s \in Sessions |-> Net(s, a)'])
    BY DEF BooksBalance
  <1>1. PICK f : f = [s \in Sessions |-> Net(s, a)]
    OBVIOUS
  <1>2. PICK h : h = [s \in Sessions |-> Net(s, a)']
    OBVIOUS
  <1>3. balance[a] = InitialBalance[a] + SumFunction(f)
    BY <1>1 DEF BooksBalance
  <1>4. CASE \E s \in Sessions : Commit(s) /\ Upsert(s) /\ UNCHANGED body
    <2>1. PICK s \in Sessions : Commit(s) /\ Upsert(s) /\ UNCHANGED body
      BY <1>4
    <2>2. f \in [Sessions -> Int]
      BY <1>1, NetInt
    <2>3. h \in [Sessions -> Int]
      <3>1. \A t \in Sessions : Net(t, a)' \in Int
        <4> SUFFICES ASSUME NEW t \in Sessions PROVE Net(t, a)' \in Int
          OBVIOUS
        <4>1. CASE t = s
          BY <2>1, <4>1, CommitNet
        <4>2. CASE t # s
          BY <2>1, <4>2, NetInt, CommitNet
        <4> QED
          BY <4>1, <4>2
      <3> QED
        BY <1>2, <3>1
    <2>4. /\ f[s] = 0 /\ balance'[a] = balance[a] + h[s]
          /\ \A t \in Sessions \ {s} : h[t] = f[t]
      BY <1>1, <1>2, <2>1, CommitNet
    <2>5. SumFunction(f) \in Int /\ SumFunction(h) = SumFunction(f) + (h[s] - f[s])
      BY <2>2, <2>3, <2>4, SumChange
    <2>6. InitialBalance[a] \in Int /\ h[s] \in Int
      BY <2>3, TransferDBAssumption
    <2>7. balance'[a] = InitialBalance[a] + SumFunction(h)
      BY <1>3, <2>4, <2>5, <2>6
    <2> QED
      BY <1>2, <2>7
  <1>5. CASE ~ \E s \in Sessions : Commit(s) /\ Upsert(s) /\ UNCHANGED body
    <2>1. UNCHANGED <<balance, moved>> /\ \A t \in moved : body'[t] = body[t]
      BY <1>5, BooksFrame
    <2>2. \A s \in Sessions : Net(s, a)' = Net(s, a)
      BY <2>1 DEF Net, Given, Taken
    <2>3. h = f
      BY <1>1, <1>2, <2>2
    <2> QED
      BY <1>2, <1>3, <2>1, <2>3
  <1> QED
    BY <1>4, <1>5

(***************************************************************************)
(* The books of the synchronous path balance to the cent, for any number   *)
(* of requests, processes, crashes and failing statements: every account   *)
(* holds what it held at first and the rounded transfers of exactly those  *)
(* requests whose COMMIT was carried out.                                  *)
(***************************************************************************)
THEOREM SyncBooksBalance ==
  ASSUME IsFiniteSet(Sessions)
  PROVE  Spec => []BooksBalance
  <1>1. Init => BooksBalance
    <2> SUFFICES ASSUME Init, NEW a \in Accounts
                 PROVE  balance[a] = InitialBalance[a]
                                     + SumFunction([s \in Sessions |-> Net(s, a)])
      BY DEF BooksBalance
    <2>1. [s \in Sessions |-> Net(s, a)] \in [Sessions -> {0}]
      BY DEF Init, Net
    <2>2. SumFunction([s \in Sessions |-> Net(s, a)]) = 0
      BY <2>1, SumZero
    <2>3. balance[a] = InitialBalance[a] /\ InitialBalance[a] \in Int
      BY TransferDBAssumption DEF Init, DBInit
    <2> QED
      BY <2>2, <2>3
  <1>2. SyncInv /\ BooksBalance /\ [Next]_vars => BooksBalance'
    BY BooksStep
  <1> QED
    BY <1>1, <1>2, SyncInvHolds, PTL DEF Spec
=============================================================================
