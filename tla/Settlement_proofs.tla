-------------------------- MODULE Settlement_proofs --------------------------
(***************************************************************************)
(* Proofs about Settlement, for any number of requests, workers, processes *)
(* and faults of every kind.                                               *)
(***************************************************************************)
EXTENDS Settlement, TransferDB_proofs

(* The database's own invariant comes from TransferDB_proofs.              *)
AsyncInv == AsyncTypeOK /\ OrderInv /\ WorkerInv /\ CompletedMeansSettled

SInv == Inv /\ OpenInv /\ AsyncInv

(* At first no session is open and nothing was asked for.                  *)
LEMMA InitSInv == Init => SInv
  <1> SUFFICES ASSUME Init PROVE SInv
    OBVIOUS
  <1>1. Inv
    BY InitInv DEF Init
  <1>2. OpenInv
    BY DEF Init, DBInit, OpenInv, Open
  <1>3. AsyncInv
    BY SettlementAssumption
    DEF Init, AsyncInv, AsyncTypeOK, OrderInv, WorkerInv, Processing,
        CompletedMeansSettled, Statuses, ApiStates, Running, MsgStates,
        WorkerStates, ProcStates
  <1> QED
    BY <1>1, <1>2, <1>3 DEF SInv
-----------------------------------------------------------------------------
(* The handlers, the workers and the queue: one lemma per action.          *)

LEMMA SubmitAsync ==
  ASSUME AsyncInv, NEW tx \in Txs, NEW j \in Requests, Submit(tx, j) PROVE AsyncInv'
  <1> USE SettlementAssumption DEF Submit, rowVars, workerVars, procVars
  <1>1. AsyncTypeOK'
    BY DEF AsyncInv, AsyncTypeOK, ApiStates, Running
  <1>2. OrderInv'
    BY DEF AsyncInv, AsyncTypeOK, OrderInv, WorkerInv, Processing
  <1>3. WorkerInv'
    BY DEF AsyncInv, AsyncTypeOK, WorkerInv, Processing
  <1>4. CompletedMeansSettled'
    BY DEF AsyncInv, AsyncTypeOK, WorkerInv, Processing, CompletedMeansSettled
  <1> QED
    BY <1>1, <1>2, <1>3, <1>4 DEF AsyncInv

LEMMA SaveAsync ==
  ASSUME AsyncInv, NEW tx \in Txs, Save(tx) \/ SaveFails(tx) PROVE AsyncInv'
  <1> USE SettlementAssumption DEF Save, SaveFails, Fault, workerVars, procVars
  <1>1. AsyncTypeOK'
    BY DEF AsyncInv, AsyncTypeOK, ApiStates, Running, Statuses
  <1>2. OrderInv'
    BY DEF AsyncInv, AsyncTypeOK, OrderInv, WorkerInv, Processing
  <1>3. WorkerInv'
    BY DEF AsyncInv, AsyncTypeOK, WorkerInv, Processing
  <1>4. CompletedMeansSettled'
    BY DEF AsyncInv, AsyncTypeOK, WorkerInv, Processing, CompletedMeansSettled
  <1> QED
    BY <1>1, <1>2, <1>3, <1>4 DEF AsyncInv

LEMMA PublishAsync ==
  ASSUME AsyncInv, NEW tx \in Txs,
         Publish(tx) \/ PublishLost(tx) \/ PublishFails(tx) PROVE AsyncInv'
  <1> USE SettlementAssumption DEF Publish, PublishLost, PublishFails, Fault,
                               rowVars, workerVars, procVars
  <1>1. AsyncTypeOK'
    BY DEF AsyncInv, AsyncTypeOK, ApiStates, Running, MsgStates
  <1>2. OrderInv'
    BY DEF AsyncInv, AsyncTypeOK, OrderInv, WorkerInv, Processing
  <1>3. WorkerInv'
    BY DEF AsyncInv, AsyncTypeOK, WorkerInv, Processing
  <1>4. CompletedMeansSettled'
    BY DEF AsyncInv, AsyncTypeOK, WorkerInv, Processing, CompletedMeansSettled
  <1> QED
    BY <1>1, <1>2, <1>3, <1>4 DEF AsyncInv

LEMMA MarkUnpublishedAsync ==
  ASSUME AsyncInv, NEW tx \in Txs, MarkUnpublished(tx) PROVE AsyncInv'
  <1> USE SettlementAssumption DEF MarkUnpublished, Fault, workerVars, procVars
  <1>1. AsyncTypeOK'
    BY DEF AsyncInv, AsyncTypeOK, ApiStates, Statuses
  <1>2. OrderInv'
    BY DEF AsyncInv, AsyncTypeOK, OrderInv, WorkerInv, Processing
  <1>3. WorkerInv'
    BY DEF AsyncInv, AsyncTypeOK, WorkerInv, Processing
  <1>4. CompletedMeansSettled'
    BY DEF AsyncInv, AsyncTypeOK, WorkerInv, Processing, CompletedMeansSettled
  <1> QED
    BY <1>1, <1>2, <1>3, <1>4 DEF AsyncInv

LEMMA TakeAsync ==
  ASSUME AsyncInv, NEW s \in Sessions, NEW tx \in Txs, Take(s, tx) PROVE AsyncInv'
  <1> USE SettlementAssumption DEF Take, Goto, rowVars, apiVars, procVars
  <1>1. AsyncTypeOK'
    BY DEF AsyncInv, AsyncTypeOK, MsgStates, WorkerStates, Processing
  <1>2. OrderInv'
    BY DEF AsyncInv, AsyncTypeOK, OrderInv, WorkerInv, Processing
  <1>3. WorkerInv'
    BY DEF AsyncInv, AsyncTypeOK, WorkerInv, Processing
  <1>4. CompletedMeansSettled'
    BY DEF AsyncInv, AsyncTypeOK, WorkerInv, Processing, CompletedMeansSettled
  <1> QED
    BY <1>1, <1>2, <1>3, <1>4 DEF AsyncInv

LEMMA CheckAsync ==
  ASSUME AsyncInv, NEW s \in Sessions, Check(s) PROVE AsyncInv'
  <1> USE SettlementAssumption DEF Check, Goto, Ok, CallFails, Fault, ReadStatus,
                               rowVars, apiVars, procVars
  <1>1. AsyncTypeOK'
    BY DEF AsyncInv, AsyncTypeOK, WorkerStates, Processing
  <1>2. OrderInv'
    BY DEF AsyncInv, AsyncTypeOK, OrderInv, WorkerInv, Processing
  <1>3. WorkerInv'
    BY DEF AsyncInv, AsyncTypeOK, WorkerInv, Processing, CompletedMeansSettled
  <1>4. CompletedMeansSettled'
    BY DEF AsyncInv, AsyncTypeOK, WorkerInv, Processing, CompletedMeansSettled
  <1> QED
    BY <1>1, <1>2, <1>3, <1>4 DEF AsyncInv

LEMMA SettleAsync ==
  ASSUME AsyncInv, NEW s \in Sessions,
         SettleBegin(s) \/ SettleStatement(s) \/ SettleFails(s) \/ SettleDeadlock(s) PROVE AsyncInv'
  <1> USE SettlementAssumption DEF SettleBegin, SettleStatement, SettleFails, SettleDeadlock,
                               Goto, Ok, CallFails, Fault, rowVars, apiVars, workerVars, procVars
  <1>1. AsyncTypeOK'
    BY DEF AsyncInv, AsyncTypeOK, WorkerStates, Processing
  <1>2. OrderInv'
    BY DEF AsyncInv, AsyncTypeOK, OrderInv, WorkerInv, Processing
  <1>3. WorkerInv'
    BY DEF AsyncInv, AsyncTypeOK, WorkerInv, Processing
  <1>4. CompletedMeansSettled'
    BY DEF AsyncInv, AsyncTypeOK, WorkerInv, Processing, CompletedMeansSettled
  <1> QED
    BY <1>1, <1>2, <1>3, <1>4 DEF AsyncInv

LEMMA SettleCommitAsync ==
  ASSUME AsyncInv, NEW s \in Sessions, SettleCommit(s) PROVE AsyncInv'
  <1> USE SettlementAssumption DEF SettleCommit, CommitStatus, Goto, Ok, CallFails, Fault,
                               apiVars, procVars
  <1>1. AsyncTypeOK'
    BY DEF AsyncInv, AsyncTypeOK, Statuses, WorkerStates, Processing, WorkerInv
  <1>2. OrderInv'
    BY DEF AsyncInv, AsyncTypeOK, OrderInv, WorkerInv, Processing
  <1>3. WorkerInv'
    BY DEF AsyncInv, AsyncTypeOK, WorkerInv, Processing
  <1>4. CompletedMeansSettled'
    BY DEF AsyncInv, AsyncTypeOK, WorkerInv, Processing, CompletedMeansSettled
  <1> QED
    BY <1>1, <1>2, <1>3, <1>4 DEF AsyncInv

LEMMA MarkFailedAsync ==
  ASSUME AsyncInv, NEW s \in Sessions, MarkFailed(s) PROVE AsyncInv'
  <1> USE SettlementAssumption DEF MarkFailed, Goto, Ok, CallFails, Fault, apiVars, procVars
  <1>1. AsyncTypeOK'
    BY DEF AsyncInv, AsyncTypeOK, Statuses, WorkerStates, Processing
  <1>2. OrderInv'
    BY DEF AsyncInv, AsyncTypeOK, OrderInv, WorkerInv, Processing
  <1>3. WorkerInv'
    BY DEF AsyncInv, AsyncTypeOK, WorkerInv, Processing
  <1>4. CompletedMeansSettled'
    BY DEF AsyncInv, AsyncTypeOK, WorkerInv, Processing, CompletedMeansSettled
  <1> QED
    BY <1>1, <1>2, <1>3, <1>4 DEF AsyncInv

LEMMA AnswerAsync ==
  ASSUME AsyncInv, NEW s \in Sessions, Ack(s) \/ Nack(s) PROVE AsyncInv'
  <1> USE SettlementAssumption DEF Ack, Nack, Answer, Goto, rowVars, apiVars, procVars
  <1>1. AsyncTypeOK'
    BY DEF AsyncInv, AsyncTypeOK, MsgStates, WorkerStates, Processing, WorkerInv
  <1>2. OrderInv'
    BY DEF AsyncInv, AsyncTypeOK, OrderInv, WorkerInv, Processing
  <1>3. WorkerInv'
    BY DEF AsyncInv, AsyncTypeOK, WorkerInv, Processing
  <1>4. CompletedMeansSettled'
    BY DEF AsyncInv, AsyncTypeOK, WorkerInv, Processing, CompletedMeansSettled
  <1> QED
    BY <1>1, <1>2, <1>3, <1>4 DEF AsyncInv

LEMMA WorkerExitAsync ==
  ASSUME AsyncInv, NEW s \in Sessions, WorkerExit(s) PROVE AsyncInv'
  <1> USE SettlementAssumption DEF WorkerExit, Goto, rowVars, apiVars, procVars
  <1>1. AsyncTypeOK'
    BY DEF AsyncInv, AsyncTypeOK, WorkerStates, Processing
  <1>2. OrderInv'
    BY DEF AsyncInv, AsyncTypeOK, OrderInv, WorkerInv, Processing
  <1>3. WorkerInv'
    BY DEF AsyncInv, AsyncTypeOK, WorkerInv, Processing
  <1>4. CompletedMeansSettled'
    BY DEF AsyncInv, AsyncTypeOK, WorkerInv, Processing, CompletedMeansSettled
  <1> QED
    BY <1>1, <1>2, <1>3, <1>4 DEF AsyncInv

LEMMA ReplicateAsync ==
  ASSUME AsyncInv, Replicate PROVE AsyncInv'
  <1> USE SettlementAssumption DEF Replicate, apiVars, workerVars, procVars
  <1>1. AsyncTypeOK'
    BY DEF AsyncInv, AsyncTypeOK, Statuses
  <1>2. OrderInv'
    BY DEF AsyncInv, AsyncTypeOK, OrderInv, WorkerInv, Processing
  <1>3. WorkerInv'
    BY DEF AsyncInv, AsyncTypeOK, WorkerInv, Processing
  <1>4. CompletedMeansSettled'
    BY DEF AsyncInv, AsyncTypeOK, WorkerInv, Processing, CompletedMeansSettled
  <1> QED
    BY <1>1, <1>2, <1>3, <1>4 DEF AsyncInv

LEMMA ConnLossAsync ==
  ASSUME AsyncInv, NEW p \in Procs, ConnLoss(p) PROVE AsyncInv'
  <1> USE SettlementAssumption DEF ConnLoss, Requeue, WorkersOf, Fault, rowVars, apiVars
  <1>1. AsyncTypeOK'
    BY DEF AsyncInv, AsyncTypeOK, MsgStates
  <1>2. OrderInv'
    BY DEF AsyncInv, AsyncTypeOK, OrderInv, WorkerInv, Processing
  <1>3. WorkerInv'
    BY DEF AsyncInv, AsyncTypeOK, WorkerInv, Processing
  <1>4. CompletedMeansSettled'
    BY DEF AsyncInv, AsyncTypeOK, WorkerInv, Processing, CompletedMeansSettled
  <1> QED
    BY <1>1, <1>2, <1>3, <1>4 DEF AsyncInv

LEMMA SigtermAsync ==
  ASSUME AsyncInv, NEW p \in Procs, Sigterm(p) PROVE AsyncInv'
  <1> USE SettlementAssumption DEF Sigterm, Fault, rowVars, apiVars, workerVars
  <1>1. AsyncTypeOK'
    BY DEF AsyncInv, AsyncTypeOK, ProcStates
  <1>2. OrderInv'
    BY DEF AsyncInv, AsyncTypeOK, OrderInv, WorkerInv, Processing
  <1>3. WorkerInv'
    BY DEF AsyncInv, AsyncTypeOK, WorkerInv, Processing
  <1>4. CompletedMeansSettled'
    BY DEF AsyncInv, AsyncTypeOK, WorkerInv, Processing, CompletedMeansSettled
  <1> QED
    BY <1>1, <1>2, <1>3, <1>4 DEF AsyncInv

LEMMA DownAsync ==
  ASSUME AsyncInv, NEW p \in Procs, Crash(p) \/ Exit(p), OpenInv PROVE AsyncInv'
  <1> USE SettlementAssumption DEF Crash, Exit, Down, Requeue, WorkersOf, Fault, rowVars
  <1>1. AsyncTypeOK'
    BY DEF AsyncInv, AsyncTypeOK, MsgStates, ApiStates, Running, WorkerStates, Processing, ProcStates
  <1>2. OrderInv'
    <2>1. order' = order
      OBVIOUS
    <2>2. \A tx \in Txs : /\ api'[tx] # "none" => api[tx] # "none"
                          /\ api'[tx] = "publish" => api[tx] = "publish"
                          /\ api[tx] # "none" => api'[tx] # "none"
      BY DEF AsyncInv, AsyncTypeOK, Running
    <2>3. \A tx \in Txs : msg'[tx] # "none" => msg[tx] # "none"
      BY DEF AsyncInv, AsyncTypeOK, WorkerInv, Processing
    <2> QED
      BY <2>1, <2>2, <2>3 DEF AsyncInv, OrderInv
  <1>3. WorkerInv'
    BY DEF OpenInv, AsyncInv, AsyncTypeOK, WorkerInv, Processing
  <1>4. CompletedMeansSettled'
    BY DEF AsyncInv, AsyncTypeOK, WorkerInv, Processing, CompletedMeansSettled
  <1> QED
    BY <1>1, <1>2, <1>3, <1>4 DEF AsyncInv

LEMMA OrphanEndsAsync ==
  ASSUME AsyncInv, NEW s \in Sessions, OrphanEnds(s) PROVE AsyncInv'
  <1> USE SettlementAssumption DEF OrphanEnds, CommitStatus, Goto, rowVars, apiVars, procVars
  <1>1. AsyncTypeOK'
    BY DEF AsyncInv, AsyncTypeOK, Statuses, WorkerStates, Processing, WorkerInv
  <1>2. OrderInv'
    BY DEF AsyncInv, AsyncTypeOK, OrderInv, WorkerInv, Processing
  <1>3. WorkerInv'
    BY DEF AsyncInv, AsyncTypeOK, WorkerInv, Processing
  <1>4. CompletedMeansSettled'
    BY DEF AsyncInv, AsyncTypeOK, WorkerInv, Processing, CompletedMeansSettled
  <1> QED
    BY <1>1, <1>2, <1>3, <1>4 DEF AsyncInv

LEMMA RestartAsync ==
  ASSUME AsyncInv, NEW p \in Procs, Restart(p) PROVE AsyncInv'
  <1> USE SettlementAssumption DEF Restart, WorkersOf, Fault, rowVars, apiVars
  <1>1. AsyncTypeOK'
    BY DEF AsyncInv, AsyncTypeOK, WorkerStates, Processing, ProcStates
  <1>2. OrderInv'
    BY DEF AsyncInv, AsyncTypeOK, OrderInv, WorkerInv, Processing
  <1>3. WorkerInv'
    BY DEF AsyncInv, AsyncTypeOK, WorkerInv, Processing
  <1>4. CompletedMeansSettled'
    BY DEF AsyncInv, AsyncTypeOK, WorkerInv, Processing, CompletedMeansSettled
  <1> QED
    BY <1>1, <1>2, <1>3, <1>4 DEF AsyncInv
-----------------------------------------------------------------------------
(***************************************************************************)
(* The database side of every step.  A transaction is opened by LockSource *)
(* for the worker's own session and ended with its session.                *)
(***************************************************************************)
(* Actions that leave the database alone or only give a transaction up.    *)
Quiet ==
  \/ \E tx \in Txs : (\E j \in Requests : Submit(tx, j)) \/ Handler(tx)
  \/ \E s \in Sessions : \/ \E tx \in Txs : Take(s, tx)
                         \/ Check(s) \/ MarkFailed(s)
                         \/ Ack(s) \/ Nack(s) \/ WorkerExit(s)
  \/ Replicate
  \/ \E p \in Procs : Process(p)

(* A quiet step leaves the database alone.                                 *)
LEMMA QuietOpen ==
  ASSUME SInv, Quiet
  PROVE  UNCHANGED dbVars /\ OpenInv'
  <1> USE DEF SInv, AsyncInv, AsyncTypeOK, OpenInv
  <1>1. ASSUME NEW tx \in Txs, (\E j \in Requests : Submit(tx, j)) \/ Handler(tx)
        PROVE  UNCHANGED dbVars /\ UNCHANGED pc
    BY <1>1 DEF Handler, Submit, Save, SaveFails, Publish, PublishLost,
                PublishFails, MarkUnpublished, workerVars
  <1>2. ASSUME NEW s \in Sessions,
               \/ \E tx \in Txs : Take(s, tx)
               \/ Check(s) \/ MarkFailed(s) \/ Ack(s) \/ Nack(s) \/ WorkerExit(s)
        PROVE  /\ UNCHANGED dbVars
               /\ pc[s] \notin {"settle", "orphan"}
               /\ \A t \in Sessions \ {s} : pc'[t] = pc[t]
    BY <1>2 DEF Take, Check, MarkFailed, Ack, Nack, Answer, WorkerExit, Goto
  <1>3. ASSUME Replicate PROVE UNCHANGED dbVars /\ UNCHANGED pc
    BY <1>3 DEF Replicate, workerVars
  <1>4. ASSUME NEW p \in Procs, Process(p)
        PROVE  UNCHANGED dbVars /\ OpenInv'
    <2>1. CASE ConnLoss(p) \/ Sigterm(p)
      BY <2>1 DEF ConnLoss, Sigterm, workerVars, dbVars, Open
    <2>2. CASE Crash(p) \/ Exit(p)
      BY <2>2 DEF Crash, Exit, Down, dbVars, Open
    <2>3. CASE Restart(p)
      BY <2>3 DEF Restart, WorkersOf, dbVars, Open
    <2> QED
      BY <1>4, <2>1, <2>2, <2>3 DEF Process
  <1>5. UNCHANGED dbVars => UNCHANGED <<stage, job>>
    BY DEF dbVars
  <1> QED
    BY <1>1, <1>2, <1>3, <1>4, <1>5 DEF Quiet, Open

(* What a worker settles is a transfer between accounts that exist.        *)
LEMMA OrderValid ==
  ASSUME SInv, NEW s \in Sessions, pc[s] = "settle"
  PROVE  order[cur[s]] \in Job /\ order[cur[s]].dst \in Accounts
  <1>1. cur[s] \in Txs /\ msg[cur[s]] # "none"
    BY DEF SInv, AsyncInv, WorkerInv, Processing
  <1>2. order[cur[s]] \in Requests /\ AccountsExist(order[cur[s]])
    BY <1>1 DEF SInv, AsyncInv, OrderInv
  <1> QED
    BY <1>2, SettlementAssumption DEF AccountsExist

Settling(s) ==
  \/ SettleBegin(s) \/ SettleStatement(s) \/ SettleCommit(s)
  \/ SettleFails(s) \/ SettleDeadlock(s) \/ OrphanEnds(s)

(* A settling step is a statement of TransferDB.                           *)
LEMMA SettlingOpen ==
  ASSUME SInv, NEW s \in Sessions, Settling(s)
  PROVE  [DBNext]_dbVars /\ OpenInv'
  <1> USE DEF SInv, AsyncInv, AsyncTypeOK, OpenInv
  <1>0. \A t \in Sessions \ {s} : pc'[t] = pc[t]
    BY DEF Settling, SettleBegin, SettleStatement, SettleCommit, SettleFails,
           SettleDeadlock, OrphanEnds, Goto, workerVars
  <1>1. CASE SettleBegin(s)
    <2>1. pc[s] = "settle" /\ stage[s] = "idle"
      BY <1>1 DEF SettleBegin
    <2>2. CASE LockSource(s, order[cur[s]]) /\ UNCHANGED pc
      <3>1. DBNext
        BY <2>1, <2>2, OrderValid DEF DBNext
      <3>2. OpenInv'
        BY <2>1, <2>2, LockOpens, OrderValid DEF Open
      <3> QED
        BY <3>1, <3>2
    <2>3. CASE UNCHANGED dbVars
      BY <2>1, <2>3, <1>0 DEF dbVars, Open
    <2> QED
      BY <1>1, <2>2, <2>3 DEF SettleBegin
  <1>2. CASE SettleStatement(s)
    <2>1. Debit(s) \/ Credit(s) \/ Record(s)
      BY <1>2 DEF SettleStatement
    <2>2. UNCHANGED pc
      BY <1>2 DEF SettleStatement, workerVars
    <2>3. OpenInv'
      BY <2>1, <2>2, StatementOpens DEF Open
    <2>4. job[s].dst \in Accounts
      BY <2>1 DEF Open, Debit, Credit, Record
    <2> QED
      BY <2>1, <2>3, <2>4 DEF DBNext
  <1>3. ASSUME Commit(s) PROVE DBNext /\ OpenInv'
    BY <1>0, <1>3, EndCloses DEF DBNext, Commit, Open
  <1>4. ASSUME Rollback({s}) PROVE DBNext /\ OpenInv'
    BY <1>0, <1>4, EndCloses DEF DBNext, Rollback, Open
  <1>5. CASE SettleCommit(s)
    BY <1>3, <1>5 DEF SettleCommit
  <1>6. CASE SettleFails(s)
    <2>1. CASE Open(s)
      BY <1>4, <1>6, <2>1 DEF SettleFails
    <2>2. CASE ~Open(s)
      <3>1. UNCHANGED dbVars
        BY <1>6, <2>2 DEF SettleFails
      <3> QED
        BY <1>0, <2>2, <3>1 DEF dbVars, Open
    <2> QED
      BY <2>1, <2>2
  <1>7. CASE SettleDeadlock(s)
    BY <1>4, <1>7 DEF SettleDeadlock, DeadlockVictim
  <1>8. CASE OrphanEnds(s)
    BY <1>3, <1>4, <1>8 DEF OrphanEnds
  <1> QED
    BY <1>1, <1>2, <1>5, <1>6, <1>7, <1>8 DEF Settling

(* Every step settles, or leaves the database alone.                       *)
LEMMA NextSplit ==
  ASSUME Next PROVE Quiet \/ \E s \in Sessions : Settling(s)
  BY DEF Next, Worker, Quiet, Settling

(* Every step of the system is a step of the database module, or none.     *)
LEMMA StepSimulates ==
  ASSUME SInv, [Next]_vars PROVE [DBNext]_dbVars /\ OpenInv'
  <1>1. CASE Next
    BY <1>1, NextSplit, QuietOpen, SettlingOpen
  <1>2. CASE UNCHANGED vars
    BY <1>2 DEF vars, dbVars, workerVars, SInv, OpenInv, Open
  <1> QED
    BY <1>1, <1>2

LEMMA NextAsync ==
  ASSUME SInv, [Next]_vars PROVE AsyncInv'
  <1>0. AsyncInv /\ OpenInv
    BY DEF SInv
  <1>1. ASSUME NEW tx \in Txs, (\E j \in Requests : Submit(tx, j)) \/ Handler(tx)
        PROVE  AsyncInv'
    BY <1>0, <1>1, SubmitAsync, SaveAsync, PublishAsync, MarkUnpublishedAsync DEF Handler
  <1>2. ASSUME NEW s \in Sessions, Worker(s) \/ OrphanEnds(s)
        PROVE  AsyncInv'
    BY <1>0, <1>2, TakeAsync, CheckAsync, SettleAsync, SettleCommitAsync, MarkFailedAsync,
       AnswerAsync, WorkerExitAsync, OrphanEndsAsync DEF Worker
  <1>3. ASSUME NEW p \in Procs, Process(p) PROVE AsyncInv'
    BY <1>0, <1>3, ConnLossAsync, SigtermAsync, DownAsync, RestartAsync DEF Process
  <1>4. ASSUME Replicate PROVE AsyncInv'
    BY <1>0, <1>4, ReplicateAsync
  <1>5. CASE UNCHANGED vars
    BY <1>0, <1>5 DEF vars, rowVars, apiVars, workerVars, procVars, AsyncInv,
                AsyncTypeOK, OrderInv, WorkerInv, CompletedMeansSettled
  <1> QED
    BY <1>1, <1>2, <1>3, <1>4, <1>5 DEF Next

(* The invariant is inductive,                                             *)
LEMMA NextSInv == SInv /\ [Next]_vars => SInv'
  <1> SUFFICES ASSUME SInv, [Next]_vars PROVE SInv'
    OBVIOUS
  <1>1. AsyncInv'
    BY NextAsync
  <1>2. [DBNext]_dbVars /\ OpenInv'
    BY StepSimulates
  <1>3. Inv'
    BY <1>2, NextInv DEF SInv
  <1> QED
    BY <1>1, <1>2, <1>3 DEF SInv

(* and therefore always true.                                              *)
LEMMA SInvHolds == Spec => []SInv
  BY InitSInv, NextSInv, PTL DEF Spec
-----------------------------------------------------------------------------
(***************************************************************************)
(* Whatever the queue delivers, loses or repeats, and whichever processes  *)
(* die, what reaches the database is a run of the transfer transaction.    *)
(***************************************************************************)
THEOREM SettlementUsesTransferDB == Spec => DBSpec
  <1>1. Init => DBInit
    BY DEF Init
  <1>2. SInv /\ [Next]_vars => [DBNext]_dbVars
    BY StepSimulates
  <1> QED
    BY <1>1, <1>2, SInvHolds, PTL DEF Spec, DBSpec

(* So no fault overdraws an account.                                       *)
THEOREM SettlementNeverOverdraws == Spec => []NoOverdraft
  BY SettlementUsesTransferDB, NeverOverdrawn, PTL

(* And no fault makes half a transfer visible.                             *)
THEOREM SettlementTransfersAtomic == Spec => OnlyTransfers
  BY SettlementUsesTransferDB, TransfersAtomic, PTL

(* Every reachable state is well typed.                                    *)
THEOREM SettlementTypeCorrect == Spec => []TypeOK
  <1>1. SInv => TypeOK
    BY DEF SInv, Inv, AsyncInv, TypeOK
  <1> QED
    BY <1>1, SInvHolds, PTL

(* The workers' expectations of each other hold, under every fault.        *)
THEOREM SettlementWorkInv == Spec => []WorkInv
  <1>1. SInv => WorkInv
    BY DEF SInv, AsyncInv, WorkInv
  <1> QED
    BY <1>1, SInvHolds, PTL

(***************************************************************************)
(* Under every fault, a transaction shown as completed and a message that  *)
(* was acknowledged are backed by money that has moved.                    *)
(***************************************************************************)
THEOREM CompletionIsReal == Spec => []CompletedMeansSettled
  <1>1. SInv => CompletedMeansSettled
    BY DEF SInv, AsyncInv
  <1> QED
    BY <1>1, SInvHolds, PTL
-----------------------------------------------------------------------------
(***************************************************************************)
(* Deliveries.  A message exists only for a request that was answered 202, *)
(* and money moves only for a request with a message; a transaction runs   *)
(* the order of the message it was begun for; and an unacknowledged        *)
(* message has one holder, which no other holder shares.                   *)
(***************************************************************************)
PublishedInv ==
  \A tx \in Txs :
    /\ msg[tx] # "none" => api[tx] = "202"
    /\ settled[tx] > 0 => msg[tx] # "none"

JobOrderInv == \A s \in Sessions : Open(s) => job[s] = order[cur[s]]

HolderInv ==
  /\ \A s \in holders : msg[cur[s]] = "unacked"
  /\ \A s, t \in holders : cur[s] = cur[t] => s = t
  /\ \A tx \in Txs : msg[tx] = "unacked" => \E s \in holders : cur[s] = tx

DeliveryInv == PublishedInv /\ JobOrderInv /\ HolderInv

(* At first nothing is published and nothing delivered.                    *)
LEMMA InitDelivery == Init => DeliveryInv
  BY DEF Init, DBInit, DeliveryInv, PublishedInv, JobOrderInv, HolderInv, Open

LEMMA HandlerDelivery ==
  ASSUME SInv, DeliveryInv, NEW tx \in Txs,
         (\E j \in Requests : Submit(tx, j)) \/ Handler(tx)
  PROVE  DeliveryInv'
  <1> USE DEF SInv, AsyncInv, DeliveryInv
  <1>1. UNCHANGED <<stage, job, settled, cur, holders>>
    BY DEF Handler, Submit, Save, SaveFails, Publish, PublishLost, PublishFails,
           MarkUnpublished, workerVars, rowVars, dbVars
  <1>2. /\ \A u \in Txs \ {tx} : msg'[u] = msg[u] /\ api'[u] = api[u] /\ order'[u] = order[u]
        /\ api[tx] # "202"
        /\ msg'[tx] # msg[tx] => msg'[tx] \in {"ready", "lost"} /\ api'[tx] = "202"
        /\ order'[tx] # order[tx] => api[tx] = "none"
    BY DEF Handler, Submit, Save, SaveFails, Publish, PublishLost, PublishFails,
           MarkUnpublished, apiVars, AsyncTypeOK
  <1>3. PublishedInv'
    BY <1>1, <1>2 DEF PublishedInv
  <1>4. JobOrderInv'
    <2>1. \A s \in Sessions : Open(s) => cur[s] # tx /\ cur[s] \in Txs
      BY <1>2 DEF OpenInv, WorkerInv, PublishedInv, Processing
    <2> QED
      BY <1>1, <1>2, <2>1 DEF JobOrderInv, Open
  <1>5. HolderInv'
    <2>1. \A s \in holders : cur[s] # tx /\ cur[s] \in Txs
      BY <1>2 DEF AsyncTypeOK, WorkerInv, PublishedInv, Processing
    <2> QED
      BY <1>1, <1>2, <2>1 DEF HolderInv
  <1> QED
    BY <1>3, <1>4, <1>5

LEMMA TakeDelivery ==
  ASSUME SInv, DeliveryInv, NEW s \in Sessions, NEW tx \in Txs, Take(s, tx)
  PROVE  DeliveryInv'
  <1> USE DEF SInv, AsyncInv, DeliveryInv, Take
  <1>1. PublishedInv'
    BY DEF AsyncTypeOK, PublishedInv, rowVars, apiVars
  <1>2. JobOrderInv'
    BY DEF AsyncTypeOK, OpenInv, JobOrderInv, Open, dbVars, apiVars
  <1>3. HolderInv'
    <2>1. /\ s \notin holders /\ holders' = holders \cup {s}
          /\ msg' = [msg EXCEPT ![tx] = "unacked"] /\ cur' = [cur EXCEPT ![s] = tx]
      BY DEF WorkerInv, Processing
    <2>2. \A t \in holders : cur[t] # tx /\ t \in Sessions /\ cur[t] \in Txs
      BY DEF AsyncTypeOK, WorkerInv, HolderInv
    <2> QED
      BY <2>1, <2>2 DEF AsyncTypeOK, HolderInv
  <1> QED
    BY <1>1, <1>2, <1>3

(* Steps that move no message, no money and no worker to another message.  *)
LEMMA SameDelivery ==
  ASSUME SInv, DeliveryInv, UNCHANGED <<msg, api, order, settled, cur, holders>>,
         \A t \in Sessions : Open(t)' => job'[t] = order[cur[t]]
  PROVE  DeliveryInv'
  BY DEF DeliveryInv, PublishedInv, JobOrderInv, HolderInv

LEMMA IdleDelivery ==
  ASSUME SInv, DeliveryInv,
         \/ \E s \in Sessions : Check(s) \/ MarkFailed(s) \/ WorkerExit(s)
         \/ Replicate \/ \E p \in Procs : Sigterm(p) \/ Restart(p)
  PROVE  DeliveryInv'
  <1>1. UNCHANGED <<dbVars, msg, api, order, settled, cur, holders>>
    BY DEF Check, MarkFailed, WorkerExit, Replicate, Sigterm, Restart,
           rowVars, apiVars, workerVars
  <1> QED
    BY <1>1, SameDelivery DEF DeliveryInv, JobOrderInv, Open, dbVars

LEMMA SettleDelivery ==
  ASSUME SInv, DeliveryInv, NEW s \in Sessions,
         SettleBegin(s) \/ SettleStatement(s) \/ SettleFails(s) \/ SettleDeadlock(s)
  PROVE  DeliveryInv'
  <1> USE DEF SInv, DeliveryInv, JobOrderInv
  <1>1. UNCHANGED <<msg, api, order, settled, cur, holders>>
    BY DEF SettleBegin, SettleStatement, SettleFails, SettleDeadlock,
           rowVars, apiVars, workerVars
  <1>2. \/ LockSource(s, order[cur[s]])
        \/ Debit(s) \/ Credit(s) \/ Record(s)
        \/ Rollback({s})
        \/ UNCHANGED dbVars
    BY DEF SettleBegin, SettleStatement, SettleFails, SettleDeadlock, DeadlockVictim
  <1>3. CASE LockSource(s, order[cur[s]])
    BY <1>1, <1>3, LockOpens, SameDelivery DEF Open
  <1>4. CASE Debit(s) \/ Credit(s) \/ Record(s)
    BY <1>1, <1>4, StatementOpens, SameDelivery DEF Open
  <1>5. CASE Rollback({s})
    BY <1>1, <1>5, EndCloses, SameDelivery DEF Open, Rollback
  <1>6. CASE UNCHANGED dbVars
    BY <1>1, <1>6, SameDelivery DEF Open, dbVars
  <1> QED
    BY <1>2, <1>3, <1>4, <1>5, <1>6

(* A commit counts the settlement of the message it was begun for.         *)
LEMMA CommitDelivery ==
  ASSUME SInv, DeliveryInv, NEW s \in Sessions, SettleCommit(s) \/ OrphanEnds(s)
  PROVE  DeliveryInv'
  <1> USE DEF SInv, AsyncInv, DeliveryInv
  <1>1. /\ UNCHANGED <<msg, api, order, holders>>
        /\ \A t \in Sessions \ {s} : cur'[t] = cur[t]
    BY DEF SettleCommit, OrphanEnds, apiVars, AsyncTypeOK
  <1>2. UNCHANGED settled \/ settled' = [settled EXCEPT ![cur[s]] = @ + 1]
    BY DEF SettleCommit, OrphanEnds, CommitStatus, rowVars
  <1>3. cur[s] \in Txs /\ msg[cur[s]] # "none"
    BY DEF SettleCommit, OrphanEnds, WorkerInv, Processing
  <1>4. PublishedInv'
    BY <1>1, <1>2, <1>3 DEF PublishedInv, AsyncTypeOK
  <1>5. EndTransactions({s})
    BY DEF SettleCommit, OrphanEnds, Commit, Rollback
  <1>6. JobOrderInv'
    BY <1>1, <1>5, EndCloses DEF JobOrderInv, Open
  <1>7. HolderInv'
    <2>1. UNCHANGED cur \/ s \notin holders
      BY DEF SettleCommit, OrphanEnds, WorkerInv, Processing
    <2> QED
      BY <1>1, <2>1 DEF HolderInv, AsyncTypeOK
  <1> QED
    BY <1>4, <1>6, <1>7

LEMMA AnswerDelivery ==
  ASSUME SInv, DeliveryInv, NEW s \in Sessions, Ack(s) \/ Nack(s)
  PROVE  DeliveryInv'
  <1> USE DEF SInv, AsyncInv, DeliveryInv
  <1>1. PICK fate \in {"acked", "dead"} : Answer(s, fate) /\ pc[s] \in {"ack", "nack"}
    BY DEF Ack, Nack
  <1>2. /\ UNCHANGED <<dbVars, api, order, settled>>
        /\ msg' = [msg EXCEPT ![cur[s]] = IF s \in holders THEN fate ELSE msg[cur[s]]]
        /\ cur' = [cur EXCEPT ![s] = NoTx]
        /\ holders' = holders \ {s}
    BY <1>1 DEF Answer, rowVars, apiVars
  <1>3. cur[s] \in Txs /\ msg[cur[s]] # "none"
    BY <1>1 DEF WorkerInv, Processing
  <1>4. PublishedInv'
    BY <1>2, <1>3 DEF PublishedInv, AsyncTypeOK
  <1>5. JobOrderInv'
    BY <1>1, <1>2 DEF OpenInv, JobOrderInv, Open, dbVars, AsyncTypeOK
  <1>6. HolderInv'
    <2>1. \A t \in holders \ {s} :
            /\ t \in Sessions /\ cur'[t] = cur[t] /\ cur[t] \in Txs
            /\ msg'[cur[t]] = msg[cur[t]]
      BY <1>2, <1>3 DEF HolderInv, WorkerInv, AsyncTypeOK, Processing
    <2>2. \A tx \in Txs : msg'[tx] = "unacked" =>
            msg[tx] = "unacked" /\ (tx = cur[s] => s \notin holders)
      BY <1>2, <1>3 DEF AsyncTypeOK
    <2> QED
      BY <1>2, <2>1, <2>2 DEF HolderInv
  <1> QED
    BY <1>4, <1>5, <1>6

(* A connection that closes takes the deliveries of its holders back.      *)
LEMMA RequeueDelivery ==
  ASSUME SInv, DeliveryInv, NEW p \in Procs, Requeue(p),
         UNCHANGED <<stage, job, order, settled>>,
         \A s \in Sessions \ WorkersOf(p) : cur'[s] = cur[s],
         \A s \in Sessions : Open(s) => cur'[s] = cur[s],
         \A tx \in Txs : api[tx] = "202" => api'[tx] = "202"
  PROVE  DeliveryInv'
  <1> USE DEF SInv, AsyncInv, DeliveryInv
  <1>1. /\ holders' = holders \ WorkersOf(p) /\ holders \subseteq Sessions
        /\ \A tx \in Txs :
             msg'[tx] = IF \E s \in holders \cap WorkersOf(p) : cur[s] = tx
                          THEN "ready" ELSE msg[tx]
    BY DEF Requeue, AsyncTypeOK
  <1>2. \A s \in holders : cur[s] \in Txs /\ msg[cur[s]] = "unacked"
    BY DEF WorkerInv, HolderInv, AsyncTypeOK
  <1>3. PublishedInv'
    BY <1>1, <1>2 DEF PublishedInv
  <1>4. JobOrderInv'
    BY DEF JobOrderInv, Open
  <1>5. \A s \in holders' : s \in holders /\ cur'[s] = cur[s] /\ msg'[cur[s]] = msg[cur[s]]
    BY <1>1, <1>2 DEF HolderInv
  <1>6. \A tx \in Txs : msg'[tx] = "unacked" =>
          msg[tx] = "unacked" /\ \A s \in holders : cur[s] = tx => s \in holders'
    BY <1>1
  <1>7. HolderInv'
    BY <1>2, <1>5, <1>6 DEF HolderInv
  <1> QED
    BY <1>3, <1>4, <1>7

LEMMA LossDelivery ==
  ASSUME SInv, DeliveryInv, NEW p \in Procs, ConnLoss(p) \/ Crash(p) \/ Exit(p)
  PROVE  DeliveryInv'
  <1> USE DEF SInv, AsyncInv, AsyncTypeOK
  <1>1. Requeue(p) /\ UNCHANGED <<stage, job, order, settled>>
    BY DEF ConnLoss, Crash, Exit, Down, dbVars, rowVars, apiVars
  <1>2. /\ \A s \in Sessions \ WorkersOf(p) : cur'[s] = cur[s]
        /\ \A s \in Sessions : Open(s) => cur'[s] = cur[s]
    BY DEF ConnLoss, Crash, Exit, Down, WorkersOf
  <1>3. \A tx \in Txs : api[tx] = "202" => api'[tx] = "202"
    BY DEF ConnLoss, Crash, Exit, Down, apiVars, Running
  <1> QED
    BY <1>1, <1>2, <1>3, RequeueDelivery

LEMMA NextDelivery == SInv /\ DeliveryInv /\ [Next]_vars => DeliveryInv'
  <1> SUFFICES ASSUME SInv, DeliveryInv, [Next]_vars PROVE DeliveryInv'
    OBVIOUS
  <1>1. CASE UNCHANGED vars
    BY <1>1, SameDelivery DEF vars, dbVars, rowVars, apiVars, workerVars,
                              DeliveryInv, JobOrderInv, Open
  <1>2. ASSUME NEW tx \in Txs, (\E j \in Requests : Submit(tx, j)) \/ Handler(tx)
        PROVE  DeliveryInv'
    BY <1>2, HandlerDelivery
  <1>3. ASSUME NEW s \in Sessions, Worker(s) \/ OrphanEnds(s)
        PROVE  DeliveryInv'
    BY <1>3, TakeDelivery, IdleDelivery, SettleDelivery, CommitDelivery, AnswerDelivery
       DEF Worker
  <1>4. ASSUME NEW p \in Procs, Process(p) PROVE DeliveryInv'
    BY <1>4, LossDelivery, IdleDelivery DEF Process
  <1>5. CASE Replicate
    BY <1>5, IdleDelivery
  <1> QED
    BY <1>1, <1>2, <1>3, <1>4, <1>5 DEF Next

LEMMA DeliveryInvHolds == Spec => [](SInv /\ DeliveryInv)
  BY SInvHolds, InitDelivery, NextDelivery, PTL DEF Spec

(***************************************************************************)
(* A request that createAsync answered with 500 has no message that a      *)
(* worker could settle, whatever fails.                                    *)
(***************************************************************************)
THEOREM RefusedIsFinal == Spec => []RefusedNeverSettled
  <1>1. SInv /\ DeliveryInv => RefusedNeverSettled
    BY DEF SInv, AsyncInv, AsyncTypeOK, DeliveryInv, PublishedInv, RefusedNeverSettled
  <1> QED
    BY <1>1, DeliveryInvHolds, PTL

(***************************************************************************)
(* Every delivery has its owner: process answers each one, and a lost      *)
(* connection or process gives its deliveries back to the queue.           *)
(***************************************************************************)
THEOREM DeliveriesOwned == Spec => []DeliveryOwned
  <1>1. SInv /\ DeliveryInv => DeliveryOwned
    <2> SUFFICES ASSUME SInv, DeliveryInv, NEW tx \in Txs
                 PROVE  (msg[tx] = "unacked") <=>
                          \E s \in holders : /\ cur[s] = tx
                                             /\ pc[s] \in Processing
                                             /\ \A t \in holders \ {s} : cur[t] # tx
      BY DEF DeliveryOwned
    <2>1. \A s \in holders : pc[s] \in Processing
      BY DEF SInv, AsyncInv, AsyncTypeOK, WorkerInv
    <2> QED
      BY <2>1 DEF DeliveryInv, HolderInv
  <1> QED
    BY <1>1, DeliveryInvHolds, PTL
-----------------------------------------------------------------------------
(* The accounts                                                            *)

(* A commit of session s counts a settlement of its transaction.           *)
Settles(s) ==
  /\ Commit(s)
  /\ settled' = [settled EXCEPT ![cur[s]] = @ + 1]
  /\ UNCHANGED order

(* Otherwise no balance changes, and no order that was settled.            *)
LEMMA AccountsFrame ==
  ASSUME SInv, DeliveryInv, [Next]_vars, ~ \E s \in Sessions : Settles(s)
  PROVE  /\ UNCHANGED <<balance, settled>>
         /\ \A tx \in Txs : order'[tx] = order[tx] \/ settled[tx] = 0
  <1> USE DEF SInv, AsyncInv, AsyncTypeOK, DeliveryInv
  <1>1. ASSUME NEW tx \in Txs, NEW j \in Requests, Submit(tx, j)
        PROVE  /\ UNCHANGED <<balance, settled>>
               /\ \A u \in Txs : order'[u] = order[u] \/ settled[u] = 0
    BY <1>1 DEF Submit, PublishedInv, dbVars, rowVars
  <1>2. CASE Quiet /\ ~ \E tx \in Txs, j \in Requests : Submit(tx, j)
    <2>1. UNCHANGED dbVars
      BY <1>2, QuietOpen
    <2>2. UNCHANGED <<settled, order>>
      BY <1>2
      DEF Quiet, Handler, Save, SaveFails, Publish, PublishLost, PublishFails,
          MarkUnpublished, Take, Check, MarkFailed, Ack, Nack, Answer, WorkerExit,
          Replicate, Process, ConnLoss, Sigterm, Crash, Exit, Down, Restart, rowVars, apiVars
    <2> QED
      BY <2>1, <2>2 DEF dbVars
  <1>3. ASSUME NEW s \in Sessions, Settling(s)
        PROVE  UNCHANGED <<balance, settled, order>>
    BY <1>3 DEF Settling, Settles, SettleBegin, LockSource, SettleStatement, Debit, Credit,
                Record, SettleCommit, CommitStatus, SettleFails, SettleDeadlock,
                DeadlockVictim, Rollback, OrphanEnds, dbVars, rowVars, apiVars
  <1>4. CASE UNCHANGED vars
    BY <1>4 DEF vars, dbVars, rowVars, apiVars
  <1> QED
    BY <1>1, <1>2, <1>3, <1>4, NextSplit

(* What one settlement of an order adds to account a.                      *)
Once(j, a) == (IF j.dst = a THEN j.amount ELSE 0) - (IF j.src = a THEN j.amount ELSE 0)

(* It is a number, also before the order is known.                         *)
LEMMA OnceInt ==
  ASSUME NEW j \in Job \cup {NoJob}, NEW a
  PROVE  Once(j, a) \in Int
  <1>1. CASE j \in Job
    <2>1. j.amount \in Nat
      BY <1>1, TransferDBAssumption DEF Job
    <2> QED
      BY <2>1 DEF Once
  <1>2. CASE j = NoJob
    <2>1. j.amount = 0
      BY <1>2 DEF NoJob
    <2> QED
      BY <2>1 DEF Once
  <1> QED
    BY <1>1, <1>2

(* Counting one settlement more; the products stay opaque elsewhere.       *)
LEMMA OneMore ==
  ASSUME NEW n \in Nat, NEW d \in Int
  PROVE  n * d \in Int /\ (n + 1) * d = n * d + d /\ 0 * d = 0
  OBVIOUS

(* What the settlements of a transaction added so far is a number.         *)
LEMMA NetInt ==
  ASSUME SInv, NEW tx \in Txs, NEW a
  PROVE  Net(tx, a) \in Int
  <1>1. Net(tx, a) = settled[tx] * Once(order[tx], a)
    BY DEF Net, Once
  <1>2. settled[tx] \in Nat /\ order[tx] \in Job \cup {NoJob}
    BY SettlementAssumption DEF SInv, AsyncInv, AsyncTypeOK
  <1>3. PICK n \in Nat : n = settled[tx]
    BY <1>2
  <1>4. PICK d \in Int : d = Once(order[tx], a)
    BY <1>2, OnceInt
  <1> QED
    BY <1>1, <1>3, <1>4, OneMore

(* A settlement moves on every account what it adds to the sum of the      *)
(* settlements, and no other transaction has a part in it.                 *)
LEMMA SettlesNet ==
  ASSUME WholeCents, SInv, DeliveryInv, NEW s \in Sessions, Settles(s),
         NEW tx \in Txs, tx = cur[s], NEW a \in Accounts
  PROVE  /\ Net(tx, a)' \in Int
         /\ balance[a] \in Int
         /\ balance'[a] = balance[a] + (Net(tx, a)' - Net(tx, a))
         /\ \A u \in Txs \ {tx} : Net(u, a)' = Net(u, a)
  <1> USE DEF SInv, AsyncInv, AsyncTypeOK, DeliveryInv
  <1>1. PICK j : j = order[tx]
    OBVIOUS
  <1>2. job[s] = j
    BY <1>1 DEF Settles, Commit, Open, JobOrderInv
  <1>3. /\ j \in Job /\ j.src \in Accounts /\ j.dst \in Accounts
        /\ balance[j.src] >= j.amount
        /\ balance' = Moved(balance, j)
    BY <1>2, CommitMoves DEF Settles
  <1>4. balance \in [Accounts -> Nat] /\ \A c \in Accounts : balance[c] % Scale = 0
    BY BalanceNat DEF Inv, DBTypeOK
  <1>5. balance'[a] = balance[a] + ((IF j.dst = a THEN GivenBy(j.amount) ELSE 0)
                                    - (IF j.src = a THEN TakenBy(j.amount) ELSE 0))
    BY <1>3, <1>4, MovedBy
  <1>6. GivenBy(j.amount) = j.amount /\ TakenBy(j.amount) = j.amount
    BY <1>3, TransferDBAssumption, WholeAmount DEF Job, WholeCents
  <1>7. PICK d \in Int : d = Once(j, a)
    BY <1>3, OnceInt
  <1>8. balance'[a] = balance[a] + d
    BY <1>5, <1>6, <1>7 DEF Once
  <1>9. PICK n \in Nat : n = settled[tx] /\ settled'[tx] = n + 1
    BY DEF Settles
  <1>10. Net(tx, a) = n * d
    BY <1>1, <1>7, <1>9 DEF Net, Once
  <1>11. order' = order
    BY DEF Settles
  <1>12. Net(tx, a)' = (n + 1) * d
    BY <1>1, <1>7, <1>9, <1>11 DEF Net, Once
  <1>13. \A u \in Txs \ {tx} : Net(u, a)' = Net(u, a)
    BY <1>11 DEF Net, Settles
  <1>14. PICK e \in Int : e = n * d /\ (n + 1) * d = e + d
    BY OneMore
  <1>15. PICK b \in Int : b = balance[a]
    BY <1>4
  <1>16. Net(tx, a) = e /\ Net(tx, a)' = e + d /\ balance'[a] = b + d
    BY <1>8, <1>10, <1>12, <1>14, <1>15
  <1>17. /\ Net(tx, a)' \in Int
         /\ balance[a] \in Int
         /\ balance'[a] = balance[a] + (Net(tx, a)' - Net(tx, a))
    BY <1>15, <1>16
  <1> QED
    BY <1>13, <1>17

(* Every step keeps the accounts and the settlements together.             *)
LEMMA AccountsStep ==
  ASSUME IsFiniteSet(Txs), WholeCents, SInv, DeliveryInv, BalancesAccountedFor,
         [Next]_vars, SInv'
  PROVE  BalancesAccountedFor'
  <1> SUFFICES ASSUME NEW a \in Accounts
               PROVE  balance'[a] = InitialBalance[a]
                                    + SumFunction([tx \in Txs |-> Net(tx, a)'])
    BY DEF BalancesAccountedFor
  <1>1. PICK f : f = [tx \in Txs |-> Net(tx, a)]
    OBVIOUS
  <1>2. PICK h : h = [tx \in Txs |-> Net(tx, a)']
    OBVIOUS
  <1>3. balance[a] = InitialBalance[a] + SumFunction(f)
    BY <1>1 DEF BalancesAccountedFor
  <1>4. ASSUME NEW s \in Sessions, Settles(s)
        PROVE  balance'[a] = InitialBalance[a] + SumFunction(h)
    <2>1. PICK tx \in Txs : tx = cur[s]
      BY <1>4 DEF Settles, Commit, Open, SInv, AsyncInv, AsyncTypeOK, WorkerInv, OpenInv
    <2>2. f \in [Txs -> Int]
      BY <1>1, NetInt
    <2>3. /\ Net(tx, a)' \in Int
          /\ balance'[a] = balance[a] + (Net(tx, a)' - Net(tx, a))
          /\ \A u \in Txs \ {tx} : Net(u, a)' = Net(u, a)
      BY <1>4, <2>1, SettlesNet
    <2>4. /\ \A u \in Txs \ {tx} : h[u] = f[u]
          /\ h[tx] \in Int
          /\ balance'[a] = balance[a] + (h[tx] - f[tx])
      BY <1>1, <1>2, <2>3
    <2>5. h \in [Txs -> Int]
      BY <1>2, <2>2, <2>4
    <2>6. SumFunction(f) \in Int /\ SumFunction(h) = SumFunction(f) + (h[tx] - f[tx])
      BY <2>2, <2>4, <2>5, SumChange
    <2>7. InitialBalance[a] \in Int /\ h[tx] \in Int /\ f[tx] \in Int
      BY <2>2, <2>5, TransferDBAssumption
    <2> QED
      BY <1>3, <2>4, <2>6, <2>7
  <1>5. CASE ~ \E s \in Sessions : Settles(s)
    <2>1. /\ UNCHANGED <<balance, settled>>
          /\ \A tx \in Txs : order'[tx] = order[tx] \/ settled[tx] = 0
      BY <1>5, AccountsFrame
    <2>2. ASSUME NEW tx \in Txs
          PROVE  Net(tx, a)' = Net(tx, a)
      <3>1. CASE order'[tx] = order[tx]
        BY <2>1, <3>1 DEF Net
      <3>2. CASE settled[tx] = 0
        <4>1. order[tx] \in Job \cup {NoJob} /\ order'[tx] \in Job \cup {NoJob}
          BY SettlementAssumption DEF SInv, AsyncInv, AsyncTypeOK
        <4>2. PICK d \in Int : d = Once(order[tx], a)
          BY <4>1, OnceInt
        <4>3. PICK e \in Int : e = Once(order'[tx], a)
          BY <4>1, OnceInt
        <4>4. Net(tx, a) = 0 * d /\ Net(tx, a)' = 0 * e
          BY <2>1, <3>2, <4>2, <4>3 DEF Net, Once
        <4> QED
          BY <4>4, OneMore
      <3> QED
        BY <2>1, <3>1, <3>2
    <2>3. h = f
      BY <1>1, <1>2, <2>2
    <2> QED
      BY <1>2, <1>3, <2>1, <2>3
  <1> QED
    BY <1>2, <1>4, <1>5

(***************************************************************************)
(* The money of the asynchronous path is accounted for, whatever fails:    *)
(* for any number of transactions, workers, processes and faults, every    *)
(* account holds what it held at first and the orders of the settlements   *)
(* that committed, each as often as it committed.  Amounts are whole cents *)
(* here: with half cents the two roundings of PGTransferRepository.Transfer*)
(* differ, and the sum would have to count them apart.                     *)
(***************************************************************************)
THEOREM SettlementBalancesAccounted ==
  ASSUME IsFiniteSet(Txs), WholeCents
  PROVE  Spec => []BalancesAccountedFor
  <1>1. Init => BalancesAccountedFor
    <2> SUFFICES ASSUME Init, NEW a \in Accounts
                 PROVE  balance[a] = InitialBalance[a]
                                     + SumFunction([tx \in Txs |-> Net(tx, a)])
      BY DEF BalancesAccountedFor
    <2>1. \A tx \in Txs : Net(tx, a) = 0
      <3> SUFFICES ASSUME NEW tx \in Txs PROVE Net(tx, a) = 0
        OBVIOUS
      <3>1. settled[tx] = 0 /\ order[tx] = NoJob
        BY DEF Init
      <3>2. PICK d \in Int : d = Once(NoJob, a)
        BY OnceInt
      <3>3. Net(tx, a) = 0 * d
        BY <3>1, <3>2 DEF Net, Once
      <3> QED
        BY <3>3, OneMore
    <2>2. SumFunction([tx \in Txs |-> Net(tx, a)]) = 0
      BY <2>1, SumZero
    <2>3. balance[a] = InitialBalance[a] /\ InitialBalance[a] \in Int
      BY TransferDBAssumption DEF Init, DBInit
    <2> QED
      BY <2>2, <2>3
  <1>2. SInv /\ SInv' /\ DeliveryInv /\ BalancesAccountedFor /\ [Next]_vars
          => BalancesAccountedFor'
    BY AccountsStep
  <1> QED
    BY <1>1, <1>2, DeliveryInvHolds, PTL DEF Spec
=============================================================================
