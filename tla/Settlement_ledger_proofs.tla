---------------------- MODULE Settlement_ledger_proofs ----------------------
(***************************************************************************)
(* The asynchronous path implements the ledger while no worker loses its   *)
(* connection, its process or an answer of the database: proved for any    *)
(* number of requests, workers and processes, whatever Publish loses or    *)
(* refuses and however far the replica lags.  And money moves once as long *)
(* as no message is delivered twice, whatever the database does.           *)
(***************************************************************************)
EXTENDS Settlement_proofs

(* The only faults are those of Publish.                                   *)
Calm == Faults \subseteq {"publishError", "publishLost"}

(* Every worker owns the delivery it processes, and no process stops.      *)
WorkersUp ==
  /\ \A p \in Procs : proc[p] = "up"
  /\ \A s \in Sessions : /\ pc[s] # "orphan"
                         /\ pc[s] \in Processing => s \in holders

(***************************************************************************)
(* The status of a transaction says how far its handler, its message and   *)
(* the worker that holds it have got.                                      *)
(***************************************************************************)
StatusOfHandler ==
  \A tx \in Txs :
    /\ api[tx] \in {"none", "save"} => status[tx] = "absent"
    /\ api[tx] \in {"publish", "markFailed"} => status[tx] = "pending"
    /\ settled[tx] > 0 => status[tx] = "completed"

StatusOfMessage ==
  \A tx \in Txs :
    /\ msg[tx] \in {"ready", "lost"} => status[tx] = "pending"
    /\ msg[tx] = "acked" => status[tx] = "completed"
    /\ msg[tx] = "dead" => status[tx] = "failed"

StatusOfWork ==
  \A s \in Sessions :
    /\ pc[s] \in {"check", "settle", "markFailed"} => status[cur[s]] = "pending"
    /\ pc[s] = "ack" => status[cur[s]] = "completed"
    /\ pc[s] = "nack" => status[cur[s]] = "failed"

CalmInv == WorkersUp /\ StatusOfHandler /\ StatusOfMessage /\ StatusOfWork

AllInv == SInv /\ DeliveryInv /\ CalmInv

(* At first no worker holds anything.                                      *)
LEMMA InitCalm == Init => CalmInv
  BY DEF Init, CalmInv, WorkersUp, StatusOfHandler, StatusOfMessage, StatusOfWork,
         Processing

(* No database call of a worker fails, and no process is disturbed.        *)
LEMMA NoFaults ==
  ASSUME Calm, SInv, CalmInv
  PROVE  /\ \A s \in Sessions : ~CallFails(s) /\ ~SettleFails(s)
         /\ \A s \in Sessions : ~OrphanEnds(s)
         /\ \A tx \in Txs : ~SaveFails(tx)
         /\ \A p \in Procs : ~Process(p)
  <1>1. \A s \in Sessions : ~Cancelled(s)
    BY SettlementAssumption DEF Cancelled, CalmInv, WorkersUp
  <1>2. ~Fault("db") /\ ~Fault("conn") /\ ~Fault("sigterm") /\ ~Fault("crash")
    BY DEF Calm, Fault
  <1>3. \A s \in Sessions : ~CallFails(s)
    BY <1>1, <1>2 DEF CallFails
  <1>4. \A p \in Procs : ~Process(p)
    BY <1>2 DEF Process, ConnLoss, Sigterm, Crash, Exit, Restart, CalmInv, WorkersUp
  <1> QED
    BY <1>2, <1>3, <1>4 DEF SettleFails, OrphanEnds, SaveFails, CalmInv, WorkersUp

(* The handler changes the status of its own transaction, which no worker  *)
(* has yet heard of.                                                       *)
LEMMA HandlerCalm ==
  ASSUME Calm, AllInv, NEW tx \in Txs,
         (\E j \in Requests : Submit(tx, j)) \/ Handler(tx)
  PROVE  CalmInv'
  <1> USE DEF AllInv, SInv, AsyncInv, CalmInv
  <1>1. UNCHANGED <<proc, pc, cur, holders, settled>>
    BY DEF Handler, Submit, Save, SaveFails, Publish, PublishLost, PublishFails,
           MarkUnpublished, workerVars, rowVars, procVars
  <1>2. \A u \in Txs \ {tx} : msg'[u] = msg[u] /\ api'[u] = api[u] /\ status'[u] = status[u]
    BY DEF Handler, Submit, Save, SaveFails, Publish, PublishLost, PublishFails,
           MarkUnpublished, rowVars, AsyncTypeOK
  <1>3. api[tx] # "202" /\ msg[tx] = "none" /\ status[tx] # "completed"
    <2>1. api[tx] \in {"none", "save", "publish", "markFailed"}
      BY DEF Handler, Submit, Save, SaveFails, Publish, PublishLost, PublishFails,
             MarkUnpublished
    <2> QED
      BY <2>1 DEF DeliveryInv, PublishedInv, StatusOfHandler
  <1>4. /\ api'[tx] \in {"none", "save"} => status'[tx] = "absent"
        /\ api'[tx] \in {"publish", "markFailed"} => status'[tx] = "pending"
        /\ msg'[tx] \in {"ready", "lost"} => status'[tx] = "pending"
        /\ msg'[tx] \in {"none", "ready", "lost"}
    BY <1>3, NoFaults
    DEF Handler, Submit, Save, Publish, PublishLost, PublishFails,
        MarkUnpublished, rowVars, AsyncTypeOK, StatusOfHandler
  <1>5. WorkersUp'
    BY <1>1 DEF WorkersUp
  <1>6. StatusOfHandler'
    BY <1>1, <1>2, <1>3, <1>4 DEF StatusOfHandler
  <1>7. StatusOfMessage'
    BY <1>2, <1>4 DEF StatusOfMessage
  <1>8. StatusOfWork'
    <2>1. \A s \in Sessions : pc[s] \in Processing => cur[s] \in Txs \ {tx}
      BY <1>3 DEF WorkerInv
    <2> QED
      BY <1>1, <1>2, <2>1 DEF StatusOfWork, Processing
  <1> QED
    BY <1>5, <1>6, <1>7, <1>8

(* Two workers never process the same message.                             *)
LEMMA OwnMessage ==
  ASSUME AllInv, NEW s \in Sessions, NEW t \in Sessions,
         pc[s] \in Processing, pc[t] \in Processing, cur[s] = cur[t]
  PROVE  s = t
  BY DEF AllInv, CalmInv, WorkersUp, DeliveryInv, HolderInv

LEMMA TakeCalm ==
  ASSUME AllInv, NEW s \in Sessions, NEW tx \in Txs, Take(s, tx)
  PROVE  CalmInv'
  <1> USE DEF AllInv, SInv, AsyncInv, AsyncTypeOK, CalmInv, Take, Goto
  <1>1. WorkersUp'
    BY DEF WorkersUp, procVars, Processing
  <1>2. StatusOfHandler'
    BY DEF StatusOfHandler, rowVars, apiVars
  <1>3. StatusOfMessage'
    BY DEF StatusOfMessage, rowVars
  <1>4. StatusOfWork'
    BY DEF StatusOfWork, StatusOfMessage, rowVars
  <1> QED
    BY <1>1, <1>2, <1>3, <1>4

(* GetByID never finds the message a worker has just taken completed.      *)
LEMMA CheckCalm ==
  ASSUME Calm, AllInv, NEW s \in Sessions, Check(s)
  PROVE  CalmInv'
  <1> USE DEF AllInv, SInv, AsyncInv, CalmInv
  <1>1. /\ pc[s] = "check" /\ cur[s] \in Txs
        /\ UNCHANGED <<rowVars, api, msg, cur, holders, proc>>
    BY DEF Check, WorkerInv, Processing, apiVars, procVars
  <1>2. pc' = [pc EXCEPT ![s] = "settle"]
    <2>1. ReadStatus(cur[s]) # "completed"
      BY <1>1 DEF ReadStatus, CompletedMeansSettled, StatusOfHandler, StatusOfWork
    <2> QED
      BY <2>1, NoFaults DEF Check, Goto
  <1>3. WorkersUp'
    BY <1>1, <1>2 DEF WorkersUp, Processing, AsyncTypeOK
  <1>4. StatusOfHandler' /\ StatusOfMessage'
    BY <1>1 DEF StatusOfHandler, StatusOfMessage, rowVars
  <1>5. StatusOfWork'
    BY <1>1, <1>2 DEF StatusOfWork, rowVars, AsyncTypeOK
  <1> QED
    BY <1>3, <1>4, <1>5

LEMMA SettleCalm ==
  ASSUME Calm, AllInv, NEW s \in Sessions,
         SettleBegin(s) \/ SettleStatement(s) \/ SettleDeadlock(s) \/ WorkerExit(s)
  PROVE  CalmInv'
  <1> USE DEF AllInv, SInv, AsyncInv, CalmInv
  <1>1. UNCHANGED <<rowVars, api, msg, cur, holders, proc>>
    BY DEF SettleBegin, SettleStatement, SettleDeadlock, WorkerExit,
           apiVars, procVars, workerVars
  <1>2. \/ UNCHANGED pc
        \/ pc[s] = "settle" /\ pc' = [pc EXCEPT ![s] = "markFailed"]
        \/ pc' = [pc EXCEPT ![s] = "exited"]
    BY DEF SettleBegin, SettleStatement, SettleDeadlock, WorkerExit, Goto, workerVars
  <1>3. WorkersUp'
    BY <1>1, <1>2 DEF WorkersUp, Processing, AsyncTypeOK
  <1>4. StatusOfHandler' /\ StatusOfMessage'
    BY <1>1 DEF StatusOfHandler, StatusOfMessage, rowVars
  <1>5. StatusOfWork'
    BY <1>1, <1>2 DEF StatusOfWork, rowVars, AsyncTypeOK
  <1> QED
    BY <1>3, <1>4, <1>5

(* A worker changes the status of the one message that it holds.           *)
LEMMA OutcomeCalm ==
  ASSUME Calm, AllInv, NEW s \in Sessions, SettleCommit(s) \/ MarkFailed(s)
  PROVE  CalmInv'
  <1> USE DEF AllInv, SInv, AsyncInv, CalmInv
  <1>1. /\ pc[s] \in {"settle", "markFailed"} /\ pc[s] \in Processing
        /\ cur[s] \in Txs /\ status[cur[s]] = "pending" /\ msg[cur[s]] = "unacked"
        /\ api[cur[s]] = "202" /\ settled[cur[s]] = 0
    <2>1. pc[s] \in {"settle", "markFailed"}
      BY DEF SettleCommit, MarkFailed
    <2>2. /\ cur[s] \in Txs /\ s \in holders /\ pc[s] \in Processing
          /\ status[cur[s]] = "pending"
      BY <2>1 DEF WorkerInv, WorkersUp, StatusOfWork, Processing
    <2> QED
      BY <2>1, <2>2 DEF DeliveryInv, HolderInv, PublishedInv, StatusOfHandler, AsyncTypeOK
  <1>2. UNCHANGED <<api, msg, cur, holders, proc>>
    BY DEF SettleCommit, MarkFailed, apiVars, procVars
  <1>3. \/ /\ status' = [status EXCEPT ![cur[s]] = "completed"]
           /\ settled' = [settled EXCEPT ![cur[s]] = @ + 1]
           /\ pc' = [pc EXCEPT ![s] = "ack"]
        \/ /\ status' = [status EXCEPT ![cur[s]] = "failed"]
           /\ settled' = settled
           /\ pc' = [pc EXCEPT ![s] = "nack"]
    BY NoFaults DEF SettleCommit, MarkFailed, CommitStatus, Goto
  <1>4. WorkersUp'
    BY <1>1, <1>2, <1>3 DEF WorkersUp, Processing, AsyncTypeOK
  <1>5. StatusOfHandler'
    BY <1>1, <1>2, <1>3 DEF StatusOfHandler, AsyncTypeOK
  <1>6. StatusOfMessage'
    BY <1>1, <1>2, <1>3 DEF StatusOfMessage, AsyncTypeOK
  <1>7. StatusOfWork'
    <2>1. \A t \in Sessions \ {s} :
            /\ pc'[t] = pc[t]
            /\ pc[t] \in Processing => cur[t] \in Txs /\ status'[cur[t]] = status[cur[t]]
      BY <1>1, <1>3, OwnMessage DEF AsyncTypeOK, WorkerInv
    <2>2. /\ pc'[s] = "ack" => status'[cur[s]] = "completed"
          /\ pc'[s] = "nack" => status'[cur[s]] = "failed"
          /\ pc'[s] \in {"ack", "nack"}
      BY <1>1, <1>3 DEF AsyncTypeOK
    <2> QED
      BY <1>2, <2>1, <2>2 DEF StatusOfWork, Processing
  <1> QED
    BY <1>4, <1>5, <1>6, <1>7

LEMMA AnswerCalm ==
  ASSUME AllInv, NEW s \in Sessions, Ack(s) \/ Nack(s)
  PROVE  CalmInv'
  <1> USE DEF AllInv, SInv, AsyncInv, CalmInv
  <1>1. /\ UNCHANGED <<status, settled, api, proc>>
        /\ cur' = [cur EXCEPT ![s] = NoTx]
        /\ holders' = holders \ {s}
        /\ pc' = [pc EXCEPT ![s] = "idle"]
    BY DEF Ack, Nack, Answer, Goto, rowVars, apiVars, procVars
  <1>2. \/ pc[s] = "ack" /\ msg' = [msg EXCEPT ![cur[s]] = IF s \in holders THEN "acked" ELSE @]
        \/ pc[s] = "nack" /\ msg' = [msg EXCEPT ![cur[s]] = IF s \in holders THEN "dead" ELSE @]
    BY DEF Ack, Nack, Answer
  <1>3. WorkersUp'
    BY <1>1 DEF WorkersUp, Processing, AsyncTypeOK
  <1>4. StatusOfHandler'
    BY <1>1 DEF StatusOfHandler
  <1>5. StatusOfMessage'
    BY <1>1, <1>2 DEF StatusOfMessage, StatusOfWork, AsyncTypeOK
  <1>6. StatusOfWork'
    BY <1>1 DEF StatusOfWork, AsyncTypeOK
  <1> QED
    BY <1>3, <1>4, <1>5, <1>6

(* The invariant is inductive while no fault but those of Publish occurs.  *)
LEMMA NextCalm ==
  ASSUME Calm, AllInv, [Next]_vars PROVE CalmInv'
  <1>1. CASE UNCHANGED vars \/ Replicate
    BY <1>1 DEF vars, Replicate, rowVars, apiVars, workerVars, procVars, AllInv, CalmInv,
                WorkersUp, StatusOfHandler, StatusOfMessage, StatusOfWork
  <1>2. ASSUME NEW tx \in Txs, (\E j \in Requests : Submit(tx, j)) \/ Handler(tx)
        PROVE  CalmInv'
    BY <1>2, HandlerCalm
  <1>3. ASSUME NEW s \in Sessions, Worker(s) \/ OrphanEnds(s)
        PROVE  CalmInv'
    <2>1. ~SettleFails(s) /\ ~OrphanEnds(s)
      BY NoFaults DEF AllInv
    <2> QED
      BY <1>3, <2>1, TakeCalm, CheckCalm, SettleCalm, OutcomeCalm, AnswerCalm DEF Worker
  <1>4. ASSUME NEW p \in Procs, Process(p) PROVE CalmInv'
    BY <1>4, NoFaults DEF AllInv
  <1> QED
    BY <1>1, <1>2, <1>3, <1>4 DEF Next

(* All invariants together.                                                *)
LEMMA AllInvHolds ==
  ASSUME Calm PROVE Spec => []AllInv
  <1>1. Init => AllInv
    BY InitSInv, InitDelivery, InitCalm DEF AllInv
  <1>2. AllInv /\ [Next]_vars => AllInv'
    BY NextSInv, NextDelivery, NextCalm DEF AllInv
  <1> QED
    BY <1>1, <1>2, PTL DEF Spec
-----------------------------------------------------------------------------
(***************************************************************************)
(* While only Publish fails, every message in the dead-letter queue is     *)
(* that of a transaction that is reported failed.                          *)
(***************************************************************************)
THEOREM DeadLettersFailed ==
  ASSUME Calm PROVE Spec => []DeadLetterMeansFailed
  <1>1. AllInv => DeadLetterMeansFailed
    BY DEF AllInv, CalmInv, StatusOfMessage, DeadLetterMeansFailed
  <1> QED
    BY <1>1, AllInvHolds, PTL

-----------------------------------------------------------------------------
(* Refinement of the ledger, one lemma per kind of step.                   *)
orders == [tx \in Txs |-> IF status[tx] = "absent" THEN NoJob ELSE order[tx]]

(* Nothing the ledger sees has changed.                                    *)
LEMMA LedgerStutter ==
  ASSUME UNCHANGED <<balance, status>>,
         \A tx \in Txs : status[tx] # "absent" => order'[tx] = order[tx]
  PROVE  UNCHANGED L!ledgerVars
  <1>1. orders' = orders
    BY DEF orders
  <1> QED
    BY <1>1 DEF L!ledgerVars, orders

(* The worker or the handler gives a pending transaction up.               *)
LEMMA LedgerReject ==
  ASSUME AllInv, NEW tx \in Txs, status[tx] = "pending",
         status' = [status EXCEPT ![tx] = "failed"],
         UNCHANGED <<balance, order>>
  PROVE  L!Next
  <1>1. status \in [Txs -> Statuses]
    BY DEF AllInv, SInv, AsyncInv, AsyncTypeOK
  <1>2. status' = [u \in Txs |-> IF u \in {tx} THEN "failed" ELSE status[u]]
    BY <1>1
  <1>3. orders' = orders
    BY <1>1 DEF orders
  <1>4. L!Reject({tx})
    BY <1>2, <1>3 DEF L!Reject, orders
  <1> QED
    BY <1>4 DEF L!Next

(* Each step as a step of Ledger: the handlers,                            *)
LEMMA HandlerLedger ==
  ASSUME Calm, AllInv, NEW tx \in Txs,
         (\E j \in Requests : Submit(tx, j)) \/ Handler(tx)
  PROVE  [L!Next]_L!ledgerVars
  <1> USE DEF AllInv, SInv, AsyncInv, CalmInv
  <1>1. UNCHANGED balance
    BY DEF Handler, Submit, Save, SaveFails, Publish, PublishLost, PublishFails,
           MarkUnpublished, dbVars
  <1>2. ASSUME NEW j \in Requests, Submit(tx, j) PROVE UNCHANGED L!ledgerVars
    <2>1. UNCHANGED status /\ \A u \in Txs : status[u] # "absent" => order'[u] = order[u]
      BY <1>2 DEF Submit, AsyncTypeOK, StatusOfHandler, rowVars
    <2> QED
      BY <1>1, <2>1, LedgerStutter
  <1>3. CASE Save(tx) /\ status' # status
    <2>1. /\ status' = [status EXCEPT ![tx] = "pending"] /\ UNCHANGED order
          /\ status[tx] = "absent" /\ order[tx] \in Requests /\ AccountsExist(order[tx])
      BY <1>3 DEF Save, StatusOfHandler, OrderInv
    <2>2. PICK o \in Requests : o = order[tx]
      BY <2>1
    <2>3. orders' = [orders EXCEPT ![tx] = o]
      BY <2>1, <2>2 DEF orders, AsyncTypeOK
    <2>4. L!Accept(tx, o)
      BY <1>1, <2>1, <2>2, <2>3 DEF L!Accept, AccountsExist, orders
    <2> QED
      BY <2>4 DEF L!Next
  <1>4. CASE \/ Save(tx) /\ UNCHANGED status
             \/ Publish(tx) \/ PublishLost(tx) \/ PublishFails(tx)
    <2>1. UNCHANGED <<status, order>>
      BY <1>4 DEF Save, Publish, PublishLost, PublishFails, rowVars
    <2> QED
      BY <1>1, <2>1, LedgerStutter
  <1>5. CASE MarkUnpublished(tx)
    <2>1. /\ status[tx] = "pending" /\ UNCHANGED order
          /\ UNCHANGED status \/ status' = [status EXCEPT ![tx] = "failed"]
      BY <1>5 DEF MarkUnpublished, StatusOfHandler
    <2>2. CASE UNCHANGED status
      BY <1>1, <2>1, <2>2, LedgerStutter
    <2>3. CASE status' = [status EXCEPT ![tx] = "failed"]
      BY <1>1, <2>1, <2>3, LedgerReject
    <2> QED
      BY <2>1, <2>2, <2>3
  <1> QED
    BY <1>2, <1>3, <1>4, <1>5, NoFaults DEF Handler

(* COMMIT completes the transaction with the order that was accepted.      *)
LEMMA CommitLedger ==
  ASSUME Calm, AllInv, NEW s \in Sessions, SettleCommit(s)
  PROVE  L!Next
  <1> USE DEF AllInv, SInv, AsyncInv, CalmInv
  <1>1. /\ Commit(s) /\ UNCHANGED order
        /\ status' = [status EXCEPT ![cur[s]] = "completed"]
    BY DEF SettleCommit, CommitStatus, apiVars
  <1>2. cur[s] \in Txs /\ status[cur[s]] = "pending"
    BY DEF SettleCommit, WorkerInv, Processing, StatusOfWork
  <1>3. job[s] = order[cur[s]]
    BY <1>1 DEF Commit, Open, DeliveryInv, JobOrderInv
  <1>4. /\ balance[order[cur[s]].src] >= order[cur[s]].amount
        /\ balance' = Moved(balance, order[cur[s]])
    BY <1>1, <1>3, CommitMoves
  <1>5. orders' = orders /\ orders[cur[s]] = order[cur[s]]
    BY <1>1, <1>2 DEF orders, AsyncTypeOK
  <1>6. L!Complete(cur[s])
    BY <1>1, <1>2, <1>4, <1>5 DEF L!Complete, orders
  <1> QED
    BY <1>2, <1>6 DEF L!Next

(* the workers,                                                            *)
LEMMA WorkerLedger ==
  ASSUME Calm, AllInv, NEW s \in Sessions, Worker(s)
  PROVE  [L!Next]_L!ledgerVars
  <1>1. CASE SettleCommit(s)
    BY <1>1, CommitLedger
  <1>2. CASE MarkFailed(s)
    <2>1. /\ status' = [status EXCEPT ![cur[s]] = "failed"]
          /\ UNCHANGED <<balance, order>>
      BY <1>2, NoFaults DEF MarkFailed, dbVars, apiVars, AllInv
    <2>2. cur[s] \in Txs /\ status[cur[s]] = "pending"
      BY <1>2 DEF MarkFailed, AllInv, SInv, AsyncInv, CalmInv, WorkerInv, Processing,
                  StatusOfWork
    <2> QED
      BY <2>1, <2>2, LedgerReject
  <1>3. CASE \/ \E tx \in Txs : Take(s, tx)
             \/ Check(s) \/ SettleBegin(s) \/ SettleStatement(s) \/ SettleDeadlock(s)
             \/ Ack(s) \/ Nack(s) \/ WorkerExit(s)
    <2>1. UNCHANGED <<status, order>>
      BY <1>3 DEF Take, Check, SettleBegin, SettleStatement, SettleDeadlock, Ack, Nack,
                  Answer, WorkerExit, rowVars, apiVars
    <2>2. UNCHANGED balance
      BY <1>3 DEF Take, Check, SettleBegin, SettleStatement, SettleDeadlock, Ack, Nack,
                  Answer, WorkerExit, dbVars, LockSource, Debit, Credit, Record,
                  DeadlockVictim, Rollback
    <2> QED
      BY <2>1, <2>2, LedgerStutter
  <1>4. ~SettleFails(s)
    BY NoFaults DEF AllInv
  <1> QED
    BY <1>1, <1>2, <1>3, <1>4 DEF Worker

(* and every step.                                                         *)
LEMMA StepLedger ==
  ASSUME Calm, AllInv, [Next]_vars PROVE [L!Next]_L!ledgerVars
  <1>1. CASE UNCHANGED vars \/ Replicate
    <2>1. UNCHANGED <<balance, status, order>>
      BY <1>1 DEF vars, Replicate, dbVars, rowVars, apiVars
    <2> QED
      BY <2>1, LedgerStutter
  <1>2. ASSUME NEW tx \in Txs, (\E j \in Requests : Submit(tx, j)) \/ Handler(tx)
        PROVE  [L!Next]_L!ledgerVars
    BY <1>2, HandlerLedger
  <1>3. ASSUME NEW s \in Sessions, Worker(s) \/ OrphanEnds(s)
        PROVE  [L!Next]_L!ledgerVars
    BY <1>3, NoFaults, WorkerLedger DEF AllInv
  <1>4. ASSUME NEW p \in Procs, Process(p) PROVE [L!Next]_L!ledgerVars
    BY <1>4, NoFaults DEF AllInv
  <1> QED
    BY <1>1, <1>2, <1>3, <1>4 DEF Next

(***************************************************************************)
(* While only Publish fails, the asynchronous path is an atomic ledger:    *)
(* competing workers, deadlocks and a lagging replica neither move money   *)
(* twice nor revise an outcome.                                            *)
(***************************************************************************)
THEOREM SettlementImplementsLedger ==
  ASSUME Calm PROVE Spec => ImplementsLedger
  <1>1. Init => L!Init
    BY DEF Init, DBInit, L!Init
  <1>2. AllInv /\ [Next]_vars => [L!Next]_L!ledgerVars
    BY StepLedger
  <1> QED
    BY <1>1, <1>2, AllInvHolds, PTL DEF Spec, ImplementsLedger, L!Spec

(***************************************************************************)
(* So an outcome is final while only Publish fails: the overwritten status *)
(* that UpdateStatus(failed) can leave needs a COMMIT whose answer is      *)
(* lost.                                                                   *)
(***************************************************************************)
THEOREM OutcomeFinalWhileCalm ==
  ASSUME Calm PROVE Spec => TerminalStatusFinal
  <1>1. AllInv /\ [Next]_vars =>
          [\A tx \in Txs : status[tx] \in {"completed", "failed"}
                             => status'[tx] = status[tx]]_status
    <2> SUFFICES ASSUME AllInv, [Next]_vars, NEW tx \in Txs,
                        status[tx] \in {"completed", "failed"}
                 PROVE  status'[tx] = status[tx]
      OBVIOUS
    <2>1. DOMAIN status = Txs
      BY DEF AllInv, SInv, AsyncInv, AsyncTypeOK
    <2>2. [L!Next]_L!ledgerVars
      BY StepLedger
    <2> QED
      BY <2>1, <2>2 DEF L!Next, L!Accept, L!Complete, L!Reject, L!ledgerVars
  <1> QED
    BY <1>1, AllInvHolds, PTL DEF Spec, TerminalStatusFinal

-----------------------------------------------------------------------------
(***************************************************************************)
(* Money moves once while no message is delivered twice, also when calls   *)
(* of the database fail and when the success of a COMMIT is not learnt of. *)
(***************************************************************************)
NoRedelivery == Faults \cap {"conn", "sigterm", "crash"} = {}

(* Nobody settles, or is about to, what has been settled.                  *)
OnceInv ==
  /\ \A tx \in Txs : settled[tx] > 0 => settled[tx] = 1 /\ msg[tx] # "ready"
  /\ \A s \in Sessions : pc[s] \in {"check", "settle"} => settled[cur[s]] = 0

DeliveredOnce == SInv /\ DeliveryInv /\ WorkersUp /\ OnceInv

(* No process is disturbed.                                                *)
LEMMA Undisturbed ==
  ASSUME NoRedelivery, WorkersUp
  PROVE  /\ \A s \in Sessions : ~OrphanEnds(s)
         /\ \A p \in Procs : ~Process(p)
  BY DEF NoRedelivery, WorkersUp, Fault, OrphanEnds, Process, ConnLoss, Sigterm, Crash,
         Exit, Restart

(* A handler publishes what nobody can have settled.                       *)
LEMMA HandlerOnce ==
  ASSUME DeliveredOnce, NEW tx \in Txs,
         (\E j \in Requests : Submit(tx, j)) \/ Handler(tx)
  PROVE  WorkersUp' /\ OnceInv'
  <1> USE DEF DeliveredOnce, SInv, AsyncInv, AsyncTypeOK
  <1>1. UNCHANGED <<proc, pc, cur, holders, settled>>
    BY DEF Handler, Submit, Save, SaveFails, Publish, PublishLost, PublishFails,
           MarkUnpublished, workerVars, rowVars, procVars
  <1>2. \A u \in Txs \ {tx} : msg'[u] = msg[u]
    BY DEF Handler, Submit, Save, SaveFails, Publish, PublishLost, PublishFails,
           MarkUnpublished
  <1>3. api[tx] # "202"
    BY DEF Handler, Submit, Save, SaveFails, Publish, PublishLost, PublishFails,
           MarkUnpublished
  <1>4. ~(settled[tx] > 0)
    BY <1>3 DEF DeliveryInv, PublishedInv
  <1> QED
    BY <1>1, <1>2, <1>4 DEF WorkersUp, OnceInv

(* A worker settles the delivery that it alone holds.                      *)
LEMMA WorkerOnce ==
  ASSUME DeliveredOnce, NEW s \in Sessions, Worker(s)
  PROVE  WorkersUp' /\ OnceInv'
  <1> USE DEF DeliveredOnce, SInv, AsyncInv, AsyncTypeOK
  <1>1. UNCHANGED proc
    BY DEF Worker, Take, Check, SettleBegin, SettleStatement, SettleCommit, SettleFails,
           SettleDeadlock, MarkFailed, Ack, Nack, Answer, WorkerExit, procVars
  <1>2. ASSUME NEW tx \in Txs, Take(s, tx) PROVE WorkersUp' /\ OnceInv'
    <2>1. settled[tx] = 0 /\ UNCHANGED settled
      BY <1>2 DEF Take, OnceInv, rowVars
    <2>2. OnceInv'
      BY <1>2, <2>1 DEF Take, Goto, OnceInv
    <2>3. WorkersUp'
      BY <1>1, <1>2 DEF Take, Goto, WorkersUp, Processing
    <2> QED
      BY <2>2, <2>3
  <1>3. CASE SettleCommit(s)
    <2>1. /\ settled' = [settled EXCEPT ![cur[s]] = @ + 1]
          /\ UNCHANGED <<msg, cur, holders>>
          /\ \E w \in {"ack", "markFailed"} : pc' = [pc EXCEPT ![s] = w]
      BY <1>3 DEF SettleCommit, CommitStatus, Goto
    <2>2. pc[s] = "settle" /\ s \in holders /\ cur[s] \in Txs /\ settled[cur[s]] = 0
      BY <1>3 DEF SettleCommit, WorkersUp, WorkerInv, OnceInv, Processing
    <2>3. msg[cur[s]] # "ready"
      BY <2>2 DEF DeliveryInv, HolderInv
    <2>4. \A t \in Sessions \ {s} : pc[t] \in {"check", "settle"} => cur[t] # cur[s]
      BY <2>2 DEF DeliveryInv, HolderInv, WorkersUp, Processing
    <2>5. OnceInv'
      <3>1. settled'[cur[s]] = 1 /\ \A u \in Txs \ {cur[s]} : settled'[u] = settled[u]
        BY <2>1, <2>2
      <3>2. \A t \in Sessions : pc'[t] \in {"check", "settle"} =>
              t # s /\ pc[t] \in {"check", "settle"} /\ cur[t] \in Txs
        BY <2>1 DEF WorkerInv, Processing
      <3> QED
        BY <2>1, <2>3, <2>4, <3>1, <3>2 DEF OnceInv
    <2>6. WorkersUp'
      BY <1>1, <2>1, <2>2 DEF WorkersUp, Processing
    <2> QED
      BY <2>5, <2>6
  <1>4. CASE Ack(s) \/ Nack(s)
    <2>1. UNCHANGED settled /\ \A tx \in Txs : msg'[tx] = "ready" => msg[tx] = "ready"
      BY <1>4 DEF Ack, Nack, Answer, rowVars
    <2>2. /\ pc' = [pc EXCEPT ![s] = "idle"]
          /\ \A t \in Sessions \ {s} : cur'[t] = cur[t] /\ (t \in holders => t \in holders')
      BY <1>4 DEF Ack, Nack, Answer, Goto
    <2>3. OnceInv'
      BY <2>1, <2>2 DEF OnceInv
    <2>4. WorkersUp'
      BY <1>1, <2>2 DEF WorkersUp, Processing
    <2> QED
      BY <2>3, <2>4
  <1>5. CASE \/ Check(s) \/ SettleBegin(s) \/ SettleStatement(s) \/ SettleFails(s)
             \/ SettleDeadlock(s) \/ MarkFailed(s) \/ WorkerExit(s)
    <2>1. UNCHANGED <<settled, msg, cur, holders>>
      BY <1>5 DEF Check, SettleBegin, SettleStatement, SettleFails, SettleDeadlock,
                  MarkFailed, WorkerExit, rowVars, workerVars
    <2>2. /\ \A t \in Sessions \ {s} : pc'[t] = pc[t]
          /\ pc'[s] # "orphan"
          /\ pc'[s] \in Processing => pc[s] \in Processing
          /\ pc'[s] \in {"check", "settle"} => pc[s] \in {"check", "settle"}
      BY <1>5 DEF Check, SettleBegin, SettleStatement, SettleFails, SettleDeadlock,
                  MarkFailed, WorkerExit, workerVars, Goto, Processing, WorkersUp
    <2>3. OnceInv'
      BY <2>1, <2>2 DEF OnceInv
    <2>4. WorkersUp'
      BY <1>1, <2>1, <2>2 DEF WorkersUp
    <2> QED
      BY <2>3, <2>4
  <1> QED
    BY <1>2, <1>3, <1>4, <1>5 DEF Worker

(***************************************************************************)
(* The idempotency check may be stale, and yet money moves at most once    *)
(* per transaction unless a message is delivered twice: for any number of  *)
(* requests, workers and processes, with a lagging replica, with failing   *)
(* calls of the database and commits whose success the worker never learns.*)
(***************************************************************************)
THEOREM SettledOnceUnlessRedelivered ==
  ASSUME NoRedelivery PROVE Spec => []SettledAtMostOnce
  <1>1. Init => WorkersUp /\ OnceInv
    BY DEF Init, WorkersUp, OnceInv, Processing
  <1>2. DeliveredOnce /\ [Next]_vars => WorkersUp' /\ OnceInv'
    <2> SUFFICES ASSUME DeliveredOnce, [Next]_vars PROVE WorkersUp' /\ OnceInv'
      OBVIOUS
    <2>1. CASE Replicate \/ UNCHANGED vars
      BY <2>1 DEF Replicate, vars, rowVars, workerVars, procVars, DeliveredOnce,
                  WorkersUp, OnceInv
    <2> QED
      BY <2>1, HandlerOnce, WorkerOnce, Undisturbed DEF Next, DeliveredOnce
  <1>3. SInv /\ OnceInv => SettledAtMostOnce
    BY DEF SInv, AsyncInv, AsyncTypeOK, OnceInv, SettledAtMostOnce
  <1> QED
    BY <1>1, <1>2, <1>3, DeliveryInvHolds, PTL DEF Spec, DeliveredOnce
=============================================================================
