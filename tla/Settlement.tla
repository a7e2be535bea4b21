------------------------------ MODULE Settlement ------------------------------
(***************************************************************************)
(* The asynchronous path of a transfer, from POST /transactions to its     *)
(* settlement: the handler saves a pending row and publishes a message     *)
(* (createAsync), and the worker goroutines of every server process take   *)
(* messages from the queue, settle them in a database transaction of       *)
(* module TransferDB and acknowledge them (Start, process, settle).        *)
(*                                                                         *)
(* External and modelled as src/ uses them: RabbitMQ (a durable queue with *)
(* manual acknowledgement, requeueing what a closed connection had not     *)
(* acknowledged, with a dead-letter queue), the asynchronous read replica  *)
(* and the operating system, which signals, kills and restarts processes.  *)
(*                                                                         *)
(* Messages are taken in any order: several consumers without a prefetch   *)
(* limit do not keep the order of the queue.  The ids of one process are   *)
(* distinct (module TxIdGenerator); two processes may draw the same id,    *)
(* and the INSERT of the later one is refused.                             *)
(***************************************************************************)
EXTENDS TransferDB

CONSTANTS
  Txs,               \* transaction ids
  NoTx,
  Requests,          \* orders that pass the handler's validation
  Procs,             \* server processes
  Host,              \* the process of each worker goroutine (Sessions)
  HasReplica,        \* DB_READ_REPLICA_ENABLED: GetByID reads a replica
  Faults,            \* kinds of fault that may happen
  MaxFaults          \* and how many of them

FaultKinds == {"db", "publishError", "publishLost", "conn", "sigterm", "crash"}

ASSUME SettlementAssumption ==
  /\ NoTx \notin Txs
  /\ Requests \subseteq Job
  /\ Host \in [Sessions -> Procs]
  /\ HasReplica \in BOOLEAN
  /\ Faults \subseteq FaultKinds
  /\ MaxFaults \in Nat

VARIABLES
  status,            \* transactions.status on the primary, "absent": no row
  replica,           \* the same column on the replica
  order,             \* what the request asked for
  home,              \* the process that handles the request
  api,               \* where its handler is, or the response it gave
  msg,               \* the message of a transaction
  pc,                \* where a worker goroutine is
  cur,               \* the transaction it processes
  holders,           \* the workers whose delivery is on an open channel
  proc,              \* state of a process; "terminating": ctx is cancelled
  consuming,         \* the processes whose delivery channel is open
  settled,           \* how often the money of a transaction has moved
  faults             \* faults so far

rowVars == <<status, replica, settled>>
apiVars == <<order, home, api>>
workerVars == <<pc, cur, holders>>
procVars == <<proc, consuming>>
vars == <<dbVars, rowVars, apiVars, msg, workerVars, procVars, faults>>

Statuses == {"absent", "pending", "completed", "failed"}
Running == {"save", "publish", "markFailed"}       \* handlers not yet finished
ApiStates == {"none"} \cup Running \cup {"202", "500", "dead"}
MsgStates == {"none", "ready", "unacked", "acked", "dead", "lost"}
Processing == {"check", "settle", "markFailed", "nack", "ack"}
WorkerStates == {"idle", "exited", "orphan"} \cup Processing
ProcStates == {"up", "terminating", "down"}

WorkersOf(p) == {s \in Sessions : Host[s] = p}
Cancelled(s) == proc[Host[s]] = "terminating"

Fault(kind) ==
  /\ kind \in Faults
  /\ faults < MaxFaults
  /\ faults' = faults + 1

(***************************************************************************)
(* A database call of worker s returns an error: its context is cancelled, *)
(* or the database is at fault.                                            *)
(***************************************************************************)
CallFails(s) == IF Cancelled(s) THEN UNCHANGED faults ELSE Fault("db")

Ok(s) == ~Cancelled(s) /\ UNCHANGED faults

(* Both foreign keys of table transactions are satisfied.                  *)
AccountsExist(j) == {j.src, j.dst} \subseteq Accounts

(***************************************************************************)
(* The foreign-key check of an INSERT waits while a transfer holds the row *)
(* FOR UPDATE, that is, as its source.                                     *)
(***************************************************************************)
ForUpdateLocked(a) == \E s \in Sessions : Open(s) /\ job[s].src = a

(* UPDATE transactions of a commit to come locks the row of tx.            *)
StatusRowLocked(tx) ==
  \E s \in Sessions : cur[s] = tx /\ stage[s] = "recorded"
-----------------------------------------------------------------------------
Init ==
  /\ DBInit
  /\ status = [tx \in Txs |-> "absent"]
  /\ replica = status
  /\ settled = [tx \in Txs |-> 0]
  /\ order = [tx \in Txs |-> NoJob]
  /\ home \in [Txs -> Procs]
  /\ api = [tx \in Txs |-> "none"]
  /\ msg = [tx \in Txs |-> "none"]
  /\ pc = [s \in Sessions |-> "idle"]
  /\ cur = [s \in Sessions |-> NoTx]
  /\ holders = {}
  /\ proc = [p \in Procs |-> "up"]
  /\ consuming = Procs
  /\ faults = 0
-----------------------------------------------------------------------------
(* The handler of POST /transactions, from nextTransactionID on.           *)

Submit(tx, j) ==
  /\ proc[home[tx]] = "up"
  /\ api[tx] = "none"
  /\ api' = [api EXCEPT ![tx] = "save"]
  /\ order' = [order EXCEPT ![tx] = j]
  /\ UNCHANGED <<dbVars, rowVars, home, msg, workerVars, procVars, faults>>

(* Mutant: table transactions without its foreign keys.                    *)
Save_NoForeignKeys(tx) ==
  /\ api[tx] = "save"
  /\ status' = [status EXCEPT ![tx] = "pending"]
  /\ api' = [api EXCEPT ![tx] = "publish"]
  /\ UNCHANGED <<dbVars, replica, settled, order, home, msg, workerVars, procVars, faults>>

(***************************************************************************)
(* Save: the INSERT of a pending row.  It is refused when an account does  *)
(* not exist, and for an id that another process has used: the INSERT has  *)
(* no ON CONFLICT clause, and createAsync returns the error either way.    *)
(***************************************************************************)
Save(tx) ==
  /\ api[tx] = "save"
  /\ \/ /\ AccountsExist(order[tx])
        /\ ~ForUpdateLocked(order[tx].src) /\ ~ForUpdateLocked(order[tx].dst)
        /\ status' = [status EXCEPT ![tx] = "pending"]
        /\ api' = [api EXCEPT ![tx] = "publish"]
     \/ /\ api' = [api EXCEPT ![tx] = "500"]
        /\ UNCHANGED status
  /\ UNCHANGED <<dbVars, replica, settled, order, home, msg, workerVars, procVars, faults>>

(* Save returns an error, although the row may have been inserted.         *)
SaveFails(tx) ==
  /\ api[tx] = "save"
  /\ Fault("db")
  /\ \/ AccountsExist(order[tx]) /\ status' = [status EXCEPT ![tx] = "pending"]
     \/ UNCHANGED status
  /\ api' = [api EXCEPT ![tx] = "500"]
  /\ UNCHANGED <<dbVars, replica, settled, order, home, msg, workerVars, procVars>>

Publish(tx) ==
  /\ api[tx] = "publish"
  /\ msg' = [msg EXCEPT ![tx] = "ready"]
  /\ api' = [api EXCEPT ![tx] = "202"]
  /\ UNCHANGED <<dbVars, rowVars, order, home, workerVars, procVars, faults>>

(* Publish asks for no confirmation: the message may never arrive.         *)
PublishLost(tx) ==
  /\ api[tx] = "publish"
  /\ Fault("publishLost")
  /\ msg' = [msg EXCEPT ![tx] = "lost"]
  /\ api' = [api EXCEPT ![tx] = "202"]
  /\ UNCHANGED <<dbVars, rowVars, order, home, workerVars, procVars>>

(* Mutant: a refused message is left to a retry in the background.         *)
PublishFails_Background(tx) ==
  /\ api[tx] = "publish"
  /\ Fault("publishError")
  /\ msg' = [msg EXCEPT ![tx] = "ready"]
  /\ api' = [api EXCEPT ![tx] = "markFailed"]
  /\ UNCHANGED <<dbVars, rowVars, order, home, workerVars, procVars>>

PublishFails(tx) ==
  /\ api[tx] = "publish"
  /\ Fault("publishError")
  /\ api' = [api EXCEPT ![tx] = "markFailed"]
  /\ UNCHANGED <<dbVars, rowVars, order, home, msg, workerVars, procVars>>

(* "Best-effort: mark failed if we can't publish."  An error is ignored.   *)
MarkUnpublished(tx) ==
  /\ api[tx] = "markFailed"
  /\ \/ status' = [status EXCEPT ![tx] = "failed"] /\ UNCHANGED faults
     \/ UNCHANGED status /\ Fault("db")
  /\ api' = [api EXCEPT ![tx] = "500"]
  /\ UNCHANGED <<dbVars, replica, settled, order, home, msg, workerVars, procVars>>
-----------------------------------------------------------------------------
(* A worker goroutine.                                                     *)

Goto(s, where) == pc' = [pc EXCEPT ![s] = where]

(***************************************************************************)
(* select picks a delivery; it may do so after ctx was cancelled, because  *)
(* select chooses at random among the channels that are ready.             *)
(***************************************************************************)
Take(s, tx) ==
  /\ pc[s] = "idle"
  /\ Host[s] \in consuming
  /\ msg[tx] = "ready"
  /\ msg' = [msg EXCEPT ![tx] = "unacked"]
  /\ cur' = [cur EXCEPT ![s] = tx]
  /\ holders' = holders \cup {s}
  /\ Goto(s, "check")
  /\ UNCHANGED <<dbVars, rowVars, apiVars, procVars, faults>>

(* GetByID, which reads the replica when there is one.                     *)
ReadStatus(tx) == IF HasReplica THEN replica[tx] ELSE status[tx]

(* Mutant: the message of a completed transaction is skipped without Ack.  *)
Check_SkipWithoutAck(s) ==
  /\ pc[s] = "check"
  /\ Ok(s)
  /\ IF ReadStatus(cur[s]) = "completed"
       THEN /\ Goto(s, "idle")
            /\ cur' = [cur EXCEPT ![s] = NoTx]
            /\ holders' = holders \ {s}
       ELSE Goto(s, "settle") /\ UNCHANGED <<cur, holders>>
  /\ UNCHANGED <<dbVars, rowVars, apiVars, msg, procVars>>

Check(s) ==
  /\ pc[s] = "check"
  /\ \/ Ok(s) /\ Goto(s, IF ReadStatus(cur[s]) = "completed" THEN "ack" ELSE "settle")
     \/ CallFails(s) /\ Goto(s, "settle")
  /\ UNCHANGED <<dbVars, rowVars, apiVars, msg, cur, holders, procVars>>

(* Mutant: settle returns on insufficient funds without the Rollback.      *)
SettleBegin_NoRollback(s) ==
  /\ pc[s] = "settle"
  /\ stage[s] = "idle"
  /\ Ok(s)
  /\ \/ LockSource(s, order[cur[s]]) /\ UNCHANGED pc
     \/ /\ InsufficientFunds(order[cur[s]])
        /\ rowLock' = [rowLock EXCEPT ![order[cur[s]].src] = s]
        /\ Goto(s, "markFailed")
        /\ UNCHANGED <<balance, draft, stage, job>>
  /\ UNCHANGED <<rowVars, apiVars, msg, cur, holders, procVars>>

(* settle begins: the source row is locked, or the transfer is given up.   *)
SettleBegin(s) ==
  /\ pc[s] = "settle"
  /\ stage[s] = "idle"
  /\ Ok(s)
  /\ \/ LockSource(s, order[cur[s]]) /\ UNCHANGED pc
     \/ /\ SourceMissing(order[cur[s]]) \/ InsufficientFunds(order[cur[s]])
        /\ Goto(s, "markFailed")
        /\ UNCHANGED dbVars
  /\ UNCHANGED <<rowVars, apiVars, msg, cur, holders, procVars>>

(* Mutant: the status is written on another connection than dbTx.          *)
SettleStatement_StatusOutside(s) ==
  /\ pc[s] = "settle"
  /\ Ok(s)
  /\ \/ (Debit(s) \/ Credit(s)) /\ UNCHANGED status
     \/ Record(s) /\ status' = [status EXCEPT ![cur[s]] = "completed"]
  /\ UNCHANGED <<replica, settled, apiVars, msg, workerVars, procVars>>

SettleStatement(s) ==
  /\ pc[s] = "settle"
  /\ Ok(s)
  /\ Debit(s) \/ Credit(s) \/ Record(s)
  /\ UNCHANGED <<rowVars, apiVars, msg, workerVars, procVars>>

(* Mutant: the literal in the UPDATE is not the value of StatusCompleted.  *)
CommitStatus_Literal(tx) ==
  /\ status' = [status EXCEPT ![tx] = "complete"]
  /\ settled' = [settled EXCEPT ![tx] = @ + 1]
  /\ UNCHANGED replica

(* What COMMIT makes visible besides the balances.                         *)
CommitStatus(tx) ==
  /\ status' = [status EXCEPT ![tx] = "completed"]
  /\ settled' = [settled EXCEPT ![tx] = @ + 1]
  /\ UNCHANGED replica

(* COMMIT, whose success the worker may fail to learn of.                  *)
SettleCommit(s) ==
  /\ pc[s] = "settle"
  /\ Commit(s)
  /\ CommitStatus(cur[s])
  /\ \/ Ok(s) /\ Goto(s, "ack")
     \/ CallFails(s) /\ Goto(s, "markFailed")
  /\ UNCHANGED <<apiVars, msg, cur, holders, procVars>>

(* Mutant: settle returns the error of a call without the Rollback.        *)
SettleFails_NoRollback(s) ==
  /\ pc[s] = "settle"
  /\ CallFails(s)
  /\ Goto(s, "markFailed")
  /\ UNCHANGED <<dbVars, rowVars, apiVars, msg, cur, holders, procVars>>

(* A call of settle returns an error and the deferred Rollback runs.       *)
SettleFails(s) ==
  /\ pc[s] = "settle"
  /\ CallFails(s)
  /\ IF Open(s) THEN Rollback({s}) ELSE UNCHANGED dbVars
  /\ Goto(s, "markFailed")
  /\ UNCHANGED <<rowVars, apiVars, msg, cur, holders, procVars>>

(* Mutant: the error of the aborted UPDATE is overlooked.                  *)
SettleDeadlock_Overlooked(s) ==
  /\ pc[s] = "settle"
  /\ DeadlockVictim(s)
  /\ Goto(s, "ack")
  /\ UNCHANGED <<rowVars, apiVars, msg, cur, holders, procVars, faults>>

SettleDeadlock(s) ==
  /\ pc[s] = "settle"
  /\ DeadlockVictim(s)
  /\ Goto(s, "markFailed")
  /\ UNCHANGED <<rowVars, apiVars, msg, cur, holders, procVars, faults>>

(* Mutant: the message is dropped without marking the transaction.         *)
MarkFailed_Skipped(s) ==
  /\ pc[s] = "markFailed"
  /\ Goto(s, "nack")
  /\ UNCHANGED <<dbVars, rowVars, apiVars, msg, cur, holders, procVars, faults>>

(***************************************************************************)
(* UpdateStatus(failed): overwrites whatever the row says; an error is     *)
(* ignored.                                                                *)
(***************************************************************************)
MarkFailed(s) ==
  /\ pc[s] = "markFailed"
  /\ \/ /\ Ok(s)
        /\ ~StatusRowLocked(cur[s])
        /\ status' = [status EXCEPT ![cur[s]] = "failed"]
     \/ CallFails(s) /\ UNCHANGED status
  /\ Goto(s, "nack")
  /\ UNCHANGED <<dbVars, replica, settled, apiVars, msg, cur, holders, procVars>>

(***************************************************************************)
(* Ack or Nack without requeueing: the goroutine goes back to select.  On  *)
(* a closed channel the call fails and the broker learns nothing.          *)
(***************************************************************************)
Answer(s, fate) ==
  /\ msg' = [msg EXCEPT ![cur[s]] = IF s \in holders THEN fate ELSE @]
  /\ cur' = [cur EXCEPT ![s] = NoTx]
  /\ holders' = holders \ {s}
  /\ Goto(s, "idle")
  /\ UNCHANGED <<dbVars, rowVars, apiVars, procVars, faults>>

Ack(s) == pc[s] = "ack" /\ Answer(s, "acked")

Nack(s) == pc[s] = "nack" /\ Answer(s, "dead")

(* select sees ctx.Done, or the delivery channel is closed.                *)
WorkerExit(s) ==
  /\ pc[s] = "idle"
  /\ Cancelled(s) \/ Host[s] \notin consuming
  /\ Goto(s, "exited")
  /\ UNCHANGED <<dbVars, rowVars, apiVars, msg, cur, holders, procVars, faults>>
-----------------------------------------------------------------------------
(* The surroundings.                                                       *)

Replicate ==
  /\ HasReplica
  /\ replica # status
  /\ replica' = status
  /\ UNCHANGED <<dbVars, status, settled, apiVars, msg, workerVars, procVars, faults>>

(* The deliveries that process p has not acknowledged are requeued.        *)
Requeue(p) ==
  /\ msg' = [tx \in Txs |-> IF \E s \in holders \cap WorkersOf(p) : cur[s] = tx
                              THEN "ready" ELSE msg[tx]]
  /\ holders' = holders \ WorkersOf(p)

(***************************************************************************)
(* The AMQP connection of p breaks.  Publish dials again when it is next   *)
(* called; the consumer's delivery channel is closed for good.             *)
(***************************************************************************)
ConnLoss(p) ==
  /\ proc[p] # "down"
  /\ p \in consuming
  /\ Fault("conn")
  /\ Requeue(p)
  /\ consuming' = consuming \ {p}
  /\ UNCHANGED <<dbVars, rowVars, apiVars, pc, cur, proc>>

(* signal.NotifyContext cancels ctx; the server takes no more requests.    *)
Sigterm(p) ==
  /\ proc[p] = "up"
  /\ Fault("sigterm")
  /\ proc' = [proc EXCEPT ![p] = "terminating"]
  /\ UNCHANGED <<dbVars, rowVars, apiVars, msg, workerVars, consuming>>

(***************************************************************************)
(* Process p is gone, with its handlers and workers.  PostgreSQL finds out *)
(* later about the transactions p had open.                                *)
(***************************************************************************)
Down(p) ==
  /\ proc' = [proc EXCEPT ![p] = "down"]
  /\ consuming' = consuming \ {p}
  /\ Requeue(p)
  /\ pc' = [s \in Sessions |-> IF Host[s] # p THEN pc[s]
                               ELSE IF Open(s) THEN "orphan" ELSE "exited"]
  /\ cur' = [s \in Sessions |-> IF Host[s] = p /\ ~Open(s) THEN NoTx ELSE cur[s]]
  /\ api' = [tx \in Txs |-> IF home[tx] = p /\ api[tx] \in Running
                              THEN "dead" ELSE api[tx]]
  /\ UNCHANGED <<dbVars, rowVars, order, home>>

Crash(p) == proc[p] # "down" /\ Fault("crash") /\ Down(p)

(* main returns after at most GracefulTimeout, not waiting for the workers. *)
Exit(p) == proc[p] = "terminating" /\ Down(p) /\ UNCHANGED faults

(***************************************************************************)
(* The end of a transaction whose client is gone: it is rolled back, or a  *)
(* COMMIT that was under way is carried out.                               *)
(***************************************************************************)
OrphanEnds(s) ==
  /\ pc[s] = "orphan"
  /\ \/ Rollback({s}) /\ UNCHANGED rowVars
     \/ Commit(s) /\ CommitStatus(cur[s])
  /\ Goto(s, "exited")
  /\ cur' = [cur EXCEPT ![s] = NoTx]
  /\ UNCHANGED <<apiVars, msg, holders, procVars, faults>>

(***************************************************************************)
(* The platform starts p again.  If Consume fails, Start returns at once   *)
(* and the process runs without workers; this is not counted as a fault of *)
(* its own, since a process restarts as often as it was lost.              *)
(***************************************************************************)
Restart(p) ==
  /\ proc[p] = "down"
  /\ \A s \in WorkersOf(p) : pc[s] = "exited"
  /\ proc' = [proc EXCEPT ![p] = "up"]
  /\ \/ /\ consuming' = consuming \cup {p}
        /\ pc' = [s \in Sessions |-> IF Host[s] = p THEN "idle" ELSE pc[s]]
     \/ "conn" \in Faults /\ UNCHANGED <<consuming, pc>>
  /\ UNCHANGED <<dbVars, rowVars, apiVars, msg, cur, holders, faults>>
-----------------------------------------------------------------------------
Handler(tx) ==
  \/ Save(tx) \/ SaveFails(tx)
  \/ Publish(tx) \/ PublishLost(tx) \/ PublishFails(tx) \/ MarkUnpublished(tx)

Worker(s) ==
  \/ \E tx \in Txs : Take(s, tx)
  \/ Check(s)
  \/ SettleBegin(s) \/ SettleStatement(s) \/ SettleCommit(s)
  \/ SettleFails(s) \/ SettleDeadlock(s)
  \/ MarkFailed(s) \/ Ack(s) \/ Nack(s) \/ WorkerExit(s)

Process(p) == ConnLoss(p) \/ Sigterm(p) \/ Crash(p) \/ Exit(p) \/ Restart(p)

Next ==
  \/ \E tx \in Txs : \/ \E j \in Requests : Submit(tx, j)
                     \/ Handler(tx)
  \/ \E s \in Sessions : Worker(s) \/ OrphanEnds(s)
  \/ Replicate
  \/ \E p \in Procs : Process(p)

Spec == Init /\ [][Next]_vars

(***************************************************************************)
(* Handlers, workers and the database go on with what they have begun, the *)
(* replica catches up, and the platform ends and restarts a process that   *)
(* was told to stop or has died.  Nothing promises that a request comes or *)
(* that a fault happens.  Weak fairness is enough for the calls that wait  *)
(* for a lock, because finitely many transactions take it.                 *)
(***************************************************************************)
Fairness ==
  /\ \A tx \in Txs :
       WF_vars(Save(tx)) /\ WF_vars(Publish(tx)) /\ WF_vars(MarkUnpublished(tx))
  /\ \A s \in Sessions :
       /\ WF_vars(\E tx \in Txs : Take(s, tx))
       /\ WF_vars(Check(s))
       /\ WF_vars(SettleBegin(s))
       /\ WF_vars(SettleStatement(s))
       /\ WF_vars(SettleCommit(s))
       /\ WF_vars(Cancelled(s) /\ SettleFails(s))
       /\ WF_vars(SettleDeadlock(s))
       /\ WF_vars(MarkFailed(s))
       /\ WF_vars(Ack(s) \/ Nack(s) \/ WorkerExit(s))
       /\ WF_vars(OrphanEnds(s))
  /\ WF_vars(Replicate)
  /\ \A p \in Procs : WF_vars(Exit(p)) /\ WF_vars(Restart(p))

FairSpec == Spec /\ Fairness
-----------------------------------------------------------------------------
(* Type invariant.                                                         *)
AsyncTypeOK ==
  /\ status \in [Txs -> Statuses] /\ replica \in [Txs -> Statuses]
  /\ settled \in [Txs -> Nat]
  /\ order \in [Txs -> Requests \cup {NoJob}]
  /\ home \in [Txs -> Procs]
  /\ api \in [Txs -> ApiStates]
  /\ msg \in [Txs -> MsgStates]
  /\ pc \in [Sessions -> WorkerStates]
  /\ cur \in [Sessions -> Txs \cup {NoTx}]
  /\ holders \subseteq Sessions
  /\ proc \in [Procs -> ProcStates] /\ consuming \subseteq Procs
  /\ faults \in 0..MaxFaults

TypeOK == DBTypeOK /\ AsyncTypeOK

(***************************************************************************)
(* The transfer service as its clients see it: rows of transactions and    *)
(* balances move as an atomic ledger's do.                                 *)
(***************************************************************************)
L == INSTANCE Ledger WITH
       outcome <- status,
       order <- [tx \in Txs |-> IF status[tx] = "absent" THEN NoJob ELSE order[tx]],
       Orders <- Requests,
       NoOrder <- NoJob,
       Transfer <- Moved

(***************************************************************************)
(* While no worker loses its connection, its process or the answer of the  *)
(* database, the asynchronous path implements the atomic ledger: every     *)
(* accepted transfer is completed in the step that moves its money, once,  *)
(* or failed with no money moved, and neither outcome changes later -      *)
(* despite competing workers, deadlocks and a lagging replica.             *)
(***************************************************************************)
ImplementsLedger == L!Spec

(* What the settlements of tx have added to account a so far.              *)
Net(tx, a) ==
  settled[tx] * ((IF order[tx].dst = a THEN order[tx].amount ELSE 0)
                 - (IF order[tx].src = a THEN order[tx].amount ELSE 0))

(***************************************************************************)
(* Whatever fails, the balances are accounted for by the settlements that  *)
(* committed: none leaves half a transfer behind, and a rollback, a crash  *)
(* or an orphaned session leaves nothing.                                  *)
(***************************************************************************)
BalancesAccountedFor ==
  \A a \in Accounts :
    balance[a] = InitialBalance[a] + SumFunction([tx \in Txs |-> Net(tx, a)])

(***************************************************************************)
(* A transaction is reported completed, by the primary or by the replica,  *)
(* and a message is acknowledged, only when the money has moved.           *)
(***************************************************************************)
CompletedMeansSettled ==
  \A tx \in Txs :
    \/ status[tx] = "completed" \/ replica[tx] = "completed" \/ msg[tx] = "acked"
      => settled[tx] > 0

(***************************************************************************)
(* An unacknowledged message is in the hands of exactly one worker that    *)
(* can still answer for it: no path through process returns without Ack or *)
(* Nack, and no failure leaves a delivery that nobody owns.                *)
(***************************************************************************)
DeliveryOwned ==
  \A tx \in Txs :
    (msg[tx] = "unacked") <=>
       \E s \in holders : /\ cur[s] = tx
                          /\ pc[s] \in Processing
                          /\ \A t \in holders \ {s} : cur[t] # tx

(***************************************************************************)
(* A message in the dead-letter queue is that of a failed transaction: no  *)
(* transfer is both dropped and still promised.                            *)
(***************************************************************************)
DeadLetterMeansFailed ==
  \A tx \in Txs : msg[tx] = "dead" => status[tx] = "failed"

(***************************************************************************)
(* A client that was told 500 may send its transfer again: although Save   *)
(* may have inserted the row and Publish may have been tried, the money of *)
(* a request that createAsync refused never moves.                         *)
(***************************************************************************)
RefusedNeverSettled ==
  \A tx \in Txs : api[tx] = "500" => settled[tx] = 0

(***************************************************************************)
(* What the workers rely on, and what makes CompletedMeansSettled          *)
(* inductive: a message carries an order between existing accounts, which  *)
(* the foreign keys checked before it was published, so that settle need   *)
(* not check the destination; a worker that processes a message, and a     *)
(* transaction left behind by one, belong to a published message; and a    *)
(* worker that is about to acknowledge has seen the money moved.           *)
(***************************************************************************)
OrderInv ==
  \A tx \in Txs :
    /\ api[tx] # "none" => order[tx] \in Requests
    /\ api[tx] = "publish" \/ msg[tx] # "none"
         => api[tx] # "none" /\ AccountsExist(order[tx])

WorkerInv ==
  \A s \in Sessions :
    /\ s \in holders => pc[s] \in Processing
    /\ pc[s] \in Processing \cup {"orphan"} => cur[s] \in Txs /\ msg[cur[s]] # "none"
    /\ pc[s] = "ack" => settled[cur[s]] > 0

OpenInv ==
  \A s \in Sessions :
    Open(s) => pc[s] \in {"settle", "orphan"} /\ job[s].dst \in Accounts

WorkInv == OrderInv /\ WorkerInv /\ OpenInv

(* The worker's idempotency check works: money moves once per transaction. *)
SettledAtMostOnce == \A tx \in Txs : settled[tx] <= 1

(* A transaction that is completed or failed stays so.                     *)
TerminalStatusFinal ==
  [][\A tx \in Txs : status[tx] \in {"completed", "failed"}
                        => status'[tx] = status[tx]]_status

(***************************************************************************)
(* The least that two sentences promise: "Idempotency: skip if already     *)
(* settled." of the worker, which is SettledAtMostOnce, and "Terminal      *)
(* states don't change" of ADR-004, which is TerminalStatusFinal.  By      *)
(* either of them no transaction is reported failed after its money moved  *)
(* twice.  Violated, so that one execution refutes both: a message is      *)
(* delivered again and settled by a worker that read the status before the *)
(* first COMMIT, and the answer to a COMMIT is lost, whereupon its worker  *)
(* writes failed over completed.                                           *)
(***************************************************************************)
FailedNotSettledTwice ==
  \A tx \in Txs : status[tx] = "failed" => settled[tx] <= 1

(***************************************************************************)
(* A client that was told 202 and polls the status sees it completed or    *)
(* failed in the end.                                                      *)
(***************************************************************************)
AcceptedResolved ==
  \A tx \in Txs : api[tx] = "202" ~> ReadStatus(tx) \in {"completed", "failed"}

(***************************************************************************)
(* Every message that reaches the queue leaves it, acknowledged or         *)
(* dead-lettered, although processes are killed and restarted: no worker   *)
(* waits for ever for a lock a dead one held.                              *)
(***************************************************************************)
DeliveriesEnd ==
  \A tx \in Txs : msg[tx] = "ready" ~> msg[tx] \in {"acked", "dead"}
=============================================================================
