----------------------------- MODULE SyncTransfer -----------------------------
(***************************************************************************)
(* The synchronous path of a transfer: the handler of POST /transactions   *)
(* validates the body, draws an id, and createSync runs the transaction of *)
(* module TransferDB on a connection of its process's pool.                *)
(*                                                                         *)
(* A session is the goroutine of one request.  The clocks of two processes *)
(* may yield the same id; within a process nextTransactionID returns ever  *)
(* larger ones, which is the subject of another module.  The invalidation  *)
(* of the cached balances after the commit is the subject of module        *)
(* CacheAside.                                                             *)
(***************************************************************************)
EXTENDS TransferDB, FiniteSets

CONSTANTS
  Procs,             \* server processes
  Homes,             \* ways to distribute the requests (Sessions) to the processes
  Bodies,            \* the bodies the request of a session may have
  Ids,               \* transaction ids
  NoId,
  MaxOpenConns,      \* connections of the pool of a process
  Faults,            \* kinds of fault that may happen
  MaxFaults          \* and how many of them

FaultKinds == {"db", "crash"}

ASSUME SyncTransferAssumption ==
  /\ Homes \subseteq [Sessions -> Procs]
  /\ \A s \in Sessions :
       Bodies[s] \subseteq [src : AccountIds \cup {0}, dst : AccountIds \cup {0},
                            amount : Amounts \cup {0}]
  /\ 0 \notin AccountIds
  /\ Ids \subseteq Nat
  /\ NoId \notin Ids
  /\ MaxOpenConns \in Nat \ {0}
  /\ Faults \subseteq FaultKinds
  /\ MaxFaults \in Nat

VARIABLES
  pc,                \* where the handler is, or the response it gave
  home,              \* the process that handles the request
  body,              \* what the request asks for
  id,                \* the transaction id it drew
  rows,              \* table transactions: the transfer of each id, all completed
  moved,             \* the requests whose money has moved
  faults

reqVars == <<pc, home, body, id>>
vars == <<dbVars, reqVars, rows, moved, faults>>

Connected == {"lock", "exists", "write"}         \* a connection is taken
Running == {"begin", "invalidate"} \cup Connected
Answers == {"201", "400", "422", "500"}
PCs == {"none", "dead"} \cup Running \cup Answers

Fault(kind) ==
  /\ kind \in Faults
  /\ faults < MaxFaults
  /\ faults' = faults + 1

Goto(s, where) == pc' = [pc EXCEPT ![s] = where]

(* The connections of process p that its requests hold.                    *)
InUse(p) == {s \in Sessions : home[s] = p /\ pc[s] \in Connected}
-----------------------------------------------------------------------------
Init ==
  /\ DBInit
  /\ pc = [s \in Sessions |-> "none"]
  /\ home \in Homes
  /\ body = [s \in Sessions |-> NoJob]
  /\ id = [s \in Sessions |-> NoId]
  /\ rows = [i \in Ids |-> NoJob]
  /\ moved = {}
  /\ faults = 0

Valid(b) == b.src # 0 /\ b.dst # 0 /\ b.amount > 0

(* The handler refuses a body that lacks a field or cannot be parsed.      *)
Refuse(s, b) ==
  /\ pc[s] = "none"
  /\ ~Valid(b)
  /\ body' = [body EXCEPT ![s] = b]
  /\ Goto(s, "400")
  /\ UNCHANGED <<dbVars, home, id, rows, moved, faults>>

Submit(s, b, i) ==
  /\ pc[s] = "none"
  /\ Valid(b)
  /\ \A t \in Sessions : (home[t] = home[s] /\ id[t] # NoId) => id[t] < i
  /\ body' = [body EXCEPT ![s] = b]
  /\ id' = [id EXCEPT ![s] = i]
  /\ Goto(s, "begin")
  /\ UNCHANGED <<dbVars, home, rows, moved, faults>>

(* BeginTxx waits for a connection of the pool.                            *)
Begin(s) ==
  /\ pc[s] = "begin"
  /\ Cardinality(InUse(home[s])) < MaxOpenConns
  /\ Goto(s, "lock")
  /\ UNCHANGED <<dbVars, home, body, id, rows, moved, faults>>

(* SELECT ... FOR UPDATE and the balance check; giving up rolls back.      *)
Lock(s) ==
  /\ pc[s] = "lock"
  /\ \/ LockSource(s, body[s]) /\ Goto(s, "exists")
     \/ /\ SourceMissing(body[s]) \/ InsufficientFunds(body[s])
        /\ Goto(s, "422")
        /\ UNCHANGED dbVars
  /\ UNCHANGED <<home, body, id, rows, moved, faults>>

(* Mutant: SELECT EXISTS is sent to the pool, not to the transaction.      *)
CheckDest_OtherConn(s) ==
  /\ pc[s] = "exists"
  /\ Cardinality(InUse(home[s])) < MaxOpenConns
  /\ IF body[s].dst \in Accounts
       THEN Goto(s, "write") /\ UNCHANGED dbVars
       ELSE Goto(s, "422") /\ Rollback({s})
  /\ UNCHANGED <<home, body, id, rows, moved, faults>>

(* SELECT EXISTS for the destination, on the same connection.              *)
CheckDest(s) ==
  /\ pc[s] = "exists"
  /\ IF body[s].dst \in Accounts
       THEN Goto(s, "write") /\ UNCHANGED dbVars
       ELSE Goto(s, "422") /\ Rollback({s})
  /\ UNCHANGED <<home, body, id, rows, moved, faults>>

(***************************************************************************)
(* The three writing statements.  INSERT ... ON CONFLICT waits for another *)
(* transaction that has written the same id.                               *)
(***************************************************************************)
IdLocked(s) ==
  \E t \in Sessions \ {s} : stage[t] = "recorded" /\ id[t] = id[s]

(* A row of table transactions: the column amount keeps whole cents.       *)
Rounded(b) == [b EXCEPT !.amount = Round(@)]

(* Mutant: the row is written on another connection than dbTx.             *)
Write_RowOutside(s) ==
  /\ pc[s] = "write"
  /\ \/ (Debit(s) \/ Credit(s)) /\ UNCHANGED rows
     \/ Record(s) /\ rows' = [rows EXCEPT ![id[s]] = Rounded(body[s])]
  /\ UNCHANGED <<reqVars, moved, faults>>

Write(s) ==
  /\ pc[s] = "write"
  /\ Debit(s) \/ Credit(s) \/ (~IdLocked(s) /\ Record(s))
  /\ UNCHANGED <<reqVars, rows, moved, faults>>

(***************************************************************************)
(* What COMMIT makes visible besides the balances: a new row, or, for an   *)
(* id that has one, only its status, which is completed already.           *)
(***************************************************************************)
Upsert(s) ==
  /\ rows' = [rows EXCEPT ![id[s]] = IF @ = NoJob THEN Rounded(body[s]) ELSE @]
  /\ moved' = moved \cup {s}

(* COMMIT, whose success createSync may fail to learn of.                  *)
SyncCommit(s) ==
  /\ pc[s] = "write"
  /\ Commit(s)
  /\ Upsert(s)
  /\ \/ Goto(s, "invalidate") /\ UNCHANGED faults
     \/ Goto(s, "500") /\ Fault("db")
  /\ UNCHANGED <<home, body, id>>

Respond(s) ==
  /\ pc[s] = "invalidate"
  /\ Goto(s, "201")
  /\ UNCHANGED <<dbVars, home, body, id, rows, moved, faults>>

(***************************************************************************)
(* A call returns an error, because of the database or because the request *)
(* is cancelled: its client has gone, or ContextTimeout has expired.  The  *)
(* deferred Rollback runs.                                                 *)
(***************************************************************************)
CallFails(s) ==
  /\ pc[s] \in {"begin"} \cup Connected
  /\ Fault("db")
  /\ IF Open(s) THEN Rollback({s}) ELSE UNCHANGED dbVars
  /\ Goto(s, "500")
  /\ UNCHANGED <<home, body, id, rows, moved>>

(* Mutant: the error of the aborted UPDATE is overlooked.                  *)
SyncDeadlock_Overlooked(s) ==
  /\ pc[s] = "write"
  /\ DeadlockVictim(s)
  /\ Goto(s, "invalidate")
  /\ UNCHANGED <<home, body, id, rows, moved, faults>>

SyncDeadlock(s) ==
  /\ pc[s] = "write"
  /\ DeadlockVictim(s)
  /\ Goto(s, "500")
  /\ UNCHANGED <<home, body, id, rows, moved, faults>>

(* Process p dies with its requests; the platform starts it again.         *)
Crash(p) ==
  /\ Fault("crash")
  /\ pc' = [s \in Sessions |-> IF home[s] = p /\ pc[s] \in Running
                                 THEN "dead" ELSE pc[s]]
  /\ UNCHANGED <<dbVars, home, body, id, rows, moved>>

(* The server ends the transaction of a dead client; COMMIT may be sent.   *)
OrphanEnds(s) ==
  /\ pc[s] = "dead"
  /\ \/ Rollback({s}) /\ UNCHANGED <<rows, moved>>
     \/ Commit(s) /\ Upsert(s)
  /\ UNCHANGED <<reqVars, faults>>
-----------------------------------------------------------------------------
Step(s) ==
  \/ Begin(s) \/ Lock(s) \/ CheckDest(s) \/ Write(s) \/ SyncCommit(s)
  \/ Respond(s) \/ SyncDeadlock(s) \/ OrphanEnds(s)

Next ==
  \/ \E s \in Sessions :
       \/ \E b \in Bodies[s] : Refuse(s, b) \/ \E i \in Ids : Submit(s, b, i)
       \/ Step(s)
       \/ CallFails(s)
  \/ \E p \in Procs : Crash(p)

Spec == Init /\ [][Next]_vars

(***************************************************************************)
(* A handler goes on with what it has begun and the server gets rid of a   *)
(* dead client's transaction.  Nothing promises that a request comes or    *)
(* that a fault happens.  Weak fairness is enough for the calls that wait  *)
(* for a connection or a lock, because finitely many requests take it.     *)
(***************************************************************************)
FairSpec == Spec /\ \A s \in Sessions : WF_vars(Step(s))
-----------------------------------------------------------------------------
(* Type invariant.                                                         *)
TypeOK ==
  /\ DBTypeOK
  /\ pc \in [Sessions -> PCs]
  /\ home \in [Sessions -> Procs]
  /\ \A s \in Sessions : body[s] \in Bodies[s] \cup {NoJob}
  /\ id \in [Sessions -> Ids \cup {NoId}]
  /\ rows \in [Ids -> [src : Accounts, dst : Accounts, amount : Nat] \cup {NoJob}]
  /\ moved \subseteq Sessions
  /\ faults \in 0..MaxFaults

(***************************************************************************)
(* What a transfer takes from its source and gives to its destination.     *)
(* Both UPDATEs round the new balance, halves up, so that half a cent is   *)
(* given but not taken.                                                    *)
(***************************************************************************)
Taken(b) == ((2 * b.amount + Scale - 1) \div (2 * Scale)) * Scale

Given(b) == ((2 * b.amount + Scale) \div (2 * Scale)) * Scale

Net(s, a) ==
  IF s \in moved THEN (IF body[s].dst = a THEN Given(body[s]) ELSE 0)
                     - (IF body[s].src = a THEN Taken(body[s]) ELSE 0)
                 ELSE 0

(***************************************************************************)
(* The books balance to the cent: whatever fails or dies, every account    *)
(* holds what it held at first and the transfers of exactly those requests *)
(* whose COMMIT was carried out - createSync leaves no half transfer, and  *)
(* nothing is lost to a concurrent update.                                 *)
(***************************************************************************)
BooksBalance ==
  \A a \in Accounts :
    balance[a] = InitialBalance[a] + SumFunction([s \in Sessions |-> Net(s, a)])

(***************************************************************************)
(* A client can rely on the response: 201 means the money has moved and    *)
(* its id is on record, 400 and 422 mean that it has not and never will.   *)
(* 500 leaves it open, because the answer to a COMMIT may be lost.         *)
(***************************************************************************)
ResponsesTruthful ==
  \A s \in Sessions :
    /\ pc[s] = "201" => s \in moved /\ rows[id[s]] # NoJob
    /\ pc[s] \in {"400", "422"} => s \notin moved /\ ~Open(s)

(***************************************************************************)
(* Table transactions tells the truth: each row is a transfer that was     *)
(* made, with its amount in whole cents, and each transfer has a row, its  *)
(* own unless a request of another process drew the same id and moved      *)
(* money too.                                                              *)
(***************************************************************************)
RowsTellTransfers ==
  \A i \in Ids :
    LET movers == {s \in moved : id[s] = i}
    IN  IF movers = {} THEN rows[i] = NoJob
                       ELSE \E s \in movers : rows[i] = [body[s] EXCEPT !.amount = Given(body[s])]

(***************************************************************************)
(* The outcome of a request as the ledger sees it: pending from the time   *)
(* it is taken up, while its transaction may still be committed, by a dead *)
(* client too.                                                             *)
(***************************************************************************)
Outcome(s) ==
  IF s \in moved THEN "completed"
  ELSE IF \/ pc[s] \in {"none", "400"}
          \/ ~({body[s].src, body[s].dst} \subseteq Accounts) THEN "absent"
  ELSE IF pc[s] \in Running \/ Open(s) THEN "pending"
  ELSE "failed"

L == INSTANCE Ledger WITH
       Txs <- Sessions,
       outcome <- [s \in Sessions |-> Outcome(s)],
       order <- [s \in Sessions |-> IF Outcome(s) = "absent" THEN NoJob ELSE body[s]],
       Orders <- UNION {Bodies[s] : s \in Sessions},
       NoOrder <- NoJob,
       Transfer <- Moved

(***************************************************************************)
(* Under every fault, the synchronous path implements the atomic ledger:   *)
(* a request's money moves in one step and at most once, out of an account *)
(* that holds it, and never after the request was refused or failed.       *)
(***************************************************************************)
ImplementsLedger == L!Spec

(***************************************************************************)
(* Every request is answered unless its process dies, without any need of  *)
(* the time limit of ContextTimeout: no request waits for ever for a       *)
(* connection of the pool, a row lock or the id another one has written.   *)
(***************************************************************************)
RequestsAnswered ==
  \A s \in Sessions : pc[s] \in Running ~> pc[s] \in Answers \cup {"dead"}
=============================================================================
