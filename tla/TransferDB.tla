------------------------------ MODULE TransferDB ------------------------------
(***************************************************************************)
(* The money-moving database transaction, which the synchronous path       *)
(* (createSync) and the queue worker (settle) run statement by statement   *)
(* under READ COMMITTED:                                                   *)
(*                                                                         *)
(*   SELECT balance ... FOR UPDATE; check; UPDATE source; UPDATE dest;     *)
(*   write the transactions row; COMMIT.                                   *)
(*                                                                         *)
(* The table accounts is kept as its committed row versions, the owner of  *)
(* each row's lock, and the uncommitted versions of every open session.    *)
(* PostgreSQL itself is external and appears as the code uses it: a row    *)
(* lock is exclusive and held to the end of the transaction, an UPDATE     *)
(* computes from the newest version it may see, a cycle of waiting         *)
(* sessions is broken by failing one statement of the cycle, and a session *)
(* whose transaction fails leaves no trace.                                *)
(*                                                                         *)
(* Amounts and balances are counted in units of which Scale make a cent.   *)
(***************************************************************************)
EXTENDS Functions

CONSTANTS
  Accounts,         \* ids that have a row in table accounts
  AccountIds,       \* ids a request may name
  Amounts,          \* amounts a request may name once validated
  InitialBalance,
  Scale,            \* units per cent; a column NUMERIC(18,2) keeps whole cents
  Sessions,         \* goroutines that run the transaction, one connection each
  NoSession

ASSUME TransferDBAssumption ==
  /\ Accounts \subseteq AccountIds
  /\ Amounts \subseteq Nat \ {0}
  /\ Scale \in Nat \ {0}
  /\ InitialBalance \in [Accounts -> {v \in Nat : v % Scale = 0}]
  /\ NoSession \notin Sessions

VARIABLES
  balance,          \* committed accounts.balance
  rowLock,          \* session that holds the lock of an accounts row
  draft,            \* per session, the uncommitted row versions it wrote
  stage,            \* per session, how far its transaction has got
  job               \* per session, the transfer it is running

dbVars == <<balance, rowLock, draft, stage, job>>

Job == [src : AccountIds, dst : AccountIds, amount : Amounts]
NoJob == [src |-> 0, dst |-> 0, amount |-> 0]
NoDraft == [a \in {} |-> 0]
Stages == {"idle", "locked", "debited", "credited", "recorded"}

(* Mutant: a column that keeps every digit.                                *)
Round_None(v) == v

(***************************************************************************)
(* Storing a number in a NUMERIC(18,2) column rounds it to whole cents,    *)
(* halves away from zero.                                                  *)
(***************************************************************************)
Round(v) ==
  LET cents(n) == ((2 * n + Scale) \div (2 * Scale)) * Scale
  IN  IF v >= 0 THEN cents(v) ELSE -cents(-v)

Open(s) == stage[s] # "idle"

(***************************************************************************)
(* The version of row a that session s sees and would update: its own      *)
(* uncommitted one, or else the last committed one.                        *)
(***************************************************************************)
Row(s, a) == IF a \in DOMAIN draft[s] THEN draft[s][a] ELSE balance[a]

(***************************************************************************)
(* UPDATE accounts SET balance = balance + delta WHERE id = id, inside     *)
(* session s: every row that matches, which is none for an unknown id.     *)
(***************************************************************************)
Matching(id) == {id} \cap Accounts

UpdateRows(s, id, delta) ==
  draft' = [draft EXCEPT ![s] =
              [a \in DOMAIN draft[s] \cup Matching(id) |->
                 IF a \in Matching(id) THEN Round(Row(s, a) + delta)
                                       ELSE draft[s][a]]]

(* COMMIT and ROLLBACK end the transactions of the sessions in S.          *)
EndTransactions(S) ==
  /\ rowLock' = [a \in Accounts |->
                   IF rowLock[a] \in S THEN NoSession ELSE rowLock[a]]
  /\ draft' = [s \in Sessions |-> IF s \in S THEN NoDraft ELSE draft[s]]
  /\ stage' = [s \in Sessions |-> IF s \in S THEN "idle" ELSE stage[s]]
  /\ job' = [s \in Sessions |-> IF s \in S THEN NoJob ELSE job[s]]
-----------------------------------------------------------------------------
DBInit ==
  /\ balance = InitialBalance
  /\ rowLock = [a \in Accounts |-> NoSession]
  /\ draft = [s \in Sessions |-> NoDraft]
  /\ stage = [s \in Sessions |-> "idle"]
  /\ job = [s \in Sessions |-> NoJob]

(***************************************************************************)
(* The answers of SELECT balance FROM accounts WHERE id = src FOR UPDATE   *)
(* on which the transaction is given up at once: no such row, or too       *)
(* little money in it.  The second has to wait for the row's lock.         *)
(***************************************************************************)
SourceMissing(j) == j.src \notin Accounts

SourceFree(j) == j.src \in Accounts /\ rowLock[j.src] = NoSession

InsufficientFunds(j) == SourceFree(j) /\ balance[j.src] < j.amount

(* Mutant: the balance is read without FOR UPDATE.                         *)
LockSource_NoForUpdate(s, j) ==
  /\ stage[s] = "idle"
  /\ j.src \in Accounts
  /\ balance[j.src] >= j.amount
  /\ stage' = [stage EXCEPT ![s] = "locked"]
  /\ job' = [job EXCEPT ![s] = j]
  /\ UNCHANGED <<balance, rowLock, draft>>

(* BEGIN; SELECT ... FOR UPDATE; the balance covers the amount.            *)
LockSource(s, j) ==
  /\ stage[s] = "idle"
  /\ SourceFree(j)
  /\ balance[j.src] >= j.amount
  /\ rowLock' = [rowLock EXCEPT ![j.src] = s]
  /\ stage' = [stage EXCEPT ![s] = "locked"]
  /\ job' = [job EXCEPT ![s] = j]
  /\ UNCHANGED <<balance, draft>>

(* UPDATE accounts SET balance = balance - amount WHERE id = src.          *)
Debit(s) ==
  /\ stage[s] = "locked"
  /\ UpdateRows(s, job[s].src, -job[s].amount)
  /\ stage' = [stage EXCEPT ![s] = "debited"]
  /\ UNCHANGED <<balance, rowLock, job>>

(* Mutant: the destination row is updated without waiting for its lock.    *)
Credit_NoWait(s) ==
  /\ stage[s] = "debited"
  /\ UpdateRows(s, job[s].dst, job[s].amount)
  /\ stage' = [stage EXCEPT ![s] = "credited"]
  /\ UNCHANGED <<balance, rowLock, job>>

(***************************************************************************)
(* UPDATE accounts SET balance = balance + amount WHERE id = dst: waits    *)
(* for the row's lock; updates nothing, and reports no error, when there   *)
(* is no such row.                                                         *)
(***************************************************************************)
Credit(s) ==
  /\ stage[s] = "debited"
  /\ \A a \in Matching(job[s].dst) : rowLock[a] \in {NoSession, s}
  /\ rowLock' = [a \in Accounts |->
                   IF a \in Matching(job[s].dst) THEN s ELSE rowLock[a]]
  /\ UpdateRows(s, job[s].dst, job[s].amount)
  /\ stage' = [stage EXCEPT ![s] = "credited"]
  /\ UNCHANGED <<balance, job>>

(* The statement that writes the row of table transactions.                *)
Record(s) ==
  /\ stage[s] = "credited"
  /\ stage' = [stage EXCEPT ![s] = "recorded"]
  /\ UNCHANGED <<balance, rowLock, draft, job>>

Commit(s) ==
  /\ stage[s] = "recorded"
  /\ balance' = [a \in Accounts |-> Row(s, a)]
  /\ EndTransactions({s})

(***************************************************************************)
(* The deferred Rollback after a failed statement, or the server noticing  *)
(* that the clients of a set of sessions are gone.                         *)
(***************************************************************************)
Rollback(S) ==
  /\ S # {}
  /\ \A s \in S : Open(s)
  /\ EndTransactions(S)
  /\ UNCHANGED balance

(***************************************************************************)
(* Session s waits for a row lock of session WaitsFor(s).  A session is    *)
(* deadlocked when it lies on a cycle of this relation.                    *)
(***************************************************************************)
Waiting(s) ==
  /\ stage[s] = "debited"
  /\ job[s].dst \in Accounts
  /\ rowLock[job[s].dst] \notin {NoSession, s}

WaitsFor(s) == rowLock[job[s].dst]

Deadlocked(s) ==
  \E C \in SUBSET {t \in Sessions : Waiting(t)} :
    s \in C /\ {WaitsFor(t) : t \in C} = C

(* deadlock_timeout expires for a session of a cycle.                      *)
DeadlockVictim(s) == Deadlocked(s) /\ Rollback({s})
-----------------------------------------------------------------------------
(***************************************************************************)
(* On its own, the module lets every session run any transfer and fail at  *)
(* any statement.  That the destination exists by the time of the first    *)
(* UPDATE is the callers' obligation: createSync asks with SELECT EXISTS,  *)
(* the worker relies on the foreign keys of the pending row.               *)
(***************************************************************************)
DBNext ==
  \/ \E s \in Sessions, j \in Job : LockSource(s, j)
  \/ \E s \in Sessions :
       \/ job[s].dst \in Accounts /\ Debit(s)
       \/ Credit(s) \/ Record(s) \/ Commit(s) \/ DeadlockVictim(s)
  \/ \E S \in SUBSET Sessions : Rollback(S)

DBSpec == DBInit /\ [][DBNext]_dbVars
-----------------------------------------------------------------------------
(* Type invariant; the column accounts.balance only holds whole cents.     *)
DBTypeOK ==
  /\ balance \in [Accounts -> Int]
  /\ \A a \in Accounts : balance[a] % Scale = 0
  /\ rowLock \in [Accounts -> Sessions \cup {NoSession}]
  /\ stage \in [Sessions -> Stages]
  /\ job \in [Sessions -> Job \cup {NoJob}]
  /\ DOMAIN draft = Sessions
  /\ \A s \in Sessions : /\ DOMAIN draft[s] \subseteq Accounts
                         /\ draft[s] \in [DOMAIN draft[s] -> Int]

(***************************************************************************)
(* No interleaving of transfers overdraws an account: the balance check    *)
(* of createSync and settle still holds when the debit commits.            *)
(***************************************************************************)
NoOverdraft == \A a \in Accounts : balance[a] >= 0

(***************************************************************************)
(* Money is neither created nor destroyed: the balances always add up to   *)
(* what was there at first.                                                *)
(***************************************************************************)
Conservation == SumFunction(balance) = SumFunction(InitialBalance)

(* What a transfer does to the balances when it runs alone.                *)
Moved(b, j) ==
  [[b EXCEPT ![j.src] = Round(@ - j.amount)]
     EXCEPT ![j.dst] = Round(@ + j.amount)]

(***************************************************************************)
(* Transfers are atomic and isolated: whatever the interleaving, each      *)
(* change of the committed balances is one whole transfer applied to the   *)
(* balances just before it, with the money for it there.  Nothing is lost  *)
(* to a concurrent update and no half transfer becomes visible.            *)
(***************************************************************************)
OnlyTransfers ==
  [][\E j \in Job : /\ j.src \in Accounts
                    /\ j.dst \in Accounts
                    /\ balance[j.src] >= j.amount
                    /\ balance' = Moved(balance, j)]_balance

(***************************************************************************)
(* What a held lock means, the strengthening that makes NoOverdraft        *)
(* inductive: an open transaction owns its source row, whose committed     *)
(* balance covers the amount, and its destination row once it is credited, *)
(* which exists once anything is written;                                  *)
(* its drafts are what a lone transfer computes from the committed         *)
(* balances; and a row is locked only by a transaction that is open.       *)
(***************************************************************************)
JobInv ==
  \A s \in Sessions :
    Open(s) => /\ job[s] \in Job
               /\ job[s].src \in Accounts
               /\ stage[s] # "locked" => job[s].dst \in Accounts

SourceInv ==
  \A s \in Sessions : Open(s) => /\ rowLock[job[s].src] = s
                                 /\ balance[job[s].src] >= job[s].amount

DestInv ==
  \A s \in Sessions :
    stage[s] \in {"credited", "recorded"} => rowLock[job[s].dst] = s

(* The rows of which s has written a version. *)
Written(s) ==
  {a \in Accounts :
     \/ a = job[s].src /\ stage[s] \in {"debited", "credited", "recorded"}
     \/ a = job[s].dst /\ stage[s] \in {"credited", "recorded"}}

DraftInv ==
  \A s \in Sessions :
    /\ DOMAIN draft[s] = Written(s)
    /\ stage[s] = "debited" =>
         draft[s][job[s].src] = Round(balance[job[s].src] - job[s].amount)
    /\ stage[s] \in {"credited", "recorded"} =>
         \A a \in Written(s) : draft[s][a] = Moved(balance, job[s])[a]

OwnerInv ==
  \A a \in Accounts : rowLock[a] # NoSession => stage[rowLock[a]] # "idle"

LockInv == JobInv /\ SourceInv /\ DestInv /\ DraftInv /\ OwnerInv
=============================================================================
